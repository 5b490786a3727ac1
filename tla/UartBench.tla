----------------------------- MODULE UartBench ------------------------------
(***************************************************************************)
(* The UART test bench: a host tool drives the Nano over FMGO and the Pico *)
(* peer over USB, and the two boards' UARTs are wired to each other.       *)
(* Three tools share the steps of a leg, one configuration exercised in    *)
(* both directions: uart_peer_smoke ("peer"), uart_format_matrix           *)
(* ("matrix") and uart_overrun ("overrun").                                *)
(*                                                                         *)
(* A byte is <<leg, position in the leg's pattern>>; leg 0 is the burst.   *)
(* A wire has no delay.  Whatever the line, the boards or the clock do     *)
(* beyond what the tools arrange for ends the clean run.                   *)
(***************************************************************************)
EXTENDS Naturals, Sequences

CONSTANTS
  Tools,     \* the tools that may be run, a subset of the three
  Modes,     \* receive modes the Pico may have been left in
  Legs,      \* configurations a tool exercises
  Count,     \* bytes per transfer
  Burst,     \* bytes of the unsolicited burst
  RxBytes,   \* receive_capacity of the Nano
  MaxNoise,  \* bound: bytes the line garbles, loses or adds
  MaxBoots   \* bound: restarts of the Nano

VARIABLES
  tool,   \* the tool's progress and what it remembers
  nano,   \* UartBackend, its driver and the FMGO session of the owner
  pico,   \* pico_uart_peer.ino
  heard,  \* history: per leg, what the Pico compared and the tool received
  clean,  \* history: nothing beyond the bench's own doing has happened
  noise   \* bytes the line has spoilt so far

vars == <<tool, nano, pico, heard, clean, noise>>

Glitch == <<Legs + 1, 0>>     \* a transition or a garbled byte
Pattern(l, n) == [i \in 1 .. n |-> <<l, i>>]
None == [boot |-> 0, over |-> 0, disc |-> 0]

Transfer == <<"clear", "sink", "expect", "transmit", "expect_done", "send",
              "receive", "send_done", "status", "check", "close">>
Leg == <<"configure", "open", "observe">> \o Transfer
Probing == <<"configure", "open", "observe", "clear", "refuse", "diagnose", "close">>
LegsFrom[l \in 0 .. Legs] == IF l = 0 THEN <<>> ELSE Leg \o LegsFrom[l - 1]
Script(t) ==
  CASE t = "peer" -> <<"baseline">> \o LegsFrom[Legs]
    [] t = "matrix" -> <<"baseline">> \o Probing \o LegsFrom[Legs]
    [] t = "overrun" -> <<"clear", "cleanup", "burst", "burst_done", "overflow",
                          "acquire">> \o Transfer

Fresh(b) == [boot |-> b, fmt |-> 1, rx |-> <<>>, latch |-> FALSE, over |-> 0,
             disc |-> 0, owned |-> FALSE, in |-> <<>>, out |-> <<>>,
             rxBytes |-> 0, txBytes |-> 0, dropped |-> 0]

Init ==
  /\ \E t \in Tools, m \in Modes :
       /\ tool = [name |-> t, pc |-> 1, leg |-> 0, base |-> None, seen |-> None,
                  session |-> 0, got |-> <<>>, result |-> "running", closed |-> 0]
       /\ pico = [fmt |-> 1, mode |-> m, first |-> m, rx |-> <<>>, left |-> 0,
                  bad |-> 0, rxCount |-> 0, txCount |-> 0, over |-> 0,
                  send |-> 0, seed |-> 0, events |-> <<>>]
  /\ nano = Fresh(1)
  /\ heard = [l \in 1 .. Legs |-> [pico |-> <<>>, tool |-> <<>>]]
  /\ clean = TRUE /\ noise = 0

----------------------------------------------------------------------------
(* The boards' receivers. *)

\* SerialUART's interrupt handler: a byte that finds the queue full is dropped
\* and latches the overflow flag.
Arrive(n, b) == IF Len(n.rx) < RxBytes THEN [n EXCEPT !.rx = Append(@, b)]
                ELSE [n EXCEPT !.latch = TRUE, !.dropped = @ + 1]

\* A byte sent in one format and sampled in another is not that byte.
Sampled(b) == IF nano.fmt = pico.fmt THEN b ELSE Glitch

Observe(n) == [n EXCEPT !.over = IF n.latch THEN @ + 1 ELSE @, !.latch = FALSE]

Discard(n) == [Observe(n) EXCEPT !.disc = @ + Len(n.rx), !.rx = <<>>]

\* driver_.configure: end() and begin() empty the queue and clear the flag; the
\* line may show the Pico a transition byte.
Reinitialize(n, f) == [n EXCEPT !.fmt = f, !.rx = <<>>, !.latch = FALSE]
Configure(n, f) == Reinitialize(Discard(n), f)

\* Channel::acquire after the configuration: the stream starts empty.
Acquire(n) == [Discard(n) EXCEPT !.owned = TRUE, !.in = <<>>, !.out = <<>>,
                                 !.rxBytes = 0, !.txBytes = 0]
Release(n) == [Discard(n) EXCEPT !.owned = FALSE, !.in = <<>>]

\* Stream::pump from the UART to the owner's socket.
NanoRead ==
  /\ nano.owned /\ nano.rx # <<>>
  /\ nano' = [Observe(nano) EXCEPT !.out = @ \o nano.rx, !.rx = <<>>,
                                   !.txBytes = @ + Len(nano.rx)]
  /\ UNCHANGED <<tool, pico, heard, clean, noise>>

\* Stream::pump from the socket to the UART, a byte at a time.
NanoWrite ==
  /\ nano.owned /\ nano.in # <<>>
  /\ nano' = [Observe(nano) EXCEPT !.in = Tail(@), !.rxBytes = @ + 1]
  /\ pico' = [pico EXCEPT !.rx = Append(@, Sampled(Head(nano.in)))]
  /\ UNCHANGED <<tool, heard, clean, noise>>

\* A byte from the Pico reaches the Nano; an overrun behind an owner's back is
\* the network's doing.
ToNano(n, b) ==
  /\ nano' = Arrive(n, b)
  /\ clean' = (clean /\ ~(n.owned /\ Len(n.rx) >= RxBytes))

Compare(p, b) ==
  LET p1 == [p EXCEPT !.left = @ - 1,
                      !.bad = @ + IF b # <<p.seed, Count - p.left + 1>> THEN 1 ELSE 0]
  IN  IF p1.left > 0 THEN p1
      ELSE [p1 EXCEPT !.mode = "sink", !.events = Append(@, "expect_done")]

\* service_uart_receive, a byte at a time.
PicoReceive ==
  /\ pico.rx # <<>>
  /\ LET b == Head(pico.rx)
         p == [pico EXCEPT !.rx = Tail(@), !.rxCount = @ + 1]
     IN  \/ /\ p.mode = "sink" /\ pico' = p
            /\ UNCHANGED <<nano, clean, heard>>
         \/ /\ p.mode = "echo"
            /\ pico' = [p EXCEPT !.txCount = @ + 1]
            /\ ToNano(nano, Sampled(b)) /\ UNCHANGED heard
         \/ /\ p.mode = "expect"
            /\ pico' = Compare(p, b)
            /\ heard' = [heard EXCEPT ![p.seed].pico = Append(@, b)]
            /\ UNCHANGED <<nano, clean>>
  /\ UNCHANGED <<tool, noise>>

\* service_uart_send, a byte at a time.
PicoSend ==
  /\ pico.send > 0
  /\ LET n == IF pico.seed = 0 THEN Burst ELSE Count
         p == [pico EXCEPT !.send = @ - 1, !.txCount = @ + 1]
     IN  /\ ToNano(nano, Sampled(<<pico.seed, n - p.send>>))
         /\ pico' = IF p.send > 0 THEN p
                    ELSE [p EXCEPT !.events = Append(@, "send_done")]
  /\ UNCHANGED <<tool, heard, noise>>

----------------------------------------------------------------------------
(* What the bench does not arrange for. *)

Spoil(q) == {Tail(q), <<Glitch>> \o Tail(q), <<Glitch>> \o q}

Noise ==
  /\ noise < MaxNoise /\ noise' = noise + 1 /\ clean' = FALSE
  /\ \/ /\ pico.rx # <<>>
        /\ \E q \in Spoil(pico.rx), lost \in {0, 1} :
             pico' = [pico EXCEPT !.rx = q, !.over = @ + lost]
        /\ UNCHANGED nano
     \/ /\ nano.rx # <<>>
        /\ \E q \in Spoil(nano.rx) :
             nano' = IF Len(q) <= RxBytes THEN [nano EXCEPT !.rx = q]
                     ELSE [nano EXCEPT !.rx = SubSeq(q, 1, RxBytes), !.latch = TRUE,
                                       !.dropped = @ + 1]
        /\ UNCHANGED pico
  /\ UNCHANGED <<tool, heard>>

\* The Nano restarts: its counters and its connections are gone.
Restart ==
  /\ nano.boot <= MaxBoots
  /\ nano' = Fresh(nano.boot + 1)
  /\ clean' = FALSE
  /\ UNCHANGED <<tool, pico, heard, noise>>

----------------------------------------------------------------------------
(* The tool. *)

At(step) == tool.result = "running" /\ Script(tool.name)[tool.pc] = step
Advance(t) ==
  IF t.pc < Len(Script(t.name)) THEN [t EXCEPT !.pc = @ + 1]
  ELSE [t EXCEPT !.result = "passed", !.closed = nano.boot]
Step(ok, t) == tool' = IF ok THEN Advance(t) ELSE [t EXCEPT !.result = "failed"]

\* The owner's session is still the one the tool opened, and no data frame
\* stands where the reply is expected.
PeerAnswers == pico.events = <<>>    \* the next line is the reply
Answers == nano.owned /\ nano.boot = tool.session /\ nano.out = <<>>
Counters == [boot |-> nano.boot, over |-> Observe(nano).over, disc |-> nano.disc]

Stable(c, d) == c.over = d.over /\ c.disc >= d.disc

\* The tools' first connection: identity, diagnostics.
Baseline ==
  /\ At("baseline")
  /\ nano' = Observe(nano)
  /\ Step(TRUE, [tool EXCEPT !.base = Counters])
  /\ UNCHANGED <<pico, heard, clean, noise>>

\* CONFIG or BAUD: configure_uart; the Nano may see a transition byte.
ConfigurePeer ==
  /\ At("configure")
  /\ IF pico.left > 0 \/ pico.send > 0 \/ ~PeerAnswers
     THEN Step(FALSE, tool) /\ UNCHANGED <<nano, pico, clean>>
     ELSE LET l == IF tool.name = "matrix" /\ tool.pc <= Len(Probing) THEN 0
                   ELSE tool.leg + 1
          IN  /\ Step(TRUE, [tool EXCEPT !.leg = l])
              /\ pico' = [pico EXCEPT !.fmt = IF l = 0 THEN 1 ELSE l, !.rx = <<>>]
              /\ ToNano(nano, Glitch) \/ UNCHANGED <<nano, clean>>
  /\ UNCHANGED <<heard, noise>>

\* hello and serial.open with a configuration.
ForeignBoot == tool.name = "matrix" /\ nano.boot # tool.base.boot
OpenNano ==
  /\ At("open")
  /\ IF ForeignBoot THEN Step(FALSE, tool) /\ UNCHANGED <<nano, pico>>
     ELSE /\ nano' = Acquire(Configure(nano, pico.fmt))
          /\ pico' \in {pico, [pico EXCEPT !.rx = Append(@, Glitch)]}
          /\ Step(TRUE, [tool EXCEPT !.session = nano.boot])
  /\ UNCHANGED <<heard, clean, noise>>

\* A second connection reads the effective configuration from hello.
ObserveNano ==
  /\ At("observe")
  /\ Step(nano.boot = tool.session /\ nano.fmt = pico.fmt, tool)
  /\ UNCHANGED <<nano, pico, heard, clean, noise>>

\* CLEAR: clear_results, and back to echo mode.
Clear ==
  /\ At("clear")
  /\ pico' = [pico EXCEPT !.rx = <<>>, !.mode = "echo", !.left = 0, !.bad = 0,
                          !.rxCount = 0, !.txCount = 0, !.over = 0, !.send = 0]
  /\ Step(PeerAnswers, tool)
  /\ UNCHANGED <<nano, heard, clean, noise>>

\* MODE SINK.
Sink ==
  /\ At("sink")
  /\ pico' = [pico EXCEPT !.mode = "sink"]
  /\ Step(PeerAnswers, tool)
  /\ UNCHANGED <<nano, heard, clean, noise>>

\* Configurations out of range are refused and change nothing.
Refuse ==
  /\ At("refuse")
  /\ Step(Answers /\ nano.fmt = pico.fmt, tool)
  /\ UNCHANGED <<nano, pico, heard, clean, noise>>

Diagnose ==
  /\ At("diagnose")
  /\ nano' = Observe(nano)
  /\ Step(Answers /\ Stable(Counters, tool.base), tool)
  /\ UNCHANGED <<pico, heard, clean, noise>>

\* EXPECT count seed.
Expect ==
  /\ At("expect")
  /\ pico' = [pico EXCEPT !.mode = "expect", !.left = Count, !.seed = tool.leg, !.bad = 0]
  /\ Step(PeerAnswers, tool)
  /\ UNCHANGED <<nano, heard, clean, noise>>

\* send_serial.
Transmit ==
  /\ At("transmit")
  /\ IF nano.owned /\ nano.boot = tool.session
     THEN nano' = [nano EXCEPT !.in = Pattern(tool.leg, Count)] ELSE UNCHANGED nano
  /\ Step(TRUE, tool)
  /\ UNCHANGED <<pico, heard, clean, noise>>

\* Mutant: the event's counters are not looked at.
Unrequired == TRUE

\* peer.event and require_peer_event, on the counters the event line carries.
RequirePeerEvent == pico.over = 0 /\ pico.bad = 0 /\ pico.left = 0 /\ pico.send = 0
Await(event) ==
  /\ pico.events # <<>>
  /\ pico' = [pico EXCEPT !.events = Tail(@)]
  /\ Step(Head(pico.events) = event /\ RequirePeerEvent, tool)
  /\ UNCHANGED <<nano, heard, clean, noise>>
ExpectDone == At("expect_done") /\ Await("expect_done")
SendDone == At("send_done") /\ Await("send_done")

\* SEND count seed.
Send ==
  /\ At("send")
  /\ pico' = [pico EXCEPT !.send = Count, !.seed = tool.leg]
  /\ Step(PeerAnswers, [tool EXCEPT !.got = <<>>])
  /\ UNCHANGED <<nano, heard, clean, noise>>

\* receive_serial: what has come is taken; the comparison with the pattern
\* happens when all has come.
Receive ==
  /\ At("receive") /\ nano.out # <<>> /\ nano.boot = tool.session
  /\ nano' = [nano EXCEPT !.out = <<>>]
  /\ LET t == [tool EXCEPT !.got = @ \o nano.out]
     IN  /\ tool' = IF Len(t.got) < Count THEN t
                    ELSE IF t.got = Pattern(t.leg, Count) THEN Advance(t)
                    ELSE [t EXCEPT !.result = "failed"]
         /\ heard' = [heard EXCEPT ![t.leg].tool = t.got]
  /\ UNCHANGED <<pico, clean, noise>>

\* serial.status.
Status ==
  /\ At("status")
  /\ Step(Answers /\ nano.rxBytes = Count /\ nano.txBytes = Count /\ nano.in = <<>>, tool)
  /\ UNCHANGED <<nano, pico, heard, clean, noise>>

\* device.diagnostics of the owner and STATS of the peer, as far as the tool
\* looks: the peer tool only in its last leg, the overrun tool not at STATS.
Check ==
  /\ At("check")
  /\ nano' = Observe(nano)
  /\ LET exact == /\ pico.rxCount = Count /\ pico.txCount = Count
                  /\ pico.over = 0 /\ pico.bad = 0
         last == tool.leg = Legs
         ok == CASE tool.name = "peer" -> last => (Stable(Counters, tool.base) /\ exact)
                 [] tool.name = "matrix" -> Stable(Counters, tool.base) /\ exact
                 [] tool.name = "overrun" -> Counters.over = tool.seen.over
                                               /\ Counters.disc = tool.seen.disc
     IN  Step((tool.name = "peer" /\ ~last) \/ (Answers /\ ok), tool)
  /\ UNCHANGED <<pico, heard, clean, noise>>

\* serial.close and finish.
Close ==
  /\ At("close")
  /\ nano' = IF Answers THEN Release(nano) ELSE nano
  /\ Step(Answers, tool)
  /\ UNCHANGED <<pico, heard, clean, noise>>

\* uart_overrun: open and close to empty the UART, then the counters.
Cleanup ==
  /\ At("cleanup")
  /\ nano' = Release(Acquire(nano))
  /\ Step(TRUE, [tool EXCEPT !.base = [Counters EXCEPT !.disc = nano'.disc]])
  /\ UNCHANGED <<pico, heard, clean, noise>>

\* SEND of the burst while nobody owns the Nano's stream.
SendBurst ==
  /\ At("burst")
  /\ pico' = [pico EXCEPT !.send = Burst, !.seed = 0]
  /\ Step(TRUE, tool)
  /\ UNCHANGED <<nano, heard, clean, noise>>

BurstDone == At("burst_done") /\ Await("send_done")

Overflow ==
  /\ At("overflow")
  /\ nano' = Observe(nano)
  /\ Step(Counters.over > tool.base.over /\ nano.rx # <<>>,
          [tool EXCEPT !.seen = Counters])
  /\ UNCHANGED <<pico, heard, clean, noise>>

\* serial.open as it is: the stale bytes are discarded and counted, the loss
\* counters stay.
Persists(d) == d.disc > tool.base.disc /\ d.over = tool.seen.over
AcquireNano ==
  /\ At("acquire")
  /\ nano' = Acquire(nano)
  /\ LET d == [Counters EXCEPT !.disc = nano'.disc]
     IN  Step(nano'.rx = <<>> /\ Persists(d),
              [tool EXCEPT !.seen = d, !.session = nano.boot, !.leg = 1])
  /\ UNCHANGED <<pico, heard, clean, noise>>

\* A deadline: the answer will not come, or comes too late.
Waiting == At("expect_done") \/ At("send_done") \/ At("receive") \/ At("burst_done")
Quiet == nano.rx = <<>> /\ nano.in = <<>> /\ pico.rx = <<>> /\ pico.send = 0
Timeout ==
  /\ Waiting
  /\ clean' = (clean /\ Quiet)
  /\ At("receive") => (Quiet => nano.out = <<>> \/ nano.boot # tool.session)
  /\ ~At("receive") => (Quiet => pico.events = <<>>)
  /\ Step(FALSE, tool)
  /\ UNCHANGED <<nano, pico, heard, noise>>

ToolStep ==
  \/ Baseline \/ ConfigurePeer \/ OpenNano \/ ObserveNano \/ Clear \/ Sink \/ Refuse
  \/ Diagnose \/ Expect \/ Transmit \/ ExpectDone \/ Send \/ Receive \/ SendDone
  \/ Status \/ Check \/ Close \/ Cleanup \/ SendBurst \/ BurstDone \/ Overflow
  \/ AcquireNano \/ Timeout
BoardStep == NanoRead \/ NanoWrite \/ PicoReceive \/ PicoSend

Next == ToolStep \/ BoardStep \/ Noise \/ Restart

Spec == Init /\ [][Next]_vars
----------------------------------------------------------------------------
(* Properties *)

\* A tool that reports success has seen every byte of every leg arrive, in
\* order and unharmed, in both directions, whatever the line and the boards did:
\* the Pico's counters and receive_serial's comparison together miss nothing.  The
\* format matrix has moreover seen one boot of the Nano, whose restart would have
\* zeroed the loss counters it compares, and the Nano that recovered in
\* uart_overrun is the one that had lost bytes.
PassedIsExact ==
  tool.result = "passed" =>
    /\ \A l \in 1 .. tool.leg : /\ heard[l].pico = Pattern(l, Count)
                                 /\ heard[l].tool = Pattern(l, Count)
    /\ tool.name = "matrix" => tool.closed = tool.base.boot
    /\ tool.name = "overrun" /\ nano.boot = tool.closed => nano.dropped > 0
=============================================================================
