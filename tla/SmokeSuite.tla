----------------------------- MODULE SmokeSuite -----------------------------
(***************************************************************************)
(* The three smoke tests that decide whether a board works: session_smoke  *)
(* (application), uart_smoke, and smoke.py of the managed sketch.  Each is *)
(* a script of Probe calls over up to two TCP sessions: connect and hello, *)
(* serial commands, exact echoes with a prompt or a delayed reader, and    *)
(* closures that wait for the peer.                                        *)
(*                                                                         *)
(* Host and board run concurrently, joined by the two byte streams of each *)
(* connection.  The board echoes through a bounded queue; it may lose,     *)
(* repeat, change or invent a byte, and restart, MaxFaults times.  A frame *)
(* header and a reply are one item of a stream, a payload byte is one.     *)
(***************************************************************************)
EXTENDS Naturals, Sequences, FiniteSets, SequencesExt

CONSTANTS
  Profiles,   \* the scripts to run: a subset of {"application", "uart", "managed"}
  Long, Short,\* bytes of an echo with a prompt, with a delayed reader (16384, 4096)
  FrameBytes, \* payload bytes per frame the host sends (2048)
  Fragment,   \* items one send takes (up to 511 bytes)
  Window,     \* items in flight in one direction of a connection
  Queue,      \* bytes the board's channel holds (Stream::capacity and the backend)
  Slots,      \* TcpSessionServer::connection_limit (2)
  ReadDelay,  \* ticks the delayed reader waits (0.15 s)
  Timeout,    \* ticks until Probe.timeout
  LastTick,   \* the clock stops here (below Timeout: the deadline is far away)
  MaxFaults   \* faults of the board in one run

VARIABLES
  profile,    \* the script this run follows
  step,       \* its current step
  phase,      \* "start", or "wait": the step has sent its request
  verdict,    \* "running", "passed", "failed" or "timeout"
  elapsed,    \* time since the step began
  hello,      \* session -> boot id its hello reported (0: none)
  sent,       \* echo: items of wire sent
  incoming,   \* echo: received items not yet parsed
  received,   \* echo: payload bytes
  up, down,   \* session -> items under way to the board, to the host
  ended,      \* sessions the board has closed or reset
  \* The board:
  boot,       \* boot id
  accepted,   \* sessions that hold a connection slot
  owner,      \* the session that owns the channel ("none")
  queue,      \* bytes on their way through the backend
  counts,     \* Channel::rx_bytes_, tx_bytes_
  faults,     \* faults so far
  \* History, read by no action:
  out,        \* session -> payload bytes the board sent it
  served      \* boots that answered

host  == <<profile, step, phase, verdict, elapsed, hello, sent, incoming, received>>
board == <<boot, accepted, owner, queue, counts, faults, out, served>>
vars  == <<host, up, down, ended, board>>

Sessions == {"owner", "other", "again"}

----------------------------------------------------------------------------
(* The scripts *)

Do(who, op) == [who |-> who, op |-> op, n |-> 0, slow |-> FALSE]
Echo(who, n) == [who |-> who, op |-> "echo", n |-> n, slow |-> FALSE]
SlowEcho(who, n) == [who |-> who, op |-> "echo", n |-> n, slow |-> TRUE]

\* session_smoke.smoke: a second client is refused, then takes over; then a
\* fresh session.
ApplicationScript ==
  << Do("owner", "connect"), Do("owner", "open"),
     Do("other", "connect same"), Do("other", "open busy"),
     Echo("owner", Long), SlowEcho("owner", Short), Do("owner", "status"),
     Do("owner", "reset"), Do("owner", "close"),
     Do("other", "open"), Echo("other", Short), Do("other", "close"),
     Do("other", "finish"), Do("owner", "finish"),
     Do("again", "connect"), Do("again", "open"), Echo("again", Short),
     Do("again", "close"), Do("again", "finish") >>

\* uart_smoke.smoke: one owner, reconfigured between two echoes.
UartScript ==
  << Do("owner", "connect"), Do("owner", "open"),
     Do("other", "connect same"), Do("other", "open busy"), Do("other", "leave"),
     Echo("owner", Long), Do("owner", "configure"), SlowEcho("owner", Short),
     Do("owner", "status"), Do("owner", "diagnostics"),
     Do("owner", "close"), Do("owner", "finish") >>

\* managed_sketch/smoke.py: also compares the boot of the fresh session.
ManagedScript ==
  << Do("owner", "connect"), Do("owner", "open"), Do("owner", "diagnostics"),
     Do("other", "connect same"), Do("other", "open busy"),
     Echo("owner", Long), SlowEcho("owner", Short), Do("owner", "status"),
     Do("owner", "diagnostics"), Do("owner", "close"),
     Do("other", "open"), Echo("other", Short), Do("other", "close"),
     Do("other", "finish"), Do("owner", "finish"),
     Do("again", "connect same"), Do("again", "open"), Echo("again", Short),
     Do("again", "close"), Do("again", "finish") >>

Script == CASE profile = "application" -> ApplicationScript
            [] profile = "uart" -> UartScript
            [] profile = "managed" -> ManagedScript

Running == verdict = "running"
Now == Script[step]
Connects == {"connect", "connect same"}
Opens == {"open", "open busy"}
Commands == Opens \cup {"status", "reset", "close", "configure", "diagnostics"}

Item(kind, a, b) == <<kind, a, b>>
Header(n) == Item("data", n, 0)

\* The payload of an echo, and the frames it is sent in.
Payload(n) == [i \in 1..n |-> i]
Byte(v) == Item("byte", v, 0)
Wire(n) ==
  LET frame(k) == LET bytes == SubSeq(Payload(n), (k - 1) * FrameBytes + 1,
                                      IF k * FrameBytes < n THEN k * FrameBytes ELSE n)
                  IN <<Header(Len(bytes))>> \o [i \in 1..Len(bytes) |-> Byte(bytes[i])]
  IN FlattenSeq([k \in 1 .. (n + FrameBytes - 1) \div FrameBytes |-> frame(k)])

----------------------------------------------------------------------------
(* The host: Probe *)

NextStep ==
  /\ step' = step + 1 /\ phase' = "start" /\ elapsed' = 0
  /\ sent' = 0 /\ incoming' = <<>> /\ received' = <<>>
  /\ verdict' = IF step = Len(Script) THEN "passed" ELSE verdict
  /\ UNCHANGED profile

\* Any exception ends the test; the with statements close the sockets.
Raise(how) ==
  /\ verdict' = how
  /\ UNCHANGED <<profile, step, phase, elapsed, hello, sent, incoming, received>>

Waiting == phase' = "wait" /\ UNCHANGED <<profile, step, verdict, elapsed, hello, sent,
                                          incoming, received>>

\* Probe.__init__: the connection, and the request for hello.  The board resets
\* a connection it has no slot for.
Connect ==
  /\ Running /\ Now.op \in Connects /\ phase = "start"
  /\ IF Cardinality(accepted) < Slots
     THEN /\ accepted' = accepted \cup {Now.who}
          /\ up' = [up EXCEPT ![Now.who] = <<Item("hello", 0, 0)>>]
          /\ Waiting
     ELSE Raise("failed") /\ UNCHANGED <<up, accepted>>
  /\ UNCHANGED <<down, ended, boot, owner, queue, counts, faults, out, served>>

\* boot_id is compared with the first session's.
BootMatches(b) == Now.op = "connect same" => b = hello["owner"]

\* What request_frame and its caller accept as the answer.
Accepts(item) ==
  CASE Now.op \in Connects    -> item[1] = "boot" /\ BootMatches(item[2])
    [] Now.op = "open busy"   -> item[1] = "busy"
    [] Now.op = "reset"       -> item[1] = "unsupported"
    [] Now.op = "status"      -> item = Item("counts", Long + Short, Long + Short)
    [] OTHER                  -> item[1] = "ok"

Request ==
  /\ Running /\ Now.op \in Commands /\ phase = "start"
  /\ up' = [up EXCEPT ![Now.who] = Append(@, Item(Now.op, 0, 0))]
  /\ Waiting
  /\ UNCHANGED <<down, ended, board>>

Answer ==
  /\ Running /\ Now.op \in Connects \cup Commands /\ phase = "wait"
  /\ \/ /\ down[Now.who] # <<>>
        /\ down' = [down EXCEPT ![Now.who] = Tail(@)]
        /\ LET item == Head(down[Now.who])
           IN IF Accepts(item)
              THEN /\ NextStep
                   /\ hello' = IF Now.op \in Connects
                               THEN [hello EXCEPT ![Now.who] = item[2]] ELSE hello
              ELSE Raise("failed")
     \/ /\ down[Now.who] = <<>> /\ Now.who \in ended
        /\ Raise("failed")
        /\ UNCHANGED down
  /\ UNCHANGED <<up, ended, board>>

ReadNow == ~Now.slow \/ elapsed >= ReadDelay

Echoing == Running /\ Now.op = "echo"

EchoSend ==
  /\ Echoing /\ Now.who \notin ended
  /\ \E k \in 1..Fragment :
       /\ sent + k <= Len(Wire(Now.n)) /\ Len(up[Now.who]) + k <= Window
       /\ up' = [up EXCEPT ![Now.who] = @ \o SubSeq(Wire(Now.n), sent + 1, sent + k)]
       /\ sent' = sent + k
  /\ UNCHANGED <<profile, step, phase, verdict, elapsed, hello, incoming, received, down,
                 ended, board>>

\* A complete frame is at hand: the parser runs before the next recv.
Parsable == incoming # <<>> /\ Len(incoming) > Head(incoming)[2]

\* The loop goes on while something is to be sent or to come.
Unfinished == sent < Len(Wire(Now.n)) \/ Len(received) < Now.n

EchoReceive ==
  /\ Echoing /\ ~Parsable /\ Unfinished /\ ReadNow
  /\ \/ \E k \in 1..Len(down[Now.who]) :
          /\ incoming' = incoming \o SubSeq(down[Now.who], 1, k)
          /\ down' = [down EXCEPT ![Now.who] = SubSeq(@, k + 1, Len(@))]
          /\ UNCHANGED <<profile, step, phase, verdict, elapsed, hello, sent, received>>
     \/ /\ down[Now.who] = <<>> /\ Now.who \in ended
        /\ Raise("failed")
        /\ UNCHANGED down
  /\ UNCHANGED <<up, ended, board>>

NotMore(bytes) == Len(bytes) <= Now.n

EchoParse ==
  /\ Echoing /\ Parsable
  /\ LET n == Head(incoming)[2]
         bytes == received \o [i \in 1..n |-> incoming[i + 1][2]]
     IN IF Head(incoming)[1] = "data"
        THEN /\ incoming' = SubSeq(incoming, n + 2, Len(incoming))
             /\ received' = bytes
             /\ verdict' = IF NotMore(bytes) THEN verdict ELSE "failed"
             /\ UNCHANGED <<profile, step, phase, elapsed, hello, sent>>
        ELSE Raise("failed")
  /\ UNCHANGED <<up, down, ended, board>>

\* Mutant: only the length is compared.
SameLength == Len(received) = Now.n

Exact == incoming = <<>> /\ received = Payload(Now.n)

EchoEnd ==
  /\ Echoing /\ ~Parsable /\ ~Unfinished
  /\ IF Exact THEN NextStep /\ UNCHANGED hello ELSE Raise("failed")
  /\ UNCHANGED <<up, down, ended, board>>

\* The socket's end of stream follows what was sent.
Shut(s) == up' = [up EXCEPT ![s] = Append(@, Item("fin", 0, 0))]

\* Probe.finish shuts its side down, which may fail on a connection already
\* reset ...
Finish ==
  /\ Running /\ Now.op = "finish" /\ phase = "start"
  /\ \/ Shut(Now.who) /\ Waiting
     \/ Now.who \in ended /\ Raise("failed") /\ UNCHANGED up
  /\ UNCHANGED <<down, ended, board>>

\* ... and waits for the peer's: end of stream or reset.
Observed(s) == s \in ended

Finished ==
  /\ Running /\ Now.op = "finish" /\ phase = "wait"
  /\ \/ down[Now.who] # <<>> /\ Raise("failed")
     \/ down[Now.who] = <<>> /\ Observed(Now.who) /\ NextStep /\ UNCHANGED hello
  /\ UNCHANGED <<up, down, ended, board>>

\* The with statement closes a session without waiting.
Leave ==
  /\ Running /\ Now.op = "leave"
  /\ Shut(Now.who)
  /\ NextStep
  /\ UNCHANGED <<hello, down, ended, board>>

\* _exact, the echo loop and finish give up at their deadline.
Late ==
  /\ Running /\ elapsed >= Timeout
  /\ phase = "wait" \/ (Now.op = "echo" /\ ~Parsable /\ Unfinished)
  /\ Raise("timeout")
  /\ UNCHANGED <<up, down, ended, board>>

Tick ==
  /\ Running /\ elapsed < LastTick /\ (phase = "wait" \/ Now.op = "echo")
  /\ elapsed' = elapsed + 1
  /\ UNCHANGED <<profile, step, phase, verdict, hello, sent, incoming, received, up, down,
                 ended, board>>

----------------------------------------------------------------------------
(* The board: one item of a session's input at a time *)

At(s, kinds) == s \in accepted /\ up[s] # <<>> /\ Head(up[s])[1] \in kinds
Taken(s) == up' = [up EXCEPT ![s] = Tail(@)]

\* Channel::release, and clearing its stream.
Release(s) == /\ owner' = IF owner = s THEN "none" ELSE owner
              /\ queue' = IF owner = s THEN <<>> ELSE queue

\* A byte of a data frame enters the channel, if it is not lost on the way.
TakeByte(s) ==
  /\ At(s, {"byte"})
  /\ Len(queue) < Queue /\ owner = s
  /\ counts' = [counts EXCEPT !.rx = @ + 1]
  /\ \/ queue' = Append(queue, Head(up[s])[2]) /\ UNCHANGED faults
     \/ /\ faults < MaxFaults
        /\ \E spoilt \in {<<>>, <<0>>, <<Head(up[s])[2], Head(up[s])[2]>>} :
             queue' = queue \o spoilt
        /\ faults' = faults + 1
  /\ Taken(s)
  /\ UNCHANGED <<host, down, ended, boot, accepted, owner, out, served>>

\* What Session::dispatch answers.
Reply(s, op) ==
  CASE op = "hello" -> Item("boot", boot, 0)
    [] op \in Opens -> Item(IF owner = "none" THEN "ok" ELSE "busy", 0, 0)
    [] op = "status" -> Item("counts", counts.rx, counts.tx)
    [] op = "reset" -> Item("unsupported", 0, 0)
    [] op = "configure" -> Item(IF queue = <<>> THEN "ok" ELSE "busy", 0, 0)
    [] OTHER -> Item("ok", 0, 0)

Dispatch(s) ==
  /\ At(s, Commands \cup {"hello"})
  /\ Len(down[s]) < Window
  /\ LET op == Head(up[s])[1]
     IN /\ down' = [down EXCEPT ![s] = Append(@, Reply(s, op))]
        /\ IF op \in Opens /\ owner = "none"
           THEN owner' = s /\ queue' = <<>> /\ counts' = [rx |-> 0, tx |-> 0]
           ELSE IF op = "close" THEN Release(s) /\ UNCHANGED counts
                ELSE UNCHANGED <<owner, queue, counts>>
  /\ served' = served \cup {boot}
  /\ Taken(s)
  /\ UNCHANGED <<host, ended, boot, accepted, faults, out>>

\* The header of a data frame only announces its bytes.
TakeHeader(s) ==
  /\ At(s, {"data"})
  /\ Taken(s)
  /\ UNCHANGED <<host, down, ended, board>>

\* End of stream: TcpSessionServer::receive aborts, poll disposes of the session.
TakeFin(s) ==
  /\ At(s, {"fin"})
  /\ accepted' = accepted \ {s}
  /\ ended' = ended \cup {s}
  /\ Release(s)
  /\ Taken(s)
  /\ UNCHANGED <<host, down, boot, counts, faults, out, served>>

\* Queued bytes leave in a frame of their own.
Emit ==
  /\ owner # "none"
  /\ \E k \in 1..Len(queue) :
       /\ Len(down[owner]) + k + 1 <= Window
       /\ LET bytes == SubSeq(queue, 1, k)
          IN /\ down' = [down EXCEPT ![owner] =
                           @ \o <<Header(k)>> \o [i \in 1..k |-> Byte(bytes[i])]]
             /\ out' = [out EXCEPT ![owner] = @ \o bytes]
             /\ queue' = SubSeq(queue, k + 1, Len(queue))
             /\ counts' = [counts EXCEPT !.tx = @ + k]
  /\ served' = served \cup {boot}
  /\ UNCHANGED <<host, up, ended, boot, accepted, owner, faults>>

\* A byte nobody sent.
Invent ==
  /\ faults < MaxFaults /\ owner # "none" /\ Len(queue) < Queue
  /\ queue' = Append(queue, 0)
  /\ faults' = faults + 1
  /\ UNCHANGED <<host, up, down, ended, boot, accepted, owner, counts, out, served>>

Restart ==
  /\ faults < MaxFaults /\ faults' = faults + 1
  /\ boot' = boot + 1
  /\ ended' = ended \cup accepted
  /\ accepted' = {} /\ owner' = "none" /\ queue' = <<>> /\ counts' = [rx |-> 0, tx |-> 0]
  /\ up' = [s \in Sessions |-> <<>>]
  /\ UNCHANGED <<host, down, out, served>>

----------------------------------------------------------------------------
Init ==
  /\ profile \in Profiles /\ step = 1 /\ phase = "start" /\ verdict = "running"
  /\ elapsed = 0 /\ hello = [s \in Sessions |-> 0]
  /\ sent = 0 /\ incoming = <<>> /\ received = <<>>
  /\ up = [s \in Sessions |-> <<>>] /\ down = [s \in Sessions |-> <<>>] /\ ended = {}
  /\ boot = 1 /\ accepted = {} /\ owner = "none" /\ queue = <<>>
  /\ counts = [rx |-> 0, tx |-> 0] /\ faults = 0
  /\ out = [s \in Sessions |-> <<>>] /\ served = {}

Host == \/ Connect \/ Request \/ Answer \/ EchoSend \/ EchoReceive \/ EchoParse \/ EchoEnd
        \/ Finish \/ Finished \/ Leave

Board == \/ \E s \in Sessions : TakeByte(s) \/ Dispatch(s) \/ TakeHeader(s) \/ TakeFin(s)
         \/ Emit

Next == Host \/ Board \/ Late \/ Tick \/ Invent \/ Restart

Spec == Init /\ [][Next]_vars

----------------------------------------------------------------------------
(* Properties *)

\* The payloads a script sends over a session.
Echoes(s) == FlattenSeq([i \in 1..Len(Script) |->
               IF Script[i].who = s /\ Script[i].op = "echo" THEN Payload(Script[i].n) ELSE <<>>])

\* A test passes only if the board sent back on every session exactly what it
\* was given, until serial.close was answered: a byte lost, repeated, changed or
\* invented anywhere, also after the last byte of an echo, is caught by the echo,
\* by the counters, by the next response or at the close.  uart_smoke and the
\* managed smoke also vouch for one boot: all that was answered was answered by it.
\* (session_smoke does not compare its fresh session.)
PassedIsExact ==
  verdict = "passed" =>
    /\ \A s \in Sessions : out[s] = Echoes(s)
    /\ profile # "application" => Cardinality(served) = 1
=============================================================================
