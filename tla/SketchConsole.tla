--------------------------- MODULE SketchConsole ---------------------------
(***************************************************************************)
(* SketchConsole: the bridge between core 0's application endpoint (the    *)
(* backend a network owner opens) and the sketch on core 1.                *)
(*                                                                         *)
(* poll() and stop() run on core 0 and are cut at every access to a word   *)
(* or ring that core 1 shares (pc0); sketch_boundary(), sketch_write() and *)
(* sketch_read() run on core 1 and are cut the same way (pc1).  What the   *)
(* endpoint does for the network (open, close, host bytes) happens on      *)
(* core 0 between polls.  One push or pop of a ring is one step: that is   *)
(* what SpscByteRing shows of the rings.                                   *)
(*                                                                         *)
(* tenure numbers the times the channel was opened.  A host byte is the    *)
(* tenure it was sent in; a sketch byte is the set of tenures that its     *)
(* loop call has begun in or read from when it wrote the byte.             *)
(***************************************************************************)
EXTENDS Naturals, Sequences

CONSTANTS Owners,      \* owner tokens of the session slots
          RingBytes,   \* SpscByteRing::capacity
          QueueBytes,  \* ApplicationEndpoint::capacity
          MaxTenure,   \* bound: channel openings, below UINT32_MAX
          MaxStops     \* bound: calls of stop()

ASSUME ConsoleAssumption ==
    /\ 0 \notin Owners
    /\ RingBytes \in Nat \ {0} /\ QueueBytes \in Nat \ {0}
    /\ MaxTenure \in Nat /\ MaxStops \in Nat

VARIABLES
    backend,   \* ApplicationEndpoint: active, owner, generation, rx, tx
    tenure,    \* history: openings so far
    stops,     \* history: stop() calls so far
    observed,  \* observed_owner_, observed_generation_, observed_active_
    epoch, ack, inputOn, outputOn,
    toSketch, fromSketch,
    pc0, stopping, carry,            \* core 0, the bytes between two rings
    pc1, epoch1, held, began, seen   \* core 1, its locals and history

endpoint == <<backend, tenure>>
core0    == <<pc0, stopping, carry, observed, stops>>
core1    == <<pc1, epoch1, held, began, seen>>
words    == <<epoch, ack, inputOn, outputOn>>
rings    == <<toSketch, fromSketch>>
vars     == <<endpoint, core0, core1, words, rings>>

Smaller(m, n) == IF m < n THEN m ELSE n
Take(s, n) == SubSeq(s, 1, n)
Drop(s, n) == SubSeq(s, n + 1, Len(s))

Init ==
    /\ backend = [active |-> FALSE, owner |-> 0, generation |-> 0,
                  rx |-> <<>>, tx |-> <<>>]
    /\ tenure = 0 /\ stops = 0
    /\ observed = [active |-> FALSE, owner |-> 0, generation |-> 0]
    /\ epoch = 0 /\ ack = 0 /\ inputOn = FALSE /\ outputOn = FALSE
    /\ toSketch = <<>> /\ fromSketch = <<>>
    /\ pc0 = "network" /\ stopping = FALSE /\ carry = <<>>
    /\ pc1 = "between" /\ epoch1 = 0 /\ held = 0 /\ began = 0 /\ seen = {}

-----------------------------------------------------------------------------
(* Core 0, network side: Channel and ApplicationEndpoint.                  *)

NextGeneration(g) == g + 1

(* Channel::acquire: discard, then opened. *)
Open(o) ==
    /\ pc0 = "network" /\ ~backend.active /\ tenure < MaxTenure
    /\ backend' = [active |-> TRUE, owner |-> o,
                   generation |-> NextGeneration(backend.generation),
                   rx |-> <<>>, tx |-> <<>>]
    /\ tenure' = tenure + 1
    /\ UNCHANGED <<core0, core1, words, rings>>

(* Channel::release: closed, then discard. *)
Close ==
    /\ pc0 = "network" /\ backend.active
    /\ backend' = [backend EXCEPT !.active = FALSE, !.owner = 0,
                                  !.rx = <<>>, !.tx = <<>>]
    /\ UNCHANGED <<tenure, core0, core1, words, rings>>

(* The stream pumps one byte of the host into rx_, or one out of tx_. *)
HostWrite ==
    /\ pc0 = "network" /\ backend.active
    /\ Len(backend.rx) < QueueBytes
    /\ backend' = [backend EXCEPT !.rx = Append(@, tenure)]
    /\ UNCHANGED <<tenure, core0, core1, words, rings>>

HostRead ==
    /\ pc0 = "network" /\ backend.active /\ backend.tx # <<>>
    /\ backend' = [backend EXCEPT !.tx = Tail(@)]
    /\ UNCHANGED <<tenure, core0, core1, words, rings>>

-----------------------------------------------------------------------------
(* Core 0, poll() and stop().                                              *)

Seen == [active |-> backend.active, owner |-> backend.owner,
         generation |-> backend.generation]

Poll ==
    /\ pc0 = "network"
    /\ pc0' = IF Seen # observed THEN "inputOff" ELSE "compare"
    /\ UNCHANGED <<stopping, carry, observed, stops, endpoint, core1, words, rings>>

(* NanoSketchRuntime::stop, reached only from SketchSwitch::poll: core 1   *)
(* is parked and, as a committing upload refuses open and is refused while *)
(* the channel has an owner, the endpoint is inactive.                     *)
Stop ==
    /\ pc0 = "network" /\ pc1 = "between" /\ ~backend.active
    /\ stops < MaxStops
    /\ backend' = [backend EXCEPT !.rx = <<>>, !.tx = <<>>]
    /\ stopping' = TRUE /\ stops' = stops + 1 /\ pc0' = "inputOff"
    /\ UNCHANGED <<tenure, carry, observed, core1, words, rings>>

InputOff ==
    /\ pc0 = "inputOff" /\ inputOn' = FALSE /\ pc0' = "outputOff"
    /\ UNCHANGED <<stopping, carry, observed, stops, epoch, ack, outputOn,
                   endpoint, core1, rings>>

OutputOff ==
    /\ pc0 = "outputOff" /\ outputOn' = FALSE /\ pc0' = "bump"
    /\ UNCHANGED <<stopping, carry, observed, stops, epoch, ack, inputOn,
                   endpoint, core1, rings>>

Bump ==
    /\ pc0 = "bump" /\ epoch' = epoch + 1
    /\ observed' = IF stopping THEN observed ELSE Seen
    /\ pc0' = IF stopping THEN "discard" ELSE "compare"
    /\ UNCHANGED <<stopping, carry, stops, ack, inputOn, outputOn,
                   endpoint, core1, rings>>

Compare ==
    /\ pc0 = "compare"
    /\ pc0' = IF ~backend.active \/ ack # epoch THEN "discard"
              ELSE IF outputOn THEN "outgoing" ELSE "purge"
    /\ UNCHANGED <<stopping, carry, observed, stops, endpoint, core1, words, rings>>

Discard ==
    /\ pc0 = "discard" /\ fromSketch' = <<>>
    /\ pc0' = "network" /\ stopping' = FALSE
    /\ UNCHANGED <<carry, observed, stops, toSketch, endpoint, core1, words>>

KeepOldOutput ==
    /\ pc0 = "purge" /\ pc0' = "inputOn"
    /\ UNCHANGED <<fromSketch, stopping, carry, observed, stops, toSketch, endpoint, core1, words>>
Purge ==
    /\ pc0 = "purge" /\ fromSketch' = <<>> /\ pc0' = "inputOn"
    /\ UNCHANGED <<stopping, carry, observed, stops, toSketch, endpoint, core1, words>>

InputOn ==
    /\ pc0 = "inputOn" /\ inputOn' = TRUE /\ pc0' = "outputOn"
    /\ UNCHANGED <<stopping, carry, observed, stops, epoch, ack, outputOn,
                   endpoint, core1, rings>>

OutputOn ==
    /\ pc0 = "outputOn" /\ outputOn' = TRUE /\ pc0' = "outgoing"
    /\ UNCHANGED <<stopping, carry, observed, stops, epoch, ack, inputOn,
                   endpoint, core1, rings>>

(* A short write makes poll() return false; startupFault() never returns. *)
Outgoing ==
    LET n == Smaller(Len(fromSketch), QueueBytes - Len(backend.tx))
        written == Smaller(n, QueueBytes - Len(backend.tx))
    IN  /\ pc0 = "outgoing"
        /\ pc0' = IF written = n THEN "incoming" ELSE "fault"
        /\ fromSketch' = Drop(fromSketch, n)
        /\ backend' = [backend EXCEPT !.tx = @ \o Take(fromSketch, written)]
        /\ UNCHANGED <<tenure, stopping, carry, observed, stops, toSketch, core1, words>>

FreeSpace == RingBytes - Len(toSketch)

Incoming ==
    LET n == Smaller(Len(backend.rx), FreeSpace)
    IN  /\ pc0 = "incoming" /\ pc0' = "push"
        /\ carry' = Take(backend.rx, n)
        /\ backend' = [backend EXCEPT !.rx = Drop(@, n)]
        /\ UNCHANGED <<tenure, stopping, observed, stops, rings, core1, words>>

(* A short push does the same. *)
Push ==
    LET n == Smaller(Len(carry), RingBytes - Len(toSketch))
    IN  /\ pc0 = "push" /\ carry' = <<>>
        /\ toSketch' = toSketch \o Take(carry, n)
        /\ pc0' = IF n = Len(carry) THEN "network" ELSE "fault"
        /\ UNCHANGED <<stopping, observed, stops, fromSketch, endpoint, core1, words>>

-----------------------------------------------------------------------------
(* Core 1: sketch_boundary(), then one call of the sketch's loop.          *)

(* The park point of loop1 lies between two loop calls. *)
Parked == stopping

BoundaryLoad ==
    /\ pc1 = "between" /\ ~Parked
    /\ epoch1' = epoch /\ pc1' = "boundary"
    /\ UNCHANGED <<held, began, seen, endpoint, core0, words, rings>>

AlwaysDrain == TRUE
NeverNew == FALSE
NewEpoch == ack # epoch1

BoundaryTest ==
    /\ pc1 = "boundary"
    /\ pc1' = IF NewEpoch THEN "drain" ELSE "enter"
    /\ UNCHANGED <<epoch1, held, began, seen, endpoint, core0, words, rings>>

Drain ==
    /\ pc1 = "drain" /\ toSketch' = <<>> /\ pc1' = "acknowledge"
    /\ UNCHANGED <<epoch1, held, began, seen, fromSketch, endpoint, core0, words>>

Acknowledge ==
    /\ pc1 = "acknowledge" /\ ack' = epoch1 /\ pc1' = "enter"
    /\ UNCHANGED <<epoch1, held, began, seen, epoch, inputOn, outputOn,
                   endpoint, core0, rings>>

Enter ==
    /\ pc1 = "enter" /\ pc1' = "loop"
    /\ began' = tenure /\ seen' = {}
    /\ UNCHANGED <<epoch1, held, endpoint, core0, words, rings>>

Return ==
    /\ pc1 = "loop" /\ pc1' = "between"
    /\ UNCHANGED <<epoch1, held, began, seen, endpoint, core0, words, rings>>

(* sketch_write: a write that is rejected changes nothing. *)
WriteTest ==
    /\ pc1 = "loop" /\ outputOn /\ pc1' = "write"
    /\ UNCHANGED <<epoch1, held, began, seen, endpoint, core0, words, rings>>

Room == Len(fromSketch) < RingBytes

Write ==
    /\ pc1 = "write" /\ pc1' = "loop"
    /\ fromSketch' = IF Room
                     THEN Append(fromSketch, {began} \cup seen) ELSE fromSketch
    /\ UNCHANGED <<epoch1, held, began, seen, toSketch, endpoint, core0, words>>

(* sketch_read, one shared load at a time. *)
ReadStep(from, to) == pc1 = from /\ pc1' = to

ReadEpoch ==
    /\ ReadStep("loop", "readOn") /\ epoch1' = epoch
    /\ UNCHANGED <<held, began, seen, endpoint, core0, words, rings>>

ReadOn ==
    /\ ReadStep("readOn", IF inputOn THEN "readAck" ELSE "loop")
    /\ UNCHANGED <<epoch1, held, began, seen, endpoint, core0, words, rings>>

ReadAck ==
    /\ ReadStep("readAck", IF ack = epoch1 THEN "readPop" ELSE "loop")
    /\ UNCHANGED <<epoch1, held, began, seen, endpoint, core0, words, rings>>

ReadPop ==
    /\ ReadStep("readPop", IF toSketch = <<>> THEN "loop" ELSE "recheckEpoch")
    /\ held' = IF toSketch = <<>> THEN held ELSE Head(toSketch)
    /\ toSketch' = IF toSketch = <<>> THEN <<>> ELSE Tail(toSketch)
    /\ UNCHANGED <<epoch1, began, seen, fromSketch, endpoint, core0, words>>

RecheckEpoch ==
    /\ ReadStep("recheckEpoch", IF epoch = epoch1 THEN "recheckOn" ELSE "loop")
    /\ UNCHANGED <<epoch1, held, began, seen, endpoint, core0, words, rings>>

StillOn == inputOn

RecheckOn ==
    /\ ReadStep("recheckOn", "loop")
    /\ seen' = IF StillOn THEN seen \cup {held} ELSE seen
    /\ UNCHANGED <<epoch1, held, began, endpoint, core0, words, rings>>

-----------------------------------------------------------------------------
Network == (\E o \in Owners : Open(o)) \/ Close \/ HostWrite \/ HostRead

PollSteps == \/ Poll \/ InputOff \/ OutputOff \/ Bump \/ Compare \/ Discard
             \/ Purge \/ InputOn \/ OutputOn \/ Outgoing \/ Incoming \/ Push

SketchCalls == \/ WriteTest \/ Write \/ ReadEpoch \/ ReadOn \/ ReadAck
               \/ ReadPop \/ RecheckEpoch \/ RecheckOn

Boundary == BoundaryLoad \/ BoundaryTest \/ Drain \/ Acknowledge \/ Enter

Next == Network \/ PollSteps \/ Stop \/ Boundary \/ SketchCalls \/ Return

Spec == Init /\ [][Next]_vars

-----------------------------------------------------------------------------
Tenures == 0 .. MaxTenure

(* The shape of the console's state: every ring and queue within capacity. *)
TypeOK ==
    /\ backend \in [active : BOOLEAN, owner : Owners \cup {0},
                    generation : Tenures, rx : Seq(Tenures),
                    tx : Seq(SUBSET Tenures)]
    /\ tenure \in Tenures /\ stops \in 0 .. MaxStops
    /\ observed \in [active : BOOLEAN, owner : Owners \cup {0}, generation : Tenures]
    /\ epoch \in Nat /\ ack \in Nat /\ inputOn \in BOOLEAN /\ outputOn \in BOOLEAN
    /\ toSketch \in Seq(Tenures)
    /\ fromSketch \in Seq(SUBSET Tenures)
    /\ pc0 \in {"network", "inputOff", "outputOff", "bump", "compare", "discard",
                "purge", "inputOn", "outputOn", "outgoing", "incoming", "push", "fault"}
    /\ stopping \in BOOLEAN /\ carry \in Seq(Tenures)
    /\ pc1 \in {"between", "boundary", "drain", "acknowledge", "enter", "loop", "write",
                "readOn", "readAck", "readPop", "recheckEpoch", "recheckOn"}
    /\ epoch1 \in Nat /\ held \in Tenures /\ began \in Tenures
    /\ seen \in SUBSET Tenures
    /\ Len(backend.rx) <= QueueBytes /\ Len(backend.tx) <= QueueBytes
    /\ Len(toSketch) <= RingBytes /\ Len(fromSketch) <= RingBytes

(* Whatever tx_ holds for the host was written by a loop call that began   *)
(* under the present owner and had read nobody else's bytes: poll() never  *)
(* delivers an old loop's output to a new owner.                           *)
NoOldOutput == \A i \in DOMAIN backend.tx : backend.tx[i] = {tenure}

(* One loop call never reads bytes of two owners: sketch_read's checks cut *)
(* off the old owner's input until the next boundary has drained it.       *)
OneOwnerPerLoop == \A t, u \in seen : t = u

(* sketch_read returns a byte only while poll() still sees the owner who   *)
(* sent it: a byte popped across a change of owner is dropped.             *)
ReadsObservedOwner == [][\A t \in seen' \ seen : t = observed.generation]_vars

Stale(t) == ~backend.active \/ t # tenure

(* The input that sketch_boundary drains, or that sketch_read drops after  *)
(* popping it, is never the present owner's: no accepted host byte is lost *)
(* while the channel stays open.                                           *)
PresentInputKept ==
    /\ pc1 = "drain" => \A i \in DOMAIN toSketch : Stale(toSketch[i])
    /\ pc1 = "recheckEpoch" /\ epoch # epoch1 => Stale(held)
    /\ pc1 = "recheckOn" /\ ~inputOn => Stale(held)

(* poll() never makes a short write, so the resident never stops in        *)
(* startupFault() because of the console.                                  *)
NeverFaults == pc0 # "fault"

=============================================================================
