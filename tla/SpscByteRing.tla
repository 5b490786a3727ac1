--------------------------- MODULE SpscByteRing ----------------------------
(***************************************************************************)
(* SpscByteRing: one producer core, one consumer core, two free-running    *)
(* indexes and a byte array.  push and pop are cut at every access to a    *)
(* shared word and at every byte copied, so the two interleave anywhere.   *)
(* The array is read and written with no lock: the release store of an     *)
(* index orders the bytes before it.                                       *)
(***************************************************************************)
EXTENDS Naturals, Sequences

CONSTANTS Values,    \* what a byte may be
          Capacity,  \* SpscByteRing::capacity
          Wrap,      \* 2^32: where the indexes wrap, a multiple of Capacity
          MaxBatch   \* bound: bytes offered or asked for by one call

VARIABLES
    bytes, head, tail,             \* shared
    pcp, data, ptail, phead, written,  \* producer: push's arguments and locals
    pcc, count, chead, ctail, out,     \* consumer: pop's arguments and locals
    received                       \* what the last finished pop returned

producer == <<pcp, data, ptail, phead, written>>
consumer == <<pcc, count, chead, ctail, out, received>>
vars     == <<bytes, head, tail, producer, consumer>>

Distance(t, h) == (t + Wrap - h) % Wrap
Successor(i) == (i + 1) % Wrap
Batches == UNION {[1 .. n -> Values] : n \in 0 .. MaxBatch}

Init ==
    /\ \E v \in Values : bytes = [i \in 0 .. Capacity - 1 |-> v]
    /\ head = 0 /\ tail = 0
    /\ pcp = "idle" /\ data = <<>> /\ ptail = 0 /\ phead = 0 /\ written = 0
    /\ pcc = "idle" /\ count = 0 /\ chead = 0 /\ ctail = 0 /\ out = <<>>
    /\ received = <<>>

-----------------------------------------------------------------------------
(* push(data, count) *)
Push ==
    /\ pcp = "idle" /\ data' \in Batches
    /\ ptail' = tail /\ written' = 0 /\ pcp' = "loadHead"
    /\ UNCHANGED <<bytes, head, tail, phead, consumer>>

LoadHead ==
    /\ pcp = "loadHead" /\ phead' = head /\ pcp' = "copy"
    /\ UNCHANGED <<bytes, head, tail, data, ptail, written, consumer>>

HasRoom == Distance(ptail, phead) < Capacity

CopyIn ==
    /\ pcp = "copy" /\ written < Len(data) /\ HasRoom
    /\ bytes' = [bytes EXCEPT ![ptail % Capacity] = data[written + 1]]
    /\ written' = written + 1 /\ ptail' = Successor(ptail)
    /\ UNCHANGED <<head, tail, pcp, data, phead, consumer>>

Publish ==
    /\ pcp = "copy" /\ ~(written < Len(data) /\ HasRoom)
    /\ tail' = ptail /\ pcp' = "idle"
    /\ UNCHANGED <<bytes, head, data, ptail, phead, written, consumer>>

-----------------------------------------------------------------------------
(* pop(data, count) *)
Pop ==
    /\ pcc = "idle" /\ count' \in 0 .. MaxBatch
    /\ chead' = head /\ out' = <<>> /\ pcc' = "loadTail"
    /\ UNCHANGED <<bytes, head, tail, ctail, received, producer>>

FreedEarly ==
    /\ pcc = "loadTail" /\ ctail' = tail /\ head' = tail /\ pcc' = "copy"
    /\ UNCHANGED <<bytes, tail, count, chead, out, received, producer>>
LoadTail ==
    /\ pcc = "loadTail" /\ ctail' = tail /\ pcc' = "copy"
    /\ UNCHANGED <<bytes, head, tail, count, chead, out, received, producer>>

CopyOut ==
    /\ pcc = "copy" /\ Len(out) < count /\ chead # ctail
    /\ out' = Append(out, bytes[chead % Capacity])
    /\ chead' = Successor(chead)
    /\ UNCHANGED <<bytes, head, tail, pcc, count, ctail, received, producer>>

Release ==
    /\ pcc = "copy" /\ ~(Len(out) < count /\ chead # ctail)
    /\ head' = chead /\ received' = out /\ pcc' = "idle"
    /\ UNCHANGED <<bytes, tail, count, chead, ctail, out, producer>>

-----------------------------------------------------------------------------
Produce == Push \/ LoadHead \/ CopyIn \/ Publish
Consume == Pop \/ LoadTail \/ CopyOut \/ Release
Next == Produce \/ Consume
Spec == Init /\ [][Next]_vars

-----------------------------------------------------------------------------

(* The bytes between the indexes, oldest first. *)
Contents == [i \in 1 .. Distance(tail, head) |-> bytes[(head + i - 1) % Capacity]]

Fifo == INSTANCE BoundedFifo WITH queue <- Contents
=============================================================================
