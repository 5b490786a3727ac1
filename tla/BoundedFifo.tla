---------------------------- MODULE BoundedFifo ----------------------------
(***************************************************************************)
(* What a byte ring promises its two sides: a queue of at most Capacity    *)
(* bytes.  A push appends a first part of what it is offered, a pop        *)
(* returns and removes a first part of the queue.                          *)
(***************************************************************************)
EXTENDS Naturals, Sequences

CONSTANTS Values, Capacity, MaxBatch
VARIABLES queue, received

Init == queue = <<>> /\ received = <<>>

Push == \E n \in 0 .. MaxBatch : \E added \in [1 .. n -> Values] :
    /\ Len(queue) + n <= Capacity
    /\ queue' = queue \o added
    /\ UNCHANGED received

Pop == \E n \in 0 .. MaxBatch :
    /\ n <= Len(queue)
    /\ received' = SubSeq(queue, 1, n)
    /\ queue' = SubSeq(queue, n + 1, Len(queue))

Next == Push \/ Pop
Spec == Init /\ [][Next]_<<queue, received>>
=============================================================================
