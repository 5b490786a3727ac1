-------------------------- MODULE MCStatefulUpload --------------------------
(* A small instance of StatefulUpload for TLC. *)
EXTENDS StatefulUpload, TLC

CONSTANTS o1, o2, a, b, x

MCSize == [c \in Capsules |-> IF c = b THEN 3 ELSE 2]
OwnerSymmetry == Permutations(Owners)
=============================================================================
