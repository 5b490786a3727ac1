-------------------------- MODULE MCFmgoSessions ---------------------------
(* A small instance of FmgoSessions for TLC. *)
EXTENDS FmgoSessions, TLC

CONSTANTS o1, o2

SlotSymmetry == Permutations(Owners)
=============================================================================
