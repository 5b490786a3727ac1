---- MODULE MCProofUpload ----
(* Instances of the private upload listener and its host tools. *)
EXTENDS ProofUpload, TLC

Symmetry == Permutations(Conns)
====
