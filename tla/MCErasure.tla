---------------------------- MODULE MCErasure ----------------------------
(* Small instances of Erasure for TLC. *)
EXTENDS Erasure, TLC

Symmetry == Permutations(Req) \cup Permutations(Resume)

=============================================================================
