-------------------------- MODULE MCApplications --------------------------
(* Small instances of Applications for TLC. *)
EXTENDS Applications, TLC

Symmetry == Permutations(Req) \cup Permutations(App)

=============================================================================
