---------------------------- MODULE MCSessions ----------------------------
(* Small instances of Sessions for TLC. *)
EXTENDS Sessions, TLC

Symmetry == Permutations(Proc) \cup Permutations(Sid) \cup Permutations(Jti)
            \cup Permutations(User)

=============================================================================
