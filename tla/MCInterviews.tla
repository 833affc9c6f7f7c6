--------------------------- MODULE MCInterviews ---------------------------
(* Small instances of Interviews for TLC. *)
EXTENDS Interviews, TLC

Symmetry == Permutations(Interview) \cup Permutations(Interviewer)
                \cup Permutations(Manager)

=============================================================================
