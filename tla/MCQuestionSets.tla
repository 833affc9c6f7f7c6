-------------------------- MODULE MCQuestionSets --------------------------
(* Small instances of QuestionSets for TLC: one set whose worker, database *)
(* and API process fail, one whose job Redis takes without answering.      *)
EXTENDS QuestionSets, TLC

CONSTANTS s1, s2

MCFaults == s1 :> {"profile", "crash", "apiCrash", "timeout", "save"}
            @@ s2 :> {"lostReply"}

=============================================================================
