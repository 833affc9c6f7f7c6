------------------------------ MODULE MCBackup ------------------------------
(* Instances of Backup for TLC. *)
EXTENDS Backup, TLC

(* A partial first backup and its repair; two full backups racing for the lock;   *)
(* hourly runs between two nightly ones; the weekly copy of the resumes.           *)
MCSchedules == {<<"ensure-full", "wal", "wal">>, <<"full", "full", "wal">>,
                <<"wal", "full", "wal">>, <<"full", "wal", "full">>,
                <<"full", "resumes", "resumes">>}

JobSymmetry == Permutations(Jobs)
=============================================================================
