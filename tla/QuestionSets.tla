---------------------------- MODULE QuestionSets ----------------------------
(***************************************************************************)
(* Generating interview questions: POST /genai/interview-questions         *)
(* (app/routers/genai.py) stores a pending set and queues one job; a       *)
(* worker runs run_question_set_job (app/genai/service.py) under the retry *)
(* policy of app/core/queue.py.  RQ itself is external: it hands a queued  *)
(* job to one worker, runs a job whose function raised, or whose worker    *)
(* died, again while retries are left, and gives it up afterwards.         *)
(*                                                                         *)
(* The row counts its attempts, the queue counts its retries; the code     *)
(* relies on the two agreeing.                                             *)
(***************************************************************************)
EXTENDS Naturals

CONSTANTS
    Set,          \* question sets
    Worker,       \* workers of the genai queue
    None,         \* a missing value
    MaxAttempts,  \* MAX_ATTEMPTS of app/genai/service.py
    RetryMax,     \* Retry(max=...) of _GENAI_POLICY
    Faults        \* the failures that may hit the request and the job of a set

ASSUME CountAssumption == MaxAttempts \in Nat \ {0} /\ RetryMax \in Nat

\* queue.py keeps the two counts in agreement: the first run and its retries are
\* together no more than the attempts the row allows.
ASSUME RetryAssumption == RetryMax + 1 <= MaxAttempts

\* profile: loading the interview profile raises;  crash: a worker dies;
\* apiCrash: the API process dies;  lostReply: Redis has taken the job but the
\* client times out waiting for the reply;  timeout: the job runs longer than
\* its job_timeout;  save: the commit that ends an attempt fails.
ASSUME FaultAssumption ==
    Faults \in [Set -> SUBSET
        {"profile", "crash", "apiCrash", "lostReply", "timeout", "save"}]

VARIABLES
    row,  \* interview_question_sets (and whether interview_questions exist)
    api,  \* progress of the request that creates the set
    job,  \* the RQ job of the set
    run   \* what each worker is doing

vars == <<row, api, job, run>>

Status == {"pending", "processing", "completed", "failed"}

Settled == {"completed", "failed"}

Row == [status : Status, attempts : Nat, questions : BOOLEAN]

Job == [state : {"none", "queued", "started", "finished", "failed"},
        retries : Nat]

Run == [pc : {"idle", "load", "profile", "llm", "save", "error", "ack"},
        set : Set \cup {None}, attempts : Nat, final : BOOLEAN]

Idle == [pc |-> "idle", set |-> None, attempts |-> 0, final |-> FALSE]

Init ==
    /\ row = [s \in Set |-> None]
    /\ api = [s \in Set |-> "idle"]
    /\ job = [s \in Set |-> [state |-> "none", retries |-> 0]]
    /\ run = [w \in Worker |-> Idle]

-----------------------------------------------------------------------------
(* POST /genai/interview-questions *)

Request(s) ==
    /\ api[s] = "idle"
    /\ row' = [row EXCEPT ![s] =
            [status |-> "pending", attempts |-> 0, questions |-> FALSE]]
    /\ api' = [api EXCEPT ![s] = "enqueue"]
    /\ UNCHANGED <<job, run>>

\* Mutant: one retry more than the attempts the row allows.
QueuedOnceMore == [state |-> "queued", retries |-> RetryMax + 1]

Queued == [state |-> "queued", retries |-> RetryMax]

\* 202 with the status URL.
Enqueue(s) ==
    /\ api[s] = "enqueue"
    /\ job' = [job EXCEPT ![s] = Queued]
    /\ api' = [api EXCEPT ![s] = "done"]
    /\ UNCHANGED <<row, run>>

\* enqueue_task swallows the error and returns None; the job may be queued
\* all the same.
EnqueueFails(s) ==
    /\ api[s] = "enqueue"
    /\ \/ UNCHANGED job
       \/ "lostReply" \in Faults[s] /\ job' = [job EXCEPT ![s] = Queued]
    /\ api' = [api EXCEPT ![s] = "mark"]
    /\ UNCHANGED <<row, run>>

\* The handler then marks the set failed (503), whatever the row says by now.
MarkFailed(s) ==
    /\ api[s] = "mark"
    /\ row' = [row EXCEPT ![s].status = "failed"]
    /\ api' = [api EXCEPT ![s] = "done"]
    /\ UNCHANGED <<job, run>>

ApiCrash(s) ==
    /\ "apiCrash" \in Faults[s]
    /\ api[s] \in {"enqueue", "mark"}
    /\ api' = [api EXCEPT ![s] = "done"]
    /\ UNCHANGED <<row, job, run>>

-----------------------------------------------------------------------------
(* The queue *)

Take(w, s) ==
    /\ run[w].pc = "idle"
    /\ job[s].state = "queued"
    /\ job' = [job EXCEPT ![s].state = "started"]
    /\ run' = [run EXCEPT ![w] = [Idle EXCEPT !.pc = "load", !.set = s]]
    /\ UNCHANGED <<row, api>>

\* The job function returned.
JobReturns(w) ==
    /\ job' = [job EXCEPT ![run[w].set].state = "finished"]
    /\ run' = [run EXCEPT ![w] = Idle]

\* Mutant: the retry counter is not consulted.
RetryForEver(j) == [state |-> "queued", retries |-> j.retries - 1]

\* What RQ does with a failed or abandoned job.
AfterFailure(j) ==
    IF j.retries > 0 THEN [state |-> "queued", retries |-> j.retries - 1]
                     ELSE [state |-> "failed", retries |-> 0]

\* The job function raised.
JobRaises(w) ==
    /\ job' = [job EXCEPT ![run[w].set] = AfterFailure(@)]
    /\ run' = [run EXCEPT ![w] = Idle]

WorkerDies(w) ==
    /\ run[w].pc # "idle"
    /\ "crash" \in Faults[run[w].set]
    /\ run' = [run EXCEPT ![w] = Idle]
    /\ UNCHANGED <<row, api, job>>

Abandoned(s) ==
    /\ job[s].state = "started"
    /\ \A w \in Worker : run[w].set # s
    /\ job' = [job EXCEPT ![s] = AfterFailure(@)]
    /\ UNCHANGED <<row, api, run>>

-----------------------------------------------------------------------------
(* run_question_set_job *)

\* Mutant: only failed sets are skipped.
NotFailed(s) == row[s].status # "failed"

\* Mutant: only completed sets are skipped.
NotCompleted(s) == row[s].status # "completed"

\* The early return of a set that was processed before.
ToDo(s) == row[s].status \in {"pending", "processing"}

AlreadyProcessed(w) ==
    /\ run[w].pc = "load" /\ ~ToDo(run[w].set)
    /\ JobReturns(w)
    /\ UNCHANGED <<row, api>>

\* The ORM object keeps attempts + 1 while the profile is loaded.
LoadRow(w) ==
    /\ run[w].pc = "load" /\ ToDo(run[w].set)
    /\ run' = [run EXCEPT ![w].pc = "profile",
                          ![w].attempts = row[run[w].set].attempts + 1]
    /\ UNCHANGED <<row, api, job>>

ProfileFails(w) ==
    /\ run[w].pc = "profile"
    /\ "profile" \in Faults[run[w].set]
    /\ JobRaises(w)
    /\ UNCHANGED <<row, api>>

CommitProcessing(w) ==
    /\ run[w].pc = "profile"
    /\ row' = [row EXCEPT ![run[w].set].status = "processing",
                          ![run[w].set].attempts = run[w].attempts]
    /\ run' = [run EXCEPT ![w].pc = "llm"]
    /\ UNCHANGED <<api, job>>

ModelAnswers(w) ==
    /\ run[w].pc = "llm"
    /\ run' = [run EXCEPT ![w].pc = "save"]
    /\ UNCHANGED <<row, api, job>>

\* Mutant: one attempt more than the queue makes.
FinalAfterMore(retryable, attempts) == ~retryable \/ attempts > MaxAttempts

IsFinal(retryable, attempts) == ~retryable \/ attempts >= MaxAttempts

\* GenAIError from the client: network, 429 and 5xx are retryable, unusable
\* output (also after one repair round) is not.
ModelFails(w, retryable) ==
    /\ run[w].pc = "llm"
    /\ run' = [run EXCEPT ![w].pc = "error",
                          ![w].final = IsFinal(retryable, run[w].attempts)]
    /\ UNCHANGED <<row, api, job>>

\* JobTimeoutException is no GenAIError: the row stays "processing".
JobTimesOut(w) ==
    /\ run[w].pc = "llm"
    /\ "timeout" \in Faults[run[w].set]
    /\ JobRaises(w)
    /\ UNCHANGED <<row, api>>

RecordError(w) ==
    /\ run[w].pc = "error"
    /\ row' = [row EXCEPT ![run[w].set].status =
                    IF run[w].final THEN "failed" ELSE "pending"]
    /\ IF run[w].final
       THEN run' = [run EXCEPT ![w].pc = "ack"] /\ UNCHANGED job
       ELSE JobRaises(w)
    /\ UNCHANGED api

RecordErrorFails(w) ==
    /\ run[w].pc = "error"
    /\ "save" \in Faults[run[w].set]
    /\ JobRaises(w)
    /\ UNCHANGED <<row, api>>

\* The questions and the completed status are one transaction; the unique
\* index on (set, position) refuses a second batch.
Save(w) ==
    /\ run[w].pc = "save"
    /\ ~row[run[w].set].questions
    /\ row' = [row EXCEPT ![run[w].set].status = "completed",
                          ![run[w].set].questions = TRUE]
    /\ run' = [run EXCEPT ![w].pc = "ack"]
    /\ UNCHANGED <<api, job>>

SaveFails(w) ==
    /\ run[w].pc = "save"
    /\ "save" \in Faults[run[w].set] \/ row[run[w].set].questions
    /\ JobRaises(w)
    /\ UNCHANGED <<row, api>>

Acknowledge(w) ==
    /\ run[w].pc = "ack"
    /\ JobReturns(w)
    /\ UNCHANGED <<row, api>>

ApiStep(s) == Request(s) \/ Enqueue(s) \/ EnqueueFails(s) \/ MarkFailed(s)

WorkerStep(w) ==
    \/ \E s \in Set : Take(w, s)
    \/ AlreadyProcessed(w)
    \/ LoadRow(w)
    \/ ProfileFails(w)
    \/ CommitProcessing(w)
    \/ ModelAnswers(w)
    \/ \E retryable \in BOOLEAN : ModelFails(w, retryable)
    \/ JobTimesOut(w)
    \/ RecordError(w)
    \/ RecordErrorFails(w)
    \/ Save(w)
    \/ SaveFails(w)
    \/ Acknowledge(w)

Next ==
    \/ \E s \in Set : ApiStep(s) \/ ApiCrash(s) \/ Abandoned(s)
    \/ \E w \in Worker : WorkerStep(w) \/ WorkerDies(w)

\* The event loop resumes a request, a worker goes on with its job, and RQ's
\* scheduler and registry clean-up run for ever; nobody has to make a request.
Fairness ==
    /\ \A s \in Set : WF_vars(Enqueue(s) \/ EnqueueFails(s) \/ MarkFailed(s))
    /\ \A s \in Set : WF_vars(Abandoned(s))
    /\ \A w \in Worker : WF_vars(WorkerStep(w))

Spec == Init /\ [][Next]_vars /\ Fairness

-----------------------------------------------------------------------------
(* Properties *)

\* The row, the job and the runs keep their shape.
TypeOK ==
    /\ row \in [Set -> Row \cup {None}]
    /\ api \in [Set -> {"idle", "enqueue", "mark", "done"}]
    /\ job \in [Set -> Job]
    /\ run \in [Worker -> Run]

\* The model is never asked more than MAX_ATTEMPTS times for one set, however
\* errors, crashes and retries of the queue combine.
AttemptsBounded == \A s \in Set : row[s] # None => row[s].attempts <= MaxAttempts

\* Docs: until the status is "completed" the list of questions is empty, and
\* a completed set has its questions.  (A lost reply of Redis breaks this: the
\* handler marks a set failed that a worker completes.)
QuestionsIffCompleted ==
    \A s \in Set : row[s] # None /\ "lostReply" \notin Faults[s] =>
        (row[s].questions <=> row[s].status = "completed")

\* The row, the queue and the runs agree on how far a set is, in every combination of
\* failures: its shape, its attempts and its questions.
RowsConsistent == TypeOK /\ AttemptsBounded /\ QuestionsIffCompleted

\* A settled set is never touched again, even when a worker dies after the
\* commit and the queue runs the job once more.
SettledIsFinal ==
    [][\A s \in Set :
         row[s] # None /\ row[s].status \in Settled /\ "lostReply" \notin Faults[s]
           => row'[s] = row[s]]_vars

Ends(s) == row[s] # None ~> (row[s] # None /\ row[s].status \in Settled)

\* When nothing but the model and the calls of Redis fail, every requested set
\* ends as completed or failed.
SettlesWithoutFaults == \A s \in Set : Faults[s] \subseteq {"lostReply"} => Ends(s)

=============================================================================
