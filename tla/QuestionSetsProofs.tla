------------------------- MODULE QuestionSetsProofs -------------------------
(***************************************************************************)
(* Proofs about QuestionSets for any number of sets and workers, any       *)
(* faults, and any MAX_ATTEMPTS that covers the queue's retries.           *)
(***************************************************************************)
EXTENDS QuestionSets, TLAPS

(***************************************************************************)
(* The inductive invariant.  The attempts a row has counted and the retries*)
(* its job has left add up to no more than RetryMax while the job waits,   *)
(* and to one more once a run has begun: the two counters cannot drift.    *)
(***************************************************************************)

NoLostReply(s) == "lostReply" \notin Faults[s]

\* The request of a set, its row and its job.
SetOK(s) ==
    /\ api[s] = "idle" => row[s] = None
    /\ api[s] # "idle" => row[s] \in Row
    /\ api[s] \in {"idle", "enqueue"} => job[s].state = "none"
    /\ api[s] \in {"enqueue", "mark"} /\ NoLostReply(s) =>
          job[s].state = "none" /\ row[s].status = "pending"
    /\ api[s] # "idle" /\ job[s].state = "none" =>
          row[s].attempts = 0 /\ ~row[s].questions /\ row[s].status # "completed"
    /\ job[s].state = "queued" => row[s].attempts + job[s].retries <= RetryMax
    /\ job[s].state # "none" => row[s].attempts + job[s].retries <= RetryMax + 1
    /\ api[s] # "idle" /\ NoLostReply(s) =>
          (row[s].questions <=> row[s].status = "completed")

\* A worker that is not idle holds a started job, and what it knows of the row is true.
RunOK(w) ==
    run[w].pc # "idle" =>
        /\ run[w].set \in Set
        /\ job[run[w].set].state = "started"
        /\ run[w].pc \in {"load", "profile"} =>
              row[run[w].set].attempts + job[run[w].set].retries <= RetryMax
        /\ run[w].pc = "profile" => run[w].attempts = row[run[w].set].attempts + 1
        /\ run[w].pc \in {"profile", "llm", "save", "error"} /\ NoLostReply(run[w].set) =>
              ToDo(run[w].set) /\ ~row[run[w].set].questions

\* No two workers run the job of one set.
Exclusive ==
    \A v, w \in Worker :
        run[v].pc # "idle" /\ run[w].pc # "idle" /\ run[v].set = run[w].set => v = w

IInv ==
    /\ TypeOK
    /\ \A s \in Set : SetOK(s)
    /\ \A w \in Worker : RunOK(w)
    /\ Exclusive

-----------------------------------------------------------------------------
(***************************************************************************)
(* Frames: what a step that touches one set, or one set and the worker     *)
(* that runs it, has to show.                                              *)
(***************************************************************************)

\* A step of the request or of the queue on set s, which no worker is running.
LEMMA SetStep ==
    ASSUME IInv, NEW s \in Set, TypeOK', UNCHANGED run,
           \A w \in Worker : run[w].pc # "idle" => run[w].set # s,
           \A t \in Set \ {s} : row'[t] = row[t] /\ api'[t] = api[t] /\ job'[t] = job[t],
           SetOK(s)'
    PROVE  IInv'
  <1>1. ASSUME NEW t \in Set PROVE SetOK(t)'
    BY <1>1 DEF IInv, SetOK, NoLostReply
  <1>2. ASSUME NEW w \in Worker PROVE RunOK(w)'
    BY <1>2 DEF IInv, RunOK, NoLostReply, ToDo
  <1>3. Exclusive'
    BY DEF IInv, Exclusive
  <1>4. QED
    BY <1>1, <1>2, <1>3 DEF IInv

\* A step of worker w on set s, which no other worker is running.
LEMMA RunStep ==
    ASSUME IInv, NEW w \in Worker, NEW s \in Set, TypeOK', UNCHANGED api,
           \A v \in Worker \ {w} : run'[v] = run[v],
           \A v \in Worker \ {w} : run[v].pc # "idle" => run[v].set # s,
           run'[w].pc # "idle" => run'[w].set = s,
           \A t \in Set \ {s} : row'[t] = row[t] /\ job'[t] = job[t],
           SetOK(s)', RunOK(w)'
    PROVE  IInv'
  <1>1. ASSUME NEW t \in Set PROVE SetOK(t)'
    BY <1>1 DEF IInv, SetOK, NoLostReply
  <1>2. ASSUME NEW v \in Worker \ {w} PROVE RunOK(v)'
    BY <1>2 DEF IInv, RunOK, NoLostReply, ToDo
  <1>3. Exclusive'
    BY DEF IInv, Exclusive
  <1>4. QED
    BY <1>1, <1>2, <1>3 DEF IInv

\* The set a busy worker runs: its job is started, so it was requested.
LEMMA Busy ==
    ASSUME IInv, NEW w \in Worker, run[w].pc # "idle"
    PROVE  /\ run[w].set \in Set /\ job[run[w].set].state = "started"
           /\ row[run[w].set] \in Row /\ job[run[w].set] \in Job /\ run[w] \in Run
           /\ api[run[w].set] # "idle"
           /\ \A v \in Worker \ {w} : run[v].pc # "idle" => run[v].set # run[w].set
  BY DEF IInv, RunOK, SetOK, Exclusive, TypeOK

\* Updates of single columns.
LEMMA RowUpdate ==
    ASSUME NEW r \in Row, NEW st \in Status
    PROVE  /\ [r EXCEPT !.status = st] \in Row
           /\ [r EXCEPT !.status = st].status = st
           /\ [r EXCEPT !.status = st].attempts = r.attempts
           /\ [r EXCEPT !.status = st].questions <=> r.questions
  BY DEF Row

\* A failed or abandoned job loses one retry, or is given up.
LEMMA FailureOK ==
    ASSUME CountAssumption, NEW j \in Job, NEW n \in Nat, n + j.retries <= RetryMax + 1
    PROVE  /\ AfterFailure(j) \in Job
           /\ AfterFailure(j).state \in {"queued", "failed"}
           /\ n + AfterFailure(j).retries <= RetryMax + 1
           /\ AfterFailure(j).state = "queued" => n + AfterFailure(j).retries <= RetryMax
  BY DEF AfterFailure, Job

\* What the frames and the steps of a worker have in common: the job function raised.
LEMMA RaisesOK ==
    ASSUME IInv, NEW w \in Worker, NEW s \in Set, s = run[w].set, run[w].pc # "idle",
           JobRaises(w), UNCHANGED <<row, api>>
    PROVE  IInv'
  <1>1. /\ s \in Set /\ job[s].state = "started" /\ row[s] \in Row /\ job[s] \in Job
        /\ api[s] # "idle" /\ \A v \in Worker \ {w} : run[v].pc # "idle" => run[v].set # s
    BY Busy
  <1>2. row[s].attempts \in Nat /\ row[s].attempts + job[s].retries <= RetryMax + 1
    BY <1>1 DEF IInv, SetOK, Row
  <1>3. /\ job' = [job EXCEPT ![s] = AfterFailure(job[s])] /\ run' = [run EXCEPT ![w] = Idle]
        /\ job \in [Set -> Job] /\ run \in [Worker -> Run]
    BY DEF JobRaises, IInv, TypeOK
  <1>4. /\ job'[s] \in Job /\ job'[s].state \in {"queued", "failed"}
        /\ row[s].attempts + job'[s].retries <= RetryMax + 1
        /\ job'[s].state = "queued" => row[s].attempts + job'[s].retries <= RetryMax
    BY <1>1, <1>2, <1>3, FailureOK, CountAssumption
  <1>5. TypeOK'
    BY <1>1, <1>3, <1>4 DEF IInv, TypeOK, Idle, Run
  <1>6. SetOK(s)'
    BY <1>1, <1>4 DEF IInv, SetOK, NoLostReply
  <1>7. RunOK(w)' /\ run'[w].pc = "idle"
    BY <1>3 DEF RunOK, Idle
  <1>8. QED
    BY <1>1, <1>3, <1>5, <1>6, <1>7, RunStep

\* The job function returned.
LEMMA ReturnsOK ==
    ASSUME IInv, NEW w \in Worker, NEW s \in Set, s = run[w].set, run[w].pc # "idle",
           JobReturns(w), UNCHANGED <<row, api>>
    PROVE  IInv'
  <1>1. /\ s \in Set /\ job[s].state = "started" /\ row[s] \in Row /\ job[s] \in Job
        /\ api[s] # "idle" /\ \A v \in Worker \ {w} : run[v].pc # "idle" => run[v].set # s
    BY Busy
  <1>2. /\ job' = [job EXCEPT ![s].state = "finished"] /\ run' = [run EXCEPT ![w] = Idle]
        /\ job \in [Set -> Job] /\ run \in [Worker -> Run]
    BY DEF JobReturns, IInv, TypeOK
  <1>3. job'[s] \in Job /\ job'[s].state = "finished" /\ job'[s].retries = job[s].retries
    BY <1>1, <1>2 DEF Job
  <1>4. TypeOK'
    BY <1>1, <1>2, <1>3 DEF IInv, TypeOK, Idle, Run
  <1>5. SetOK(s)'
    BY <1>1, <1>3 DEF IInv, SetOK, NoLostReply
  <1>6. RunOK(w)' /\ run'[w].pc = "idle"
    BY <1>2 DEF RunOK, Idle
  <1>7. QED
    BY <1>1, <1>2, <1>4, <1>5, <1>6, RunStep

-----------------------------------------------------------------------------
(***************************************************************************)
(* One lemma per group of actions, one step per action.                    *)
(***************************************************************************)

\* The request, a crash of its process, and the queue's clean-up.
LEMMA SetActions ==
    ASSUME IInv, NEW s \in Set, ApiStep(s) \/ ApiCrash(s) \/ Abandoned(s)
    PROVE  IInv'
  <1>0. /\ row \in [Set -> Row \cup {None}] /\ job \in [Set -> Job] /\ run \in [Worker -> Run]
        /\ api \in [Set -> {"idle", "enqueue", "mark", "done"}] /\ SetOK(s)
        /\ \A w \in Worker : RunOK(w)
    BY DEF IInv, TypeOK
  <1>1. CASE Request(s)
    <2>1. TypeOK'
      BY <1>0, <1>1 DEF Request, TypeOK, Row, Status
    <2>2. SetOK(s)'
      BY <1>0, <1>1 DEF Request, SetOK, Row, Status
    <2>3. \A w \in Worker : run[w].pc # "idle" => run[w].set # s
      BY <1>0, <1>1 DEF Request, RunOK, SetOK
    <2>4. QED
      BY <1>0, <1>1, <2>1, <2>2, <2>3, SetStep DEF Request
  <1>2. ASSUME api[s] = "enqueue", api' = [api EXCEPT ![s] = "done"] \/ "lostReply" \in Faults[s],
               api' = [api EXCEPT ![s] = "done"] \/ api' = [api EXCEPT ![s] = "mark"],
               job' = [job EXCEPT ![s] = Queued], UNCHANGED <<row, run>>
        PROVE  IInv'
    <2>1. Queued \in Job /\ Queued.state = "queued" /\ Queued.retries = RetryMax
      BY CountAssumption DEF Queued, Job
    <2>2. TypeOK'
      BY <1>0, <1>2, <2>1 DEF TypeOK
    <2>3. SetOK(s)'
      BY <1>0, <1>2, <2>1, CountAssumption DEF SetOK, NoLostReply, Row
    <2>4. \A w \in Worker : run[w].pc # "idle" => run[w].set # s
      BY <1>0, <1>2 DEF RunOK, SetOK
    <2>5. QED
      BY <1>0, <1>2, <2>2, <2>3, <2>4, SetStep
  <1>3. CASE Enqueue(s)
    BY <1>2, <1>3 DEF Enqueue
  <1>4. CASE EnqueueFails(s)
    <2>1. CASE job' = [job EXCEPT ![s] = Queued] /\ "lostReply" \in Faults[s]
      BY <1>2, <1>4, <2>1 DEF EnqueueFails
    <2>2. CASE UNCHANGED job
      <3>1. TypeOK'
        BY <1>0, <1>4, <2>2 DEF EnqueueFails, TypeOK
      <3>2. SetOK(s)'
        BY <1>0, <1>4, <2>2 DEF EnqueueFails, SetOK, NoLostReply
      <3>3. \A w \in Worker : run[w].pc # "idle" => run[w].set # s
        BY <1>0, <1>4 DEF EnqueueFails, RunOK, SetOK
      <3>4. QED
        BY <1>0, <1>4, <2>2, <3>1, <3>2, <3>3, SetStep DEF EnqueueFails
    <2>3. QED
      BY <1>4, <2>1, <2>2 DEF EnqueueFails
  <1>5. CASE MarkFailed(s)
    <2>1. row[s] \in Row /\ row' = [row EXCEPT ![s].status = "failed"] /\ api[s] = "mark"
          /\ api' = [api EXCEPT ![s] = "done"] /\ UNCHANGED <<job, run>>
      BY <1>0, <1>5 DEF MarkFailed, SetOK
    <2>2. row'[s] \in Row /\ row'[s].status = "failed" /\ row'[s].attempts = row[s].attempts
          /\ (row'[s].questions <=> row[s].questions)
      <3>1. row'[s] = [row[s] EXCEPT !.status = "failed"]
        BY <1>0, <2>1
      <3>2. "failed" \in Status
        BY DEF Status
      <3>3. row[s] \in Row
        BY <2>1
      <3>4. QED
        BY <3>1, <3>2, <3>3, RowUpdate
    <2>3. TypeOK'
      BY <1>0, <2>1, <2>2 DEF TypeOK
    <2>4. SetOK(s)'
      BY <1>0, <2>1, <2>2 DEF SetOK, NoLostReply
    <2>5. ASSUME NEW w \in Worker PROVE RunOK(w)'
      BY <1>0, <2>1, <2>2, <2>5 DEF RunOK, SetOK, NoLostReply, ToDo
    <2>6. ASSUME NEW t \in Set PROVE SetOK(t)'
      BY <1>0, <2>1, <2>4, <2>6 DEF SetOK, NoLostReply, IInv
    <2>7. QED
      BY <2>1, <2>3, <2>5, <2>6 DEF IInv, Exclusive
  <1>6. CASE ApiCrash(s)
    <2>1. api[s] \in {"enqueue", "mark"} /\ api' = [api EXCEPT ![s] = "done"]
          /\ UNCHANGED <<row, job, run>>
      BY <1>6 DEF ApiCrash
    <2>2. TypeOK'
      BY <1>0, <2>1 DEF TypeOK
    <2>3. ASSUME NEW t \in Set PROVE SetOK(t)'
      BY <1>0, <2>1, <2>3 DEF SetOK, NoLostReply, IInv
    <2>4. ASSUME NEW w \in Worker PROVE RunOK(w)'
      BY <1>0, <2>1, <2>4 DEF RunOK, ToDo
    <2>5. QED
      BY <2>1, <2>2, <2>3, <2>4 DEF IInv, Exclusive
  <1>7. CASE Abandoned(s)
    <2>1. job[s].state = "started" /\ job' = [job EXCEPT ![s] = AfterFailure(job[s])]
          /\ UNCHANGED <<row, api, run>> /\ \A w \in Worker : run[w].set # s
      BY <1>7 DEF Abandoned
    <2>2. api[s] # "idle" /\ row[s] \in Row /\ row[s].attempts \in Nat
          /\ row[s].attempts + job[s].retries <= RetryMax + 1
      BY <1>0, <2>1 DEF SetOK, Row
    <2>3. /\ job'[s] \in Job /\ job'[s].state \in {"queued", "failed"}
          /\ row[s].attempts + job'[s].retries <= RetryMax + 1
          /\ job'[s].state = "queued" => row[s].attempts + job'[s].retries <= RetryMax
      BY <1>0, <2>1, <2>2, FailureOK, CountAssumption
    <2>4. TypeOK'
      BY <1>0, <2>1, <2>3 DEF TypeOK
    <2>5. SetOK(s)'
      BY <1>0, <2>1, <2>2, <2>3 DEF SetOK, NoLostReply
    <2>6. QED
      BY <1>0, <2>1, <2>4, <2>5, SetStep
  <1>8. QED
    BY <1>1, <1>3, <1>4, <1>5, <1>6, <1>7 DEF ApiStep

\* A worker that moves within its job without touching the row or the queue.
LEMMA MovesOK ==
    ASSUME IInv, NEW w \in Worker, NEW s \in Set, s = run[w].set, run[w].pc # "idle",
           run' \in [Worker -> Run], \A v \in Worker \ {w} : run'[v] = run[v],
           run'[w].set = s, RunOK(w)', UNCHANGED <<row, api, job>>
    PROVE  IInv'
  <1>1. TypeOK' /\ SetOK(s)'
    BY DEF IInv, TypeOK, SetOK, NoLostReply
  <1>2. QED
    BY <1>1, Busy, RunStep

\* The steps of a worker, and its death.
LEMMA WorkerActions ==
    ASSUME IInv, NEW w \in Worker, WorkerStep(w) \/ WorkerDies(w)
    PROVE  IInv'
  <1>0. /\ row \in [Set -> Row \cup {None}] /\ job \in [Set -> Job] /\ run \in [Worker -> Run]
        /\ api \in [Set -> {"idle", "enqueue", "mark", "done"}]
        /\ \A s \in Set : SetOK(s)
        /\ RunOK(w) /\ run[w] \in Run
    BY DEF IInv, TypeOK
  <1>1. ASSUME NEW s \in Set, Take(w, s) PROVE IInv'
    <2>1. /\ run[w].pc = "idle" /\ job[s].state = "queued" /\ UNCHANGED <<row, api>>
          /\ job' = [job EXCEPT ![s].state = "started"]
          /\ run' = [run EXCEPT ![w] = [Idle EXCEPT !.pc = "load", !.set = s]]
      BY <1>1 DEF Take
    <2>2. job'[s] \in Job /\ job'[s].state = "started" /\ job'[s].retries = job[s].retries
      BY <1>0, <2>1 DEF Job
    <2>3. run'[w] \in Run /\ run'[w].pc = "load" /\ run'[w].set = s
      BY <1>0, <2>1 DEF Run, Idle
    <2>4. row[s].attempts + job[s].retries <= RetryMax /\ api[s] # "idle" /\ row[s] \in Row
      BY <1>0, <2>1 DEF SetOK
    <2>5. row[s].attempts \in Nat /\ job[s].retries \in Nat /\ RetryMax \in Nat
      BY <1>0, <2>4, CountAssumption DEF Row, Job
    <2>6. TypeOK'
      BY <1>0, <2>1, <2>2, <2>3 DEF TypeOK
    <2>7. SetOK(s)'
      BY <1>0, <2>1, <2>2, <2>4, <2>5 DEF SetOK, NoLostReply
    <2>8. RunOK(w)'
      BY <2>1, <2>2, <2>3, <2>4 DEF RunOK
    <2>9. \A v \in Worker \ {w} : run[v].pc # "idle" => run[v].set # s
      BY <2>1 DEF IInv, RunOK
    <2>10. QED
      BY <1>0, <2>1, <2>2, <2>3, <2>6, <2>7, <2>8, <2>9, RunStep
  <1>2. SUFFICES ASSUME run[w].pc # "idle", ~ \E s \in Set : Take(w, s) PROVE IInv'
    BY <1>1 DEF WorkerStep, WorkerDies, AlreadyProcessed, LoadRow, ProfileFails,
                CommitProcessing, ModelAnswers, ModelFails, JobTimesOut, RecordError,
                RecordErrorFails, Save, SaveFails, Acknowledge
  <1>3. PICK s \in Set :
            /\ s = run[w].set /\ job[s].state = "started" /\ row[s] \in Row /\ job[s] \in Job
            /\ api[s] # "idle"
            /\ \A v \in Worker \ {w} : run[v].pc # "idle" => run[v].set # s
    BY <1>2, Busy
  <1>4. CASE AlreadyProcessed(w) \/ Acknowledge(w)
    BY <1>2, <1>3, <1>4, ReturnsOK DEF AlreadyProcessed, Acknowledge
  <1>5. CASE ProfileFails(w) \/ JobTimesOut(w) \/ RecordErrorFails(w) \/ SaveFails(w)
    BY <1>2, <1>3, <1>5, RaisesOK DEF ProfileFails, JobTimesOut, RecordErrorFails, SaveFails
  <1>6. CASE LoadRow(w)
    <2>1. /\ run[w].pc = "load" /\ ToDo(s) /\ UNCHANGED <<row, api, job>>
          /\ run' = [run EXCEPT ![w].pc = "profile", ![w].attempts = row[s].attempts + 1]
      BY <1>3, <1>6 DEF LoadRow
    <2>2. row[s].attempts \in Nat
      BY <1>3 DEF Row
    <2>3. /\ run'[w] \in Run /\ run'[w].pc = "profile" /\ run'[w].set = s
          /\ run'[w].attempts = row[s].attempts + 1
      <3>1. run'[w] = [run[w] EXCEPT !.pc = "profile", !.attempts = row[s].attempts + 1]
        BY <1>0, <2>1
      <3>2. row[s].attempts + 1 \in Nat
        BY <2>2
      <3>3. run[w] \in Run /\ run[w].set = s
        BY <1>0, <1>3
      <3>4. QED
        BY <3>1, <3>2, <3>3 DEF Run
    <2>4. NoLostReply(s) => ~row[s].questions
      BY <1>0, <1>3, <2>1 DEF SetOK, ToDo
    <2>5. RunOK(w)'
      BY <1>0, <1>3, <2>1, <2>3, <2>4 DEF RunOK, NoLostReply, ToDo
    <2>6. QED
      BY <1>0, <1>2, <1>3, <2>1, <2>3, <2>5, MovesOK
  <1>7. CASE ModelAnswers(w)
    <2>1. /\ run[w].pc = "llm" /\ UNCHANGED <<row, api, job>>
          /\ run' = [run EXCEPT ![w].pc = "save"]
      BY <1>7 DEF ModelAnswers
    <2>2. run'[w] \in Run /\ run'[w].pc = "save" /\ run'[w].set = s
      BY <1>0, <1>3, <2>1 DEF Run
    <2>3. RunOK(w)'
      BY <1>0, <1>3, <2>1, <2>2 DEF RunOK, NoLostReply, ToDo
    <2>4. QED
      BY <1>0, <1>2, <1>3, <2>1, <2>2, <2>3, MovesOK
  <1>8. ASSUME NEW retryable \in BOOLEAN, ModelFails(w, retryable) PROVE IInv'
    <2>1. /\ run[w].pc = "llm" /\ UNCHANGED <<row, api, job>>
          /\ run' = [run EXCEPT ![w].pc = "error",
                                ![w].final = IsFinal(retryable, run[w].attempts)]
      BY <1>8 DEF ModelFails
    <2>2. IsFinal(retryable, run[w].attempts) \in BOOLEAN
      BY DEF IsFinal
    <2>3. run'[w] \in Run /\ run'[w].pc = "error" /\ run'[w].set = s
      BY <1>0, <1>3, <2>1, <2>2 DEF Run
    <2>4. RunOK(w)'
      BY <1>0, <1>3, <2>1, <2>3 DEF RunOK, NoLostReply, ToDo
    <2>5. QED
      BY <1>0, <1>2, <1>3, <2>1, <2>3, <2>4, MovesOK
  <1>9. CASE CommitProcessing(w)
    <2>1. /\ run[w].pc = "profile" /\ UNCHANGED <<api, job>>
          /\ row' = [row EXCEPT ![s].status = "processing", ![s].attempts = run[w].attempts]
          /\ run' = [run EXCEPT ![w].pc = "llm"]
      BY <1>3, <1>9 DEF CommitProcessing
    <2>2. run'[w] \in Run /\ run'[w].pc = "llm" /\ run'[w].set = s
      BY <1>0, <1>3, <2>1 DEF Run
    <2>3. /\ run[w].attempts \in Nat /\ run[w].attempts = row[s].attempts + 1
          /\ row[s].attempts + job[s].retries <= RetryMax
          /\ (NoLostReply(s) => ~row[s].questions)
      BY <1>0, <1>2, <1>3, <2>1 DEF RunOK, Run
    <2>4. /\ row'[s] \in Row /\ row'[s].status = "processing"
          /\ row'[s].attempts = row[s].attempts + 1 /\ (row'[s].questions <=> row[s].questions)
      BY <1>0, <1>3, <2>1, <2>3 DEF Row, Status
    <2>5. row[s].attempts \in Nat /\ job[s].retries \in Nat /\ RetryMax \in Nat
      BY <1>3, CountAssumption DEF Row, Job
    <2>6. TypeOK'
      BY <1>0, <2>1, <2>2, <2>4 DEF TypeOK
    <2>7. SetOK(s)'
      BY <1>0, <1>3, <2>1, <2>3, <2>4, <2>5 DEF SetOK, NoLostReply
    <2>8. RunOK(w)'
      BY <1>3, <2>1, <2>2, <2>3, <2>4 DEF RunOK, NoLostReply, ToDo
    <2>9. QED
      BY <1>0, <1>3, <2>1, <2>2, <2>6, <2>7, <2>8, RunStep
  <1>10. CASE RecordError(w)
    <2>1. /\ run[w].pc = "error" /\ UNCHANGED api
          /\ row' = [row EXCEPT ![s].status = IF run[w].final THEN "failed" ELSE "pending"]
          /\ IF run[w].final THEN run' = [run EXCEPT ![w].pc = "ack"] /\ UNCHANGED job
             ELSE JobRaises(w)
      BY <1>3, <1>10 DEF RecordError
    <2>2. NoLostReply(s) => ~row[s].questions
      BY <1>0, <1>2, <1>3, <2>1 DEF RunOK
    <2>3. /\ row'[s] \in Row /\ row'[s].status \in {"failed", "pending"}
          /\ row'[s].attempts = row[s].attempts /\ (row'[s].questions <=> row[s].questions)
      BY <1>0, <1>3, <2>1 DEF Row, Status
    <2>4. row[s].attempts \in Nat /\ row[s].attempts + job[s].retries <= RetryMax + 1
      BY <1>0, <1>3 DEF SetOK, Row
    <2>5. CASE run[w].final
      <3>1. run'[w] \in Run /\ run'[w].pc = "ack" /\ run'[w].set = s
        BY <1>0, <1>3, <2>1, <2>5 DEF Run
      <3>2. TypeOK'
        BY <1>0, <2>1, <2>3, <2>5, <3>1 DEF TypeOK
      <3>3. SetOK(s)'
        BY <1>0, <1>3, <2>1, <2>2, <2>3, <2>4, <2>5 DEF SetOK, NoLostReply
      <3>4. RunOK(w)'
        BY <1>3, <2>1, <2>5, <3>1 DEF RunOK
      <3>5. QED
        BY <1>0, <1>3, <2>1, <2>5, <3>1, <3>2, <3>3, <3>4, RunStep
    <2>6. CASE ~run[w].final
      <3>1. job' = [job EXCEPT ![s] = AfterFailure(job[s])] /\ run' = [run EXCEPT ![w] = Idle]
        BY <1>3, <2>1, <2>6 DEF JobRaises
      <3>2. /\ job'[s] \in Job /\ job'[s].state \in {"queued", "failed"}
            /\ row[s].attempts + job'[s].retries <= RetryMax + 1
            /\ job'[s].state = "queued" => row[s].attempts + job'[s].retries <= RetryMax
        BY <1>0, <1>3, <2>4, <3>1, FailureOK, CountAssumption
      <3>3. TypeOK'
        BY <1>0, <2>1, <2>3, <3>1, <3>2 DEF TypeOK, Idle, Run
      <3>4. SetOK(s)'
        BY <1>0, <1>3, <2>1, <2>2, <2>3, <3>2 DEF SetOK, NoLostReply
      <3>5. RunOK(w)' /\ run'[w].pc = "idle"
        BY <1>0, <3>1 DEF RunOK, Idle
      <3>6. QED
        BY <1>0, <1>3, <2>1, <3>1, <3>3, <3>4, <3>5, RunStep
    <2>7. QED
      BY <2>5, <2>6
  <1>11. CASE Save(w)
    <2>1. /\ run[w].pc = "save" /\ UNCHANGED <<api, job>> /\ ~row[s].questions
          /\ row' = [row EXCEPT ![s].status = "completed", ![s].questions = TRUE]
          /\ run' = [run EXCEPT ![w].pc = "ack"]
      BY <1>3, <1>11 DEF Save
    <2>2. run'[w] \in Run /\ run'[w].pc = "ack" /\ run'[w].set = s
      BY <1>0, <1>3, <2>1 DEF Run
    <2>3. /\ row'[s] \in Row /\ row'[s].status = "completed"
          /\ row'[s].attempts = row[s].attempts /\ row'[s].questions
      BY <1>0, <1>3, <2>1 DEF Row, Status
    <2>4. TypeOK'
      BY <1>0, <2>1, <2>2, <2>3 DEF TypeOK
    <2>5. SetOK(s)'
      BY <1>0, <1>3, <2>1, <2>3 DEF SetOK, NoLostReply
    <2>6. RunOK(w)'
      BY <1>3, <2>1, <2>2 DEF RunOK
    <2>7. QED
      BY <1>0, <1>3, <2>1, <2>2, <2>4, <2>5, <2>6, RunStep
  <1>12. CASE WorkerDies(w)
    <2>1. run' = [run EXCEPT ![w] = Idle] /\ UNCHANGED <<row, api, job>>
      BY <1>12 DEF WorkerDies
    <2>2. TypeOK' /\ SetOK(s)'
      BY <1>0, <2>1 DEF TypeOK, Idle, Run, SetOK, NoLostReply
    <2>3. RunOK(w)' /\ run'[w].pc = "idle"
      BY <1>0, <2>1 DEF RunOK, Idle
    <2>4. QED
      BY <1>0, <1>3, <2>1, <2>2, <2>3, RunStep
  <1>13. QED
    BY <1>2, <1>4, <1>5, <1>6, <1>7, <1>8, <1>9, <1>10, <1>11, <1>12 DEF WorkerStep

-----------------------------------------------------------------------------
(***************************************************************************)
(* The theorems.                                                           *)
(***************************************************************************)

LEMMA InitOK == Init => IInv
  <1> SUFFICES ASSUME Init PROVE IInv
    OBVIOUS
  <1>1. TypeOK
    BY CountAssumption DEF Init, TypeOK, Idle, Run, Job
  <1>2. (\A s \in Set : SetOK(s)) /\ (\A w \in Worker : RunOK(w)) /\ Exclusive
    BY DEF Init, SetOK, RunOK, Exclusive, Idle
  <1>3. QED
    BY <1>1, <1>2 DEF IInv

LEMMA StutterOK == IInv /\ UNCHANGED vars => IInv'
  BY DEF IInv, TypeOK, SetOK, RunOK, Exclusive, ToDo, NoLostReply, vars

LEMMA NextOK == IInv /\ [Next]_vars => IInv'
  BY SetActions, WorkerActions, StutterOK DEF Next

\* The row of every set, its job in the queue and the runs of the workers agree, whatever
\* requests, retries, crashes and timeouts do: genai.py, service.py and queue.py together
\* keep the inductive invariant.
THEOREM Invariant == Spec => []IInv
  BY InitOK, NextOK, PTL DEF Spec

\* The attempts of a row never exceed MAX_ATTEMPTS, and (while no reply of Redis is lost) a
\* set has questions exactly when run_question_set_job completed it.
THEOREM Consistent == Spec => []RowsConsistent
  <1>1. IInv => RowsConsistent
    <2> SUFFICES ASSUME IInv PROVE RowsConsistent
      OBVIOUS
    <2>1. ASSUME NEW s \in Set, row[s] # None PROVE row[s].attempts <= MaxAttempts
      <3>1. row[s] \in Row /\ api[s] # "idle" /\ SetOK(s) /\ job[s] \in Job
        BY <2>1 DEF IInv, TypeOK, SetOK
      <3>2. row[s].attempts \in Nat /\ job[s].retries \in Nat
        BY <3>1 DEF Row, Job
      <3>3. row[s].attempts <= RetryMax + 1
        BY <3>1, <3>2, CountAssumption DEF SetOK
      <3>4. QED
        BY <3>2, <3>3, CountAssumption, RetryAssumption
    <2>2. QuestionsIffCompleted
      BY DEF IInv, SetOK, NoLostReply, QuestionsIffCompleted
    <2>3. QED
      BY <2>1, <2>2 DEF IInv, RowsConsistent, AttemptsBounded
  <1>2. QED
    BY <1>1, Invariant, PTL

\* A completed or failed set is never written again by any step, the job run once more
\* after a crash included, unless Redis lost the reply to its enqueue.
THEOREM SettledFinal == Spec => SettledIsFinal
  <1> DEFINE Keeps == \A s \in Set :
               row[s] # None /\ row[s].status \in Settled /\ "lostReply" \notin Faults[s]
                 => row'[s] = row[s]
  <1>1. IInv /\ [Next]_vars => [Keeps]_vars
    <2> SUFFICES ASSUME IInv, Next, NEW s \in Set, row[s] # None,
                        row[s].status \in Settled, NoLostReply(s)
                 PROVE  row'[s] = row[s]
      BY DEF NoLostReply
    <2>1. ASSUME NEW t \in Set, ApiStep(t) \/ ApiCrash(t) \/ Abandoned(t)
          PROVE  row'[s] = row[s]
      <3>1. SetOK(t) /\ row \in [Set -> Row \cup {None}]
        BY DEF IInv, TypeOK
      <3>2. (Request(t) \/ MarkFailed(t)) => t # s
        BY <3>1 DEF Request, MarkFailed, SetOK, Settled
      <3>3. QED
        BY <2>1, <3>1, <3>2 DEF ApiStep, Request, Enqueue, EnqueueFails, MarkFailed, ApiCrash,
                                Abandoned
    <2>2. ASSUME NEW w \in Worker, WorkerStep(w) \/ WorkerDies(w)
          PROVE  row'[s] = row[s]
      <3>1. RunOK(w) /\ row \in [Set -> Row \cup {None}]
        BY DEF IInv, TypeOK
      <3>2. run[w].pc \in {"profile", "error", "save"} => run[w].set # s
        BY <3>1 DEF RunOK, ToDo, Settled
      <3>3. QED
        BY <2>2, <3>1, <3>2 DEF WorkerStep, WorkerDies, Take, AlreadyProcessed, LoadRow,
              ProfileFails, CommitProcessing, ModelAnswers, ModelFails, JobTimesOut,
              RecordError, RecordErrorFails, Save, SaveFails, Acknowledge
    <2>3. QED
      BY <2>1, <2>2 DEF Next
  <1>2. QED
    BY <1>1, Invariant, PTL DEF Spec, SettledIsFinal

=============================================================================
