---------------------------- MODULE AgentPipeline ----------------------------
(***************************************************************************)
(* A resume worker: app/worker.py runs the jobs of the "resumes" queue one *)
(* after the other in one process, app/tasks/resume_processing.py drives a *)
(* job, and app/agents/graph.py runs the three agents of a resume on a     *)
(* thread pool that outlives the job.                                      *)
(*                                                                         *)
(* An agent that exceeds its time is given up, but a thread cannot be      *)
(* killed: it stays busy, possibly for ever, while later resumes need the  *)
(* pool.  RQ is external: it runs a job that raised, or whose worker died, *)
(* again while the job has retries left: the field retries of its resume,  *)
(* which _RESUME_POLICY sets for every job.                                *)
(***************************************************************************)
EXTENDS Supervisor

CONSTANTS
    Batches,     \* what may be queued: sequences of resumes, one job each
    Pipelines,   \* the values RESUME_PIPELINE may have
    MaxThreads,  \* max_workers of _AGENT_EXECUTOR
    NoValue,     \* no job, NULL in a column
    Linear       \* a result of the linear pipeline

ASSUME PipelineAssumption ==
    /\ Pipelines \subseteq {"multi_agent", "linear"}
    /\ MaxThreads \in Nat \ {0}
    /\ \A b \in Batches : /\ DOMAIN b = 1..Len(b) /\ Len(b) \in Nat
                          /\ \A j \in DOMAIN b : b[j].retries \in Nat /\ j # NoValue

VARIABLES
    resume,    \* the resume of each job
    queue,     \* the RQ queue
    attempts,  \* how often each job was started
    outcome,   \* what RQ knows of a job: pending, finished, failed
    pipeline,  \* RESUME_PIPELINE of the worker process
    phase,     \* where the worker is
    cur,       \* the job it works on
    node,      \* the graph node of each agent, and the run its payload comes from
    threads,   \* tasks the pool's threads are executing
    backlog,   \* tasks submitted to the pool and not yet started
    row        \* the columns of the resume and of the application

pipelineVars == <<resume, queue, attempts, outcome, pipeline, phase, cur, node, threads,
          backlog, row>>

\* An agent's task belongs to one attempt of one job.
ThisRun == <<cur, attempts[cur]>>

Task(a) == [run |-> ThisRun, agent |-> a]

Node(state) == [state |-> state, run |-> NoValue]

Idle == [a \in Agents |-> Node("idle")]

\* agent_analysis, skill_analysis and score_ai.  A column is represented by what its
\* content was computed from: the set of agents that completed, or Linear.  origin
\* is history: the nodes that were merged.
NoRow == [analysis |-> NoValue, skills |-> NoValue, score |-> NoValue, origin |-> Idle]

PipelineInit ==
    /\ resume \in Batches
    /\ queue = [j \in DOMAIN resume |-> j]
    /\ attempts = [j \in DOMAIN resume |-> 0]
    /\ outcome = [j \in DOMAIN resume |-> "pending"]
    /\ pipeline \in Pipelines
    /\ phase = "idle"
    /\ cur = NoValue
    /\ node = Idle
    /\ threads = {}
    /\ backlog = <<>>
    /\ row = [j \in DOMAIN resume |-> NoRow]

-----------------------------------------------------------------------------
(* Jobs.                                                                   *)

\* The worker takes the next job; it looks the resume up and loads the job context.
Start ==
    /\ phase = "idle" /\ queue # <<>>
    /\ cur' = Head(queue)
    /\ queue' = Tail(queue)
    /\ attempts' = [attempts EXCEPT ![Head(queue)] = @ + 1]
    /\ phase' = "download"
    /\ UNCHANGED <<resume, outcome, pipeline, node, threads, backlog, row>>

\* The task returns: for RQ the job is finished.
Return ==
    /\ outcome' = [outcome EXCEPT ![cur] = "finished"]
    /\ phase' = "idle" /\ cur' = NoValue /\ node' = Idle
    /\ UNCHANGED <<resume, queue, attempts, pipeline, threads, row>>

\* Mutant: the first run counts as a retry.
RaiseOnceMore ==
    /\ IF attempts[cur] <= resume[cur].retries + 1
       THEN queue' = Append(queue, cur) /\ UNCHANGED outcome
       ELSE outcome' = [outcome EXCEPT ![cur] = "failed"] /\ UNCHANGED queue
    /\ phase' = "idle" /\ cur' = NoValue /\ node' = Idle
    /\ UNCHANGED <<resume, attempts, row>>

\* The task raises, or its worker is gone.
Raise ==
    /\ IF attempts[cur] <= resume[cur].retries
       THEN queue' = Append(queue, cur) /\ UNCHANGED outcome
       ELSE outcome' = [outcome EXCEPT ![cur] = "failed"] /\ UNCHANGED queue
    /\ phase' = "idle" /\ cur' = NoValue /\ node' = Idle
    /\ UNCHANGED <<resume, attempts, row>>

Download ==
    /\ phase = "download"
    /\ phase' = "extract"
    /\ UNCHANGED <<resume, queue, attempts, outcome, pipeline, cur, node, threads,
                   backlog, row>>

\* Storage does not answer: logged, and the task returns.
DownloadFails == phase = "download" /\ Return /\ UNCHANGED backlog

Unreadable ==
    phase = "extract" /\ ~resume[cur].readable /\ Return /\ UNCHANGED backlog

\* The job exceeds its job_timeout during OCR or while the supervisor computes: the
\* exception RQ raises in the worker's thread ends in the task's "except Exception".
TimeoutSwallowed ==
    /\ \/ phase = "extract"
       \/ phase = "agents" /\ \A a \in Agents : node[a].state # "waiting"
    /\ Return
    /\ UNCHANGED backlog

\* supervisor_dispatch, then one node per agent: each submits its task.
Dispatch ==
    /\ phase = "extract" /\ pipeline = "multi_agent" /\ resume[cur].readable
    /\ node' = [a \in Agents |-> Node("waiting")]
    /\ backlog' = backlog \o <<Task("skill_extraction"), Task("experience_validation"),
                               Task("culture_fit_soft_skills")>>
    /\ phase' = "agents"
    /\ UNCHANGED <<resume, queue, attempts, outcome, pipeline, cur, threads, row>>

-----------------------------------------------------------------------------
(* Agents and the thread pool.                                             *)

TakeTask ==
    /\ backlog # <<>> /\ Cardinality(threads) < MaxThreads
    /\ threads' = threads \cup {Head(backlog)}
    /\ backlog' = Tail(backlog)
    /\ UNCHANGED <<resume, queue, attempts, outcome, pipeline, phase, cur, node, row>>

\* Mutant: whoever waits for this agent takes the result.
AwaitedByName(t) == phase = "agents" /\ node[t.agent].state = "waiting"

\* Somebody still waits for the future of t.
Awaited(t) == phase = "agents" /\ node[t.agent].state = "waiting" /\ t.run = ThisRun

\* A thread ends with a payload or with an exception; unless the node waits for
\* it, nobody learns.
ThreadEnds(t, result) ==
    /\ t \in threads
    /\ threads' = threads \ {t}
    /\ node' = IF Awaited(t) THEN [node EXCEPT ![t.agent] = result] ELSE node
    /\ UNCHANGED <<resume, queue, attempts, outcome, pipeline, phase, cur, backlog, row>>

\* Mutant: the task stays in the pool's queue.
KeepTask(a) == backlog

\* The tasks of a queue that are not cancelled, in their order.
Without(s, cancelled) ==
    LET kept[n \in 0..Len(s)] ==
            IF n = 0 THEN <<>>
            ELSE IF s[n] \in cancelled THEN kept[n - 1]
            ELSE Append(kept[n - 1], s[n])
    IN kept[Len(s)]

\* Cancelling a future that has not started takes its task out of the queue.
WithoutTask(a) == Without(backlog, {Task(a)})

\* Mutant: the clock of an agent runs only while a thread executes it.
OverdueOnceStarted(a) ==
    phase = "agents" /\ node[a].state = "waiting" /\ Task(a) \in threads

\* wait_for counts from the submission, not from the start in a thread.
Overdue(a) == phase = "agents" /\ node[a].state = "waiting"

AgentTimeout(a) ==
    /\ Overdue(a)
    /\ node' = [node EXCEPT ![a] = Node("failed")]
    /\ backlog' = WithoutTask(a)
    /\ UNCHANGED <<resume, queue, attempts, outcome, pipeline, phase, cur, threads, row>>

-----------------------------------------------------------------------------
(* The end of a job.                                                       *)

Completed == {a \in Agents : node[a].state = "completed"}

\* supervisor_aggregate once all nodes are done, then one commit.
Store ==
    /\ phase = "agents" /\ \A a \in Agents : node[a].state # "waiting"
    /\ row' = [row EXCEPT ![cur] =
           [analysis |-> Completed,
            skills   |-> IF Completed \cap {"skill_extraction", "experience_validation"} # {}
                         THEN Completed ELSE @.skills,
            score    |-> IF resume[cur].job # NoJob THEN Completed ELSE @.score,
            origin   |-> node]]
    /\ phase' = "stored"
    /\ UNCHANGED <<resume, queue, attempts, outcome, pipeline, cur, node, threads, backlog>>

\* The linear pipeline does the rest of the job without leaving the thread.
RunLinear ==
    /\ phase = "extract" /\ pipeline = "linear" /\ resume[cur].readable
    /\ row' = [row EXCEPT ![cur].skills = Linear,
                          ![cur].score = IF resume[cur].parsed /\ resume[cur].job # NoJob
                                         THEN Linear ELSE @]
    /\ phase' = "stored"
    /\ UNCHANGED <<resume, queue, attempts, outcome, pipeline, cur, node, threads, backlog>>

JobFinishes == phase = "stored" /\ Return /\ UNCHANGED backlog

\* The database fails, or the job's time is up while the event loop waits for the
\* file or the agents: the loop is closed and what it still waits for cancelled.
JobRaises ==
    /\ \/ phase \in {"download", "agents"}
       \/ phase = "extract" /\ pipeline = "linear" /\ resume[cur].readable
    /\ Raise
    /\ backlog' = Without(backlog, {t \in ToSet(backlog) : t.run = ThisRun})
    /\ UNCHANGED <<pipeline, threads>>

\* The process dies with its pool; the next one may have another setting.
Crash ==
    /\ phase # "idle"
    /\ Raise
    /\ threads' = {} /\ backlog' = <<>>
    /\ pipeline' \in Pipelines

\* Fair is what the worker does by itself; threads may hang.
Progress ==
    \/ Start \/ Download \/ Unreadable \/ Dispatch \/ RunLinear \/ Store \/ JobFinishes
    \/ \E a \in Agents : AgentTimeout(a)

PipelineNext ==
    \/ Progress
    \/ DownloadFails \/ TimeoutSwallowed \/ JobRaises \/ Crash
    \/ TakeTask
    \/ \E t \in threads : \/ ThreadEnds(t, [state |-> "completed", run |-> t.run])
                           \/ ThreadEnds(t, Node("failed"))

PipelineSpec == PipelineInit /\ [][PipelineNext]_pipelineVars /\ WF_pipelineVars(Progress)

-----------------------------------------------------------------------------
(* Properties.                                                             *)

Run == UNION {{<<j, n>> : n \in 1..(resume[j].retries + 1)} : j \in DOMAIN resume}

PoolTypeOK ==
    /\ ToSet(queue) \subseteq DOMAIN resume
    /\ DOMAIN attempts = DOMAIN resume
    /\ \A j \in DOMAIN resume : attempts[j] \in 0..(resume[j].retries + 1)
    /\ outcome \in [DOMAIN resume -> {"pending", "finished", "failed"}]
    /\ pipeline \in Pipelines
    /\ phase \in {"idle", "download", "extract", "agents", "stored"}
    /\ cur \in DOMAIN resume \cup {NoValue} /\ (cur = NoValue <=> phase = "idle")
    /\ node \in [Agents -> [state : {"idle", "waiting", "completed", "failed"},
                            run : Run \cup {NoValue}]]
    /\ \A t \in threads \cup ToSet(backlog) : t.run \in Run /\ t.agent \in Agents
    /\ Cardinality(threads) <= MaxThreads

\* What the columns hold.
AgentAnalysis(j) == Aggregate(resume[j], row[j].analysis)

ScoreAi(j) ==
    IF row[j].score = Linear THEN Rounded(LinearScore(resume[j]))
    ELSE Rounded(Aggregate(resume[j], row[j].score).matching.score)

\* The worker has just committed, and the row has an analysis by the agents.
Analysed == phase = "stored" /\ row[cur].analysis # NoValue

\* Every section of a stored analysis was computed for the resume it is stored
\* with, however many threads of earlier resumes end late; and the analysis says
\* "completed" exactly if no agent was lost, with one conflict per lost agent.
NoStrayResult ==
    Analysed =>
        LET lost == {a \in Agents : row[cur].origin[a].state = "failed"}
        IN /\ \A a \in Agents \ lost : row[cur].origin[a].run[1] = cur
           /\ AgentAnalysis(cur).status = "completed" <=> lost = {}
           /\ {a \in Agents : <<"agent_failed", a>> \in AgentAnalysis(cur).conflicts} = lost

\* The pool's queue holds tasks of the current attempt only, and none of an agent
\* that has been given up: overdue agents cannot pile up behind hanging threads.
BacklogCurrent ==
    \A t \in ToSet(backlog) :
        phase = "agents" /\ t.run = ThisRun /\ node[t.agent].state = "waiting"

\* The pool, its queue and the attempts are in order, also when every thread hangs,
\* and no result reaches an analysis it was not computed for.
PoolSound == PoolTypeOK /\ BacklogCurrent /\ NoStrayResult

\* Gregorian years in which the resume shows valid employment, year by year.
YearsEmployed(work) ==
    UNION {LET p == ParseDuration(work[k].duration)
               shift == IF p[1] < 1500 THEN 621 ELSE 0
           IN (p[1] + shift)..(p[2] + shift - 1) :
           k \in {k \in DOMAIN work :
                     /\ ParseDuration(work[k].duration) # NoPeriod
                     /\ ValidPeriod(ParseDuration(work[k].duration)[1],
                                    ParseDuration(work[k].duration)[2])}}

\* The net experience an analysis reports is the number of distinct years worked,
\* across both calendars: merging neither counts a year twice nor loses one, and
\* overlaps are reported exactly when there is a year with two jobs.
NetYearsExact ==
    Analysed /\ "experience_validation" \in row[cur].analysis =>
        LET exp == AgentAnalysis(cur).exp
            sum == FoldLeft(LAMBDA n, x : IF x.valid THEN n + x.end - x.start ELSE n,
                            0, exp.entries)
        IN /\ exp.total = Cardinality(YearsEmployed(Work(resume[cur])))
           /\ exp.overlaps = {} <=> exp.total = sum

\* After conflict resolution no skill keeps a claim beyond the validated history
\* plus tolerance, and exactly the claims that were cut are recorded.
ClaimsCapped ==
    Analysed =>
        LET an == AgentAnalysis(cur)
        IN \A s \in DOMAIN an.skills :
               /\ HasHistory(an.exp) => an.skills[s].claimed <= an.exp.total + 2
               /\ <<"skill_years_capped", s>> \in an.conflicts
                      <=> an.skills[s] # SkillItem(resume[cur], s)

\* The weights add up to 100 (the clamp of the base score is never needed), the
\* agents move it by at most +5 and -15, and the stored score is within 0..100.
ScoreExplained ==
    /\ Analysed /\ resume[cur].job # NoJob =>
           LET an == AgentAnalysis(cur)
               m  == an.matching
           IN /\ m.base = TotalScore(resume[cur].job, DOMAIN an.skills, Titles(resume[cur]),
                                     an.exp.total, Rank(resume[cur]))
              /\ m.score <= m.base + Points(5) /\ m.score >= m.base - Points(15)
    /\ phase = "stored" /\ row[cur].score # NoValue => ScoreAi(cur) \in 0..100

OneCalendar(work) ==
    \A k, l \in DOMAIN work :
        IsShamsi(work[k].duration.start) <=> IsShamsi(work[l].duration.start)

\* A resume in one calendar of which no agent was lost gets from both pipelines
\* the same skills, the same years and the same base score.
PipelinesAgree ==
    Analysed /\ row[cur].analysis = Agents /\ OneCalendar(Work(resume[cur])) =>
        /\ SkillAnalysis(AgentAnalysis(cur)) = LinearSkillAnalysis(resume[cur])
        /\ resume[cur].parsed => AgentAnalysis(cur).matching.base = LinearScore(resume[cur])

\* Whatever agents were lost, what is stored of the others is right: the years, the
\* claims that were cut, and the score; and where none was, it does not depend on the
\* pipeline that a setting chose.
AnalysisExact == NetYearsExact /\ ClaimsCapped /\ ScoreExplained /\ PipelinesAgree

\* Every job comes to an end, even if all threads of the pool hang for ever.
JobsFinish == <>(\A j \in DOMAIN resume : outcome[j] # "pending")

=============================================================================
