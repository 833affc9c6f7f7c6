----------------------------- MODULE Interviews -----------------------------
(***************************************************************************)
(* Interviews and their reminders: the handlers of                         *)
(* app/routers/interviews.py and app/core/interview_scheduler.py.  A       *)
(* reminder is a job of rq-scheduler (external): it waits in Redis until   *)
(* its time, is then handed to the mail queue, and can only be cancelled   *)
(* while it waits.                                                         *)
(*                                                                         *)
(* A handler reads the row, talks to Redis once per reminder, and commits; *)
(* managers and interviewers work at the same time, through several API    *)
(* processes.  SQLAlchemy writes the columns that differ from the row it   *)
(* read.                                                                   *)
(***************************************************************************)
EXTENDS Naturals, FiniteSets

CONSTANTS
    Interview,    \* interview ids
    Interviewer,  \* users who may be assigned
    Candidate,    \* the candidate, the other recipient of a reminder
    Job,          \* ids of scheduled reminders (natural numbers)
    Manager,      \* requests of Admin and HR_Manager
    Grader,       \* requests that submit an evaluation
    Lead,         \* REMINDER_LEAD_TIME, in ticks
    MaxClock,     \* bound: the last tick explored
    MaxRequests,  \* bound: requests of managers
    MaxFaults,    \* bound: failures of Redis, the database or a process
    None          \* a missing value

ASSUME InterviewAssumption ==
    /\ Lead \in Nat /\ MaxClock \in Nat
    /\ MaxRequests \in Nat /\ MaxFaults \in Nat
    /\ Job \subseteq Nat
    /\ Candidate \notin Interviewer
    /\ Manager \cap Grader = {}

VARIABLES
    clock,
    row,      \* interviews; None when there is no such row
    created,  \* interview ids given out
    opened,   \* requests of managers so far
    waiting,  \* the reminders rq-scheduler holds
    mail,     \* reminders handed to the mail queue
    faults,   \* failures so far
    spoilt,   \* history: interviews at which a failure struck or two managers met
    req       \* local state of each request

vars == <<clock, row, created, opened, waiting, mail, faults, spoilt, req>>

Req == Manager \cup Grader
Time == 0..MaxClock

Row == [at : Time, who : Interviewer, ids : SUBSET Job,
        status : {"Pending", "Completed"}]

Reminder == [of : Interview, to : Interviewer \cup {Candidate}, at : Time,
             fire : Nat]

Mail == [of : Interview, to : Interviewer \cup {Candidate}, at : Time]

ASSUME NoneAssumption == None \notin Interview /\ None \notin Row /\ None \notin Reminder

Request == [pc : {"idle", "cancel", "first", "second", "commit"},
            op : {"none", "create", "update", "delete", "evaluate"},
            of : Interview \cup {None}, old : Row \cup {None},
            new : Row \cup {None}, cancel : SUBSET Job]

Blank == [pc |-> "idle", op |-> "none", of |-> None, old |-> None,
          new |-> None, cancel |-> {}]

Init ==
    /\ clock = 0
    /\ row = [i \in Interview |-> None]
    /\ created = {}
    /\ opened = 0
    /\ waiting = [j \in Job |-> None]
    /\ mail = {}
    /\ faults = 0
    /\ spoilt = {}
    /\ req = [r \in Req |-> Blank]

Fault == faults < MaxFaults /\ faults' = faults + 1

Ask == opened < MaxRequests /\ opened' = opened + 1

Finish(r) == req' = [req EXCEPT ![r] = Blank]

\* History: from here on the reminders of the interview of r may be wrong.
Spoil(r) == spoilt' = IF r \in Manager THEN spoilt \cup {req[r].of} ELSE spoilt

\* History: r opens interview i, maybe while another manager has it open.
Meet(r, i) ==
    spoilt' = IF \E s \in Manager \ {r} : req[s].of = i THEN spoilt \cup {i} ELSE spoilt

-----------------------------------------------------------------------------
(* The handlers, up to their calls of the scheduler *)

\* POST /interviews/: the row is flushed, not yet committed.
CreateRead(r, i, at, who) ==
    /\ r \in Manager /\ req[r].pc = "idle"
    /\ Ask
    /\ i \notin created
    /\ created' = created \cup {i}
    /\ req' = [req EXCEPT ![r] = [Blank EXCEPT
                !.pc = "first", !.op = "create", !.of = i,
                !.new = [at |-> at, who |-> who, ids |-> {},
                         status |-> "Pending"]]]
    /\ UNCHANGED <<clock, row, waiting, mail, faults, spoilt>>

\* PUT /interviews/{id} with a new time or interviewer: the old reminders go.
\* (An update of the meeting link alone touches no reminder.)
UpdateRead(r, i, at, who) ==
    /\ r \in Manager /\ req[r].pc = "idle"
    /\ Ask
    /\ row[i] # None
    /\ Meet(r, i)
    /\ req' = [req EXCEPT ![r] = [Blank EXCEPT
                !.pc = "cancel", !.op = "update", !.of = i, !.old = row[i],
                !.new = [row[i] EXCEPT !.at = at, !.who = who, !.ids = {}],
                !.cancel = row[i].ids]]
    /\ UNCHANGED <<clock, row, created, waiting, mail, faults>>

DeleteRead(r, i) ==
    /\ r \in Manager /\ req[r].pc = "idle"
    /\ Ask
    /\ row[i] # None
    /\ Meet(r, i)
    /\ req' = [req EXCEPT ![r] = [Blank EXCEPT
                !.pc = "cancel", !.op = "delete", !.of = i, !.old = row[i],
                !.cancel = row[i].ids]]
    /\ UNCHANGED <<clock, row, created, waiting, mail, faults>>

\* PUT /interviews/{id}/evaluation, again and again if need be.
EvaluateRead(r, i) ==
    /\ r \in Grader /\ req[r].pc = "idle"
    /\ row[i] # None
    /\ req' = [req EXCEPT ![r] = [Blank EXCEPT
                !.pc = "commit", !.op = "evaluate", !.of = i, !.old = row[i],
                !.new = [row[i] EXCEPT !.status = "Completed"]]]
    /\ UNCHANGED <<clock, row, created, opened, waiting, mail, faults, spoilt>>

-----------------------------------------------------------------------------
(* cancel_interview_reminder and schedule_interview_reminder *)

\* Mutant: only the first reminder is cancelled.
CancelFirstOnly(r, j) ==
    /\ req[r].pc = "cancel" /\ j \in req[r].cancel
    /\ waiting' = [waiting EXCEPT ![j] = None]
    /\ req' = [req EXCEPT ![r].cancel = {}]
    /\ UNCHANGED <<clock, row, created, opened, mail, faults, spoilt>>

Cancel(r, j) ==
    /\ req[r].pc = "cancel" /\ j \in req[r].cancel
    /\ waiting' = [waiting EXCEPT ![j] = None]
    /\ req' = [req EXCEPT ![r].cancel = @ \ {j}]
    /\ UNCHANGED <<clock, row, created, opened, mail, faults, spoilt>>

\* The loop ends, or an error of Redis ends it early and is only logged.
CancelDone(r) ==
    /\ req[r].pc = "cancel"
    /\ IF req[r].cancel = {} THEN UNCHANGED <<faults, spoilt>> ELSE Fault /\ Spoil(r)
    /\ req' = [req EXCEPT ![r].cancel = {},
                ![r].pc = IF req[r].op = "delete" THEN "commit" ELSE "first"]
    /\ UNCHANGED <<clock, row, created, opened, waiting, mail>>

\* 24 hours before, or now if that is past.  The code reads the clock once for
\* both reminders, the model at each: either way a reminder is due at the
\* first tick from at - Lead on that comes after its scheduling.
EffectiveTime(at) == IF at > clock + Lead THEN at - Lead ELSE clock

\* A fresh id: one that no row, request or waiting reminder mentions.
Fresh(j) ==
    /\ waiting[j] = None
    /\ \A i \in Interview : row[i] # None => j \notin row[i].ids
    /\ \A r \in Req : /\ j \notin req[r].cancel
                      /\ req[r].old # None => j \notin req[r].old.ids
                      /\ req[r].new # None => j \notin req[r].new.ids

\* Which unused id is taken does not matter: the least.
NewId(j) == Fresh(j) /\ \A k \in Job : Fresh(k) => j <= k

Recipient(r) == IF req[r].pc = "first" THEN Candidate ELSE req[r].new.who

Schedule(r, j) ==
    LET new == req[r].new IN
    /\ req[r].pc \in {"first", "second"}
    /\ NewId(j)
    /\ waiting' = [waiting EXCEPT ![j] =
            [of |-> req[r].of, to |-> Recipient(r), at |-> new.at,
             fire |-> EffectiveTime(new.at)]]
    /\ req' = [req EXCEPT ![r].new.ids = @ \cup {j},
                ![r].pc = IF @ = "first" THEN "second" ELSE "commit"]
    /\ UNCHANGED <<clock, row, created, opened, mail, faults, spoilt>>

\* An error at either call: the empty list is returned.
ScheduleFails(r) ==
    /\ Fault /\ Spoil(r)
    /\ req[r].pc \in {"first", "second"}
    /\ req' = [req EXCEPT ![r].pc = "commit", ![r].new.ids = {}]
    /\ UNCHANGED <<clock, row, created, opened, waiting, mail>>

-----------------------------------------------------------------------------
(* The transaction *)

\* Mutant: the whole row is written back.
WholeRow(cur, old, new) == new

\* Only the columns that differ from the loaded row are written.
Flush(cur, old, new) ==
    [at |-> IF new.at = old.at THEN cur.at ELSE new.at,
     who |-> IF new.who = old.who THEN cur.who ELSE new.who,
     ids |-> IF new.ids = old.ids THEN cur.ids ELSE new.ids,
     status |-> IF new.status = old.status THEN cur.status ELSE new.status]

\* An UPDATE of a row that is gone fails (StaleDataError); a DELETE does not.
Commit(r) ==
    LET q == req[r] IN
    /\ q.pc = "commit"
    /\ row' = [row EXCEPT ![q.of] =
            CASE q.op = "create" -> q.new
              [] q.op = "delete" -> None
              [] OTHER -> IF @ = None THEN None ELSE Flush(@, q.old, q.new)]
    /\ Finish(r)
    /\ UNCHANGED <<clock, created, opened, waiting, mail, faults, spoilt>>

\* The handler ends early: a database error, or its process dies.
Abort(r) ==
    /\ Fault /\ Spoil(r)
    /\ req[r].pc # "idle"
    /\ Finish(r)
    /\ UNCHANGED <<clock, row, created, opened, waiting, mail>>

-----------------------------------------------------------------------------
(* Time and rq-scheduler *)

Tick ==
    /\ clock < MaxClock
    /\ clock' = clock + 1
    /\ UNCHANGED <<row, created, opened, waiting, mail, faults, spoilt, req>>

Fire(j) ==
    /\ waiting[j] # None
    /\ waiting[j].fire <= clock
    /\ mail' = mail \cup {[of |-> waiting[j].of, to |-> waiting[j].to,
                           at |-> waiting[j].at]}
    /\ waiting' = [waiting EXCEPT ![j] = None]
    /\ UNCHANGED <<clock, row, created, opened, faults, spoilt, req>>

Step(r) ==
    \/ \E i \in Interview, at \in Time, who \in Interviewer :
            CreateRead(r, i, at, who) \/ UpdateRead(r, i, at, who)
    \/ \E i \in Interview : DeleteRead(r, i) \/ EvaluateRead(r, i)
    \/ \E j \in Job : Cancel(r, j) \/ Schedule(r, j)
    \/ CancelDone(r)
    \/ ScheduleFails(r)
    \/ Commit(r)
    \/ Abort(r)

Next == Tick \/ (\E j \in Job : Fire(j)) \/ (\E r \in Req : Step(r))

Spec == Init /\ [][Next]_vars

-----------------------------------------------------------------------------
(* Properties *)

\* No manager is working on the interview.
Quiet(i) == \A r \in Manager : req[r].of # i

\* Every variable keeps its shape.
TypeOK ==
    /\ clock \in Time
    /\ row \in [Interview -> Row \cup {None}]
    /\ created \subseteq Interview
    /\ opened \in Nat
    /\ waiting \in [Job -> Reminder \cup {None}]
    /\ mail \subseteq Mail
    /\ faults \in Nat
    /\ spoilt \subseteq Interview
    /\ req \in [Req -> Request]

\* update_interview and delete_interview cancel the old reminders and schedule
\* new ones.  So, at an interview where no call failed and that no two managers
\* had open at once, whatever waits is listed in the row and agrees with it,
\* whatever happens at the other interviews.
RemindersMatch ==
    \A j \in Job : waiting[j] # None /\ Quiet(waiting[j].of) /\ waiting[j].of \notin spoilt =>
        LET cur == row[waiting[j].of] IN
        /\ cur # None
        /\ j \in cur.ids
        /\ waiting[j].at = cur.at
        /\ waiting[j].to \in {Candidate, cur.who}

\* Both sides are reminded: while nobody is changing such an interview, each of
\* its two recipients has been mailed the current time or has a reminder waiting.
BothReminded ==
    \A i \in Interview \ spoilt : row[i] # None /\ Quiet(i) =>
        \A p \in {Candidate, row[i].who} :
            \/ [of |-> i, to |-> p, at |-> row[i].at] \in mail
            \/ \E j \in row[i].ids : /\ waiting[j] # None
                                     /\ waiting[j].to = p
                                     /\ waiting[j].at = row[i].at

\* The scheduler and the interviews agree, for any number of managers at work: no
\* reminder for what is no longer planned, none missing for what is, except at an
\* interview where Redis, the database or a process failed or two managers met.
RemindersRight == TypeOK /\ RemindersMatch /\ BothReminded

\* A submitted evaluation is not undone by a manager's concurrent update.
EvaluationKept ==
    [][\A i \in Interview :
         row[i] # None /\ row'[i] # None /\ row[i].status = "Completed"
           => row'[i].status = "Completed"]_vars

=============================================================================
