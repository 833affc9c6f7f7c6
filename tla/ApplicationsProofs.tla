------------------------- MODULE ApplicationsProofs -------------------------
(***************************************************************************)
(* Proofs about the processing of an application.  First the hiring board, *)
(* Applications, for any finite set of applications and any set of         *)
(* concurrent requests; then the worker that analyses the resumes,         *)
(* AgentPipeline, for any queue of resumes and any size of its pool.       *)
(***************************************************************************)
EXTENDS Applications, AgentPipeline, FiniteSetTheorems, SequenceTheorems, TLAPS

(***************************************************************************)
(* The inductive invariant.  A request may decide on a stale status, but   *)
(* only on one that the application really had, and every such status      *)
(* other than "Draft" is in its history.                                   *)
(***************************************************************************)

\* A status the application has had.
Had(a, s) == s = "Draft" \/ Reached(a, s)

\* Every recorded move is legal and starts where the application had been.
HistoryOK ==
    \A a \in App : \A e \in history[a] :
        is_transition_allowed(e.old, e.new) /\ Had(a, e.old)

RequestOK(r) ==
    /\ req[r].pc # "idle" => req[r].app \in App
    /\ req[r].pc = "commit" => /\ req[r].old \in Status /\ req[r].new \in Status
                               /\ is_transition_allowed(req[r].old, req[r].new)
                               /\ Had(req[r].app, req[r].old)
    /\ req[r].pc = "refresh" => status[req[r].app] \in Status \ {"Draft"}
    /\ req[r].pc = "notify" => /\ req[r].new \in Status
                               /\ Reached(req[r].app, req[r].new)

IInv == /\ TypeOK
        /\ HistoryOK
        /\ StatusRecorded
        /\ MailsFollowHistory
        /\ \A r \in Req : RequestOK(r)

-----------------------------------------------------------------------------
(***************************************************************************)
(* The state machine.                                                      *)
(***************************************************************************)

\* The path and the funnel, position by position.
LEMMA PathValues ==
    /\ LinearPath[1] = "Draft" /\ LinearPath[2] = "Applied"
    /\ LinearPath[3] = "Screening" /\ LinearPath[4] = "TechnicalInterview"
    /\ LinearPath[5] = "HRInterview" /\ LinearPath[6] = "Offer"
    /\ LinearPath[7] = "Accepted" /\ LinearPath[8] = "Hired"
    /\ FunnelStages[1] = "Applied" /\ FunnelStages[2] = "Screening"
    /\ FunnelStages[3] = "TechnicalInterview" /\ FunnelStages[4] = "HRInterview"
    /\ FunnelStages[5] = "Offer" /\ FunnelStages[6] = "Accepted"
    /\ FunnelStages[7] = "Hired"
  BY DEF LinearPath, FunnelStages

\* The nine statuses, spelled out.
LEMMA StatusSet ==
    Status = {"Draft", "Applied", "Screening", "TechnicalInterview",
              "HRInterview", "Offer", "Accepted", "Hired", "Rejected"}
  <1>1. Len(LinearPath) = 8
    BY DEF LinearPath
  <1>2. \A i \in 1..8 : i \in {1, 2, 3, 4, 5, 6, 7, 8}
    OBVIOUS
  <1>3. QED
    BY <1>1, <1>2, PathValues DEF Status

\* No move returns to "Draft".
LEMMA DraftIsFirst ==
    ASSUME NEW s \in Status, NEW t, is_transition_allowed(s, t)
    PROVE  t \in Status \ {"Draft"}
  <1>1. CASE t = "Rejected"
    BY <1>1 DEF Status
  <1>2. CASE t # "Rejected"
    <2>1. PICK k \in 2..Len(LinearPath) : t = LinearPath[k]
      BY <1>2 DEF is_transition_allowed, get_allowed_next_statuses
    <2>2. Len(LinearPath) = 8
      BY DEF LinearPath
    <2>3. t \in Status
      BY <2>1, <2>2 DEF Status
    <2>4. k \in {2, 3, 4, 5, 6, 7, 8}
      BY <2>1, <2>2
    <2>5. t # "Draft"
      BY <2>1, <2>4, PathValues
    <2>6. QED
      BY <2>3, <2>5
  <1>3. QED
    BY <1>1, <1>2

\* A funnel stage can only be entered from the stage before it.
LEMMA OneWayIn ==
    ASSUME NEW i \in {1, 2, 3, 4, 5, 6}, NEW s \in Status,
           is_transition_allowed(s, FunnelStages[i + 1])
    PROVE  s = FunnelStages[i]
  <1>1. FunnelStages[i + 1] # "Rejected"
    BY PathValues
  <1>2. PICK k \in 2..8 : LinearPath[k] = FunnelStages[i + 1] /\ LinearPath[k - 1] = s
    <2>1. Len(LinearPath) = 8
      BY DEF LinearPath
    <2>2. QED
      BY <1>1, <2>1 DEF is_transition_allowed, get_allowed_next_statuses
  <1>3. k = i + 2
    BY <1>2, PathValues
  <1>4. QED
    BY <1>2, <1>3, PathValues

-----------------------------------------------------------------------------
(***************************************************************************)
(* One lemma per action.                                                   *)
(***************************************************************************)

\* An idle request satisfies its invariant.
LEMMA FinishOK ==
    ASSUME TypeOK, NEW r \in Req, Finish(r)
    PROVE  /\ req' \in [Req -> Request] /\ RequestOK(r)'
           /\ \A q \in Req \ {r} : req'[q] = req[q]
  BY DEF TypeOK, Finish, Blank, Request, PC, RequestOK

\* A step that changes one request only has to keep that request's invariant.
LEMMA LocalStep ==
    ASSUME IInv, NEW r \in Req, UNCHANGED <<status, history, mail>>,
           req' \in [Req -> Request], \A q \in Req \ {r} : req'[q] = req[q],
           RequestOK(r)'
    PROVE  IInv'
  <1>1. TypeOK' /\ HistoryOK' /\ StatusRecorded' /\ MailsFollowHistory'
    BY DEF IInv, TypeOK, HistoryOK, StatusRecorded, MailsFollowHistory, Had, Reached
  <1>2. ASSUME NEW q \in Req \ {r} PROVE RequestOK(q)'
    BY <1>2 DEF IInv, RequestOK, Had, Reached
  <1>3. QED
    BY <1>1, <1>2 DEF IInv

\* An upload only turns a missing row into a draft.
LEMMA UploadOK ==
    ASSUME IInv, NEW a \in App, Upload(a) PROVE IInv'
  <1>1. /\ \A b \in App \ {a} : status'[b] = status[b]
        /\ status'[a] = "Draft" /\ status[a] = None
        /\ UNCHANGED <<history, mail, req>>
    BY DEF Upload, IInv, TypeOK
  <1>2. TypeOK'
    BY StatusSet DEF Upload, IInv, TypeOK
  <1>3. HistoryOK' /\ MailsFollowHistory'
    BY <1>1 DEF IInv, HistoryOK, MailsFollowHistory, Had, Reached
  <1>4. StatusRecorded'
    BY <1>1 DEF IInv, StatusRecorded, Reached
  <1>5. \A r \in Req : RequestOK(r)'
    BY <1>1, NoneIsNoStatus DEF IInv, RequestOK, Had, Reached
  <1>6. QED
    BY <1>2, <1>3, <1>4, <1>5 DEF IInv

\* The board's handler decides on a status the application has.
LEMMA MoveReadOK ==
    ASSUME IInv, NEW r \in Req, NEW a \in App, NEW was \in Status,
           NEW new \in Status, MoveRead(r, a, was, new)
    PROVE  IInv'
  <1>1. req' \in [Req -> Request] /\ \A q \in Req \ {r} : req'[q] = req[q]
    BY DEF MoveRead, IInv, TypeOK, Request, PC
  <1>2. Had(a, was)
    BY NoneIsNoStatus DEF MoveRead, IInv, StatusRecorded, Had
  <1>3. /\ req'[r].pc = "commit" /\ req'[r].app = a /\ req'[r].old = was
        /\ req'[r].new = new /\ UNCHANGED <<status, history, mail>>
    BY DEF MoveRead, IInv, TypeOK
  <1>4. RequestOK(r)'
    BY <1>2, <1>3 DEF MoveRead, RequestOK, Had, Reached
  <1>5. QED
    BY <1>1, <1>3, <1>4, LocalStep

\* The candidate's handler decides on an application that has an offer.
LEMMA RespondReadOK ==
    ASSUME IInv, NEW r \in Req, NEW a \in App, NEW d \in {"accept", "reject"},
           RespondRead(r, a, d)
    PROVE  IInv'
  <1> DEFINE new == DecisionStatus(d)
  <1>0. new \in Status /\ "Offer" \in Status
    BY StatusSet DEF DecisionStatus
  <1> HIDE DEF new
  <1>1. req' \in [Req -> Request] /\ \A q \in Req \ {r} : req'[q] = req[q]
    BY <1>0 DEF RespondRead, IInv, TypeOK, Request, PC, new
  <1>2. Had(a, "Offer")
    BY <1>0, NoneIsNoStatus DEF RespondRead, IInv, StatusRecorded, Had
  <1>3. /\ req'[r].pc = "commit" /\ req'[r].app = a /\ req'[r].old = "Offer"
        /\ req'[r].new = new /\ UNCHANGED <<status, history, mail>>
        /\ is_transition_allowed("Offer", new)
    BY DEF RespondRead, IInv, TypeOK, new
  <1>4. RequestOK(r)'
    BY <1>0, <1>2, <1>3 DEF RequestOK, Had, Reached
  <1>5. QED
    BY <1>1, <1>3, <1>4, LocalStep

\* The transaction records the move it makes, and history only grows.
LEMMA CommitOK ==
    ASSUME IInv, NEW r \in Req, Commit(r) PROVE IInv'
  <1> DEFINE a == req[r].app
             new == req[r].new
             e == [old |-> req[r].old, new |-> req[r].new]
  <1>1. /\ TypeOK /\ RequestOK(r) /\ req[r] \in Request /\ req[r].pc = "commit"
    BY DEF IInv, TypeOK, Commit
  <1>2. /\ a \in App /\ e \in Entry /\ e.new = new /\ e.old = req[r].old
        /\ is_transition_allowed(e.old, e.new) /\ Had(a, e.old)
    BY <1>1 DEF RequestOK, Entry
  <1>3. new \in Status \ {"Draft"}
    BY <1>1, DraftIsFirst DEF RequestOK
  <1>4. /\ status' = [status EXCEPT ![a] = new]
        /\ history' = [history EXCEPT ![a] = history[a] \cup {e}]
        /\ UNCHANGED mail
    BY DEF Commit
  <1>5. req' \in [Req -> Request] /\ \A q \in Req \ {r} : req'[q] = req[q]
    BY <1>1, FinishOK DEF Commit, AfterCommit, TypeOK, Request, PC
  <1>6. req'[r].pc \in {"idle", "refresh"} /\ (req'[r].pc = "refresh" => req'[r].app = a)
    BY <1>1 DEF Commit, AfterCommit, Finish, Blank, TypeOK, Request
  <1> HIDE DEF a, new, e
  <1>7. /\ status'[a] = new /\ e \in history'[a]
        /\ \A b \in App \ {a} : status'[b] = status[b]
        /\ \A b \in App : history[b] \subseteq history'[b]
        /\ \A b \in App : \A f \in history'[b] : f \in history[b] \/ (b = a /\ f = e)
    BY <1>1, <1>2, <1>4 DEF TypeOK
  <1>8. \A b \in App, s \in Status : Reached(b, s) => Reached(b, s)'
    BY <1>7 DEF Reached
  <1>9. TypeOK'
    BY <1>1, <1>2, <1>3, <1>4, <1>5 DEF TypeOK
  <1>10. \E f \in history'[a] : f.new = new
    BY <1>2, <1>7
  <1>11. HistoryOK'
    <2>1. ASSUME NEW b \in App, NEW f \in history'[b]
          PROVE  is_transition_allowed(f.old, f.new) /\ Had(b, f.old)'
      <3>1. f.old \in Status
        BY <1>9, <2>1 DEF TypeOK, Entry
      <3>2. is_transition_allowed(f.old, f.new) /\ Had(b, f.old)
        BY <1>2, <1>7, <2>1 DEF IInv, HistoryOK
      <3>3. QED
        BY <1>8, <3>1, <3>2 DEF Had
    <2>2. QED
      BY <2>1 DEF HistoryOK
  <1>12. StatusRecorded'
    <2>1. ASSUME NEW b \in App
          PROVE  status'[b] \in {None, "Draft"} \/ Reached(b, status[b])'
      <3>1. CASE b = a
        BY <1>7, <1>10, <3>1 DEF Reached
      <3>2. CASE b # a
        BY <1>1, <1>7, <1>8, <3>2 DEF IInv, StatusRecorded, TypeOK, Reached
      <3>3. QED
        BY <3>1, <3>2
    <2>2. QED
      BY <2>1 DEF StatusRecorded
  <1>13. MailsFollowHistory'
    BY <1>1, <1>4, <1>8 DEF IInv, MailsFollowHistory, TypeOK, Reached
  <1>14. RequestOK(r)'
    BY <1>2, <1>3, <1>6, <1>7 DEF RequestOK
  <1>15. ASSUME NEW q \in Req \ {r} PROVE RequestOK(q)'
    <2>1. RequestOK(q) /\ req'[q] = req[q]
      BY <1>5 DEF IInv
    <2>2. req[q].pc = "commit" => Had(req[q].app, req[q].old)'
      BY <1>8, <2>1 DEF RequestOK, Had, Reached
    <2>3. req[q].pc = "refresh" => status'[req[q].app] \in Status \ {"Draft"}
      BY <1>3, <1>7, <2>1 DEF RequestOK
    <2>4. req[q].pc = "notify" => Reached(req[q].app, req[q].new)'
      BY <1>8, <2>1 DEF RequestOK, Reached
    <2>5. QED
      BY <2>1, <2>2, <2>3, <2>4 DEF RequestOK, Had, Reached
  <1>16. QED
    BY <1>9, <1>11, <1>12, <1>13, <1>14, <1>15 DEF IInv

\* The re-read row is one that some commit wrote, so it is in the history.
LEMMA RefreshOK ==
    ASSUME IInv, NEW r \in Req, Refresh(r) PROVE IInv'
  <1>1. TypeOK /\ RequestOK(r) /\ req[r] \in Request /\ req[r].pc = "refresh"
    BY DEF IInv, TypeOK, Refresh
  <1>2. req[r].app \in App /\ status[req[r].app] \in Status \ {"Draft"}
    BY <1>1 DEF RequestOK
  <1>3. Reached(req[r].app, status[req[r].app])
    BY <1>2, NoneIsNoStatus DEF IInv, StatusRecorded
  <1>4. /\ req'[r].pc = "notify" /\ req'[r].app = req[r].app
        /\ req'[r].new = status[req[r].app] /\ UNCHANGED <<status, history, mail>>
    BY <1>1 DEF Refresh, TypeOK, Request
  <1>5. req' \in [Req -> Request] /\ \A q \in Req \ {r} : req'[q] = req[q]
    BY <1>1, <1>2 DEF Refresh, TypeOK, Request, PC
  <1>6. RequestOK(r)'
    BY <1>2, <1>3, <1>4 DEF RequestOK, Reached
  <1>7. QED
    BY <1>4, <1>5, <1>6, LocalStep

\* A queued mail names the status the request re-read.
LEMMA NotifyOK ==
    ASSUME IInv, NEW r \in Req, Notify(r) PROVE IInv'
  <1>1. TypeOK /\ RequestOK(r) /\ req[r].pc = "notify"
    BY DEF IInv, TypeOK, Notify
  <1>2. /\ req[r].app \in App /\ req[r].new \in Status
        /\ Reached(req[r].app, req[r].new)
    BY <1>1 DEF RequestOK
  <1>3. /\ req' \in [Req -> Request] /\ RequestOK(r)'
        /\ \A q \in Req \ {r} : req'[q] = req[q]
    BY <1>1, FinishOK DEF Notify
  <1>4. UNCHANGED <<status, history>>
    BY DEF Notify
  <1>5. /\ mail' \in [App -> Status \cup {None}]
        /\ \A b \in App : mail'[b] = mail[b]
                          \/ (b = req[r].app /\ mail'[b] = req[r].new)
    BY <1>1, <1>2 DEF Notify, TypeOK
  <1>6. TypeOK' /\ HistoryOK' /\ StatusRecorded'
    BY <1>1, <1>3, <1>4, <1>5 DEF IInv, TypeOK, HistoryOK, StatusRecorded, Had, Reached
  <1>7. MailsFollowHistory'
    BY <1>2, <1>4, <1>5 DEF IInv, MailsFollowHistory, Reached
  <1>8. ASSUME NEW q \in Req \ {r} PROVE RequestOK(q)'
    BY <1>3, <1>4 DEF IInv, RequestOK, Had, Reached
  <1>9. QED
    BY <1>3, <1>6, <1>7, <1>8 DEF IInv

\* A rolled-back transaction and a lost mail leave the tables as they are.
LEMMA FailuresOK ==
    ASSUME IInv, NEW r \in Req, CommitFails(r) \/ NotifyFails(r) PROVE IInv'
  BY FinishOK, LocalStep DEF CommitFails, NotifyFails, IInv

-----------------------------------------------------------------------------

\* The invariant is inductive, whatever the interleaving of handlers.
THEOREM Invariant == Spec => []IInv
  <1>1. Init => IInv
    BY DEF Init, IInv, TypeOK, HistoryOK, StatusRecorded, MailsFollowHistory,
       RequestOK, Blank, Request, PC
  <1>2. IInv /\ [Next]_vars => IInv'
    <2> SUFFICES ASSUME IInv, [Next]_vars PROVE IInv'
      OBVIOUS
    <2>1. CASE \E a \in App : Upload(a)
      BY <2>1, UploadOK
    <2>2. CASE \E r \in Req : Step(r)
      BY <2>2, MoveReadOK, RespondReadOK, CommitOK, RefreshOK, NotifyOK,
         FailuresOK DEF Step
    <2>3. CASE UNCHANGED vars
      BY <2>3 DEF vars, IInv, TypeOK, HistoryOK, StatusRecorded,
         MailsFollowHistory, RequestOK, Had, Reached
    <2>4. QED
      BY <2>1, <2>2, <2>3 DEF Next
  <1>3. QED
    BY <1>1, <1>2, PTL DEF Spec

\* Every application counted at a funnel stage is counted at the stage before
\* it, although concurrent moves may overwrite each other.
LEMMA FunnelNeverWidens == IInv => FunnelMonotone
  <1> SUFFICES ASSUME IInv, NEW i \in 1..(Len(FunnelStages) - 1)
               PROVE  FunnelCount(i + 1) <= FunnelCount(i)
    BY DEF FunnelMonotone
  <1> DEFINE At(k) == {a \in App : Reached(a, FunnelStages[k])}
  <1>1. FunnelStages[i] # "Draft"
    <2>1. i \in {1, 2, 3, 4, 5, 6}
      BY DEF FunnelStages
    <2>2. QED
      BY <2>1, PathValues
  <1>2. ASSUME NEW a \in App, Reached(a, FunnelStages[i + 1])
        PROVE  Reached(a, FunnelStages[i])
    <2>1. PICK e \in history[a] : e.new = FunnelStages[i + 1]
      BY <1>2 DEF Reached
    <2>2. e.old \in Status /\ is_transition_allowed(e.old, e.new) /\ Had(a, e.old)
      BY DEF IInv, TypeOK, Entry, HistoryOK
    <2>3. i \in {1, 2, 3, 4, 5, 6}
      BY DEF FunnelStages
    <2>4. e.old = FunnelStages[i]
      BY <2>1, <2>2, <2>3, OneWayIn
    <2>5. QED
      BY <1>1, <2>2, <2>4 DEF Had
  <1>3. At(i + 1) \subseteq At(i)
    BY <1>2
  <1>4. IsFiniteSet(At(i))
    BY AppAssumption, FS_Subset
  <1>5. Cardinality(At(i + 1)) <= Cardinality(At(i))
    BY <1>3, <1>4, FS_Subset
  <1>6. QED
    BY <1>5 DEF FunnelCount

\* The recruitment funnel is monotone for any number of applications.
THEOREM FunnelShape == Spec => []FunnelMonotone
  BY Invariant, FunnelNeverWidens, PTL

\* A card is always where its audit trail says it has been.
THEOREM AuditTrail == Spec => []StatusRecorded
  <1>1. IInv => StatusRecorded
    BY DEF IInv
  <1>2. QED
    BY <1>1, Invariant, PTL

\* No candidate is told of a stage that was not reached.
THEOREM HonestMails == Spec => []MailsFollowHistory
  <1>1. IInv => MailsFollowHistory
    BY DEF IInv
  <1>2. QED
    BY <1>1, Invariant, PTL

(***************************************************************************)
(* The worker of the resumes: the inductive invariant                      *)
(***************************************************************************)

\* Every job is waiting once, running or done, and has runs left while it waits.
JobsOK ==
    /\ resume \in Batches
    /\ queue \in Seq(DOMAIN resume)
    /\ \A m, n \in 1..Len(queue) : queue[m] = queue[n] => m = n
    /\ attempts \in [DOMAIN resume -> Nat]
    /\ \A j \in DOMAIN resume : attempts[j] <= resume[j].retries + 1
    /\ \A n \in 1..Len(queue) : attempts[queue[n]] <= resume[queue[n]].retries
    /\ outcome \in [DOMAIN resume -> {"pending", "finished", "failed"}]
    /\ pipeline \in Pipelines
    /\ phase \in {"idle", "download", "extract", "agents", "stored"}
    /\ phase = "idle" => cur = NoValue
    /\ phase # "idle" => /\ cur \in DOMAIN resume /\ attempts[cur] >= 1
                         /\ \A n \in 1..Len(queue) : queue[n] # cur

\* A node that completed got its payload from a thread of this run.
NodesOK ==
    /\ node \in [Agents -> [state : {"idle", "waiting", "completed", "failed"}, run : Run \cup {NoValue}]]
    /\ phase = "agents" =>
         \A a \in Agents : /\ node[a].state \in {"waiting", "completed", "failed"}
                           /\ node[a].state = "completed" => node[a].run[1] = cur

\* done are the agents that completed, each with a payload of job j.
FromOwn(j, done, origin) ==
    /\ done = {a \in Agents : origin[a].state = "completed"}
    /\ \A a \in Agents : /\ origin[a].state \in {"completed", "failed"}
                         /\ origin[a].state = "completed" => origin[a].run[1] = j

RowsOK ==
    /\ row = [j \in DOMAIN resume |-> [analysis |-> row[j].analysis, skills |-> row[j].skills,
                                       score |-> row[j].score, origin |-> row[j].origin]]
    /\ \A j \in DOMAIN resume : row[j].analysis # NoValue => FromOwn(j, row[j].analysis, row[j].origin)

Tasks == [run : Run, agent : Agents]
TasksOK ==
    /\ backlog \in Seq(Tasks)
    /\ threads \subseteq Tasks /\ IsFiniteSet(threads) /\ Cardinality(threads) <= MaxThreads

NoTwice(s) == \A m, n \in 1..Len(s) : s[m] = s[n] => m = n

\* A task is executed or queued, once; threads that hang are of runs that have begun,
\* and none of a run that has not reached its agents.
TasksOnce ==
    /\ NoTwice(backlog)
    /\ \A n \in 1..Len(backlog) : backlog[n] \notin threads
    /\ \A t \in threads : t.run[2] <= attempts[t.run[1]]
    /\ phase \in {"download", "extract"} => \A t \in threads : t.run # ThisRun

PInv == JobsOK /\ NodesOK /\ RowsOK /\ TasksOK /\ TasksOnce /\ BacklogCurrent

(***************************************************************************)
(* A queue without its cancelled tasks                                     *)
(***************************************************************************)

\* A non-empty set of naturals has a least element.
LEMMA LeastId ==
    ASSUME NEW R, R \subseteq Nat, R # {}
    PROVE  \E m \in R : \A n \in R : m <= n
  <1>1. IsWellFoundedOn(OpToRel(<, Nat), Nat)
    BY NatLessThanWellFounded
  <1>2. PICK m \in R : \A n \in R : ~(<<n, m>> \in OpToRel(<, Nat))
    BY <1>1, WFMin
  <1>3. ASSUME NEW n \in R PROVE m <= n
    <2>1. ~(<<n, m>> \in OpToRel(<, Nat))
      BY <1>2
    <2>2. n \in Nat /\ m \in Nat
      OBVIOUS
    <2>3. ~(n < m)
      BY <2>1, <2>2 DEF OpToRel
    <2>4. QED
      BY <2>2, <2>3
  <1>4. QED
    BY <1>3

\* g is defined by recursion: from base, by a step from each value to the next.
ByRecursion(g, N, S, base, step) ==
    /\ g \in [0..N -> S]
    /\ g[0] = base
    /\ \A n \in 1..N : g[n] = step[<<n, g[n - 1]>>]

\* A function defined by recursion over 0..N exists.
LEMMA Recursion ==
    ASSUME NEW N \in Nat, NEW S, NEW base \in S, NEW step \in [(1..N) \X S -> S]
    PROVE  \E g : ByRecursion(g, N, S, base, step)
  <1> DEFINE Ok(m) == \E g \in [0..m -> S] : g[0] = base /\ \A n \in 1..m : g[n] = step[<<n, g[n-1]>>]
             Bad == {m \in 0..N : ~Ok(m)}
  <1>1. SUFFICES ASSUME Bad # {} PROVE FALSE
    <2>1. SUFFICES ASSUME Bad = {} PROVE \E g : ByRecursion(g, N, S, base, step)
      OBVIOUS
    <2>2. Ok(N)
      <3>1. N \in 0..N
        OBVIOUS
      <3>2. N \notin Bad
        <4> HIDE DEF Bad
        <4>1. QED
          BY <2>1
      <3>3. QED
        BY <3>1, <3>2
    <2>3. QED
      BY <2>2 DEF ByRecursion
  <1>2. PICK m \in Bad : \A n \in Bad : m <= n
    <2>1. Bad \subseteq Nat
      OBVIOUS
    <2>2. QED
      BY <1>1, <2>1, LeastId
  <1>3. m # 0
    <2>1. Ok(0)
      <3> DEFINE g == [n \in 0..0 |-> base]
      <3>1. g \in [0..0 -> S] /\ g[0] = base /\ \A n \in 1..0 : g[n] = step[<<n, g[n-1]>>]
        OBVIOUS
      <3>2. QED
        BY <3>1
    <2>2. QED
      BY <2>1
  <1>4. m - 1 \in 0..N /\ Ok(m - 1)
    BY <1>2, <1>3
  <1>5. PICK g \in [0..(m-1) -> S] : g[0] = base /\ \A n \in 1..(m-1) : g[n] = step[<<n, g[n-1]>>]
    BY <1>4
  <1> DEFINE h == [n \in 0..m |-> IF n = m THEN step[<<m, g[m-1]>>] ELSE g[n]]
  <1>6. m \in 1..N /\ g[m-1] \in S
    BY <1>3
  <1>7. h \in [0..m -> S]
    BY <1>6
  <1>8. h[0] = base /\ \A n \in 1..m : h[n] = step[<<n, h[n-1]>>]
    <2>1. h[0] = base
      BY <1>5, <1>6
    <2>2. ASSUME NEW n \in 1..m PROVE h[n] = step[<<n, h[n-1]>>]
      <3>1. h[n-1] = g[n-1]
        BY <1>6
      <3>2. CASE n = m
        BY <3>1, <3>2
      <3>3. CASE n # m
        BY <3>1, <3>3, <1>5, <1>6
      <3>4. QED
        BY <3>2, <3>3
    <2>3. QED
      BY <2>1, <2>2
  <1>9. Ok(m)
    BY <1>7, <1>8
  <1>10. QED
    BY <1>9

\* Two functions that start alike and go on alike are alike.
Alike(f, g, lo, N) ==
    /\ f[lo] = g[lo]
    /\ \A n \in lo..N : n # lo /\ f[n - 1] = g[n - 1] => f[n] = g[n]
Same(f, g, lo, N) == \A n \in lo..N : f[n] = g[n]

LEMMA Agree ==
    ASSUME NEW lo \in Nat, NEW N \in Nat, NEW f, NEW g, Alike(f, g, lo, N)
    PROVE  Same(f, g, lo, N)
  <1> DEFINE Bad == {n \in lo..N : f[n] # g[n]}
  <1>1. SUFFICES ASSUME Bad # {} PROVE FALSE
    BY DEF Same
  <1>2. PICK m \in Bad : \A n \in Bad : m <= n
    <2>1. Bad \subseteq Nat
      OBVIOUS
    <2>2. QED
      BY <1>1, <2>1, LeastId
  <1>3. m # lo /\ m \in lo..N /\ f[m] # g[m]
    BY DEF Alike
  <1>4. m - 1 \in lo..N /\ ~(m <= m - 1)
    BY <1>3
  <1>5. f[m - 1] = g[m - 1]
    BY <1>2, <1>4
  <1>6. QED
    BY <1>3, <1>5 DEF Alike

\* What is left has no cancelled task, and no task twice that was not there twice.
LEMMA WithoutCancelled ==
    ASSUME NEW Q, NEW s \in Seq(Q), NEW X
    PROVE  Without(s, X) \in Seq(Q \ X) /\ (NoTwice(s) => NoTwice(Without(s, X)))
  <1>1. PICK N \in Nat : N = Len(s)
    OBVIOUS
  <1> DEFINE Eq(t) == t = [n \in 0..N |-> IF n = 0 THEN <<>>
                                          ELSE IF s[n] \in X THEN t[n - 1]
                                          ELSE Append(t[n - 1], s[n])]
  <1>2. PICK S : S = Seq(Q \ X)
    OBVIOUS
  <1>3. <<>> \in S
    BY <1>2
  <1>4. \A n \in 1..N : s[n] \in Q
    BY <1>1
  <1> DEFINE step == [p \in (1..N) \X S |-> IF s[p[1]] \in X THEN p[2] ELSE Append(p[2], s[p[1]])]
  <1>5. step \in [(1..N) \X S -> S]
    <2>1. ASSUME NEW p \in (1..N) \X S
          PROVE  (IF s[p[1]] \in X THEN p[2] ELSE Append(p[2], s[p[1]])) \in S
      <3>1. p[1] \in 1..N /\ p[2] \in S
        OBVIOUS
      <3>2. s[p[1]] \in Q
        BY <1>4, <3>1
      <3>3. CASE s[p[1]] \in X
        BY <3>1, <3>3
      <3>4. CASE s[p[1]] \notin X
        BY <3>1, <3>2, <3>4, <1>2
      <3>5. QED
        BY <3>3, <3>4
    <2>2. QED
      BY <2>1
  <1>6. PICK g : g \in [0..N -> S] /\ g[0] = <<>> /\ \A n \in 1..N : g[n] = step[<<n, g[n - 1]>>]
    <2>1. \E g : ByRecursion(g, N, S, <<>>, step)
      <3> HIDE DEF step
      <3>1. QED
        BY <1>3, <1>5, Recursion
    <2>2. QED
      BY <2>1 DEF ByRecursion
  <1>7. ASSUME NEW n \in 1..N
        PROVE  g[n] = IF s[n] \in X THEN g[n - 1] ELSE Append(g[n - 1], s[n])
    <2>1. g[n - 1] \in S
      BY <1>6
    <2>2. <<n, g[n - 1]>> \in (1..N) \X S
      BY <2>1
    <2>3. QED
      BY <2>2, <1>6
  <1>8. Eq(g)
    <2>1. \A n \in 0..N : g[n] = IF n = 0 THEN <<>>
                                 ELSE IF s[n] \in X THEN g[n - 1] ELSE Append(g[n - 1], s[n])
      <3> TAKE n \in 0..N
      <3>1. CASE n = 0
        BY <3>1, <1>6
      <3>2. CASE n # 0
        <4>1. n \in 1..N
          BY <3>2
        <4>2. QED
          BY <3>2, <4>1, <1>7
      <3>3. QED
        BY <3>1, <3>2
    <2>2. g = [n \in 0..N |-> g[n]]
      BY <1>6
    <2>3. QED
      BY <2>1, <2>2
  <1>9. PICK t : t = (CHOOSE x : Eq(x)) /\ Eq(t)
    BY <1>8
  <1>10. Without(s, X) = t[N]
    BY <1>1, <1>9 DEF Without
  <1>11. \A n \in 0..N : t[n] = g[n]
    <2>1. t[0] = g[0]
      <3>1. 0 \in 0..N
        OBVIOUS
      <3>2. t[0] = <<>>
        BY <3>1, <1>9
      <3>3. QED
        BY <3>2, <1>6
    <2>2. ASSUME NEW n \in 0..N, n # 0, t[n - 1] = g[n - 1] PROVE t[n] = g[n]
      <3>1. n \in 1..N
        BY <2>2
      <3>2. t[n] = IF s[n] \in X THEN t[n - 1] ELSE Append(t[n - 1], s[n])
        BY <2>2, <1>9
      <3>3. QED
        BY <3>1, <3>2, <2>2, <1>7
    <2>3. Alike(t, g, 0, N)
      BY <2>1, <2>2 DEF Alike
    <2>4. Same(t, g, 0, N)
      BY <2>3, Agree
    <2>5. QED
      BY <2>4 DEF Same
  <1>12. ASSUME NoTwice(s) PROVE NoTwice(g[N])
    <2> DEFINE Good(k, n) == NoTwice(k) /\ \A i \in 1..Len(k) : \E m \in 1..n : k[i] = s[m]
               Bad == {n \in 0..N : ~Good(g[n], n)}
    <2>1. SUFFICES ASSUME Bad # {} PROVE FALSE
      <3>1. N \in 0..N
        OBVIOUS
      <3>2. QED
        BY <3>1
    <2>2. PICK b \in Bad : \A n \in Bad : b <= n
      <3>1. Bad \subseteq Nat
        OBVIOUS
      <3>2. QED
        BY <2>1, <3>1, LeastId
    <2>3. b # 0
      <3>1. Good(<<>>, 0)
        BY DEF NoTwice
      <3>2. QED
        BY <3>1, <1>6
    <2>4. b \in 1..N /\ b - 1 \in 0..N /\ ~(b <= b - 1)
      BY <2>3
    <2>5. Good(g[b - 1], b - 1)
      BY <2>2, <2>4
    <2>6. PICK k \in S : k = g[b - 1]
      BY <1>6, <2>4
    <2>7. PICK L \in Nat : L = Len(k) /\ k \in Seq(Q)
      BY <1>2, <2>6
    <2>8. \A i \in 1..L : \E m \in 1..(b - 1) : k[i] = s[m]
      BY <2>5, <2>6, <2>7
    <2>9. NoTwice(k)
      BY <2>5, <2>6
    <2>10. CASE s[b] \in X
      <3>1. g[b] = k
        BY <2>10, <2>4, <2>6, <1>7
      <3>2. \A i \in 1..L : \E m \in 1..b : k[i] = s[m]
        BY <2>4, <2>8
      <3>3. Good(g[b], b)
        BY <3>1, <3>2, <2>7, <2>9
      <3>4. QED
        BY <3>3
    <2>11. CASE s[b] \notin X
      <3>1. PICK l : l = Append(k, s[b])
        OBVIOUS
      <3>2. g[b] = l
        BY <2>11, <2>4, <2>6, <3>1, <1>7
      <3>3. s[b] \in Q
        BY <1>4, <2>4
      <3>4. Len(l) = L + 1 /\ l[L + 1] = s[b] /\ \A i \in 1..L : l[i] = k[i]
        BY <3>1, <3>3, <2>7
      <3>5. \A i \in 1..(L + 1) : i = L + 1 \/ i \in 1..L
        OBVIOUS
      <3>6. \A i \in 1..L : l[i] # s[b]
        <4> TAKE i \in 1..L
        <4>1. PICK m \in 1..(b - 1) : k[i] = s[m]
          BY <2>8
        <4>2. m \in 1..N /\ m # b
          BY <2>4
        <4>3. s[m] # s[b]
          BY <4>2, <2>4, <1>1, <1>12 DEF NoTwice
        <4>4. QED
          BY <3>4, <4>1, <4>3
      <3>7. NoTwice(l)
        <4>1. \A i, m \in 1..L : k[i] = k[m] => i = m
          BY <2>7, <2>9 DEF NoTwice
        <4>2. \A i, m \in 1..(L + 1) : l[i] = l[m] => i = m
          BY <3>4, <3>5, <3>6, <4>1
        <4>3. QED
          BY <3>4, <4>2 DEF NoTwice
      <3>8. \A i \in 1..(L + 1) : \E m \in 1..b : l[i] = s[m]
        <4> TAKE i \in 1..(L + 1)
        <4>1. CASE i = L + 1
          BY <4>1, <3>4, <2>4
        <4>2. CASE i \in 1..L
          <5>1. PICK m \in 1..(b - 1) : k[i] = s[m]
            BY <2>8, <4>2
          <5>2. m \in 1..b
            BY <2>4
          <5>3. QED
            BY <5>1, <5>2, <4>2, <3>4
        <4>3. QED
          BY <4>1, <4>2, <3>5
      <3>9. Good(g[b], b)
        BY <3>2, <3>4, <3>7, <3>8
      <3>10. QED
        BY <3>9
    <2>12. QED
      BY <2>10, <2>11
  <1>13. N \in 0..N
    OBVIOUS
  <1>14. Without(s, X) = g[N] /\ g[N] \in S
    BY <1>6, <1>10, <1>11, <1>13
  <1>15. QED
    BY <1>2, <1>12, <1>14

LEMMA RunIs ==
    \A j, n : <<j, n>> \in Run <=> j \in DOMAIN resume /\ n \in 1..(resume[j].retries + 1)
  BY DEF Run

LEMMA RunFixed == ASSUME UNCHANGED resume PROVE Run' = Run /\ Tasks' = Tasks
  BY DEF Run, Tasks

LEMMA Retries ==
    ASSUME JobsOK
    PROVE  /\ \A j \in DOMAIN resume : resume[j].retries \in Nat /\ j # NoValue
           /\ DOMAIN resume = 1..Len(resume) /\ Len(resume) \in Nat
  BY PipelineAssumption DEF JobsOK

LEMMA ThisRunType == ASSUME JobsOK, phase # "idle" PROVE ThisRun \in Run
  <1>1. cur \in DOMAIN resume /\ attempts[cur] \in Nat /\ attempts[cur] >= 1
        /\ attempts[cur] <= resume[cur].retries + 1
    BY DEF JobsOK
  <1>2. resume[cur].retries \in Nat
    BY <1>1, Retries
  <1>3. attempts[cur] \in 1..(resume[cur].retries + 1)
    BY <1>1, <1>2
  <1>4. QED
    BY <1>1, <1>3, RunIs DEF ThisRun

NodeType == [Agents -> [state : {"idle", "waiting", "completed", "failed"}, run : Run \cup {NoValue}]]

LEMMA IdleType == Idle \in NodeType /\ \A a \in Agents : Idle[a].state = "idle"
  BY DEF Idle, Node, NodeType

\* The tasks of a queue, one by one.
LEMMA QueuedTasks ==
    ASSUME NEW Q, NEW s \in Seq(Q)
    PROVE  ToSet(s) \subseteq Q /\ ToSet(s) = {s[i] : i \in 1..Len(s)}
  BY DEF ToSet

\* The job and the attempt of a task.
LEMMA TaskRun ==
    ASSUME JobsOK, TasksOK
    PROVE  \A t \in threads : \E j \in DOMAIN resume, n \in Nat : t.run = <<j, n>>
  <1> TAKE t \in threads
  <1>1. t.run \in Run
    BY DEF TasksOK, Tasks
  <1>a. PICK j \in DOMAIN resume : t.run \in {<<j, n>> : n \in 1..(resume[j].retries + 1)}
    BY <1>1 DEF Run
  <1>2. PICK n \in 1..(resume[j].retries + 1) : t.run = <<j, n>>
    BY <1>a
  <1>3. resume[j].retries \in Nat
    BY <1>2, Retries
  <1>4. n \in Nat
    BY <1>2, <1>3
  <1>5. QED
    BY <1>2, <1>4

\* Nothing is queued unless an agent waits for it.
LEMMA NoBacklog ==
    ASSUME TasksOK, BacklogCurrent, phase # "agents" \/ \A a \in Agents : node[a].state # "waiting"
    PROVE  backlog = <<>>
  <1>1. PICK Q : Q = Tasks
    OBVIOUS
  <1>2. backlog \in Seq(Q)
    BY <1>1 DEF TasksOK
  <1>3. SUFFICES ASSUME backlog # <<>> PROVE FALSE
    OBVIOUS
  <1>4. backlog[1] \in ToSet(backlog) /\ backlog[1] \in Q
    BY <1>2, <1>3 DEF ToSet
  <1>5. backlog[1].agent \in Agents
    BY <1>1, <1>4 DEF Tasks
  <1>6. phase = "agents" /\ node[backlog[1].agent].state = "waiting"
    BY <1>4 DEF BacklogCurrent
  <1>7. QED
    BY <1>5, <1>6

LEMMA EmptyIsCurrent == ASSUME backlog' = <<>> PROVE BacklogCurrent'
  BY DEF BacklogCurrent, ToSet

LEMMA EmptyIsOnce ==
    ASSUME TasksOnce, backlog' = <<>>, threads' \subseteq threads, attempts' = attempts,
           phase' \notin {"download", "extract"}
    PROVE  TasksOnce'
  BY DEF TasksOnce, NoTwice

LEMMA EmptyQueueType == \A Q : <<>> \in Seq(Q)
  OBVIOUS

LEMMA PoolInit == PipelineInit => PInv
  <1> SUFFICES ASSUME PipelineInit PROVE PInv
    OBVIOUS
  <1>1. PICK n \in Nat : DOMAIN resume = 1..n /\ \A j \in 1..n : resume[j].retries \in Nat
    BY PipelineAssumption DEF PipelineInit
  <1>2. queue = [j \in 1..n |-> j] /\ attempts = [j \in 1..n |-> 0] /\ outcome = [j \in 1..n |-> "pending"]
    BY <1>1 DEF PipelineInit
  <1>3. queue \in Seq(1..n) /\ Len(queue) = n /\ \A j \in 1..n : queue[j] = j
    <2>1. queue \in [1..n -> 1..n]
      BY <1>2
    <2>2. QED
      BY <1>2, <2>1
  <1>4. JobsOK
    <2>1. resume \in Batches /\ pipeline \in Pipelines /\ phase = "idle" /\ cur = NoValue
      BY DEF PipelineInit
    <2>2. \A j \in 1..n : attempts[j] = 0
      BY <1>2
    <2>3. attempts \in [1..n -> Nat] /\ outcome \in [1..n -> {"pending", "finished", "failed"}]
      BY <1>2
    <2>4. \A j \in 1..n : attempts[j] <= resume[j].retries + 1 /\ attempts[j] <= resume[j].retries
      BY <1>1, <2>2
    <2>5. QED
      BY <1>1, <1>3, <2>1, <2>3, <2>4 DEF JobsOK
  <1>5. NodesOK
    BY IdleType DEF PipelineInit, NodesOK, NodeType
  <1>6. RowsOK
    <2>1. row = [j \in DOMAIN resume |-> NoRow]
      BY DEF PipelineInit
    <2>2. QED
      BY <2>1 DEF RowsOK, NoRow
  <1>7. TasksOK
    <2>1. threads = {} /\ backlog = <<>>
      BY DEF PipelineInit
    <2>2. IsFiniteSet({}) /\ Cardinality({}) = 0
      BY FS_EmptySet
    <2>3. QED
      BY <2>1, <2>2, PipelineAssumption DEF TasksOK
  <1>8. BacklogCurrent
    BY DEF PipelineInit, BacklogCurrent, ToSet
  <1>9. TasksOnce
    BY DEF PipelineInit, TasksOnce, NoTwice
  <1>10. QED
    BY <1>4, <1>5, <1>6, <1>7, <1>8, <1>9 DEF PInv

LEMMA StartInv ==
    ASSUME PInv, Start
    PROVE  PInv'
  <1> USE DEF PInv
  <1>a. PICK J : J = DOMAIN resume
    OBVIOUS
  <1>b. PICK s \in Seq(J) : s = queue /\ s # <<>>
    BY <1>a DEF JobsOK, Start
  <1>c. PICK L \in Nat : L = Len(s) /\ L # 0
    BY <1>b
  <1>d. PICK h \in J : h = s[1] /\ h = Head(s)
    BY <1>b, <1>c
  <1>1. J = DOMAIN resume /\ s = queue /\ L = Len(s) /\ L # 0 /\ h = s[1] /\ h = Head(s)
    BY <1>a, <1>b, <1>c, <1>d
  <1>2. Tail(s) \in Seq(J) /\ Len(Tail(s)) = L - 1 /\ \A i \in 1..(L - 1) : Tail(s)[i] = s[i + 1]
    BY <1>1
  <1>3. UNCHANGED <<resume, outcome, pipeline, node, threads, backlog, row>>
        /\ phase = "idle" /\ phase' = "download" /\ cur' = h /\ queue' = Tail(s)
        /\ attempts' = [attempts EXCEPT ![h] = attempts[h] + 1]
    BY <1>1 DEF Start
  <1>4. \A i \in 1..L : attempts[s[i]] \in Nat /\ s[i] \in J /\ attempts[s[i]] <= resume[s[i]].retries
        /\ resume[s[i]].retries \in Nat
    BY <1>1, Retries DEF JobsOK
  <1>5. \A m, n \in 1..L : s[m] = s[n] => m = n
    BY <1>1 DEF JobsOK
  <1>6. ASSUME NEW i \in 1..(L - 1) PROVE Tail(s)[i] # h /\ Tail(s)[i] \in J
          /\ attempts'[Tail(s)[i]] <= resume[Tail(s)[i]].retries
    <2>1. PICK k \in 1..L : k = i + 1 /\ k # 1
      OBVIOUS
    <2>2. Tail(s)[i] = s[k] /\ 1 \in 1..L
      BY <1>2, <2>1
    <2>3. s[k] # h
      BY <1>1, <1>5, <2>1, <2>2
    <2>4. attempts'[s[k]] = attempts[s[k]]
      BY <1>1, <1>3, <1>4, <2>3 DEF JobsOK
    <2>5. QED
      BY <1>4, <2>2, <2>3, <2>4
  <1>7. JobsOK'
    <2>1. attempts' \in [J -> Nat]
      BY <1>1, <1>3 DEF JobsOK
    <2>2. \A j \in J : attempts'[j] <= resume[j].retries + 1
      <3> TAKE j \in J
      <3>1. CASE j = h
        <4>1. attempts'[h] = attempts[h] + 1 /\ attempts[h] <= resume[h].retries /\ attempts[h] \in Nat
              /\ resume[h].retries \in Nat
          BY <1>1, <1>3, <1>4 DEF JobsOK
        <4>2. QED
          BY <3>1, <4>1
      <3>2. CASE j # h
        BY <3>2, <1>1, <1>3 DEF JobsOK
      <3>3. QED
        BY <3>1, <3>2
    <2>3. attempts'[h] >= 1
      BY <1>1, <1>3, <1>4 DEF JobsOK
    <2>4. \A m, n \in 1..(L - 1) : Tail(s)[m] = Tail(s)[n] => m = n
      <3> TAKE m, n \in 1..(L - 1)
      <3>1. PICK k \in 1..L, l \in 1..L : k = m + 1 /\ l = n + 1
        OBVIOUS
      <3>2. Tail(s)[m] = s[k] /\ Tail(s)[n] = s[l]
        BY <1>2, <3>1
      <3>3. s[k] = s[l] => k = l
        BY <1>5
      <3>4. k = l => m = n
        BY <3>1
      <3>5. QED
        BY <3>2, <3>3, <3>4
    <2>5. QED
      BY <1>1, <1>2, <1>3, <1>6, <2>1, <2>2, <2>3, <2>4 DEF JobsOK
  <1>8. backlog = <<>>
    BY <1>3, NoBacklog
  <1>9. NodesOK' /\ RowsOK' /\ TasksOK' /\ BacklogCurrent'
    <2>1. NodesOK'
      BY <1>3, RunFixed DEF NodesOK
    <2>2. RowsOK'
      BY <1>3 DEF RowsOK
    <2>3. TasksOK'
      BY <1>3, RunFixed DEF TasksOK
    <2>4. BacklogCurrent'
      BY <1>3, <1>8, EmptyIsCurrent
    <2>5. QED
      BY <2>1, <2>2, <2>3, <2>4
  <1>10. TasksOnce'
    <2>1. ASSUME NEW t \in threads
          PROVE  t.run[2] <= attempts'[t.run[1]] /\ t.run # ThisRun'
      <3>1. PICK j, n : t.run = <<j, n>> /\ j \in J /\ n \in Nat
        BY <1>1, TaskRun
      <3>2. n <= attempts[j] /\ attempts[j] \in Nat
        BY <3>1, <1>1 DEF TasksOnce, JobsOK
      <3>3. ThisRun' = <<h, attempts'[h]>> /\ attempts'[h] = attempts[h] + 1
        BY <1>1, <1>3 DEF JobsOK, ThisRun
      <3>4. attempts'[j] = IF j = h THEN attempts[j] + 1 ELSE attempts[j]
        BY <1>1, <1>3, <3>1 DEF JobsOK
      <3>5. n <= attempts'[j]
        BY <3>1, <3>2, <3>4
      <3>6. <<j, n>> # <<h, attempts'[h]>>
        BY <3>1, <3>2, <3>3
      <3>7. QED
        BY <3>1, <3>3, <3>5, <3>6
    <2>2. QED
      BY <2>1, <1>3 DEF TasksOnce, NoTwice
  <1>11. QED
    BY <1>7, <1>9, <1>10

\* The columns and the pool are not touched.
LEMMA RestKept ==
    ASSUME UNCHANGED <<resume, row>>
    PROVE  RowsOK => RowsOK'
  BY DEF RowsOK

LEMMA DownloadInv ==
    ASSUME PInv, Download
    PROVE  PInv'
  <1> USE DEF PInv
  <1>1. phase = "download" /\ phase' = "extract"
        /\ UNCHANGED <<resume, queue, attempts, outcome, pipeline, cur, node, threads, backlog, row>>
    BY DEF Download
  <1>2. JobsOK'
    BY <1>1 DEF JobsOK
  <1>3. NodesOK' /\ TasksOK'
    BY <1>1, RunFixed DEF NodesOK, TasksOK
  <1>4. BacklogCurrent'
    BY <1>1, NoBacklog, EmptyIsCurrent
  <1>5. TasksOnce'
    BY <1>1 DEF TasksOnce, NoTwice, ThisRun
  <1>6. QED
    BY <1>1, <1>2, <1>3, <1>4, <1>5, RestKept

\* The job is over for RQ.
LEMMA ReturnInv ==
    ASSUME PInv, phase # "idle", Return, UNCHANGED backlog,
           phase # "agents" \/ \A a \in Agents : node[a].state # "waiting"
    PROVE  PInv'
  <1> USE DEF PInv
  <1>1. /\ outcome' = [outcome EXCEPT ![cur] = "finished"]
        /\ phase' = "idle" /\ cur' = NoValue /\ node' = Idle
        /\ UNCHANGED <<resume, queue, attempts, pipeline, threads, row, backlog>>
    BY DEF Return
  <1>2. JobsOK'
    BY <1>1 DEF JobsOK
  <1>3. NodesOK'
    BY <1>1, RunFixed, IdleType DEF NodesOK, NodeType
  <1>4. TasksOK'
    BY <1>1, RunFixed DEF TasksOK
  <1>5. BacklogCurrent'
    BY <1>1, NoBacklog, EmptyIsCurrent
  <1>6. TasksOnce'
    BY <1>1, NoBacklog, EmptyIsOnce
  <1>7. QED
    BY <1>1, <1>2, <1>3, <1>4, <1>5, <1>6, RestKept

\* The job goes back to the queue or is given up.
LEMMA RaiseInv ==
    ASSUME PInv, phase # "idle", Raise, pipeline' \in Pipelines,
           threads' = threads \/ threads' = {}, backlog' = <<>>
    PROVE  PInv'
  <1> USE DEF PInv
  <1>1. /\ phase' = "idle" /\ cur' = NoValue /\ node' = Idle /\ UNCHANGED <<resume, attempts, row>>
    BY DEF Raise
  <1>2. JobsOK'
    <2>1. cur \in DOMAIN resume /\ \A n \in 1..Len(queue) : queue[n] # cur
      BY DEF JobsOK
    <2>2. CASE attempts[cur] <= resume[cur].retries
      <3>1. queue' = Append(queue, cur) /\ UNCHANGED outcome
        BY <2>2 DEF Raise
      <3>2. PICK L \in Nat : L = Len(queue)
        BY DEF JobsOK
      <3>3. /\ queue' \in Seq(DOMAIN resume) /\ Len(queue') = L + 1
            /\ queue'[L + 1] = cur /\ \A n \in 1..L : queue'[n] = queue[n]
        BY <2>1, <3>1, <3>2 DEF JobsOK
      <3>4. \A n \in 1..(L + 1) : n = L + 1 \/ n \in 1..L
        OBVIOUS
      <3>5. \A m, n \in 1..(L + 1) : queue'[m] = queue'[n] => m = n
        <4>1. \A m, n \in 1..L : queue[m] = queue[n] => m = n
          BY <3>2 DEF JobsOK
        <4>2. \A n \in 1..L : queue[n] # cur
          BY <2>1, <3>2
        <4> HIDE DEF PInv
        <4>3. QED
          BY <3>3, <3>4, <4>1, <4>2
      <3>6. \A n \in 1..(L + 1) : attempts[queue'[n]] <= resume[queue'[n]].retries
        BY <2>2, <3>2, <3>3, <3>4 DEF JobsOK
      <3>7. QED
        BY <1>1, <3>1, <3>3, <3>5, <3>6 DEF JobsOK
    <2>3. CASE ~(attempts[cur] <= resume[cur].retries)
      <3>1. outcome' = [outcome EXCEPT ![cur] = "failed"] /\ UNCHANGED queue
        BY <2>3 DEF Raise
      <3>2. QED
        BY <1>1, <3>1 DEF JobsOK
    <2>4. QED
      BY <2>2, <2>3
  <1>3. NodesOK'
    BY <1>1, RunFixed, IdleType DEF NodesOK, NodeType
  <1>4. TasksOK'
    <2>1. threads' \subseteq Tasks' /\ backlog' \in Seq(Tasks')
      BY <1>1, RunFixed DEF TasksOK
    <2>2. IsFiniteSet(threads') /\ Cardinality(threads') <= MaxThreads
      <3>1. CASE threads' = threads
        BY <3>1 DEF TasksOK
      <3>2. CASE threads' = {}
        <4>1. IsFiniteSet({}) /\ Cardinality({}) = 0 /\ 0 <= MaxThreads
          BY PipelineAssumption, FS_EmptySet
        <4>2. QED
          BY <3>2, <4>1
      <3>3. QED
        BY <3>1, <3>2
    <2>3. QED
      BY <2>1, <2>2 DEF TasksOK
  <1>5. TasksOnce'
    BY <1>1, EmptyIsOnce
  <1>6. QED
    BY <1>1, <1>2, <1>3, <1>4, <1>5, EmptyIsCurrent, RestKept

\* A change of the pool only, or of the nodes.
LEMMA JobsKept ==
    ASSUME JobsOK, UNCHANGED <<resume, queue, attempts, outcome, pipeline, cur>>,
           phase # "idle", phase' \in {"download", "extract", "agents", "stored"}
    PROVE  JobsOK'
  BY DEF JobsOK

LEMMA DispatchInv ==
    ASSUME PInv, Dispatch
    PROVE  PInv'
  <1> USE DEF PInv
  <1>1. /\ phase = "extract" /\ phase' = "agents"
        /\ node' = [a \in Agents |-> Node("waiting")]
        /\ UNCHANGED <<resume, queue, attempts, outcome, pipeline, cur, threads, row>>
    BY DEF Dispatch
  <1>2. backlog = <<>>
    BY <1>1, NoBacklog
  <1>3. PICK t1, t2, t3 : t1 = Task("skill_extraction") /\ t2 = Task("experience_validation")
                          /\ t3 = Task("culture_fit_soft_skills")
    OBVIOUS
  <1>4. PICK Q : Q = Tasks
    OBVIOUS
  <1>5. t1 \in Q /\ t2 \in Q /\ t3 \in Q
    <2>1. ThisRun \in Run
      BY <1>1, ThisRunType
    <2>2. QED
      BY <1>3, <1>4, <2>1 DEF Task, Tasks, Agents
  <1>6. backlog' = <<t1, t2, t3>>
    <2>1. backlog' = backlog \o <<t1, t2, t3>>
      BY <1>3 DEF Dispatch
    <2>2. <<t1, t2, t3>> \in Seq(Q)
      BY <1>5
    <2>3. <<>> \o <<t1, t2, t3>> = <<t1, t2, t3>>
      BY <2>2
    <2>4. QED
      BY <1>2, <2>1, <2>3
  <1>7. /\ backlog' \in Seq(Q) /\ Len(backlog') = 3
        /\ backlog'[1] = t1 /\ backlog'[2] = t2 /\ backlog'[3] = t3
    BY <1>5, <1>6
  <1>8. \A n \in 1..3 : n = 1 \/ n = 2 \/ n = 3
    OBVIOUS
  <1>9. /\ t1.run = ThisRun /\ t2.run = ThisRun /\ t3.run = ThisRun
        /\ t1.agent = "skill_extraction" /\ t2.agent = "experience_validation"
        /\ t3.agent = "culture_fit_soft_skills"
    BY <1>3 DEF Task
  <1>10. JobsOK'
    BY <1>1, JobsKept
  <1>11. \A a \in Agents : node'[a] = [state |-> "waiting", run |-> NoValue]
    BY <1>1 DEF Node
  <1>12. NodesOK'
    <2>1. node' \in [Agents -> [state : {"idle", "waiting", "completed", "failed"}, run : Run \cup {NoValue}]]
      BY <1>1 DEF Node
    <2>2. QED
      BY <1>1, <1>11, <2>1, RunFixed DEF NodesOK
  <1>13. TasksOK'
    BY <1>1, <1>4, <1>7, RunFixed DEF TasksOK
  <1>14. ThisRun' = ThisRun
    BY <1>1 DEF ThisRun
  <1>15. TasksOnce'
    <2>1. \A t \in threads : t.run # ThisRun
      BY <1>1 DEF TasksOnce
    <2>2. \A n \in 1..3 : backlog'[n] \notin threads
      BY <2>1, <1>7, <1>8, <1>9
    <2>3. NoTwice(backlog')
      <3>1. t1 # t2 /\ t1 # t3 /\ t2 # t3
        BY <1>9
      <3>2. \A m, n \in 1..3 : backlog'[m] = backlog'[n] => m = n
        BY <3>1, <1>7, <1>8
      <3>3. QED
        BY <3>2, <1>7 DEF NoTwice
    <2>4. QED
      BY <1>1, <1>7, <2>2, <2>3 DEF TasksOnce, NoTwice
  <1>16. BacklogCurrent'
    <2>1. ToSet(backlog') = {backlog'[n] : n \in 1..3}
      BY <1>7, QueuedTasks
    <2>2. \A t \in ToSet(backlog') : t.run = ThisRun /\ t.agent \in Agents
      BY <2>1, <1>7, <1>8, <1>9 DEF Agents
    <2>3. QED
      BY <1>1, <1>11, <1>14, <2>2 DEF BacklogCurrent
  <1>17. QED
    BY <1>1, <1>10, <1>12, <1>13, <1>15, <1>16, RestKept

LEMMA TakeTaskInv ==
    ASSUME PInv, TakeTask
    PROVE  PInv'
  <1> USE DEF PInv
  <1>1. /\ UNCHANGED <<resume, queue, attempts, outcome, pipeline, phase, cur, node, row>>
        /\ Cardinality(threads) < MaxThreads /\ backlog # <<>>
    BY DEF TakeTask
  <1>2. PICK Q : Q = Tasks
    OBVIOUS
  <1>3. PICK s \in Seq(Q) : s = backlog /\ s # <<>>
    BY <1>1, <1>2 DEF TasksOK
  <1>4. PICK L \in Nat : L = Len(s) /\ L # 0
    BY <1>3
  <1>5. PICK h \in Q : h = s[1] /\ h = Head(s)
    BY <1>3, <1>4
  <1>6. threads' = threads \cup {h} /\ backlog' = Tail(s)
    BY <1>3, <1>5 DEF TakeTask
  <1>7. Tail(s) \in Seq(Q) /\ Len(Tail(s)) = L - 1 /\ \A i \in 1..(L - 1) : Tail(s)[i] = s[i + 1]
    BY <1>3, <1>4
  <1>8. h \in ToSet(backlog)
    BY <1>3, <1>4, <1>5, QueuedTasks
  <1>9. phase = "agents" /\ h.run = ThisRun /\ node[h.agent].state = "waiting"
    BY <1>8 DEF BacklogCurrent
  <1>10. JobsOK'
    BY <1>1 DEF JobsOK
  <1>11. NodesOK'
    BY <1>1, RunFixed DEF NodesOK
  <1>12. TasksOK'
    <2>1. /\ IsFiniteSet(threads) /\ threads \subseteq Q
      BY <1>2 DEF TasksOK
    <2>2. IsFiniteSet(threads \cup {h})
      BY <2>1, FS_AddElement
    <2>3. Cardinality(threads \cup {h}) <= Cardinality(threads) + 1 /\ Cardinality(threads) \in Nat
      <3>1. Cardinality(threads \cup {h}) = IF h \in threads THEN Cardinality(threads) ELSE Cardinality(threads) + 1
        BY <2>1, FS_AddElement
      <3>2. Cardinality(threads) \in Nat
        BY <2>1, FS_CardinalityType
      <3>3. QED
        BY <3>1, <3>2
    <2>4. Cardinality(threads \cup {h}) <= MaxThreads
      <3>1. Cardinality(threads \cup {h}) \in Nat
        BY <2>2, FS_CardinalityType
      <3>2. QED
        BY <1>1, <2>3, <3>1, PipelineAssumption
    <2>5. QED
      BY <1>1, <1>2, <1>6, <1>7, <2>1, <2>2, <2>4, RunFixed DEF TasksOK
  <1>13. TasksOnce'
    <2>1. \A m, n \in 1..L : s[m] = s[n] => m = n
      BY <1>3, <1>4 DEF TasksOnce, NoTwice
    <2>2. \A n \in 1..L : s[n] \notin threads
      BY <1>3, <1>4 DEF TasksOnce
    <2>3. NoTwice(Tail(s))
      <3>1. ASSUME NEW m \in 1..(L - 1), NEW n \in 1..(L - 1), Tail(s)[m] = Tail(s)[n]
            PROVE  m = n
        <4>1. m + 1 \in 1..L /\ n + 1 \in 1..L
          OBVIOUS
        <4>2. s[m + 1] = s[n + 1]
          BY <1>7, <3>1
        <4>3. m + 1 = n + 1
          BY <2>1, <4>1, <4>2
        <4>4. QED
          BY <4>3
      <3>2. QED
        BY <1>7, <3>1 DEF NoTwice
    <2>4. ASSUME NEW n \in 1..(L - 1) PROVE Tail(s)[n] \notin threads \cup {h}
      <3>1. n + 1 \in 1..L /\ 1 \in 1..L /\ n + 1 # 1
        OBVIOUS
      <3>2. Tail(s)[n] = s[n + 1]
        BY <1>7
      <3>3. s[n + 1] # s[1]
        BY <2>1, <3>1
      <3>4. s[n + 1] \notin threads
        BY <2>2, <3>1
      <3>5. QED
        BY <3>2, <3>3, <3>4, <1>5
    <2>5. \A t \in threads \cup {h} : t.run[2] <= attempts[t.run[1]]
      <3>1. h.run[2] <= attempts[h.run[1]]
        <4>1. h.run = <<cur, attempts[cur]>> /\ attempts[cur] \in Nat
          BY <1>9 DEF ThisRun, JobsOK
        <4>2. QED
          BY <4>1
      <3>2. QED
        BY <3>1 DEF TasksOnce
    <2>6. QED
      BY <1>1, <1>6, <1>7, <1>9, <2>3, <2>4, <2>5 DEF TasksOnce
  <1>14. BacklogCurrent'
    <2>1. ASSUME NEW t \in ToSet(Tail(s)) PROVE t \in ToSet(s)
      <3>1. PICK i \in 1..(L - 1) : t = Tail(s)[i]
        <4>1. ToSet(Tail(s)) = {Tail(s)[k] : k \in 1..(L - 1)}
          BY <1>7, QueuedTasks
        <4>2. QED
          BY <4>1
      <3>2. i + 1 \in 1..L /\ t = s[i + 1]
        BY <1>7, <3>1
      <3>3. QED
        <4>1. ToSet(s) = {s[k] : k \in 1..L}
          BY <1>4, QueuedTasks
        <4>2. QED
          BY <3>2, <4>1
    <2>2. QED
      BY <1>1, <1>3, <1>6, <2>1 DEF BacklogCurrent, ThisRun
  <1>15. QED
    BY <1>1, <1>10, <1>11, <1>12, <1>13, <1>14, RestKept

\* A node changes: the results of other nodes and their tasks are not affected.
LEMMA NodeChanges ==
    ASSUME JobsOK, NodesOK, phase = "agents", UNCHANGED <<resume, phase, cur>>,
           NEW a \in Agents, NEW v \in [state : {"completed", "failed"}, run : Run \cup {NoValue}],
           v.state = "completed" => v.run[1] = cur,
           node' = [node EXCEPT ![a] = v]
    PROVE  NodesOK' /\ \A b \in Agents : b # a => node'[b] = node[b]
  <1>1. /\ node' \in [Agents -> [state : {"idle", "waiting", "completed", "failed"}, run : Run \cup {NoValue}]]
        /\ node'[a] = v /\ \A b \in Agents : b # a => node'[b] = node[b]
    BY DEF NodesOK
  <1>2. \A b \in Agents : /\ node'[b].state \in {"waiting", "completed", "failed"}
                          /\ node'[b].state = "completed" => node'[b].run[1] = cur
    BY <1>1 DEF NodesOK
  <1>3. QED
    BY <1>1, <1>2, RunFixed DEF NodesOK

LEMMA ThreadEndsInv ==
    ASSUME PInv, NEW t, NEW v, ThreadEnds(t, v),
           v = [state |-> "completed", run |-> t.run] \/ v = Node("failed")
    PROVE  PInv'
  <1> USE DEF PInv
  <1>1. /\ t \in threads /\ threads' = threads \ {t}
        /\ node' = IF Awaited(t) THEN [node EXCEPT ![t.agent] = v] ELSE node
        /\ UNCHANGED <<resume, queue, attempts, outcome, pipeline, phase, cur, backlog, row>>
    BY DEF ThreadEnds
  <1>2. t \in Tasks /\ t.run \in Run /\ t.agent \in Agents /\ t = [run |-> t.run, agent |-> t.agent]
    BY <1>1 DEF TasksOK, Tasks
  <1>3. JobsOK'
    BY <1>1 DEF JobsOK
  <1>4. TasksOK'
    <2>1. IsFiniteSet(threads) /\ Cardinality(threads) \in Nat /\ Cardinality(threads) <= MaxThreads
      BY FS_CardinalityType DEF TasksOK
    <2>2. IsFiniteSet(threads \ {t}) /\ Cardinality(threads \ {t}) = Cardinality(threads) - 1
      BY <1>1, <2>1, FS_RemoveElement
    <2>3. Cardinality(threads \ {t}) <= MaxThreads
      BY <2>1, <2>2, PipelineAssumption
    <2>4. QED
      BY <1>1, <2>2, <2>3, RunFixed DEF TasksOK
  <1>5. TasksOnce'
    BY <1>1 DEF TasksOnce, NoTwice, ThisRun
  <1>6. CASE ~Awaited(t)
    <2>1. node' = node
      BY <1>1, <1>6
    <2>2. NodesOK' /\ BacklogCurrent'
      BY <1>1, <2>1, RunFixed DEF NodesOK, BacklogCurrent, ThisRun
    <2>3. QED
      BY <1>1, <1>3, <1>4, <1>5, <2>2, RestKept
  <1>7. CASE Awaited(t)
    <2>1. phase = "agents" /\ t.run = ThisRun /\ node' = [node EXCEPT ![t.agent] = v]
      BY <1>1, <1>7 DEF Awaited
    <2>2. t.run[1] = cur
      BY <2>1 DEF ThisRun
    <2>3. /\ v \in [state : {"completed", "failed"}, run : Run \cup {NoValue}]
          /\ v.state = "completed" => v.run[1] = cur
      BY <1>2, <2>2 DEF Node
    <2>4. NodesOK' /\ \A b \in Agents : b # t.agent => node'[b] = node[b]
      BY <1>1, <1>2, <2>1, <2>3, NodeChanges
    <2>5. PICK Q : Q = Tasks
      OBVIOUS
    <2>6. BacklogCurrent'
      <3>1. ASSUME NEW u \in ToSet(backlog)
            PROVE  phase = "agents" /\ u.run = ThisRun /\ node'[u.agent].state = "waiting"
        <4>1. backlog \in Seq(Q)
          BY <2>5 DEF TasksOK
        <4>2. u \in Q /\ u \in {backlog[i] : i \in 1..Len(backlog)}
          BY <4>1, QueuedTasks
        <4>3. PICK i \in 1..Len(backlog) : u = backlog[i]
          BY <4>2
        <4>4. u \notin threads
          BY <4>3 DEF TasksOnce
        <4>5. u.run = ThisRun /\ node[u.agent].state = "waiting"
          BY DEF BacklogCurrent
        <4>6. u = [run |-> u.run, agent |-> u.agent] /\ u.agent \in Agents
          BY <4>2, <2>5 DEF Tasks
        <4>7. u.agent # t.agent
          BY <1>1, <1>2, <2>1, <4>4, <4>5, <4>6
        <4>8. QED
          BY <2>1, <2>4, <4>5, <4>6, <4>7
      <3>2. ThisRun' = ThisRun
        BY <1>1 DEF ThisRun
      <3>3. QED
        BY <1>1, <3>1, <3>2 DEF BacklogCurrent
    <2>7. QED
      BY <1>1, <1>3, <1>4, <1>5, <2>4, <2>6, RestKept
  <1>8. QED
    BY <1>6, <1>7

LEMMA AgentTimeoutInv ==
    ASSUME PInv, NEW a \in Agents, AgentTimeout(a)
    PROVE  PInv'
  <1> USE DEF PInv
  <1>1. /\ phase = "agents" /\ node' = [node EXCEPT ![a] = Node("failed")]
        /\ backlog' = Without(backlog, {Task(a)})
        /\ UNCHANGED <<resume, queue, attempts, outcome, pipeline, phase, cur, threads, row>>
    BY DEF AgentTimeout, Overdue, WithoutTask
  <1>2. PICK v : v = Node("failed")
    OBVIOUS
  <1>3. v \in [state : {"completed", "failed"}, run : Run \cup {NoValue}] /\ v.state = "failed"
    BY <1>2 DEF Node
  <1>4. NodesOK' /\ \A b \in Agents : b # a => node'[b] = node[b]
    BY <1>1, <1>2, <1>3, NodeChanges
  <1>5. PICK Q : Q = Tasks
    OBVIOUS
  <1>6. PICK s \in Seq(Q) : s = backlog
    BY <1>5 DEF TasksOK
  <1>7. PICK s2 : s2 = Without(s, {Task(a)})
    OBVIOUS
  <1>8. s2 \in Seq(Q \ {Task(a)}) /\ NoTwice(s2)
    BY <1>6, <1>7, WithoutCancelled DEF TasksOnce
  <1>9. \A i \in 1..Len(s2) : s2[i] \in ToSet(s)
    <2>1. PICK T : T = ToSet(s)
      OBVIOUS
    <2>2. s \in Seq(T)
      <3>1. s \in [1..Len(s) -> T] /\ Len(s) \in Nat
        BY <2>1, <1>6 DEF ToSet
      <3>2. QED
        BY <3>1
    <2>3. s2 \in Seq(T \ {Task(a)})
      BY <2>2, <1>7, WithoutCancelled
    <2>4. QED
      BY <2>1, <2>3
  <1>10. ToSet(s) = {s[i] : i \in 1..Len(s)} /\ ToSet(s2) = {s2[i] : i \in 1..Len(s2)}
         /\ ToSet(s) \subseteq Q /\ ToSet(s2) \subseteq Q \ {Task(a)}
    <2>1. ToSet(s) = {s[i] : i \in 1..Len(s)} /\ ToSet(s) \subseteq Q
      BY <1>6, QueuedTasks
    <2>2. PICK P : P = Q \ {Task(a)}
      OBVIOUS
    <2>3. s2 \in Seq(P)
      BY <1>8, <2>2
    <2>4. ToSet(s2) = {s2[i] : i \in 1..Len(s2)} /\ ToSet(s2) \subseteq P
      BY <2>3, QueuedTasks
    <2>5. QED
      BY <2>1, <2>2, <2>4
  <1>11. backlog' = s2
    BY <1>1, <1>6, <1>7
  <1>12. JobsOK'
    BY <1>1 DEF JobsOK
  <1>13. TasksOK'
    <2>1. s2 \in Seq(Q)
      BY <1>8
    <2>2. QED
      BY <1>1, <1>5, <1>11, <2>1, RunFixed DEF TasksOK
  <1>14. TasksOnce'
    <2>1. ASSUME NEW i \in 1..Len(s2) PROVE s2[i] \notin threads
      <3>1. PICK n \in 1..Len(s) : s2[i] = s[n]
        BY <1>9, <1>10
      <3>2. QED
        BY <3>1, <1>6 DEF TasksOnce
    <2>2. QED
      BY <1>1, <1>8, <1>11, <2>1 DEF TasksOnce
  <1>15. BacklogCurrent'
    <2>1. ASSUME NEW u \in ToSet(s2)
          PROVE  u.run = ThisRun /\ node'[u.agent].state = "waiting"
      <3>1. u \in ToSet(s) /\ u \in Q /\ u # Task(a)
        BY <1>9, <1>10
      <3>2. u.run = ThisRun /\ node[u.agent].state = "waiting"
        BY <3>1, <1>6 DEF BacklogCurrent
      <3>3. u = [run |-> u.run, agent |-> u.agent] /\ u.agent \in Agents
        BY <3>1, <1>5 DEF Tasks
      <3>4. u.agent # a
        BY <3>1, <3>2, <3>3 DEF Task
      <3>5. QED
        BY <1>4, <3>2, <3>3, <3>4
    <2>2. ThisRun' = ThisRun
      BY <1>1 DEF ThisRun
    <2>3. QED
      BY <1>1, <1>11, <2>1, <2>2 DEF BacklogCurrent
  <1>16. QED
    BY <1>1, <1>4, <1>12, <1>13, <1>14, <1>15, RestKept

\* A commit to the row of the current job.
LEMMA Committed ==
    ASSUME PInv, phase \in {"extract", "agents"}, phase' = "stored", RowsOK',
           phase # "agents" \/ \A a \in Agents : node[a].state # "waiting",
           UNCHANGED <<resume, queue, attempts, outcome, pipeline, cur, node, threads, backlog>>
    PROVE  PInv'
  <1> USE DEF PInv
  <1>1. JobsOK'
    BY JobsKept
  <1>2. NodesOK' /\ TasksOK'
    BY RunFixed DEF NodesOK, TasksOK
  <1>3. backlog' = <<>>
    BY NoBacklog
  <1>4. TasksOnce'
    BY <1>3, EmptyIsOnce
  <1>5. BacklogCurrent'
    BY <1>3, EmptyIsCurrent
  <1>6. QED
    BY <1>1, <1>2, <1>4, <1>5

LEMMA RowWritten ==
    ASSUME RowsOK, UNCHANGED resume, cur \in DOMAIN resume,
           NEW an, NEW sk, NEW sc, NEW og,
           row' = [row EXCEPT ![cur] = [analysis |-> an, skills |-> sk, score |-> sc, origin |-> og]],
           an # NoValue => FromOwn(cur, an, og)
    PROVE  RowsOK'
  <1>1. PICK J : J = DOMAIN resume /\ DOMAIN row = J /\ cur \in J
    BY DEF RowsOK
  <1>2. row'[cur] = [analysis |-> an, skills |-> sk, score |-> sc, origin |-> og]
    BY <1>1
  <1>3. \A j \in J : j # cur => row'[j] = row[j]
    BY <1>1
  <1>4. \A j \in J : row[j] = [analysis |-> row[j].analysis, skills |-> row[j].skills,
                               score |-> row[j].score, origin |-> row[j].origin]
    BY <1>1 DEF RowsOK
  <1>5. \A j \in J : row'[j] = [analysis |-> row'[j].analysis, skills |-> row'[j].skills,
                                score |-> row'[j].score, origin |-> row'[j].origin]
    BY <1>2, <1>3, <1>4
  <1>6. row' = [j \in J |-> row'[j]]
    BY <1>1
  <1>7. row' = [j \in J |-> [analysis |-> row'[j].analysis, skills |-> row'[j].skills,
                             score |-> row'[j].score, origin |-> row'[j].origin]]
    BY <1>5, <1>6
  <1>8. \A j \in J : row'[j].analysis # NoValue => FromOwn(j, row'[j].analysis, row'[j].origin)
    <2> TAKE j \in J
    <2>1. CASE j = cur
      BY <2>1, <1>2
    <2>2. CASE j # cur
      BY <2>2, <1>1, <1>3 DEF RowsOK
    <2>3. QED
      BY <2>1, <2>2
  <1>10. QED
    BY <1>1, <1>7, <1>8 DEF RowsOK

LEMMA StoreInv ==
    ASSUME PInv, Store
    PROVE  PInv'
  <1> USE DEF PInv
  <1>1. /\ phase = "agents" /\ phase' = "stored" /\ \A a \in Agents : node[a].state # "waiting"
        /\ UNCHANGED <<resume, queue, attempts, outcome, pipeline, cur, node, threads, backlog>>
    BY DEF Store
  <1>2. cur \in DOMAIN resume
    BY <1>1 DEF JobsOK
  <1>3. PICK sk, sc : row' = [row EXCEPT ![cur] =
                        [analysis |-> Completed, skills |-> sk, score |-> sc, origin |-> node]]
    BY DEF Store
  <1>4. FromOwn(cur, Completed, node)
    BY <1>1 DEF FromOwn, Completed, NodesOK
  <1>5. RowsOK'
    BY <1>1, <1>2, <1>3, <1>4, RowWritten
  <1>6. QED
    BY <1>1, <1>5, Committed

LEMMA RunLinearInv ==
    ASSUME PInv, RunLinear
    PROVE  PInv'
  <1> USE DEF PInv
  <1>1. /\ phase = "extract" /\ phase' = "stored"
        /\ UNCHANGED <<resume, queue, attempts, outcome, pipeline, cur, node, threads, backlog>>
    BY DEF RunLinear
  <1>2. cur \in DOMAIN resume
    BY <1>1 DEF JobsOK
  <1>3. row[cur] = [analysis |-> row[cur].analysis, skills |-> row[cur].skills,
                    score |-> row[cur].score, origin |-> row[cur].origin]
        /\ DOMAIN row = DOMAIN resume
    BY <1>2 DEF RowsOK
  <1>4. PICK sc : row' = [row EXCEPT ![cur].skills = Linear, ![cur].score = sc]
    BY DEF RunLinear
  <1>5. row' = [row EXCEPT ![cur] = [analysis |-> row[cur].analysis, skills |-> Linear,
                                     score |-> sc, origin |-> row[cur].origin]]
    <2>1. PICK r2 : r2 = [row EXCEPT ![cur].skills = Linear]
      OBVIOUS
    <2>2. row' = [r2 EXCEPT ![cur].score = sc]
      BY <1>4, <2>1
    <2>3. r2[cur] = [analysis |-> row[cur].analysis, skills |-> Linear,
                     score |-> row[cur].score, origin |-> row[cur].origin]
          /\ DOMAIN r2 = DOMAIN row /\ \A j \in DOMAIN row : j # cur => r2[j] = row[j]
      BY <1>2, <1>3, <2>1
    <2>4. row'[cur] = [analysis |-> row[cur].analysis, skills |-> Linear,
                       score |-> sc, origin |-> row[cur].origin]
          /\ DOMAIN row' = DOMAIN row /\ \A j \in DOMAIN row : j # cur => row'[j] = row[j]
      BY <1>2, <1>3, <2>2, <2>3
    <2>5. row' = [j \in DOMAIN row |-> row'[j]]
      BY <2>2, <2>1, <1>3
    <2>6. QED
      BY <2>4, <2>5
  <1>6. row[cur].analysis # NoValue => FromOwn(cur, row[cur].analysis, row[cur].origin)
    BY <1>2 DEF RowsOK
  <1>7. RowsOK'
    BY <1>1, <1>2, <1>5, <1>6, RowWritten
  <1>8. QED
    BY <1>1, <1>7, Committed

\* Every queued task is one of the run that ends.
LEMMA JobRaisesInv ==
    ASSUME PInv, JobRaises
    PROVE  PInv'
  <1> USE DEF PInv
  <1>1. /\ phase # "idle" /\ Raise /\ UNCHANGED <<pipeline, threads>>
        /\ backlog' = Without(backlog, {t \in ToSet(backlog) : t.run = ThisRun})
    BY DEF JobRaises
  <1>2. PICK s, T : s = backlog /\ T = ToSet(s)
    OBVIOUS
  <1>3. s \in Seq(T)
    <2>1. PICK Q : Q = Tasks
      OBVIOUS
    <2>2. s \in Seq(Q)
      BY <1>2, <2>1 DEF TasksOK
    <2>3. s \in [1..Len(s) -> T] /\ Len(s) \in Nat
      BY <1>2, <2>2 DEF ToSet
    <2>4. QED
      BY <2>3
  <1>4. {t \in ToSet(backlog) : t.run = ThisRun} = T
    BY <1>2 DEF BacklogCurrent
  <1>5. backlog' \in Seq(T \ T)
    BY <1>1, <1>2, <1>3, <1>4, WithoutCancelled
  <1>6. backlog' = <<>>
    <2>1. PICK e \in Seq({}) : e = backlog'
      <3>1. T \ T = {}
        OBVIOUS
      <3>2. QED
        BY <1>5, <3>1
    <2>2. Len(e) \in Nat /\ \A i \in 1..Len(e) : e[i] \in {}
      BY <2>1
    <2>3. Len(e) = 0
      <3>1. SUFFICES ASSUME Len(e) # 0 PROVE FALSE
        OBVIOUS
      <3>2. 1 \in 1..Len(e)
        BY <2>2, <3>1
      <3>3. QED
        BY <2>2, <3>2
    <2>4. QED
      BY <2>1, <2>3
  <1>7. pipeline' \in Pipelines
    BY <1>1 DEF JobsOK
  <1>8. QED
    BY <1>1, <1>6, <1>7, RaiseInv

LEMMA PoolStep == PInv /\ [PipelineNext]_pipelineVars => PInv'
  <1> SUFFICES ASSUME PInv, [PipelineNext]_pipelineVars PROVE PInv'
    OBVIOUS
  <1>1. ASSUME UNCHANGED pipelineVars PROVE PInv'
    <2>1. UNCHANGED <<resume, queue, attempts, outcome, pipeline, phase, cur, node, threads, backlog, row>>
      BY <1>1 DEF pipelineVars
    <2>2. JobsOK'
      BY <2>1 DEF PInv, JobsOK
    <2>3. NodesOK' /\ TasksOK'
      BY <2>1, RunFixed DEF PInv, NodesOK, TasksOK
    <2>4. TasksOnce' /\ BacklogCurrent' /\ RowsOK'
      BY <2>1, RestKept DEF PInv, TasksOnce, NoTwice, BacklogCurrent, ThisRun
    <2>5. QED
      BY <2>2, <2>3, <2>4 DEF PInv
  <1>2. ASSUME DownloadFails \/ Unreadable \/ TimeoutSwallowed \/ JobFinishes PROVE PInv'
    <2>1. phase # "idle" /\ Return /\ UNCHANGED backlog
          /\ (phase # "agents" \/ \A a \in Agents : node[a].state # "waiting")
      BY <1>2 DEF DownloadFails, Unreadable, TimeoutSwallowed, JobFinishes
    <2>2. QED
      BY <2>1, ReturnInv
  <1>3. ASSUME Crash PROVE PInv'
    BY <1>3, RaiseInv DEF Crash
  <1>4. ASSUME NEW t \in threads,
               ThreadEnds(t, [state |-> "completed", run |-> t.run]) \/ ThreadEnds(t, Node("failed"))
        PROVE  PInv'
    BY <1>4, ThreadEndsInv
  <1>5. ASSUME NEW a \in Agents, AgentTimeout(a) PROVE PInv'
    BY <1>5, AgentTimeoutInv
  <1>6. CASE PipelineNext
    BY <1>2, <1>3, <1>4, <1>5, <1>6, StartInv, DownloadInv, DispatchInv, RunLinearInv, StoreInv,
       JobRaisesInv, TakeTaskInv
    DEF PipelineNext, Progress
  <1>7. QED
    BY <1>1, <1>6

\* What the columns of a job say about the agents that were lost.
LEMMA StrayFree ==
    ASSUME PInv
    PROVE  NoStrayResult
  <1> SUFFICES ASSUME Analysed PROVE NoStrayResult
    BY DEF NoStrayResult
  <1> USE DEF PInv
  <1>1. phase = "stored" /\ cur \in DOMAIN resume /\ row[cur].analysis # NoValue
    BY DEF Analysed, JobsOK
  <1>2. PICK done, origin : done = row[cur].analysis /\ origin = row[cur].origin
    OBVIOUS
  <1>3. FromOwn(cur, done, origin)
    BY <1>1, <1>2 DEF RowsOK
  <1>4. PICK lost : lost = {a \in Agents : origin[a].state = "failed"}
    OBVIOUS
  <1>5. lost = Agents \ done /\ done \subseteq Agents
    BY <1>3, <1>4 DEF FromOwn
  <1>6. \A a \in Agents \ lost : origin[a].run[1] = cur
    BY <1>3, <1>4 DEF FromOwn
  <1>7. PICK sk, ex, so : AgentAnalysis(cur) = Merged(resume[cur], done, sk, ex, so)
    BY <1>2 DEF AgentAnalysis, Aggregate
  <1>8. AgentAnalysis(cur).status = "completed" <=> lost = {}
    <2>1. AgentAnalysis(cur).status = CASE done = Agents -> "completed"
                                        [] done = {}     -> "failed"
                                        [] OTHER         -> "partial"
      BY <1>7 DEF Merged
    <2>2. lost = {} <=> done = Agents
      BY <1>5
    <2>3. CASE done = Agents
      <3>1. (CASE done = Agents -> "completed" [] done = {} -> "failed" [] OTHER -> "partial") = "completed"
        <4>1. Agents # {}
          BY DEF Agents
        <4>2. QED
          BY <2>3, <4>1
      <3>2. QED
        BY <2>1, <2>2, <2>3, <3>1
    <2>4. CASE done # Agents /\ done = {}
      BY <2>1, <2>2, <2>4
    <2>5. CASE done # Agents /\ done # {}
      BY <2>1, <2>2, <2>5
    <2>6. QED
      BY <2>3, <2>4, <2>5
  <1>9. {a \in Agents : <<"agent_failed", a>> \in AgentAnalysis(cur).conflicts} = lost
    <2>1. AgentAnalysis(cur).conflicts = Conflicts(sk, ex, so.items, done)
      BY <1>7 DEF Merged
    <2>2. \A a \in Agents : <<"agent_failed", a>> \in Conflicts(sk, ex, so.items, done) <=> a \notin done
      <3> TAKE a \in Agents
      <3>a. PICK D2, D3, D4 :
              Conflicts(sk, ex, so.items, done)
                = {<<"agent_failed", b>> : b \in Agents \ done}
                    \cup {<<"skill_years_capped", x>> : x \in D2}
                    \cup {<<"claimed_total_overridden", x>> : x \in D3}
                    \cup {<<"leadership_unsupported", x>> : x \in D4}
        BY Zenon DEF Conflicts
      <3>b. PICK C1, C2, C3, C4 :
              /\ C1 = {<<"agent_failed", b>> : b \in Agents \ done}
              /\ C2 = {<<"skill_years_capped", x>> : x \in D2}
              /\ C3 = {<<"claimed_total_overridden", x>> : x \in D3}
              /\ C4 = {<<"leadership_unsupported", x>> : x \in D4}
        OBVIOUS
      <3>1. /\ Conflicts(sk, ex, so.items, done) = C1 \cup C2 \cup C3 \cup C4
            /\ C1 = {<<"agent_failed", b>> : b \in Agents \ done}
            /\ \A x \in C2 \cup C3 \cup C4 : x[1] # "agent_failed"
        <4>1. Conflicts(sk, ex, so.items, done) = C1 \cup C2 \cup C3 \cup C4
          BY <3>a, <3>b
        <4>2. \A x \in C2 : x[1] # "agent_failed"
          BY <3>b
        <4>3. \A x \in C3 : x[1] # "agent_failed"
          BY <3>b
        <4>4. \A x \in C4 : x[1] # "agent_failed"
          BY <3>b
        <4>5. QED
          BY <3>b, <4>1, <4>2, <4>3, <4>4
      <3>2. <<"agent_failed", a>> \in C1 <=> a \notin done
        BY <3>1
      <3>3. <<"agent_failed", a>> \notin C2 \cup C3 \cup C4
        BY <3>1
      <3>4. QED
        BY <3>1, <3>2, <3>3
    <2>3. QED
      BY <1>5, <2>1, <2>2
  <1>10. QED
    BY <1>2, <1>4, <1>6, <1>8, <1>9 DEF NoStrayResult

LEMMA PoolTyped ==
    ASSUME PInv
    PROVE  PoolTypeOK
  <1> USE DEF PInv
  <1>1. ToSet(queue) \subseteq DOMAIN resume
    BY QueuedTasks DEF JobsOK
  <1>2. \A j \in DOMAIN resume : attempts[j] \in 0..(resume[j].retries + 1)
    <2> TAKE j \in DOMAIN resume
    <2>1. attempts[j] \in Nat /\ attempts[j] <= resume[j].retries + 1 /\ resume[j].retries \in Nat
      BY Retries DEF JobsOK
    <2>2. QED
      BY <2>1
  <1>3. cur \in DOMAIN resume \cup {NoValue} /\ (cur = NoValue <=> phase = "idle")
    BY Retries DEF JobsOK
  <1>4. \A t \in threads \cup ToSet(backlog) : t.run \in Run /\ t.agent \in Agents
    <2>1. PICK Q : Q = Tasks
      OBVIOUS
    <2>2. threads \cup ToSet(backlog) \subseteq Q
      BY <2>1, QueuedTasks DEF TasksOK
    <2>3. QED
      BY <2>1, <2>2 DEF Tasks
  <1>5. DOMAIN attempts = DOMAIN resume
        /\ outcome \in [DOMAIN resume -> {"pending", "finished", "failed"}]
        /\ pipeline \in Pipelines /\ phase \in {"idle", "download", "extract", "agents", "stored"}
    BY DEF JobsOK
  <1>6. node \in [Agents -> [state : {"idle", "waiting", "completed", "failed"}, run : Run \cup {NoValue}]]
        /\ Cardinality(threads) <= MaxThreads
    BY DEF NodesOK, TasksOK
  <1>7. QED
    BY <1>1, <1>2, <1>3, <1>4, <1>5, <1>6 DEF PoolTypeOK

\* The inductive invariant of the resume worker: its jobs, its pool and its columns.
THEOREM PoolInvariant == PipelineSpec => []PInv
  BY PoolInit, PoolStep, PTL DEF PipelineSpec

\* However late the threads of earlier resumes end, whatever agents time out and
\* whenever the worker dies: the pool and its queue stay within their bounds, the queue
\* holds tasks of the current attempt only, and every section of a stored analysis was
\* computed for the resume it is stored with (app/agents/graph.py).
THEOREM PoolIsSound == PipelineSpec => []PoolSound
  <1>1. PInv => PoolSound
    BY PoolTyped, StrayFree DEF PoolSound, PInv
  <1>2. QED
    BY <1>1, PoolInvariant, PTL

=============================================================================
