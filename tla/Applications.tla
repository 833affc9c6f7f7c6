---------------------------- MODULE Applications ----------------------------
(***************************************************************************)
(* The hiring board: app/core/state_machine.py, the two handlers that move *)
(* an application (PUT /applications/{id}/status for HR, PUT               *)
(* /candidates/me/applications/{id}/respond for the candidate), the upload *)
(* that creates one, the e-mail hook of app/core/status_notifier.py and    *)
(* the funnel of app/routers/analytics.py.                                 *)
(*                                                                         *)
(* A handler SELECTs the row, decides, and writes the new status together  *)
(* with a status_history row in one transaction.  The SELECT takes no lock *)
(* and PostgreSQL runs at READ COMMITTED, so other handlers may commit     *)
(* between the two steps of one.                                           *)
(***************************************************************************)
EXTENDS Naturals, Sequences, FiniteSets

CONSTANTS
    App,   \* applications
    Req,   \* concurrent requests
    None   \* no row, or no value

ASSUME AppAssumption == IsFiniteSet(App)

\* The values of the Status enumeration, written without their spaces.
LinearPath == <<"Draft", "Applied", "Screening", "TechnicalInterview",
                "HRInterview", "Offer", "Accepted", "Hired">>

FunnelStages == <<"Applied", "Screening", "TechnicalInterview",
                  "HRInterview", "Offer", "Accepted", "Hired">>

Terminal == {"Hired", "Rejected"}

Status == {LinearPath[i] : i \in 1..Len(LinearPath)} \cup {"Rejected"}

ASSUME NoneIsNoStatus == None \notin Status

\* Statuses for which a mail template exists.
Notifiable == {"Offer", "Screening", "TechnicalInterview", "HRInterview",
               "Rejected"}

VARIABLES
    status,   \* applications.current_status; None before the upload
    history,  \* status_history: the (old, new) pairs recorded
    mail,     \* the status of the last mail queued
    req       \* local state of each request

vars == <<status, history, mail, req>>

Entry == [old : Status, new : Status]

PC == {"idle", "commit", "refresh", "notify"}

Request == [pc : PC, op : {"none", "move", "respond"}, app : App \cup {None},
            old : Status \cup {None}, new : Status \cup {None}]

Blank == [pc |-> "idle", op |-> "none", app |-> None, old |-> None,
          new |-> None]

Init ==
    /\ status = [a \in App |-> None]
    /\ history = [a \in App |-> {}]
    /\ mail = [a \in App |-> None]
    /\ req = [r \in Req |-> Blank]

-----------------------------------------------------------------------------
(* The state machine *)

\* Mutant: any later stage may follow.
AnyLaterStatus(s) ==
    IF s \in Terminal THEN {}
    ELSE {"Rejected"} \cup {LinearPath[i] : i \in
            {k \in 2..Len(LinearPath) : \E j \in 1..(k - 1) : LinearPath[j] = s}}

\* The next status on the path, and "Rejected", unless the file is closed.
get_allowed_next_statuses(s) ==
    IF s \in Terminal THEN {}
    ELSE {"Rejected"} \cup {LinearPath[i] : i \in
            {k \in 2..Len(LinearPath) : LinearPath[k - 1] = s}}

is_transition_allowed(s, t) == t \in get_allowed_next_statuses(s)

-----------------------------------------------------------------------------
(* Operations *)

Finish(r) == req' = [req EXCEPT ![r] = Blank]

\* Mutant: the column default is not a status of the board.
UploadAsNew(a) ==
    /\ status[a] = None
    /\ status' = [status EXCEPT ![a] = "New"]
    /\ UNCHANGED <<history, mail, req>>

\* POST /resumes/upload: the application starts as a draft, with no history row.
Upload(a) ==
    /\ status[a] = None
    /\ status' = [status EXCEPT ![a] = "Draft"]
    /\ UNCHANGED <<history, mail, req>>

\* The board moves a card from cur, as the client shows it, to new.  Any other
\* request is refused (404, or 400 "Business Logic Violation") and changes
\* nothing.
MoveRead(r, a, cur, new) ==
    /\ req[r].pc = "idle"
    /\ status[a] = cur
    /\ is_transition_allowed(cur, new)
    /\ req' = [req EXCEPT ![r] = [pc |-> "commit", op |-> "move", app |-> a,
                                  old |-> cur, new |-> new]]
    /\ UNCHANGED <<status, history, mail>>

\* The status a candidate's decision stands for.
DecisionStatus(decision) ==
    IF decision = "accept" THEN "Accepted" ELSE "Rejected"

RespondRead(r, a, decision) ==
    /\ req[r].pc = "idle"
    /\ status[a] = "Offer"
    /\ is_transition_allowed("Offer", DecisionStatus(decision))
    /\ req' = [req EXCEPT ![r] =
                [pc |-> "commit", op |-> "respond", app |-> a, old |-> "Offer",
                 new |-> DecisionStatus(decision)]]
    /\ UNCHANGED <<status, history, mail>>

\* Only the board's handler reads the row again and notifies.
AfterCommit(r) ==
    IF req[r].op = "move" THEN req' = [req EXCEPT ![r].pc = "refresh"]
                          ELSE Finish(r)

\* Mutant: the candidate's handler records no history.
CommitWithoutHistory(r) ==
    LET q == req[r] IN
    /\ q.pc = "commit"
    /\ status' = [status EXCEPT ![q.app] = q.new]
    /\ history' = [history EXCEPT ![q.app] =
            IF q.op = "respond" THEN @
            ELSE @ \cup {[old |-> q.old, new |-> q.new]}]
    /\ AfterCommit(r)
    /\ UNCHANGED mail

\* UPDATE ... WHERE id, INSERT INTO status_history, COMMIT.
Commit(r) ==
    LET q == req[r] IN
    /\ q.pc = "commit"
    /\ status' = [status EXCEPT ![q.app] = q.new]
    /\ history' = [history EXCEPT ![q.app] =
            @ \cup {[old |-> q.old, new |-> q.new]}]
    /\ AfterCommit(r)
    /\ UNCHANGED mail

\* Mutant: the mail task is started although the transaction failed.
NotifyOnFailure(r) ==
    /\ req[r].pc = "commit"
    /\ req' = [req EXCEPT ![r].pc = "notify"]
    /\ UNCHANGED <<status, history, mail>>

\* A database error or a crash rolls the transaction back.
CommitFails(r) ==
    /\ req[r].pc = "commit"
    /\ Finish(r)
    /\ UNCHANGED <<status, history, mail>>

\* db.refresh: the row as it is now, not as this request wrote it, is answered
\* to the client and handed to the mail task.
Refresh(r) ==
    /\ req[r].pc = "refresh"
    /\ req' = [req EXCEPT ![r].pc = "notify", ![r].new = status[req[r].app]]
    /\ UNCHANGED <<status, history, mail>>

\* trigger_status_change_email, fire and forget.
Notify(r) ==
    LET q == req[r] IN
    /\ q.pc = "notify"
    /\ mail' = [mail EXCEPT ![q.app] = IF q.new \in Notifiable THEN q.new ELSE @]
    /\ Finish(r)
    /\ UNCHANGED <<status, history>>

\* The mail is lost: the refresh fails, the process ends, the candidate, user
\* or job is not found, or Redis does not take the task.
NotifyFails(r) ==
    /\ req[r].pc \in {"refresh", "notify"}
    /\ Finish(r)
    /\ UNCHANGED <<status, history, mail>>

Step(r) ==
    \/ \E a \in App, cur, new \in Status : MoveRead(r, a, cur, new)
    \/ \E a \in App, d \in {"accept", "reject"} : RespondRead(r, a, d)
    \/ Commit(r)
    \/ CommitFails(r)
    \/ Refresh(r)
    \/ Notify(r)
    \/ NotifyFails(r)

Next == (\E a \in App : Upload(a)) \/ (\E r \in Req : Step(r))

Spec == Init /\ [][Next]_vars

-----------------------------------------------------------------------------
(* GET /analytics/funnel *)

Reached(a, s) == \E e \in history[a] : e.new = s

FunnelCount(i) == Cardinality({a \in App : Reached(a, FunnelStages[i])})

-----------------------------------------------------------------------------
(* Properties *)

\* Every stored and pending status is one of the board's.
TypeOK ==
    /\ status \in [App -> Status \cup {None}]
    /\ history \in [App -> SUBSET Entry]
    /\ mail \in [App -> Status \cup {None}]
    /\ req \in [Req -> Request]

\* The funnel never widens: every application counted at a stage is counted
\* at the stage before it, even when a stale move overwrites a newer one.
FunnelMonotone ==
    \A i \in 1..(Len(FunnelStages) - 1) : FunnelCount(i + 1) <= FunnelCount(i)

\* The audit trail accounts for the board: a card is where it was uploaded or
\* where some recorded move has put it.
StatusRecorded ==
    \A a \in App : status[a] \in {None, "Draft"} \/ Reached(a, status[a])

\* A candidate is only told of a stage the application has really reached.
MailsFollowHistory ==
    \A a \in App : mail[a] # None => Reached(a, mail[a])

=============================================================================
