-------------------------- MODULE InterviewsProofs --------------------------
(***************************************************************************)
(* Theorems about Interviews, for any number of interviews, managers,      *)
(* graders and reminders: a submitted evaluation is kept, and the          *)
(* reminders of an interview agree with it unless a failure struck there   *)
(* or two managers met there, whatever goes on at the other interviews.    *)
(***************************************************************************)
EXTENDS Interviews, TLAPS

(***************************************************************************)
(* The invariant that needs no assumption on the managers                  *)
(***************************************************************************)

Busy(r) == req[r].pc # "idle"

\* What a request in progress has in its local variables q.
FormOf(r, q) ==
    /\ q.pc = "idle" => q = Blank
    /\ q.pc # "idle" => q.of \in created /\ q.op # "none"
    /\ q.pc # "idle" /\ r \in Grader => q.op = "evaluate"
    /\ q.pc # "idle" /\ r \in Manager => q.op \in {"create", "update", "delete"}
    /\ q.op \in {"create", "update", "evaluate"} => q.new \in Row
    /\ q.op \in {"update", "delete", "evaluate"} => q.old \in Row
    /\ q.pc \in {"first", "second"} => q.op \in {"create", "update"}
    /\ q.pc = "cancel" => q.op \in {"update", "delete"}
    /\ q.op = "update" => q.new.status = q.old.status
    /\ q.op = "evaluate" =>
         /\ q.pc = "commit" /\ q.new.status = "Completed"
         /\ q.new.at = q.old.at /\ q.new.who = q.old.who /\ q.new.ids = q.old.ids
    /\ q.op = "create" => row[q.of] = None

\* An interview is created once; what exists has been created.
Created ==
    /\ \A i \in Interview : row[i] # None => i \in created
    /\ \A j \in Job : waiting[j] # None => waiting[j].of \in created
    /\ \A r, s \in Req : req[r].op = "create" /\ req[s].op = "create" /\ req[r].of = req[s].of
          => r = s

IInv == TypeOK /\ (\A r \in Req : FormOf(r, req[r])) /\ Created

(***************************************************************************)
(* The invariant of the reminders                                          *)
(***************************************************************************)

\* Two managers who have one interview open have met there.
Met == \A r, s \in Manager :
        Busy(r) /\ Busy(s) /\ req[r].of = req[s].of /\ req[r].of \notin spoilt => r = s

\* The reminders that wait for interview i.
Pending(i) == {j \in Job : waiting[j] # None /\ waiting[j].of = i}

\* p has been told of interview i at time at, or will be by a reminder of ids.
Told(i, p, at, ids) ==
    \/ [of |-> i, to |-> p, at |-> at] \in mail
    \/ \E j \in ids : waiting[j] # None /\ waiting[j].to = p /\ waiting[j].at = at

\* The reminders that wait for i are those of one version v of its row.
Listed(i, v) ==
    \A j \in Pending(i) :
        j \in v.ids /\ waiting[j].at = v.at /\ waiting[j].to \in {Candidate, v.who}

\* A reminder listed in a version of the row of i is for i.
Owned(i, v) == \A j \in v.ids : waiting[j] # None => waiting[j].of = i

\* No id is ever listed at two interviews: what a row lists, what a request is
\* about to cancel and what it has scheduled are reminders of its own interview.
OwnedBy(q) ==
    /\ \A j \in q.cancel : waiting[j] # None => waiting[j].of = q.of
    /\ q.new \in Row => Owned(q.of, q.new)

Ownership ==
    /\ \A i \in Interview : row[i] # None => Owned(i, row[i])
    /\ \A r \in Req : OwnedBy(req[r])

Agrees(i) ==
    row[i] # None => Listed(i, row[i]) /\ \A p \in {Candidate, row[i].who} : Told(i, p, row[i].at, row[i].ids)

\* Where a manager's request is in the exchange of the reminders.
StageOf(q) ==
    /\ q.op \in {"update", "delete"} =>
         /\ row[q.of] # None
         /\ row[q.of].at = q.old.at /\ row[q.of].who = q.old.who /\ row[q.of].ids = q.old.ids
    /\ q.pc = "cancel" => Pending(q.of) \subseteq q.cancel /\ q.cancel \subseteq q.old.ids
    /\ q.pc = "first" => Pending(q.of) = {}
    /\ q.pc = "commit" /\ q.op = "delete" => Pending(q.of) = {}
    /\ q.pc = "second" \/ (q.pc = "commit" /\ q.op # "delete") =>
         Listed(q.of, q.new) /\ Told(q.of, Candidate, q.new.at, q.new.ids)
    /\ q.pc = "commit" /\ q.op # "delete" => Told(q.of, q.new.who, q.new.at, q.new.ids)

Track ==
    /\ \A i \in Interview \ spoilt : Quiet(i) => Agrees(i) /\ (row[i] = None => Pending(i) = {})
    /\ \A r \in Manager : Busy(r) /\ req[r].of \notin spoilt => StageOf(req[r])

SoundInv == Met /\ Ownership /\ Track

(***************************************************************************)
(* One request at a time                                                   *)
(***************************************************************************)

Counters == faults \in Nat /\ opened \in Nat /\ spoilt \subseteq Interview

LEMMA BlankType == Blank \in Request
  BY DEF Blank, Request

LEMMA NotNone ==
    /\ \A i \in Interview : i # None
    /\ \A v \in Row : v # None
    /\ \A w \in Reminder : w # None
  BY NoneAssumption

\* A request that goes on with local variables q leaves the others alone.
LEMMA Others ==
    ASSUME TypeOK, NEW r \in Req, NEW q \in Request, req' = [req EXCEPT ![r] = q]
    PROVE  /\ req' \in [Req -> Request] /\ req'[r] = q
           /\ \A s \in Req : s # r => req'[s] = req[s]
  BY DEF TypeOK

\* Everything a step of one request has to respect while no row is written.
LEMMA ReqStep ==
    ASSUME IInv, NEW r \in Req, NEW q \in Request, req' = [req EXCEPT ![r] = q],
           UNCHANGED <<clock, row, mail>>,
           created \subseteq created', created' \subseteq Interview, Counters',
           waiting' \in [Job -> Reminder \cup {None}],
           \A j \in Job : waiting'[j] # None => waiting'[j].of \in created',
           FormOf(r, q)',
           q.op = "create" => \A s \in Req : s # r /\ req[s].op = "create" => req[s].of # q.of
    PROVE  IInv'
  <1>1. /\ req' \in [Req -> Request] /\ req'[r] = q
        /\ \A s \in Req : s # r => req'[s] = req[s]
    BY Others DEF IInv
  <1>2. TypeOK'
    BY <1>1 DEF IInv, TypeOK, Counters
  <1>3. ASSUME NEW s \in Req PROVE FormOf(s, req[s])'
    <2>1. CASE s = r
      BY <1>1, <2>1
    <2>2. CASE s # r
      <3>1. FormOf(s, req[s]) /\ req'[s] = req[s]
        BY <1>1, <2>2 DEF IInv
      <3>2. QED
        BY <3>1 DEF FormOf
    <2>3. QED
      BY <2>1, <2>2
  <1>4. Created'
    <2>1. \A i \in Interview : row'[i] # None => i \in created'
      BY DEF IInv, Created
    <2>2. ASSUME NEW s \in Req, NEW t \in Req, req'[s].op = "create", req'[t].op = "create",
                 req'[s].of = req'[t].of
          PROVE  s = t
      <3>1. CASE s = r
        BY <1>1, <2>2, <3>1
      <3>2. CASE t = r
        BY <1>1, <2>2, <3>2
      <3>3. CASE s # r /\ t # r
        BY <1>1, <2>2, <3>3 DEF IInv, Created
      <3>4. QED
        BY <3>1, <3>2, <3>3
    <2>3. QED
      BY <2>1, <2>2 DEF Created
  <1>5. QED
    BY <1>2, <1>3, <1>4 DEF IInv

(***************************************************************************)
(* What each handler makes of its local variables                          *)
(***************************************************************************)

LEMMA CreateReadTo ==
    ASSUME NEW r \in Req, NEW i \in Interview, NEW at \in Time, NEW who \in Interviewer,
           CreateRead(r, i, at, who)
    PROVE  \E q \in Request :
             /\ req' = [req EXCEPT ![r] = q]
             /\ q.pc = "first" /\ q.op = "create" /\ q.of = i /\ q.new \in Row
             /\ q.new.ids = {} /\ q.new.at = at /\ q.new.who = who /\ q.cancel = {}
  <1>1. PICK v \in Row : v = [at |-> at, who |-> who, ids |-> {}, status |-> "Pending"]
    BY DEF Row
  <1>2. PICK q \in Request : q = [Blank EXCEPT !.pc = "first", !.op = "create", !.of = i, !.new = v]
    BY BlankType DEF Request, Row
  <1>3. q.pc = "first" /\ q.op = "create" /\ q.of = i /\ q.new = v /\ q.cancel = {}
    BY <1>2, BlankType DEF Request, Blank
  <1>4. req' = [req EXCEPT ![r] = q]
    BY <1>1, <1>2 DEF CreateRead
  <1>5. v.ids = {} /\ v.at = at /\ v.who = who
    BY <1>1
  <1>6. QED
    BY <1>3, <1>4, <1>5

LEMMA UpdateReadTo ==
    ASSUME IInv, NEW r \in Req, NEW i \in Interview, NEW at \in Time, NEW who \in Interviewer,
           UpdateRead(r, i, at, who)
    PROVE  row[i] \in Row /\ \E q \in Request :
             /\ req' = [req EXCEPT ![r] = q]
             /\ q.pc = "cancel" /\ q.op = "update" /\ q.of = i /\ q.old = row[i] /\ q.new \in Row
             /\ q.new.ids = {} /\ q.new.status = row[i].status /\ q.cancel = row[i].ids
  <1>1. row[i] \in Row
    BY DEF IInv, TypeOK, UpdateRead
  <1>2. PICK v \in Row : v = [row[i] EXCEPT !.at = at, !.who = who, !.ids = {}]
    BY <1>1 DEF Row
  <1>3. v.ids = {} /\ v.status = row[i].status
    BY <1>1, <1>2 DEF Row
  <1>4. PICK q \in Request : q = [Blank EXCEPT !.pc = "cancel", !.op = "update", !.of = i,
                                   !.old = row[i], !.new = v, !.cancel = row[i].ids]
    BY <1>1, BlankType DEF Request, Row
  <1>5. q.pc = "cancel" /\ q.op = "update" /\ q.of = i /\ q.old = row[i] /\ q.new = v
        /\ q.cancel = row[i].ids
    BY <1>4, BlankType DEF Request
  <1>6. req' = [req EXCEPT ![r] = q]
    BY <1>2, <1>4 DEF UpdateRead
  <1>7. QED
    BY <1>1, <1>3, <1>5, <1>6

LEMMA DeleteReadTo ==
    ASSUME IInv, NEW r, NEW i \in Interview, DeleteRead(r, i)
    PROVE  row[i] \in Row /\ \E q \in Request :
             /\ req' = [req EXCEPT ![r] = q]
             /\ q.pc = "cancel" /\ q.op = "delete" /\ q.of = i /\ q.old = row[i]
             /\ q.cancel = row[i].ids /\ q.new = None
  <1>1. row[i] \in Row
    BY DEF IInv, TypeOK, DeleteRead
  <1>2. PICK q \in Request : q = [Blank EXCEPT !.pc = "cancel", !.op = "delete", !.of = i,
                                   !.old = row[i], !.cancel = row[i].ids]
    BY <1>1, BlankType DEF Request, Row
  <1>3. q.pc = "cancel" /\ q.op = "delete" /\ q.of = i /\ q.old = row[i]
        /\ q.cancel = row[i].ids /\ q.new = None
    BY <1>2, BlankType DEF Request, Blank
  <1>4. req' = [req EXCEPT ![r] = q]
    BY <1>2 DEF DeleteRead
  <1>5. QED
    BY <1>1, <1>3, <1>4

LEMMA EvaluateReadTo ==
    ASSUME IInv, NEW r, NEW i \in Interview, EvaluateRead(r, i)
    PROVE  row[i] \in Row /\ \E q \in Request :
             /\ req' = [req EXCEPT ![r] = q]
             /\ q.pc = "commit" /\ q.op = "evaluate" /\ q.of = i /\ q.old = row[i] /\ q.new \in Row
             /\ q.new.status = "Completed"
             /\ q.new.at = q.old.at /\ q.new.who = q.old.who /\ q.new.ids = q.old.ids
             /\ q.cancel = {}
  <1>1. row[i] \in Row
    BY DEF IInv, TypeOK, EvaluateRead
  <1>2. PICK v \in Row : v = [row[i] EXCEPT !.status = "Completed"]
    BY <1>1 DEF Row
  <1>3. v.status = "Completed" /\ v.at = row[i].at /\ v.who = row[i].who /\ v.ids = row[i].ids
    BY <1>1, <1>2 DEF Row
  <1>4. PICK q \in Request : q = [Blank EXCEPT !.pc = "commit", !.op = "evaluate", !.of = i,
                                   !.old = row[i], !.new = v]
    BY <1>1, BlankType DEF Request, Row
  <1>5. q.pc = "commit" /\ q.op = "evaluate" /\ q.of = i /\ q.old = row[i] /\ q.new = v
        /\ q.cancel = {}
    BY <1>4, BlankType DEF Request, Blank
  <1>6. req' = [req EXCEPT ![r] = q]
    BY <1>2, <1>4 DEF EvaluateRead
  <1>7. QED
    BY <1>1, <1>3, <1>5, <1>6

\* The request keeps what it is about.
Same(q, p) == q.op = p.op /\ q.of = p.of /\ q.old = p.old

LEMMA CancelTo ==
    ASSUME IInv, NEW r \in Req, NEW j \in Job, Cancel(r, j)
    PROVE  \E q \in Request :
             /\ req' = [req EXCEPT ![r] = q]
             /\ Same(q, req[r]) /\ q.pc = "cancel" /\ q.new = req[r].new
             /\ q.cancel = req[r].cancel \ {j}
  <1>1. req[r] \in Request
    BY DEF IInv, TypeOK
  <1>2. PICK q \in Request : q = [req[r] EXCEPT !.cancel = req[r].cancel \ {j}]
    BY <1>1 DEF Request
  <1>3. req' = [req EXCEPT ![r] = q]
    BY <1>2 DEF Cancel
  <1>4. q.cancel = req[r].cancel \ {j} /\ q.pc = req[r].pc /\ q.new = req[r].new /\ Same(q, req[r])
    BY <1>1, <1>2 DEF Request, Same
  <1>5. QED
    BY <1>3, <1>4 DEF Cancel

LEMMA CancelDoneTo ==
    ASSUME IInv, NEW r \in Req, CancelDone(r)
    PROVE  \E q \in Request :
             /\ req' = [req EXCEPT ![r] = q]
             /\ Same(q, req[r]) /\ q.new = req[r].new /\ q.cancel = {}
             /\ q.pc = (IF req[r].op = "delete" THEN "commit" ELSE "first")
  <1>1. req[r] \in Request
    BY DEF IInv, TypeOK
  <1>2. PICK pc \in {"commit", "first"} : pc = (IF req[r].op = "delete" THEN "commit" ELSE "first")
    OBVIOUS
  <1>3. PICK q \in Request : q = [req[r] EXCEPT !.cancel = {}, !.pc = pc]
    BY <1>1 DEF Request
  <1>4. req' = [req EXCEPT ![r] = q]
    BY <1>2, <1>3 DEF CancelDone
  <1>5. q.cancel = {} /\ q.pc = pc /\ q.new = req[r].new /\ Same(q, req[r])
    BY <1>1, <1>3 DEF Request, Same
  <1>6. QED
    BY <1>2, <1>4, <1>5

\* The reminder that a step of r hands to rq-scheduler.
Reminding(r) ==
    [of |-> req[r].of, to |-> Recipient(r), at |-> req[r].new.at, fire |-> EffectiveTime(req[r].new.at)]

LEMMA ScheduleTo ==
    ASSUME IInv, NEW r \in Req, NEW j \in Job, Schedule(r, j)
    PROVE  /\ Reminding(r) \in Reminder /\ waiting' = [waiting EXCEPT ![j] = Reminding(r)]
           /\ req[r].of \in created
           /\ \E q \in Request :
                /\ req' = [req EXCEPT ![r] = q]
                /\ Same(q, req[r]) /\ q.new \in Row /\ q.cancel = req[r].cancel
                /\ q.pc = (IF req[r].pc = "first" THEN "second" ELSE "commit")
                /\ q.new.ids = req[r].new.ids \cup {j} /\ q.new.at = req[r].new.at
                /\ q.new.who = req[r].new.who /\ q.new.status = req[r].new.status
  <1>1. /\ req[r] \in Request /\ FormOf(r, req[r]) /\ req[r].pc \in {"first", "second"}
        /\ clock \in Time
    BY DEF IInv, TypeOK, Schedule
  <1>2. req[r].new \in Row /\ req[r].of \in created /\ req[r].of \in Interview
    BY <1>1 DEF FormOf, IInv, TypeOK
  <1>3. Reminding(r) \in Reminder
    <2>1. req[r].new.at \in Time /\ req[r].new.who \in Interviewer
      BY <1>2 DEF Row
    <2>2. EffectiveTime(req[r].new.at) \in Nat
      BY <1>1, <2>1, InterviewAssumption DEF EffectiveTime, Time
    <2>3. Recipient(r) \in Interviewer \cup {Candidate}
      BY <2>1 DEF Recipient
    <2>4. QED
      BY <1>2, <2>1, <2>2, <2>3 DEF Reminding, Reminder
  <1>4. waiting' = [waiting EXCEPT ![j] = Reminding(r)]
    BY DEF Schedule, Reminding
  <1>5. PICK v \in Row : v = [req[r].new EXCEPT !.ids = req[r].new.ids \cup {j}]
    BY <1>2 DEF Row
  <1>6. PICK pc \in {"second", "commit"} : pc = (IF req[r].pc = "first" THEN "second" ELSE "commit")
    OBVIOUS
  <1>7. PICK q \in Request : q = [req[r] EXCEPT !.new = v, !.pc = pc]
    BY <1>1 DEF Request
  <1>8. req' = [req EXCEPT ![r] = q]
    BY <1>1, <1>5, <1>6, <1>7 DEF Schedule, Request
  <1>9. q.cancel = req[r].cancel /\ q.pc = pc /\ q.new = v /\ Same(q, req[r])
    BY <1>1, <1>7 DEF Request, Same
  <1>10. /\ v.ids = req[r].new.ids \cup {j} /\ v.at = req[r].new.at
         /\ v.who = req[r].new.who /\ v.status = req[r].new.status
    BY <1>2, <1>5 DEF Row
  <1>11. QED
    BY <1>2, <1>3, <1>4, <1>6, <1>8, <1>9, <1>10

LEMMA ScheduleFailsTo ==
    ASSUME IInv, NEW r \in Req, ScheduleFails(r)
    PROVE  \E q \in Request :
             /\ req' = [req EXCEPT ![r] = q]
             /\ Same(q, req[r]) /\ q.new \in Row /\ q.pc = "commit"
             /\ q.new.status = req[r].new.status /\ q.new.ids = {} /\ q.cancel = req[r].cancel
  <1>1. req[r] \in Request /\ FormOf(r, req[r]) /\ req[r].pc \in {"first", "second"}
    BY DEF IInv, TypeOK, ScheduleFails
  <1>2. req[r].new \in Row
    BY <1>1 DEF FormOf
  <1>3. PICK v \in Row : v = [req[r].new EXCEPT !.ids = {}]
    BY <1>2 DEF Row
  <1>4. PICK q \in Request : q = [req[r] EXCEPT !.pc = "commit", !.new = v]
    BY <1>1 DEF Request
  <1>5. req' = [req EXCEPT ![r] = q]
    BY <1>1, <1>3, <1>4 DEF ScheduleFails, Request
  <1>6. q.pc = "commit" /\ q.new = v /\ Same(q, req[r]) /\ q.cancel = req[r].cancel
    BY <1>1, <1>4 DEF Request, Same
  <1>7. v.status = req[r].new.status /\ v.ids = {}
    BY <1>2, <1>3 DEF Row
  <1>8. QED
    BY <1>5, <1>6, <1>7

\* What the transaction of r leaves in the table.
LEMMA CommitTo ==
    ASSUME IInv, NEW r \in Req, Commit(r)
    PROVE  /\ req' = [req EXCEPT ![r] = Blank]
           /\ req[r].pc = "commit" /\ req[r].of \in Interview /\ req[r].of \in created
           /\ row' \in [Interview -> Row \cup {None}]
           /\ \A i \in Interview : i # req[r].of => row'[i] = row[i]
           /\ req[r].op \in {"create", "update", "delete", "evaluate"}
           /\ req[r].op = "create" => row[req[r].of] = None /\ row'[req[r].of] = req[r].new
           /\ req[r].op = "delete" => row'[req[r].of] = None
           /\ req[r].op \in {"update", "evaluate"} =>
                row'[req[r].of] = IF row[req[r].of] = None THEN None
                                  ELSE Flush(row[req[r].of], req[r].old, req[r].new)
  <1>1. /\ req[r].pc = "commit" /\ FormOf(r, req[r]) /\ req[r] \in Request
        /\ row \in [Interview -> Row \cup {None}] /\ created \subseteq Interview
    BY DEF Commit, IInv, TypeOK
  <1>2. req[r].of \in created /\ req[r].of \in Interview
    BY <1>1 DEF FormOf
  <1>3. req[r].op \in {"create", "update", "delete", "evaluate"}
    BY <1>1 DEF FormOf, Request
  <1>4. req' = [req EXCEPT ![r] = Blank]
    BY DEF Commit, Finish
  <1>5. CASE req[r].op = "create"
    <2>1. row' = [row EXCEPT ![req[r].of] = req[r].new]
      BY <1>5 DEF Commit
    <2>2. req[r].new \in Row /\ row[req[r].of] = None
      BY <1>1, <1>5 DEF FormOf
    <2>3. QED
      BY <1>1, <1>2, <1>4, <1>5, <2>1, <2>2
  <1>6. CASE req[r].op = "delete"
    <2>1. row' = [row EXCEPT ![req[r].of] = None]
      BY <1>6 DEF Commit
    <2>2. QED
      BY <1>1, <1>2, <1>4, <1>6, <2>1
  <1>7. CASE req[r].op \in {"update", "evaluate"}
    <2>1. req[r].old \in Row /\ req[r].new \in Row
      BY <1>1, <1>7 DEF FormOf
    <2>2. \A v \in Row : Flush(v, req[r].old, req[r].new) \in Row
      BY <2>1 DEF Flush, Row
    <2>3. PICK v \in Row \cup {None} :
             v = IF row[req[r].of] = None THEN None
                 ELSE Flush(row[req[r].of], req[r].old, req[r].new)
      BY <1>1, <1>2, <2>2
    <2>4. row' = [row EXCEPT ![req[r].of] = v]
      BY <1>7, <2>3 DEF Commit
    <2>5. QED
      BY <1>1, <1>2, <1>4, <1>7, <2>3, <2>4
  <1>8. QED
    BY <1>3, <1>5, <1>6, <1>7

\* A write of an update or an evaluation to a row that is there.
LEMMA FlushFields ==
    ASSUME NEW cur \in Row, NEW old \in Row, NEW new \in Row
    PROVE  LET v == Flush(cur, old, new) IN
           /\ v \in Row
           /\ v.at = IF new.at = old.at THEN cur.at ELSE new.at
           /\ v.who = IF new.who = old.who THEN cur.who ELSE new.who
           /\ v.ids = IF new.ids = old.ids THEN cur.ids ELSE new.ids
           /\ v.status = IF new.status = old.status THEN cur.status ELSE new.status
  BY DEF Flush, Row

(***************************************************************************)
(* Every step keeps the first invariant                                    *)
(***************************************************************************)

LEMMA BlankForm == \A r : FormOf(r, Blank)' /\ Blank.op = "none"
  BY DEF FormOf, Blank

LEMMA ManagerOrGrader == Req = Manager \cup Grader /\ \A r \in Manager : r \notin Grader
  BY InterviewAssumption DEF Req

LEMMA CountersKept ==
    ASSUME IInv, UNCHANGED faults \/ Fault, UNCHANGED opened \/ Ask,
           UNCHANGED spoilt \/ (\E i \in Interview : spoilt' = spoilt \cup {i})
    PROVE  Counters'
  BY DEF IInv, TypeOK, Fault, Ask, Counters

LEMMA MeetMarks ==
    ASSUME NEW r, NEW i \in Interview, Meet(r, i)
    PROVE  UNCHANGED spoilt \/ (\E x \in Interview : spoilt' = spoilt \cup {x})
  BY DEF Meet

LEMMA SpoilMarks ==
    ASSUME IInv, NEW r \in Req, Busy(r), Spoil(r)
    PROVE  UNCHANGED spoilt \/ (\E x \in Interview : spoilt' = spoilt \cup {x})
  BY DEF Spoil, IInv, FormOf, TypeOK, Busy

LEMMA CreateReadInv ==
    ASSUME IInv, NEW r \in Req, NEW i \in Interview, NEW at \in Time, NEW who \in Interviewer,
           CreateRead(r, i, at, who)
    PROVE  IInv'
  <1>1. PICK q \in Request :
             /\ req' = [req EXCEPT ![r] = q]
             /\ q.pc = "first" /\ q.op = "create" /\ q.of = i /\ q.new \in Row
    BY CreateReadTo
  <1>2. /\ r \in Manager /\ i \notin created /\ created' = created \cup {i} /\ Ask
        /\ UNCHANGED <<clock, row, waiting, mail, faults, spoilt>>
    BY DEF CreateRead
  <1>3. row[i] = None
    BY <1>2 DEF IInv, Created
  <1>4. FormOf(r, q)'
    BY <1>1, <1>2, <1>3, ManagerOrGrader DEF FormOf
  <1>5. \A s \in Req : s # r /\ req[s].op = "create" => req[s].of # q.of
    <2> TAKE s \in Req
    <2>1. FormOf(s, req[s])
      BY DEF IInv
    <2>2. req[s].op = "create" => req[s].of \in created
      BY <2>1, BlankForm DEF FormOf
    <2>3. QED
      BY <2>2, <1>1, <1>2
  <1>6. /\ created \subseteq created' /\ created' \subseteq Interview
        /\ waiting' \in [Job -> Reminder \cup {None}]
        /\ \A j \in Job : waiting'[j] # None => waiting'[j].of \in created'
    BY <1>2 DEF IInv, TypeOK, Created
  <1>7. Counters'
    BY <1>2, CountersKept
  <1>8. QED
    BY <1>1, <1>2, <1>4, <1>5, <1>6, <1>7, ReqStep

\* A request that creates nothing and changes neither the table nor the set of
\* known interviews.
LEMMA QuietStep ==
    ASSUME IInv, NEW r \in Req, NEW q \in Request, req' = [req EXCEPT ![r] = q],
           UNCHANGED <<clock, row, created, mail>>, Counters',
           waiting' \in [Job -> Reminder \cup {None}],
           \A j \in Job : waiting'[j] # None => waiting'[j].of \in created,
           FormOf(r, q)',
           q.op = "create" => Same(q, req[r])
    PROVE  IInv'
  <1>1. q.op = "create" => \A s \in Req : s # r /\ req[s].op = "create" => req[s].of # q.of
    BY DEF IInv, Created, Same
  <1>2. created' = created /\ created \subseteq Interview
    BY DEF IInv, TypeOK
  <1>3. QED
    BY <1>1, <1>2, ReqStep

LEMMA SchedulerAsBefore ==
    ASSUME IInv, UNCHANGED waiting
    PROVE  /\ waiting' \in [Job -> Reminder \cup {None}]
           /\ \A j \in Job : waiting'[j] # None => waiting'[j].of \in created
  BY DEF IInv, TypeOK, Created

LEMMA UpdateReadInv ==
    ASSUME IInv, NEW r \in Req, NEW i \in Interview, NEW at \in Time, NEW who \in Interviewer,
           UpdateRead(r, i, at, who)
    PROVE  IInv'
  <1>1. PICK q \in Request :
             /\ req' = [req EXCEPT ![r] = q]
             /\ q.pc = "cancel" /\ q.op = "update" /\ q.of = i /\ q.old = row[i] /\ q.new \in Row
             /\ q.new.status = row[i].status /\ row[i] \in Row
    BY UpdateReadTo
  <1>2. /\ r \in Manager /\ row[i] # None /\ Meet(r, i) /\ Ask
        /\ UNCHANGED <<clock, row, created, waiting, mail, faults>>
    BY DEF UpdateRead
  <1>3. i \in created
    BY <1>2 DEF IInv, Created
  <1>4. FormOf(r, q)'
    BY <1>1, <1>2, <1>3, ManagerOrGrader DEF FormOf
  <1>5. Counters'
    BY <1>2, MeetMarks, CountersKept
  <1>6. QED
    BY <1>1, <1>2, <1>4, <1>5, SchedulerAsBefore, QuietStep

LEMMA DeleteReadInv ==
    ASSUME IInv, NEW r \in Req, NEW i \in Interview, DeleteRead(r, i)
    PROVE  IInv'
  <1>1. PICK q \in Request :
             /\ req' = [req EXCEPT ![r] = q]
             /\ q.pc = "cancel" /\ q.op = "delete" /\ q.of = i /\ q.old = row[i]
             /\ row[i] \in Row
    BY DeleteReadTo
  <1>2. /\ r \in Manager /\ row[i] # None /\ Meet(r, i) /\ Ask
        /\ UNCHANGED <<clock, row, created, waiting, mail, faults>>
    BY DEF DeleteRead
  <1>3. i \in created
    BY <1>2 DEF IInv, Created
  <1>4. FormOf(r, q)'
    BY <1>1, <1>2, <1>3, ManagerOrGrader DEF FormOf
  <1>5. Counters'
    BY <1>2, MeetMarks, CountersKept
  <1>6. QED
    BY <1>1, <1>2, <1>4, <1>5, SchedulerAsBefore, QuietStep

LEMMA EvaluateReadInv ==
    ASSUME IInv, NEW r \in Req, NEW i \in Interview, EvaluateRead(r, i)
    PROVE  IInv'
  <1>1. PICK q \in Request :
             /\ req' = [req EXCEPT ![r] = q]
             /\ q.pc = "commit" /\ q.op = "evaluate" /\ q.of = i /\ q.old = row[i] /\ q.new \in Row
             /\ q.new.status = "Completed"
             /\ q.new.at = q.old.at /\ q.new.who = q.old.who /\ q.new.ids = q.old.ids
             /\ row[i] \in Row
    BY EvaluateReadTo
  <1>2. r \in Grader /\ row[i] # None /\ UNCHANGED <<clock, row, created, opened, waiting, mail, faults, spoilt>>
    BY DEF EvaluateRead
  <1>3. i \in created
    BY <1>2 DEF IInv, Created
  <1>4. FormOf(r, q)'
    BY <1>1, <1>2, <1>3, ManagerOrGrader DEF FormOf
  <1>5. Counters'
    BY <1>2, CountersKept
  <1>6. QED
    BY <1>1, <1>2, <1>4, <1>5, SchedulerAsBefore, QuietStep

LEMMA CancelInv ==
    ASSUME IInv, NEW r \in Req, NEW j \in Job, Cancel(r, j)
    PROVE  IInv'
  <1>1. PICK q \in Request :
             /\ req' = [req EXCEPT ![r] = q]
             /\ Same(q, req[r]) /\ q.pc = "cancel" /\ q.new = req[r].new
    BY CancelTo
  <1>2. /\ req[r].pc = "cancel" /\ waiting' = [waiting EXCEPT ![j] = None]
        /\ UNCHANGED <<clock, row, created, opened, mail, faults, spoilt>>
    BY DEF Cancel
  <1>3. FormOf(r, q)'
    BY <1>1, <1>2 DEF FormOf, Same, IInv
  <1>4. /\ waiting' \in [Job -> Reminder \cup {None}]
        /\ \A k \in Job : waiting'[k] # None => waiting'[k].of \in created
    BY <1>2 DEF IInv, TypeOK, Created
  <1>5. Counters'
    BY <1>2, CountersKept
  <1>6. QED
    BY <1>1, <1>2, <1>3, <1>4, <1>5, QuietStep

LEMMA CancelDoneInv ==
    ASSUME IInv, NEW r \in Req, CancelDone(r)
    PROVE  IInv'
  <1>1. PICK q \in Request :
             /\ req' = [req EXCEPT ![r] = q]
             /\ Same(q, req[r]) /\ q.new = req[r].new
             /\ q.pc = (IF req[r].op = "delete" THEN "commit" ELSE "first")
    BY CancelDoneTo
  <1>2. /\ req[r].pc = "cancel" /\ Busy(r)
        /\ UNCHANGED <<faults, spoilt>> \/ (Fault /\ Spoil(r))
        /\ UNCHANGED <<clock, row, created, opened, waiting, mail>>
    BY DEF CancelDone, Busy
  <1>3. FormOf(r, q)'
    BY <1>1, <1>2 DEF FormOf, Same, IInv
  <1>4. Counters'
    BY <1>2, SpoilMarks, CountersKept
  <1>5. QED
    BY <1>1, <1>2, <1>3, <1>4, SchedulerAsBefore, QuietStep

LEMMA ScheduleInv ==
    ASSUME IInv, NEW r \in Req, NEW j \in Job, Schedule(r, j)
    PROVE  IInv'
  <1>1. PICK q \in Request :
             /\ req' = [req EXCEPT ![r] = q]
             /\ Same(q, req[r]) /\ q.new \in Row
             /\ q.pc = (IF req[r].pc = "first" THEN "second" ELSE "commit")
             /\ q.new.status = req[r].new.status
    BY ScheduleTo
  <1>2. /\ Reminding(r) \in Reminder /\ waiting' = [waiting EXCEPT ![j] = Reminding(r)]
        /\ req[r].of \in created
    BY ScheduleTo
  <1>3. req[r].pc \in {"first", "second"} /\ UNCHANGED <<clock, row, created, opened, mail, faults, spoilt>>
    BY DEF Schedule
  <1>4. FormOf(r, q)'
    BY <1>1, <1>3 DEF FormOf, Same, IInv
  <1>5. Reminding(r).of = req[r].of
    BY DEF Reminding
  <1>6. /\ waiting' \in [Job -> Reminder \cup {None}]
        /\ \A k \in Job : waiting'[k] # None => waiting'[k].of \in created
    BY <1>2, <1>5 DEF IInv, TypeOK, Created
  <1>7. Counters'
    BY <1>3, CountersKept
  <1>8. QED
    BY <1>1, <1>3, <1>4, <1>6, <1>7, QuietStep

LEMMA ScheduleFailsInv ==
    ASSUME IInv, NEW r \in Req, ScheduleFails(r)
    PROVE  IInv'
  <1>1. PICK q \in Request :
             /\ req' = [req EXCEPT ![r] = q]
             /\ Same(q, req[r]) /\ q.new \in Row /\ q.pc = "commit"
             /\ q.new.status = req[r].new.status
    BY ScheduleFailsTo
  <1>2. /\ req[r].pc \in {"first", "second"} /\ Fault /\ Busy(r) /\ Spoil(r)
        /\ UNCHANGED <<clock, row, created, opened, waiting, mail>>
    BY DEF ScheduleFails, Busy
  <1>3. FormOf(r, q)'
    BY <1>1, <1>2 DEF FormOf, Same, IInv
  <1>4. Counters'
    BY <1>2, SpoilMarks, CountersKept
  <1>5. QED
    BY <1>1, <1>2, <1>3, <1>4, SchedulerAsBefore, QuietStep

LEMMA AbortInv ==
    ASSUME IInv, NEW r \in Req, Abort(r)
    PROVE  IInv'
  <1>1. /\ req' = [req EXCEPT ![r] = Blank] /\ Fault /\ Busy(r) /\ Spoil(r)
        /\ UNCHANGED <<clock, row, created, opened, waiting, mail>>
    BY DEF Abort, Finish, Busy
  <1>2. Counters'
    BY <1>1, SpoilMarks, CountersKept
  <1>3. QED
    BY <1>1, <1>2, BlankType, BlankForm, SchedulerAsBefore, QuietStep

LEMMA CommitInv ==
    ASSUME IInv, NEW r \in Req, Commit(r)
    PROVE  IInv'
  <1>1. /\ req' = [req EXCEPT ![r] = Blank]
        /\ req[r].pc = "commit" /\ req[r].of \in Interview /\ req[r].of \in created
        /\ row' \in [Interview -> Row \cup {None}]
        /\ \A i \in Interview : i # req[r].of => row'[i] = row[i]
        /\ req[r].op \in {"create", "update", "delete", "evaluate"}
        /\ req[r].op \in {"update", "delete", "evaluate"} /\ row[req[r].of] = None
             => row'[req[r].of] = None
    BY CommitTo
  <1>2. UNCHANGED <<clock, created, opened, waiting, mail, faults, spoilt>>
    BY DEF Commit
  <1>3. /\ req' \in [Req -> Request] /\ req'[r] = Blank
        /\ \A s \in Req : s # r => req'[s] = req[s]
    BY <1>1, BlankType, Others DEF IInv
  <1>4. TypeOK'
    BY <1>1, <1>2, <1>3 DEF IInv, TypeOK
  <1>5. ASSUME NEW s \in Req PROVE FormOf(s, req[s])'
    <2>1. CASE s = r
      BY <1>3, <2>1, BlankForm
    <2>2. CASE s # r
      <3>1. FormOf(s, req[s]) /\ req'[s] = req[s]
        BY <1>3, <2>2 DEF IInv
      <3>2. req[s].op = "create" => row[req[s].of] = None /\ req[s].of \in Interview
        BY <3>1, BlankForm DEF FormOf, IInv, TypeOK
      <3>3. req[s].op = "create" /\ req[s].of = req[r].of => req[r].op # "create"
        BY <2>2 DEF IInv, Created
      <3>4. req[s].op = "create" => row'[req[s].of] = None
        BY <3>2, <3>3, <1>1
      <3>5. QED
        BY <3>1, <3>4, <1>2 DEF FormOf
    <2>3. QED
      BY <2>1, <2>2
  <1>6. Created'
    <2>1. \A i \in Interview : row'[i] # None => i \in created'
      BY <1>1, <1>2 DEF IInv, Created
    <2>2. \A j \in Job : waiting'[j] # None => waiting'[j].of \in created'
      BY <1>2 DEF IInv, Created
    <2>3. ASSUME NEW s \in Req, NEW t \in Req, req'[s].op = "create", req'[t].op = "create",
                 req'[s].of = req'[t].of
          PROVE  s = t
      <3>1. s # r /\ t # r
        BY <2>3, <1>3, BlankForm
      <3>2. QED
        BY <3>1, <2>3, <1>3 DEF IInv, Created
    <2>4. QED
      BY <2>1, <2>2, <2>3 DEF Created
  <1>7. QED
    BY <1>4, <1>5, <1>6 DEF IInv

LEMMA TickInv == ASSUME IInv, Tick PROVE IInv'
  <1>1. clock' \in Time /\ UNCHANGED <<row, created, opened, waiting, mail, faults, spoilt, req>>
    BY InterviewAssumption DEF Tick, IInv, TypeOK, Time
  <1>2. TypeOK' /\ Created'
    BY <1>1 DEF IInv, TypeOK, Created
  <1>3. \A r \in Req : FormOf(r, req[r])'
    BY <1>1 DEF IInv, FormOf
  <1>4. QED
    BY <1>2, <1>3 DEF IInv

LEMMA FireInv == ASSUME IInv, NEW j \in Job, Fire(j) PROVE IInv'
  <1>1. /\ waiting' = [waiting EXCEPT ![j] = None] /\ waiting[j] \in Reminder
        /\ mail' = mail \cup {[of |-> waiting[j].of, to |-> waiting[j].to, at |-> waiting[j].at]}
        /\ UNCHANGED <<clock, row, created, opened, faults, spoilt, req>>
    BY DEF Fire, IInv, TypeOK
  <1>2. [of |-> waiting[j].of, to |-> waiting[j].to, at |-> waiting[j].at] \in Mail
    BY <1>1 DEF Mail, Reminder
  <1>3. TypeOK' /\ Created'
    BY <1>1, <1>2 DEF IInv, TypeOK, Created
  <1>4. \A r \in Req : FormOf(r, req[r])'
    BY <1>1 DEF IInv, FormOf
  <1>5. QED
    BY <1>3, <1>4 DEF IInv

LEMMA InitInv == Init => IInv
  <1> SUFFICES ASSUME Init PROVE IInv
    OBVIOUS
  <1>1. TypeOK
    BY BlankType, InterviewAssumption DEF Init, TypeOK, Time
  <1>2. \A r \in Req : FormOf(r, req[r])
    BY DEF Init, FormOf, Blank
  <1>3. Created
    BY DEF Init, Created, Blank
  <1>4. QED
    BY <1>1, <1>2, <1>3 DEF IInv

LEMMA StepInv == IInv /\ [Next]_vars => IInv'
  <1> SUFFICES ASSUME IInv, [Next]_vars PROVE IInv'
    OBVIOUS
  <1>1. CASE Tick
    BY <1>1, TickInv
  <1>2. ASSUME NEW j \in Job, Fire(j) PROVE IInv'
    BY <1>2, FireInv
  <1>3. ASSUME NEW r \in Req, Step(r) PROVE IInv'
    <2>1. ASSUME NEW i \in Interview, NEW at \in Time, NEW who \in Interviewer,
                 CreateRead(r, i, at, who) \/ UpdateRead(r, i, at, who)
          PROVE  IInv'
      BY <2>1, CreateReadInv, UpdateReadInv
    <2>2. ASSUME NEW i \in Interview, DeleteRead(r, i) \/ EvaluateRead(r, i) PROVE IInv'
      BY <2>2, DeleteReadInv, EvaluateReadInv
    <2>3. ASSUME NEW j \in Job, Cancel(r, j) \/ Schedule(r, j) PROVE IInv'
      BY <2>3, CancelInv, ScheduleInv
    <2>4. CASE CancelDone(r)
      BY <2>4, CancelDoneInv
    <2>5. CASE ScheduleFails(r)
      BY <2>5, ScheduleFailsInv
    <2>6. CASE Commit(r)
      BY <2>6, CommitInv
    <2>7. CASE Abort(r)
      BY <2>7, AbortInv
    <2>8. QED
      BY <1>3, <2>1, <2>2, <2>3, <2>4, <2>5, <2>6, <2>7 DEF Step
  <1>4. CASE UNCHANGED vars
    <2>1. UNCHANGED <<clock, row, created, opened, waiting, mail, faults, spoilt, req>>
      BY <1>4 DEF vars
    <2>2. TypeOK' /\ Created'
      BY <2>1 DEF IInv, TypeOK, Created
    <2>3. \A r \in Req : FormOf(r, req[r])'
      BY <2>1 DEF IInv, FormOf
    <2>4. QED
      BY <2>2, <2>3 DEF IInv
  <1>5. QED
    BY <1>1, <1>2, <1>3, <1>4 DEF Next

\* The invariant holds in every reachable state, whatever managers, graders and
\* failures do.
THEOREM Invariant == Spec => []IInv
  BY InitInv, StepInv, PTL DEF Spec

\* A step that writes no row, or the transaction of a request.
LEMMA RowWriters ==
    ASSUME [Next]_vars
    PROVE  row' = row \/ \E r \in Req : Commit(r)
  <1>1. CASE Tick
    BY <1>1 DEF Tick
  <1>2. ASSUME NEW j \in Job, Fire(j) PROVE row' = row
    BY <1>2 DEF Fire
  <1>3. ASSUME NEW r \in Req, Step(r) PROVE row' = row \/ Commit(r)
    <2>1. ASSUME NEW i \in Interview, NEW at \in Time, NEW who \in Interviewer,
                 CreateRead(r, i, at, who) \/ UpdateRead(r, i, at, who)
          PROVE  row' = row
      BY <2>1 DEF CreateRead, UpdateRead
    <2>2. ASSUME NEW i \in Interview, DeleteRead(r, i) \/ EvaluateRead(r, i) PROVE row' = row
      BY <2>2 DEF DeleteRead, EvaluateRead
    <2>3. ASSUME NEW j \in Job, Cancel(r, j) \/ Schedule(r, j) PROVE row' = row
      BY <2>3 DEF Cancel, Schedule
    <2>4. CASE CancelDone(r) \/ ScheduleFails(r) \/ Abort(r)
      BY <2>4 DEF CancelDone, ScheduleFails, Abort
    <2>5. QED
      BY <1>3, <2>1, <2>2, <2>3, <2>4 DEF Step
  <1>4. CASE UNCHANGED vars
    BY <1>4 DEF vars
  <1>5. QED
    BY <1>1, <1>2, <1>3, <1>4 DEF Next

\* A submitted evaluation is never undone, neither by a manager who read the
\* row before it was submitted nor by another evaluation (the PUT handlers of
\* interviews.py, and the columns SQLAlchemy writes).
THEOREM EvaluationStays == Spec => EvaluationKept
  <1> DEFINE Kept == \A i \in Interview :
                       row[i] # None /\ row'[i] # None /\ row[i].status = "Completed"
                         => row'[i].status = "Completed"
  <1>1. ASSUME IInv, [Next]_vars PROVE Kept
    <2>1. CASE row' = row
      BY <2>1
    <2>2. ASSUME NEW r \in Req, Commit(r) PROVE Kept
      <3> SUFFICES ASSUME NEW i \in Interview, row[i] # None, row'[i] # None,
                          row[i].status = "Completed"
                   PROVE  row'[i].status = "Completed"
        OBVIOUS
      <3>1. CASE i # req[r].of
        BY <3>1, <2>2, <1>1, CommitTo
      <3>2. CASE i = req[r].of
        <4>1. req[r].op \in {"update", "evaluate"}
              /\ row'[i] = Flush(row[i], req[r].old, req[r].new)
          BY <3>2, <2>2, <1>1, CommitTo
        <4>2. /\ req[r].old \in Row /\ req[r].new \in Row /\ row[i] \in Row
              /\ req[r].op = "update" => req[r].new.status = req[r].old.status
              /\ req[r].op = "evaluate" => req[r].new.status = "Completed"
          BY <4>1, <1>1 DEF IInv, TypeOK, FormOf
        <4>3. row'[i].status = IF req[r].new.status = req[r].old.status THEN row[i].status
                               ELSE req[r].new.status
          BY <4>1, <4>2, FlushFields
        <4>4. QED
          BY <4>1, <4>2, <4>3
      <3>3. QED
        BY <3>1, <3>2
    <2>3. QED
      BY <2>1, <2>2, <1>1, RowWriters
  <1>2. QED
    BY <1>1, Invariant, PTL DEF Spec, EvaluationKept

(***************************************************************************)
(* Reminders                                                               *)
(***************************************************************************)

\* The step changes only reminders of interview i, and starts none under an id
\* that is in use.
Local(i) ==
    \A k \in Job :
        \/ waiting'[k] = waiting[k]
        \/ /\ waiting[k] = None \/ waiting[k].of = i
           /\ waiting'[k] = None \/ (waiting'[k].of = i /\ Fresh(k))

\* It does not touch what is said about another interview x.
LEMMA Elsewhere ==
    ASSUME NEW i, Local(i), mail \subseteq mail', NEW x, x # i,
           NEW v \in Row, Owned(x, v), \A k \in v.ids : ~Fresh(k)
    PROVE  /\ Owned(x, v)'
           /\ Listed(x, v) => Listed(x, v)'
           /\ \A p, at : Told(x, p, at, v.ids) => Told(x, p, at, v.ids)'
  <1>1. v.ids \subseteq Job
    BY DEF Row
  <1>2. Owned(x, v)'
    BY <1>1 DEF Owned, Local
  <1>3. Listed(x, v) => Listed(x, v)'
    BY DEF Listed, Pending, Local
  <1>4. ASSUME NEW p, NEW at, Told(x, p, at, v.ids) PROVE Told(x, p, at, v.ids)'
    <2>1. \A j \in v.ids : waiting[j] # None => waiting'[j] = waiting[j]
      BY <1>1 DEF Owned, Local
    <2>2. QED
      BY <2>1, <1>4 DEF Told
  <1>5. QED
    BY <1>2, <1>3, <1>4

LEMMA PendingElsewhere ==
    ASSUME NEW i, Local(i), NEW x, x # i
    PROVE  Pending(x)' = Pending(x)
  BY DEF Pending, Local

LEMMA StageElsewhere ==
    ASSUME IInv, Ownership, NEW i, Local(i), mail \subseteq mail', NEW s \in Manager, Busy(s),
           req[s].of # i, StageOf(req[s]), req'[s] = req[s], row'[req[s].of] = row[req[s].of]
    PROVE  StageOf(req[s])'
  <1>1. PICK q \in Request : q = req[s] /\ FormOf(s, q)
    BY ManagerOrGrader DEF IInv, TypeOK
  <1>2. q.pc # "idle" /\ q.op \in {"create", "update", "delete"}
    BY <1>1, ManagerOrGrader DEF Busy, FormOf
  <1>3. Pending(q.of)' = Pending(q.of)
    BY <1>1, PendingElsewhere
  <1>4. CASE q.op = "delete"
    BY <1>1, <1>2, <1>3, <1>4 DEF StageOf, FormOf
  <1>5. CASE q.op \in {"create", "update"}
    <2>1. q.new \in Row /\ Owned(q.of, q.new)
      BY <1>1, <1>5, ManagerOrGrader DEF FormOf, Ownership, OwnedBy
    <2>2. \A k \in q.new.ids : ~Fresh(k)
      BY <1>1, <2>1, NotNone, ManagerOrGrader DEF Fresh
    <2>3. /\ Listed(q.of, q.new) => Listed(q.of, q.new)'
          /\ \A p, at : Told(q.of, p, at, q.new.ids) => Told(q.of, p, at, q.new.ids)'
      BY <1>1, <2>1, <2>2, Elsewhere
    <2>4. StageOf(q)'
      BY <1>1, <1>3, <1>5, <2>3 DEF StageOf
    <2>5. QED
      BY <1>1, <2>4
  <1>6. QED
    BY <1>2, <1>4, <1>5

\* Ids in use stay with their interview.
LEMMA OwnedStays ==
    ASSUME NEW i, Local(i), NEW x, NEW v \in Row, Owned(x, v), \A k \in v.ids : ~Fresh(k)
    PROVE  Owned(x, v)'
  BY DEF Local, Owned, Row

LEMMA OwnershipStep ==
    ASSUME IInv, Ownership, NEW r \in Req, NEW q \in Request, req' = [req EXCEPT ![r] = q],
           NEW i \in Interview, Local(i), \A x \in Interview : x # i => row'[x] = row[x],
           row'[i] # None => Owned(i, row[i])', OwnedBy(q)'
    PROVE  Ownership'
  <1>1. req'[r] = q /\ \A s \in Req : s # r => req'[s] = req[s]
    BY Others DEF IInv
  <1>2. ASSUME NEW x \in Interview, row'[x] # None PROVE Owned(x, row[x])'
    <2>1. CASE x = i
      BY <1>2, <2>1
    <2>2. CASE x # i
      <3>1. PICK v \in Row : v = row[x] /\ v = row'[x] /\ Owned(x, v)
        BY <1>2, <2>2 DEF IInv, TypeOK, Ownership
      <3>2. \A k \in v.ids : ~Fresh(k)
        BY <1>2, <2>2, <3>1 DEF Fresh
      <3>3. Owned(x, v)'
        BY <3>1, <3>2, OwnedStays
      <3>4. QED
        BY <3>1, <3>3 DEF Owned
    <2>3. QED
      BY <2>1, <2>2
  <1>3. ASSUME NEW s \in Req PROVE OwnedBy(req[s])'
    <2>1. CASE s = r
      <3>1. PICK p : p = req'[s] /\ p = q
        BY <1>1, <2>1
      <3>2. OwnedBy(p)'
        BY <3>1
      <3>3. QED
        BY <3>1, <3>2 DEF OwnedBy, Owned
    <2>2. CASE s # r
      <3>1. PICK p \in Request : p = req[s] /\ p = req'[s] /\ OwnedBy(p)
        BY <1>1, <2>2 DEF IInv, TypeOK, Ownership
      <3>2. p.cancel \subseteq Job /\ \A k \in p.cancel : ~Fresh(k)
        BY <3>1 DEF Fresh, Request
      <3>3. \A k \in p.cancel : waiting'[k] # None => waiting'[k].of = p.of
        BY <3>1, <3>2 DEF OwnedBy, Local
      <3>4. ASSUME p.new \in Row PROVE Owned(p.of, p.new)'
        <4>1. p.new # None
          BY <3>4, NotNone
        <4>2. \A k \in p.new.ids : ~Fresh(k)
          BY <3>1, <4>1 DEF Fresh
        <4>3. Owned(p.of, p.new)
          BY <3>1, <3>4 DEF OwnedBy
        <4>4. QED
          BY <3>4, <4>2, <4>3, OwnedStays
      <3>5. OwnedBy(p)'
        BY <3>3, <3>4 DEF OwnedBy
      <3>6. QED
        BY <3>1, <3>5 DEF OwnedBy, Owned
    <2>3. QED
      BY <2>1, <2>2
  <1>4. QED
    BY <1>2, <1>3 DEF Ownership

\* A request that is open has an interview; one that is not has none.
LEMMA OpenOf ==
    ASSUME IInv, NEW s \in Req
    PROVE  /\ ~Busy(s) => req[s].of = None
           /\ Busy(s) => req[s].of \in Interview /\ req[s].of \in created
  BY DEF IInv, FormOf, TypeOK, Busy, Blank

\* A step of a manager who works on interview i, before it or after it.
LEMMA SoundStep ==
    ASSUME IInv, SoundInv, NEW r \in Manager, NEW i \in Interview, NEW q \in Request,
           req' = [req EXCEPT ![r] = q], Busy(r) \/ q.pc # "idle",
           Busy(r) => req[r].of = i, q.pc # "idle" => q.of = i,
           ~Busy(r) => i \in spoilt' \/ \A s \in Manager : s # r => req[s].of # i,
           Local(i), mail' = mail, \A x \in Interview : x # i => row'[x] = row[x],
           spoilt \subseteq spoilt',
           row'[i] # None => Owned(i, row[i])', OwnedBy(q)',
           i \notin spoilt' =>
             /\ q.pc # "idle" => StageOf(q)'
             /\ q.pc = "idle" => Agrees(i)' /\ (row'[i] = None => Pending(i)' = {})
    PROVE  SoundInv'
  <1>0. mail \subseteq mail' /\ Met /\ Ownership /\ Track /\ r \in Req
    BY ManagerOrGrader DEF SoundInv
  <1>1. req'[r] = q /\ \A s \in Req : s # r => req'[s] = req[s]
    BY <1>0, Others DEF IInv
  <1>2. Ownership'
    BY <1>0, OwnershipStep
  <1>3. ASSUME NEW s \in Manager, s # r, Busy(s)', i \notin spoilt' PROVE req'[s].of # i
    <2>1. req'[s] = req[s] /\ Busy(s) /\ i \notin spoilt
      BY <1>1, <1>3, ManagerOrGrader DEF Busy
    <2>2. CASE Busy(r)
      BY <1>0, <1>3, <2>1, <2>2 DEF Met
    <2>3. CASE ~Busy(r)
      BY <1>3, <2>1, <2>3
    <2>4. QED
      BY <2>2, <2>3
  <1>4. Met'
    <2> SUFFICES ASSUME NEW s \in Manager, NEW t \in Manager, Busy(s)', Busy(t)',
                        req'[s].of = req'[t].of, req'[s].of \notin spoilt', s # t
                 PROVE  FALSE
      BY DEF Met
    <2>1. Busy(r)' => req'[r].of = i
      BY <1>1 DEF Busy
    <2>2. CASE s = r \/ t = r
      BY <1>3, <2>1, <2>2
    <2>3. CASE s # r /\ t # r
      <3>1. req'[s] = req[s] /\ req'[t] = req[t]
        BY <1>1, <2>3, ManagerOrGrader
      <3>2. Busy(s) /\ Busy(t) /\ req[s].of = req[t].of /\ req[s].of \notin spoilt
        BY <3>1 DEF Busy
      <3>3. QED
        BY <1>0, <3>2 DEF Met
    <2>4. QED
      BY <2>2, <2>3
  <1>5. ASSUME NEW x \in Interview, x \notin spoilt', Quiet(x)'
        PROVE  Agrees(x)' /\ (row'[x] = None => Pending(x)' = {})
    <2>1. CASE x = i
      <3>1. q.pc = "idle"
        BY <1>1, <1>5, <2>1 DEF Quiet
      <3>2. QED
        BY <1>5, <2>1, <3>1
    <2>2. CASE x # i
      <3>1. Quiet(x)
        <4>1. req[r].of # x
          BY <1>0, <2>2, OpenOf, NotNone
        <4>2. QED
          BY <1>1, <1>5, <4>1, ManagerOrGrader DEF Quiet
      <3>2. Agrees(x) /\ (row[x] = None => Pending(x) = {}) /\ row'[x] = row[x]
        BY <1>0, <1>5, <3>1, <2>2 DEF Track
      <3>3. Pending(x)' = Pending(x)
        BY <2>2, PendingElsewhere
      <3>4. Agrees(x)'
        <4>1. CASE row[x] = None
          BY <4>1, <3>2 DEF Agrees
        <4>2. CASE row[x] # None
          <5>1. PICK v \in Row : v = row[x] /\ v = row'[x] /\ Owned(x, v)
            BY <1>0, <3>2, <4>2 DEF IInv, TypeOK, Ownership
          <5>2. \A k \in v.ids : ~Fresh(k)
            BY <4>2, <5>1 DEF Fresh
          <5>3. /\ Listed(x, v) => Listed(x, v)'
                /\ \A p, at : Told(x, p, at, v.ids) => Told(x, p, at, v.ids)'
            BY <1>0, <2>2, <5>1, <5>2, Elsewhere
          <5>4. Listed(x, v) /\ \A p \in {Candidate, v.who} : Told(x, p, v.at, v.ids)
            BY <5>1, <3>2, <4>2 DEF Agrees
          <5>5. Listed(x, v)' /\ \A p \in {Candidate, v.who} : Told(x, p, v.at, v.ids)'
            BY <5>3, <5>4
          <5>6. QED
            BY <5>1, <5>5 DEF Agrees
        <4>3. QED
          BY <4>1, <4>2
      <3>5. QED
        BY <3>2, <3>3, <3>4
    <2>3. QED
      BY <2>1, <2>2
  <1>6. ASSUME NEW s \in Manager, Busy(s)', req'[s].of \notin spoilt' PROVE StageOf(req[s])'
    <2>1. CASE s = r
      <3>1. req'[s] = q /\ q.pc # "idle" /\ q.of = i
        BY <1>1, <1>6, <2>1 DEF Busy
      <3>2. StageOf(q)'
        BY <1>6, <3>1
      <3>3. QED
        BY <3>1, <3>2 DEF StageOf, Listed, Told, Pending
    <2>2. CASE s # r
      <3>1. req'[s] = req[s] /\ Busy(s) /\ req[s].of \notin spoilt
        BY <1>1, <1>6, <2>2, ManagerOrGrader DEF Busy
      <3>2. req[s].of # i
        BY <1>3, <1>6, <2>2, <3>1
      <3>3. req[s].of \in Interview
        BY <3>1, OpenOf, ManagerOrGrader
      <3>4. row'[req[s].of] = row[req[s].of] /\ StageOf(req[s])
        BY <1>0, <3>1, <3>2, <3>3 DEF Track
      <3>5. QED
        BY <1>0, <3>1, <3>2, <3>4, StageElsewhere
    <2>3. QED
      BY <2>1, <2>2
  <1>7. QED
    BY <1>2, <1>4, <1>5, <1>6 DEF SoundInv, Track

\* A step that no manager takes and that moves no interview and no reminder.
LEMMA SoundSame ==
    ASSUME IInv, SoundInv, UNCHANGED <<waiting, mail, spoilt>>,
           \A s \in Manager : req'[s] = req[s],
           \A s \in Req : OwnedBy(req[s])',
           \A x \in Interview :
             /\ row[x] = None <=> row'[x] = None
             /\ row[x] # None =>
                  row'[x].at = row[x].at /\ row'[x].who = row[x].who /\ row'[x].ids = row[x].ids
    PROVE  SoundInv'
  <1>0. Met /\ Ownership /\ Track
    BY DEF SoundInv
  <1>1. Ownership'
    <2>1. \A x \in Interview : row'[x] # None => Owned(x, row[x])'
      BY <1>0 DEF Ownership, Owned
    <2>2. QED
      BY <2>1 DEF Ownership
  <1>2. ASSUME NEW x \in Interview, x \notin spoilt, Quiet(x)'
        PROVE  Agrees(x)' /\ (row'[x] = None => Pending(x)' = {})
    <2>1. Agrees(x) /\ (row[x] = None => Pending(x) = {})
      BY <1>0, <1>2 DEF Track, Quiet
    <2>2. row'[x] = None => Pending(x)' = {}
      BY <2>1 DEF Pending
    <2>3. row'[x] # None => Listed(x, row[x])'
      BY <2>1 DEF Agrees, Listed, Pending
    <2>4. row'[x] # None => \A p \in {Candidate, row'[x].who} : Told(x, p, row[x].at, row[x].ids)'
      BY <2>1 DEF Agrees, Told
    <2>5. QED
      BY <2>2, <2>3, <2>4 DEF Agrees
  <1>3. ASSUME NEW s \in Manager, Busy(s)', req'[s].of \notin spoilt PROVE StageOf(req[s])'
    <2>1. PICK q : q = req[s] /\ q = req'[s]
      BY <1>3
    <2>2. q.of \in Interview /\ StageOf(q)
      BY <1>0, <1>3, <2>1, ManagerOrGrader DEF Busy, IInv, FormOf, TypeOK, Track
    <2>3. Pending(q.of)' = Pending(q.of)
      BY DEF Pending
    <2>4. /\ Listed(q.of, q.new)' <=> Listed(q.of, q.new)
          /\ \A p : Told(q.of, p, q.new.at, q.new.ids)' <=> Told(q.of, p, q.new.at, q.new.ids)
      BY DEF Listed, Told, Pending
    <2>5. StageOf(q)'
      BY <2>2, <2>3, <2>4 DEF StageOf
    <2>6. QED
      BY <2>1, <2>5
  <1>4. Met'
    BY <1>0 DEF Met, Busy
  <1>5. QED
    BY <1>1, <1>2, <1>3, <1>4 DEF SoundInv, Track

\* rq-scheduler hands reminder j to the mail queue.
LEMMA FireKeeps ==
    ASSUME IInv, NEW j \in Job, Fire(j), NEW x
    PROVE  /\ Pending(x)' \subseteq Pending(x)
           /\ \A v : Listed(x, v) => Listed(x, v)'
           /\ \A v \in Row : Owned(x, v) =>
                /\ Owned(x, v)'
                /\ \A p, at : Told(x, p, at, v.ids) => Told(x, p, at, v.ids)'
  <1>1. /\ waiting' = [waiting EXCEPT ![j] = None] /\ waiting \in [Job -> Reminder \cup {None}]
        /\ mail' = mail \cup {[of |-> waiting[j].of, to |-> waiting[j].to, at |-> waiting[j].at]}
    BY DEF Fire, IInv, TypeOK
  <1>2. waiting'[j] = None /\ \A k \in Job : k # j => waiting'[k] = waiting[k]
    BY <1>1
  <1>3. Pending(x)' \subseteq Pending(x)
    BY <1>2 DEF Pending
  <1>4. \A v : Listed(x, v) => Listed(x, v)'
    BY <1>2 DEF Listed, Pending
  <1>5. ASSUME NEW v \in Row, Owned(x, v)
        PROVE  Owned(x, v)' /\ \A p, at : Told(x, p, at, v.ids) => Told(x, p, at, v.ids)'
    <2>1. v.ids \subseteq Job
      BY DEF Row
    <2>2. Owned(x, v)'
      BY <1>2, <1>5, <2>1 DEF Owned
    <2>3. ASSUME NEW p, NEW at, Told(x, p, at, v.ids) PROVE Told(x, p, at, v.ids)'
      <3>1. CASE [of |-> x, to |-> p, at |-> at] \in mail
        BY <3>1, <1>1 DEF Told
      <3>2. ASSUME NEW k \in v.ids, waiting[k] # None, waiting[k].to = p, waiting[k].at = at
            PROVE  Told(x, p, at, v.ids)'
        <4>1. waiting[k].of = x /\ k \in Job
          BY <1>5, <2>1, <3>2 DEF Owned
        <4>2. CASE k = j
          BY <1>1, <3>2, <4>1, <4>2 DEF Told
        <4>3. CASE k # j
          BY <1>2, <3>2, <4>1, <4>3 DEF Told
        <4>4. QED
          BY <4>2, <4>3
      <3>3. QED
        BY <2>3, <3>1, <3>2 DEF Told
    <2>4. QED
      BY <2>2, <2>3
  <1>6. QED
    BY <1>3, <1>4, <1>5

LEMMA SoundFire == ASSUME IInv, SoundInv, NEW j \in Job, Fire(j) PROVE SoundInv'
  <1>0. UNCHANGED <<row, req, spoilt>> /\ Met /\ Ownership /\ Track
    BY DEF Fire, SoundInv
  <1>1. ASSUME NEW x \in Interview, row[x] # None
        PROVE  \E v \in Row :
                 /\ v = row[x] /\ v = row'[x] /\ Owned(x, v)'
                 /\ \A p, at : Told(x, p, at, v.ids) => Told(x, p, at, v.ids)'
    <2>1. PICK v \in Row : v = row[x] /\ v = row'[x]
      BY <1>0, <1>1 DEF IInv, TypeOK
    <2>2. Owned(x, v)
      BY <1>0, <1>1, <2>1 DEF Ownership
    <2>3. QED
      BY <2>1, <2>2, FireKeeps
  <1>2. ASSUME NEW x \in Interview, row'[x] # None PROVE Owned(x, row[x])'
    <2>1. PICK v \in Row : v = row'[x] /\ Owned(x, v)'
      BY <1>0, <1>1, <1>2
    <2>2. QED
      BY <2>1 DEF Owned
  <1>3. ASSUME NEW s \in Req PROVE OwnedBy(req[s])'
    <2>1. PICK q \in Request : q = req[s] /\ q = req'[s] /\ OwnedBy(q)
      BY <1>0 DEF IInv, TypeOK, Ownership
    <2>2. \A k \in Job : waiting'[k] = waiting[k] \/ waiting'[k] = None
      BY DEF Fire, IInv, TypeOK
    <2>3. OwnedBy(q)'
      BY <2>1, <2>2 DEF OwnedBy, Owned, Request, Row
    <2>4. QED
      BY <2>1, <2>3 DEF OwnedBy, Owned
  <1>4. ASSUME NEW x \in Interview, x \notin spoilt, Quiet(x)'
        PROVE  Agrees(x)' /\ (row'[x] = None => Pending(x)' = {})
    <2>1. Agrees(x) /\ (row[x] = None => Pending(x) = {})
      BY <1>0, <1>4 DEF Track, Quiet
    <2>2. row'[x] = None => Pending(x)' = {}
      BY <1>0, <2>1, FireKeeps
    <2>3. CASE row[x] = None
      BY <1>0, <2>2, <2>3 DEF Agrees
    <2>4. CASE row[x] # None
      <3>1. PICK v \in Row :
               /\ v = row[x] /\ v = row'[x]
               /\ \A p, at : Told(x, p, at, v.ids) => Told(x, p, at, v.ids)'
        BY <1>1, <2>4
      <3>2. Listed(x, v) /\ \A p \in {Candidate, v.who} : Told(x, p, v.at, v.ids)
        BY <2>1, <2>4, <3>1 DEF Agrees
      <3>3. Listed(x, v)' /\ \A p \in {Candidate, v.who} : Told(x, p, v.at, v.ids)'
        BY <3>1, <3>2, FireKeeps
      <3>4. QED
        BY <2>2, <3>1, <3>3 DEF Agrees
    <2>5. QED
      BY <2>3, <2>4
  <1>5. ASSUME NEW s \in Manager, Busy(s)', req'[s].of \notin spoilt PROVE StageOf(req[s])'
    <2>1. PICK q \in Request : q = req[s] /\ q = req'[s] /\ FormOf(s, q)
      BY <1>0, ManagerOrGrader DEF IInv, TypeOK
    <2>2. q.of \in Interview /\ StageOf(q) /\ q.op \in {"create", "update", "delete"}
      BY <1>0, <1>5, <2>1, ManagerOrGrader DEF Busy, IInv, FormOf, TypeOK, Track
    <2>3. Pending(q.of)' \subseteq Pending(q.of)
      BY FireKeeps
    <2>4. CASE q.op = "delete"
      BY <1>0, <2>1, <2>2, <2>3, <2>4 DEF StageOf, FormOf
    <2>5. CASE q.op \in {"create", "update"}
      <3>1. q.new \in Row /\ Owned(q.of, q.new)
        BY <1>0, <2>1, <2>5, ManagerOrGrader DEF FormOf, Ownership, OwnedBy
      <3>2. /\ Listed(q.of, q.new) => Listed(q.of, q.new)'
            /\ \A p, at : Told(q.of, p, at, q.new.ids) => Told(q.of, p, at, q.new.ids)'
        BY <3>1, FireKeeps
      <3>3. StageOf(q)'
        BY <1>0, <2>2, <2>3, <2>5, <3>2 DEF StageOf
      <3>4. QED
        BY <2>1, <3>3
    <2>6. QED
      BY <2>2, <2>4, <2>5
  <1>6. Ownership' /\ Met'
    BY <1>0, <1>2, <1>3 DEF Ownership, Met, Busy
  <1>7. QED
    BY <1>0, <1>4, <1>5, <1>6 DEF SoundInv, Track

\* A manager's step that leaves the scheduler and the table alone.
LEMMA SoundRead ==
    ASSUME IInv, SoundInv, NEW r \in Manager, NEW i \in Interview,
           NEW q \in Request, req' = [req EXCEPT ![r] = q], q.pc # "idle", q.of = i,
           Busy(r) => req[r].of = i,
           ~Busy(r) => i \in spoilt' \/ \A s \in Manager : s # r => req[s].of # i,
           UNCHANGED <<row, waiting, mail>>, spoilt \subseteq spoilt',
           OwnedBy(q)', i \notin spoilt' => StageOf(q)'
    PROVE  SoundInv'
  <1>1. Local(i)
    BY DEF Local
  <1>2. row'[i] # None => Owned(i, row[i])'
    BY DEF SoundInv, Ownership, Owned
  <1>3. QED
    BY <1>1, <1>2, SoundStep

\* A manager who opens an interview finds its reminders in order, or another
\* manager there.
LEMMA Undisturbed ==
    ASSUME IInv, SoundInv, NEW r \in Manager, NEW i \in Interview, ~Busy(r), Meet(r, i)
    PROVE  /\ spoilt \subseteq spoilt'
           /\ i \in spoilt' \/ \A s \in Manager : s # r => req[s].of # i
           /\ i \notin spoilt' => Agrees(i)
  <1>1. spoilt \subseteq spoilt' /\ (i \in spoilt' \/ \A s \in Manager : s # r => req[s].of # i)
    BY DEF Meet
  <1>2. ASSUME i \notin spoilt' PROVE Agrees(i)
    <2>1. req[r].of # i
      BY OpenOf, NotNone, ManagerOrGrader
    <2>2. Quiet(i) /\ i \notin spoilt
      BY <1>1, <1>2, <2>1 DEF Quiet
    <2>3. QED
      BY <2>2 DEF SoundInv, Track
  <1>3. QED
    BY <1>1, <1>2

LEMMA SoundCreateRead ==
    ASSUME IInv, SoundInv, NEW r \in Req, NEW i \in Interview, NEW at \in Time,
           NEW who \in Interviewer, CreateRead(r, i, at, who)
    PROVE  SoundInv'
  <1>1. PICK q \in Request :
             /\ req' = [req EXCEPT ![r] = q]
             /\ q.pc = "first" /\ q.op = "create" /\ q.of = i /\ q.new \in Row
             /\ q.new.ids = {} /\ q.new.at = at /\ q.new.who = who /\ q.cancel = {}
    BY CreateReadTo
  <1>2. r \in Manager /\ ~Busy(r) /\ i \notin created /\ UNCHANGED <<row, waiting, mail, spoilt>>
    BY DEF CreateRead, Busy
  <1>3. Pending(i)' = {}
    BY <1>2 DEF Pending, IInv, Created
  <1>4. OwnedBy(q)'
    BY <1>1 DEF OwnedBy, Owned
  <1>5. StageOf(q)'
    BY <1>1, <1>3 DEF StageOf
  <1>6. \A s \in Manager : s # r => req[s].of # i
    BY <1>2, OpenOf, NotNone, ManagerOrGrader
  <1>7. q.pc # "idle"
    BY <1>1
  <1>8. QED
    BY <1>1, <1>2, <1>4, <1>5, <1>6, <1>7, SoundRead

LEMMA SoundUpdateRead ==
    ASSUME IInv, SoundInv, NEW r \in Req, NEW i \in Interview, NEW at \in Time,
           NEW who \in Interviewer, UpdateRead(r, i, at, who)
    PROVE  SoundInv'
  <1>1. PICK q \in Request :
             /\ req' = [req EXCEPT ![r] = q]
             /\ q.pc = "cancel" /\ q.op = "update" /\ q.of = i /\ q.old = row[i]
             /\ q.new.ids = {} /\ q.cancel = row[i].ids
    BY UpdateReadTo
  <1>2. r \in Manager /\ ~Busy(r) /\ row[i] # None /\ UNCHANGED <<row, waiting, mail>> /\ Meet(r, i)
    BY DEF UpdateRead, Busy
  <1>3. /\ spoilt \subseteq spoilt'
        /\ i \in spoilt' \/ \A s \in Manager : s # r => req[s].of # i
        /\ i \notin spoilt' => Agrees(i)
    BY <1>2, Undisturbed
  <1>4. i \notin spoilt' => StageOf(q)'
    <2> SUFFICES ASSUME i \notin spoilt' PROVE StageOf(q)'
      OBVIOUS
    <2>1. Listed(i, row[i])
      BY <1>2, <1>3 DEF Agrees
    <2>2. Pending(i)' \subseteq q.cancel
      BY <1>1, <1>2, <2>1 DEF Listed, Pending
    <2>3. QED
      BY <1>1, <1>2, <2>2 DEF StageOf
  <1>5. OwnedBy(q)'
    <2>1. Owned(i, row[i])
      BY <1>2 DEF SoundInv, Ownership
    <2>2. QED
      BY <1>1, <1>2, <2>1 DEF OwnedBy, Owned
  <1>6. q.pc # "idle"
    BY <1>1
  <1>7. QED
    BY <1>1, <1>2, <1>3, <1>4, <1>5, <1>6, SoundRead

LEMMA SoundDeleteRead ==
    ASSUME IInv, SoundInv, NEW r \in Req, NEW i \in Interview, DeleteRead(r, i)
    PROVE  SoundInv'
  <1>1. PICK q \in Request :
             /\ req' = [req EXCEPT ![r] = q]
             /\ q.pc = "cancel" /\ q.op = "delete" /\ q.of = i /\ q.old = row[i]
             /\ q.cancel = row[i].ids /\ q.new = None
    BY DeleteReadTo
  <1>2. r \in Manager /\ ~Busy(r) /\ row[i] # None /\ UNCHANGED <<row, waiting, mail>> /\ Meet(r, i)
    BY DEF DeleteRead, Busy
  <1>3. /\ spoilt \subseteq spoilt'
        /\ i \in spoilt' \/ \A s \in Manager : s # r => req[s].of # i
        /\ i \notin spoilt' => Agrees(i)
    BY <1>2, Undisturbed
  <1>4. i \notin spoilt' => StageOf(q)'
    <2> SUFFICES ASSUME i \notin spoilt' PROVE StageOf(q)'
      OBVIOUS
    <2>1. Listed(i, row[i])
      BY <1>2, <1>3 DEF Agrees
    <2>2. Pending(i)' \subseteq q.cancel
      BY <1>1, <1>2, <2>1 DEF Listed, Pending
    <2>3. QED
      BY <1>1, <1>2, <2>2 DEF StageOf
  <1>5. OwnedBy(q)'
    <2>1. Owned(i, row[i]) /\ q.new \notin Row
      BY <1>1, <1>2, NoneAssumption DEF SoundInv, Ownership
    <2>2. QED
      BY <1>1, <1>2, <2>1 DEF OwnedBy, Owned
  <1>6. q.pc # "idle"
    BY <1>1
  <1>7. QED
    BY <1>1, <1>2, <1>3, <1>4, <1>5, <1>6, SoundRead

\* What is known of a manager in the middle of a request.
LEMMA InTheMiddle ==
    ASSUME IInv, SoundInv, NEW r \in Req, Busy(r), req[r].op # "evaluate"
    PROVE  /\ r \in Manager /\ req[r].of \in Interview /\ FormOf(r, req[r])
           /\ req[r].op \in {"create", "update", "delete"}
           /\ OwnedBy(req[r]) /\ req[r] \in Request
           /\ req[r].of \notin spoilt => StageOf(req[r])
           /\ row[req[r].of] # None => Owned(req[r].of, row[req[r].of])
  <1>1. r \in Manager
    BY ManagerOrGrader DEF IInv, FormOf, Busy
  <1>2. FormOf(r, req[r]) /\ (req[r].of \notin spoilt => StageOf(req[r])) /\ OwnedBy(req[r])
    BY <1>1 DEF IInv, SoundInv, Track, Ownership
  <1>3. req[r].of \in Interview /\ req[r].op \in {"create", "update", "delete"} /\ req[r] \in Request
    BY <1>1, <1>2 DEF FormOf, IInv, TypeOK, Busy
  <1>4. QED
    BY <1>1, <1>2, <1>3 DEF SoundInv, Ownership

\* A failure at a manager's request is marked at its interview.
LEMMA Marked ==
    ASSUME NEW r \in Manager, Spoil(r)
    PROVE  spoilt \subseteq spoilt' /\ req[r].of \in spoilt'
  BY DEF Spoil

LEMMA SoundCancelDone ==
    ASSUME IInv, SoundInv, NEW r \in Req, CancelDone(r)
    PROVE  SoundInv'
  <1>1. PICK q \in Request :
             /\ req' = [req EXCEPT ![r] = q]
             /\ Same(q, req[r]) /\ q.new = req[r].new /\ q.cancel = {}
             /\ q.pc = (IF req[r].op = "delete" THEN "commit" ELSE "first")
    BY CancelDoneTo
  <1>2. /\ req[r].pc = "cancel" /\ Busy(r) /\ UNCHANGED <<row, waiting, mail>>
        /\ (req[r].cancel = {} /\ spoilt' = spoilt) \/ Spoil(r)
    BY DEF CancelDone, Busy
  <1>3. req[r].op \in {"update", "delete"}
    BY <1>2 DEF IInv, FormOf
  <1>4. r \in Manager /\ req[r].of \in Interview /\ OwnedBy(req[r])
        /\ (req[r].of \notin spoilt => StageOf(req[r]))
    BY <1>2, <1>3, InTheMiddle
  <1>5. spoilt \subseteq spoilt' /\ (req[r].of \notin spoilt' => req[r].cancel = {})
    BY <1>2, <1>4, Marked
  <1>6. OwnedBy(q)'
    BY <1>1, <1>2, <1>4 DEF OwnedBy, Owned, Same
  <1>7. req[r].of \notin spoilt' => StageOf(q)'
    <2> SUFFICES ASSUME req[r].of \notin spoilt' PROVE StageOf(q)'
      OBVIOUS
    <2>1. Pending(q.of)' = {}
      BY <1>1, <1>2, <1>4, <1>5 DEF StageOf, Same, Pending
    <2>2. QED
      BY <1>1, <1>2, <1>3, <1>4, <1>5, <2>1 DEF StageOf, Same
  <1>8. q.pc # "idle" /\ q.of = req[r].of
    BY <1>1 DEF Same
  <1>9. QED
    BY <1>1, <1>2, <1>4, <1>5, <1>6, <1>7, <1>8, SoundRead

LEMMA SoundScheduleFails ==
    ASSUME IInv, SoundInv, NEW r \in Req, ScheduleFails(r)
    PROVE  SoundInv'
  <1>1. PICK q \in Request :
             /\ req' = [req EXCEPT ![r] = q]
             /\ Same(q, req[r]) /\ q.new \in Row /\ q.pc = "commit"
             /\ q.new.status = req[r].new.status /\ q.new.ids = {} /\ q.cancel = req[r].cancel
    BY ScheduleFailsTo
  <1>2. /\ req[r].pc \in {"first", "second"} /\ Busy(r) /\ UNCHANGED <<row, waiting, mail>>
        /\ Spoil(r)
    BY DEF ScheduleFails, Busy
  <1>3. req[r].op # "evaluate"
    BY <1>2 DEF IInv, FormOf
  <1>4. r \in Manager /\ req[r].of \in Interview /\ OwnedBy(req[r])
    BY <1>2, <1>3, InTheMiddle
  <1>5. spoilt \subseteq spoilt' /\ req[r].of \in spoilt'
    BY <1>2, <1>4, Marked
  <1>6. OwnedBy(q)'
    BY <1>1, <1>2, <1>4 DEF OwnedBy, Owned, Same
  <1>7. q.pc # "idle" /\ q.of = req[r].of
    BY <1>1 DEF Same
  <1>8. QED
    BY <1>1, <1>2, <1>4, <1>5, <1>6, <1>7, SoundRead

LEMMA BlankOwned == OwnedBy(Blank) /\ OwnedBy(Blank)'
  <1>1. Blank.cancel = {} /\ Blank.new \notin Row
    BY NoneAssumption DEF Blank
  <1>2. QED
    BY <1>1 DEF OwnedBy

LEMMA SoundAbort ==
    ASSUME IInv, SoundInv, NEW r \in Req, Abort(r)
    PROVE  SoundInv'
  <1>1. /\ req' = [req EXCEPT ![r] = Blank] /\ Busy(r) /\ Spoil(r)
        /\ UNCHANGED <<row, waiting, mail>>
    BY DEF Abort, Finish, Busy
  <1>2. CASE r \in Manager
    <2>1. PICK i \in Interview : i = req[r].of
      BY <1>1, OpenOf
    <2>2. spoilt \subseteq spoilt' /\ i \in spoilt'
      BY <1>1, <1>2, <2>1, Marked
    <2>3. Local(i) /\ (row'[i] # None => Owned(i, row[i])')
      BY <1>1 DEF Local, SoundInv, Ownership, Owned
    <2>4. Blank.pc = "idle"
      BY DEF Blank
    <2>5. QED
      BY <1>1, <1>2, <2>1, <2>2, <2>3, <2>4, BlankType, BlankOwned, SoundStep
  <1>3. CASE r \notin Manager
    <2>1. spoilt' = spoilt
      BY <1>1, <1>3 DEF Spoil
    <2>2. req'[r] = Blank /\ \A s \in Req : s # r => req'[s] = req[s]
      BY <1>1, BlankType, Others DEF IInv
    <2>3. ASSUME NEW s \in Req PROVE OwnedBy(req[s])'
      <3>1. PICK p : p = req'[s] /\ OwnedBy(p)
        BY <2>2, BlankOwned DEF SoundInv, Ownership
      <3>2. QED
        BY <1>1, <3>1 DEF OwnedBy, Owned
    <2>4. \A s \in Manager : req'[s] = req[s]
      BY <1>3, <2>2, ManagerOrGrader
    <2>5. QED
      BY <1>1, <2>1, <2>3, <2>4, SoundSame
  <1>4. QED
    BY <1>2, <1>3

LEMMA SoundCancel ==
    ASSUME IInv, SoundInv, NEW r \in Req, NEW j \in Job, Cancel(r, j)
    PROVE  SoundInv'
  <1>1. PICK q \in Request :
             /\ req' = [req EXCEPT ![r] = q]
             /\ Same(q, req[r]) /\ q.pc = "cancel" /\ q.new = req[r].new
             /\ q.cancel = req[r].cancel \ {j}
    BY CancelTo
  <1>2. /\ req[r].pc = "cancel" /\ j \in req[r].cancel /\ Busy(r)
        /\ waiting' = [waiting EXCEPT ![j] = None] /\ waiting \in [Job -> Reminder \cup {None}]
        /\ UNCHANGED <<row, mail, spoilt>>
    BY DEF Cancel, Busy, IInv, TypeOK
  <1>3. req[r].op \in {"update", "delete"}
    BY <1>2 DEF IInv, FormOf
  <1>4. /\ r \in Manager /\ req[r].of \in Interview /\ FormOf(r, req[r]) /\ OwnedBy(req[r])
        /\ req[r] \in Request /\ (req[r].of \notin spoilt => StageOf(req[r]))
        /\ row[req[r].of] # None => Owned(req[r].of, row[req[r].of])
    BY <1>2, <1>3, InTheMiddle
  <1>5. PICK i \in Interview : i = req[r].of
    BY <1>4
  <1>6. waiting'[j] = None /\ \A k \in Job : k # j => waiting'[k] = waiting[k]
    BY <1>2
  <1>7. waiting[j] # None => waiting[j].of = i
    BY <1>2, <1>4, <1>5 DEF OwnedBy
  <1>8. Local(i)
    BY <1>6, <1>7 DEF Local
  <1>9. row'[i] # None => Owned(i, row[i])'
    <2>1. row[i] # None => row[i].ids \subseteq Job
      BY DEF IInv, TypeOK, Row
    <2>2. QED
      BY <1>2, <1>4, <1>5, <1>6, <2>1 DEF Owned
  <1>10. q.of = i /\ q.op = req[r].op /\ q.old = req[r].old
    BY <1>1, <1>5 DEF Same
  <1>11. OwnedBy(q)'
    <2>1. q.cancel \subseteq Job /\ \A k \in q.cancel : waiting'[k] # None => waiting'[k].of = i
      BY <1>1, <1>4, <1>5, <1>6 DEF OwnedBy, Request
    <2>2. q.new \in Row => q.new.ids \subseteq Job /\ Owned(i, q.new)
      BY <1>1, <1>4, <1>5 DEF OwnedBy, Row
    <2>3. QED
      BY <1>6, <1>10, <2>1, <2>2 DEF OwnedBy, Owned
  <1>12. i \notin spoilt' => StageOf(q)'
    <2> SUFFICES ASSUME i \notin spoilt' PROVE StageOf(q)'
      OBVIOUS
    <2>1. StageOf(req[r])
      BY <1>2, <1>4, <1>5
    <2>2. Pending(i) \subseteq req[r].cancel /\ req[r].cancel \subseteq req[r].old.ids
      BY <1>2, <1>5, <2>1 DEF StageOf
    <2>3. Pending(i)' \subseteq q.cancel /\ q.cancel \subseteq q.old.ids
      BY <1>1, <1>6, <1>10, <2>2 DEF Pending
    <2>4. QED
      BY <1>1, <1>2, <1>3, <1>5, <1>10, <2>1, <2>3 DEF StageOf
  <1>13. q.pc # "idle" /\ mail' = mail /\ spoilt' = spoilt /\ row' = row
    BY <1>1, <1>2
  <1>14. QED
    BY <1>1, <1>2, <1>4, <1>5, <1>8, <1>9, <1>10, <1>11, <1>12, <1>13, SoundStep

LEMMA SoundSchedule ==
    ASSUME IInv, SoundInv, NEW r \in Req, NEW j \in Job, Schedule(r, j)
    PROVE  SoundInv'
  <1>1. PICK q \in Request :
             /\ req' = [req EXCEPT ![r] = q]
             /\ Same(q, req[r]) /\ q.new \in Row /\ q.cancel = req[r].cancel
             /\ q.pc = (IF req[r].pc = "first" THEN "second" ELSE "commit")
             /\ q.new.ids = req[r].new.ids \cup {j} /\ q.new.at = req[r].new.at
             /\ q.new.who = req[r].new.who
    BY ScheduleTo
  <1>2. Reminding(r) \in Reminder /\ waiting' = [waiting EXCEPT ![j] = Reminding(r)]
    BY ScheduleTo
  <1>3. /\ req[r].pc \in {"first", "second"} /\ Fresh(j) /\ Busy(r)
        /\ waiting \in [Job -> Reminder \cup {None}] /\ UNCHANGED <<row, mail, spoilt>>
    BY DEF Schedule, NewId, Busy, IInv, TypeOK
  <1>4. req[r].op \in {"create", "update"}
    BY <1>3 DEF IInv, FormOf
  <1>5. /\ r \in Manager /\ req[r].of \in Interview /\ FormOf(r, req[r]) /\ OwnedBy(req[r])
        /\ req[r] \in Request /\ (req[r].of \notin spoilt => StageOf(req[r]))
        /\ row[req[r].of] # None => Owned(req[r].of, row[req[r].of])
    BY <1>3, <1>4, InTheMiddle
  <1>6. PICK i \in Interview : i = req[r].of
    BY <1>5
  <1>7. PICK old \in Row : old = req[r].new /\ old.ids \subseteq Job
    BY <1>4, <1>5 DEF FormOf, Row
  <1>8. PICK w \in Reminder : w = Reminding(r) /\ w # None
    BY <1>2, NotNone
  <1>9. /\ w.of = i /\ w.at = q.new.at
        /\ w.to = (IF req[r].pc = "first" THEN Candidate ELSE q.new.who)
    BY <1>1, <1>6, <1>8 DEF Reminding, Recipient
  <1>10. waiting[j] = None /\ waiting'[j] = w /\ \A k \in Job : k # j => waiting'[k] = waiting[k]
    BY <1>2, <1>3, <1>8 DEF Fresh
  <1>11. Local(i)
    BY <1>3, <1>9, <1>10 DEF Local
  <1>12. row'[i] # None => Owned(i, row[i])'
    <2>1. row[i] # None => row[i].ids \subseteq Job /\ j \notin row[i].ids /\ Owned(i, row[i])
      BY <1>3, <1>5, <1>6 DEF Fresh, IInv, TypeOK, Row
    <2>2. QED
      BY <1>3, <1>10, <2>1 DEF Owned
  <1>13. q.of = i /\ q.op = req[r].op /\ q.old = req[r].old
    BY <1>1, <1>6 DEF Same
  <1>14. OwnedBy(q)'
    <2>1. Owned(i, old)
      BY <1>5, <1>6, <1>7 DEF OwnedBy
    <2>2. Owned(i, q.new)'
      BY <1>1, <1>7, <1>9, <1>10, <2>1 DEF Owned
    <2>3. q.cancel \subseteq Job /\ j \notin q.cancel
      BY <1>1, <1>3, <1>5 DEF Fresh, Request
    <2>4. \A k \in q.cancel : waiting'[k] # None => waiting'[k].of = i
      BY <1>1, <1>5, <1>6, <1>10, <2>3 DEF OwnedBy
    <2>5. QED
      BY <1>13, <2>2, <2>4 DEF OwnedBy
  <1>15. Pending(i)' = Pending(i) \cup {j}
    BY <1>8, <1>9, <1>10 DEF Pending
  <1>16. i \notin spoilt' => StageOf(q)'
    <2> SUFFICES ASSUME i \notin spoilt' PROVE StageOf(q)'
      OBVIOUS
    <2>0. StageOf(req[r])
      BY <1>3, <1>5, <1>6
    <2>1. Listed(i, q.new)' /\ Told(i, Candidate, q.new.at, q.new.ids)'
      <3>1. CASE req[r].pc = "first"
        <4>1. Pending(i) = {}
          BY <1>6, <2>0, <3>1 DEF StageOf
        <4>2. j \in q.new.ids /\ w.to = Candidate
          BY <1>1, <1>9, <3>1
        <4>3. QED
          BY <1>8, <1>9, <1>10, <1>15, <4>1, <4>2 DEF Listed, Told
      <3>2. CASE req[r].pc = "second"
        <4>1. Listed(i, old) /\ Told(i, Candidate, old.at, old.ids)
          BY <1>6, <1>7, <2>0, <3>2 DEF StageOf
        <4>2. /\ q.new.ids = old.ids \cup {j} /\ q.new.at = old.at /\ q.new.who = old.who
              /\ w.to = q.new.who
          BY <1>1, <1>7, <1>9, <3>2
        <4>3. j \notin Pending(i)
          BY <1>10 DEF Pending
        <4>4. Listed(i, q.new)'
          <5> SUFFICES ASSUME NEW k \in Pending(i)'
                       PROVE  /\ k \in q.new.ids /\ waiting'[k].at = q.new.at
                              /\ waiting'[k].to \in {Candidate, q.new.who}
            BY DEF Listed
          <5>1. CASE k = j
            BY <1>9, <1>10, <4>2, <5>1
          <5>2. CASE k # j
            <6>1. k \in Pending(i) /\ waiting'[k] = waiting[k]
              BY <1>10, <1>15, <5>2 DEF Pending
            <6>2. QED
              BY <4>1, <4>2, <6>1 DEF Listed
          <5>3. QED
            BY <5>1, <5>2
        <4>5. Told(i, Candidate, q.new.at, q.new.ids)'
          BY <1>3, <1>7, <1>10, <4>1, <4>2 DEF Told
        <4>6. QED
          BY <4>4, <4>5
      <3>3. QED
        BY <1>3, <3>1, <3>2
    <2>2. q.pc = "commit" => Told(i, q.new.who, q.new.at, q.new.ids)'
      BY <1>1, <1>8, <1>9, <1>10 DEF Told
    <2>3. q.op = "update" =>
            row'[i] # None /\ row'[i].at = q.old.at /\ row'[i].who = q.old.who /\ row'[i].ids = q.old.ids
      BY <1>3, <1>6, <1>13, <2>0 DEF StageOf
    <2>4. q.pc \in {"second", "commit"} /\ q.op \in {"create", "update"}
      BY <1>1, <1>3, <1>4, <1>13
    <2>5. QED
      BY <1>13, <2>1, <2>2, <2>3, <2>4 DEF StageOf
  <1>17. q.pc # "idle" /\ mail' = mail /\ spoilt' = spoilt /\ row' = row
    BY <1>1, <1>3
  <1>18. QED
    BY <1>1, <1>3, <1>5, <1>6, <1>11, <1>12, <1>13, <1>14, <1>16, <1>17, SoundStep

\* The transaction of a manager: the row becomes the version whose reminders
\* were handed to the scheduler.
LEMMA SoundCommit ==
    ASSUME IInv, SoundInv, NEW r \in Req, Commit(r), req[r].op # "evaluate"
    PROVE  SoundInv'
  <1>1. /\ req' = [req EXCEPT ![r] = Blank]
        /\ req[r].pc = "commit"
        /\ \A x \in Interview : x # req[r].of => row'[x] = row[x]
        /\ row \in [Interview -> Row \cup {None}]
        /\ UNCHANGED <<waiting, mail, spoilt>> /\ Busy(r)
    BY CommitTo DEF Commit, Busy, IInv, TypeOK
  <1>2. /\ r \in Manager /\ req[r].of \in Interview /\ FormOf(r, req[r]) /\ OwnedBy(req[r])
        /\ req[r].op \in {"create", "update", "delete"}
        /\ req[r].of \notin spoilt => StageOf(req[r])
        /\ row[req[r].of] # None => Owned(req[r].of, row[req[r].of])
    BY <1>1, InTheMiddle
  <1>3. PICK i \in Interview : i = req[r].of
    BY <1>2
  <1>4. Blank.pc = "idle"
    BY DEF Blank
  <1>5. Local(i) /\ spoilt \subseteq spoilt' /\ mail' = mail
    BY <1>1 DEF Local
  <1>6. (row'[i] # None => Owned(i, row[i])')
        /\ (i \notin spoilt' => Agrees(i)' /\ (row'[i] = None => Pending(i)' = {}))
    <2>1. CASE req[r].op = "delete"
      <3>1. row'[i] = None
        BY <1>3, <2>1, CommitTo
      <3>2. i \notin spoilt => Pending(i)' = {}
        BY <1>1, <1>2, <1>3, <2>1 DEF StageOf, Pending
      <3>3. Agrees(i)'
        BY <3>1 DEF Agrees
      <3>4. QED
        BY <1>1, <3>1, <3>2, <3>3
    <2>2. CASE req[r].op = "create"
      <3>1. PICK v \in Row : v = req[r].new /\ v = row'[i]
        BY <1>2, <1>3, <2>2, CommitTo DEF FormOf
      <3>2. Owned(i, v)
        BY <1>2, <1>3, <3>1 DEF OwnedBy
      <3>3. Owned(i, row[i])'
        BY <1>1, <3>1, <3>2 DEF Owned
      <3>4. ASSUME i \notin spoilt PROVE Agrees(i)'
        <4>1. Listed(i, v) /\ Told(i, Candidate, v.at, v.ids) /\ Told(i, v.who, v.at, v.ids)
          BY <1>1, <1>2, <1>3, <2>2, <3>1, <3>4 DEF StageOf
        <4>2. Listed(i, row[i])'
          BY <1>1, <3>1, <4>1 DEF Listed, Pending
        <4>3. \A p \in {Candidate, row'[i].who} : Told(i, p, row[i].at, row[i].ids)'
          BY <1>1, <3>1, <4>1 DEF Told
        <4>4. QED
          BY <4>2, <4>3 DEF Agrees
      <3>5. row'[i] # None
        BY <3>1, NotNone
      <3>6. QED
        BY <1>1, <3>3, <3>4, <3>5
    <2>3. CASE req[r].op = "update" /\ row[i] = None
      <3>1. row'[i] = None
        BY <1>3, <2>3, CommitTo
      <3>2. i \in spoilt
        BY <1>2, <1>3, <2>3 DEF StageOf
      <3>3. QED
        BY <1>1, <3>1, <3>2
    <2>4. CASE req[r].op = "update" /\ row[i] # None
      <3>1. PICK v \in Row : v = req[r].new
        BY <1>2, <2>4 DEF FormOf
      <3>2. PICK old \in Row : old = req[r].old
        BY <1>2, <2>4 DEF FormOf
      <3>3. PICK cur \in Row : cur = row[i]
        BY <1>1, <2>4
      <3>4. row'[i] = Flush(cur, old, v)
        BY <1>3, <2>4, <3>1, <3>2, <3>3, CommitTo
      <3>5. /\ row'[i] \in Row /\ row'[i] # None
            /\ row'[i].ids = v.ids \/ row'[i].ids = cur.ids
            /\ cur.at = old.at /\ cur.who = old.who /\ cur.ids = old.ids =>
                 row'[i].at = v.at /\ row'[i].who = v.who /\ row'[i].ids = v.ids
        BY <3>4, FlushFields, NotNone
      <3>6. Owned(i, v) /\ Owned(i, cur)
        BY <1>2, <1>3, <2>4, <3>1, <3>3 DEF OwnedBy
      <3>7. Owned(i, row[i])'
        BY <1>1, <3>5, <3>6 DEF Owned
      <3>8. ASSUME i \notin spoilt PROVE Agrees(i)'
        <4>1. /\ Listed(i, v) /\ Told(i, Candidate, v.at, v.ids) /\ Told(i, v.who, v.at, v.ids)
              /\ cur.at = old.at /\ cur.who = old.who /\ cur.ids = old.ids
          BY <1>1, <1>2, <1>3, <2>4, <3>1, <3>2, <3>3, <3>8 DEF StageOf
        <4>2. row'[i].at = v.at /\ row'[i].who = v.who /\ row'[i].ids = v.ids
          BY <3>5, <4>1
        <4>3. Listed(i, row[i])'
          BY <1>1, <4>1, <4>2 DEF Listed, Pending
        <4>4. \A p \in {Candidate, row'[i].who} : Told(i, p, row[i].at, row[i].ids)'
          BY <1>1, <4>1, <4>2 DEF Told
        <4>5. QED
          BY <4>3, <4>4 DEF Agrees
      <3>9. QED
        BY <1>1, <3>5, <3>7, <3>8
    <2>5. QED
      BY <1>2, <2>1, <2>2, <2>3, <2>4
  <1>7. QED
    BY <1>1, <1>2, <1>3, <1>4, <1>5, <1>6, BlankType, BlankOwned, SoundStep

\* A grader's request leaves the managers', and what the rows list, as they are.
LEMMA SoundGrader ==
    ASSUME IInv, SoundInv, NEW r \in Req, r \notin Manager, NEW q \in Request,
           req' = [req EXCEPT ![r] = q], OwnedBy(q), UNCHANGED <<waiting, mail, spoilt>>,
           \A x \in Interview :
             /\ row[x] = None <=> row'[x] = None
             /\ row[x] # None =>
                  row'[x].at = row[x].at /\ row'[x].who = row[x].who /\ row'[x].ids = row[x].ids
    PROVE  SoundInv'
  <1>1. req'[r] = q /\ \A s \in Req : s # r => req'[s] = req[s]
    BY Others DEF IInv
  <1>2. ASSUME NEW s \in Req PROVE OwnedBy(req[s])'
    <2>1. PICK p : p = req'[s] /\ OwnedBy(p)
      BY <1>1 DEF SoundInv, Ownership
    <2>2. QED
      BY <2>1 DEF OwnedBy, Owned
  <1>3. \A s \in Manager : req'[s] = req[s]
    BY <1>1, ManagerOrGrader
  <1>4. QED
    BY <1>2, <1>3, SoundSame

LEMMA SoundEvaluateRead ==
    ASSUME IInv, SoundInv, NEW r \in Req, NEW i \in Interview, EvaluateRead(r, i)
    PROVE  SoundInv'
  <1>1. PICK q \in Request :
             /\ req' = [req EXCEPT ![r] = q]
             /\ q.pc = "commit" /\ q.op = "evaluate" /\ q.of = i /\ q.old = row[i] /\ q.new \in Row
             /\ q.new.status = "Completed"
             /\ q.new.at = q.old.at /\ q.new.who = q.old.who /\ q.new.ids = q.old.ids
             /\ q.cancel = {}
    BY EvaluateReadTo
  <1>2. r \notin Manager /\ row[i] # None /\ UNCHANGED <<waiting, mail, row, spoilt>>
    BY ManagerOrGrader DEF EvaluateRead
  <1>3. Owned(i, row[i])
    BY <1>2 DEF SoundInv, Ownership
  <1>4. OwnedBy(q)
    BY <1>1, <1>3 DEF OwnedBy, Owned
  <1>5. QED
    BY <1>1, <1>2, <1>4, SoundGrader

\* The transaction of an evaluation writes the status only.
LEMMA SoundEvaluation ==
    ASSUME IInv, SoundInv, NEW r \in Req, Commit(r), req[r].op = "evaluate"
    PROVE  SoundInv'
  <1>1. /\ req' = [req EXCEPT ![r] = Blank] /\ req[r].pc = "commit"
        /\ \A x \in Interview : x # req[r].of => row'[x] = row[x]
        /\ row \in [Interview -> Row \cup {None}] /\ FormOf(r, req[r])
        /\ UNCHANGED <<waiting, mail, spoilt>>
    BY CommitTo DEF Commit, IInv, TypeOK
  <1>2. r \notin Manager
    BY <1>1 DEF FormOf
  <1>3. ASSUME NEW x \in Interview
        PROVE  /\ row[x] = None <=> row'[x] = None
               /\ row[x] # None =>
                    row'[x].at = row[x].at /\ row'[x].who = row[x].who /\ row'[x].ids = row[x].ids
    <2>1. CASE x # req[r].of
      BY <1>1, <2>1
    <2>2. CASE x = req[r].of /\ row[x] = None
      BY <2>2, CommitTo
    <2>3. CASE x = req[r].of /\ row[x] # None
      <3>1. PICK cur \in Row, old \in Row, new \in Row :
               /\ cur = row[x] /\ old = req[r].old /\ new = req[r].new
               /\ new.at = old.at /\ new.who = old.who /\ new.ids = old.ids
        BY <1>1, <2>3 DEF FormOf
      <3>2. row'[x] = Flush(cur, old, new)
        BY <2>3, <3>1, CommitTo
      <3>3. QED
        BY <2>3, <3>1, <3>2, FlushFields, NotNone
    <2>4. QED
      BY <2>1, <2>2, <2>3
  <1>4. QED
    BY <1>1, <1>2, <1>3, BlankType, BlankOwned, SoundGrader

LEMMA InitSound == Init => SoundInv
  <1> SUFFICES ASSUME Init PROVE SoundInv
    OBVIOUS
  <1>1. \A i \in Interview : row[i] = None /\ Pending(i) = {}
    BY DEF Init, Pending
  <1>2. \A r \in Req : ~Busy(r) /\ req[r] = Blank
    BY DEF Init, Busy, Blank
  <1>3. Met /\ Track
    BY <1>1, <1>2, ManagerOrGrader DEF Met, Track, Agrees
  <1>4. Ownership
    BY <1>1, <1>2, BlankOwned DEF Ownership
  <1>5. QED
    BY <1>3, <1>4 DEF SoundInv

LEMMA StepSound ==
    ASSUME IInv, SoundInv, [Next]_vars
    PROVE  SoundInv'
  <1>1. ASSUME UNCHANGED <<waiting, mail, row, spoilt, req>> PROVE SoundInv'
    <2>1. ASSUME NEW s \in Req PROVE OwnedBy(req[s])'
      <3>1. OwnedBy(req[s])
        BY DEF SoundInv, Ownership
      <3>2. QED
        BY <1>1, <3>1 DEF OwnedBy, Owned
    <2>2. QED
      BY <1>1, <2>1, SoundSame
  <1>2. CASE Tick
    BY <1>1, <1>2 DEF Tick
  <1>3. ASSUME NEW j \in Job, Fire(j) PROVE SoundInv'
    BY <1>3, SoundFire
  <1>4. ASSUME NEW r \in Req, Step(r) PROVE SoundInv'
    <2>1. ASSUME NEW i \in Interview, NEW at \in Time, NEW who \in Interviewer,
                 CreateRead(r, i, at, who) \/ UpdateRead(r, i, at, who)
          PROVE  SoundInv'
      BY <2>1, SoundCreateRead, SoundUpdateRead
    <2>2. ASSUME NEW i \in Interview, DeleteRead(r, i) \/ EvaluateRead(r, i) PROVE SoundInv'
      BY <2>2, SoundDeleteRead, SoundEvaluateRead
    <2>3. ASSUME NEW j \in Job, Cancel(r, j) \/ Schedule(r, j) PROVE SoundInv'
      BY <2>3, SoundCancel, SoundSchedule
    <2>4. CASE CancelDone(r)
      BY <2>4, SoundCancelDone
    <2>5. CASE ScheduleFails(r)
      BY <2>5, SoundScheduleFails
    <2>6. CASE Commit(r)
      BY <2>6, SoundCommit, SoundEvaluation
    <2>7. CASE Abort(r)
      BY <2>7, SoundAbort
    <2>8. QED
      BY <1>4, <2>1, <2>2, <2>3, <2>4, <2>5, <2>6, <2>7 DEF Step
  <1>5. CASE UNCHANGED vars
    BY <1>1, <1>5 DEF vars
  <1>6. QED
    BY <1>2, <1>3, <1>4, <1>5 DEF Next

\* What the tracking says of interviews nobody works on.
LEMMA SoundRight == IInv /\ SoundInv => RemindersRight
  <1> SUFFICES ASSUME IInv, SoundInv PROVE RemindersRight
    OBVIOUS
  <1>1. TypeOK
    BY DEF IInv
  <1>2. RemindersMatch
    <2> SUFFICES ASSUME NEW j \in Job, waiting[j] # None, Quiet(waiting[j].of),
                        waiting[j].of \notin spoilt
                 PROVE  LET cur == row[waiting[j].of] IN
                        /\ cur # None /\ j \in cur.ids /\ waiting[j].at = cur.at
                        /\ waiting[j].to \in {Candidate, cur.who}
      BY DEF RemindersMatch
    <2>1. PICK i \in Interview : i = waiting[j].of
      BY <1>1 DEF TypeOK, Reminder
    <2>2. Agrees(i) /\ (row[i] = None => Pending(i) = {}) /\ j \in Pending(i)
      BY <2>1 DEF SoundInv, Track, Pending
    <2>3. row[i] # None /\ Listed(i, row[i])
      BY <2>2 DEF Agrees
    <2>4. QED
      BY <2>1, <2>2, <2>3 DEF Listed
  <1>3. BothReminded
    <2> SUFFICES ASSUME NEW i \in Interview, i \notin spoilt, row[i] # None, Quiet(i),
                        NEW p \in {Candidate, row[i].who}
                 PROVE  \/ [of |-> i, to |-> p, at |-> row[i].at] \in mail
                        \/ \E j \in row[i].ids : /\ waiting[j] # None
                                                 /\ waiting[j].to = p
                                                 /\ waiting[j].at = row[i].at
      BY DEF BothReminded
    <2>1. Told(i, p, row[i].at, row[i].ids)
      BY DEF SoundInv, Track, Agrees
    <2>2. QED
      BY <2>1 DEF Told
  <1>4. QED
    BY <1>1, <1>2, <1>3 DEF RemindersRight

\* Any number of managers work at once, on the same interviews and on others,
\* and anything may fail: at every interview where no call failed and no two
\* managers met, every waiting reminder belongs to the interview as it stands,
\* and both sides have been or will be told the right time (update_interview and
\* delete_interview of interviews.py, with interview_scheduler.py).  That what
\* happens at one interview cannot spoil another rests on Ownership: the ids a
\* request cancels are only ever those of its own interview.
THEOREM RemindersFollow == Spec => []RemindersRight
  <1>1. Spec => []IInv
    BY Invariant
  <1>2. IInv /\ SoundInv /\ [Next]_vars => SoundInv'
    BY StepSound
  <1>3. QED
    BY <1>1, <1>2, InitSound, SoundRight, PTL DEF Spec

=============================================================================
