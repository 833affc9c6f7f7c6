--------------------------- MODULE AccountsProofs ---------------------------
(***************************************************************************)
(* Proofs about Accounts for any accounts, any requests in any mix, any    *)
(* number of faults and any limits.                                        *)
(***************************************************************************)
EXTENDS Accounts, FiniteSetTheorems, TLAPS

(***************************************************************************)
(* The shape of the state.                                                 *)
(***************************************************************************)

Asks == {s[r] : s \in Scenarios, r \in Reqs}

Logins == {q \in Asks : q.kind = "login"}

Scope == {"public", "tenant", "system"}

Alert == {"none", "suspicious", "new_device"}

RegisterPC == {"register", "hash", "owner", "company", "commit", "exit", "insert", "refresh"}
StaffPC == {"staff", "staff_email", "insert", "refresh"}
LoginPC == {"login", "verify", "assess", "store", "alert"}
ResetPC == {"reset", "reset_user", "reset_commit", "reset_delete"}

PC == {"start", "forgot", "done"} \cup RegisterPC \cup StaffPC \cup LoginPC \cup ResetPC

Request ==
    [q : Asks, pc : PC, ctx : Scope, tx : Scope \cup {"none"}, code : Nat,
     seen : User \cup {NoUser}, alert : Alert, at : Nat, after : BOOLEAN, fresh : BOOLEAN,
     stored : BOOLEAN, result : Nat, spentAtStart : SUBSET Nat]

Task == [kind : {"otp", "welcome"}, email : Emails, code : Nat, pc : {"set", "mail"}]

Job == [kind : {"otp", "welcome", "suspicious", "new_device"}, email : Emails, arg : Nat,
        by : Reqs \cup {0}, tries : 1 .. MaxTries]

Mail == [kind : {"otp", "welcome", "suspicious", "new_device"}, email : Emails, arg : Nat,
         by : Reqs \cup {0}]

Entry == [member : {"ua", "ip"} \X ({q.ua : q \in Logins} \cup {q.ip : q \in Logins}), score : Nat]

Visit == [place : {q.place : q \in Logins}, at : Nat]

DbShape ==
    /\ users \in [Emails -> User \cup {NoUser}]
    /\ companies \subseteq Emails
    /\ pending \in [Emails -> Reqs \cup {0}]

CodeShape == issued \in Nat /\ otp \in [Emails -> 0 .. issued] /\ spent \subseteq 1 .. issued

MailShape == tasks \subseteq Task /\ jobs \subseteq Job /\ sent \subseteq Mail

DeviceShape ==
    /\ known \in [Emails -> SUBSET Entry]
    /\ history \in [Emails -> Seq(Visit)] /\ (\A e \in Emails : Len(history[e]) <= HistoryMax)
    /\ clock \in Nat

\* Every request is where a request of its kind can be, with the row it has read.
KindOK(r) ==
    /\ req[r].pc \in RegisterPC \ StaffPC => Q(r).kind = "register"
    /\ req[r].pc \in StaffPC \ RegisterPC => Q(r).kind = "staff"
    /\ req[r].pc \in {"insert", "refresh"} => Q(r).kind \in {"register", "staff"}
    /\ req[r].pc \in LoginPC => Q(r).kind = "login"
    /\ req[r].pc \in ResetPC => Q(r).kind = "reset"
    /\ req[r].pc = "forgot" => Q(r).kind = "forgot"
    /\ req[r].result = 201 => Q(r).kind \in {"register", "staff"}
    /\ req[r].result # 0 => req[r].pc = "done"

RowOK(r) ==
    /\ req[r].pc = "reset_commit" => users[Q(r).email] # NoUser
    /\ req[r].pc \in {"staff_email", "insert"} /\ Q(r).kind = "staff" => req[r].seen \in User

Shape ==
    /\ DbShape /\ CodeShape /\ MailShape /\ DeviceShape
    /\ req \in [Reqs -> Request]
    /\ fails \in 0 .. MaxFails
    /\ \A r \in Reqs : KindOK(r) /\ RowOK(r)

(***************************************************************************)
(* The four invariants: each is inductive together with Shape.             *)
(***************************************************************************)

\* Inside system_scope, and only there, the context and the open transaction are the
\* owner's.
ScopeOK(r) ==
    /\ req[r].tx = "system" => req[r].pc \in {"owner", "company", "commit"}
    /\ req[r].pc \in {"company", "commit"} => req[r].tx = "system"
    /\ req[r].ctx = "system" => req[r].pc \in {"owner", "company", "commit", "exit", "done"}
    /\ req[r].pc \in {"owner", "company"} => req[r].ctx = "system"
    /\ req[r].pc = "owner" => req[r].tx \in {"none", "system"}
    /\ req[r].pc = "exit" => req[r].tx = "none"

\* The request that won its e-mail, answered or about to be.
Winner(r) ==
    Q(r).kind \in {"register", "staff"} /\ (req[r].result = 201 \/ req[r].pc \in {"exit", "refresh"})

Resets(e) == {r \in Reqs : Q(r).kind = "reset" /\ Q(r).email = e}

\* An e-mail that is being registered is free, held by one request; a winner has its row.
RegisterOK(r) ==
    /\ req[r].pc \in {"company", "commit"} =>
          pending[Q(r).email] = r /\ users[Q(r).email] = NoUser
    /\ req[r].pc \in {"staff_email", "insert"} /\ Q(r).kind = "staff" =>
          req[r].seen.tenant \in companies
    /\ Winner(r) =>
          /\ users[Q(r).email] # NoUser
          /\ users[Q(r).email].pw \in {Q(r).pw} \cup {Q(p).pw : p \in Resets(Q(r).email)}
          /\ (users[Q(r).email].role = "HR_Manager") <=> (Q(r).kind = "staff")

UniqueWinner ==
    \A p, r \in Reqs : Winner(p) /\ Winner(r) /\ Q(p).email = Q(r).email => p = r

Registered == TenantIntact /\ UniqueWinner /\ \A r \in Reqs : RegisterOK(r)

\* Every code has one owner, wherever it travels; a code that is not stored yet has not
\* been seen, and one whose deletion completed is stored nowhere.
OwnedBy(owner) ==
    /\ \A t \in tasks : t.kind = "otp" => t.code \in 1 .. issued /\ owner[t.code] = t.email
    /\ \A j \in jobs : j.kind = "otp" => j.arg \in 1 .. issued /\ owner[j.arg] = j.email
    /\ \A m \in sent : m.kind = "otp" => m.arg \in 1 .. issued /\ owner[m.arg] = m.email
    /\ \A e \in Emails : otp[e] # 0 => owner[otp[e]] = e

FreshOK(t) ==
    t.kind = "otp" /\ t.pc = "set" =>
        /\ t.code \notin spent
        /\ \A e \in Emails : otp[e] # t.code
        /\ \A r \in Reqs : req[r].code # t.code
        /\ \A u \in tasks : u.kind = "otp" /\ u.code = t.code => u = t

CodeOK(r) ==
    /\ req[r].spentAtStart \subseteq spent
    /\ req[r].code # 0 =>
          /\ req[r].code \in 1 .. issued
          /\ req[r].code \notin req[r].spentAtStart
          /\ \E m \in sent : m.kind = "otp" /\ m.arg = req[r].code /\ m.email = Q(r).email
    /\ req[r].pc \in {"reset_user", "reset_commit", "reset_delete"} => req[r].code # 0
    /\ req[r].pc \in {"start", "reset"} => req[r].code = 0

Coded ==
    /\ \E owner \in [1 .. issued -> Emails] : OwnedBy(owner)
    /\ \A t \in tasks : FreshOK(t) /\ (t.pc = "set" => t.kind = "otp")
    /\ \A c \in spent, e \in Emails : otp[e] # c
    /\ \A r \in Reqs : CodeOK(r)

\* The history of an account is not empty once a login was stored, and a remembered
\* browser is one of a stored login.
DeviceOK(r) ==
    Q(r).kind = "login" =>
        /\ req[r].stored => history[Q(r).email] # <<>>
        /\ req[r].pc = "alert" \/ req[r].result = 200 => req[r].stored
        /\ req[r].after => history[Q(r).email] # <<>>
        /\ (req[r].pc \in {"store", "alert"} \/ req[r].result = 200) /\ req[r].after /\ req[r].fresh
              => req[r].alert # "none"

Told ==
    /\ \A r \in Reqs : DeviceOK(r)
    /\ \A e \in Emails : \A m \in known[e] : m.member[1] = "ua" =>
          \E p \in Reqs : Q(p).kind = "login" /\ Q(p).email = e /\ Q(p).ua = m.member[2]
                          /\ req[p].stored

Scoped == \A r \in Reqs : ScopeOK(r)

IInv == Shape /\ Scoped /\ Registered /\ Coded /\ Told

-----------------------------------------------------------------------------
(***************************************************************************)
(* What each action does to its request.                                   *)
(***************************************************************************)

LEMMA AskOK ==
    ASSUME NEW q \in Asks
    PROVE  /\ q.kind \in Kind /\ q.email \in Emails
           /\ q.kind \in {"register", "staff", "reset"} => q.pw \in STRING
           /\ q.kind = "staff" => q.by \in Emails
  BY ScenarioAssumption DEF Asks

Others(r) == /\ req' \in [Reqs -> Request] /\ req'[r].q = req[r].q
             /\ \A p \in Reqs \ {r} : req'[p] = req[p]

SameScope(r) == req'[r].ctx = req[r].ctx /\ req'[r].tx = req[r].tx

SameCode(r) == req'[r].code = req[r].code /\ req'[r].spentAtStart = req[r].spentAtStart

SameLogin(r) ==
    /\ req'[r].alert = req[r].alert
    /\ (req'[r].after <=> req[r].after) /\ (req'[r].fresh <=> req[r].fresh)
    /\ (req'[r].stored <=> req[r].stored)

\* The request answers.
Answers(r, status) ==
    /\ Others(r) /\ SameCode(r) /\ SameLogin(r)
    /\ req'[r].pc = "done" /\ req'[r].result = status
    /\ req'[r].ctx = req[r].ctx /\ req'[r].tx = "none" /\ req'[r].seen = req[r].seen

\* The request goes on and keeps everything but its scope.
GoesTo(r, pc) ==
    /\ Others(r) /\ SameCode(r) /\ SameLogin(r)
    /\ req'[r].pc = pc /\ req'[r].result = req[r].result /\ req'[r].seen = req[r].seen

LEMMA ScopeType ==
    ASSUME req \in [Reqs -> Request], NEW r \in Reqs
    PROVE  /\ TxScope(r) \in Scope /\ ContextFromToken(Q(r)) \in Scope \ {"system"}
           /\ req[r] \in Request
  BY DEF TxScope, ContextFromToken, Scope, Request

LEMMA AnswerEffect ==
    ASSUME req \in [Reqs -> Request], NEW r \in Reqs, NEW status \in Nat, req' = Answer(r, status)
    PROVE  Answers(r, status)
  <1>1. /\ req' = [req EXCEPT ![r].pc = "done", ![r].tx = "none", ![r].result = status]
        /\ req[r] \in Request /\ "done" \in PC
    BY DEF Answer, PC
  <1>2. /\ req'[r] = [req[r] EXCEPT !.pc = "done", !.tx = "none", !.result = status]
        /\ \A p \in Reqs \ {r} : req'[p] = req[p]
    BY <1>1
  <1>3. req'[r] \in Request
    BY <1>1, <1>2 DEF Request
  <1>4. req' \in [Reqs -> Request]
    BY <1>1, <1>2, <1>3
  <1>5. QED
    BY <1>1, <1>2, <1>4 DEF Request, Answers, Others, SameCode, SameLogin

LEMMA RanEffect ==
    ASSUME req \in [Reqs -> Request], NEW r \in Reqs, NEW pc \in PC, req' = Ran(r, pc)
    PROVE  GoesTo(r, pc) /\ req'[r].ctx = req[r].ctx /\ req'[r].tx = TxScope(r)
  <1>1. /\ req' = [req EXCEPT ![r].pc = pc, ![r].tx = TxScope(r)]
        /\ req[r] \in Request /\ TxScope(r) \in Scope
    BY ScopeType DEF Ran
  <1>2. /\ req'[r] = [req[r] EXCEPT !.pc = pc, !.tx = TxScope(r)]
        /\ \A p \in Reqs \ {r} : req'[p] = req[p]
    BY <1>1
  <1>3. req'[r] \in Request
    BY <1>1, <1>2 DEF Request
  <1>4. req' \in [Reqs -> Request]
    BY <1>1, <1>2, <1>3
  <1>5. QED
    BY <1>1, <1>2, <1>4 DEF Request, GoesTo, Others, SameCode, SameLogin

\* A change of scope, of the transaction or of nothing but the place in the handler.
Moved(r, pc, ctx, tx) ==
    \/ req' = [req EXCEPT ![r].pc = pc, ![r].ctx = ctx, ![r].tx = tx]
    \/ req' = [req EXCEPT ![r].pc = pc, ![r].tx = tx] /\ ctx = req[r].ctx
    \/ req' = [req EXCEPT ![r].pc = pc] /\ ctx = req[r].ctx /\ tx = req[r].tx

LEMMA ScopeEffect ==
    ASSUME req \in [Reqs -> Request], NEW r \in Reqs, NEW pc \in PC,
           NEW ctx \in Scope, NEW tx \in Scope \cup {"none"}, Moved(r, pc, ctx, tx)
    PROVE  GoesTo(r, pc) /\ req'[r].ctx = ctx /\ req'[r].tx = tx
  <1>0. req[r] \in Request
    OBVIOUS
  <1>1. /\ \/ req'[r] = [req[r] EXCEPT !.pc = pc, !.ctx = ctx, !.tx = tx]
           \/ req'[r] = [req[r] EXCEPT !.pc = pc, !.tx = tx] /\ ctx = req[r].ctx
           \/ req'[r] = [req[r] EXCEPT !.pc = pc] /\ ctx = req[r].ctx /\ tx = req[r].tx
        /\ \A p \in Reqs \ {r} : req'[p] = req[p]
    BY DEF Moved
  <1>2. req'[r] \in Request
    BY <1>0, <1>1 DEF Request
  <1>3. req' \in [Reqs -> Request]
    BY <1>1, <1>2 DEF Moved
  <1>4. QED
    BY <1>0, <1>1, <1>3 DEF Request, GoesTo, Others, SameCode, SameLogin

LEMMA StartEffect ==
    ASSUME Shape, NEW r \in Reqs, Start(r)
    PROVE  /\ Others(r) /\ SameScope(r) /\ req'[r].pc = Q(r).kind
           /\ req'[r].code = req[r].code /\ req'[r].spentAtStart = spent
           /\ req'[r].result = req[r].result /\ req'[r].seen = req[r].seen
           /\ req'[r].alert = req[r].alert
           /\ (req'[r].fresh <=> req[r].fresh) /\ (req'[r].stored <=> req[r].stored)
           /\ req'[r].after <=> \E p \in Reqs : /\ Q(p).kind = "login" /\ req[p].result = 200
                                                /\ Q(p).email = Q(r).email
  <1>0. /\ req \in [Reqs -> Request] /\ req[r] \in Request /\ spent \in SUBSET Nat
        /\ Q(r).kind \in Kind
    BY AskOK DEF Shape, CodeShape, Request, Q
  <1>1. PICK S \in SUBSET Nat, pc \in PC, a \in BOOLEAN :
            /\ S = spent /\ pc = Q(r).kind
            /\ a = \E p \in Reqs : /\ Q(p).kind = "login" /\ req[p].result = 200
                                   /\ Q(p).email = Q(r).email
    BY <1>0 DEF Kind, PC, RegisterPC, StaffPC, LoginPC, ResetPC
  <1>2. req' = [req EXCEPT ![r].pc = pc, ![r].spentAtStart = S, ![r].after = a]
    BY <1>1 DEF Start
  <1>3. /\ req'[r] = [req[r] EXCEPT !.pc = pc, !.spentAtStart = S, !.after = a]
        /\ \A p \in Reqs \ {r} : req'[p] = req[p]
    BY <1>0, <1>2
  <1>4. req'[r] \in Request
    BY <1>0, <1>3 DEF Request
  <1>5. req' \in [Reqs -> Request]
    BY <1>0, <1>2, <1>4
  <1>6. QED
    BY <1>0, <1>1, <1>3, <1>5 DEF Request, Others, SameScope

\* A row is read and kept: LoginSelect, and AuthStaff when the admin may go on.
Reads(r, pc, u) == req' = [Ran(r, pc) EXCEPT ![r].seen = u]

LEMMA SeenEffect ==
    ASSUME req \in [Reqs -> Request], NEW r \in Reqs, NEW pc \in PC, NEW u \in User \cup {NoUser},
           Reads(r, pc, u)
    PROVE  /\ Others(r) /\ SameCode(r) /\ SameLogin(r) /\ req'[r].pc = pc
           /\ req'[r].result = req[r].result /\ req'[r].seen = u
           /\ req'[r].ctx = req[r].ctx /\ req'[r].tx = TxScope(r)
  <1>0. req[r] \in Request /\ TxScope(r) \in Scope
    BY ScopeType
  <1>1. PICK a : a = [req[r] EXCEPT !.pc = pc, !.tx = TxScope(r)]
    OBVIOUS
  <1>2. /\ a \in Request /\ a.pc = pc /\ a.tx = TxScope(r) /\ a.q = req[r].q
        /\ a.ctx = req[r].ctx /\ a.code = req[r].code /\ a.alert = req[r].alert
        /\ a.result = req[r].result /\ a.spentAtStart = req[r].spentAtStart
        /\ (a.after <=> req[r].after) /\ (a.fresh <=> req[r].fresh) /\ (a.stored <=> req[r].stored)
    BY <1>0, <1>1 DEF Request
  <1>3. PICK b : b = [a EXCEPT !.seen = u]
    OBVIOUS
  <1>4. req' = [req EXCEPT ![r] = b]
    BY <1>1, <1>3 DEF Ran, Reads
  <1>5. /\ b \in Request /\ b.seen = u /\ b.pc = a.pc /\ b.tx = a.tx /\ b.q = a.q
        /\ b.ctx = a.ctx /\ b.code = a.code /\ b.alert = a.alert /\ b.result = a.result
        /\ b.spentAtStart = a.spentAtStart
        /\ (b.after <=> a.after) /\ (b.fresh <=> a.fresh) /\ (b.stored <=> a.stored)
    BY <1>2, <1>3 DEF Request
  <1>6. req'[r] = b /\ req' \in [Reqs -> Request] /\ \A p \in Reqs \ {r} : req'[p] = req[p]
    BY <1>4, <1>5
  <1>7. QED
    BY <1>2, <1>5, <1>6 DEF Others, SameCode, SameLogin

LEMMA RefreshEffect ==
    ASSUME Shape, NEW r \in Reqs, Refresh(r)
    PROVE  /\ Others(r) /\ SameCode(r) /\ SameLogin(r)
           /\ req'[r].pc = "done" /\ req'[r].result = 201 /\ req'[r].seen = req[r].seen
           /\ req'[r].ctx = req[r].ctx /\ req'[r].tx = TxScope(r)
  <1>0. req[r] \in Request /\ TxScope(r) \in Scope /\ req \in [Reqs -> Request] /\ "done" \in PC
    BY ScopeType DEF Shape, PC
  <1>1. req' = [Answer(r, 201) EXCEPT ![r].tx = TxScope(r)]
    BY DEF Refresh
  <1>s. PICK n \in Nat : n = 201
    OBVIOUS
  <1>2. PICK a : a = [req[r] EXCEPT !.pc = "done", !.tx = "none", !.result = n]
    OBVIOUS
  <1>3. /\ a \in Request /\ a.pc = "done" /\ a.result = n /\ a.q = req[r].q
        /\ a.ctx = req[r].ctx /\ a.code = req[r].code /\ a.alert = req[r].alert
        /\ a.seen = req[r].seen /\ a.spentAtStart = req[r].spentAtStart
        /\ (a.after <=> req[r].after) /\ (a.fresh <=> req[r].fresh) /\ (a.stored <=> req[r].stored)
    BY <1>0, <1>2 DEF Request
  <1>4. PICK b : b = [a EXCEPT !.tx = TxScope(r)]
    OBVIOUS
  <1>5. req' = [req EXCEPT ![r] = b]
    BY <1>0, <1>1, <1>s, <1>2, <1>4 DEF Answer
  <1>6. /\ b \in Request /\ b.result = a.result /\ b.pc = a.pc /\ b.tx = TxScope(r) /\ b.q = a.q
        /\ b.ctx = a.ctx /\ b.code = a.code /\ b.alert = a.alert /\ b.seen = a.seen
        /\ b.spentAtStart = a.spentAtStart
        /\ (b.after <=> a.after) /\ (b.fresh <=> a.fresh) /\ (b.stored <=> a.stored)
    BY <1>0, <1>3, <1>4 DEF Request
  <1>7. req'[r] = b /\ req' \in [Reqs -> Request] /\ \A p \in Reqs \ {r} : req'[p] = req[p]
    BY <1>0, <1>5, <1>6
  <1>8. QED
    BY <1>s, <1>3, <1>6, <1>7 DEF Others, SameCode, SameLogin

LEMMA VerifyEffect ==
    ASSUME Shape, NEW r \in Reqs, LoginVerify(r)
    PROVE  Answers(r, 401) \/ (GoesTo(r, "assess") /\ SameScope(r))
  <1>0. req[r] \in Request /\ req \in [Reqs -> Request] /\ clock \in Nat /\ "assess" \in PC
    BY DEF Shape, DeviceShape, PC, LoginPC
  <1>1. CASE req' = Answer(r, 401)
    BY <1>0, <1>1, AnswerEffect
  <1>2. CASE req' = [req EXCEPT ![r].pc = "assess", ![r].at = clock]
    <2>1. /\ req'[r] = [req[r] EXCEPT !.pc = "assess", !.at = clock]
          /\ \A p \in Reqs \ {r} : req'[p] = req[p]
      BY <1>0, <1>2
    <2>2. req'[r] \in Request
      <3>1. PICK t \in Nat : req'[r] = [req[r] EXCEPT !.pc = "assess", !.at = t]
        BY <1>0, <2>1
      <3>2. QED
        BY <1>0, <3>1 DEF Request
    <2>3. req' \in [Reqs -> Request]
      BY <1>0, <1>2, <2>2
    <2>4. QED
      BY <1>0, <2>1, <2>3 DEF Request, GoesTo, Others, SameCode, SameLogin, SameScope
  <1>3. QED
    BY <1>1, <1>2 DEF LoginVerify

LEMMA AssessType ==
    ASSUME NEW members, NEW past, NEW q, NEW t
    PROVE  AssessLogin(members, past, q, t) \in Alert
  BY DEF AssessLogin, Alert

LEMMA AssessEffect ==
    ASSUME Shape, NEW r \in Reqs, LoginAssess(r)
    PROVE  \/ Answers(r, 503) /\ fails < MaxFails /\ fails' = fails + 1
           \/ /\ Others(r) /\ SameCode(r) /\ SameScope(r) /\ fails' = fails
              /\ req'[r].pc = "store" /\ req'[r].result = req[r].result
              /\ req'[r].seen = req[r].seen
              /\ (req'[r].after <=> req[r].after) /\ (req'[r].stored <=> req[r].stored)
              /\ req'[r].alert =
                    AssessLogin(Members(Q(r).email), history[Q(r).email], Q(r), req[r].at)
              /\ req'[r].fresh <=> \A p \in Reqs : Q(p).kind = "login" =>
                                        \/ Q(p).email # Q(r).email \/ Q(p).ua # Q(r).ua
                                        \/ ~req[p].stored
  <1>0. req[r] \in Request /\ req \in [Reqs -> Request] /\ "store" \in PC
    BY DEF Shape, PC, LoginPC
  <1>1. CASE req' = Answer(r, 503) /\ fails < MaxFails /\ fails' = fails + 1
    BY <1>0, <1>1, AnswerEffect
  <1>2. CASE ~(req' = Answer(r, 503) /\ fails < MaxFails /\ fails' = fails + 1)
    <2>1. PICK a \in Alert, f \in BOOLEAN :
              /\ a = AssessLogin(Members(Q(r).email), history[Q(r).email], Q(r), req[r].at)
              /\ f = \A p \in Reqs : Q(p).kind = "login" =>
                                        \/ Q(p).email # Q(r).email \/ Q(p).ua # Q(r).ua
                                        \/ ~req[p].stored
      BY AssessType
    <2>2. req' = [req EXCEPT ![r].pc = "store", ![r].alert = a, ![r].fresh = f] /\ fails' = fails
      BY <1>2, <2>1 DEF LoginAssess
    <2>3. /\ req'[r] = [req[r] EXCEPT !.pc = "store", !.alert = a, !.fresh = f]
          /\ \A p \in Reqs \ {r} : req'[p] = req[p]
      BY <1>0, <2>2
    <2>4. req'[r] \in Request
      BY <1>0, <2>3 DEF Request
    <2>5. req' \in [Reqs -> Request]
      BY <1>0, <2>2, <2>4
    <2>6. QED
      BY <1>0, <2>1, <2>2, <2>3, <2>5 DEF Request, Others, SameCode, SameScope
  <1>3. QED
    BY <1>1, <1>2

LEMMA StoreEffect ==
    ASSUME Shape, NEW r \in Reqs, LoginStore(r)
    PROVE  \/ Answers(r, 503) /\ fails < MaxFails /\ fails' = fails + 1 /\ UNCHANGED <<known, history>>
           \/ /\ Others(r) /\ SameCode(r) /\ SameScope(r) /\ fails' = fails
              /\ req'[r].pc = "alert" /\ req'[r].result = req[r].result
              /\ req'[r].seen = req[r].seen /\ req'[r].stored /\ req'[r].alert = req[r].alert
              /\ (req'[r].after <=> req[r].after) /\ (req'[r].fresh <=> req[r].fresh)
              /\ known' = [known EXCEPT ![Q(r).email] = Remember(@, Q(r), req[r].at)]
              /\ history' = [history EXCEPT ![Q(r).email] =
                    SubSeq(<<[place |-> Q(r).place, at |-> req[r].at]>> \o @, 1,
                           IF Len(@) + 1 < HistoryMax THEN Len(@) + 1 ELSE HistoryMax)]
  <1>0. req \in [Reqs -> Request] /\ req[r] \in Request /\ "alert" \in PC
    BY DEF Shape, PC, LoginPC
  <1>1. CASE req' = Answer(r, 503) /\ fails < MaxFails /\ fails' = fails + 1 /\ UNCHANGED <<known, history>>
    BY <1>0, <1>1, AnswerEffect
  <1>2. CASE
          /\ known' = [known EXCEPT ![Q(r).email] = Remember(@, Q(r), req[r].at)]
          /\ history' = [history EXCEPT ![Q(r).email] =
                SubSeq(<<[place |-> Q(r).place, at |-> req[r].at]>> \o @, 1,
                       IF Len(@) + 1 < HistoryMax THEN Len(@) + 1 ELSE HistoryMax)]
          /\ req' = [req EXCEPT ![r].pc = "alert", ![r].stored = TRUE]
          /\ UNCHANGED fails
    <2>1. req' = [req EXCEPT ![r].pc = "alert", ![r].stored = TRUE] /\ fails' = fails
      BY <1>2
    <2>2. /\ req'[r] = [req[r] EXCEPT !.pc = "alert", !.stored = TRUE]
          /\ \A p \in Reqs \ {r} : req'[p] = req[p]
      BY <1>0, <2>1
    <2>3. req'[r] \in Request
      <3>1. req[r] \in Request /\ "alert" \in PC
        BY <1>0
      <3>2. QED
        BY <3>1, <2>2 DEF Request
    <2>4. req' \in [Reqs -> Request]
      BY <1>0, <2>1, <2>3
    <2>5. /\ Others(r) /\ SameCode(r) /\ SameScope(r)
          /\ req'[r].pc = "alert" /\ req'[r].result = req[r].result
          /\ req'[r].seen = req[r].seen /\ req'[r].stored /\ req'[r].alert = req[r].alert
          /\ (req'[r].after <=> req[r].after) /\ (req'[r].fresh <=> req[r].fresh)
      BY <1>0, <2>2, <2>4 DEF Request, Others, SameCode, SameScope
    <2>6. QED
      BY <1>2, <2>1, <2>5, Zenon
  <1>3. QED
    BY <1>1, <1>2, Zenon DEF LoginStore

LEMMA ResetReadEffect ==
    ASSUME Shape, NEW r \in Reqs, ResetRead(r)
    PROVE  \/ Answers(r, 400)
           \/ \E c \in Nat :
                 /\ c \in {s.arg : s \in {m \in sent : m.kind = "otp"}} \cup {0}
                 /\ CodeAccepted(Q(r).email, c)
                 /\ Others(r) /\ SameLogin(r) /\ SameScope(r)
                 /\ req'[r].pc = "reset_user" /\ req'[r].result = req[r].result
                 /\ req'[r].seen = req[r].seen /\ req'[r].code = c
                 /\ req'[r].spentAtStart = req[r].spentAtStart
  <1>0. req[r] \in Request /\ req \in [Reqs -> Request] /\ "reset_user" \in PC
    BY DEF Shape, PC, ResetPC
  <1>1. PICK c \in {s.arg : s \in {m \in sent : m.kind = "otp"}} \cup {0} :
            req' = IF CodeAccepted(Q(r).email, c)
                   THEN [req EXCEPT ![r].pc = "reset_user", ![r].code = c]
                   ELSE Answer(r, 400)
    BY DEF ResetRead
  <1>2. c \in Nat
    <2>1. \A m \in sent : m.arg \in Nat
      BY DEF Shape, MailShape, Mail
    <2>2. QED
      BY <2>1
  <1>3. CASE ~CodeAccepted(Q(r).email, c)
    <2>1. req' = Answer(r, 400) /\ 400 \in Nat
      BY <1>1, <1>3
    <2>2. QED
      BY <1>0, <2>1, AnswerEffect
  <1>4. CASE CodeAccepted(Q(r).email, c)
    <2>1. req' = [req EXCEPT ![r].pc = "reset_user", ![r].code = c]
      BY <1>1, <1>4
    <2>2. PICK b : b = [req[r] EXCEPT !.pc = "reset_user", !.code = c]
      OBVIOUS
    <2>3. req' = [req EXCEPT ![r] = b]
      BY <2>1, <2>2
    <2>4. /\ b \in Request /\ b.pc = "reset_user" /\ b.code = c /\ b.tx = req[r].tx
          /\ b.q = req[r].q /\ b.ctx = req[r].ctx /\ b.alert = req[r].alert
          /\ b.seen = req[r].seen /\ b.result = req[r].result
          /\ b.spentAtStart = req[r].spentAtStart
          /\ (b.after <=> req[r].after) /\ (b.fresh <=> req[r].fresh) /\ (b.stored <=> req[r].stored)
      BY <1>0, <1>2, <2>2 DEF Request
    <2>5. req'[r] = b /\ req' \in [Reqs -> Request] /\ \A p \in Reqs \ {r} : req'[p] = req[p]
      BY <1>0, <2>3, <2>4
    <2>6. QED
      BY <1>2, <1>4, <2>4, <2>5 DEF Others, SameLogin, SameScope
  <1>5. QED
    BY <1>3, <1>4

LEMMA CheckEffect ==
    ASSUME Shape, NEW r \in Reqs, NEW kind, NEW next \in PC, CheckEmail(r, kind, next)
    PROVE  \/ Answers(r, 400)
           \/ /\ GoesTo(r, next) /\ users[Q(r).email] = NoUser
              /\ req'[r].ctx = req[r].ctx /\ req'[r].tx = TxScope(r)
  <1>1. req \in [Reqs -> Request] /\ 400 \in Nat
    BY DEF Shape
  <1>2. CASE users[Q(r).email] # NoUser
    <2>1. req' = Answer(r, 400)
      BY <1>2 DEF CheckEmail
    <2>2. QED
      BY <1>1, <2>1, AnswerEffect
  <1>3. CASE users[Q(r).email] = NoUser
    <2>1. req' = Ran(r, next)
      BY <1>3 DEF CheckEmail
    <2>2. QED
      BY <1>1, <1>3, <2>1, RanEffect
  <1>4. QED
    BY <1>2, <1>3

LEMMA EnterEffect ==
    ASSUME Shape, NEW r \in Reqs, EnterSystemScope(r)
    PROVE  /\ GoesTo(r, "owner") /\ req'[r].ctx = "system"
           /\ req'[r].tx = IF req[r].tx = "none" THEN "none" ELSE "system"
  <1>1. req \in [Reqs -> Request] /\ "owner" \in PC /\ "system" \in Scope
    BY DEF Shape, PC, RegisterPC, Scope
  <1>2. PICK tx \in Scope \cup {"none"} : tx = IF req[r].tx = "none" THEN "none" ELSE "system"
    BY <1>1
  <1>3. Moved(r, "owner", "system", tx)
    BY <1>1, <1>2 DEF EnterSystemScope, Moved
  <1>4. QED
    BY <1>1, <1>2, <1>3, ScopeEffect

LEMMA ExitEffect ==
    ASSUME Shape, NEW r \in Reqs, ExitSystemScope(r)
    PROVE  /\ GoesTo(r, "refresh") /\ req'[r].ctx = ContextFromToken(Q(r))
           /\ req'[r].tx = IF req[r].tx = "none" THEN "none" ELSE ContextFromToken(Q(r))
  <1>0. req \in [Reqs -> Request]
    BY DEF Shape
  <1>1. "refresh" \in PC /\ ContextFromToken(Q(r)) \in Scope
    BY <1>0, ScopeType DEF PC, RegisterPC
  <1>2. PICK tx \in Scope \cup {"none"}, ctx \in Scope :
            /\ tx = IF req[r].tx = "none" THEN "none" ELSE ContextFromToken(Q(r))
            /\ ctx = ContextFromToken(Q(r))
    BY <1>1
  <1>3. Moved(r, "refresh", ctx, tx)
    BY <1>0, <1>2 DEF ExitSystemScope, Moved
  <1>4. QED
    BY <1>0, <1>1, <1>2, <1>3, ScopeEffect

\* RegisterPlain: only the place in the handler changes.
LEMMA PlainEffect ==
    ASSUME Shape, NEW r \in Reqs, RegisterPlain(r)
    PROVE  GoesTo(r, "insert") /\ SameScope(r)
  <1>1. /\ req \in [Reqs -> Request] /\ "insert" \in PC
        /\ req[r].ctx \in Scope /\ req[r].tx \in Scope \cup {"none"}
    BY DEF Shape, PC, RegisterPC, Request
  <1>2. Moved(r, "insert", req[r].ctx, req[r].tx)
    BY DEF RegisterPlain, Moved
  <1>3. QED
    BY <1>1, <1>2, ScopeEffect DEF SameScope

\* A commit ends the transaction.
LEMMA CommitEffect ==
    ASSUME Shape, NEW r \in Reqs, NEW pc \in PC,
           Moved(r, pc, req[r].ctx, "none")
    PROVE  GoesTo(r, pc) /\ req'[r].ctx = req[r].ctx /\ req'[r].tx = "none"
  <1>1. req \in [Reqs -> Request] /\ req[r].ctx \in Scope
    BY DEF Shape, Request
  <1>2. QED
    BY <1>1, ScopeEffect

LEMMA AuthEffect ==
    ASSUME Shape, NEW r \in Reqs, AuthStaff(r)
    PROVE  \/ Answers(r, 401) \/ Answers(r, 403)
           \/ /\ Others(r) /\ SameCode(r) /\ SameLogin(r) /\ req'[r].pc = "staff_email"
              /\ req'[r].result = req[r].result
              /\ req'[r].ctx = req[r].ctx /\ req'[r].tx = TxScope(r)
              /\ req'[r].seen = users[Q(r).by] /\ req'[r].seen # NoUser /\ req'[r].seen.role = "Admin"
  <1>1. req \in [Reqs -> Request] /\ 401 \in Nat /\ 403 \in Nat
    BY DEF Shape
  <1>2. CASE req' = Answer(r, 401)
    <2>1. Answers(r, 401)
      BY <1>1, <1>2, AnswerEffect
    <2>2. QED
      BY <2>1
  <1>3. CASE req' = Answer(r, 403)
    <2>1. Answers(r, 403)
      BY <1>1, <1>3, AnswerEffect
    <2>2. QED
      BY <2>1
  <1>4. CASE /\ req' = [Ran(r, "staff_email") EXCEPT ![r].seen = users[Q(r).by]]
             /\ users[Q(r).by] # NoUser /\ users[Q(r).by].role = "Admin"
    <2>2. PICK u : u = users[Q(r).by]
      OBVIOUS
    <2>3. u \in User \cup {NoUser}
      <3>1. Q(r) \in Asks /\ Q(r).kind = "staff"
        BY <1>1 DEF Shape, KindOK, AuthStaff, At, StaffPC, RegisterPC, Request, Q
      <3>2. Q(r).by \in Emails
        BY <3>1, AskOK
      <3>3. QED
        BY <2>2, <3>2 DEF Shape, DbShape
    <2>4. Reads(r, "staff_email", u) /\ "staff_email" \in PC
      BY <1>4, <2>2 DEF Reads, PC, StaffPC
    <2>5. /\ Others(r) /\ SameCode(r) /\ SameLogin(r) /\ req'[r].pc = "staff_email"
          /\ req'[r].result = req[r].result /\ req'[r].seen = u
          /\ req'[r].ctx = req[r].ctx /\ req'[r].tx = TxScope(r)
      BY <1>1, <2>3, <2>4, SeenEffect
    <2>6. QED
      BY <1>4, <2>2, <2>5
  <1>5. QED
    <2>1. CASE users[Q(r).by] = NoUser
      BY <2>1, <1>2 DEF AuthStaff
    <2>2. CASE users[Q(r).by] # NoUser /\ users[Q(r).by].role # "Admin"
      <3> DEFINE matches == IF users[Q(r).by].role = "Candidate" THEN Q(r).tid = NoTenant
                            ELSE users[Q(r).by].tenant # NoTenant /\ users[Q(r).by].tenant = Q(r).tid
      <3>0. req' = IF users[Q(r).by] = NoUser THEN Answer(r, 401)
                   ELSE IF ~matches THEN Answer(r, 401)
                   ELSE IF users[Q(r).by].role # "Admin" THEN Answer(r, 403)
                   ELSE [Ran(r, "staff_email") EXCEPT ![r].seen = users[Q(r).by]]
        BY Zenon DEF AuthStaff
      <3> HIDE DEF matches
      <3>1. req' = Answer(r, 401) \/ req' = Answer(r, 403)
        BY <2>2, <3>0
      <3>2. QED
        BY <3>1, <1>2, <1>3
    <2>3. CASE users[Q(r).by] # NoUser /\ users[Q(r).by].role = "Admin"
      BY <2>3, <1>2, <1>4, Zenon DEF AuthStaff
    <2>4. QED
      BY <2>1, <2>2, <2>3

LEMMA SelectEffect ==
    ASSUME Shape, NEW r \in Reqs, LoginSelect(r)
    PROVE  /\ Others(r) /\ SameCode(r) /\ SameLogin(r) /\ req'[r].pc = "verify"
           /\ req'[r].result = req[r].result
           /\ req'[r].ctx = req[r].ctx /\ req'[r].tx = TxScope(r)
  <1>1. req \in [Reqs -> Request] /\ Q(r) \in Asks /\ "verify" \in PC
    BY DEF Shape, Request, Q, PC, LoginPC
  <1>2. users[Q(r).email] \in User \cup {NoUser}
    BY <1>1, AskOK DEF Shape, DbShape
  <1>3. Reads(r, "verify", users[Q(r).email])
    BY DEF LoginSelect, Reads
  <1>4. QED
    BY <1>1, <1>2, <1>3, SeenEffect

-----------------------------------------------------------------------------
(***************************************************************************)
(* The shape is invariant.                                                 *)
(***************************************************************************)

\* A row of users is never deleted.
Grown == \A e \in Emails : users[e] # NoUser => users'[e] # NoUser

LEMMA Frames ==
    ASSUME Shape
    PROVE  /\ UNCHANGED db => DbShape' /\ Grown
           /\ UNCHANGED codes => CodeShape'
           /\ UNCHANGED mail => MailShape'
           /\ UNCHANGED devices => DeviceShape'
           /\ fails' = fails => fails' \in 0 .. MaxFails
           /\ fails < MaxFails /\ fails' = fails + 1 => fails' \in 0 .. MaxFails
  <1>1. UNCHANGED db => DbShape' /\ Grown
    BY DEF Shape, DbShape, db, Grown
  <1>2. UNCHANGED codes => CodeShape'
    BY DEF Shape, CodeShape, codes
  <1>3. UNCHANGED mail => MailShape'
    BY DEF Shape, MailShape, mail
  <1>4. UNCHANGED devices => DeviceShape'
    BY DEF Shape, DeviceShape, devices
  <1>5. /\ fails' = fails => fails' \in 0 .. MaxFails
        /\ fails < MaxFails /\ fails' = fails + 1 => fails' \in 0 .. MaxFails
    BY AccountsAssumption DEF Shape
  <1>6. QED
    BY <1>1, <1>2, <1>3, <1>4, <1>5

\* A step of request r: what is left to show about it.
LEMMA ShapeStep ==
    ASSUME Shape, NEW r \in Reqs, Others(r), KindOK(r)', RowOK(r)', Grown,
           DbShape', CodeShape', MailShape', DeviceShape', fails' \in 0 .. MaxFails
    PROVE  Shape'
  <1>1. ASSUME NEW p \in Reqs PROVE KindOK(p)' /\ RowOK(p)'
    <2>1. CASE p = r
      BY <2>1
    <2>2. CASE p # r
      <3>1. req'[p] = req[p] /\ KindOK(p) /\ RowOK(p) /\ req[p].q.email \in Emails
        BY <2>2, AskOK DEF Others, Shape, Request
      <3>2. KindOK(p)'
        BY <3>1 DEF KindOK, Q
      <3>3. RowOK(p)'
        BY <3>1 DEF RowOK, Q, Grown
      <3>4. QED
        BY <3>2, <3>3
    <2>3. QED
      BY <2>1, <2>2
  <1>2. QED
    BY <1>1 DEF Shape, Others

\* A step that touches nothing but the requests.
Local == UNCHANGED <<db, codes, mail, devices>>

LEMMA LocalStep ==
    ASSUME Shape, NEW r \in Reqs, Others(r), KindOK(r)', RowOK(r)', Local,
           fails' = fails \/ (fails < MaxFails /\ fails' = fails + 1)
    PROVE  Shape'
  <1>1. UNCHANGED db /\ UNCHANGED codes /\ UNCHANGED mail /\ UNCHANGED devices
    BY DEF Local
  <1>2. DbShape' /\ Grown /\ CodeShape' /\ MailShape' /\ DeviceShape' /\ fails' \in 0 .. MaxFails
    BY <1>1, Frames
  <1>3. QED
    BY <1>2, ShapeStep

LEMMA StatusOK ==
    /\ 200 \in Nat /\ 400 \in Nat /\ 401 \in Nat /\ 403 \in Nat /\ 500 \in Nat /\ 503 \in Nat
    /\ 200 # 201 /\ 400 # 201 /\ 401 # 201 /\ 403 # 201 /\ 500 # 201 /\ 503 # 201
  OBVIOUS

\* An answer other than 201.
LEMMA AnswerKind ==
    ASSUME Shape, NEW r \in Reqs, NEW status \in Nat, status # 201, Answers(r, status)
    PROVE  KindOK(r)' /\ RowOK(r)'
  <1>1. req'[r].pc = "done" /\ req'[r].result # 201 /\ req'[r].q = req[r].q
    BY DEF Answers, Others
  <1>2. QED
    BY <1>1 DEF KindOK, RowOK, Q, RegisterPC, StaffPC, LoginPC, ResetPC

LEMMA AnswerLocal ==
    ASSUME Shape, NEW r \in Reqs, NEW status \in Nat, status # 201, Answers(r, status), Local,
           fails' = fails \/ (fails < MaxFails /\ fails' = fails + 1)
    PROVE  Shape'
  <1>1. Others(r)
    BY DEF Answers
  <1>2. KindOK(r)' /\ RowOK(r)'
    BY AnswerKind
  <1>3. QED
    BY <1>1, <1>2, LocalStep

\* A request that goes on does so from a place where it has not been answered.
LEMMA Unanswered ==
    ASSUME Shape, NEW r \in Reqs, req[r].pc # "done"
    PROVE  req[r].result = 0
  BY DEF Shape, KindOK

LEMMA GoesOn ==
    ASSUME Shape, NEW r \in Reqs, NEW from, NEW to, At(r, from), from # "done", KindOK(r),
           req'[r].q = req[r].q, req'[r].result = req[r].result, req'[r].pc = to,
           \/ from \in {"register", "hash", "owner", "company", "commit", "exit"}
                 /\ to \in {"hash", "owner", "company", "commit", "exit", "insert", "refresh"}
           \/ from \in {"staff", "staff_email"} /\ to \in {"staff_email", "insert"}
           \/ from = "insert" /\ to = "refresh"
           \/ from \in LoginPC /\ to \in LoginPC
           \/ from \in ResetPC /\ to \in ResetPC
    PROVE  KindOK(r)'
  <1>1. req[r].result = 0 /\ req[r].pc = from
    BY Unanswered DEF At
  <1>2. QED
    BY <1>1 DEF KindOK, Q, RegisterPC, StaffPC, LoginPC, ResetPC

LEMMA ShapeStart ==
    ASSUME Shape, NEW r \in Reqs, Start(r)
    PROVE  Shape'
  <1>1. Others(r) /\ req'[r].pc = Q(r).kind /\ req'[r].result = req[r].result
    BY StartEffect
  <1>2. Q(r).kind \in Kind /\ req[r].result = 0 /\ req'[r].q = req[r].q
    <2>1. Q(r) \in Asks
      BY DEF Shape, Request, Q
    <2>2. QED
      BY <1>1, <2>1, AskOK, Unanswered DEF Start, At, Others
  <1>3. PICK k \in Kind : k = Q(r).kind
    BY <1>2
  <1>4. req'[r].pc = k /\ req'[r].q.kind = k /\ req'[r].result = 0
    BY <1>1, <1>2, <1>3 DEF Q
  <1>5. KindOK(r)' /\ RowOK(r)'
    <2>1. k \in {"register", "staff", "login", "forgot", "reset"}
      BY DEF Kind
    <2>2. RowOK(r)'
      BY <1>4, <2>1 DEF RowOK
    <2>3. KindOK(r)'
      <3>1. /\ k \in RegisterPC \ StaffPC => k = "register"
            /\ k \in StaffPC \ RegisterPC => k = "staff"
            /\ k \notin {"insert", "refresh"}
            /\ k \in LoginPC => k = "login"
            /\ k \in ResetPC => k = "reset"
        BY <2>1 DEF RegisterPC, StaffPC, LoginPC, ResetPC
      <3>2. QED
        BY <1>4, <3>1 DEF KindOK, Q
    <2>4. QED
      BY <2>2, <2>3
  <1>6. QED
    BY <1>1, <1>5, LocalStep DEF Start, Local

LEMMA ShapeCheck ==
    ASSUME Shape, NEW r \in Reqs, NEW kind, NEW next, CheckEmail(r, kind, next),
           (kind = "register" /\ next = "hash") \/ (kind = "staff_email" /\ next = "insert")
    PROVE  Shape'
  <1>0. Local /\ fails' = fails /\ KindOK(r) /\ RowOK(r) /\ next \in PC /\ At(r, kind)
    BY DEF CheckEmail, Local, Shape, PC, RegisterPC
  <1>1. ASSUME NEW status \in Nat, status # 201, Answers(r, status) PROVE Shape'
    BY <1>0, <1>1, AnswerLocal
  <1>2. CASE GoesTo(r, next)
    <2>1. KindOK(r)'
      BY <1>0, <1>2, GoesOn DEF GoesTo, Others
    <2>2. RowOK(r)' /\ Others(r)
      BY <1>0, <1>2 DEF RowOK, GoesTo, At, Others, Q
    <2>3. QED
      BY <1>0, <2>1, <2>2, LocalStep
  <1>3. QED
    BY <1>0, <1>1, <1>2, StatusOK, CheckEffect

LEMMA ShapeScope ==
    ASSUME Shape, NEW r \in Reqs, EnterSystemScope(r) \/ RegisterPlain(r) \/ ExitSystemScope(r)
    PROVE  Shape'
  <1>0. Local /\ fails' = fails /\ KindOK(r)
    BY DEF EnterSystemScope, RegisterPlain, ExitSystemScope, Local, Shape
  <1>1. CASE EnterSystemScope(r)
    <2>1. GoesTo(r, "owner") /\ At(r, "hash")
      BY <1>1, EnterEffect DEF EnterSystemScope
    <2>2. KindOK(r)'
      BY <1>0, <2>1, GoesOn DEF GoesTo, Others
    <2>3. RowOK(r)' /\ Others(r)
      BY <2>1 DEF RowOK, GoesTo
    <2>4. QED
      BY <1>0, <2>2, <2>3, LocalStep
  <1>2. CASE RegisterPlain(r)
    <2>1. GoesTo(r, "insert") /\ At(r, "hash")
      BY <1>2, PlainEffect DEF RegisterPlain
    <2>2. KindOK(r)'
      BY <1>0, <2>1, GoesOn DEF GoesTo, Others
    <2>3. Q(r).kind = "register"
      BY <1>0, <2>1 DEF KindOK, At, RegisterPC, StaffPC
    <2>4. RowOK(r)' /\ Others(r)
      BY <2>1, <2>3 DEF RowOK, GoesTo, Others, Q
    <2>5. QED
      BY <1>0, <2>2, <2>4, LocalStep
  <1>3. CASE ExitSystemScope(r)
    <2>1. GoesTo(r, "refresh") /\ At(r, "exit")
      BY <1>3, ExitEffect DEF ExitSystemScope
    <2>2. KindOK(r)'
      BY <1>0, <2>1, GoesOn DEF GoesTo, Others
    <2>3. RowOK(r)' /\ Others(r)
      BY <2>1 DEF RowOK, GoesTo
    <2>4. QED
      BY <1>0, <2>2, <2>3, LocalStep
  <1>4. QED
    BY <1>1, <1>2, <1>3

LEMMA ShapeOwner ==
    ASSUME Shape, NEW r \in Reqs, InsertOwner(r)
    PROVE  Shape'
  <1>0. /\ req \in [Reqs -> Request] /\ KindOK(r) /\ At(r, "owner") /\ "company" \in PC
        /\ UNCHANGED codes /\ UNCHANGED mail /\ UNCHANGED devices /\ fails' = fails
        /\ users' = users /\ companies' = companies
    BY DEF Shape, InsertOwner, PC, RegisterPC
  <1>1. CASE ~EmailFree(Q(r).email)
    <2>1. Answers(r, 500) /\ Local
      BY <1>0, <1>1, AnswerEffect, StatusOK DEF InsertOwner, Local, db
    <2>2. QED
      BY <1>0, <2>1, AnswerLocal, StatusOK
  <1>2. CASE EmailFree(Q(r).email)
    <2>1. pending' = [pending EXCEPT ![Q(r).email] = r] /\ req' = Ran(r, "company")
      BY <1>2 DEF InsertOwner
    <2>2. GoesTo(r, "company")
      BY <1>0, <2>1, RanEffect
    <2>3. KindOK(r)'
      BY <1>0, <2>2, GoesOn DEF GoesTo, Others
    <2>4. RowOK(r)' /\ Others(r)
      BY <2>2 DEF RowOK, GoesTo
    <2>5. DbShape' /\ Grown
      BY <1>0, <2>1 DEF Shape, DbShape, Grown
    <2>6. CodeShape' /\ MailShape' /\ DeviceShape' /\ fails' \in 0 .. MaxFails
      BY <1>0, Frames
    <2>7. QED
      BY <2>3, <2>4, <2>5, <2>6, ShapeStep
  <1>3. QED
    BY <1>1, <1>2

LEMMA ShapeCompany ==
    ASSUME Shape, NEW r \in Reqs, InsertCompany(r)
    PROVE  Shape'
  <1>0. /\ req \in [Reqs -> Request] /\ KindOK(r) /\ At(r, "company") /\ "commit" \in PC
        /\ UNCHANGED codes /\ UNCHANGED mail /\ UNCHANGED devices /\ fails' = fails
        /\ users' = users /\ companies' = companies
    BY DEF Shape, InsertCompany, PC, RegisterPC
  <1>1. CodeShape' /\ MailShape' /\ DeviceShape' /\ fails' \in 0 .. MaxFails
    BY <1>0, Frames
  <1>2. DbShape' /\ Grown
    BY <1>0 DEF Shape, DbShape, Grown, InsertCompany
  <1>3. KindOK(r)' /\ RowOK(r)' /\ Others(r)
    <2>1. CASE TxScope(r) = "system"
      <3>1. GoesTo(r, "commit")
        BY <1>0, <2>1, RanEffect DEF InsertCompany
      <3>2. KindOK(r)'
        BY <1>0, <3>1, GoesOn DEF GoesTo, Others
      <3>3. QED
        BY <3>1, <3>2 DEF RowOK, GoesTo
    <2>2. CASE TxScope(r) # "system"
      <3>1. Answers(r, 500)
        BY <1>0, <2>2, AnswerEffect, StatusOK DEF InsertCompany
      <3>2. KindOK(r)' /\ RowOK(r)'
        BY <3>1, AnswerKind, StatusOK
      <3>3. QED
        BY <3>1, <3>2 DEF Answers
    <2>3. QED
      BY <2>1, <2>2
  <1>4. QED
    BY <1>1, <1>2, <1>3, ShapeStep

LEMMA ShapeCommit ==
    ASSUME Shape, NEW r \in Reqs, CommitCompany(r)
    PROVE  Shape' /\ GoesTo(r, "exit") /\ req'[r].ctx = req[r].ctx /\ req'[r].tx = "none"
  <1>0. /\ req \in [Reqs -> Request] /\ KindOK(r) /\ At(r, "commit") /\ "exit" \in PC
        /\ UNCHANGED codes /\ UNCHANGED mail /\ UNCHANGED devices /\ fails' = fails
    BY DEF Shape, CommitCompany, PC, RegisterPC
  <1>1. Q(r) \in Asks /\ Q(r).kind = "register" /\ Q(r).email \in Emails /\ Q(r).pw \in STRING
    <2>1. Q(r) \in Asks /\ Q(r).kind = "register"
      BY <1>0 DEF Request, Q, KindOK, At, RegisterPC, StaffPC
    <2>2. QED
      BY <2>1, AskOK
  <1>2. Moved(r, "exit", req[r].ctx, "none")
    BY DEF CommitCompany, Moved
  <1>3. GoesTo(r, "exit") /\ req'[r].ctx = req[r].ctx /\ req'[r].tx = "none"
    BY <1>0, <1>2, CommitEffect
  <1>4. KindOK(r)'
    BY <1>0, <1>3, GoesOn DEF GoesTo, Others
  <1>5. RowOK(r)' /\ Others(r)
    BY <1>3 DEF RowOK, GoesTo
  <1>6. PICK row \in User : row = [pw |-> Q(r).pw, role |-> "Admin", tenant |-> Q(r).email]
    BY <1>1 DEF User
  <1>7. users' = [users EXCEPT ![Q(r).email] = row]
    BY <1>6 DEF CommitCompany
  <1>8. DbShape' /\ Grown
    BY <1>1, <1>7, AccountsAssumption DEF Shape, DbShape, Grown, CommitCompany
  <1>9. CodeShape' /\ MailShape' /\ DeviceShape' /\ fails' \in 0 .. MaxFails
    BY <1>0, Frames
  <1>10. QED
    BY <1>3, <1>4, <1>5, <1>8, <1>9, ShapeStep

LEMMA InsertEffect ==
    ASSUME Shape, NEW r \in Reqs, InsertUser(r)
    PROVE  \/ Answers(r, 500) /\ users' = users
           \/ /\ GoesTo(r, "refresh") /\ req'[r].ctx = req[r].ctx /\ req'[r].tx = "none"
              /\ users[Q(r).email] = NoUser
              /\ \E row \in User :
                    /\ users' = [users EXCEPT ![Q(r).email] = row]
                    /\ row.pw = Q(r).pw
                    /\ IF Q(r).kind = "staff"
                       THEN row.role = "HR_Manager" /\ row.tenant = req[r].seen.tenant
                       ELSE row.role = "Candidate" /\ row.tenant = NoTenant
  <1>0. /\ req \in [Reqs -> Request] /\ KindOK(r) /\ RowOK(r) /\ At(r, "insert") /\ "refresh" \in PC
    BY DEF Shape, InsertUser, PC, RegisterPC
  <1>1. Q(r) \in Asks /\ Q(r).kind \in {"register", "staff"} /\ Q(r).email \in Emails /\ Q(r).pw \in STRING
    <2>1. Q(r) \in Asks /\ Q(r).kind \in {"register", "staff"}
      BY <1>0 DEF Request, Q, KindOK, At
    <2>2. QED
      BY <2>1, AskOK
  <1>2. CASE ~EmailFree(Q(r).email)
    <2>1. req' = Answer(r, 500) /\ users' = users
      BY <1>2 DEF InsertUser
    <2>2. QED
      BY <1>0, <2>1, AnswerEffect, StatusOK
  <1>3. CASE EmailFree(Q(r).email)
    <2>1. Moved(r, "refresh", req[r].ctx, "none")
      BY <1>3 DEF InsertUser, Moved
    <2>2. GoesTo(r, "refresh") /\ req'[r].ctx = req[r].ctx /\ req'[r].tx = "none"
      BY <1>0, <2>1, CommitEffect
    <2>3. Q(r).kind = "staff" => req[r].seen \in User
      BY <1>0 DEF RowOK, At
    <2>4. PICK row \in User :
              /\ row = IF Q(r).kind = "staff"
                       THEN [pw |-> Q(r).pw, role |-> "HR_Manager", tenant |-> req[r].seen.tenant]
                       ELSE [pw |-> Q(r).pw, role |-> "Candidate", tenant |-> NoTenant]
      BY <1>1, <2>3 DEF User
    <2>5. users' = [users EXCEPT ![Q(r).email] = row]
      BY <1>3, <2>4 DEF InsertUser
    <2>6. QED
      <3>1. /\ row.pw = Q(r).pw
            /\ Q(r).kind = "staff" => row.role = "HR_Manager" /\ row.tenant = req[r].seen.tenant
            /\ Q(r).kind # "staff" => row.role = "Candidate" /\ row.tenant = NoTenant
        BY <2>4
      <3>2. users[Q(r).email] = NoUser
        BY <1>3 DEF EmailFree
      <3>3. QED
        BY <2>2, <2>5, <3>1, <3>2
  <1>4. QED
    BY <1>2, <1>3

LEMMA ShapeInsert ==
    ASSUME Shape, NEW r \in Reqs, InsertUser(r)
    PROVE  Shape'
  <1>0. /\ req \in [Reqs -> Request] /\ KindOK(r) /\ At(r, "insert") /\ companies' = companies
        /\ UNCHANGED codes /\ UNCHANGED mail /\ UNCHANGED devices /\ fails' = fails
        /\ pending' = pending
    BY DEF Shape, InsertUser
  <1>1. CASE Answers(r, 500) /\ users' = users
    <2>1. Local
      BY <1>0, <1>1 DEF Local, db
    <2>2. QED
      BY <1>0, <1>1, <2>1, AnswerLocal, StatusOK
  <1>2. CASE GoesTo(r, "refresh") /\ \E row \in User : users' = [users EXCEPT ![Q(r).email] = row]
    <2>1. KindOK(r)'
      BY <1>0, <1>2, GoesOn DEF GoesTo, Others
    <2>2. RowOK(r)' /\ Others(r)
      BY <1>2 DEF RowOK, GoesTo
    <2>3. DbShape' /\ Grown
      <3>1. PICK row \in User : users' = [users EXCEPT ![Q(r).email] = row]
        BY <1>2
      <3>2. row # NoUser /\ users \in [Emails -> User \cup {NoUser}]
        BY AccountsAssumption DEF Shape, DbShape
      <3>3. users' \in [Emails -> User \cup {NoUser}]
        BY <3>1, <3>2
      <3>4. Grown
        BY <3>1, <3>2 DEF Grown
      <3>5. QED
        BY <1>0, <3>3, <3>4 DEF Shape, DbShape
    <2>4. CodeShape' /\ MailShape' /\ DeviceShape' /\ fails' \in 0 .. MaxFails
      BY <1>0, Frames
    <2>5. QED
      BY <2>1, <2>2, <2>3, <2>4, ShapeStep
  <1>3. QED
    BY <1>1, <1>2, InsertEffect

LEMMA ShapeRefresh ==
    ASSUME Shape, NEW r \in Reqs, Refresh(r)
    PROVE  Shape'
  <1>0. /\ UNCHANGED db /\ UNCHANGED codes /\ UNCHANGED devices /\ fails' = fails
        /\ KindOK(r) /\ At(r, "refresh") /\ Q(r) \in Asks
    BY DEF Refresh, Shape, Request, Q
  <1>1. Others(r) /\ req'[r].pc = "done" /\ req'[r].q = req[r].q
    BY RefreshEffect DEF Others
  <1>2. Q(r).kind \in {"register", "staff"} /\ Q(r).email \in Emails
    BY <1>0, AskOK DEF KindOK, At
  <1>3. KindOK(r)' /\ RowOK(r)'
    BY <1>1, <1>2 DEF KindOK, RowOK, Q, RegisterPC, StaffPC, LoginPC, ResetPC
  <1>4. MailShape'
    <2>1. [kind |-> "welcome", email |-> Q(r).email, code |-> 0, pc |-> "mail"] \in Task
      BY <1>2 DEF Task
    <2>2. QED
      BY <2>1 DEF Refresh, Shape, MailShape
  <1>5. DbShape' /\ Grown /\ CodeShape' /\ DeviceShape' /\ fails' \in 0 .. MaxFails
    BY <1>0, Frames
  <1>6. QED
    BY <1>1, <1>3, <1>4, <1>5, ShapeStep

LEMMA ShapeAuth ==
    ASSUME Shape, NEW r \in Reqs, AuthStaff(r)
    PROVE  Shape'
  <1>0. Local /\ fails' = fails /\ KindOK(r) /\ At(r, "staff")
    BY DEF AuthStaff, Local, Shape
  <1>1. CASE Answers(r, 401)
    BY <1>0, <1>1, AnswerLocal, StatusOK
  <1>2. CASE Answers(r, 403)
    BY <1>0, <1>2, AnswerLocal, StatusOK
  <1>3. CASE /\ Others(r) /\ req'[r].pc = "staff_email" /\ req'[r].result = req[r].result
             /\ req'[r].seen # NoUser
    <2>1. KindOK(r)'
      BY <1>0, <1>3, GoesOn DEF Others
    <2>2. req'[r].seen \in User
      BY <1>3 DEF Others, Request
    <2>3. RowOK(r)'
      BY <1>3, <2>2 DEF RowOK
    <2>4. QED
      BY <1>0, <1>3, <2>1, <2>3, LocalStep
  <1>4. QED
    BY <1>1, <1>2, <1>3, AuthEffect

\* What create_session writes about the device and the place of a login.
LEMMA RememberType ==
    ASSUME NEW members \in SUBSET Entry, NEW q \in Logins, NEW t \in Nat
    PROVE  /\ Remember(members, q, t) \in SUBSET Entry
           /\ \A m \in Remember(members, q, t) :
                 m.member[1] = "ua" => m \in members \/ m.member[2] = q.ua
  <1> DEFINE ua == [member |-> <<"ua", q.ua>>, score |-> t]
             ip == [member |-> <<"ip", q.ip>>, score |-> t]
  <1>1. ua \in Entry /\ ip \in Entry
    BY DEF Entry
  <1>2. \A m \in Remember(members, q, t) : m \in members \/ m = ua \/ m = ip
    BY DEF Remember
  <1>3. ua.member[2] = q.ua /\ ip.member[1] = "ip"
    OBVIOUS
  <1>4. QED
    BY <1>1, <1>2, <1>3

LEMMA HistoryType ==
    ASSUME NEW past \in Seq(Visit), NEW v \in Visit, NEW new,
           new = SubSeq(<<v>> \o past, 1, IF Len(past) + 1 < HistoryMax THEN Len(past) + 1 ELSE HistoryMax)
    PROVE  new \in Seq(Visit) /\ Len(new) <= HistoryMax /\ new # <<>>
  <1> DEFINE n == IF Len(past) + 1 < HistoryMax THEN Len(past) + 1 ELSE HistoryMax
             all == <<v>> \o past
  <1>1. HistoryMax \in Nat \ {0} /\ Len(past) \in Nat
    BY AccountsAssumption
  <1>2. n \in 1 .. HistoryMax /\ n <= Len(past) + 1
    BY <1>1
  <1>3. all \in Seq(Visit) /\ Len(all) = Len(past) + 1
    OBVIOUS
  <1>4. SubSeq(all, 1, n) \in Seq(Visit) /\ Len(SubSeq(all, 1, n)) = n
    BY <1>1, <1>2, <1>3
  <1>5. new = SubSeq(all, 1, n)
    OBVIOUS
  <1> HIDE DEF n, all
  <1>6. new \in Seq(Visit) /\ Len(new) = n
    BY <1>4, <1>5
  <1>7. QED
    BY <1>1, <1>2, <1>6

LEMMA LoginAsk ==
    ASSUME Shape, NEW r \in Reqs, req[r].pc \in LoginPC
    PROVE  Q(r) \in Logins /\ Q(r).email \in Emails /\ req[r].at \in Nat
  BY AskOK DEF Shape, KindOK, Q, Request, Logins

LEMMA ShapeLogin ==
    ASSUME Shape, NEW r \in Reqs, LoginSelect(r) \/ LoginVerify(r) \/ LoginAssess(r)
    PROVE  Shape'
  <1>0. KindOK(r) /\ UNCHANGED db /\ UNCHANGED codes /\ UNCHANGED mail /\ known' = known /\ history' = history
    BY DEF LoginSelect, LoginVerify, LoginAssess, Shape, devices
  <1>1. CASE LoginSelect(r)
    <2>1. /\ Others(r) /\ req'[r].pc = "verify" /\ req'[r].result = req[r].result
          /\ At(r, "login") /\ Local /\ fails' = fails
      BY <1>1, SelectEffect DEF LoginSelect, Local
    <2>2. KindOK(r)'
      BY <1>0, <2>1, GoesOn DEF Others, LoginPC
    <2>3. RowOK(r)'
      BY <2>1 DEF RowOK
    <2>4. QED
      BY <2>1, <2>2, <2>3, LocalStep
  <1>2. CASE LoginVerify(r)
    <2>0. Others(r) /\ KindOK(r)' /\ RowOK(r)'
      <3>1. CASE Answers(r, 401)
        <4>1. KindOK(r)' /\ RowOK(r)'
          BY <3>1, AnswerKind, StatusOK
        <4>2. QED
          BY <3>1, <4>1 DEF Answers
      <3>2. CASE GoesTo(r, "assess")
        <4>1. KindOK(r)'
          BY <1>0, <1>2, <3>2, GoesOn DEF GoesTo, Others, LoginVerify, LoginPC
        <4>2. QED
          BY <3>2, <4>1 DEF RowOK, GoesTo
      <3>3. QED
        BY <1>2, <3>1, <3>2, VerifyEffect
    <2>1. DeviceShape' /\ fails' = fails
      BY <1>0, <1>2 DEF LoginVerify, Shape, DeviceShape
    <2>2. DbShape' /\ Grown /\ CodeShape' /\ MailShape' /\ fails' \in 0 .. MaxFails
      BY <1>0, <2>1, Frames
    <2>3. QED
      BY <2>0, <2>1, <2>2, ShapeStep
  <1>3. CASE LoginAssess(r)
    <2>0. Local /\ At(r, "assess")
      BY <1>3 DEF LoginAssess, Local
    <2>1. CASE Answers(r, 503) /\ fails < MaxFails /\ fails' = fails + 1
      BY <2>0, <2>1, AnswerLocal, StatusOK
    <2>2. CASE Others(r) /\ req'[r].pc = "store" /\ req'[r].result = req[r].result /\ fails' = fails
      <3>1. KindOK(r)'
        BY <1>0, <2>0, <2>2, GoesOn DEF Others, LoginPC
      <3>2. RowOK(r)'
        BY <2>2 DEF RowOK
      <3>3. QED
        BY <2>0, <2>2, <3>1, <3>2, LocalStep
    <2>3. QED
      BY <1>3, <2>1, <2>2, AssessEffect
  <1>4. QED
    BY <1>1, <1>2, <1>3

LEMMA ShapeStore ==
    ASSUME Shape, NEW r \in Reqs, LoginStore(r)
    PROVE  Shape'
  <1>0. /\ KindOK(r) /\ UNCHANGED db /\ UNCHANGED codes /\ UNCHANGED mail /\ clock' = clock
        /\ At(r, "store") /\ req[r].pc \in LoginPC
    BY DEF LoginStore, Shape, At, LoginPC
  <1>1. CASE Answers(r, 503) /\ fails < MaxFails /\ fails' = fails + 1 /\ UNCHANGED <<known, history>>
    <2>1. Local
      BY <1>0, <1>1 DEF Local, devices
    <2>2. QED
      BY <1>1, <2>1, AnswerLocal, StatusOK
  <1>2. CASE /\ Others(r) /\ fails' = fails
             /\ req'[r].pc = "alert" /\ req'[r].result = req[r].result
             /\ known' = [known EXCEPT ![Q(r).email] = Remember(@, Q(r), req[r].at)]
             /\ history' = [history EXCEPT ![Q(r).email] =
                    SubSeq(<<[place |-> Q(r).place, at |-> req[r].at]>> \o @, 1,
                           IF Len(@) + 1 < HistoryMax THEN Len(@) + 1 ELSE HistoryMax)]
    <2>1. Q(r) \in Logins /\ Q(r).email \in Emails /\ req[r].at \in Nat
      BY <1>0, LoginAsk
    <2>2. KindOK(r)'
      BY <1>0, <1>2, GoesOn DEF Others, LoginPC
    <2>3. RowOK(r)'
      BY <1>2 DEF RowOK
    <2>4. PICK e \in Emails, m \in SUBSET Entry, v \in Visit :
              /\ e = Q(r).email /\ m = Remember(known[e], Q(r), req[r].at)
              /\ v = [place |-> Q(r).place, at |-> req[r].at]
      <3>1. known[Q(r).email] \in SUBSET Entry
        BY <2>1 DEF Shape, DeviceShape
      <3>2. Remember(known[Q(r).email], Q(r), req[r].at) \in SUBSET Entry
        BY <2>1, <3>1, RememberType
      <3>3. [place |-> Q(r).place, at |-> req[r].at] \in Visit
        BY <2>1 DEF Visit
      <3>4. QED
        BY <2>1, <3>2, <3>3
    <2>4h. PICK h :
              h = SubSeq(<<v>> \o history[e], 1,
                         IF Len(history[e]) + 1 < HistoryMax THEN Len(history[e]) + 1 ELSE HistoryMax)
      OBVIOUS
    <2>5. known' = [known EXCEPT ![e] = m] /\ history' = [history EXCEPT ![e] = h]
      BY <1>2, <2>4, <2>4h, Zenon
    <2>6. history[e] \in Seq(Visit)
      BY DEF Shape, DeviceShape
    <2>7. h \in Seq(Visit) /\ Len(h) <= HistoryMax
      BY <2>4h, <2>6, HistoryType
    <2>8. DeviceShape'
      BY <1>0, <2>5, <2>7 DEF Shape, DeviceShape
    <2>9. DbShape' /\ Grown /\ CodeShape' /\ MailShape' /\ fails' \in 0 .. MaxFails
      BY <1>0, <1>2, Frames
    <2>10. QED
      BY <1>2, <2>2, <2>3, <2>8, <2>9, ShapeStep
  <1>3. QED
    BY <1>1, <1>2, StoreEffect, Zenon

LEMMA MailJobType ==
    ASSUME NEW kind \in {"otp", "welcome", "suspicious", "new_device"}, NEW e \in Emails,
           NEW arg \in Nat, NEW by \in Reqs \cup {0}
    PROVE  /\ MailJob(kind, e, arg, by) \in Job
           /\ MailJob(kind, e, arg, by).kind = kind /\ MailJob(kind, e, arg, by).email = e
           /\ MailJob(kind, e, arg, by).arg = arg
  BY AccountsAssumption DEF MailJob, Job

LEMMA EnqueueEffect ==
    ASSUME Shape, NEW j \in Job, Enqueue(j)
    PROVE  /\ jobs' \subseteq Job /\ jobs' \subseteq jobs \cup {j} /\ fails' \in 0 .. MaxFails
  <1>1. jobs \subseteq Job /\ fails \in 0 .. MaxFails /\ MaxFails \in Nat
    BY AccountsAssumption DEF Shape, MailShape
  <1>2. QED
    BY <1>1 DEF Enqueue

LEMMA AlertEffect ==
    ASSUME Shape, NEW r \in Reqs, LoginAlert(r)
    PROVE  /\ Answers(r, 200) /\ jobs' \subseteq Job /\ fails' \in 0 .. MaxFails
           /\ \A j \in jobs' : j \in jobs \/ j.kind # "otp"
  <1>0. req \in [Reqs -> Request] /\ req[r].pc \in LoginPC
    BY DEF Shape, LoginAlert, At, LoginPC
  <1>1. Answers(r, 200)
    BY <1>0, AnswerEffect, StatusOK DEF LoginAlert
  <1>2. Q(r).email \in Emails /\ req[r].alert \in Alert
    BY <1>0, LoginAsk DEF Request
  <1>3. CASE req[r].alert = "none"
    BY <1>1, <1>3 DEF LoginAlert, Shape, MailShape
  <1>4. CASE req[r].alert # "none"
    <2>1. PICK j : j = MailJob(req[r].alert, Q(r).email, 0, r)
      OBVIOUS
    <2>2. req[r].alert \in {"suspicious", "new_device"}
      BY <1>2, <1>4 DEF Alert
    <2>3. j \in Job /\ j.kind # "otp"
      BY <1>2, <2>1, <2>2, MailJobType
    <2>4. Enqueue(j)
      BY <1>4, <2>1 DEF LoginAlert
    <2>5. jobs' \subseteq Job /\ jobs' \subseteq jobs \cup {j} /\ fails' \in 0 .. MaxFails
      BY <2>3, <2>4, EnqueueEffect
    <2>6. QED
      BY <1>1, <2>3, <2>5
  <1>5. QED
    BY <1>3, <1>4

LEMMA ShapeAlert ==
    ASSUME Shape, NEW r \in Reqs, LoginAlert(r)
    PROVE  Shape'
  <1>0. UNCHANGED db /\ UNCHANGED codes /\ UNCHANGED devices /\ tasks' = tasks /\ sent' = sent
    BY DEF LoginAlert
  <1>1. Answers(r, 200) /\ jobs' \subseteq Job /\ fails' \in 0 .. MaxFails
    BY AlertEffect
  <1>2. MailShape'
    BY <1>0, <1>1 DEF Shape, MailShape
  <1>3. DbShape' /\ Grown /\ CodeShape' /\ DeviceShape'
    BY <1>0, Frames
  <1>4. KindOK(r)' /\ RowOK(r)'
    BY <1>1, AnswerKind, StatusOK
  <1>5. Others(r)
    BY <1>1 DEF Answers
  <1>6. QED
    BY <1>1, <1>2, <1>3, <1>4, <1>5, ShapeStep

LEMMA ShapeForgot ==
    ASSUME Shape, NEW r \in Reqs, ForgotPassword(r)
    PROVE  Shape' /\ Answers(r, 200)
  <1>0. /\ UNCHANGED db /\ UNCHANGED devices /\ jobs' = jobs /\ sent' = sent /\ fails' = fails
        /\ otp' = otp /\ spent' = spent /\ req \in [Reqs -> Request] /\ Q(r) \in Asks
    BY DEF ForgotPassword, Shape, Request, Q
  <1>1. Answers(r, 200)
    BY <1>0, AnswerEffect, StatusOK DEF ForgotPassword
  <1>2. KindOK(r)' /\ RowOK(r)'
    BY <1>1, AnswerKind, StatusOK
  <1>3. Others(r)
    BY <1>1 DEF Answers
  <1>4. DbShape' /\ Grown /\ DeviceShape' /\ fails' \in 0 .. MaxFails
    BY <1>0, Frames
  <1>5. CodeShape' /\ MailShape'
    <2>0. Q(r).email \in Emails /\ issued \in Nat
      BY <1>0, AskOK DEF Shape, CodeShape
    <2>1. CASE users[Q(r).email] = NoUser
      BY <1>0, <2>1 DEF ForgotPassword, Shape, CodeShape, MailShape
    <2>2. CASE users[Q(r).email] # NoUser
      <3>1. [kind |-> "otp", email |-> Q(r).email, code |-> issued + 1, pc |-> "set"] \in Task
        BY <2>0 DEF Task
      <3>2. MailShape'
        BY <1>0, <2>2, <3>1 DEF ForgotPassword, Shape, MailShape
      <3>3. issued' = issued + 1
        BY <2>2 DEF ForgotPassword
      <3>4. CodeShape'
        <4>1. 0 .. issued \subseteq 0 .. issued' /\ 1 .. issued \subseteq 1 .. issued'
          BY <2>0, <3>3
        <4>2. otp \in [Emails -> 0 .. issued] /\ spent \subseteq 1 .. issued
          BY DEF Shape, CodeShape
        <4>3. otp' \in [Emails -> 0 .. issued'] /\ spent' \subseteq 1 .. issued'
          BY <1>0, <4>1, <4>2
        <4>4. QED
          BY <2>0, <3>3, <4>3 DEF CodeShape
      <3>5. QED
        BY <3>2, <3>4
    <2>3. QED
      BY <2>1, <2>2
  <1>6. QED
    BY <1>1, <1>2, <1>3, <1>4, <1>5, ShapeStep

LEMMA ResetSelectEffect ==
    ASSUME Shape, NEW r \in Reqs, ResetSelect(r)
    PROVE  \/ Answers(r, 400)
           \/ /\ GoesTo(r, "reset_commit") /\ users[Q(r).email] # NoUser
              /\ req'[r].ctx = req[r].ctx /\ req'[r].tx = TxScope(r)
  <1>0. req \in [Reqs -> Request] /\ "reset_commit" \in PC
    BY DEF Shape, PC, ResetPC
  <1>1. CASE users[Q(r).email] = NoUser
    BY <1>0, <1>1, AnswerEffect, StatusOK DEF ResetSelect
  <1>2. CASE users[Q(r).email] # NoUser
    BY <1>0, <1>2, RanEffect DEF ResetSelect
  <1>3. QED
    BY <1>1, <1>2

LEMMA ShapeReset ==
    ASSUME Shape, NEW r \in Reqs, ResetRead(r) \/ ResetSelect(r)
    PROVE  Shape'
  <1>0. Local /\ fails' = fails /\ KindOK(r) /\ req \in [Reqs -> Request]
    BY DEF ResetRead, ResetSelect, Local, Shape
  <1>1. CASE Answers(r, 400)
    BY <1>0, <1>1, AnswerLocal, StatusOK
  <1>2. CASE ResetRead(r) /\ Others(r) /\ req'[r].pc = "reset_user" /\ req'[r].result = req[r].result
    <2>1. KindOK(r)'
      BY <1>0, <1>2, GoesOn DEF Others, ResetPC, ResetRead
    <2>2. RowOK(r)'
      BY <1>2 DEF RowOK
    <2>3. QED
      BY <1>0, <1>2, <2>1, <2>2, LocalStep
  <1>3. CASE ResetSelect(r) /\ GoesTo(r, "reset_commit") /\ users[Q(r).email] # NoUser
    <2>1. KindOK(r)'
      BY <1>0, <1>3, GoesOn DEF GoesTo, Others, ResetPC, ResetSelect
    <2>2. Others(r) /\ req'[r].pc = "reset_commit" /\ req'[r].q = req[r].q /\ users' = users
      BY <1>0, <1>3 DEF GoesTo, Others, Local, db
    <2>3. RowOK(r)'
      BY <1>3, <2>2 DEF RowOK, Q
    <2>4. QED
      BY <1>0, <2>1, <2>2, <2>3, LocalStep
  <1>4. QED
    BY <1>1, <1>2, <1>3, ResetReadEffect, ResetSelectEffect

LEMMA ResetCommitEffect ==
    ASSUME Shape, NEW r \in Reqs, ResetCommit(r)
    PROVE  /\ GoesTo(r, "reset_delete") /\ req'[r].ctx = req[r].ctx /\ req'[r].tx = "none"
           /\ Q(r).email \in Emails /\ Q(r).kind = "reset" /\ users[Q(r).email] \in User
           /\ \E row \in User :
                 /\ users' = [users EXCEPT ![Q(r).email] = row]
                 /\ row.pw = Q(r).pw /\ row.role = users[Q(r).email].role
                 /\ row.tenant = users[Q(r).email].tenant
  <1>0. /\ req \in [Reqs -> Request] /\ KindOK(r) /\ RowOK(r) /\ req[r].pc = "reset_commit"
        /\ "reset_delete" \in PC
    BY DEF Shape, ResetCommit, At, PC, ResetPC
  <1>1. Q(r) \in Asks /\ Q(r).kind = "reset"
    BY <1>0 DEF Request, Q, KindOK, ResetPC
  <1>2. Q(r).email \in Emails /\ Q(r).pw \in STRING
    BY <1>1, AskOK
  <1>3. PICK u \in User : u = users[Q(r).email]
    BY <1>0, <1>2 DEF RowOK, Shape, DbShape
  <1>4. PICK row : row = [u EXCEPT !.pw = Q(r).pw]
    OBVIOUS
  <1>5. row \in User /\ row.pw = Q(r).pw /\ row.role = u.role /\ row.tenant = u.tenant
    BY <1>2, <1>3, <1>4 DEF User
  <1>6. users' = [users EXCEPT ![Q(r).email] = row]
    BY <1>3, <1>4 DEF ResetCommit
  <1>7. Moved(r, "reset_delete", req[r].ctx, "none")
    BY DEF ResetCommit, Moved
  <1>8. GoesTo(r, "reset_delete") /\ req'[r].ctx = req[r].ctx /\ req'[r].tx = "none"
    BY <1>0, <1>7, CommitEffect
  <1>9. QED
    BY <1>1, <1>2, <1>3, <1>5, <1>6, <1>8

LEMMA ShapeResetCommit ==
    ASSUME Shape, NEW r \in Reqs, ResetCommit(r)
    PROVE  Shape'
  <1>0. /\ UNCHANGED codes /\ UNCHANGED mail /\ UNCHANGED devices /\ fails' = fails /\ KindOK(r)
        /\ companies' = companies /\ pending' = pending /\ At(r, "reset_commit")
    BY DEF ResetCommit, Shape
  <1>1. GoesTo(r, "reset_delete") /\ \E row \in User : users' = [users EXCEPT ![Q(r).email] = row]
    BY ResetCommitEffect
  <1>2. KindOK(r)'
    BY <1>0, <1>1, GoesOn DEF GoesTo, Others, ResetPC
  <1>3. RowOK(r)' /\ Others(r)
    BY <1>1 DEF RowOK, GoesTo
  <1>4. PICK row \in User : users' = [users EXCEPT ![Q(r).email] = row]
    BY <1>1
  <1>5. row # NoUser /\ users \in [Emails -> User \cup {NoUser}]
    BY AccountsAssumption DEF Shape, DbShape
  <1>6. DbShape' /\ Grown
    <2>1. users' \in [Emails -> User \cup {NoUser}]
      BY <1>4, <1>5
    <2>2. Grown
      BY <1>4, <1>5 DEF Grown
    <2>3. QED
      BY <1>0, <2>1, <2>2 DEF Shape, DbShape
  <1>7. CodeShape' /\ MailShape' /\ DeviceShape' /\ fails' \in 0 .. MaxFails
    BY <1>0, Frames
  <1>8. QED
    BY <1>2, <1>3, <1>6, <1>7, ShapeStep

LEMMA ShapeResetDelete ==
    ASSUME Shape, Coded, NEW r \in Reqs, ResetDelete(r)
    PROVE  Shape' /\ Answers(r, 200)
  <1>0. /\ UNCHANGED db /\ UNCHANGED mail /\ UNCHANGED devices /\ issued' = issued
        /\ req \in [Reqs -> Request] /\ req[r].pc = "reset_delete"
    BY DEF ResetDelete, Shape, At
  <1>1. Answers(r, 200)
    BY <1>0, AnswerEffect, StatusOK DEF ResetDelete
  <1>2. KindOK(r)' /\ RowOK(r)'
    BY <1>1, AnswerKind, StatusOK
  <1>3. Others(r)
    BY <1>1 DEF Answers
  <1>4. req[r].code \in 1 .. issued
    BY <1>0 DEF Coded, CodeOK
  <1>5. CodeShape'
    <2>1. issued \in Nat /\ otp \in [Emails -> 0 .. issued] /\ spent \subseteq 1 .. issued
      BY DEF Shape, CodeShape
    <2>2. /\ otp' = [otp EXCEPT ![Q(r).email] = 0] \/ otp' = otp
          /\ spent' = spent \cup {req[r].code} \/ spent' = spent
      BY DEF ResetDelete
    <2>3. otp' \in [Emails -> 0 .. issued]
      <3>1. 0 \in 0 .. issued
        BY <2>1
      <3>2. QED
        BY <2>1, <2>2, <3>1
    <2>5. spent' \subseteq 1 .. issued
      BY <1>4, <2>1, <2>2
    <2>4. QED
      BY <1>0, <2>1, <2>3, <2>5 DEF CodeShape
  <1>6. DbShape' /\ Grown /\ MailShape' /\ DeviceShape'
    BY <1>0, Frames
  <1>7. fails' \in 0 .. MaxFails
    BY Frames DEF ResetDelete
  <1>8. QED
    BY <1>1, <1>2, <1>3, <1>5, <1>6, <1>7, ShapeStep

LEMMA ShapeCut ==
    ASSUME Shape, NEW r \in Reqs, Cut(r)
    PROVE  Shape' /\ Answers(r, 500)
  <1>0. /\ users' = users /\ companies' = companies /\ UNCHANGED codes /\ UNCHANGED mail
        /\ UNCHANGED devices /\ req \in [Reqs -> Request]
        /\ pending' = [e \in Emails |-> IF pending[e] = r THEN 0 ELSE pending[e]]
    BY DEF Cut, Shape
  <1>1. Answers(r, 500)
    BY <1>0, AnswerEffect, StatusOK DEF Cut
  <1>2. KindOK(r)' /\ RowOK(r)'
    BY <1>1, AnswerKind, StatusOK
  <1>3. Others(r)
    BY <1>1 DEF Answers
  <1>4. DbShape' /\ Grown
    BY <1>0 DEF Shape, DbShape, Grown
  <1>5. CodeShape' /\ MailShape' /\ DeviceShape'
    BY <1>0, Frames
  <1>6. fails' \in 0 .. MaxFails
    BY Frames DEF Cut
  <1>7. QED
    BY <1>1, <1>2, <1>3, <1>4, <1>5, <1>6, ShapeStep

\* The steps that are not of a request.
LEMMA ShapeIdle ==
    ASSUME Shape, req' = req, users' = users, DbShape', CodeShape', MailShape', DeviceShape',
           fails' \in 0 .. MaxFails
    PROVE  Shape'
  BY DEF Shape, KindOK, RowOK, Q

LEMMA ShapeOtpSet ==
    ASSUME Shape, NEW t \in tasks, OtpSet(t), t.code \in 0 .. issued
    PROVE  Shape' /\ (\A u \in tasks' : u \in tasks \/ (u.pc = "mail" /\ u.kind = t.kind /\ u.code = t.code /\ u.email = t.email))
  <1>0. /\ UNCHANGED db /\ issued' = issued /\ spent' = spent /\ jobs' = jobs /\ sent' = sent
        /\ UNCHANGED devices /\ req' = req /\ t \in Task
    BY DEF OtpSet, Shape, MailShape
  <1>1. PICK u : u = [t EXCEPT !.pc = "mail"]
    OBVIOUS
  <1>2. u \in Task /\ u.pc = "mail" /\ u.kind = t.kind /\ u.code = t.code /\ u.email = t.email
    BY <1>0, <1>1 DEF Task
  <1>3. tasks' = (tasks \ {t}) \cup {u}
    BY <1>1 DEF OtpSet
  <1>4. MailShape'
    BY <1>0, <1>2, <1>3 DEF Shape, MailShape
  <1>5. CodeShape'
    <2>1. issued \in Nat /\ otp \in [Emails -> 0 .. issued] /\ spent \subseteq 1 .. issued
      BY DEF Shape, CodeShape
    <2>2. otp' = [otp EXCEPT ![t.email] = t.code] \/ otp' = otp
      BY DEF OtpSet
    <2>3. otp' \in [Emails -> 0 .. issued]
      BY <2>1, <2>2
    <2>4. QED
      BY <1>0, <2>1, <2>3 DEF CodeShape
  <1>6. DbShape' /\ DeviceShape'
    BY <1>0, Frames
  <1>7. fails' \in 0 .. MaxFails
    BY Frames DEF OtpSet
  <1>8. Shape'
    BY <1>0, <1>4, <1>5, <1>6, <1>7, ShapeIdle DEF db
  <1>9. QED
    BY <1>2, <1>3, <1>8

LEMMA ShapeTaskMail ==
    ASSUME Shape, NEW t \in tasks, TaskMail(t)
    PROVE  /\ Shape'
           /\ \A j \in jobs' : j \in jobs \/ (j.kind = t.kind /\ j.email = t.email /\ j.arg = t.code)
  <1>0. /\ UNCHANGED db /\ UNCHANGED codes /\ sent' = sent /\ tasks' = tasks \ {t}
        /\ UNCHANGED devices /\ req' = req /\ t \in Task
    BY DEF TaskMail, Shape, MailShape
  <1>1. PICK j : j = MailJob(t.kind, t.email, t.code, 0)
    OBVIOUS
  <1>2. /\ t.kind \in {"otp", "welcome", "suspicious", "new_device"} /\ t.email \in Emails
        /\ t.code \in Nat
    BY <1>0 DEF Task
  <1>3. j \in Job /\ j.kind = t.kind /\ j.email = t.email /\ j.arg = t.code
    BY <1>1, <1>2, MailJobType
  <1>4. Enqueue(j)
    BY <1>1 DEF TaskMail
  <1>5. jobs' \subseteq Job /\ jobs' \subseteq jobs \cup {j} /\ fails' \in 0 .. MaxFails
    BY <1>3, <1>4, EnqueueEffect
  <1>6. MailShape'
    BY <1>0, <1>5 DEF Shape, MailShape
  <1>7. DbShape' /\ CodeShape' /\ DeviceShape'
    BY <1>0, Frames
  <1>8. Shape'
    BY <1>0, <1>5, <1>6, <1>7, ShapeIdle DEF db
  <1>9. QED
    BY <1>3, <1>5, <1>8

LEMMA ShapeSend ==
    ASSUME Shape, NEW j \in jobs, SendEmail(j)
    PROVE  /\ Shape'
           /\ \A m \in sent' : m \in sent \/ (m.kind = j.kind /\ m.email = j.email /\ m.arg = j.arg)
  <1>0. /\ UNCHANGED db /\ UNCHANGED codes /\ tasks' = tasks /\ jobs' = jobs \ {j}
        /\ UNCHANGED devices /\ req' = req /\ j \in Job /\ fails' = fails
    BY DEF SendEmail, Shape, MailShape
  <1>1. PICK m : m = [kind |-> j.kind, email |-> j.email, arg |-> j.arg, by |-> j.by]
    OBVIOUS
  <1>2. m \in Mail /\ m.kind = j.kind /\ m.email = j.email /\ m.arg = j.arg
    BY <1>0, <1>1 DEF Mail, Job
  <1>3. sent' = sent \cup {m}
    BY <1>1 DEF SendEmail
  <1>4. MailShape'
    BY <1>0, <1>2, <1>3 DEF Shape, MailShape
  <1>5. DbShape' /\ CodeShape' /\ DeviceShape' /\ fails' \in 0 .. MaxFails
    BY <1>0, Frames
  <1>6. Shape'
    BY <1>0, <1>4, <1>5, ShapeIdle DEF db
  <1>7. QED
    BY <1>2, <1>3, <1>6

LEMMA ShapeSendFails ==
    ASSUME Shape, NEW j \in jobs, SendFails(j)
    PROVE  /\ Shape'
           /\ \A i \in jobs' : i \in jobs \/ (i.kind = j.kind /\ i.email = j.email /\ i.arg = j.arg)
  <1>0. /\ UNCHANGED db /\ UNCHANGED codes /\ tasks' = tasks /\ sent' = sent
        /\ UNCHANGED devices /\ req' = req /\ j \in Job /\ fails' = fails
    BY DEF SendFails, Shape, MailShape
  <1>1. PICK n : n = j.tries - 1
    OBVIOUS
  <1>2. PICK i : i = [j EXCEPT !.tries = n]
    OBVIOUS
  <1>3. i.kind = j.kind /\ i.email = j.email /\ i.arg = j.arg
    BY <1>0, <1>2 DEF Job
  <1>4. j.tries > 1 => i \in Job
    <2>1. MaxTries \in Nat /\ j.tries \in 1 .. MaxTries
      BY <1>0, AccountsAssumption DEF Job
    <2>2. j.tries > 1 => n \in 1 .. MaxTries
      BY <1>1, <2>1
    <2>3. QED
      BY <1>0, <1>2, <2>2 DEF Job
  <1>5. jobs' = (jobs \ {j}) \cup (IF j.tries > 1 THEN {i} ELSE {})
    BY <1>1, <1>2 DEF SendFails
  <1>6. MailShape'
    BY <1>0, <1>4, <1>5 DEF Shape, MailShape
  <1>7. DbShape' /\ CodeShape' /\ DeviceShape' /\ fails' \in 0 .. MaxFails
    BY <1>0, Frames
  <1>8. Shape'
    BY <1>0, <1>6, <1>7, ShapeIdle DEF db
  <1>9. QED
    BY <1>3, <1>5, <1>8

LEMMA ShapeExpires ==
    ASSUME Shape, NEW e \in Emails, OtpExpires(e)
    PROVE  Shape'
  <1>0. /\ UNCHANGED db /\ issued' = issued /\ spent' = spent /\ UNCHANGED mail
        /\ UNCHANGED devices /\ req' = req /\ fails' = fails /\ otp' = [otp EXCEPT ![e] = 0]
    BY DEF OtpExpires
  <1>1. CodeShape'
    BY <1>0 DEF Shape, CodeShape
  <1>2. DbShape' /\ MailShape' /\ DeviceShape' /\ fails' \in 0 .. MaxFails
    BY <1>0, Frames
  <1>3. QED
    BY <1>0, <1>1, <1>2, ShapeIdle DEF db

LEMMA ShapeInit ==
    ASSUME Init
    PROVE  Shape
  <1>1. PICK s \in Scenarios : req = [r \in Reqs |-> NewReq(s[r])]
    BY DEF Init
  <1>2. ASSUME NEW r \in Reqs
        PROVE  NewReq(s[r]) \in Request /\ NewReq(s[r]).pc = "start" /\ NewReq(s[r]).result = 0
    BY DEF NewReq, Request, Asks, PC, Scope, ContextFromToken, Alert
  <1>3. req \in [Reqs -> Request]
    BY <1>1, <1>2
  <1>4. ASSUME NEW r \in Reqs PROVE KindOK(r) /\ RowOK(r)
    <2>1. req[r].pc = "start" /\ req[r].result = 0
      BY <1>1, <1>2
    <2>2. QED
      BY <2>1 DEF KindOK, RowOK, RegisterPC, StaffPC, LoginPC, ResetPC
  <1>5. DbShape
    <2>1. \A e \in Emails : Stored[e] # NoUser => Stored[e].tenant \in {NoTenant} \cup Emails
      BY AccountsAssumption DEF User
    <2>2. QED
      BY <2>1, AccountsAssumption DEF Init, DbShape
  <1>6. CodeShape /\ MailShape /\ DeviceShape /\ fails \in 0 .. MaxFails
    BY AccountsAssumption DEF Init, CodeShape, MailShape, DeviceShape
  <1>7. QED
    BY <1>3, <1>4, <1>5, <1>6 DEF Shape

-----------------------------------------------------------------------------
(***************************************************************************)
(* Past row-level security only inside system_scope.                       *)
(***************************************************************************)

LEMMA ScopedStep ==
    ASSUME Scoped, NEW r \in Reqs, Others(r), ScopeOK(r)'
    PROVE  Scoped'
  <1>1. ASSUME NEW p \in Reqs PROVE ScopeOK(p)'
    <2>1. CASE p = r
      BY <2>1
    <2>2. CASE p # r
      BY <2>2 DEF Others, Scoped, ScopeOK
    <2>3. QED
      BY <2>1, <2>2
  <1>2. QED
    BY <1>1 DEF Scoped

LEMMA ScopedAnswer ==
    ASSUME Scoped, NEW r \in Reqs, NEW status, Answers(r, status)
    PROVE  Scoped'
  <1>1. ScopeOK(r)' /\ Others(r)
    BY DEF Answers, ScopeOK
  <1>2. QED
    BY <1>1, ScopedStep

\* A statement outside system_scope, or a step that leaves the context alone.
LEMMA ScopedRan ==
    ASSUME Shape, Scoped, NEW r \in Reqs, Others(r), req'[r].ctx = req[r].ctx,
           req'[r].tx \in {"none", req[r].tx, TxScope(r)},
           req[r].pc \notin {"owner", "company", "commit", "exit", "done"},
           req'[r].pc \notin {"owner", "company", "commit", "exit"}
    PROVE  Scoped'
  <1>1. req[r].ctx # "system" /\ req[r].tx # "system"
    BY DEF Scoped, ScopeOK
  <1>2. req'[r].ctx # "system" /\ req'[r].tx # "system"
    BY <1>1 DEF TxScope
  <1>3. ScopeOK(r)'
    BY <1>2 DEF ScopeOK
  <1>4. QED
    BY <1>3, ScopedStep

LEMMA ScopedRegister ==
    ASSUME Shape, Scoped, NEW r \in Reqs,
           \/ EnterSystemScope(r) \/ InsertOwner(r) \/ InsertCompany(r) \/ CommitCompany(r)
           \/ ExitSystemScope(r)
    PROVE  Scoped'
  <1>0. req \in [Reqs -> Request] /\ ScopeOK(r) /\ "company" \in PC /\ "commit" \in PC
    BY DEF Shape, Scoped, PC, RegisterPC
  <1>1. CASE EnterSystemScope(r)
    <2>1. /\ GoesTo(r, "owner") /\ req'[r].ctx = "system"
          /\ req'[r].tx = IF req[r].tx = "none" THEN "none" ELSE "system"
      BY <1>1, EnterEffect
    <2>2. ScopeOK(r)' /\ Others(r)
      BY <2>1 DEF GoesTo, ScopeOK
    <2>3. QED
      BY <2>2, ScopedStep
  <1>2. CASE InsertOwner(r)
    <2>1. CASE req' = Answer(r, 500)
      BY <1>0, <2>1, AnswerEffect, StatusOK, ScopedAnswer
    <2>2. CASE req' = Ran(r, "company")
      <3>1. GoesTo(r, "company") /\ req'[r].ctx = req[r].ctx /\ req'[r].tx = TxScope(r)
        BY <1>0, <2>2, RanEffect
      <3>2. ScopeOK(r)' /\ Others(r)
        BY <1>0, <1>2, <3>1 DEF GoesTo, ScopeOK, InsertOwner, At, TxScope
      <3>3. QED
        BY <3>2, ScopedStep
    <2>3. QED
      BY <1>2, <2>1, <2>2 DEF InsertOwner
  <1>3. CASE InsertCompany(r)
    <2>1. CASE req' = Answer(r, 500)
      BY <1>0, <2>1, AnswerEffect, StatusOK, ScopedAnswer
    <2>2. CASE req' = Ran(r, "commit")
      <3>1. GoesTo(r, "commit") /\ req'[r].ctx = req[r].ctx /\ req'[r].tx = TxScope(r)
        BY <1>0, <2>2, RanEffect
      <3>2. ScopeOK(r)' /\ Others(r)
        BY <1>0, <1>3, <3>1 DEF GoesTo, ScopeOK, InsertCompany, At, TxScope
      <3>3. QED
        BY <3>2, ScopedStep
    <2>3. QED
      BY <1>3, <2>1, <2>2 DEF InsertCompany
  <1>4. CASE CommitCompany(r)
    <2>1. GoesTo(r, "exit") /\ req'[r].ctx = req[r].ctx /\ req'[r].tx = "none"
      BY <1>4, ShapeCommit
    <2>2. ScopeOK(r)' /\ Others(r)
      BY <2>1 DEF GoesTo, ScopeOK
    <2>3. QED
      BY <2>2, ScopedStep
  <1>5. CASE ExitSystemScope(r)
    <2>1. /\ GoesTo(r, "refresh") /\ req'[r].ctx = ContextFromToken(Q(r))
          /\ req'[r].tx = IF req[r].tx = "none" THEN "none" ELSE ContextFromToken(Q(r))
      BY <1>5, ExitEffect
    <2>2. req'[r].ctx # "system" /\ req'[r].tx # "system"
      BY <2>1 DEF ContextFromToken
    <2>3. ScopeOK(r)' /\ Others(r)
      BY <2>1, <2>2 DEF GoesTo, ScopeOK
    <2>4. QED
      BY <2>3, ScopedStep
  <1>6. QED
    BY <1>1, <1>2, <1>3, <1>4, <1>5

LEMMA ScopedRequest ==
    ASSUME Shape, Coded, Scoped, NEW r \in Reqs, RequestStep(r) \/ Cut(r)
    PROVE  Scoped'
  <1>0. req \in [Reqs -> Request] /\ "hash" \in PC /\ "insert" \in PC
    BY DEF Shape, PC, RegisterPC
  <1>1. CASE Start(r)
    <2>1. Others(r) /\ SameScope(r) /\ req'[r].pc = Q(r).kind
      BY <1>1, StartEffect
    <2>2. Q(r).kind \in Kind
      BY <1>0, AskOK DEF Request, Q
    <2>3. QED
      BY <1>1, <2>1, <2>2, ScopedRan DEF Start, At, SameScope, Kind
  <1>2. ASSUME NEW kind \in {"register", "staff_email"}, NEW next \in {"hash", "insert"},
               CheckEmail(r, kind, next)
        PROVE  Scoped'
    BY <1>0, <1>2, CheckEffect, ScopedAnswer, ScopedRan DEF CheckEmail, At, GoesTo
  <1>3. CASE \/ EnterSystemScope(r) \/ InsertOwner(r) \/ InsertCompany(r) \/ CommitCompany(r)
             \/ ExitSystemScope(r)
    BY <1>3, ScopedRegister
  <1>4. CASE RegisterPlain(r)
    BY <1>4, PlainEffect, ScopedRan DEF RegisterPlain, At, GoesTo, SameScope
  <1>5. CASE InsertUser(r)
    BY <1>5, InsertEffect, ScopedAnswer, ScopedRan DEF InsertUser, At, GoesTo
  <1>6. CASE Refresh(r)
    BY <1>6, RefreshEffect, ScopedRan DEF Refresh, At
  <1>7. CASE AuthStaff(r)
    BY <1>7, AuthEffect, ScopedAnswer, ScopedRan DEF AuthStaff, At
  <1>8. CASE LoginSelect(r)
    BY <1>8, SelectEffect, ScopedRan DEF LoginSelect, At
  <1>9. CASE LoginVerify(r)
    BY <1>9, VerifyEffect, ScopedAnswer, ScopedRan DEF LoginVerify, At, GoesTo, SameScope
  <1>10. CASE LoginAssess(r)
    <2>1. CASE Answers(r, 503)
      BY <2>1, ScopedAnswer
    <2>2. CASE Others(r) /\ SameScope(r) /\ req'[r].pc = "store"
      BY <1>10, <2>2, ScopedRan DEF LoginAssess, At, SameScope
    <2>3. QED
      BY <1>10, <2>1, <2>2, AssessEffect
  <1>11. CASE LoginStore(r)
    <2>1. CASE Answers(r, 503)
      BY <2>1, ScopedAnswer
    <2>2. CASE Others(r) /\ SameScope(r) /\ req'[r].pc = "alert"
      <3>1. At(r, "store")
        BY <1>11 DEF LoginStore
      <3>2. QED
        BY <2>2, <3>1, ScopedRan DEF At, SameScope
    <2>3. QED
      BY <1>11, <2>1, <2>2, StoreEffect, Zenon
  <1>12. CASE LoginAlert(r)
    BY <1>12, AlertEffect, ScopedAnswer
  <1>13. CASE ForgotPassword(r)
    BY <1>13, ShapeForgot, ScopedAnswer
  <1>14. CASE ResetRead(r)
    <2>1. CASE Answers(r, 400)
      BY <2>1, ScopedAnswer
    <2>2. CASE Others(r) /\ SameScope(r) /\ req'[r].pc = "reset_user"
      <3>1. At(r, "reset")
        BY <1>14 DEF ResetRead
      <3>2. QED
        BY <2>2, <3>1, ScopedRan DEF At, SameScope
    <2>3. QED
      BY <1>14, <2>1, <2>2, ResetReadEffect
  <1>15. CASE ResetSelect(r)
    BY <1>15, ResetSelectEffect, ScopedAnswer, ScopedRan DEF ResetSelect, At, GoesTo
  <1>16. CASE ResetCommit(r)
    BY <1>16, ResetCommitEffect, ScopedRan DEF ResetCommit, At, GoesTo
  <1>17. CASE ResetDelete(r)
    BY <1>17, ShapeResetDelete, ScopedAnswer
  <1>18. CASE Cut(r)
    BY <1>18, ShapeCut, ScopedAnswer
  <1>19. QED
    BY <1>1, <1>2, <1>3, <1>4, <1>5, <1>6, <1>7, <1>8, <1>9, <1>10, <1>11, <1>12, <1>13, <1>14,
       <1>15, <1>16, <1>17, <1>18 DEF RequestStep

-----------------------------------------------------------------------------
(***************************************************************************)
(* Registration is all or nothing.                                         *)
(***************************************************************************)

LEMMA SameAsk ==
    ASSUME Shape, NEW r \in Reqs, Others(r)
    PROVE  \A p \in Reqs : req'[p].q = req[p].q /\ req[p].q.email \in Emails
  BY AskOK DEF Shape, Others, Request

\* The rows stay: what is left to show of a step that only moves the request or its hold
\* on an e-mail.
LEMMA RegisteredQuiet ==
    ASSUME Shape, Registered, NEW r \in Reqs, Others(r), users' = users, companies' = companies,
           \A p \in Reqs \ {r} : req[p].pc \in {"company", "commit"} => pending'[Q(p).email] = p,
           req'[r].pc \in {"company", "commit"} =>
              pending'[Q(r).email] = r /\ users[Q(r).email] = NoUser,
           req'[r].pc \in {"staff_email", "insert"} /\ Q(r).kind = "staff" =>
              req'[r].seen.tenant \in companies,
           Winner(r)' => Winner(r)
    PROVE  Registered'
  <1>0. \A p \in Reqs : Q(p)' = Q(p)
    BY SameAsk DEF Q
  <1>1. TenantIntact'
    BY DEF Registered, TenantIntact
  <1>2. \A p \in Reqs : Winner(p)' => Winner(p)
    BY DEF Others, Winner, Q
  <1>3. UniqueWinner'
    BY <1>0, <1>2 DEF Registered, UniqueWinner
  <1>4. ASSUME NEW p \in Reqs PROVE RegisterOK(p)'
    <2>0. RegisterOK(p) /\ Q(p)' = Q(p) /\ \A e : Resets(e)' = Resets(e)
      BY <1>0 DEF Registered, Resets
    <2>1. (req'[p].pc \in {"company", "commit"} =>
              pending'[Q(p).email] = p /\ users'[Q(p).email] = NoUser)
      BY <2>0 DEF RegisterOK, Others
    <2>2. req'[p].pc \in {"staff_email", "insert"} /\ Q(p).kind = "staff" =>
              req'[p].seen.tenant \in companies'
      BY <2>0 DEF RegisterOK, Others
    <2>3. Winner(p)' =>
          /\ users'[Q(p).email] # NoUser
          /\ users'[Q(p).email].pw \in {Q(p).pw} \cup {Q(x).pw : x \in Resets(Q(p).email)}
          /\ (users'[Q(p).email].role = "HR_Manager") <=> (Q(p).kind = "staff")
      BY <1>2, <2>0 DEF RegisterOK
    <2>4. {Q(x).pw : x \in Resets(Q(p).email)}' = {Q(x).pw : x \in Resets(Q(p).email)}
      BY <1>0, <2>0 DEF Resets
    <2>5. QED
      BY <2>0, <2>1, <2>2, <2>3, <2>4 DEF RegisterOK
  <1>5. QED
    BY <1>1, <1>3, <1>4 DEF Registered

\* A row is inserted for an e-mail that was free, with the organisation it belongs to.
LEMMA RegisteredInsert ==
    ASSUME Shape, Registered, NEW r \in Reqs, Others(r), NEW e \in Emails, e = Q(r).email,
           NEW row \in User, users[e] = NoUser, users' = [users EXCEPT ![e] = row],
           \/ companies' = companies /\ row.tenant \in companies \cup {NoTenant}
           \/ companies' = companies \cup {e} /\ row.tenant = e,
           row.role = "Candidate" <=> row.tenant = NoTenant,
           row.pw = Q(r).pw, row.role = "HR_Manager" <=> Q(r).kind = "staff",
           \A p \in Reqs \ {r} : req[p].pc \in {"company", "commit"} =>
              Q(p).email # e /\ pending'[Q(p).email] = pending[Q(p).email],
           req'[r].pc \in {"exit", "refresh"}
    PROVE  Registered'
  <1>0. /\ \A p \in Reqs : Q(p)' = Q(p) /\ Q(p).email \in Emails
        /\ users \in [Emails -> User \cup {NoUser}] /\ companies \subseteq Emails /\ row # NoUser
        /\ NoTenant \notin Emails
    BY SameAsk, AccountsAssumption DEF Q, Shape, DbShape
  <1>1. users'[e] = row /\ \A x \in Emails \ {e} : users'[x] = users[x]
    BY <1>0
  <1>2. TenantIntact'
    <2>1. TenantIntact /\ e \notin companies
      BY DEF Registered, TenantIntact
    <2>2. ASSUME NEW t \in companies' PROVE users'[t] # NoUser /\ users'[t].tenant = t
      BY <1>0, <1>1, <2>1 DEF TenantIntact
    <2>3. ASSUME NEW x \in Emails, users'[x] # NoUser
          PROVE  /\ users'[x].tenant \in companies' \cup {NoTenant}
                 /\ (users'[x].role = "Candidate") <=> (users'[x].tenant = NoTenant)
      <3>1. CASE x = e
        BY <3>1, <1>1
      <3>2. CASE x # e
        BY <3>2, <1>1, <2>1, <2>3 DEF TenantIntact
      <3>3. QED
        BY <3>1, <3>2
    <2>4. QED
      BY <2>2, <2>3 DEF TenantIntact
  <1>3. \A p \in Reqs : Winner(p) => Q(p).email # e
    BY DEF Registered, RegisterOK
  <1>4. \A p \in Reqs \ {r} : Winner(p)' => Winner(p)
    BY DEF Others, Winner, Q
  <1>5. UniqueWinner'
    BY <1>0, <1>3, <1>4 DEF Registered, UniqueWinner
  <1>6. ASSUME NEW p \in Reqs PROVE RegisterOK(p)'
    <2>0. RegisterOK(p) /\ Q(p)' = Q(p) /\ Q(p).email \in Emails /\ \A x : Resets(x)' = Resets(x)
      BY <1>0 DEF Registered, Resets
    <2>1. (req'[p].pc \in {"company", "commit"} =>
              pending'[Q(p).email] = p /\ users'[Q(p).email] = NoUser)
      BY <1>1, <2>0 DEF RegisterOK, Others
    <2>2. req'[p].pc \in {"staff_email", "insert"} /\ Q(p).kind = "staff" =>
              req'[p].seen.tenant \in companies'
      BY <2>0 DEF RegisterOK, Others
    <2>3. Winner(p)' =>
          /\ users'[Q(p).email] # NoUser
          /\ users'[Q(p).email].pw \in {Q(p).pw} \cup {Q(x).pw : x \in Resets(Q(p).email)}
          /\ (users'[Q(p).email].role = "HR_Manager") <=> (Q(p).kind = "staff")
      <3>1. CASE p = r
        BY <3>1, <1>0, <1>1
      <3>2. CASE p # r
        BY <3>2, <1>1, <1>3, <1>4, <2>0 DEF RegisterOK
      <3>3. QED
        BY <3>1, <3>2
    <2>4. {Q(x).pw : x \in Resets(Q(p).email)}' = {Q(x).pw : x \in Resets(Q(p).email)}
      BY <1>0, <2>0 DEF Resets
    <2>5. QED
      BY <2>0, <2>1, <2>2, <2>3, <2>4 DEF RegisterOK
  <1>7. QED
    BY <1>2, <1>5, <1>6 DEF Registered

\* A new password for an account that exists.
LEMMA RegisteredReset ==
    ASSUME Shape, Registered, NEW r \in Reqs, ResetCommit(r)
    PROVE  Registered'
  <1>1. /\ GoesTo(r, "reset_delete") /\ Q(r).email \in Emails /\ Q(r).kind = "reset"
        /\ users[Q(r).email] \in User
    BY ResetCommitEffect
  <1>2. PICK row \in User :
            /\ users' = [users EXCEPT ![Q(r).email] = row]
            /\ row.pw = Q(r).pw /\ row.role = users[Q(r).email].role
            /\ row.tenant = users[Q(r).email].tenant
    BY ResetCommitEffect
  <1>3. Others(r) /\ companies' = companies /\ pending' = pending /\ req'[r].pc = "reset_delete"
        /\ req'[r].result = req[r].result
    BY <1>1 DEF GoesTo, ResetCommit
  <1>4. /\ \A p \in Reqs : Q(p)' = Q(p) /\ Q(p).email \in Emails
        /\ users \in [Emails -> User \cup {NoUser}] /\ companies \subseteq Emails
        /\ row # NoUser /\ users[Q(r).email] # NoUser
    BY <1>1, <1>3, SameAsk, AccountsAssumption DEF Q, Shape, DbShape
  <1>5. /\ users'[Q(r).email] = row
        /\ \A x \in Emails \ {Q(r).email} : users'[x] = users[x]
    BY <1>1, <1>2, <1>4
  <1>6. \A x \in Emails : /\ users'[x] # NoUser <=> users[x] # NoUser
                          /\ users'[x].role = users[x].role /\ users'[x].tenant = users[x].tenant
    BY <1>2, <1>4, <1>5
  <1>7. TenantIntact'
    BY <1>3, <1>4, <1>6 DEF Registered, TenantIntact
  <1>8. \A p \in Reqs : Winner(p)' => Winner(p)
    BY <1>3 DEF Others, Winner, Q
  <1>9. UniqueWinner'
    BY <1>4, <1>8 DEF Registered, UniqueWinner
  <1>10. ASSUME NEW p \in Reqs PROVE RegisterOK(p)'
    <2>0. RegisterOK(p) /\ Q(p)' = Q(p) /\ Q(p).email \in Emails /\ \A x : Resets(x)' = Resets(x)
      BY <1>4 DEF Registered, Resets
    <2>1. (req'[p].pc \in {"company", "commit"} =>
              pending'[Q(p).email] = p /\ users'[Q(p).email] = NoUser)
      BY <1>3, <1>6, <2>0 DEF RegisterOK, Others
    <2>2. req'[p].pc \in {"staff_email", "insert"} /\ Q(p).kind = "staff" =>
              req'[p].seen.tenant \in companies'
      BY <1>3, <2>0 DEF RegisterOK, Others
    <2>3. Winner(p)' => users'[Q(p).email].pw \in {Q(p).pw} \cup {Q(x).pw : x \in Resets(Q(p).email)}
      <3>1. CASE Q(p).email = Q(r).email
        <4>1. r \in Resets(Q(p).email)
          BY <1>1, <3>1 DEF Resets
        <4>2. QED
          BY <1>2, <1>5, <3>1, <4>1
      <3>2. CASE Q(p).email # Q(r).email
        BY <3>2, <1>5, <1>8, <2>0 DEF RegisterOK
      <3>3. QED
        BY <3>1, <3>2
    <2>4. Winner(p)' =>
          /\ users'[Q(p).email] # NoUser
          /\ (users'[Q(p).email].role = "HR_Manager") <=> (Q(p).kind = "staff")
      BY <1>6, <1>8, <2>0 DEF RegisterOK
    <2>5. {Q(x).pw : x \in Resets(Q(p).email)}' = {Q(x).pw : x \in Resets(Q(p).email)}
      BY <1>4, <2>0 DEF Resets
    <2>6. QED
      BY <2>0, <2>1, <2>2, <2>3, <2>4, <2>5 DEF RegisterOK
  <1>11. QED
    BY <1>7, <1>9, <1>10 DEF Registered

\* An answer other than 201 frees at most the e-mail the request held.
LEMMA RegisteredAnswer ==
    ASSUME Shape, Registered, NEW r \in Reqs, NEW status \in Nat, status # 201, Answers(r, status),
           users' = users, companies' = companies,
           \A e \in Emails : pending[e] # r => pending'[e] = pending[e]
    PROVE  Registered'
  <1>1. Others(r) /\ req'[r].pc = "done" /\ req'[r].result # 201
    BY DEF Answers
  <1>2. ~Winner(r)'
    BY <1>1 DEF Winner
  <1>3. ASSUME NEW p \in Reqs \ {r}, req[p].pc \in {"company", "commit"}
        PROVE  pending'[Q(p).email] = p
    <2>1. pending[Q(p).email] = p /\ Q(p).email \in Emails
      BY <1>1, <1>3, SameAsk DEF Registered, RegisterOK, Q
    <2>2. QED
      BY <2>1
  <1>4. QED
    BY <1>1, <1>2, <1>3, RegisteredQuiet

\* A step outside registration.
LEMMA RegisteredElsewhere ==
    ASSUME Shape, Registered, NEW r \in Reqs, Others(r), UNCHANGED db,
           req'[r].pc \notin {"company", "commit", "exit", "refresh", "staff_email", "insert"},
           req'[r].result = req[r].result
    PROVE  Registered'
  <1>1. users' = users /\ companies' = companies /\ pending' = pending
    BY DEF db
  <1>2. Winner(r)' => Winner(r)
    BY DEF Winner, Others, Q
  <1>3. \A p \in Reqs \ {r} : req[p].pc \in {"company", "commit"} => pending'[Q(p).email] = p
    BY <1>1 DEF Registered, RegisterOK
  <1>4. QED
    BY <1>1, <1>2, <1>3, RegisteredQuiet

LEMMA RegisteredRegister ==
    ASSUME Shape, Registered, NEW r \in Reqs,
           \/ RegisterPlain(r) \/ InsertOwner(r) \/ InsertCompany(r) \/ CommitCompany(r)
           \/ ExitSystemScope(r) \/ InsertUser(r) \/ Refresh(r) \/ AuthStaff(r)
    PROVE  Registered'
  <1>0. /\ req \in [Reqs -> Request] /\ RegisterOK(r) /\ KindOK(r) /\ "company" \in PC /\ "commit" \in PC
        /\ Q(r).email \in Emails /\ 0 \notin Reqs
        /\ \A p \in Reqs : req[p].pc \in {"company", "commit"} =>
               pending[Q(p).email] = p /\ users[Q(p).email] = NoUser
    BY AskOK, AccountsAssumption DEF Shape, Registered, RegisterOK, PC, RegisterPC, Request, Q
  <1>1. CASE RegisterPlain(r)
    <2>1. /\ GoesTo(r, "insert") /\ req[r].pc = "hash" /\ users' = users /\ companies' = companies
          /\ pending' = pending
      BY <1>1, PlainEffect DEF RegisterPlain, At, db
    <2>2. Q(r).kind = "register" /\ Others(r) /\ req'[r].pc = "insert" /\ req'[r].result = req[r].result
      BY <1>0, <2>1 DEF KindOK, RegisterPC, StaffPC, GoesTo
    <2>3. Winner(r)' => Winner(r)
      BY <2>2 DEF Winner, Others, Q
    <2>4. QED
      BY <1>0, <2>1, <2>2, <2>3, RegisteredQuiet
  <1>2. CASE InsertOwner(r)
    <2>0. users' = users /\ companies' = companies /\ pending[Q(r).email] = 0 /\ req[r].pc = "owner"
      BY <1>2 DEF InsertOwner, At
    <2>1. CASE ~EmailFree(Q(r).email)
      <3>1. Answers(r, 500) /\ pending' = pending
        BY <1>0, <1>2, <2>1, AnswerEffect, StatusOK DEF InsertOwner
      <3>2. QED
        BY <2>0, <3>1, RegisteredAnswer, StatusOK
    <2>2. CASE EmailFree(Q(r).email)
      <3>1. GoesTo(r, "company") /\ pending' = [pending EXCEPT ![Q(r).email] = r]
        BY <1>0, <1>2, <2>2, RanEffect DEF InsertOwner
      <3>2. Others(r) /\ req'[r].pc = "company" /\ req'[r].result = req[r].result
        BY <3>1 DEF GoesTo
      <3>3. Winner(r)' => Winner(r)
        BY <3>2 DEF Winner, Others, Q
      <3>4. \A p \in Reqs \ {r} : req[p].pc \in {"company", "commit"} => pending'[Q(p).email] = p
        BY <1>0, <2>0, <3>1
      <3>5. pending'[Q(r).email] = r /\ users[Q(r).email] = NoUser
        BY <1>0, <2>2, <3>1 DEF Shape, DbShape, EmailFree
      <3>6. QED
        BY <2>0, <3>2, <3>3, <3>4, <3>5, RegisteredQuiet
    <2>3. QED
      BY <2>1, <2>2
  <1>3. CASE InsertCompany(r)
    <2>0. users' = users /\ companies' = companies /\ req[r].pc = "company"
      BY <1>3 DEF InsertCompany, At
    <2>1. CASE TxScope(r) # "system"
      <3>1. Answers(r, 500) /\ pending' = [pending EXCEPT ![Q(r).email] = 0]
        BY <1>0, <1>3, <2>1, AnswerEffect, StatusOK DEF InsertCompany
      <3>2. \A e \in Emails : pending[e] # r => pending'[e] = pending[e]
        BY <1>0, <2>0, <3>1 DEF Shape, DbShape
      <3>3. QED
        BY <2>0, <3>1, <3>2, RegisteredAnswer, StatusOK
    <2>2. CASE TxScope(r) = "system"
      <3>1. GoesTo(r, "commit") /\ pending' = pending
        BY <1>0, <1>3, <2>2, RanEffect DEF InsertCompany
      <3>2. Others(r) /\ req'[r].pc = "commit" /\ req'[r].result = req[r].result
        BY <3>1 DEF GoesTo
      <3>3. Winner(r)' => Winner(r)
        BY <3>2 DEF Winner, Others, Q
      <3>4. QED
        BY <1>0, <2>0, <3>1, <3>2, <3>3, RegisteredQuiet
    <2>3. QED
      BY <2>1, <2>2
  <1>4. CASE CommitCompany(r)
    <2>0. req[r].pc = "commit" /\ users[Q(r).email] = NoUser /\ pending[Q(r).email] = r
      BY <1>0, <1>4 DEF CommitCompany, At
    <2>1. Q(r) \in Asks /\ Q(r).kind = "register"
      BY <1>0, <2>0 DEF KindOK, RegisterPC, StaffPC, Request, Q
    <2>2. Q(r).pw \in STRING
      BY <2>1, AskOK
    <2>3. PICK row \in User : row = [pw |-> Q(r).pw, role |-> "Admin", tenant |-> Q(r).email]
      BY <1>0, <2>2 DEF User
    <2>4. /\ users' = [users EXCEPT ![Q(r).email] = row] /\ companies' = companies \cup {Q(r).email}
          /\ pending' = [pending EXCEPT ![Q(r).email] = 0]
      BY <1>4, <2>3 DEF CommitCompany
    <2>5. row.tenant = Q(r).email /\ row.role = "Admin" /\ row.pw = Q(r).pw
      BY <2>3
    <2>6. row.tenant # NoTenant
      BY <1>0, <2>5, AccountsAssumption
    <2>7. \A p \in Reqs \ {r} : req[p].pc \in {"company", "commit"} =>
              Q(p).email # Q(r).email /\ pending'[Q(p).email] = pending[Q(p).email]
      BY <1>0, <2>0, <2>4 DEF Shape, DbShape
    <2>8. Others(r) /\ req'[r].pc = "exit"
      BY <1>4, ShapeCommit DEF GoesTo
    <2>9. QED
      BY <1>0, <2>0, <2>1, <2>4, <2>5, <2>6, <2>7, <2>8, RegisteredInsert
  <1>5. CASE ExitSystemScope(r)
    <2>1. /\ GoesTo(r, "refresh") /\ req[r].pc = "exit" /\ users' = users /\ companies' = companies
          /\ pending' = pending
      BY <1>5, ExitEffect DEF ExitSystemScope, At, db
    <2>2. Others(r) /\ req'[r].pc = "refresh" /\ req'[r].result = req[r].result
      BY <2>1 DEF GoesTo
    <2>3. Winner(r)' => Winner(r)
      BY <2>1, <2>2 DEF Winner, Others, Q
    <2>4. QED
      BY <1>0, <2>1, <2>2, <2>3, RegisteredQuiet
  <1>6. CASE InsertUser(r)
    <2>0. /\ req[r].pc = "insert" /\ pending[Q(r).email] = 0 /\ companies' = companies
          /\ pending' = pending
      BY <1>6 DEF InsertUser, At
    <2>1. CASE Answers(r, 500) /\ users' = users
      BY <2>0, <2>1, RegisteredAnswer, StatusOK
    <2>2. CASE ~(Answers(r, 500) /\ users' = users)
      <3>1. PICK row \in User :
              /\ users' = [users EXCEPT ![Q(r).email] = row]
              /\ row.pw = Q(r).pw
              /\ IF Q(r).kind = "staff"
                 THEN row.role = "HR_Manager" /\ row.tenant = req[r].seen.tenant
                 ELSE row.role = "Candidate" /\ row.tenant = NoTenant
        BY <1>6, <2>2, InsertEffect
      <3>2. GoesTo(r, "refresh") /\ users[Q(r).email] = NoUser
        BY <1>6, <2>2, InsertEffect
      <3>3. Others(r) /\ req'[r].pc = "refresh"
        BY <3>2 DEF GoesTo
      <3>4. Q(r).kind = "staff" => req[r].seen.tenant \in companies
        BY <1>0, <2>0 DEF RegisterOK
      <3>5. NoTenant \notin companies
        BY AccountsAssumption DEF Shape, DbShape
      <3>6. /\ row.tenant \in companies \cup {NoTenant}
            /\ row.role = "Candidate" <=> row.tenant = NoTenant
            /\ row.role = "HR_Manager" <=> Q(r).kind = "staff"
        BY <3>1, <3>4, <3>5
      <3>7. \A p \in Reqs \ {r} : req[p].pc \in {"company", "commit"} =>
                Q(p).email # Q(r).email /\ pending'[Q(p).email] = pending[Q(p).email]
        BY <1>0, <2>0
      <3>8. QED
        BY <1>0, <2>0, <3>1, <3>2, <3>3, <3>6, <3>7, RegisteredInsert
    <2>3. QED
      BY <2>1, <2>2
  <1>7. CASE Refresh(r)
    <2>1. Others(r) /\ req'[r].pc = "done"
      BY <1>7, RefreshEffect
    <2>2. req[r].pc = "refresh" /\ users' = users /\ companies' = companies /\ pending' = pending
      BY <1>7 DEF Refresh, At, db
    <2>3. Winner(r)
      BY <1>0, <2>2 DEF Winner, KindOK
    <2>4. QED
      BY <1>0, <2>1, <2>2, <2>3, RegisteredQuiet
  <1>8. CASE AuthStaff(r)
    <2>0. users' = users /\ companies' = companies /\ pending' = pending /\ req[r].pc = "staff"
      BY <1>8 DEF AuthStaff, At, db
    <2>1. CASE Answers(r, 401)
      BY <2>0, <2>1, RegisteredAnswer, StatusOK
    <2>2. CASE Answers(r, 403)
      BY <2>0, <2>2, RegisteredAnswer, StatusOK
    <2>3. CASE /\ Others(r) /\ req'[r].pc = "staff_email" /\ req'[r].result = req[r].result
               /\ req'[r].seen = users[Q(r).by] /\ req'[r].seen # NoUser /\ req'[r].seen.role = "Admin"
      <3>1. Q(r) \in Asks /\ Q(r).kind = "staff"
        BY <1>0, <2>0 DEF KindOK, StaffPC, RegisterPC, Request, Q
      <3>2. Q(r).by \in Emails
        BY <3>1, AskOK
      <3>3. users[Q(r).by].tenant \in companies
        BY <2>3, <3>2 DEF Registered, TenantIntact
      <3>4. Winner(r)' => Winner(r)
        BY <2>3 DEF Winner, Others, Q
      <3>5. QED
        BY <1>0, <2>0, <2>3, <3>3, <3>4, RegisteredQuiet
    <2>4. QED
      BY <1>8, <2>1, <2>2, <2>3, AuthEffect
  <1>9. QED
    BY <1>1, <1>2, <1>3, <1>4, <1>5, <1>6, <1>7, <1>8

LEMMA RegisteredRequest ==
    ASSUME Shape, Coded, Registered, NEW r \in Reqs, RequestStep(r) \/ Cut(r)
    PROVE  Registered'
  <1>0. req \in [Reqs -> Request] /\ KindOK(r) /\ RegisterOK(r)
    BY DEF Shape, Registered
  <1>1. CASE Start(r)
    <2>1. Others(r) /\ req'[r].result = req[r].result /\ req'[r].pc = Q(r).kind /\ UNCHANGED db
      BY <1>1, StartEffect DEF Start
    <2>2. Q(r).kind \in Kind
      BY <1>0, AskOK DEF Request, Q
    <2>3. QED
      BY <2>1, <2>2, RegisteredElsewhere DEF Kind
  <1>2. ASSUME NEW kind, NEW next, CheckEmail(r, kind, next),
               (kind = "register" /\ next = "hash") \/ (kind = "staff_email" /\ next = "insert")
        PROVE  Registered'
    <2>0. /\ users' = users /\ companies' = companies /\ pending' = pending /\ req[r].pc = kind
          /\ UNCHANGED db /\ next \in PC
      BY <1>2 DEF CheckEmail, At, db, PC, RegisterPC
    <2>1. CASE Answers(r, 400)
      BY <2>0, <2>1, RegisteredAnswer, StatusOK
    <2>2. CASE GoesTo(r, next)
      <3>1. Others(r) /\ req'[r].pc = next /\ req'[r].result = req[r].result /\ req'[r].seen = req[r].seen
        BY <2>2 DEF GoesTo
      <3>2. Winner(r)' => Winner(r)
        BY <1>2, <3>1 DEF Winner, Others, Q
      <3>3. next = "insert" /\ Q(r).kind = "staff" => req'[r].seen.tenant \in companies
        BY <1>0, <1>2, <2>0, <3>1 DEF RegisterOK
      <3>4. \A p \in Reqs : req[p].pc \in {"company", "commit"} => pending'[Q(p).email] = p
        BY <2>0 DEF Registered, RegisterOK
      <3>5. QED
        BY <1>2, <2>0, <3>1, <3>2, <3>3, <3>4, RegisteredQuiet
    <2>3. QED
      BY <1>2, <2>0, <2>1, <2>2, CheckEffect
  <1>3. CASE \/ RegisterPlain(r) \/ InsertOwner(r) \/ InsertCompany(r) \/ CommitCompany(r)
             \/ ExitSystemScope(r) \/ InsertUser(r) \/ Refresh(r) \/ AuthStaff(r)
    BY <1>3, RegisteredRegister
  <1>4. CASE EnterSystemScope(r)
    BY <1>4, EnterEffect, RegisteredElsewhere DEF EnterSystemScope, GoesTo
  <1>5. ASSUME NEW status \in {200, 400, 401, 500, 503}, Answers(r, status), UNCHANGED db
        PROVE  Registered'
    BY <1>5, RegisteredAnswer DEF db
  <1>6. CASE LoginSelect(r)
    BY <1>6, SelectEffect, RegisteredElsewhere DEF LoginSelect
  <1>7. CASE LoginVerify(r)
    <2>1. UNCHANGED db
      BY <1>7 DEF LoginVerify
    <2>2. CASE GoesTo(r, "assess")
      BY <2>1, <2>2, RegisteredElsewhere DEF GoesTo
    <2>3. QED
      BY <1>5, <1>7, <2>1, <2>2, VerifyEffect
  <1>8. CASE LoginAssess(r)
    <2>1. UNCHANGED db
      BY <1>8 DEF LoginAssess
    <2>2. CASE Others(r) /\ req'[r].pc = "store" /\ req'[r].result = req[r].result
      BY <2>1, <2>2, RegisteredElsewhere
    <2>3. QED
      BY <1>5, <1>8, <2>1, <2>2, AssessEffect
  <1>9. CASE LoginStore(r)
    <2>1. UNCHANGED db
      BY <1>9 DEF LoginStore
    <2>2. CASE Others(r) /\ req'[r].pc = "alert" /\ req'[r].result = req[r].result
      BY <2>1, <2>2, RegisteredElsewhere
    <2>3. CASE Answers(r, 503)
      BY <1>5, <2>1, <2>3
    <2>4. QED
      BY <1>9, <2>2, <2>3, StoreEffect, Zenon
  <1>10. CASE LoginAlert(r)
    BY <1>5, <1>10, AlertEffect DEF LoginAlert
  <1>11. CASE ForgotPassword(r)
    BY <1>5, <1>11, ShapeForgot DEF ForgotPassword
  <1>12. CASE ResetRead(r)
    <2>1. UNCHANGED db
      BY <1>12 DEF ResetRead
    <2>2. CASE Others(r) /\ req'[r].pc = "reset_user" /\ req'[r].result = req[r].result
      BY <2>1, <2>2, RegisteredElsewhere
    <2>3. QED
      BY <1>5, <1>12, <2>1, <2>2, ResetReadEffect
  <1>13. CASE ResetSelect(r)
    <2>1. UNCHANGED db
      BY <1>13 DEF ResetSelect
    <2>2. CASE GoesTo(r, "reset_commit")
      BY <2>1, <2>2, RegisteredElsewhere DEF GoesTo
    <2>3. QED
      BY <1>5, <1>13, <2>1, <2>2, ResetSelectEffect
  <1>14. CASE ResetCommit(r)
    BY <1>14, RegisteredReset
  <1>15. CASE ResetDelete(r)
    BY <1>5, <1>15, ShapeResetDelete DEF ResetDelete
  <1>16. CASE Cut(r)
    <2>1. Answers(r, 500) /\ users' = users /\ companies' = companies
      BY <1>16, ShapeCut DEF Cut
    <2>2. \A e \in Emails : pending[e] # r => pending'[e] = pending[e]
      BY <1>16 DEF Cut
    <2>3. QED
      BY <2>1, <2>2, RegisteredAnswer, StatusOK
  <1>17. QED
    BY <1>1, <1>2, <1>3, <1>4, <1>6, <1>7, <1>8, <1>9, <1>10, <1>11, <1>12, <1>13, <1>14,
       <1>15, <1>16 DEF RequestStep

-----------------------------------------------------------------------------
(***************************************************************************)
(* A code that was used is refused.                                        *)
(***************************************************************************)

\* The codes and the mail on its way stay: only the request may change.
LEMMA CodedQuiet ==
    ASSUME Shape, Coded, NEW r \in Reqs, Others(r), UNCHANGED codes,
           \A t \in tasks' : t \in tasks \/ (t.kind # "otp" /\ t.pc # "set"),
           \A j \in jobs' : j \in jobs \/ j.kind # "otp",
           sent' = sent,
           req'[r].spentAtStart \subseteq spent, CodeOK(r)', req'[r].code \in {0, req[r].code}
    PROVE  Coded'
  <1>0. otp' = otp /\ issued' = issued /\ spent' = spent /\ \A p \in Reqs : Q(p)' = Q(p)
    BY SameAsk DEF codes, Q
  <1>1. \A p \in Reqs : req'[p].code \in {0, req[p].code}
    BY DEF Others
  <1>2. PICK owner \in [1 .. issued -> Emails] : OwnedBy(owner)
    BY DEF Coded
  <1>3. OwnedBy(owner)'
    BY <1>0, <1>2 DEF OwnedBy
  <1>4. ASSUME NEW t \in tasks' PROVE FreshOK(t)' /\ (t.pc = "set" => t.kind = "otp")
    <2>1. CASE t \notin tasks
      BY <1>4, <2>1 DEF FreshOK
    <2>2. CASE t \in tasks
      <3>1. FreshOK(t) /\ (t.pc = "set" => t.kind = "otp")
        BY <2>2 DEF Coded
      <3>2. CASE t.kind = "otp" /\ t.pc = "set"
        <4>1. \A u \in tasks' : u.kind = "otp" /\ u.code = t.code => u = t
          BY <3>1, <3>2 DEF FreshOK
        <4>2. t.code # 0
          BY <1>2, <2>2, <3>2 DEF OwnedBy
        <4>3. \A p \in Reqs : req'[p].code # t.code
          BY <1>1, <3>1, <3>2, <4>2 DEF FreshOK
        <4>4. QED
          BY <1>0, <3>1, <3>2, <4>1, <4>3 DEF FreshOK
      <3>3. CASE ~(t.kind = "otp" /\ t.pc = "set")
        BY <3>1, <3>3 DEF FreshOK
      <3>4. QED
        BY <3>2, <3>3
    <2>3. QED
      BY <2>1, <2>2
  <1>5. ASSUME NEW p \in Reqs PROVE CodeOK(p)'
    <2>1. CASE p = r
      BY <2>1
    <2>2. CASE p # r
      BY <1>0, <2>2 DEF Coded, CodeOK, Others, Q
    <2>3. QED
      BY <2>1, <2>2
  <1>6. \A c \in spent', e \in Emails : otp'[e] # c
    BY <1>0 DEF Coded
  <1>7. QED
    BY <1>0, <1>2, <1>3, <1>4, <1>5, <1>6 DEF Coded

\* The request keeps its code.
LEMMA CodedSame ==
    ASSUME Shape, Coded, NEW r \in Reqs, Others(r), SameCode(r), UNCHANGED codes,
           \A t \in tasks' : t \in tasks \/ (t.kind # "otp" /\ t.pc # "set"),
           \A j \in jobs' : j \in jobs \/ j.kind # "otp",
           sent' = sent,
           req'[r].pc \in {"reset_user", "reset_commit", "reset_delete"} =>
              req[r].pc \in {"reset_user", "reset_commit", "reset_delete"},
           req'[r].pc \notin {"start", "reset"}
    PROVE  Coded'
  <1>0. CodeOK(r) /\ Q(r)' = Q(r) /\ issued' = issued /\ spent' = spent
    BY SameAsk DEF Coded, Q, codes
  <1>1. CodeOK(r)'
    BY <1>0 DEF CodeOK, SameCode
  <1>2. req'[r].spentAtStart \subseteq spent /\ req'[r].code \in {0, req[r].code}
    BY <1>0 DEF CodeOK, SameCode
  <1>3. QED
    BY <1>1, <1>2, CodedQuiet

LEMMA CodedStart ==
    ASSUME Shape, Coded, NEW r \in Reqs, Start(r)
    PROVE  Coded'
  <1>0. /\ UNCHANGED codes /\ tasks' = tasks /\ jobs' = jobs /\ sent' = sent /\ req[r].pc = "start"
        /\ CodeOK(r) /\ req \in [Reqs -> Request] /\ spent' = spent
    BY DEF Start, mail, At, Coded, Shape, codes
  <1>1. /\ Others(r) /\ req'[r].pc = Q(r).kind /\ req'[r].code = req[r].code
        /\ req'[r].spentAtStart = spent
    BY StartEffect
  <1>2. Q(r).kind \in Kind
    BY <1>0, AskOK DEF Request, Q
  <1>3. req'[r].code = 0
    BY <1>0, <1>1 DEF CodeOK
  <1>4. req'[r].pc \notin {"reset_user", "reset_commit", "reset_delete"}
    BY <1>1, <1>2 DEF Kind
  <1>5. CodeOK(r)'
    BY <1>0, <1>1, <1>3, <1>4 DEF CodeOK
  <1>6. QED
    BY <1>0, <1>1, <1>3, <1>5, CodedQuiet

\* The code that is accepted was sent to the owner of the e-mail and never used up.
LEMMA CodedRead ==
    ASSUME Shape, Coded, NEW r \in Reqs, ResetRead(r)
    PROVE  Coded'
  <1>0. /\ UNCHANGED codes /\ otp' = otp /\ issued' = issued /\ spent' = spent
        /\ tasks' = tasks /\ jobs' = jobs /\ sent' = sent
        /\ req[r].pc = "reset" /\ CodeOK(r) /\ Q(r).email \in Emails
    BY AskOK DEF ResetRead, codes, mail, At, Coded, Shape, Request, Q
  <1>1. CASE Answers(r, 400)
    BY <1>0, <1>1, CodedSame DEF Answers
  <1>2. CASE ~Answers(r, 400)
    <2>1. PICK c \in Nat :
             /\ c \in {s.arg : s \in {m \in sent : m.kind = "otp"}} \cup {0}
             /\ CodeAccepted(Q(r).email, c)
             /\ Others(r) /\ req'[r].pc = "reset_user" /\ req'[r].code = c
             /\ req'[r].spentAtStart = req[r].spentAtStart
      BY <1>2, ResetReadEffect
    <2>2. otp[Q(r).email] = c /\ c # 0
      BY <2>1 DEF CodeAccepted
    <2>3. PICK m \in sent : m.kind = "otp" /\ m.arg = c
      BY <2>1, <2>2
    <2>4. PICK owner \in [1 .. issued -> Emails] : OwnedBy(owner)
      BY DEF Coded
    <2>5. c \in 1 .. issued /\ owner[c] = m.email /\ owner[c] = Q(r).email
      BY <1>0, <2>2, <2>3, <2>4 DEF OwnedBy
    <2>6. c \notin spent
      BY <1>0, <2>2 DEF Coded
    <2>7. \A p \in Reqs : Q(p)' = Q(p)
      BY <2>1, SameAsk DEF Q
    <2>8. CodeOK(r)'
      <3>1. req'[r].spentAtStart \subseteq spent' /\ c \notin req'[r].spentAtStart
        BY <1>0, <2>1, <2>6 DEF CodeOK
      <3>2. \E n \in sent' : n.kind = "otp" /\ n.arg = req'[r].code /\ n.email = Q(r)'.email
        BY <1>0, <2>1, <2>3, <2>5, <2>7
      <3>3. QED
        BY <1>0, <2>1, <2>2, <2>5, <3>1, <3>2 DEF CodeOK
    <2>9. OwnedBy(owner)'
      BY <1>0, <2>4 DEF OwnedBy
    <2>10. ASSUME NEW t \in tasks' PROVE FreshOK(t)' /\ (t.pc = "set" => t.kind = "otp")
      <3>1. t \in tasks /\ FreshOK(t) /\ (t.pc = "set" => t.kind = "otp")
        BY <1>0, <2>10 DEF Coded
      <3>2. t.kind = "otp" /\ t.pc = "set" => \A p \in Reqs : req'[p].code # t.code
        BY <1>0, <2>1, <2>2, <3>1 DEF FreshOK, Others
      <3>3. QED
        BY <1>0, <3>1, <3>2 DEF FreshOK
    <2>11. ASSUME NEW p \in Reqs PROVE CodeOK(p)'
      <3>1. CASE p = r
        BY <3>1, <2>8
      <3>2. CASE p # r
        BY <1>0, <2>1, <2>7, <3>2 DEF Coded, CodeOK, Others
      <3>3. QED
        BY <3>1, <3>2
    <2>12. \A x \in spent', e \in Emails : otp'[e] # x
      BY <1>0 DEF Coded
    <2>13. QED
      BY <1>0, <2>4, <2>9, <2>10, <2>11, <2>12 DEF Coded
  <1>3. QED
    BY <1>1, <1>2

\* A new code is larger than every other one.
LEMMA CodedForgot ==
    ASSUME Shape, Coded, NEW r \in Reqs, ForgotPassword(r)
    PROVE  Coded'
  <1>0. /\ otp' = otp /\ spent' = spent /\ jobs' = jobs /\ sent' = sent
        /\ Q(r).email \in Emails /\ issued \in Nat
    BY AskOK DEF ForgotPassword, Shape, CodeShape, Request, Q
  <1>1. Answers(r, 200)
    BY ShapeForgot
  <1>2. Others(r) /\ SameCode(r) /\ req'[r].pc = "done"
    BY <1>1 DEF Answers
  <1>3. CASE users[Q(r).email] = NoUser
    <2>1. UNCHANGED codes /\ tasks' = tasks
      BY <1>0, <1>3 DEF ForgotPassword, codes
    <2>2. QED
      BY <1>0, <1>2, <2>1, CodedSame
  <1>4. CASE users[Q(r).email] # NoUser
    <2>1. PICK n \in Nat : n = issued + 1
      BY <1>0
    <2>2. PICK new : new = [kind |-> "otp", email |-> Q(r).email, code |-> n, pc |-> "set"]
      OBVIOUS
    <2>3. issued' = n /\ tasks' = tasks \cup {new}
      BY <1>4, <2>1, <2>2 DEF ForgotPassword
    <2>4. new.kind = "otp" /\ new.email = Q(r).email /\ new.code = n /\ new.pc = "set"
      BY <2>2
    <2>5. PICK owner \in [1 .. issued -> Emails] : OwnedBy(owner)
      BY DEF Coded
    <2>6. PICK next : next = [c \in 1 .. n |-> IF c = n THEN Q(r).email ELSE owner[c]]
      OBVIOUS
    <2>7. /\ next \in [1 .. n -> Emails] /\ next[n] = Q(r).email
          /\ \A c \in 1 .. issued : c \in 1 .. n /\ c # n /\ c # 0 /\ next[c] = owner[c]
      BY <1>0, <2>1, <2>5, <2>6
    <2>8. /\ otp \in [Emails -> 0 .. issued] /\ spent \subseteq 1 .. issued
          /\ \A p \in Reqs : req[p].code # 0 => req[p].code \in 1 .. issued
      BY DEF Shape, CodeShape, Coded, CodeOK
    <2>9. OwnedBy(next)'
      <3>1. \A t \in tasks' : t.kind = "otp" => t.code \in 1 .. issued' /\ next[t.code] = t.email
        BY <1>0, <2>1, <2>3, <2>4, <2>5, <2>7 DEF OwnedBy
      <3>2. \A j \in jobs' : j.kind = "otp" => j.arg \in 1 .. issued' /\ next[j.arg] = j.email
        BY <1>0, <2>3, <2>5, <2>7 DEF OwnedBy
      <3>3. \A m \in sent' : m.kind = "otp" => m.arg \in 1 .. issued' /\ next[m.arg] = m.email
        BY <1>0, <2>3, <2>5, <2>7 DEF OwnedBy
      <3>4. \A e \in Emails : otp'[e] # 0 => next[otp'[e]] = e
        <4>1. ASSUME NEW e \in Emails, otp[e] # 0 PROVE next[otp[e]] = e
          <5>1. otp[e] \in 1 .. issued
            BY <1>0, <2>8, <4>1
          <5>2. QED
            BY <2>5, <2>7, <4>1, <5>1 DEF OwnedBy
        <4>2. QED
          BY <1>0, <4>1
      <3>5. QED
        BY <3>1, <3>2, <3>3, <3>4 DEF OwnedBy
    <2>10. \A p \in Reqs : req'[p].code = req[p].code /\ req'[p].spentAtStart = req[p].spentAtStart
      BY <1>2 DEF Others, SameCode
    <2>11. ASSUME NEW t \in tasks' PROVE FreshOK(t)' /\ (t.pc = "set" => t.kind = "otp")
      <3>1. CASE t = new
        <4>1. \A u \in tasks : u.kind = "otp" => u.code # n
          BY <1>0, <2>1, <2>5, <2>7 DEF OwnedBy
        <4>2. n # 0 /\ n \notin spent /\ \A e \in Emails : otp[e] # n
          BY <1>0, <2>1, <2>8
        <4>3. \A p \in Reqs : req'[p].code # n
          BY <1>0, <2>1, <2>8, <2>10
        <4>4. QED
          BY <1>0, <2>3, <2>4, <3>1, <4>1, <4>2, <4>3 DEF FreshOK
      <3>2. CASE t # new
        <4>1. t \in tasks /\ FreshOK(t) /\ (t.pc = "set" => t.kind = "otp")
          BY <2>3, <2>11, <3>2 DEF Coded
        <4>2. t.kind = "otp" => t.code # n
          BY <1>0, <2>1, <2>5, <2>7, <4>1 DEF OwnedBy
        <4>3. QED
          BY <1>0, <2>3, <2>4, <2>10, <4>1, <4>2 DEF FreshOK
      <3>3. QED
        BY <3>1, <3>2
    <2>12. ASSUME NEW p \in Reqs PROVE CodeOK(p)'
      <3>1. CodeOK(p) /\ Q(p)' = Q(p) /\ (p # r => req'[p] = req[p])
        BY <1>2, SameAsk DEF Coded, Others, Q
      <3>2. req'[p].code # 0 => req'[p].code \in 1 .. issued'
        BY <2>3, <2>7, <2>8, <2>10
      <3>3. QED
        BY <1>0, <1>2, <2>10, <3>1, <3>2 DEF CodeOK
    <2>13. \A x \in spent', e \in Emails : otp'[e] # x
      BY <1>0 DEF Coded
    <2>14. QED
      BY <2>3, <2>7, <2>9, <2>11, <2>12, <2>13 DEF Coded
  <1>5. QED
    BY <1>3, <1>4

\* The deletion removes the code of this e-mail only, and the used code is this e-mail's.
LEMMA CodedDelete ==
    ASSUME Shape, Coded, NEW r \in Reqs, ResetDelete(r)
    PROVE  Coded'
  <1>0. /\ issued' = issued /\ tasks' = tasks /\ jobs' = jobs /\ sent' = sent
        /\ req[r].pc = "reset_delete" /\ CodeOK(r) /\ Q(r).email \in Emails
        /\ otp \in [Emails -> 0 .. issued]
    BY AskOK DEF ResetDelete, mail, At, Coded, Shape, CodeShape, Request, Q
  <1>1. Others(r) /\ SameCode(r) /\ req'[r].pc = "done"
    BY ShapeResetDelete DEF Answers
  <1>2. CASE UNCHANGED <<otp, spent>>
    BY <1>0, <1>1, <1>2, CodedSame DEF codes
  <1>3. CASE otp' = [otp EXCEPT ![Q(r).email] = 0] /\ spent' = spent \cup {req[r].code}
    <2>1. PICK owner \in [1 .. issued -> Emails] : OwnedBy(owner)
      BY DEF Coded
    <2>2. req[r].code # 0 /\ owner[req[r].code] = Q(r).email
      BY <1>0, <2>1 DEF CodeOK, OwnedBy
    <2>3. /\ otp'[Q(r).email] = 0
          /\ \A e \in Emails \ {Q(r).email} : otp'[e] = otp[e]
      BY <1>0, <1>3
    <2>4. \A c \in spent', e \in Emails : otp'[e] # c
      <3>1. 0 \notin spent
        BY DEF Shape, CodeShape
      <3>2. \A e \in Emails \ {Q(r).email} : otp[e] # req[r].code
        BY <2>1, <2>2 DEF OwnedBy
      <3>3. QED
        BY <1>3, <2>2, <2>3, <3>1, <3>2 DEF Coded
    <2>5. OwnedBy(owner)'
      BY <1>0, <2>1, <2>3 DEF OwnedBy
    <2>6. \A p \in Reqs : req'[p].code = req[p].code /\ req'[p].spentAtStart = req[p].spentAtStart
      BY <1>1 DEF Others, SameCode
    <2>7. ASSUME NEW t \in tasks' PROVE FreshOK(t)' /\ (t.pc = "set" => t.kind = "otp")
      <3>1. t \in tasks /\ FreshOK(t) /\ (t.pc = "set" => t.kind = "otp")
        BY <1>0, <2>7 DEF Coded
      <3>2. CASE t.kind = "otp" /\ t.pc = "set"
        <4>1. t.code # 0
          BY <2>1, <3>1, <3>2 DEF OwnedBy
        <4>2. t.code \notin spent' /\ \A e \in Emails : otp'[e] # t.code
          BY <1>3, <2>3, <3>1, <3>2, <4>1 DEF FreshOK
        <4>3. QED
          BY <1>0, <2>6, <3>1, <3>2, <4>2 DEF FreshOK
      <3>3. CASE ~(t.kind = "otp" /\ t.pc = "set")
        BY <3>1, <3>3 DEF FreshOK
      <3>4. QED
        BY <3>2, <3>3
    <2>8. ASSUME NEW p \in Reqs PROVE CodeOK(p)'
      <3>1. CodeOK(p) /\ Q(p)' = Q(p) /\ (p # r => req'[p] = req[p])
        BY <1>1, SameAsk DEF Coded, Others, Q
      <3>2. req'[p].spentAtStart \subseteq spent'
        BY <1>3, <2>6, <3>1 DEF CodeOK
      <3>3. QED
        BY <1>0, <1>1, <2>6, <3>1, <3>2 DEF CodeOK
    <2>9. QED
      BY <1>0, <2>1, <2>4, <2>5, <2>7, <2>8 DEF Coded
  <1>4. QED
    BY <1>2, <1>3 DEF ResetDelete

\* The steps that are not of a request: codes and mail move, requests do not.
LEMMA CodedIdle ==
    ASSUME Coded, req' = req, issued' = issued, spent' = spent,
           NEW owner \in [1 .. issued -> Emails], OwnedBy(owner)',
           \A t \in tasks' : FreshOK(t)' /\ (t.pc = "set" => t.kind = "otp"),
           \A c \in spent, e \in Emails : otp'[e] # c,
           sent \subseteq sent'
    PROVE  Coded'
  <1>1. ASSUME NEW p \in Reqs PROVE CodeOK(p)'
    BY DEF Coded, CodeOK, Q
  <1>2. QED
    BY <1>1 DEF Coded

LEMMA CodedOtpSet ==
    ASSUME Shape, Coded, NEW t \in tasks, OtpSet(t)
    PROVE  Shape' /\ Coded'
  <1>0. /\ issued' = issued /\ spent' = spent /\ jobs' = jobs /\ sent' = sent /\ req' = req
        /\ t.kind = "otp" /\ t.pc = "set" /\ FreshOK(t) /\ t \in Task
        /\ otp \in [Emails -> 0 .. issued]
    BY DEF OtpSet, Coded, Shape, MailShape, CodeShape
  <1>1. PICK owner \in [1 .. issued -> Emails] : OwnedBy(owner)
    BY DEF Coded
  <1>2. t.code \in 1 .. issued /\ owner[t.code] = t.email /\ t.email \in Emails
    BY <1>0, <1>1 DEF OwnedBy, Task
  <1>3. t.code \in 0 .. issued
    BY <1>2
  <1>4. /\ Shape'
        /\ \A u \in tasks' : u \in tasks \/ (u.pc = "mail" /\ u.kind = t.kind /\ u.code = t.code /\ u.email = t.email)
    BY <1>3, ShapeOtpSet
  <1>5. t \notin tasks'
    <2>1. PICK u : u = [t EXCEPT !.pc = "mail"]
      OBVIOUS
    <2>2. u.pc = "mail"
      BY <1>0, <2>1 DEF Task
    <2>3. tasks' = (tasks \ {t}) \cup {u}
      BY <2>1 DEF OtpSet
    <2>4. QED
      BY <1>0, <2>2, <2>3
  <1>6. \A e \in Emails : otp'[e] = otp[e] \/ (otp'[e] = t.code /\ e = t.email)
    BY <1>0, <1>2 DEF OtpSet
  <1>7. OwnedBy(owner)'
    BY <1>0, <1>1, <1>2, <1>4, <1>6 DEF OwnedBy
  <1>8. ASSUME NEW u \in tasks' PROVE FreshOK(u)' /\ (u.pc = "set" => u.kind = "otp")
    <2>1. CASE u \notin tasks
      BY <1>4, <1>8, <2>1 DEF FreshOK
    <2>2. CASE u \in tasks
      <3>1. u # t /\ FreshOK(u) /\ (u.pc = "set" => u.kind = "otp")
        BY <1>5, <1>8, <2>2 DEF Coded
      <3>2. CASE u.kind = "otp" /\ u.pc = "set"
        <4>1. u.code # t.code
          BY <1>0, <3>1, <3>2 DEF FreshOK
        <4>2. \A e \in Emails : otp'[e] # u.code
          BY <1>6, <3>1, <3>2, <4>1 DEF FreshOK
        <4>3. \A v \in tasks' : v.kind = "otp" /\ v.code = u.code => v = u
          BY <1>4, <3>1, <3>2, <4>1 DEF FreshOK
        <4>4. QED
          BY <1>0, <3>1, <3>2, <4>2, <4>3 DEF FreshOK
      <3>3. CASE ~(u.kind = "otp" /\ u.pc = "set")
        BY <3>1, <3>3 DEF FreshOK
      <3>4. QED
        BY <3>2, <3>3
    <2>3. QED
      BY <2>1, <2>2
  <1>9. \A c \in spent, e \in Emails : otp'[e] # c
    BY <1>0, <1>6 DEF Coded, FreshOK
  <1>10. QED
    BY <1>0, <1>4, <1>7, <1>8, <1>9, CodedIdle

LEMMA CodedTaskMail ==
    ASSUME Shape, Coded, NEW t \in tasks, TaskMail(t)
    PROVE  Coded'
  <1>0. /\ otp' = otp /\ issued' = issued /\ spent' = spent /\ sent' = sent /\ req' = req
        /\ tasks' = tasks \ {t}
    BY DEF TaskMail, codes
  <1>1. \A j \in jobs' : j \in jobs \/ (j.kind = t.kind /\ j.email = t.email /\ j.arg = t.code)
    BY ShapeTaskMail
  <1>2. PICK owner \in [1 .. issued -> Emails] : OwnedBy(owner)
    BY DEF Coded
  <1>3. OwnedBy(owner)'
    BY <1>0, <1>1, <1>2 DEF OwnedBy
  <1>4. ASSUME NEW u \in tasks' PROVE FreshOK(u)' /\ (u.pc = "set" => u.kind = "otp")
    BY <1>0, <1>4 DEF Coded, FreshOK
  <1>5. QED
    BY <1>0, <1>3, <1>4, CodedIdle DEF Coded

LEMMA CodedJob ==
    ASSUME Shape, Coded, NEW j \in jobs, SendEmail(j) \/ SendFails(j)
    PROVE  Shape' /\ Coded'
  <1>0. /\ otp' = otp /\ issued' = issued /\ spent' = spent /\ sent \subseteq sent' /\ req' = req
        /\ tasks' = tasks
    BY DEF SendEmail, SendFails, codes
  <1>1. /\ Shape'
        /\ \A i \in jobs' : i \in jobs \/ (i.kind = j.kind /\ i.email = j.email /\ i.arg = j.arg)
        /\ \A m \in sent' : m \in sent \/ (m.kind = j.kind /\ m.email = j.email /\ m.arg = j.arg)
    <2>1. CASE SendEmail(j)
      BY <2>1, ShapeSend DEF SendEmail
    <2>2. CASE SendFails(j)
      BY <2>2, ShapeSendFails DEF SendFails
    <2>3. QED
      BY <2>1, <2>2
  <1>2. PICK owner \in [1 .. issued -> Emails] : OwnedBy(owner)
    BY DEF Coded
  <1>3. OwnedBy(owner)'
    BY <1>0, <1>1, <1>2 DEF OwnedBy
  <1>4. ASSUME NEW u \in tasks' PROVE FreshOK(u)' /\ (u.pc = "set" => u.kind = "otp")
    BY <1>0, <1>4 DEF Coded, FreshOK
  <1>5. Coded'
    BY <1>0, <1>3, <1>4, CodedIdle DEF Coded
  <1>6. QED
    BY <1>1, <1>5

LEMMA CodedExpires ==
    ASSUME Shape, Coded, NEW x \in Emails, OtpExpires(x)
    PROVE  Coded'
  <1>0. /\ issued' = issued /\ spent' = spent /\ sent' = sent /\ jobs' = jobs /\ req' = req
        /\ tasks' = tasks /\ otp \in [Emails -> 0 .. issued]
        /\ otp' = [otp EXCEPT ![x] = 0] /\ spent \subseteq 1 .. issued
    BY DEF OtpExpires, mail, Shape, CodeShape
  <1>1. \A e \in Emails : otp'[e] = otp[e] \/ otp'[e] = 0
    BY <1>0
  <1>2. PICK owner \in [1 .. issued -> Emails] : OwnedBy(owner)
    BY DEF Coded
  <1>3. OwnedBy(owner)'
    BY <1>0, <1>1, <1>2 DEF OwnedBy
  <1>4. ASSUME NEW u \in tasks' PROVE FreshOK(u)' /\ (u.pc = "set" => u.kind = "otp")
    <2>1. FreshOK(u) /\ (u.pc = "set" => u.kind = "otp") /\ (u.kind = "otp" => u.code # 0)
      BY <1>0, <1>2, <1>4 DEF Coded, OwnedBy
    <2>2. QED
      BY <1>0, <1>1, <2>1 DEF FreshOK
  <1>5. \A c \in spent, e \in Emails : otp'[e] # c
    BY <1>0, <1>1 DEF Coded
  <1>6. QED
    BY <1>0, <1>3, <1>4, <1>5, CodedIdle

LEMMA CodedRequest ==
    ASSUME Shape, Coded, NEW r \in Reqs, RequestStep(r) \/ Cut(r)
    PROVE  Coded'
  <1>0. "hash" \in PC /\ "insert" \in PC /\ req \in [Reqs -> Request]
        /\ "company" \in PC /\ "commit" \in PC
    BY DEF PC, RegisterPC, Shape
  <1> DEFINE Still == UNCHANGED codes /\ UNCHANGED mail
             Late == {"reset_user", "reset_commit", "reset_delete"}
  <1>1. ASSUME Others(r), SameCode(r), Still, req'[r].pc \notin {"start", "reset"},
               req'[r].pc \in Late => req[r].pc \in Late
        PROVE  Coded'
    <2>1. tasks' = tasks /\ jobs' = jobs /\ sent' = sent
      BY <1>1 DEF mail
    <2>2. QED
      BY <1>1, <2>1, CodedSame
  <1>2. ASSUME NEW status, Answers(r, status), Still PROVE Coded'
    BY <1>1, <1>2 DEF Answers
  <1>3. ASSUME NEW pc, GoesTo(r, pc), Still, pc \notin {"start", "reset"}, pc \in Late => req[r].pc \in Late
        PROVE  Coded'
    BY <1>1, <1>3 DEF GoesTo
  <1>4. CASE Start(r)
    BY <1>4, CodedStart
  <1>5. ASSUME NEW kind, NEW next \in {"hash", "insert"}, CheckEmail(r, kind, next) PROVE Coded'
    BY <1>0, <1>2, <1>3, <1>5, CheckEffect DEF CheckEmail
  <1>6. CASE EnterSystemScope(r)
    BY <1>3, <1>6, EnterEffect DEF EnterSystemScope
  <1>7. CASE RegisterPlain(r)
    BY <1>3, <1>7, PlainEffect DEF RegisterPlain
  <1>8. CASE InsertOwner(r)
    BY <1>0, <1>2, <1>3, <1>8, AnswerEffect, RanEffect, StatusOK DEF InsertOwner
  <1>9. CASE InsertCompany(r)
    BY <1>0, <1>2, <1>3, <1>9, AnswerEffect, RanEffect, StatusOK DEF InsertCompany
  <1>10. CASE CommitCompany(r)
    BY <1>3, <1>10, ShapeCommit DEF CommitCompany
  <1>11. CASE ExitSystemScope(r)
    BY <1>3, <1>11, ExitEffect DEF ExitSystemScope
  <1>12. CASE InsertUser(r)
    BY <1>2, <1>3, <1>12, InsertEffect DEF InsertUser
  <1>13. CASE Refresh(r)
    <2>1. Others(r) /\ SameCode(r) /\ req'[r].pc = "done"
      BY <1>13, RefreshEffect
    <2>2. UNCHANGED codes /\ jobs' = jobs /\ sent' = sent
      BY <1>13 DEF Refresh
    <2>3. PICK w : w = [kind |-> "welcome", email |-> Q(r).email, code |-> 0, pc |-> "mail"]
      OBVIOUS
    <2>4. w.kind # "otp" /\ w.pc # "set"
      BY <2>3
    <2>5. \A t \in tasks' : t \in tasks \/ t = w
      BY <1>13, <2>3 DEF Refresh
    <2>6. QED
      BY <2>1, <2>2, <2>4, <2>5, CodedSame
  <1>14. CASE AuthStaff(r)
    BY <1>1, <1>2, <1>14, AuthEffect DEF AuthStaff
  <1>15. CASE LoginSelect(r)
    BY <1>1, <1>15, SelectEffect DEF LoginSelect
  <1>16. CASE LoginVerify(r)
    BY <1>2, <1>3, <1>16, VerifyEffect DEF LoginVerify
  <1>17. CASE LoginAssess(r)
    <2>1. Still
      BY <1>17 DEF LoginAssess
    <2>2. CASE Others(r) /\ SameCode(r) /\ req'[r].pc = "store"
      BY <1>1, <2>1, <2>2
    <2>3. QED
      BY <1>2, <1>17, <2>1, <2>2, AssessEffect
  <1>18. CASE LoginStore(r)
    <2>1. Still
      BY <1>18 DEF LoginStore
    <2>2. CASE Others(r) /\ SameCode(r) /\ req'[r].pc = "alert"
      BY <1>1, <2>1, <2>2
    <2>3. CASE Answers(r, 503)
      BY <1>2, <2>1, <2>3
    <2>4. QED
      BY <1>18, <2>2, <2>3, StoreEffect, Zenon
  <1>19. CASE LoginAlert(r)
    <2>1. Answers(r, 200) /\ \A j \in jobs' : j \in jobs \/ j.kind # "otp"
      BY <1>19, AlertEffect
    <2>2. UNCHANGED codes /\ tasks' = tasks /\ sent' = sent
      BY <1>19 DEF LoginAlert
    <2>3. QED
      BY <2>1, <2>2, CodedSame DEF Answers
  <1>20. CASE ForgotPassword(r)
    BY <1>20, CodedForgot
  <1>21. CASE ResetRead(r)
    BY <1>21, CodedRead
  <1>22. CASE ResetSelect(r)
    BY <1>2, <1>3, <1>22, ResetSelectEffect DEF ResetSelect, At
  <1>23. CASE ResetCommit(r)
    BY <1>3, <1>23, ResetCommitEffect DEF ResetCommit, At
  <1>24. CASE ResetDelete(r)
    BY <1>24, CodedDelete
  <1>25. CASE Cut(r)
    BY <1>2, <1>25, ShapeCut DEF Cut
  <1>26. QED
    BY <1>4, <1>5, <1>6, <1>7, <1>8, <1>9, <1>10, <1>11, <1>12, <1>13, <1>14, <1>15, <1>16, <1>17,
       <1>18, <1>19, <1>20, <1>21, <1>22, <1>23, <1>24, <1>25 DEF RequestStep

-----------------------------------------------------------------------------
(***************************************************************************)
(* A login from a new browser is told.                                     *)
(***************************************************************************)

\* The devices stay, and the request does not move towards its alert.
LEMMA ToldQuiet ==
    ASSUME Shape, Told, NEW r \in Reqs, Others(r), known' = known, history' = history,
           req'[r].stored <=> req[r].stored,
           DeviceOK(r)'
    PROVE  Told'
  <1>0. \A p \in Reqs : Q(p)' = Q(p) /\ (req'[p].stored <=> req[p].stored)
    BY SameAsk DEF Q, Others
  <1>1. ASSUME NEW p \in Reqs PROVE DeviceOK(p)'
    <2>1. CASE p = r
      BY <2>1
    <2>2. CASE p # r
      BY <1>0, <2>2 DEF Others, Told, DeviceOK
    <2>3. QED
      BY <2>1, <2>2
  <1>2. QED
    BY <1>0, <1>1 DEF Told

LEMMA ToldSame ==
    ASSUME Shape, Told, NEW r \in Reqs, Others(r), SameLogin(r), known' = known, history' = history,
           Q(r).kind = "login" =>
              /\ req'[r].pc \notin {"store", "alert"}
              /\ req'[r].result = 200 => req[r].pc = "alert" \/ req[r].result = 200
    PROVE  Told'
  <1>0. DeviceOK(r) /\ Q(r)' = Q(r)
    BY SameAsk DEF Told, Q
  <1>1. DeviceOK(r)'
    BY <1>0 DEF DeviceOK, SameLogin
  <1>2. QED
    BY <1>1, ToldQuiet DEF SameLogin

LEMMA ToldStart ==
    ASSUME Shape, Told, NEW r \in Reqs, Start(r)
    PROVE  Told'
  <1>0. known' = known /\ history' = history /\ req[r].result = 0 /\ DeviceOK(r)
        /\ Q(r).kind \in Kind
    BY Unanswered, AskOK DEF Start, devices, At, Told, Shape, Request, Q
  <1>1. /\ Others(r) /\ req'[r].pc = Q(r).kind /\ req'[r].result = req[r].result
        /\ (req'[r].stored <=> req[r].stored)
        /\ req'[r].after <=> \E p \in Reqs : /\ Q(p).kind = "login" /\ req[p].result = 200
                                             /\ Q(p).email = Q(r).email
    BY StartEffect
  <1>2. Q(r)' = Q(r)
    BY <1>1, SameAsk DEF Q
  <1>3. req'[r].after => history[Q(r).email] # <<>>
    BY <1>1 DEF Told, DeviceOK
  <1>4. req'[r].pc \notin {"store", "alert"}
    BY <1>0, <1>1 DEF Kind
  <1>5. DeviceOK(r)'
    BY <1>0, <1>1, <1>2, <1>3, <1>4 DEF DeviceOK
  <1>6. QED
    BY <1>0, <1>1, <1>5, ToldQuiet

\* With a history and no stored login from this browser, the assessment is an alert.
LEMMA AssessTold ==
    ASSUME Shape, Told, NEW r \in Reqs, Q(r).kind = "login", history[Q(r).email] # <<>>,
           \A p \in Reqs : Q(p).kind = "login" =>
              \/ Q(p).email # Q(r).email \/ Q(p).ua # Q(r).ua \/ ~req[p].stored
    PROVE  AssessLogin(Members(Q(r).email), history[Q(r).email], Q(r), req[r].at) # "none"
  <1>0. Q(r).email \in Emails
    BY AskOK DEF Shape, Request, Q
  <1>1. <<"ua", Q(r).ua>> \notin Members(Q(r).email)
    <2>1. SUFFICES ASSUME NEW m \in known[Q(r).email], m.member = <<"ua", Q(r).ua>> PROVE FALSE
      BY DEF Members
    <2>2. m.member[1] = "ua" /\ m.member[2] = Q(r).ua
      BY <2>1
    <2>3. QED
      BY <1>0, <2>2 DEF Told
  <1>2. QED
    BY <1>1 DEF AssessLogin

LEMMA ToldAssess ==
    ASSUME Shape, Told, NEW r \in Reqs, LoginAssess(r)
    PROVE  Told'
  <1>0. /\ known' = known /\ history' = history /\ req[r].pc = "assess" /\ DeviceOK(r)
        /\ req[r].result = 0 /\ Q(r).kind = "login"
    BY Unanswered DEF LoginAssess, devices, At, Told, Shape, KindOK, LoginPC
  <1>1. CASE Answers(r, 503)
    BY <1>0, <1>1, ToldSame DEF Answers
  <1>2. CASE ~Answers(r, 503)
    <2>1. /\ Others(r) /\ req'[r].pc = "store" /\ req'[r].result = req[r].result
          /\ (req'[r].after <=> req[r].after) /\ (req'[r].stored <=> req[r].stored)
          /\ req'[r].alert = AssessLogin(Members(Q(r).email), history[Q(r).email], Q(r), req[r].at)
          /\ req'[r].fresh <=> \A p \in Reqs : Q(p).kind = "login" =>
                                    \/ Q(p).email # Q(r).email \/ Q(p).ua # Q(r).ua
                                    \/ ~req[p].stored
      BY <1>2, AssessEffect
    <2>2. Q(r)' = Q(r)
      BY <2>1, SameAsk DEF Q
    <2>3. req'[r].after => history[Q(r).email] # <<>>
      BY <1>0, <2>1 DEF DeviceOK
    <2>4. req'[r].after /\ req'[r].fresh => req'[r].alert # "none"
      BY <1>0, <2>1, <2>3, AssessTold
    <2>5. DeviceOK(r)'
      BY <1>0, <2>1, <2>2, <2>3, <2>4 DEF DeviceOK
    <2>6. QED
      BY <1>0, <2>1, <2>5, ToldQuiet
  <1>3. QED
    BY <1>1, <1>2

\* What is remembered after a login is of a stored login; the history is not empty.
LEMMA ToldStore ==
    ASSUME Shape, Told, NEW r \in Reqs, LoginStore(r)
    PROVE  Told'
  <1>0. /\ req[r].pc = "store" /\ DeviceOK(r) /\ req[r].result = 0 /\ Q(r).kind = "login"
        /\ req[r].pc \in LoginPC
    BY Unanswered DEF LoginStore, At, Told, Shape, KindOK, LoginPC
  <1>1. CASE Answers(r, 503) /\ known' = known /\ history' = history
    BY <1>0, <1>1, ToldSame DEF Answers
  <1>2. CASE /\ Others(r) /\ req'[r].pc = "alert" /\ req'[r].result = req[r].result
             /\ req'[r].stored /\ req'[r].alert = req[r].alert
             /\ (req'[r].after <=> req[r].after) /\ (req'[r].fresh <=> req[r].fresh)
             /\ known' = [known EXCEPT ![Q(r).email] = Remember(@, Q(r), req[r].at)]
             /\ history' = [history EXCEPT ![Q(r).email] =
                    SubSeq(<<[place |-> Q(r).place, at |-> req[r].at]>> \o @, 1,
                           IF Len(@) + 1 < HistoryMax THEN Len(@) + 1 ELSE HistoryMax)]
    <2>1. Q(r) \in Logins /\ Q(r).email \in Emails /\ req[r].at \in Nat
      BY <1>0, LoginAsk
    <2>2. /\ known \in [Emails -> SUBSET Entry] /\ history \in [Emails -> Seq(Visit)]
      BY DEF Shape, DeviceShape
    <2>3. PICK e \in Emails, m \in SUBSET Entry, v \in Visit :
              /\ e = Q(r).email /\ m = Remember(known[e], Q(r), req[r].at)
              /\ v = [place |-> Q(r).place, at |-> req[r].at]
      <3>1. Remember(known[Q(r).email], Q(r), req[r].at) \in SUBSET Entry
        BY <2>1, <2>2, RememberType
      <3>2. [place |-> Q(r).place, at |-> req[r].at] \in Visit
        BY <2>1 DEF Visit
      <3>3. QED
        BY <2>1, <3>1, <3>2
    <2>3h. PICK h :
              h = SubSeq(<<v>> \o history[e], 1,
                         IF Len(history[e]) + 1 < HistoryMax THEN Len(history[e]) + 1 ELSE HistoryMax)
      OBVIOUS
    <2>4. known' = [known EXCEPT ![e] = m] /\ history' = [history EXCEPT ![e] = h]
      BY <1>2, <2>3, <2>3h, Zenon
    <2>5. h # <<>>
      <3>1. history[e] \in Seq(Visit)
        BY <2>2
      <3>2. QED
        BY <2>3h, <3>1, HistoryType
    <2>6. \A x \in m : x.member[1] = "ua" => x \in known[e] \/ x.member[2] = Q(r).ua
      <3>1. known[e] \in SUBSET Entry
        BY <2>2
      <3>2. QED
        BY <2>1, <2>3, <3>1, RememberType
    <2>7. /\ \A p \in Reqs : Q(p)' = Q(p) /\ Q(p).email \in Emails
          /\ \A p \in Reqs : req[p].stored => req'[p].stored
      BY <1>2, SameAsk DEF Others, Q
    <2>8. \A x \in Emails : history[x] # <<>> => history'[x] # <<>>
      BY <2>2, <2>4, <2>5
    <2>9. history'[Q(r).email] # <<>>
      BY <2>2, <2>3, <2>4, <2>5
    <2>10. ASSUME NEW p \in Reqs PROVE DeviceOK(p)'
      <3>1. CASE p = r
        BY <1>0, <1>2, <2>7, <2>9, <3>1 DEF DeviceOK
      <3>2. CASE p # r
        <4>1. DeviceOK(p) /\ req'[p] = req[p] /\ Q(p)' = Q(p) /\ Q(p).email \in Emails
          BY <1>2, <2>7, <3>2 DEF Told, Others
        <4>2. QED
          BY <2>8, <4>1 DEF DeviceOK
      <3>3. QED
        BY <3>1, <3>2
    <2>11. ASSUME NEW x \in Emails, NEW n \in known'[x], n.member[1] = "ua"
           PROVE  \E p \in Reqs : Q(p).kind = "login" /\ Q(p).email = x /\ Q(p).ua = n.member[2]
                                   /\ req'[p].stored
      <3>1. CASE n \in known[x]
        BY <2>7, <2>11, <3>1 DEF Told
      <3>2. CASE n \notin known[x]
        <4>1. x = e /\ n \in m
          BY <2>2, <2>4, <2>11, <3>2
        <4>2. n.member[2] = Q(r).ua
          BY <2>6, <2>11, <3>2, <4>1
        <4>3. QED
          BY <1>0, <1>2, <2>3, <4>1, <4>2
      <3>3. QED
        BY <3>1, <3>2
    <2>12. QED
      BY <2>7, <2>10, <2>11 DEF Told
  <1>3. QED
    BY <1>1, <1>2, StoreEffect, Zenon

LEMMA ToldRequest ==
    ASSUME Shape, Coded, Told, NEW r \in Reqs, RequestStep(r) \/ Cut(r)
    PROVE  Told'
  <1>0. /\ "hash" \in PC /\ "insert" \in PC /\ req \in [Reqs -> Request] /\ KindOK(r)
        /\ "company" \in PC /\ "commit" \in PC
    BY DEF PC, RegisterPC, Shape
  <1> DEFINE Still == known' = known /\ history' = history
  <1>1. ASSUME NEW status, Answers(r, status), Still,
               status = 200 => req[r].pc = "alert" \/ Q(r).kind # "login"
        PROVE  Told'
    BY <1>1, ToldSame DEF Answers
  <1>2. ASSUME NEW pc, GoesTo(r, pc), Still, pc \notin {"store", "alert"}
        PROVE  Told'
    BY <1>2, ToldSame DEF GoesTo
  <1>3. CASE Start(r)
    BY <1>3, ToldStart
  <1>4. ASSUME NEW kind, NEW next \in {"hash", "insert"}, CheckEmail(r, kind, next) PROVE Told'
    BY <1>0, <1>1, <1>2, <1>4, CheckEffect DEF CheckEmail, devices
  <1>5. CASE EnterSystemScope(r)
    BY <1>2, <1>5, EnterEffect DEF EnterSystemScope, devices
  <1>6. CASE RegisterPlain(r)
    BY <1>2, <1>6, PlainEffect DEF RegisterPlain, devices
  <1>7. CASE InsertOwner(r)
    BY <1>0, <1>1, <1>2, <1>7, AnswerEffect, RanEffect, StatusOK DEF InsertOwner, devices
  <1>8. CASE InsertCompany(r)
    BY <1>0, <1>1, <1>2, <1>8, AnswerEffect, RanEffect, StatusOK DEF InsertCompany, devices
  <1>9. CASE CommitCompany(r)
    BY <1>2, <1>9, ShapeCommit DEF CommitCompany, devices
  <1>10. CASE ExitSystemScope(r)
    BY <1>2, <1>10, ExitEffect DEF ExitSystemScope, devices
  <1>11. CASE InsertUser(r)
    BY <1>1, <1>2, <1>11, InsertEffect DEF InsertUser, devices
  <1>12. CASE Refresh(r)
    <2>1. Others(r) /\ SameLogin(r) /\ req'[r].pc = "done" /\ req'[r].result = 201
      BY <1>12, RefreshEffect
    <2>2. Still
      BY <1>12 DEF Refresh, devices
    <2>3. QED
      BY <2>1, <2>2, ToldSame
  <1>13. CASE AuthStaff(r)
    <2>1. Still
      BY <1>13 DEF AuthStaff, devices
    <2>2. CASE Others(r) /\ SameLogin(r) /\ req'[r].pc = "staff_email" /\ req'[r].result = req[r].result
      BY <2>1, <2>2, ToldSame
    <2>3. QED
      BY <1>1, <1>13, <2>1, <2>2, AuthEffect
  <1>14. CASE LoginSelect(r)
    <2>1. Still
      BY <1>14 DEF LoginSelect, devices
    <2>2. Others(r) /\ SameLogin(r) /\ req'[r].pc = "verify" /\ req'[r].result = req[r].result
      BY <1>14, SelectEffect
    <2>3. QED
      BY <2>1, <2>2, ToldSame
  <1>15. CASE LoginVerify(r)
    BY <1>1, <1>2, <1>15, VerifyEffect DEF LoginVerify
  <1>16. CASE LoginAssess(r)
    BY <1>16, ToldAssess
  <1>17. CASE LoginStore(r)
    BY <1>17, ToldStore
  <1>18. CASE LoginAlert(r)
    BY <1>1, <1>18, AlertEffect DEF LoginAlert, devices, At
  <1>19. CASE ForgotPassword(r)
    <2>1. Still /\ Q(r).kind # "login"
      BY <1>0, <1>19 DEF ForgotPassword, devices, At, KindOK
    <2>2. QED
      BY <1>1, <1>19, <2>1, ShapeForgot
  <1>20. CASE ResetRead(r)
    <2>1. Still
      BY <1>20 DEF ResetRead, devices
    <2>2. CASE Others(r) /\ SameLogin(r) /\ req'[r].pc = "reset_user" /\ req'[r].result = req[r].result
      BY <2>1, <2>2, ToldSame
    <2>3. QED
      BY <1>1, <1>20, <2>1, <2>2, ResetReadEffect
  <1>21. CASE ResetSelect(r)
    BY <1>1, <1>2, <1>21, ResetSelectEffect DEF ResetSelect, devices
  <1>22. CASE ResetCommit(r)
    BY <1>2, <1>22, ResetCommitEffect DEF ResetCommit, devices
  <1>23. CASE ResetDelete(r)
    <2>1. Still /\ Q(r).kind # "login"
      BY <1>0, <1>23 DEF ResetDelete, devices, At, KindOK, ResetPC
    <2>2. QED
      BY <1>1, <1>23, <2>1, ShapeResetDelete
  <1>24. CASE Cut(r)
    BY <1>1, <1>24, ShapeCut DEF Cut, devices
  <1>25. QED
    BY <1>3, <1>4, <1>5, <1>6, <1>7, <1>8, <1>9, <1>10, <1>11, <1>12, <1>13, <1>14, <1>15, <1>16,
       <1>17, <1>18, <1>19, <1>20, <1>21, <1>22, <1>23, <1>24 DEF RequestStep

-----------------------------------------------------------------------------
(***************************************************************************)
(* The theorems.                                                           *)
(***************************************************************************)

LEMMA ShapeRequest ==
    ASSUME Shape, Coded, NEW r \in Reqs, RequestStep(r) \/ Cut(r)
    PROVE  Shape'
  BY ShapeStart, ShapeCheck, ShapeScope, ShapeOwner, ShapeCompany, ShapeCommit, ShapeInsert,
     ShapeRefresh, ShapeAuth, ShapeLogin, ShapeStore, ShapeAlert, ShapeForgot, ShapeReset,
     ShapeResetCommit, ShapeResetDelete, ShapeCut DEF RequestStep

LEMMA InitInv ==
    ASSUME Init
    PROVE  IInv
  <1>0. Shape
    BY ShapeInit
  <1>1. \A r \in Reqs : /\ req[r].pc = "start" /\ req[r].ctx # "system" /\ req[r].tx = "none"
                        /\ req[r].result = 0 /\ req[r].code = 0 /\ req[r].spentAtStart = {}
                        /\ ~req[r].stored /\ ~req[r].after
    BY DEF Init, NewReq, ContextFromToken
  <1>2. Scoped
    BY <1>1 DEF Scoped, ScopeOK
  <1>3. Registered
    <2>1. TenantIntact
      <3>1. users = Stored /\ companies = {Stored[e].tenant : e \in {x \in Emails : Stored[x] # NoUser}} \ {NoTenant}
        BY DEF Init
      <3>2. \A t \in companies : users[t] # NoUser /\ users[t].tenant = t
        BY <3>1, StoredAssumption
      <3>3. \A e \in Emails : users[e] # NoUser =>
                /\ users[e].tenant \in companies \cup {NoTenant}
                /\ (users[e].role = "Candidate") <=> (users[e].tenant = NoTenant)
        BY <3>1, StoredAssumption
      <3>4. QED
        BY <3>2, <3>3 DEF TenantIntact
    <2>2. \A r \in Reqs : ~Winner(r)
      BY <1>1 DEF Winner
    <2>3. QED
      BY <1>1, <2>1, <2>2 DEF Registered, RegisterOK, UniqueWinner
  <1>4. Coded
    <2>1. tasks = {} /\ jobs = {} /\ sent = {} /\ spent = {} /\ issued = 0 /\ \A e \in Emails : otp[e] = 0
      BY DEF Init
    <2>2. [i \in 1 .. issued |-> CHOOSE e \in Emails : TRUE] \in [1 .. issued -> Emails]
      BY <2>1
    <2>3. \E owner \in [1 .. issued -> Emails] : OwnedBy(owner)
      BY <2>1, <2>2 DEF OwnedBy
    <2>4. \A r \in Reqs : CodeOK(r)
      BY <1>1, <2>1 DEF CodeOK
    <2>5. QED
      BY <2>1, <2>3, <2>4 DEF Coded
  <1>5. Told
    <2>1. \A e \in Emails : known[e] = {}
      BY DEF Init
    <2>2. \A r \in Reqs : DeviceOK(r)
      BY <1>1 DEF DeviceOK
    <2>3. QED
      BY <2>1, <2>2 DEF Told
  <1>6. QED
    BY <1>0, <1>2, <1>3, <1>4, <1>5 DEF IInv

\* A step that is not of a request changes neither rows, nor devices, nor requests.
LEMMA IdleInv ==
    ASSUME Scoped, Registered, Told, UNCHANGED <<db, known, history, req>>
    PROVE  Scoped' /\ Registered' /\ Told'
  <1>0. /\ users' = users /\ companies' = companies /\ pending' = pending /\ known' = known
        /\ history' = history /\ req' = req
    BY DEF db
  <1>1. Scoped'
    BY <1>0 DEF Scoped, ScopeOK
  <1>2. Registered'
    BY <1>0 DEF Registered, RegisterOK, TenantIntact, UniqueWinner, Winner, Resets, Q
  <1>3. Told'
    BY <1>0 DEF Told, DeviceOK, Q
  <1>4. QED
    BY <1>1, <1>2, <1>3

LEMMA NextInv ==
    ASSUME IInv, [Next]_vars
    PROVE  IInv'
  <1>0. Shape /\ Scoped /\ Registered /\ Coded /\ Told
    BY DEF IInv
  <1>1. ASSUME NEW r \in Reqs, RequestStep(r) \/ Cut(r) PROVE IInv'
    BY <1>0, <1>1, ShapeRequest, ScopedRequest, RegisteredRequest, CodedRequest, ToldRequest DEF IInv
  <1>2. ASSUME NEW t \in tasks, OtpSet(t) PROVE IInv'
    <2>1. UNCHANGED <<db, known, history, req>>
      BY <1>2 DEF OtpSet, devices
    <2>2. QED
      BY <1>0, <1>2, <2>1, CodedOtpSet, IdleInv DEF IInv
  <1>3. ASSUME NEW t \in tasks, TaskMail(t) PROVE IInv'
    <2>1. UNCHANGED <<db, known, history, req>>
      BY <1>3 DEF TaskMail, devices
    <2>2. QED
      BY <1>0, <1>3, <2>1, ShapeTaskMail, CodedTaskMail, IdleInv DEF IInv
  <1>4. ASSUME NEW j \in jobs, SendEmail(j) \/ SendFails(j) PROVE IInv'
    <2>1. UNCHANGED <<db, known, history, req>>
      BY <1>4 DEF SendEmail, SendFails, devices
    <2>2. QED
      BY <1>0, <1>4, <2>1, CodedJob, IdleInv DEF IInv
  <1>5. ASSUME NEW e \in Emails, OtpExpires(e) PROVE IInv'
    <2>1. UNCHANGED <<db, known, history, req>>
      BY <1>5 DEF OtpExpires, devices
    <2>2. QED
      BY <1>0, <1>5, <2>1, ShapeExpires, CodedExpires, IdleInv DEF IInv
  <1>6. CASE UNCHANGED vars
    <2>1. /\ UNCHANGED <<db, known, history, req>> /\ UNCHANGED db /\ UNCHANGED codes
          /\ UNCHANGED mail /\ UNCHANGED devices /\ req' = req /\ users' = users /\ fails' = fails
      BY <1>6 DEF vars, db, codes, mail, devices
    <2>2. DbShape' /\ CodeShape' /\ MailShape' /\ DeviceShape' /\ fails' \in 0 .. MaxFails
      BY <1>0, <2>1, Frames
    <2>3. Shape'
      BY <1>0, <2>1, <2>2, ShapeIdle
    <2>4. Coded'
      <3>1. /\ otp' = otp /\ issued' = issued /\ spent' = spent /\ tasks' = tasks /\ jobs' = jobs
            /\ sent' = sent /\ req' = req
        BY <1>6 DEF vars
      <3>2. QED
        BY <1>0, <3>1 DEF Coded, OwnedBy, FreshOK, CodeOK, Q
    <2>5. QED
      BY <1>0, <2>1, <2>3, <2>4, IdleInv DEF IInv
  <1>7. QED
    BY <1>1, <1>2, <1>3, <1>4, <1>5, <1>6 DEF Next, Background

\* The inductive invariant of the accounts.
THEOREM Invariant == Spec => []IInv
  <1>1. Init => IInv
    BY InitInv
  <1>2. IInv /\ [Next]_vars => IInv'
    BY NextInv
  <1>3. QED
    BY <1>1, <1>2, PTL DEF Spec

\* However registrations, accounts of staff, resets and cut-off requests interleave: one
\* request wins an e-mail and is answered by the account it asked for, and no organisation
\* is left without its owner, no member without its organisation.
THEOREM Atomic == Spec => []RegistrationAtomic
  <1>1. IInv => RegistrationAtomic
    <2>0. SUFFICES ASSUME IInv PROVE RegistrationAtomic
      OBVIOUS
    <2>1. TypeOK
      <3>1. \A e \in Emails : users[e] = NoUser \/ users[e].role \in {"Admin", "HR_Manager", "Candidate"}
        BY <2>0 DEF IInv, Shape, DbShape, User
      <3>2. \A t \in tasks : t.pc \in {"set", "mail"}
        BY <2>0 DEF IInv, Shape, MailShape, Task
      <3>3. \A j \in jobs : j.tries \in 1 .. MaxTries
        BY <2>0 DEF IInv, Shape, MailShape, Job
      <3>4. QED
        BY <2>0, <3>1, <3>2, <3>3 DEF TypeOK, IInv, Shape, DbShape, CodeShape, DeviceShape
    <2>2. OneWinner
      <3> SUFFICES ASSUME NEW e \in Emails
                   PROVE  LET winners == {r \in Reqs : /\ Q(r).kind \in {"register", "staff"} /\ Q(r).email = e
                                                       /\ req[r].result = 201}
                              resets == {r \in Reqs : Q(r).kind = "reset" /\ Q(r).email = e}
                          IN  /\ Cardinality(winners) <= 1
                              /\ \A r \in winners :
                                    /\ users[e] # NoUser
                                    /\ users[e].pw \in {Q(r).pw} \cup {Q(p).pw : p \in resets}
                                    /\ (users[e].role = "HR_Manager") <=> (Q(r).kind = "staff")
        BY Zenon DEF OneWinner
      <3> DEFINE W == {r \in Reqs : /\ Q(r).kind \in {"register", "staff"} /\ Q(r).email = e
                                    /\ req[r].result = 201}
                 R == {r \in Reqs : Q(r).kind = "reset" /\ Q(r).email = e}
      <3>2. \A r \in W : r \in Reqs /\ Winner(r) /\ Q(r).email = e
        BY DEF Winner
      <3>3. \A p, r \in W : p = r
        BY <2>0, <3>2 DEF IInv, Registered, UniqueWinner
      <3>4. Cardinality(W) <= 1
        <4>1. CASE W = {}
          BY <4>1, FS_EmptySet
        <4>2. CASE W # {}
          <5>1. PICK x : x \in W
            BY <4>2
          <5> HIDE DEF W
          <5>2. W = {x}
            BY <3>3, <5>1
          <5>3. Cardinality({x}) = 1
            BY FS_Singleton
          <5>4. QED
            BY <5>2, <5>3
        <4>3. QED
          BY <4>1, <4>2
      <3>5. R = Resets(e)
        BY DEF Resets
      <3>6. \A r \in W : RegisterOK(r)
        BY <2>0, <3>2 DEF IInv, Registered
      <3>7. \A r \in W : /\ users[e] # NoUser
                         /\ users[e].pw \in {Q(r).pw} \cup {Q(p).pw : p \in R}
                         /\ (users[e].role = "HR_Manager") <=> (Q(r).kind = "staff")
        <4> HIDE DEF W, R
        <4>1. QED
          BY <3>2, <3>5, <3>6 DEF RegisterOK
      <3>8. QED
        BY <3>4, <3>7, Zenon
    <2>3. TenantIntact
      BY <2>0 DEF IInv, Registered
    <2>4. QED
      BY <2>1, <2>2, <2>3 DEF RegistrationAtomic
  <1>2. QED
    BY <1>1, Invariant, PTL

\* system_scope: no statement of a request runs past row-level security outside it, on
\* any path through a registration, and no company insert inside it is refused.
THEOREM ScopeSound == Spec => []SystemOnlyInScope
  <1>1. IInv => SystemOnlyInScope
    BY DEF IInv, Scoped, ScopeOK, SystemOnlyInScope
  <1>2. QED
    BY <1>1, Invariant, PTL

\* reset_password: a code whose deletion completed is refused to every later request, and
\* the code that is accepted was sent to the owner of the account.
THEOREM CodeUsedOnce == Spec => []UsedCodeRefused
  <1>1. IInv => UsedCodeRefused
    BY DEF IInv, Coded, CodeOK, UsedCodeRefused
  <1>2. QED
    BY <1>1, Invariant, PTL

\* _enqueue_login_alerts: after an answered login, a browser no stored login used always
\* raises an alert, whatever the caps on the remembered members and on the history.
THEOREM AlertRaised == Spec => []NewDeviceTold
  <1>1. IInv => NewDeviceTold
    BY DEF IInv, Told, DeviceOK, NewDeviceTold
  <1>2. QED
    BY <1>1, Invariant, PTL

=============================================================================
