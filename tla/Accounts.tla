------------------------------ MODULE Accounts ------------------------------
(***************************************************************************)
(* Accounts: registration with or without a new organisation, accounts of  *)
(* staff, login with its security alert, and the password reset by e-mail  *)
(* (routers/auth.py, routers/tenants.py, core/tenant_provisioning.py,      *)
(* core/tenancy.py, the alert part of core/sessions.py, core/cache.py,     *)
(* core/queue.py and tasks/notifications.py).                              *)
(*                                                                         *)
(* A request is a process that gives up control at every await.  Inside    *)
(* the database a row that is inserted but not committed makes another     *)
(* insert of the same e-mail wait.  Redis may refuse any call: the cache   *)
(* and the queue swallow the error, the session store answers 503.         *)
(***************************************************************************)
EXTENDS Naturals, Sequences, FiniteSets, SequencesExt

CONSTANTS Reqs,        \* requests, each served once
          Emails, NoUser, NoTenant, NoPlace,
          Scenarios,   \* functions from Reqs to the request each of them is
          Stored,      \* accounts that exist at the start
          Far,         \* pairs of places no one travels between in Soon ticks
          Country,     \* the country of a place
          Soon, KnownMax, HistoryMax, MaxTries, MaxFails

User == [pw : STRING, role : {"Admin", "HR_Manager", "Candidate"}, tenant : {NoTenant} \cup Emails]

ASSUME AccountsAssumption ==
    /\ Stored \in [Emails -> {NoUser} \cup User]
    /\ NoUser \notin User /\ NoTenant \notin Emails /\ 0 \notin Reqs
    /\ Soon \in Nat /\ KnownMax \in Nat \ {0} /\ HistoryMax \in Nat \ {0}
    /\ MaxTries \in Nat \ {0} /\ MaxFails \in Nat

\* The accounts at the start are ones these handlers made: staff has an organisation,
\* a candidate has none, and the owner of an organisation belongs to it.
ASSUME StoredAssumption ==
    \A e \in Emails : Stored[e] # NoUser =>
        /\ (Stored[e].role = "Candidate") <=> (Stored[e].tenant = NoTenant)
        /\ Stored[e].tenant # NoTenant =>
              /\ Stored[Stored[e].tenant] # NoUser
              /\ Stored[Stored[e].tenant].tenant = Stored[e].tenant

Kind == {"register", "staff", "login", "forgot", "reset"}

\* The request bodies and tokens the routes accept.
ASSUME ScenarioAssumption ==
    \A s \in Scenarios, r \in Reqs :
        /\ s[r].kind \in Kind /\ s[r].email \in Emails
        /\ s[r].kind \in {"register", "staff", "reset"} => s[r].pw \in STRING
        /\ s[r].kind = "staff" => s[r].by \in Emails

VARIABLES
    users,     \* committed rows of users
    companies, \* committed rows of companies: the e-mail of the owner names each
    pending,   \* e-mail inserted by a request that has not committed yet
    otp,       \* Redis: the reset code of an e-mail, 0 when there is none
    issued,    \* how many codes were generated
    tasks,     \* fire-and-forget coroutines of the API process
    jobs,      \* RQ jobs that send an e-mail
    sent,      \* e-mails SMTP accepted
    known,     \* Redis: members ua:... and ip:... with their scores, per account
    history,   \* Redis: the last logins of an account, newest first
    clock,     \* time.time()
    req,       \* the requests
    spent,     \* history: codes whose deletion after a reset has completed
    fails      \* faults so far

vars == <<users, companies, pending, otp, issued, tasks, jobs, sent, known, history,
          clock, req, spent, fails>>
db == <<users, companies, pending>>
codes == <<otp, issued, spent>>
mail == <<tasks, jobs, sent>>
devices == <<known, history, clock>>

-----------------------------------------------------------------------------
(* Requests, their database context and their end *)

\* The middleware puts the scope of the token into the context of the request.
ContextFromToken(q) == IF q.kind = "staff" THEN "tenant" ELSE "public"

NewReq(q) ==
    [q |-> q, pc |-> "start", ctx |-> ContextFromToken(q), tx |-> "none", code |-> 0,
     seen |-> NoUser, alert |-> "none", at |-> 0, after |-> FALSE, fresh |-> FALSE,
     stored |-> FALSE, result |-> 0, spentAtStart |-> {}]

Q(r) == req[r].q
At(r, pc) == req[r].pc = pc

\* after_begin: the first statement of a transaction fixes role and variables.
TxScope(r) == IF req[r].tx = "none" THEN req[r].ctx ELSE req[r].tx

\* A statement of request r, followed by the given program counter.
Ran(r, pc) == [req EXCEPT ![r].pc = pc, ![r].tx = TxScope(r)]
Answer(r, status) == [req EXCEPT ![r].pc = "done", ![r].tx = "none", ![r].result = status]

Init ==
    /\ users = Stored
    /\ companies = {Stored[e].tenant : e \in {x \in Emails : Stored[x] # NoUser}} \ {NoTenant}
    /\ pending = [e \in Emails |-> 0]
    /\ otp = [e \in Emails |-> 0] /\ issued = 0 /\ spent = {}
    /\ tasks = {} /\ jobs = {} /\ sent = {}
    /\ known = [e \in Emails |-> {}] /\ history = [e \in Emails |-> <<>>] /\ clock = 1
    /\ \E s \in Scenarios : req = [r \in Reqs |-> NewReq(s[r])]
    /\ fails = 0

Start(r) ==
    /\ At(r, "start")
    /\ req' = [req EXCEPT ![r].pc = Q(r).kind, ![r].spentAtStart = spent,
               ![r].after = \E p \in Reqs : /\ Q(p).kind = "login" /\ req[p].result = 200
                                            /\ Q(p).email = Q(r).email]
    /\ UNCHANGED <<db, codes, mail, devices, fails>>

\* enqueue_task: an error of Redis is logged and swallowed, the job is lost.
Enqueue(job) ==
    \/ jobs' = jobs \cup {job} /\ fails' = fails
    \/ fails < MaxFails /\ fails' = fails + 1 /\ jobs' = jobs

MailJob(kind, e, arg, r) == [kind |-> kind, email |-> e, arg |-> arg, by |-> r, tries |-> MaxTries]

-----------------------------------------------------------------------------
(* POST /auth/register and POST /tenant/users *)

\* SELECT ... WHERE email: 400 when there is a committed row.
CheckEmail(r, kind, next) ==
    /\ At(r, kind)
    /\ req' = IF users[Q(r).email] # NoUser THEN Answer(r, 400) ELSE Ran(r, next)
    /\ UNCHANGED <<db, codes, mail, devices, fails>>

\* register: the password is hashed in a thread; with a company name the rest runs
\* in system_scope, which also switches a transaction that is already open.
EnterSystemScope(r) ==
    /\ At(r, "hash") /\ Q(r).company
    /\ req' = [req EXCEPT ![r].pc = "owner", ![r].ctx = "system",
               ![r].tx = IF @ = "none" THEN @ ELSE "system"]
    /\ UNCHANGED <<db, codes, mail, devices, fails>>

RegisterPlain(r) ==
    /\ At(r, "hash") /\ ~Q(r).company
    /\ req' = [req EXCEPT ![r].pc = "insert"]
    /\ UNCHANGED <<db, codes, mail, devices, fails>>

\* Mutant: no unique index on users.email.
EmailFreeAlways(e) == TRUE

\* users.email is unique.
EmailFree(e) == users[e] = NoUser

\* provision_tenant: flush of the owner.  The insert waits for another one that has
\* not committed; if that one commits, the unique index refuses this one (500).
InsertOwner(r) ==
    /\ At(r, "owner") /\ pending[Q(r).email] = 0
    /\ IF EmailFree(Q(r).email)
       THEN pending' = [pending EXCEPT ![Q(r).email] = r] /\ req' = Ran(r, "company")
       ELSE req' = Answer(r, 500) /\ UNCHANGED pending
    /\ UNCHANGED <<users, companies, codes, mail, devices, fails>>

\* provision_tenant: flush of the company, allowed only outside RLS, and membership.
InsertCompany(r) ==
    /\ At(r, "company")
    /\ IF TxScope(r) = "system"
       THEN req' = Ran(r, "commit") /\ UNCHANGED pending
       ELSE req' = Answer(r, 500) /\ pending' = [pending EXCEPT ![Q(r).email] = 0]
    /\ UNCHANGED <<users, companies, codes, mail, devices, fails>>

\* Mutant: the owner is committed before the company and the membership exist.
CommitOwnerOnly(r) ==
    /\ At(r, "commit")
    /\ users' = [users EXCEPT ![Q(r).email] = [pw |-> Q(r).pw, role |-> "Admin", tenant |-> NoTenant]]
    /\ companies' = companies \cup {Q(r).email}
    /\ pending' = [pending EXCEPT ![Q(r).email] = 0]
    /\ req' = [req EXCEPT ![r].pc = "exit", ![r].tx = "none"]
    /\ UNCHANGED <<codes, mail, devices, fails>>

\* The owner, the company and the membership are committed together.
CommitCompany(r) ==
    /\ At(r, "commit")
    /\ users' = [users EXCEPT ![Q(r).email] =
                    [pw |-> Q(r).pw, role |-> "Admin", tenant |-> Q(r).email]]
    /\ companies' = companies \cup {Q(r).email}
    /\ pending' = [pending EXCEPT ![Q(r).email] = 0]
    /\ req' = [req EXCEPT ![r].pc = "exit", ![r].tx = "none"]
    /\ UNCHANGED <<codes, mail, devices, fails>>

\* Mutant: the context variable is not reset when the scope ends.
ExitSystemScopeKeeps(r) ==
    /\ At(r, "exit")
    /\ req' = [req EXCEPT ![r].pc = "refresh"]
    /\ UNCHANGED <<db, codes, mail, devices, fails>>

\* system_scope ends: the context of the token again, on an open transaction too.
ExitSystemScope(r) ==
    /\ At(r, "exit")
    /\ req' = [req EXCEPT ![r].pc = "refresh", ![r].ctx = ContextFromToken(Q(r)),
               ![r].tx = IF @ = "none" THEN @ ELSE ContextFromToken(Q(r))]
    /\ UNCHANGED <<db, codes, mail, devices, fails>>

\* db.add and commit of one row: a candidate, or staff of the tenant of the admin.
InsertUser(r) ==
    /\ At(r, "insert") /\ pending[Q(r).email] = 0
    /\ IF EmailFree(Q(r).email)
       THEN /\ users' = [users EXCEPT ![Q(r).email] =
                           IF Q(r).kind = "staff"
                           THEN [pw |-> Q(r).pw, role |-> "HR_Manager", tenant |-> req[r].seen.tenant]
                           ELSE [pw |-> Q(r).pw, role |-> "Candidate", tenant |-> NoTenant]]
            /\ req' = [req EXCEPT ![r].pc = "refresh", ![r].tx = "none"]
       ELSE req' = Answer(r, 500) /\ UNCHANGED users
    /\ UNCHANGED <<companies, pending, codes, mail, devices, fails>>

\* db.refresh in a new transaction, then 201; register also starts the welcome mail.
Refresh(r) ==
    /\ At(r, "refresh")
    /\ req' = [Answer(r, 201) EXCEPT ![r].tx = TxScope(r)]
    /\ tasks' = IF Q(r).kind = "staff" THEN tasks
                ELSE tasks \cup {[kind |-> "welcome", email |-> Q(r).email, code |-> 0, pc |-> "mail"]}
    /\ UNCHANGED <<db, codes, jobs, sent, devices, fails>>

\* create_tenant_staff: get_current_user of the admin, whose token names the tenant;
\* _ensure_token_tenant_matches and require_roles("Admin").
AuthStaff(r) ==
    /\ At(r, "staff")
    /\ LET u == users[Q(r).by]
           matches == IF u.role = "Candidate" THEN Q(r).tid = NoTenant
                      ELSE u.tenant # NoTenant /\ u.tenant = Q(r).tid
       IN  req' = IF u = NoUser THEN Answer(r, 401)
                  ELSE IF ~matches THEN Answer(r, 401)
                  ELSE IF u.role # "Admin" THEN Answer(r, 403)
                  ELSE [Ran(r, "staff_email") EXCEPT ![r].seen = u]
    /\ UNCHANGED <<db, codes, mail, devices, fails>>

-----------------------------------------------------------------------------
(* POST /auth/login and its alert *)

\* The row is read; the password is checked afterwards, in a thread.
LoginSelect(r) ==
    /\ At(r, "login")
    /\ req' = [Ran(r, "verify") EXCEPT ![r].seen = users[Q(r).email]]
    /\ UNCHANGED <<db, codes, mail, devices, fails>>

\* A wrong password answers 401; create_session begins by taking the time.
LoginVerify(r) ==
    /\ At(r, "verify")
    /\ req' = IF req[r].seen = NoUser THEN Answer(r, 401)
              ELSE IF req[r].seen.pw # Q(r).pw THEN Answer(r, 401)
              ELSE [req EXCEPT ![r].pc = "assess", ![r].at = clock]
    /\ clock' = clock + 1
    /\ UNCHANGED <<db, codes, mail, known, history, fails>>

\* detect_anomaly: a country none of the remembered logins came from, or a distance
\* from the last located login that nobody covers in the time between.
DetectAnomaly(past, place, t) ==
    LET countries == {Country[h.place] : h \in {x \in Range(past) : x.place # NoPlace}}
        located == SelectSeq(past, LAMBDA h : h.place # NoPlace)
    IN  /\ place # NoPlace
        /\ \/ countries # {} /\ Country[place] \notin countries
           \/ /\ located # <<>>
              /\ <<located[1].place, place>> \in Far
              /\ t <= located[1].at + Soon

Members(e) == {m.member : m \in known[e]}

\* Mutant: only the address is compared.
AssessLoginIpOnly(members, past, q, t) ==
    IF members = {} /\ past = <<>> THEN "none"
    ELSE IF DetectAnomaly(past, q.place, t) THEN "suspicious"
    ELSE IF <<"ip", q.ip>> \notin members THEN "new_device"
    ELSE "none"

\* assess_login with the alert _enqueue_login_alerts derives from it: none for a first
\* login, the suspicious one before the one for a new browser or address.
AssessLogin(members, past, q, t) ==
    IF members = {} /\ past = <<>> THEN "none"
    ELSE IF DetectAnomaly(past, q.place, t) THEN "suspicious"
    ELSE IF <<"ua", q.ua>> \notin members \/ <<"ip", q.ip>> \notin members THEN "new_device"
    ELSE "none"

\* create_session: what is known is read in one round trip; a Redis error answers 503.
LoginAssess(r) ==
    /\ At(r, "assess")
    /\ \/ /\ req' = [req EXCEPT ![r].pc = "store",
               ![r].alert = AssessLogin(Members(Q(r).email), history[Q(r).email], Q(r), req[r].at),
               ![r].fresh = \A p \in Reqs : Q(p).kind = "login" =>
                                 \/ Q(p).email # Q(r).email \/ Q(p).ua # Q(r).ua
                                 \/ ~req[p].stored]
          /\ UNCHANGED fails
       \/ fails < MaxFails /\ fails' = fails + 1 /\ req' = Answer(r, 503)
    /\ UNCHANGED <<db, codes, mail, devices>>

\* The order of a sorted set: by score, then by name ("ip:..." before "ua:...").
Below(m, n) == m.score < n.score \/ (m.score = n.score /\ m.member[1] = "ip" /\ n.member[1] = "ua")

\* zadd: the score of a member becomes that of this login; then only the KnownMax
\* members that rank highest stay.
Remember(members, q, t) ==
    LET new == {[member |-> <<"ua", q.ua>>, score |-> t], [member |-> <<"ip", q.ip>>, score |-> t]}
        all == {m \in members : m.member \notin {n.member : n \in new}} \cup new
    IN  {m \in all : Cardinality({n \in all : Below(m, n)}) < KnownMax}

\* create_session: the session, the members and the history are written in another
\* round trip; a Redis error answers 503.
LoginStore(r) ==
    /\ At(r, "store")
    /\ \/ /\ known' = [known EXCEPT ![Q(r).email] = Remember(@, Q(r), req[r].at)]
          /\ history' = [history EXCEPT ![Q(r).email] =
                SubSeq(<<[place |-> Q(r).place, at |-> req[r].at]>> \o @, 1,
                       IF Len(@) + 1 < HistoryMax THEN Len(@) + 1 ELSE HistoryMax)]
          /\ req' = [req EXCEPT ![r].pc = "alert", ![r].stored = TRUE]
          /\ UNCHANGED fails
       \/ /\ fails < MaxFails /\ fails' = fails + 1
          /\ req' = Answer(r, 503)
          /\ UNCHANGED <<known, history>>
    /\ UNCHANGED <<db, codes, mail, clock>>

\* _enqueue_login_alerts, then the tokens are answered.
LoginAlert(r) ==
    /\ At(r, "alert")
    /\ req' = Answer(r, 200)
    /\ IF req[r].alert = "none" THEN UNCHANGED <<jobs, fails>>
       ELSE Enqueue(MailJob(req[r].alert, Q(r).email, 0, r))
    /\ UNCHANGED <<db, codes, tasks, sent, devices>>

-----------------------------------------------------------------------------
(* POST /auth/forgot-password and /auth/reset-password *)

\* The answer does not wait for the coroutine, and is the same for an unknown e-mail.
ForgotPassword(r) ==
    /\ At(r, "forgot")
    /\ IF users[Q(r).email] = NoUser
       THEN UNCHANGED <<tasks, issued>>
       ELSE /\ issued' = issued + 1
            /\ tasks' = tasks \cup {[kind |-> "otp", email |-> Q(r).email, code |-> issued + 1, pc |-> "set"]}
    /\ req' = Answer(r, 200)
    /\ UNCHANGED <<db, otp, spent, jobs, sent, devices, fails>>

\* _issue_and_send_password_reset_otp: the code replaces an older one in Redis.
OtpSet(t) ==
    /\ t.pc = "set"
    /\ \/ otp' = [otp EXCEPT ![t.email] = t.code] /\ UNCHANGED fails
       \/ fails < MaxFails /\ fails' = fails + 1 /\ UNCHANGED otp
    /\ tasks' = (tasks \ {t}) \cup {[t EXCEPT !.pc = "mail"]}
    /\ UNCHANGED <<db, issued, spent, jobs, sent, devices, req>>

\* The second half of the coroutine, and notify_new_user_registered: the job is queued.
TaskMail(t) ==
    /\ t.pc = "mail"
    /\ Enqueue(MailJob(t.kind, t.email, t.code, 0))
    /\ tasks' = tasks \ {t}
    /\ UNCHANGED <<db, codes, sent, devices, req>>

\* A code expires after _OTP_TTL_SECONDS.
OtpExpires(e) ==
    /\ otp[e] # 0
    /\ otp' = [otp EXCEPT ![e] = 0]
    /\ UNCHANGED <<db, issued, spent, mail, devices, req, fails>>

\* Mutant: any code of the e-mail's owner that was ever issued is accepted.
CodeAcceptedEver(e, c) == c \in 1 .. issued

\* A code that is not the stored one is refused, and so is every code if Redis fails.
CodeAccepted(e, c) == otp[e] # 0 /\ otp[e] = c

\* reset_password: the stored code is read and compared with the one that was sent.
ResetRead(r) ==
    /\ At(r, "reset")
    /\ \E c \in {s.arg : s \in {m \in sent : m.kind = "otp"}} \cup {0} :
          req' = IF CodeAccepted(Q(r).email, c)
                 THEN [req EXCEPT ![r].pc = "reset_user", ![r].code = c]
                 ELSE Answer(r, 400)
    /\ UNCHANGED <<db, codes, mail, devices, fails>>

ResetSelect(r) ==
    /\ At(r, "reset_user")
    /\ req' = IF users[Q(r).email] = NoUser THEN Answer(r, 400) ELSE Ran(r, "reset_commit")
    /\ UNCHANGED <<db, codes, mail, devices, fails>>

\* The new password is hashed in a thread and committed.
ResetCommit(r) ==
    /\ At(r, "reset_commit")
    /\ users' = [users EXCEPT ![Q(r).email].pw = Q(r).pw]
    /\ req' = [req EXCEPT ![r].pc = "reset_delete", ![r].tx = "none"]
    /\ UNCHANGED <<companies, pending, codes, mail, devices, fails>>

\* Mutant: the code stays in Redis.
ResetDeleteKeeps(r) ==
    /\ At(r, "reset_delete")
    /\ req' = Answer(r, 200)
    /\ spent' = spent \cup {req[r].code}
    /\ UNCHANGED <<db, otp, issued, mail, devices, fails>>

\* delete_cached removes whatever code is stored now; an error is swallowed.
ResetDelete(r) ==
    /\ At(r, "reset_delete")
    /\ req' = Answer(r, 200)
    /\ \/ /\ otp' = [otp EXCEPT ![Q(r).email] = 0]
          /\ spent' = spent \cup {req[r].code}
          /\ UNCHANGED fails
       \/ fails < MaxFails /\ fails' = fails + 1 /\ UNCHANGED <<otp, spent>>
    /\ UNCHANGED <<db, issued, mail, devices>>

-----------------------------------------------------------------------------
(* The worker of the notifications queue *)

\* The task renders the template and SMTP accepts the message.
SendEmail(j) ==
    /\ sent' = sent \cup {[kind |-> j.kind, email |-> j.email, arg |-> j.arg, by |-> j.by]}
    /\ jobs' = jobs \ {j}
    /\ UNCHANGED <<db, codes, tasks, devices, req, fails>>

\* Mutant: one try too many.
SendFailsOneMore(j) ==
    /\ jobs' = (jobs \ {j}) \cup (IF j.tries > 0 THEN {[j EXCEPT !.tries = @ - 1]} ELSE {})
    /\ UNCHANGED <<db, codes, tasks, sent, devices, req, fails>>

\* Mutant: a failed job is queued again with a fresh count.
SendFailsForever(j) ==
    /\ jobs' = (jobs \ {j}) \cup {[j EXCEPT !.tries = IF @ = 1 THEN MaxTries ELSE @ - 1]}
    /\ UNCHANGED <<db, codes, tasks, sent, devices, req, fails>>

\* SMTP refuses: TRANSIENT_FAILURE_RETRY tries again, then the job is a failed one.
SendFails(j) ==
    /\ jobs' = (jobs \ {j}) \cup (IF j.tries > 1 THEN {[j EXCEPT !.tries = @ - 1]} ELSE {})
    /\ UNCHANGED <<db, codes, tasks, sent, devices, req, fails>>

\* A request is cut off (its process dies or its client goes away): the database
\* rolls back what it had not committed.
Cut(r) ==
    /\ req[r].pc \notin {"start", "done"} /\ fails < MaxFails
    /\ fails' = fails + 1
    /\ req' = Answer(r, 500)
    /\ pending' = [e \in Emails |-> IF pending[e] = r THEN 0 ELSE pending[e]]
    /\ UNCHANGED <<users, companies, codes, mail, devices>>

RequestStep(r) ==
    \/ Start(r)
    \/ CheckEmail(r, "register", "hash")
    \/ EnterSystemScope(r)
    \/ RegisterPlain(r)
    \/ InsertOwner(r)
    \/ InsertCompany(r)
    \/ CommitCompany(r)
    \/ ExitSystemScope(r)
    \/ InsertUser(r)
    \/ Refresh(r)
    \/ AuthStaff(r)
    \/ CheckEmail(r, "staff_email", "insert")
    \/ LoginSelect(r)
    \/ LoginVerify(r)
    \/ LoginAssess(r)
    \/ LoginStore(r)
    \/ LoginAlert(r)
    \/ ForgotPassword(r)
    \/ ResetRead(r)
    \/ ResetSelect(r)
    \/ ResetCommit(r)
    \/ ResetDelete(r)

Background ==
    \/ \E t \in tasks : OtpSet(t) \/ TaskMail(t)
    \/ \E j \in jobs : SendEmail(j) \/ SendFails(j)

Next ==
    \/ \E r \in Reqs : RequestStep(r) \/ Cut(r)
    \/ Background
    \/ \E e \in Emails : OtpExpires(e)

\* The event loop runs a coroutine that can go on, and the worker a queued job.
Spec == Init /\ [][Next]_vars /\ WF_vars(Background)

-----------------------------------------------------------------------------
(* Properties *)

\* Type correctness.
TypeOK ==
    /\ \A e \in Emails : users[e] = NoUser \/ users[e].role \in {"Admin", "HR_Manager", "Candidate"}
    /\ companies \subseteq Emails
    /\ pending \in [Emails -> Reqs \cup {0}]
    /\ otp \in [Emails -> 0 .. issued] /\ spent \subseteq 1 .. issued
    /\ \A t \in tasks : t.pc \in {"set", "mail"}
    /\ \A j \in jobs : j.tries \in 1 .. MaxTries
    /\ \A e \in Emails : Len(history[e]) <= HistoryMax
    /\ fails \in 0 .. MaxFails

\* register and create_tenant_staff look for the e-mail, hash, and insert later.
\* However two of them interleave, or fail half way, at most one is answered 201 for
\* an e-mail, and the account has the password and the kind that request asked for
\* unless a reset has changed the password since.
OneWinner ==
    \A e \in Emails :
        LET winners == {r \in Reqs : /\ Q(r).kind \in {"register", "staff"} /\ Q(r).email = e
                                     /\ req[r].result = 201}
            resets == {r \in Reqs : Q(r).kind = "reset" /\ Q(r).email = e}
        IN  /\ Cardinality(winners) <= 1
            /\ \A r \in winners :
                  /\ users[e] # NoUser
                  /\ users[e].pw \in {Q(r).pw} \cup {Q(p).pw : p \in resets}
                  /\ (users[e].role = "HR_Manager") <=> (Q(r).kind = "staff")

\* No organisation without its owner as a member, no member of an organisation that
\* does not exist, and staff always has one: also after a registration that lost the
\* race for its e-mail or was cut off between its inserts.
TenantIntact ==
    /\ \A t \in companies : users[t] # NoUser /\ users[t].tenant = t
    /\ \A e \in Emails : users[e] # NoUser =>
          /\ users[e].tenant \in companies \cup {NoTenant}
          /\ (users[e].role = "Candidate") <=> (users[e].tenant = NoTenant)

\* Registration is all or nothing, and one request wins an e-mail.
RegistrationAtomic == TypeOK /\ OneWinner /\ TenantIntact

\* A transaction runs as the owner of the tables, past row-level security, only while
\* the request is inside system_scope; and what is inside does run so (no company
\* insert is refused, which would answer 500 to a registration that was not cut off).
SystemOnlyInScope ==
    \A r \in Reqs :
        /\ req[r].tx = "system" => req[r].pc \in {"owner", "company", "commit"}
        /\ req[r].pc \in {"company", "commit"} => req[r].tx = "system"

\* reset_password: "the code is deleted at once so that it can be used once only".
\* What holds: a code whose deletion has completed is refused to every request that
\* starts later, and only the owner's own code opens an account.  (Two requests that
\* both read the code before either deletes it both change the password.)
UsedCodeRefused ==
    \A r \in Reqs : req[r].code # 0 =>
        /\ req[r].code \notin req[r].spentAtStart
        /\ \E m \in sent : m.kind = "otp" /\ m.arg = req[r].code /\ m.email = Q(r).email

\* A login from a browser that no stored login of the account used, after another
\* login was answered, always raises an alert; logins that overlap may miss it.
NewDeviceTold ==
    \A r \in Reqs :
        Q(r).kind = "login" /\ req[r].result = 200 /\ req[r].after /\ req[r].fresh
            => req[r].alert # "none"

\* "No job is lost for ever in between": the coroutines end and every queued e-mail is
\* accepted by SMTP or given up after its retries.
MailDrains == <>[](jobs = {} /\ tasks = {})
=============================================================================
