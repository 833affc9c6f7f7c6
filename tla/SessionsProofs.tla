--------------------------- MODULE SessionsProofs ---------------------------
(***************************************************************************)
(* Proofs about Sessions for every set of users, sessions, tokens and      *)
(* requests and every lifetime and grace window.                           *)
(***************************************************************************)
EXTENDS Sessions, TLAPS

(***************************************************************************)
(* The inductive invariant: what holds of each request, and what holds of  *)
(* the store.                                                              *)
(***************************************************************************)

InRotation(p) == req[p].pc \in {"hgetall", "exists", "exec"}

\* What a request's local variables hold at each suspension point.
LocalsOK(p) ==
    /\ req[p].pc \in {"create", "issue", "zadd", "rows", "zrem"} => req[p].user \in User
    /\ req[p].pc \in {"issue", "zadd", "rvread", "rvexec"}
          => req[p].sid \in Sid /\ req[p].sid \in used
    /\ req[p].pc = "create" => req[p].op = "login"
    /\ req[p].pc = "issue" => req[p].op \in {"login", "refresh"}
    /\ req[p].new # None => req[p].new \in used
    /\ req[p].pc = "zadd" => req[p].op = "touch"
    /\ req[p].pc \in {"rows", "zrem"} => req[p].op \in {"list", "revokeAll"}
    /\ req[p].pc = "next" => req[p].op = "revokeAll"
    /\ req[p].pc \in {"rvread", "rvexec"}
          => req[p].op \in {"revoke", "revokeAll", "reuse", "userGone"}
    /\ InRotation(p) => /\ req[p].op = "refresh" /\ req[p].user \in User
                        /\ req[p].sid \in Sid /\ req[p].sid \in used
                        /\ req[p].jti \in Jti /\ req[p].jti \in used
    /\ req[p].todo \subseteq used
    /\ req[p].pc # "idle" => req[p].result = "none"
    /\ req[p].result = "reuse" => req[p].sid \in Sid /\ req[p].sid \in used

\* A connection whose WATCH is intact still sees what it read.
WatchOK(p) ==
    /\ req[p].pc \in {"exists", "exec"} /\ ~dirty[p]
          => req[p].data = session[req[p].sid]
    /\ req[p].pc = "exec"
          => /\ req[p].data # None
             /\ req[p].data.user = req[p].user
             /\ req[p].data.jti = req[p].jti

\* The presented token is not (or no longer) the one that can be exchanged.
Hopeless(p) ==
    session[req[p].sid] # None => session[req[p].sid].jti # req[p].jti

\* A broken WATCH means a hopeless token, so a second attempt never reaches
\* EXEC.
RetryOK(p) ==
    /\ req[p].tries <= 2
    /\ req[p].result # "concurrentRotation"
    /\ InRotation(p) /\ dirty[p] => Hopeless(p)
    /\ InRotation(p) /\ req[p].tries = 2 => Hopeless(p) /\ req[p].pc # "exec"
    /\ req[p].pc = "exists" /\ req[p].tries = 2 /\ req[p].data # None
          => req[p].data.jti # req[p].jti

\* Between the two halves of revoke_session the session keeps its user, and
\* nobody else's list has a row for it.
RevokeOK(p) ==
    req[p].pc = "rvexec" =>
        /\ req[p].data # None
        /\ session[req[p].sid] # None
              => session[req[p].sid].user = req[p].data.user
        /\ \A u \in User : u # req[p].data.user => index[u][req[p].sid] = 0

ReuseOK(p) == req[p].result = "reuse" => session[req[p].sid] = None

RequestOK(p) ==
    LocalsOK(p) /\ WatchOK(p) /\ RetryOK(p) /\ RevokeOK(p) /\ ReuseOK(p)

\* Ids in use were generated, and the current token of a session is unspent.
IdsOK ==
    /\ \A s \in Sid : session[s] # None => s \in used /\ session[s].jti \in used
    /\ \A j \in Jti : token[j] # None => j \in used /\ token[j].sid \in used
    /\ \A n \in Jti : from[n] # None => n \in used /\ from[n] \in used
    /\ \A s \in Sid, n \in Jti : session[s] # None => session[s].jti # from[n]
    /\ \A s, t \in Sid : session[s] # None /\ session[t] # None /\ s # t
                            => session[s].jti # session[t].jti

DeadOK == \A s \in dead : s \in used /\ session[s] = None

\* A session's index row lives under its own user only.
RowsOK ==
    /\ \A s \in Sid, u \in User :
          session[s] # None /\ u # session[s].user => index[u][s] = 0
    /\ \A s \in Sid, u \in User : s \notin used => index[u][s] = 0

StoreOK == IdsOK /\ DeadOK /\ RowsOK /\ RevokedRowStaysGone /\ SingleWinner

IInv == TypeOK /\ StoreOK /\ \A p \in Proc : RequestOK(p)

-----------------------------------------------------------------------------
(***************************************************************************)
(* Facts about the pieces steps are made of.                               *)
(***************************************************************************)

\* The record of an idle connection is a request record.
LEMMA BlankType == Blank \in Request
  BY DEF Blank, Request, PC, Op

\* An answer is a request record.
LEMMA AnswerType ==
    ASSUME TypeOK, NEW p \in Proc, NEW r \in Result
    PROVE  Answer(p, r) \in Request
  BY DEF TypeOK, Answer, Blank, Request, PC, Op, Verdict

\* A request that has answered satisfies its invariant, whatever the answer
\* other than the two the invariant speaks of.
LEMMA FinishOK ==
    ASSUME TypeOK, NEW p \in Proc,
           NEW r \in {"none", "ok", "rejected", "unavailable", "allRevoked"},
           Finish(p, r)
    PROVE  RequestOK(p)' /\ req' \in [Proc -> Request]
  <1>1. req'[p] = Answer(p, r)
    BY DEF Finish, TypeOK
  <1>2. /\ req'[p].pc = "idle" /\ req'[p].tries = 0 /\ req'[p].todo = {}
        /\ req'[p].result \in {"none", "allRevoked"} /\ req'[p].new = None
    BY <1>1 DEF Answer, Blank, Verdict
  <1>3. RequestOK(p)'
    BY <1>2 DEF RequestOK, LocalsOK, WatchOK, RetryOK, RevokeOK, ReuseOK,
                InRotation
  <1>4. req' \in [Proc -> Request]
    BY AnswerType DEF Finish, TypeOK, Result
  <1>5. QED
    BY <1>3, <1>4

\* Steps that leave the store alone and touch no other request only have to
\* re-establish the invariant of their own request.
LEMMA LocalStep ==
    ASSUME IInv, NEW p \in Proc,
           UNCHANGED <<clock, store, token, used, dead, from>>,
           req' \in [Proc -> Request], dirty' \in [Proc -> BOOLEAN],
           \A q \in Proc \ {p} : req'[q] = req[q] /\ dirty'[q] = dirty[q],
           RequestOK(p)'
    PROVE  IInv'
  <1>1. TypeOK'
    BY DEF IInv, TypeOK, store
  <1>2. StoreOK'
    BY DEF IInv, StoreOK, IdsOK, DeadOK, RowsOK, RevokedRowStaysGone,
           SingleWinner, store
  <1>3. ASSUME NEW q \in Proc \ {p} PROVE RequestOK(q)'
    BY <1>3 DEF IInv, RequestOK, LocalsOK, WatchOK, RetryOK, RevokeOK, ReuseOK,
           InRotation, Hopeless, store
  <1>4. QED
    BY <1>1, <1>2, <1>3 DEF IInv

\* A rotation starts from a token that names ids given out.
LEMMA RefreshStartOK ==
    ASSUME IInv, NEW p \in Proc, NEW j \in Jti, RefreshStart(p, j)
    PROVE  IInv'
  <1>a. TypeOK /\ RequestOK(p) /\ req[p] \in Request /\ dirty[p] \in BOOLEAN
    BY DEF IInv, TypeOK
  <1>1. token[j] \in Token /\ j \in used /\ token[j].sid \in used
    BY DEF RefreshStart, At, IInv, TypeOK, StoreOK, IdsOK
  <1>2. token[j].sid \in Sid /\ token[j].user \in User
    BY <1>1 DEF Token
  <1>3. req' \in [Proc -> Request]
    BY <1>a, <1>2 DEF RefreshStart, At, TypeOK, Blank, Request, PC, Op, Result
  <1>4. /\ req'[p].pc = "hgetall" /\ req'[p].op = "refresh"
        /\ req'[p].user = token[j].user /\ req'[p].sid = token[j].sid
        /\ req'[p].jti = j /\ req'[p].new = None /\ req'[p].tries = 1 /\ req'[p].todo = {}
        /\ req'[p].result = "none" /\ dirty'[p] = FALSE
    BY <1>a DEF RefreshStart, At, TypeOK, Blank
  <1>5. RequestOK(p)'
    BY <1>1, <1>2, <1>4 DEF RefreshStart, At, RequestOK, InRotation, LocalsOK, WatchOK,
       RetryOK, RevokeOK, ReuseOK
  <1>6. QED
    BY <1>a, <1>3, <1>5, LocalStep DEF RefreshStart, At, TypeOK

\* HGETALL takes a copy of the watched hash.
LEMMA RefreshReadOK ==
    ASSUME IInv, NEW p \in Proc, RefreshRead(p)
    PROVE  IInv'
  <1>a. TypeOK /\ RequestOK(p) /\ req[p] \in Request /\ dirty[p] \in BOOLEAN
    BY DEF IInv, TypeOK
  <1>d. UNCHANGED dirty => dirty' \in [Proc -> BOOLEAN]
    BY <1>a DEF TypeOK
  <1>1. req[p].sid \in Sid
    BY <1>a DEF RefreshRead, At, RequestOK, InRotation, LocalsOK
  <1>2. session[req[p].sid] \in Session \cup {None}
    BY <1>a, <1>1 DEF TypeOK
  <1>3. req'[p] = [req[p] EXCEPT !.pc = "exists", !.data = session[req[p].sid]]
    BY <1>a DEF RefreshRead, At, TypeOK
  <1>4. req'[p] \in Request
    BY <1>a, <1>2, <1>3 DEF Request, PC
  <1>5. req' \in [Proc -> Request]
    BY <1>a, <1>4 DEF RefreshRead, At, TypeOK
  <1>f. /\ req'[p].pc = "exists" /\ req'[p].op = req[p].op
        /\ req'[p].user = req[p].user /\ req'[p].sid = req[p].sid
        /\ req'[p].jti = req[p].jti /\ req'[p].new = req[p].new
        /\ req'[p].data = session[req[p].sid] /\ req'[p].tries = req[p].tries
        /\ req'[p].todo = req[p].todo /\ req'[p].result = req[p].result
    BY <1>a, <1>3 DEF Request
  <1>6. RequestOK(p)'
    <2>0. UNCHANGED <<session, index, used>> /\ UNCHANGED dirty
      BY DEF RefreshRead, store
    <2>1. LocalsOK(p)'
      BY <1>a, <1>f, <2>0 DEF RefreshRead, At, RequestOK, InRotation, LocalsOK
    <2>2. WatchOK(p)'
      BY <1>a, <1>f, <2>0 DEF RefreshRead, At, RequestOK, InRotation, WatchOK
    <2>3. RetryOK(p)'
      BY <1>a, <1>f, <2>0 DEF RefreshRead, At, RequestOK, InRotation, RetryOK, Hopeless
    <2>4. RevokeOK(p)' /\ ReuseOK(p)'
      BY <1>a, <1>f, <2>0 DEF RefreshRead, At, RequestOK, RevokeOK, ReuseOK
    <2>5. QED
      BY <2>1, <2>2, <2>3, <2>4 DEF RequestOK
  <1>7. QED
    BY <1>d, <1>5, <1>6, LocalStep DEF RefreshRead, At

\* A refresh for a missing session, or another user's, is refused.
LEMMA RefreshInvalidOK ==
    ASSUME IInv, NEW p \in Proc, RefreshInvalid(p)
    PROVE  IInv'
  <1>a. TypeOK /\ RequestOK(p) /\ req[p] \in Request /\ dirty[p] \in BOOLEAN
    BY DEF IInv, TypeOK
  <1>d. UNCHANGED dirty => dirty' \in [Proc -> BOOLEAN]
    BY <1>a DEF TypeOK
  <1>1. RequestOK(p)' /\ req' \in [Proc -> Request]
    BY <1>a, FinishOK DEF RefreshInvalid, At
  <1>2. QED
    BY <1>d, <1>1, LocalStep DEF RefreshInvalid, At, Finish

\* A token rotated out within the grace window gets an access token only.
LEMMA RefreshGraceOK ==
    ASSUME IInv, NEW p \in Proc, RefreshGrace(p)
    PROVE  IInv'
  <1>a. TypeOK /\ RequestOK(p) /\ req[p] \in Request /\ dirty[p] \in BOOLEAN
    BY DEF IInv, TypeOK
  <1>d. UNCHANGED dirty => dirty' \in [Proc -> BOOLEAN]
    BY <1>a DEF TypeOK
  <1>1. req'[p] = [req[p] EXCEPT !.pc = "issue"]
    BY <1>a DEF RefreshGrace, At, Goto, TypeOK
  <1>b. req'[p] \in Request
    BY <1>a, <1>1 DEF Request, PC
  <1>2. req' \in [Proc -> Request]
    BY <1>a, <1>b DEF RefreshGrace, Goto, TypeOK
  <1>f. /\ req'[p].pc = "issue" /\ req'[p].op = req[p].op
        /\ req'[p].user = req[p].user /\ req'[p].sid = req[p].sid
        /\ req'[p].jti = req[p].jti /\ req'[p].new = req[p].new
        /\ req'[p].data = req[p].data /\ req'[p].tries = req[p].tries
        /\ req'[p].todo = req[p].todo /\ req'[p].result = req[p].result
    BY <1>a, <1>1 DEF Request
  <1>3. RequestOK(p)'
    <2>0. UNCHANGED <<session, index, used>> /\ UNCHANGED dirty
      BY DEF RefreshGrace, store
    <2>1. LocalsOK(p)'
      BY <1>a, <1>f, <2>0 DEF RefreshGrace, At, RequestOK, InRotation, LocalsOK
    <2>2. WatchOK(p)'
      BY <1>a, <1>f, <2>0 DEF RefreshGrace, At, RequestOK, InRotation, WatchOK
    <2>3. RetryOK(p)'
      BY <1>a, <1>f, <2>0 DEF RefreshGrace, At, RequestOK, InRotation, RetryOK, Hopeless
    <2>4. RevokeOK(p)' /\ ReuseOK(p)'
      BY <1>a, <1>f, <2>0 DEF RefreshGrace, At, RequestOK, RevokeOK, ReuseOK
    <2>5. QED
      BY <2>1, <2>2, <2>3, <2>4 DEF RequestOK
  <1>4. QED
    BY <1>d, <1>2, <1>3, LocalStep DEF RefreshGrace, At, Goto

\* A replayed token sends the request into revoke_session.
LEMMA RefreshReuseOK ==
    ASSUME IInv, NEW p \in Proc, RefreshReuse(p)
    PROVE  IInv'
  <1>a. TypeOK /\ RequestOK(p) /\ req[p] \in Request /\ dirty[p] \in BOOLEAN
    BY DEF IInv, TypeOK
  <1>d. UNCHANGED dirty => dirty' \in [Proc -> BOOLEAN]
    BY <1>a DEF TypeOK
  <1>1. req'[p] = [req[p] EXCEPT !.pc = "rvread", !.op = "reuse"]
    BY <1>a DEF RefreshReuse, At, TypeOK
  <1>b. req'[p] \in Request
    BY <1>a, <1>1 DEF Request, PC, Op
  <1>2. req' \in [Proc -> Request]
    BY <1>a, <1>b DEF RefreshReuse, TypeOK
  <1>f. /\ req'[p].pc = "rvread" /\ req'[p].op = "reuse"
        /\ req'[p].user = req[p].user /\ req'[p].sid = req[p].sid
        /\ req'[p].jti = req[p].jti /\ req'[p].new = req[p].new
        /\ req'[p].data = req[p].data /\ req'[p].tries = req[p].tries
        /\ req'[p].todo = req[p].todo /\ req'[p].result = req[p].result
    BY <1>a, <1>1 DEF Request
  <1>3. RequestOK(p)'
    <2>0. UNCHANGED <<session, index, used>> /\ UNCHANGED dirty
      BY DEF RefreshReuse, store
    <2>1. LocalsOK(p)'
      BY <1>a, <1>f, <2>0 DEF RefreshReuse, At, RequestOK, InRotation, LocalsOK
    <2>2. WatchOK(p)'
      BY <1>a, <1>f, <2>0 DEF RefreshReuse, At, RequestOK, InRotation, WatchOK
    <2>3. RetryOK(p)'
      BY <1>a, <1>f, <2>0 DEF RefreshReuse, At, RequestOK, InRotation, RetryOK, Hopeless
    <2>4. RevokeOK(p)' /\ ReuseOK(p)'
      BY <1>a, <1>f, <2>0 DEF RefreshReuse, At, RequestOK, RevokeOK, ReuseOK
    <2>5. QED
      BY <2>1, <2>2, <2>3, <2>4 DEF RequestOK
  <1>4. QED
    BY <1>d, <1>2, <1>3, LocalStep DEF RefreshReuse, At

\* Only a current token reaches the MULTI, so never on a second attempt.
LEMMA RefreshPrepareOK ==
    ASSUME IInv, NEW p \in Proc, RefreshPrepare(p)
    PROVE  IInv'
  <1>a. TypeOK /\ RequestOK(p) /\ req[p] \in Request /\ dirty[p] \in BOOLEAN
    BY DEF IInv, TypeOK
  <1>d. UNCHANGED dirty => dirty' \in [Proc -> BOOLEAN]
    BY <1>a DEF TypeOK
  <1>1. req'[p] = [req[p] EXCEPT !.pc = "exec", !.now = clock]
    BY <1>a DEF RefreshPrepare, At, TypeOK
  <1>b. req'[p] \in Request
    BY <1>a, <1>1 DEF Request, PC, TypeOK
  <1>2. req' \in [Proc -> Request]
    BY <1>a, <1>b DEF RefreshPrepare, TypeOK
  <1>3. /\ req[p].data # None /\ req[p].data.user = req[p].user
        /\ req[p].data.jti = req[p].jti
    BY DEF RefreshPrepare, At, Invalid, Replayed
  <1>4. req[p].tries # 2
    BY <1>a, <1>3 DEF RefreshPrepare, At, RequestOK, RetryOK
  <1>f. /\ req'[p].pc = "exec" /\ req'[p].op = req[p].op
        /\ req'[p].user = req[p].user /\ req'[p].sid = req[p].sid
        /\ req'[p].jti = req[p].jti /\ req'[p].new = req[p].new
        /\ req'[p].data = req[p].data /\ req'[p].tries = req[p].tries
        /\ req'[p].todo = req[p].todo /\ req'[p].result = req[p].result
    BY <1>a, <1>1 DEF Request
  <1>5. RequestOK(p)'
    <2>0. UNCHANGED <<session, index, used>> /\ UNCHANGED dirty
      BY DEF RefreshPrepare, store
    <2>1. LocalsOK(p)'
      BY <1>a, <1>f, <1>3, <1>4, <2>0 DEF RefreshPrepare, At, RequestOK, InRotation, LocalsOK
    <2>2. WatchOK(p)'
      BY <1>a, <1>f, <1>3, <1>4, <2>0 DEF RefreshPrepare, At, RequestOK, InRotation, WatchOK
    <2>3. RetryOK(p)'
      BY <1>a, <1>f, <1>3, <1>4, <2>0 DEF RefreshPrepare, At, RequestOK, InRotation, RetryOK, Hopeless
    <2>4. RevokeOK(p)' /\ ReuseOK(p)'
      BY <1>a, <1>f, <1>3, <1>4, <2>0 DEF RefreshPrepare, At, RequestOK, RevokeOK, ReuseOK
    <2>5. QED
      BY <2>1, <2>2, <2>3, <2>4 DEF RequestOK
  <1>6. QED
    BY <1>d, <1>2, <1>5, LocalStep DEF RefreshPrepare, At

\* A WatchError on the first attempt leaves a hopeless second attempt.
LEMMA RefreshConflictOK ==
    ASSUME IInv, NEW p \in Proc, RefreshConflict(p)
    PROVE  IInv'
  <1>a. TypeOK /\ RequestOK(p) /\ req[p] \in Request /\ dirty[p] \in BOOLEAN
    BY DEF IInv, TypeOK
  <1>0. req[p].pc = "exec" /\ dirty[p] /\ req[p].tries \in Nat
    BY <1>a DEF RefreshConflict, At, WatchError, Request
  <1>1. dirty[p] /\ Hopeless(p) /\ req[p].tries \in Nat /\ req[p].tries < 2
    BY <1>0, <1>a DEF RequestOK, InRotation, RetryOK
  <1>2. req' = [req EXCEPT ![p].pc = "hgetall", ![p].data = None,
                           ![p].tries = @ + 1]
    BY <1>1, TimeAssumption DEF RefreshConflict, At
  <1>3. req'[p] = [req[p] EXCEPT !.pc = "hgetall", !.data = None,
                                 !.tries = req[p].tries + 1]
    BY <1>a, <1>2 DEF TypeOK
  <1>4. req'[p] \in Request
    <2>1. PICK n \in Nat : n = req[p].tries + 1
      BY <1>1
    <2>2. req'[p] = [req[p] EXCEPT !.pc = "hgetall", !.data = None, !.tries = n]
      BY <1>3, <2>1
    <2>3. QED
      BY <1>a, <2>2 DEF Request, PC
  <1>5. req' \in [Proc -> Request]
    BY <1>a, <1>2, <1>4 DEF TypeOK
  <1>f. /\ req'[p].pc = "hgetall" /\ req'[p].op = req[p].op
        /\ req'[p].user = req[p].user /\ req'[p].sid = req[p].sid
        /\ req'[p].jti = req[p].jti /\ req'[p].new = req[p].new
        /\ req'[p].data = None /\ req'[p].tries = req[p].tries + 1
        /\ req'[p].todo = req[p].todo /\ req'[p].result = req[p].result
    BY <1>a, <1>3 DEF Request
  <1>6. RequestOK(p)'
    <2>0. UNCHANGED <<session, index, used>> /\ dirty'[p] = FALSE
      BY <1>a DEF RefreshConflict, store, TypeOK
    <2>1. LocalsOK(p)'
      BY <1>a, <1>f, <1>1, <2>0 DEF RefreshConflict, At, RequestOK, InRotation, LocalsOK
    <2>2. WatchOK(p)'
      BY <1>a, <1>f, <1>1, <2>0 DEF RefreshConflict, At, RequestOK, InRotation, WatchOK
    <2>3. RetryOK(p)'
      BY <1>a, <1>f, <1>1, <2>0 DEF RefreshConflict, At, RequestOK, InRotation, RetryOK, Hopeless
    <2>4. RevokeOK(p)' /\ ReuseOK(p)'
      BY <1>a, <1>f, <1>1, <2>0 DEF RefreshConflict, At, RequestOK, RevokeOK, ReuseOK
    <2>5. QED
      BY <2>1, <2>2, <2>3, <2>4 DEF RequestOK
  <1>7. QED
    BY <1>a, <1>2, <1>5, <1>6, LocalStep DEF RefreshConflict, At, TypeOK
\* A refresh whose user row is gone goes on to revoke the session.
LEMMA RefreshUserGoneOK ==
    ASSUME IInv, NEW p \in Proc, RefreshUserGone(p)
    PROVE  IInv'
  <1>a. TypeOK /\ RequestOK(p) /\ req[p] \in Request /\ dirty \in [Proc -> BOOLEAN]
    BY DEF IInv, TypeOK
  <1>1. req'[p] = [req[p] EXCEPT !.pc = "rvread", !.op = "userGone"]
    BY <1>a DEF RefreshUserGone, TypeOK
  <1>2. req'[p] \in Request
    BY <1>a, <1>1 DEF Request, PC, Op
  <1>3. req' \in [Proc -> Request]
    BY <1>a, <1>2 DEF RefreshUserGone, TypeOK
  <1>f. /\ req'[p].pc = "rvread" /\ req'[p].op = "userGone"
        /\ req'[p].user = req[p].user /\ req'[p].sid = req[p].sid
        /\ req'[p].jti = req[p].jti /\ req'[p].new = req[p].new
        /\ req'[p].data = req[p].data /\ req'[p].tries = req[p].tries
        /\ req'[p].todo = req[p].todo /\ req'[p].result = req[p].result
    BY <1>a, <1>1 DEF Blank, Request
  <1>4. RequestOK(p)'
    <2>0. UNCHANGED <<session, index, used>> /\ UNCHANGED dirty
      BY DEF RefreshUserGone, store
    <2>1. LocalsOK(p)'
      BY <1>a, <1>f, <2>0 DEF RefreshUserGone, At, RequestOK, InRotation, LocalsOK
    <2>2. WatchOK(p)'
      BY <1>a, <1>f, <2>0 DEF RefreshUserGone, At, RequestOK, InRotation, WatchOK
    <2>3. RetryOK(p)'
      BY <1>a, <1>f, <2>0 DEF RefreshUserGone, At, RequestOK, InRotation, RetryOK, Hopeless
    <2>4. RevokeOK(p)' /\ ReuseOK(p)'
      BY <1>a, <1>f, <2>0 DEF RefreshUserGone, At, RequestOK, LocalsOK, RevokeOK, ReuseOK
    <2>5. QED
      BY <2>1, <2>2, <2>3, <2>4 DEF RequestOK
  <1>5. QED
    BY <1>a, <1>3, <1>4, LocalStep DEF RefreshUserGone

\* The other steps that leave the store alone.
LEMMA CreateStartOK ==
    ASSUME IInv, NEW p \in Proc, NEW u \in User, CreateStart(p, u)
    PROVE  IInv'
  <1>a. TypeOK /\ RequestOK(p) /\ req[p] \in Request /\ dirty \in [Proc -> BOOLEAN]
    BY DEF IInv, TypeOK
  <1>b. clock \in Nat
    BY DEF IInv, TypeOK
  <1>1. req'[p] = [Blank EXCEPT
                  !.pc = "create", !.op = "login", !.user = u, !.now = clock]
    BY <1>a, <1>b DEF CreateStart, TypeOK
  <1>2. req'[p] \in Request
    BY BlankType, <1>1, <1>b DEF Request, PC, Op
  <1>3. req' \in [Proc -> Request]
    BY <1>a, <1>2 DEF CreateStart, TypeOK
  <1>f. /\ req'[p].pc = "create" /\ req'[p].op = "login"
        /\ req'[p].user = u /\ req'[p].sid = None
        /\ req'[p].jti = None /\ req'[p].new = None
        /\ req'[p].data = None /\ req'[p].tries = 0
        /\ req'[p].todo = {} /\ req'[p].result = "none"
    BY <1>a, <1>1 DEF Blank, Request
  <1>4. RequestOK(p)'
    <2>0. UNCHANGED <<session, index, used>> /\ UNCHANGED dirty
      BY DEF CreateStart, store
    <2>1. LocalsOK(p)'
      BY <1>a, <1>f, <2>0, <1>b DEF CreateStart, At, RequestOK, InRotation, LocalsOK
    <2>2. WatchOK(p)'
      BY <1>a, <1>f, <2>0 DEF CreateStart, At, RequestOK, InRotation, WatchOK
    <2>3. RetryOK(p)'
      BY <1>a, <1>f, <2>0 DEF CreateStart, At, RequestOK, InRotation, RetryOK, Hopeless
    <2>4. RevokeOK(p)' /\ ReuseOK(p)'
      BY <1>a, <1>f, <2>0, <1>b DEF CreateStart, At, RequestOK, LocalsOK, RevokeOK, ReuseOK
    <2>5. QED
      BY <2>1, <2>2, <2>3, <2>4 DEF RequestOK
  <1>5. QED
    BY <1>a, <1>3, <1>4, LocalStep DEF CreateStart

\* A revocation names an id that has been given out.
LEMMA RevokeStartOK ==
    ASSUME IInv, NEW p \in Proc, NEW u \in User, NEW s \in Sid, RevokeStart(p, u, s)
    PROVE  IInv'
  <1>a. TypeOK /\ RequestOK(p) /\ req[p] \in Request /\ dirty \in [Proc -> BOOLEAN]
    BY DEF IInv, TypeOK
  <1>1. req'[p] = [Blank EXCEPT
                  !.pc = "rvread", !.op = "revoke", !.user = u, !.sid = s]
    BY <1>a DEF RevokeStart, TypeOK
  <1>2. req'[p] \in Request
    BY BlankType, <1>1 DEF Request, PC, Op
  <1>3. req' \in [Proc -> Request]
    BY <1>a, <1>2 DEF RevokeStart, TypeOK
  <1>f. /\ req'[p].pc = "rvread" /\ req'[p].op = "revoke"
        /\ req'[p].user = u /\ req'[p].sid = s
        /\ req'[p].jti = None /\ req'[p].new = None
        /\ req'[p].data = None /\ req'[p].tries = 0
        /\ req'[p].todo = {} /\ req'[p].result = "none"
    BY <1>a, <1>1 DEF Blank, Request
  <1>4. RequestOK(p)'
    <2>0. UNCHANGED <<session, index, used>> /\ UNCHANGED dirty
      BY DEF RevokeStart, store
    <2>1. LocalsOK(p)'
      BY <1>a, <1>f, <2>0 DEF RevokeStart, At, RequestOK, InRotation, LocalsOK
    <2>2. WatchOK(p)'
      BY <1>a, <1>f, <2>0 DEF RevokeStart, At, RequestOK, InRotation, WatchOK
    <2>3. RetryOK(p)'
      BY <1>a, <1>f, <2>0 DEF RevokeStart, At, RequestOK, InRotation, RetryOK, Hopeless
    <2>4. RevokeOK(p)' /\ ReuseOK(p)'
      BY <1>a, <1>f, <2>0 DEF RevokeStart, At, RequestOK, LocalsOK, RevokeOK, ReuseOK
    <2>5. QED
      BY <2>1, <2>2, <2>3, <2>4 DEF RequestOK
  <1>5. QED
    BY <1>a, <1>3, <1>4, LocalStep DEF RevokeStart

\* revoke_session copies the hash, and nobody else's list has its row.
LEMMA RevokeReadOK ==
    ASSUME IInv, NEW p \in Proc, RevokeRead(p)
    PROVE  IInv'
  <1>a. TypeOK /\ RequestOK(p) /\ req[p] \in Request /\ dirty \in [Proc -> BOOLEAN]
    BY DEF IInv, TypeOK
  <1>b. /\ req[p].sid \in Sid
        /\ session[req[p].sid] \in Session \cup {None}
        /\ session[req[p].sid] # None
        /\ \A u \in User : u # session[req[p].sid].user => index[u][req[p].sid] = 0
    BY <1>a DEF RevokeRead, At, RequestOK, LocalsOK, TypeOK, NotRevocable, IInv,
            StoreOK, RowsOK
  <1>1. req'[p] = [req[p] EXCEPT !.pc = "rvexec", !.now = clock,
                                 !.data = session[req[p].sid]]
    BY <1>a, <1>b DEF RevokeRead, TypeOK
  <1>2. req'[p] \in Request
    BY <1>a, <1>1, <1>b DEF Request, PC, Op, TypeOK
  <1>3. req' \in [Proc -> Request]
    BY <1>a, <1>2 DEF RevokeRead, TypeOK
  <1>f. /\ req'[p].pc = "rvexec" /\ req'[p].op = req[p].op
        /\ req'[p].user = req[p].user /\ req'[p].sid = req[p].sid
        /\ req'[p].jti = req[p].jti /\ req'[p].new = req[p].new
        /\ req'[p].data = session[req[p].sid] /\ req'[p].tries = req[p].tries
        /\ req'[p].todo = req[p].todo /\ req'[p].result = req[p].result
    BY <1>a, <1>1 DEF Blank, Request
  <1>4. RequestOK(p)'
    <2>0. UNCHANGED <<session, index, used>> /\ UNCHANGED dirty
      BY DEF RevokeRead, store
    <2>1. LocalsOK(p)'
      BY <1>a, <1>f, <2>0, <1>b DEF RevokeRead, At, RequestOK, InRotation, LocalsOK
    <2>2. WatchOK(p)'
      BY <1>a, <1>f, <2>0 DEF RevokeRead, At, RequestOK, InRotation, WatchOK
    <2>3. RetryOK(p)'
      BY <1>a, <1>f, <2>0 DEF RevokeRead, At, RequestOK, InRotation, RetryOK, Hopeless
    <2>4. RevokeOK(p)' /\ ReuseOK(p)'
      BY <1>a, <1>f, <2>0, <1>b DEF RevokeRead, At, RequestOK, LocalsOK, RevokeOK, ReuseOK
    <2>5. QED
      BY <2>1, <2>2, <2>3, <2>4 DEF RequestOK
  <1>5. QED
    BY <1>a, <1>3, <1>4, LocalStep DEF RevokeRead

\* The rows a listing starts from are ids that have been given out.
LEMMA ListStartOK ==
    ASSUME IInv, NEW p \in Proc, NEW u \in User, NEW op \in {"list", "revokeAll"},
           ListStart(p, u, op)
    PROVE  IInv'
  <1>a. TypeOK /\ RequestOK(p) /\ req[p] \in Request /\ dirty \in [Proc -> BOOLEAN]
    BY DEF IInv, TypeOK
  <1>b. /\ (IF op = "revokeAll" THEN LiveSids(u) ELSE {}) \in SUBSET Sid
        /\ {s \in Sid : index[u][s] # 0} \in SUBSET Sid
        /\ {s \in Sid : index[u][s] # 0} \subseteq used /\ op \in Op
    BY DEF LiveSids, IInv, StoreOK, RowsOK, Op
  <1>1. req'[p] = [Blank EXCEPT
            !.pc = "rows", !.op = op, !.user = u,
            !.todo = {s \in Sid : index[u][s] # 0},
            !.goal = IF op = "revokeAll" THEN LiveSids(u) ELSE {}]
    BY <1>a, <1>b DEF ListStart, TypeOK
  <1>2. req'[p] \in Request
    <2>1. PICK T \in SUBSET Sid :
              T = (IF op = "revokeAll" THEN LiveSids(u) ELSE {})
      BY <1>b
    <2>2. PICK S \in SUBSET Sid : S = {s \in Sid : index[u][s] # 0}
      BY <1>b
    <2>3. req'[p] = [Blank EXCEPT !.pc = "rows", !.op = op, !.user = u,
                                  !.todo = S, !.goal = T]
      BY <1>1, <2>1, <2>2
    <2>4. QED
      BY <1>b, <2>3, BlankType DEF Request, PC
  <1>3. req' \in [Proc -> Request]
    BY <1>a, <1>2 DEF ListStart, TypeOK
  <1>f. /\ req'[p].pc = "rows" /\ req'[p].op = op
        /\ req'[p].user = u /\ req'[p].sid = None
        /\ req'[p].jti = None /\ req'[p].new = None
        /\ req'[p].data = None /\ req'[p].tries = 0
        /\ req'[p].todo = {s \in Sid : index[u][s] # 0} /\ req'[p].result = "none"
    BY <1>a, <1>1 DEF Blank, Request
  <1>4. RequestOK(p)'
    <2>0. UNCHANGED <<session, index, used>> /\ UNCHANGED dirty
      BY DEF ListStart, store
    <2>1. LocalsOK(p)'
      BY <1>a, <1>f, <2>0, <1>b DEF ListStart, At, RequestOK, InRotation, LocalsOK
    <2>2. WatchOK(p)'
      BY <1>a, <1>f, <2>0 DEF ListStart, At, RequestOK, InRotation, WatchOK
    <2>3. RetryOK(p)'
      BY <1>a, <1>f, <2>0 DEF ListStart, At, RequestOK, InRotation, RetryOK, Hopeless
    <2>4. RevokeOK(p)' /\ ReuseOK(p)'
      BY <1>a, <1>f, <2>0, <1>b DEF ListStart, At, RequestOK, LocalsOK, RevokeOK, ReuseOK
    <2>5. QED
      BY <2>1, <2>2, <2>3, <2>4 DEF RequestOK
  <1>5. QED
    BY <1>a, <1>3, <1>4, LocalStep DEF ListStart

\* A listing tells the rows without a session apart.
LEMMA ListRowsOK ==
    ASSUME IInv, NEW p \in Proc, ListRows(p)
    PROVE  IInv'
  <1>a. TypeOK /\ RequestOK(p) /\ req[p] \in Request /\ dirty \in [Proc -> BOOLEAN]
    BY DEF IInv, TypeOK
  <1>1. req'[p] = [req[p] EXCEPT
                  !.pc = "zrem",
                  !.stale = {s \in req[p].todo : session[s] = None},
                  !.todo = @ \ {s \in req[p].todo : session[s] = None}]
    BY <1>a DEF ListRows, TypeOK
  <1>2. req'[p] \in Request
    BY <1>a, <1>1 DEF Request, PC, Op
  <1>3. req' \in [Proc -> Request]
    BY <1>a, <1>2 DEF ListRows, TypeOK
  <1>f. /\ req'[p].pc = "zrem" /\ req'[p].op = req[p].op
        /\ req'[p].user = req[p].user /\ req'[p].sid = req[p].sid
        /\ req'[p].jti = req[p].jti /\ req'[p].new = req[p].new
        /\ req'[p].data = req[p].data /\ req'[p].tries = req[p].tries
        /\ req'[p].todo = req[p].todo \ {s \in req[p].todo : session[s] = None} /\ req'[p].result = req[p].result
    BY <1>a, <1>1 DEF Blank, Request
  <1>4. RequestOK(p)'
    <2>0. UNCHANGED <<session, index, used>> /\ UNCHANGED dirty
      BY DEF ListRows, store
    <2>1. LocalsOK(p)'
      BY <1>a, <1>f, <2>0 DEF ListRows, At, RequestOK, InRotation, LocalsOK
    <2>2. WatchOK(p)'
      BY <1>a, <1>f, <2>0 DEF ListRows, At, RequestOK, InRotation, WatchOK
    <2>3. RetryOK(p)'
      BY <1>a, <1>f, <2>0 DEF ListRows, At, RequestOK, InRotation, RetryOK, Hopeless
    <2>4. RevokeOK(p)' /\ ReuseOK(p)'
      BY <1>a, <1>f, <2>0 DEF ListRows, At, RequestOK, LocalsOK, RevokeOK, ReuseOK
    <2>5. QED
      BY <2>1, <2>2, <2>3, <2>4 DEF RequestOK
  <1>5. QED
    BY <1>a, <1>3, <1>4, LocalStep DEF ListRows

\* revoke_all_sessions goes on with one of the listed sessions.
LEMMA RevokeAllNextOK ==
    ASSUME IInv, NEW p \in Proc, NEW s \in Sid, RevokeAllNext(p, s)
    PROVE  IInv'
  <1>a. TypeOK /\ RequestOK(p) /\ req[p] \in Request /\ dirty \in [Proc -> BOOLEAN]
    BY DEF IInv, TypeOK
  <1>1. req'[p] = [req[p] EXCEPT !.pc = "rvread", !.sid = s, !.todo = @ \ {s}]
    BY <1>a DEF RevokeAllNext, TypeOK
  <1>2. req'[p] \in Request
    BY <1>a, <1>1 DEF Request, PC, Op
  <1>3. req' \in [Proc -> Request]
    BY <1>a, <1>2 DEF RevokeAllNext, TypeOK
  <1>f. /\ req'[p].pc = "rvread" /\ req'[p].op = req[p].op
        /\ req'[p].user = req[p].user /\ req'[p].sid = s
        /\ req'[p].jti = req[p].jti /\ req'[p].new = req[p].new
        /\ req'[p].data = req[p].data /\ req'[p].tries = req[p].tries
        /\ req'[p].todo = req[p].todo \ {s} /\ req'[p].result = req[p].result
    BY <1>a, <1>1 DEF Blank, Request
  <1>4. RequestOK(p)'
    <2>0. UNCHANGED <<session, index, used>> /\ UNCHANGED dirty
      BY DEF RevokeAllNext, store
    <2>1. LocalsOK(p)'
      BY <1>a, <1>f, <2>0 DEF RevokeAllNext, At, RequestOK, InRotation, LocalsOK
    <2>2. WatchOK(p)'
      BY <1>a, <1>f, <2>0 DEF RevokeAllNext, At, RequestOK, InRotation, WatchOK
    <2>3. RetryOK(p)'
      BY <1>a, <1>f, <2>0 DEF RevokeAllNext, At, RequestOK, InRotation, RetryOK, Hopeless
    <2>4. RevokeOK(p)' /\ ReuseOK(p)'
      BY <1>a, <1>f, <2>0 DEF RevokeAllNext, At, RequestOK, LocalsOK, RevokeOK, ReuseOK
    <2>5. QED
      BY <2>1, <2>2, <2>3, <2>4 DEF RequestOK
  <1>5. QED
    BY <1>a, <1>3, <1>4, LocalStep DEF RevokeAllNext

\* revoke_all_sessions answers when nothing is left to do.
LEMMA RevokeAllDoneOK ==
    ASSUME IInv, NEW p \in Proc, RevokeAllDone(p)
    PROVE  IInv'
  <1>1. TypeOK /\ dirty \in [Proc -> BOOLEAN]
    BY DEF IInv, TypeOK
  <1>2. RequestOK(p)' /\ req' \in [Proc -> Request]
    BY <1>1, FinishOK DEF RevokeAllDone
  <1>3. QED
    BY <1>1, <1>2, LocalStep DEF RevokeAllDone, Finish

\* A failing request leaves the store as it is.
LEMMA FailOK ==
    ASSUME IInv, NEW p \in Proc, Fail(p)
    PROVE  IInv'
  <1>1. TypeOK /\ dirty \in [Proc -> BOOLEAN]
    BY DEF IInv, TypeOK
  <1>2. RequestOK(p)' /\ req' \in [Proc -> Request]
    BY <1>1, FinishOK DEF Fail
  <1>3. QED
    BY <1>1, <1>2, LocalStep DEF Fail, Finish

\* touch_session reads the owner of the session.
LEMMA TouchReadOK ==
    ASSUME IInv, NEW p \in Proc, NEW s \in Sid, NEW w \in BOOLEAN,
           TouchRead(p, s, w)
    PROVE  IInv'
  <1>a. TypeOK /\ dirty \in [Proc -> BOOLEAN] /\ s \in used
    BY DEF IInv, TypeOK, TouchRead
  <1>b. UNCHANGED <<session, index, used>>
    BY DEF TouchRead, store
  <1>1. CASE \E r \in {"ok", "rejected"} : Finish(p, r)
    <2>1. RequestOK(p)' /\ req' \in [Proc -> Request]
      BY <1>1, <1>a, FinishOK
    <2>2. QED
      BY <1>1, <1>a, <2>1, LocalStep DEF TouchRead, TypeOK, Finish
  <1>3. CASE /\ session[s] # None
             /\ req'[p] = [Blank EXCEPT !.pc = "zadd", !.op = "touch", !.sid = s,
                                        !.user = session[s].user]
    <2>0. session[s].user \in User
      BY <1>3, <1>a DEF TypeOK, Session
    <2>1. req'[p] \in Request
      BY <1>3, <2>0, BlankType DEF Request, PC, Op
    <2>2. /\ req'[p].pc = "zadd" /\ req'[p].tries = 0 /\ req'[p].todo = {}
          /\ req'[p].result = "none" /\ req'[p].new = None
          /\ req'[p].sid = s /\ req'[p].op = "touch"
          /\ req'[p].user = session[s].user
      BY <1>3 DEF Blank
    <2>3. RequestOK(p)'
      BY <1>a, <1>b, <2>0, <2>2 DEF RequestOK, LocalsOK, WatchOK, RetryOK,
                  RevokeOK, ReuseOK, InRotation
    <2>4. QED
      BY <1>a, <2>1, <2>3, LocalStep DEF TouchRead, TypeOK
  <1>4. QED
    BY <1>a, <1>1, <1>3 DEF TouchRead, TypeOK, Finish

\* What becomes of the request at the end of revoke_session.
LEMMA AfterRevokeOK ==
    ASSUME TypeOK, NEW p \in Proc, NEW hit \in BOOLEAN, RequestOK(p),
           req[p].pc \in {"rvread", "rvexec"}, AfterRevoke(p, hit),
           req[p].op = "reuse" => session'[req[p].sid] = None,
           UNCHANGED used
    PROVE  RequestOK(p)' /\ req' \in [Proc -> Request]
  <1>1. CASE \E r \in {"ok", "rejected"} : Finish(p, r)
    BY <1>1, FinishOK
  <1>2. CASE req[p].op = "reuse" /\ Finish(p, "reuse")
    <2>1. req'[p] = Answer(p, "reuse")
      BY <1>2 DEF Finish, TypeOK
    <2>2. /\ req'[p].pc = "idle" /\ req'[p].tries = 0 /\ req'[p].todo = {}
          /\ req'[p].result = "reuse" /\ req'[p].new = None
          /\ req'[p].sid = req[p].sid
      BY <2>1 DEF Answer, Blank, Verdict
    <2>3. RequestOK(p)'
      BY <1>2, <2>2 DEF RequestOK, LocalsOK, WatchOK, RetryOK, RevokeOK, ReuseOK,
                  InRotation
    <2>4. req' \in [Proc -> Request]
      BY <1>2, AnswerType DEF Finish, TypeOK, Result
    <2>5. QED
      BY <2>3, <2>4
  <1>3. CASE req[p].op = "revokeAll" /\ Goto(p, "next")
    <2>0. req[p] \in Request
      BY DEF TypeOK
    <2>1. req'[p] = [req[p] EXCEPT !.pc = "next"]
      BY <1>3 DEF Goto, TypeOK
    <2>2. req'[p] \in Request
      BY <2>0, <2>1 DEF Request, PC
    <2>3. req' \in [Proc -> Request]
      BY <1>3, <2>2 DEF Goto, TypeOK
    <2>4. /\ req'[p].pc = "next" /\ req'[p].op = "revokeAll"
          /\ req'[p].tries = req[p].tries /\ req'[p].todo = req[p].todo
          /\ req'[p].result = req[p].result /\ req'[p].new = req[p].new
      BY <1>3, <2>0, <2>1 DEF Request
    <2>5. RequestOK(p)'
      BY <2>4 DEF RequestOK, LocalsOK, WatchOK, RetryOK, RevokeOK, ReuseOK,
                  InRotation
    <2>6. QED
      BY <2>3, <2>5
  <1>4. QED
    BY <1>1, <1>2, <1>3 DEF AfterRevoke

\* revoke_session of a missing session changes nothing.
LEMMA RevokeMissingOK ==
    ASSUME IInv, NEW p \in Proc, RevokeMissing(p)
    PROVE  IInv'
  <1>1. TypeOK /\ dirty \in [Proc -> BOOLEAN] /\ RequestOK(p)
    BY DEF IInv, TypeOK
  <1>2. UNCHANGED <<session, used>> /\ req[p].pc = "rvread"
    BY DEF RevokeMissing, At, store
  <1>3. req[p].op = "reuse" => session'[req[p].sid] = None
    BY <1>2 DEF RevokeMissing, NotRevocable, Filtered
  <1>4. RequestOK(p)' /\ req' \in [Proc -> Request]
    BY <1>1, <1>2, <1>3, AfterRevokeOK DEF RevokeMissing
  <1>5. \A q \in Proc \ {p} : req'[q] = req[q]
    BY <1>1 DEF RevokeMissing, AfterRevoke, Finish, Goto, TypeOK
  <1>6. QED
    BY <1>1, <1>4, <1>5, LocalStep DEF RevokeMissing

-----------------------------------------------------------------------------
(***************************************************************************)
(* The steps that write the store.                                         *)
(***************************************************************************)

\* Steps on the index that create no row.
LEMMA IndexStep ==
    ASSUME IInv, NEW p \in Proc,
           UNCHANGED <<clock, session, indexTtl, blacklist, token, used, dead,
                       from, dirty>>,
           index' \in [User -> [Sid -> Nat]],
           \A u \in User, s \in Sid : index[u][s] = 0 => index'[u][s] = 0,
           req' \in [Proc -> Request],
           \A q \in Proc \ {p} : req'[q] = req[q],
           RequestOK(p)'
    PROVE  IInv'
  <1>1. TypeOK'
    BY DEF IInv, TypeOK
  <1>2. StoreOK'
    BY <1>1 DEF IInv, TypeOK, StoreOK, IdsOK, DeadOK, RowsOK,
           RevokedRowStaysGone, SingleWinner
  <1>3. ASSUME NEW q \in Proc \ {p} PROVE RequestOK(q)'
    <2>1. RequestOK(q) /\ req'[q] = req[q] /\ dirty'[q] = dirty[q]
      BY DEF IInv
    <2>2. LocalsOK(q)' /\ WatchOK(q)' /\ RetryOK(q)' /\ ReuseOK(q)'
      BY <2>1 DEF RequestOK, LocalsOK, WatchOK, RetryOK, ReuseOK, InRotation,
                  Hopeless
    <2>3. RevokeOK(q)'
      BY <2>1 DEF RequestOK, LocalsOK, RevokeOK
    <2>4. QED
      BY <2>2, <2>3 DEF RequestOK
  <1>4. QED
    BY <1>1, <1>2, <1>3 DEF IInv

\* ZADD XX creates no row.
LEMMA TouchWriteOK ==
    ASSUME IInv, NEW p \in Proc, TouchWrite(p)
    PROVE  IInv'
  <1>1. TypeOK /\ RequestOK(p) /\ req[p].user \in User /\ req[p].sid \in Sid
    BY DEF IInv, RequestOK, LocalsOK, TouchWrite, At
  <1>2. RequestOK(p)' /\ req' \in [Proc -> Request]
    BY <1>1, FinishOK DEF TouchWrite
  <1>3. index' \in [User -> [Sid -> Nat]]
    BY <1>1 DEF TouchWrite, ZAddXX, TypeOK
  <1>4. \A u \in User, s \in Sid : index[u][s] = 0 => index'[u][s] = 0
    BY <1>1 DEF TouchWrite, ZAddXX, TypeOK
  <1>5. \A q \in Proc \ {p} : req'[q] = req[q]
    BY <1>1 DEF TouchWrite, Finish, TypeOK
  <1>6. QED
    BY <1>2, <1>3, <1>4, <1>5, IndexStep DEF TouchWrite

\* A listing only removes rows.
LEMMA ListPruneOK ==
    ASSUME IInv, NEW p \in Proc, ListPrune(p)
    PROVE  IInv'
  <1>1. TypeOK /\ RequestOK(p) /\ req[p] \in Request /\ req[p].user \in User
    BY DEF IInv, TypeOK, RequestOK, LocalsOK, ListPrune, At
  <1>2. RequestOK(p)' /\ req' \in [Proc -> Request]
    <2>1. CASE Finish(p, "ok")
      BY <2>1, <1>1, FinishOK
    <2>2. CASE /\ req[p].op # "list"
               /\ req' = [req EXCEPT ![p].pc = "next", ![p].stale = {}]
      <3>1. req'[p] = [req[p] EXCEPT !.pc = "next", !.stale = {}]
        BY <1>1, <2>2 DEF TypeOK
      <3>2. req'[p] \in Request
        BY <1>1, <3>1 DEF Request, PC
      <3>3. req' \in [Proc -> Request]
        BY <1>1, <2>2, <3>2 DEF TypeOK
      <3>4. /\ req'[p].pc = "next" /\ req'[p].op = req[p].op
            /\ req'[p].tries = req[p].tries /\ req'[p].todo = req[p].todo
            /\ req'[p].result = req[p].result /\ req'[p].new = req[p].new
        BY <1>1, <3>1 DEF Request
      <3>a. UNCHANGED used /\ req[p].op = "revokeAll" /\ req[p].pc = "zrem"
        BY <1>1, <2>2 DEF ListPrune, At, RequestOK, LocalsOK
      <3>5. RequestOK(p)'
        BY <1>1, <3>a, <3>4 DEF RequestOK, LocalsOK, WatchOK,
           RetryOK, RevokeOK, ReuseOK, InRotation
      <3>6. QED
        BY <3>3, <3>5
    <2>3. QED
      BY <2>1, <2>2 DEF ListPrune
  <1>3. index' \in [User -> [Sid -> Nat]]
    BY <1>1 DEF ListPrune, TypeOK
  <1>4. \A u \in User, s \in Sid : index[u][s] = 0 => index'[u][s] = 0
    BY <1>1 DEF ListPrune, TypeOK
  <1>5. \A q \in Proc \ {p} : req'[q] = req[q]
    BY <1>1 DEF ListPrune, Finish, TypeOK
  <1>6. QED
    BY <1>2, <1>3, <1>4, <1>5, IndexStep DEF ListPrune

\* A signed token names ids that have been given out.
LEMMA IssueTokenOK ==
    ASSUME IInv, NEW p \in Proc, IssueToken(p)
    PROVE  IInv'
  <1>1. /\ TypeOK /\ req[p] \in Request /\ req[p].user \in User
        /\ req[p].sid \in Sid /\ req[p].sid \in used
        /\ req[p].new # None => req[p].new \in used
    BY DEF IInv, TypeOK, RequestOK, LocalsOK, IssueToken, At
  <1>2. RequestOK(p)' /\ req' \in [Proc -> Request]
    BY <1>1, FinishOK DEF IssueToken
  <1>3. UNCHANGED <<clock, session, index, indexTtl, blacklist, used, dead, from,
                    dirty>>
    BY DEF IssueToken, store
  <1>4. \A j \in Jti :
           \/ token'[j] = token[j]
           \/ /\ j = req[p].new
              /\ token'[j] = [sid |-> req[p].sid, user |-> req[p].user,
                              exp |-> clock + Life]
    BY <1>1 DEF IssueToken, TypeOK
  <1>5. token' \in [Jti -> Token \cup {None}]
    <2>1. [sid |-> req[p].sid, user |-> req[p].user, exp |-> clock + Life] \in Token
      BY <1>1, TimeAssumption DEF TypeOK, Token
    <2>2. QED
      BY <1>1, <2>1 DEF IssueToken, TypeOK
  <1>6. TypeOK'
    BY <1>1, <1>2, <1>3, <1>5 DEF TypeOK
  <1>7. StoreOK'
    <2>1. \A j \in Jti : token'[j] # None => j \in used /\ token'[j].sid \in used
      BY <1>1, <1>4, NoneAssumption DEF IInv, StoreOK, IdsOK
    <2>2. IdsOK'
      BY <1>3, <2>1 DEF IInv, StoreOK, IdsOK
    <2>3. QED
      BY <1>3, <2>2 DEF IInv, StoreOK, DeadOK, RowsOK, RevokedRowStaysGone,
                        SingleWinner
  <1>8. ASSUME NEW q \in Proc \ {p} PROVE RequestOK(q)'
    <2>1. RequestOK(q) /\ req'[q] = req[q] /\ dirty'[q] = dirty[q]
      BY <1>1, <1>3 DEF IInv, IssueToken, Finish, TypeOK
    <2>2. QED
      BY <1>3, <2>1 DEF RequestOK, LocalsOK, WatchOK, RetryOK, RevokeOK, ReuseOK,
                        InRotation, Hopeless
  <1>9. QED
    BY <1>2, <1>6, <1>7, <1>8 DEF IInv

\* The MULTI of create_session writes a session and a row with new ids.
LEMMA CreateExecOK ==
    ASSUME IInv, NEW p \in Proc, NEW s \in Sid, NEW n \in Jti, CreateExec(p, s, n)
    PROVE  IInv'
  <1>1. /\ TypeOK /\ StoreOK /\ RequestOK(p) /\ req[p] \in Request
        /\ req[p].user \in User /\ req[p].now \in Nat
        /\ req[p].pc = "create" /\ req[p].op = "login"
    BY DEF IInv, TypeOK, RequestOK, LocalsOK, CreateExec, At, Request
  <1>2. /\ s \notin used /\ n \notin used /\ used' = used \cup {s, n}
        /\ UNCHANGED <<clock, blacklist, token, dead, from, dirty>>
    BY DEF CreateExec
  <1> DEFINE new == [user |-> req[p].user, jti |-> n, prev |-> None,
                     rotatedAt |-> 0, expiresAt |-> req[p].now + Life,
                     ttl |-> clock + Life]
  <1>3. new \in Session
    BY <1>1, TimeAssumption DEF TypeOK, Session
  <1>4. session' = [session EXCEPT ![s] = new]
    BY DEF CreateExec
  <1>n. new.user = req[p].user /\ new.jti = n
    OBVIOUS
  <1> HIDE DEF new
  <1>5. /\ session' \in [Sid -> Session \cup {None}]
        /\ session'[s] = new /\ \A t \in Sid \ {s} : session'[t] = session[t]
    BY <1>1, <1>3, <1>4 DEF TypeOK
  <1>6. /\ index' \in [User -> [Sid -> Nat]]
        /\ \A u \in User, t \in Sid \ {s} : index[u][t] = 0 => index'[u][t] = 0
        /\ \A u \in User \ {req[p].user} : index'[u] = index[u]
    BY <1>1 DEF CreateExec, IndexAfterCreate, TypeOK
  <1>7. /\ req'[p] = [req[p] EXCEPT !.pc = "issue", !.sid = s, !.new = n]
        /\ \A q \in Proc \ {p} : req'[q] = req[q]
    BY <1>1 DEF CreateExec, TypeOK
  <1>8. req'[p] \in Request
    BY <1>1, <1>7 DEF Request, PC
  <1>9. req' \in [Proc -> Request]
    BY <1>1, <1>8 DEF CreateExec, TypeOK
  <1>10. TypeOK'
    <2>1. indexTtl' \in [User -> Nat]
      BY <1>1, TimeAssumption DEF CreateExec, TypeOK
    <2>2. QED
      BY <1>1, <1>2, <1>5, <1>6, <1>9, <2>1 DEF TypeOK
  <1>11. StoreOK'
    <2>1. IdsOK'
      <3>1. \A t \in Sid : session'[t] # None => t \in used' /\ session'[t].jti \in used'
        BY <1>1, <1>2, <1>5, <1>n DEF StoreOK, IdsOK
      <3>2. \A j \in Jti : token'[j] # None => j \in used' /\ token'[j].sid \in used'
        BY <1>1, <1>2 DEF StoreOK, IdsOK
      <3>3. \A m \in Jti : from'[m] # None => m \in used' /\ from'[m] \in used'
        BY <1>1, <1>2 DEF StoreOK, IdsOK
      <3>4. \A t \in Sid, m \in Jti : session'[t] # None => session'[t].jti # from'[m]
        BY <1>1, <1>2, <1>5, <1>n, NoneAssumption DEF StoreOK, IdsOK
      <3>5. \A t, v \in Sid : session'[t] # None /\ session'[v] # None /\ t # v
                                 => session'[t].jti # session'[v].jti
        BY <1>1, <1>2, <1>5, <1>n DEF StoreOK, IdsOK
      <3>6. QED
        BY <3>1, <3>2, <3>3, <3>4, <3>5 DEF IdsOK
    <2>2. DeadOK'
      BY <1>1, <1>2, <1>5 DEF StoreOK, DeadOK, TypeOK
    <2>3. RowsOK'
      BY <1>1, <1>2, <1>5, <1>6, <1>n DEF StoreOK, RowsOK
    <2>4. RevokedRowStaysGone'
      BY <1>1, <1>2, <1>6 DEF StoreOK, DeadOK, RevokedRowStaysGone, TypeOK
    <2>5. SingleWinner'
      BY <1>1, <1>2 DEF StoreOK, SingleWinner
    <2>6. QED
      BY <2>1, <2>2, <2>3, <2>4, <2>5 DEF StoreOK
  <1>12. RequestOK(p)'
    <2>1. /\ req'[p].pc = "issue" /\ req'[p].op = "login"
          /\ req'[p].user = req[p].user /\ req'[p].sid = s /\ req'[p].new = n
          /\ req'[p].tries = req[p].tries /\ req'[p].todo = req[p].todo
          /\ req'[p].result = req[p].result
      BY <1>1, <1>7 DEF Request
    <2>2. QED
      BY <1>1, <1>2, <2>1 DEF RequestOK, LocalsOK, WatchOK, RetryOK, RevokeOK,
                  ReuseOK, InRotation
  <1>13. ASSUME NEW q \in Proc \ {p} PROVE RequestOK(q)'
    <2>1. RequestOK(q) /\ req'[q] = req[q] /\ dirty'[q] = dirty[q]
      BY <1>2, <1>7 DEF IInv
    <2>2. req[q].sid \in Sid /\ req[q].sid \in used
             => /\ session'[req[q].sid] = session[req[q].sid]
                /\ \A u \in User : index[u][req[q].sid] = 0
                                      => index'[u][req[q].sid] = 0
      BY <1>2, <1>5, <1>6
    <2>3. LocalsOK(q)'
      BY <1>2, <2>1 DEF RequestOK, LocalsOK, InRotation
    <2>4. WatchOK(q)' /\ RetryOK(q)'
      BY <2>1, <2>2 DEF RequestOK, LocalsOK, InRotation, WatchOK, RetryOK, Hopeless
    <2>5. RevokeOK(q)' /\ ReuseOK(q)'
      BY <2>1, <2>2 DEF RequestOK, LocalsOK, RevokeOK, ReuseOK
    <2>6. QED
      BY <2>3, <2>4, <2>5 DEF RequestOK
  <1>14. QED
    BY <1>10, <1>11, <1>12, <1>13 DEF IInv

\* The MULTI of rotate_refresh replaces the current token of its session.
LEMMA RefreshExecOK ==
    ASSUME IInv, NEW p \in Proc, NEW n \in Jti, RefreshExec(p, n)
    PROVE  IInv'
  <1> DEFINE s == req[p].sid
             j == req[p].jti
             u == req[p].user
             new == HSet(session[s], n, j, req[p].now)
  <1>1. /\ TypeOK /\ StoreOK /\ RequestOK(p) /\ req[p] \in Request
        /\ req[p].pc = "exec" /\ ~dirty[p] /\ req[p].now \in Nat
    BY DEF IInv, TypeOK, RefreshExec, At, WatchError, Request
  <1>2. /\ s \in Sid /\ s \in used /\ j \in Jti /\ j \in used /\ u \in User
        /\ req[p].op = "refresh"
    BY <1>1 DEF RequestOK, LocalsOK, InRotation
  <1>3. /\ session[s] # None /\ session[s] \in Session
        /\ session[s].user = u /\ session[s].jti = j
        /\ req[p].data = session[s]
    BY <1>1, <1>2 DEF RequestOK, WatchOK, TypeOK
  <1>4. /\ n \notin used /\ used' = used \cup {n}
        /\ session' = [session EXCEPT ![s] = new]
        /\ from' = [from EXCEPT ![n] = j]
        /\ UNCHANGED <<clock, token, dead>>
    BY DEF RefreshExec
  <1>5. new \in Session /\ new.user = u /\ new.jti = n
    BY <1>1, <1>2, <1>3, TimeAssumption DEF HSet, Session, TypeOK
  <1>6. /\ session' \in [Sid -> Session \cup {None}]
        /\ session'[s] = new /\ \A t \in Sid \ {s} : session'[t] = session[t]
    BY <1>1, <1>2, <1>4, <1>5 DEF TypeOK
  <1>7. /\ index' \in [User -> [Sid -> Nat]]
        /\ \A v \in User, t \in Sid : v # u \/ t # s => index'[v][t] = index[v][t]
    BY <1>1, <1>2 DEF RefreshExec, TypeOK
  <1>8. /\ req'[p] = [req[p] EXCEPT !.pc = "issue", !.new = n]
        /\ \A q \in Proc \ {p} : req'[q] = req[q]
    BY <1>1 DEF RefreshExec, TypeOK
  <1>9. req'[p] \in Request
    BY <1>1, <1>8 DEF Request, PC
  <1>10. req' \in [Proc -> Request]
    BY <1>1, <1>9 DEF RefreshExec, TypeOK
  <1>11. /\ dirty' \in [Proc -> BOOLEAN]
         /\ \A q \in Proc : dirty'[q] <=> dirty[q] \/ Watches(q, s)
    BY <1>1 DEF RefreshExec, Signal, TypeOK
  <1>12. /\ from' \in [Jti -> Jti \cup {None}]
         /\ from'[n] = j /\ \A m \in Jti \ {n} : from'[m] = from[m]
    BY <1>1, <1>2, <1>4 DEF TypeOK
  <1>13. TypeOK'
    <2>1. indexTtl' \in [User -> Nat]
      BY <1>1, <1>2, TimeAssumption DEF RefreshExec, TypeOK
    <2>2. req[p].data.expiresAt \in Nat
      BY <1>3 DEF Session
    <2>3. clock + Later(req[p].data.expiresAt - req[p].now, 1) \in Nat
      BY <1>1, <2>2 DEF Later, TypeOK
    <2>4. blacklist' \in [Jti -> Nat]
      BY <1>1, <1>2, <2>3 DEF RefreshExec, TypeOK
    <2>5. QED
      BY <1>1, <1>4, <1>6, <1>7, <1>10, <1>11, <1>12, <2>1, <2>4 DEF TypeOK
  <1> HIDE DEF s, j, u, new
  <1>14. StoreOK'
    <2>1. IdsOK'
      <3>1. \A t \in Sid : session'[t] # None => t \in used' /\ session'[t].jti \in used'
        BY <1>1, <1>2, <1>4, <1>5, <1>6 DEF StoreOK, IdsOK
      <3>2. \A i \in Jti : token'[i] # None => i \in used' /\ token'[i].sid \in used'
        BY <1>1, <1>4 DEF StoreOK, IdsOK
      <3>3. \A m \in Jti : from'[m] # None => m \in used' /\ from'[m] \in used'
        BY <1>1, <1>2, <1>4, <1>12 DEF StoreOK, IdsOK
      <3>4. \A t \in Sid, m \in Jti : session'[t] # None => session'[t].jti # from'[m]
        BY <1>1, <1>2, <1>3, <1>4, <1>5, <1>6, <1>12, NoneAssumption DEF StoreOK, IdsOK
      <3>5. \A t, v \in Sid : session'[t] # None /\ session'[v] # None /\ t # v
                                 => session'[t].jti # session'[v].jti
        BY <1>1, <1>4, <1>5, <1>6 DEF StoreOK, IdsOK
      <3>6. QED
        BY <3>1, <3>2, <3>3, <3>4, <3>5 DEF IdsOK
    <2>2. s \notin dead
      BY <1>1, <1>3 DEF StoreOK, DeadOK
    <2>3. DeadOK'
      BY <1>1, <1>4, <1>6, <2>2 DEF StoreOK, DeadOK, TypeOK
    <2>4. RowsOK'
      <3>1. ASSUME NEW t \in Sid, NEW v \in User, session'[t] # None,
                   v # session'[t].user
            PROVE  index'[v][t] = 0
        <4>1. session[t] # None /\ v # session[t].user
          BY <1>3, <1>5, <1>6, <3>1
        <4>2. index[v][t] = 0
          BY <1>1, <4>1 DEF StoreOK, RowsOK
        <4>3. v # u \/ t # s
          BY <1>5, <1>6, <3>1
        <4>4. QED
          BY <1>7, <4>2, <4>3
      <3>2. ASSUME NEW t \in Sid, NEW v \in User, t \notin used'
            PROVE  index'[v][t] = 0
        <4>1. t \notin used /\ t # s
          BY <1>1, <1>3, <1>4, <3>2 DEF StoreOK, IdsOK
        <4>2. QED
          BY <1>1, <1>7, <4>1 DEF StoreOK, RowsOK
      <3>3. QED
        BY <3>1, <3>2 DEF RowsOK
    <2>5. RevokedRowStaysGone'
      BY <1>1, <1>4, <1>7, <2>2 DEF StoreOK, RevokedRowStaysGone, TypeOK
    <2>6. SingleWinner'
      <3>1. \A m \in Jti : from[m] # j
        BY <1>1, <1>2, <1>3 DEF StoreOK, IdsOK
      <3>2. QED
        BY <1>1, <1>12, <3>1 DEF StoreOK, SingleWinner
    <2>7. QED
      BY <2>1, <2>3, <2>4, <2>5, <2>6 DEF StoreOK
  <1>15. RequestOK(p)'
    <2>1. /\ req'[p].pc = "issue" /\ req'[p].op = "refresh"
          /\ req'[p].user = u /\ req'[p].sid = s /\ req'[p].new = n
          /\ req'[p].tries = req[p].tries /\ req'[p].todo = req[p].todo
          /\ req'[p].result = req[p].result
      BY <1>1, <1>2, <1>8 DEF Request, s, u
    <2>2. QED
      BY <1>1, <1>2, <1>4, <2>1 DEF RequestOK, LocalsOK, WatchOK, RetryOK, RevokeOK,
                  ReuseOK, InRotation
  <1>16. ASSUME NEW q \in Proc \ {p} PROVE RequestOK(q)'
    <2>1. RequestOK(q) /\ req'[q] = req[q]
      BY <1>8 DEF IInv
    <2>2. LocalsOK(q)'
      BY <1>4, <2>1 DEF RequestOK, LocalsOK, InRotation
    <2>3. CASE req[q].sid = s
      <3>1. InRotation(q) => dirty'[q]
        BY <1>11, <2>1, <2>3 DEF RequestOK, LocalsOK, InRotation, Watches
      <3>2. WatchOK(q)'
        BY <2>1, <3>1 DEF RequestOK, WatchOK, InRotation
      <3>3. InRotation(q) => Hopeless(q)'
        BY <1>4, <1>5, <1>6, <2>1, <2>3 DEF RequestOK, LocalsOK, InRotation, Hopeless
      <3>4. RetryOK(q)'
        BY <2>1, <3>3 DEF RequestOK, RetryOK, InRotation
      <3>5. RevokeOK(q)'
        BY <1>2, <1>3, <1>5, <1>6, <1>7, <2>1, <2>3 DEF RequestOK, RevokeOK
      <3>6. ReuseOK(q)'
        BY <1>3, <2>1, <2>3 DEF RequestOK, ReuseOK
      <3>7. QED
        BY <2>2, <3>2, <3>4, <3>5, <3>6 DEF RequestOK
    <2>4. CASE req[q].sid # s
      <3>1. dirty'[q] <=> dirty[q]
        BY <1>11, <2>4 DEF Watches
      <3>2. req[q].sid \in Sid
               => /\ session'[req[q].sid] = session[req[q].sid]
                  /\ \A v \in User : index'[v][req[q].sid] = index[v][req[q].sid]
        BY <1>6, <1>7, <2>4
      <3>3. WatchOK(q)' /\ RetryOK(q)'
        BY <2>1, <3>1, <3>2 DEF RequestOK, LocalsOK, InRotation, WatchOK, RetryOK,
                    Hopeless
      <3>4. RevokeOK(q)' /\ ReuseOK(q)'
        BY <2>1, <3>2 DEF RequestOK, LocalsOK, RevokeOK, ReuseOK
      <3>5. QED
        BY <2>2, <3>3, <3>4 DEF RequestOK
    <2>5. QED
      BY <2>3, <2>4
  <1>17. QED
    BY <1>13, <1>14, <1>15, <1>16 DEF IInv

\* The MULTI of revoke_session deletes the session and its only row.
LEMMA RevokeExecOK ==
    ASSUME IInv, NEW p \in Proc, RevokeExec(p)
    PROVE  IInv'
  <1> DEFINE s == req[p].sid
             d == req[p].data
  <1>1. /\ TypeOK /\ StoreOK /\ RequestOK(p) /\ req[p] \in Request
        /\ req[p].pc = "rvexec" /\ req[p].now \in Nat
    BY DEF IInv, TypeOK, RevokeExec, At, Request
  <1>2. /\ s \in Sid /\ s \in used /\ d \in Session
        /\ \A v \in User : v # d.user => index[v][s] = 0
    BY <1>1 DEF RequestOK, LocalsOK, RevokeOK, Request
  <1>3. d.jti \in Jti /\ d.user \in User /\ d.expiresAt \in Nat
    BY <1>2 DEF Session
  <1>4. /\ dead' = dead \cup {s}
        /\ UNCHANGED <<clock, indexTtl, token, used, from>>
    BY DEF RevokeExec
  <1>5. /\ session' \in [Sid -> Session \cup {None}]
        /\ session'[s] = None /\ \A t \in Sid \ {s} : session'[t] = session[t]
    BY <1>1, <1>2 DEF RevokeExec, TypeOK
  <1>6. /\ index' \in [User -> [Sid -> Nat]]
        /\ \A v \in User : index'[v][s] = 0
        /\ \A v \in User, t \in Sid \ {s} : index'[v][t] = index[v][t]
    BY <1>1, <1>2, <1>3 DEF RevokeExec, TypeOK
  <1>7. RequestOK(p)' /\ req' \in [Proc -> Request]
    BY <1>1, <1>4, <1>5, AfterRevokeOK DEF RevokeExec
  <1>8. \A q \in Proc \ {p} : req'[q] = req[q]
    BY <1>1 DEF RevokeExec, AfterRevoke, Finish, Goto, TypeOK
  <1>9. /\ dirty' \in [Proc -> BOOLEAN]
        /\ \A q \in Proc : dirty[q] => dirty'[q]
        /\ \A q \in Proc : dirty'[q] => dirty[q] \/ Watches(q, s)
        /\ \A q \in Proc : session[s] # None /\ Watches(q, s) => dirty'[q]
    BY <1>1 DEF RevokeExec, Signal, TypeOK
  <1>10. TypeOK'
    <2>1. clock + Later(d.expiresAt - req[p].now, 1) \in Nat
      BY <1>1, <1>3 DEF Later, TypeOK
    <2>2. blacklist' \in [Jti -> Nat]
      BY <1>1, <1>3, <2>1 DEF RevokeExec, TypeOK
    <2>3. QED
      BY <1>1, <1>2, <1>4, <1>5, <1>6, <1>7, <1>9, <2>2 DEF TypeOK
  <1> HIDE DEF s, d
  <1>11. StoreOK'
    <2>1. IdsOK'
      BY <1>1, <1>4, <1>5 DEF StoreOK, IdsOK
    <2>2. DeadOK'
      BY <1>1, <1>2, <1>4, <1>5 DEF StoreOK, DeadOK, TypeOK
    <2>a. RowsOK'
      <3>1. ASSUME NEW t \in Sid, NEW v \in User, session'[t] # None,
                   v # session'[t].user
            PROVE  index'[v][t] = 0
        <4>1. t # s /\ session[t] # None /\ v # session[t].user
          BY <1>5, <3>1
        <4>2. QED
          BY <1>1, <1>6, <4>1 DEF StoreOK, RowsOK
      <3>2. ASSUME NEW t \in Sid, NEW v \in User, t \notin used'
            PROVE  index'[v][t] = 0
        BY <1>1, <1>2, <1>4, <1>6, <3>2 DEF StoreOK, RowsOK
      <3>3. QED
        BY <3>1, <3>2 DEF RowsOK
    <2>3. RevokedRowStaysGone'
      BY <1>1, <1>4, <1>6 DEF StoreOK, RevokedRowStaysGone, TypeOK
    <2>4. SingleWinner'
      BY <1>1, <1>4 DEF StoreOK, SingleWinner
    <2>5. QED
      BY <2>1, <2>2, <2>a, <2>3, <2>4 DEF StoreOK
  <1>12. ASSUME NEW q \in Proc \ {p} PROVE RequestOK(q)'
    <2>1. RequestOK(q) /\ req'[q] = req[q]
      BY <1>8 DEF IInv
    <2>2. LocalsOK(q)'
      BY <1>4, <2>1 DEF RequestOK, LocalsOK, InRotation
    <2>3. req[q].sid \in Sid
             => /\ session'[req[q].sid] \in {None, session[req[q].sid]}
                /\ \A v \in User : index[v][req[q].sid] = 0
                                      => index'[v][req[q].sid] = 0
      BY <1>5, <1>6
    <2>4. WatchOK(q)'
      BY <1>2, <1>5, <1>9, <2>1 DEF RequestOK, LocalsOK, WatchOK, InRotation, Watches
    <2>5. RetryOK(q)'
      <3>1. InRotation(q) /\ dirty'[q] => Hopeless(q)'
        BY <1>5, <1>9, <2>1, <2>3 DEF RequestOK, LocalsOK, RetryOK, InRotation,
           Hopeless, Watches
      <3>2. InRotation(q) /\ Hopeless(q) => Hopeless(q)'
        BY <2>1, <2>3 DEF RequestOK, LocalsOK, InRotation, Hopeless
      <3>3. QED
        BY <2>1, <3>1, <3>2 DEF RequestOK, RetryOK, InRotation
    <2>6. RevokeOK(q)' /\ ReuseOK(q)'
      BY <2>1, <2>3 DEF RequestOK, LocalsOK, RevokeOK, ReuseOK
    <2>7. QED
      BY <2>2, <2>4, <2>5, <2>6 DEF RequestOK
  <1>13. QED
    BY <1>7, <1>10, <1>11, <1>12 DEF IInv

\* Expiring keys break the watches on them and only remove things.
LEMMA TickOK ==
    ASSUME IInv, Tick PROVE IInv'
  <1> DEFINE gone == {s \in Sid : session[s] # None /\ Expired(session[s].ttl)}
  <1>1. TypeOK /\ StoreOK
    BY DEF IInv
  <1>2. UNCHANGED <<token, used, dead, from, req>> /\ clock' = clock + 1
    BY DEF Tick
  <1>3. /\ session' \in [Sid -> Session \cup {None}]
        /\ \A s \in gone : session'[s] = None
        /\ \A s \in Sid \ gone : session'[s] = session[s]
    BY <1>1 DEF Tick, TypeOK
  <1>4. /\ index' \in [User -> [Sid -> Nat]]
        /\ \A u \in User, s \in Sid : index[u][s] = 0 => index'[u][s] = 0
    BY <1>1 DEF Tick, TypeOK
  <1>5. /\ dirty' \in [Proc -> BOOLEAN]
        /\ \A q \in Proc : dirty'[q] <=> dirty[q] \/ \E s \in gone : Watches(q, s)
    BY <1>1 DEF Tick, Signal, TypeOK
  <1>6. TypeOK'
    <2>1. indexTtl' \in [User -> Nat] /\ blacklist' \in [Jti -> Nat]
      BY <1>1 DEF Tick, TypeOK
    <2>2. QED
      BY <1>1, <1>2, <1>3, <1>4, <1>5, <2>1 DEF TypeOK
  <1> HIDE DEF gone
  <1>7. StoreOK'
    <2>1. IdsOK'
      BY <1>1, <1>2, <1>3 DEF StoreOK, IdsOK
    <2>2. DeadOK' /\ RowsOK'
      BY <1>1, <1>2, <1>3, <1>4 DEF StoreOK, DeadOK, RowsOK, TypeOK
    <2>3. RevokedRowStaysGone' /\ SingleWinner'
      BY <1>1, <1>2, <1>4 DEF StoreOK, RevokedRowStaysGone, SingleWinner, TypeOK
    <2>4. QED
      BY <2>1, <2>2, <2>3 DEF StoreOK
  <1>8. ASSUME NEW q \in Proc PROVE RequestOK(q)'
    <2>1. RequestOK(q) /\ req'[q] = req[q]
      BY <1>2 DEF IInv
    <2>2. LocalsOK(q)'
      BY <1>2, <2>1 DEF RequestOK, LocalsOK, InRotation
    <2>3. req[q].sid \in Sid
             => /\ session'[req[q].sid] \in {None, session[req[q].sid]}
                /\ \A v \in User : index[v][req[q].sid] = 0
                                      => index'[v][req[q].sid] = 0
      BY <1>3, <1>4
    <2>4. WatchOK(q)'
      BY <1>3, <1>5, <2>1 DEF RequestOK, LocalsOK, WatchOK, InRotation, Watches
    <2>5. RetryOK(q)'
      <3>1. InRotation(q) /\ dirty'[q] => Hopeless(q)'
        BY <1>3, <1>5, <2>1, <2>3 DEF RequestOK, LocalsOK, RetryOK, InRotation,
           Hopeless, Watches
      <3>2. InRotation(q) /\ Hopeless(q) => Hopeless(q)'
        BY <2>1, <2>3 DEF RequestOK, LocalsOK, InRotation, Hopeless
      <3>3. QED
        BY <2>1, <3>1, <3>2 DEF RequestOK, RetryOK, InRotation
    <2>6. RevokeOK(q)' /\ ReuseOK(q)'
      BY <2>1, <2>3 DEF RequestOK, LocalsOK, RevokeOK, ReuseOK
    <2>7. QED
      BY <2>2, <2>4, <2>5, <2>6 DEF RequestOK
  <1>9. QED
    BY <1>6, <1>7, <1>8 DEF IInv

-----------------------------------------------------------------------------
(***************************************************************************)
(* The invariant holds initially, every step keeps it, and so it always    *)
(* holds.                                                                  *)
(***************************************************************************)

\* The empty store and idle connections satisfy the invariant.
LEMMA InitOK == Init => IInv
  <1> SUFFICES ASSUME Init PROVE IInv
    OBVIOUS
  <1>1. \A p \in Proc : req[p] = Blank
    BY DEF Init
  <1>2. TypeOK
    BY BlankType DEF Init, TypeOK
  <1>3. StoreOK
    BY NoneAssumption DEF Init, StoreOK, IdsOK, DeadOK, RowsOK,
       RevokedRowStaysGone, SingleWinner
  <1>4. ASSUME NEW p \in Proc PROVE RequestOK(p)
    <2>1. /\ req[p].pc = "idle" /\ req[p].tries = 0 /\ req[p].todo = {}
          /\ req[p].result = "none" /\ req[p].new = None
      BY <1>1 DEF Blank
    <2>2. QED
      BY <2>1 DEF RequestOK, LocalsOK, WatchOK, RetryOK, RevokeOK, ReuseOK,
         InRotation
  <1>5. QED
    BY <1>2, <1>3, <1>4 DEF IInv

\* A step of any request keeps the invariant.
LEMMA StepOK ==
    ASSUME IInv, NEW p \in Proc, Step(p)
    PROVE  IInv'
  <1>1. CASE \E u \in User : CreateStart(p, u)
    BY <1>1, CreateStartOK
  <1>2. CASE \E s \in Sid, n \in Jti : CreateExec(p, s, n)
    BY <1>2, CreateExecOK
  <1>3. CASE \E j \in Jti : RefreshStart(p, j)
    BY <1>3, RefreshStartOK
  <1>4. CASE RefreshRead(p)
    BY <1>4, RefreshReadOK
  <1>5. CASE RefreshInvalid(p)
    BY <1>5, RefreshInvalidOK
  <1>6. CASE RefreshGrace(p)
    BY <1>6, RefreshGraceOK
  <1>7. CASE RefreshReuse(p)
    BY <1>7, RefreshReuseOK
  <1>8. CASE RefreshPrepare(p)
    BY <1>8, RefreshPrepareOK
  <1>9. CASE \E n \in Jti : RefreshExec(p, n)
    BY <1>9, RefreshExecOK
  <1>10. CASE RefreshConflict(p)
    BY <1>10, RefreshConflictOK
  <1>11. CASE IssueToken(p)
    BY <1>11, IssueTokenOK
  <1>12. CASE RefreshUserGone(p)
    BY <1>12, RefreshUserGoneOK
  <1>13. CASE \E u \in User, s \in Sid : RevokeStart(p, u, s)
    BY <1>13, RevokeStartOK
  <1>14. CASE RevokeMissing(p)
    BY <1>14, RevokeMissingOK
  <1>15. CASE RevokeRead(p)
    BY <1>15, RevokeReadOK
  <1>16. CASE RevokeExec(p)
    BY <1>16, RevokeExecOK
  <1>17. CASE \E u \in User, op \in {"list", "revokeAll"} : ListStart(p, u, op)
    BY <1>17, ListStartOK
  <1>18. CASE ListRows(p)
    BY <1>18, ListRowsOK
  <1>19. CASE ListPrune(p)
    BY <1>19, ListPruneOK
  <1>20. CASE \E s \in Sid : RevokeAllNext(p, s)
    BY <1>20, RevokeAllNextOK
  <1>21. CASE RevokeAllDone(p)
    BY <1>21, RevokeAllDoneOK
  <1>22. CASE \E s \in Sid, w \in BOOLEAN : TouchRead(p, s, w)
    BY <1>22, TouchReadOK
  <1>23. CASE TouchWrite(p)
    BY <1>23, TouchWriteOK
  <1>24. CASE Fail(p)
    BY <1>24, FailOK
  <1>25. QED
    BY <1>1, <1>2, <1>3, <1>4, <1>5, <1>6, <1>7, <1>8, <1>9, <1>10, <1>11,
       <1>12, <1>13, <1>14, <1>15, <1>16, <1>17, <1>18, <1>19, <1>20, <1>21,
       <1>22, <1>23, <1>24 DEF Step

\* A step that changes nothing keeps the invariant.
LEMMA StutterOK ==
    ASSUME IInv, UNCHANGED vars PROVE IInv'
  BY DEF IInv, vars, store, TypeOK, StoreOK, IdsOK, DeadOK, RowsOK,
     RevokedRowStaysGone, SingleWinner, RequestOK, LocalsOK, WatchOK, RetryOK,
     RevokeOK, ReuseOK, InRotation, Hopeless

\* The invariant is inductive: the session code keeps it through any
\* interleaving of requests, expiries and failures.
THEOREM Invariant == Spec => []IInv
  <1>1. Init => IInv
    BY InitOK
  <1>2. IInv /\ [Next]_vars => IInv'
    BY StepOK, TickOK, StutterOK DEF Next
  <1>3. QED
    BY <1>1, <1>2, PTL DEF Spec

\* Every variable keeps its shape; in particular no HSET re-creates a deleted
\* session hash without its owner.
THEOREM TypeCorrect == Spec => []TypeOK
  <1>1. IInv => TypeOK
    BY DEF IInv
  <1>2. QED
    BY <1>1, Invariant, PTL

\* rotate_refresh gives at most one successor to any refresh token, for any
\* number of concurrent requests.
THEOREM OneWinner == Spec => []SingleWinner
  <1>1. IInv => SingleWinner
    BY DEF IInv, StoreOK
  <1>2. QED
    BY <1>1, Invariant, PTL

\* A session that revoke_session deleted is never written again.
THEOREM RevocationIsFinal ==
    Spec => [](RevokedSessionStaysDead /\ RevokedRowStaysGone)
  <1>1. IInv => RevokedSessionStaysDead /\ RevokedRowStaysGone
    BY DEF IInv, StoreOK, DeadOK, RevokedSessionStaysDead
  <1>2. QED
    BY <1>1, Invariant, PTL

\* The "refresh_token_reuse" answer is only given once the session is gone.
THEOREM ReuseEndsSession == Spec => []ReuseKillsSession
  <1>1. IInv => ReuseKillsSession
    BY DEF IInv, RequestOK, ReuseOK, ReuseKillsSession
  <1>2. QED
    BY <1>1, Invariant, PTL

\* The retry loop of rotate_refresh never runs out of attempts.
THEOREM RetriesSuffice == Spec => []RetrySettles
  <1>1. IInv => RetrySettles
    BY DEF IInv, RequestOK, RetryOK, RetrySettles
  <1>2. QED
    BY <1>1, Invariant, PTL

-----------------------------------------------------------------------------
(***************************************************************************)
(* The Redis protocol implements SessionLifecycle.  Only CreateExec,       *)
(* RefreshExec, RevokeExec and Tick change what the life cycle sees.       *)
(***************************************************************************)

Holder == [s \in Sid |-> IF session[s] = None THEN None ELSE session[s].jti]

Spent == {from[n] : n \in {m \in Jti : from[m] # None}}

\* Writing a new session is opening it.
LEMMA CreateExecRefines ==
    ASSUME IInv, NEW p \in Proc, NEW s \in Sid, NEW n \in Jti, CreateExec(p, s, n)
    PROVE  Lifecycle!Open(s, n)
  <1>1. TypeOK /\ StoreOK /\ RequestOK(p) /\ req[p] \in Request /\ At(p, "create")
    BY DEF IInv, TypeOK, CreateExec
  <1>2. /\ s \notin used /\ n \notin used /\ used' = used \cup {s, n}
        /\ from' = from
    BY DEF CreateExec
  <1>3. req[p].user \in User /\ req[p].now \in Nat
    BY <1>1 DEF RequestOK, LocalsOK, At, Request
  <1> DEFINE new == [user |-> req[p].user, jti |-> n, prev |-> None,
                     rotatedAt |-> 0, expiresAt |-> req[p].now + Life,
                     ttl |-> clock + Life]
  <1>4. /\ new \in Session /\ new.jti = n
        /\ session' = [session EXCEPT ![s] = new]
    <2>1. new \in Session
      BY <1>1, <1>3, TimeAssumption DEF Session, TypeOK
    <2>2. session' = [session EXCEPT ![s] = new]
      BY DEF CreateExec
    <2>3. QED
      BY <2>1, <2>2
  <1> HIDE DEF new
  <1>5. Holder' = [Holder EXCEPT ![s] = n]
    BY <1>1, <1>4, NoSessionIsNone DEF Holder, TypeOK
  <1>6. QED
    BY <1>2, <1>5 DEF Lifecycle!Open, Holder

\* A successful EXEC exchanges the current, unspent token of the session.
LEMMA RefreshExecRefines ==
    ASSUME IInv, NEW p \in Proc, NEW n \in Jti, RefreshExec(p, n)
    PROVE  Lifecycle!Exchange(req[p].sid, n) /\ req[p].sid \in Sid
  <1> DEFINE s == req[p].sid
             j == req[p].jti
             new == HSet(session[s], n, j, req[p].now)
  <1>1. /\ TypeOK /\ StoreOK /\ RequestOK(p) /\ req[p] \in Request
        /\ req[p].pc = "exec" /\ ~dirty[p] /\ req[p].now \in Nat
    BY DEF IInv, TypeOK, RefreshExec, At, WatchError, Request
  <1>2. s \in Sid /\ j \in Jti
    BY <1>1 DEF RequestOK, LocalsOK, InRotation
  <1>3. session[s] \in Session /\ session[s] # None /\ session[s].jti = j
    BY <1>1, <1>2 DEF RequestOK, WatchOK, TypeOK
  <1>4. /\ n \notin used /\ used' = used \cup {n}
        /\ session' = [session EXCEPT ![s] = new]
        /\ from' = [from EXCEPT ![n] = j]
    BY DEF RefreshExec
  <1>5. new \in Session /\ new.jti = n
    BY <1>1, <1>2, <1>3, TimeAssumption DEF HSet, Session, TypeOK
  <1> HIDE DEF s, j, new
  <1>6. Holder' = [Holder EXCEPT ![s] = n]
    BY <1>1, <1>2, <1>4, <1>5, NoSessionIsNone DEF Holder, TypeOK
  <1>7. Holder[s] = j /\ Holder[s] # None
    BY <1>2, <1>3, NoneAssumption DEF Holder
  <1>8. j \notin Spent
    BY <1>1, <1>2, <1>3 DEF Spent, StoreOK, IdsOK
  <1>9. Spent' = Spent \cup {j}
    <2>1. from[n] = None
      BY <1>1, <1>4 DEF StoreOK, IdsOK
    <2>2. /\ from'[n] = j /\ j # None
          /\ \A m \in Jti \ {n} : from'[m] = from[m]
      BY <1>1, <1>2, <1>4, NoneAssumption DEF TypeOK
    <2>3. QED
      BY <2>1, <2>2 DEF Spent
  <1>10. Lifecycle!Exchange(s, n)
    BY <1>4, <1>6, <1>7, <1>8, <1>9 DEF Lifecycle!Exchange, Holder, Spent
  <1>11. QED
    BY <1>2, <1>10 DEF s

\* Deleting a set of sessions closes them.
LEMMA CloseRefines ==
    ASSUME TypeOK, NEW S \in SUBSET Sid, \A s \in S : session[s] # None,
           session' = [s \in Sid |-> IF s \in S THEN None ELSE session[s]],
           UNCHANGED <<used, from>>
    PROVE  Lifecycle!Close(S)
  <1>1. \A s \in Sid : session[s] # None => session[s].jti \in Jti
    BY DEF TypeOK, Session
  <1>2. \A s \in S : Holder[s] # None
    BY <1>1, NoneAssumption DEF Holder
  <1>3. Holder' = [s \in Sid |-> IF s \in S THEN None ELSE Holder[s]]
    BY DEF Holder
  <1>4. QED
    BY <1>2, <1>3 DEF Lifecycle!Close, Holder

\* Every step of the protocol is a step of the life cycle or changes nothing
\* it sees.
LEMMA StepRefines ==
    ASSUME IInv, [Next]_vars PROVE [Lifecycle!Next]_(Lifecycle!vars)
  <1>1. TypeOK
    BY DEF IInv
  <1>2. ASSUME NEW p \in Proc, NEW s \in Sid, NEW n \in Jti, CreateExec(p, s, n)
        PROVE  Lifecycle!Next
    BY <1>2, CreateExecRefines DEF Lifecycle!Next
  <1>3. ASSUME NEW p \in Proc, NEW n \in Jti, RefreshExec(p, n)
        PROVE  Lifecycle!Next
    BY <1>3, RefreshExecRefines DEF Lifecycle!Next
  <1>4. ASSUME NEW p \in Proc, RevokeExec(p)
        PROVE  Lifecycle!Next
    <2> DEFINE S == {s \in {req[p].sid} \cap Sid : session[s] # None}
    <2>1. session' = [s \in Sid |-> IF s \in S THEN None ELSE session[s]]
      BY <1>1, <1>4 DEF RevokeExec, TypeOK
    <2>2. UNCHANGED <<used, from>>
      BY <1>4 DEF RevokeExec
    <2>a. PICK T \in SUBSET Sid : T = S
      OBVIOUS
    <2>b. \A s \in T : session[s] # None
      BY <2>a
    <2>c. session' = [s \in Sid |-> IF s \in T THEN None ELSE session[s]]
      BY <2>1, <2>a
    <2>3. Lifecycle!Close(T)
      BY <1>1, <2>2, <2>b, <2>c, CloseRefines
    <2>4. QED
      BY <2>3 DEF Lifecycle!Next
  <1>5. ASSUME Tick PROVE Lifecycle!Next
    <2> DEFINE S == {s \in Sid : session[s] # None /\ Expired(session[s].ttl)}
    <2>1. session' = [s \in Sid |-> IF s \in S THEN None ELSE session[s]]
      BY <1>5 DEF Tick
    <2>2. UNCHANGED <<used, from>>
      BY <1>5 DEF Tick
    <2>a. PICK T \in SUBSET Sid : T = S
      OBVIOUS
    <2>b. \A s \in T : session[s] # None
      BY <2>a
    <2>c. session' = [s \in Sid |-> IF s \in T THEN None ELSE session[s]]
      BY <2>1, <2>a
    <2>3. Lifecycle!Close(T)
      BY <1>1, <2>2, <2>b, <2>c, CloseRefines
    <2>4. QED
      BY <2>3 DEF Lifecycle!Next
  <1>6. ASSUME UNCHANGED <<session, used, from>>
        PROVE  UNCHANGED Lifecycle!vars
    BY <1>6 DEF Lifecycle!vars
  <1>7. ASSUME NEW p \in Proc, Step(p),
               ~\E s \in Sid, n \in Jti : CreateExec(p, s, n),
               ~\E n \in Jti : RefreshExec(p, n), ~RevokeExec(p)
        PROVE  UNCHANGED <<session, used, from>>
    BY <1>7 DEF Step, store, CreateStart, RefreshStart, RefreshRead,
       RefreshInvalid, RefreshGrace, RefreshReuse, RefreshPrepare,
       RefreshConflict, IssueToken, RefreshUserGone, RevokeStart, RevokeMissing,
       RevokeRead, ListStart, ListRows, ListPrune, RevokeAllNext, RevokeAllDone,
       TouchRead, TouchWrite, Fail
  <1>8. CASE UNCHANGED vars
    BY <1>6, <1>8 DEF vars, store
  <1>9. CASE Tick
    BY <1>5, <1>9
  <1>10. CASE \E p \in Proc : Step(p)
    BY <1>2, <1>3, <1>4, <1>6, <1>7, <1>10
  <1>11. QED
    BY <1>8, <1>9, <1>10 DEF Next

\* The session code implements the session life cycle: sessions open once,
\* hold one exchangeable token at a time, and never reopen.
THEOREM Refinement == Spec => ImplementsLifecycle
  <1>1. Init => Lifecycle!Init
    BY DEF Init, Lifecycle!Init
  <1>2. IInv /\ [Next]_vars => [Lifecycle!Next]_(Lifecycle!vars)
    BY StepRefines
  <1>3. QED
    BY <1>1, <1>2, Invariant, PTL DEF Spec, ImplementsLifecycle, Lifecycle!Spec

-----------------------------------------------------------------------------
(***************************************************************************)
(* "Log out everywhere".  On top of the invariant above: the score of a    *)
(* session's row and the lifetime of its user's index outlast the session, *)
(* and what revoke_all_sessions has still to close is on its list.         *)
(***************************************************************************)

\* A session within its lifetime has a row, young enough for ZREMRANGEBYSCORE to leave it,
\* in an index that does not expire before it.
RowOK(s) ==
    session[s] # None =>
        /\ session[s].expiresAt <= clock + Life
        /\ clock < session[s].expiresAt =>
              /\ index[session[s].user][s] # 0
              /\ session[s].expiresAt <= index[session[s].user][s] + Life
              /\ session[s].expiresAt <= indexTtl[session[s].user]

\* Rows are pruned only for sessions that are gone for good.
PruneOK(p) ==
    /\ req[p].now <= clock
    /\ req[p].pc \in {"create", "exec"} => req[p].now # 0
    /\ \A s \in req[p].stale : s \in used /\ session[s] = None

\* A session revoke_all_sessions set out to close is closed, or on its list, or the one in
\* its hands.
GoalOK(p) ==
    \A s \in req[p].goal :
        /\ s \in used
        /\ session[s] # None =>
              /\ req[p].op = "revokeAll"
              /\ req[p].pc \in {"rows", "zrem", "next", "rvread", "rvexec"}
              /\ session[s].user = req[p].user
              /\ s \in req[p].todo \/ (s = req[p].sid /\ req[p].pc \in {"rvread", "rvexec"})

LogoutInv ==
    /\ IInv
    /\ \A s \in Sid : RowOK(s)
    /\ \A p \in Proc : PruneOK(p) /\ GoalOK(p)

-----------------------------------------------------------------------------
(* What the steps have in common. *)

\* A session that is gone stays gone, one that stays keeps its user, ids stay used and
\* time does not run backwards.
Lasting ==
    /\ used \subseteq used' /\ clock <= clock'
    /\ \A s \in Sid : s \in used /\ session[s] = None => session'[s] = None
    /\ \A s \in Sid : session[s] # None /\ session'[s] # None =>
          session'[s].user = session[s].user

\* A request that is not scheduled keeps what it knows.
LEMMA OthersKeep ==
    ASSUME LogoutInv, Lasting, clock' \in Nat, NEW q \in Proc, req'[q] = req[q]
    PROVE  PruneOK(q)' /\ GoalOK(q)'
  <1>1. PruneOK(q) /\ GoalOK(q) /\ req[q] \in Request /\ clock \in Nat
    BY DEF LogoutInv, IInv, TypeOK
  <1>2. /\ req[q].stale \in SUBSET Sid /\ req[q].goal \in SUBSET Sid /\ req[q].now \in Nat
    BY <1>1 DEF Request
  <1>3. PruneOK(q)'
    BY <1>1, <1>2 DEF PruneOK, Lasting
  <1>4. GoalOK(q)'
    <2> SUFFICES ASSUME NEW s \in req[q].goal
                 PROVE  /\ s \in used'
                        /\ session'[s] # None =>
                              /\ req[q].op = "revokeAll"
                              /\ req[q].pc \in {"rows", "zrem", "next", "rvread", "rvexec"}
                              /\ session'[s].user = req[q].user
                              /\ s \in req[q].todo \/ (s = req[q].sid /\ req[q].pc \in {"rvread", "rvexec"})
      BY DEF GoalOK
    <2>1. s \in Sid /\ s \in used
      BY <1>1, <1>2 DEF GoalOK
    <2>2. QED
      BY <1>1, <2>1 DEF GoalOK, Lasting
  <1>5. QED
    BY <1>3, <1>4

\* The fields of an answer.
LEMMA AnswerFields ==
    ASSUME NEW p, NEW r
    PROVE  /\ Answer(p, r).now = 0 /\ Answer(p, r).stale = {} /\ Answer(p, r).pc = "idle"
           /\ Answer(p, r).goal = IF r = "allRevoked" THEN req[p].goal ELSE {}
  BY DEF Answer, Blank

LEMMA FinishKeeps ==
    ASSUME LogoutInv, NEW p \in Proc, NEW r \in Result, r # "allRevoked", Finish(p, r),
           clock' \in Nat
    PROVE  PruneOK(p)' /\ GoalOK(p)'
  <1>1. req'[p] = Answer(p, r)
    BY DEF LogoutInv, IInv, TypeOK, Finish
  <1>2. QED
    BY <1>1, AnswerFields DEF PruneOK, GoalOK

\* A request that has just begun, or goes on without touching its list.
LEMMA FieldsKeep ==
    ASSUME LogoutInv, Lasting, clock' \in Nat, NEW p \in Proc,
           req'[p].now \in {0, clock, req[p].now},
           req'[p].pc \in {"create", "exec"} => req'[p].now \in {clock, req[p].now},
           req'[p].pc \in {"create", "exec"} /\ req'[p].now # clock => req[p].now # 0,
           req'[p].stale \in {{}, req[p].stale},
           \/ req'[p].goal = {}
           \/ /\ req'[p].goal = req[p].goal /\ req[p].pc # "rvexec"
              /\ req[p].pc \in {"rows", "zrem", "next", "rvread"} =>
                    /\ req'[p].op = req[p].op /\ req'[p].user = req[p].user
                    /\ req'[p].todo = req[p].todo /\ req'[p].sid = req[p].sid
                    /\ req'[p].pc \in {"rows", "zrem", "next", "rvread", "rvexec"}
                    /\ req[p].pc = "rvread" => req'[p].pc = "rvexec"
    PROVE  PruneOK(p)' /\ GoalOK(p)'
  <1>1. PruneOK(p) /\ GoalOK(p) /\ req[p] \in Request /\ clock \in Nat \ {0}
    BY DEF LogoutInv, IInv, TypeOK
  <1>2. /\ req[p].stale \in SUBSET Sid /\ req[p].goal \in SUBSET Sid /\ req[p].now \in Nat
    BY <1>1 DEF Request
  <1>3. PruneOK(p)'
    <2>1. req'[p].now <= clock'
      BY <1>1, <1>2 DEF PruneOK, Lasting
    <2>2. req'[p].pc \in {"create", "exec"} => req'[p].now # 0
      BY <1>1, <1>2
    <2>3. \A s \in req'[p].stale : s \in used' /\ session'[s] = None
      BY <1>1, <1>2 DEF PruneOK, Lasting
    <2>4. QED
      BY <2>1, <2>2, <2>3 DEF PruneOK
  <1>4. GoalOK(p)'
    <2>1. CASE req'[p].goal = {}
      BY <2>1 DEF GoalOK
    <2>2. CASE req'[p].goal = req[p].goal /\ req'[p].goal # {}
      <3> SUFFICES ASSUME NEW s \in req[p].goal
                   PROVE  /\ s \in used'
                          /\ session'[s] # None =>
                              /\ req'[p].op = "revokeAll"
                              /\ req'[p].pc \in {"rows", "zrem", "next", "rvread", "rvexec"}
                              /\ session'[s].user = req'[p].user
                              /\ s \in req'[p].todo
                                 \/ (s = req'[p].sid /\ req'[p].pc \in {"rvread", "rvexec"})
        BY <2>2 DEF GoalOK
      <3>1. s \in Sid /\ s \in used
        BY <1>1, <1>2 DEF GoalOK
      <3>2. QED
        BY <1>1, <2>2, <3>1 DEF GoalOK, Lasting
    <2>3. QED
      BY <2>1, <2>2
  <1>5. QED
    BY <1>3, <1>4

\* Steps that leave the store, the ids and the clock alone.
LEMMA LocalLogout ==
    ASSUME LogoutInv, IInv', NEW p \in Proc, UNCHANGED <<clock, session, index, indexTtl, used>>,
           \A q \in Proc \ {p} : req'[q] = req[q],
           PruneOK(p)' /\ GoalOK(p)'
    PROVE  LogoutInv'
  <1>1. Lasting /\ clock' \in Nat
    BY DEF Lasting, LogoutInv, IInv, TypeOK
  <1>2. \A s \in Sid : RowOK(s)'
    BY DEF LogoutInv, RowOK
  <1>3. QED
    BY <1>1, <1>2, OthersKeep DEF LogoutInv

-----------------------------------------------------------------------------
(* The steps that change only the request. *)

LEMMA LocalActions ==
    ASSUME LogoutInv, IInv', NEW p \in Proc,
           \/ \E u \in User : CreateStart(p, u)
           \/ \E j \in Jti : RefreshStart(p, j)
           \/ RefreshRead(p) \/ RefreshInvalid(p) \/ RefreshGrace(p) \/ RefreshReuse(p)
           \/ RefreshPrepare(p) \/ RefreshConflict(p) \/ IssueToken(p) \/ RefreshUserGone(p)
           \/ \E u \in User, s \in Sid : RevokeStart(p, u, s)
           \/ RevokeRead(p)
           \/ \E s \in Sid, w \in BOOLEAN : TouchRead(p, s, w)
           \/ Fail(p)
    PROVE  LogoutInv'
  <1>0. /\ req \in [Proc -> Request] /\ req[p] \in Request /\ clock \in Nat /\ clock' \in Nat
        /\ PruneOK(p) /\ LocalsOK(p)
    BY DEF LogoutInv, IInv, TypeOK, RequestOK
  <1>1. UNCHANGED <<clock, session, index, indexTtl, used>>
    BY DEF CreateStart, RefreshStart, RefreshRead, RefreshInvalid, RefreshGrace, RefreshReuse,
           RefreshPrepare, RefreshConflict, IssueToken, RefreshUserGone, RevokeStart, RevokeRead,
           TouchRead, Fail, store
  <1>2. \A q \in Proc \ {p} : req'[q] = req[q]
    BY <1>0 DEF CreateStart, RefreshStart, RefreshRead, RefreshInvalid, RefreshGrace,
           RefreshReuse, RefreshPrepare, RefreshConflict, IssueToken, RefreshUserGone,
           RevokeStart, RevokeRead, TouchRead, Fail, Finish, Goto
  <1>3. Lasting
    BY <1>0, <1>1 DEF Lasting
  <1>4. SUFFICES PruneOK(p)' /\ GoalOK(p)'
    BY <1>1, <1>2, LocalLogout
  \* A new request starts without a goal.
  <1>5. ASSUME req'[p].goal = {}, req'[p].stale = {}, req'[p].now \in {0, clock},
               req'[p].pc \in {"create", "exec"} => req'[p].now = clock
        PROVE  PruneOK(p)' /\ GoalOK(p)'
    BY <1>0, <1>3, <1>5, FieldsKeep
  <1>6. ASSUME NEW u \in User, CreateStart(p, u) PROVE PruneOK(p)' /\ GoalOK(p)'
    <2>1. req'[p] = [Blank EXCEPT !.pc = "create", !.op = "login", !.user = u, !.now = clock]
      BY <1>0, <1>6 DEF CreateStart
    <2>2. QED
      BY <1>5, <2>1 DEF Blank
  <1>7. ASSUME NEW j \in Jti, RefreshStart(p, j) PROVE PruneOK(p)' /\ GoalOK(p)'
    <2>1. req'[p] = [Blank EXCEPT !.pc = "hgetall", !.op = "refresh", !.user = token[j].user,
                                  !.sid = token[j].sid, !.jti = j, !.tries = 1]
      BY <1>0, <1>7 DEF RefreshStart
    <2>2. QED
      BY <1>5, <2>1 DEF Blank
  <1>8. ASSUME NEW u \in User, NEW s \in Sid, RevokeStart(p, u, s)
        PROVE  PruneOK(p)' /\ GoalOK(p)'
    <2>1. req'[p] = [Blank EXCEPT !.pc = "rvread", !.op = "revoke", !.user = u, !.sid = s]
      BY <1>0, <1>8 DEF RevokeStart
    <2>2. QED
      BY <1>5, <2>1 DEF Blank
  <1>9. ASSUME NEW s \in Sid, NEW w \in BOOLEAN, TouchRead(p, s, w)
        PROVE  PruneOK(p)' /\ GoalOK(p)'
    <2>1. \/ req'[p] = Answer(p, "rejected") \/ req'[p] = Answer(p, "ok")
          \/ req'[p] = [Blank EXCEPT !.pc = "zadd", !.op = "touch", !.sid = s,
                                     !.user = session[s].user]
      BY <1>0, <1>9 DEF TouchRead
    <2>2. CASE req'[p] = Answer(p, "rejected") \/ req'[p] = Answer(p, "ok")
      BY <1>5, <2>2, AnswerFields
    <2>3. CASE req'[p] = [Blank EXCEPT !.pc = "zadd", !.op = "touch", !.sid = s,
                                       !.user = session[s].user]
      BY <1>5, <2>3 DEF Blank
    <2>4. QED
      BY <2>1, <2>2, <2>3
  \* The rotation has no goal left to look after.
  <1>10. ASSUME req[p].pc \in {"hgetall", "exists", "exec", "issue"},
                req'[p].goal = req[p].goal, req'[p].stale = req[p].stale,
                req'[p].pc # "create", req'[p].now \in {clock, req[p].now},
                req'[p].pc = "exec" => req'[p].now = clock
         PROVE  PruneOK(p)' /\ GoalOK(p)'
    BY <1>0, <1>3, <1>10, FieldsKeep
  <1>11. CASE RefreshRead(p)
    <2>1. req'[p] = [req[p] EXCEPT !.pc = "exists", !.data = session[req[p].sid]]
      BY <1>0, <1>11 DEF RefreshRead
    <2>2. QED
      BY <1>0, <1>10, <1>11, <2>1 DEF RefreshRead, At, Request
  <1>12. CASE RefreshGrace(p)
    <2>1. req'[p] = [req[p] EXCEPT !.pc = "issue"]
      BY <1>0, <1>12 DEF RefreshGrace, Goto
    <2>2. QED
      BY <1>0, <1>10, <1>12, <2>1 DEF RefreshGrace, At, Request
  <1>13. CASE RefreshReuse(p)
    <2>1. req'[p] = [req[p] EXCEPT !.pc = "rvread", !.op = "reuse"]
      BY <1>0, <1>13 DEF RefreshReuse
    <2>2. QED
      BY <1>0, <1>10, <1>13, <2>1 DEF RefreshReuse, At, Request
  <1>14. CASE RefreshPrepare(p)
    <2>1. req'[p] = [req[p] EXCEPT !.pc = "exec", !.now = clock]
      BY <1>0, <1>14 DEF RefreshPrepare
    <2>2. QED
      BY <1>0, <1>10, <1>14, <2>1 DEF RefreshPrepare, At, Request
  <1>15. CASE RefreshUserGone(p)
    <2>1. req'[p] = [req[p] EXCEPT !.pc = "rvread", !.op = "userGone"]
      BY <1>0, <1>15 DEF RefreshUserGone
    <2>2. QED
      BY <1>0, <1>10, <1>15, <2>1 DEF RefreshUserGone, At, Request
  <1>16. CASE RefreshConflict(p)
    <2>1. CASE Finish(p, "concurrentRotation")
      BY <1>0, <2>1, FinishKeeps DEF Result
    <2>2. CASE req' = [req EXCEPT ![p].pc = "hgetall", ![p].data = None, ![p].tries = @ + 1]
      <3>1. req'[p] = [req[p] EXCEPT !.pc = "hgetall", !.data = None, !.tries = @ + 1]
        BY <1>0, <2>2
      <3>2. QED
        BY <1>0, <1>10, <1>16, <3>1 DEF RefreshConflict, At, Request
    <2>3. QED
      BY <1>16, <2>1, <2>2 DEF RefreshConflict
  <1>17. CASE RefreshInvalid(p)
    BY <1>0, <1>17, FinishKeeps DEF RefreshInvalid, Result
  <1>18. CASE IssueToken(p)
    BY <1>0, <1>18, FinishKeeps DEF IssueToken, Result
  <1>19. CASE Fail(p)
    BY <1>0, <1>19, FinishKeeps DEF Fail, Result
  <1>20. CASE RevokeRead(p)
    <2>1. /\ req'[p] = [req[p] EXCEPT !.pc = "rvexec", !.now = clock,
                                      !.data = session[req[p].sid]]
          /\ req[p].pc = "rvread"
      BY <1>0, <1>20 DEF RevokeRead, At
    <2>2. /\ req'[p].pc = "rvexec" /\ req'[p].now = clock /\ req'[p].stale = req[p].stale
          /\ req'[p].goal = req[p].goal /\ req'[p].op = req[p].op /\ req'[p].user = req[p].user
          /\ req'[p].todo = req[p].todo /\ req'[p].sid = req[p].sid
      BY <1>0, <2>1 DEF Request
    <2>3. QED
      BY <1>0, <1>3, <2>1, <2>2, FieldsKeep
  <1>21. QED
    BY <1>6, <1>7, <1>8, <1>9, <1>11, <1>12, <1>13, <1>14, <1>15, <1>16, <1>17, <1>18, <1>19,
       <1>20

\* revoke_all_sessions: listing, going through the list, ending.
LEMMA ListActions ==
    ASSUME LogoutInv, IInv', NEW p \in Proc,
           \/ \E u \in User, op \in {"list", "revokeAll"} : ListStart(p, u, op)
           \/ ListRows(p) \/ RevokeMissing(p)
           \/ \E s \in Sid : RevokeAllNext(p, s)
           \/ RevokeAllDone(p)
    PROVE  LogoutInv'
  <1>0. /\ req \in [Proc -> Request] /\ req[p] \in Request /\ clock \in Nat /\ clock' \in Nat
        /\ PruneOK(p) /\ GoalOK(p) /\ LocalsOK(p) /\ StoreOK
        /\ req[p].todo \in SUBSET Sid /\ req[p].goal \in SUBSET Sid
    BY DEF LogoutInv, IInv, TypeOK, RequestOK, Request
  <1>1. UNCHANGED <<clock, session, index, indexTtl, used>>
    BY DEF ListStart, ListRows, RevokeMissing, RevokeAllNext, RevokeAllDone, store
  <1>2. \A q \in Proc \ {p} : req'[q] = req[q]
    BY <1>0 DEF ListStart, ListRows, RevokeMissing, RevokeAllNext, RevokeAllDone, AfterRevoke,
                Finish, Goto
  <1>3. SUFFICES PruneOK(p)' /\ GoalOK(p)'
    BY <1>1, <1>2, LocalLogout
  <1>4. ASSUME NEW u \in User, NEW op \in {"list", "revokeAll"}, ListStart(p, u, op)
        PROVE  PruneOK(p)' /\ GoalOK(p)'
    <2>1. PICK S \in SUBSET Sid, T \in SUBSET Sid :
              /\ S = {s \in Sid : index[u][s] # 0}
              /\ T = IF op = "revokeAll" THEN LiveSids(u) ELSE {}
              /\ req' = [req EXCEPT ![p] = [Blank EXCEPT
                    !.pc = "rows", !.op = op, !.user = u, !.todo = S, !.goal = T]]
      BY <1>4 DEF ListStart, LiveSids
    <2>2. req'[p] = [Blank EXCEPT !.pc = "rows", !.op = op, !.user = u, !.todo = S, !.goal = T]
      BY <1>0, <2>1
    <2>3. /\ req'[p].pc = "rows" /\ req'[p].op = op /\ req'[p].user = u /\ req'[p].todo = S
          /\ req'[p].goal = T /\ req'[p].now = 0 /\ req'[p].stale = {}
      BY <2>2 DEF Blank
    <2>4. ASSUME NEW s \in T
          PROVE  /\ op = "revokeAll" /\ s \in Sid /\ s \in used /\ session[s] # None
                 /\ session[s].user = u /\ s \in S
      <3>1. op = "revokeAll" /\ s \in LiveSids(u)
        BY <2>1, <2>4
      <3>2. s \in Sid /\ session[s] # None /\ session[s].user = u /\ clock < session[s].expiresAt
        BY <3>1 DEF LiveSids
      <3>3. index[u][s] # 0
        BY <3>2 DEF LogoutInv, RowOK
      <3>4. s \in used
        BY <1>0, <3>2 DEF StoreOK, IdsOK
      <3>5. QED
        BY <2>1, <3>1, <3>2, <3>3, <3>4
    <2>5. PruneOK(p)'
      BY <1>0, <2>3 DEF PruneOK
    <2>6. GoalOK(p)'
      BY <1>1, <2>3, <2>4 DEF GoalOK
    <2>7. QED
      BY <2>5, <2>6
  <1>5. CASE ListRows(p)
    <2> DEFINE gone == {s \in req[p].todo : session[s] = None}
    <2>0. gone \in SUBSET Sid /\ req[p].todo \ gone \in SUBSET Sid /\ gone \subseteq used
      BY <1>0 DEF LocalsOK
    <2>1. PICK G \in SUBSET Sid, T \in SUBSET Sid :
              /\ G = gone /\ T = req[p].todo \ gone
              /\ req' = [req EXCEPT ![p].pc = "zrem", ![p].stale = G, ![p].todo = T]
      BY <1>5, <2>0 DEF ListRows
    <2>2. req'[p] = [req[p] EXCEPT !.pc = "zrem", !.stale = G, !.todo = T]
      BY <1>0, <2>1
    <2>3. /\ req'[p].pc = "zrem" /\ req'[p].op = req[p].op /\ req'[p].user = req[p].user
          /\ req'[p].todo = T /\ req'[p].stale = G /\ req'[p].goal = req[p].goal
          /\ req'[p].now = req[p].now
      BY <1>0, <2>2 DEF Request
    <2>4. PruneOK(p)'
      BY <1>0, <1>1, <2>0, <2>1, <2>3 DEF PruneOK
    <2>5. ASSUME NEW s \in req[p].goal, session[s] # None
          PROVE  /\ req[p].op = "revokeAll" /\ session[s].user = req[p].user /\ s \in T
      BY <1>0, <1>5, <2>1, <2>5 DEF GoalOK, ListRows, At
    <2>6. GoalOK(p)'
      BY <1>0, <1>1, <2>3, <2>5 DEF GoalOK
    <2>7. QED
      BY <2>4, <2>6
  <1>6. CASE RevokeMissing(p)
    <2>1. /\ req[p].pc = "rvread" /\ NotRevocable(p) /\ AfterRevoke(p, FALSE)
      BY <1>6 DEF RevokeMissing, At
    <2>2. CASE \E r \in {"ok", "rejected", "reuse"} : Finish(p, r)
      BY <1>0, <2>2, FinishKeeps DEF Result
    <2>3. CASE req[p].op = "revokeAll" /\ Goto(p, "next")
      <3>1. req'[p] = [req[p] EXCEPT !.pc = "next"]
        BY <1>0, <2>3 DEF Goto
      <3>2. /\ req'[p].pc = "next" /\ req'[p].op = req[p].op /\ req'[p].user = req[p].user
            /\ req'[p].todo = req[p].todo /\ req'[p].stale = req[p].stale
            /\ req'[p].goal = req[p].goal /\ req'[p].now = req[p].now
        BY <1>0, <3>1 DEF Request
      <3>3. ASSUME NEW s \in req[p].goal, session[s] # None PROVE s \in req[p].todo
        BY <1>0, <2>1, <3>3 DEF GoalOK, NotRevocable
      <3>4. GoalOK(p)'
        BY <1>0, <1>1, <3>2, <3>3 DEF GoalOK
      <3>5. PruneOK(p)'
        BY <1>0, <1>1, <3>2 DEF PruneOK
      <3>6. QED
        BY <3>4, <3>5
    <2>4. QED
      BY <2>1, <2>2, <2>3 DEF AfterRevoke
  <1>7. ASSUME NEW s \in Sid, RevokeAllNext(p, s) PROVE PruneOK(p)' /\ GoalOK(p)'
    <2>1. PICK T \in SUBSET Sid :
              /\ T = req[p].todo \ {s}
              /\ req' = [req EXCEPT ![p].pc = "rvread", ![p].sid = s, ![p].todo = T]
      BY <1>0, <1>7 DEF RevokeAllNext
    <2>2. req'[p] = [req[p] EXCEPT !.pc = "rvread", !.sid = s, !.todo = T]
      BY <1>0, <2>1
    <2>3. /\ req'[p].pc = "rvread" /\ req'[p].op = req[p].op /\ req'[p].user = req[p].user
          /\ req'[p].todo = T /\ req'[p].sid = s /\ req'[p].stale = req[p].stale
          /\ req'[p].goal = req[p].goal /\ req'[p].now = req[p].now
      BY <1>0, <2>2 DEF Request
    <2>4. PruneOK(p)'
      BY <1>0, <1>1, <2>3 DEF PruneOK
    <2>5. GoalOK(p)'
      BY <1>0, <1>1, <1>7, <2>1, <2>3 DEF GoalOK, RevokeAllNext, At
    <2>6. QED
      BY <2>4, <2>5
  <1>8. CASE RevokeAllDone(p)
    <2>1. req'[p] = Answer(p, "allRevoked") /\ req[p].pc = "next" /\ req[p].todo = {}
      BY <1>0, <1>8 DEF RevokeAllDone, At, Finish
    <2>2. PruneOK(p)'
      BY <1>0, <2>1, AnswerFields DEF PruneOK
    <2>3. \A s \in req[p].goal : s \in used /\ session[s] = None
      BY <1>0, <2>1 DEF GoalOK
    <2>4. GoalOK(p)'
      BY <1>1, <2>1, <2>3, AnswerFields DEF GoalOK
    <2>5. QED
      BY <2>2, <2>4
  <1>9. QED
    BY <1>4, <1>5, <1>6, <1>7, <1>8

-----------------------------------------------------------------------------
(* The steps that write the store. *)

\* A login prunes only rows older than any session, and writes its own.
LEMMA CreateExecLogout ==
    ASSUME LogoutInv, IInv', NEW p \in Proc, NEW s \in Sid, NEW n \in Jti, CreateExec(p, s, n)
    PROVE  LogoutInv'
  <1> DEFINE u == req[p].user
             now == req[p].now
  <1>0. /\ req \in [Proc -> Request] /\ req[p] \in Request /\ clock \in Nat /\ clock' \in Nat
        /\ PruneOK(p) /\ GoalOK(p) /\ LocalsOK(p) /\ StoreOK /\ TypeOK /\ req[p].pc = "create"
    BY DEF LogoutInv, IInv, TypeOK, RequestOK, CreateExec, At
  <1>1. /\ u \in User /\ now \in Nat /\ now <= clock /\ now # 0 /\ Life \in Nat
    BY <1>0, TimeAssumption DEF LocalsOK, PruneOK, Request
  <1>2. /\ s \notin used /\ used' = used \cup {s, n} /\ clock' = clock
        /\ session' = [session EXCEPT ![s] =
            [user |-> u, jti |-> n, prev |-> None, rotatedAt |-> 0,
             expiresAt |-> now + Life, ttl |-> clock + Life]]
        /\ index' = [index EXCEPT ![u] = IndexAfterCreate(index[u], s, now)]
        /\ indexTtl' = [indexTtl EXCEPT ![u] = clock + Life]
        /\ req' = [req EXCEPT ![p].pc = "issue", ![p].sid = s, ![p].new = n]
    BY DEF CreateExec
  <1>3. /\ session'[s].user = u /\ session'[s].expiresAt = now + Life
        /\ \A t \in Sid \ {s} : session'[t] = session[t]
    BY <1>0, <1>2 DEF TypeOK
  <1>4. session[s] = None
    BY <1>0, <1>2 DEF StoreOK, IdsOK
  <1>5. Lasting
    BY <1>0, <1>2, <1>3, <1>4 DEF Lasting
  <1>6. /\ index'[u][s] = now
        /\ \A t \in Sid \ {s} : index'[u][t] = IF index[u][t] <= now - Life THEN 0 ELSE index[u][t]
        /\ \A v \in User \ {u} : index'[v] = index[v]
        /\ indexTtl'[u] = clock + Life /\ \A v \in User \ {u} : indexTtl'[v] = indexTtl[v]
    BY <1>0, <1>1, <1>2 DEF TypeOK, IndexAfterCreate
  <1> HIDE DEF u, now
  <1>7. RowOK(s)'
    BY <1>0, <1>1, <1>2, <1>3, <1>6 DEF RowOK
  <1>8. ASSUME NEW t \in Sid \ {s} PROVE RowOK(t)'
    <2>1. RowOK(t) /\ session'[t] = session[t]
      BY <1>3 DEF LogoutInv
    <2>2. CASE session[t] = None
      BY <2>1, <2>2 DEF RowOK
    <2>3. CASE session[t] # None
      <3>1. session[t] \in Session
        BY <1>0, <2>3 DEF TypeOK
      <3>2. session[t].user \in User /\ session[t].expiresAt \in Nat
        BY <3>1 DEF Session
      <3>3. index[session[t].user][t] \in Nat
        BY <1>0, <3>2 DEF TypeOK
      <3>4. CASE session[t].user # u
        <4>1. index'[session[t].user][t] = index[session[t].user][t]
              /\ indexTtl'[session[t].user] = indexTtl[session[t].user]
          BY <1>6, <3>2, <3>4
        <4>2. QED
          BY <1>2, <2>1, <4>1 DEF RowOK
      <3>5. CASE session[t].user = u
        <4>1. ASSUME clock < session[t].expiresAt
              PROVE  index'[u][t] = index[u][t] /\ index[u][t] # 0
                     /\ session[t].expiresAt <= index[u][t] + Life
          <5>1. index[u][t] # 0 /\ session[t].expiresAt <= index[u][t] + Life
            BY <2>1, <2>3, <3>5, <4>1 DEF RowOK
          <5>2. ~(index[u][t] <= now - Life)
            BY <1>0, <1>1, <3>2, <3>3, <3>5, <4>1, <5>1
          <5>3. QED
            BY <1>6, <5>1, <5>2
        <4>2. session[t].expiresAt <= clock + Life
          BY <2>1, <2>3 DEF RowOK
        <4>3. QED
          BY <1>2, <1>6, <2>1, <3>5, <4>1, <4>2 DEF RowOK
      <3>6. QED
        BY <3>4, <3>5
    <2>4. QED
      BY <2>2, <2>3
  <1>9. /\ req'[p] = [req[p] EXCEPT !.pc = "issue", !.sid = s, !.new = n]
        /\ \A q \in Proc \ {p} : req'[q] = req[q]
    BY <1>0, <1>2
  <1>10. /\ req'[p].pc = "issue" /\ req'[p].goal = req[p].goal /\ req'[p].stale = req[p].stale
         /\ req'[p].now = req[p].now
    BY <1>0, <1>9 DEF Request
  <1>11. PruneOK(p)' /\ GoalOK(p)'
    BY <1>0, <1>5, <1>10, FieldsKeep
  <1>12. \A q \in Proc : PruneOK(q)' /\ GoalOK(q)'
    BY <1>0, <1>5, <1>9, <1>11, OthersKeep
  <1>13. QED
    BY <1>7, <1>8, <1>12 DEF LogoutInv

\* A rotation renews the row, the session and the index together.
LEMMA RefreshExecLogout ==
    ASSUME LogoutInv, IInv', NEW p \in Proc, NEW n \in Jti, RefreshExec(p, n)
    PROVE  LogoutInv'
  <1>0. /\ req \in [Proc -> Request] /\ req[p] \in Request /\ clock \in Nat /\ clock' \in Nat
        /\ PruneOK(p) /\ GoalOK(p) /\ LocalsOK(p) /\ WatchOK(p) /\ StoreOK /\ TypeOK
        /\ req[p].pc = "exec" /\ ~dirty[p]
    BY DEF LogoutInv, IInv, TypeOK, RequestOK, RefreshExec, At, WatchError
  <1>1. PICK s \in Sid, u \in User, now \in Nat :
            /\ s = req[p].sid /\ u = req[p].user /\ now = req[p].now
            /\ now <= clock /\ now # 0 /\ s \in used
    BY <1>0 DEF LocalsOK, InRotation, PruneOK, Request
  <1>2. session[s] # None /\ session[s].user = u /\ Life \in Nat
    BY <1>0, <1>1, TimeAssumption DEF WatchOK
  <1>3. /\ used' = used \cup {n} /\ clock' = clock
        /\ session' = [session EXCEPT ![s] = HSet(session[s], n, req[p].jti, now)]
        /\ index' = [index EXCEPT ![u][s] = now]
        /\ indexTtl' = [indexTtl EXCEPT ![u] = clock + Life]
        /\ req' = [req EXCEPT ![p].pc = "issue", ![p].new = n]
    BY <1>1 DEF RefreshExec
  <1>4. /\ session'[s].user = u /\ session'[s].expiresAt = now + Life
        /\ \A t \in Sid \ {s} : session'[t] = session[t]
    BY <1>0, <1>2, <1>3 DEF TypeOK, HSet
  <1>5. Lasting
    BY <1>0, <1>2, <1>3, <1>4 DEF Lasting
  <1>6. /\ index'[u][s] = now /\ \A t \in Sid \ {s}, v \in User : index'[v][t] = index[v][t]
        /\ indexTtl'[u] = clock + Life /\ \A v \in User \ {u} : indexTtl'[v] = indexTtl[v]
    BY <1>0, <1>1, <1>3 DEF TypeOK
  <1>7. RowOK(s)'
    BY <1>0, <1>1, <1>2, <1>3, <1>4, <1>6 DEF RowOK
  <1>8. ASSUME NEW t \in Sid \ {s}, session[t] # None PROVE RowOK(t)'
    <2>1. RowOK(t) /\ session'[t] = session[t] /\ session[t] \in Session
      BY <1>0, <1>4, <1>8 DEF LogoutInv, TypeOK
    <2>2. session[t].user \in User
      BY <2>1 DEF Session
    <2>3. /\ index'[session[t].user][t] = index[session[t].user][t]
          /\ indexTtl'[session[t].user] \in {indexTtl[session[t].user], clock + Life}
      BY <1>6, <2>2
    <2>4. QED
      BY <1>3, <1>8, <2>1, <2>3 DEF RowOK
  <1>9. ASSUME NEW t \in Sid PROVE RowOK(t)'
    BY <1>4, <1>7, <1>8, <1>9 DEF RowOK
  <1>10. /\ req'[p] = [req[p] EXCEPT !.pc = "issue", !.new = n]
         /\ \A q \in Proc \ {p} : req'[q] = req[q]
    BY <1>0, <1>3
  <1>11. /\ req'[p].pc = "issue" /\ req'[p].goal = req[p].goal /\ req'[p].stale = req[p].stale
         /\ req'[p].now = req[p].now
    BY <1>0, <1>10 DEF Request
  <1>12. PruneOK(p)' /\ GoalOK(p)'
    BY <1>0, <1>5, <1>11, FieldsKeep
  <1>13. QED
    BY <1>0, <1>5, <1>9, <1>10, <1>12, OthersKeep DEF LogoutInv

\* revoke_session closes the session and takes its row along.
LEMMA RevokeExecLogout ==
    ASSUME LogoutInv, IInv', NEW p \in Proc, RevokeExec(p)
    PROVE  LogoutInv'
  <1>0. /\ req \in [Proc -> Request] /\ req[p] \in Request /\ clock \in Nat /\ clock' \in Nat
        /\ PruneOK(p) /\ GoalOK(p) /\ LocalsOK(p) /\ RevokeOK(p) /\ TypeOK
        /\ req[p].pc = "rvexec" /\ req[p].goal \in SUBSET Sid /\ req[p].stale \in SUBSET Sid
    BY DEF LogoutInv, IInv, TypeOK, RequestOK, RevokeExec, At, Request
  <1>1. PICK s \in Sid, u \in User : s = req[p].sid /\ u = req[p].data.user /\ s \in used
    BY <1>0 DEF LocalsOK, RevokeOK, Request, Session
  <1>2. /\ used' = used /\ clock' = clock /\ indexTtl' = indexTtl
        /\ session' = [session EXCEPT ![s] = None]
        /\ index' = [index EXCEPT ![u][s] = 0]
        /\ AfterRevoke(p, TRUE)
    BY <1>1 DEF RevokeExec
  <1>3. session'[s] = None /\ \A t \in Sid \ {s} : session'[t] = session[t]
    BY <1>0, <1>2 DEF TypeOK
  <1>4. \A t \in Sid \ {s}, v \in User : index'[v][t] = index[v][t]
    BY <1>0, <1>2 DEF TypeOK
  <1>5. Lasting
    BY <1>0, <1>2, <1>3 DEF Lasting
  <1>6. ASSUME NEW t \in Sid, session'[t] # None PROVE RowOK(t)'
    <2>1. t # s /\ RowOK(t) /\ session'[t] = session[t] /\ session[t] \in Session
      BY <1>0, <1>3, <1>6 DEF LogoutInv, TypeOK
    <2>2. session[t].user \in User
      BY <2>1 DEF Session
    <2>3. index'[session[t].user][t] = index[session[t].user][t]
      BY <1>4, <2>1, <2>2
    <2>4. QED
      BY <1>2, <2>1, <2>3 DEF RowOK
  <1>7. \A t \in Sid : RowOK(t)'
    BY <1>6 DEF RowOK
  <1>8. \A q \in Proc \ {p} : req'[q] = req[q]
    BY <1>0, <1>2 DEF AfterRevoke, Finish, Goto
  <1>9. PruneOK(p)' /\ GoalOK(p)'
    <2>1. CASE \E r \in {"ok", "rejected", "reuse"} : Finish(p, r)
      BY <1>0, <2>1, FinishKeeps DEF Result
    <2>2. CASE req[p].op = "revokeAll" /\ Goto(p, "next")
      <3>1. req'[p] = [req[p] EXCEPT !.pc = "next"]
        BY <1>0, <2>2 DEF Goto
      <3>2. /\ req'[p].pc = "next" /\ req'[p].op = req[p].op /\ req'[p].user = req[p].user
            /\ req'[p].todo = req[p].todo /\ req'[p].stale = req[p].stale
            /\ req'[p].goal = req[p].goal /\ req'[p].now = req[p].now
        BY <1>0, <3>1 DEF Request
      <3>3. ASSUME NEW t \in req[p].goal, session'[t] # None
            PROVE  t \in req[p].todo /\ session'[t].user = req[p].user
        BY <1>0, <1>1, <1>3, <3>3 DEF GoalOK
      <3>4. GoalOK(p)'
        BY <1>0, <1>2, <2>2, <3>2, <3>3 DEF GoalOK
      <3>5. PruneOK(p)'
        BY <1>0, <1>2, <1>5, <3>2 DEF PruneOK, Lasting
      <3>6. QED
        BY <3>4, <3>5
    <2>3. QED
      BY <1>2, <2>1, <2>2 DEF AfterRevoke
  <1>10. QED
    BY <1>0, <1>5, <1>7, <1>8, <1>9, OthersKeep DEF LogoutInv

\* Listing prunes rows of sessions that are gone; activity renews a row.
LEMMA IndexLogout ==
    ASSUME LogoutInv, IInv', NEW p \in Proc, ListPrune(p) \/ TouchWrite(p)
    PROVE  LogoutInv'
  <1>0. /\ req \in [Proc -> Request] /\ req[p] \in Request /\ clock \in Nat \ {0} /\ clock' \in Nat
        /\ PruneOK(p) /\ GoalOK(p) /\ LocalsOK(p) /\ TypeOK /\ Life \in Nat
        /\ req[p].goal \in SUBSET Sid /\ req[p].stale \in SUBSET Sid
    BY TimeAssumption DEF LogoutInv, IInv, TypeOK, RequestOK, Request
  <1>1. UNCHANGED <<clock, session, indexTtl, used>>
    BY DEF ListPrune, TouchWrite
  <1>2. \A q \in Proc \ {p} : req'[q] = req[q]
    BY <1>0 DEF ListPrune, TouchWrite, Finish
  <1>3. Lasting
    BY <1>0, <1>1 DEF Lasting
  <1>4. ASSUME NEW t \in Sid, NEW v \in User, session[t] # None
        PROVE  \/ index'[v][t] = index[v][t]
               \/ index[v][t] # 0 /\ index'[v][t] = clock
    <2>1. CASE ListPrune(p)
      <3>1. t \notin req[p].stale /\ req[p].user \in User
        BY <1>0, <1>4, <2>1 DEF PruneOK, ListPrune, At, LocalsOK
      <3>2. index' = [index EXCEPT ![req[p].user] =
                [x \in Sid |-> IF x \in req[p].stale THEN 0 ELSE index[req[p].user][x]]]
        BY <2>1 DEF ListPrune
      <3>3. QED
        BY <1>0, <3>1, <3>2 DEF TypeOK
    <2>2. CASE TouchWrite(p)
      <3>1. req[p].user \in User /\ req[p].sid \in Sid
        BY <1>0, <2>2 DEF TouchWrite, At, LocalsOK
      <3>2. QED
        BY <1>0, <2>2, <3>1 DEF TouchWrite, ZAddXX, TypeOK
    <2>3. QED
      BY <2>1, <2>2
  <1>5. ASSUME NEW t \in Sid, session[t] # None PROVE RowOK(t)'
    <2>1. RowOK(t) /\ session[t] \in Session
      BY <1>0, <1>5 DEF LogoutInv, TypeOK
    <2>2. session[t].user \in User
      BY <2>1 DEF Session
    <2>3. QED
      BY <1>0, <1>1, <1>4, <1>5, <2>1, <2>2 DEF RowOK
  <1>6. \A t \in Sid : RowOK(t)'
    BY <1>1, <1>5 DEF RowOK
  <1>7. PruneOK(p)' /\ GoalOK(p)'
    <2>1. CASE Finish(p, "ok")
      BY <1>0, <2>1, FinishKeeps DEF Result
    <2>2. CASE /\ req[p].pc = "zrem"
               /\ req' = [req EXCEPT ![p].pc = "next", ![p].stale = {}]
      <3>1. req'[p] = [req[p] EXCEPT !.pc = "next", !.stale = {}]
        BY <1>0, <2>2
      <3>2. /\ req'[p].pc = "next" /\ req'[p].op = req[p].op /\ req'[p].user = req[p].user
            /\ req'[p].todo = req[p].todo /\ req'[p].stale = {} /\ req'[p].sid = req[p].sid
            /\ req'[p].goal = req[p].goal /\ req'[p].now = req[p].now
        BY <1>0, <3>1 DEF Request
      <3>3. QED
        BY <1>0, <1>3, <2>2, <3>2, FieldsKeep
    <2>3. QED
      BY <2>1, <2>2 DEF ListPrune, TouchWrite, At
  <1>8. QED
    BY <1>0, <1>2, <1>3, <1>6, <1>7, OthersKeep DEF LogoutInv

\* The index expires no earlier than the last session in it.
LEMMA TickLogout ==
    ASSUME LogoutInv, IInv', Tick
    PROVE  LogoutInv'
  <1>0. clock \in Nat /\ clock' = clock + 1 /\ clock' \in Nat /\ TypeOK /\ Life \in Nat
        /\ UNCHANGED <<used, req>>
    BY TimeAssumption DEF LogoutInv, IInv, TypeOK, Tick
  <1>1. \A s \in Sid : session'[s] = session[s] \/ session'[s] = None
    BY DEF Tick
  <1>2. Lasting
    BY <1>0, <1>1 DEF Lasting
  <1>3. ASSUME NEW s \in Sid, session'[s] # None PROVE RowOK(s)'
    <2>1. RowOK(s) /\ session'[s] = session[s] /\ session[s] \in Session
      BY <1>0, <1>1, <1>3 DEF LogoutInv, TypeOK
    <2>2. session[s].user \in User /\ session[s].expiresAt \in Nat
      BY <2>1 DEF Session
    <2>3. ASSUME clock + 1 < session[s].expiresAt
          PROVE  /\ index'[session[s].user] = index[session[s].user]
                 /\ indexTtl'[session[s].user] = indexTtl[session[s].user]
      <3>1. indexTtl[session[s].user] \in Nat
            /\ session[s].expiresAt <= indexTtl[session[s].user]
        BY <1>0, <1>3, <2>1, <2>2, <2>3 DEF RowOK, TypeOK
      <3>2. ~Expired(indexTtl[session[s].user])
        BY <1>0, <2>2, <2>3, <3>1 DEF Expired
      <3>3. QED
        BY <2>2, <3>2 DEF Tick
    <2>4. QED
      BY <1>0, <1>3, <2>1, <2>2, <2>3 DEF RowOK
  <1>4. \A s \in Sid : RowOK(s)'
    BY <1>3 DEF RowOK
  <1>5. \A q \in Proc : PruneOK(q)' /\ GoalOK(q)'
    BY <1>0, <1>2, OthersKeep
  <1>6. QED
    BY <1>4, <1>5 DEF LogoutInv

LEMMA LogoutNext == LogoutInv /\ [Next]_vars => LogoutInv'
  <1> SUFFICES ASSUME LogoutInv, [Next]_vars PROVE LogoutInv'
    OBVIOUS
  <1>0. IInv'
    BY StepOK, TickOK, StutterOK DEF Next, LogoutInv
  <1>1. CASE UNCHANGED vars
    <2>1. \A s \in Sid : RowOK(s)'
      BY <1>1 DEF vars, store, LogoutInv, RowOK
    <2>2. \A q \in Proc : PruneOK(q)' /\ GoalOK(q)'
      BY <1>1 DEF vars, store, LogoutInv, PruneOK, GoalOK
    <2>3. QED
      BY <1>0, <2>1, <2>2 DEF LogoutInv
  <1>2. ASSUME NEW p \in Proc, Step(p) PROVE LogoutInv'
    BY <1>0, <1>2, LocalActions, ListActions, CreateExecLogout, RefreshExecLogout,
       RevokeExecLogout, IndexLogout DEF Step
  <1>3. QED
    BY <1>0, <1>1, <1>2, TickLogout DEF Next

\* revoke_all_sessions reaches every session that was within its lifetime when it began and
\* leaves none of them, and no revoked session returns to a list: for any number of users,
\* devices and concurrent logins, rotations and listings, and any refresh lifetime.
THEOREM LogoutIsComplete == Spec => []LogoutEverywhere
  <1>1. Init => LogoutInv
    <2> SUFFICES ASSUME Init PROVE LogoutInv
      OBVIOUS
    <2>1. IInv
      BY InitOK
    <2>2. \A s \in Sid : RowOK(s)
      BY DEF Init, RowOK
    <2>3. \A p \in Proc : PruneOK(p) /\ GoalOK(p)
      BY DEF Init, Blank, PruneOK, GoalOK
    <2>4. QED
      BY <2>1, <2>2, <2>3 DEF LogoutInv
  <1>2. LogoutInv => LogoutEverywhere
    <2> SUFFICES ASSUME LogoutInv PROVE LogoutEverywhere
      OBVIOUS
    <2>1. IndexComplete
      BY DEF LogoutInv, RowOK, IndexComplete
    <2>2. RevokeAllComplete
      <3> SUFFICES ASSUME NEW p \in Proc, req[p].result = "allRevoked", NEW s \in req[p].goal
                   PROVE  session[s] = None
        BY DEF RevokeAllComplete
      <3>1. req[p].pc = "idle"
        BY DEF LogoutInv, IInv, RequestOK, LocalsOK
      <3>2. QED
        BY <3>1 DEF LogoutInv, GoalOK
    <2>3. QED
      BY <2>1, <2>2 DEF LogoutInv, IInv, StoreOK, LogoutEverywhere
  <1>3. QED
    BY <1>1, <1>2, LogoutNext, PTL DEF Spec

=============================================================================
