------------------------------ MODULE Sessions ------------------------------
(***************************************************************************)
(* Login sessions and refresh-token rotation: app/core/sessions.py and the *)
(* handlers of app/routers/auth.py, app/routers/admin.py and               *)
(* app/core/deps.py that call it.                                          *)
(*                                                                         *)
(* Every handler is a coroutine that suspends at each Redis round trip, so *)
(* each round trip is one action of a request p \in Proc and any number of *)
(* other requests run in between.  Redis executes one command, or one      *)
(* MULTI/EXEC block, atomically.  Time is a tick counter: Life is the      *)
(* refresh lifetime, Grace the reuse-grace window.  A time of 0 stands for *)
(* "no such key" (or the empty rotated_at); the clock starts at 1.         *)
(***************************************************************************)
EXTENDS Integers, FiniteSets

CONSTANTS
    User,         \* user ids
    Sid,          \* session ids (uuid4)
    Jti,          \* refresh token ids (uuid4)
    Proc,         \* concurrent requests
    None,         \* a missing value
    Life,         \* _refresh_lifetime_seconds, in ticks
    Grace,        \* REFRESH_REUSE_GRACE_SECONDS, in ticks
    MaxAttempts,  \* _MAX_ROTATION_ATTEMPTS
    MaxClock      \* bound: the last tick explored

ASSUME TimeAssumption ==
    /\ Life \in Nat \ {0} /\ Grace \in Nat /\ MaxClock \in Nat \ {0}
    /\ MaxAttempts \in Nat /\ MaxAttempts > 1

ASSUME NoneAssumption == None \notin User \cup Sid \cup Jti

VARIABLES
    clock,
    session,    \* session:{sid} hashes; None when the key does not exist
    index,      \* user_sessions:{user_id}: score of each sid, 0 = no row
    indexTtl,   \* expiry of user_sessions:{user_id}, 0 = no key
    blacklist,  \* expiry of revoked_refresh:{jti}, 0 = no key
    token,      \* the signed refresh tokens handed to clients
    used,       \* uuids generated so far
    dead,       \* history: sessions that a completed revoke_session deleted
    from,       \* history: the token id that was exchanged for this one
    req,        \* local state of each request
    dirty       \* Redis: the key this connection WATCHes has been changed

store == <<session, index, indexTtl, blacklist>>
vars == <<clock, store, token, used, dead, from, req, dirty>>

Session == [user : User, jti : Jti, prev : Jti \cup {None},
            rotatedAt : Nat, expiresAt : Nat, ttl : Nat]

ASSUME NoSessionIsNone == None \notin Session

Token == [sid : Sid, user : User, exp : Nat]

PC == {"idle", "create", "hgetall", "exists", "exec", "issue", "zadd",
       "rows", "zrem", "next", "rvread", "rvexec"}

Op == {"none", "login", "refresh", "touch", "list", "revoke", "revokeAll",
       "reuse", "userGone"}

\* Answers: 2xx, 401/404 and 503, and three outcomes of their own.
Result == {"none", "ok", "rejected", "unavailable",
           "reuse", "concurrentRotation", "allRevoked"}

\* The answers a property mentions; the others are forgotten once given.
Verdict == {"reuse", "concurrentRotation", "allRevoked"}

Request == [pc : PC, op : Op, user : User \cup {None}, sid : Sid \cup {None},
            jti : Jti \cup {None}, new : Jti \cup {None},
            data : Session \cup {None}, now : Nat, tries : Nat,
            todo : SUBSET Sid, stale : SUBSET Sid, goal : SUBSET Sid,
            result : Verdict \cup {"none"}]

Blank == [pc |-> "idle", op |-> "none", user |-> None, sid |-> None,
          jti |-> None, new |-> None, data |-> None, now |-> 0, tries |-> 0,
          todo |-> {}, stale |-> {}, goal |-> {}, result |-> "none"]

Init ==
    /\ clock = 1
    /\ session = [s \in Sid |-> None]
    /\ index = [u \in User |-> [s \in Sid |-> 0]]
    /\ indexTtl = [u \in User |-> 0]
    /\ blacklist = [j \in Jti |-> 0]
    /\ token = [j \in Jti |-> None]
    /\ used = {}
    /\ dead = {}
    /\ from = [j \in Jti |-> None]
    /\ req = [p \in Proc |-> Blank]
    /\ dirty = [p \in Proc |-> FALSE]

-----------------------------------------------------------------------------
(* Helpers *)

Later(a, b) == IF a >= b THEN a ELSE b

\* The sessions of u that are within their recorded lifetime.
LiveSids(u) == {s \in Sid : /\ session[s] # None
                            /\ session[s].user = u
                            /\ clock < session[s].expiresAt}

At(p, pc) == req[p].pc = pc

\* The request answers r; only what a property mentions is kept.
Answer(p, r) ==
    [Blank EXCEPT !.result = IF r \in Verdict THEN r ELSE "none",
                  !.sid = IF r = "reuse" THEN req[p].sid ELSE None,
                  !.goal = IF r = "allRevoked" THEN req[p].goal ELSE {}]

Finish(p, r) == req' = [req EXCEPT ![p] = Answer(p, r)]

Goto(p, pc) == req' = [req EXCEPT ![p].pc = pc]

\* Redis flags every connection that WATCHes a key some command changes.
Watches(p, s) == req[p].op = "refresh" /\ req[p].sid = s
                 /\ req[p].pc \in {"hgetall", "exists", "exec"}

Signal(S) == dirty' = [p \in Proc |-> dirty[p] \/ \E s \in S : Watches(p, s)]

-----------------------------------------------------------------------------
(* Time: keys whose TTL has run out disappear; an expired watched key makes *)
(* EXEC fail, as a deleted one does.                                        *)

Expired(ttl) == ttl # 0 /\ ttl <= clock + 1

Tick ==
    LET gone == {s \in Sid : session[s] # None /\ Expired(session[s].ttl)}
    IN  /\ clock < MaxClock
        /\ clock' = clock + 1
        /\ session' = [s \in Sid |-> IF s \in gone THEN None ELSE session[s]]
        /\ index' = [u \in User |->
                        IF Expired(indexTtl[u]) THEN [s \in Sid |-> 0]
                                                ELSE index[u]]
        /\ indexTtl' = [u \in User |->
                        IF Expired(indexTtl[u]) THEN 0 ELSE indexTtl[u]]
        /\ blacklist' = [j \in Jti |->
                        IF Expired(blacklist[j]) THEN 0 ELSE blacklist[j]]
        /\ Signal(gone)
        /\ UNCHANGED <<token, used, dead, from, req>>

-----------------------------------------------------------------------------
(* POST /login: the password check is outside; create_session reads the    *)
(* known devices (LoginAlerts' concern) and then writes the session in one *)
(* MULTI.  `now` is taken before the first round trip.                     *)

CreateStart(p, u) ==
    /\ At(p, "idle")
    /\ req' = [req EXCEPT ![p] = [Blank EXCEPT
                    !.pc = "create", !.op = "login", !.user = u, !.now = clock]]
    /\ UNCHANGED <<clock, store, token, used, dead, from, dirty>>

\* Mutant: the cut-off forgets the lifetime.
PruneUpToNow(rows, s, now) ==
    [t \in Sid |-> IF t = s THEN now
                   ELSE IF rows[t] <= now THEN 0 ELSE rows[t]]

\* ZADD of the new row, then ZREMRANGEBYSCORE -inf .. now - lifetime.
IndexAfterCreate(rows, s, now) ==
    [t \in Sid |-> IF t = s THEN now
                   ELSE IF rows[t] <= now - Life THEN 0 ELSE rows[t]]

CreateExec(p, s, n) ==
    LET u == req[p].user IN
    /\ At(p, "create")
    /\ s \notin used /\ n \notin used
    /\ used' = used \cup {s, n}
    /\ session' = [session EXCEPT ![s] =
            [user |-> u, jti |-> n, prev |-> None, rotatedAt |-> 0,
             expiresAt |-> req[p].now + Life, ttl |-> clock + Life]]
    /\ index' = [index EXCEPT ![u] = IndexAfterCreate(@, s, req[p].now)]
    /\ indexTtl' = [indexTtl EXCEPT ![u] = clock + Life]
    /\ req' = [req EXCEPT ![p].pc = "issue", ![p].sid = s, ![p].new = n]
    /\ UNCHANGED <<clock, blacklist, token, dead, from, dirty>>

-----------------------------------------------------------------------------
(* POST /refresh: decode_token, then rotate_refresh.  WATCH, HGETALL,       *)
(* EXISTS and EXEC are four round trips; WATCH is the request's first.      *)

RefreshStart(p, j) ==
    /\ At(p, "idle")
    /\ token[j] # None
    /\ clock < token[j].exp
    /\ req' = [req EXCEPT ![p] = [Blank EXCEPT
                    !.pc = "hgetall", !.op = "refresh", !.user = token[j].user,
                    !.sid = token[j].sid, !.jti = j, !.tries = 1]]
    /\ dirty' = [dirty EXCEPT ![p] = FALSE]
    /\ UNCHANGED <<clock, store, token, used, dead, from>>

RefreshRead(p) ==
    /\ At(p, "hgetall")
    /\ req' = [req EXCEPT ![p].pc = "exists", ![p].data = session[req[p].sid]]
    /\ UNCHANGED <<clock, store, token, used, dead, from, dirty>>

\* The four branches taken on the reply of EXISTS revoked_refresh:{jti}.
Invalid(p) == req[p].data # None => req[p].data.user # req[p].user

InGrace(p) == /\ req[p].jti = req[p].data.prev
              /\ req[p].data.rotatedAt # 0
              /\ clock - req[p].data.rotatedAt <= Grace

Replayed(p) == req[p].jti # req[p].data.jti \/ blacklist[req[p].jti] # 0

RefreshInvalid(p) ==
    /\ At(p, "exists") /\ Invalid(p)
    /\ Finish(p, "rejected")
    /\ UNCHANGED <<clock, store, token, used, dead, from, dirty>>

RefreshGrace(p) ==
    /\ At(p, "exists") /\ ~Invalid(p) /\ InGrace(p)
    /\ Goto(p, "issue")
    /\ UNCHANGED <<clock, store, token, used, dead, from, dirty>>

\* Mutant: the replay is refused but the session is left alone.
ReuseOnlyRefuses(p) ==
    /\ At(p, "exists") /\ ~Invalid(p) /\ ~InGrace(p) /\ Replayed(p)
    /\ Finish(p, "reuse")
    /\ UNCHANGED <<clock, store, token, used, dead, from, dirty>>

\* UNWATCH, then revoke_session(session_id) without a user filter.
RefreshReuse(p) ==
    /\ At(p, "exists") /\ ~Invalid(p) /\ ~InGrace(p) /\ Replayed(p)
    /\ req' = [req EXCEPT ![p].pc = "rvread", ![p].op = "reuse"]
    /\ UNCHANGED <<clock, store, token, used, dead, from, dirty>>

RefreshPrepare(p) ==
    /\ At(p, "exists") /\ ~Invalid(p) /\ ~InGrace(p) /\ ~Replayed(p)
    /\ req' = [req EXCEPT ![p].pc = "exec", ![p].now = clock]
    /\ UNCHANGED <<clock, store, token, used, dead, from, dirty>>

\* HSET writes the fields it names and creates the hash if it is missing.
HSet(old, n, j, now) ==
    [user |-> IF old = None THEN None ELSE old.user,
     jti |-> n, prev |-> j, rotatedAt |-> now, expiresAt |-> now + Life,
     ttl |-> clock + Life]

\* Mutant: the rotation runs without WATCH.
ExecIgnoresWatch(p) == FALSE

\* EXEC fails (WatchError) when the watched session key has changed.
WatchError(p) == dirty[p]

RefreshExec(p, n) ==
    LET r == req[p] IN
    /\ At(p, "exec") /\ ~WatchError(p)
    /\ n \notin used
    /\ used' = used \cup {n}
    /\ session' = [session EXCEPT ![r.sid] = HSet(@, n, r.jti, r.now)]
    /\ blacklist' = [blacklist EXCEPT
            ![r.jti] = clock + Later(r.data.expiresAt - r.now, 1)]
    /\ index' = [index EXCEPT ![r.user][r.sid] = r.now]
    /\ indexTtl' = [indexTtl EXCEPT ![r.user] = clock + Life]
    /\ from' = [from EXCEPT ![n] = r.jti]
    /\ req' = [req EXCEPT ![p].pc = "issue", ![p].new = n]
    /\ Signal({r.sid})
    /\ UNCHANGED <<clock, token, dead>>

\* Mutant: the retry executes the same MULTI again without re-reading.
RetryWithStaleData(p) ==
    /\ At(p, "exec") /\ WatchError(p)
    /\ req' = [req EXCEPT ![p].tries = @ + 1]
    /\ dirty' = [dirty EXCEPT ![p] = FALSE]
    /\ UNCHANGED <<clock, store, token, used, dead, from>>

\* WatchError: WATCH again and decide on fresh data, at most MaxAttempts times.
RefreshConflict(p) ==
    /\ At(p, "exec") /\ WatchError(p)
    /\ IF req[p].tries < MaxAttempts
       THEN req' = [req EXCEPT ![p].pc = "hgetall", ![p].data = None,
                               ![p].tries = @ + 1]
       ELSE Finish(p, "concurrentRotation")
    /\ dirty' = [dirty EXCEPT ![p] = FALSE]
    /\ UNCHANGED <<clock, store, token, used, dead, from>>

\* The handler signs the new refresh token (none within the grace window).
IssueToken(p) ==
    LET r == req[p] IN
    /\ At(p, "issue")
    /\ token' = IF r.new = None THEN token
                ELSE [token EXCEPT ![r.new] =
                        [sid |-> r.sid, user |-> r.user, exp |-> clock + Life]]
    /\ Finish(p, "ok")
    /\ UNCHANGED <<clock, store, used, dead, from, dirty>>

\* /refresh finds no user row for the token's subject: the session goes.
RefreshUserGone(p) ==
    /\ At(p, "issue") /\ req[p].op = "refresh"
    /\ req' = [req EXCEPT ![p].pc = "rvread", ![p].op = "userGone"]
    /\ UNCHANGED <<clock, store, token, used, dead, from, dirty>>

-----------------------------------------------------------------------------
(* revoke_session: logout, DELETE /sessions/{id}/ and the admin's delete    *)
(* filter by user; the reuse and missing-user paths do not.                 *)

RevokeStart(p, u, s) ==
    /\ At(p, "idle")
    /\ s \in used
    /\ req' = [req EXCEPT ![p] = [Blank EXCEPT
                    !.pc = "rvread", !.op = "revoke", !.user = u, !.sid = s]]
    /\ UNCHANGED <<clock, store, token, used, dead, from, dirty>>

Filtered(p) == req[p].op \in {"revoke", "revokeAll"}

NotRevocable(p) ==
    LET data == session[req[p].sid] IN
    data # None => (Filtered(p) /\ data.user # req[p].user)

\* Where the caller of revoke_session goes on.
AfterRevoke(p, hit) ==
    \/ req[p].op = "revoke" /\ Finish(p, IF hit THEN "ok" ELSE "rejected")
    \/ req[p].op = "reuse" /\ Finish(p, "reuse")
    \/ req[p].op = "userGone" /\ Finish(p, "rejected")
    \/ req[p].op = "revokeAll" /\ Goto(p, "next")

RevokeMissing(p) ==
    /\ At(p, "rvread") /\ NotRevocable(p)
    /\ AfterRevoke(p, FALSE)
    /\ UNCHANGED <<clock, store, token, used, dead, from, dirty>>

RevokeRead(p) ==
    /\ At(p, "rvread") /\ ~NotRevocable(p)
    /\ req' = [req EXCEPT ![p].pc = "rvexec", ![p].now = clock,
                          ![p].data = session[req[p].sid]]
    /\ UNCHANGED <<clock, store, token, used, dead, from, dirty>>

RevokeExec(p) ==
    LET r == req[p] IN
    /\ At(p, "rvexec")
    /\ blacklist' = [blacklist EXCEPT
            ![r.data.jti] = clock + Later(r.data.expiresAt - r.now, 1)]
    /\ session' = [session EXCEPT ![r.sid] = None]
    /\ index' = [index EXCEPT ![r.data.user][r.sid] = 0]
    /\ dead' = dead \cup {r.sid}
    /\ Signal(IF session[r.sid] = None THEN {} ELSE {r.sid})
    /\ AfterRevoke(p, TRUE)
    /\ UNCHANGED <<clock, indexTtl, token, used, from>>

-----------------------------------------------------------------------------
(* list_sessions, alone (GET /sessions/) or as the first half of            *)
(* revoke_all_sessions.  `goal` remembers what was live when it began.      *)

\* ZREVRANGE user_sessions:{user_id} 0 -1
ListStart(p, u, op) ==
    /\ At(p, "idle")
    /\ req' = [req EXCEPT ![p] = [Blank EXCEPT
            !.pc = "rows", !.op = op, !.user = u,
            !.todo = {s \in Sid : index[u][s] # 0},
            !.goal = IF op = "revokeAll" THEN LiveSids(u) ELSE {}]]
    /\ UNCHANGED <<clock, store, token, used, dead, from, dirty>>

ListRows(p) ==
    LET gone == {s \in req[p].todo : session[s] = None} IN
    /\ At(p, "rows")
    /\ req' = [req EXCEPT ![p].pc = "zrem", ![p].stale = gone,
                          ![p].todo = @ \ gone]
    /\ UNCHANGED <<clock, store, token, used, dead, from, dirty>>

ListPrune(p) ==
    LET r == req[p] IN
    /\ At(p, "zrem")
    /\ index' = [index EXCEPT ![r.user] =
                    [s \in Sid |-> IF s \in r.stale THEN 0 ELSE @[s]]]
    /\ IF r.op = "list"
       THEN Finish(p, "ok")
       ELSE req' = [req EXCEPT ![p].pc = "next", ![p].stale = {}]
    /\ UNCHANGED <<clock, session, indexTtl, blacklist, token, used, dead,
                   from, dirty>>

\* Mutant: the loop over the sessions ends after the first one.
RevokeAllStopsEarly(p, s) ==
    /\ At(p, "next") /\ s \in req[p].todo
    /\ req' = [req EXCEPT ![p].pc = "rvread", ![p].sid = s, ![p].todo = {}]
    /\ UNCHANGED <<clock, store, token, used, dead, from, dirty>>

RevokeAllNext(p, s) ==
    /\ At(p, "next") /\ s \in req[p].todo
    /\ req' = [req EXCEPT ![p].pc = "rvread", ![p].sid = s,
                          ![p].todo = @ \ {s}]
    /\ UNCHANGED <<clock, store, token, used, dead, from, dirty>>

RevokeAllDone(p) ==
    /\ At(p, "next") /\ req[p].todo = {}
    /\ Finish(p, "allRevoked")
    /\ UNCHANGED <<clock, store, token, used, dead, from, dirty>>

-----------------------------------------------------------------------------
(* get_current_user -> touch_session: HGET user_id and SET NX of the        *)
(* 60-second throttle in one round trip.  Whether the throttle is free is   *)
(* left open (`write`).                                                     *)

TouchRead(p, s, write) ==
    /\ At(p, "idle")
    /\ s \in used
    /\ req' = [req EXCEPT ![p] =
            IF session[s] = None THEN Answer(p, "rejected")
            ELSE IF ~write THEN Answer(p, "ok")
            ELSE [Blank EXCEPT !.pc = "zadd", !.op = "touch", !.sid = s,
                               !.user = session[s].user]]
    /\ UNCHANGED <<clock, store, token, used, dead, from, dirty>>

\* Mutant: a plain ZADD, which re-creates the row of a revoked session.
ZAdd(rows, s, now) == [rows EXCEPT ![s] = now]

\* ZADD with XX only moves the score of a row that exists.
ZAddXX(rows, s, now) == IF rows[s] = 0 THEN rows ELSE [rows EXCEPT ![s] = now]

\* Mutant: the last activity is also written into the session hash.
TouchWritesHash(p) ==
    LET r == req[p] IN
    /\ At(p, "zadd")
    /\ index' = [index EXCEPT ![r.user] = ZAddXX(@, r.sid, clock)]
    /\ Signal({r.sid})
    /\ Finish(p, "ok")
    /\ UNCHANGED <<clock, session, indexTtl, blacklist, token, used, dead, from>>

TouchWrite(p) ==
    LET r == req[p] IN
    /\ At(p, "zadd")
    /\ index' = [index EXCEPT ![r.user] = ZAddXX(@, r.sid, clock)]
    /\ Finish(p, "ok")
    /\ UNCHANGED <<clock, session, indexTtl, blacklist, token, used, dead,
                   from, dirty>>

-----------------------------------------------------------------------------
(* A Redis error (SessionStoreUnavailable, 503) or a process crash at any   *)
(* round trip; the effect of the last one may already be in the store.      *)

Fail(p) ==
    /\ ~At(p, "idle")
    /\ Finish(p, "unavailable")
    /\ UNCHANGED <<clock, store, token, used, dead, from, dirty>>

Step(p) ==
    \/ \E u \in User : CreateStart(p, u)
    \/ \E s \in Sid, n \in Jti : CreateExec(p, s, n)
    \/ \E j \in Jti : RefreshStart(p, j)
    \/ RefreshRead(p)
    \/ RefreshInvalid(p)
    \/ RefreshGrace(p)
    \/ RefreshReuse(p)
    \/ RefreshPrepare(p)
    \/ \E n \in Jti : RefreshExec(p, n)
    \/ RefreshConflict(p)
    \/ IssueToken(p)
    \/ RefreshUserGone(p)
    \/ \E u \in User, s \in Sid : RevokeStart(p, u, s)
    \/ RevokeMissing(p)
    \/ RevokeRead(p)
    \/ RevokeExec(p)
    \/ \E u \in User, op \in {"list", "revokeAll"} : ListStart(p, u, op)
    \/ ListRows(p)
    \/ ListPrune(p)
    \/ \E s \in Sid : RevokeAllNext(p, s)
    \/ RevokeAllDone(p)
    \/ \E s \in Sid, w \in BOOLEAN : TouchRead(p, s, w)
    \/ TouchWrite(p)
    \/ Fail(p)

Next == Tick \/ \E p \in Proc : Step(p)

Spec == Init /\ [][Next]_vars

-----------------------------------------------------------------------------
(* Properties *)

\* Every variable keeps its shape: a stored hash always names a user, so no
\* HSET has re-created a deleted session:{sid} without its user_id.
TypeOK ==
    /\ clock \in Nat \ {0}
    /\ session \in [Sid -> Session \cup {None}]
    /\ index \in [User -> [Sid -> Nat]]
    /\ indexTtl \in [User -> Nat]
    /\ blacklist \in [Jti -> Nat]
    /\ token \in [Jti -> Token \cup {None}]
    /\ used \subseteq Sid \cup Jti
    /\ dead \subseteq Sid
    /\ from \in [Jti -> Jti \cup {None}]
    /\ req \in [Proc -> Request]
    /\ dirty \in [Proc -> BOOLEAN]

\* Once revoke_session has deleted a session nothing brings it back: a
\* rotation that had read it before cannot write it again (WATCH/MULTI).
RevokedSessionStaysDead == \A s \in dead : session[s] = None

\* A revoked session never reappears in its user's list: the activity write of
\* touch_session, delayed past the revocation, uses ZADD XX.
RevokedRowStaysGone == \A s \in dead, u \in User : index[u][s] = 0

\* rotate_refresh has one winner: of all requests that present the same refresh
\* token, at most one is ever given a successor.
SingleWinner ==
    \A i, j \in Jti : from[i] # None /\ from[i] = from[j] => i = j

\* Every session that is within its recorded lifetime has its row in
\* user_sessions:{user_id}, so listing and "log out everywhere" reach it.
IndexComplete ==
    \A s \in Sid : session[s] # None /\ clock < session[s].expiresAt
                     => index[session[s].user][s] # 0

\* When revoke_all_sessions answers normally, every session that was within its
\* lifetime when it began is gone, whatever was rotated in the meantime.
RevokeAllComplete ==
    \A p \in Proc : req[p].result = "allRevoked"
                      => \A s \in req[p].goal : session[s] = None

\* "Log out everywhere" is complete and final, through the index alone: no live session
\* is missing there, none that was there at the start survives, no dead one returns.
LogoutEverywhere == IndexComplete /\ RevokeAllComplete /\ RevokedRowStaysGone

\* A request that is answered "refresh_token_reuse" leaves no session behind.
ReuseKillsSession ==
    \A p \in Proc : req[p].result = "reuse" => session[req[p].sid] = None

\* The optimistic retry of rotate_refresh settles by its second attempt: a
\* WatchError means the token was exchanged or the session is gone, so the
\* "concurrent_rotation" error is never raised.
RetrySettles ==
    \A p \in Proc : req[p].tries <= 2 /\ req[p].result # "concurrentRotation"

\* The Redis protocol implements the session life cycle: no interleaving of
\* rotations, revocations and expiries reopens a session or exchanges a token
\* that is not the current one.
Lifecycle == INSTANCE SessionLifecycle WITH
    holder <- [s \in Sid |-> IF session[s] = None THEN None ELSE session[s].jti],
    minted <- used,
    spent <- {from[n] : n \in {m \in Jti : from[m] # None}}

ImplementsLifecycle == Lifecycle!Spec

=============================================================================
