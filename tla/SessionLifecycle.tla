-------------------------- MODULE SessionLifecycle --------------------------
(***************************************************************************)
(* What app/core/sessions.py promises about a session, with Redis, time    *)
(* and concurrency left out: a session is opened once, holds exactly one   *)
(* refresh token that can be exchanged, every exchange replaces it by one  *)
(* never seen before, and a closed session stays closed.                   *)
(***************************************************************************)
CONSTANTS Sid, Jti, None

VARIABLES
    holder,  \* the one exchangeable token of each open session, or None
    minted,  \* the session and token ids that have ever been given out
    spent    \* the tokens that have been exchanged

vars == <<holder, minted, spent>>

Init ==
    /\ holder = [s \in Sid |-> None]
    /\ minted = {}
    /\ spent = {}

Open(s, n) ==
    /\ s \notin minted /\ n \notin minted
    /\ holder' = [holder EXCEPT ![s] = n]
    /\ minted' = minted \cup {s, n}
    /\ UNCHANGED spent

Exchange(s, n) ==
    /\ holder[s] # None
    /\ holder[s] \notin spent
    /\ n \notin minted
    /\ holder' = [holder EXCEPT ![s] = n]
    /\ minted' = minted \cup {n}
    /\ spent' = spent \cup {holder[s]}

\* Revocation closes one session; the passage of time may close several.
Close(S) ==
    /\ \A s \in S : holder[s] # None
    /\ holder' = [s \in Sid |-> IF s \in S THEN None ELSE holder[s]]
    /\ UNCHANGED <<minted, spent>>

Next ==
    \/ \E s \in Sid, n \in Jti : Open(s, n) \/ Exchange(s, n)
    \/ \E S \in SUBSET Sid : Close(S)

Spec == Init /\ [][Next]_vars

=============================================================================
