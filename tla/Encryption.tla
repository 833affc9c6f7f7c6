----------------------------- MODULE Encryption -----------------------------
(* Encryption of personal data at rest and its key rotation, while the       *)
(* service runs: src/app/core/crypto.py (key ring, column types, blind index,*)
(* the commands encrypt-legacy and reencrypt), the migration b8e4d2f1a9c6    *)
(* that encrypts the existing rows, and the requests and jobs that write     *)
(* encrypted columns meanwhile.                                              *)
(*                                                                           *)
(* A deployment is a number: 1 is the version before the migration (no       *)
(* encryption), 2 the first encrypting one, 3 the ring with the new key in   *)
(* front of the old, 4 the ring without the old key.  A process keeps the    *)
(* ring it started with (lru_cache), so during a rolling update two rings    *)
(* serve side by side.  parsed_data is always written together with raw_text *)
(* and moves with it; last_name and location move with first_name and phone. *)
EXTENDS Integers, Sequences, FiniteSets, FiniteSetsExt, SequencesExt

CONSTANTS
    NULL,           \* SQL NULL
    Candidates,     \* ids of candidate rows (naturals: the order of the ids)
    Resumes,        \* ids of resume rows
    OwnerOf,        \* the candidate of a resume
    TextOf,         \* the raw words of the text of a resume's file
    SplitWord,      \* the normalised words a raw word breaks into
    Processed,      \* resumes the old version has processed
    Uploads,        \* resumes whose processing job is in the queue
    Editors,        \* candidates that edit their profile
    Leavers,        \* candidates that may delete their account
    Instances,      \* API and worker processes
    BatchSize       \* rows of one batch of a sweep

ASSUME EncryptionAssumption ==
    /\ Candidates \subseteq Nat \ {0} /\ Resumes \subseteq Nat \ {0}
    /\ IsFiniteSet(Candidates) /\ IsFiniteSet(Resumes)
    /\ OwnerOf \in [Resumes -> Candidates]
    /\ DOMAIN TextOf = Resumes
    /\ Processed \subseteq Resumes
    /\ Instances # {}
    /\ BatchSize \in Nat \ {0}

VARIABLES
    candidates,     \* the candidates table: its encrypted columns
    resumes,        \* the resumes table: encrypted columns and search_tokens
    deploy,         \* the deployment in progress or in service
    version,        \* the deployment each process was started from
    due,            \* the sweeps the operator still has to run for it
    sweep,          \* the running sweep
    committed,      \* resumes whose text the last request or job left in place
    erased          \* candidates whose account deletion committed

dataVars == <<candidates, resumes, committed, erased>>
deployVars == <<deploy, version, due>>
encVars == <<candidates, resumes, deploy, version, due, sweep, committed, erased>>
-----------------------------------------------------------------------------
(* Keys: the ring of each deployment and the key of the blind index. *)

Plain == "plain"
Keyring == <<[keys |-> <<>>,             index |-> "none"],
             [keys |-> <<"k1">>,         index |-> "b1"],
             [keys |-> <<"k2", "k1">>,   index |-> "b2"],
             [keys |-> <<"k2">>,         index |-> "b2"]>>

\* What deploy.sh and the operator run once every container is replaced.
SweepsOf == <<<<>>, <<"legacy">>, <<"legacy", "all">>, <<"legacy">>>>

\* What a column holds: the words of a value and the key they are under.
Text == Range(TextOf)
Val == {{"old"}, {"new"}, {"anon"}, {"analysis"}} \union Text
Cell == [key : {Plain, "k1", "k2"}, val : Val]

is_encrypted(cell) == cell # NULL /\ cell.key # Plain

\* The first key of the ring encrypts; a NULL stays NULL.
encrypt_text(ring, val) ==
    IF val = NULL THEN NULL ELSE [key |-> Head(ring.keys), val |-> val]

\* The version before the migration stores what it is given.
Bind(ring, val) ==
    IF ring.keys = <<>> THEN [key |-> Plain, val |-> val] ELSE encrypt_text(ring, val)

\* Every key of the ring decrypts, a plaintext value is returned as it is and
\* the version before the migration decrypts nothing.
Readable(ring, cell) ==
    (is_encrypted(cell) /\ ring.keys # <<>>) => cell.key \in Range(ring.keys)

Value(cell) == IF cell = NULL THEN NULL ELSE cell.val

\* The words of a text, normalised the way a search is.
resume_search_words(text) == UNION {SplitWord[w] : w \in text}

blind_index_token(index, word) == <<index, word>>

blind_index_tokens(index, text) ==
    IF text = NULL THEN NULL
    ELSE {blind_index_token(index, w) : w \in resume_search_words(text)}

\* NULL is no value, no cell and no set of tokens.
ASSUME NullAssumption ==
    /\ NULL \notin Val /\ NULL \notin Cell
    /\ \A t \in Text, x \in {"b1", "b2"} : blind_index_tokens(x, t) # NULL

ENCRYPTED_FIELDS == [candidates |-> {"first_name", "phone"},
                     resumes |-> {"raw_text"}]

\* Every column of a row the ORM decrypts when it loads the row.
Columns == [candidates |-> {"first_name", "phone"},
            resumes |-> {"raw_text", "agent_analysis"}]

Loads(ring, table, row) == \A f \in Columns[table] : Readable(ring, row[f])
-----------------------------------------------------------------------------
(* The migration: one transaction that holds the tables' exclusive locks.    *)

Settled == \A i \in Instances : version[i] = deploy

Idle == [pc |-> "idle", kind |-> "legacy", table |-> "candidates", last |-> 0, batch |-> <<>>]

EncryptOnce(cell) ==
    IF cell = NULL \/ is_encrypted(cell) THEN cell ELSE encrypt_text(Keyring[2], cell.val)

DecryptOnce(cell) ==
    IF is_encrypted(cell) THEN [cell EXCEPT !.key = Plain] ELSE cell

upgrade ==
    /\ deploy = 1
    /\ deploy' = 2
    /\ due' = SweepsOf[2]
    /\ candidates' = [c \in Candidates |->
                        [f \in DOMAIN candidates[c] |-> EncryptOnce(candidates[c][f])]]
    /\ resumes' = [r \in Resumes |->
                     [resumes[r] EXCEPT
                        !.raw_text = EncryptOnce(@),
                        !.search_tokens =
                            blind_index_tokens(Keyring[2].index, Value(DecryptOnce(resumes[r].raw_text)))]]
    /\ UNCHANGED <<version, sweep, committed, erased>>

\* Rolling the release back before any new container serves.
downgrade ==
    /\ deploy = 2
    /\ \A i \in Instances : version[i] = 1
    /\ deploy' = 1
    /\ due' = SweepsOf[1]
    /\ candidates' = [c \in Candidates |->
                        [f \in DOMAIN candidates[c] |-> DecryptOnce(candidates[c][f])]]
    /\ resumes' = [r \in Resumes |->
                     [resumes[r] EXCEPT !.raw_text = DecryptOnce(@), !.search_tokens = NULL]]
    /\ UNCHANGED <<version, sweep, committed, erased>>

\* The operator deploys the next key ring.
Deploy ==
    /\ deploy \in {2, 3}
    /\ Settled
    /\ due = <<>>
    /\ deploy' = deploy + 1
    /\ due' = SweepsOf[deploy + 1]
    /\ UNCHANGED <<dataVars, version, sweep>>

\* The rolling update replaces one process.
Roll(i) ==
    /\ version[i] < deploy
    /\ version' = [version EXCEPT ![i] = deploy]
    /\ UNCHANGED <<dataVars, deploy, due, sweep>>
-----------------------------------------------------------------------------
(* Requests and jobs of a process i. *)

\* PUT /candidates/me: a partial update; only the fields sent are written.
UpdateProfile(i, c, f) ==
    /\ c \in Editors \ erased
    /\ Loads(Keyring[version[i]], "candidates", candidates[c])
    /\ candidates' = [candidates EXCEPT ![c][f] = Bind(Keyring[version[i]], {"new"})]
    /\ UNCHANGED <<resumes, committed, erased, deployVars, sweep>>

\* The job of an upload, first run or retry: it stores the text of the file.
\* The listener of raw_text rebuilds the tokens; the version before the
\* migration knows neither the tokens nor the agents' analysis.
ProcessResume(i, r) ==
    LET ring == Keyring[version[i]]
        row == resumes[r] IN
    /\ r \in Uploads
    /\ OwnerOf[r] \notin erased
    /\ Loads(ring, "resumes", row)
    /\ resumes' = [resumes EXCEPT ![r] =
           IF version[i] = 1
           THEN [row EXCEPT !.raw_text = Bind(ring, TextOf[r]), !.skill_analysis = TRUE]
           ELSE [raw_text |-> Bind(ring, TextOf[r]),
                 agent_analysis |-> Bind(ring, {"analysis"}),
                 search_tokens |-> blind_index_tokens(ring.index, TextOf[r]),
                 skill_analysis |-> TRUE]]
    /\ committed' = committed \union {r}
    /\ UNCHANGED <<candidates, erased, deployVars, sweep>>

\* DELETE /candidates/me/, which the version before the migration lacks.
Anonymise(i, c) ==
    LET ring == Keyring[version[i]]
        own == {r \in Resumes : OwnerOf[r] = c} IN
    /\ c \in Leavers \ erased
    /\ version[i] > 1
    /\ Loads(ring, "candidates", candidates[c])
    /\ \A r \in own : Loads(ring, "resumes", resumes[r])
    /\ candidates' = [candidates EXCEPT ![c] =
                        [first_name |-> Bind(ring, {"anon"}), phone |-> NULL]]
    /\ resumes' = [r \in Resumes |->
                     IF r \in own
                     THEN [resumes[r] EXCEPT !.raw_text = NULL, !.search_tokens = NULL]
                     ELSE resumes[r]]
    /\ committed' = committed \ own
    /\ erased' = erased \union {c}
    /\ UNCHANGED <<deployVars, sweep>>
-----------------------------------------------------------------------------
(* python -m app.core.crypto encrypt-legacy | reencrypt *)

Table(t) == IF t = "candidates" THEN candidates ELSE resumes

\* Mutant: the conditions on the columns joined by AND.
LegacyEverywhere(t, row) == \A f \in ENCRYPTED_FIELDS[t] : row[f] # NULL /\ ~is_encrypted(row[f])

\* LIKE on a NULL is not true: a NULL column makes no row a legacy one.
Legacy(t, row) == \E f \in ENCRYPTED_FIELDS[t] : row[f] # NULL /\ ~is_encrypted(row[f])

\* The ids of the next batch: the first BatchSize after last_id in the order
\* of the ids, for encrypt-legacy only those of legacy rows.
Batch(s) ==
    LET rows == {id \in DOMAIN Table(s.table) :
                    id > s.last /\ (s.kind = "legacy" => Legacy(s.table, Table(s.table)[id]))}
    IN {id \in rows : Cardinality({o \in rows : o < id}) < BatchSize}

SweepStart ==
    /\ sweep.pc = "idle"
    /\ due # <<>>
    /\ Settled
    /\ sweep' = [Idle EXCEPT !.pc = "read", !.kind = Head(due)]
    /\ UNCHANGED <<dataVars, deployVars>>

\* The rows of a batch are loaded, and decrypted, into the session.
SweepRead ==
    LET ids == Batch(sweep)
        rows == Table(sweep.table) IN
    /\ sweep.pc = "read"
    /\ ids # {}
    /\ \A id \in ids : Loads(Keyring[deploy], sweep.table, rows[id])
    /\ sweep' = [sweep EXCEPT !.pc = "commit", !.batch = [id \in ids |-> rows[id]]]
    /\ UNCHANGED <<dataVars, deployVars>>

\* No rows left: the next table, or the end of the command.
SweepTableDone ==
    /\ sweep.pc = "read"
    /\ Batch(sweep) = {}
    /\ IF sweep.table = "candidates"
       THEN sweep' = [sweep EXCEPT !.table = "resumes", !.last = 0] /\ UNCHANGED due
       ELSE sweep' = Idle /\ due' = Tail(due)
    /\ UNCHANGED <<dataVars, deploy, version>>

\* flag_modified makes the flush write every encrypted column from the copy.
Rewritten(row, copy, table) ==
    [f \in DOMAIN row |-> IF f \in ENCRYPTED_FIELDS[table]
                          THEN encrypt_text(Keyring[deploy], Value(copy[f]))
                          ELSE row[f]]

\* Mutant: the sweep leaves the blind index as it is.
TokensKept(row, copy) == row.search_tokens

\* The tokens are assigned, so the flush writes them only when they differ
\* from the ones that were loaded.
NewTokens(row, copy) ==
    LET tokens == blind_index_tokens(Keyring[deploy].index, Value(copy.raw_text))
    IN IF tokens = copy.search_tokens THEN row.search_tokens ELSE tokens

SweepCommit ==
    LET copies == sweep.batch IN
    /\ sweep.pc = "commit"
    /\ IF sweep.table = "candidates"
       THEN /\ candidates' = [c \in Candidates |->
                                IF c \in DOMAIN copies
                                THEN Rewritten(candidates[c], copies[c], "candidates")
                                ELSE candidates[c]]
            /\ UNCHANGED resumes
       ELSE /\ resumes' = [r \in Resumes |->
                             IF r \in DOMAIN copies
                             THEN [Rewritten(resumes[r], copies[r], "resumes") EXCEPT
                                     !.search_tokens = NewTokens(resumes[r], copies[r])]
                             ELSE resumes[r]]
            /\ UNCHANGED candidates
    /\ sweep' = [sweep EXCEPT !.pc = "read", !.last = Max(DOMAIN copies), !.batch = <<>>]
    /\ UNCHANGED <<committed, erased, deployVars>>

\* The command dies; nothing of the open batch is kept and it is run again.
SweepCrash ==
    /\ sweep.pc # "idle"
    /\ sweep' = Idle
    /\ UNCHANGED <<dataVars, deployVars>>
-----------------------------------------------------------------------------
EncInit ==
    /\ candidates = [c \in Candidates |->
                       [first_name |-> [key |-> Plain, val |-> {"old"}], phone |-> NULL]]
    /\ resumes = [r \in Resumes |->
                    [raw_text |-> IF r \in Processed THEN [key |-> Plain, val |-> TextOf[r]] ELSE NULL,
                     agent_analysis |-> NULL,
                     search_tokens |-> NULL,
                     skill_analysis |-> r \in Processed]]
    /\ deploy = 1
    /\ version = [i \in Instances |-> 1]
    /\ due = SweepsOf[1]
    /\ sweep = Idle
    /\ committed = Processed
    /\ erased = {}

EncNext ==
    \/ upgrade \/ downgrade \/ Deploy
    \/ \E i \in Instances : Roll(i)
    \/ \E i \in Instances, c \in Candidates, f \in {"first_name", "phone"} : UpdateProfile(i, c, f)
    \/ \E i \in Instances, r \in Resumes : ProcessResume(i, r)
    \/ \E i \in Instances, c \in Candidates : Anonymise(i, c)
    \/ SweepStart \/ SweepRead \/ SweepTableDone \/ SweepCommit \/ SweepCrash
-----------------------------------------------------------------------------
EncTypeOK ==
    /\ candidates \in [Candidates -> [first_name : Cell, phone : Cell \union {NULL}]]
    /\ \A r \in Resumes :
          /\ resumes[r].raw_text \in Cell \union {NULL}
          /\ resumes[r].agent_analysis \in Cell \union {NULL}
          /\ resumes[r].skill_analysis \in BOOLEAN
    /\ deploy \in 1..4
    /\ version \in [Instances -> 1..4]
    /\ sweep.pc \in {"idle", "read", "commit"}
    /\ committed \subseteq Resumes
    /\ erased \subseteq Leavers

Stored(fields) ==
    {candidates[c][f] : c \in Candidates, f \in fields["candidates"]}
        \union {resumes[r][f] : r \in Resumes, f \in fields["resumes"]}

\* No rotation strands data: whatever the ring in service has dropped, every
\* value of a swept column opens with the ring of each process that is up to
\* date (crypto.py, key rotation steps 1 to 3), and with the plain reads of the
\* old version after a downgrade.
NothingStranded ==
    \A cell \in Stored(ENCRYPTED_FIELDS) :
        /\ Readable(Keyring[deploy], cell)
        /\ deploy = 1 => ~is_encrypted(cell)

\* Once encrypt-legacy has run for a deployment, no value an old container
\* wrote in the clear during the rolling update is left (deploy.sh step 4).
NoPlaintextLeft ==
    (deploy > 2 \/ (deploy = 2 /\ due = <<>>)) =>
        \A cell \in Stored(ENCRYPTED_FIELDS) : cell # NULL => is_encrypted(cell)

\* Encryption as a whole: the types, no stranded value and no plaintext left.
RotationSafe == EncTypeOK /\ NothingStranded /\ NoPlaintextLeft

\* The rotation as the documentation promises it: after the old key is removed
\* every encrypted column of every row can still be read.
RotationKeepsReadable ==
    \A cell \in Stored(Columns) : Readable(Keyring[deploy], cell)
=============================================================================
