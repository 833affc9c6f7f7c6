------------------------------ MODULE Erasure ------------------------------
(***************************************************************************)
(* The right to be forgotten: DELETE /candidates/me/ (app/core/privacy.py) *)
(* beside everything that handles the same candidate at the same time:     *)
(* logins, authenticated requests and their user cache (app/core/deps.py), *)
(* profile edits, resume uploads (app/routers/resumes.py) and the workers  *)
(* that process resumes (app/tasks/resume_processing.py).                  *)
(*                                                                         *)
(* One candidate account is modelled.  A database transaction is a read    *)
(* step and a commit step: PostgreSQL runs at READ COMMITTED, no handler   *)
(* locks the rows it reads, and SQLAlchemy writes the columns whose value  *)
(* differs from the one it loaded.                                         *)
(***************************************************************************)
EXTENDS Naturals

CONSTANTS
    Resume,    \* resume rows (and their files and jobs)
    Req,       \* API requests in progress
    Worker,    \* workers of the resumes queue
    Pipeline,  \* the values of RESUME_PIPELINE among the workers
    Faults,    \* which of the failures below may happen in this instance
    None       \* a missing value

\* redis: cleaning up Redis fails;  storage: deleting a file fails;
\* crash: a process dies.
ASSUME ErasureAssumption ==
    /\ Pipeline \subseteq {"multi_agent", "linear"}
    /\ Faults \subseteq {"redis", "storage", "crash"}
    /\ None \notin Resume

VARIABLES
    erased,   \* users: e-mail and password replaced, is_active = false
    name,     \* candidates: "none" (no row), "identity" or "anonymous"
    row,      \* resumes
    file,     \* the files in storage
    job,      \* the RQ job of each resume
    session,  \* some session of the account is live
    cache,    \* session:user:{id}: "none", "identity" or "anonymous"
    done,     \* history: a deletion has been answered with 200
    lost,     \* history: resumes whose file a deletion could not delete, or knew of
              \* when its process died after the commit
    rewritten, \* history: resumes a job wrote to although a deletion had read them
    req,      \* local state of each request
    run       \* what each worker is doing

vars == <<erased, name, row, file, job, session, cache, done, lost,
          rewritten, req, run>>

Name == {"none", "identity", "anonymous"}

\* text: raw_text, its search tokens and parsed_data;  skills: skill_analysis
\* with or without employers and dates;  agent: agent_analysis is present.
Row == [url : {"live", "deleted"}, text : BOOLEAN,
        skills : {"none", "full", "anonymous"}, agent : BOOLEAN]

\* A missing row is no row.
ASSUME RowAssumption == None \notin Row

Op == {"none", "login", "edit", "upload", "erase"}

Request == [pc : {"idle", "create", "cached", "load", "store", "work", "save",
                  "insert", "enqueue", "commit", "revoke", "forget", "files"},
            op : Op, identity : BOOLEAN, resume : Resume \cup {None},
            name : Name, rows : [Resume -> Row \cup {None}]]

Blank == [pc |-> "idle", op |-> "none", identity |-> FALSE, resume |-> None,
          name |-> "none", rows |-> [r \in Resume |-> None]]

Run == [pc : {"idle", "lookup", "download", "analyse", "write"},
        resume : Resume \cup {None}, late : BOOLEAN,
        pipeline : Pipeline \cup {None}]

Idle == [pc |-> "idle", resume |-> None, late |-> FALSE, pipeline |-> None]

Init ==
    /\ erased = FALSE
    /\ name = "none"
    /\ row = [r \in Resume |-> None]
    /\ file = [r \in Resume |-> FALSE]
    /\ job = [r \in Resume |-> "none"]
    /\ session = FALSE
    /\ cache = "none"
    /\ done = FALSE
    /\ lost = {}
    /\ rewritten = {}
    /\ req = [q \in Req |-> Blank]
    /\ run = [w \in Worker |-> Idle]

At(q, op, pc) == req[q].op = op /\ req[q].pc = pc

Goto(q, pc) == req' = [req EXCEPT ![q].pc = pc]

Finish(q) == req' = [req EXCEPT ![q] = Blank]

data == <<name, row, file, job>>
store == <<session, cache>>
history == <<done, lost, rewritten>>

-----------------------------------------------------------------------------
(* Login and authentication *)

\* POST /login: the user row is found by e-mail and the password verified.
LoginRead(q) ==
    /\ At(q, "none", "idle")
    /\ ~erased
    /\ req' = [req EXCEPT ![q] = [Blank EXCEPT !.op = "login", !.pc = "create"]]
    /\ UNCHANGED <<erased, data, store, history, run>>

LoginCreate(q) ==
    /\ At(q, "login", "create")
    /\ session' = TRUE
    /\ Finish(q)
    /\ UNCHANGED <<erased, data, cache, history, run>>

\* get_current_user: the session is live, then the user cache is consulted.
\* Nothing looks at is_active.
Authenticate(q, op) ==
    /\ At(q, "none", "idle")
    /\ session
    /\ req' = [req EXCEPT ![q] = [Blank EXCEPT !.op = op, !.pc = "cached"]]
    /\ UNCHANGED <<erased, data, store, history, run>>

CacheRead(q) ==
    /\ req[q].pc = "cached"
    /\ req' = [req EXCEPT ![q].pc = IF cache = "none" THEN "load" ELSE "work",
                          ![q].identity = (cache = "identity")]
    /\ UNCHANGED <<erased, data, store, history, run>>

UserLoad(q) ==
    /\ req[q].pc = "load"
    /\ req' = [req EXCEPT ![q].pc = "store", ![q].identity = ~erased]
    /\ UNCHANGED <<erased, data, store, history, run>>

\* A Redis error is swallowed: the value is simply not cached.
CacheStore(q) ==
    /\ req[q].pc = "store"
    /\ \/ cache' = IF req[q].identity THEN "identity" ELSE "anonymous"
       \/ UNCHANGED cache
    /\ Goto(q, "work")
    /\ UNCHANGED <<erased, data, session, history, run>>

CacheExpires ==
    /\ cache # "none"
    /\ cache' = "none"
    /\ UNCHANGED <<erased, data, session, history, req, run>>

-----------------------------------------------------------------------------
(* Profile and upload *)

\* get_or_create_candidate_profile names a new profile after the e-mail.
ProfileAfter(q) ==
    IF name # "none" THEN name
    ELSE IF req[q].identity THEN "identity" ELSE "anonymous"

EditRead(q) ==
    /\ At(q, "edit", "work")
    /\ name' = ProfileAfter(q)
    /\ Goto(q, "commit")
    /\ UNCHANGED <<erased, row, file, job, store, history, run>>

\* A partial update: the name may be among the fields sent, or not.
EditCommit(q) ==
    /\ At(q, "edit", "commit")
    /\ name' \in {name, "identity"}
    /\ Finish(q)
    /\ UNCHANGED <<erased, row, file, job, store, history, run>>

UploadStart(q) ==
    /\ At(q, "upload", "work")
    /\ name' = ProfileAfter(q)
    /\ Goto(q, "save")
    /\ UNCHANGED <<erased, row, file, job, store, history, run>>

SaveFile(q, r) ==
    /\ At(q, "upload", "save")
    /\ row[r] = None /\ ~file[r]
    /\ file' = [file EXCEPT ![r] = TRUE]
    /\ req' = [req EXCEPT ![q].pc = "insert", ![q].resume = r]
    /\ UNCHANGED <<erased, name, row, job, store, history, run>>

UploadCommit(q) ==
    /\ At(q, "upload", "insert")
    /\ row' = [row EXCEPT ![req[q].resume] =
            [url |-> "live", text |-> FALSE, skills |-> "none", agent |-> FALSE]]
    /\ Goto(q, "enqueue")
    /\ UNCHANGED <<erased, name, file, job, store, history, run>>

\* Fire and forget; enqueue_task swallows errors.
Enqueue(q) ==
    /\ At(q, "upload", "enqueue")
    /\ \/ job' = [job EXCEPT ![req[q].resume] = "queued"]
       \/ UNCHANGED job
    /\ Finish(q)
    /\ UNCHANGED <<erased, name, row, file, store, history, run>>

-----------------------------------------------------------------------------
(* DELETE /candidates/me/ : anonymize_candidate_account *)

\* The SELECT of the candidate's resumes; without a profile there are none.
Collected == IF name = "none" THEN [r \in Resume |-> None] ELSE row

EraseRead(q) ==
    /\ At(q, "erase", "work")
    /\ req' = [req EXCEPT ![q].pc = "commit", ![q].name = name,
                          ![q].rows = Collected]
    /\ UNCHANGED <<erased, data, store, history, run>>

Anonymised(old) ==
    [old EXCEPT !.url = "deleted", !.text = FALSE,
                !.skills = IF @ = "none" THEN "none" ELSE "anonymous"]

\* The unit of work: only the columns that differ from the loaded row.
Flush(cur, old, new) ==
    [url |-> IF new.url = old.url THEN cur.url ELSE new.url,
     text |-> IF new.text = old.text THEN cur.text ELSE new.text,
     skills |-> IF new.skills = old.skills THEN cur.skills ELSE new.skills,
     agent |-> IF new.agent = old.agent THEN cur.agent ELSE new.agent]

EraseCommit(q) ==
    LET old == req[q].rows IN
    /\ At(q, "erase", "commit")
    /\ erased' = TRUE
    /\ name' = IF req[q].name = "none" THEN name ELSE "anonymous"
    /\ row' = [r \in Resume |-> IF old[r] = None THEN row[r]
                                ELSE Flush(row[r], old[r], Anonymised(old[r]))]
    /\ Goto(q, "revoke")
    /\ UNCHANGED <<file, job, store, history, run>>

\* revoke_all_sessions; its error is logged.
EraseRevoke(q) ==
    /\ At(q, "erase", "revoke")
    /\ \/ session' = FALSE
       \/ "redis" \in Faults /\ UNCHANGED session
    /\ Goto(q, "forget")
    /\ UNCHANGED <<erased, data, cache, history, run>>

EraseForget(q) ==
    /\ At(q, "erase", "forget")
    /\ \/ cache' = "none"
       \/ "redis" \in Faults /\ UNCHANGED cache
    /\ Goto(q, "files")
    /\ UNCHANGED <<erased, data, session, history, run>>

\* Mutant: the addresses are collected after the rows were anonymised.
AddressesLate(q) ==
    {r \in Resume : req[q].rows[r] # None /\ row[r].url = "live"}

\* The addresses read that were not yet marked "deleted:".
Addresses(q) ==
    {r \in Resume : req[q].rows[r] # None /\ req[q].rows[r].url = "live"}

\* delete_file for each of them.
EraseFiles(q) ==
    LET urls == Addresses(q) IN
    /\ At(q, "erase", "files")
    /\ \E kept \in SUBSET urls :
         /\ kept # {} => "storage" \in Faults
         /\ file' = [r \in Resume |-> file[r] /\ r \notin urls \ kept]
         /\ lost' = lost \cup kept
    /\ done' = TRUE
    /\ Finish(q)
    /\ UNCHANGED <<erased, name, row, job, store, rewritten, run>>

\* The API process dies.  Before its commit a deletion has done nothing.
Crash(q) ==
    /\ "crash" \in Faults
    /\ req[q].pc # "idle"
    /\ lost' = lost \cup IF req[q].pc \in {"revoke", "forget", "files"} THEN Addresses(q) ELSE {}
    /\ Finish(q)
    /\ UNCHANGED <<erased, data, store, done, rewritten, run>>

-----------------------------------------------------------------------------
(* process_resume_task.  multi_agent looks the row up by its file_url before *)
(* the download and writes by id; linear looks it up just before it writes.  *)

Take(w, r, p) ==
    /\ run[w].pc = "idle"
    /\ job[r] = "queued"
    /\ job' = [job EXCEPT ![r] = "started"]
    /\ run' = [run EXCEPT ![w] =
            [pc |-> IF p = "linear" THEN "download" ELSE "lookup",
             resume |-> r, late |-> row[r].url = "deleted", pipeline |-> p]]
    /\ UNCHANGED <<erased, name, row, file, store, history, req>>

JobReturns(w) ==
    /\ job' = [job EXCEPT ![run[w].resume] = "finished"]
    /\ run' = [run EXCEPT ![w] = Idle]

\* Mutant: the row is found by its application instead of its address.
FoundAnyway(r) == row[r] # None

\* SELECT ... WHERE file_url = the address the job was queued with.
Found(r) == row[r] # None /\ row[r].url = "live"

Lookup(w) ==
    /\ run[w].pc = "lookup"
    /\ IF Found(run[w].resume)
       THEN /\ run' = [run EXCEPT ![w].pc =
                    IF run[w].pipeline = "linear" THEN "write" ELSE "download"]
            /\ UNCHANGED job
       ELSE JobReturns(w)
    /\ UNCHANGED <<erased, name, row, file, store, history, req>>

\* A missing file ends the job; so does an unreachable one.
Download(w) ==
    /\ run[w].pc = "download"
    /\ \/ /\ file[run[w].resume]
          /\ run' = [run EXCEPT ![w].pc = "analyse"]
          /\ UNCHANGED job
       \/ JobReturns(w)
    /\ UNCHANGED <<erased, name, row, file, store, history, req>>

\* Extraction, parsing and the agents; an unreadable file ends the job.
Analyse(w) ==
    /\ run[w].pc = "analyse"
    /\ \/ /\ run' = [run EXCEPT ![w].pc =
                    IF run[w].pipeline = "linear" THEN "lookup" ELSE "write"]
          /\ UNCHANGED job
       \/ JobReturns(w)
    /\ UNCHANGED <<erased, name, row, file, store, history, req>>

DeletedRow(r) == row[r] # None /\ row[r].url = "deleted"

\* A deletion has read the row and not yet committed.
Awaited(r) == \E q \in Req : At(q, "erase", "commit") /\ req[q].rows[r] # None

\* The results are written to the row found earlier, whatever it says now.
WriteResult(w) ==
    LET r == run[w].resume IN
    /\ run[w].pc = "write"
    /\ \E skills \in {row[r].skills, "full"} :
         row' = [row EXCEPT ![r].text = TRUE, ![r].skills = skills,
                            ![r].agent = (@ \/ run[w].pipeline = "multi_agent")]
    /\ rewritten' = rewritten \cup IF DeletedRow(r) \/ Awaited(r) THEN {r} ELSE {}
    /\ JobReturns(w)
    /\ UNCHANGED <<erased, name, file, store, done, lost, req>>

\* The worker dies or the database refuses: RQ runs the job again.
Retry(w) ==
    /\ "crash" \in Faults
    /\ run[w].pc # "idle"
    /\ job' = [job EXCEPT ![run[w].resume] = "queued"]
    /\ run' = [run EXCEPT ![w] = Idle]
    /\ UNCHANGED <<erased, name, row, file, store, history, req>>

-----------------------------------------------------------------------------

RequestStep(q) ==
    \/ LoginRead(q)
    \/ LoginCreate(q)
    \/ \E op \in {"edit", "upload", "erase"} : Authenticate(q, op)
    \/ CacheRead(q)
    \/ UserLoad(q)
    \/ CacheStore(q)
    \/ EditRead(q)
    \/ EditCommit(q)
    \/ UploadStart(q)
    \/ \E r \in Resume : SaveFile(q, r)
    \/ UploadCommit(q)
    \/ Enqueue(q)
    \/ EraseRead(q)
    \/ EraseCommit(q)
    \/ EraseRevoke(q)
    \/ EraseForget(q)
    \/ EraseFiles(q)
    \/ Crash(q)

WorkerStep(w) ==
    \/ \E r \in Resume, p \in Pipeline : Take(w, r, p)
    \/ Lookup(w)
    \/ Download(w)
    \/ Analyse(w)
    \/ WriteResult(w)
    \/ Retry(w)

Next ==
    \/ CacheExpires
    \/ \E q \in Req : RequestStep(q)
    \/ \E w \in Worker : WorkerStep(w)

Spec == Init /\ [][Next]_vars

-----------------------------------------------------------------------------
(* Properties *)

\* A deletion has been answered and none is in progress.
Forgotten == done /\ \A q \in Req : req[q].op # "erase"

\* Every variable keeps its shape.
TypeOK ==
    /\ erased \in BOOLEAN
    /\ name \in Name
    /\ row \in [Resume -> Row \cup {None}]
    /\ file \in [Resume -> BOOLEAN]
    /\ job \in [Resume -> {"none", "queued", "started", "finished"}]
    /\ session \in BOOLEAN
    /\ cache \in Name
    /\ done \in BOOLEAN
    /\ lost \subseteq Resume
    /\ rewritten \subseteq Resume
    /\ req \in [Req -> Request]
    /\ run \in [Worker -> Run]

\* A job that starts, or is run again, after the account was erased never gets
\* to write: the address it was queued with no longer finds a row.
LateJobHarmless == \A w \in Worker : run[w].late => run[w].pc # "write"

\* Once a deletion has been answered and none is in progress, no file is left behind
\* an address that was replaced, also when deletions of the account overlapped and
\* others died: the only files left are those whose deletion failed, or whose
\* addresses died with a process after its commit.
FilesGone == Forgotten => \A r \in Resume \ lost : DeletedRow(r) => ~file[r]

FilesErased == TypeOK /\ FilesGone

\* A row whose address was replaced keeps neither text nor employers, unless a job that
\* had found the row before the deletion's commit wrote to it after the deletion had
\* read it: no older deletion, upload, edit or retried job brings them back.
TextGone ==
    \A r \in Resume \ rewritten :
        DeletedRow(r) => ~row[r].text /\ row[r].skills # "full"

ContentErased == TextGone /\ LateJobHarmless

=============================================================================
