-------------------------- MODULE TenantMigration ---------------------------
(***************************************************************************)
(* Migration d2f6b8a41c37, which turns the database of one organisation    *)
(* into one of many, and the requests of the new version after it.         *)
(*                                                                         *)
(* The migration is a script of statements in autocommit mode: each takes  *)
(* effect alone, any of them may be the last of a run that dies or that    *)
(* does not get its lock, and the next run starts from the first one.      *)
(* While it runs the old version of the program may go on writing rows     *)
(* that know nothing of tenants.                                           *)
(***************************************************************************)
EXTENDS TenantAccess, SequencesExt

CONSTANTS Databases,        \* possible contents before the migration
          DefaultIds,       \* ids the default organisation may get
          BatchSize, MaxLockAttempts,
          LiveIds,          \* ids of rows the old version writes meanwhile
          NewIds,           \* ids of rows the new version writes afterwards
          MaxCrashes

\* A row has these columns and no others.
IsRow(r) == r = [table |-> r.table, up |-> r.up, cand |-> r.cand, company |-> r.company,
                 at |-> r.at, role |-> r.role, tenant |-> r.tenant]

\* A foreign key names a row of the other table, a tenant is a company, and created_at is
\* a moment.
Keys(d, r) ==
    /\ r.tenant \in RowsOf(d, "companies") \cup {NULL} /\ r.at \in Nat
    /\ r.table = "jobs" =>
          r.up \in RowsOf(d, "users") /\ r.company \in RowsOf(d, "companies") \cup {NULL}
    /\ r.table = "applications" => r.up \in RowsOf(d, "jobs")
    /\ r.table \in {"interviews", "status_history", "interview_question_sets"} =>
          r.up \in RowsOf(d, "applications")
    /\ r.table = "interview_questions" => r.up \in RowsOf(d, "interview_question_sets")

StoredTables == Operational \cup {"users", "companies", "candidates", "skills"}

\* A database of the version before, without tenants.  The applications of a candidate
\* are ordered by created_at and id, whose rank at is; those written later come after.
\* At most one company bears the name of the default organisation.  The role of a skill
\* is its name in lower case, and two names may differ in case only.
IsDatabase(d) ==
    /\ \A x \in DOMAIN d : IsRow(d[x]) /\ Keys(d, d[x]) /\ d[x].tenant = NULL /\ d[x].table \in StoredTables
    /\ \A x \in RowsOf(d, "applications") :
          /\ d[x].at < 9
          /\ \A y \in RowsOf(d, "applications") : d[x].cand = d[y].cand /\ d[x].at = d[y].at => x = y
    /\ \A x, y \in RowsOf(d, "companies") : d[x].role = "default" /\ d[y].role = "default" => x = y

RowIds == (UNION {DOMAIN d : d \in Databases}) \cup DefaultIds \cup LiveIds \cup NewIds

\* The ids of new rows are fresh, and there is one for the default organisation; neither
\* an id nor a token is NULL.
ASSUME MigrationAssumption ==
    /\ BatchSize \in Nat \ {0} /\ MaxLockAttempts \in Nat \ {0} /\ MaxCrashes \in Nat
    /\ \A d \in Databases :
          /\ IsDatabase(d)
          /\ DOMAIN d \cap NewIds = {}
          /\ \E x \in DefaultIds : x \notin DOMAIN d \cup LiveIds \cup NewIds
    /\ NULL \notin RowIds /\ NULL \notin [sub : RowIds, tid : RowIds \cup {NULL}]

VARIABLES
    db,       \* all rows
    schema,   \* columns, constraints, indexes, policies
    pc,       \* the statement of the script the run is at; one past the end: done
    run,      \* the run's own memory: attempts for a lock, the cached tenant, an index
    failed,   \* why the last run ended: "no", "killed", "lock", "check", "unique", "duplicate"
    crashes,  \* how many runs have ended early
    live,     \* history: ids of the rows written by the old version meanwhile
    denied    \* history: ids of the rows a request of the new version could not write

migrationVars == <<db, schema, pc, run, failed, crashes, live, denied>>
book == <<failed, crashes, live, denied>>

-----------------------------------------------------------------------------
(* The script *)

AllTables == OPTIONAL_TENANT_TABLES \o TENANT_TABLES

Stmt(op, table) == [op |-> op, table |-> table, policy |-> NULL]
Each(tables, ops) ==
    [k \in 1 .. Len(tables) * Len(ops) |->
        Stmt(ops[((k - 1) % Len(ops)) + 1], tables[((k - 1) \div Len(ops)) + 1])]

\* Mutant: applications before jobs.
BackfillsSwapped ==
    Each(<<"users", "applications", "jobs">> \o SubSeq(TENANT_TABLES, 3, Len(TENANT_TABLES)),
         <<"backfill", "orphans">>)

\* _backfill_existing_rows: parents before children.
Backfills == Each(<<"users">> \o TENANT_TABLES, <<"backfill", "orphans">>)

\* _enforce_constraints
Constraints ==
    Each(AllTables, <<"fk_add", "fk_validate">>)
    \o Each(TENANT_TABLES, <<"check_drop", "check_add", "check_validate", "not_null", "check_drop">>)
    \o Each(AllTables \o <<"skill_names">>, <<"index">>)

\* _create_policies
Policies ==
    [k \in 1 .. 2 * Len(POLICIES) |->
        LET p == POLICIES[(k + 1) \div 2]
        IN  [op |-> IF k % 2 = 1 THEN "policy_drop" ELSE "policy_create",
             table |-> p.table, policy |-> p]]
    \o Each(RLS_TABLES, <<"enable">>)

\* upgrade; the role, the functions and the privileges are created or replaced.
Script == Each(AllTables, <<"column">>) \o Backfills \o Constraints \o Policies

Done == pc = Len(Script) + 1
Running == failed = "no" /\ ~Done
At(op) == Running /\ Script[pc].op = op
T == Script[pc].table

Fresh == [attempt |-> 1, dflt |-> NULL, building |-> FALSE]
\* The statement took effect: on to the next one.
Advance == pc' = pc + 1 /\ run' = [run EXCEPT !.attempt = 1, !.building = FALSE]

MigrationInit ==
    /\ db \in Databases
    /\ schema = [column |-> {}, fk |-> {}, fkValid |-> {}, check |-> {}, checkValid |-> {},
                 notNull |-> {}, index |-> {}, indexValid |-> {}, policy |-> {}, rls |-> {}]
    /\ pc = 1 /\ run = Fresh /\ failed = "no" /\ crashes = 0
    /\ live = {} /\ denied = {}

\* The database with more rows.
With(new) == [x \in DOMAIN db \cup DOMAIN new |-> IF x \in DOMAIN new THEN new[x] ELSE db[x]]

\* An error ends the run.
Raise(why) == failed' = why /\ UNCHANGED <<db, schema, pc, run, crashes, live, denied>>

-----------------------------------------------------------------------------
(* Columns and data *)

AddColumn ==
    /\ At("column")
    /\ schema' = [schema EXCEPT !.column = @ \cup {T}]
    /\ Advance
    /\ UNCHANGED <<db, book>>

Untenanted(table) == {x \in RowsOf(db, table) : db[x].tenant = NULL}

\* ORDER BY created_at, id LIMIT 1
Oldest(ids) == CHOOSE x \in ids : \A y \in ids : db[x].at <= db[y].at

\* The smallest id of the companies the user owns.
OwnedCompany(u) ==
    LET own == {c \in RowsOf(db, "companies") : db[c].up = u}
    IN  IF own = {} THEN NULL ELSE Oldest(own)

\* Mutant: the organisation of the author comes before that of the job.
NewTenantAuthorFirst(x) ==
    LET row == db[x]
        apps == {a \in RowsOf(db, "applications") : db[a].cand = row.cand}
    IN  CASE row.table = "users" -> OwnedCompany(x)
          [] row.table = "jobs" -> IF db[row.up].tenant # NULL THEN db[row.up].tenant ELSE row.company
          [] row.table = "resumes" -> IF apps = {} THEN NULL ELSE db[Oldest(apps)].tenant
          [] OTHER -> db[row.up].tenant

\* The tenant the source query of a table gives a row: the company a user owns, the
\* job's company or else that of its author, the application's job, the candidate's
\* oldest application, or the tenant of the parent.
NewTenant(x) ==
    LET row == db[x]
        apps == {a \in RowsOf(db, "applications") : db[a].cand = row.cand}
    IN  CASE row.table = "users" -> OwnedCompany(x)
          [] row.table = "jobs" -> IF row.company # NULL THEN row.company ELSE db[row.up].tenant
          [] row.table = "resumes" -> IF apps = {} THEN NULL ELSE db[Oldest(apps)].tenant
          [] OTHER -> db[row.up].tenant

\* Mutant: users that own no company are not left out.
SourceUnfiltered(table) ==
    {x \in Untenanted(table) :
        CASE table = "users" -> db[x].role # "Candidate"
          [] table \in {"jobs", "applications"} -> NewTenant(x) # NULL
          [] table = "resumes" -> \E a \in RowsOf(db, "applications") : db[a].cand = db[x].cand
          [] OTHER -> db[x].up \in DOMAIN db}

\* The rows the source query of _backfill yields.  Those of users, jobs and
\* applications leave out a row whose new value is NULL; the others only ask that the
\* parent exists.
Source(table) ==
    {x \in Untenanted(table) :
        CASE table = "users" -> db[x].role # "Candidate" /\ NewTenant(x) # NULL
          [] table \in {"jobs", "applications"} -> NewTenant(x) # NULL
          [] table = "resumes" -> \E a \in RowsOf(db, "applications") : db[a].cand = db[x].cand
          [] OTHER -> db[x].up \in DOMAIN db}

\* The rows _backfill_orphans gives to the default organisation.
Orphans(table) == {x \in Untenanted(table) : table = "users" => db[x].role # "Candidate"}

\* LIMIT BATCH_SIZE
Batches(ids) ==
    {b \in SUBSET ids : Cardinality(b) = BatchSize \/ (b = ids /\ Cardinality(ids) < BatchSize)}

\* _backfill: one UPDATE; the loop ends with the first one that changes no row.
Backfill ==
    /\ At("backfill")
    /\ IF Source(T) = {} THEN Advance /\ UNCHANGED db
       ELSE /\ \E b \in Batches(Source(T)) :
                  db' = [x \in DOMAIN db |-> IF x \in b THEN [db[x] EXCEPT !.tenant = NewTenant(x)] ELSE db[x]]
            /\ UNCHANGED <<pc, run>>
    /\ UNCHANGED <<schema, book>>

DefaultCompanies == {c \in RowsOf(db, "companies") : db[c].role = "default"}

\* The owner of the default organisation: an Admin if there is one, else other staff,
\* else anyone; the oldest of them.
DefaultOwner ==
    LET all == RowsOf(db, "users")
        admins == {u \in all : db[u].role = "Admin"}
        staff == {u \in all : db[u].role # "Candidate"}
    IN  Oldest(IF admins # {} THEN admins ELSE IF staff # {} THEN staff ELSE all)

DefaultCompany ==
    [table |-> "companies", up |-> DefaultOwner, cand |-> NULL, company |-> NULL,
     at |-> 5, role |-> "default", tenant |-> NULL]

\* Mutant: a new run does not look for the organisation an earlier one created.
DefaultTenantAnew ==
    /\ At("orphans") /\ Orphans(T) # {} /\ run.dflt = NULL
    /\ LET new == CHOOSE d \in DefaultIds : d \notin DOMAIN db
       IN  /\ db' = With([x \in {new} |-> DefaultCompany])
           /\ run' = [run EXCEPT !.dflt = new]
    /\ UNCHANGED <<schema, pc, book>>

\* _default_tenant: looked up by its name, or created.
DefaultTenant ==
    /\ At("orphans") /\ Orphans(T) # {} /\ run.dflt = NULL
    /\ IF DefaultCompanies # {}
       THEN run' = [run EXCEPT !.dflt = Oldest(DefaultCompanies)] /\ UNCHANGED db
       ELSE LET new == CHOOSE d \in DefaultIds : d \notin DOMAIN db
            IN  /\ db' = With([x \in {new} |-> DefaultCompany])
                /\ run' = [run EXCEPT !.dflt = new]
    /\ UNCHANGED <<schema, pc, book>>

\* _backfill_orphans
BackfillOrphans ==
    /\ At("orphans")
    /\ IF Orphans(T) = {} THEN Advance /\ UNCHANGED db
       ELSE /\ run.dflt # NULL
            /\ \E b \in Batches(Orphans(T)) :
                  db' = [x \in DOMAIN db |-> IF x \in b THEN [db[x] EXCEPT !.tenant = run.dflt] ELSE db[x]]
            /\ UNCHANGED <<pc, run>>
    /\ UNCHANGED <<schema, book>>

-----------------------------------------------------------------------------
(* Constraints, indexes, policies *)

\* ADD CONSTRAINT ... FOREIGN KEY NOT VALID, unless pg_constraint lists it; VALIDATE.
ForeignKey ==
    /\ At("fk_add") \/ At("fk_validate")
    /\ schema' = IF At("fk_add") THEN [schema EXCEPT !.fk = @ \cup {T}]
                 ELSE [schema EXCEPT !.fkValid = @ \cup {T}]
    /\ Advance
    /\ UNCHANGED <<db, book>>

\* The first is DROP ... IF EXISTS, the second finds the check it drops.
DropCheck ==
    /\ At("check_drop")
    /\ schema' = [schema EXCEPT !.check = @ \ {T}, !.checkValid = @ \ {T}]
    /\ Advance
    /\ UNCHANGED <<db, book>>

\* ADD CONSTRAINT ... CHECK (tenant_id IS NOT NULL) NOT VALID: from here on no row
\* without a tenant is written.
AddCheck ==
    /\ At("check_add")
    /\ IF T \in schema.check THEN Raise("duplicate")
       ELSE /\ schema' = [schema EXCEPT !.check = @ \cup {T}]
            /\ Advance
            /\ UNCHANGED <<db, book>>

\* VALIDATE CONSTRAINT looks at the rows that were there before.
ValidateCheck ==
    /\ At("check_validate")
    /\ IF Untenanted(T) # {} THEN Raise("check")
       ELSE /\ schema' = [schema EXCEPT !.checkValid = @ \cup {T}]
            /\ Advance
            /\ UNCHANGED <<db, book>>

SetNotNull ==
    /\ At("not_null")
    /\ schema' = [schema EXCEPT !.notNull = @ \cup {T}]
    /\ Advance
    /\ UNCHANGED <<db, book>>

\* Mutant: an index that is there is taken for a valid one.
LeftoverIndexKept == FALSE

\* _create_index_concurrently: an invalid index is one an earlier run left unfinished.
LeftoverIndex == T \in schema.index \ schema.indexValid

\* Two skills of one organisation, or two standard ones, whose names differ in case only.
SameNames ==
    \E x, y \in RowsOf(db, "skills") : x # y /\ db[x].role = db[y].role /\ db[x].tenant = db[y].tenant

\* CREATE INDEX CONCURRENTLY IF NOT EXISTS works for a while, and its index is invalid
\* until the end; a left-over one is dropped first.  That on the names of the skills is
\* unique: two of one name end the run and leave it invalid.
Index ==
    /\ At("index")
    /\ \/ /\ ~run.building /\ LeftoverIndex
          /\ schema' = [schema EXCEPT !.index = @ \ {T}]
          /\ UNCHANGED <<pc, run>>
       \/ /\ ~run.building /\ ~LeftoverIndex /\ T \in schema.index
          /\ Advance /\ UNCHANGED schema
       \/ /\ ~run.building /\ T \notin schema.index
          /\ schema' = [schema EXCEPT !.index = @ \cup {T}]
          /\ run' = [run EXCEPT !.building = TRUE] /\ UNCHANGED pc
       \/ /\ run.building /\ ~(T = "skill_names" /\ SameNames)
          /\ schema' = [schema EXCEPT !.indexValid = @ \cup {T}]
          /\ Advance
    /\ UNCHANGED <<db, book>>

\* A duplicate found while the index is built: the index stays and is invalid.
IndexFails == At("index") /\ run.building /\ T = "skill_names" /\ SameNames /\ Raise("unique")

\* Mutant: DROP POLICY IF EXISTS is left out.
DropPolicySkipped ==
    /\ At("policy_drop")
    /\ Advance
    /\ UNCHANGED <<db, schema, book>>

\* DROP POLICY IF EXISTS
DropPolicy ==
    /\ At("policy_drop")
    /\ schema' = [schema EXCEPT !.policy = @ \ {Script[pc].policy}]
    /\ Advance
    /\ UNCHANGED <<db, book>>

CreatePolicy ==
    /\ At("policy_create")
    /\ IF Script[pc].policy \in schema.policy THEN Raise("duplicate")
       ELSE /\ schema' = [schema EXCEPT !.policy = @ \cup {Script[pc].policy}]
            /\ Advance
            /\ UNCHANGED <<db, book>>

EnableRls ==
    /\ At("enable")
    /\ schema' = [schema EXCEPT !.rls = @ \cup {T}]
    /\ Advance
    /\ UNCHANGED <<db, book>>

-----------------------------------------------------------------------------
(* Faults *)

\* Statements that go through _locking.
Locking == Running /\ Script[pc].op \notin {"backfill", "orphans", "index"}

\* Mutant: it never gives up.
LockTimeoutEndless ==
    Locking /\ run' = [run EXCEPT !.attempt = @ + 1] /\ UNCHANGED <<db, schema, pc, book>>

\* _locking: after LOCK_TIMEOUT it steps aside and tries again, at most
\* MAX_LOCK_ATTEMPTS times.
LockTimeout ==
    /\ Locking
    /\ IF run.attempt = MaxLockAttempts
       THEN crashes < MaxCrashes /\ Raise("lock")
       ELSE run' = [run EXCEPT !.attempt = @ + 1] /\ UNCHANGED <<db, schema, pc, book>>

\* The process of the migration is killed.
Killed == Running /\ crashes < MaxCrashes /\ Raise("killed")

\* alembic upgrade head again: the revision is recorded only at the end.
Rerun ==
    /\ failed \notin {"no", "duplicate"} /\ crashes < MaxCrashes
    /\ failed' = "no" /\ pc' = 1 /\ run' = Fresh
    /\ crashes' = crashes + 1
    /\ UNCHANGED <<db, schema, live, denied>>

Row(table, up, cand, tenant) ==
    [table |-> table, up |-> up, cand |-> cand, company |-> NULL, at |-> 9, role |-> "", tenant |-> tenant]

\* The rows are inserted in one transaction; NULL in a tenant column that a check or
\* NOT NULL forbids rolls it back.
Insertable(rows) ==
    \A row \in rows : row.tenant = NULL => row.table \notin schema.check \cup schema.notNull

\* A fresh row id: which one does not matter.
FreshId(ids) == IF ids \subseteq DOMAIN db THEN {} ELSE {CHOOSE x \in ids : x \notin DOMAIN db}

\* The old version: an upload inserts a resume and an application.
OldUpload(j, c) ==
    /\ ~Done
    /\ \E a \in FreshId(LiveIds) : \E r \in FreshId(LiveIds \ {a}) :
          \E new \in {[x \in {a, r} |-> IF x = a THEN Row("applications", j, c, NULL)
                                                ELSE Row("resumes", NULL, c, NULL)]} :
                /\ Insertable({new[a], new[r]})
                /\ db' = With(new)
                /\ live' = live \cup {a, r}
    /\ UNCHANGED <<schema, pc, run, failed, crashes, denied>>

\* The old version: a change of status inserts a row of its history.
OldStatusChange(a) ==
    /\ ~Done
    /\ \E h \in FreshId(LiveIds) :
          \E row \in {Row("status_history", a, NULL, NULL)} :
            /\ Insertable({row})
            /\ db' = With([x \in {h} |-> row])
            /\ live' = live \cup {h}
    /\ UNCHANGED <<schema, pc, run, failed, crashes, denied>>

-----------------------------------------------------------------------------
(* The new version *)

Sees(ctx, x) == OrmVisible(db, ctx, x) /\ RlsVisible(db, schema.rls, schema.policy, ctx, x)

\* An error of the ORM or of the policies rolls the request back.
Refused(ids) == denied' = denied \cup ids /\ UNCHANGED <<db, live>>

\* The request may write the row back that it has read and changed.
MayChange(ctx, x) == RlsMayUpdate(db, schema.rls, schema.policy, ctx, x)

\* A request inserts rows, in the order given, through the ORM and under the policies.
NewRows(ctx, ids, new) ==
    LET stamped == [x \in ids |-> Stamped(ctx, new[x])]
        after == With(stamped)
    IN  IF \E x \in ids : \/ StampRaises(ctx, new[x])
                          \/ ~RlsMayInsert(after, schema.rls, schema.policy, ctx, stamped[x])
                          \/ stamped[x].tenant = NULL
        THEN Refused(ids)
        ELSE db' = after /\ UNCHANGED <<denied, live>>

Staff == {u \in RowsOf(db, "users") : db[u].role # "Candidate"}
StaffContext(u) == ContextFromToken([sub |-> u, tid |-> db[u].tenant])
CandidateContext(u) == ContextFromToken([sub |-> u, tid |-> NULL])

\* create_job
CreateJob(u, x) ==
    NewRows(StaffContext(u), {x}, [y \in {x} |-> Row("jobs", u, NULL, NULL)])

\* create_interview, update_application_status and request_question_set: the handler
\* loads the application first and answers 404 when it does not see it.  A change of the
\* status writes the application back beside its history, in one transaction.
AddToApplication(u, a, table, x) ==
    /\ Sees(StaffContext(u), a)
    /\ IF table = "status_history" /\ ~MayChange(StaffContext(u), a) THEN Refused({a})
       ELSE NewRows(StaffContext(u), {x}, [y \in {x} |-> Row(table, a, NULL, NULL)])

\* Mutant: the rows of an upload name no tenant.
UploadTenantNone(j) == NULL

\* upload_resume: resume and application belong to the organisation of the job.
UploadTenant(j) == db[j].tenant

UploadResume(u, j, x, y) ==
    /\ Sees(CandidateContext(u), j)
    /\ \E c \in CurrentCandidates(db, CandidateContext(u)) :
         NewRows(CandidateContext(u), {x, y},
                 [z \in {x, y} |-> IF z = x THEN Row("applications", j, c, UploadTenant(j))
                                          ELSE Row("resumes", NULL, c, UploadTenant(j))])

\* respond_to_offer: the status of the application is written back, and in the same
\* transaction a row of history with the tenant of the application.
RespondToOffer(u, a, x) ==
    /\ Sees(CandidateContext(u), a)
    /\ IF ~MayChange(CandidateContext(u), a) THEN Refused({a})
       ELSE NewRows(CandidateContext(u), {x},
                    [y \in {x} |-> Row("status_history", a, NULL, db[a].tenant)])

\* run_question_set_job: the worker runs as the system and names the tenant.
SaveQuestion(s, x) ==
    NewRows(SystemContext, {x}, [y \in {x} |-> Row("interview_questions", s, NULL, db[s].tenant)])

Request ==
    /\ Done
    /\ \E x \in FreshId(NewIds) :
         \/ \E u \in Staff : CreateJob(u, x)
         \/ \E u \in Staff, a \in RowsOf(db, "applications"),
               t \in {"interviews", "status_history", "interview_question_sets"} :
               AddToApplication(u, a, t, x)
         \/ \E u \in RowsOf(db, "users") \ Staff, j \in RowsOf(db, "jobs"), y \in FreshId(NewIds \ {x}) :
               UploadResume(u, j, x, y)
         \/ \E u \in RowsOf(db, "users") \ Staff, a \in RowsOf(db, "applications") : RespondToOffer(u, a, x)
         \/ \E s \in RowsOf(db, "interview_question_sets") : SaveQuestion(s, x)
    /\ UNCHANGED <<schema, pc, run, failed, crashes>>

-----------------------------------------------------------------------------

Upgrade ==
    \/ AddColumn
    \/ Backfill
    \/ DefaultTenant
    \/ BackfillOrphans
    \/ ForeignKey
    \/ DropCheck
    \/ AddCheck
    \/ ValidateCheck
    \/ SetNotNull
    \/ Index
    \/ IndexFails
    \/ DropPolicy
    \/ CreatePolicy
    \/ EnableRls

OldVersion ==
    \/ \E j \in RowsOf(db, "jobs"), c \in RowsOf(db, "candidates") : OldUpload(j, c)
    \/ \E a \in RowsOf(db, "applications") : OldStatusChange(a)

MigrationNext == Upgrade \/ LockTimeout \/ Killed \/ Rerun \/ OldVersion \/ Request

\* The process that runs the migration goes on, and is started again after a failure.
MigrationSpec ==
    MigrationInit /\ [][MigrationNext]_migrationVars /\ WF_migrationVars(Upgrade) /\ WF_migrationVars(Rerun)

-----------------------------------------------------------------------------
(* Properties *)

\* Type correctness.
MigrationTypeOK ==
    /\ pc \in 1 .. Len(Script) + 1
    /\ run.attempt \in 1 .. MaxLockAttempts
    /\ failed \in {"no", "killed", "lock", "check", "unique", "duplicate"} /\ crashes \in 0 .. MaxCrashes
    /\ \A x \in DOMAIN db : db[x].tenant \in RowsOf(db, "companies") \cup {NULL}
    /\ schema.fkValid \subseteq schema.fk /\ schema.checkValid \subseteq schema.check
    /\ schema.indexValid \subseteq schema.index

Original == DOMAIN db \ (live \cup NewIds)

\* "No row is left without an organisation": at the end every row of an operational
\* table has one, also those the old version wrote meanwhile; all that a run before may
\* have left half done (checks, invalid indexes, missing policies) is in order.
EndsComplete ==
    Done =>
        /\ \A t \in Operational : Untenanted(t) = {} /\ t \in schema.notNull
        /\ schema.check = {}
        /\ schema.fkValid = Range(AllTables)
        /\ schema.indexValid = Range(AllTables) \cup {"skill_names"}
        /\ schema.policy = Range(POLICIES) /\ schema.rls = Range(RLS_TABLES)

\* A row that was there before goes to the organisation it belongs to (the company of
\* its job, or of the author of the job, down the chain of foreign keys), however the
\* runs were cut off, and never to the default one while an owner is known.
OwnersKept ==
    Done =>
        \A x \in Original :
            LET row == db[x]
                apps == {a \in RowsOf(db, "applications") \cap Original : db[a].cand = row.cand}
            IN  /\ row.table = "jobs" /\ row.company # NULL => row.tenant = row.company
                /\ row.table = "users" /\ row.role = "Candidate" => row.tenant = NULL
                /\ row.table = "users" /\ row.role # "Candidate" =>
                      \E c \in RowsOf(db, "companies") :
                          row.tenant = c /\ (db[c].up = x \/ db[c].role = "default")
                /\ row.table = "jobs" /\ row.company = NULL /\ db[row.up].role # "Candidate" =>
                      row.tenant = db[row.up].tenant
                /\ row.table = "resumes" /\ apps # {} => row.tenant = db[Oldest(apps)].tenant
                /\ row.table = "skills" => row.tenant = NULL

\* At most one default organisation, however often the migration is started.
OneDefault == Cardinality(DefaultCompanies) <= 1

\* A run that was cut off at any statement never leaves something that makes every
\* later run fail; only rows of the old version, or skills whose names differ in case
\* only, can make a run fail at all.
NeverBlocked ==
    /\ failed # "duplicate"
    /\ failed = "check" => live # {}
    /\ failed = "unique" => SameNames

\* A row and the row its foreign key names belong to one organisation, for the rows
\* that were migrated and for all the new version writes.
LinksInTenant ==
    Done =>
        \A x \in DOMAIN db \ live :
            /\ db[x].table \in Operational \ {"jobs", "resumes"}
            /\ db[x].up \notin live
            => db[x].tenant = db[db[x].up].tenant

\* Every row is in the organisation it belongs to, and with the rows it refers to.
RowsPlaced == MigrationTypeOK /\ OwnersKept /\ OneDefault /\ LinksInTenant

\* Both layers isolate, each alone, and show staff the same rows: those of its own
\* organisation.  And no statement of the new version is refused, unless it is about an
\* application the old version wrote during the migration.
LayersAgree ==
    Done =>
        /\ denied \subseteq live
        /\ \A u \in Staff : \A x \in DOMAIN db :
              db[x].table \in Operational \cup {"skills"} =>
                /\ OrmVisible(db, StaffContext(u), x)
                      <=> RlsVisible(db, schema.rls, schema.policy, StaffContext(u), x)
                /\ OrmVisible(db, StaffContext(u), x)
                      => db[x].tenant = db[u].tenant \/ db[x].table = "skills"

\* A candidate, for whom the ORM adds no condition, reaches only rows of the own
\* profile, all jobs and the standard skills; a visitor only the latter two.
CandidateSeesOwn ==
    Done =>
        \A u \in RowsOf(db, "users") \ Staff, x \in DOMAIN db :
            LET row == db[x]
                mine == {c \in RowsOf(db, "candidates") : db[c].up = u}
            IN  /\ row.table # "users" /\ Sees(CandidateContext(u), x) =>
                      \/ row.table = "jobs" \/ (row.table = "skills" /\ row.tenant = NULL)
                      \/ x \in mine \/ row.cand \in mine
                      \/ row.table = "status_history" /\ db[row.up].cand \in mine
                /\ row.table \in {"applications", "resumes"} /\ row.cand \in mine =>
                      Sees(CandidateContext(u), x)
                /\ row.table # "users" /\ Sees(PublicContext, x) => row.table \in {"jobs", "skills"}

\* However it was interrupted, the migration ends complete and is never blocked.
MigrationSound == EndsComplete /\ NeverBlocked

\* After the migration staff, candidates and visitors reach what is theirs and no more.
Isolated == LayersAgree /\ CandidateSeesOwn

\* Without writes of the old version the migration ends, if it is started again after
\* its failures.  (While the old version goes on writing, _backfill need not end.)
MigrationEnds == <>(Done \/ live # {} \/ (failed # "no" /\ crashes = MaxCrashes))
=============================================================================
