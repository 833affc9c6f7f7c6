---------------------------- MODULE TenantAccess ----------------------------
(***************************************************************************)
(* What a database session may see and write: the row-level security       *)
(* policies that migration d2f6b8a41c37 creates, and the filter and the    *)
(* stamp that core/tenancy.py adds to every statement of the ORM.          *)
(*                                                                         *)
(* A database is a function from the ids of rows to rows.  A row has its   *)
(* table, up (the row its foreign key names: the owner of a company, the   *)
(* account of a candidate, the author of a job, the job of an application, *)
(* the application of an interview, ...), cand (the candidate of an        *)
(* application or resume), company, at (created_at), role and tenant.      *)
(***************************************************************************)
EXTENDS Naturals, Sequences, FiniteSets

CONSTANT NULL

TENANT_TABLES == <<"jobs", "applications", "resumes", "interviews", "status_history",
                   "interview_question_sets", "interview_questions">>
OPTIONAL_TENANT_TABLES == <<"users", "skills">>
RLS_TABLES == <<"companies", "candidates">> \o TENANT_TABLES \o <<"skills">>

Operational == {TENANT_TABLES[i] : i \in 1 .. Len(TENANT_TABLES)}

RowsOf(db, table) == {x \in DOMAIN db : db[x].table = table}

\* SQL's =, which is never true of NULL.
Equal(a, b) == a # NULL /\ a = b

-----------------------------------------------------------------------------
(* The context of a session *)

SystemContext == [scope |-> "system", tenant |-> NULL, user |-> NULL]
PublicContext == [scope |-> "public", tenant |-> NULL, user |-> NULL]

\* context_from_token: a token with a tenant is one of staff, any other of a candidate.
ContextFromToken(token) ==
    IF token = NULL THEN PublicContext
    ELSE IF token.tid # NULL THEN [scope |-> "tenant", tenant |-> token.tid, user |-> token.sub]
    ELSE [scope |-> "candidate", tenant |-> NULL, user |-> token.sub]

-----------------------------------------------------------------------------
(* Policies *)

Policy(table, name, command) == [table |-> table, name |-> name, command |-> command]

POLICIES == <<
    Policy("companies", "tenant_self_read", "SELECT"),
    Policy("companies", "tenant_self_update", "UPDATE"),
    Policy("candidates", "candidate_self", "ALL"),
    Policy("candidates", "tenant_applicants_read", "SELECT"),
    Policy("jobs", "tenant_isolation", "ALL"),
    Policy("jobs", "public_read", "SELECT"),
    Policy("applications", "tenant_isolation", "ALL"),
    Policy("applications", "candidate_read", "SELECT"),
    Policy("applications", "candidate_apply", "INSERT"),
    Policy("applications", "candidate_respond", "UPDATE"),
    Policy("resumes", "tenant_isolation", "ALL"),
    Policy("resumes", "candidate_read", "SELECT"),
    Policy("resumes", "candidate_upload", "INSERT"),
    Policy("interviews", "tenant_isolation", "ALL"),
    Policy("status_history", "tenant_isolation", "ALL"),
    Policy("status_history", "candidate_read", "SELECT"),
    Policy("status_history", "candidate_insert", "INSERT"),
    Policy("interview_question_sets", "tenant_isolation", "ALL"),
    Policy("interview_questions", "tenant_isolation", "ALL"),
    Policy("skills", "shared_read", "SELECT"),
    Policy("skills", "tenant_custom", "ALL") >>

\* app_current_candidate_id: it runs as the owner of the tables, past the policies.
CurrentCandidates(db, ctx) ==
    {c \in RowsOf(db, "candidates") : ctx.scope = "candidate" /\ Equal(db[c].up, ctx.user)}

TenantMatch(ctx, row) == Equal(row.tenant, ctx.tenant)
OwnCandidate(db, ctx, row) == row.cand \in CurrentCandidates(db, ctx)

\* The tables a policy's own subquery reads are subject to the policies on them.
SeesJob(ctx, row) == TenantMatch(ctx, row) \/ ctx.scope \in {"public", "candidate"}
SeesApplication(db, ctx, row) == TenantMatch(ctx, row) \/ OwnCandidate(db, ctx, row)

JobTenant(db, ctx, row) ==
    row.up \in DOMAIN db /\ SeesJob(ctx, db[row.up]) /\ Equal(row.tenant, db[row.up].tenant)

\* Mutant: every candidate may read every history.
HistoryOfAny(db, ctx, row) ==
    \E a \in RowsOf(db, "applications") : a = row.up /\ CurrentCandidates(db, ctx) # {}

\* status_history, candidate_read: the application is one of the candidate's own.
HistoryOfOwn(db, ctx, row) ==
    \E a \in RowsOf(db, "applications") :
        a = row.up /\ SeesApplication(db, ctx, db[a]) /\ OwnCandidate(db, ctx, db[a])

\* USING: the rows a statement of the policy's command reaches.
Using(db, ctx, p, x) ==
    LET row == db[x]
    IN  CASE p.name \in {"tenant_self_read", "tenant_self_update"} -> Equal(x, ctx.tenant)
          [] p.name = "candidate_self" -> ctx.scope = "candidate" /\ Equal(row.up, ctx.user)
          [] p.name = "tenant_applicants_read" ->
                \E a \in RowsOf(db, "applications") :
                    /\ db[a].cand = x /\ SeesApplication(db, ctx, db[a])
                    /\ TenantMatch(ctx, db[a])
          [] p.name \in {"tenant_isolation", "tenant_custom"} -> TenantMatch(ctx, row)
          [] p.name = "public_read" -> ctx.scope \in {"public", "candidate"}
          [] p.name = "candidate_read" /\ p.table # "status_history" -> OwnCandidate(db, ctx, row)
          [] p.name = "candidate_read" /\ p.table = "status_history" -> HistoryOfOwn(db, ctx, row)
          [] p.name = "candidate_respond" -> OwnCandidate(db, ctx, row)
          [] p.name = "shared_read" -> row.tenant = NULL \/ TenantMatch(ctx, row)
          [] OTHER -> FALSE

\* WITH CHECK: the rows a statement of the policy's command may write.
WithCheck(db, ctx, p, row) ==
    CASE p.name = "candidate_self" -> ctx.scope = "candidate" /\ Equal(row.up, ctx.user)
      [] p.name \in {"tenant_isolation", "tenant_custom"} -> TenantMatch(ctx, row)
      [] p.name \in {"candidate_apply", "candidate_respond"} ->
            OwnCandidate(db, ctx, row) /\ JobTenant(db, ctx, row)
      [] p.name = "candidate_upload" ->
            /\ OwnCandidate(db, ctx, row)
            /\ \E j \in RowsOf(db, "jobs") : SeesJob(ctx, db[j]) /\ Equal(db[j].tenant, row.tenant)
      [] p.name = "candidate_insert" ->
            \E a \in RowsOf(db, "applications") :
                /\ a = row.up /\ SeesApplication(db, ctx, db[a])
                /\ OwnCandidate(db, ctx, db[a]) /\ Equal(db[a].tenant, row.tenant)
      [] OTHER -> FALSE

\* rls is the set of tables with row-level security on, policies the set created; the
\* owner of the tables is exempt, every other session needs a policy that lets it.
RlsVisible(db, rls, policies, ctx, x) ==
    \/ ctx.scope = "system" \/ db[x].table \notin rls
    \/ \E p \in policies : /\ p.table = db[x].table /\ p.command \in {"SELECT", "ALL"}
                           /\ Using(db, ctx, p, x)

RlsMayInsert(db, rls, policies, ctx, row) ==
    \/ ctx.scope = "system" \/ row.table \notin rls
    \/ \E p \in policies : /\ p.table = row.table /\ p.command \in {"INSERT", "ALL"}
                           /\ WithCheck(db, ctx, p, row)

\* An UPDATE that leaves the columns the policies look at as they are: one policy reaches
\* the row, and one lets it be written back.
RlsMayUpdate(db, rls, policies, ctx, x) ==
    \/ ctx.scope = "system" \/ db[x].table \notin rls
    \/ LET own == {p \in policies : p.table = db[x].table /\ p.command \in {"UPDATE", "ALL"}}
       IN  (\E p \in own : Using(db, ctx, p, x)) /\ (\E p \in own : WithCheck(db, ctx, p, db[x]))

-----------------------------------------------------------------------------
(* The ORM *)

\* _add_tenant_criteria: for staff every SELECT, UPDATE and DELETE is restricted.
OrmVisible(db, ctx, x) ==
    ctx.scope = "tenant" =>
        /\ db[x].table \in Operational => db[x].tenant = ctx.tenant
        /\ db[x].table = "skills" => db[x].tenant \in {NULL, ctx.tenant}

\* _stamp_tenant_on_new_rows: a row of staff gets the tenant of the context; one that
\* names another tenant raises TenantAccessError.
Stamped(ctx, row) ==
    IF ctx.scope = "tenant" /\ row.tenant = NULL THEN [row EXCEPT !.tenant = ctx.tenant] ELSE row
StampRaises(ctx, row) == ctx.scope = "tenant" /\ row.tenant \notin {NULL, ctx.tenant}
=============================================================================
