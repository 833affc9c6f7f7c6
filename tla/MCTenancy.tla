----------------------------- MODULE MCTenancy ------------------------------
(* Instances of TenantMigration for TLC. *)
EXTENDS TenantMigration, TLC

Owner(role, at) == [table |-> "users", up |-> NULL, cand |-> NULL, company |-> NULL,
                    at |-> at, role |-> role, tenant |-> NULL]
Old(table, up, cand, company, at) ==
    [table |-> table, up |-> up, cand |-> cand, company |-> company, at |-> at, role |-> "", tenant |-> NULL]

\* Two companies, an admin of one, an HR manager of none, a candidate who applied twice
\* and one who never did; a job of a company, one of its author's, with all that hangs
\* on their applications.
Two ==
    ("u1" :> Owner("Admin", 1)) @@ ("u2" :> Owner("HR_Manager", 2)) @@ ("u3" :> Owner("Candidate", 3))
    @@ ("c1" :> Old("companies", "u1", NULL, NULL, 1)) @@ ("c2" :> Old("companies", "u3", NULL, NULL, 2))
    @@ ("k1" :> Old("candidates", "u3", NULL, NULL, 1)) @@ ("k2" :> Old("candidates", "u4", NULL, NULL, 1))
    @@ ("u4" :> Owner("Candidate", 4))
    @@ ("j1" :> Old("jobs", "u2", NULL, "c1", 1)) @@ ("j2" :> Old("jobs", "u2", NULL, NULL, 2))
    @@ ("a1" :> Old("applications", "j1", "k1", NULL, 1)) @@ ("a2" :> Old("applications", "j2", "k1", NULL, 2))
    @@ ("r1" :> Old("resumes", NULL, "k1", NULL, 1)) @@ ("r2" :> Old("resumes", NULL, "k2", NULL, 2))
    @@ ("h1" :> Old("status_history", "a1", NULL, NULL, 1)) @@ ("h2" :> Old("status_history", "a2", NULL, NULL, 1))
    @@ ("s1" :> Old("interview_question_sets", "a2", NULL, NULL, 1))
    @@ ("q1" :> Old("interview_questions", "s1", NULL, NULL, 1))
    @@ ("t1" :> Old("skills", NULL, NULL, NULL, 1))

\* Everything belongs to one owner: no default organisation is needed.
One ==
    ("u1" :> Owner("Admin", 1)) @@ ("u3" :> Owner("Candidate", 3)) @@ ("u4" :> Owner("Candidate", 4))
    @@ ("c1" :> Old("companies", "u1", NULL, NULL, 1))
    @@ ("k1" :> Old("candidates", "u3", NULL, NULL, 1)) @@ ("k2" :> Old("candidates", "u4", NULL, NULL, 1))
    @@ ("j1" :> Old("jobs", "u1", NULL, NULL, 1))
    @@ ("a1" :> Old("applications", "j1", "k1", NULL, 1))
    @@ ("r1" :> Old("resumes", NULL, "k1", NULL, 1))
    @@ ("i1" :> Old("interviews", "a1", NULL, NULL, 1))

\* Jobs of a candidate's account and nobody else's: everything goes to the default one.
None ==
    ("u3" :> Owner("Candidate", 3)) @@ ("k1" :> Old("candidates", "u3", NULL, NULL, 1))
    @@ ("j1" :> Old("jobs", "u3", NULL, NULL, 1)) @@ ("a1" :> Old("applications", "j1", "k1", NULL, 1))

\* Two standard skills whose names differ in case only.
Skill(name) == [table |-> "skills", up |-> NULL, cand |-> NULL, company |-> NULL,
                at |-> 1, role |-> name, tenant |-> NULL]
Twins == ("t1" :> Skill("sql")) @@ ("t2" :> Skill("sql")) @@ ("t3" :> Skill("css"))

MCDatabases == {Two, One, None, Twins}
=============================================================================
