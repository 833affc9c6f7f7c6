----------------------------- MODULE Supervisor -----------------------------
(***************************************************************************)
(* What the specialised agents report about a resume and how the           *)
(* supervisor merges it: app/agents/skill_agent.py, soft_skills_agent.py   *)
(* and supervisor.py, and beside them the older linear pipeline of         *)
(* app/tasks/resume_processing.py.                                         *)
(*                                                                         *)
(* A resume r is what the extractors find in its file:                     *)
(*   readable, parsed  whether text extraction and the parser succeed      *)
(*   work, rank        employment entries and the rank of the best degree  *)
(*   mentions, claims  skills -> how often mentioned, years claimed        *)
(*   claimedTotal      years of experience claimed in the text, or NoYear  *)
(*   hits, words       soft skills -> phrases found; length of the text    *)
(*   job               the job applied for, or NoJob                       *)
(*   retries           how often RQ may run its processing again           *)
(* Confidences and soft skill scores are in hundredths.                    *)
(***************************************************************************)
EXTENDS ExperienceAnalyzer, MatchingEngine

CONSTANT NoJob

NoScore == -1

Agents == {"skill_extraction", "experience_validation", "culture_fit_soft_skills"}

\* The employment the parser found; none when it failed.
Work(r) == IF r.parsed THEN r.work ELSE <<>>

\* Mutant: only what is mentioned by name.
MentionedOnly(r) == DOMAIN r.mentions

SkillNames(r) == WithCores(DOMAIN r.mentions)

SkillItem(r, s) ==
    [confidence |-> IF s \in DOMAIN r.mentions
                    THEN Min({100, 60 + 10 * (r.mentions[s] - 1)})
                    ELSE 50,
     claimed    |-> IF s \in DOMAIN r.claims THEN r.claims[s] ELSE NoYear]

\* run_skill_agent
SkillAgent(r) == [s \in SkillNames(r) |-> SkillItem(r, s)]

\* hits / 3, at most 1, rounded to hundredths
SoftScore(hits) == CASE hits = 1 -> 33 [] hits = 2 -> 67 [] hits >= 3 -> 100

TotalHits(r) == FoldFunction(+, 0, r.hits)

\* run_soft_skills_agent
SoftSkillsAgent(r) ==
    [items      |-> [k \in DOMAIN r.hits |-> SoftScore(r.hits[k])],
     confidence |-> (Min({300, r.words}) * (5 + Min({5, TotalHits(r)}))) \div 30]

-----------------------------------------------------------------------------
(* Conflict resolution and score.                                          *)

NoExperience == [entries |-> <<>>, total |-> 0, overlaps |-> {}, claimed |-> NoYear,
                 flags |-> <<>>]

HasHistory(exp) == \E k \in DOMAIN exp.entries : exp.entries[k].valid

Exaggerated(exp, years) ==
    HasHistory(exp) /\ years # NoYear /\ years > exp.total + ClaimTolerance

\* Mutant: R1 compares with the claim of the text instead of the history.
CapAgainstClaim(exp, item) ==
    IF HasHistory(exp) /\ item.claimed > exp.claimed + ClaimTolerance
    THEN [confidence |-> (item.confidence * 7 + 5) \div 10, claimed |-> exp.total]
    ELSE item

\* R1: a claim beyond the validated history is cut down to it.
Capped(exp, item) ==
    IF Exaggerated(exp, item.claimed)
    THEN [confidence |-> (item.confidence * 7 + 5) \div 10, claimed |-> exp.total]
    ELSE item

LeadTitle(title) == title \in {"lead", "cto", "supervisor"}

\* R3: leadership with neither a leading title nor three years counts half.
Unsupported(exp, done, k) ==
    /\ k = "leadership"
    /\ "experience_validation" \in done
    /\ ~\E e \in DOMAIN exp.entries : LeadTitle(exp.entries[e].title)
    /\ exp.total < 3

Halved(score) == (score + 1) \div 2

Conflicts(skills, exp, soft, done) ==
    {<<"agent_failed", a>> : a \in Agents \ done}
        \cup {<<"skill_years_capped", s>> :
                 s \in {s \in DOMAIN skills : Exaggerated(exp, skills[s].claimed)}}
        \cup {<<"claimed_total_overridden", c>> :
                 c \in {c \in {exp.claimed} : Exaggerated(exp, c)}}
        \cup {<<"leadership_unsupported", k>> :
                 k \in {k \in DOMAIN soft : Unsupported(exp, done, k)}}

\* The mean of the three best soft skills, weighted by the confidence.
Bonus(soft, confidence) ==
    LET top == SubSeq(SortSeq(SetToSeq({<<k, soft[k]>> : k \in DOMAIN soft}),
                              LAMBDA a, b : a[2] > b[2]), 1, Min({3, Cardinality(DOMAIN soft)}))
        sum == FoldLeft(LAMBDA n, x : n + x[2], 0, top)
    IN IF top = <<>> THEN 0
       ELSE (Points(5) * sum * Max({50, confidence})) \div (Len(top) * 10000)

Weight(severity) == CASE severity = "high" -> 6 [] severity = "medium" -> 3 [] severity = "low" -> 1

\* Mutant: no ceiling.
UnboundedPenalty(flags) ==
    Points(FoldLeft(LAMBDA n, f : n + Weight(f.severity), 0, flags))

Penalty(flags) ==
    Points(Min({15, FoldLeft(LAMBDA n, f : n + Weight(f.severity), 0, flags)}))

Titles(r) == {{r.work[k].title} : k \in {k \in DOMAIN Work(r) : r.work[k].title # "none"}}

Rank(r) == IF r.parsed THEN r.rank ELSE 0

Explained(base, bonus, penalty) ==
    [score |-> Clamp(base + bonus - penalty), base |-> base, bonus |-> bonus,
     penalty |-> penalty]

\* _matching
Matching(r, names, years, soft, confidence, flags) ==
    IF r.job = NoJob
    THEN [score |-> NoScore, base |-> NoScore, bonus |-> 0, penalty |-> 0]
    ELSE Explained(Clamp(TotalScore(r.job, names, Titles(r), years, Rank(r))),
                   Bonus(soft, confidence), Penalty(flags))

ResolvedSkills(skills, exp) == [s \in DOMAIN skills |-> Capped(exp, skills[s])]

ResolvedSoft(soft, exp, done) ==
    [k \in DOMAIN soft |-> IF Unsupported(exp, done, k) THEN Halved(soft[k]) ELSE soft[k]]

\* The outputs of the three agents, put together.
Merged(r, done, skills, exp, soft) ==
    [status    |-> CASE done = Agents -> "completed"
                     [] done = {}     -> "failed"
                     [] OTHER         -> "partial",
     done      |-> done,
     skills    |-> ResolvedSkills(skills, exp),
     exp       |-> exp,
     soft      |-> ResolvedSoft(soft.items, exp, done),
     conflicts |-> Conflicts(skills, exp, soft.items, done),
     matching  |-> Matching(r, DOMAIN skills, exp.total, ResolvedSoft(soft.items, exp, done),
                            soft.confidence, exp.flags)]

\* aggregate: done are the agents that completed, the others count as empty.
Aggregate(r, done) ==
    Merged(r, done,
           IF "skill_extraction" \in done THEN SkillAgent(r) ELSE <<>>,
           IF "experience_validation" \in done
           THEN ExperienceAgent(Work(r), r.claimedTotal, r.claims) ELSE NoExperience,
           IF "culture_fit_soft_skills" \in done
           THEN SoftSkillsAgent(r) ELSE [items |-> <<>>, confidence |-> 0])

\* to_skill_analysis
SkillAnalysis(analysis) ==
    [skills |-> DOMAIN analysis.skills, total |-> analysis.exp.total]

-----------------------------------------------------------------------------
(* The linear pipeline: skill engine, then score.                          *)

LinearSkillAnalysis(r) ==
    [skills |-> WithCores(DOMAIN r.mentions), total |-> TotalExperienceYears(Work(r))]

LinearScore(r) ==
    IF r.parsed /\ r.job # NoJob
    THEN Clamp(TotalScore(r.job, LinearSkillAnalysis(r).skills, Titles(r),
                          LinearSkillAnalysis(r).total, Rank(r)))
    ELSE NoScore

=============================================================================
