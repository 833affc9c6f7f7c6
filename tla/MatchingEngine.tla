--------------------------- MODULE MatchingEngine ---------------------------
(***************************************************************************)
(* The score of a resume against a job: app/core/matching_engine.py.       *)
(*                                                                         *)
(* Scores are counted in units of 1/Scale points, so that every quotient   *)
(* an instance meets is exact; the code computes them as floats and rounds *)
(* to hundredths.  Skills are compared by name regardless of case; a title *)
(* is its set of significant words, a location is compared with the job's. *)
(***************************************************************************)
EXTENDS Integers, FiniteSets, SequencesExt

CONSTANT Core  \* the skill graph: the parent of each skill, itself for a root

ASSUME CoreAssumption == \A s \in DOMAIN Core : Core[s] \in DOMAIN Core

Scale == 1200

Points(n) == n * Scale

\* _SENIORITY_YEAR_RANGES: the least years of a level; unknown levels ask none.
MinYears(level) ==
    CASE level \in {"mid", "mid-level"} -> 2
      [] level = "senior"               -> 5
      [] level = "lead"                 -> 8
      [] level = "principal"            -> 10
      [] OTHER                          -> 0

\* match_skills: the skills a text mentions and their parents.
WithCores(skills) == skills \cup {Core[s] : s \in skills}

\* Required skills the candidate has by name or by parent.
MatchedSkills(required, skills) ==
    {s \in required : s \in skills \/ Core[s] \in skills}

\* part of whole, of a weight in points.
Share(weight, part, whole) == (Points(weight) * part) \div whole

SkillScore(required, skills) ==
    IF required = {} THEN Points(50)
    ELSE Share(50, Cardinality(MatchedSkills(required, skills)), Cardinality(required))

TitleScore(words, titles) ==
    CASE titles = {} -> 0
      [] titles # {} /\ words = {} -> Points(15)
      [] OTHER -> Share(15, Max({Cardinality(words \cap t) : t \in titles}),
                        Cardinality(words))

SeniorityScore(level, years) ==
    IF years >= MinYears(level) THEN Points(15) ELSE Share(15, years, MinYears(level))

\* Degrees are ranked 1 to 5; 0 stands for no requirement and for no known degree.
EducationScore(required, rank) ==
    IF required = 0 \/ rank >= required THEN Points(8) ELSE Share(8, rank, required)

LocationScore(location) ==
    CASE location \in {"same", "unknown"} -> Points(8)
      [] location = "partial"             -> Share(8, 7, 10)
      [] location = "other"               -> 0

SecondaryScore(wanted, skills) ==
    IF wanted = {} THEN Points(4)
    ELSE Share(4, Cardinality(WithCores(wanted) \cap skills), Cardinality(WithCores(wanted)))

\* The sum calculate_matching_score clamps to 0..100.
TotalScore(job, skills, titles, years, rank) ==
    SkillScore(job.required, skills) + TitleScore(job.titleWords, titles)
        + SeniorityScore(job.seniority, years) + EducationScore(job.education, rank)
        + LocationScore(job.location) + SecondaryScore(job.wanted, skills)

Clamp(score) == Max({0, Min({Points(100), score})})

\* Python's round: to the nearest point, halves to the even one.
Rounded(score) ==
    LET down == score \div Scale
        rest == 2 * (score % Scale)
    IN IF rest > Scale \/ (rest = Scale /\ down % 2 = 1) THEN down + 1 ELSE down

=============================================================================
