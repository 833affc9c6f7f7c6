------------------------- MODULE ExperienceAnalyzer -------------------------
(***************************************************************************)
(* Net work experience: app/core/experience_analyzer.py and the agent that *)
(* builds on it, app/agents/experience_agent.py.                           *)
(*                                                                         *)
(* A duration is what the regular expressions find in its text: the year   *)
(* before the dash, whether the part after it says "until now", and the    *)
(* year found there.  A job title is the class of patterns it matches.     *)
(***************************************************************************)
EXTENDS Integers, FiniteSets, SequencesExt

CONSTANT ThisYear  \* the Gregorian year of the worker's clock

ASSUME YearAssumption == ThisYear \in 1500..(1500 + 621 - 1)

NoYear == -1

NoPeriod == <<>>

ShamsiThreshold == 1500

ShamsiOffset == 621

MaxSingleJobYears == 40

ClaimTolerance == 2

MaxConcurrentRoles == 2

IsShamsi(year) == year < ShamsiThreshold

CurrentYear(shamsi) == IF shamsi THEN ThisYear - ShamsiOffset ELSE ThisYear

\* The years of a duration, NoPeriod when they cannot be told.
ParseDuration(d) ==
    IF d.start = NoYear \/ (~d.current /\ d.end = NoYear)
    THEN NoPeriod
    ELSE <<d.start, IF d.current THEN CurrentYear(IsShamsi(d.start)) ELSE d.end>>

\* The calendar of a period is the one of its first year.
ValidPeriod(s, e) ==
    LET now == CurrentYear(IsShamsi(s))
    IN /\ s <= e
       /\ s <= now /\ e <= now
       /\ e - s <= MaxSingleJobYears

AnalyzedEntry(entry) ==
    LET p == ParseDuration(entry.duration)
    IN [title |-> entry.title,
        start |-> IF p = NoPeriod THEN NoYear ELSE p[1],
        end   |-> IF p = NoPeriod THEN NoYear ELSE p[2],
        valid |-> p # NoPeriod /\ ValidPeriod(p[1], p[2])]

Years(intervals) == FoldLeft(LAMBDA sum, i : sum + i[2] - i[1], 0, intervals)

ByStart(intervals) == SortSeq(intervals, LAMBDA a, b : a[1] < b[1])

\* Mutant: a period inside the previous one cuts it short.
MergeTakesLastEnd(intervals) ==
    LET merged[k \in 0..Len(intervals)] ==
            IF k = 0 THEN <<>>
            ELSE LET done == merged[k - 1]
                     i    == ByStart(intervals)[k]
                 IN IF done # <<>> /\ i[1] <= Last(done)[2]
                    THEN [done EXCEPT ![Len(done)] = <<@[1], i[2]>>]
                    ELSE Append(done, i)
    IN Years(merged[Len(intervals)])

\* _merge_intervals_and_sum_years: in the order of their first years, extend the
\* last merged period as long as the next one begins within it.
MergedYears(intervals) ==
    LET merged[k \in 0..Len(intervals)] ==
            IF k = 0 THEN <<>>
            ELSE LET done == merged[k - 1]
                     i    == ByStart(intervals)[k]
                 IN IF done # <<>> /\ i[1] <= Last(done)[2]
                    THEN [done EXCEPT ![Len(done)] = <<@[1], Max({@[2], i[2]})>>]
                    ELSE Append(done, i)
    IN Years(merged[Len(intervals)])

Intervals(entries) == [k \in DOMAIN entries |-> <<entries[k].start, entries[k].end>>]

AnalyzedEntries(work) == [k \in DOMAIN work |-> AnalyzedEntry(work[k])]

ValidEntries(entries) == SelectSeq(entries, LAMBDA x : x.valid)

\* total_experience_years of analyze_work_experience: every period counts in the
\* calendar it is written in.
TotalExperienceYears(work) == MergedYears(Intervals(ValidEntries(AnalyzedEntries(work))))

Gregorian(year) ==
    IF year # NoYear /\ IsShamsi(year) THEN year + ShamsiOffset ELSE year

\* Least experience a title makes plausible; 0 for a title no pattern matches.
SeniorityMinYears(title) ==
    CASE title = "cto"                      -> 7
      [] title \in {"lead", "architect"}    -> 5
      [] title = "senior"                   -> 3
      [] OTHER                              -> 0

Flag(code, severity) == [code |-> code, severity |-> severity]

GapSeverity(gap) == IF gap >= 5 THEN "high" ELSE "medium"

\* The number of valid entries that cover a year.
Roles(valid, year) ==
    Cardinality({k \in DOMAIN valid : valid[k].start <= year /\ year < valid[k].end})

\* The warnings of the agent, in the order it appends them.
Flags(entries, valid, total, claimedTotal, claims) ==
    LET each(n, f) == [k \in 1..n |-> f]
        invalid    == each(Len(entries) - Len(valid), Flag("invalid_period", "low"))
        exceed     == IF valid # <<>> /\ claimedTotal > total + ClaimTolerance
                      THEN <<Flag("claimed_years_exceed_history",
                                  GapSeverity(claimedTotal - total))>>
                      ELSE <<>>
        tooSenior  == SelectSeq(valid, LAMBDA x : total < SeniorityMinYears(x.title))
        senior     == each(Len(tooSenior), Flag("seniority_title_vs_tenure", "medium"))
        crowded    == \E y \in {valid[k].start : k \in DOMAIN valid} :
                          Roles(valid, y) > MaxConcurrentRoles
        concurrent == IF crowded
                      THEN <<Flag("concurrent_full_time_roles", "medium")>>
                      ELSE <<>>
        excessive  == {s \in DOMAIN claims :
                          valid # <<>> /\ claims[s] > total + ClaimTolerance}
        skills     == [k \in 1..Cardinality(excessive) |->
                          Flag("skill_years_exceed_career",
                               GapSeverity(claims[SetToSeq(excessive)[k]] - total))]
    IN invalid \o exceed \o senior \o concurrent \o skills

GregorianEntries(entries) ==
    [k \in DOMAIN entries |->
        [entries[k] EXCEPT !.start = Gregorian(@), !.end = Gregorian(@)]]

\* Years two entries have in common; positive if they overlap.
SharedYears(a, b) == Min({a.end, b.end}) - Max({a.start, b.start})

ExperienceOutput(entries, valid, total, claimedTotal, claims) ==
    [entries  |-> entries,
     total    |-> total,
     overlaps |-> {p \in (DOMAIN entries) \X (DOMAIN entries) :
                       /\ p[1] < p[2] /\ entries[p[1]].valid /\ entries[p[2]].valid
                       /\ SharedYears(entries[p[1]], entries[p[2]]) > 0},
     claimed  |-> claimedTotal,
     flags    |-> Flags(entries, valid, total, claimedTotal, claims)]

\* run_experience_agent.  claimedTotal is NoYear when the text claims nothing.
ExperienceAgent(work, claimedTotal, claims) ==
    LET entries == GregorianEntries(AnalyzedEntries(work))
        valid   == ValidEntries(entries)
    IN ExperienceOutput(entries, valid, MergedYears(Intervals(valid)), claimedTotal, claims)

=============================================================================
