------------------------------ MODULE MCAgents ------------------------------
(* Instances of AgentPipeline for TLC: a resume drawn from a catalogue of  *)
(* employment histories and claims, or two resumes in a row.               *)
EXTENDS AgentPipeline

MCCore == [s \in {"Python", "FastAPI", "Docker"} |->
              IF s = "FastAPI" THEN "Python" ELSE s]

Years4(from, to) == [start |-> from, current |-> FALSE, end |-> to]

Since(from) == [start |-> from, current |-> TRUE, end |-> NoYear]

Entry(title, duration) == [title |-> title, duration |-> duration]

\* Both calendars, inside each other, touching, reversed, in the future, too long,
\* with mixed calendars, without a year.
Valid == {Entry("engineer", Years4(1398, 1401)), Entry("lead", Years4(2020, 2023)),
          Entry("senior", Since(1402)), Entry("supervisor", Years4(2019, 2024)),
          Entry("cto", Years4(2022, 2022))}

Invalid == {Entry("cto", Years4(2022, 2019)), Entry("architect", Years4(2024, 2030)),
            Entry("engineer", Years4(1960, 2010)), Entry("none", Years4(1399, 2021)),
            Entry("lead", Years4(NoYear, 2020))}

Histories ==
    {<<>>} \cup {<<e>> : e \in Invalid}
        \cup {<<e, f>> : e \in Valid, f \in Valid \cup Invalid}
        \cup {<<e, f, Entry("lead", Years4(2020, 2023))>> : e, f \in Valid}

Backend == [required |-> {"FastAPI", "Docker"}, titleWords |-> {"engineer", "lead"},
            seniority |-> "senior", education |-> 3, location |-> "partial",
            wanted |-> {"FastAPI"}]

Plain == [readable |-> TRUE, parsed |-> TRUE, work |-> <<Entry("engineer", Years4(2020, 2023))>>,
          rank |-> 2, mentions |-> [s \in {"FastAPI"} |-> 2], claims |-> [s \in {"FastAPI"} |-> 12],
          claimedTotal |-> 15, hits |-> [k \in {"leadership", "teamwork"} |-> 2],
          words |-> 150, job |-> Backend, retries |-> 0]

Modest == [Plain EXCEPT !.claims = <<>>, !.claimedTotal = NoYear]

Catalogue ==
    {[Plain EXCEPT !.work = h] : h \in Histories}
        \cup {[Modest EXCEPT !.work = <<e>>] : e \in Valid}
        \cup {[Plain EXCEPT !.readable = FALSE], [Plain EXCEPT !.parsed = FALSE],
              [Plain EXCEPT !.job = NoJob]}

Retried(r, n) == [r EXCEPT !.retries = n]

\* Any resume of the catalogue once, one with all the retries of the code, and two
\* resumes that share the pool while the first is retried.
MCBatches == {<<r>> : r \in Catalogue} \cup {<<Retried(Plain, 2)>>, <<Retried(Plain, 1), Modest>>}

=============================================================================
