---------------------------- MODULE DatasetBuild ----------------------------
(***************************************************************************)
(* `python -m app.datasets.finetune.build`: counting, streaming, cleansing *)
(* into a temporary file, writing the three splits, the manifest and the   *)
(* statistics (build, extract), while uploads are processed and candidates *)
(* withdraw, with exceptions and kills at every step.                      *)
(***************************************************************************)
EXTENDS DatasetRecords

CONSTANTS Databases,         \* the contents of the database to start from: people, uploads,
                             \* those processed, and the people who may still leave
          MinPairs,
          MaxBuilds, MaxFaults

VARIABLES db,       \* people, uploads; who is eligible, what has been processed
          disk,     \* temp and the files of the output directory; NULL: no such file
          pc,
          run,      \* the memory of the build
          builds, faults,
          exit      \* how the last build ended

vars == <<db, disk, pc, run, builds, faults, exit>>

Files == ToSet(SPLITS)

Blank == [eligible |-> 0, rows |-> <<>>, all |-> {}, pending |-> <<>>, fetched |-> 0, kept |-> 0,
          dropped |-> [r \in RULES |-> 0], seen |-> {}, meta |-> <<>>,
          splits |-> [n \in Files |-> {}], opened |-> 0, pos |-> 1, manifest |-> [n \in Files |-> <<>>]]

Init ==
    /\ db \in {[people |-> d.people, uploads |-> d.uploads, eligible |-> DOMAIN d.people,
                leaving |-> d.leaving, processed |-> d.processed, again |-> {}] : d \in Databases}
    /\ disk = [temp |-> NULL, manifest |-> NULL, stats |-> NULL, files |-> [n \in Files |-> NULL]]
    /\ pc = "idle" /\ run = Blank /\ builds = 0 /\ faults = 0 /\ exit = "none"

-----------------------------------------------------------------------------
(* The database meanwhile.  An upload made an application and a resume in   *)
(* one transaction; they bear the same id here, which the tables do not.    *)

\* The worker stores the analysis and the rounded score (the linear pipeline only a score).
Worker(u) ==
    /\ u \in DOMAIN db.uploads \ db.processed
    /\ db' = [db EXCEPT !.processed = @ \cup {u}]
    /\ UNCHANGED <<disk, pc, run, builds, faults, exit>>

\* The job runs again, loses an agent it had the first time (or has one it lost), and
\* stores analysis and score anew, in one commit.
Rerun(u) ==
    /\ u \in db.processed \ db.again
    /\ faults < MaxFaults
    /\ db' = [db EXCEPT !.again = @ \cup {u}]
    /\ faults' = faults + 1
    /\ UNCHANGED <<disk, pc, run, builds, exit>>

\* The account is closed, deactivated or erased.
Withdraw(c) ==
    /\ c \in db.eligible \cap db.leaving
    /\ db' = [db EXCEPT !.eligible = @ \ {c}]
    /\ UNCHANGED <<disk, pc, run, builds, faults, exit>>

-----------------------------------------------------------------------------
(* extract *)

\* round(): halves go to the even neighbour.  Scores are kept in tenths.
Rounded(x) ==
    LET q == x \div 10
        r == x % 10
    IN  IF r > 5 \/ (r = 5 /\ q % 2 = 1) THEN q + 1 ELSE q

Score(u) == Rounded(IF u \in db.again THEN db.uploads[u].rescore ELSE db.uploads[u].score)
ScoreAi(u) == IF u \in db.processed THEN Score(u) ELSE NULL

\* _resume_join: the processed resumes of the same candidate in the same organisation.
Joined(a) ==
    {r \in db.processed : /\ db.uploads[r].pipeline = "multi_agent"
                          /\ db.uploads[r].cand = db.uploads[a].cand
                          /\ db.uploads[r].tenant = db.uploads[a].tenant}
EligiblePairs == {a \in DOMAIN db.uploads : db.uploads[a].cand \in db.eligible /\ Joined(a) # {}}

Row(a, r) == [app |-> a, resume |-> r, score |-> ScoreAi(a), analysed |-> Score(r)]
\* Ordered by application, then by resume: the n-th of all pairs, those that join.
PairsQuery ==
    LET n == Len(db.uploads)
        pairs == [i \in 1..n * n |-> <<1 + ((i - 1) \div n), 1 + ((i - 1) % n)>>]
        ids == SelectSeq(pairs, LAMBDA p : p[1] \in EligiblePairs /\ p[2] \in Joined(p[1]))
    IN  [i \in DOMAIN ids |-> Row(ids[i][1], ids[i][2])]

\* Mutant: the first of several candidates is as good as any.
PickResumeFirst(rows) ==
    LET matches == SelectSeq(rows, LAMBDA row : row.score # NULL /\ row.analysed = row.score)
    IN  IF Len(rows) = 1 THEN rows[1].resume ELSE IF matches # <<>> THEN matches[1].resume ELSE NULL

PickResume(rows) ==
    LET matches == SelectSeq(rows, LAMBDA row : row.score # NULL /\ row.analysed = row.score)
    IN  IF Len(rows) = 1 THEN rows[1].resume ELSE IF Len(matches) = 1 THEN matches[1].resume ELSE NULL

\* The profile's first and last name apart and together, and what the parser found.
NamesOf(person) == {person.first, person.last, person.first \o person.last} \ {<<>>}
Identity(a, r) ==
    LET person == db.people[db.uploads[a].cand]
        parsed == db.uploads[r].parsed
    IN  [names |-> NamesOf(person) \cup parsed.names, locals |-> person.locals \cup parsed.locals,
         phones |-> person.phones \cup parsed.phones, cities |-> person.cities]

NoText == [head |-> <<>>, rest |-> {}]
ToSource(rows) ==
    LET a == rows[1].app
        chosen == PickResume(rows)
        r == IF chosen = NULL THEN rows[1].resume ELSE chosen
    IN  [app |-> a, resume |-> chosen, group |-> db.uploads[a].cand,
         score |-> rows[1].score, status |-> db.uploads[a].status, job |-> db.uploads[a].job,
         text |-> IF chosen = NULL THEN NoText ELSE db.uploads[r].text,
         analysis |-> db.uploads[r].analysis,
         identity |-> Identity(a, r),
         ambiguous |-> chosen = NULL]

-----------------------------------------------------------------------------
(* build *)

\* count_eligible_pairs and the gate of --min-pairs.
Count ==
    /\ pc = "idle" /\ builds < MaxBuilds
    /\ builds' = builds + 1
    /\ IF Cardinality(EligiblePairs) < MinPairs
       THEN exit' = "insufficient_pairs" /\ UNCHANGED <<pc, run>>
       ELSE /\ exit' = "none" /\ pc' = "collect"
            /\ run' = [Blank EXCEPT !.eligible = Cardinality(EligiblePairs)]
    /\ UNCHANGED <<db, disk, faults>>

\* The temporary file is truncated and the query opens its cursor, on a snapshot.
OpenTemp ==
    /\ pc = "collect"
    /\ disk' = [disk EXCEPT !.temp = <<>>]
    /\ run' = [run EXCEPT !.rows = PairsQuery, !.all = EligiblePairs]
    /\ pc' = "stream"
    /\ UNCHANGED <<db, builds, faults, exit>>

\* Mutant: a pair that raises is dropped without a count.
CountedQuietly(mem, rule) ==
    IF rule = NULL THEN [mem EXCEPT !.fetched = @ + 1, !.kept = @ + 1]
    ELSE IF rule = "invalid_record" THEN [mem EXCEPT !.fetched = @ + 1]
    ELSE [mem EXCEPT !.fetched = @ + 1, !.dropped[rule] = @ + 1]

Counted(mem, rule) ==
    IF rule = NULL THEN [mem EXCEPT !.fetched = @ + 1, !.kept = @ + 1]
    ELSE [mem EXCEPT !.fetched = @ + 1, !.dropped[rule] = @ + 1]

\* One pair through the cleanser: a kept record is written to the temporary file.
Collect(rows, left, pending) ==
    \E source \in {ToSource(rows)} : \E clean \in {Process(source, run.seen)} :
       LET kept == clean.rule = NULL
           item == [group |-> source.group, pii |-> clean.pii, record |-> clean.record,
                    app |-> source.app, resume |-> source.resume]
       IN  /\ run' = [Counted(run, clean.rule) EXCEPT
                        !.rows = left, !.pending = pending,
                        !.seen = IF clean.marks THEN @ \cup {clean.record.input} ELSE @,
                        !.meta = IF kept THEN Append(@, [group |-> source.group,
                                                         bucket |-> ScoreBucket(source.score)]) ELSE @]
           /\ disk' = [disk EXCEPT !.temp = IF kept THEN Append(@, item) ELSE @]

\* iter_pair_sources: the rows of one application come together.
ReadRow ==
    /\ pc = "stream" /\ run.rows # <<>>
    /\ LET row == Head(run.rows)
       IN  IF run.pending # <<>> /\ run.pending[1].app # row.app
           THEN Collect(run.pending, Tail(run.rows), <<row>>)
           ELSE /\ run' = [run EXCEPT !.rows = Tail(@), !.pending = Append(@, row)]
                /\ UNCHANGED disk
    /\ UNCHANGED <<db, pc, builds, faults, exit>>

\* The last pair.
LastPair ==
    /\ pc = "stream" /\ run.rows = <<>> /\ run.pending # <<>>
    /\ Collect(run.pending, <<>>, <<>>)
    /\ UNCHANGED <<db, pc, builds, faults, exit>>

\* The groups get their splits.
Assign ==
    /\ pc = "stream" /\ run.rows = <<>> /\ run.pending = <<>>
    /\ run' = [run EXCEPT !.splits = AssignSplits(run.meta)]
    /\ pc' = "split"
    /\ UNCHANGED <<db, disk, builds, faults, exit>>

\* _write_splits truncates the three files, one after the other, before it writes.
OpenSplits ==
    /\ pc = "split"
    /\ disk' = [disk EXCEPT !.files[SPLITS[run.opened + 1]] = <<>>]
    /\ run' = [run EXCEPT !.opened = @ + 1]
    /\ pc' = IF run.opened = 2 THEN "write" ELSE pc
    /\ UNCHANGED <<db, builds, faults, exit>>


\* The manifest lists a file's records in the order of its lines.
Listed(entries, item) == Append(entries, [group |-> item.group, pii |-> item.pii])

\* Mutant: the records are cut at eight tenths and nine tenths of the file.
SplitOfLine(item) ==
    LET n == Len(disk.temp)
    IN  IF 10 * run.pos <= 8 * n THEN "train" ELSE IF 10 * run.pos <= 9 * n THEN "validation" ELSE "test"

SplitOf(item) == CHOOSE n \in Files : item.group \in run.splits[n]

WriteLine ==
    /\ pc = "write" /\ run.pos <= Len(disk.temp)
    /\ LET item == disk.temp[run.pos]
           name == SplitOf(item)
       IN  /\ disk' = [disk EXCEPT !.files[name] =
                          Append(@, [record |-> item.record, app |-> item.app, resume |-> item.resume])]
           /\ run' = [run EXCEPT !.pos = @ + 1, !.manifest[name] = Listed(@, item)]
    /\ UNCHANGED <<db, pc, builds, faults, exit>>

\* The handles are closed and the temporary file is deleted.
Unlink ==
    /\ pc = "write" /\ run.pos > Len(disk.temp)
    /\ disk' = [disk EXCEPT !.temp = NULL]
    /\ pc' = "manifest"
    /\ UNCHANGED <<db, run, builds, faults, exit>>

\* The manifest is truncated, then written; then the statistics.
OpenManifest ==
    /\ pc = "manifest"
    /\ disk' = [disk EXCEPT !.manifest = NULL]
    /\ pc' = "dump"
    /\ UNCHANGED <<db, run, builds, faults, exit>>
WriteManifest ==
    /\ pc = "dump"
    /\ disk' = [disk EXCEPT !.manifest = run.manifest]
    /\ pc' = "stats"
    /\ UNCHANGED <<db, run, builds, faults, exit>>
WriteStats ==
    /\ pc = "stats"
    /\ disk' = [disk EXCEPT !.stats = [eligible |-> run.eligible, fetched |-> run.fetched,
                                       kept |-> run.kept, dropped |-> run.dropped]]
    /\ pc' = "idle" /\ exit' = "ok"
    /\ UNCHANGED <<db, run, builds, faults>>

\* An exception ends the build; the temporary file goes, once its block was entered.
Raise ==
    /\ pc # "idle" /\ faults < MaxFaults
    /\ faults' = faults + 1
    /\ disk' = [disk EXCEPT !.temp = IF pc = "collect" THEN @ ELSE NULL]
    /\ pc' = "idle" /\ exit' = "error" /\ run' = Blank
    /\ UNCHANGED <<db, builds>>

\* What is left of a file whose last lines were still in the buffer.
Tails(lines) ==
    {lines} \cup UNION {{SubSeq(lines, 1, k), Append(SubSeq(lines, 1, k), NULL)} : k \in 0..Len(lines) - 1}

\* The process is killed: buffered lines are lost and the temporary file stays.
Kill ==
    /\ pc # "idle" /\ faults < MaxFaults
    /\ faults' = faults + 1
    /\ IF pc = "write"
       THEN \E a \in Tails(disk.files["train"]), b \in Tails(disk.files["validation"]),
               c \in Tails(disk.files["test"]) :
               disk' = [disk EXCEPT !.files = [n \in Files |-> CASE n = "train" -> a
                                                                 [] n = "validation" -> b
                                                                 [] OTHER -> c]]
       ELSE UNCHANGED disk
    /\ pc' = "idle" /\ exit' = "killed" /\ run' = Blank
    /\ UNCHANGED <<db, builds>>

Next ==
    \/ \E u \in DOMAIN db.uploads : Worker(u) \/ Rerun(u)
    \/ \E c \in DOMAIN db.people : Withdraw(c)
    \/ Count
    \/ OpenTemp
    \/ ReadRow
    \/ LastPair
    \/ Assign
    \/ OpenSplits
    \/ WriteLine
    \/ Unlink
    \/ OpenManifest
    \/ WriteManifest
    \/ WriteStats
    \/ Raise
    \/ Kill

Spec == Init /\ [][Next]_vars

-----------------------------------------------------------------------------
(* Properties *)

\* Type correctness; the temporary file is there while it is needed.
TypeOK ==
    /\ pc \in {"idle", "collect", "stream", "split", "write", "manifest", "dump", "stats"}
    /\ exit \in {"none", "ok", "error", "killed", "insufficient_pairs"}
    /\ builds \in 0..MaxBuilds /\ faults \in 0..MaxFaults
    /\ db.processed \subseteq DOMAIN db.uploads /\ db.again \subseteq db.processed
    /\ pc = "write" => run.pos \in 1..Len(disk.temp) + 1
    /\ run.opened \in 0..3
    /\ pc \in {"stream", "split", "write"} => disk.temp # NULL

Lines(n) == IF disk.files[n] = NULL THEN {} ELSE {disk.files[n][i] : i \in DOMAIN disk.files[n]} \ {NULL}
Written == UNION {Lines(n) : n \in Files}
        \cup (IF disk.temp = NULL THEN {} ELSE {disk.temp[i] : i \in DOMAIN disk.temp})

\* What the record of a line knows of its candidate.
Names(line) ==
    NamesOf(db.people[db.uploads[line.app].cand]) \cup db.uploads[line.resume].parsed.names
        \cup HeaderName(Normalized(db.uploads[line.resume].text))
Locals(line) == db.people[db.uploads[line.app].cand].locals \cup db.uploads[line.resume].parsed.locals
Phones(line) == db.people[db.uploads[line.app].cand].phones \cup db.uploads[line.resume].parsed.phones
City(line) == db.people[db.uploads[line.app].cand].cities

WordsOf(line) == UNION Values(line.record)
Mentions(line, key) == \E w \in WordsOf(line) : Key(w) = key

\* No file of the directory, the temporary one included, ever holds a record that names
\* its own candidate, as far as the build recognises a name: no word of two letters or
\* more of a name of the profile, the parser or the header, nor a name of two or three
\* words written as one; no word of three letters or more of an e-mail address; no phone
\* number of eight digits or more, no labelled one of 7 to 15; nothing a general pattern
\* finds; and the whole phrase of the city nowhere in the resume.  Shorter words, names
\* that are numbers and parts of the phrase do stay.
NoLeak ==
    \A line \in Written :
        /\ \A w \in WordsOf(line) :
              w.k # "pattern" /\ (w.k = "labelled" => Letters(w.of) \notin 7..15)
        /\ \A name \in Names(line) :
              LET glued == FlattenSeq([i \in DOMAIN name |-> name[i].of])
              IN  /\ \A w \in ToSet(name) :
                        w.k \notin {"digits", "hidden"} /\ Letters(w.of) >= 2 => ~Mentions(line, w.of)
                  /\ Len(name) \in 2..3 /\ Letters(glued) >= 2 /\ (\E w \in ToSet(name) : w.k # "digits")
                        => ~Mentions(line, glued)
        /\ \A p \in Locals(line) : \A w \in ToSet(p) :
              w.k # "digits" /\ Letters(w.of) >= 3 => ~Mentions(line, w.of)
        /\ \A w \in Phones(line) : Letters(w.of) >= 8 => ~Mentions(line, w.of)
        /\ \A place \in City(line) : \A p \in line.record.input.resume :
              \A s \in DOMAIN p : ~StandsAt(NormalizePhrase(place), p, s)

Sum(f) == FoldFunctionOnSet(+, 0, f, DOMAIN f)

\* Every eligible pair of the snapshot is fetched once, and either kept or counted under
\* one rule: the statistics account for all of them.
EveryPairCounted ==
    /\ run.fetched = run.kept + Sum(run.dropped)
    /\ Len(run.meta) = run.kept
    /\ pc \in {"split", "write", "manifest", "dump", "stats"} => run.fetched = Cardinality(run.all)

\* No candidate is in two of the three files, whatever was killed and whatever an
\* earlier build left there.
GroupsApart ==
    \A m, n \in Files : m # n =>
        \A x \in Lines(m), y \in Lines(n) : db.uploads[x.app].cand # db.uploads[y.app].cand

\* No two lines of the dataset have the same text up to case, digits and spacing.
NoTwins ==
    \A m, n \in Files : disk.files[m] # NULL /\ disk.files[n] # NULL =>
        \A i \in DOMAIN disk.files[m], j \in DOMAIN disk.files[n] :
            LET x == disk.files[m][i]
                y == disk.files[n][j]
            IN  <<m, i>> # <<n, j>> /\ x # NULL /\ y # NULL => Near(x.record.input) # Near(y.record.input)

\* No split tells anything of another: neither the same person nor the same text.
SplitsIndependent == GroupsApart /\ NoTwins

\* Where every processed resume of a candidate in an organisation went through the
\* agents, an application is paired with the resume it came with: a score decides, a tie
\* drops the pair, and an application not yet scored is dropped.
RightResume ==
    \A line \in Written :
        LET u == db.uploads[line.app]
            others == {v \in db.processed : db.uploads[v].cand = u.cand /\ db.uploads[v].tenant = u.tenant}
        IN  (\A v \in others : db.uploads[v].pipeline = "multi_agent")
            => line.resume = line.app

\* In every score bucket a split exceeds its share of the records by less than the
\* largest group and lacks less than two of them.
SplitNearTarget ==
    pc = "write" =>
        \A b \in {run.meta[i].bucket : i \in DOMAIN run.meta} :
            LET groups == {g \in GroupsOf(run.meta) : GroupBucket(run.meta, g) = b}
                size(S) == CountIn(run.meta, LAMBDA m : m.group \in S)
                largest == CHOOSE k \in {size({g}) : g \in groups} \cup {0} : \A g \in groups : size({g}) <= k
            IN  \A n \in Files :
                    LET excess == 10 * size(groups \cap run.splits[n]) - Tenths[n] * size(groups)
                    IN  groups # {} => excess < 10 * largest /\ -excess < 20 * largest

\* What only the validator looks for, and what makes it appear in a record: a number
\* after a label with too few or too many digits, digits near the word birth; broken
\* text in the job or in the analysis, where the build does not look for it.
Suspect(line) ==
    \E w \in WordsOf(line) : w.k = "birth" \/ (w.k = "labelled" /\ Letters(w.of) \notin 7..15)
Garbled(line) ==
    LET u == db.uploads[line.app]
    IN  \E w \in WordsIn(u.job.words \cup db.uploads[line.resume].analysis.words) \cup u.job.skills :
            w.k \in {"junk", "hidden"} \/ w.form \in {"mojibake", "invisible"}


\* The build is accountable: every pair of the snapshot is in its counts, once, and the
\* groups that were kept are dealt out near the shares that the manifest promises.
BuildAccountable == TypeOK /\ EveryPairCounted /\ SplitNearTarget
=============================================================================
