--------------------------- MODULE DatasetRecords ---------------------------
(***************************************************************************)
(* What becomes of one pair "resume and job" on its way into the fine-     *)
(* tuning dataset: normalisation, redaction, the record, the rules of the  *)
(* cleansing, the split by candidate, and the validator's checks           *)
(* (app/datasets/finetune: text_clean, anonymize, records, cleanse, split, *)
(* tokenization, validate_checks, validate).                               *)
(*                                                                         *)
(* A text is a record of its first line and the rest: the line a phrase,   *)
(* the rest a set of phrases, a phrase a sequence of words.  A word is      *)
(* [k, of, form]: its kind, the parts it is written from ("alireza" has     *)
(* two) and its spelling.  Kinds: "name" (a person's), "phone" (a number,   *)
(* known by its last ten digits whatever its prefix and spacing, that only  *)
(* the profile or the parser tells for a phone), "labelled" (a number after *)
(* "tel", "phone" ...), "birth" (digits near the word birth, in no form of  *)
(* a date), "pattern" (what a general pattern of the build and one of the   *)
(* validator find: e-mail, URL, handle, national id ...), "title" (a stop   *)
(* word of the header), "digits", "alien" (not in the tokenizer's           *)
(* vocabulary), "junk" (mojibake beyond repair), "hidden" (invisible        *)
(* characters only), "mark" (a placeholder) and "plain".  Spellings: "std", *)
(* "upper", and those that normalisation undoes: "arabic" letters,          *)
(* "mojibake" and "invisible" characters inside.                            *)
(***************************************************************************)
EXTENDS Integers, Sequences, FiniteSets, SequencesExt

CONSTANTS NULL,
          INSTRUCTION,         \* the words of the fixed instruction
          Size(_),             \* the letters or digits of a part of a word
          MinResumeChars, MaxResumeChars, MaxExperienceYears, MaxTokens,
          Tolerance,           \* of the split ratio, in hundredths
          Shuffled(_, _)       \* a bucket's groups, in the seeded random order

Undone == {"arabic", "mojibake", "invisible"}
Numbers == {"digits", "phone", "labelled", "birth"}

\* A word as the search index knows it: whatever its case, as it is spelt otherwise.
Key(w) == IF w.form \in Undone THEN <<w.form>> \o w.of ELSE w.of
Letters(key) == FoldSeq(LAMBDA part, n : Size(part) + n, 0, key)

WordsIn(phrases) == UNION {ToSet(p) : p \in phrases}
Words(text) == WordsIn(text.rest \cup {text.head})

-----------------------------------------------------------------------------
(* text_clean *)

Normal(w) == IF w.form \in Undone THEN [w EXCEPT !.form = "std"] ELSE w
NormalizePhrase(p) ==
    LET seen == SelectSeq(p, LAMBDA w : w.k # "hidden") IN [i \in DOMAIN seen |-> Normal(seen[i])]
NormalizeText(phrases) == {NormalizePhrase(p) : p \in phrases} \ {<<>>}
Normalized(text) == [head |-> NormalizePhrase(text.head), rest |-> NormalizeText(text.rest)]
Phrases(text) == (text.rest \cup {text.head}) \ {<<>>}

HasMojibake(ws) == \E w \in ws : w.k = "junk" \/ w.form = "mojibake"

\* Letters only: neither digits nor the spaces between the words count.
FingerprintText(phrases) == UNION {ToSet(w.of) : w \in {v \in WordsIn(phrases) : v.k \notin Numbers}}

-----------------------------------------------------------------------------
(* anonymize *)

MIN_NAME_TOKEN_LENGTH == 2
MIN_EMAIL_TOKEN_LENGTH == 3
MIN_PHONE_DIGITS == 8
MAX_HEADER_NAME_WORDS == 4
MAX_HEADER_NAME_CHARS == 40

Mark(m) == [k |-> "mark", of |-> <<m>>, form |-> "std"]

\* An identity: [names, locals (the local parts of e-mail addresses), phones, cities],
\* sets of phrases, of words for the phones.
\* The first line is taken for a name when it is short, has two to four words, no digit
\* and no word of a job title.
LineLength(p) == Letters(FlattenSeq([i \in DOMAIN p |-> p[i].of])) + Len(p) - 1
HeaderName(text) ==
    IF /\ Len(text.head) \in 2..MAX_HEADER_NAME_WORDS
       /\ LineLength(text.head) <= MAX_HEADER_NAME_CHARS
       /\ \A w \in ToSet(text.head) : w.k \notin Numbers \cup {"title"}
    THEN {text.head} ELSE {}
WithHeaderName(identity, text) == [identity EXCEPT !.names = @ \cup HeaderName(text)]

\* The words of a name, and a name of two or three words written as one.
AsOneWord(p) == [k |-> IF \A w \in ToSet(p) : w.k = "digits" THEN "digits" ELSE "name",
                 of |-> FlattenSeq([i \in DOMAIN p |-> p[i].of]), form |-> "std"]
NameWords(name) ==
    LET p == NormalizePhrase(name) IN ToSet(p) \cup (IF Len(p) \in 2..3 THEN {AsOneWord(p)} ELSE {})

LongWords(ws, n) == {w \in ws : Letters(w.of) >= n}

\* Mutant: the shortest names are ignored like the shortest words of an e-mail address.
NameTokensLonger(identity) ==
    {Key(w) : w \in {v \in LongWords(UNION {NameWords(p) : p \in identity.names}
                                        \cup WordsIn(NormalizeText(identity.locals)),
                                     MIN_EMAIL_TOKEN_LENGTH) : v.k # "digits"}}

\* What counts as a name: short words, and shorter ones of an e-mail address, do not,
\* nor do numbers.
NameTokens(identity) ==
    LET named == UNION {NameWords(p) : p \in identity.names}
        mailed == LongWords(WordsIn(NormalizeText(identity.locals)), MIN_EMAIL_TOKEN_LENGTH)
    IN  {Key(w) : w \in {v \in LongWords(named \cup mailed, MIN_NAME_TOKEN_LENGTH) : v.k # "digits"}}

\* _phone_digits: a short number is no phone.
PhoneTokens(identity) == {Key(w) : w \in LongWords({Normal(v) : v \in identity.phones}, MIN_PHONE_DIGITS)}
IdentityHashes(identity) == NameTokens(identity) \cup PhoneTokens(identity)

\* What redact_patterns finds: of the numbers after a label those of 7 to 15 digits.
PatternFinds(w) == w.k = "pattern" \/ (w.k = "labelled" /\ Letters(w.of) \in 7..15)

\* The words of a phrase at the places that are hit give way to a placeholder.
Replaced(p, hits, m) == [i \in DOMAIN p |-> IF i \in hits THEN Mark(m) ELSE p[i]]
WithTokens(p, tokens) == {i \in DOMAIN p : Key(p[i]) \in tokens}
RedactPatterns(ps) ==
    {Replaced(p, {i \in DOMAIN p : PatternFinds(p[i])}, "PATTERN") : p \in ps}
RedactNames(identity, ps) ==
    LET tokens == NameTokens(identity) IN {Replaced(p, WithTokens(p, tokens), "NAME") : p \in ps}
RedactPhones(identity, ps) ==
    LET tokens == PhoneTokens(identity) IN {Replaced(p, WithTokens(p, tokens), "PHONE") : p \in ps}

\* The phrase stands in p from place s on.
StandsAt(phrase, p, s) ==
    s + Len(phrase) - 1 <= Len(p) /\ \A j \in DOMAIN phrase : Key(p[s + j - 1]) = Key(phrase[j])

\* A location is found as a whole only: "tehran iran" is, "tehran" alone is not.
RedactLocations(identity, ps) ==
    LET places == NormalizeText(identity.cities)
        inside(p) == {i \in DOMAIN p : \E place \in places : \E s \in 1..i :
                          i < s + Len(place) /\ StandsAt(place, p, s)}
    IN  {Replaced(p, inside(p), "LOCATION") : p \in ps}

\* The resume loses the candidate's city too; a job keeps its city.
OtherText(identity, ps) == RedactNames(identity, RedactPatterns(RedactPhones(identity, ps)))
ResumeText(identity, ps) ==
    RedactNames(identity, RedactLocations(identity, RedactPatterns(RedactPhones(identity, ps))))

-----------------------------------------------------------------------------
(* records: a source is the pair as read from the database, in memory only. *)

VerdictFor(score) == IF score >= 70 THEN "fit" ELSE IF score >= 40 THEN "review" ELSE "unfit"

JobBlock(source, identity) ==
    OtherText(identity, NormalizeText(source.job.words \cup {<<w>> : w \in source.job.skills}))
BuildInput(source, identity, ps) == [job |-> JobBlock(source, identity), resume |-> ResumeText(identity, ps)]

\* The skills of the job, words, are repeated as they are, neither normalised nor
\* redacted; the agents' names of the skills stand in when the matching lists none.
Reported(analysis) ==
    {Key(w) : w \in IF analysis.matched # {} THEN analysis.matched ELSE analysis.items}
MatchedSkills(source) == {w \in source.job.skills : Key(w) \in Reported(source.analysis)}

BuildOutput(source, identity) ==
    [score |-> source.score,
     verdict |-> VerdictFor(source.score),
     matched |-> MatchedSkills(source),
     missing |-> source.job.skills \ MatchedSkills(source),
     words |-> OtherText(identity, NormalizeText(source.analysis.words)),
     outcome |-> IF source.status = "Draft" THEN NULL ELSE source.status]

BuildRecord(source, identity, ps) ==
    [instruction |-> INSTRUCTION,
     input |-> BuildInput(source, identity, ps),
     output |-> BuildOutput(source, identity)]

\* The words of the three strings of a record.
Values(record) ==
    {record.instruction,
     WordsIn(record.input.job \cup record.input.resume),
     WordsIn(record.output.words) \cup record.output.matched \cup record.output.missing}

-----------------------------------------------------------------------------
(* tokenization *)

RoundTrips(ws) == \A w \in ws : w.k # "alien"
CountTokens(record) ==
    Cardinality(record.instruction) + Cardinality(WordsIn(record.input.job))
    + Cardinality(WordsIn(record.input.resume)) + Cardinality(WordsIn(record.output.words))
    + Cardinality(record.output.matched \cup record.output.missing)

-----------------------------------------------------------------------------
(* cleanse *)

\* The build's own test of what it is about to write.
HasPiiResidual(record, hashes) ==
    \E ws \in Values(record) : \E w \in ws : PatternFinds(w) \/ Key(w) \in hashes

Min2(a, b) == IF a < b THEN a ELSE b
ScoreBucket(score) == Min2(score \div 20, 4)

\* The checks in their order, each with the counter it feeds.
CHECKS == <<"ambiguous_resume_link", "incomplete_resume_text", "incomplete_job", "missing_score",
            "missing_agent_analysis", "outlier_score", "invalid_years", "outlier_experience_years",
            "mojibake", "outlier_resume_too_short", "outlier_resume_too_long", "invalid_record",
            "duplicate_exact", "duplicate_near", "pii_residual", "tokenizer_round_trip", "too_many_tokens">>
Rule(check) == IF check = "invalid_years" THEN "invalid_record" ELSE check
RULES == {Rule(CHECKS[i]) : i \in DOMAIN CHECKS}

\* _source_rejection; a value that is no number raises on the way.
SourceFails(check, source) ==
    CASE check = "ambiguous_resume_link"    -> source.ambiguous
      [] check = "incomplete_resume_text"   -> Words(source.text) = {}
      [] check = "incomplete_job"           -> source.job.words = {}
      [] check = "missing_score"            -> source.score = NULL
      [] check = "missing_agent_analysis"   -> source.analysis.status = "failed"
      [] check = "outlier_score"            -> source.score \notin 0..100
      [] check = "invalid_years"            -> source.analysis.bad = "years"
      [] check = "outlier_experience_years" -> source.analysis.years \notin 0..MaxExperienceYears
      [] OTHER -> FALSE

\* _text_rejection, and what raises while the record is built.
TextFails(check, source, ws) ==
    CASE check = "mojibake"                 -> HasMojibake(ws)
      [] check = "outlier_resume_too_short" -> Cardinality(ws) < MinResumeChars
      [] check = "outlier_resume_too_long"  -> Cardinality(ws) > MaxResumeChars
      [] check = "invalid_record"           -> source.analysis.bad = "soft"
      [] OTHER -> FALSE

Near(input) == [job |-> FingerprintText(input.job), resume |-> FingerprintText(input.resume)]
IsDuplicate(check, seen, input) ==
    \/ check = "duplicate_exact" /\ input \in seen
    \/ check = "duplicate_near" /\ Near(input) \in {Near(old) : old \in seen}

FinalFails(check, record, hashes) ==
    CASE check = "pii_residual"         -> HasPiiResidual(record, hashes)
      [] check = "tokenizer_round_trip" -> \E ws \in Values(record) : ~RoundTrips(ws)
      [] check = "too_many_tokens"      -> CountTokens(record) > MaxTokens
      [] OTHER -> FALSE

FirstOf(checks, Fails(_)) ==
    LET failing == SelectSeq(checks, Fails) IN IF failing = <<>> THEN NULL ELSE Head(failing)

\* Cleanser.process: the first check that fails, NULL for a pair that is kept; the
\* record, and whether it is remembered among the seen ones.
Process(source, seen) ==
    LET none(rule) == [rule |-> rule, record |-> NULL, marks |-> FALSE, pii |-> {}]
        early == FirstOf(SubSeq(CHECKS, 1, 8), LAMBDA c : SourceFails(c, source))
    IN  IF early # NULL THEN none(Rule(early)) ELSE
        LET text == Normalized(source.text)
            ws == Words(text)
            unfit == FirstOf(SubSeq(CHECKS, 9, 12), LAMBDA c : TextFails(c, source, ws))
        IN  IF unfit # NULL THEN none(unfit) ELSE
            LET identity == WithHeaderName(source.identity, text)
                record == BuildRecord(source, identity, Phrases(text))
                twin == FirstOf(SubSeq(CHECKS, 13, 14), LAMBDA c : IsDuplicate(c, seen, record.input))
                hashes == IdentityHashes(identity)
            IN  IF twin # NULL THEN none(twin) ELSE
                [rule |-> FirstOf(SubSeq(CHECKS, 15, 17), LAMBDA c : FinalFails(c, record, hashes)),
                 record |-> record, marks |-> TRUE, pii |-> hashes]

-----------------------------------------------------------------------------
(* split: the meta data of a record are its group (the candidate) and its bucket. *)

SPLITS == <<"train", "validation", "test">>
Tenths == [train |-> 8, validation |-> 1, test |-> 1]

CountIn(seq, P(_)) == Len(SelectSeq(seq, P))
GroupSize(meta, g) == CountIn(meta, LAMBDA m : m.group = g)
Votes(meta, g, b) == CountIn(meta, LAMBDA m : m.group = g /\ m.bucket = b)
GroupsOf(meta) == {meta[i].group : i \in DOMAIN meta}

\* The bucket most of a group's records are in, the smaller one of equals.
GroupBucket(meta, g) ==
    CHOOSE b \in 0..4 : \A c \in 0..4 :
        \/ Votes(meta, g, b) > Votes(meta, g, c)
        \/ Votes(meta, g, b) = Votes(meta, g, c) /\ b <= c

\* Larger groups first, equal ones in the shuffled order.
LargestFirst(meta, seq) ==
    LET at == SortSeq([i \in DOMAIN seq |-> i],
                      LAMBDA i, j : \/ GroupSize(meta, seq[i]) > GroupSize(meta, seq[j])
                                    \/ GroupSize(meta, seq[i]) = GroupSize(meta, seq[j]) /\ i < j)
    IN  [i \in DOMAIN seq |-> seq[at[i]]]

\* Mutant: the split with the smallest share filled comes next, whatever its target.
MostWantingEven(filled, total) ==
    LET has(i) == filled[SPLITS[i]]
    IN  SPLITS[CHOOSE i \in 1..3 : \A j \in 1..3 : has(i) < has(j) \/ (has(i) = has(j) /\ i <= j)]

\* The split that lacks most of its target, in tenths of a record; the first of equals.
MostWanting(filled, total) ==
    LET lack(i) == Tenths[SPLITS[i]] * total - 10 * filled[SPLITS[i]]
    IN  SPLITS[CHOOSE i \in 1..3 : \A j \in 1..3 : lack(i) > lack(j) \/ (lack(i) = lack(j) /\ i <= j)]

AssignBucket(meta, bucket) ==
    LET groups == {g \in GroupsOf(meta) : GroupBucket(meta, g) = bucket}
        total == CountIn(meta, LAMBDA m : m.group \in groups)
        give(acc, g) ==
            LET name == MostWanting(acc.filled, total)
            IN  [filled |-> [acc.filled EXCEPT ![name] = @ + GroupSize(meta, g)],
                 splits |-> [acc.splits EXCEPT ![name] = @ \cup {g}]]
    IN  FoldLeft(give,
                 [filled |-> [n \in ToSet(SPLITS) |-> 0], splits |-> [n \in ToSet(SPLITS) |-> {}]],
                 LargestFirst(meta, Shuffled(bucket, groups)))

\* The groups of each split.
AssignSplits(meta) ==
    [n \in ToSet(SPLITS) |-> UNION {AssignBucket(meta, b).splits[n] : b \in 0..4}]

-----------------------------------------------------------------------------
(* validate and validate_checks: the checks share no code with the build;   *)
(* the patterns are wider ones, and they look at every value of a record.  *)
(* A line is a record, NULL where a killed build tore it; the manifest has *)
(* one entry [group, pii] per line, and is NULL when it cannot be read.    *)

\* One digit after a label, or near the word birth, is enough.
CheckPii(record, hashes) ==
    \E ws \in Values(record) : \E w \in ws : w.k \in {"pattern", "labelled", "birth"} \/ Key(w) \in hashes
CheckBroken(record) ==
    \E ws \in Values(record) :
        \/ HasMojibake(ws) \/ ~RoundTrips(ws)
        \/ \E w \in ws : w.k = "hidden" \/ w.form = "invisible"

CheckRecord(line, entry) ==
    IF line = NULL THEN {"schema"} ELSE
    {c \in {"score", "pii", "broken", "context_overflow"} :
        CASE c = "score"  -> line.output.score \notin 0..100
          [] c = "pii"    -> CheckPii(line, entry.pii)
          [] c = "broken" -> CheckBroken(line)
          [] OTHER        -> CountTokens(line) > MaxTokens}

NoEntry == [group |-> NULL, pii |-> {}]
ValidateSplit(lines, entries) ==
    IF lines = NULL THEN {"missing_file"} ELSE
    UNION {CheckRecord(lines[i], IF i <= Len(entries) THEN entries[i] ELSE NoEntry) : i \in DOMAIN lines}
    \cup (IF Len(lines) # Len(entries) THEN {"manifest_mismatch"} ELSE {})

Distance(a, b) == IF a < b THEN b - a ELSE a - b
CheckSplits(entries, counts, total) ==
    (IF \E m, n \in ToSet(SPLITS) : m # n /\ GroupsOf(entries[m]) \cap GroupsOf(entries[n]) # {}
     THEN {"leakage_group"} ELSE {})
    \cup (IF \E n \in ToSet(SPLITS) :
                10 * Distance(10 * counts[n], Tenths[n] * total) > Tolerance * total \/ total = 0
          THEN {"split_ratio"} ELSE {})

\* validate_dataset: the codes of the report, none for a pass.
ValidateDataset(files, manifest) ==
    LET readable == manifest # NULL
        entries == [n \in ToSet(SPLITS) |-> IF readable THEN manifest[n] ELSE <<>>]
        present == [n \in ToSet(SPLITS) |-> IF files[n] = NULL THEN <<>> ELSE entries[n]]
        counts == [n \in ToSet(SPLITS) |-> IF files[n] = NULL THEN 0 ELSE Len(files[n])]
    IN  (IF readable THEN {} ELSE {"manifest_missing"})
        \cup UNION {ValidateSplit(files[n], entries[n]) : n \in ToSet(SPLITS)}
        \cup CheckSplits(present, counts, counts["train"] + counts["validation"] + counts["test"])
=============================================================================
