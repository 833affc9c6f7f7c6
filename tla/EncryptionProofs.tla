-------------------------- MODULE EncryptionProofs --------------------------
(* Theorems about Encryption, CandidateSearch and Pagination, for any number *)
(* of candidates, resumes, processes and searches and any batch and page     *)
(* size: no key rotation strands a value of a swept column and encrypt-legacy *)
(* leaves nothing in the clear; the blind index finds exactly what the text   *)
(* matches; every page is the right one, and a walk through the pages neither *)
(* repeats nor misses a candidate.                                            *)
EXTENDS CandidateSearch, FiniteSetTheorems, SequenceTheorems, TLAPS

(***************************************************************************)
(* The inductive invariant                                                 *)
(***************************************************************************)

TextCell == [key : {Plain, "k1", "k2"}, val : Text]
Token == {<<x, w>> : x \in {"none", "b1", "b2"},
                     w \in UNION {resume_search_words(t) : t \in Text}}

CandidateRow == [first_name : Cell, phone : Cell \union {NULL}]
ResumeRow == [raw_text : TextCell \union {NULL},
              agent_analysis : Cell \union {NULL},
              search_tokens : (SUBSET Token) \union {NULL},
              skill_analysis : BOOLEAN]

Ids(t) == IF t = "candidates" THEN Candidates ELSE Resumes
RowOf(t) == IF t = "candidates" THEN CandidateRow ELSE ResumeRow

SweepType ==
    /\ sweep = [pc |-> sweep.pc, kind |-> sweep.kind, table |-> sweep.table,
                last |-> sweep.last, batch |-> sweep.batch]
    /\ sweep.pc \in {"idle", "read", "commit"}
    /\ sweep.kind \in {"legacy", "all"}
    /\ sweep.table \in {"candidates", "resumes"}
    /\ sweep.last \in Nat

\* The types, those of the loaded copies of a batch included.
Shape ==
    /\ candidates \in [Candidates -> CandidateRow]
    /\ resumes \in [Resumes -> ResumeRow]
    /\ deploy \in 1..4
    /\ version \in [Instances -> 1..4]
    /\ SweepType
    /\ committed \subseteq Resumes
    /\ erased \subseteq Leavers
    /\ sweep.pc = "commit" =>
         /\ DOMAIN sweep.batch \subseteq Ids(sweep.table)
         /\ DOMAIN sweep.batch # {}
         /\ \A id \in DOMAIN sweep.batch : sweep.batch[id] \in RowOf(sweep.table)

\* The sweeps that may still be due for a deployment.
DueType ==
    /\ deploy = 1 => due = <<>>
    /\ deploy \in {2, 4} => due \in {<<"legacy">>, <<>>}
    /\ deploy = 3 => due \in {<<"legacy", "all">>, <<"all">>, <<>>}

\* At most two deployments serve at once, and none but the last since its
\* first sweep began.
Rolling ==
    /\ \A i \in Instances : version[i] \in {deploy - 1, deploy}
    /\ due # SweepsOf[deploy] => Settled
    /\ sweep.pc # "idle" => Settled /\ due # <<>> /\ sweep.kind = Head(due)

\* The key a process of deployment d writes with.
KeyOf(d) == IF d = 1 THEN Plain ELSE IF d = 2 THEN "k1" ELSE "k2"

\* The keys that may occur in swept columns, and those a sweep leaves behind.
Allowed ==
    IF deploy = 1 THEN {Plain}
    ELSE IF due = <<>> THEN {KeyOf(deploy)}
    ELSE IF deploy = 2 THEN {Plain, "k1"}
    ELSE IF deploy = 3 THEN {"k1", "k2"}
    ELSE {"k2"}

Target == IF deploy = 3 /\ sweep.kind = "legacy" THEN {"k1", "k2"} ELSE {KeyOf(deploy)}

CellIn(cell, K) == cell = NULL \/ cell.key \in K
CandidatesIn(S, K) ==
    \A c \in S : CellIn(candidates[c].first_name, K) /\ CellIn(candidates[c].phone, K)
ResumesIn(S, K) == \A r \in S : CellIn(resumes[r].raw_text, K)
RowsIn(t, S, K) == IF t = "candidates" THEN CandidatesIn(S, K) ELSE ResumesIn(S, K)

KeysOK == CandidatesIn(Candidates, Allowed) /\ ResumesIn(Resumes, Allowed)

\* The rows the running sweep has passed: the whole first table once it is at
\* the second, the ids up to last, and, while a batch is open, the ids up to
\* its last one that are not in it.
Passed ==
    sweep.pc # "idle" =>
        /\ sweep.table = "resumes" => CandidatesIn(Candidates, Target)
        /\ RowsIn(sweep.table, {id \in Ids(sweep.table) : id <= sweep.last}, Target)
        /\ sweep.pc = "commit" =>
             RowsIn(sweep.table,
                    {id \in Ids(sweep.table) \ DOMAIN sweep.batch : id <= Max(DOMAIN sweep.batch)},
                    Target)

IInv == Shape /\ DueType /\ Rolling /\ KeysOK /\ Passed

(***************************************************************************)
(* Finite sets of ids: the next batch of a sweep skips no row              *)
(***************************************************************************)

\* A non-empty set of naturals has a least element.
LEMMA LeastId ==
    ASSUME NEW R, R \subseteq Nat, R # {}
    PROVE  \E m \in R : \A n \in R : m <= n
  <1>1. IsWellFoundedOn(OpToRel(<, Nat), Nat)
    BY NatLessThanWellFounded
  <1>2. PICK m \in R : \A n \in R : ~(<<n, m>> \in OpToRel(<, Nat))
    BY <1>1, WFMin
  <1>3. ASSUME NEW n \in R PROVE m <= n
    <2>1. ~(<<n, m>> \in OpToRel(<, Nat))
      BY <1>2
    <2>2. n \in Nat /\ m \in Nat
      OBVIOUS
    <2>3. ~(n < m)
      BY <2>1, <2>2 DEF OpToRel
    <2>4. QED
      BY <2>2, <2>3
  <1>4. QED
    BY <1>3

LEMMA CardinalityNat == \A S : IsFiniteSet(S) => Cardinality(S) \in Nat
  BY FS_CardinalityType, Zenon

\* Max(S) is the greatest element of a finite, non-empty set of ids.
LEMMA MaxId ==
    ASSUME NEW S, S \subseteq Nat, S # {}, IsFiniteSet(S)
    PROVE  Max(S) \in S /\ \A n \in S : n <= Max(S)
  <1> DEFINE Above(x) == {y \in S : y > x}
  <1> DEFINE N == {Cardinality(Above(x)) : x \in S}
  <1>1. \A x \in S : IsFiniteSet(Above(x)) /\ Cardinality(Above(x)) \in Nat
    <2>1. \A x \in S : Above(x) \in SUBSET S
      OBVIOUS
    <2>2. \A x \in S : IsFiniteSet(Above(x))
      BY <2>1, FS_Subset
    <2>3. QED
      BY <2>2, CardinalityNat
  <1>2. N \subseteq Nat /\ N # {}
    BY <1>1
  <1>3. PICK k \in N : \A n \in N : k <= n
    BY <1>2, LeastId
  <1>4. PICK x \in S : k = Cardinality(Above(x))
    OBVIOUS
  <1>5. ASSUME NEW y \in S, y > x PROVE FALSE
    <2>1. ASSUME NEW z \in Above(y) PROVE z \in Above(x)
      <3>1. x \in Nat /\ y \in Nat /\ z \in Nat /\ z > y
        OBVIOUS
      <3>2. z > x
        BY <3>1, <1>5
      <3>3. QED
        BY <3>2
    <2>2. y \in Above(x) /\ y \notin Above(y)
      BY <1>5
    <2>3. Cardinality(Above(y)) <= Cardinality(Above(x))
          /\ Cardinality(Above(y)) # Cardinality(Above(x))
      BY <2>1, <2>2, <1>1, FS_Subset
    <2>4. k <= Cardinality(Above(y))
      BY <1>3
    <2>5. QED
      BY <2>3, <2>4, <1>4, <1>1
  <1>6. x \in S /\ \A y \in S : x >= y
    BY <1>5
  <1>7. Max(S) \in S /\ \A y \in S : Max(S) >= y
    BY <1>6 DEF Max
  <1>8. QED
    BY <1>7

FirstOf(R) == {id \in R : Cardinality({o \in R : o < id}) < BatchSize}

\* The first BatchSize ids of a set: there are none only if the set is empty,
\* and no id below one of them is missing.
LEMMA FirstIds ==
    ASSUME NEW R, R \subseteq Nat, IsFiniteSet(R)
    PROVE  /\ R # {} => FirstOf(R) # {}
           /\ \A b \in FirstOf(R), id \in R : id <= b => id \in FirstOf(R)
  <1>1. ASSUME R # {} PROVE FirstOf(R) # {}
    <2>1. PICK m \in R : \A n \in R : m <= n
      BY <1>1, LeastId
    <2>2. {o \in R : o < m} = {}
      <3>1. ASSUME NEW o \in R PROVE ~(o < m)
        <4>1. o \in Nat /\ m \in Nat /\ m <= o
          BY <2>1
        <4>2. QED
          BY <4>1
      <3>2. QED
        BY <3>1
    <2>3. Cardinality({o \in R : o < m}) = 0
      BY <2>2, FS_EmptySet
    <2>4. QED
      BY <2>3, EncryptionAssumption DEF FirstOf
  <1>2. ASSUME NEW b \in FirstOf(R), NEW id \in R, id <= b PROVE id \in FirstOf(R)
    <2> DEFINE Low(x) == {o \in R : o < x}
    <2>1. b \in R /\ Cardinality(Low(b)) < BatchSize
      BY DEF FirstOf
    <2>2. ASSUME NEW o \in Low(id) PROVE o \in Low(b)
      <3>1. o \in Nat /\ id \in Nat /\ b \in Nat /\ o < id
        BY <2>1
      <3>2. o < b
        BY <3>1, <1>2
      <3>3. QED
        BY <3>2
    <2>3. IsFiniteSet(Low(b)) /\ Cardinality(Low(b)) \in Nat
      <3>1. Low(b) \in SUBSET R
        OBVIOUS
      <3>2. IsFiniteSet(Low(b))
        BY <3>1, FS_Subset
      <3>3. QED
        BY <3>2, CardinalityNat
    <2>4. Cardinality(Low(id)) <= Cardinality(Low(b)) /\ Cardinality(Low(id)) \in Nat
      <3>1. Low(id) \in SUBSET Low(b)
        BY <2>2
      <3>2. IsFiniteSet(Low(id)) /\ Cardinality(Low(id)) <= Cardinality(Low(b))
        BY <3>1, <2>3, FS_Subset
      <3>3. QED
        BY <3>2, CardinalityNat
    <2>5. Cardinality(Low(id)) < BatchSize
      BY <2>1, <2>3, <2>4, EncryptionAssumption
    <2>6. QED
      BY <2>5 DEF FirstOf
  <1>3. QED
    BY <1>1, <1>2

(***************************************************************************)
(* Keys and cells                                                          *)
(***************************************************************************)

\* The ring of each deployment encrypts with KeyOf, the version before the
\* migration with nothing.
LEMMA Rings ==
    /\ Keyring[1].keys = <<>>
    /\ Keyring[2].keys = <<"k1">> /\ Keyring[3].keys = <<"k2", "k1">> /\ Keyring[4].keys = <<"k2">>
    /\ Keyring[2].index = "b1" /\ Keyring[3].index = "b2" /\ Keyring[4].index = "b2"
  BY DEF Keyring

LEMMA RingHead ==
    ASSUME NEW d \in 2..4
    PROVE  /\ Keyring[d].keys # <<>>
           /\ Head(Keyring[d].keys) = KeyOf(d)
           /\ Keyring[d].index \in {"b1", "b2"}
  <1>1. CASE d = 2
    BY <1>1, Rings DEF KeyOf
  <1>2. CASE d = 3
    BY <1>2, Rings DEF KeyOf
  <1>3. CASE d = 4
    BY <1>3, Rings DEF KeyOf
  <1>4. QED
    BY <1>1, <1>2, <1>3

LEMMA ValNotNull == \A v \in Val : v # NULL
  BY NullAssumption

LEMMA TextVal == \A r \in Resumes : TextOf[r] \in Text /\ TextOf[r] \in Val
  BY EncryptionAssumption DEF Text, Val, Range

LEMMA TextCellIsCell == TextCell \subseteq Cell
  BY DEF TextCell, Cell, Val

LEMMA BindKey ==
    ASSUME NEW d \in 1..4, NEW v \in Val
    PROVE  Bind(Keyring[d], v) = [key |-> KeyOf(d), val |-> v]
  <1>1. CASE d = 1
    BY <1>1, Rings DEF Bind, KeyOf
  <1>2. CASE d # 1
    <2>1. d \in 2..4
      BY <1>2
    <2>2. QED
      BY <2>1, RingHead, ValNotNull DEF Bind, encrypt_text
  <1>3. QED
    BY <1>1, <1>2

\* What a sweep of deployment d makes of a loaded cell.
Recrypted(d, cell) == IF cell = NULL THEN NULL ELSE [key |-> KeyOf(d), val |-> cell.val]

LEMMA EncryptKey ==
    ASSUME NEW d \in 2..4, NEW cell \in Cell \union {NULL}
    PROVE  encrypt_text(Keyring[d], Value(cell)) = Recrypted(d, cell)
  <1>1. CASE cell = NULL
    BY <1>1 DEF encrypt_text, Value, Recrypted
  <1>2. CASE cell # NULL
    <2>1. cell \in Cell /\ cell.val \in Val
      BY <1>2 DEF Cell
    <2>2. cell.val # NULL
      BY <2>1, ValNotNull
    <2>3. QED
      BY <1>2, <2>2, RingHead DEF encrypt_text, Value, Recrypted
  <1>3. QED
    BY <1>1, <1>2

LEMMA KeyOfType == \A d \in 1..4 : KeyOf(d) \in {Plain, "k1", "k2"}
  BY DEF KeyOf

LEMMA RecryptedType ==
    ASSUME NEW d \in 2..4
    PROVE  /\ \A cell \in Cell : Recrypted(d, cell) \in Cell
           /\ \A cell \in Cell \union {NULL} : Recrypted(d, cell) \in Cell \union {NULL}
           /\ \A cell \in TextCell \union {NULL} : Recrypted(d, cell) \in TextCell \union {NULL}
           /\ \A cell \in Cell \union {NULL} : CellIn(Recrypted(d, cell), {KeyOf(d)})
  <1>1. KeyOf(d) \in {Plain, "k1", "k2"}
    BY KeyOfType
  <1>2. \A cell \in Cell : cell # NULL
    BY NullAssumption
  <1>3. \A cell \in Cell : Recrypted(d, cell) \in Cell
    BY <1>1, <1>2 DEF Recrypted, Cell
  <1>4. \A cell \in TextCell \union {NULL} : Recrypted(d, cell) \in TextCell \union {NULL}
    BY <1>1 DEF Recrypted, TextCell
  <1>5. \A cell \in Cell \union {NULL} : CellIn(Recrypted(d, cell), {KeyOf(d)})
    BY DEF Recrypted, CellIn
  <1>6. QED
    BY <1>3, <1>4, <1>5 DEF Recrypted

\* A cell under an allowed key opens with the ring in service.
LEMMA AllowedReadable ==
    ASSUME deploy \in 1..4, DueType, NEW cell \in Cell \union {NULL}, CellIn(cell, Allowed)
    PROVE  /\ Readable(Keyring[deploy], cell)
           /\ deploy = 1 => ~is_encrypted(cell)
           /\ (deploy > 2 \/ (deploy = 2 /\ due = <<>>)) => (cell # NULL => is_encrypted(cell))
  <1>0. CASE cell = NULL
    BY <1>0 DEF Readable, is_encrypted
  <1>1. CASE cell # NULL /\ deploy = 1
    BY <1>1, Rings DEF Readable, is_encrypted, CellIn, Allowed, Plain
  <1>2. CASE cell # NULL /\ deploy = 2
    <2>1. cell.key \in {Plain, "k1"} /\ (due = <<>> => cell.key = "k1")
      BY <1>2 DEF CellIn, Allowed, KeyOf
    <2>2. "k1" \in Range(Keyring[2].keys)
      BY Rings DEF Range
    <2>3. QED
      BY <1>2, <2>1, <2>2 DEF Readable, is_encrypted, Plain
  <1>3. CASE cell # NULL /\ deploy = 3
    <2>1. cell.key \in {"k1", "k2"}
      BY <1>3 DEF CellIn, Allowed, KeyOf
    <2>2. "k1" \in Range(Keyring[3].keys) /\ "k2" \in Range(Keyring[3].keys)
      BY Rings DEF Range
    <2>3. QED
      BY <1>3, <2>1, <2>2 DEF Readable, is_encrypted, Plain
  <1>4. CASE cell # NULL /\ deploy = 4
    <2>1. cell.key = "k2"
      BY <1>4 DEF CellIn, Allowed, KeyOf
    <2>2. "k2" \in Range(Keyring[4].keys)
      BY Rings DEF Range
    <2>3. QED
      BY <1>4, <2>1, <2>2 DEF Readable, is_encrypted, Plain
  <1>5. QED
    BY <1>0, <1>1, <1>2, <1>3, <1>4

\* The invariant says what the run checks.
LEMMA InvImplies == IInv => RotationSafe
  <1> SUFFICES ASSUME IInv PROVE RotationSafe
    OBVIOUS
  <1> USE DEF IInv
  <1>1. EncTypeOK
    <2>1. \A r \in Resumes :
             /\ resumes[r].raw_text \in Cell \union {NULL}
             /\ resumes[r].agent_analysis \in Cell \union {NULL}
             /\ resumes[r].skill_analysis \in BOOLEAN
      BY TextCellIsCell DEF Shape, ResumeRow
    <2>2. QED
      BY <2>1 DEF EncTypeOK, Shape, SweepType, CandidateRow
  <1>2. ASSUME NEW cell \in Stored(ENCRYPTED_FIELDS)
        PROVE  cell \in Cell \union {NULL} /\ CellIn(cell, Allowed)
    <2>1. CASE \E c \in Candidates, f \in {"first_name", "phone"} : cell = candidates[c][f]
      <3>1. PICK c \in Candidates, f \in {"first_name", "phone"} : cell = candidates[c][f]
        BY <2>1
      <3>2. candidates[c] \in CandidateRow
        BY DEF Shape
      <3>3. cell = candidates[c].first_name \/ cell = candidates[c].phone
        BY <3>1
      <3>4. QED
        BY <3>2, <3>3 DEF CandidateRow, KeysOK, CandidatesIn
    <2>2. CASE \E r \in Resumes : cell = resumes[r].raw_text
      <3>1. PICK r \in Resumes : cell = resumes[r].raw_text
        BY <2>2
      <3>2. resumes[r] \in ResumeRow
        BY DEF Shape
      <3>3. QED
        BY <3>1, <3>2, TextCellIsCell DEF ResumeRow, KeysOK, ResumesIn
    <2>3. QED
      BY <2>1, <2>2 DEF Stored, ENCRYPTED_FIELDS
  <1>3. deploy \in 1..4 /\ DueType
    BY DEF Shape
  <1>4. NothingStranded
    BY <1>2, <1>3, AllowedReadable DEF NothingStranded
  <1>5. NoPlaintextLeft
    BY <1>2, <1>3, AllowedReadable DEF NoPlaintextLeft
  <1>6. QED
    BY <1>1, <1>4, <1>5 DEF RotationSafe

(***************************************************************************)
(* The first state                                                         *)
(***************************************************************************)

LEMMA InitInv == EncInit => IInv
  <1> SUFFICES ASSUME EncInit PROVE IInv
    OBVIOUS
  <1>1. {"old"} \in Val /\ NULL \notin Val
    BY NullAssumption DEF Val
  <1>2. candidates \in [Candidates -> CandidateRow]
    BY <1>1 DEF EncInit, CandidateRow, Cell
  <1>3. resumes \in [Resumes -> ResumeRow]
    BY TextVal DEF EncInit, ResumeRow, TextCell
  <1>4. SweepType /\ sweep.pc = "idle"
    BY DEF EncInit, Idle, SweepType
  <1>5. Shape
    BY <1>2, <1>3, <1>4, EncryptionAssumption DEF Shape, EncInit
  <1>6. due = <<>> /\ due = SweepsOf[deploy]
    BY DEF EncInit, SweepsOf
  <1>7. DueType /\ Rolling
    BY <1>4, <1>6 DEF EncInit, DueType, Rolling
  <1>8. KeysOK
    BY DEF EncInit, KeysOK, CandidatesIn, ResumesIn, CellIn, Allowed
  <1>9. Passed
    BY <1>4 DEF Passed
  <1>10. QED
    BY <1>5, <1>7, <1>8, <1>9 DEF IInv

(***************************************************************************)
(* Requests and jobs                                                       *)
(***************************************************************************)

\* The key a process writes with is an allowed one, and one the running sweep
\* may leave behind: no process of an older deployment is left by then.
LEMMA WriterKey ==
    ASSUME IInv, NEW i \in Instances
    PROVE  /\ version[i] \in 1..4
           /\ KeyOf(version[i]) \in Allowed
           /\ sweep.pc # "idle" => KeyOf(version[i]) \in Target
  <1> USE DEF IInv
  <1>1. version[i] \in 1..4 /\ deploy \in 1..4 /\ version[i] \in {deploy - 1, deploy}
    BY DEF Shape, Rolling
  <1>2. ASSUME due # SweepsOf[deploy] PROVE version[i] = deploy
    BY <1>2 DEF Rolling, Settled
  <1>3. KeyOf(version[i]) \in Allowed
    <2>1. CASE deploy = 1
      BY <2>1, <1>1 DEF KeyOf, Allowed
    <2>2. CASE deploy = 2
      <3>1. SweepsOf[deploy] # <<>>
        BY <2>2 DEF SweepsOf
      <3>2. due = <<>> => version[i] = 2
        BY <3>1, <1>2, <2>2
      <3>3. QED
        BY <3>2, <1>1, <2>2 DEF KeyOf, Allowed
    <2>3. CASE deploy = 3
      <3>1. SweepsOf[deploy] # <<>>
        BY <2>3 DEF SweepsOf
      <3>2. due = <<>> => version[i] = 3
        BY <3>1, <1>2, <2>3
      <3>3. QED
        BY <3>2, <1>1, <2>3 DEF KeyOf, Allowed
    <2>4. CASE deploy = 4
      BY <2>4, <1>1 DEF KeyOf, Allowed
    <2>5. QED
      BY <1>1, <2>1, <2>2, <2>3, <2>4
  <1>4. ASSUME sweep.pc # "idle" PROVE KeyOf(version[i]) \in Target
    <2>1. version[i] = deploy /\ deploy # 1
      BY <1>4 DEF Rolling, Settled, DueType
    <2>2. QED
      BY <2>1, <1>1 DEF Target, KeyOf
  <1>5. QED
    BY <1>1, <1>3, <1>4

\* Between two states each swept cell stays as it is or goes under key k.
CellsWrittenWith(k) ==
    /\ \A c \in Candidates :
          /\ candidates'[c].first_name = candidates[c].first_name
                \/ CellIn(candidates'[c].first_name, {k})
          /\ candidates'[c].phone = candidates[c].phone \/ CellIn(candidates'[c].phone, {k})
    /\ \A r \in Resumes :
          resumes'[r].raw_text = resumes[r].raw_text \/ CellIn(resumes'[r].raw_text, {k})

\* The invariant survives every such write that keeps the types.
LEMMA WriteKeeps ==
    ASSUME IInv, NEW i \in Instances, CellsWrittenWith(KeyOf(version[i])), Shape',
           UNCHANGED <<deployVars, sweep>>
    PROVE  IInv'
  <1> USE DEF IInv
  <1>1. KeyOf(version[i]) \in Allowed /\ (sweep.pc # "idle" => KeyOf(version[i]) \in Target)
    BY WriterKey
  <1>2. Allowed' = Allowed /\ Target' = Target
    BY DEF Allowed, Target, deployVars
  <1>3. ASSUME NEW K, KeyOf(version[i]) \in K, NEW S, S \subseteq Candidates
        PROVE  CandidatesIn(S, K) => CandidatesIn(S, K)'
    BY <1>3 DEF CandidatesIn, CellsWrittenWith, CellIn
  <1>4. ASSUME NEW K, KeyOf(version[i]) \in K, NEW S, S \subseteq Resumes
        PROVE  ResumesIn(S, K) => ResumesIn(S, K)'
    BY <1>4 DEF ResumesIn, CellsWrittenWith, CellIn
  <1>5. KeysOK'
    BY <1>1, <1>2, <1>3, <1>4 DEF KeysOK
  <1>6. Passed'
    <2> SUFFICES ASSUME sweep.pc # "idle" PROVE Passed'
      BY DEF Passed
    <2> DEFINE A == {id \in Ids(sweep.table) : id <= sweep.last}
               B == {id \in Ids(sweep.table) \ DOMAIN sweep.batch : id <= Max(DOMAIN sweep.batch)}
    <2>1. KeyOf(version[i]) \in Target
      BY <1>1
    <2>2. A \subseteq Ids(sweep.table) /\ B \subseteq Ids(sweep.table)
      OBVIOUS
    <2>3. ASSUME NEW S, S \subseteq Ids(sweep.table), RowsIn(sweep.table, S, Target)
          PROVE  (sweep.table = "candidates" => CandidatesIn(S, Target)')
                 /\ (sweep.table # "candidates" => ResumesIn(S, Target)')
      <3>1. CASE sweep.table = "candidates"
        <4>1. CandidatesIn(S, Target) /\ S \subseteq Candidates
          BY <2>3, <3>1 DEF RowsIn, Ids
        <4>2. CandidatesIn(S, Target)'
          BY <4>1, <2>1, <1>2, <1>3
        <4>3. QED
          BY <4>2, <3>1
      <3>2. CASE sweep.table # "candidates"
        <4>1. ResumesIn(S, Target) /\ S \subseteq Resumes
          BY <2>3, <3>2 DEF RowsIn, Ids
        <4>2. ResumesIn(S, Target)'
          BY <4>1, <2>1, <1>2, <1>4
        <4>3. QED
          BY <4>2, <3>2
      <3>3. QED
        BY <3>1, <3>2
    <2>4. sweep.table = "resumes" => CandidatesIn(Candidates, Target)'
      BY <2>1, <1>2, <1>3 DEF Passed
    <2>5. sweep' = sweep
      OBVIOUS
    <2>6. RowsIn(sweep.table, A, Target)'
      <3>1. RowsIn(sweep.table, A, Target)
        BY DEF Passed
      <3>2. QED
        BY <2>2, <2>3, <2>5, <3>1 DEF RowsIn, Ids
    <2>7. sweep.pc = "commit" => RowsIn(sweep.table, B, Target)'
      <3> HAVE sweep.pc = "commit"
      <3>1. RowsIn(sweep.table, B, Target)
        BY DEF Passed
      <3>2. QED
        BY <2>2, <2>3, <2>5, <3>1 DEF RowsIn, Ids
    <2>8. QED
      BY <2>4, <2>5, <2>6, <2>7 DEF Passed, Ids
  <1>7. DueType' /\ Rolling'
    BY DEF DueType, Rolling, Settled, deployVars
  <1>8. QED
    BY <1>5, <1>6, <1>7

LEMMA ShapeFrame ==
    ASSUME IInv, UNCHANGED <<deployVars, sweep>>,
           candidates' \in [Candidates -> CandidateRow], resumes' \in [Resumes -> ResumeRow],
           committed' \subseteq Resumes, erased' \subseteq Leavers
    PROVE  Shape'
  BY DEF IInv, Shape, SweepType, deployVars

\* The tokens a process stores are of the type of the column.
LEMMA TokensType ==
    ASSUME NEW x \in {"none", "b1", "b2"}, NEW t, t = NULL \/ t \in Text
    PROVE  blind_index_tokens(x, t) \in (SUBSET Token) \union {NULL}
  <1>1. CASE t = NULL
    BY <1>1 DEF blind_index_tokens
  <1>2. CASE t # NULL
    <2>1. \A w \in resume_search_words(t) : <<x, w>> \in Token
      BY <1>2 DEF Token
    <2>2. blind_index_tokens(x, t) = {<<x, w>> : w \in resume_search_words(t)}
      BY <1>2 DEF blind_index_tokens, blind_index_token
    <2>3. QED
      BY <2>1, <2>2
  <1>3. QED
    BY <1>1, <1>2

\* A bound value is a cell under the writer's key.
LEMMA BindType ==
    ASSUME NEW d \in 1..4
    PROVE  /\ \A v \in Val : Bind(Keyring[d], v) \in Cell /\ CellIn(Bind(Keyring[d], v), {KeyOf(d)})
           /\ \A v \in Text : Bind(Keyring[d], v) \in TextCell
  <1>1. \A v \in Val : Bind(Keyring[d], v) = [key |-> KeyOf(d), val |-> v]
    BY BindKey
  <1>2. KeyOf(d) \in {Plain, "k1", "k2"}
    BY KeyOfType
  <1>3. \A v \in Text : v \in Val
    BY DEF Val
  <1>4. ASSUME NEW v \in Val
        PROVE  Bind(Keyring[d], v) \in Cell /\ CellIn(Bind(Keyring[d], v), {KeyOf(d)})
    <2>1. [key |-> KeyOf(d), val |-> v] \in Cell
      BY <1>2 DEF Cell
    <2>2. CellIn([key |-> KeyOf(d), val |-> v], {KeyOf(d)})
      BY DEF CellIn
    <2>3. QED
      BY <1>1, <2>1, <2>2
  <1>5. ASSUME NEW v \in Text PROVE Bind(Keyring[d], v) \in TextCell
    <2>1. [key |-> KeyOf(d), val |-> v] \in TextCell
      BY <1>2 DEF TextCell
    <2>2. QED
      BY <1>1, <1>3, <2>1
  <1>6. QED
    BY <1>4, <1>5

LEMMA UpdateProfileInv ==
    ASSUME IInv, NEW i \in Instances, NEW c \in Candidates, NEW f \in {"first_name", "phone"},
           UpdateProfile(i, c, f)
    PROVE  IInv'
  <1>1. version[i] \in 1..4
    BY WriterKey
  <1>2. PICK new \in Cell : new = Bind(Keyring[version[i]], {"new"}) /\ CellIn(new, {KeyOf(version[i])})
    <2>1. {"new"} \in Val
      BY DEF Val
    <2>2. QED
      BY <2>1, <1>1, BindType
  <1>3. candidates \in [Candidates -> CandidateRow] /\ candidates' = [candidates EXCEPT ![c][f] = new]
    BY <1>2 DEF IInv, Shape, UpdateProfile
  <1>4. candidates[c] \in CandidateRow
    BY <1>3
  <1>5. PICK row \in CandidateRow : row = [candidates[c] EXCEPT ![f] = new]
    BY <1>4 DEF CandidateRow
  <1>6. candidates' = [candidates EXCEPT ![c] = row]
    BY <1>3, <1>5
  <1>7. candidates' \in [Candidates -> CandidateRow]
    BY <1>3, <1>6
  <1>8. \A d \in Candidates :
           /\ candidates'[d].first_name = candidates[d].first_name
                 \/ CellIn(candidates'[d].first_name, {KeyOf(version[i])})
           /\ candidates'[d].phone = candidates[d].phone
                 \/ CellIn(candidates'[d].phone, {KeyOf(version[i])})
    <2>1. /\ row.first_name = candidates[c].first_name \/ row.first_name = new
          /\ row.phone = candidates[c].phone \/ row.phone = new
      BY <1>4, <1>5 DEF CandidateRow
    <2>2. \A d \in Candidates : candidates'[d] = IF d = c THEN row ELSE candidates[d]
      BY <1>3, <1>6
    <2>3. QED
      BY <2>1, <2>2, <1>2
  <1>9. UNCHANGED <<resumes, committed, erased, deployVars, sweep>>
    BY DEF UpdateProfile
  <1>10. CellsWrittenWith(KeyOf(version[i]))
    BY <1>8, <1>9 DEF CellsWrittenWith
  <1>11. Shape'
    BY <1>7, <1>9, ShapeFrame DEF IInv, Shape
  <1>12. QED
    BY <1>9, <1>10, <1>11, WriteKeeps

LEMMA ProcessResumeInv ==
    ASSUME IInv, NEW i \in Instances, NEW r \in Resumes, ProcessResume(i, r)
    PROVE  IInv'
  <1> DEFINE v == version[i]
  <1>1. v \in 1..4
    BY WriterKey
  <1>2. TextOf[r] \in Text /\ TextOf[r] \in Val /\ {"analysis"} \in Val
    BY TextVal DEF Val
  <1>3. PICK text \in TextCell :
           text = Bind(Keyring[v], TextOf[r]) /\ CellIn(text, {KeyOf(v)})
    BY <1>1, <1>2, BindType
  <1>4. PICK analysis \in Cell : analysis = Bind(Keyring[v], {"analysis"})
    BY <1>1, <1>2, BindType
  <1>5. resumes \in [Resumes -> ResumeRow] /\ resumes[r] \in ResumeRow
    BY DEF IInv, Shape
  <1>6. \E row \in ResumeRow : row.raw_text = text /\ resumes' = [resumes EXCEPT ![r] = row]
    <2>1. CASE v = 1
      <3>1. PICK row \in ResumeRow :
               row = [resumes[r] EXCEPT !.raw_text = text, !.skill_analysis = TRUE]
        BY <1>5 DEF ResumeRow
      <3>2. row.raw_text = text
        BY <3>1, <1>5 DEF ResumeRow
      <3>3. resumes' = [resumes EXCEPT ![r] = row]
        BY <2>1, <3>1, <1>3 DEF ProcessResume
      <3>4. QED
        BY <3>2, <3>3
    <2>2. CASE v # 1
      <3>1. Keyring[v].index \in {"b1", "b2"}
        BY <1>1, <2>2, RingHead
      <3>2. PICK tokens \in (SUBSET Token) \union {NULL} :
               tokens = blind_index_tokens(Keyring[v].index, TextOf[r])
        BY <3>1, <1>2, TokensType
      <3>3. PICK row \in ResumeRow :
               row = [raw_text |-> text, agent_analysis |-> analysis,
                      search_tokens |-> tokens, skill_analysis |-> TRUE]
        BY DEF ResumeRow
      <3>4. resumes' = [resumes EXCEPT ![r] = row]
        BY <2>2, <3>2, <3>3, <1>3, <1>4 DEF ProcessResume
      <3>5. QED
        BY <3>3, <3>4
    <2>3. QED
      BY <2>1, <2>2
  <1>7. PICK row \in ResumeRow : row.raw_text = text /\ resumes' = [resumes EXCEPT ![r] = row]
    BY <1>6
  <1>8. resumes' \in [Resumes -> ResumeRow]
        /\ \A s \in Resumes : resumes'[s] = IF s = r THEN row ELSE resumes[s]
    BY <1>5, <1>7
  <1>9. UNCHANGED <<candidates, erased, deployVars, sweep>> /\ committed' = committed \union {r}
    BY DEF ProcessResume
  <1>10. CellsWrittenWith(KeyOf(v))
    BY <1>3, <1>7, <1>8, <1>9 DEF CellsWrittenWith
  <1>11. Shape'
    BY <1>8, <1>9, ShapeFrame DEF IInv, Shape
  <1>12. QED
    BY <1>9, <1>10, <1>11, WriteKeeps

LEMMA AnonymiseInv ==
    ASSUME IInv, NEW i \in Instances, NEW c \in Candidates, Anonymise(i, c)
    PROVE  IInv'
  <1> DEFINE own == {r \in Resumes : OwnerOf[r] = c}
  <1>1. version[i] \in 1..4
    BY WriterKey
  <1>2. PICK anon \in Cell :
           anon = Bind(Keyring[version[i]], {"anon"}) /\ CellIn(anon, {KeyOf(version[i])})
    <2>1. {"anon"} \in Val
      BY DEF Val
    <2>2. QED
      BY <2>1, <1>1, BindType
  <1>3. candidates \in [Candidates -> CandidateRow] /\ resumes \in [Resumes -> ResumeRow]
    BY DEF IInv, Shape
  <1>4. PICK row \in CandidateRow : row = [first_name |-> anon, phone |-> NULL]
    BY DEF CandidateRow
  <1>5. candidates' = [candidates EXCEPT ![c] = row]
    BY <1>2, <1>4 DEF Anonymise
  <1>6. candidates' \in [Candidates -> CandidateRow]
        /\ \A d \in Candidates : candidates'[d] = IF d = c THEN row ELSE candidates[d]
    BY <1>3, <1>5
  <1>7. resumes' = [r \in Resumes |->
                      IF r \in own THEN [resumes[r] EXCEPT !.raw_text = NULL, !.search_tokens = NULL]
                      ELSE resumes[r]]
    BY DEF Anonymise
  <1>8. \A r \in Resumes :
           /\ [resumes[r] EXCEPT !.raw_text = NULL, !.search_tokens = NULL] \in ResumeRow
           /\ [resumes[r] EXCEPT !.raw_text = NULL, !.search_tokens = NULL].raw_text = NULL
    BY <1>3 DEF ResumeRow
  <1>9. resumes' \in [Resumes -> ResumeRow]
        /\ \A r \in Resumes : resumes'[r].raw_text = resumes[r].raw_text \/ resumes'[r].raw_text = NULL
    BY <1>3, <1>7, <1>8
  <1>10. UNCHANGED <<deployVars, sweep>> /\ committed' = committed \ own /\ erased' = erased \union {c}
         /\ c \in Leavers
    BY DEF Anonymise
  <1>11. CellsWrittenWith(KeyOf(version[i]))
    <2>1. row.first_name = anon /\ row.phone = NULL
      BY <1>4
    <2>2. QED
      BY <1>2, <1>6, <1>9, <2>1 DEF CellsWrittenWith, CellIn
  <1>12. Shape'
    BY <1>6, <1>9, <1>10, ShapeFrame DEF IInv, Shape
  <1>13. QED
    BY <1>10, <1>11, <1>12, WriteKeeps

(***************************************************************************)
(* The migration and the deployments                                       *)
(***************************************************************************)

LEMMA EncryptOnceType ==
    /\ \A cell \in Cell : EncryptOnce(cell) \in Cell
    /\ \A cell \in Cell \union {NULL} : EncryptOnce(cell) \in Cell \union {NULL}
    /\ \A cell \in TextCell \union {NULL} : EncryptOnce(cell) \in TextCell \union {NULL}
    /\ \A cell \in Cell \union {NULL} :
          CellIn(cell, {Plain}) => CellIn(EncryptOnce(cell), {Plain, "k1"})
  <1>1. ASSUME NEW cell \in Cell
        PROVE  EncryptOnce(cell) = cell \/ EncryptOnce(cell) = [key |-> "k1", val |-> cell.val]
    <2>1. cell # NULL /\ cell.val \in Val
      BY NullAssumption DEF Cell
    <2>2. Head(Keyring[2].keys) = "k1"
      BY Rings
    <2>3. QED
      BY <2>1, <2>2, ValNotNull DEF EncryptOnce, encrypt_text
  <1>2. EncryptOnce(NULL) = NULL
    BY DEF EncryptOnce
  <1>3. \A cell \in Cell : EncryptOnce(cell) \in Cell
    <2> TAKE cell \in Cell
    <2>1. [key |-> "k1", val |-> cell.val] \in Cell
      BY DEF Cell
    <2>2. QED
      BY <1>1, <2>1
  <1>4. \A cell \in TextCell : EncryptOnce(cell) \in TextCell
    <2> TAKE cell \in TextCell
    <2>1. [key |-> "k1", val |-> cell.val] \in TextCell
      BY DEF TextCell
    <2>2. cell \in Cell
      BY TextCellIsCell
    <2>3. QED
      BY <1>1, <2>1, <2>2
  <1>5. ASSUME NEW cell \in Cell, CellIn(cell, {Plain})
        PROVE  CellIn(EncryptOnce(cell), {Plain, "k1"})
    BY <1>1, <1>5 DEF CellIn
  <1>6. QED
    BY <1>2, <1>3, <1>4, <1>5 DEF CellIn

LEMMA DecryptOnceType ==
    /\ \A cell \in Cell : DecryptOnce(cell) \in Cell
    /\ \A cell \in Cell \union {NULL} : DecryptOnce(cell) \in Cell \union {NULL}
    /\ \A cell \in TextCell \union {NULL} : DecryptOnce(cell) \in TextCell \union {NULL}
    /\ \A cell \in Cell \union {NULL} : CellIn(DecryptOnce(cell), {Plain})
  <1>1. ASSUME NEW cell \in Cell
        PROVE  DecryptOnce(cell) \in Cell /\ DecryptOnce(cell).key = Plain
    <2>1. CASE is_encrypted(cell)
      BY <2>1 DEF DecryptOnce, Cell
    <2>2. CASE ~is_encrypted(cell)
      BY <2>2, NullAssumption DEF DecryptOnce, is_encrypted
    <2>3. QED
      BY <2>1, <2>2
  <1>2. DecryptOnce(NULL) = NULL
    BY DEF DecryptOnce, is_encrypted
  <1>3. ASSUME NEW cell \in TextCell PROVE DecryptOnce(cell) \in TextCell
    BY DEF DecryptOnce, TextCell
  <1>4. QED
    BY <1>1, <1>2, <1>3 DEF CellIn

\* The value of a text is a text again.
LEMMA ValueOfText ==
    \A cell \in TextCell \union {NULL} : Value(cell) = NULL \/ Value(cell) \in Text
  BY DEF Value, TextCell

\* A row rebuilt field by field is a row.
LEMMA RowRebuilt ==
    ASSUME NEW row \in CandidateRow, NEW g,
           g = [f \in DOMAIN row |-> g[f]],
           g["first_name"] \in Cell, g["phone"] \in Cell \union {NULL}
    PROVE  g \in CandidateRow
  <1>1. DOMAIN row = {"first_name", "phone"}
    BY DEF CandidateRow
  <1>2. g = [first_name |-> g["first_name"], phone |-> g["phone"]]
    BY <1>1
  <1>3. QED
    BY <1>2 DEF CandidateRow

LEMMA upgradeInv ==
    ASSUME IInv, upgrade
    PROVE  IInv'
  <1>1. /\ candidates \in [Candidates -> CandidateRow] /\ resumes \in [Resumes -> ResumeRow]
        /\ deploy = 1 /\ deploy' = 2 /\ due = <<>> /\ sweep.pc = "idle"
        /\ UNCHANGED <<version, sweep, committed, erased>>
    BY DEF IInv, Shape, DueType, Rolling, upgrade, SweepType
  <1>2. due' = <<"legacy">> /\ due' = SweepsOf[deploy'] /\ due' # <<>>
    BY <1>1 DEF upgrade, SweepsOf
  <1>3. \A c \in Candidates :
           /\ CellIn(candidates[c].first_name, {Plain}) /\ CellIn(candidates[c].phone, {Plain})
           /\ candidates[c] \in CandidateRow
           /\ candidates[c].first_name \in Cell /\ candidates[c].phone \in Cell \union {NULL}
    BY <1>1 DEF IInv, KeysOK, CandidatesIn, Allowed, CandidateRow
  <1>4. \A r \in Resumes :
           /\ CellIn(resumes[r].raw_text, {Plain})
           /\ resumes[r] \in ResumeRow
           /\ resumes[r].raw_text \in TextCell \union {NULL}
    BY <1>1 DEF IInv, KeysOK, ResumesIn, Allowed, ResumeRow
  <1>5. ASSUME NEW c \in Candidates
        PROVE  /\ candidates'[c] \in CandidateRow
               /\ CellIn(candidates'[c].first_name, {Plain, "k1"})
               /\ CellIn(candidates'[c].phone, {Plain, "k1"})
    <2>1. candidates'[c] = [f \in DOMAIN candidates[c] |-> EncryptOnce(candidates[c][f])]
      BY DEF upgrade
    <2>2. "first_name" \in DOMAIN candidates[c] /\ "phone" \in DOMAIN candidates[c]
      BY <1>3 DEF CandidateRow
    <2>3. /\ candidates'[c]["first_name"] = EncryptOnce(candidates[c].first_name)
          /\ candidates'[c]["phone"] = EncryptOnce(candidates[c].phone)
      BY <2>1, <2>2
    <2>4. /\ candidates'[c]["first_name"] \in Cell
          /\ candidates'[c]["phone"] \in Cell \union {NULL}
          /\ CellIn(candidates'[c].first_name, {Plain, "k1"})
          /\ CellIn(candidates'[c].phone, {Plain, "k1"})
      BY <2>3, <1>3, EncryptOnceType
    <2>5. candidates'[c] = [f \in DOMAIN candidates[c] |-> candidates'[c][f]]
      BY <2>1
    <2>6. QED
      BY <2>4, <2>5, <1>3, RowRebuilt
  <1>6. candidates' \in [Candidates -> CandidateRow]
    <2>1. candidates' = [c \in Candidates |-> candidates'[c]]
      BY DEF upgrade
    <2>2. QED
      BY <2>1, <1>5
  <1>7. ASSUME NEW r \in Resumes
        PROVE  resumes'[r] \in ResumeRow /\ CellIn(resumes'[r].raw_text, {Plain, "k1"})
    <2>1. PICK text \in TextCell \union {NULL} :
             text = EncryptOnce(resumes[r].raw_text) /\ CellIn(text, {Plain, "k1"})
      BY <1>4, EncryptOnceType, TextCellIsCell
    <2>2. Value(DecryptOnce(resumes[r].raw_text)) = NULL
          \/ Value(DecryptOnce(resumes[r].raw_text)) \in Text
      BY <1>4, DecryptOnceType, ValueOfText
    <2>3. Keyring[2].index \in {"none", "b1", "b2"}
      BY Rings
    <2>4. PICK tokens \in (SUBSET Token) \union {NULL} :
             tokens = blind_index_tokens(Keyring[2].index, Value(DecryptOnce(resumes[r].raw_text)))
      BY <2>2, <2>3, TokensType
    <2>5. resumes'[r] = [resumes[r] EXCEPT !.raw_text = text, !.search_tokens = tokens]
      BY <2>1, <2>4 DEF upgrade
    <2>6. QED
      BY <2>1, <2>5, <1>4 DEF ResumeRow
  <1>8. resumes' \in [Resumes -> ResumeRow]
    <2>1. resumes' = [r \in Resumes |-> resumes'[r]]
      BY DEF upgrade
    <2>2. QED
      BY <2>1, <1>7
  <1>9. Shape'
    BY <1>1, <1>6, <1>8 DEF IInv, Shape, SweepType
  <1>10. DueType' /\ Rolling'
    <2>1. \A i \in Instances : version[i] = 1
      BY <1>1 DEF IInv, Shape, Rolling
    <2>2. QED
      BY <1>1, <1>2, <2>1 DEF DueType, Rolling
  <1>11. KeysOK'
    <2>1. Allowed' = {Plain, "k1"}
      BY <1>1, <1>2 DEF Allowed
    <2>2. QED
      BY <2>1, <1>5, <1>7 DEF KeysOK, CandidatesIn, ResumesIn
  <1>12. Passed'
    BY <1>1 DEF Passed
  <1>13. QED
    BY <1>9, <1>10, <1>11, <1>12 DEF IInv

LEMMA downgradeInv ==
    ASSUME IInv, downgrade
    PROVE  IInv'
  <1>1. /\ candidates \in [Candidates -> CandidateRow] /\ resumes \in [Resumes -> ResumeRow]
        /\ deploy = 2 /\ deploy' = 1
        /\ \A i \in Instances : version[i] = 1
        /\ UNCHANGED <<version, sweep, committed, erased>>
    BY DEF IInv, Shape, downgrade
  <1>2. due' = <<>> /\ due' = SweepsOf[deploy']
    BY <1>1 DEF downgrade, SweepsOf
  <1>3. sweep.pc = "idle"
    <2>1. ~Settled
      BY <1>1, EncryptionAssumption DEF Settled
    <2>2. QED
      BY <2>1 DEF IInv, Rolling
  <1>4. ASSUME NEW c \in Candidates
        PROVE  /\ candidates'[c] \in CandidateRow
               /\ CellIn(candidates'[c].first_name, {Plain})
               /\ CellIn(candidates'[c].phone, {Plain})
    <2>1. candidates'[c] = [f \in DOMAIN candidates[c] |-> DecryptOnce(candidates[c][f])]
      BY DEF downgrade
    <2>2. /\ "first_name" \in DOMAIN candidates[c] /\ "phone" \in DOMAIN candidates[c]
          /\ candidates[c] \in CandidateRow
          /\ candidates[c].first_name \in Cell /\ candidates[c].phone \in Cell \union {NULL}
      BY <1>1 DEF CandidateRow
    <2>3. /\ candidates'[c]["first_name"] = DecryptOnce(candidates[c].first_name)
          /\ candidates'[c]["phone"] = DecryptOnce(candidates[c].phone)
      BY <2>1, <2>2
    <2>4. /\ candidates'[c]["first_name"] \in Cell
          /\ candidates'[c]["phone"] \in Cell \union {NULL}
          /\ CellIn(candidates'[c].first_name, {Plain})
          /\ CellIn(candidates'[c].phone, {Plain})
      BY <2>2, <2>3, DecryptOnceType
    <2>5. candidates'[c] = [f \in DOMAIN candidates[c] |-> candidates'[c][f]]
      BY <2>1
    <2>6. QED
      BY <2>2, <2>4, <2>5, RowRebuilt
  <1>5. candidates' \in [Candidates -> CandidateRow]
    <2>1. candidates' = [c \in Candidates |-> candidates'[c]]
      BY DEF downgrade
    <2>2. QED
      BY <2>1, <1>4
  <1>6. ASSUME NEW r \in Resumes
        PROVE  resumes'[r] \in ResumeRow /\ CellIn(resumes'[r].raw_text, {Plain})
    <2>1. resumes[r] \in ResumeRow /\ resumes[r].raw_text \in TextCell \union {NULL}
      BY <1>1 DEF ResumeRow
    <2>2. PICK text \in TextCell \union {NULL} :
             text = DecryptOnce(resumes[r].raw_text) /\ CellIn(text, {Plain})
      BY <2>1, DecryptOnceType, TextCellIsCell
    <2>3. resumes'[r] = [resumes[r] EXCEPT !.raw_text = text, !.search_tokens = NULL]
      BY <2>2 DEF downgrade
    <2>4. QED
      BY <2>1, <2>2, <2>3 DEF ResumeRow
  <1>7. resumes' \in [Resumes -> ResumeRow]
    <2>1. resumes' = [r \in Resumes |-> resumes'[r]]
      BY DEF downgrade
    <2>2. QED
      BY <2>1, <1>6
  <1>8. Shape'
    BY <1>1, <1>3, <1>5, <1>7 DEF IInv, Shape, SweepType
  <1>9. DueType' /\ Rolling'
    BY <1>1, <1>2, <1>3 DEF DueType, Rolling
  <1>10. KeysOK'
    <2>1. Allowed' = {Plain}
      BY <1>1 DEF Allowed
    <2>2. QED
      BY <2>1, <1>4, <1>6 DEF KeysOK, CandidatesIn, ResumesIn
  <1>11. Passed'
    BY <1>1, <1>3 DEF Passed
  <1>12. QED
    BY <1>8, <1>9, <1>10, <1>11 DEF IInv

LEMMA DeployInv ==
    ASSUME IInv, Deploy
    PROVE  IInv'
  <1>1. /\ deploy \in {2, 3} /\ deploy' = deploy + 1 /\ due = <<>>
        /\ \A i \in Instances : version[i] = deploy
        /\ due' = SweepsOf[deploy']
        /\ UNCHANGED <<candidates, resumes, committed, erased, version, sweep>>
    BY DEF Deploy, Settled, dataVars
  <1>2. sweep.pc = "idle"
    BY <1>1 DEF IInv, Rolling, Shape, SweepType
  <1>3. (deploy' = 3 /\ due' = <<"legacy", "all">>) \/ (deploy' = 4 /\ due' = <<"legacy">>)
    BY <1>1 DEF SweepsOf
  <1>4. Shape'
    BY <1>1, <1>2, <1>3 DEF IInv, Shape, SweepType
  <1>5. DueType' /\ Rolling'
    <2>1. DueType'
      BY <1>3 DEF DueType
    <2>2. Rolling'
      BY <1>1, <1>2 DEF Rolling
    <2>3. QED
      BY <2>1, <2>2
  <1>6. KeysOK'
    <2>1. Allowed = {KeyOf(deploy)} /\ KeyOf(deploy) \in Allowed'
      <3>1. Allowed = {KeyOf(deploy)}
        BY <1>1 DEF Allowed
      <3>2. due' # <<>>
        BY <1>3
      <3>3. KeyOf(deploy) \in Allowed'
        BY <1>1, <1>3, <3>2 DEF Allowed, KeyOf
      <3>4. QED
        BY <3>1, <3>3
    <2>2. QED
      BY <2>1, <1>1 DEF IInv, KeysOK, CandidatesIn, ResumesIn, CellIn
  <1>7. Passed'
    BY <1>1, <1>2 DEF Passed
  <1>8. QED
    BY <1>4, <1>5, <1>6, <1>7 DEF IInv

LEMMA RollInv ==
    ASSUME IInv, NEW i \in Instances, Roll(i)
    PROVE  IInv'
  <1>1. /\ version[i] < deploy /\ version' = [version EXCEPT ![i] = deploy]
        /\ UNCHANGED <<candidates, resumes, committed, erased, deploy, due, sweep>>
        /\ version \in [Instances -> 1..4] /\ deploy \in 1..4
    BY DEF Roll, dataVars, IInv, Shape
  <1>2. version' \in [Instances -> 1..4]
        /\ \A j \in Instances : version'[j] = IF j = i THEN deploy ELSE version[j]
    BY <1>1
  <1>3. ~Settled
    BY <1>1 DEF Settled
  <1>4. sweep.pc = "idle" /\ due = SweepsOf[deploy]
    BY <1>3 DEF IInv, Rolling
  <1>5. Shape'
    BY <1>1, <1>2 DEF IInv, Shape, SweepType
  <1>6. DueType' /\ Rolling'
    BY <1>1, <1>2, <1>4 DEF IInv, DueType, Rolling
  <1>7. KeysOK'
    <2>1. Allowed' = Allowed
      BY <1>1 DEF Allowed
    <2>2. QED
      BY <2>1, <1>1 DEF IInv, KeysOK, CandidatesIn, ResumesIn
  <1>8. Passed'
    BY <1>1, <1>4 DEF Passed
  <1>9. QED
    BY <1>5, <1>6, <1>7, <1>8 DEF IInv

(***************************************************************************)
(* The sweeps                                                              *)
(***************************************************************************)

LEMMA IdsFinite ==
    \A t : Ids(t) \subseteq Nat \ {0} /\ IsFiniteSet(Ids(t))
  BY EncryptionAssumption DEF Ids

\* Which deployment a sweep runs for, and which sweep is left after it.
LEMMA SweepPhase ==
    ASSUME IInv, sweep.pc # "idle"
    PROVE  /\ deploy \in 2..4 /\ due # <<>>
           /\ \A i \in Instances : version[i] = deploy
           /\ sweep.kind = "legacy" =>
                (deploy \in {2, 4} /\ due = <<"legacy">>) \/ (deploy = 3 /\ due = <<"legacy", "all">>)
           /\ sweep.kind = "all" => deploy = 3 /\ due = <<"all">>
           /\ KeyOf(deploy) \in Target /\ KeyOf(deploy) \in Allowed
  <1>1. due # <<>> /\ sweep.kind = Head(due) /\ deploy \in 1..4
        /\ \A i \in Instances : version[i] = deploy
    BY DEF IInv, Rolling, Shape, Settled
  <1>2. deploy \in 2..4
    BY <1>1 DEF IInv, DueType
  <1>3. /\ sweep.kind = "legacy" =>
             (deploy \in {2, 4} /\ due = <<"legacy">>) \/ (deploy = 3 /\ due = <<"legacy", "all">>)
        /\ sweep.kind = "all" => deploy = 3 /\ due = <<"all">>
    <2>1. CASE due = <<"legacy">>
      BY <2>1, <1>1, <1>2 DEF IInv, DueType
    <2>2. CASE due = <<"legacy", "all">>
      BY <2>2, <1>1, <1>2 DEF IInv, DueType
    <2>3. CASE due = <<"all">>
      BY <2>3, <1>1, <1>2 DEF IInv, DueType
    <2>4. due \in {<<"legacy">>, <<"legacy", "all">>, <<"all">>}
      BY <1>1, <1>2 DEF IInv, DueType
    <2>5. QED
      BY <2>1, <2>2, <2>3, <2>4
  <1>4. KeyOf(deploy) \in Target /\ KeyOf(deploy) \in Allowed
    BY <1>1, <1>2 DEF Target, Allowed, KeyOf
  <1>5. QED
    BY <1>1, <1>2, <1>3, <1>4

\* A cell that is not in the clear is what encrypt-legacy aims at.
LEMMA NotLegacy ==
    ASSUME IInv, sweep.pc # "idle", sweep.kind = "legacy",
           NEW cell, CellIn(cell, Allowed), cell = NULL \/ is_encrypted(cell)
    PROVE  CellIn(cell, Target)
  <1>1. deploy \in 2..4 /\ due # <<>>
    BY SweepPhase
  <1>2. CASE deploy = 2
    BY <1>1, <1>2 DEF CellIn, Allowed, Target, KeyOf, is_encrypted
  <1>3. CASE deploy = 3
    BY <1>1, <1>3 DEF CellIn, Allowed, Target
  <1>4. CASE deploy = 4
    BY <1>1, <1>4 DEF CellIn, Allowed, Target, KeyOf
  <1>5. QED
    BY <1>1, <1>2, <1>3, <1>4

Ahead ==
    {id \in DOMAIN Table(sweep.table) :
        id > sweep.last /\ (sweep.kind = "legacy" => Legacy(sweep.table, Table(sweep.table)[id]))}

LEMMA BatchIsFirst == Batch(sweep) = FirstOf(Ahead)
  BY DEF Batch, FirstOf, Ahead

LEMMA TableIds == IInv => DOMAIN Table(sweep.table) = Ids(sweep.table)
  BY DEF IInv, Shape, Table, Ids

\* A row of the table that is not ahead of the sweep is as the sweep leaves it.
LEMMA BehindIsDone ==
    ASSUME IInv, sweep.pc # "idle", NEW S, S \subseteq Ids(sweep.table) \ Ahead
    PROVE  RowsIn(sweep.table, S, Target)
  <1> DEFINE A == {id \in Ids(sweep.table) : id <= sweep.last}
  <1>1. sweep.kind \in {"legacy", "all"} /\ sweep.last \in Nat
        /\ sweep.table \in {"candidates", "resumes"}
    BY DEF IInv, Shape, SweepType
  <1>2. RowsIn(sweep.table, A, Target)
    BY DEF IInv, Passed
  <1>3. \A id \in S : id \in Nat /\ id \in Ids(sweep.table)
    BY IdsFinite
  <1>4. \A id \in S : id \in A \/ (sweep.kind = "legacy" /\ ~Legacy(sweep.table, Table(sweep.table)[id]))
    <2> TAKE id \in S
    <2>1. id \in Ids(sweep.table) /\ id \notin Ahead
      OBVIOUS
    <2>2. CASE id > sweep.last
      BY <2>1, <2>2, <1>1, TableIds DEF Ahead
    <2>3. CASE ~(id > sweep.last)
      BY <2>1, <2>3, <1>1, <1>3
    <2>4. QED
      BY <2>2, <2>3
  <1>5. CASE sweep.table = "candidates"
    <2>1. ASSUME NEW id \in S
          PROVE  CellIn(candidates[id].first_name, Target) /\ CellIn(candidates[id].phone, Target)
      <3>1. CASE id \in A
        BY <3>1, <1>2, <1>5 DEF RowsIn, CandidatesIn
      <3>2. CASE sweep.kind = "legacy" /\ ~Legacy(sweep.table, Table(sweep.table)[id])
        <4>1. id \in Candidates
          BY <1>3, <1>5 DEF Ids
        <4>2. CellIn(candidates[id].first_name, Allowed) /\ CellIn(candidates[id].phone, Allowed)
          BY <4>1 DEF IInv, KeysOK, CandidatesIn
        <4>3. \A f \in {"first_name", "phone"} :
                 candidates[id][f] = NULL \/ is_encrypted(candidates[id][f])
          BY <3>2, <1>5 DEF Legacy, Table, ENCRYPTED_FIELDS
        <4>4. /\ candidates[id].first_name = NULL \/ is_encrypted(candidates[id].first_name)
              /\ candidates[id].phone = NULL \/ is_encrypted(candidates[id].phone)
          BY <4>3
        <4>5. QED
          BY <4>2, <4>4, <3>2, NotLegacy
      <3>3. QED
        BY <3>1, <3>2, <1>4
    <2>2. QED
      BY <2>1, <1>5 DEF RowsIn, CandidatesIn
  <1>6. CASE sweep.table = "resumes"
    <2>1. ASSUME NEW id \in S PROVE CellIn(resumes[id].raw_text, Target)
      <3>1. CASE id \in A
        BY <3>1, <1>2, <1>6 DEF RowsIn, ResumesIn
      <3>2. CASE sweep.kind = "legacy" /\ ~Legacy(sweep.table, Table(sweep.table)[id])
        <4>1. id \in Resumes
          BY <1>3, <1>6 DEF Ids
        <4>2. CellIn(resumes[id].raw_text, Allowed)
          BY <4>1 DEF IInv, KeysOK, ResumesIn
        <4>3. resumes[id].raw_text = NULL \/ is_encrypted(resumes[id].raw_text)
          BY <3>2, <1>6 DEF Legacy, Table, ENCRYPTED_FIELDS
        <4>4. QED
          BY <4>2, <4>3, <3>2, NotLegacy
      <3>3. QED
        BY <3>1, <3>2, <1>4
    <2>2. QED
      BY <2>1, <1>6 DEF RowsIn, ResumesIn
  <1>7. QED
    BY <1>1, <1>5, <1>6

LEMMA AheadFinite ==
    ASSUME IInv
    PROVE  Ahead \subseteq Ids(sweep.table) /\ Ahead \subseteq Nat /\ IsFiniteSet(Ahead)
  <1>1. Ahead \subseteq Ids(sweep.table)
    BY TableIds DEF Ahead
  <1>2. QED
    BY <1>1, IdsFinite, FS_Subset

LEMMA PositiveIds == {id \in Candidates : id <= 0} = {} /\ {id \in Resumes : id <= 0} = {}
  <1>1. \A id \in Nat \ {0} : ~(id <= 0)
    OBVIOUS
  <1>2. QED
    BY <1>1, EncryptionAssumption

LEMMA SweepStartInv ==
    ASSUME IInv, SweepStart
    PROVE  IInv'
  <1>1. /\ due # <<>> /\ Settled
        /\ UNCHANGED <<candidates, resumes, committed, erased, deploy, version, due>>
    BY DEF SweepStart, dataVars, deployVars
  <1>2. sweep' = [pc |-> "read", kind |-> Head(due), table |-> "candidates", last |-> 0, batch |-> <<>>]
    BY DEF SweepStart, Idle
  <1>3. Head(due) \in {"legacy", "all"}
    <2>1. due \in {<<"legacy">>, <<"legacy", "all">>, <<"all">>}
      BY <1>1 DEF IInv, DueType, Shape
    <2>2. CASE due = <<"legacy">>
      BY <2>2
    <2>3. CASE due = <<"legacy", "all">>
      BY <2>3
    <2>4. CASE due = <<"all">>
      BY <2>4
    <2>5. QED
      BY <2>1, <2>2, <2>3, <2>4
  <1>4. SweepType' /\ sweep'.pc = "read" /\ sweep'.table = "candidates" /\ sweep'.last = 0
        /\ sweep'.kind = Head(due)
    BY <1>2, <1>3 DEF SweepType
  <1>5. Shape'
    BY <1>1, <1>4 DEF IInv, Shape
  <1>6. DueType' /\ Rolling'
    BY <1>1, <1>4 DEF IInv, DueType, Rolling, Settled
  <1>7. KeysOK'
    <2>1. Allowed' = Allowed
      BY <1>1 DEF Allowed
    <2>2. QED
      BY <2>1, <1>1 DEF IInv, KeysOK, CandidatesIn, ResumesIn
  <1>8. Passed'
    <2>1. {id \in Candidates : id <= 0} = {}
      BY PositiveIds
    <2>2. QED
      BY <2>1, <1>4 DEF Passed, RowsIn, CandidatesIn, Ids
  <1>9. QED
    BY <1>5, <1>6, <1>7, <1>8 DEF IInv

LEMMA SweepCrashInv ==
    ASSUME IInv, SweepCrash
    PROVE  IInv'
  <1>1. UNCHANGED <<candidates, resumes, committed, erased, deploy, version, due>>
    BY DEF SweepCrash, dataVars, deployVars
  <1>2. SweepType' /\ sweep'.pc = "idle"
    BY DEF SweepCrash, Idle, SweepType
  <1>3. Shape'
    BY <1>1, <1>2 DEF IInv, Shape
  <1>4. DueType' /\ Rolling'
    BY <1>1, <1>2 DEF IInv, DueType, Rolling, Settled
  <1>5. KeysOK'
    <2>1. Allowed' = Allowed
      BY <1>1 DEF Allowed
    <2>2. QED
      BY <2>1, <1>1 DEF IInv, KeysOK, CandidatesIn, ResumesIn
  <1>6. Passed'
    BY <1>2 DEF Passed
  <1>7. QED
    BY <1>3, <1>4, <1>5, <1>6 DEF IInv

LEMMA SweepReadInv ==
    ASSUME IInv, SweepRead
    PROVE  IInv'
  <1> DEFINE ids == Batch(sweep)
  <1>1. /\ sweep.pc = "read" /\ ids # {}
        /\ UNCHANGED <<candidates, resumes, committed, erased, deploy, version, due>>
    BY DEF SweepRead, dataVars, deployVars
  <1>2. sweep' = [sweep EXCEPT !.pc = "commit", !.batch = [id \in ids |-> Table(sweep.table)[id]]]
    BY DEF SweepRead
  <1>3. SweepType
    BY DEF IInv, Shape
  <1>4. /\ SweepType' /\ sweep'.pc = "commit" /\ sweep'.kind = sweep.kind
        /\ sweep'.table = sweep.table /\ sweep'.last = sweep.last
        /\ sweep'.batch = [id \in ids |-> Table(sweep.table)[id]]
    BY <1>2, <1>3 DEF SweepType
  <1>5. DOMAIN sweep'.batch = ids
    BY <1>4
  <1>6. ids = FirstOf(Ahead) /\ ids \subseteq Ids(sweep.table)
        /\ \A b \in ids, id \in Ahead : id <= b => id \in ids
    <2>1. ids = FirstOf(Ahead)
      BY BatchIsFirst
    <2>2. Ahead \subseteq Ids(sweep.table) /\ Ahead \subseteq Nat /\ IsFiniteSet(Ahead)
      BY AheadFinite
    <2>3. ids \subseteq Ids(sweep.table)
      BY <2>1, <2>2 DEF FirstOf
    <2>4. \A b \in FirstOf(Ahead), id \in Ahead : id <= b => id \in FirstOf(Ahead)
      BY <2>2, FirstIds
    <2>5. QED
      BY <2>1, <2>3, <2>4
  <1>7. Max(ids) \in ids
    <2>1. ids \in SUBSET Ids(sweep.table) /\ IsFiniteSet(Ids(sweep.table)) /\ Ids(sweep.table) \subseteq Nat
      BY <1>6, IdsFinite
    <2>2. IsFiniteSet(ids) /\ ids \subseteq Nat
      BY <2>1, FS_Subset
    <2>3. QED
      BY <2>2, <1>1, MaxId
  <1>8. Shape'
    <2>1. ASSUME NEW id \in ids PROVE sweep'.batch[id] \in RowOf(sweep.table)
      <3>1. sweep'.batch[id] = Table(sweep.table)[id] /\ id \in Ids(sweep.table)
        BY <1>4, <1>6
      <3>2. Table(sweep.table)[id] \in RowOf(sweep.table)
        BY <3>1 DEF IInv, Shape, Table, RowOf, Ids
      <3>3. QED
        BY <3>1, <3>2
    <2>2. DOMAIN sweep'.batch \subseteq Ids(sweep'.table) /\ DOMAIN sweep'.batch # {}
          /\ \A id \in DOMAIN sweep'.batch : sweep'.batch[id] \in RowOf(sweep'.table)
      BY <1>1, <1>4, <1>5, <1>6, <2>1
    <2>3. Ids(sweep.table)' = Ids(sweep'.table) /\ RowOf(sweep.table)' = RowOf(sweep'.table)
      BY DEF Ids, RowOf
    <2>4. QED
      BY <1>1, <1>4, <2>2, <2>3 DEF IInv, Shape
  <1>9. DueType' /\ Rolling'
    BY <1>1, <1>4 DEF IInv, DueType, Rolling, Settled
  <1>10. KeysOK'
    <2>1. Allowed' = Allowed
      BY <1>1 DEF Allowed
    <2>2. QED
      BY <2>1, <1>1 DEF IInv, KeysOK, CandidatesIn, ResumesIn
  <1>11. Passed'
    <2> DEFINE A == {id \in Ids(sweep.table) : id <= sweep.last}
               B == {id \in Ids(sweep.table) \ ids : id <= Max(ids)}
    <2>1. B \subseteq Ids(sweep.table) \ Ahead
      BY <1>6, <1>7
    <2>2. RowsIn(sweep.table, B, Target)
      BY <2>1, <1>1, BehindIsDone
    <2>3. RowsIn(sweep.table, A, Target) /\ (sweep.table = "resumes" => CandidatesIn(Candidates, Target))
      BY <1>1 DEF IInv, Passed
    <2>4. Target' = Target
      BY <1>1, <1>4 DEF Target
    <2>5. ASSUME NEW S, RowsIn(sweep.table, S, Target)
          PROVE  RowsIn(sweep.table, S, Target)'
      BY <2>5, <2>4, <1>1, <1>4 DEF RowsIn, CandidatesIn, ResumesIn
    <2>6. PICK S, T : S = A /\ T = B
      OBVIOUS
    <2>7. RowsIn(sweep.table, S, Target)' /\ RowsIn(sweep.table, T, Target)'
      BY <2>2, <2>3, <2>5, <2>6
    <2>8. /\ S = {id \in Ids(sweep'.table) : id <= sweep'.last}
          /\ T = {id \in Ids(sweep'.table) \ DOMAIN sweep'.batch : id <= Max(DOMAIN sweep'.batch)}
      BY <2>6, <1>4, <1>5
    <2>9. (sweep.table = "resumes" => CandidatesIn(Candidates, Target))'
      BY <2>3, <2>4, <1>1, <1>4 DEF CandidatesIn
    <2>10. /\ RowsIn(sweep.table, {id \in Ids(sweep.table) : id <= sweep.last}, Target)'
           /\ RowsIn(sweep.table,
                     {id \in Ids(sweep.table) \ DOMAIN sweep.batch : id <= Max(DOMAIN sweep.batch)},
                     Target)'
      BY <2>7, <2>8
    <2>11. QED
      BY <2>9, <2>10 DEF Passed
  <1>12. QED
    BY <1>8, <1>9, <1>10, <1>11 DEF IInv

LEMMA SweepTableDoneInv ==
    ASSUME IInv, SweepTableDone
    PROVE  IInv'
  <1>1. /\ sweep.pc = "read" /\ Batch(sweep) = {}
        /\ UNCHANGED <<candidates, resumes, committed, erased, deploy, version>>
    BY DEF SweepTableDone, dataVars
  <1>2. Ahead = {}
    BY <1>1, BatchIsFirst, AheadFinite, FirstIds
  <1>3. RowsIn(sweep.table, Ids(sweep.table), Target)
    BY <1>1, <1>2, BehindIsDone
  <1>4. SweepType /\ sweep.table \in {"candidates", "resumes"}
    BY DEF IInv, Shape, SweepType
  <1>5. CASE sweep.table = "candidates"
    <2>1. sweep' = [sweep EXCEPT !.table = "resumes", !.last = 0] /\ due' = due
      BY <1>5 DEF SweepTableDone
    <2>2. /\ SweepType' /\ sweep'.pc = "read" /\ sweep'.kind = sweep.kind
          /\ sweep'.table = "resumes" /\ sweep'.last = 0
      BY <2>1, <1>1, <1>4 DEF SweepType
    <2>3. Shape'
      BY <2>2, <1>1 DEF IInv, Shape
    <2>4. DueType' /\ Rolling'
      BY <2>1, <2>2, <1>1 DEF IInv, DueType, Rolling, Settled
    <2>5. KeysOK'
      <3>1. Allowed' = Allowed
        BY <1>1, <2>1 DEF Allowed
      <3>2. QED
        BY <3>1, <1>1 DEF IInv, KeysOK, CandidatesIn, ResumesIn
    <2>6. Passed'
      <3>1. Target' = Target
        BY <1>1, <2>2 DEF Target
      <3>2. CandidatesIn(Candidates, Target)
        BY <1>3, <1>5 DEF RowsIn, Ids
      <3>3. CandidatesIn(Candidates, Target)'
        BY <3>1, <3>2, <1>1 DEF CandidatesIn
      <3>4. {id \in Resumes : id <= 0} = {}
        BY PositiveIds
      <3>5. QED
        BY <3>3, <3>4, <2>2 DEF Passed, RowsIn, ResumesIn, Ids
    <2>7. QED
      BY <2>3, <2>4, <2>5, <2>6 DEF IInv
  <1>6. CASE sweep.table = "resumes"
    <2>1. sweep' = Idle /\ due' = Tail(due)
      BY <1>6 DEF SweepTableDone
    <2>2. SweepType' /\ sweep'.pc = "idle"
      BY <2>1 DEF Idle, SweepType
    <2>3. Shape'
      BY <2>2, <1>1 DEF IInv, Shape
    <2>4. CandidatesIn(Candidates, Target) /\ ResumesIn(Resumes, Target)
      BY <1>1, <1>3, <1>6 DEF IInv, Passed, RowsIn, Ids
    <2>5. \/ deploy \in {2, 4} /\ due' = <<>> /\ Target = {KeyOf(deploy)}
          \/ deploy = 3 /\ sweep.kind = "legacy" /\ due' = <<"all">> /\ Target = {"k1", "k2"}
          \/ deploy = 3 /\ sweep.kind = "all" /\ due' = <<>> /\ Target = {"k2"}
      <3>1. sweep.kind \in {"legacy", "all"}
        BY <1>4 DEF SweepType
      <3>2. CASE sweep.kind = "all"
        <4>1. deploy = 3 /\ due = <<"all">>
          BY <3>2, <1>1, SweepPhase
        <4>2. QED
          BY <4>1, <3>2, <2>1 DEF Target, KeyOf
      <3>3. CASE sweep.kind = "legacy"
        <4>1. (deploy \in {2, 4} /\ due = <<"legacy">>) \/ (deploy = 3 /\ due = <<"legacy", "all">>)
          BY <3>3, <1>1, SweepPhase
        <4>2. CASE deploy \in {2, 4} /\ due = <<"legacy">>
          BY <4>2, <2>1 DEF Target
        <4>3. CASE deploy = 3 /\ due = <<"legacy", "all">>
          BY <4>3, <3>3, <2>1 DEF Target
        <4>4. QED
          BY <4>1, <4>2, <4>3
      <3>4. QED
        BY <3>1, <3>2, <3>3
    <2>6. DueType'
      BY <2>5, <1>1 DEF DueType
    <2>7. Rolling'
      BY <2>2, <1>1 DEF IInv, Rolling, Settled
    <2>8. KeysOK'
      <3>1. Target = Allowed'
        <4>1. due' = <<"all">> => due' # <<>>
          OBVIOUS
        <4>2. QED
          BY <4>1, <2>5, <1>1 DEF Allowed, KeyOf
      <3>2. QED
        BY <3>1, <2>4, <1>1 DEF KeysOK, CandidatesIn, ResumesIn
    <2>9. Passed'
      BY <2>2 DEF Passed
    <2>10. QED
      BY <2>3, <2>6, <2>7, <2>8, <2>9 DEF IInv
  <1>7. QED
    BY <1>4, <1>5, <1>6

\* What the flush of a batch makes of a row: the encrypted columns of the copy
\* under the key in front, the others as they are by now.
LEMMA RewrittenCandidate ==
    ASSUME NEW row \in CandidateRow, NEW copy \in CandidateRow, deploy \in 2..4
    PROVE  /\ Rewritten(row, copy, "candidates") \in CandidateRow
           /\ CellIn(Rewritten(row, copy, "candidates").first_name, {KeyOf(deploy)})
           /\ CellIn(Rewritten(row, copy, "candidates").phone, {KeyOf(deploy)})
  <1>1. PICK g : g = Rewritten(row, copy, "candidates")
    OBVIOUS
  <1>2. DOMAIN row = {"first_name", "phone"} /\ ENCRYPTED_FIELDS["candidates"] = {"first_name", "phone"}
    BY DEF CandidateRow, ENCRYPTED_FIELDS
  <1>3. copy.first_name \in Cell /\ copy.phone \in Cell \union {NULL}
    BY DEF CandidateRow
  <1>4. g = [f \in DOMAIN row |-> encrypt_text(Keyring[deploy], Value(copy[f]))]
    BY <1>1, <1>2 DEF Rewritten
  <1>5. /\ g["first_name"] = encrypt_text(Keyring[deploy], Value(copy.first_name))
        /\ g["phone"] = encrypt_text(Keyring[deploy], Value(copy.phone))
    BY <1>2, <1>4
  <1>6. /\ g["first_name"] = Recrypted(deploy, copy.first_name)
        /\ g["phone"] = Recrypted(deploy, copy.phone)
    BY <1>3, <1>5, EncryptKey
  <1>7. /\ g["first_name"] \in Cell /\ g["phone"] \in Cell \union {NULL}
        /\ CellIn(g["first_name"], {KeyOf(deploy)}) /\ CellIn(g["phone"], {KeyOf(deploy)})
    BY <1>3, <1>6, RecryptedType
  <1>8. g = [f \in DOMAIN row |-> g[f]]
    BY <1>4
  <1>9. g \in CandidateRow
    BY <1>7, <1>8, RowRebuilt
  <1>10. QED
    BY <1>1, <1>7, <1>9

LEMMA RewrittenResume ==
    ASSUME NEW row \in ResumeRow, NEW copy \in ResumeRow, deploy \in 2..4,
           NEW new, new = [Rewritten(row, copy, "resumes") EXCEPT !.search_tokens = NewTokens(row, copy)]
    PROVE  new \in ResumeRow /\ CellIn(new.raw_text, {KeyOf(deploy)})
  <1>1. DOMAIN row = {"raw_text", "agent_analysis", "search_tokens", "skill_analysis"}
        /\ ENCRYPTED_FIELDS["resumes"] = {"raw_text"}
    BY DEF ResumeRow, ENCRYPTED_FIELDS
  <1>2. copy.raw_text \in TextCell \union {NULL} /\ copy.raw_text \in Cell \union {NULL}
    BY TextCellIsCell DEF ResumeRow
  <1>3. PICK text \in TextCell \union {NULL} :
           text = encrypt_text(Keyring[deploy], Value(copy.raw_text)) /\ CellIn(text, {KeyOf(deploy)})
    BY <1>2, EncryptKey, RecryptedType
  <1>4. PICK tokens \in (SUBSET Token) \union {NULL} : tokens = NewTokens(row, copy)
    <2>1. Value(copy.raw_text) = NULL \/ Value(copy.raw_text) \in Text
      BY <1>2, ValueOfText
    <2>2. Keyring[deploy].index \in {"none", "b1", "b2"}
      BY RingHead
    <2>3. blind_index_tokens(Keyring[deploy].index, Value(copy.raw_text)) \in (SUBSET Token) \union {NULL}
      BY <2>1, <2>2, TokensType
    <2>4. row.search_tokens \in (SUBSET Token) \union {NULL}
      BY DEF ResumeRow
    <2>5. QED
      BY <2>3, <2>4 DEF NewTokens
  <1>5. PICK g : g = Rewritten(row, copy, "resumes")
    OBVIOUS
  <1>6. g = [f \in DOMAIN row |-> IF f = "raw_text" THEN text ELSE row[f]]
    BY <1>1, <1>3, <1>5 DEF Rewritten
  <1>7. g = [raw_text |-> text, agent_analysis |-> row.agent_analysis,
             search_tokens |-> row.search_tokens, skill_analysis |-> row.skill_analysis]
    BY <1>1, <1>6
  <1>8. new = [g EXCEPT !.search_tokens = tokens]
    BY <1>4, <1>5
  <1>9. new = [raw_text |-> text, agent_analysis |-> row.agent_analysis,
               search_tokens |-> tokens, skill_analysis |-> row.skill_analysis]
    BY <1>7, <1>8
  <1>10. QED
    BY <1>3, <1>9 DEF ResumeRow

LEMMA SweepCommitInv ==
    ASSUME IInv, SweepCommit
    PROVE  IInv'
  <1>1. /\ sweep.pc = "commit"
        /\ UNCHANGED <<committed, erased, deploy, version, due>>
        /\ sweep' = [sweep EXCEPT !.pc = "read", !.last = Max(DOMAIN sweep.batch), !.batch = <<>>]
    BY DEF SweepCommit, deployVars
  <1>2. /\ SweepType /\ sweep.table \in {"candidates", "resumes"}
        /\ candidates \in [Candidates -> CandidateRow] /\ resumes \in [Resumes -> ResumeRow]
        /\ DOMAIN sweep.batch \subseteq Ids(sweep.table) /\ DOMAIN sweep.batch # {}
        /\ \A id \in DOMAIN sweep.batch : sweep.batch[id] \in RowOf(sweep.table)
    BY <1>1 DEF IInv, Shape, SweepType
  <1>3. PICK copies : copies = sweep.batch
    OBVIOUS
  <1>4. PICK last \in Nat : last = Max(DOMAIN copies)
    <2>1. DOMAIN copies \in SUBSET Ids(sweep.table) /\ IsFiniteSet(Ids(sweep.table))
          /\ Ids(sweep.table) \subseteq Nat
      BY <1>2, <1>3, IdsFinite
    <2>2. IsFiniteSet(DOMAIN copies) /\ DOMAIN copies \subseteq Nat
      BY <2>1, FS_Subset
    <2>3. QED
      BY <2>2, <1>2, <1>3, MaxId
  <1>5. /\ SweepType' /\ sweep'.pc = "read" /\ sweep'.kind = sweep.kind
        /\ sweep'.table = sweep.table /\ sweep'.last = last
    <2>1. sweep' = [sweep EXCEPT !.pc = "read", !.last = last, !.batch = <<>>]
      BY <1>1, <1>3, <1>4
    <2>2. QED
      BY <2>1, <1>2 DEF SweepType
  <1>6. deploy \in 2..4 /\ KeyOf(deploy) \in Target /\ KeyOf(deploy) \in Allowed
    BY <1>1, SweepPhase
  <1>7. Target' = Target /\ Allowed' = Allowed
    BY <1>1, <1>5 DEF Target, Allowed
  <1>8. DueType' /\ Rolling'
    BY <1>1, <1>5 DEF IInv, DueType, Rolling, Settled
  <1>9. CASE sweep.table = "candidates"
    <2>1. resumes' = resumes /\ candidates' = [c \in Candidates |->
                                 IF c \in DOMAIN copies
                                 THEN Rewritten(candidates[c], copies[c], "candidates")
                                 ELSE candidates[c]]
      BY <1>3, <1>9 DEF SweepCommit
    <2>2. \A c \in DOMAIN copies : c \in Candidates /\ copies[c] \in CandidateRow
      BY <1>2, <1>3, <1>9 DEF Ids, RowOf
    <2>3. \A c \in Candidates \ DOMAIN copies : candidates'[c] = candidates[c]
      BY <2>1
    <2>4. \A c \in DOMAIN copies :
             /\ candidates'[c] \in CandidateRow
             /\ CellIn(candidates'[c].first_name, {KeyOf(deploy)})
             /\ CellIn(candidates'[c].phone, {KeyOf(deploy)})
      <3> TAKE c \in DOMAIN copies
      <3>1. candidates'[c] = Rewritten(candidates[c], copies[c], "candidates")
        BY <2>1, <2>2
      <3>2. candidates[c] \in CandidateRow /\ copies[c] \in CandidateRow
        BY <1>2, <2>2
      <3>3. QED
        BY <3>1, <3>2, <1>6, RewrittenCandidate
    <2>5. candidates' \in [Candidates -> CandidateRow]
      <3>1. \A c \in Candidates : candidates'[c] \in CandidateRow
        BY <1>2, <2>3, <2>4
      <3>2. candidates' = [c \in Candidates |-> candidates'[c]]
        BY <2>1
      <3>3. QED
        BY <3>1, <3>2
    <2>6. Shape'
      BY <1>1, <1>2, <1>5, <2>1, <2>5 DEF IInv, Shape
    <2>7. KeysOK'
      BY <1>6, <1>7, <2>1, <2>3, <2>4 DEF IInv, KeysOK, CandidatesIn, ResumesIn, CellIn
    <2>8. \A c \in Candidates : c <= last =>
             CellIn(candidates'[c].first_name, Target) /\ CellIn(candidates'[c].phone, Target)
      <3>1. \A c \in Candidates \ DOMAIN copies : c <= last =>
               CellIn(candidates[c].first_name, Target) /\ CellIn(candidates[c].phone, Target)
        BY <1>1, <1>3, <1>4, <1>9 DEF IInv, Passed, RowsIn, CandidatesIn, Ids
      <3>2. QED
        BY <3>1, <2>3, <2>4, <1>6 DEF CellIn
    <2>9. CandidatesIn({c \in Candidates : c <= last}, Target)'
      BY <2>8, <1>7 DEF CandidatesIn
    <2>10. Passed'
      BY <1>5, <1>9, <2>9 DEF Passed, RowsIn, Ids
    <2>11. QED
      BY <1>8, <2>6, <2>7, <2>10 DEF IInv
  <1>10. CASE sweep.table = "resumes"
    <2>1. candidates' = candidates /\ resumes' = [r \in Resumes |->
                                 IF r \in DOMAIN copies
                                 THEN [Rewritten(resumes[r], copies[r], "resumes") EXCEPT
                                         !.search_tokens = NewTokens(resumes[r], copies[r])]
                                 ELSE resumes[r]]
      BY <1>3, <1>10 DEF SweepCommit
    <2>2. \A r \in DOMAIN copies : r \in Resumes /\ copies[r] \in ResumeRow
      BY <1>2, <1>3, <1>10 DEF Ids, RowOf
    <2>3. \A r \in Resumes \ DOMAIN copies : resumes'[r] = resumes[r]
      BY <2>1
    <2>4. \A r \in DOMAIN copies :
             resumes'[r] \in ResumeRow /\ CellIn(resumes'[r].raw_text, {KeyOf(deploy)})
      <3> TAKE r \in DOMAIN copies
      <3>1. resumes'[r] = [Rewritten(resumes[r], copies[r], "resumes") EXCEPT
                             !.search_tokens = NewTokens(resumes[r], copies[r])]
        BY <2>1, <2>2
      <3>2. resumes[r] \in ResumeRow /\ copies[r] \in ResumeRow
        BY <1>2, <2>2
      <3>3. QED
        BY <3>1, <3>2, <1>6, RewrittenResume
    <2>5. resumes' \in [Resumes -> ResumeRow]
      <3>1. \A r \in Resumes : resumes'[r] \in ResumeRow
        BY <1>2, <2>3, <2>4
      <3>2. resumes' = [r \in Resumes |-> resumes'[r]]
        BY <2>1
      <3>3. QED
        BY <3>1, <3>2
    <2>6. Shape'
      BY <1>1, <1>2, <1>5, <2>1, <2>5 DEF IInv, Shape
    <2>7. KeysOK'
      <3>1. CandidatesIn(Candidates, Allowed)'
        BY <1>7, <2>1 DEF IInv, KeysOK, CandidatesIn
      <3>2. \A r \in Resumes : CellIn(resumes[r].raw_text, Allowed)
        BY DEF IInv, KeysOK, ResumesIn
      <3>3. \A r \in Resumes : CellIn(resumes'[r].raw_text, Allowed)
        BY <3>2, <1>6, <2>3, <2>4 DEF CellIn
      <3>4. QED
        BY <3>1, <3>3, <1>7 DEF KeysOK, ResumesIn
    <2>8. \A r \in Resumes : r <= last => CellIn(resumes'[r].raw_text, Target)
      <3>1. \A r \in Resumes \ DOMAIN copies : r <= last => CellIn(resumes[r].raw_text, Target)
        BY <1>1, <1>3, <1>4, <1>10 DEF IInv, Passed, RowsIn, ResumesIn, Ids
      <3>2. QED
        BY <3>1, <2>3, <2>4, <1>6 DEF CellIn
    <2>9. ResumesIn({r \in Resumes : r <= last}, Target)'
      BY <2>8, <1>7 DEF ResumesIn
    <2>10. CandidatesIn(Candidates, Target)'
      BY <1>1, <1>7, <1>10, <2>1 DEF IInv, Passed, CandidatesIn
    <2>11. Passed'
      <3>1. RowsIn(sweep.table, {id \in Ids(sweep.table) : id <= sweep.last}, Target)'
        BY <1>5, <1>10, <2>9 DEF RowsIn, Ids
      <3>2. QED
        BY <1>5, <3>1, <2>10 DEF Passed
    <2>12. QED
      BY <1>8, <2>6, <2>7, <2>11 DEF IInv
  <1>11. QED
    BY <1>2, <1>9, <1>10

(***************************************************************************)
(* The theorems                                                            *)
(***************************************************************************)

LEMMA StutterInv == ASSUME IInv, UNCHANGED encVars PROVE IInv'
  <1>1. UNCHANGED <<candidates, resumes, deploy, version, due, sweep, committed, erased>>
    BY DEF encVars
  <1>2. Shape' /\ DueType' /\ Rolling'
    BY <1>1 DEF IInv, Shape, SweepType, DueType, Rolling, Settled
  <1>3. Allowed' = Allowed /\ Target' = Target
    BY <1>1 DEF Allowed, Target
  <1>4. KeysOK'
    BY <1>1, <1>3 DEF IInv, KeysOK, CandidatesIn, ResumesIn
  <1>5. Passed'
    BY <1>1, <1>3 DEF IInv, Passed, RowsIn, CandidatesIn, ResumesIn
  <1>6. QED
    BY <1>2, <1>4, <1>5 DEF IInv

LEMMA StepInv ==
    ASSUME IInv, [EncNext]_encVars
    PROVE  IInv'
  <1>1. CASE upgrade
    BY <1>1, upgradeInv
  <1>2. CASE downgrade
    BY <1>2, downgradeInv
  <1>3. CASE Deploy
    BY <1>3, DeployInv
  <1>4. ASSUME NEW i \in Instances, Roll(i) PROVE IInv'
    BY <1>4, RollInv
  <1>5. ASSUME NEW i \in Instances, NEW c \in Candidates, NEW f \in {"first_name", "phone"},
               UpdateProfile(i, c, f)
        PROVE  IInv'
    BY <1>5, UpdateProfileInv
  <1>6. ASSUME NEW i \in Instances, NEW r \in Resumes, ProcessResume(i, r) PROVE IInv'
    BY <1>6, ProcessResumeInv
  <1>7. ASSUME NEW i \in Instances, NEW c \in Candidates, Anonymise(i, c) PROVE IInv'
    BY <1>7, AnonymiseInv
  <1>8. CASE SweepStart
    BY <1>8, SweepStartInv
  <1>9. CASE SweepRead
    BY <1>9, SweepReadInv
  <1>10. CASE SweepTableDone
    BY <1>10, SweepTableDoneInv
  <1>11. CASE SweepCommit
    BY <1>11, SweepCommitInv
  <1>12. CASE SweepCrash
    BY <1>12, SweepCrashInv
  <1>13. CASE UNCHANGED encVars
    BY <1>13, StutterInv
  <1>14. QED
    BY <1>1, <1>2, <1>3, <1>4, <1>5, <1>6, <1>7, <1>8, <1>9, <1>10, <1>11, <1>12, <1>13 DEF EncNext

\* The search only reads the tables: each of its steps is a step of Encryption
\* or leaves it as it is.
LEMMA SearchOnlyReads == ASSUME [Next]_vars PROVE [EncNext]_encVars
  BY DEF Next, vars, FirstPage, NextPage, PreviousPage, Turn

\* The inductive invariant holds in every reachable state of the service that
\* is searched, edited, rolled out and swept at the same time.
THEOREM Invariant == Spec => []IInv
  <1>1. Init => IInv
    BY InitInv DEF Init
  <1>2. IInv /\ [Next]_vars => IInv'
    BY SearchOnlyReads, StepInv
  <1>3. QED
    BY <1>1, <1>2, PTL DEF Spec

\* No rotation strands a value of a swept column and none stays in the clear
\* once encrypt-legacy has run (crypto.py, key rotation and the two sweeps),
\* however many rows, processes and batches there are.
THEOREM RotationIsSafe == Spec => []RotationSafe
  <1>1. IInv => RotationSafe
    BY InvImplies
  <1>2. QED
    BY <1>1, Invariant, PTL

(***************************************************************************)
(* The blind index: the tokens of a row against its text                   *)
(***************************************************************************)

\* The row has the tokens that the key in service makes of its text.
Right(r) ==
    Overwritten(r) \/ resumes[r].search_tokens =
                        blind_index_tokens(Keyring[deploy].index, Value(resumes[r].raw_text))

\* A row holds the text of its file or none.
Holds(cell, r) == cell = NULL \/ cell.val = TextOf[r]
Texts == \A r \in Resumes : Holds(resumes[r].raw_text, r)

\* The other tokens that may occur: those of a container of the version before
\* the migration, which leaves its text in the clear, and those under the key
\* before the last, until the sweep of deployment 3 has ended.
IndexOK ==
    \A r \in Resumes :
        /\ deploy = 2 =>
             Right(r) \/ (resumes[r].raw_text # NULL /\ resumes[r].raw_text.key = Plain)
        /\ deploy = 3 /\ due # <<>> =>
             Right(r) \/ resumes[r].search_tokens = blind_index_tokens("b1", Value(resumes[r].raw_text))
        /\ (deploy = 3 /\ due = <<>>) \/ deploy = 4 => Right(r)

\* What a request or job may have done to a row since a sweep loaded it.
CopyOK(r, copy) ==
    /\ Holds(copy.raw_text, r)
    /\ Overwritten(r) => (copy.raw_text = NULL <=> resumes[r].raw_text = NULL)
    /\ (copy.raw_text # NULL /\ resumes[r].raw_text # NULL
        /\ copy.search_tokens = blind_index_tokens(Keyring[deploy].index, Value(copy.raw_text)))
       => Right(r)

Copies ==
    (sweep.pc = "commit" /\ sweep.table = "resumes") =>
        \A r \in DOMAIN sweep.batch : CopyOK(r, sweep.batch[r])

\* The rows the sweep of deployment 3 has passed.
Reindexed ==
    (sweep.pc # "idle" /\ sweep.kind = "all" /\ sweep.table = "resumes") =>
        /\ \A r \in Resumes : r <= sweep.last => Right(r)
        /\ sweep.pc = "commit" =>
             \A r \in Resumes \ DOMAIN sweep.batch : r <= Max(DOMAIN sweep.batch) => Right(r)

SInv == Texts /\ IndexOK /\ Copies /\ Reindexed

LEMMA NullTokens == \A x : blind_index_tokens(x, NULL) = NULL
  BY DEF blind_index_tokens

LEMMA ResumeCells ==
    ASSUME IInv
    PROVE  \A r \in Resumes : /\ resumes[r] \in ResumeRow
                              /\ resumes[r].raw_text \in TextCell \union {NULL}
                              /\ CellIn(resumes[r].raw_text, Allowed)
  BY DEF IInv, Shape, ResumeRow, KeysOK, ResumesIn

LEMMA TextIndexInit == Init => SInv
  <1> SUFFICES ASSUME Init PROVE SInv
    OBVIOUS
  <1>1. deploy = 1 /\ sweep.pc = "idle"
    BY DEF Init, EncInit, Idle
  <1>2. ASSUME NEW r \in Resumes PROVE Holds(resumes[r].raw_text, r)
    BY DEF Init, EncInit, Holds
  <1>3. QED
    BY <1>1, <1>2 DEF SInv, Texts, IndexOK, Copies, Reindexed

\* A step that touches no resume, and no sweep of them.
LEMMA RowsKept ==
    ASSUME UNCHANGED <<resumes, committed, deploy>>
    PROVE  /\ \A r : Right(r)' <=> Right(r)
           /\ \A r : Overwritten(r)' <=> Overwritten(r)
           /\ \A r, copy : CopyOK(r, copy)' <=> CopyOK(r, copy)
           /\ Texts' <=> Texts
           /\ due' = due => (IndexOK' <=> IndexOK)
  BY DEF Right, Overwritten, CopyOK, Texts, IndexOK

LEMMA UntouchedIndex ==
    ASSUME SInv, UNCHANGED <<resumes, committed, deploy, due, sweep>>
    PROVE  SInv'
  <1>1. Texts' /\ IndexOK'
    BY RowsKept DEF SInv
  <1>2. Copies'
    BY RowsKept DEF SInv, Copies
  <1>3. Reindexed'
    BY RowsKept DEF SInv, Reindexed
  <1>4. QED
    BY <1>1, <1>2, <1>3 DEF SInv

LEMMA upgradeIndex ==
    ASSUME IInv, SInv, upgrade
    PROVE  SInv'
  <1>1. deploy = 1 /\ deploy' = 2 /\ due = <<>> /\ sweep.pc = "idle" /\ sweep' = sweep
        /\ resumes \in [Resumes -> ResumeRow]
    BY DEF IInv, Shape, DueType, Rolling, upgrade, SweepType
  <1>2. ASSUME NEW r \in Resumes
        PROVE  Holds(resumes'[r].raw_text, r) /\ Right(r)'
    <2> DEFINE old == resumes[r].raw_text
    <2>1. old \in TextCell \union {NULL} /\ resumes[r] \in ResumeRow /\ Holds(old, r)
      BY ResumeCells DEF SInv, Texts
    <2>2. resumes'[r] = [resumes[r] EXCEPT !.raw_text = EncryptOnce(old),
                           !.search_tokens = blind_index_tokens(Keyring[2].index, Value(DecryptOnce(old)))]
      BY DEF upgrade
    <2>3. /\ resumes'[r].raw_text = EncryptOnce(old)
          /\ resumes'[r].search_tokens = blind_index_tokens(Keyring[2].index, Value(DecryptOnce(old)))
      BY <2>1, <2>2 DEF ResumeRow
    <2>4. Value(EncryptOnce(old)) = Value(old) /\ Value(DecryptOnce(old)) = Value(old)
          /\ Holds(EncryptOnce(old), r)
      <3>1. CASE old = NULL
        BY <3>1 DEF EncryptOnce, DecryptOnce, Value, is_encrypted, Holds
      <3>2. CASE old # NULL
        <4>1. old \in TextCell /\ old.val \in Val
          BY <2>1, <3>2 DEF TextCell, Val
        <4>2. EncryptOnce(old) = old \/ EncryptOnce(old) = [key |-> Head(Keyring[2].keys), val |-> old.val]
          BY <3>2, <4>1, ValNotNull DEF EncryptOnce, encrypt_text
        <4>3. EncryptOnce(old) # NULL /\ EncryptOnce(old).val = old.val
          <5>1. EncryptOnce(old) \in Cell
            BY <4>1, EncryptOnceType, TextCellIsCell
          <5>2. QED
            BY <4>2, <5>1, NullAssumption
        <4>4. DecryptOnce(old) # NULL /\ DecryptOnce(old).val = old.val
          <5>1. DecryptOnce(old) \in Cell
            BY <4>1, DecryptOnceType, TextCellIsCell
          <5>2. DecryptOnce(old).val = old.val
            BY <4>1 DEF DecryptOnce, TextCell
          <5>3. QED
            BY <5>1, <5>2, NullAssumption
        <4>5. QED
          BY <2>1, <3>2, <4>3, <4>4 DEF Value, Holds
      <3>3. QED
        BY <3>1, <3>2
    <2>5. QED
      BY <1>1, <2>3, <2>4 DEF Right
  <1>3. Texts'
    BY <1>2 DEF Texts
  <1>4. IndexOK'
    BY <1>1, <1>2 DEF IndexOK
  <1>5. QED
    BY <1>1, <1>3, <1>4 DEF SInv, Copies, Reindexed

LEMMA downgradeIndex ==
    ASSUME IInv, SInv, downgrade
    PROVE  SInv'
  <1>1. deploy' = 1
    BY DEF downgrade
  <1>2. sweep'.pc = "idle"
    <2>1. \A i \in Instances : version[i] = 1 /\ deploy = 2
      BY DEF downgrade
    <2>2. ~Settled
      BY <2>1, EncryptionAssumption DEF Settled
    <2>3. QED
      BY <2>2 DEF IInv, Rolling, downgrade
  <1>3. ASSUME NEW r \in Resumes
        PROVE  Holds(resumes'[r].raw_text, r)
    <2> DEFINE old == resumes[r].raw_text
    <2>1. old \in TextCell \union {NULL} /\ resumes[r] \in ResumeRow /\ Holds(old, r)
      BY ResumeCells DEF SInv, Texts
    <2>2. resumes'[r] = [resumes[r] EXCEPT !.raw_text = DecryptOnce(old), !.search_tokens = NULL]
      BY DEF downgrade
    <2>3. resumes'[r].raw_text = DecryptOnce(old)
      BY <2>1, <2>2 DEF ResumeRow
    <2>4. CASE old = NULL
      BY <2>3, <2>4 DEF DecryptOnce, is_encrypted, Holds
    <2>5. CASE old # NULL
      <3>1. old \in TextCell
        BY <2>1, <2>5
      <3>2. DecryptOnce(old).val = old.val
        BY <3>1 DEF DecryptOnce, TextCell
      <3>3. QED
        BY <2>1, <2>3, <2>5, <3>2 DEF Holds
    <2>6. QED
      BY <2>4, <2>5
  <1>4. QED
    BY <1>1, <1>2, <1>3 DEF SInv, Texts, IndexOK, Copies, Reindexed

LEMMA DeployIndex ==
    ASSUME IInv, SInv, Deploy
    PROVE  SInv'
  <1>1. /\ deploy \in {2, 3} /\ deploy' = deploy + 1 /\ due = <<>>
        /\ due' = SweepsOf[deploy']
        /\ UNCHANGED <<resumes, committed, sweep>>
    BY DEF Deploy, dataVars
  <1>2. sweep.pc = "idle"
    BY <1>1 DEF IInv, Rolling, Shape, SweepType
  <1>3. due' # <<>>
    BY <1>1 DEF SweepsOf
  <1>4. Texts'
    BY <1>1 DEF SInv, Texts
  <1>5. IndexOK'
    <2> SUFFICES ASSUME NEW r \in Resumes
                 PROVE  /\ deploy' = 3 => Right(r)' \/ resumes'[r].search_tokens =
                                            blind_index_tokens("b1", Value(resumes'[r].raw_text))
                        /\ deploy' = 4 => Right(r)'
      BY <1>1, <1>3 DEF IndexOK
    <2>1. CASE deploy = 2
      <3>1. resumes[r].raw_text = NULL \/ resumes[r].raw_text.key = "k1"
        BY <1>1, <2>1, ResumeCells DEF CellIn, Allowed, KeyOf
      <3>2. Right(r)
        BY <2>1, <3>1 DEF SInv, IndexOK, Plain
      <3>3. Overwritten(r) => Overwritten(r)'
        BY <1>1 DEF Overwritten
      <3>4. QED
        BY <1>1, <2>1, <3>2, <3>3, Rings DEF Right
    <2>2. CASE deploy = 3
      <3>1. Right(r)
        BY <1>1, <2>2 DEF SInv, IndexOK
      <3>2. Overwritten(r) => Overwritten(r)'
        BY <1>1 DEF Overwritten
      <3>3. deploy' = 4 /\ Keyring[deploy'].index = Keyring[deploy].index
        BY <1>1, <2>2, Rings
      <3>4. Right(r)'
        BY <1>1, <3>1, <3>2, <3>3 DEF Right
      <3>5. QED
        BY <3>3, <3>4
    <2>3. QED
      BY <1>1, <2>1, <2>2
  <1>6. QED
    BY <1>1, <1>2, <1>4, <1>5 DEF SInv, Copies, Reindexed

\* A row a process has just written has the tokens of its key, or is one that
\* a container of an older deployment leaves.
LEMMA WrittenRow ==
    ASSUME IInv, NEW i \in Instances, NEW r \in Resumes, ProcessResume(i, r)
    PROVE  /\ resumes'[r].raw_text # NULL /\ resumes'[r].raw_text.val = TextOf[r]
           /\ version[i] = deploy /\ deploy # 1 => Right(r)'
           /\ deploy = 2 => Right(r)' \/ resumes'[r].raw_text.key = Plain
           /\ deploy = 3 => Right(r)' \/ resumes'[r].search_tokens =
                                           blind_index_tokens("b1", Value(resumes'[r].raw_text))
           /\ deploy = 4 => Right(r)'
           /\ \A s \in Resumes \ {r} : resumes'[s] = resumes[s]
  <1> DEFINE v == version[i]
  <1>1. v \in 1..4 /\ deploy \in 1..4 /\ v \in {deploy - 1, deploy} /\ deploy' = deploy
    BY WriterKey DEF IInv, Rolling, Shape, ProcessResume, deployVars
  <1>2. TextOf[r] \in Val /\ TextOf[r] # NULL /\ {"analysis"} \in Val
    BY TextVal, ValNotNull DEF Val
  <1>3. Bind(Keyring[v], TextOf[r]) = [key |-> KeyOf(v), val |-> TextOf[r]]
    BY <1>1, <1>2, BindKey
  <1>4. PICK text : text = [key |-> KeyOf(v), val |-> TextOf[r]]
    OBVIOUS
  <1>5. text # NULL /\ text.val = TextOf[r] /\ text.key = KeyOf(v) /\ Value(text) = TextOf[r]
    <2>1. text \in Cell
      BY <1>1, <1>2, <1>4, KeyOfType DEF Cell
    <2>2. text # NULL
      BY <2>1, NullAssumption
    <2>3. QED
      BY <1>4, <2>2 DEF Value
  <1>6. resumes \in [Resumes -> ResumeRow] /\ resumes[r] \in ResumeRow
    BY DEF IInv, Shape
  <1>7. /\ resumes'[r].raw_text = text
        /\ v # 1 => resumes'[r].search_tokens = blind_index_tokens(Keyring[v].index, TextOf[r])
        /\ \A s \in Resumes \ {r} : resumes'[s] = resumes[s]
    <2>1. CASE v = 1
      <3>1. resumes' = [resumes EXCEPT ![r] = [resumes[r] EXCEPT !.raw_text = text, !.skill_analysis = TRUE]]
        BY <1>3, <1>4, <2>1 DEF ProcessResume
      <3>2. resumes'[r] = [resumes[r] EXCEPT !.raw_text = text, !.skill_analysis = TRUE]
            /\ \A s \in Resumes \ {r} : resumes'[s] = resumes[s]
        BY <3>1, <1>6
      <3>3. QED
        BY <3>2, <1>6, <2>1 DEF ResumeRow
    <2>2. CASE v # 1
      <3>1. resumes' = [resumes EXCEPT ![r] =
                          [raw_text |-> text,
                           agent_analysis |-> Bind(Keyring[v], {"analysis"}),
                           search_tokens |-> blind_index_tokens(Keyring[v].index, TextOf[r]),
                           skill_analysis |-> TRUE]]
        BY <1>3, <1>4, <2>2 DEF ProcessResume
      <3>2. QED
        BY <3>1, <1>6
    <2>3. QED
      BY <2>1, <2>2
  <1>8. ASSUME v # 1, Keyring[v].index = Keyring[deploy].index PROVE Right(r)'
    BY <1>1, <1>5, <1>7, <1>8 DEF Right
  <1>9. ASSUME v = deploy, deploy # 1 PROVE Right(r)'
    BY <1>8, <1>9
  <1>10. ASSUME deploy = 2 PROVE Right(r)' \/ resumes'[r].raw_text.key = Plain
    <2>1. CASE v = 1
      BY <2>1, <1>5, <1>7 DEF KeyOf
    <2>2. CASE v = 2
      BY <2>2, <1>9, <1>10
    <2>3. QED
      BY <2>1, <2>2, <1>1, <1>10
  <1>11. ASSUME deploy = 3
         PROVE  Right(r)' \/ resumes'[r].search_tokens = blind_index_tokens("b1", Value(resumes'[r].raw_text))
    <2>1. CASE v = 2
      BY <2>1, <1>5, <1>7, Rings
    <2>2. CASE v = 3
      BY <2>2, <1>9, <1>11
    <2>3. QED
      BY <2>1, <2>2, <1>1, <1>11
  <1>12. ASSUME deploy = 4 PROVE Right(r)'
    <2>1. Keyring[v].index = Keyring[deploy].index /\ v # 1
      BY <1>1, <1>12, Rings
    <2>2. QED
      BY <2>1, <1>8
  <1>13. QED
    BY <1>5, <1>7, <1>9, <1>10, <1>11, <1>12

LEMMA ProcessResumeIndex ==
    ASSUME IInv, SInv, NEW i \in Instances, NEW r \in Resumes, ProcessResume(i, r)
    PROVE  SInv'
  <1>1. UNCHANGED <<deploy, due, sweep>> /\ committed' = committed \union {r} /\ deploy \in 1..4
    BY DEF ProcessResume, deployVars, IInv, Shape
  <1>2. /\ resumes'[r].raw_text # NULL /\ resumes'[r].raw_text.val = TextOf[r]
        /\ version[i] = deploy /\ deploy # 1 => Right(r)'
        /\ deploy = 2 => Right(r)' \/ resumes'[r].raw_text.key = Plain
        /\ deploy = 3 => Right(r)' \/ resumes'[r].search_tokens =
                                        blind_index_tokens("b1", Value(resumes'[r].raw_text))
        /\ deploy = 4 => Right(r)'
        /\ \A s \in Resumes \ {r} : resumes'[s] = resumes[s]
    BY WrittenRow
  <1>3. \A s \in Resumes \ {r} : /\ Right(s)' <=> Right(s)
                                 /\ \A copy : CopyOK(s, copy)' <=> CopyOK(s, copy)
    BY <1>1, <1>2 DEF Right, CopyOK, Overwritten
  <1>4. ~Overwritten(r)'
    BY <1>1, <1>2 DEF Overwritten
  <1>5. sweep.pc # "idle" \/ (deploy = 3 /\ due = <<>>) => version[i] = deploy /\ deploy # 1
    <2>1. sweep.pc # "idle" => version[i] = deploy /\ deploy # 1
      BY SweepPhase
    <2>2. ASSUME deploy = 3, due = <<>> PROVE version[i] = deploy
      <3>1. SweepsOf[deploy] # <<>>
        BY <2>2 DEF SweepsOf
      <3>2. QED
        BY <2>2, <3>1 DEF IInv, Rolling, Settled
    <2>3. QED
      BY <2>1, <2>2
  <1>6. Texts'
    BY <1>2 DEF SInv, Texts, Holds
  <1>7. IndexOK'
    <2>1. ASSUME NEW s \in Resumes \ {r}
          PROVE /\ deploy' = 2 =>
                     Right(s)' \/ (resumes'[s].raw_text # NULL /\ resumes'[s].raw_text.key = Plain)
                /\ deploy' = 3 /\ due' # <<>> =>
                     Right(s)' \/ resumes'[s].search_tokens = blind_index_tokens("b1", Value(resumes'[s].raw_text))
                /\ (deploy' = 3 /\ due' = <<>>) \/ deploy' = 4 => Right(s)'
      BY <1>1, <1>2, <1>3 DEF SInv, IndexOK
    <2>2. /\ deploy' = 2 =>
               Right(r)' \/ (resumes'[r].raw_text # NULL /\ resumes'[r].raw_text.key = Plain)
          /\ deploy' = 3 /\ due' # <<>> =>
               Right(r)' \/ resumes'[r].search_tokens = blind_index_tokens("b1", Value(resumes'[r].raw_text))
          /\ (deploy' = 3 /\ due' = <<>>) \/ deploy' = 4 => Right(r)'
      BY <1>1, <1>2, <1>5
    <2>3. QED
      BY <2>1, <2>2 DEF IndexOK
  <1>8. Copies'
    <2> SUFFICES ASSUME sweep.pc = "commit", sweep.table = "resumes", NEW s \in DOMAIN sweep.batch
                 PROVE  CopyOK(s, sweep.batch[s])'
      BY <1>1 DEF Copies
    <2>1. s \in Resumes /\ CopyOK(s, sweep.batch[s])
      BY DEF IInv, Shape, Ids, SInv, Copies
    <2>2. PICK copy : copy = sweep.batch[s]
      OBVIOUS
    <2>3. CopyOK(s, copy)'
      <3>1. CASE s # r
        BY <3>1, <2>1, <2>2, <1>3
      <3>2. CASE s = r
        <4>1. Right(r)'
          BY <1>2, <1>5
        <4>2. QED
          BY <3>2, <4>1, <1>4, <2>1, <2>2 DEF CopyOK
      <3>3. QED
        BY <3>1, <3>2
    <2>4. QED
      BY <2>2, <2>3, <1>1
  <1>9. Reindexed'
    <2> SUFFICES ASSUME sweep.pc # "idle", sweep.kind = "all", sweep.table = "resumes"
                 PROVE  /\ \A s \in Resumes : s <= sweep.last => Right(s)'
                        /\ sweep.pc = "commit" =>
                             \A s \in Resumes \ DOMAIN sweep.batch : s <= Max(DOMAIN sweep.batch) => Right(s)'
      BY <1>1 DEF Reindexed
    <2>1. \A s \in Resumes : Right(s) => Right(s)'
      BY <1>2, <1>3, <1>5
    <2>2. QED
      BY <2>1 DEF SInv, Reindexed
  <1>10. QED
    BY <1>6, <1>7, <1>8, <1>9 DEF SInv

LEMMA AnonymiseIndex ==
    ASSUME IInv, SInv, NEW i \in Instances, NEW c \in Candidates, Anonymise(i, c)
    PROVE  SInv'
  <1> DEFINE own == {r \in Resumes : OwnerOf[r] = c}
  <1>1. UNCHANGED <<deploy, due, sweep>> /\ committed' = committed \ own
    BY DEF Anonymise, deployVars
  <1>2. resumes \in [Resumes -> ResumeRow]
    BY DEF IInv, Shape
  <1>3. resumes' = [r \in Resumes |->
                      IF r \in own THEN [resumes[r] EXCEPT !.raw_text = NULL, !.search_tokens = NULL]
                      ELSE resumes[r]]
    BY DEF Anonymise
  <1>4. \A r \in own : resumes'[r].raw_text = NULL /\ resumes'[r].search_tokens = NULL
    <2> TAKE r \in own
    <2>1. resumes[r] \in ResumeRow /\ resumes'[r] = [resumes[r] EXCEPT !.raw_text = NULL, !.search_tokens = NULL]
      BY <1>2, <1>3
    <2>2. QED
      BY <2>1 DEF ResumeRow
  <1>5. \A r \in Resumes \ own : resumes'[r] = resumes[r]
    BY <1>3
  <1>6. \A r \in own : Right(r)' /\ ~Overwritten(r)'
    <2> TAKE r \in own
    <2>1. resumes'[r].search_tokens = blind_index_tokens(Keyring[deploy'].index, Value(resumes'[r].raw_text))
      BY <1>4, NullTokens DEF Value
    <2>2. QED
      BY <2>1, <1>1, <1>4 DEF Right, Overwritten
  <1>7. \A r \in Resumes \ own : /\ Right(r)' <=> Right(r)
                                 /\ \A copy : CopyOK(r, copy)' <=> CopyOK(r, copy)
    <2> TAKE r \in Resumes \ own
    <2>1. r \in committed' <=> r \in committed
      BY <1>1
    <2>2. Overwritten(r)' <=> Overwritten(r)
      BY <1>5, <2>1 DEF Overwritten
    <2>3. Right(r)' <=> Right(r)
      BY <1>1, <1>5, <2>2 DEF Right
    <2>4. \A copy : CopyOK(r, copy)' <=> CopyOK(r, copy)
      BY <1>1, <1>5, <2>2, <2>3 DEF CopyOK
    <2>5. QED
      BY <2>3, <2>4
  <1> HIDE DEF own
  <1>8. Texts'
    BY <1>4, <1>5 DEF SInv, Texts, Holds
  <1>9. IndexOK'
    BY <1>1, <1>5, <1>6, <1>7 DEF SInv, IndexOK
  <1>10. Copies'
    <2> SUFFICES ASSUME sweep.pc = "commit", sweep.table = "resumes", NEW s \in DOMAIN sweep.batch
                 PROVE  CopyOK(s, sweep.batch[s])'
      BY <1>1 DEF Copies
    <2>1. s \in Resumes /\ CopyOK(s, sweep.batch[s])
      BY DEF IInv, Shape, Ids, SInv, Copies
    <2>2. PICK copy : copy = sweep.batch[s]
      OBVIOUS
    <2>3. CopyOK(s, copy)'
      <3>1. CASE s \notin own
        BY <3>1, <2>1, <2>2, <1>7
      <3>2. CASE s \in own
        BY <3>2, <1>6, <2>1, <2>2 DEF CopyOK
      <3>3. QED
        BY <3>1, <3>2
    <2>4. QED
      BY <2>2, <2>3, <1>1
  <1>11. Reindexed'
    <2>1. \A s \in Resumes : Right(s) => Right(s)'
      BY <1>6, <1>7
    <2>2. QED
      BY <2>1, <1>1 DEF SInv, Reindexed
  <1>12. QED
    BY <1>8, <1>9, <1>10, <1>11 DEF SInv

LEMMA SweepStartIndex ==
    ASSUME IInv, SInv, SweepStart
    PROVE  SInv'
  <1>1. UNCHANGED <<resumes, committed, deploy, due>> /\ sweep'.pc = "read" /\ sweep'.table = "candidates"
    BY DEF SweepStart, dataVars, deployVars, Idle
  <1>2. QED
    BY <1>1, RowsKept DEF SInv, Copies, Reindexed

LEMMA SweepCrashIndex ==
    ASSUME IInv, SInv, SweepCrash
    PROVE  SInv'
  <1>1. UNCHANGED <<resumes, committed, deploy, due>> /\ sweep'.pc = "idle"
    BY DEF SweepCrash, dataVars, deployVars, Idle
  <1>2. QED
    BY <1>1, RowsKept DEF SInv, Copies, Reindexed

LEMMA SweepReadIndex ==
    ASSUME IInv, SInv, SweepRead
    PROVE  SInv'
  <1> DEFINE ids == Batch(sweep)
  <1>1. /\ sweep.pc = "read" /\ ids # {}
        /\ UNCHANGED <<resumes, committed, deploy, due>>
        /\ sweep' = [sweep EXCEPT !.pc = "commit", !.batch = [id \in ids |-> Table(sweep.table)[id]]]
    BY DEF SweepRead, dataVars, deployVars
  <1>2. SweepType
    BY DEF IInv, Shape
  <1>3. /\ sweep'.pc = "commit" /\ sweep'.kind = sweep.kind
        /\ sweep'.table = sweep.table /\ sweep'.last = sweep.last
        /\ sweep'.batch = [id \in ids |-> Table(sweep.table)[id]]
    BY <1>1, <1>2 DEF SweepType
  <1>4. ids = FirstOf(Ahead) /\ ids \subseteq Ids(sweep.table) /\ ids \subseteq Nat /\ IsFiniteSet(ids)
        /\ \A b \in ids, id \in Ahead : id <= b => id \in ids
    <2>1. ids = FirstOf(Ahead)
      BY BatchIsFirst
    <2>2. Ahead \subseteq Ids(sweep.table) /\ Ahead \subseteq Nat /\ IsFiniteSet(Ahead)
      BY AheadFinite
    <2>3. ids \subseteq Ahead
      BY <2>1 DEF FirstOf
    <2>4. \A b \in FirstOf(Ahead), id \in Ahead : id <= b => id \in FirstOf(Ahead)
      BY <2>2, FirstIds
    <2>5. IsFiniteSet(ids)
      BY <2>2, <2>3, FS_Subset
    <2>6. QED
      BY <2>1, <2>2, <2>3, <2>4, <2>5
  <1> HIDE DEF ids
  <1>5. Texts' /\ IndexOK'
    BY <1>1, RowsKept DEF SInv
  <1>6. Copies'
    <2> SUFFICES ASSUME sweep.table = "resumes", NEW r \in ids
                 PROVE  CopyOK(r, sweep.batch[r])'
      BY <1>3 DEF Copies
    <2>1. r \in Resumes /\ sweep'.batch[r] = resumes[r]
      BY <1>3, <1>4 DEF Ids, Table
    <2>2. PICK copy : copy = resumes[r]
      OBVIOUS
    <2>3. CopyOK(r, copy)
      BY <2>1, <2>2 DEF CopyOK, Right, SInv, Texts
    <2>4. CopyOK(r, copy)'
      BY <2>3, <1>1, RowsKept
    <2>5. QED
      BY <2>1, <2>2, <2>4
  <1>7. Reindexed'
    <2> SUFFICES ASSUME sweep.kind = "all", sweep.table = "resumes"
                 PROVE  /\ \A r \in Resumes : r <= sweep.last => Right(r)
                        /\ \A r \in Resumes \ ids : r <= Max(ids) => Right(r)
      BY <1>1, <1>3, RowsKept DEF Reindexed
    <2>1. \A r \in Resumes : r <= sweep.last => Right(r)
      BY <1>1 DEF SInv, Reindexed
    <2>2. ASSUME NEW r \in Resumes \ ids, r <= Max(ids) PROVE r <= sweep.last
      <3>1. Max(ids) \in ids
        BY <1>1, <1>4, MaxId
      <3>2. r \notin Ahead
        BY <2>2, <3>1, <1>4
      <3>3. r \in DOMAIN Table(sweep.table) /\ r \in Nat /\ sweep.last \in Nat
        BY TableIds, IdsFinite, EncryptionAssumption, <1>2 DEF Ids, SweepType
      <3>4. QED
        BY <3>2, <3>3 DEF Ahead
    <2>3. QED
      BY <2>1, <2>2
  <1>8. QED
    BY <1>5, <1>6, <1>7 DEF SInv

LEMMA SweepTableDoneIndex ==
    ASSUME IInv, SInv, SweepTableDone
    PROVE  SInv'
  <1>1. /\ sweep.pc = "read" /\ Batch(sweep) = {}
        /\ UNCHANGED <<resumes, committed, deploy>>
    BY DEF SweepTableDone, dataVars
  <1>2. Ahead = {}
    BY <1>1, BatchIsFirst, AheadFinite, FirstIds
  <1>3. SweepType /\ sweep.table \in {"candidates", "resumes"}
    BY DEF IInv, Shape, SweepType
  <1>4. CASE sweep.table = "candidates"
    <2>1. sweep' = [sweep EXCEPT !.table = "resumes", !.last = 0] /\ due' = due
      BY <1>4 DEF SweepTableDone
    <2>2. sweep'.pc = "read" /\ sweep'.last = 0
      BY <2>1, <1>1, <1>3 DEF SweepType
    <2>3. \A r \in Resumes : ~(r <= 0)
      BY PositiveIds
    <2>4. QED
      BY <1>1, <2>1, <2>2, <2>3, RowsKept DEF SInv, Copies, Reindexed
  <1>5. CASE sweep.table = "resumes"
    <2>1. sweep'.pc = "idle" /\ due' = Tail(due)
      BY <1>5 DEF SweepTableDone, Idle
    <2>2. Texts'
      BY <1>1, RowsKept DEF SInv
    <2>3. \/ deploy \in {2, 4}
          \/ deploy = 3 /\ due # <<>> /\ due' = <<"all">>
          \/ deploy = 3 /\ sweep.kind = "all" /\ due' = <<>>
      <3>1. CASE sweep.kind = "all"
        <4>1. deploy = 3 /\ due = <<"all">>
          BY <3>1, <1>1, SweepPhase
        <4>2. QED
          BY <4>1, <3>1, <2>1
      <3>2. CASE sweep.kind = "legacy"
        <4>1. deploy \in {2, 4} \/ (deploy = 3 /\ due = <<"legacy", "all">>)
          BY <3>2, <1>1, SweepPhase
        <4>2. CASE deploy = 3 /\ due = <<"legacy", "all">>
          BY <4>2, <2>1
        <4>3. QED
          BY <4>1, <4>2
      <3>3. QED
        BY <3>1, <3>2, <1>3 DEF SweepType
    <2>4. IndexOK'
      <3>1. CASE deploy \in {2, 4}
        BY <3>1, <1>1, RowsKept DEF SInv, IndexOK
      <3>2. CASE deploy = 3 /\ due # <<>> /\ due' = <<"all">>
        <4>1. due' # <<>>
          BY <3>2
        <4>2. QED
          BY <4>1, <3>2, <1>1, RowsKept DEF SInv, IndexOK
      <3>3. CASE deploy = 3 /\ sweep.kind = "all" /\ due' = <<>>
        <4>1. ASSUME NEW r \in Resumes PROVE r <= sweep.last
          <5>1. r \in DOMAIN Table(sweep.table) /\ r \in Nat /\ sweep.last \in Nat
            BY <1>5, TableIds, EncryptionAssumption, <1>3 DEF Ids, SweepType
          <5>2. QED
            BY <5>1, <1>2, <3>3 DEF Ahead
        <4>2. \A r \in Resumes : Right(r)
          BY <4>1, <1>1, <1>5, <3>3 DEF SInv, Reindexed
        <4>3. QED
          BY <4>2, <3>3, <1>1, RowsKept DEF IndexOK
      <3>4. QED
        BY <2>3, <3>1, <3>2, <3>3
    <2>5. QED
      BY <2>1, <2>2, <2>4 DEF SInv, Copies, Reindexed
  <1>6. QED
    BY <1>3, <1>4, <1>5

\* What the flush of a batch makes of a row: the text of the copy, and the new
\* tokens unless the copy had them already.
LEMMA FlushedResume ==
    ASSUME NEW row \in ResumeRow, NEW copy \in ResumeRow, deploy \in 2..4,
           NEW new, new = [Rewritten(row, copy, "resumes") EXCEPT !.search_tokens = NewTokens(row, copy)]
    PROVE  /\ new.raw_text = Recrypted(deploy, copy.raw_text)
           /\ new.search_tokens = NewTokens(row, copy)
  <1>1. DOMAIN row = {"raw_text", "agent_analysis", "search_tokens", "skill_analysis"}
        /\ ENCRYPTED_FIELDS["resumes"] = {"raw_text"}
    BY DEF ResumeRow, ENCRYPTED_FIELDS
  <1>2. copy.raw_text \in Cell \union {NULL}
    BY TextCellIsCell DEF ResumeRow
  <1>3. PICK text : text = encrypt_text(Keyring[deploy], Value(copy.raw_text))
                    /\ text = Recrypted(deploy, copy.raw_text) /\ text \in Cell \union {NULL}
                    /\ (copy.raw_text # NULL => text \in Cell)
    BY <1>2, EncryptKey, RecryptedType
  <1>4. PICK tokens : tokens = NewTokens(row, copy)
    OBVIOUS
  <1>5. PICK g : g = Rewritten(row, copy, "resumes")
    OBVIOUS
  <1>6. g = [f \in DOMAIN row |-> IF f = "raw_text" THEN text ELSE row[f]]
    BY <1>1, <1>3, <1>5 DEF Rewritten
  <1>7. new = [g EXCEPT !.search_tokens = tokens]
    BY <1>4, <1>5
  <1>8. new.raw_text = text /\ new.search_tokens = tokens
    BY <1>1, <1>6, <1>7
  <1>9. QED
    BY <1>3, <1>4, <1>8

LEMMA RecryptedValue ==
    ASSUME NEW d \in 2..4, NEW cell \in Cell \union {NULL}
    PROVE  /\ Recrypted(d, cell) = NULL <=> cell = NULL
           /\ Value(Recrypted(d, cell)) = Value(cell)
  <1>1. CASE cell = NULL
    BY <1>1 DEF Recrypted
  <1>2. CASE cell # NULL
    <2>1. Recrypted(d, cell) \in Cell
      BY <1>2, RecryptedType
    <2>2. Recrypted(d, cell) # NULL
      BY <2>1, NullAssumption
    <2>3. Recrypted(d, cell).val = cell.val
      BY <1>2 DEF Recrypted
    <2>4. QED
      BY <1>2, <2>2, <2>3 DEF Value
  <1>3. QED
    BY <1>1, <1>2

LEMMA SweepCommitIndex ==
    ASSUME IInv, SInv, SweepCommit
    PROVE  SInv'
  <1>1. /\ sweep.pc = "commit"
        /\ UNCHANGED <<committed, deploy, due>>
        /\ sweep' = [sweep EXCEPT !.pc = "read", !.last = Max(DOMAIN sweep.batch), !.batch = <<>>]
    BY DEF SweepCommit, deployVars
  <1>2. /\ SweepType /\ sweep.table \in {"candidates", "resumes"}
        /\ resumes \in [Resumes -> ResumeRow]
        /\ DOMAIN sweep.batch \subseteq Ids(sweep.table)
        /\ \A id \in DOMAIN sweep.batch : sweep.batch[id] \in RowOf(sweep.table)
    BY <1>1 DEF IInv, Shape, SweepType
  <1>3. PICK copies : copies = sweep.batch
    OBVIOUS
  <1>4. PICK last : last = Max(DOMAIN copies)
    OBVIOUS
  <1>5. sweep'.pc = "read" /\ sweep'.kind = sweep.kind /\ sweep'.table = sweep.table /\ sweep'.last = last
    <2>1. sweep' = [sweep EXCEPT !.pc = "read", !.last = last, !.batch = <<>>]
      BY <1>1, <1>3, <1>4
    <2>2. QED
      BY <2>1, <1>2 DEF SweepType
  <1>6. deploy \in 2..4
    BY <1>1, SweepPhase
  <1>7. CASE sweep.table = "candidates"
    <2>1. UNCHANGED resumes
      BY <1>7 DEF SweepCommit
    <2>2. QED
      BY <1>1, <1>5, <1>7, <2>1, RowsKept DEF SInv, Copies, Reindexed
  <1>8. CASE sweep.table = "resumes"
    <2>1. resumes' = [r \in Resumes |->
                        IF r \in DOMAIN copies
                        THEN [Rewritten(resumes[r], copies[r], "resumes") EXCEPT
                                !.search_tokens = NewTokens(resumes[r], copies[r])]
                        ELSE resumes[r]]
      BY <1>3, <1>8 DEF SweepCommit
    <2>2. \A r \in DOMAIN copies : r \in Resumes /\ copies[r] \in ResumeRow /\ CopyOK(r, copies[r])
      BY <1>1, <1>2, <1>3, <1>8 DEF Ids, RowOf, SInv, Copies
    <2>3. \A r \in Resumes \ DOMAIN copies :
             resumes'[r] = resumes[r] /\ (Right(r)' <=> Right(r))
      <3> TAKE r \in Resumes \ DOMAIN copies
      <3>1. resumes'[r] = resumes[r]
        BY <2>1
      <3>2. QED
        BY <1>1, <3>1 DEF Right, Overwritten
    <2>4. ASSUME NEW r \in DOMAIN copies PROVE Right(r)' /\ Holds(resumes'[r].raw_text, r)
      <3>1. PICK row, copy : row = resumes[r] /\ copy = copies[r]
        OBVIOUS
      <3>2. row \in ResumeRow /\ copy \in ResumeRow /\ CopyOK(r, copy) /\ r \in Resumes
        BY <1>2, <2>2, <3>1
      <3>3. PICK new : new = resumes'[r]
        OBVIOUS
      <3>4. /\ new.search_tokens = NewTokens(row, copy)
            /\ new.raw_text = Recrypted(deploy, copy.raw_text)
            /\ new.raw_text = NULL <=> copy.raw_text = NULL
            /\ Value(new.raw_text) = Value(copy.raw_text)
        <4>1. new = [Rewritten(row, copy, "resumes") EXCEPT !.search_tokens = NewTokens(row, copy)]
          BY <2>1, <3>1, <3>2, <3>3
        <4>2. QED
          <5>1. new.raw_text = Recrypted(deploy, copy.raw_text)
            BY <1>6, <3>2, <4>1, FlushedResume
          <5>2. new.search_tokens = NewTokens(row, copy)
            BY <1>6, <3>2, <4>1, FlushedResume
          <5>3. copy.raw_text \in Cell \union {NULL}
            BY <3>2, TextCellIsCell DEF ResumeRow
          <5>4. (new.raw_text = NULL <=> copy.raw_text = NULL) /\ Value(new.raw_text) = Value(copy.raw_text)
            BY <1>6, <5>1, <5>3, RecryptedValue
          <5>5. QED
            BY <5>1, <5>2, <5>3, <5>4
      <3>5. Holds(new.raw_text, r)
        BY <3>2, <3>4 DEF CopyOK, Holds, Recrypted
      <3>6. PICK tokens : tokens = blind_index_tokens(Keyring[deploy].index, Value(copy.raw_text))
        OBVIOUS
      <3>7. new.search_tokens = IF tokens = copy.search_tokens THEN row.search_tokens ELSE tokens
        BY <3>4, <3>6 DEF NewTokens
      <3>8. SUFFICES ASSUME ~Overwritten(r)', new.search_tokens # tokens PROVE FALSE
        BY <1>1, <3>3, <3>4, <3>5, <3>6 DEF Right
      <3>9. tokens = copy.search_tokens /\ row.search_tokens # tokens
        BY <3>7, <3>8
      <3>10. (r \in committed) = (copy.raw_text # NULL)
        BY <1>1, <3>3, <3>4, <3>8 DEF Overwritten
      <3>11. ~Overwritten(r) /\ (row.raw_text = NULL <=> copy.raw_text = NULL)
        BY <3>1, <3>2, <3>10 DEF CopyOK, Overwritten
      <3>12. CASE copy.raw_text # NULL
        <4>1. Right(r)
          BY <3>1, <3>2, <3>6, <3>9, <3>11, <3>12 DEF CopyOK
        <4>2. Value(row.raw_text) = TextOf[r] /\ Value(copy.raw_text) = TextOf[r]
          BY <3>1, <3>2, <3>11, <3>12 DEF Value, SInv, Texts, Holds, CopyOK
        <4>3. QED
          BY <3>1, <3>6, <3>9, <3>11, <4>1, <4>2 DEF Right
      <3>13. CASE copy.raw_text = NULL
        <4>1. tokens = NULL /\ Value(row.raw_text) = NULL
          BY <3>6, <3>11, <3>13, NullTokens DEF Value
        <4>2. \A x : blind_index_tokens(x, Value(row.raw_text)) = NULL
          BY <4>1, NullTokens
        <4>3. Right(r) \/ row.search_tokens = blind_index_tokens("b1", Value(row.raw_text))
          BY <1>6, <3>1, <3>2, <3>11, <3>13 DEF SInv, IndexOK
        <4>4. QED
          BY <3>1, <3>9, <3>11, <4>1, <4>2, <4>3 DEF Right
      <3>14. QED
        BY <3>12, <3>13
    <2>5. Texts'
      BY <2>3, <2>4 DEF SInv, Texts
    <2>6. IndexOK'
      BY <1>1, <2>3, <2>4 DEF SInv, IndexOK
    <2>7. Reindexed'
      <3> SUFFICES ASSUME sweep.kind = "all" PROVE \A r \in Resumes : r <= last => Right(r)'
        BY <1>5 DEF Reindexed
      <3>1. \A r \in Resumes \ DOMAIN copies : r <= last => Right(r)
        BY <1>1, <1>3, <1>4, <1>8 DEF SInv, Reindexed
      <3>2. QED
        BY <3>1, <2>3, <2>4
    <2>8. QED
      BY <1>5, <2>5, <2>6, <2>7 DEF SInv, Copies
  <1>9. QED
    BY <1>2, <1>7, <1>8

LEMMA StepIndex ==
    ASSUME IInv, SInv, [EncNext]_encVars
    PROVE  SInv'
  <1>1. CASE upgrade
    BY <1>1, upgradeIndex
  <1>2. CASE downgrade
    BY <1>2, downgradeIndex
  <1>3. CASE Deploy
    BY <1>3, DeployIndex
  <1>4. ASSUME NEW i \in Instances, Roll(i) PROVE SInv'
    <2>1. UNCHANGED <<resumes, committed, deploy, due, sweep>>
      BY <1>4 DEF Roll, dataVars
    <2>2. QED
      BY <2>1, UntouchedIndex
  <1>5. ASSUME NEW i \in Instances, NEW c \in Candidates, NEW f \in {"first_name", "phone"},
               UpdateProfile(i, c, f)
        PROVE  SInv'
    <2>1. UNCHANGED <<resumes, committed, deploy, due, sweep>>
      BY <1>5 DEF UpdateProfile, deployVars
    <2>2. QED
      BY <2>1, UntouchedIndex
  <1>6. ASSUME NEW i \in Instances, NEW r \in Resumes, ProcessResume(i, r) PROVE SInv'
    BY <1>6, ProcessResumeIndex
  <1>7. ASSUME NEW i \in Instances, NEW c \in Candidates, Anonymise(i, c) PROVE SInv'
    BY <1>7, AnonymiseIndex
  <1>8. CASE SweepStart
    BY <1>8, SweepStartIndex
  <1>9. CASE SweepRead
    BY <1>9, SweepReadIndex
  <1>10. CASE SweepTableDone
    BY <1>10, SweepTableDoneIndex
  <1>11. CASE SweepCommit
    BY <1>11, SweepCommitIndex
  <1>12. CASE SweepCrash
    BY <1>12, SweepCrashIndex
  <1>13. CASE UNCHANGED encVars
    <2>1. UNCHANGED <<resumes, committed, deploy, due, sweep>>
      BY <1>13 DEF encVars
    <2>2. QED
      BY <2>1, UntouchedIndex
  <1>14. QED
    BY <1>1, <1>2, <1>3, <1>4, <1>5, <1>6, <1>7, <1>8, <1>9, <1>10, <1>11, <1>12, <1>13 DEF EncNext

(***************************************************************************)
(* Search texts: what the loops of search_query.py compute                 *)
(***************************************************************************)

\* g is defined by recursion: from base, by a step from each value to the next.
ByRecursion(g, N, S, base, step) ==
    /\ g \in [0..N -> S]
    /\ g[0] = base
    /\ \A n \in 1..N : g[n] = step[<<n, g[n - 1]>>]

\* A function defined by recursion over 0..N exists.
LEMMA Recursion ==
    ASSUME NEW N \in Nat, NEW S, NEW base \in S, NEW step \in [(1..N) \X S -> S]
    PROVE  \E g : ByRecursion(g, N, S, base, step)
  <1> DEFINE Ok(m) == \E g \in [0..m -> S] : g[0] = base /\ \A n \in 1..m : g[n] = step[<<n, g[n-1]>>]
             Bad == {m \in 0..N : ~Ok(m)}
  <1>1. SUFFICES ASSUME Bad # {} PROVE FALSE
    <2>1. SUFFICES ASSUME Bad = {} PROVE \E g : ByRecursion(g, N, S, base, step)
      OBVIOUS
    <2>2. Ok(N)
      <3>1. N \in 0..N
        OBVIOUS
      <3>2. N \notin Bad
        <4> HIDE DEF Bad
        <4>1. QED
          BY <2>1
      <3>3. QED
        BY <3>1, <3>2
    <2>3. QED
      BY <2>2 DEF ByRecursion
  <1>2. PICK m \in Bad : \A n \in Bad : m <= n
    <2>1. Bad \subseteq Nat
      OBVIOUS
    <2>2. QED
      BY <1>1, <2>1, LeastId
  <1>3. m # 0
    <2>1. Ok(0)
      <3> DEFINE g == [n \in 0..0 |-> base]
      <3>1. g \in [0..0 -> S] /\ g[0] = base /\ \A n \in 1..0 : g[n] = step[<<n, g[n-1]>>]
        OBVIOUS
      <3>2. QED
        BY <3>1
    <2>2. QED
      BY <2>1
  <1>4. m - 1 \in 0..N /\ Ok(m - 1)
    BY <1>2, <1>3
  <1>5. PICK g \in [0..(m-1) -> S] : g[0] = base /\ \A n \in 1..(m-1) : g[n] = step[<<n, g[n-1]>>]
    BY <1>4
  <1> DEFINE h == [n \in 0..m |-> IF n = m THEN step[<<m, g[m-1]>>] ELSE g[n]]
  <1>6. m \in 1..N /\ g[m-1] \in S
    BY <1>3
  <1>7. h \in [0..m -> S]
    BY <1>6
  <1>8. h[0] = base /\ \A n \in 1..m : h[n] = step[<<n, h[n-1]>>]
    <2>1. h[0] = base
      BY <1>5, <1>6
    <2>2. ASSUME NEW n \in 1..m PROVE h[n] = step[<<n, h[n-1]>>]
      <3>1. h[n-1] = g[n-1]
        BY <1>6
      <3>2. CASE n = m
        BY <3>1, <3>2
      <3>3. CASE n # m
        BY <3>1, <3>3, <1>5, <1>6
      <3>4. QED
        BY <3>2, <3>3
    <2>3. QED
      BY <2>1, <2>2
  <1>9. Ok(m)
    BY <1>7, <1>8
  <1>10. QED
    BY <1>9

\* Two functions that start alike and go on alike are alike.
Alike(f, g, lo, N) ==
    /\ f[lo] = g[lo]
    /\ \A n \in lo..N : n # lo /\ f[n - 1] = g[n - 1] => f[n] = g[n]
Same(f, g, lo, N) == \A n \in lo..N : f[n] = g[n]

LEMMA Agree ==
    ASSUME NEW lo \in Nat, NEW N \in Nat, NEW f, NEW g, Alike(f, g, lo, N)
    PROVE  Same(f, g, lo, N)
  <1> DEFINE Bad == {n \in lo..N : f[n] # g[n]}
  <1>1. SUFFICES ASSUME Bad # {} PROVE FALSE
    BY DEF Same
  <1>2. PICK m \in Bad : \A n \in Bad : m <= n
    <2>1. Bad \subseteq Nat
      OBVIOUS
    <2>2. QED
      BY <1>1, <2>1, LeastId
  <1>3. m # lo /\ m \in lo..N /\ f[m] # g[m]
    BY DEF Alike
  <1>4. m - 1 \in lo..N /\ ~(m <= m - 1)
    BY <1>3
  <1>5. f[m - 1] = g[m - 1]
    BY <1>2, <1>4
  <1>6. QED
    BY <1>3, <1>5 DEF Alike

Term(W) == [op : {"&", "|"}, words : SUBSET W]

\* The parser returns a list of terms.
LEMMA ParsedTerms ==
    ASSUME NEW q \in Seq([op : {"&", "|"}, words : SUBSET DOMAIN SplitWord])
    PROVE  \E W : parse_search_query(q) \in Seq(Term(W))
  <1> DEFINE N == Len(q)
             words(n) == resume_search_words(q[n].words)
             Eq(t) == t = [n \in 0..N |-> IF n = 0 THEN <<>>
                                         ELSE IF words(n) = {} THEN t[n - 1]
                                         ELSE Append(t[n - 1], [op |-> q[n].op, words |-> words(n)])]
  <1>1. N \in Nat /\ \A n \in 1..N : q[n].op \in {"&", "|"}
    <2>1. PICK R : R = [op : {"&", "|"}, words : SUBSET DOMAIN SplitWord]
      OBVIOUS
    <2>2. q \in Seq(R)
      BY <2>1
    <2>3. N \in Nat /\ \A n \in 1..N : q[n] \in R
      BY <2>2
    <2>4. QED
      BY <2>1, <2>3
  <1>2. PICK W : W = UNION {words(n) : n \in 1..N}
    OBVIOUS
  <1>3. PICK S : S = Seq(Term(W))
    OBVIOUS
  <1>4. ASSUME NEW n \in 1..N PROVE [op |-> q[n].op, words |-> words(n)] \in Term(W)
    <2>1. words(n) \in SUBSET W
      BY <1>2
    <2>2. q[n].op \in {"&", "|"}
      BY <1>1
    <2> HIDE DEF words
    <2>3. QED
      BY <2>1, <2>2 DEF Term
  <1> HIDE DEF words
  <1>5. <<>> \in S
    BY <1>3
  <1> DEFINE step == [p \in (1..N) \X S |->
                        IF words(p[1]) = {} THEN p[2]
                        ELSE Append(p[2], [op |-> q[p[1]].op, words |-> words(p[1])])]
  <1>6. step \in [(1..N) \X S -> S]
    <2>1. ASSUME NEW p \in (1..N) \X S
          PROVE  (IF words(p[1]) = {} THEN p[2]
                  ELSE Append(p[2], [op |-> q[p[1]].op, words |-> words(p[1])])) \in S
      <3>1. p[1] \in 1..N /\ p[2] \in S
        OBVIOUS
      <3>2. [op |-> q[p[1]].op, words |-> words(p[1])] \in Term(W)
        BY <3>1, <1>4
      <3>3. QED
        BY <3>1, <3>2, <1>3
    <2>2. QED
      BY <2>1
  <1>7. PICK g : g \in [0..N -> S] /\ g[0] = <<>> /\ \A n \in 1..N : g[n] = step[<<n, g[n - 1]>>]
    <2>1. \E g : ByRecursion(g, N, S, <<>>, step)
      <3> HIDE DEF step, N
      <3>1. QED
        BY <1>1, <1>5, <1>6, Recursion
    <2>2. QED
      BY <2>1 DEF ByRecursion
  <1>8. ASSUME NEW n \in 1..N
        PROVE  g[n] = IF words(n) = {} THEN g[n - 1]
                      ELSE Append(g[n - 1], [op |-> q[n].op, words |-> words(n)])
    <2>1. g[n - 1] \in S
      BY <1>1, <1>7
    <2>2. <<n, g[n - 1]>> \in (1..N) \X S
      BY <2>1
    <2>3. QED
      BY <2>2, <1>7
  <1>9. Eq(g)
    <2>1. \A n \in 0..N : g[n] = IF n = 0 THEN <<>>
                                 ELSE IF words(n) = {} THEN g[n - 1]
                                 ELSE Append(g[n - 1], [op |-> q[n].op, words |-> words(n)])
      <3> TAKE n \in 0..N
      <3>1. CASE n = 0
        BY <3>1, <1>7
      <3>2. CASE n # 0
        <4>1. n \in 1..N
          BY <3>2, <1>1
        <4>2. QED
          BY <3>2, <4>1, <1>8
      <3>3. QED
        BY <3>1, <3>2
    <2>2. g = [n \in 0..N |-> g[n]]
      BY <1>7
    <2>3. QED
      BY <2>1, <2>2
  <1>10. PICK t : t = (CHOOSE x : Eq(x)) /\ Eq(t)
    BY <1>9
  <1>11. parse_search_query(q) = t[N]
    BY <1>10 DEF parse_search_query, words
  <1>12. \A n \in 0..N : t[n] = g[n]
    <2>1. t[0] = g[0]
      <3>1. 0 \in 0..N
        BY <1>1
      <3>2. t[0] = <<>>
        BY <3>1, <1>10
      <3>3. QED
        BY <3>2, <1>7
    <2>2. ASSUME NEW n \in 0..N, n # 0, t[n - 1] = g[n - 1] PROVE t[n] = g[n]
      <3>1. n \in 1..N
        BY <1>1, <2>2
      <3>2. t[n] = IF words(n) = {} THEN t[n - 1]
                   ELSE Append(t[n - 1], [op |-> q[n].op, words |-> words(n)])
        BY <2>2, <1>10
      <3>3. QED
        BY <3>1, <3>2, <2>2, <1>8
    <2>3. Alike(t, g, 0, N)
      BY <2>1, <2>2 DEF Alike
    <2>4. Same(t, g, 0, N)
      BY <2>3, <1>1, Agree
    <2>5. QED
      BY <2>4 DEF Same
  <1>13. t[N] \in S
    BY <1>1, <1>7, <1>12
  <1>14. QED
    BY <1>3, <1>11, <1>13

\* Some term that starts an alternative holds, and every conjunct after it, among
\* the first n terms; H[n] tells whether the n-th one holds.
Matching(terms, H, n) ==
    \E j \in 1..n :
        /\ j = 1 \/ terms[j].op = "|"
        /\ H[j]
        /\ \A l \in j + 1 .. n : terms[l].op = "&" => H[l]

LEMMA MatchingStep ==
    ASSUME NEW terms, NEW H, NEW n \in Nat, n > 0, terms[n].op \in {"&", "|"}
    PROVE  /\ Matching(terms, H, 1) <=> H[1]
           /\ n > 1 /\ terms[n].op = "|" =>
                (Matching(terms, H, n) <=> (Matching(terms, H, n - 1) \/ H[n]))
           /\ n > 1 /\ terms[n].op # "|" =>
                (Matching(terms, H, n) <=> (Matching(terms, H, n - 1) /\ H[n]))
  <1>1. Matching(terms, H, 1) <=> H[1]
    <2>1. 1..1 = {1} /\ 2..1 = {} /\ 1 + 1 = 2
      OBVIOUS
    <2>2. QED
      BY <2>1 DEF Matching
  <1>2. ASSUME n > 1, Matching(terms, H, n)
        PROVE  IF terms[n].op = "|" THEN Matching(terms, H, n - 1) \/ H[n]
               ELSE Matching(terms, H, n - 1) /\ H[n]
    <2>1. PICK j \in 1..n : /\ j = 1 \/ terms[j].op = "|"
                            /\ H[j]
                            /\ \A l \in j + 1 .. n : terms[l].op = "&" => H[l]
      BY <1>2 DEF Matching
    <2>2. CASE j = n
      BY <2>1, <2>2, <1>2
    <2>3. CASE j # n
      <3>1. j \in 1..(n - 1) /\ n \in j + 1 .. n /\ \A l \in j + 1 .. (n - 1) : l \in j + 1 .. n
        BY <2>3, <1>2
      <3>2. Matching(terms, H, n - 1)
        BY <3>1, <2>1 DEF Matching
      <3>3. terms[n].op # "|" => H[n]
        BY <3>1, <2>1
      <3>4. QED
        BY <3>2, <3>3
    <2>4. QED
      BY <2>2, <2>3
  <1>3. ASSUME n > 1, IF terms[n].op = "|" THEN Matching(terms, H, n - 1) \/ H[n]
                      ELSE Matching(terms, H, n - 1) /\ H[n]
        PROVE  Matching(terms, H, n)
    <2>1. CASE terms[n].op = "|" /\ H[n]
      <3>1. n \in 1..n /\ n + 1 .. n = {}
        OBVIOUS
      <3>2. QED
        BY <2>1, <3>1 DEF Matching
    <2>2. CASE Matching(terms, H, n - 1) /\ (terms[n].op = "|" \/ H[n])
      <3>1. PICK j \in 1..(n - 1) : /\ j = 1 \/ terms[j].op = "|"
                                    /\ H[j]
                                    /\ \A l \in j + 1 .. (n - 1) : terms[l].op = "&" => H[l]
        BY <2>2 DEF Matching
      <3>2. j \in 1..n /\ \A l \in j + 1 .. n : l = n \/ l \in j + 1 .. (n - 1)
        BY <1>3
      <3>3. \A l \in j + 1 .. n : terms[l].op = "&" => H[l]
        BY <3>1, <3>2, <2>2
      <3>4. QED
        BY <3>1, <3>2, <3>3 DEF Matching
    <2>3. QED
      BY <2>1, <2>2, <1>3
  <1>4. QED
    BY <1>1, <1>2, <1>3

\* The combination of the terms from left to right says the same.
LEMMA CombinedMatches ==
    ASSUME NEW q, NEW index, NEW tokens, NEW W,
           parse_search_query(q) \in Seq(Term(W)), parse_search_query(q) # <<>>,
           NEW H, H = [n \in 1..Len(parse_search_query(q)) |->
                         HoldsAll(tokens, index, parse_search_query(q)[n].words)]
    PROVE  resume_blind_index_condition(q, index, tokens)
             = Matching(parse_search_query(q), H, Len(parse_search_query(q)))
  <1>1. PICK terms : terms = parse_search_query(q)
    OBVIOUS
  <1>2. PICK L : L = Len(terms)
    OBVIOUS
  <1>3. L \in Nat /\ L > 0 /\ \A n \in 1..L : terms[n].op \in {"&", "|"}
    <2>1. PICK R : R = Term(W)
      OBVIOUS
    <2>2. terms \in Seq(R) /\ terms # <<>>
      BY <1>1, <2>1
    <2>3. L \in Nat /\ L > 0 /\ \A n \in 1..L : terms[n] \in R
      BY <1>2, <2>2
    <2>4. QED
      BY <2>1, <2>3 DEF Term
  <1> DEFINE holds(n) == HoldsAll(tokens, index, terms[n].words)
             Eq(x) == x = [n \in 1..L |-> IF n = 1 THEN holds(1)
                                        ELSE IF terms[n].op = "|" THEN x[n - 1] \/ holds(n)
                                        ELSE x[n - 1] /\ holds(n)]
             c == [n \in 1..L |-> Matching(terms, H, n)]
  <1>4. \A n \in 1..L : H[n] = holds(n) /\ H[n] \in BOOLEAN
    BY <1>1, <1>2 DEF HoldsAll
  <1> HIDE DEF holds
  <1>5. ASSUME NEW n \in 1..L
        PROVE  c[n] = IF n = 1 THEN holds(1)
                      ELSE IF terms[n].op = "|" THEN c[n - 1] \/ holds(n)
                      ELSE c[n - 1] /\ holds(n)
    <2>1. /\ n \in Nat /\ n > 0 /\ holds(n) \in BOOLEAN /\ c[n] \in BOOLEAN
          /\ terms[n].op \in {"&", "|"} /\ H[n] = holds(n)
          /\ c[n] = Matching(terms, H, n)
      <3>1. n \in Nat /\ n > 0 /\ holds(n) \in BOOLEAN /\ terms[n].op \in {"&", "|"} /\ H[n] = holds(n)
        <4> HIDE DEF c
        <4>1. n \in Nat /\ n > 0 /\ terms[n].op \in {"&", "|"}
          BY <1>3
        <4>2. H[n] = holds(n) /\ holds(n) \in BOOLEAN
          BY <1>4, Zenon
        <4>3. QED
          BY <4>1, <4>2
      <3>2. c[n] = Matching(terms, H, n)
        OBVIOUS
      <3>3. Matching(terms, H, n) \in BOOLEAN
        BY DEF Matching
      <3> HIDE DEF c
      <3>4. QED
        BY <3>1, <3>2, <3>3
    <2>2. CASE n = 1
      <3>1. c[n] <=> holds(1)
        BY <2>1, <2>2, MatchingStep
      <3> HIDE DEF c
      <3>2. CASE c[n]
        <4>1. c[n] = TRUE /\ holds(1) = TRUE
          BY <3>1, <3>2, <2>1, <2>2, Zenon
        <4>2. QED
          BY <4>1, <2>2
      <3>3. CASE ~c[n]
        <4>1. c[n] = FALSE /\ holds(1) = FALSE
          BY <3>1, <3>3, <2>1, <2>2, Zenon
        <4>2. QED
          BY <4>1, <2>2
      <3>4. QED
        BY <3>2, <3>3
    <2>3. CASE n # 1
      <3>1. n > 1 /\ n - 1 \in 1..L
        BY <2>3, <1>3
      <3>2. c[n - 1] = Matching(terms, H, n - 1)
        BY <3>1
      <3>3. CASE terms[n].op = "|"
        <4>1. c[n] <=> (c[n - 1] \/ holds(n))
          BY <2>1, <3>1, <3>2, <3>3, MatchingStep
        <4> HIDE DEF c
        <4>2. c[n] = (c[n - 1] \/ holds(n))
          <5>1. CASE c[n]
            <6>1. c[n] = TRUE /\ (c[n - 1] \/ holds(n)) = TRUE
              BY <5>1, <4>1, <2>1, Zenon
            <6>2. QED
              BY <6>1
          <5>2. CASE ~c[n]
            <6>1. c[n] = FALSE /\ (c[n - 1] \/ holds(n)) = FALSE
              BY <5>2, <4>1, <2>1, Zenon
            <6>2. QED
              BY <6>1
          <5>3. QED
            BY <5>1, <5>2
        <4>3. QED
          BY <4>2, <2>3, <3>3
      <3>4. CASE terms[n].op # "|"
        <4>1. c[n] <=> (c[n - 1] /\ holds(n))
          BY <2>1, <3>1, <3>2, <3>4, MatchingStep
        <4> HIDE DEF c
        <4>2. c[n] = (c[n - 1] /\ holds(n))
          <5>1. CASE c[n]
            <6>1. c[n] = TRUE /\ (c[n - 1] /\ holds(n)) = TRUE
              BY <5>1, <4>1, <2>1, Zenon
            <6>2. QED
              BY <6>1
          <5>2. CASE ~c[n]
            <6>1. c[n] = FALSE /\ (c[n - 1] /\ holds(n)) = FALSE
              BY <5>2, <4>1, <2>1, Zenon
            <6>2. QED
              BY <6>1
          <5>3. QED
            BY <5>1, <5>2
        <4>3. QED
          BY <4>2, <2>3, <3>4
      <3>5. QED
        BY <3>3, <3>4
    <2>4. QED
      BY <2>2, <2>3
  <1>6. Eq(c)
    BY <1>5
  <1>7. PICK x : x = (CHOOSE y : Eq(y)) /\ Eq(x)
    BY <1>6
  <1>8. resume_blind_index_condition(q, index, tokens) = x[L]
    BY <1>1, <1>2, <1>7 DEF resume_blind_index_condition, holds
  <1>9. Same(x, c, 1, L)
    <2>1. x[1] = c[1]
      <3>1. 1 \in 1..L
        BY <1>3
      <3>2. x[1] = holds(1)
        BY <3>1, <1>7
      <3>3. c[1] = holds(1)
        BY <3>1, <1>5
      <3>4. QED
        BY <3>2, <3>3
    <2>2. ASSUME NEW n \in 1..L, n # 1, x[n - 1] = c[n - 1] PROVE x[n] = c[n]
      <3>1. x[n] = IF terms[n].op = "|" THEN x[n - 1] \/ holds(n) ELSE x[n - 1] /\ holds(n)
        BY <2>2, <1>7
      <3>2. c[n] = IF terms[n].op = "|" THEN c[n - 1] \/ holds(n) ELSE c[n - 1] /\ holds(n)
        BY <2>2, <1>5
      <3> HIDE DEF c
      <3>3. QED
        BY <2>2, <3>1, <3>2
    <2> HIDE DEF c
    <2>3. Alike(x, c, 1, L)
      BY <2>1, <2>2 DEF Alike
    <2>4. QED
      BY <2>3, <1>3, Agree
  <1>10. L \in 1..L
    BY <1>3
  <1>11. x[L] = c[L]
    BY <1>9, <1>10 DEF Same
  <1>12. c[L] = Matching(terms, H, L)
    BY <1>10
  <1> HIDE DEF c
  <1>13. QED
    BY <1>1, <1>2, <1>8, <1>11, <1>12

\* On the tokens of a text the blind index finds the words of the text, and on
\* a NULL column nothing.
LEMMA TokensHold ==
    ASSUME NEW x, NEW words, NEW text, text # NULL,
           blind_index_tokens(x, text) # NULL
    PROVE  HoldsAll(blind_index_tokens(x, text), x, words) <=> words \subseteq resume_search_words(text)
  <1>1. PICK V : V = resume_search_words(text)
    OBVIOUS
  <1>2. blind_index_tokens(x, text) = {<<x, w>> : w \in V}
    BY <1>1 DEF blind_index_tokens, blind_index_token
  <1>3. {<<x, w>> : w \in words} \subseteq {<<x, w>> : w \in V} <=> words \subseteq V
    <2>1. ASSUME {<<x, w>> : w \in words} \subseteq {<<x, w>> : w \in V}, NEW w \in words
          PROVE  w \in V
      <3>1. PICK v \in V : <<x, w>> = <<x, v>>
        <4>1. <<x, w>> \in {<<x, u>> : u \in words}
          OBVIOUS
        <4>2. <<x, w>> \in {<<x, u>> : u \in V}
          BY <4>1, <2>1
        <4>3. QED
          BY <4>2
      <3>2. QED
        BY <3>1
    <2>2. ASSUME words \subseteq V
          PROVE  {<<x, w>> : w \in words} \subseteq {<<x, w>> : w \in V}
      BY <2>2
    <2>3. QED
      BY <2>1, <2>2
  <1>4. QED
    BY <1>1, <1>2, <1>3 DEF HoldsAll, blind_index_token

\* The search finds a row with the right tokens if and only if its text matches.
LEMMA ConditionExact ==
    ASSUME NEW f \in Searches, parse_search_query(f.q) # <<>>, NEW x, NEW text, NEW tokens,
           tokens = blind_index_tokens(x, text),
           text # NULL => tokens # NULL
    PROVE  resume_blind_index_condition(f.q, x, tokens)
             = (text # NULL /\ TextMatches(f.q, resume_search_words(text)))
  <1>1. PICK terms : terms = parse_search_query(f.q)
    OBVIOUS
  <1>2. PICK W : parse_search_query(f.q) \in Seq(Term(W))
    BY ParsedTerms, SearchAssumption
  <1>3. PICK L : L = Len(terms)
    OBVIOUS
  <1>4. PICK H : H = [n \in 1..L |-> HoldsAll(tokens, x, terms[n].words)]
    OBVIOUS
  <1>5. resume_blind_index_condition(f.q, x, tokens) = Matching(terms, H, L)
    BY <1>1, <1>2, <1>3, <1>4, CombinedMatches
  <1>6. DOMAIN terms = 1..L /\ L \in Nat
    <2>1. PICK R : R = Term(W)
      OBVIOUS
    <2>2. terms \in Seq(R)
      BY <1>1, <1>2, <2>1
    <2>3. QED
      BY <1>3, <2>2
  <1>7. CASE text = NULL
    <2>1. tokens = NULL
      BY <1>7, NullTokens
    <2>2. \A n \in 1..L : ~H[n]
      BY <1>4, <2>1 DEF HoldsAll
    <2>3. ~Matching(terms, H, L)
      BY <2>2 DEF Matching
    <2>4. Matching(terms, H, L) = FALSE
      BY <2>3 DEF Matching
    <2>5. QED
      BY <1>5, <1>7, <2>4
  <1>8. CASE text # NULL
    <2>1. PICK V : V = resume_search_words(text)
      OBVIOUS
    <2>2. \A n \in 1..L : H[n] <=> terms[n].words \subseteq V
      BY <1>4, <1>8, <2>1, TokensHold
    <2>3. TextMatches(f.q, V) <=>
            \E j \in 1..L :
                /\ j = 1 \/ terms[j].op = "|"
                /\ terms[j].words \subseteq V
                /\ \A l \in j + 1 .. L : terms[l].op = "&" => terms[l].words \subseteq V
      BY <1>1, <1>3, <1>6 DEF TextMatches
    <2>4. \A j \in 1..L : \A l \in j + 1 .. L : l \in 1..L
      BY <1>6
    <2>5. Matching(terms, H, L) <=> TextMatches(f.q, V)
      BY <2>2, <2>3, <2>4 DEF Matching
    <2>6. Matching(terms, H, L) = TextMatches(f.q, V)
      BY <2>5 DEF Matching, TextMatches
    <2>7. TextMatches(f.q, V) = (text # NULL /\ TextMatches(f.q, V))
      BY <1>8 DEF TextMatches
    <2>8. QED
      BY <1>5, <2>1, <2>6, <2>7
  <1>9. QED
    BY <1>7, <1>8

\* Once no sweep is due every row that none overwrote has the right tokens.
LEMMA SettledRows ==
    ASSUME IInv, SInv, deploy > 1, due = <<>>, NEW r \in Resumes, ~Overwritten(r)
    PROVE  /\ resumes[r].search_tokens = blind_index_tokens(Keyring[deploy].index, Value(resumes[r].raw_text))
           /\ Value(resumes[r].raw_text) # NULL <=> r \in committed
           /\ r \in committed => Value(resumes[r].raw_text) = TextOf[r]
           /\ r \in committed => resumes[r].search_tokens # NULL
  <1>1. deploy \in 2..4
    BY DEF IInv, Shape
  <1>2. Right(r)
    <2>1. CASE deploy = 2
      <3>1. resumes[r].raw_text = NULL \/ resumes[r].raw_text.key = "k1"
        BY <2>1, ResumeCells DEF CellIn, Allowed, KeyOf
      <3>2. QED
        BY <2>1, <3>1 DEF SInv, IndexOK, Plain
    <2>2. CASE deploy # 2
      BY <2>2, <1>1 DEF SInv, IndexOK
    <2>3. QED
      BY <2>1, <2>2
  <1>3. Holds(resumes[r].raw_text, r)
    BY DEF SInv, Texts
  <1>4. TextOf[r] # NULL
    BY TextVal, ValNotNull
  <1>5. resumes[r].search_tokens = blind_index_tokens(Keyring[deploy].index, Value(resumes[r].raw_text))
    BY <1>2 DEF Right
  <1>6. Value(resumes[r].raw_text) # NULL <=> r \in committed
    BY <1>3, <1>4 DEF Overwritten, Value, Holds
  <1>7. r \in committed => Value(resumes[r].raw_text) = TextOf[r]
    BY <1>3 DEF Overwritten, Value, Holds
  <1>8. r \in committed => resumes[r].search_tokens # NULL
    <2>1. Keyring[deploy].index \in {"b1", "b2"} /\ TextOf[r] \in Text
      BY <1>1, RingHead, TextVal
    <2>2. QED
      BY <1>5, <1>7, <2>1, NullAssumption
  <1>9. QED
    BY <1>5, <1>6, <1>7, <1>8

LEMMA IndexImplies == ASSUME IInv, SInv PROVE SearchExact
  <1> SUFFICES ASSUME deploy > 1, Settled, due = <<>>, NEW f \in Searches, NEW c \in Applied,
                      \A r \in ResumesOf(c) : ~Overwritten(r), parse_search_query(f.q) # <<>>,
                      NEW r \in ResumesOf(c)
               PROVE  resume_blind_index_condition(f.q, Keyring[deploy].index, resumes[r].search_tokens)
                        = (r \in committed /\ TextMatches(f.q, resume_search_words(TextOf[r])))
    BY DEF SearchExact
  <1>1. r \in Resumes /\ ~Overwritten(r)
    BY DEF ResumesOf
  <1>2. PICK x, text, tokens : /\ x = Keyring[deploy].index
                               /\ text = Value(resumes[r].raw_text)
                               /\ tokens = resumes[r].search_tokens
    OBVIOUS
  <1>3. /\ tokens = blind_index_tokens(x, text)
        /\ text # NULL <=> r \in committed
        /\ r \in committed => text = TextOf[r]
        /\ r \in committed => tokens # NULL
    BY <1>1, <1>2, SettledRows
  <1>4. resume_blind_index_condition(f.q, x, tokens)
          = (text # NULL /\ TextMatches(f.q, resume_search_words(text)))
    BY <1>3, ConditionExact
  <1>5. (text # NULL /\ TextMatches(f.q, resume_search_words(text)))
          = (r \in committed /\ TextMatches(f.q, resume_search_words(TextOf[r])))
    <2>1. CASE r \in committed
      BY <2>1, <1>3
    <2>2. CASE r \notin committed
      BY <2>2, <1>3
    <2>3. QED
      BY <2>1, <2>2
  <1>6. QED
    BY <1>2, <1>4, <1>5

\* The inductive invariant of the blind index.
THEOREM IndexInvariant == Spec => []SInv
  <1>1. Init => SInv
    BY TextIndexInit
  <1>2. IInv /\ SInv /\ [Next]_vars => SInv'
    BY SearchOnlyReads, StepIndex
  <1>3. QED
    BY <1>1, <1>2, Invariant, PTL DEF Spec

\* When no sweep is due the blind index finds exactly the matching texts.
THEOREM SearchIsExact == Spec => []SearchExact
  <1>1. IInv /\ SInv => SearchExact
    BY IndexImplies
  <1>2. QED
    BY <1>1, Invariant, IndexInvariant, PTL

(***************************************************************************)
(* Keyset pagination: the order of positions and the sorted rows of a table *)
(***************************************************************************)

Pos == Int \X Int

\* The display order is a strict total order on positions, and that of the
\* fetch of a previous page is its converse.
LEMMA OrderOfPositions ==
    ASSUME NEW a \in Pos, NEW b \in Pos, NEW c \in Pos, NEW desc \in BOOLEAN
    PROVE  /\ ~Before(a, a, desc)
           /\ Before(a, b, desc) /\ Before(b, c, desc) => Before(a, c, desc)
           /\ a = b \/ Before(a, b, desc) \/ Before(b, a, desc)
           /\ Before(a, b, ~desc) <=> Before(b, a, desc)
  <1>1. /\ a[1] \in Int /\ a[2] \in Int /\ b[1] \in Int /\ b[2] \in Int /\ c[1] \in Int /\ c[2] \in Int
        /\ a = <<a[1], a[2]>> /\ b = <<b[1], b[2]>>
    BY DEF Pos
  <1>2. ~Below(a, a)
    BY <1>1 DEF Below
  <1>3. Below(a, b) /\ Below(b, c) => Below(a, c)
    BY <1>1 DEF Below
  <1>4. Below(c, b) /\ Below(b, a) => Below(c, a)
    BY <1>1 DEF Below
  <1>5. a = b \/ Below(a, b) \/ Below(b, a)
    BY <1>1 DEF Below
  <1>6. CASE desc
    BY <1>2, <1>4, <1>5, <1>6 DEF Before
  <1>7. CASE ~desc
    BY <1>2, <1>3, <1>5, <1>7 DEF Before
  <1>8. QED
    BY <1>6, <1>7

LEMMA NoneBeforeItself ==
    \A a \in Pos, desc \in BOOLEAN : ~Before(a, a, desc)
  BY OrderOfPositions
LEMMA BeforeTransitive ==
    \A a, b, c \in Pos, desc \in BOOLEAN : Before(a, b, desc) /\ Before(b, c, desc) => Before(a, c, desc)
  BY OrderOfPositions
LEMMA BeforeTotal ==
    \A a, b \in Pos, desc \in BOOLEAN : a = b \/ Before(a, b, desc) \/ Before(b, a, desc)
  BY OrderOfPositions
LEMMA BeforeConverse ==
    \A a, b \in Pos, desc \in BOOLEAN : Before(a, b, ~desc) <=> Before(b, a, desc)
  BY OrderOfPositions

\* A finite set of positions has a last one.
LEMMA LastPosition ==
    ASSUME NEW S, S \subseteq Pos, S # {}, IsFiniteSet(S), NEW desc \in BOOLEAN
    PROVE  \E x \in S : \A y \in S : y = x \/ Before(y, x, desc)
  <1> DEFINE Above(x) == {y \in S : Before(x, y, desc)}
             N == {Cardinality(Above(x)) : x \in S}
  <1>1. \A x \in S : IsFiniteSet(Above(x)) /\ Cardinality(Above(x)) \in Nat
    <2>1. \A x \in S : Above(x) \in SUBSET S
      OBVIOUS
    <2>2. \A x \in S : IsFiniteSet(Above(x))
      BY <2>1, FS_Subset
    <2>3. QED
      BY <2>2, CardinalityNat
  <1>2. N \subseteq Nat /\ N # {}
    BY <1>1
  <1>3. PICK k \in N : \A n \in N : k <= n
    BY <1>2, LeastId
  <1>4. PICK x \in S : k = Cardinality(Above(x))
    OBVIOUS
  <1>5. ASSUME NEW y \in S, Before(x, y, desc) PROVE FALSE
    <2>1. ASSUME NEW z \in Above(y) PROVE z \in Above(x)
      BY <1>5, BeforeTransitive
    <2>2. y \in Above(x) /\ y \notin Above(y)
      BY <1>5, NoneBeforeItself
    <2>3. Above(y) \in SUBSET Above(x) /\ Above(x) # Above(y)
      BY <2>1, <2>2
    <2>4. Cardinality(Above(y)) <= Cardinality(Above(x))
          /\ Cardinality(Above(y)) # Cardinality(Above(x))
      <3> HIDE DEF Above
      <3>1. IsFiniteSet(Above(x))
        BY <1>1
      <3>2. QED
        BY <2>3, <3>1, FS_Subset
    <2>5. k <= Cardinality(Above(y))
      BY <1>3
    <2>6. Cardinality(Above(y)) \in Nat /\ Cardinality(Above(x)) \in Nat
      BY <1>1
    <2>7. QED
      <3> HIDE DEF Above
      <3>1. QED
        BY <2>4, <2>5, <2>6, <1>4
  <1>6. QED
    BY <1>5, BeforeTotal

\* s lists the rows, each one before the next.
Lists(s, rows, desc) ==
    /\ s \in [1..Cardinality(rows) -> rows]
    /\ \A m, n \in 1..Cardinality(rows) : m < n => Before(s[m], s[n], desc)

\* Every finite set of positions can be listed.
LEMMA ListExists ==
    ASSUME NEW rows, rows \subseteq Pos, IsFiniteSet(rows), NEW desc \in BOOLEAN
    PROVE  \E s : Lists(s, rows, desc)
  <1> DEFINE Listed(R) == \E s : Lists(s, R, desc)
             Bad == {n \in Nat : \E R \in SUBSET rows : Cardinality(R) = n /\ ~Listed(R)}
  <1>1. \A R \in SUBSET rows : IsFiniteSet(R) /\ Cardinality(R) \in Nat
    BY FS_Subset, CardinalityNat
  <1>2. SUFFICES ASSUME Bad # {} PROVE FALSE
    <2>1. SUFFICES ASSUME Bad = {} PROVE Listed(rows)
      OBVIOUS
    <2>2. Cardinality(rows) \in Nat /\ Cardinality(rows) \notin Bad /\ rows \in SUBSET rows
      BY <1>1, <2>1
    <2>3. QED
      BY <2>2
  <1>3. PICK k \in Bad : \A n \in Bad : k <= n
    <2>1. Bad \subseteq Nat
      OBVIOUS
    <2>2. QED
      BY <1>2, <2>1, LeastId
  <1>4. PICK R \in SUBSET rows : Cardinality(R) = k /\ ~Listed(R)
    OBVIOUS
  <1>5. k \in Nat /\ IsFiniteSet(R) /\ R \subseteq Pos
    BY <1>1
  <1>6. ASSUME R = {} PROVE FALSE
    <2>1. Cardinality(R) = 0
      BY <1>6, FS_EmptySet
    <2> DEFINE s == [i \in 1..0 |-> i]
    <2>2. s \in [1..0 -> R] /\ 1..0 = {}
      OBVIOUS
    <2>3. Lists(s, R, desc)
      BY <2>1, <2>2 DEF Lists
    <2>4. QED
      BY <2>3, <1>4
  <1>7. PICK x \in R : \A y \in R : y = x \/ Before(y, x, desc)
    BY <1>5, <1>6, LastPosition
  <1> DEFINE T == R \ {x}
  <1>8. T \in SUBSET rows /\ Cardinality(T) = k - 1 /\ k - 1 \in Nat
    <2>1. Cardinality(T) = k - 1
      BY <1>4, <1>5, <1>7, FS_RemoveElement
    <2>2. Cardinality(T) \in Nat
      BY <1>1
    <2>3. QED
      BY <2>1, <2>2
  <1>9. k - 1 \notin Bad
    BY <1>3, <1>5
  <1>10. Listed(T)
    BY <1>8, <1>9
  <1>11. PICK t : Lists(t, T, desc)
    BY <1>10
  <1>12. /\ t \in [1..(k-1) -> T]
         /\ \A m, n \in 1..(k-1) : m < n => Before(t[m], t[n], desc)
    BY <1>8, <1>11 DEF Lists
  <1> DEFINE s == [i \in 1..k |-> IF i = k THEN x ELSE t[i]]
  <1>13. \A i \in 1..k : i # k => i \in 1..(k-1) /\ s[i] = t[i] /\ s[i] \in T
    BY <1>5, <1>12
  <1>14. s \in [1..k -> R]
    BY <1>13
  <1>15. ASSUME NEW m \in 1..k, NEW n \in 1..k, m < n PROVE Before(s[m], s[n], desc)
    <2>1. m # k
      BY <1>5, <1>15
    <2>2. CASE n = k
      BY <2>1, <2>2, <1>13, <1>7
    <2>3. CASE n # k
      BY <2>1, <2>3, <1>13, <1>12, <1>15
    <2>4. QED
      BY <2>2, <2>3
  <1>16. Lists(s, R, desc)
    <2> HIDE DEF s
    <2>1. QED
      BY <1>14, <1>15, <1>4 DEF Lists
  <1>17. QED
    BY <1>16, <1>4

LEMMA Listing ==
    ASSUME NEW rows, rows \subseteq Pos, IsFiniteSet(rows), NEW desc \in BOOLEAN
    PROVE  Lists(OrderBy(rows, desc), rows, desc)
  <1>1. PICK s : Lists(s, rows, desc)
    BY ListExists
  <1> DEFINE Good(t) == \A m, n \in DOMAIN t : m < n => Before(t[m], t[n], desc)
  <1>2. s \in [1..Cardinality(rows) -> rows] /\ Good(s)
    BY <1>1 DEF Lists
  <1>3. OrderBy(rows, desc) \in [1..Cardinality(rows) -> rows] /\ Good(OrderBy(rows, desc))
    BY <1>2 DEF OrderBy
  <1>4. QED
    BY <1>3 DEF Lists

\* A list of the rows leaves none out.
LEMMA ListsAll ==
    ASSUME NEW rows, rows \subseteq Pos, IsFiniteSet(rows), NEW desc \in BOOLEAN,
           NEW s, Lists(s, rows, desc), NEW x \in rows
    PROVE  \E i \in 1..Cardinality(rows) : s[i] = x
  <1>1. PICK N \in Nat : N = Cardinality(rows)
    BY CardinalityNat
  <1>2. s \in [1..N -> rows] /\ \A m, n \in 1..N : m < n => Before(s[m], s[n], desc)
    BY <1>1 DEF Lists
  <1>3. ASSUME NEW m \in 1..N, NEW n \in 1..N, s[m] = s[n] PROVE m = n
    <2>1. ~(m < n) /\ ~(n < m)
      BY <1>2, <1>3, NoneBeforeItself
    <2>2. QED
      BY <2>1
  <1>4. s \in Injection(1..N, rows)
    BY <1>2, <1>3 DEF Injection, IsInjective
  <1>5. IsFiniteSet(1..N) /\ Cardinality(1..N) = N
    BY <1>1, FS_Interval
  <1>6. s \in Surjection(1..N, rows)
    BY <1>1, <1>4, <1>5, FS_Injection
  <1>7. QED
    BY <1>1, <1>6 DEF Surjection

(***************************************************************************)
(* One page                                                                *)
(***************************************************************************)

Request == [cursor : {NoCursor} \union CursorToken, direction : {"next", "prev"}, limit : Nat \ {0}]

\* The rows beyond the cursor, in the direction of the fetch.
Beyond(rows, params, desc) ==
    IF params.cursor = NoCursor THEN rows
    ELSE Side(rows, decode_cursor(params.cursor), FetchDescending(params, desc))

\* The first of the sorted rows, no more than n of them.
FirstsOf(s, all, N, n) ==
    /\ s \in Seq(Pos)
    /\ Len(s) = IF N < n THEN N ELSE n
    /\ \A i \in 1..Len(s) : s[i] = all[i]

LEMMA Decoded == \A c \in CursorToken : decode_cursor(c) \in Pos
  BY DEF CursorToken, decode_cursor, Pos

LEMMA DescType == \A params, desc : desc \in BOOLEAN => FetchDescending(params, desc) \in BOOLEAN
  BY DEF FetchDescending

LEMMA BeyondType ==
    ASSUME NEW rows, rows \subseteq Pos, IsFiniteSet(rows), NEW params, NEW desc
    PROVE  /\ Beyond(rows, params, desc) \subseteq rows /\ Beyond(rows, params, desc) \subseteq Pos
           /\ IsFiniteSet(Beyond(rows, params, desc))
           /\ Cardinality(Beyond(rows, params, desc)) \in Nat
  <1>1. Beyond(rows, params, desc) \in SUBSET rows
    BY DEF Beyond, Side
  <1>2. IsFiniteSet(Beyond(rows, params, desc))
    BY <1>1, FS_Subset
  <1>3. QED
    BY <1>1, <1>2, CardinalityNat

LEMMA TakeFirsts ==
    ASSUME NEW S, S \subseteq Pos, NEW N \in Nat, NEW all \in [1..N -> S], NEW n \in Nat,
           NEW k \in Nat, k = IF N < n THEN N ELSE n
    PROVE  FirstsOf(SubSeq(all, 1, k), all, N, n)
  <1>1. \A i \in 1..k : all[i] \in Pos
    BY Zenon, SMT
  <1>2. /\ SubSeq(all, 1, k) \in Seq(Pos)
        /\ Len(SubSeq(all, 1, k)) = k
        /\ \A i \in 1..k : SubSeq(all, 1, k)[i] = all[i]
    <2>1. k \in Int /\ 1 \in Int
      OBVIOUS
    <2>2. SubSeq(all, 1, k) \in Seq(Pos)
      BY <1>1, <2>1, SubSeqProperties
    <2>3. Len(SubSeq(all, 1, k)) = IF 1 <= k THEN k - 1 + 1 ELSE 0
      BY <1>1, <2>1, SubSeqProperties
    <2>4. \A i \in 1..(k - 1 + 1) : SubSeq(all, 1, k)[i] = all[1 + i - 1]
      BY <1>1, <2>1, SubSeqProperties
    <2>5. k - 1 + 1 = k /\ \A i \in 1..k : 1 + i - 1 = i
      OBVIOUS
    <2>6. QED
      BY <2>2, <2>3, <2>4, <2>5
  <1>3. QED
    BY <1>2 DEF FirstsOf

\* The fetch returns the nearest rows beyond the cursor, one more than the limit.
LEMMA FetchedRows ==
    ASSUME NEW rows, rows \subseteq Pos, IsFiniteSet(rows), NEW desc \in BOOLEAN, NEW params \in Request
    PROVE  \E all :
             /\ Lists(all, Beyond(rows, params, desc), FetchDescending(params, desc))
             /\ FirstsOf(Fetched(rows, params, desc), all,
                         Cardinality(Beyond(rows, params, desc)), params.limit + 1)
  <1> DEFINE A == Beyond(rows, params, desc)
             d == FetchDescending(params, desc)
             all == OrderBy(A, d)
  <1>1. A \subseteq Pos /\ IsFiniteSet(A)
    BY BeyondType
  <1>2. PICK N \in Nat : N = Cardinality(A)
    BY BeyondType
  <1>3. Lists(all, A, d)
    BY <1>1, Listing, DescType
  <1>4. all \in [1..N -> A]
    BY <1>2, <1>3 DEF Lists
  <1>5. Len(all) = N
    BY <1>4
  <1>6. PICK l \in Nat : l = params.limit
    BY DEF Request
  <1>7. PICK k \in Nat : k = IF N < l + 1 THEN N ELSE l + 1
    OBVIOUS
  <1>8. Fetched(rows, params, desc) = SubSeq(all, 1, k)
    BY <1>5, <1>6, <1>7 DEF Fetched, Beyond
  <1>9. FirstsOf(SubSeq(all, 1, k), all, N, l + 1)
    <2> HIDE DEF all, A, d
    <2>1. l + 1 \in Nat
      OBVIOUS
    <2>2. QED
      BY <1>1, <1>4, <1>7, <2>1, TakeFirsts
  <1>10. QED
    BY <1>3, <1>9, <1>8, <1>6, <1>2

\* The items of a page against the sorted rows beyond the cursor.
Shows(items, all, m, direction) ==
    /\ items \in Seq(Pos)
    /\ Len(items) = m
    /\ \A i \in 1..m : items[i] = all[IF direction = "prev" THEN m - i + 1 ELSE i]

LEMMA ItemsShown ==
    ASSUME NEW S, S \subseteq Pos, NEW N \in Nat, NEW all \in [1..N -> S], NEW params \in Request,
           NEW fetched, FirstsOf(fetched, all, N, params.limit + 1),
           NEW m \in Nat, m = IF N < params.limit THEN N ELSE params.limit
    PROVE  /\ Shows(Items(fetched, params), all, m, params.direction)
           /\ HasMore(fetched, params) <=> m < N
  <1>1. PICK l \in Nat \ {0} : l = params.limit
    BY DEF Request
  <1>2. /\ fetched \in Seq(Pos) /\ Len(fetched) = (IF N < l + 1 THEN N ELSE l + 1)
        /\ \A i \in 1..Len(fetched) : fetched[i] = all[i]
    BY <1>1 DEF FirstsOf
  <1>3. HasMore(fetched, params) <=> m < N
    BY <1>1, <1>2 DEF HasMore
  <1> DEFINE page == IF HasMore(fetched, params) THEN SubSeq(fetched, 1, params.limit) ELSE fetched
  <1>4. page \in Seq(Pos) /\ Len(page) = m /\ \A i \in 1..m : page[i] = all[i]
    <2>1. CASE HasMore(fetched, params)
      <3>1. Len(fetched) = l + 1 /\ m = l /\ l < N
        BY <1>1, <1>2, <1>3, <2>1
      <3>2. fetched \in [1..(l + 1) -> Pos] /\ l = IF l + 1 < l THEN l + 1 ELSE l
        BY <1>2, <3>1
      <3>3. FirstsOf(SubSeq(fetched, 1, l), fetched, l + 1, l)
        <4>1. l + 1 \in Nat /\ l \in Nat /\ Pos \subseteq Pos
          OBVIOUS
        <4>2. QED
          BY <3>2, <4>1, TakeFirsts
      <3>4. /\ SubSeq(fetched, 1, l) \in Seq(Pos) /\ Len(SubSeq(fetched, 1, l)) = l
            /\ \A i \in 1..l : SubSeq(fetched, 1, l)[i] = fetched[i]
        BY <3>3 DEF FirstsOf
      <3>5. \A i \in 1..l : fetched[i] = all[i]
        BY <1>2, <3>1
      <3>6. QED
        BY <3>1, <3>4, <3>5, <2>1, <1>1
    <2>2. CASE ~HasMore(fetched, params)
      <3>1. Len(fetched) = N /\ m = N
        BY <1>1, <1>2, <1>3, <2>2
      <3>2. QED
        BY <1>2, <2>2, <3>1
    <2>3. QED
      BY <2>1, <2>2
  <1>5. Items(fetched, params) = IF params.direction = "prev" THEN Reverse(page) ELSE page
    BY DEF Items
  <1> HIDE DEF page
  <1>6. /\ Reverse(page) \in Seq(Pos) /\ Len(Reverse(page)) = m
        /\ \A i \in 1..m : Reverse(page)[i] = all[m - i + 1]
    <2>1. Reverse(page) = [i \in 1..m |-> page[(m - i) + 1]]
      BY <1>4 DEF Reverse
    <2>2. \A i \in 1..m : (m - i) + 1 \in 1..m
      OBVIOUS
    <2>3. ASSUME NEW i \in 1..m PROVE page[(m - i) + 1] \in Pos /\ page[(m - i) + 1] = all[m - i + 1]
      <3>1. PICK j \in 1..m : j = m - i + 1
        BY <2>2
      <3>2. page[j] \in Pos /\ page[j] = all[j]
        BY <1>4
      <3>3. QED
        BY <3>1, <3>2
    <2>4. Reverse(page) \in [1..m -> Pos]
      BY <2>1, <2>3
    <2>5. \A i \in 1..m : Reverse(page)[i] = all[m - i + 1]
      BY <2>1, <2>3
    <2>6. Reverse(page) \in Seq(Pos) /\ Len(Reverse(page)) = m
      BY <2>4, SeqDef
    <2>7. QED
      BY <2>5, <2>6
  <1>7. CASE params.direction = "prev"
    BY <1>3, <1>5, <1>6, <1>7 DEF Shows
  <1>8. CASE params.direction # "prev"
    BY <1>3, <1>4, <1>5, <1>8 DEF Shows
  <1>9. QED
    BY <1>7, <1>8

\* What the items of a page are among the rows beyond the cursor: the nearest
\* ones, in display order.
Nearest(items, A, fdesc, desc) ==
    /\ items \in Seq(Pos)
    /\ Range(items) \subseteq A
    /\ \A m, n \in 1..Len(items) : m < n => Before(items[m], items[n], desc)
    /\ \A a \in A \ Range(items), b \in Range(items) : Before(b, a, fdesc)

LEMMA ShownRange ==
    ASSUME NEW items, NEW all, NEW m \in Nat, NEW direction, Shows(items, all, m, direction)
    PROVE  Range(items) = {all[j] : j \in 1..m}
  <1> DEFINE At(i) == IF direction = "prev" THEN m - i + 1 ELSE i
  <1>1. DOMAIN items = 1..m
    BY DEF Shows
  <1>2. \A i \in 1..m : At(i) \in 1..m /\ At(At(i)) = i
    OBVIOUS
  <1>3. \A i \in 1..m : items[i] = all[At(i)]
    BY DEF Shows
  <1>4. ASSUME NEW j \in 1..m PROVE all[j] \in Range(items)
    <2>1. PICK i \in 1..m : i = At(j) /\ At(i) = j
      BY <1>2
    <2>2. items[i] = all[j]
      BY <1>3, <2>1
    <2>3. QED
      BY <1>1, <2>2 DEF Range
  <1>5. ASSUME NEW i \in 1..m PROVE items[i] \in {all[j] : j \in 1..m}
    BY <1>2, <1>3
  <1>6. QED
    BY <1>1, <1>4, <1>5 DEF Range

LEMMA ShownNearest ==
    ASSUME NEW A, A \subseteq Pos, IsFiniteSet(A), NEW desc \in BOOLEAN, NEW params \in Request,
           NEW all, Lists(all, A, FetchDescending(params, desc)),
           NEW m \in Nat, m <= Cardinality(A),
           NEW items, Shows(items, all, m, params.direction)
    PROVE  /\ Nearest(items, A, FetchDescending(params, desc), desc)
           /\ m < Cardinality(A) <=> A \ Range(items) # {}
  <1> DEFINE d == FetchDescending(params, desc)
  <1>1. PICK N \in Nat : N = Cardinality(A)
    BY CardinalityNat
  <1>2. d \in BOOLEAN
    BY DescType
  <1>3. all \in [1..N -> A] /\ \A i, j \in 1..N : i < j => Before(all[i], all[j], d)
    BY <1>1 DEF Lists
  <1>4. Range(items) = {all[j] : j \in 1..m}
    BY ShownRange
  <1>5. m <= N /\ \A j \in 1..m : j \in 1..N
    BY <1>1
  <1>6. Range(items) \subseteq A
    BY <1>3, <1>4, <1>5
  <1>7. items \in Seq(Pos) /\ Len(items) = m
    BY DEF Shows
  <1>8. ASSUME NEW i \in 1..m, NEW k \in 1..m, i < k PROVE Before(items[i], items[k], desc)
    <2>1. CASE params.direction = "prev"
      <3>1. PICK i2 \in 1..m, k2 \in 1..m : i2 = m - i + 1 /\ k2 = m - k + 1
        OBVIOUS
      <3>2. items[i] = all[i2] /\ items[k] = all[k2]
        BY <2>1, <3>1 DEF Shows
      <3>3. k2 < i2
        BY <1>8, <3>1
      <3>4. Before(all[k2], all[i2], d)
        BY <1>3, <1>5, <3>3
      <3>5. d = ~desc
        BY <2>1 DEF FetchDescending
      <3>6. all[i2] \in Pos /\ all[k2] \in Pos
        BY <1>3, <1>5
      <3> HIDE DEF d
      <3>7. QED
        BY <3>2, <3>4, <3>5, <3>6, BeforeConverse
    <2>2. CASE params.direction # "prev"
      <3>1. d = desc
        BY <2>2 DEF FetchDescending, Request
      <3>2. items[i] = all[i] /\ items[k] = all[k]
        BY <2>2 DEF Shows
      <3>3. QED
        BY <1>3, <1>5, <1>8, <3>1, <3>2
    <2>3. QED
      BY <2>1, <2>2
  <1>9. ASSUME NEW a \in A \ Range(items)
        PROVE  \E j \in 1..N : j > m /\ a = all[j]
    <2>1. PICK j \in 1..N : all[j] = a
      BY <1>1, <1>2, ListsAll
    <2>2. j \notin 1..m
      BY <1>4, <2>1
    <2>3. QED
      BY <2>1, <2>2
  <1>10. ASSUME NEW a \in A \ Range(items), NEW b \in Range(items) PROVE Before(b, a, d)
    <2>1. PICK j \in 1..N : j > m /\ a = all[j]
      BY <1>9
    <2>2. PICK i \in 1..m : b = all[i]
      BY <1>4
    <2>3. i \in 1..N /\ i < j
      BY <1>5, <2>1
    <2>4. QED
      BY <1>3, <2>1, <2>2, <2>3
  <1>11. ASSUME m < N PROVE A \ Range(items) # {}
    <2>1. PICK j \in 1..N : j = m + 1
      BY <1>11
    <2>2. ASSUME NEW i \in 1..m PROVE all[i] # all[j]
      <3>1. i \in 1..N /\ i < j
        BY <1>5, <2>1
      <3>2. Before(all[i], all[j], d) /\ all[j] \in Pos
        BY <1>3, <3>1
      <3>3. QED
        BY <3>2, <1>2, NoneBeforeItself
    <2>3. all[j] \in A /\ all[j] \notin Range(items)
      BY <1>3, <1>4, <2>2
    <2>4. QED
      BY <2>3
  <1>12. ASSUME A \ Range(items) # {} PROVE m < N
    BY <1>9, <1>12
  <1>13. Nearest(items, A, d, desc)
    BY <1>6, <1>7, <1>8, <1>10 DEF Nearest
  <1>14. QED
    BY <1>1, <1>11, <1>12, <1>13

\* The items of the page of a request, before they are put into a page.
ItemsOf(rows, params, desc) == Items(Fetched(rows, params, desc), params)

\* They are the nearest rows beyond the cursor, as many as the limit allows, and
\* the extra row of the fetch tells whether there are others.
LEMMA NearestItems ==
    ASSUME NEW rows, rows \subseteq Pos, IsFiniteSet(rows), NEW desc \in BOOLEAN, NEW params \in Request
    PROVE  LET A == Beyond(rows, params, desc)
               items == ItemsOf(rows, params, desc)
           IN /\ Nearest(items, A, FetchDescending(params, desc), desc)
              /\ Len(items) = IF Cardinality(A) < params.limit THEN Cardinality(A) ELSE params.limit
              /\ HasMore(Fetched(rows, params, desc), params) <=> A \ Range(items) # {}
  <1> DEFINE A == Beyond(rows, params, desc)
             fetched == Fetched(rows, params, desc)
             items == ItemsOf(rows, params, desc)
  <1>1. A \subseteq Pos /\ IsFiniteSet(A)
    BY BeyondType
  <1>2. PICK all : /\ Lists(all, A, FetchDescending(params, desc))
                   /\ FirstsOf(fetched, all, Cardinality(A), params.limit + 1)
    BY FetchedRows
  <1>3. PICK N \in Nat : N = Cardinality(A)
    BY BeyondType
  <1>4. params.limit \in Nat
    BY DEF Request
  <1>5. PICK m \in Nat : m = IF N < params.limit THEN N ELSE params.limit
    BY <1>4
  <1>6. all \in [1..N -> A]
    BY <1>2, <1>3 DEF Lists
  <1>7. /\ Shows(items, all, m, params.direction)
        /\ HasMore(fetched, params) <=> m < N
    <2> HIDE DEF A, fetched
    <2>1. QED
      BY <1>1, <1>2, <1>3, <1>5, <1>6, ItemsShown DEF ItemsOf, fetched
  <1>8. m <= N
    BY <1>4, <1>5
  <1> HIDE DEF A, fetched, items
  <1>9. /\ Nearest(items, A, FetchDescending(params, desc), desc)
        /\ m < Cardinality(A) <=> A \ Range(items) # {}
    BY <1>1, <1>2, <1>3, <1>7, <1>8, ShownNearest
  <1>10. Len(items) = m
    BY <1>7 DEF Shows
  <1>11. QED
    BY <1>3, <1>5, <1>7, <1>9, <1>10 DEF A, fetched, items

LEMMA SideIsBefore ==
    \A rows, p, d : Side(rows, p, d) = {x \in rows : Before(p, x, d)}
  BY DEF Side, Before

LEMMA BeyondIs ==
    ASSUME NEW rows, NEW params, NEW desc
    PROVE  Beyond(rows, params, desc) =
             {x \in rows : params.cursor # NoCursor =>
                             Before(decode_cursor(params.cursor), x, FetchDescending(params, desc))}
  BY SideIsBefore DEF Beyond

\* Rows are left beyond the cursor exactly if some row lies beyond all items.
LEMMA RowsLeft ==
    ASSUME NEW rows, rows \subseteq Pos, NEW desc \in BOOLEAN, NEW params \in Request,
           NEW items, Nearest(items, Beyond(rows, params, desc), FetchDescending(params, desc), desc),
           Range(items) # {}
    PROVE  (Beyond(rows, params, desc) \ Range(items) # {}) <=>
             \E x \in rows : \A b \in Range(items) : Before(b, x, FetchDescending(params, desc))
  <1> DEFINE A == Beyond(rows, params, desc)
             d == FetchDescending(params, desc)
  <1>1. d \in BOOLEAN
    BY DescType
  <1>2. A \subseteq rows
    BY BeyondIs
  <1>3. Range(items) \subseteq A /\ \A a \in A \ Range(items), b \in Range(items) : Before(b, a, d)
    BY DEF Nearest
  <1>4. ASSUME A \ Range(items) # {} PROVE \E x \in rows : \A b \in Range(items) : Before(b, x, d)
    BY <1>2, <1>3, <1>4
  <1>5. ASSUME NEW x \in rows, \A b \in Range(items) : Before(b, x, d) PROVE A \ Range(items) # {}
    <2>1. x \notin Range(items)
      BY <1>1, <1>5, NoneBeforeItself
    <2>2. PICK b \in Range(items) : TRUE
      OBVIOUS
    <2>3. b \in A /\ b \in rows /\ Before(b, x, d)
      BY <1>2, <1>3, <1>5
    <2>4. x \in A
      <3>1. ASSUME params.cursor # NoCursor PROVE Before(decode_cursor(params.cursor), x, d)
        <4>1. decode_cursor(params.cursor) \in Pos
          BY <3>1, Decoded DEF Request
        <4>2. Before(decode_cursor(params.cursor), b, d)
          BY <2>3, <3>1, BeyondIs
        <4>3. b \in Pos /\ x \in Pos
          BY <2>3
        <4> HIDE DEF d
        <4>4. QED
          BY <4>1, <4>2, <4>3, <2>3, <1>1, BeforeTransitive
      <3>2. QED
        BY <3>1, BeyondIs
    <2>5. QED
      BY <2>1, <2>4
  <1>6. QED
    BY <1>4, <1>5

\* The queries for a row before the first and after the last item.
LEMMA Edges ==
    ASSUME NEW rows, rows \subseteq Pos, NEW desc \in BOOLEAN, NEW A, NEW fdesc, NEW items,
           Nearest(items, A, fdesc, desc), items # <<>>
    PROVE  /\ items[1] \in Range(items) /\ items[Len(items)] \in Range(items)
           /\ \A b \in Range(items) : b = items[1] \/ Before(items[1], b, desc)
           /\ \A b \in Range(items) : b = items[Len(items)] \/ Before(b, items[Len(items)], desc)
           /\ ExistsBeyond(rows, items[1], FALSE, desc) <=>
                \E x \in rows : \A b \in Range(items) : Before(x, b, desc)
           /\ ExistsBeyond(rows, items[Len(items)], TRUE, desc) <=>
                \E x \in rows : \A b \in Range(items) : Before(b, x, desc)
  <1>1. items \in Seq(Pos) /\ \A m, n \in 1..Len(items) : m < n => Before(items[m], items[n], desc)
    BY DEF Nearest
  <1>2. PICK L \in Nat \ {0} : L = Len(items)
    BY <1>1
  <1>3. \A b \in Range(items) : b \in Pos /\ \E i \in 1..L : b = items[i]
    BY <1>1, <1>2 DEF Range
  <1>4. items[1] \in Range(items) /\ items[L] \in Range(items)
    BY <1>1, <1>2 DEF Range
  <1>5. PICK first \in Pos, last \in Pos : first = items[1] /\ last = items[L]
    BY <1>1, <1>2
  <1>6. \A i \in 1..L : i = 1 \/ 1 < i
    OBVIOUS
  <1>7. \A i \in 1..L : i = L \/ i < L
    OBVIOUS
  <1>8. \A b \in Range(items) : b = first \/ Before(first, b, desc)
    BY <1>1, <1>2, <1>3, <1>5, <1>6
  <1>9. \A b \in Range(items) : b = last \/ Before(b, last, desc)
    BY <1>1, <1>2, <1>3, <1>5, <1>7
  <1>10. ExistsBeyond(rows, first, FALSE, desc) <=> \E x \in rows : Before(x, first, desc)
    <2>1. ExistsBeyond(rows, first, FALSE, desc) <=> \E x \in rows : Before(first, x, ~desc)
      BY SideIsBefore DEF ExistsBeyond
    <2>2. QED
      BY <2>1, BeforeConverse
  <1>11. ExistsBeyond(rows, last, TRUE, desc) <=> \E x \in rows : Before(last, x, desc)
    BY SideIsBefore DEF ExistsBeyond
  <1>12. ASSUME NEW x \in rows, Before(x, first, desc) PROVE \A b \in Range(items) : Before(x, b, desc)
    BY <1>3, <1>8, <1>12, BeforeTransitive
  <1>13. ASSUME NEW x \in rows, Before(last, x, desc) PROVE \A b \in Range(items) : Before(b, x, desc)
    BY <1>3, <1>9, <1>13, BeforeTransitive
  <1>14. QED
    BY <1>2, <1>4, <1>5, <1>8, <1>9, <1>10, <1>11, <1>12, <1>13

\* The page in the words of the items: what the caller of a page may rely on.
PageSound(page, items, rows, params, desc) ==
    /\ page.items = items
    /\ items = <<>> => page = EmptyPage
    /\ items # <<>> =>
         /\ page.has_next <=> \E x \in rows : \A b \in Range(items) : Before(b, x, desc)
         /\ params.cursor # NoCursor \/ params.direction # "next" =>
              (page.has_previous <=> \E x \in rows : \A b \in Range(items) : Before(x, b, desc))
         /\ page.has_next => page.next_cursor = encode_cursor(items[Len(items)][1], items[Len(items)][2])
         /\ page.has_previous => page.previous_cursor = encode_cursor(items[1][1], items[1][2])
         /\ page.has_next \in BOOLEAN /\ page.has_previous \in BOOLEAN

LEMMA PageIsSound ==
    ASSUME NEW rows, rows \subseteq Pos, IsFiniteSet(rows), NEW desc \in BOOLEAN, NEW params \in Request
    PROVE  PageSound(paginate_by_cursor(rows, params, desc), ItemsOf(rows, params, desc), rows, params, desc)
  <1> DEFINE A == Beyond(rows, params, desc)
             d == FetchDescending(params, desc)
             more == HasMore(Fetched(rows, params, desc), params)
             page == paginate_by_cursor(rows, params, desc)
  <1>1. PICK items : items = ItemsOf(rows, params, desc)
    OBVIOUS
  <1>2. CASE items = <<>>
    <2>1. page = EmptyPage
      BY <1>1, <1>2 DEF paginate_by_cursor, ItemsOf
    <2>2. QED
      BY <1>1, <1>2, <2>1 DEF PageSound, EmptyPage
  <1>3. CASE items # <<>>
    <2>1. Nearest(items, A, d, desc) /\ (more <=> A \ Range(items) # {}) /\ more \in BOOLEAN
      BY <1>1, NearestItems DEF HasMore
    <2>2. Range(items) # {}
      BY <1>3, <2>1, Edges
    <2>3. more <=> \E x \in rows : \A b \in Range(items) : Before(b, x, d)
      BY <2>1, <2>2, RowsLeft
    <2>4. PICK first, last : first = items[1] /\ last = items[Len(items)]
      OBVIOUS
    <2>5. ExistsBeyond(rows, first, FALSE, desc) <=>
            \E x \in rows : \A b \in Range(items) : Before(x, b, desc)
      BY <1>3, <2>1, <2>4, Edges
    <2>6. ExistsBeyond(rows, last, TRUE, desc) <=>
            \E x \in rows : \A b \in Range(items) : Before(b, x, desc)
      BY <1>3, <2>1, <2>4, Edges
    <2>7. PICK n \in BOOLEAN, p \in BOOLEAN :
             /\ n = IF params.direction = "next" THEN more ELSE ExistsBeyond(rows, last, TRUE, desc)
             /\ p = IF params.direction = "next"
                    THEN params.cursor # NoCursor /\ ExistsBeyond(rows, first, FALSE, desc) ELSE more
      BY <2>1 DEF ExistsBeyond
    <2>8. page = [items |-> items,
                  next_cursor |-> IF n THEN encode_cursor(last[1], last[2]) ELSE NoCursor,
                  previous_cursor |-> IF p THEN encode_cursor(first[1], first[2]) ELSE NoCursor,
                  has_next |-> n, has_previous |-> p]
      BY <1>1, <1>3, <2>4, <2>7 DEF paginate_by_cursor, ItemsOf
    <2>9. n <=> \E x \in rows : \A b \in Range(items) : Before(b, x, desc)
      <3>1. CASE params.direction = "next"
        <4>1. d = desc
          BY <3>1 DEF FetchDescending
        <4>2. QED
          BY <2>3, <2>7, <3>1, <4>1
      <3>2. CASE params.direction # "next"
        BY <2>6, <2>7, <3>2
      <3>3. QED
        BY <3>1, <3>2
    <2>10. ASSUME params.cursor # NoCursor \/ params.direction # "next"
           PROVE  p <=> \E x \in rows : \A b \in Range(items) : Before(x, b, desc)
      <3>1. CASE params.direction = "next"
        BY <2>5, <2>7, <2>10, <3>1
      <3>2. CASE params.direction # "next"
        <4>1. d = ~desc
          BY <3>2 DEF FetchDescending
        <4>2. Range(items) \subseteq Pos
          BY <2>1, BeyondType DEF Nearest
        <4>3. \A x \in rows, b \in Range(items) : Before(b, x, d) <=> Before(x, b, desc)
          BY <4>1, <4>2, BeforeConverse
        <4>4. QED
          BY <2>3, <2>7, <3>2, <4>3
      <3>3. QED
        BY <3>1, <3>2
    <2> HIDE DEF page
    <2>11. /\ page.items = items /\ page.has_next = n /\ page.has_previous = p
           /\ n => page.next_cursor = encode_cursor(last[1], last[2])
           /\ p => page.previous_cursor = encode_cursor(first[1], first[2])
      BY <2>8
    <2>12. PageSound(page, items, rows, params, desc)
      BY <1>3, <2>4, <2>9, <2>10, <2>11 DEF PageSound
    <2>13. QED
      BY <1>1, <2>12 DEF page
  <1>4. QED
    BY <1>2, <1>3

\* Every page is right.
LEMMA EveryPageRight ==
    ASSUME NEW rows, rows \subseteq Pos, IsFiniteSet(rows), NEW desc \in BOOLEAN, NEW params \in Request
    PROVE  PageRight(rows, params, desc)
  <1> DEFINE A == Beyond(rows, params, desc)
             d == FetchDescending(params, desc)
             nearer(a, b) == IF params.direction = "next" THEN Before(a, b, desc) ELSE Before(b, a, desc)
             ahead == {x \in rows : params.cursor # NoCursor => nearer(decode_cursor(params.cursor), x)}
  <1>1. PICK items : items = ItemsOf(rows, params, desc)
    OBVIOUS
  <1>2. PICK page : page = paginate_by_cursor(rows, params, desc)
    OBVIOUS
  <1>3. PageSound(page, items, rows, params, desc)
    BY <1>1, <1>2, PageIsSound
  <1>4. Nearest(items, A, d, desc)
    BY <1>1, NearestItems
  <1>5. Len(items) = IF Cardinality(A) < params.limit THEN Cardinality(A) ELSE params.limit
    BY <1>1, NearestItems
  <1>6. \A a, b \in Pos : Before(a, b, d) <=> nearer(a, b)
    <2>1. CASE params.direction = "next"
      <3>1. d = desc
        BY <2>1 DEF FetchDescending
      <3>2. QED
        BY <2>1, <3>1
    <2>2. CASE params.direction # "next"
      <3>1. d = ~desc
        BY <2>2 DEF FetchDescending
      <3> HIDE DEF d
      <3>2. QED
        BY <2>2, <3>1, BeforeConverse
    <2>3. QED
      BY <2>1, <2>2
  <1>7. A = ahead
    <2>1. params.cursor # NoCursor => decode_cursor(params.cursor) \in Pos
      BY Decoded DEF Request
    <2> HIDE DEF nearer
    <2>2. QED
      BY <1>6, <2>1, BeyondIs
  <1>8. page.items = items /\ items \in Seq(Pos) /\ DOMAIN items = 1..Len(items)
    BY <1>3, <1>4 DEF PageSound, Nearest
  <1>9. \A m, n \in DOMAIN page.items : m < n => Before(page.items[m], page.items[n], desc)
    BY <1>4, <1>8 DEF Nearest
  <1>10. Range(items) \subseteq ahead
    BY <1>4, <1>7 DEF Nearest
  <1>11. \A a \in ahead \ Range(items), b \in Range(items) : nearer(b, a)
    <2>1. \A a \in A \ Range(items), b \in Range(items) : Before(b, a, d)
      BY <1>4 DEF Nearest
    <2>2. A \subseteq Pos /\ Range(items) \subseteq Pos
      BY <1>10, <1>7, BeyondType
    <2> HIDE DEF nearer, ahead, A, d
    <2>3. QED
      BY <1>6, <1>7, <2>1, <2>2
  <1>12. ASSUME Range(items) # {}
         PROVE  /\ page.has_next = (\E x \in rows : \A b \in Range(items) : Before(b, x, desc))
                /\ params.cursor # NoCursor \/ params.direction # "next" =>
                     page.has_previous = (\E x \in rows : \A b \in Range(items) : Before(x, b, desc))
    <2>1. items # <<>>
      BY <1>12, <1>8 DEF Range
    <2>2. QED
      BY <1>3, <2>1 DEF PageSound
  <1>13. QED
    <2> HIDE DEF A, d
    <2>1. /\ Range(page.items) = Range(items) /\ Len(page.items) = Len(items)
      BY <1>8
    <2>2. Len(page.items) = (IF Cardinality(ahead) < params.limit THEN Cardinality(ahead) ELSE params.limit)
      BY <2>1, <1>5, <1>7
    <2>3. QED
      BY <1>2, <1>9, <1>10, <1>11, <1>12, <2>1, <2>2, Zenon DEF PageRight

\* Every page of every table is right: the nearest rows beyond the cursor, none
\* skipped and none twice, in display order, with flags that tell the truth, for
\* any table, cursor, direction, limit and order (pagination.py,
\* paginate_by_cursor).
THEOREM PagesAreRight == PagesRight
  <1> SUFFICES ASSUME NEW rows \in SUBSET Positions,
                      NEW c \in {NoCursor} \union {encode_cursor(p[1], p[2]) : p \in Positions},
                      NEW direction \in {"next", "prev"}, NEW l \in 1..MAX_PAGE_SIZE, NEW desc \in BOOLEAN
               PROVE  PageRight(rows, CursorParams(c, direction, l), desc)
    BY DEF PagesRight
  <1>1. rows \subseteq Pos /\ IsFiniteSet(rows)
    BY PaginationAssumption, FS_Subset DEF Pos
  <1>2. c \in {NoCursor} \union CursorToken
    BY PaginationAssumption DEF encode_cursor, CursorToken
  <1>3. CursorParams(c, direction, l) \in Request
    BY <1>2, PaginationAssumption DEF CursorParams, Request
  <1>4. QED
    BY <1>1, <1>3, EveryPageRight

(***************************************************************************)
(* A walk through the pages of a search                                    *)
(***************************************************************************)

Ascending(s) == s \in Seq(Pos) /\ \A m, n \in 1..Len(s) : m < n => Below(s[m], s[n])
TokenOf(p) == encode_cursor(p[1], p[2])

\* On the way forward: what was seen is in order, the next page starts where it
\* ends, and what matched all along has been seen or is still ahead.
GoingOn(page, seen, steady) ==
    /\ Ascending(seen) /\ Ascending(page.items)
    /\ page.has_next => /\ seen # <<>> /\ page.next_cursor = TokenOf(seen[Len(seen)])
                        /\ \A x \in steady : x \in Range(seen) \/ Below(seen[Len(seen)], x)
    /\ ~page.has_next => steady \subseteq Range(seen)
    /\ page.has_previous => page.items # <<>> /\ page.previous_cursor = TokenOf(page.items[1])
    /\ page.items # <<>> => \A x \in Range(seen) : x \in Range(page.items) \/ Below(x, page.items[1])

\* On the way back, from the last page.
GoingBack(page, seen, steady) ==
    /\ Ascending(seen)
    /\ page.has_previous => /\ seen # <<>> /\ page.previous_cursor = TokenOf(seen[1])
                            /\ \A x \in steady : x \in Range(seen) \/ Below(x, seen[1])
    /\ ~page.has_previous => steady \subseteq Range(seen)

WInv ==
    /\ walk = [on |-> walk.on, search |-> walk.search, direction |-> walk.direction,
               page |-> walk.page, seen |-> walk.seen, steady |-> walk.steady]
    /\ ~walk.on => walk = NoWalk
    /\ walk.on => walk.direction \in {"next", "prev"}
    /\ walk.on /\ walk.direction = "next" => GoingOn(walk.page, walk.seen, walk.steady)
    /\ walk.on /\ walk.direction = "prev" => GoingBack(walk.page, walk.seen, walk.steady)

LEMMA BelowIsBefore == \A a, b : Below(a, b) <=> Before(a, b, FALSE)
  BY DEF Before

LEMMA BelowTransitive == \A a, b, c \in Pos : Below(a, b) /\ Below(b, c) => Below(a, c)
  BY BeforeTransitive, BelowIsBefore

LEMMA TokenRead == \A p \in Pos : TokenOf(p) \in CursorToken /\ decode_cursor(TokenOf(p)) = p
  BY DEF TokenOf, encode_cursor, decode_cursor, CursorToken, Pos

LEMMA InRange ==
    \A s \in Seq(Pos) : /\ Range(s) = {s[i] : i \in 1..Len(s)} /\ Range(s) \subseteq Pos
                        /\ s # <<>> => s[1] \in Range(s) /\ s[Len(s)] \in Range(s)
                        /\ s # <<>> => Len(s) \in Nat \ {0}
  BY DEF Range

\* The ends of an ascending sequence.
LEMMA Ends ==
    ASSUME NEW s, Ascending(s), s # <<>>
    PROVE  /\ s[1] \in Pos /\ s[Len(s)] \in Pos
           /\ \A x \in Range(s) : x = s[1] \/ Below(s[1], x)
           /\ \A x \in Range(s) : x = s[Len(s)] \/ Below(x, s[Len(s)])
  <1>1. s \in Seq(Pos) /\ Len(s) \in Nat \ {0} /\ s[1] \in Pos /\ s[Len(s)] \in Pos
    BY InRange DEF Ascending
  <1>2. ASSUME NEW x \in Range(s) PROVE (x = s[1] \/ Below(s[1], x)) /\ (x = s[Len(s)] \/ Below(x, s[Len(s)]))
    <2>1. PICK i \in 1..Len(s) : x = s[i]
      BY <1>1, InRange
    <2>2. (i = 1 \/ 1 < i) /\ (i = Len(s) \/ i < Len(s)) /\ 1 \in 1..Len(s) /\ Len(s) \in 1..Len(s)
      BY <1>1
    <2>3. QED
      BY <2>1, <2>2 DEF Ascending
  <1>3. QED
    BY <1>1, <1>2

LEMMA Join ==
    ASSUME NEW s, NEW t, Ascending(s), Ascending(t),
           \A x \in Range(s), y \in Range(t) : Below(x, y)
    PROVE  /\ Ascending(s \o t)
           /\ Range(s \o t) = Range(s) \union Range(t)
           /\ t # <<>> => s \o t # <<>> /\ (s \o t)[Len(s \o t)] = t[Len(t)]
           /\ s # <<>> => s \o t # <<>> /\ (s \o t)[1] = s[1]
           /\ t = <<>> => s \o t = s
           /\ s = <<>> => s \o t = t
  <1>1. s \in Seq(Pos) /\ t \in Seq(Pos)
    BY DEF Ascending
  <1>2. PICK k \in Nat, l \in Nat : k = Len(s) /\ l = Len(t)
    BY <1>1
  <1>3. PICK u : u = s \o t
    OBVIOUS
  <1>4. u \in Seq(Pos) /\ Len(u) = k + l
    BY <1>1, <1>2, <1>3, ConcatProperties
  <1>5. \A i \in 1..(k + l) : u[i] = IF i <= k THEN s[i] ELSE t[i - k]
    BY <1>1, <1>2, <1>3, ConcatProperties
  <1>6. \A i \in 1..(k + l) : i <= k => i \in 1..k /\ u[i] = s[i] /\ u[i] \in Range(s)
    BY <1>1, <1>2, <1>5, InRange
  <1>7. \A i \in 1..(k + l) : ~(i <= k) => i - k \in 1..l /\ u[i] = t[i - k] /\ u[i] \in Range(t)
    <2>1. \A i \in 1..(k + l) : ~(i <= k) => i - k \in 1..l /\ u[i] = t[i - k]
      BY <1>2, <1>5
    <2>2. \A j \in 1..l : t[j] \in Range(t)
      BY <1>1, <1>2, InRange
    <2>3. QED
      BY <2>1, <2>2
  <1>8. ASSUME NEW m \in 1..(k + l), NEW n \in 1..(k + l), m < n PROVE Below(u[m], u[n])
    <2>1. CASE n <= k
      <3>1. m <= k
        BY <1>8, <2>1
      <3>2. QED
        BY <1>2, <1>6, <1>8, <2>1, <3>1 DEF Ascending
    <2>2. CASE ~(n <= k) /\ m <= k
      BY <1>6, <1>7, <2>2
    <2>3. CASE ~(n <= k) /\ ~(m <= k)
      <3>1. PICK i \in 1..l, j \in 1..l : i = m - k /\ j = n - k /\ u[m] = t[i] /\ u[n] = t[j]
        BY <1>7, <2>3
      <3>2. i < j
        BY <1>8, <3>1
      <3>3. QED
        BY <1>2, <3>1, <3>2 DEF Ascending
    <2>4. QED
      BY <2>1, <2>2, <2>3
  <1>9. Ascending(u)
    BY <1>4, <1>8 DEF Ascending
  <1>10. Range(u) = Range(s) \union Range(t)
    <2>1. ASSUME NEW x \in Range(u) PROVE x \in Range(s) \union Range(t)
      BY <1>4, <1>6, <1>7, InRange
    <2>2. ASSUME NEW x \in Range(s) PROVE x \in Range(u)
      <3>1. PICK i \in 1..k : x = s[i]
        BY <1>1, <1>2, InRange
      <3>2. i \in 1..(k + l) /\ u[i] = x
        BY <1>5, <3>1
      <3>3. QED
        BY <1>4, <3>2, InRange
    <2>3. ASSUME NEW x \in Range(t) PROVE x \in Range(u)
      <3>1. PICK i \in 1..l : x = t[i]
        BY <1>1, <1>2, InRange
      <3>2. PICK j \in 1..(k + l) : j = k + i
        OBVIOUS
      <3>3. ~(j <= k) /\ j - k = i
        BY <3>2
      <3>4. u[j] = x
        BY <1>5, <3>1, <3>3
      <3>5. QED
        BY <1>4, <3>4, InRange
    <2>4. QED
      BY <2>1, <2>2, <2>3
  <1>11. ASSUME t # <<>> PROVE u # <<>> /\ u[Len(u)] = t[Len(t)]
    <2>1. l # 0
      BY <1>1, <1>2, <1>11
    <2>2. PICK j \in 1..(k + l) : j = k + l /\ ~(j <= k) /\ j - k = l
      BY <2>1
    <2>3. QED
      BY <1>2, <1>4, <1>5, <2>1, <2>2
  <1>12. ASSUME s # <<>> PROVE u # <<>> /\ u[1] = s[1]
    <2>1. k # 0
      BY <1>1, <1>2, <1>12
    <2>2. QED
      BY <1>2, <1>4, <1>5, <2>1
  <1>13. (t = <<>> => u = s) /\ (s = <<>> => u = t)
    BY <1>1, <1>3, ConcatEmptySeq
  <1>14. QED
    BY <1>3, <1>9, <1>10, <1>11, <1>12, <1>13

\* A page of a walk: the rows it takes of those beyond the cursor (A).
Taken(page, A, direction) ==
    /\ Ascending(page.items) /\ Range(page.items) \subseteq A
    /\ page.items = <<>> => A = {}
    /\ page.has_next => page.items # <<>> /\ page.next_cursor = TokenOf(page.items[Len(page.items)])
    /\ page.has_previous => page.items # <<>> /\ page.previous_cursor = TokenOf(page.items[1])
    /\ direction = "next" =>
         /\ ~page.has_next => A \subseteq Range(page.items)
         /\ \A a \in A \ Range(page.items), b \in Range(page.items) : Below(b, a)
    /\ direction = "prev" =>
         /\ ~page.has_previous => A \subseteq Range(page.items)
         /\ \A a \in A \ Range(page.items), b \in Range(page.items) : Below(a, b)

LEMMA PageTakes ==
    ASSUME NEW found, found \subseteq Pos, IsFiniteSet(found), NEW params \in Request
    PROVE  Taken(paginate_by_cursor(found, params, FALSE), Beyond(found, params, FALSE), params.direction)
  <1> DEFINE d == FetchDescending(params, FALSE)
  <1>1. PICK page, items, A : /\ page = paginate_by_cursor(found, params, FALSE)
                              /\ items = ItemsOf(found, params, FALSE)
                              /\ A = Beyond(found, params, FALSE)
    OBVIOUS
  <1>2. PageSound(page, items, found, params, FALSE)
    BY <1>1, PageIsSound
  <1>3. Nearest(items, A, d, FALSE)
    BY <1>1, NearestItems
  <1>4. Len(items) = IF Cardinality(A) < params.limit THEN Cardinality(A) ELSE params.limit
    BY <1>1, NearestItems
  <1>5. A \subseteq found /\ A \subseteq Pos /\ IsFiniteSet(A) /\ Cardinality(A) \in Nat
    BY <1>1, BeyondType
  <1>6. page.items = items
    BY <1>2 DEF PageSound
  <1>7. Ascending(items) /\ Range(items) \subseteq A
    BY <1>3, BelowIsBefore DEF Nearest, Ascending
  <1>8. ASSUME items = <<>> PROVE A = {} /\ ~page.has_next /\ ~page.has_previous
    <2>1. page = EmptyPage
      BY <1>2, <1>8 DEF PageSound
    <2>2. Len(items) = 0 /\ params.limit \in Nat \ {0}
      BY <1>8 DEF Request
    <2>3. Cardinality(A) = 0
      BY <1>4, <1>5, <2>2
    <2>4. A = {}
      BY <1>5, <2>3, FS_EmptySet
    <2>5. QED
      BY <2>1, <2>4 DEF EmptyPage
  <1>9. ASSUME NEW a \in A \ Range(items), items # <<>>
        PROVE  /\ params.direction = "next" => page.has_next /\ \A b \in Range(items) : Below(b, a)
               /\ params.direction = "prev" => page.has_previous /\ \A b \in Range(items) : Below(a, b)
    <2>1. \A b \in Range(items) : Before(b, a, d)
      BY <1>3 DEF Nearest
    <2>2. CASE params.direction = "next"
      <3>1. d = FALSE
        BY <2>2 DEF FetchDescending
      <3>2. \A b \in Range(items) : Before(b, a, FALSE)
        BY <2>1, <3>1
      <3>3. page.has_next
        BY <1>2, <1>5, <1>9, <3>2 DEF PageSound
      <3>4. QED
        BY <2>2, <3>2, <3>3, BelowIsBefore
    <2>3. CASE params.direction = "prev"
      <3>1. d = TRUE
        BY <2>3 DEF FetchDescending
      <3>2. \A b \in Range(items) : Below(a, b)
        BY <2>1, <3>1 DEF Before
      <3>3. \A b \in Range(items) : Before(a, b, FALSE)
        BY <3>2, BelowIsBefore
      <3>4. page.has_previous
        BY <1>2, <1>5, <1>9, <2>3, <3>3 DEF PageSound
      <3>5. QED
        BY <2>3, <3>2, <3>4
    <2>4. QED
      BY <2>2, <2>3 DEF Request
  <1>10. /\ page.has_next => items # <<>> /\ page.next_cursor = TokenOf(items[Len(items)])
         /\ page.has_previous => items # <<>> /\ page.previous_cursor = TokenOf(items[1])
    BY <1>2, <1>8 DEF PageSound, TokenOf
  <1>11. Taken(page, A, params.direction)
    BY <1>6, <1>7, <1>8, <1>9, <1>10 DEF Taken
  <1>12. QED
    BY <1>1, <1>11

\* Where the walk stands: what was seen, and what matched all along lies in it
\* or beyond its end.
AtEnd(seen, steady) ==
    Ascending(seen) /\ (seen # <<>> => \A x \in steady : x \in Range(seen) \/ Below(seen[Len(seen)], x))
AtStart(seen, steady) ==
    Ascending(seen) /\ (seen # <<>> => \A x \in steady : x \in Range(seen) \/ Below(x, seen[1]))

LEMMA ForwardPage ==
    ASSUME NEW found, found \subseteq Pos, IsFiniteSet(found), NEW limit \in Nat \ {0},
           NEW seen, NEW steady, AtEnd(seen, steady), NEW steady2, steady2 \subseteq found,
           seen # <<>> => steady2 \subseteq steady,
           NEW cursor, cursor = (IF seen = <<>> THEN NoCursor ELSE TokenOf(seen[Len(seen)])),
           NEW page, page = paginate_by_cursor(found, CursorParams(cursor, "next", limit), FALSE)
    PROVE  GoingOn(page, seen \o page.items, steady2)
  <1> DEFINE params == CursorParams(cursor, "next", limit)
             A == Beyond(found, params, FALSE)
  <1>1. PICK items : items = page.items
    OBVIOUS
  <1>2. seen # <<>> => seen[Len(seen)] \in Pos
    BY Ends DEF AtEnd
  <1>3. cursor \in {NoCursor} \union CursorToken
    BY <1>2, TokenRead
  <1>4. params \in Request /\ params.direction = "next" /\ params.cursor = cursor
    BY <1>3 DEF CursorParams, Request
  <1>5. Taken(page, A, "next")
    <2> HIDE DEF params
    <2>1. page = paginate_by_cursor(found, params, FALSE)
      BY DEF params
    <2>2. QED
      BY <1>4, <2>1, PageTakes
  <1>6. A = {x \in found : seen # <<>> => Below(seen[Len(seen)], x)}
    <2>1. FetchDescending(params, FALSE) = FALSE
      BY <1>4 DEF FetchDescending
    <2>2. A = {x \in found : params.cursor # NoCursor => Before(decode_cursor(params.cursor), x, FALSE)}
      <3> HIDE DEF params
      <3>1. QED
        BY <2>1, BeyondIs
    <2>3. CASE seen = <<>>
      BY <1>4, <2>2, <2>3
    <2>4. CASE seen # <<>>
      <3>1. cursor # NoCursor /\ decode_cursor(cursor) = seen[Len(seen)]
        BY <1>2, <2>4, TokenRead, PaginationAssumption
      <3>2. A = {x \in found : Before(seen[Len(seen)], x, FALSE)}
        BY <1>4, <2>2, <3>1
      <3>3. QED
        BY <2>4, <3>2, BelowIsBefore
    <2>5. QED
      BY <2>3, <2>4
  <1> HIDE DEF A, params
  <1>7. Ascending(seen) /\ Ascending(items) /\ Range(items) \subseteq A
    BY <1>1, <1>5 DEF AtEnd, Taken
  <1>8. ASSUME NEW x \in Range(seen), NEW y \in A PROVE Below(x, y)
    <2>1. seen \in Seq(Pos) /\ seen # <<>>
      BY <1>7 DEF Ascending, Range
    <2>2. x \in Pos /\ y \in Pos /\ seen[Len(seen)] \in Pos
      BY <1>2, <1>6, <2>1, InRange
    <2>3. Below(seen[Len(seen)], y)
      BY <1>6, <2>1
    <2>4. x = seen[Len(seen)] \/ Below(x, seen[Len(seen)])
      BY <1>7, <2>1, Ends
    <2>5. QED
      BY <2>2, <2>3, <2>4, BelowTransitive
  <1>9. PICK u : u = seen \o items
    OBVIOUS
  <1>10. /\ Ascending(u) /\ Range(u) = Range(seen) \union Range(items)
         /\ items # <<>> => u # <<>> /\ u[Len(u)] = items[Len(items)]
    BY <1>7, <1>8, <1>9, Join
  <1>11. ASSUME NEW x \in steady2 PROVE x \in Range(seen) \/ x \in A
    BY <1>6 DEF AtEnd
  <1>12. ASSUME page.has_next
         PROVE  /\ u # <<>> /\ page.next_cursor = TokenOf(u[Len(u)])
                /\ \A x \in steady2 : x \in Range(u) \/ Below(u[Len(u)], x)
    <2>1. items # <<>> /\ page.next_cursor = TokenOf(items[Len(items)])
      BY <1>1, <1>5, <1>12 DEF Taken
    <2>2. items[Len(items)] \in Range(items)
      BY <1>7, <2>1, InRange DEF Ascending
    <2>3. \A a \in A \ Range(items) : Below(items[Len(items)], a)
      BY <1>1, <1>5, <2>2 DEF Taken
    <2>4. QED
      BY <1>10, <1>11, <2>1, <2>3
  <1>13. ASSUME ~page.has_next PROVE steady2 \subseteq Range(u)
    BY <1>1, <1>5, <1>10, <1>11, <1>13 DEF Taken
  <1>14. page.has_previous => items # <<>> /\ page.previous_cursor = TokenOf(items[1])
    BY <1>1, <1>5 DEF Taken
  <1>15. ASSUME items # <<>>, NEW x \in Range(u) PROVE x \in Range(items) \/ Below(x, items[1])
    <2>1. items[1] \in A
      BY <1>7, <1>15, InRange DEF Ascending
    <2>2. QED
      BY <1>8, <1>10, <2>1
  <1>16. GoingOn(page, u, steady2)
    BY <1>1, <1>7, <1>10, <1>12, <1>13, <1>14, <1>15 DEF GoingOn
  <1>17. QED
    BY <1>1, <1>9, <1>16

LEMMA BackwardPage ==
    ASSUME NEW found, found \subseteq Pos, IsFiniteSet(found), NEW limit \in Nat \ {0},
           NEW seen, seen # <<>>, NEW steady, AtStart(seen, steady),
           NEW steady2, steady2 \subseteq found, steady2 \subseteq steady,
           NEW page, page = paginate_by_cursor(found, CursorParams(TokenOf(seen[1]), "prev", limit), FALSE)
    PROVE  GoingBack(page, page.items \o seen, steady2)
  <1> DEFINE params == CursorParams(TokenOf(seen[1]), "prev", limit)
             A == Beyond(found, params, FALSE)
  <1>1. PICK items : items = page.items
    OBVIOUS
  <1>2. seen[1] \in Pos
    BY Ends DEF AtStart
  <1>3. params \in Request /\ params.direction = "prev" /\ params.cursor = TokenOf(seen[1])
    BY <1>2, TokenRead DEF CursorParams, Request
  <1>4. Taken(page, A, "prev")
    <2> HIDE DEF params
    <2>1. page = paginate_by_cursor(found, params, FALSE)
      BY DEF params
    <2>2. QED
      BY <1>3, <2>1, PageTakes
  <1>5. A = {x \in found : Below(x, seen[1])}
    <2>1. FetchDescending(params, FALSE) = TRUE
      BY <1>3 DEF FetchDescending
    <2>2. A = {x \in found : params.cursor # NoCursor => Before(decode_cursor(params.cursor), x, TRUE)}
      <3> HIDE DEF params
      <3>1. QED
        BY <2>1, BeyondIs
    <2>3. params.cursor # NoCursor /\ decode_cursor(params.cursor) = seen[1]
      BY <1>2, <1>3, TokenRead, PaginationAssumption
    <2>4. A = {x \in found : Before(seen[1], x, TRUE)}
      BY <2>2, <2>3
    <2>5. QED
      BY <2>4 DEF Before
  <1> HIDE DEF A, params
  <1>6. Ascending(seen) /\ Ascending(items) /\ Range(items) \subseteq A
    BY <1>1, <1>4 DEF AtStart, Taken
  <1>7. ASSUME NEW x \in A, NEW y \in Range(seen) PROVE Below(x, y)
    <2>1. seen \in Seq(Pos)
      BY <1>6 DEF Ascending
    <2>2. x \in Pos /\ y \in Pos
      BY <1>5, <2>1, InRange
    <2>3. Below(x, seen[1])
      BY <1>5
    <2>4. y = seen[1] \/ Below(seen[1], y)
      BY <1>6, Ends
    <2>5. QED
      BY <1>2, <2>2, <2>3, <2>4, BelowTransitive
  <1>8. PICK u : u = items \o seen
    OBVIOUS
  <1>9. /\ Ascending(u) /\ Range(u) = Range(items) \union Range(seen)
        /\ items # <<>> => u # <<>> /\ u[1] = items[1]
    BY <1>6, <1>7, <1>8, Join
  <1>10. ASSUME NEW x \in steady2 PROVE x \in Range(seen) \/ x \in A
    BY <1>5 DEF AtStart
  <1>11. ASSUME page.has_previous
         PROVE  /\ u # <<>> /\ page.previous_cursor = TokenOf(u[1])
                /\ \A x \in steady2 : x \in Range(u) \/ Below(x, u[1])
    <2>1. items # <<>> /\ page.previous_cursor = TokenOf(items[1])
      BY <1>1, <1>4, <1>11 DEF Taken
    <2>2. items[1] \in Range(items)
      BY <1>6, <2>1, InRange DEF Ascending
    <2>3. \A a \in A \ Range(items) : Below(a, items[1])
      BY <1>1, <1>4, <2>2 DEF Taken
    <2>4. QED
      BY <1>9, <1>10, <2>1, <2>3
  <1>12. ASSUME ~page.has_previous PROVE steady2 \subseteq Range(u)
    BY <1>1, <1>4, <1>9, <1>10, <1>12 DEF Taken
  <1>13. GoingBack(page, u, steady2)
    BY <1>9, <1>11, <1>12 DEF GoingBack
  <1>14. QED
    BY <1>1, <1>8, <1>13

\* What a search finds is a finite set of positions.
LEMMA FoundType ==
    ASSUME NEW f, NEW index
    PROVE  search_candidates(f, index) \subseteq Pos /\ IsFiniteSet(search_candidates(f, index))
  <1> DEFINE F == search_candidates(f, index)
             g == [x \in F |-> x[1]]
  <1>1. \A x \in F : \E c \in Candidates : x = <<c, c>>
    BY DEF search_candidates
  <1>2. Candidates \subseteq Nat /\ IsFiniteSet(Candidates)
    BY EncryptionAssumption
  <1>3. F \subseteq Pos
    BY <1>1, <1>2 DEF Pos
  <1> HIDE DEF F
  <1>4. g \in Injection(F, Candidates)
    <2>1. \A x \in F : x[1] \in Candidates /\ x = <<x[1], x[1]>>
      BY <1>1
    <2>2. g \in [F -> Candidates]
      BY <2>1
    <2>3. \A x, y \in F : g[x] = g[y] => x = y
      BY <2>1
    <2>4. QED
      BY <2>2, <2>3 DEF Injection, IsInjective
  <1>5. IsFiniteSet(F)
    BY <1>2, <1>4, FS_Injection
  <1>6. QED
    BY <1>3, <1>5 DEF F

LEMMA PageLimitType == PageLimit \in Nat \ {0}
  BY SearchAssumption, PaginationAssumption

LEMMA WalkInit == Init => WInv
  BY DEF Init, NoWalk, WInv

LEMMA FirstPageWalk ==
    ASSUME WInv, NEW i, NEW f, FirstPage(i, f)
    PROVE  WInv'
  <1>1. PICK found : found = search_candidates(f, Keyring[version[i]].index)
    OBVIOUS
  <1>2. PICK page : page = paginate_by_cursor(found, CursorParams(NoCursor, "next", PageLimit), FALSE)
    OBVIOUS
  <1>3. ~walk.on /\ walk = NoWalk /\ walk.seen = <<>>
    BY DEF FirstPage, WInv, NoWalk
  <1>4. walk' = [on |-> TRUE, search |-> f, direction |-> "next", page |-> page,
                 seen |-> <<>> \o page.items, steady |-> found]
    BY <1>1, <1>2, <1>3 DEF FirstPage, Page, CursorParams
  <1>5. found \subseteq Pos /\ IsFiniteSet(found)
    BY <1>1, FoundType
  <1>6. AtEnd(<<>>, {})
    BY DEF AtEnd, Ascending
  <1>7. GoingOn(page, <<>> \o page.items, found)
    <2>1. NoCursor = IF <<>> = <<>> THEN NoCursor ELSE TokenOf(<<>>[Len(<<>>)])
      OBVIOUS
    <2>2. PICK seen : seen = <<>>
      OBVIOUS
    <2>3. NoCursor = IF seen = <<>> THEN NoCursor ELSE TokenOf(seen[Len(seen)])
      BY <2>2
    <2>4. AtEnd(seen, {}) /\ (seen # <<>> => found \subseteq {})
      BY <1>6, <2>2
    <2>5. GoingOn(page, seen \o page.items, found)
      BY <1>2, <1>5, <2>3, <2>4, ForwardPage, PageLimitType
    <2>6. QED
      BY <2>2, <2>5
  <1>8. QED
    BY <1>4, <1>7 DEF WInv

LEMMA NextPageWalk ==
    ASSUME WInv, NEW i, NextPage(i)
    PROVE  WInv'
  <1>1. PICK found : found = search_candidates(walk.search, Keyring[version[i]].index)
    OBVIOUS
  <1>2. PICK page : page = paginate_by_cursor(found, CursorParams(walk.page.next_cursor, "next", PageLimit), FALSE)
    OBVIOUS
  <1>3. PICK seen, steady : seen = walk.seen /\ steady = walk.steady
    OBVIOUS
  <1>4. walk.on /\ walk.direction = "next" /\ walk.page.has_next /\ GoingOn(walk.page, seen, steady)
    BY <1>3 DEF NextPage, WInv
  <1>5. walk' = [on |-> TRUE, search |-> walk.search, direction |-> "next", page |-> page,
                 seen |-> seen \o page.items, steady |-> steady \cap found]
    BY <1>1, <1>2, <1>3, <1>4 DEF NextPage, Page, CursorParams
  <1>6. found \subseteq Pos /\ IsFiniteSet(found)
    BY <1>1, FoundType
  <1>7. AtEnd(seen, steady)
    BY <1>4 DEF GoingOn, AtEnd
  <1>8. walk.page.next_cursor = IF seen = <<>> THEN NoCursor ELSE TokenOf(seen[Len(seen)])
    BY <1>4 DEF GoingOn
  <1>9. GoingOn(page, seen \o page.items, steady \cap found)
    <2>1. steady \cap found \subseteq found /\ steady \cap found \subseteq steady
      OBVIOUS
    <2>2. QED
      BY <1>2, <1>6, <1>7, <1>8, <2>1, ForwardPage, PageLimitType
  <1>10. QED
    BY <1>5, <1>9 DEF WInv

LEMMA TurnWalk ==
    ASSUME WInv, Turn
    PROVE  WInv'
  <1>1. PICK page, seen, steady : page = walk.page /\ seen = walk.seen /\ steady = walk.steady
    OBVIOUS
  <1>2. walk.on /\ walk.direction = "next" /\ ~page.has_next /\ page.has_previous
    BY <1>1 DEF Turn
  <1>3. GoingOn(page, seen, steady)
    BY <1>1, <1>2 DEF WInv
  <1>4. GoingBack(page, page.items, steady)
    BY <1>2, <1>3 DEF GoingOn, GoingBack
  <1>5. walk' = [walk EXCEPT !.direction = "prev", !.seen = page.items]
    BY <1>1 DEF Turn
  <1>6. walk' = [on |-> TRUE, search |-> walk.search, direction |-> "prev", page |-> page,
                 seen |-> page.items, steady |-> steady]
    <2>1. PICK f, o, p, s, t, d : walk = [on |-> o, search |-> f, direction |-> d, page |-> p, seen |-> s, steady |-> t]
      BY DEF WInv
    <2>2. QED
      BY <1>1, <1>2, <1>5, <2>1
  <1>7. QED
    BY <1>4, <1>6 DEF WInv

LEMMA PreviousPageWalk ==
    ASSUME WInv, NEW i, PreviousPage(i)
    PROVE  WInv'
  <1>1. PICK found : found = search_candidates(walk.search, Keyring[version[i]].index)
    OBVIOUS
  <1>2. PICK page : page = paginate_by_cursor(found, CursorParams(walk.page.previous_cursor, "prev", PageLimit), FALSE)
    OBVIOUS
  <1>3. PICK seen, steady : seen = walk.seen /\ steady = walk.steady
    OBVIOUS
  <1>4. walk.on /\ walk.direction = "prev" /\ walk.page.has_previous /\ GoingBack(walk.page, seen, steady)
    BY <1>3 DEF PreviousPage, WInv
  <1>5. walk' = [on |-> TRUE, search |-> walk.search, direction |-> "prev", page |-> page,
                 seen |-> page.items \o seen, steady |-> steady \cap found]
    BY <1>1, <1>2, <1>3, <1>4 DEF PreviousPage, Page, CursorParams
  <1>6. found \subseteq Pos /\ IsFiniteSet(found)
    BY <1>1, FoundType
  <1>7. AtStart(seen, steady) /\ seen # <<>> /\ walk.page.previous_cursor = TokenOf(seen[1])
    BY <1>4 DEF GoingBack, AtStart
  <1>8. GoingBack(page, page.items \o seen, steady \cap found)
    <2>1. steady \cap found \subseteq found /\ steady \cap found \subseteq steady
      OBVIOUS
    <2>2. page = paginate_by_cursor(found, CursorParams(TokenOf(seen[1]), "prev", PageLimit), FALSE)
      BY <1>2, <1>7
    <2>3. QED
      BY <1>6, <1>7, <2>1, <2>2, BackwardPage, PageLimitType
  <1>9. QED
    BY <1>5, <1>8 DEF WInv

LEMMA WalkStep == ASSUME WInv, [Next]_vars PROVE WInv'
  <1>1. CASE UNCHANGED walk
    BY <1>1 DEF WInv
  <1>2. ASSUME NEW i \in Instances, NEW f \in Searches, FirstPage(i, f) PROVE WInv'
    BY <1>2, FirstPageWalk
  <1>3. ASSUME NEW i \in Instances, NextPage(i) PROVE WInv'
    BY <1>3, NextPageWalk
  <1>4. ASSUME NEW i \in Instances, PreviousPage(i) PROVE WInv'
    BY <1>4, PreviousPageWalk
  <1>5. CASE Turn
    BY <1>5, TurnWalk
  <1>6. QED
    BY <1>1, <1>2, <1>3, <1>4, <1>5 DEF Next, vars

LEMMA WalkImplies == WInv => PagesExact
  <1> SUFFICES ASSUME WInv PROVE PagesExact
    OBVIOUS
  <1>1. Ascending(walk.seen)
    <2>1. Ascending(<<>>)
      BY DEF Ascending
    <2>2. CASE ~walk.on
      <3>1. walk.seen = <<>>
        BY <2>2 DEF WInv, NoWalk
      <3>2. QED
        BY <2>1, <3>1
    <2>3. CASE walk.on
      BY <2>3 DEF WInv, GoingOn, GoingBack
    <2>4. QED
      BY <2>2, <2>3
  <1>2. PICK s : s = walk.seen
    OBVIOUS
  <1>3. DOMAIN s = 1..Len(s) /\ s \in Seq(Pos) /\ Len(s) \in Nat
    BY <1>1, <1>2 DEF Ascending
  <1>4. \A m, n \in DOMAIN s : m < n => Below(s[m], s[n])
    BY <1>1, <1>2, <1>3 DEF Ascending
  <1>5. IsInjective(s)
    <2>1. ASSUME NEW a \in DOMAIN s, NEW b \in DOMAIN s, s[a] = s[b] PROVE a = b
      <3>1. a \in Int /\ b \in Int /\ s[a] \in Pos /\ s[b] \in Pos
        BY <1>3
      <3>2. ~(a < b) /\ ~(b < a)
        BY <1>4, <2>1, <3>1, NoneBeforeItself, BelowIsBefore
      <3>3. QED
        BY <3>1, <3>2
    <2>2. QED
      BY <2>1 DEF IsInjective
  <1>6. (walk.on /\ walk.direction = "next" /\ ~walk.page.has_next) => walk.steady \subseteq Range(walk.seen)
    BY DEF WInv, GoingOn
  <1>7. (walk.on /\ walk.direction = "prev" /\ ~walk.page.has_previous) => walk.steady \subseteq Range(walk.seen)
    BY DEF WInv, GoingBack
  <1>8. QED
    BY <1>2, <1>4, <1>5, <1>6, <1>7 DEF PagesExact

\* The cursor of a walk is always the edge of what it has shown, whatever
\* requests, jobs, sweeps and deployments change between two pages
\* (candidates.py, search_candidates).
THEOREM WalkInvariant == Spec => []WInv
  <1>1. Init => WInv
    BY WalkInit
  <1>2. WInv /\ [Next]_vars => WInv'
    BY WalkStep
  <1>3. QED
    BY <1>1, <1>2, PTL DEF Spec

\* A walk through the pages of a search shows no candidate twice and misses none
\* that matched all along, and every single page is the right one
\* (candidates.py, search_candidates; pagination.py, paginate_by_cursor).
THEOREM PagesAreSound == Spec => []PagesSound
  <1>1. WInv => PagesSound
    BY WalkImplies, PagesAreRight DEF PagesSound
  <1>2. QED
    BY <1>1, WalkInvariant, PTL
=============================================================================
