---------------------------- MODULE BackupProofs ----------------------------
(***************************************************************************)
(* Theorems about the database as an operator sees it.  Backup, for any    *)
(* number of processes, schedules, segments and failures and any length of *)
(* the run: the newest full backup reaches what was shipped, retention     *)
(* keeps its promises, and a restore gets to the segment that was reported *)
(* when it began.  TenantMigration, for any database, batch size, number   *)
(* of runs cut off and rows written meanwhile: a migration that reaches    *)
(* its end is complete and has every row in the organisation that owns it, *)
(* and none is blocked by what an earlier run left; once the policies are  *)
(* in force a request meets only the rows of the caller's organisation, or *)
(* the caller's own, and is never refused the rows it must write.          *)
(***************************************************************************)
EXTENDS Backup, TenantMigration, FiniteSetTheorems, WellFoundedInduction, TLAPS

(***************************************************************************)
(* The inductive invariant of the backups                                  *)
(***************************************************************************)

Item == [kind : {"full", "wal", "resumes"}, path : Nat, created : Nat]

Todo == {UploadOrder, <<"dump", "manifest">>, <<"manifest">>, <<>>}

Process == [cmd : {"none", "full", "wal", "resumes", "retention"},
            pc : {"idle", "lock", "work", "archiving", "upload", "unlink", "plan", "delete"},
            stamp : Nat, upto : Nat, todo : Todo, batch : SUBSET Nat, plan : SUBSET Item]

Dump == [files : SUBSET Files, upto : Nat]

Recovery == [pc : {"idle", "replay", "promoted", "failed"}, base : Nat, next : Nat,
             latest : BOOLEAN, goal : Nat, newest : Nat, cut : BOOLEAN]

Shape ==
    /\ now \in 0 .. MaxTime
    /\ seg \in 1 .. MaxSeg /\ archived \in 1 .. seg
    /\ archive \subseteq Nat /\ (\A g \in archive : 1 <= g /\ g < archived)
    /\ DOMAIN full \subseteq Nat /\ full \in [DOMAIN full -> Dump]
    /\ \A s \in DOMAIN full : s <= now /\ s \in taken /\ full[s].upto < seg
    /\ DOMAIN wal \subseteq Nat /\ wal \in [DOMAIN wal -> Nat]
    /\ \A g \in DOMAIN wal : g < archived /\ wal[g] <= now
    /\ resumes \subseteq 0 .. now /\ taken \subseteq 0 .. now
    /\ lock \in Jobs \cup {NoJob}
    /\ job \in [Jobs -> Process] /\ restore \in Recovery
    /\ shipped \in Nat /\ shipped < archived

\* The lock is held from its acquisition to the end of the upload, by one process.
Held == {"work", "archiving", "upload", "unlink"}

Locked == \A j \in Jobs : (job[j].pc \in Held <=> lock = j) /\ job[j].stamp <= now

\* Some full backup is newer than x.
Above(x) == \E t \in DOMAIN full : x < t

\* A full backup that retention may have removed, whatever happens to it next.
Old(s) == Above(s) /\ now - s > Daily

\* One that retention does not promise to keep.
Aged(s) ==
    /\ now - s > Daily
    /\ now - s > Monthly \/ \E t \in taken : Month(t) = Month(s) /\ t < s

\* A full backup that recovery is promised for.
Relevant(s) == ~Above(s) \/ now - s <= Hourly

\* No such backup needs segment g.
Past(g) == \A s \in DOMAIN full : Relevant(s) => g <= full[s].upto

\* Full backup s has its base, or retention was allowed to take it.
Kept(s) == (s \in DOMAIN full /\ "base" \in full[s].files) \/ Old(s)

\* What is stored: a backup holds all segments that were shipped before it was
\* asked for; those after it, for a backup that matters, are somewhere.
Stored ==
    /\ \A s \in DOMAIN full :
         /\ Kept(s)
         /\ \A g \in DOMAIN wal : wal[g] < s => g <= full[s].upto
         /\ Relevant(s) => \A g \in Nat : full[s].upto < g /\ g < archived
                                            => g \in archive \/ g \in DOMAIN wal
    /\ \A s \in taken : s \in DOMAIN full \/ Aged(s)
    /\ \A g \in archive : shipped < g

Uploading(j) == job[j].cmd = "full" /\ job[j].pc = "upload"

\* While a full backup is uploaded nothing is shipped: all that is offsite, or
\* planned to be deleted there, is in it.
FullJob(j) ==
    Uploading(j) =>
        /\ job[j].upto < seg
        /\ \A g \in DOMAIN wal : g <= job[j].upto
        /\ \A k \in Jobs : \A i \in job[k].plan : i.kind = "wal" => i.path <= job[j].upto
        /\ \A g \in Nat : job[j].upto < g /\ g < archived => g \in archive
        /\ job[j].todo # UploadOrder => Kept(job[j].stamp)

\* A run of wal ships every segment it is going to report.
WalJob(j) ==
    /\ job[j].cmd = "wal" /\ job[j].pc \in {"archiving", "upload", "unlink"} =>
         job[j].upto < seg /\ shipped <= job[j].upto
    /\ job[j].cmd = "wal" /\ job[j].pc \in {"upload", "unlink"} =>
         /\ job[j].upto < archived
         /\ \A g \in archive : g <= job[j].upto => g \in job[j].batch
         /\ \A g \in job[j].batch : 1 <= g /\ g < archived
    /\ job[j].cmd = "wal" /\ job[j].pc = "unlink" =>
         job[j].batch # {} /\ \A g \in job[j].batch :
              (\A h \in job[j].batch : g <= h) => g \in DOMAIN wal \/ Past(g)

\* What is planned to be deleted is not needed, and never will be.
PlanFull(i) == Above(i.path) /\ Aged(i.path)

PlanWal(i) ==
    /\ i.path < archived
    /\ now - i.created > Hourly
    /\ Above(i.created) \/ \A s \in DOMAIN full : i.path <= full[s].upto
    /\ \A s \in DOMAIN full : i.created < s => i.path <= full[s].upto

Planned ==
    \A j \in Jobs : \A i \in job[j].plan :
        (i.kind = "full" => PlanFull(i)) /\ (i.kind = "wal" => PlanWal(i))

\* A restore to the latest moment, while no newer full backup is there.
Current == restore.latest /\ ~Above(restore.newest)

Replay ==
    /\ restore.pc = "replay" /\ Current =>
         /\ restore.newest \in DOMAIN full
         /\ restore.goal <= shipped
         /\ \A g \in Nat : restore.next <= g /\ g <= restore.goal => g \in DOMAIN wal
         /\ \A g \in DOMAIN wal : wal[g] < restore.newest => g < restore.next
         /\ \A j \in Jobs : \A i \in job[j].plan : i.kind = "wal" => i.path < restore.next
    /\ restore.pc = "promoted" /\ Current /\ ~restore.cut => restore.goal < restore.next

IInv ==
    /\ Shape /\ Locked /\ Stored /\ Planned /\ Replay
    /\ \A j \in Jobs : FullJob(j) /\ WalJob(j)

(***************************************************************************)
(* Least and greatest elements, and the items of a listing                 *)
(***************************************************************************)

LEMMA Least ==
    ASSUME NEW S, S \subseteq Nat, S # {}
    PROVE  \E n \in S : \A m \in S : n <= m
  <1>1. IsWellFoundedOn(OpToRel(<, Nat), Nat)
    BY NatLessThanWellFounded
  <1>2. PICK n \in S : \A m \in S : ~(<<m, n>> \in OpToRel(<, Nat))
    BY <1>1, WFMin
  <1>3. \A m \in S : m \in Nat /\ n \in Nat /\ ~(m < n)
    BY <1>2 DEF OpToRel
  <1>4. \A m \in S : n <= m
    BY <1>3
  <1>5. QED
    BY <1>4

LEMMA MinOf ==
    ASSUME NEW S, S \subseteq Nat, S # {}
    PROVE  Min(S) \in S /\ \A m \in S : Min(S) <= m
  <1>1. \E n \in S : \A m \in S : n =< m
    BY Least
  <1>2. QED
    BY <1>1 DEF Min

LEMMA MaxOf ==
    ASSUME NEW S, S \subseteq Nat, S # {}, NEW b \in Nat, \A x \in S : x <= b
    PROVE  Max(S) \in S /\ \A m \in S : m <= Max(S)
  <1> DEFINE U == {u \in Nat : \A x \in S : x <= u}
  <1>1. PICK u \in U : \A v \in U : u <= v
    <2>1. U \subseteq Nat /\ b \in U
      OBVIOUS
    <2>2. QED
      BY <2>1, Least
  <1>2. u \in S
    <2> SUFFICES ASSUME u \notin S PROVE FALSE
      OBVIOUS
    <2>1. PICK y \in S : y \in Nat
      OBVIOUS
    <2>2. u \in Nat /\ y <= u /\ y # u
      OBVIOUS
    <2>3. u - 1 \in Nat /\ \A x \in S : x <= u - 1
      <3>1. u - 1 \in Nat
        BY <2>1, <2>2
      <3>2. ASSUME NEW x \in S PROVE x <= u - 1
        <4>1. x \in Nat /\ x <= u /\ x # u
          OBVIOUS
        <4>2. QED
          BY <2>2, <4>1
      <3>3. QED
        BY <3>1, <3>2
    <2>4. u <= u - 1
      BY <1>1, <2>3
    <2>5. QED
      BY <2>2, <2>4
  <1>3. \E x \in S : \A y \in S : x >= y
    <2>1. \A y \in S : y \in Nat /\ u \in Nat /\ y <= u
      OBVIOUS
    <2>2. QED
      BY <1>2, <2>1
  <1>4. Max(S) \in S /\ \A y \in S : Max(S) >= y
    BY <1>3 DEF Max
  <1>5. \A y \in S : Max(S) \in Nat /\ y \in Nat /\ Max(S) >= y
    BY <1>4
  <1>6. QED
    BY <1>4, <1>5

\* The deletion of a non-empty plan always finds its first item.
LEMMA FirstIn ==
    ASSUME NEW plan, plan \subseteq Item, plan # {}
    PROVE  FirstOf(plan) \in plan
  <1>0. \A i \in plan : i.kind \in {"full", "wal", "resumes"} /\ i.path \in Nat /\ i.created \in Nat
    BY DEF Item
  <1>1. PICK A \in SUBSET plan :
          /\ A # {}
          /\ \E kd : /\ \A i \in plan : i \in A <=> i.kind = kd
                     /\ \A i \in plan : i.kind # kd =>
                          \/ kd = "full" /\ i.kind # "full"
                          \/ kd = "resumes" /\ i.kind = "wal"
    <2> DEFINE Of(kd) == {i \in plan : i.kind = kd}
    <2>1. CASE Of("full") # {}
      <3>1. Of("full") \in SUBSET plan /\ \A i \in plan : i \in Of("full") <=> i.kind = "full"
        OBVIOUS
      <3>2. QED
        BY <2>1, <3>1
    <2>2. CASE Of("full") = {} /\ Of("resumes") # {}
      <3>1. Of("resumes") \in SUBSET plan /\ \A i \in plan : i \in Of("resumes") <=> i.kind = "resumes"
        OBVIOUS
      <3>2. \A i \in plan : i.kind # "resumes" => i.kind = "wal"
        BY <1>0, <2>2
      <3>3. QED
        BY <2>2, <3>1, <3>2
    <2>3. CASE Of("full") = {} /\ Of("resumes") = {}
      <3>1. Of("wal") \in SUBSET plan /\ \A i \in plan : i \in Of("wal") <=> i.kind = "wal"
        OBVIOUS
      <3>2. \A i \in plan : i.kind = "wal"
        BY <1>0, <2>3
      <3>3. Of("wal") # {}
        BY <3>2
      <3>4. QED
        BY <3>1, <3>2, <3>3
    <2>4. QED
      BY <2>1, <2>2, <2>3
  <1>2. PICK c \in {i.created : i \in A} : \A m \in {i.created : i \in A} : c <= m
    <2>1. {i.created : i \in A} \subseteq Nat /\ {i.created : i \in A} # {}
      BY <1>0, <1>1
    <2>2. QED
      BY <2>1, Least
  <1>3. PICK p \in {i.path : i \in {k \in A : k.created = c}} :
          \A m \in {i.path : i \in {k \in A : k.created = c}} : p <= m
    <2>1. {i.path : i \in {k \in A : k.created = c}} \subseteq Nat
      BY <1>0, <1>1
    <2>2. {i.path : i \in {k \in A : k.created = c}} # {}
      BY <1>2
    <2>3. QED
      BY <2>1, <2>2, Least
  <1>4. PICK i \in A : i.created = c /\ i.path = p
    BY <1>3
  <1>5. ASSUME NEW k \in plan \ {i}
        PROVE  \/ i.kind = "full" /\ k.kind # "full"
               \/ i.kind = "resumes" /\ k.kind = "wal"
               \/ i.kind = k.kind /\ i.created < k.created
               \/ i.kind = k.kind /\ i.created = k.created /\ i.path < k.path
    <2>1. CASE k \notin A
      BY <1>1, <2>1
    <2>2. CASE k \in A
      <3>1. /\ k.kind = i.kind /\ k \in Item /\ i \in Item
            /\ k.created \in Nat /\ k.path \in Nat /\ c \in Nat /\ p \in Nat
        BY <1>0, <1>1, <1>4, <2>2
      <3>2. c <= k.created
        BY <1>2, <2>2
      <3>3. k.created = c => p <= k.path
        BY <1>3, <2>2
      <3>4. k.created = c => k.path # p
        BY <1>4, <1>5, <3>1 DEF Item
      <3>5. QED
        BY <1>4, <3>1, <3>2, <3>3, <3>4
    <2>3. QED
      BY <2>1, <2>2
  <1>6. i \in plan
    BY <1>1
  <1>7. QED
    BY <1>5, <1>6 DEF FirstOf

(***************************************************************************)
(* retention.py                                                            *)
(***************************************************************************)

\* One retention run over one kind of snapshot: the newest is kept, and a
\* second run finds nothing to delete.
LEMMA SnapshotsSettle ==
    ASSUME NEW S, S \subseteq Item, NEW b \in Nat, \A i \in S : i.created <= b, NEW t \in Nat,
           NEW E, E = ExpiredSnapshots(S, t)
    PROVE  /\ S # {} => /\ S \ E # {}
                        /\ Max(Created(S \ E)) = Max(Created(S))
           /\ ExpiredSnapshots(S \ E, t) = {}
  <1>0. \A i \in S : i.created \in Nat
    BY DEF Item
  <1>1. CASE S = {}
    BY <1>1 DEF ExpiredSnapshots
  <1>2. CASE S # {}
    <2>1. Created(S) \subseteq Nat /\ Created(S) # {} /\ \A x \in Created(S) : x <= b
      BY <1>0, <1>2 DEF Created
    <2>2. PICK mx : mx = Max(Created(S)) /\ mx \in Created(S) /\ \A x \in Created(S) : x <= mx
      BY <2>1, MaxOf
    <2>3. PICK i \in S : i.created = mx
      BY <2>2 DEF Created
    <2>4. i \in S \ E
      BY <2>2, <2>3 DEF ExpiredSnapshots
    <2>5. /\ Created(S \ E) \subseteq Created(S) /\ mx \in Created(S \ E)
      BY <2>3, <2>4 DEF Created
    <2>6. PICK my : /\ my = Max(Created(S \ E)) /\ my \in Created(S \ E)
                    /\ \A x \in Created(S \ E) : x <= my
      <3>1. Created(S \ E) \subseteq Nat /\ Created(S \ E) # {} /\ \A x \in Created(S \ E) : x <= b
        BY <2>1, <2>5
      <3>2. QED
        BY <3>1, MaxOf
    <2>7. mx = my
      <3>1. mx \in Nat /\ my \in Nat
        BY <2>1, <2>2, <2>5, <2>6
      <3>2. mx <= my /\ my <= mx
        BY <2>2, <2>5, <2>6
      <3>3. QED
        BY <3>1, <3>2
    <2>8. ASSUME NEW k \in ExpiredSnapshots(S \ E, t) PROVE FALSE
      <3>1. /\ k \in S /\ k \notin E /\ k.created # mx /\ ~(t - k.created <= Daily)
            /\ ~(k \in MonthlyRepresentatives(S \ E) /\ t - k.created <= Monthly)
        BY <2>6, <2>7, <2>8 DEF ExpiredSnapshots
      <3>2. k \in MonthlyRepresentatives(S) /\ t - k.created <= Monthly
        BY <2>2, <3>1 DEF ExpiredSnapshots
      <3>3. k \in MonthlyRepresentatives(S \ E)
        BY <3>1, <3>2 DEF MonthlyRepresentatives
      <3>4. QED
        BY <3>1, <3>2, <3>3
    <2>9. QED
      BY <2>2, <2>4, <2>6, <2>7, <2>8
  <1>3. QED
    BY <1>1, <1>2

\* The same for a whole inventory.
LEMMA PlanSettles ==
    ASSUME NEW items, items \subseteq Item, NEW b \in Nat, \A i \in items : i.created <= b,
           NEW t \in Nat
    PROVE  PlanDeletions(items \ PlanDeletions(items, t), t) = {}
  <1>1. PICK P, F, R, EF, ER :
          /\ P = PlanDeletions(items, t)
          /\ F = {i \in items : i.kind = "full"} /\ R = {i \in items : i.kind = "resumes"}
          /\ EF = ExpiredSnapshots(F, t) /\ ER = ExpiredSnapshots(R, t)
    OBVIOUS
  <1>2. P = WalExpired(items, t) \cup EF \cup ER
    BY <1>1 DEF PlanDeletions
  <1>3. EF \subseteq F /\ ER \subseteq R /\ \A i \in WalExpired(items, t) : i.kind = "wal"
    BY <1>1 DEF ExpiredSnapshots, WalExpired
  <1>4. {i \in items \ P : i.kind = "full"} = F \ EF
    BY <1>1, <1>2, <1>3
  <1>5. {i \in items \ P : i.kind = "resumes"} = R \ ER
    BY <1>1, <1>2, <1>3
  <1>6. /\ F \subseteq Item /\ (\A i \in F : i.created <= b)
        /\ R \subseteq Item /\ (\A i \in R : i.created <= b)
    BY <1>1
  <1>7. /\ F # {} => F \ EF # {} /\ Max(Created(F \ EF)) = Max(Created(F))
        /\ ExpiredSnapshots(F \ EF, t) = {}
    <2>1. EF = ExpiredSnapshots(F, t)
      BY <1>1
    <2>2. F # {} => F \ EF # {} /\ Max(Created(F \ EF)) = Max(Created(F))
      BY <1>6, <2>1, SnapshotsSettle
    <2>3. ExpiredSnapshots(F \ EF, t) = {}
      BY <1>6, <2>1, SnapshotsSettle
    <2>4. QED
      BY <2>2, <2>3
  <1>8. ExpiredSnapshots(R \ ER, t) = {}
    BY <1>1, <1>6, SnapshotsSettle
  <1>9. ASSUME NEW i \in WalExpired(items \ P, t) PROVE FALSE
    <2>1. /\ i \in items /\ i \notin P /\ i.kind = "wal" /\ t - i.created > Hourly
          /\ Created(F \ EF) = {} \/ i.created < Max(Created(F \ EF))
      BY <1>4, <1>9 DEF WalExpired
    <2>2. Created(F) = {} \/ i.created < Max(Created(F))
      <3>1. CASE F = {}
        BY <3>1 DEF Created
      <3>2. CASE F # {}
        <4>1. Created(F \ EF) # {}
          BY <3>2, <1>7 DEF Created
        <4>2. QED
          BY <4>1, <3>2, <1>7, <2>1
      <3>3. QED
        BY <3>1, <3>2
    <2>3. i \in WalExpired(items, t)
      BY <1>1, <2>1, <2>2 DEF WalExpired
    <2>4. QED
      BY <1>2, <2>1, <2>3
  <1>10. PlanDeletions(items \ P, t) = WalExpired(items \ P, t) \cup {} \cup {}
    BY <1>4, <1>5, <1>7, <1>8 DEF PlanDeletions
  <1>11. QED
    BY <1>1, <1>9, <1>10

LEMMA ListingItems ==
    ASSUME Shape
    PROVE  /\ Listing \subseteq Item /\ now \in Nat /\ \A i \in Listing : i.created <= now
           /\ \A i \in Listing : i.kind = "full" => i.path \in DOMAIN full /\ i.created = i.path
           /\ \A i \in Listing : i.kind = "wal" => i.path \in DOMAIN wal /\ i.created = wal[i.path]
           /\ Created({i \in Listing : i.kind = "full"}) = DOMAIN full
  <1>1. now \in Nat /\ \A s \in resumes : s \in Nat /\ s <= now
    BY BackupAssumption DEF Shape
  <1>2. ASSUME NEW i \in Listing
        PROVE  \/ \E s \in DOMAIN full : i = BackupItem("full", s, s)
               \/ \E s \in resumes : i = BackupItem("resumes", s, s)
               \/ \E g \in DOMAIN wal : i = BackupItem("wal", g, wal[g])
    BY <1>2 DEF Listing
  <1>3. ASSUME NEW i \in Listing
        PROVE  /\ i \in Item /\ i.created <= now
               /\ i.kind = "full" => i.path \in DOMAIN full /\ i.created = i.path
               /\ i.kind = "wal" => i.path \in DOMAIN wal /\ i.created = wal[i.path]
    <2>1. ASSUME NEW s \in DOMAIN full, i = BackupItem("full", s, s)
          PROVE  i \in Item /\ i.created <= now /\ i.kind = "full" /\ i.path = s /\ i.created = s
      BY <1>1, <2>1 DEF BackupItem, Item, Shape
    <2>2. ASSUME NEW s \in resumes, i = BackupItem("resumes", s, s)
          PROVE  i \in Item /\ i.created <= now /\ i.kind = "resumes"
      BY <1>1, <2>2 DEF BackupItem, Item
    <2>3. ASSUME NEW g \in DOMAIN wal, i = BackupItem("wal", g, wal[g])
          PROVE  i \in Item /\ i.created <= now /\ i.kind = "wal" /\ i.path = g /\ i.created = wal[g]
      BY <1>1, <2>3 DEF BackupItem, Item, Shape
    <2>4. QED
      BY <1>2, <2>1, <2>2, <2>3
  <1>4. \A s \in DOMAIN full : /\ BackupItem("full", s, s) \in Listing
                               /\ BackupItem("full", s, s).kind = "full"
                               /\ BackupItem("full", s, s).created = s
    BY DEF Listing, BackupItem
  <1>5. Created({i \in Listing : i.kind = "full"}) = DOMAIN full
    <2>1. \A s \in DOMAIN full : s \in Created({i \in Listing : i.kind = "full"})
      BY <1>4 DEF Created
    <2>2. \A x \in Created({i \in Listing : i.kind = "full"}) : x \in DOMAIN full
      BY <1>3 DEF Created
    <2>3. QED
      BY <2>1, <2>2
  <1>6. QED
    BY <1>1, <1>3, <1>5

\* Max(DOMAIN full) is the backup that none is above.
LEMMA Newest ==
    ASSUME Shape, DOMAIN full # {}
    PROVE  /\ Max(DOMAIN full) \in DOMAIN full /\ ~Above(Max(DOMAIN full))
           /\ \A s \in DOMAIN full : s <= Max(DOMAIN full)
           /\ \A s \in DOMAIN full : ~Above(s) => s = Max(DOMAIN full)
           /\ \A x \in Nat : x < Max(DOMAIN full) => Above(x)
  <1>1. DOMAIN full \subseteq Nat /\ now \in Nat /\ \A s \in DOMAIN full : s <= now
    BY BackupAssumption DEF Shape
  <1>2. PICK mx : mx = Max(DOMAIN full)
    OBVIOUS
  <1>3. mx \in DOMAIN full /\ \A s \in DOMAIN full : s <= mx
    BY <1>1, <1>2, MaxOf
  <1>4. \A s \in DOMAIN full : s \in Nat /\ mx \in Nat /\ s <= mx
    BY <1>1, <1>3
  <1>5. QED
    BY <1>2, <1>3, <1>4 DEF Above

\* What a retention run plans to delete.
LEMMA PlanFacts ==
    ASSUME Shape, NEW i \in PlanDeletions(Listing, now)
    PROVE  /\ i \in Item
           /\ i.kind = "full" => PlanFull(i)
           /\ i.kind = "wal" => /\ i.path \in DOMAIN wal /\ i.created = wal[i.path]
                                /\ now - i.created > Hourly
                                /\ Above(i.created) \/ DOMAIN full = {}
  <1>1. PICK F, R : F = {k \in Listing : k.kind = "full"} /\ R = {k \in Listing : k.kind = "resumes"}
    OBVIOUS
  <1>2. i \in WalExpired(Listing, now) \/ i \in ExpiredSnapshots(F, now) \/ i \in ExpiredSnapshots(R, now)
    BY <1>1 DEF PlanDeletions
  <1>3. CASE i \in WalExpired(Listing, now)
    <2>1. /\ i \in Listing /\ i.kind = "wal" /\ now - i.created > Hourly
          /\ DOMAIN full = {} \/ i.created < Max(DOMAIN full)
      BY <1>3, ListingItems DEF WalExpired
    <2>2. i \in Item /\ i.created \in Nat
      BY <2>1, ListingItems DEF Item
    <2>3. Above(i.created) \/ DOMAIN full = {}
      BY <2>1, <2>2, Newest
    <2>4. QED
      BY <2>1, <2>2, <2>3, ListingItems
  <1>4. CASE i \in ExpiredSnapshots(R, now)
    BY <1>1, <1>4, ListingItems DEF ExpiredSnapshots
  <1>5. CASE i \in ExpiredSnapshots(F, now)
    <2>1. /\ i \in F /\ i.created # Max(DOMAIN full) /\ ~(now - i.created <= Daily)
          /\ ~(i \in MonthlyRepresentatives(F) /\ now - i.created <= Monthly)
      BY <1>1, <1>5, ListingItems DEF ExpiredSnapshots
    <2>2. /\ i \in Item /\ i.kind = "full" /\ i.path \in DOMAIN full /\ i.created = i.path
          /\ i.path \in Nat /\ now \in Nat
      BY <1>1, <2>1, ListingItems DEF Item
    <2>3. Above(i.path)
      BY <2>1, <2>2, Newest
    <2>4. now - i.path > Daily /\ ~(i \in MonthlyRepresentatives(F) /\ ~(now - i.path > Monthly))
      BY <2>1, <2>2, BackupAssumption
    <2>5. CASE now - i.path > Monthly
      BY <2>2, <2>3, <2>4, <2>5 DEF PlanFull, Aged
    <2>6. CASE i \notin MonthlyRepresentatives(F)
      <3>1. PICK k \in F : Month(k.created) = Month(i.created) /\ ~(i.created <= k.created)
        BY <2>1, <2>6 DEF MonthlyRepresentatives
      <3>2. k.path \in DOMAIN full /\ k.created = k.path
        BY <1>1, <3>1, ListingItems
      <3>3. k.path \in taken /\ k.path \in Nat
        BY <3>2 DEF Shape
      <3>4. Month(k.path) = Month(i.path) /\ k.path < i.path
        BY <2>2, <3>1, <3>2, <3>3
      <3>5. QED
        BY <2>2, <2>3, <2>4, <3>3, <3>4 DEF PlanFull, Aged
    <2>7. QED
      BY <2>4, <2>5, <2>6
  <1>6. QED
    BY <1>2, <1>3, <1>4, <1>5

(***************************************************************************)
(* What the invariant says                                                 *)
(***************************************************************************)

LEMMA Numbers ==
    ASSUME Shape
    PROVE  /\ now \in Nat /\ seg \in Nat /\ archived \in Nat /\ shipped \in Nat
           /\ 1 <= archived /\ archived <= seg /\ shipped < archived
           /\ Hourly \in Nat /\ Daily \in Nat /\ Monthly \in Nat /\ Hourly <= Daily
           /\ \A s \in DOMAIN full : s \in Nat /\ s <= now /\ full[s].upto \in Nat /\ full[s].upto < seg
           /\ \A g \in DOMAIN wal : g \in Nat /\ wal[g] \in Nat /\ g < archived /\ wal[g] <= now
           /\ \A g \in archive : g \in Nat
           /\ \A j \in Jobs : /\ job[j] \in Process /\ job[j].upto \in Nat /\ job[j].stamp \in Nat
                              /\ job[j].batch \subseteq Nat /\ job[j].plan \subseteq Item
           /\ \A j \in Jobs : \A i \in job[j].plan : i.path \in Nat /\ i.created \in Nat
           /\ restore.next \in Nat /\ restore.goal \in Nat /\ restore.newest \in Nat
  <1>1. /\ now \in Nat /\ seg \in Nat /\ archived \in Nat /\ shipped \in Nat
        /\ 1 <= archived /\ archived <= seg /\ shipped < archived
    BY BackupAssumption DEF Shape
  <1>2. \A s \in DOMAIN full : s \in Nat /\ s <= now /\ full[s].upto \in Nat /\ full[s].upto < seg
    BY DEF Shape, Dump
  <1>3. /\ \A g \in DOMAIN wal : g \in Nat /\ wal[g] \in Nat /\ g < archived /\ wal[g] <= now
        /\ \A g \in archive : g \in Nat
    BY DEF Shape
  <1>4. \A j \in Jobs : /\ job[j] \in Process /\ job[j].upto \in Nat /\ job[j].stamp \in Nat
                        /\ job[j].batch \subseteq Nat /\ job[j].plan \subseteq Item
    BY DEF Shape, Process
  <1>5. \A j \in Jobs : \A i \in job[j].plan : i.path \in Nat /\ i.created \in Nat
    BY <1>4 DEF Item
  <1>6. restore.next \in Nat /\ restore.goal \in Nat /\ restore.newest \in Nat
    BY DEF Shape, Recovery
  <1>7. QED
    BY <1>1, <1>2, <1>3, <1>4, <1>5, <1>6, BackupAssumption

\* A full backup that recovery is promised for is complete, and so is its WAL.
LEMMA RelevantChain ==
    ASSUME Shape, Stored, NEW s \in DOMAIN full, Relevant(s)
    PROVE  Chain(s)
  <1>0. /\ now \in Nat /\ archived \in Nat /\ shipped \in Nat /\ shipped < archived
        /\ Hourly \in Nat /\ Daily \in Nat /\ Hourly <= Daily
        /\ s \in Nat /\ s <= now /\ full[s].upto \in Nat
    BY Numbers
  <1>1. ~Old(s)
    BY <1>0 DEF Old, Relevant
  <1>2. "base" \in full[s].files
    BY <1>1 DEF Stored, Kept
  <1>3. ASSUME NEW g \in full[s].upto + 1 .. shipped PROVE g \in DOMAIN wal
    <2>1. g \in Nat /\ full[s].upto < g /\ g < archived /\ ~(shipped < g)
      BY <1>0
    <2>2. g \in archive \/ g \in DOMAIN wal
      BY <2>1 DEF Stored
    <2>3. QED
      BY <2>1, <2>2 DEF Stored
  <1>4. QED
    BY <1>2, <1>3 DEF Chain

LEMMA Recoverable == IInv => ShippedIsRecoverable
  <1> SUFFICES ASSUME IInv, NEW s \in DOMAIN full, s = Max(DOMAIN full) \/ now - s <= Hourly
               PROVE  Chain(s)
    BY DEF ShippedIsRecoverable
  <1>1. Relevant(s)
    BY Newest DEF Relevant, IInv
  <1>2. QED
    BY <1>1, RelevantChain DEF IInv

LEMMA Retained == IInv => RetentionSound
  <1> SUFFICES ASSUME IInv PROVE RetentionSound
    OBVIOUS
  <1>0. Shape
    BY DEF IInv
  <1>1. TypeOK
    <2>1. archive \subseteq 1 .. archived
      BY <1>0, Numbers DEF Shape
    <2>2. \A s \in DOMAIN full : full[s].files \subseteq Files /\ full[s].upto < seg
      BY <1>0 DEF Shape, Dump
    <2>3. shipped < seg
      BY <1>0, Numbers
    <2>4. QED
      BY <1>0, <2>1, <2>2, <2>3 DEF Shape, TypeOK
  <1>2. RetentionPromise
    <2> SUFFICES ASSUME NEW s \in taken,
                        \/ now - s <= Daily
                        \/ /\ now - s <= Monthly
                           /\ \A t \in taken : Month(t) = Month(s) => s <= t
                 PROVE  s \in DOMAIN full
      BY DEF RetentionPromise
    <2>1. taken \subseteq Nat /\ now \in Nat /\ Daily \in Nat /\ Monthly \in Nat
      BY <1>0, Numbers DEF Shape
    <2>2. ~Aged(s)
      BY <2>1 DEF Aged
    <2>3. QED
      BY <2>2 DEF IInv, Stored
  <1>3. PlanIsStable
    <2>1. Listing \subseteq Item /\ now \in Nat /\ \A i \in Listing : i.created <= now
      BY <1>0, ListingItems
    <2>2. PlanDeletions(Listing \ PlanDeletions(Listing, now), now) = {}
      BY <2>1, PlanSettles
    <2>3. QED
      BY <2>2 DEF PlanIsStable
  <1>4. QED
    BY <1>1, <1>2, <1>3 DEF RetentionSound

LEMMA Restored == IInv => RestoreReachesShipped
  <1> SUFFICES ASSUME IInv, restore.pc = "promoted", restore.latest, ~restore.cut,
                      \A s \in DOMAIN full : s <= restore.newest
               PROVE  restore.next > restore.goal
    BY DEF RestoreReachesShipped
  <1>1. restore.newest \in Nat /\ restore.next \in Nat /\ restore.goal \in Nat
        /\ \A s \in DOMAIN full : s \in Nat
    BY Numbers DEF IInv
  <1>2. Current
    BY <1>1 DEF Current, Above
  <1>3. QED
    BY <1>1, <1>2 DEF IInv, Replay

(***************************************************************************)
(* A process takes a step that leaves the backups alone                    *)
(***************************************************************************)

LEMMA SameBackups ==
    ASSUME UNCHANGED <<full, taken, now>>
    PROVE  \A x : /\ Above(x)' <=> Above(x)
                  /\ Old(x)' <=> Old(x)
                  /\ Aged(x)' <=> Aged(x)
                  /\ Relevant(x)' <=> Relevant(x)
                  /\ Past(x)' <=> Past(x)
                  /\ Kept(x)' <=> Kept(x)
  <1>1. \A x : Above(x)' <=> Above(x)
    BY DEF Above
  <1>2. \A x : (Old(x)' <=> Old(x)) /\ (Relevant(x)' <=> Relevant(x)) /\ (Aged(x)' <=> Aged(x))
    BY <1>1 DEF Old, Relevant, Aged
  <1>3. \A x : (Past(x)' <=> Past(x)) /\ (Kept(x)' <=> Kept(x))
    BY <1>2 DEF Past, Kept
  <1>4. QED
    BY <1>1, <1>2, <1>3

LEMMA JobStep ==
    ASSUME IInv, NEW j \in Jobs, NEW q \in Process, job' = [job EXCEPT ![j] = q],
           UNCHANGED <<now, archived, archive, full, wal, taken, restore>>,
           resumes' \subseteq 0 .. now,
           seg' \in 1 .. MaxSeg, seg <= seg',
           shipped' \in Nat, shipped <= shipped', shipped' < archived,
           \A g \in archive : shipped' < g,
           \A k \in Jobs : k # j /\ job[k].pc \in Held => shipped' = shipped,
           lock' \in Jobs \cup {NoJob}, q.pc \in Held <=> lock' = j,
           \A k \in Jobs : k # j => (lock' = k <=> lock = k),
           q.stamp <= now,
           \A i \in q.plan : (i.kind = "full" => PlanFull(i)) /\ (i.kind = "wal" => PlanWal(i)),
           \A i \in q.plan : i.kind = "wal" =>
               /\ restore.pc = "replay" /\ Current => i.path < restore.next
               /\ \A k \in Jobs : k # j /\ Uploading(k) => i.path <= job[k].upto,
           FullJob(j)', WalJob(j)'
    PROVE  IInv'
  <1>0. Shape /\ Locked /\ Stored /\ Planned /\ Replay /\ \A k \in Jobs : FullJob(k) /\ WalJob(k)
    BY DEF IInv
  <1>1. job' \in [Jobs -> Process] /\ job'[j] = q /\ \A k \in Jobs : k # j => job'[k] = job[k]
    BY <1>0 DEF Shape
  <1>2. PICK n \in Nat, m \in Nat : n = seg /\ m = seg'
    BY <1>0, Numbers, BackupAssumption
  <1>3. Shape'
    <2>1. archived \in 1 .. m
      BY <1>0, <1>2, Numbers
    <2>2. \A s \in DOMAIN full : full[s].upto < m
      BY <1>0, <1>2, Numbers
    <2>3. QED
      BY <1>0, <1>1, <1>2, <2>1, <2>2 DEF Shape
  <1>4. Locked'
    BY <1>0, <1>1 DEF Locked
  <1>5. Stored'
    <2>1. \A s \in DOMAIN full : Kept(s)' /\ (Relevant(s)' => Relevant(s))
      BY <1>0, SameBackups DEF Stored
    <2>2. \A s \in taken : s \in DOMAIN full \/ Aged(s)'
      BY <1>0, SameBackups DEF Stored
    <2>3. QED
      BY <1>0, <2>1, <2>2 DEF Stored
  <1>6. \A i : (PlanFull(i) => PlanFull(i)') /\ (PlanWal(i) => PlanWal(i)')
    BY SameBackups DEF PlanFull, PlanWal
  <1>7. Planned'
    <2> SUFFICES ASSUME NEW k \in Jobs, NEW i \in job'[k].plan
                 PROVE  (i.kind = "full" => PlanFull(i)') /\ (i.kind = "wal" => PlanWal(i)')
      BY DEF Planned
    <2>1. (i.kind = "full" => PlanFull(i)) /\ (i.kind = "wal" => PlanWal(i))
      BY <1>0, <1>1 DEF Planned
    <2>2. QED
      BY <1>6, <2>1
  <1>8. Replay'
    <2>1. Current' <=> Current
      BY SameBackups DEF Current
    <2>2. restore.pc = "replay" /\ Current =>
             \A k \in Jobs : \A i \in job'[k].plan : i.kind = "wal" => i.path < restore.next
      BY <1>0, <1>1 DEF Replay
    <2>3. restore.pc = "replay" /\ Current => restore.goal <= shipped'
      BY <1>0, Numbers DEF Replay
    <2>4. QED
      BY <1>0, <2>1, <2>2, <2>3 DEF Replay
  <1>9. ASSUME NEW k \in Jobs PROVE FullJob(k)' /\ WalJob(k)'
    <2>1. CASE k = j
      BY <2>1
    <2>2. CASE k # j
      <3>0. job'[k] = job[k] /\ FullJob(k) /\ WalJob(k) /\ job[k].upto \in Nat
        BY <1>0, <1>1, <2>2, Numbers
      <3>1. FullJob(k)'
        <4> SUFFICES ASSUME Uploading(k)' PROVE FullJob(k)'
          BY DEF FullJob
        <4>1. Uploading(k)
          BY <3>0 DEF Uploading
        <4>2. \A l \in Jobs : \A i \in job'[l].plan : i.kind = "wal" => i.path <= job[k].upto
          BY <1>1, <2>2, <3>0, <4>1 DEF FullJob
        <4>3. job[k].upto < seg'
          BY <1>2, <3>0, <4>1 DEF FullJob
        <4>4. job[k].todo # UploadOrder => Kept(job[k].stamp)'
          BY <3>0, <4>1, SameBackups DEF FullJob
        <4>5. QED
          BY <3>0, <4>1, <4>2, <4>3, <4>4 DEF FullJob
      <3>2. WalJob(k)'
        <4>1. job[k].pc \in {"archiving", "upload", "unlink"} => shipped' = shipped
          BY <2>2 DEF Held
        <4>2. job[k].upto < seg => job[k].upto < seg'
          BY <1>2, <3>0
        <4>3. \A g : Past(g) => Past(g)'
          BY SameBackups
        <4>4. QED
          BY <3>0, <4>1, <4>2, <4>3 DEF WalJob
      <3>3. QED
        BY <3>1, <3>2
    <2>3. QED
      BY <2>1, <2>2
  <1>10. QED
    BY <1>3, <1>4, <1>5, <1>7, <1>8, <1>9 DEF IInv

LEMMA InitInv == Init => IInv
  <1> SUFFICES ASSUME Init PROVE IInv
    OBVIOUS
  <1>1. Idle \in Process /\ NoRestore \in Recovery
    BY DEF Idle, NoRestore, Process, Recovery, Todo
  <1>2. DOMAIN full = {} /\ DOMAIN wal = {}
    BY DEF Init
  <1>3. \A j \in Jobs : job[j] = Idle /\ job[j].pc = "idle" /\ job[j].cmd = "none" /\ job[j].stamp = 0
                        /\ job[j].plan = {}
    BY DEF Init, Idle
  <1>4. Shape
    <2>1. full \in [DOMAIN full -> Dump] /\ wal \in [DOMAIN wal -> Nat]
      BY <1>2 DEF Init
    <2>2. job \in [Jobs -> Process] /\ restore \in Recovery
      BY <1>1 DEF Init
    <2>3. QED
      BY <1>2, <2>1, <2>2, BackupAssumption DEF Init, Shape
  <1>5. Locked
    BY <1>3, BackupAssumption DEF Init, Locked, Held
  <1>6. Stored
    BY <1>2 DEF Init, Stored
  <1>7. Planned /\ Replay
    BY <1>3 DEF Init, Planned, Replay, NoRestore
  <1>8. \A j \in Jobs : FullJob(j) /\ WalJob(j)
    BY <1>3 DEF FullJob, WalJob, Uploading
  <1>9. QED
    BY <1>4, <1>5, <1>6, <1>7, <1>8 DEF IInv

\* What a step may start from: the process has its type, plans stay sound, and a
\* holder of the lock is alone.
LEMMA Before ==
    ASSUME IInv, NEW j \in Jobs
    PROVE  /\ Shape /\ job[j] \in Process /\ job \in [Jobs -> Process]
           /\ job[j].pc \in Held <=> lock = j
           /\ job[j].stamp <= now
           /\ lock \in Jobs \cup {NoJob} /\ NoJob \notin Jobs
           /\ \A i \in job[j].plan : (i.kind = "full" => PlanFull(i)) /\ (i.kind = "wal" => PlanWal(i))
           /\ \A i \in job[j].plan : i.kind = "wal" =>
                /\ restore.pc = "replay" /\ Current => i.path < restore.next
                /\ \A k \in Jobs : k # j /\ Uploading(k) => i.path <= job[k].upto
           /\ resumes \subseteq 0 .. now /\ seg \in 1 .. MaxSeg
           /\ \A g \in archive : shipped < g
           /\ FullJob(j) /\ WalJob(j)
  <1>1. Shape /\ Locked /\ Stored /\ Planned /\ Replay /\ \A k \in Jobs : FullJob(k) /\ WalJob(k)
    BY DEF IInv
  <1>2. job[j] \in Process /\ job \in [Jobs -> Process]
    BY <1>1 DEF Shape
  <1>3. \A i \in job[j].plan : i.kind = "wal" =>
           /\ restore.pc = "replay" /\ Current => i.path < restore.next
           /\ \A k \in Jobs : k # j /\ Uploading(k) => i.path <= job[k].upto
    BY <1>1 DEF Replay, FullJob
  <1>4. \A i \in job[j].plan : (i.kind = "full" => PlanFull(i)) /\ (i.kind = "wal" => PlanWal(i))
    BY <1>1 DEF Planned
  <1>5. lock \in Jobs \cup {NoJob} /\ resumes \subseteq 0 .. now /\ seg \in 1 .. MaxSeg
    BY <1>1 DEF Shape
  <1>6. QED
    BY <1>1, <1>2, <1>3, <1>4, <1>5, BackupAssumption DEF Locked, Stored

LEMMA AcquireStep ==
    ASSUME IInv, NEW j \in Jobs, Acquire(j) PROVE IInv'
  <1>1. PICK q : q = [job[j] EXCEPT !.pc = "work"]
    OBVIOUS
  <1>2. /\ q \in Process /\ q.pc = "work" /\ q.stamp = job[j].stamp /\ q.plan = job[j].plan
    BY <1>1, Before DEF Process
  <1>3. job' = [job EXCEPT ![j] = q] /\ job'[j] = q
    BY <1>1, Before DEF Acquire, Goto
  <1>4. FullJob(j)' /\ WalJob(j)'
    BY <1>2, <1>3 DEF FullJob, WalJob, Uploading
  <1>5. /\ lock = NoJob /\ lock' = j /\ UNCHANGED <<now, archived, archive, full, wal, taken, restore>>
        /\ UNCHANGED <<seg, resumes, shipped>>
    BY DEF Acquire, pg, offsite
  <1>6. \A k \in Jobs : k # j => (lock' = k <=> lock = k)
    BY <1>5, Before
  <1>7. q.pc \in Held
    BY <1>2 DEF Held
  <1>8. /\ seg \in Nat /\ seg <= seg' /\ shipped \in Nat /\ shipped <= shipped' /\ shipped' < archived
    BY <1>5, Before, Numbers
  <1>9. QED
    BY <1>2, <1>3, <1>4, <1>5, <1>6, <1>7, <1>8, Before, JobStep

LEMMA FailStep ==
    ASSUME IInv, NEW j \in Jobs, Fail(j) PROVE IInv'
  <1>1. PICK q : q = Idle
    OBVIOUS
  <1>2. /\ q \in Process /\ q.pc = "idle" /\ q.cmd = "none" /\ q.stamp = 0 /\ q.plan = {}
    BY <1>1 DEF Process, Idle, Todo
  <1>3. job' = [job EXCEPT ![j] = q] /\ job'[j] = q
    BY <1>1, Before DEF Fail
  <1>4. FullJob(j)' /\ WalJob(j)'
    BY <1>2, <1>3 DEF FullJob, WalJob, Uploading
  <1>5. /\ UNCHANGED <<now, archived, archive, full, wal, taken, restore>>
        /\ UNCHANGED <<seg, resumes, shipped>>
    BY DEF Fail, pg, offsite
  <1>6. /\ \A k \in Jobs : k # j => (lock' = k <=> lock = k)
        /\ lock' # j /\ lock' \in Jobs \cup {NoJob}
    BY Before DEF Fail, HoldsLock, Release
  <1>7. q.pc \notin Held
    BY <1>2 DEF Held
  <1>8. /\ seg \in Nat /\ seg <= seg' /\ shipped \in Nat /\ shipped <= shipped' /\ shipped' < archived
        /\ q.stamp <= now
    BY <1>2, <1>5, Before, Numbers
  <1>9. QED
    BY <1>2, <1>3, <1>4, <1>5, <1>6, <1>7, <1>8, Before, JobStep

LEMMA RetentionDoneStep ==
    ASSUME IInv, NEW j \in Jobs, RetentionDone(j) PROVE IInv'
  <1>1. PICK q : q = Idle
    OBVIOUS
  <1>2. /\ q \in Process /\ q.pc = "idle" /\ q.cmd = "none" /\ q.stamp = 0 /\ q.plan = {}
    BY <1>1 DEF Process, Idle, Todo
  <1>3. job' = [job EXCEPT ![j] = q] /\ job'[j] = q
    BY <1>1, Before DEF RetentionDone
  <1>4. FullJob(j)' /\ WalJob(j)'
    BY <1>2, <1>3 DEF FullJob, WalJob, Uploading
  <1>5. /\ UNCHANGED <<now, archived, archive, full, wal, taken, restore>>
        /\ UNCHANGED <<seg, resumes, shipped, lock>>
    BY DEF RetentionDone, pg, offsite
  <1>6. lock # j
    BY Before DEF RetentionDone, Held
  <1>7. q.pc \notin Held
    BY <1>2 DEF Held
  <1>8. /\ seg \in Nat /\ seg <= seg' /\ shipped \in Nat /\ shipped <= shipped' /\ shipped' < archived
        /\ q.stamp <= now
    BY <1>2, <1>5, Before, Numbers
  <1>9. QED
    BY <1>2, <1>3, <1>4, <1>5, <1>6, <1>7, <1>8, Before, JobStep

LEMMA StartStep ==
    ASSUME IInv, NEW j \in Jobs, NEW c \in {"full", "wal", "resumes", "ensure-full"}, Start(j, c)
    PROVE  IInv'
  <1>0. /\ UNCHANGED <<now, archived, archive, full, wal, taken, restore>>
        /\ UNCHANGED <<seg, resumes, shipped, lock>>
        /\ job[j].pc = "idle"
    BY DEF Start, pg, offsite
  <1>1. PICK q : q = IF job' = job THEN job[j]
                     ELSE [Idle EXCEPT !.cmd = IF c = "ensure-full" THEN "full" ELSE c,
                                       !.pc = "lock",
                                       !.stamp = IF c = "wal" THEN 0 ELSE now]
    OBVIOUS
  <1>2. job' = [job EXCEPT ![j] = q]
    <2>1. CASE job' = job
      BY <1>1, <2>1, Before
    <2>2. CASE job' # job
      BY <1>1, <2>2 DEF Start
    <2>3. QED
      BY <2>1, <2>2
  <1>3. /\ q \in Process /\ q.pc \in {"idle", "lock"} /\ q.stamp <= now
        /\ q.plan = job[j].plan \/ q.plan = {}
    <2>1. CASE job' = job
      <3>1. q = job[j]
        BY <1>1, <2>1
      <3>2. QED
        BY <1>0, <3>1, Before
    <2>2. CASE job' # job
      <3>1. PICK d \in {"full", "wal", "resumes"} : d = IF c = "ensure-full" THEN "full" ELSE c
        OBVIOUS
      <3>2. PICK s \in Nat : s = (IF c = "wal" THEN 0 ELSE now) /\ s <= now
        BY Before, Numbers
      <3>3. q = [Idle EXCEPT !.cmd = d, !.pc = "lock", !.stamp = s]
        BY <1>1, <2>2, <3>1, <3>2
      <3>4. q \in Process /\ q.pc = "lock" /\ q.stamp = s /\ q.plan = {}
        BY <3>3 DEF Idle, Process, Todo
      <3>5. QED
        BY <3>2, <3>4
    <2>3. QED
      BY <2>1, <2>2
  <1>4. job'[j] = q
    BY <1>2, Before
  <1>5. FullJob(j)' /\ WalJob(j)'
    BY <1>3, <1>4 DEF FullJob, WalJob, Uploading
  <1>6. lock # j /\ q.pc \notin Held
    BY <1>0, <1>3, Before DEF Held
  <1>7. /\ seg \in Nat /\ seg <= seg' /\ shipped \in Nat /\ shipped <= shipped' /\ shipped' < archived
    BY <1>0, Before, Numbers
  <1>8. /\ \A i \in q.plan : (i.kind = "full" => PlanFull(i)) /\ (i.kind = "wal" => PlanWal(i))
        /\ \A i \in q.plan : i.kind = "wal" =>
             /\ restore.pc = "replay" /\ Current => i.path < restore.next
             /\ \A k \in Jobs : k # j /\ Uploading(k) => i.path <= job[k].upto
    BY <1>3, Before
  <1>9. QED
    BY <1>0, <1>2, <1>3, <1>5, <1>6, <1>7, <1>8, Before, JobStep

LEMMA FullPrepareStep ==
    ASSUME IInv, NEW j \in Jobs, FullPrepare(j) PROVE IInv'
  <1>0. /\ UNCHANGED <<now, archived, archive, full, wal, taken, restore>>
        /\ UNCHANGED <<resumes, shipped, lock>>
        /\ job[j].pc = "work" /\ seg < MaxSeg /\ seg' = seg + 1
    BY DEF FullPrepare, offsite
  <1>1. PICK n \in Nat : n = seg
    BY Before, Numbers
  <1>2. PICK q : q = [job[j] EXCEPT !.pc = "upload", !.upto = n, !.todo = UploadOrder]
    OBVIOUS
  <1>3. /\ q \in Process /\ q.pc = "upload" /\ q.upto = n /\ q.todo = UploadOrder
        /\ q.stamp = job[j].stamp /\ q.plan = job[j].plan /\ q.cmd = "full"
    <2>1. job[j].cmd = "full" /\ job[j] \in Process
      BY Before DEF FullPrepare
    <2>2. UploadOrder \in Todo
      BY DEF Todo
    <2>3. QED
      BY <1>2, <2>1, <2>2 DEF Process
  <1>4. job' = [job EXCEPT ![j] = q] /\ job'[j] = q
    BY <1>1, <1>2, Before DEF FullPrepare
  <1>5. \A k \in Jobs : job'[k].plan = job[k].plan
    BY <1>3, <1>4, Before
  <1>6. FullJob(j)'
    <2>1. n < seg'
      BY <1>0, <1>1
    <2>2. \A g \in DOMAIN wal : g <= n
      BY <1>1, Before, Numbers
    <2>3. \A k \in Jobs : \A i \in job[k].plan : i.kind = "wal" => i.path <= n
      <3> SUFFICES ASSUME NEW k \in Jobs, NEW i \in job[k].plan, i.kind = "wal" PROVE i.path <= n
        OBVIOUS
      <3>1. PlanWal(i) /\ i.path \in Nat
        BY Before, Numbers DEF IInv, Planned
      <3>2. i.path < archived /\ archived \in Nat /\ archived <= seg
        BY <3>1, Before, Numbers DEF PlanWal
      <3>3. QED
        BY <1>1, <3>1, <3>2
    <2>4. \A g \in Nat : ~(n < g /\ g < archived)
      BY <1>1, Before, Numbers
    <2>5. QED
      BY <1>0, <1>3, <1>4, <1>5, <2>1, <2>2, <2>3, <2>4 DEF FullJob
  <1>7. WalJob(j)'
    BY <1>3, <1>4 DEF WalJob
  <1>8. lock = j /\ q.pc \in Held
    BY <1>0, <1>3, Before DEF Held
  <1>9. /\ seg' \in 1 .. MaxSeg /\ seg <= seg' /\ shipped \in Nat /\ shipped <= shipped' /\ shipped' < archived
    BY <1>0, <1>1, Before, Numbers, BackupAssumption
  <1>10. QED
    BY <1>0, <1>3, <1>4, <1>6, <1>7, <1>8, <1>9, Before, JobStep

LEMMA WalSwitchStep ==
    ASSUME IInv, NEW j \in Jobs, WalSwitch(j) PROVE IInv'
  <1>0. /\ UNCHANGED <<now, archived, archive, full, wal, taken, restore>>
        /\ UNCHANGED <<resumes, shipped, lock>>
        /\ job[j].pc = "work" /\ seg < MaxSeg /\ seg' = seg + 1
    BY DEF WalSwitch, offsite
  <1>1. PICK n \in Nat : n = seg
    BY Before, Numbers
  <1>2. PICK q : q = [job[j] EXCEPT !.pc = "archiving", !.upto = n]
    OBVIOUS
  <1>3. /\ q \in Process /\ q.pc = "archiving" /\ q.upto = n
        /\ q.stamp = job[j].stamp /\ q.plan = job[j].plan
    BY <1>2, Before DEF Process
  <1>4. job' = [job EXCEPT ![j] = q] /\ job'[j] = q
    BY <1>1, <1>2, Before DEF WalSwitch
  <1>5. FullJob(j)'
    BY <1>3, <1>4 DEF FullJob, Uploading
  <1>6. n < seg' /\ shipped <= n
    BY <1>0, <1>1, Before, Numbers
  <1>7. WalJob(j)'
    BY <1>0, <1>3, <1>4, <1>6 DEF WalJob
  <1>8. lock = j /\ q.pc \in Held
    BY <1>0, <1>3, Before DEF Held
  <1>9. /\ seg' \in 1 .. MaxSeg /\ seg <= seg' /\ shipped \in Nat /\ shipped <= shipped' /\ shipped' < archived
    BY <1>0, <1>1, Before, Numbers, BackupAssumption
  <1>10. QED
    BY <1>0, <1>3, <1>4, <1>5, <1>7, <1>8, <1>9, Before, JobStep

LEMMA WalPendingStep ==
    ASSUME IInv, NEW j \in Jobs, WalPending(j) PROVE IInv'
  <1>0. /\ UNCHANGED <<now, archived, archive, full, wal, taken, restore>>
        /\ UNCHANGED <<resumes, shipped, lock, seg>>
        /\ job[j].pc = "archiving" /\ job[j].cmd = "wal" /\ archived > job[j].upto
    BY DEF WalPending, offsite, pg
  <1>1. archive \subseteq Nat /\ \A g \in archive : 1 <= g /\ g < archived
    BY Before DEF Shape
  <1>2. PICK q : q = [job[j] EXCEPT !.pc = "upload", !.batch = archive]
    OBVIOUS
  <1>3. /\ q \in Process /\ q.pc = "upload" /\ q.upto = job[j].upto /\ q.batch = archive
        /\ q.stamp = job[j].stamp /\ q.plan = job[j].plan /\ q.cmd = "wal"
    BY <1>0, <1>1, <1>2, Before DEF Process
  <1>4. job' = [job EXCEPT ![j] = q] /\ job'[j] = q
    BY <1>2, Before DEF WalPending
  <1>5. FullJob(j)'
    BY <1>3, <1>4 DEF FullJob, Uploading
  <1>6. job[j].upto < archived /\ job[j].upto < seg /\ shipped <= job[j].upto
    BY <1>0, Before, Numbers DEF WalJob
  <1>7. WalJob(j)'
    BY <1>0, <1>1, <1>3, <1>4, <1>6 DEF WalJob
  <1>8. lock = j /\ q.pc \in Held
    BY <1>0, <1>3, Before DEF Held
  <1>9. /\ seg \in Nat /\ seg <= seg' /\ shipped \in Nat /\ shipped <= shipped' /\ shipped' < archived
    BY <1>0, Before, Numbers
  <1>10. QED
    BY <1>0, <1>3, <1>4, <1>5, <1>7, <1>8, <1>9, Before, JobStep

LEMMA ResumesUploadStep ==
    ASSUME IInv, NEW j \in Jobs, ResumesUpload(j) PROVE IInv'
  <1>0. /\ UNCHANGED <<now, archived, archive, full, wal, taken, restore>>
        /\ UNCHANGED <<shipped, lock, seg>>
        /\ job[j].pc = "work" /\ job[j].cmd = "resumes" /\ resumes' = resumes \cup {job[j].stamp}
    BY DEF ResumesUpload, offsite, pg
  <1>1. PICK q : q = [job[j] EXCEPT !.pc = "upload"]
    OBVIOUS
  <1>2. /\ q \in Process /\ q.pc = "upload" /\ q.stamp = job[j].stamp /\ q.plan = job[j].plan
        /\ q.cmd = "resumes"
    BY <1>0, <1>1, Before DEF Process
  <1>3. job' = [job EXCEPT ![j] = q] /\ job'[j] = q
    BY <1>1, Before DEF ResumesUpload, Goto
  <1>4. FullJob(j)' /\ WalJob(j)'
    BY <1>2, <1>3 DEF FullJob, WalJob, Uploading
  <1>5. lock = j /\ q.pc \in Held
    BY <1>0, <1>2, Before DEF Held
  <1>6. /\ seg \in Nat /\ seg <= seg' /\ shipped \in Nat /\ shipped <= shipped' /\ shipped' < archived
    BY <1>0, Before, Numbers
  <1>7. resumes' \subseteq 0 .. now
    BY <1>0, Before, Numbers
  <1>8. QED
    BY <1>0, <1>2, <1>3, <1>4, <1>5, <1>6, <1>7, Before, JobStep

LEMMA FinishStep ==
    ASSUME IInv, NEW j \in Jobs, Finish(j) PROVE IInv'
  <1>0. /\ UNCHANGED <<now, archived, archive, full, wal, taken, restore>>
        /\ UNCHANGED <<resumes, seg>>
        /\ job[j].pc = "upload" /\ job[j].batch = {} /\ lock = j /\ lock' = NoJob
        /\ shipped' = IF job[j].cmd = "wal" THEN job[j].upto ELSE shipped
    BY DEF Finish, offsite, pg, HoldsLock, Release
  <1>1. PICK q : q = [Idle EXCEPT !.cmd = "retention", !.pc = "plan"]
    OBVIOUS
  <1>2. q \in Process /\ q.pc = "plan" /\ q.cmd = "retention" /\ q.stamp = 0 /\ q.plan = {}
    BY <1>1 DEF Idle, Process, Todo
  <1>3. job' = [job EXCEPT ![j] = q] /\ job'[j] = q
    BY <1>1, Before DEF Finish
  <1>4. FullJob(j)' /\ WalJob(j)'
    BY <1>2, <1>3 DEF FullJob, WalJob, Uploading
  <1>5. q.pc \notin Held /\ lock' # j /\ \A k \in Jobs : k # j => lock # k /\ lock' # k
    BY <1>0, <1>2, Before DEF Held
  <1>6. \A k \in Jobs : k # j => job[k].pc \notin Held
    BY <1>5 DEF IInv, Locked
  <1>7. /\ shipped' \in Nat /\ shipped <= shipped' /\ shipped' < archived
        /\ \A g \in archive : shipped' < g
    <2>1. CASE job[j].cmd = "wal"
      <3>1. /\ shipped <= job[j].upto /\ job[j].upto < archived
            /\ \A g \in archive : ~(g <= job[j].upto)
        BY <1>0, <2>1, Before DEF WalJob
      <3>2. job[j].upto \in Nat /\ \A g \in archive : g \in Nat
        BY Before, Numbers
      <3>3. QED
        BY <1>0, <2>1, <3>1, <3>2
    <2>2. CASE job[j].cmd # "wal"
      BY <1>0, <2>2, Before, Numbers
    <2>3. QED
      BY <2>1, <2>2
  <1>8. seg \in Nat /\ seg <= seg' /\ q.stamp <= now
    BY <1>0, <1>2, Before, Numbers
  <1>9. QED
    BY <1>0, <1>2, <1>3, <1>4, <1>5, <1>6, <1>7, <1>8, Before, JobStep

LEMMA PlanStep ==
    ASSUME IInv, NEW j \in Jobs, Plan(j) PROVE IInv'
  <1>0. /\ UNCHANGED <<now, archived, archive, full, wal, taken, restore>>
        /\ UNCHANGED <<resumes, seg, lock, shipped>> /\ job[j].pc = "plan"
    BY DEF Plan, offsite, pg
  <1>1. Shape /\ Stored /\ Replay /\ \A k \in Jobs : FullJob(k)
    BY DEF IInv
  <1>2. PICK p : /\ p = PlanDeletions({}, now) \/ p = PlanDeletions(Listing, now)
                 /\ job' = [job EXCEPT ![j].pc = "delete", ![j].plan = p]
    BY DEF Plan
  <1>3. \A i \in p : i \in PlanDeletions(Listing, now)
    <2>1. PlanDeletions({}, now) = {}
      BY DEF PlanDeletions, WalExpired, ExpiredSnapshots
    <2>2. QED
      BY <1>2, <2>1
  <1>4. p \subseteq Item
    BY <1>1, <1>3, PlanFacts
  <1>5. ASSUME NEW i \in p
        PROVE  /\ i.kind = "full" => PlanFull(i)
               /\ i.kind = "wal" =>
                    /\ PlanWal(i)
                    /\ restore.pc = "replay" /\ Current => i.path < restore.next
                    /\ \A k \in Jobs : k # j /\ Uploading(k) => i.path <= job[k].upto
    <2>1. i \in PlanDeletions(Listing, now)
      BY <1>3
    <2>2. i.kind = "full" => PlanFull(i)
      BY <1>1, <2>1, PlanFacts
    <2>3. CASE i.kind = "wal"
      <3>1. /\ i.path \in DOMAIN wal /\ i.created = wal[i.path]
            /\ now - i.created > Hourly
            /\ Above(i.created) \/ DOMAIN full = {}
        BY <1>1, <2>1, <2>3, PlanFacts
      <3>2. \A s \in DOMAIN full : i.created < s => i.path <= full[s].upto
        BY <1>1, <3>1 DEF Stored
      <3>3. i.path < archived
        BY <1>1, <3>1, Numbers
      <3>4. PlanWal(i)
        BY <3>1, <3>2, <3>3 DEF PlanWal
      <3>5. ASSUME restore.pc = "replay", Current PROVE i.path < restore.next
        <4>1. /\ restore.newest \in DOMAIN full /\ ~Above(restore.newest)
              /\ \A g \in DOMAIN wal : wal[g] < restore.newest => g < restore.next
          BY <1>1, <3>5 DEF Replay, Current
        <4>2. PICK t \in DOMAIN full : i.created < t
          BY <3>1, <4>1 DEF Above
        <4>3. t \in Nat /\ restore.newest \in Nat /\ wal[i.path] \in Nat /\ ~(restore.newest < t)
          BY <1>1, <3>1, <4>1, <4>2, Numbers DEF Above
        <4>4. wal[i.path] < restore.newest
          BY <3>1, <4>2, <4>3
        <4>5. QED
          BY <3>1, <4>1, <4>4
      <3>6. \A k \in Jobs : Uploading(k) => i.path <= job[k].upto
        BY <1>1, <3>1 DEF FullJob
      <3>7. QED
        BY <2>2, <3>4, <3>5, <3>6
    <2>4. QED
      BY <2>2, <2>3
  <1>6. PICK q : q = [job[j] EXCEPT !.pc = "delete", !.plan = p]
    OBVIOUS
  <1>7. q \in Process /\ q.pc = "delete" /\ q.stamp = job[j].stamp /\ q.plan = p
    BY <1>4, <1>6, Before DEF Process
  <1>8. job' = [job EXCEPT ![j] = q] /\ job'[j] = q
    BY <1>2, <1>6, Before
  <1>9. FullJob(j)' /\ WalJob(j)'
    BY <1>7, <1>8 DEF FullJob, WalJob, Uploading
  <1>10. q.pc \notin Held /\ lock # j
    BY <1>0, <1>7, Before DEF Held
  <1>11. /\ seg \in Nat /\ seg <= seg' /\ shipped \in Nat /\ shipped <= shipped' /\ shipped' < archived
    BY <1>0, Before, Numbers
  <1>12. QED
    BY <1>0, <1>5, <1>7, <1>8, <1>9, <1>10, <1>11, Before, JobStep

(***************************************************************************)
(* Time, PostgreSQL and the restore                                        *)
(***************************************************************************)

LEMMA TickStep ==
    ASSUME IInv, Tick PROVE IInv'
  <1>0. Shape /\ Locked /\ Stored /\ Planned /\ Replay /\ \A k \in Jobs : FullJob(k) /\ WalJob(k)
    BY DEF IInv
  <1>1. /\ now' = now + 1 /\ now < MaxTime
        /\ UNCHANGED <<seg, archived, archive, full, wal, resumes, taken, lock, job, shipped, restore>>
    BY DEF Tick, pg, offsite
  <1>2. PICK n \in Nat, m \in Nat : n = now /\ m = now' /\ m = n + 1
    BY <1>0, <1>1, Numbers
  <1>3. \A x : Above(x)' <=> Above(x)
    BY <1>1 DEF Above
  <1>4. \A x \in Nat : /\ n - x > Daily => m - x > Daily
                       /\ n - x > Monthly => m - x > Monthly
                       /\ n - x > Hourly => m - x > Hourly
                       /\ m - x <= Hourly => n - x <= Hourly
    BY <1>2, BackupAssumption
  <1>5. \A x \in Nat : /\ Old(x) => Old(x)'
                       /\ Aged(x) => Aged(x)'
                       /\ Relevant(x)' => Relevant(x)
    BY <1>1, <1>2, <1>3, <1>4 DEF Old, Aged, Relevant
  <1>6. DOMAIN full \subseteq Nat /\ taken \subseteq Nat
    BY <1>0 DEF Shape
  <1>7. /\ \A x \in Nat : Kept(x) => Kept(x)'
        /\ \A g : Past(g) => Past(g)'
    BY <1>1, <1>5, <1>6 DEF Kept, Past
  <1>8. Shape'
    <2>1. m \in 0 .. MaxTime
      BY <1>1, <1>2, BackupAssumption
    <2>2. \A s \in DOMAIN full : s <= m /\ s \in taken /\ full[s].upto < seg
      BY <1>0, <1>2, Numbers DEF Shape
    <2>3. \A g \in DOMAIN wal : g < archived /\ wal[g] <= m
      BY <1>0, <1>2, Numbers
    <2>4. resumes \subseteq 0 .. m /\ taken \subseteq 0 .. m
      BY <1>0, <1>2 DEF Shape
    <2>5. QED
      BY <1>0, <1>1, <1>2, <2>1, <2>2, <2>3, <2>4 DEF Shape
  <1>9. Locked'
    BY <1>0, <1>1, <1>2, Numbers DEF Locked
  <1>10. Stored'
    BY <1>0, <1>1, <1>5, <1>6, <1>7 DEF Stored
  <1>11. Planned'
    <2> SUFFICES ASSUME NEW j \in Jobs, NEW i \in job[j].plan
                 PROVE  (i.kind = "full" => PlanFull(i)') /\ (i.kind = "wal" => PlanWal(i)')
      BY <1>1 DEF Planned
    <2>1. i.path \in Nat /\ i.created \in Nat
      BY <1>0, Numbers
    <2>2. (i.kind = "full" => PlanFull(i)) /\ (i.kind = "wal" => PlanWal(i))
      BY <1>0 DEF Planned
    <2>3. PlanFull(i) => PlanFull(i)'
      BY <1>3, <1>5, <2>1 DEF PlanFull
    <2>4. PlanWal(i) => PlanWal(i)'
      BY <1>1, <1>2, <1>3, <1>4, <2>1 DEF PlanWal
    <2>5. QED
      BY <2>2, <2>3, <2>4
  <1>12. Replay'
    <2>1. Current' <=> Current
      BY <1>1, <1>3 DEF Current
    <2>2. QED
      BY <1>0, <1>1, <2>1 DEF Replay
  <1>13. ASSUME NEW k \in Jobs PROVE FullJob(k)' /\ WalJob(k)'
    <2>1. job[k].stamp \in Nat
      BY <1>0, Numbers
    <2>2. FullJob(k)'
      BY <1>0, <1>1, <1>7, <2>1 DEF FullJob, Uploading
    <2>3. WalJob(k)'
      BY <1>0, <1>1, <1>7 DEF WalJob
    <2>4. QED
      BY <2>2, <2>3
  <1>14. QED
    BY <1>8, <1>9, <1>10, <1>11, <1>12, <1>13 DEF IInv

LEMMA ArchiveStep ==
    ASSUME IInv, Archive PROVE IInv'
  <1>0. Shape /\ Locked /\ Stored /\ Planned /\ Replay /\ \A k \in Jobs : FullJob(k) /\ WalJob(k)
    BY DEF IInv
  <1>1. /\ archived < seg /\ archived' = archived + 1 /\ archive' = archive \cup {archived}
        /\ UNCHANGED <<now, seg, full, wal, resumes, taken, lock, job, shipped, restore>>
    BY DEF Archive, offsite
  <1>2. PICK n \in Nat : n = archived /\ archived' = n + 1 /\ archive' = archive \cup {n}
    BY <1>0, <1>1, Numbers
  <1>3. \A g \in Nat : g < archived' => g < archived \/ g \in archive'
    BY <1>2
  <1>4. \A g \in Nat : g < archived => g < archived'
    BY <1>2
  <1>5. Shape'
    <2>1. n + 1 \in 1 .. seg /\ seg \in 1 .. MaxSeg /\ shipped < n + 1
      BY <1>0, <1>1, <1>2, Numbers DEF Shape
    <2>2. archive' \subseteq Nat /\ \A g \in archive' : 1 <= g /\ g < n + 1
      BY <1>0, <1>2, Numbers DEF Shape
    <2>3. \A g \in DOMAIN wal : g < n + 1 /\ wal[g] <= now
      BY <1>0, <1>2, Numbers
    <2>4. QED
      BY <1>0, <1>1, <1>2, <2>1, <2>2, <2>3 DEF Shape
  <1>6. Locked'
    BY <1>0, <1>1 DEF Locked
  <1>7. Stored'
    <2>1. ASSUME NEW s \in DOMAIN full, Relevant(s), NEW g \in Nat, full[s].upto < g, g < archived'
          PROVE  g \in archive' \/ g \in DOMAIN wal
      BY <1>0, <1>1, <1>3, <2>1 DEF Stored
    <2>2. \A g \in archive' : shipped < g
      BY <1>0, <1>2, Numbers DEF Stored
    <2>3. \A s \in DOMAIN full : Kept(s)' /\ (Relevant(s)' => Relevant(s))
      BY <1>0, <1>1, SameBackups DEF Stored
    <2>4. \A s \in taken : s \in DOMAIN full \/ Aged(s)'
      BY <1>0, <1>1, SameBackups DEF Stored
    <2>5. QED
      BY <1>0, <1>1, <2>1, <2>2, <2>3, <2>4 DEF Stored
  <1>8. Planned'
    <2> SUFFICES ASSUME NEW j \in Jobs, NEW i \in job[j].plan
                 PROVE  (i.kind = "full" => PlanFull(i)') /\ (i.kind = "wal" => PlanWal(i)')
      BY <1>1 DEF Planned
    <2>1. (i.kind = "full" => PlanFull(i)) /\ (i.kind = "wal" => PlanWal(i)) /\ i.path \in Nat
      BY <1>0, Numbers DEF Planned
    <2>2. PlanFull(i) => PlanFull(i)'
      BY <1>1, SameBackups DEF PlanFull
    <2>3. PlanWal(i) => PlanWal(i)'
      BY <1>1, <1>4, <2>1, SameBackups DEF PlanWal
    <2>4. QED
      BY <2>1, <2>2, <2>3
  <1>9. Replay'
    <2>1. Current' <=> Current
      BY <1>1, SameBackups DEF Current
    <2>2. QED
      BY <1>0, <1>1, <2>1 DEF Replay
  <1>10. ASSUME NEW k \in Jobs PROVE FullJob(k)' /\ WalJob(k)'
    <2>1. FullJob(k)'
      <3> SUFFICES ASSUME Uploading(k) PROVE FullJob(k)'
        BY <1>1 DEF FullJob, Uploading
      <3>1. \A g \in Nat : job[k].upto < g /\ g < archived' => g \in archive'
        BY <1>0, <1>1, <1>3 DEF FullJob
      <3>2. job[k].todo # UploadOrder => Kept(job[k].stamp)'
        BY <1>0, <1>1, SameBackups DEF FullJob
      <3>3. QED
        BY <1>0, <1>1, <3>1, <3>2 DEF FullJob
    <2>2. WalJob(k)'
      <3>0. WalJob(k) /\ job[k].upto \in Nat /\ job[k].batch \subseteq Nat
        BY <1>0, Numbers
      <3>1. \A g : Past(g)' <=> Past(g)
        BY <1>1, SameBackups
      <3>2. job[k].upto < archived => job[k].upto < archived' /\ ~(n <= job[k].upto)
        BY <1>2, <3>0
      <3>3. (\A g \in job[k].batch : 1 <= g /\ g < archived) =>
               \A g \in job[k].batch : 1 <= g /\ g < archived'
        BY <1>4, <3>0
      <3>4. ASSUME \A g \in archive : g <= job[k].upto => g \in job[k].batch, job[k].upto < archived
            PROVE  \A g \in archive' : g <= job[k].upto => g \in job[k].batch
        BY <1>2, <3>2, <3>4
      <3>5. QED
        BY <1>1, <3>0, <3>1, <3>2, <3>3, <3>4 DEF WalJob
    <2>3. QED
      BY <2>1, <2>2
  <1>11. QED
    BY <1>5, <1>6, <1>7, <1>8, <1>9, <1>10 DEF IInv

LEMMA RestoreStep ==
    ASSUME IInv, restore' \in Recovery, Replay',
           UNCHANGED <<now, pg, full, wal, resumes, taken, lock, job, shipped>>
    PROVE  IInv'
  <1>0. Shape /\ Locked /\ Stored /\ Planned /\ \A k \in Jobs : FullJob(k) /\ WalJob(k)
    BY DEF IInv
  <1>1. UNCHANGED <<seg, archived, archive, full, taken, now>>
    BY DEF pg
  <1>2. Shape' /\ Locked'
    BY <1>0, <1>1 DEF Shape, Locked
  <1>3. Stored'
    <2>1. \A s \in DOMAIN full : Kept(s)' /\ (Relevant(s)' => Relevant(s))
      BY <1>0, <1>1, SameBackups DEF Stored
    <2>2. \A s \in taken : s \in DOMAIN full \/ Aged(s)'
      BY <1>0, <1>1, SameBackups DEF Stored
    <2>3. QED
      BY <1>0, <1>1, <2>1, <2>2 DEF Stored
  <1>4. Planned'
    BY <1>0, <1>1, SameBackups DEF Planned, PlanFull, PlanWal
  <1>5. ASSUME NEW k \in Jobs PROVE FullJob(k)' /\ WalJob(k)'
    <2>1. FullJob(k)'
      BY <1>0, <1>1, SameBackups DEF FullJob, Uploading
    <2>2. WalJob(k)'
      BY <1>0, <1>1, SameBackups DEF WalJob
    <2>3. QED
      BY <2>1, <2>2
  <1>6. QED
    BY <1>2, <1>3, <1>4, <1>5 DEF IInv

LEMMA FetchStep ==
    ASSUME IInv, FetchWal \/ Missing \/ FetchFails \/ Promote PROVE IInv'
  <1>0. /\ restore \in Recovery /\ Replay /\ restore.next \in Nat /\ restore.goal \in Nat
        /\ \A g \in DOMAIN wal : g \in Nat
        /\ UNCHANGED <<now, pg, full, wal, resumes, taken, lock, job, shipped>>
        /\ restore.pc = "replay"
    <2>1. restore \in Recovery /\ Replay
      BY DEF IInv, Shape
    <2>2. CASE FetchWal
      BY <2>1, <2>2, Numbers DEF IInv, FetchWal, offsite
    <2>3. CASE Missing
      BY <2>1, <2>3, Numbers DEF IInv, Missing, offsite
    <2>4. CASE FetchFails
      BY <2>1, <2>4, Numbers DEF IInv, FetchFails, offsite
    <2>5. CASE Promote
      BY <2>1, <2>5, Numbers DEF IInv, Promote, offsite
    <2>6. QED
      BY <2>2, <2>3, <2>4, <2>5
  <1>1. CASE FetchWal
    <2>1. PICK r : r = [restore EXCEPT !.next = @ + 1]
      OBVIOUS
    <2>2. /\ r \in Recovery /\ r.pc = "replay" /\ r.next = restore.next + 1 /\ r.latest = restore.latest
          /\ r.goal = restore.goal /\ r.newest = restore.newest /\ r.cut = restore.cut
      BY <1>0, <2>1 DEF Recovery
    <2>3. restore' = r
      BY <1>1, <2>1 DEF FetchWal
    <2>4. Current' <=> Current
      BY <1>0, <2>2, <2>3 DEF Current, Above
    <2>5. \A x \in Nat : /\ r.next <= x => restore.next <= x
                         /\ x < restore.next => x < r.next
      BY <1>0, <2>2
    <2>6. \A j \in Jobs : \A i \in job[j].plan : i.path \in Nat
      BY Numbers DEF IInv
    <2>7. Replay'
      BY <1>0, <2>2, <2>3, <2>4, <2>5, <2>6 DEF Replay
    <2>8. QED
      BY <1>0, <2>2, <2>3, <2>7, RestoreStep
  <1>2. ASSUME NEW f \in BOOLEAN, EndOfWal(f), f \/ restore.next \notin DOMAIN wal PROVE IInv'
    <2>1. PICK st \in {"promoted", "failed"} :
            /\ restore' = [restore EXCEPT !.pc = st, !.cut = f]
            /\ st = "promoted" <=> restore.latest
      BY <1>2, <1>0 DEF EndOfWal, Recovery
    <2>2. PICK r : r = [restore EXCEPT !.pc = st, !.cut = f]
      OBVIOUS
    <2>3. /\ r \in Recovery /\ r.pc = st /\ r.next = restore.next /\ r.latest = restore.latest
          /\ r.goal = restore.goal /\ r.newest = restore.newest /\ r.cut = f
      BY <1>0, <2>2 DEF Recovery
    <2>4. restore' = r
      BY <2>1, <2>2
    <2>5. Current' <=> Current
      BY <1>0, <2>3, <2>4 DEF Current, Above
    <2>6. Current /\ ~f => restore.goal < restore.next
      BY <1>0, <1>2 DEF Replay
    <2>7. Replay'
      BY <2>3, <2>4, <2>5, <2>6 DEF Replay
    <2>8. QED
      BY <1>0, <2>3, <2>4, <2>7, RestoreStep
  <1>3. CASE Missing
    BY <1>2, <1>3 DEF Missing
  <1>4. CASE FetchFails
    <2>1. PICK f \in BOOLEAN : f <=> restore.next \in DOMAIN wal
      OBVIOUS
    <2>2. (restore.next \in DOMAIN wal) = f
      BY <2>1
    <2>3. EndOfWal(f)
      BY <1>4, <2>2 DEF FetchFails
    <2>4. QED
      BY <1>2, <2>1, <2>3
  <1>5. CASE Promote
    <2>1. PICK r : r = [restore EXCEPT !.pc = "promoted"]
      OBVIOUS
    <2>2. r \in Recovery /\ r.latest = restore.latest
      BY <1>0, <2>1 DEF Recovery
    <2>3. restore' = r /\ ~restore.latest
      BY <1>5, <2>1 DEF Promote
    <2>4. ~Current'
      BY <2>2, <2>3 DEF Current
    <2>5. Replay'
      BY <2>4 DEF Replay
    <2>6. QED
      BY <1>0, <2>2, <2>3, <2>5, RestoreStep
  <1>6. QED
    BY <1>1, <1>3, <1>4, <1>5

LEMMA RecoverStep ==
    ASSUME IInv, NEW limit \in 0 .. now, Recover(limit) PROVE IInv'
  <1>0. /\ Shape /\ Stored /\ Planned /\ now \in Nat /\ shipped \in Nat
        /\ \A s \in DOMAIN full : s \in Nat /\ s <= now /\ full[s].upto \in Nat
        /\ UNCHANGED <<now, pg, full, wal, resumes, taken, lock, job, shipped>>
    BY Numbers DEF IInv, Recover, offsite
  <1>1. PICK C : C = {s \in DOMAIN full : s <= limit}
    OBVIOUS
  <1>2. PICK b : b = BaseFor(limit)
    OBVIOUS
  <1>3. b = Max(C) /\ C \subseteq Nat /\ C # {} /\ \A s \in C : s <= now
    BY <1>0, <1>1, <1>2 DEF Recover, BaseFor
  <1>4. b \in C /\ b \in DOMAIN full /\ b \in Nat /\ full[b].upto \in Nat
    BY <1>0, <1>1, <1>3, MaxOf
  <1>5. PICK mx : mx = Max(DOMAIN full)
    OBVIOUS
  <1>6. /\ mx \in DOMAIN full /\ mx \in Nat /\ ~Above(mx)
        /\ \A s \in DOMAIN full : s <= mx
    BY <1>0, <1>4, <1>5, Newest
  <1>7. PICK u \in Nat : u = full[b].upto
    BY <1>4
  <1>8. CASE "base" \notin full[b].files
    <2>1. PICK r : r = [NoRestore EXCEPT !.pc = "failed"]
      OBVIOUS
    <2>2. r \in Recovery /\ r.pc = "failed"
      BY <2>1 DEF NoRestore, Recovery
    <2>3. restore' = r
      BY <1>2, <1>8, <2>1 DEF Recover
    <2>4. Replay'
      BY <2>2, <2>3 DEF Replay
    <2>5. QED
      BY <1>0, <2>2, <2>3, <2>4, RestoreStep
  <1>9. CASE "base" \in full[b].files
    <2>1. PICK l \in BOOLEAN : l <=> limit = now
      OBVIOUS
    <2>2. PICK r : r = [pc |-> "replay", base |-> b, next |-> u + 1, latest |-> l, goal |-> shipped,
                        newest |-> mx, cut |-> FALSE]
      OBVIOUS
    <2>3. /\ r \in Recovery /\ r.pc = "replay" /\ r.next = u + 1 /\ r.latest = l /\ r.goal = shipped
          /\ r.newest = mx
      BY <1>0, <1>4, <1>6, <1>7, <2>2 DEF Recovery
    <2>4. restore' = r
      <3>1. (limit = now) = l
        BY <2>1
      <3>2. restore' = [pc |-> "replay", base |-> b, next |-> u + 1, latest |-> (limit = now),
                        goal |-> shipped, newest |-> mx, cut |-> FALSE]
        BY <1>2, <1>5, <1>7, <1>9 DEF Recover
      <3>3. QED
        BY <2>2, <3>1, <3>2
    <2>5. CASE ~l
      <3>1. ~Current'
        BY <2>3, <2>4, <2>5 DEF Current
      <3>2. Replay'
        BY <3>1 DEF Replay
      <3>3. QED
        BY <1>0, <2>3, <2>4, <3>2, RestoreStep
    <2>6. CASE l
      <3>1. b = mx
        <4>1. C = DOMAIN full
          BY <1>0, <1>1, <2>1, <2>6
        <4>2. QED
          BY <1>3, <1>5, <4>1
      <3>2. Chain(mx)
        <4>1. Relevant(mx)
          BY <1>6 DEF Relevant
        <4>2. QED
          BY <1>0, <1>6, <4>1, RelevantChain
      <3>3. \A g \in Nat : u + 1 <= g /\ g <= shipped => g \in DOMAIN wal
        BY <1>0, <1>7, <3>1, <3>2 DEF Chain
      <3>4. \A g \in DOMAIN wal : wal[g] < mx => g < u + 1
        <4>1. \A g \in DOMAIN wal : g \in Nat /\ (wal[g] < mx => g <= u)
          BY <1>0, <1>6, <1>7, <3>1, Numbers DEF Stored
        <4>2. QED
          BY <1>7, <4>1
      <3>5. ASSUME NEW j \in Jobs, NEW i \in job[j].plan, i.kind = "wal" PROVE i.path < u + 1
        <4>1. PlanWal(i) /\ i.path \in Nat /\ i.created \in Nat
          BY <1>0, <3>5, Numbers DEF Planned
        <4>2. Above(i.created) => i.created < mx
          BY <1>0, <1>6, <4>1 DEF Above
        <4>3. i.path <= u
          BY <1>6, <1>7, <3>1, <4>1, <4>2 DEF PlanWal
        <4>4. QED
          BY <1>7, <4>1, <4>3
      <3>6. shipped <= shipped
        BY <1>0
      <3>7. Replay'
        BY <1>0, <1>6, <2>3, <2>4, <3>3, <3>4, <3>5, <3>6 DEF Replay
      <3>8. QED
        BY <1>0, <2>3, <2>4, <3>7, RestoreStep
    <2>7. QED
      BY <2>5, <2>6
  <1>10. QED
    BY <1>8, <1>9

(***************************************************************************)
(* Segments are shipped                                                    *)
(***************************************************************************)

\* The holder of the lock is the only process in a critical step.
LEMMA Alone ==
    ASSUME Locked, NEW j \in Jobs, job[j].pc \in Held, NEW k \in Jobs, k # j
    PROVE  job[k].pc \notin Held
  BY DEF Locked

LEMMA WalUploadStep ==
    ASSUME IInv, NEW j \in Jobs, WalUpload(j) PROVE IInv'
  <1>0. Shape /\ Locked /\ Stored /\ Planned /\ Replay /\ \A k \in Jobs : FullJob(k) /\ WalJob(k)
    BY DEF IInv
  <1>1. /\ UNCHANGED <<now, seg, archived, archive, full, resumes, taken, lock, shipped, restore>>
        /\ job[j].cmd = "wal" /\ job[j].pc = "upload" /\ job[j].batch # {}
    BY DEF WalUpload, pg
  <1>2. PICK g : g = Min(job[j].batch)
    OBVIOUS
  <1>3. wal' = [h \in DOMAIN wal \cup {g} |-> IF h = g THEN now ELSE wal[h]]
    BY <1>2 DEF WalUpload
  <1>4. g \in job[j].batch /\ g \in Nat /\ g < archived /\ \A h \in job[j].batch : g <= h
    BY <1>0, <1>1, <1>2, Numbers, MinOf DEF WalJob
  <1>5. /\ DOMAIN wal' = DOMAIN wal \cup {g} /\ wal'[g] = now
        /\ \A h \in DOMAIN wal : h # g => wal'[h] = wal[h]
    BY <1>3
  <1>6. PICK q : q = [job[j] EXCEPT !.pc = "unlink"]
    OBVIOUS
  <1>7. /\ q \in Process /\ q.pc = "unlink" /\ q.stamp = job[j].stamp /\ q.plan = job[j].plan
        /\ q.cmd = "wal" /\ q.batch = job[j].batch /\ q.upto = job[j].upto
    BY <1>1, <1>6, Before DEF Process
  <1>8. /\ job' = [job EXCEPT ![j] = q] /\ job'[j] = q /\ job' \in [Jobs -> Process]
        /\ \A k \in Jobs : k # j => job'[k] = job[k]
    BY <1>6, <1>7, Before DEF WalUpload, Goto
  <1>9. \A k \in Jobs : job'[k].plan = job[k].plan /\ job'[k].stamp = job[k].stamp
                        /\ (job'[k].pc \in Held <=> job[k].pc \in Held)
    BY <1>1, <1>7, <1>8 DEF Held
  <1>10. Shape'
    <2>1. now \in Nat /\ now <= now /\ \A h \in DOMAIN wal : wal[h] \in Nat /\ h < archived /\ wal[h] <= now
      BY <1>0, Numbers
    <2>2. wal' \in [DOMAIN wal' -> Nat]
      BY <1>3, <1>5, <2>1
    <2>3. \A h \in DOMAIN wal' : h < archived /\ wal'[h] <= now
      BY <1>4, <1>5, <2>1
    <2>4. DOMAIN wal' \subseteq Nat
      BY <1>0, <1>4, <1>5 DEF Shape
    <2>5. QED
      BY <1>0, <1>1, <1>8, <2>2, <2>3, <2>4 DEF Shape
  <1>11. Locked'
    BY <1>0, <1>1, <1>9 DEF Locked
  <1>12. Stored'
    <2>1. \A s \in DOMAIN full : Kept(s)' /\ (Relevant(s)' => Relevant(s))
      BY <1>0, <1>1, SameBackups DEF Stored
    <2>2. \A s \in taken : s \in DOMAIN full \/ Aged(s)'
      BY <1>0, <1>1, SameBackups DEF Stored
    <2>3. \A s \in DOMAIN full : ~(now < s)
      BY <1>0, Numbers
    <2>4. \A s \in DOMAIN full : \A h \in DOMAIN wal' : wal'[h] < s => h <= full[s].upto
      BY <1>0, <1>5, <2>3 DEF Stored
    <2>5. QED
      BY <1>0, <1>1, <1>5, <2>1, <2>2, <2>4 DEF Stored
  <1>13. Planned'
    <2>1. \A i : (PlanFull(i)' <=> PlanFull(i)) /\ (PlanWal(i)' <=> PlanWal(i))
      BY <1>1, SameBackups DEF PlanFull, PlanWal
    <2>2. QED
      BY <1>0, <1>9, <2>1 DEF Planned
  <1>14. Replay'
    <2>1. Current' <=> Current
      BY <1>1, SameBackups DEF Current
    <2>2. \A s \in DOMAIN full : ~(now < s)
      BY <1>0, Numbers
    <2>3. QED
      BY <1>0, <1>1, <1>5, <1>9, <2>1, <2>2 DEF Replay
  <1>15. ASSUME NEW k \in Jobs PROVE FullJob(k)' /\ WalJob(k)'
    <2>1. CASE k = j
      <3>1. FullJob(k)'
        BY <1>7, <1>8, <2>1 DEF FullJob, Uploading
      <3>2. WalJob(j)
        BY <1>0
      <3>3. ASSUME NEW x \in job[j].batch, \A h \in job[j].batch : x <= h PROVE x = g
        <4>1. x \in Nat /\ x <= g /\ g <= x
          BY <1>0, <1>4, <3>3, Numbers
        <4>2. QED
          BY <1>4, <4>1
      <3>4. WalJob(j)'
        BY <1>1, <1>5, <1>7, <1>8, <3>2, <3>3 DEF WalJob
      <3>5. QED
        BY <2>1, <3>1, <3>4
    <2>2. CASE k # j
      <3>1. job'[k] = job[k] /\ job[k].pc \notin Held
        BY <1>0, <1>1, <1>8, <2>2, Alone DEF Held
      <3>2. QED
        BY <3>1 DEF FullJob, WalJob, Uploading, Held
    <2>3. QED
      BY <2>1, <2>2
  <1>16. QED
    BY <1>10, <1>11, <1>12, <1>13, <1>14, <1>15 DEF IInv

LEMMA WalUnlinkStep ==
    ASSUME IInv, NEW j \in Jobs, WalUnlink(j) PROVE IInv'
  <1>0. Shape /\ Locked /\ Stored /\ Planned /\ Replay /\ \A k \in Jobs : FullJob(k) /\ WalJob(k)
    BY DEF IInv
  <1>1. /\ UNCHANGED <<now, seg, archived, full, wal, resumes, taken, lock, shipped, restore>>
        /\ job[j].cmd = "wal" /\ job[j].pc = "unlink"
    BY DEF WalUnlink, offsite
  <1>2. PICK g : g = Min(job[j].batch)
    OBVIOUS
  <1>3. archive' = archive \ {g}
    BY <1>2 DEF WalUnlink
  <1>4. /\ g \in job[j].batch /\ g \in Nat /\ \A h \in job[j].batch : g <= h
        /\ g \in DOMAIN wal \/ Past(g)
    <2>1. job[j].batch # {} /\ job[j].batch \subseteq Nat
      BY <1>0, <1>1, Numbers DEF WalJob
    <2>2. g \in job[j].batch /\ g \in Nat /\ \A h \in job[j].batch : g <= h
      BY <1>2, <2>1, MinOf
    <2>3. QED
      BY <1>0, <1>1, <2>2 DEF WalJob
  <1>5. PICK q : q = [job[j] EXCEPT !.pc = "upload", !.batch = job[j].batch \ {g}]
    OBVIOUS
  <1>6. /\ q \in Process /\ q.pc = "upload" /\ q.stamp = job[j].stamp /\ q.plan = job[j].plan
        /\ q.cmd = "wal" /\ q.batch = job[j].batch \ {g} /\ q.upto = job[j].upto
    BY <1>1, <1>5, Before DEF Process
  <1>7. /\ job' = [job EXCEPT ![j] = q] /\ job'[j] = q /\ job' \in [Jobs -> Process]
        /\ \A k \in Jobs : k # j => job'[k] = job[k]
    BY <1>2, <1>5, <1>6, Before DEF WalUnlink
  <1>8. \A k \in Jobs : job'[k].plan = job[k].plan /\ job'[k].stamp = job[k].stamp
                        /\ (job'[k].pc \in Held <=> job[k].pc \in Held)
    BY <1>1, <1>6, <1>7 DEF Held
  <1>9. Shape' /\ Locked'
    BY <1>0, <1>1, <1>3, <1>7, <1>8 DEF Shape, Locked
  <1>10. Stored'
    <2>1. \A s \in DOMAIN full : Kept(s)' /\ (Relevant(s)' => Relevant(s))
      BY <1>0, <1>1, SameBackups DEF Stored
    <2>2. \A s \in taken : s \in DOMAIN full \/ Aged(s)'
      BY <1>0, <1>1, SameBackups DEF Stored
    <2>3. ASSUME NEW s \in DOMAIN full, Relevant(s), NEW h \in Nat, full[s].upto < h, h < archived
          PROVE  h \in archive' \/ h \in DOMAIN wal
      <3>1. h \in archive \/ h \in DOMAIN wal
        BY <1>0, <2>3 DEF Stored
      <3>2. h = g => h \in DOMAIN wal
        BY <1>0, <1>4, <2>3, Numbers DEF Past
      <3>3. QED
        BY <1>3, <3>1, <3>2
    <2>4. QED
      BY <1>0, <1>1, <1>3, <2>1, <2>2, <2>3 DEF Stored
  <1>11. Planned'
    <2>1. \A i : (PlanFull(i)' <=> PlanFull(i)) /\ (PlanWal(i)' <=> PlanWal(i))
      BY <1>1, SameBackups DEF PlanFull, PlanWal
    <2>2. QED
      BY <1>0, <1>8, <2>1 DEF Planned
  <1>12. Replay'
    <2>1. Current' <=> Current
      BY <1>1, SameBackups DEF Current
    <2>2. QED
      BY <1>0, <1>1, <1>8, <2>1 DEF Replay
  <1>13. ASSUME NEW k \in Jobs PROVE FullJob(k)' /\ WalJob(k)'
    <2>1. CASE k = j
      <3>1. FullJob(k)'
        BY <1>6, <1>7, <2>1 DEF FullJob, Uploading
      <3>2. WalJob(j)
        BY <1>0
      <3>3. WalJob(j)'
        BY <1>1, <1>3, <1>6, <1>7, <3>2 DEF WalJob
      <3>4. QED
        BY <2>1, <3>1, <3>3
    <2>2. CASE k # j
      <3>1. job'[k] = job[k] /\ job[k].pc \notin Held
        BY <1>0, <1>1, <1>7, <2>2, Alone DEF Held
      <3>2. QED
        BY <3>1 DEF FullJob, WalJob, Uploading, Held
    <2>3. QED
      BY <2>1, <2>2
  <1>14. QED
    BY <1>9, <1>10, <1>11, <1>12, <1>13 DEF IInv

(***************************************************************************)
(* A full backup is uploaded                                               *)
(***************************************************************************)

LEMMA FullUploadStep ==
    ASSUME IInv, NEW j \in Jobs, FullUpload(j) PROVE IInv'
  <1>0. Shape /\ Locked /\ Stored /\ Planned /\ Replay /\ \A k \in Jobs : FullJob(k) /\ WalJob(k)
    BY DEF IInv
  <1>1. /\ UNCHANGED <<now, seg, archived, archive, wal, resumes, lock, shipped, restore>>
        /\ job[j].cmd = "full" /\ job[j].pc = "upload" /\ job[j].todo # <<>> /\ Uploading(j)
    BY DEF FullUpload, pg, Uploading
  <1>2. PICK s \in Nat, p \in Nat : s = job[j].stamp /\ p = job[j].upto
    BY <1>0, Numbers
  <1>3. PICK f, rest : f = Head(job[j].todo) /\ rest = Tail(job[j].todo)
    OBVIOUS
  <1>4. /\ f \in Files /\ rest \in Todo /\ rest # UploadOrder
        /\ job[j].todo = UploadOrder => f = "base"
    <2>1. job[j].todo \in {<<"base", "dump", "manifest">>, <<"dump", "manifest">>, <<"manifest">>}
      BY <1>1, Before DEF Process, Todo, UploadOrder
    <2>2. CASE job[j].todo = <<"base", "dump", "manifest">>
      <3>1. f = "base" /\ rest = <<"dump", "manifest">>
        BY <1>3, <2>2
      <3>2. QED
        BY <3>1 DEF Files, Todo, UploadOrder
    <2>3. CASE job[j].todo = <<"dump", "manifest">>
      <3>1. f = "dump" /\ rest = <<"manifest">>
        BY <1>3, <2>3
      <3>2. QED
        BY <2>3, <3>1 DEF Files, Todo, UploadOrder
    <2>4. CASE job[j].todo = <<"manifest">>
      <3>1. f = "manifest" /\ rest = <<>>
        BY <1>3, <2>4
      <3>2. QED
        BY <2>4, <3>1 DEF Files, Todo, UploadOrder
    <2>5. QED
      BY <2>1, <2>2, <2>3, <2>4
  <1>5. /\ p < seg /\ (\A g \in DOMAIN wal : g <= p)
        /\ \A k \in Jobs : \A i \in job[k].plan : i.kind = "wal" => i.path <= p
        /\ \A g \in Nat : p < g /\ g < archived => g \in archive
        /\ f # "base" => Kept(s)
    BY <1>0, <1>1, <1>2, <1>4 DEF FullJob
  <1>6. PICK old : old = IF s \in DOMAIN full THEN full[s].files ELSE {}
    OBVIOUS
  <1>7. PICK d : d = [files |-> old \cup {f},
                      upto |-> IF f = "base" \/ old = {} THEN p ELSE full[s].upto]
    OBVIOUS
  <1>8. full' = [t \in DOMAIN full \cup {s} |-> IF t # s THEN full[t] ELSE d] /\ taken' = taken \cup {s}
    BY <1>2, <1>3, <1>6, <1>7 DEF FullUpload
  <1>9. /\ DOMAIN full' = DOMAIN full \cup {s} /\ full'[s] = d
        /\ \A t \in DOMAIN full : t # s => full'[t] = full[t]
    BY <1>8
  <1>10. /\ d \in Dump /\ d.upto < seg /\ d.files = old \cup {f}
         /\ d.upto = p \/ (s \in DOMAIN full /\ d.upto = full[s].upto)
    <2>1. old \subseteq Files /\ (old # {} => s \in DOMAIN full)
      BY <1>0, <1>6 DEF Shape, Dump
    <2>2. PICK v : v = IF f = "base" \/ old = {} THEN p ELSE full[s].upto
      OBVIOUS
    <2>3. v \in Nat /\ v < seg /\ (v = p \/ (s \in DOMAIN full /\ v = full[s].upto))
      BY <1>0, <1>2, <1>5, <2>1, <2>2, Numbers
    <2>4. d = [files |-> old \cup {f}, upto |-> v] /\ old \cup {f} \subseteq Files
      BY <1>4, <1>7, <2>1, <2>2
    <2>5. QED
      BY <2>3, <2>4 DEF Dump
  <1>11. \A x : Above(x) => Above(x)'
    BY <1>9 DEF Above
  <1>12. \A x : /\ Old(x) => Old(x)'
                /\ Aged(x) => Aged(x)'
                /\ Relevant(x)' => Relevant(x)
    BY <1>1, <1>8, <1>11 DEF Old, Aged, Relevant
  <1>13. Kept(s)'
    <2>1. CASE f = "base"
      BY <1>9, <1>10, <2>1 DEF Kept
    <2>2. CASE f # "base" /\ Old(s)
      BY <1>12, <2>2 DEF Kept
    <2>3. CASE f # "base" /\ ~Old(s)
      <3>1. s \in DOMAIN full /\ "base" \in full[s].files
        BY <1>5, <2>3 DEF Kept
      <3>2. "base" \in d.files
        BY <1>6, <1>10, <3>1
      <3>3. QED
        BY <1>9, <3>2 DEF Kept
    <2>4. QED
      BY <2>1, <2>2, <2>3
  <1>14. PICK q : q = [job[j] EXCEPT !.todo = rest]
    OBVIOUS
  <1>15. /\ q \in Process /\ q.pc = "upload" /\ q.stamp = s /\ q.plan = job[j].plan
         /\ q.cmd = "full" /\ q.upto = p /\ q.todo = rest
    BY <1>1, <1>2, <1>4, <1>14, Before DEF Process
  <1>16. /\ job' = [job EXCEPT ![j] = q] /\ job'[j] = q /\ job' \in [Jobs -> Process]
         /\ \A k \in Jobs : k # j => job'[k] = job[k]
    BY <1>3, <1>14, <1>15, Before DEF FullUpload
  <1>17. \A k \in Jobs : /\ job'[k].plan = job[k].plan /\ job'[k].stamp = job[k].stamp
                         /\ job'[k].pc = job[k].pc
    BY <1>1, <1>2, <1>15, <1>16
  <1>18. Shape'
    <2>1. s \in 0 .. now /\ s <= now
      BY <1>0, <1>2, Numbers DEF Locked
    <2>2. DOMAIN full' \subseteq Nat
      BY <1>0, <1>9 DEF Shape
    <2>3. full' \in [DOMAIN full' -> Dump]
      BY <1>0, <1>8, <1>9, <1>10 DEF Shape
    <2>4. \A t \in DOMAIN full' : t <= now /\ t \in taken' /\ full'[t].upto < seg
      BY <1>0, <1>8, <1>9, <1>10, <2>1 DEF Shape
    <2>5. taken' \subseteq 0 .. now
      BY <1>0, <1>8, <2>1 DEF Shape
    <2>6. QED
      BY <1>0, <1>1, <1>16, <2>2, <2>3, <2>4, <2>5 DEF Shape
  <1>19. Locked'
    BY <1>0, <1>1, <1>17 DEF Locked
  <1>20. Stored'
    <2>1. ASSUME NEW t \in DOMAIN full' PROVE Kept(t)'
      <3>1. CASE t = s
        BY <1>13, <3>1
      <3>2. CASE t # s
        <4>1. t \in DOMAIN full /\ full'[t] = full[t] /\ Kept(t)
          BY <1>0, <1>9, <3>2 DEF Stored
        <4>2. QED
          BY <1>12, <2>1, <4>1 DEF Kept
      <3>3. QED
        BY <3>1, <3>2
    <2>2. \A t \in DOMAIN full' : \A g \in DOMAIN wal : wal[g] < t => g <= full'[t].upto
      BY <1>0, <1>5, <1>9, <1>10 DEF Stored
    <2>3. ASSUME NEW t \in DOMAIN full', Relevant(t)', NEW g \in Nat, full'[t].upto < g, g < archived
          PROVE  g \in archive \/ g \in DOMAIN wal
      BY <1>0, <1>5, <1>9, <1>10, <1>12, <2>3 DEF Stored
    <2>4. \A t \in taken' : t \in DOMAIN full' \/ Aged(t)'
      BY <1>0, <1>8, <1>9, <1>12 DEF Stored
    <2>5. QED
      BY <1>0, <1>1, <2>1, <2>2, <2>3, <2>4 DEF Stored
  <1>21. Planned'
    <2> SUFFICES ASSUME NEW k \in Jobs, NEW i \in job[k].plan
                 PROVE  (i.kind = "full" => PlanFull(i)') /\ (i.kind = "wal" => PlanWal(i)')
      BY <1>17 DEF Planned
    <2>1. (i.kind = "full" => PlanFull(i)) /\ (i.kind = "wal" => PlanWal(i))
      BY <1>0 DEF Planned
    <2>2. PlanFull(i) => PlanFull(i)'
      BY <1>11, <1>12 DEF PlanFull
    <2>3. ASSUME i.kind = "wal" PROVE PlanWal(i)'
      <3>1. PlanWal(i) /\ i.path <= p
        BY <1>5, <2>1, <2>3
      <3>2. \A t \in DOMAIN full' : i.created < t => i.path <= full'[t].upto
        BY <1>9, <1>10, <3>1 DEF PlanWal
      <3>3. (\A t \in DOMAIN full : i.path <= full[t].upto) => \A t \in DOMAIN full' : i.path <= full'[t].upto
        BY <1>9, <1>10, <3>1
      <3>4. QED
        BY <1>1, <1>11, <3>1, <3>2, <3>3 DEF PlanWal
    <2>4. QED
      BY <2>1, <2>2, <2>3
  <1>22. Replay'
    <2>1. Current' => Current
      BY <1>1, <1>11 DEF Current
    <2>2. QED
      BY <1>0, <1>1, <1>9, <1>17, <2>1 DEF Replay
  <1>23. ASSUME NEW k \in Jobs PROVE FullJob(k)' /\ WalJob(k)'
    <2>1. CASE k = j
      <3>1. FullJob(j)'
        BY <1>1, <1>5, <1>13, <1>15, <1>16, <1>17 DEF FullJob
      <3>2. WalJob(j)'
        BY <1>15, <1>16 DEF WalJob
      <3>3. QED
        BY <2>1, <3>1, <3>2
    <2>2. CASE k # j
      <3>1. job'[k] = job[k] /\ job[k].pc \notin Held
        BY <1>0, <1>1, <1>16, <2>2, Alone DEF Held
      <3>2. QED
        BY <3>1 DEF FullJob, WalJob, Uploading, Held
    <2>3. QED
      BY <2>1, <2>2
  <1>24. QED
    BY <1>18, <1>19, <1>20, <1>21, <1>22, <1>23 DEF IInv

(***************************************************************************)
(* Retention deletes one item                                              *)
(***************************************************************************)

\* A segment that retention planned to delete is not needed by any full backup
\* that recovery is promised for.
LEMMA PlannedIsPast ==
    ASSUME Shape, NEW j \in Jobs, NEW i \in job[j].plan, PlanWal(i)
    PROVE  Past(i.path)
  <1> SUFFICES ASSUME NEW s \in DOMAIN full, Relevant(s) PROVE i.path <= full[s].upto
    BY DEF Past
  <1>1. i.path \in Nat /\ i.created \in Nat /\ s \in Nat /\ now \in Nat /\ Hourly \in Nat
        /\ \A t \in DOMAIN full : t \in Nat
    BY Numbers
  <1>2. CASE \A t \in DOMAIN full : i.path <= full[t].upto
    BY <1>2
  <1>3. CASE Above(i.created) /\ ~Above(s)
    <2>1. PICK t \in DOMAIN full : i.created < t
      BY <1>3 DEF Above
    <2>2. ~(s < t) /\ t \in Nat
      BY <1>1, <1>3 DEF Above
    <2>3. i.created < s
      BY <1>1, <2>1, <2>2
    <2>4. QED
      BY <2>3 DEF PlanWal
  <1>4. CASE now - s <= Hourly
    <2>1. i.created < s
      BY <1>1, <1>4 DEF PlanWal
    <2>2. QED
      BY <2>1 DEF PlanWal
  <1>5. QED
    BY <1>2, <1>3, <1>4 DEF PlanWal, Relevant

LEMMA DeleteStep ==
    ASSUME IInv, NEW j \in Jobs, Delete(j) PROVE IInv'
  <1>0. Shape /\ Locked /\ Stored /\ Planned /\ Replay /\ \A k \in Jobs : FullJob(k) /\ WalJob(k)
    BY DEF IInv
  <1>1. /\ UNCHANGED <<now, seg, archived, archive, taken, lock, shipped, restore>>
        /\ job[j].pc = "delete" /\ job[j].plan # {}
    BY DEF Delete, pg
  <1>2. PICK i : i = FirstOf(job[j].plan)
    OBVIOUS
  <1>3. /\ full' = IF i.kind = "full" THEN Without(full, i.path) ELSE full
        /\ wal' = IF i.kind = "wal" THEN Without(wal, i.path) ELSE wal
        /\ resumes' = IF i.kind = "resumes" THEN resumes \ {i.path} ELSE resumes
        /\ job' = [job EXCEPT ![j].plan = job[j].plan \ {i}]
    <2>1. job' = [job EXCEPT ![j].plan = @ \ {i}]
      BY <1>2 DEF Delete
    <2>2. QED
      BY <1>2, <2>1, Before DEF Delete
  <1>4. i \in job[j].plan /\ job[j].plan \subseteq Item
    BY <1>0, <1>1, <1>2, FirstIn, Numbers
  <1>5. (i.kind = "full" => PlanFull(i)) /\ (i.kind = "wal" => PlanWal(i)) /\ i.path \in Nat
    BY <1>0, <1>4, Numbers DEF Planned
  <1>6. /\ DOMAIN full' \subseteq DOMAIN full /\ full' \in [DOMAIN full' -> Dump]
        /\ \A t \in DOMAIN full' : full'[t] = full[t]
        /\ \A t \in DOMAIN full : t \in DOMAIN full' \/ (i.kind = "full" /\ t = i.path)
    <2>1. full \in [DOMAIN full -> Dump]
      BY <1>0 DEF Shape
    <2>2. QED
      BY <1>3, <2>1 DEF Without
  <1>7. /\ DOMAIN wal' \subseteq DOMAIN wal /\ wal' \in [DOMAIN wal' -> Nat]
        /\ \A g \in DOMAIN wal' : wal'[g] = wal[g]
        /\ \A g \in DOMAIN wal : g \in DOMAIN wal' \/ (i.kind = "wal" /\ g = i.path)
    <2>1. wal \in [DOMAIN wal -> Nat]
      BY <1>0 DEF Shape
    <2>2. QED
      BY <1>3, <2>1 DEF Without
  <1>8. \A x \in Nat : Above(x)' <=> Above(x)
    <2>1. ASSUME NEW x \in Nat, Above(x) PROVE Above(x)'
      <3>1. PICK t \in DOMAIN full : x < t
        BY <2>1 DEF Above
      <3>2. CASE t \in DOMAIN full'
        BY <3>1, <3>2 DEF Above
      <3>3. CASE t \notin DOMAIN full'
        <4>1. i.kind = "full" /\ t = i.path
          BY <1>6, <3>3
        <4>2. PICK u \in DOMAIN full : t < u
          BY <1>5, <4>1 DEF PlanFull, Above
        <4>3. u \in Nat /\ t \in Nat
          BY <1>0, Numbers
        <4>4. u # t /\ x < u
          BY <3>1, <4>2, <4>3
        <4>5. u \in DOMAIN full'
          BY <1>6, <4>1, <4>4
        <4>6. QED
          BY <4>4, <4>5 DEF Above
      <3>4. QED
        BY <3>2, <3>3
    <2>2. \A x : Above(x)' => Above(x)
      BY <1>6 DEF Above
    <2>3. QED
      BY <2>1, <2>2
  <1>9. \A x \in Nat : (Old(x)' <=> Old(x)) /\ (Aged(x)' <=> Aged(x)) /\ (Relevant(x)' <=> Relevant(x))
    BY <1>1, <1>8 DEF Old, Aged, Relevant
  <1>10. DOMAIN full \subseteq Nat /\ taken \subseteq Nat
    BY <1>0 DEF Shape
  <1>11. \A g : Past(g) => Past(g)'
    BY <1>6, <1>9, <1>10 DEF Past
  <1>12. i.kind = "wal" => Past(i.path)
    BY <1>0, <1>4, <1>5, PlannedIsPast
  <1>13. i.kind = "full" => Old(i.path) /\ Aged(i.path)
    BY <1>5 DEF PlanFull, Old, Aged
  <1>14. \A x \in Nat : Kept(x) => Kept(x)'
    BY <1>6, <1>9, <1>13 DEF Kept
  <1>15. PICK q : q = [job[j] EXCEPT !.plan = job[j].plan \ {i}]
    OBVIOUS
  <1>16. /\ q \in Process /\ q.pc = "delete" /\ q.stamp = job[j].stamp /\ q.plan = job[j].plan \ {i}
    BY <1>1, <1>15, Before DEF Process
  <1>17. /\ job' = [job EXCEPT ![j] = q] /\ job'[j] = q /\ job' \in [Jobs -> Process]
         /\ \A k \in Jobs : k # j => job'[k] = job[k]
    BY <1>3, <1>15, <1>16, Before
  <1>18. \A k \in Jobs : /\ job'[k].plan \subseteq job[k].plan /\ job'[k].stamp = job[k].stamp
                         /\ job'[k].pc = job[k].pc
    BY <1>1, <1>16, <1>17
  <1>19. Shape'
    <2>1. \A s \in DOMAIN full' : s <= now /\ s \in taken /\ full'[s].upto < seg
      BY <1>0, <1>6 DEF Shape
    <2>2. \A g \in DOMAIN wal' : g < archived /\ wal'[g] <= now
      BY <1>0, <1>7 DEF Shape
    <2>3. DOMAIN full' \subseteq Nat /\ DOMAIN wal' \subseteq Nat /\ resumes' \subseteq 0 .. now
      BY <1>0, <1>3, <1>6, <1>7 DEF Shape
    <2>4. QED
      BY <1>0, <1>1, <1>6, <1>7, <1>17, <2>1, <2>2, <2>3 DEF Shape
  <1>20. Locked'
    BY <1>0, <1>1, <1>18 DEF Locked
  <1>21. Stored'
    <2>1. \A s \in DOMAIN full' : Kept(s)'
      BY <1>0, <1>6, <1>10, <1>14 DEF Stored
    <2>2. \A s \in DOMAIN full' : \A g \in DOMAIN wal' : wal'[g] < s => g <= full'[s].upto
      BY <1>0, <1>6, <1>7 DEF Stored
    <2>3. ASSUME NEW s \in DOMAIN full', Relevant(s)', NEW g \in Nat, full'[s].upto < g, g < archived
          PROVE  g \in archive \/ g \in DOMAIN wal'
      <3>1. s \in DOMAIN full /\ Relevant(s) /\ full'[s] = full[s] /\ full[s].upto \in Nat
        BY <1>0, <1>6, <1>9, <1>10, <2>3, Numbers
      <3>2. g \in archive \/ g \in DOMAIN wal
        BY <1>0, <2>3, <3>1 DEF Stored
      <3>3. i.kind = "wal" => g # i.path
        BY <1>12, <2>3, <3>1 DEF Past
      <3>4. QED
        BY <1>7, <3>2, <3>3
    <2>4. \A s \in taken : s \in DOMAIN full' \/ Aged(s)'
      BY <1>0, <1>6, <1>9, <1>10, <1>13 DEF Stored
    <2>5. QED
      BY <1>0, <1>1, <2>1, <2>2, <2>3, <2>4 DEF Stored
  <1>22. Planned'
    <2> SUFFICES ASSUME NEW k \in Jobs, NEW n \in job[k].plan
                 PROVE  (n.kind = "full" => PlanFull(n)') /\ (n.kind = "wal" => PlanWal(n)')
      BY <1>18 DEF Planned
    <2>1. (n.kind = "full" => PlanFull(n)) /\ (n.kind = "wal" => PlanWal(n))
          /\ n.path \in Nat /\ n.created \in Nat
      BY <1>0, Numbers DEF Planned
    <2>2. PlanFull(n) => PlanFull(n)'
      BY <1>8, <1>9, <2>1 DEF PlanFull
    <2>3. PlanWal(n) => PlanWal(n)'
      BY <1>1, <1>6, <1>8, <2>1 DEF PlanWal
    <2>4. QED
      BY <2>1, <2>2, <2>3
  <1>23. Replay'
    <2>1. restore.newest \in Nat /\ restore.next \in Nat
      BY <1>0, Numbers
    <2>2. Current' <=> Current
      BY <1>1, <1>8, <2>1 DEF Current
    <2>3. ASSUME restore.pc = "replay", Current
          PROVE  /\ restore.newest \in DOMAIN full'
                 /\ \A g \in Nat : restore.next <= g /\ g <= restore.goal => g \in DOMAIN wal'
                 /\ \A g \in DOMAIN wal' : wal'[g] < restore.newest => g < restore.next
                 /\ \A k \in Jobs : \A n \in job'[k].plan : n.kind = "wal" => n.path < restore.next
      <3>1. /\ restore.newest \in DOMAIN full /\ ~Above(restore.newest)
            /\ \A g \in Nat : restore.next <= g /\ g <= restore.goal => g \in DOMAIN wal
            /\ i.kind = "wal" => i.path < restore.next
        BY <1>0, <1>4, <2>3 DEF Replay, Current
      <3>2. restore.newest \in DOMAIN full'
        BY <1>5, <1>6, <3>1 DEF PlanFull
      <3>3. \A g \in Nat : restore.next <= g => ~(i.kind = "wal" /\ g = i.path)
        BY <2>1, <3>1
      <3>4. \A g \in Nat : restore.next <= g /\ g <= restore.goal => g \in DOMAIN wal'
        BY <1>7, <3>1, <3>3
      <3>5. \A g \in DOMAIN wal' : wal'[g] < restore.newest => g < restore.next
        BY <1>0, <1>7, <2>3 DEF Replay
      <3>6. \A k \in Jobs : \A n \in job'[k].plan : n.kind = "wal" => n.path < restore.next
        BY <1>0, <1>18, <2>3 DEF Replay
      <3>7. QED
        BY <3>2, <3>4, <3>5, <3>6
    <2>4. QED
      BY <1>0, <1>1, <2>2, <2>3 DEF Replay
  <1>24. ASSUME NEW k \in Jobs PROVE FullJob(k)' /\ WalJob(k)'
    <2>1. CASE k = j
      BY <1>16, <1>17, <2>1 DEF FullJob, WalJob, Uploading
    <2>2. CASE k # j
      <3>0. job'[k] = job[k] /\ FullJob(k) /\ WalJob(k) /\ job[k].stamp \in Nat
        BY <1>0, <1>17, <2>2, Numbers
      <3>1. FullJob(k)'
        <4> SUFFICES ASSUME Uploading(k) PROVE FullJob(k)'
          BY <3>0 DEF FullJob, Uploading
        <4>1. \A l \in Jobs : \A n \in job'[l].plan : n.kind = "wal" => n.path <= job[k].upto
          BY <1>18, <3>0 DEF FullJob
        <4>2. \A g \in DOMAIN wal' : g <= job[k].upto
          BY <1>7, <3>0 DEF FullJob
        <4>3. job[k].todo # UploadOrder => Kept(job[k].stamp)'
          BY <1>14, <3>0 DEF FullJob
        <4>4. QED
          BY <1>1, <3>0, <4>1, <4>2, <4>3 DEF FullJob
      <3>2. WalJob(k)'
        <4>1. \A g : g \in DOMAIN wal \/ Past(g) => g \in DOMAIN wal' \/ Past(g)'
          BY <1>7, <1>11, <1>12
        <4>2. QED
          BY <1>1, <3>0, <4>1 DEF WalJob
      <3>3. QED
        BY <3>1, <3>2
    <2>3. QED
      BY <2>1, <2>2
  <1>25. QED
    BY <1>19, <1>20, <1>21, <1>22, <1>23, <1>24 DEF IInv

(***************************************************************************)
(* The theorems                                                            *)
(***************************************************************************)

LEMMA StutterStep ==
    ASSUME IInv, UNCHANGED vars PROVE IInv'
  <1>1. restore' \in Recovery /\ UNCHANGED <<now, pg, full, wal, resumes, taken, lock, job, shipped>>
    BY DEF IInv, Shape, vars, pg
  <1>2. Replay'
    BY DEF IInv, Replay, vars, Current, Above
  <1>3. QED
    BY <1>1, <1>2, RestoreStep

Commands == {"full", "wal", "resumes", "ensure-full"}

Scheduled == schedule \in Seq(Commands)

LEMMA JobNext ==
    ASSUME IInv, Scheduled, NEW j \in Jobs,
           \/ \E c \in Range(schedule) : Start(j, c)
           \/ Acquire(j) \/ Fail(j) \/ FullPrepare(j) \/ FullUpload(j)
           \/ WalSwitch(j) \/ WalPending(j) \/ WalUpload(j) \/ WalUnlink(j)
           \/ ResumesUpload(j) \/ Finish(j) \/ Plan(j) \/ Delete(j) \/ RetentionDone(j)
    PROVE  IInv' /\ Scheduled'
  <1>1. CASE \E c \in Range(schedule) : Start(j, c)
    <2>1. PICK c : Start(j, c)
      BY <1>1
    <2>2. schedule \in Seq(Commands) /\ schedule # <<>> /\ c = Head(schedule) /\ schedule' = Tail(schedule)
      BY <2>1 DEF Start, Scheduled
    <2>3. c \in Commands /\ Scheduled'
      BY <2>2 DEF Scheduled
    <2>4. IInv'
      BY <2>1, <2>3, StartStep DEF Commands
    <2>5. QED
      BY <2>3, <2>4
  <1>2. CASE Acquire(j)
    BY <1>2, AcquireStep DEF Acquire, env, Scheduled
  <1>3. CASE Fail(j)
    BY <1>3, FailStep DEF Fail, Scheduled
  <1>4. CASE FullPrepare(j)
    BY <1>4, FullPrepareStep DEF FullPrepare, env, Scheduled
  <1>5. CASE FullUpload(j)
    BY <1>5, FullUploadStep DEF FullUpload, env, Scheduled
  <1>6. CASE WalSwitch(j)
    BY <1>6, WalSwitchStep DEF WalSwitch, env, Scheduled
  <1>7. CASE WalPending(j)
    BY <1>7, WalPendingStep DEF WalPending, env, Scheduled
  <1>8. CASE WalUpload(j)
    BY <1>8, WalUploadStep DEF WalUpload, env, Scheduled
  <1>9. CASE WalUnlink(j)
    BY <1>9, WalUnlinkStep DEF WalUnlink, env, Scheduled
  <1>10. CASE ResumesUpload(j)
    BY <1>10, ResumesUploadStep DEF ResumesUpload, env, Scheduled
  <1>11. CASE Finish(j)
    BY <1>11, FinishStep DEF Finish, env, Scheduled
  <1>12. CASE Plan(j)
    BY <1>12, PlanStep DEF Plan, env, Scheduled
  <1>13. CASE Delete(j)
    BY <1>13, DeleteStep DEF Delete, env, Scheduled
  <1>14. CASE RetentionDone(j)
    BY <1>14, RetentionDoneStep DEF RetentionDone, env, Scheduled
  <1>15. QED
    BY <1>1, <1>2, <1>3, <1>4, <1>5, <1>6, <1>7, <1>8, <1>9, <1>10, <1>11, <1>12, <1>13, <1>14

LEMMA NextInv == IInv /\ Scheduled /\ [Next]_vars => IInv' /\ Scheduled'
  <1> SUFFICES ASSUME IInv, Scheduled, [Next]_vars PROVE IInv' /\ Scheduled'
    OBVIOUS
  <1>1. CASE Tick
    BY <1>1, TickStep DEF Tick, env, Scheduled
  <1>2. CASE Archive
    BY <1>2, ArchiveStep DEF Archive, env, Scheduled
  <1>3. CASE \E limit \in 0 .. now : Recover(limit)
    <2>1. PICK limit \in 0 .. now : Recover(limit)
      BY <1>3
    <2>2. QED
      BY <2>1, RecoverStep DEF Recover, env, Scheduled
  <1>4. CASE FetchWal \/ Missing \/ FetchFails \/ Promote
    BY <1>4, FetchStep DEF FetchWal, Missing, FetchFails, Promote, env, Scheduled
  <1>5. CASE UNCHANGED vars
    BY <1>5, StutterStep DEF vars, Scheduled
  <1>6. ASSUME NEW j \in Jobs,
               \/ \E c \in Range(schedule) : Start(j, c)
               \/ Acquire(j) \/ Fail(j) \/ FullPrepare(j) \/ FullUpload(j)
               \/ WalSwitch(j) \/ WalPending(j) \/ WalUpload(j) \/ WalUnlink(j)
               \/ ResumesUpload(j) \/ Finish(j) \/ Plan(j) \/ Delete(j) \/ RetentionDone(j)
        PROVE  IInv' /\ Scheduled'
    BY <1>6, JobNext
  <1>7. QED
    BY <1>1, <1>2, <1>3, <1>4, <1>5, <1>6 DEF Next

\* The invariant of the backup commands: what is stored offsite, what the processes
\* are about to do with it, and where a restore stands, fit together at every moment.
THEOREM Invariant == Spec => []IInv
  <1>1. Init => IInv /\ Scheduled
    <2>1. Init => Scheduled
      BY BackupAssumption DEF Init, Scheduled, Commands
    <2>2. QED
      BY <2>1, InitInv
  <1>2. QED
    BY <1>1, NextInv, PTL DEF Spec

\* cmd_full, cmd_wal and cmd_retention, however they interleave and fail: the newest
\* full backup, and any taken within the hourly window, is complete and has every
\* segment after it up to the one the last successful wal command reported.
THEOREM AlwaysRecoverable == Spec => []ShippedIsRecoverable
  BY Invariant, Recoverable, PTL

\* plan_deletions, applied outside the lock by many processes: every full backup
\* stays for the daily period, the first of a month for the monthly period, and a run
\* leaves nothing for the next one, whatever was uploaded between plan and deletion.
THEOREM RetentionKeeps == Spec => []RetentionSound
  BY Invariant, Retained, PTL

\* restore-pitr to the latest moment ends at or after the segment that was reported
\* as shipped when it began, unless a fetch of it failed (PostgreSQL then promotes at
\* that segment) or a newer full backup appeared meanwhile.
THEOREM RestoreComplete == Spec => []RestoreReachesShipped
  BY Invariant, Restored, PTL

(***************************************************************************)
(* The script of the migration                                             *)
(***************************************************************************)

\* What a statement is, whatever it does.
Ops == {"column", "backfill", "orphans", "fk_add", "fk_validate", "check_drop", "check_add",
        "check_validate", "not_null", "index", "policy_drop", "policy_create", "enable"}

Tables == {"users", "skills", "jobs", "applications", "resumes", "interviews", "status_history",
           "interview_question_sets", "interview_questions", "skill_names", "companies", "candidates"}

Statements == [op : Ops, table : Tables \cup {POLICIES[i].table : i \in 1..21},
               policy : {POLICIES[i] : i \in 1..21} \cup {NULL}]

\* A sequence of n elements of S.
Lists(S, s, n) == s \in Seq(S) /\ Len(s) = n

\* What the statements made for the tables are.
OneOf(B, o, tables, n) == \A i \in 1..n : B[i] = Stmt(o, tables[i])

TwoOf(B, o, q, tables, n) ==
    \A i \in 1..n : B[2 * i - 1] = Stmt(o, tables[i]) /\ B[2 * i] = Stmt(q, tables[i])

FiveOf(B, o1, o2, o3, o4, o5, tables, n) ==
    \A i \in 1..n : /\ B[5 * i - 4] = Stmt(o1, tables[i]) /\ B[5 * i - 3] = Stmt(o2, tables[i])
                    /\ B[5 * i - 2] = Stmt(o3, tables[i]) /\ B[5 * i - 1] = Stmt(o4, tables[i])
                    /\ B[5 * i] = Stmt(o5, tables[i])

\* Tuples, element by element.
LEMMA TenantTables ==
    Lists(Tables, TENANT_TABLES, 7)
  BY DEF TENANT_TABLES, Tables, Lists

LEMMA OneEach ==
    ASSUME NEW tables, NEW n \in Nat, Lists(Tables, tables, n), NEW o \in Ops
    PROVE  Lists(Statements, Each(tables, <<o>>), n) /\ OneOf(Each(tables, <<o>>), o, tables, n)
  <1>1. n = Len(tables) /\ tables \in Seq(Tables)
    BY DEF Lists
  <1>2. Each(tables, <<o>>) = [k \in 1..n |-> Stmt(o, tables[k])]
    <2>0. PICK ops : ops = <<o>>
      OBVIOUS
    <2>1. ops = <<o>> /\ Len(ops) = 1 /\ ops[1] = o
      BY <2>0
    <2>2. ASSUME NEW k \in 1..n PROVE ops[((k - 1) % 1) + 1] = o /\ tables[((k - 1) \div 1) + 1] = tables[k]
      <3>1. (k - 1) % 1 = 0 /\ (k - 1) \div 1 = k - 1
        OBVIOUS
      <3>2. QED
        BY <3>1, <2>1
    <2>3. n * Len(ops) = n
      BY <2>1
    <2>4. QED
      BY <1>1, <2>1, <2>2, <2>3 DEF Each
  <1>3. \A k \in 1..n : Stmt(o, tables[k]) \in Statements
    BY <1>1 DEF Stmt, Statements
  <1>4. PICK B : B = Each(tables, <<o>>)
    OBVIOUS
  <1>5. B \in [1..n -> Statements]
    BY <1>2, <1>3, <1>4
  <1>6. Lists(Statements, B, n)
    BY <1>5 DEF Lists
  <1>7. OneOf(B, o, tables, n)
    BY <1>2, <1>4 DEF OneOf
  <1>8. QED
    BY <1>4, <1>6, <1>7

LEMMA TwoEach ==
    ASSUME NEW tables, NEW n \in Nat, Lists(Tables, tables, n), NEW o \in Ops, NEW q \in Ops
    PROVE  /\ Lists(Statements, Each(tables, <<o, q>>), 2 * n)
           /\ TwoOf(Each(tables, <<o, q>>), o, q, tables, n)
  <1>1. n = Len(tables) /\ tables \in Seq(Tables)
    BY DEF Lists
  <1>0. PICK ops : ops = <<o, q>>
    OBVIOUS
  <1>2. ops = <<o, q>> /\ Len(ops) = 2 /\ ops[1] = o /\ ops[2] = q
    BY <1>0
  <1>3. n * Len(ops) = 2 * n
    BY <1>2
  <1>4. Each(tables, ops) = [k \in 1..(2 * n) |-> Stmt(ops[((k - 1) % 2) + 1], tables[((k - 1) \div 2) + 1])]
    BY <1>1, <1>2, <1>3 DEF Each
  <1>5. ASSUME NEW k \in 1..(2 * n)
        PROVE  Stmt(ops[((k - 1) % 2) + 1], tables[((k - 1) \div 2) + 1]) \in Statements
    <2>1. (k - 1) % 2 = 0 \/ (k - 1) % 2 = 1
      OBVIOUS
    <2>2. ((k - 1) \div 2) + 1 \in 1..n
      OBVIOUS
    <2>3. tables[((k - 1) \div 2) + 1] \in Tables
      BY <1>1, <2>2
    <2>4. ops[((k - 1) % 2) + 1] \in Ops
      BY <1>2, <2>1
    <2>5. QED
      BY <2>3, <2>4 DEF Stmt, Statements
  <1>6. ASSUME NEW i \in 1..n
        PROVE  /\ Each(tables, ops)[2 * i - 1] = Stmt(o, tables[i])
               /\ Each(tables, ops)[2 * i] = Stmt(q, tables[i])
    <2>1. /\ 2 * i - 1 \in 1..(2 * n) /\ 2 * i \in 1..(2 * n)
          /\ ((2 * i - 1) - 1) % 2 = 0 /\ ((2 * i - 1) - 1) \div 2 = i - 1
          /\ (2 * i - 1) % 2 = 1 /\ (2 * i - 1) \div 2 = i - 1
      OBVIOUS
    <2>2. PICK k \in 1..(2 * n), l \in 1..(2 * n) : k = 2 * i - 1 /\ l = 2 * i
      BY <2>1
    <2>3. (k - 1) % 2 = 0 /\ (k - 1) \div 2 = i - 1 /\ (l - 1) % 2 = 1 /\ (l - 1) \div 2 = i - 1
      BY <2>1, <2>2
    <2>4. Each(tables, ops)[k] = Stmt(ops[((k - 1) % 2) + 1], tables[((k - 1) \div 2) + 1])
          /\ Each(tables, ops)[l] = Stmt(ops[((l - 1) % 2) + 1], tables[((l - 1) \div 2) + 1])
      BY <1>4
    <2>5. 0 + 1 = 1 /\ 1 + 1 = 2 /\ (i - 1) + 1 = i
      OBVIOUS
    <2>6. Each(tables, ops)[k] = Stmt(o, tables[i]) /\ Each(tables, ops)[l] = Stmt(q, tables[i])
      BY <1>2, <2>3, <2>4, <2>5
    <2>7. QED
      BY <2>2, <2>6
  <1>7. Each(tables, ops) \in [1..(2 * n) -> Statements]
    BY <1>4, <1>5
  <1>8. PICK B : B = Each(tables, ops)
    OBVIOUS
  <1>9. 2 * n \in Nat
    OBVIOUS
  <1>10. Lists(Statements, B, 2 * n)
    BY <1>7, <1>8, <1>9 DEF Lists
  <1>11. TwoOf(B, o, q, tables, n)
    BY <1>6, <1>8 DEF TwoOf
  <1>12. QED
    BY <1>2, <1>8, <1>10, <1>11

LEMMA FiveEach ==
    ASSUME NEW tables, NEW n \in Nat, Lists(Tables, tables, n), NEW o1 \in Ops, NEW o2 \in Ops,
           NEW o3 \in Ops, NEW o4 \in Ops, NEW o5 \in Ops
    PROVE  /\ Lists(Statements, Each(tables, <<o1, o2, o3, o4, o5>>), 5 * n)
           /\ FiveOf(Each(tables, <<o1, o2, o3, o4, o5>>), o1, o2, o3, o4, o5, tables, n)
  <1>1. n = Len(tables) /\ tables \in Seq(Tables)
    BY DEF Lists
  <1>0. PICK ops : ops = <<o1, o2, o3, o4, o5>>
    OBVIOUS
  <1>2. /\ ops = <<o1, o2, o3, o4, o5>> /\ Len(ops) = 5
        /\ ops[1] = o1 /\ ops[2] = o2 /\ ops[3] = o3 /\ ops[4] = o4 /\ ops[5] = o5
    BY <1>0
  <1>3. n * Len(ops) = 5 * n
    BY <1>2
  <1>4. Each(tables, ops) = [k \in 1..(5 * n) |-> Stmt(ops[((k - 1) % 5) + 1], tables[((k - 1) \div 5) + 1])]
    BY <1>1, <1>2, <1>3 DEF Each
  <1>5. ASSUME NEW k \in 1..(5 * n)
        PROVE  Stmt(ops[((k - 1) % 5) + 1], tables[((k - 1) \div 5) + 1]) \in Statements
    <2>1. (k - 1) % 5 \in 0..4
      OBVIOUS
    <2>2. ((k - 1) \div 5) + 1 \in 1..n
      OBVIOUS
    <2>3. tables[((k - 1) \div 5) + 1] \in Tables
      BY <1>1, <2>2
    <2>4. ops[((k - 1) % 5) + 1] \in Ops
      BY <1>2, <2>1
    <2>5. QED
      BY <2>3, <2>4 DEF Stmt, Statements
  <1>6. ASSUME NEW i \in 1..n, NEW j \in 1..5
        PROVE  Each(tables, ops)[5 * i - 5 + j] = Stmt(ops[j], tables[i])
    <2>1. /\ 5 * i - 5 + j \in 1..(5 * n)
          /\ ((5 * i - 5 + j) - 1) % 5 = j - 1 /\ ((5 * i - 5 + j) - 1) \div 5 = i - 1
      OBVIOUS
    <2>2. PICK k \in 1..(5 * n) : k = 5 * i - 5 + j
      BY <2>1
    <2>3. (k - 1) % 5 = j - 1 /\ (k - 1) \div 5 = i - 1
      BY <2>1, <2>2
    <2>4. Each(tables, ops)[k] = Stmt(ops[((k - 1) % 5) + 1], tables[((k - 1) \div 5) + 1])
      BY <1>4
    <2>5. (j - 1) + 1 = j /\ (i - 1) + 1 = i
      OBVIOUS
    <2>6. QED
      BY <2>2, <2>3, <2>4, <2>5
  <1>7. ASSUME NEW i \in 1..n
        PROVE  /\ Each(tables, ops)[5 * i - 4] = Stmt(o1, tables[i])
               /\ Each(tables, ops)[5 * i - 3] = Stmt(o2, tables[i])
               /\ Each(tables, ops)[5 * i - 2] = Stmt(o3, tables[i])
               /\ Each(tables, ops)[5 * i - 1] = Stmt(o4, tables[i])
               /\ Each(tables, ops)[5 * i] = Stmt(o5, tables[i])
    <2>1. /\ 5 * i - 4 = 5 * i - 5 + 1 /\ 5 * i - 3 = 5 * i - 5 + 2 /\ 5 * i - 2 = 5 * i - 5 + 3
          /\ 5 * i - 1 = 5 * i - 5 + 4 /\ 5 * i = 5 * i - 5 + 5
          /\ 1 \in 1..5 /\ 2 \in 1..5 /\ 3 \in 1..5 /\ 4 \in 1..5 /\ 5 \in 1..5
      OBVIOUS
    <2>2. QED
      BY <1>2, <1>6, <2>1
  <1>8. Each(tables, ops) \in [1..(5 * n) -> Statements]
    BY <1>4, <1>5
  <1>9. PICK B : B = Each(tables, ops)
    OBVIOUS
  <1>10. 5 * n \in Nat
    OBVIOUS
  <1>11. Lists(Statements, B, 5 * n)
    BY <1>8, <1>9, <1>10 DEF Lists
  <1>12. FiveOf(B, o1, o2, o3, o4, o5, tables, n)
    BY <1>7, <1>9 DEF FiveOf
  <1>13. QED
    BY <1>2, <1>9, <1>11, <1>12

\* r is s, with m elements, and then t, with n.
Joins(r, s, t, m, n) ==
    /\ \A i \in 1..m : r[i] = s[i]
    /\ \A i \in 1..n : r[m + i] = t[i]

LEMMA Chained ==
    ASSUME NEW S, NEW s, NEW t, NEW m \in Nat, NEW n \in Nat, Lists(S, s, m), Lists(S, t, n)
    PROVE  Lists(S, s \o t, m + n) /\ Joins(s \o t, s, t, m, n)
  <1>1. s \in Seq(S) /\ t \in Seq(S) /\ m = Len(s) /\ n = Len(t)
    BY DEF Lists
  <1>2. Lists(S, s \o t, m + n)
    BY <1>1 DEF Lists
  <1>3. \A i \in 1..m : (s \o t)[i] = s[i]
    BY <1>1
  <1>4. \A i \in 1..n : (s \o t)[m + i] = t[i]
    BY <1>1
  <1>5. QED
    BY <1>2, <1>3, <1>4 DEF Joins

\* The sequences of tables the statements are made for.
Parents == <<"users">> \o TENANT_TABLES
Indexed == AllTables \o <<"skill_names">>

LEMMA TableLists ==
    /\ Lists(Tables, AllTables, 9) /\ Joins(AllTables, <<"users", "skills">>, TENANT_TABLES, 2, 7)
    /\ Lists(Tables, Parents, 8) /\ Joins(Parents, <<"users">>, TENANT_TABLES, 1, 7)
    /\ Lists(Tables, Indexed, 10) /\ Joins(Indexed, AllTables, <<"skill_names">>, 9, 1)
    /\ Lists(Tables, RLS_TABLES, 10)
  <1>1. /\ Lists(Tables, <<"users", "skills">>, 2) /\ Lists(Tables, <<"users">>, 1)
        /\ Lists(Tables, <<"skill_names">>, 1) /\ Lists(Tables, <<"companies", "candidates">>, 2)
        /\ Lists(Tables, <<"skills">>, 1)
    BY DEF Lists, Tables
  <1>2. Lists(Tables, AllTables, 2 + 7) /\ Joins(AllTables, <<"users", "skills">>, TENANT_TABLES, 2, 7)
    <2>1. PICK o, t : o = <<"users", "skills">> /\ t = TENANT_TABLES
      OBVIOUS
    <2>2. Lists(Tables, o \o t, 2 + 7) /\ Joins(o \o t, o, t, 2, 7)
      BY <1>1, <2>1, TenantTables, Chained
    <2>3. QED
      BY <2>1, <2>2 DEF AllTables, OPTIONAL_TENANT_TABLES
  <1>3. Lists(Tables, Parents, 1 + 7) /\ Joins(Parents, <<"users">>, TENANT_TABLES, 1, 7)
    <2>1. PICK o, t : o = <<"users">> /\ t = TENANT_TABLES
      OBVIOUS
    <2>2. Lists(Tables, o \o t, 1 + 7) /\ Joins(o \o t, o, t, 1, 7)
      BY <1>1, <2>1, TenantTables, Chained
    <2>3. QED
      BY <2>1, <2>2 DEF Parents
  <1>4. 2 + 7 = 9 /\ 1 + 7 = 8 /\ 9 + 1 = 10
    OBVIOUS
  <1>5. Lists(Tables, Indexed, 9 + 1) /\ Joins(Indexed, AllTables, <<"skill_names">>, 9, 1)
    <2>1. PICK a, n : a = AllTables /\ n = <<"skill_names">>
      OBVIOUS
    <2>2. Lists(Tables, a \o n, 9 + 1) /\ Joins(a \o n, a, n, 9, 1)
      BY <1>1, <1>2, <1>4, <2>1, Chained
    <2>3. QED
      BY <2>1, <2>2 DEF Indexed
  <1>6. Lists(Tables, RLS_TABLES, 9 + 1)
    <2>1. PICK c, t, k : c = <<"companies", "candidates">> /\ t = TENANT_TABLES /\ k = <<"skills">>
      OBVIOUS
    <2>2. PICK e : e = c \o t
      OBVIOUS
    <2>3. Lists(Tables, e, 2 + 7)
      BY <1>1, <2>1, <2>2, TenantTables, Chained
    <2>4. Lists(Tables, e \o k, 9 + 1)
      BY <1>1, <1>4, <2>1, <2>3, Chained
    <2>5. RLS_TABLES = e \o k
      BY <2>1, <2>2 DEF RLS_TABLES
    <2>6. QED
      BY <2>4, <2>5
  <1>7. QED
    BY <1>2, <1>3, <1>4, <1>5, <1>6

\* The statements for policy number i.
PolicyStmt(op, i) == [op |-> op, table |-> POLICIES[i].table, policy |-> POLICIES[i]]

PolicyBlock == [k \in 1 .. 2 * Len(POLICIES) |->
                  LET p == POLICIES[(k + 1) \div 2]
                  IN  [op |-> IF k % 2 = 1 THEN "policy_drop" ELSE "policy_create",
                       table |-> p.table, policy |-> p]]

PoliciesOf(B) ==
    \A i \in 1..21 : /\ B[2 * i - 1] = PolicyStmt("policy_drop", i)
                     /\ B[2 * i] = PolicyStmt("policy_create", i)

LEMMA PolicyCount == Len(POLICIES) = 21 /\ DOMAIN POLICIES = 1..21
  BY DEF POLICIES

LEMMA PolicyStatements == Lists(Statements, PolicyBlock, 42) /\ PoliciesOf(PolicyBlock)
  <1>1. 2 * Len(POLICIES) = 42
    BY PolicyCount
  <1>2. PICK B : B = PolicyBlock
    OBVIOUS
  <1>3. B = [k \in 1..42 |-> PolicyStmt(IF k % 2 = 1 THEN "policy_drop" ELSE "policy_create", (k + 1) \div 2)]
    BY <1>1, <1>2 DEF PolicyBlock, PolicyStmt
  <1>4. ASSUME NEW k \in 1..42
        PROVE PolicyStmt(IF k % 2 = 1 THEN "policy_drop" ELSE "policy_create", (k + 1) \div 2) \in Statements
    <2>1. (k + 1) \div 2 \in 1..21
      OBVIOUS
    <2>2. PICK i \in 1..21 : i = (k + 1) \div 2
      BY <2>1
    <2>3. PICK o \in Ops : o = IF k % 2 = 1 THEN "policy_drop" ELSE "policy_create"
      BY DEF Ops
    <2>4. PolicyStmt(o, i) \in Statements
      BY DEF PolicyStmt, Statements
    <2>5. QED
      BY <2>2, <2>3, <2>4
  <1>5. B \in [1..42 -> Statements]
    BY <1>3, <1>4
  <1>6. Lists(Statements, B, 42)
    <2>0. PICK n \in Nat : n = 42
      OBVIOUS
    <2>1. PICK S : S = Statements
      OBVIOUS
    <2>2. B \in [1..n -> S]
      BY <1>5, <2>0, <2>1
    <2>3. Lists(S, B, n)
      BY <2>2 DEF Lists
    <2>4. QED
      BY <2>0, <2>1, <2>3
  <1>7. ASSUME NEW i \in 1..21
        PROVE  B[2 * i - 1] = PolicyStmt("policy_drop", i) /\ B[2 * i] = PolicyStmt("policy_create", i)
    <2>1. PICK k \in 1..42, l \in 1..42 : k = 2 * i - 1 /\ l = 2 * i
      OBVIOUS
    <2>2. k % 2 = 1 /\ l % 2 = 0 /\ (k + 1) \div 2 = i /\ (l + 1) \div 2 = i
      BY <2>1
    <2>3. /\ B[k] = PolicyStmt(IF k % 2 = 1 THEN "policy_drop" ELSE "policy_create", (k + 1) \div 2)
          /\ B[l] = PolicyStmt(IF l % 2 = 1 THEN "policy_drop" ELSE "policy_create", (l + 1) \div 2)
      BY <1>3
    <2>4. /\ (IF k % 2 = 1 THEN "policy_drop" ELSE "policy_create") = "policy_drop"
          /\ (IF l % 2 = 1 THEN "policy_drop" ELSE "policy_create") = "policy_create"
      BY <2>2
    <2>5. B[k] = PolicyStmt("policy_drop", i) /\ B[l] = PolicyStmt("policy_create", i)
      BY <2>2, <2>3, <2>4
    <2>6. QED
      BY <2>1, <2>5
  <1>8. QED
    BY <1>2, <1>6, <1>7 DEF PoliciesOf

\* Where the statements of the script are.
ScriptIs ==
    /\ Lists(Statements, Script, 140)
    /\ \A i \in 1..9 : Script[i] = Stmt("column", AllTables[i])
    /\ \A i \in 1..8 : /\ Script[8 + 2 * i] = Stmt("backfill", Parents[i])
                       /\ Script[9 + 2 * i] = Stmt("orphans", Parents[i])
    /\ \A i \in 1..9 : /\ Script[24 + 2 * i] = Stmt("fk_add", AllTables[i])
                       /\ Script[25 + 2 * i] = Stmt("fk_validate", AllTables[i])
    /\ \A i \in 1..7 : /\ Script[39 + 5 * i] = Stmt("check_drop", TENANT_TABLES[i])
                       /\ Script[40 + 5 * i] = Stmt("check_add", TENANT_TABLES[i])
                       /\ Script[41 + 5 * i] = Stmt("check_validate", TENANT_TABLES[i])
                       /\ Script[42 + 5 * i] = Stmt("not_null", TENANT_TABLES[i])
                       /\ Script[43 + 5 * i] = Stmt("check_drop", TENANT_TABLES[i])
    /\ \A i \in 1..10 : Script[78 + i] = Stmt("index", Indexed[i])
    /\ \A i \in 1..21 : /\ Script[87 + 2 * i] = PolicyStmt("policy_drop", i)
                        /\ Script[88 + 2 * i] = PolicyStmt("policy_create", i)
    /\ \A i \in 1..10 : Script[130 + i] = Stmt("enable", RLS_TABLES[i])

\* s is found in r from position m + 1 on.
Within(r, s, m, n) == \A i \in 1..n : r[m + i] = s[i]

LEMMA WithinFirst ==
    ASSUME NEW r, NEW s, NEW t, NEW m \in Nat, NEW n \in Nat, Joins(r, s, t, m, n)
    PROVE  Within(r, s, 0, m) /\ Within(r, t, m, n)
  <1>1. \A i \in 1..m : r[0 + i] = s[i]
    <2> TAKE i \in 1..m
    <2>1. 0 + i = i
      OBVIOUS
    <2>2. QED
      BY <2>1 DEF Joins
  <1>2. QED
    BY <1>1 DEF Joins, Within

LEMMA WithinWithin ==
    ASSUME NEW r, NEW s, NEW t, NEW m \in Nat, NEW n \in Nat, NEW k \in Nat, NEW l \in Nat,
           Within(r, s, m, n), Within(s, t, k, l), k + l <= n
    PROVE  Within(r, t, m + k, l)
  <1>1. ASSUME NEW i \in 1..l PROVE r[(m + k) + i] = t[i]
    <2>1. k + i \in 1..n /\ m + (k + i) = (m + k) + i
      OBVIOUS
    <2>2. r[m + (k + i)] = s[k + i] /\ s[k + i] = t[i]
      BY <2>1 DEF Within
    <2>3. QED
      BY <2>1, <2>2
  <1>2. QED
    BY <1>1 DEF Within

LEMMA TheOps ==
    /\ "column" \in Ops /\ "backfill" \in Ops /\ "orphans" \in Ops /\ "fk_add" \in Ops
    /\ "fk_validate" \in Ops /\ "check_drop" \in Ops /\ "check_add" \in Ops
    /\ "check_validate" \in Ops /\ "not_null" \in Ops /\ "index" \in Ops /\ "enable" \in Ops
  BY DEF Ops

LEMMA ScriptShape == ScriptIs
  <1>1. PICK B1, B2, B3, B4, B5, B6, B7 :
          /\ B1 = Each(AllTables, <<"column">>)
          /\ B2 = Each(Parents, <<"backfill", "orphans">>)
          /\ B3 = Each(AllTables, <<"fk_add", "fk_validate">>)
          /\ B4 = Each(TENANT_TABLES, <<"check_drop", "check_add", "check_validate", "not_null", "check_drop">>)
          /\ B5 = Each(Indexed, <<"index">>)
          /\ B6 = PolicyBlock
          /\ B7 = Each(RLS_TABLES, <<"enable">>)
    OBVIOUS
  <1>2. 2 * 8 = 16 /\ 2 * 9 = 18 /\ 5 * 7 = 35
    OBVIOUS
  <1>3. Lists(Statements, B1, 9) /\ OneOf(B1, "column", AllTables, 9)
    BY <1>1, TheOps, TableLists, OneEach
  <1>4. Lists(Statements, B2, 16) /\ TwoOf(B2, "backfill", "orphans", Parents, 8)
    BY <1>1, <1>2, TheOps, TableLists, TwoEach
  <1>5. Lists(Statements, B3, 18) /\ TwoOf(B3, "fk_add", "fk_validate", AllTables, 9)
    BY <1>1, <1>2, TheOps, TableLists, TwoEach
  <1>6. Lists(Statements, B4, 35)
        /\ FiveOf(B4, "check_drop", "check_add", "check_validate", "not_null", "check_drop", TENANT_TABLES, 7)
    <2>1. PICK t : t = TENANT_TABLES
      OBVIOUS
    <2>2. Lists(Tables, t, 7)
      BY <2>1, TenantTables
    <2>3. LET B == Each(t, <<"check_drop", "check_add", "check_validate", "not_null", "check_drop">>)
          IN  /\ Lists(Statements, B, 5 * 7)
              /\ FiveOf(B, "check_drop", "check_add", "check_validate", "not_null", "check_drop", t, 7)
      BY <2>2, TheOps, FiveEach
    <2>4. QED
      BY <1>1, <1>2, <2>1, <2>3
  <1>7. Lists(Statements, B5, 10) /\ OneOf(B5, "index", Indexed, 10)
    BY <1>1, TheOps, TableLists, OneEach
  <1>8. Lists(Statements, B6, 42) /\ PoliciesOf(B6)
    BY <1>1, PolicyStatements
  <1>9. Lists(Statements, B7, 10) /\ OneOf(B7, "enable", RLS_TABLES, 10)
    BY <1>1, TheOps, TableLists, OneEach
  <1>10. PICK C1, C2, C3, C4, C5 : /\ C1 = B1 \o B2 /\ C2 = B3 \o B4 /\ C3 = C2 \o B5
                                   /\ C4 = C1 \o C3 /\ C5 = B6 \o B7
    OBVIOUS
  <1>11. Script = C4 \o C5
    BY <1>1, <1>10 DEF Script, Backfills, Constraints, Policies, Parents, Indexed, PolicyBlock
  <1>12. 9 + 16 = 25 /\ 18 + 35 = 53 /\ 53 + 10 = 63 /\ 25 + 63 = 88 /\ 42 + 10 = 52 /\ 88 + 52 = 140
    OBVIOUS
  <1>13. Lists(Statements, C1, 25) /\ Joins(C1, B1, B2, 9, 16)
    BY <1>3, <1>4, <1>10, <1>12, Chained
  <1>14. Lists(Statements, C2, 53) /\ Joins(C2, B3, B4, 18, 35)
    <2>1. Lists(Statements, B3 \o B4, 18 + 35) /\ Joins(B3 \o B4, B3, B4, 18, 35)
      BY <1>5, <1>6, Chained
    <2>2. QED
      BY <2>1, <1>10, <1>12
  <1>15. Lists(Statements, C3, 63) /\ Joins(C3, C2, B5, 53, 10)
    BY <1>7, <1>14, <1>10, <1>12, Chained
  <1>16. Lists(Statements, C4, 88) /\ Joins(C4, C1, C3, 25, 63)
    BY <1>13, <1>15, <1>10, <1>12, Chained
  <1>17. Lists(Statements, C5, 52) /\ Joins(C5, B6, B7, 42, 10)
    BY <1>8, <1>9, <1>10, <1>12, Chained
  <1>18. Lists(Statements, Script, 140) /\ Joins(Script, C4, C5, 88, 52)
    BY <1>16, <1>17, <1>11, <1>12, Chained
  <1>19. /\ Within(Script, C4, 0, 88) /\ Within(Script, C5, 88, 52)
         /\ Within(C4, C1, 0, 25) /\ Within(C4, C3, 25, 63)
         /\ Within(C5, B6, 0, 42) /\ Within(C5, B7, 42, 10)
         /\ Within(C3, C2, 0, 53) /\ Within(C3, B5, 53, 10)
         /\ Within(C2, B3, 0, 18) /\ Within(C2, B4, 18, 35)
         /\ Within(C1, B1, 0, 9) /\ Within(C1, B2, 9, 16)
    BY <1>13, <1>14, <1>15, <1>16, <1>17, <1>18, WithinFirst
  <1>20. /\ 0 + 0 = 0 /\ 0 + 9 = 9 /\ 0 + 25 = 25 /\ 25 + 0 = 25 /\ 25 + 53 = 78 /\ 25 + 18 = 43
         /\ 88 + 0 = 88 /\ 88 + 42 = 130
         /\ 0 + 25 <= 88 /\ 25 + 63 <= 88 /\ 0 + 42 <= 52 /\ 42 + 10 <= 52 /\ 0 + 53 <= 63
         /\ 53 + 10 <= 63 /\ 0 + 18 <= 53 /\ 18 + 35 <= 53 /\ 0 + 9 <= 25 /\ 9 + 16 <= 25
    OBVIOUS
  <1>21. Within(Script, C1, 0, 25) /\ Within(Script, C3, 25, 63)
    BY <1>19, <1>20, WithinWithin
  <1>22. Within(Script, C2, 25, 53) /\ Within(Script, B5, 78, 10)
    BY <1>19, <1>20, <1>21, WithinWithin
  <1>23. Within(Script, B1, 0, 9) /\ Within(Script, B2, 9, 16)
    BY <1>19, <1>20, <1>21, WithinWithin
  <1>24. Within(Script, B3, 25, 18) /\ Within(Script, B4, 43, 35)
    BY <1>19, <1>20, <1>22, WithinWithin
  <1>25. Within(Script, B6, 88, 42) /\ Within(Script, B7, 130, 10)
    BY <1>19, <1>20, WithinWithin
  <1>26. ASSUME NEW i \in 1..9 PROVE Script[i] = Stmt("column", AllTables[i])
    <2>1. 0 + i = i
      OBVIOUS
    <2>2. QED
      BY <2>1, <1>3, <1>23 DEF Within, OneOf
  <1>27. ASSUME NEW i \in 1..8
         PROVE  Script[8 + 2 * i] = Stmt("backfill", Parents[i]) /\ Script[9 + 2 * i] = Stmt("orphans", Parents[i])
    <2>1. PICK k \in 1..16, l \in 1..16 : k = 2 * i - 1 /\ l = 2 * i /\ 9 + k = 8 + 2 * i
      OBVIOUS
    <2>2. Script[9 + k] = B2[k] /\ Script[9 + l] = B2[l]
      BY <1>23 DEF Within
    <2>3. B2[k] = Stmt("backfill", Parents[i]) /\ B2[l] = Stmt("orphans", Parents[i])
      BY <1>4, <2>1 DEF TwoOf
    <2>4. QED
      BY <2>1, <2>2, <2>3
  <1>28. ASSUME NEW i \in 1..9
         PROVE  Script[24 + 2 * i] = Stmt("fk_add", AllTables[i]) /\ Script[25 + 2 * i] = Stmt("fk_validate", AllTables[i])
    <2>1. PICK k \in 1..18, l \in 1..18 : k = 2 * i - 1 /\ l = 2 * i /\ 25 + k = 24 + 2 * i
      OBVIOUS
    <2>2. Script[25 + k] = B3[k] /\ Script[25 + l] = B3[l]
      BY <1>24 DEF Within
    <2>3. B3[k] = Stmt("fk_add", AllTables[i]) /\ B3[l] = Stmt("fk_validate", AllTables[i])
      BY <1>5, <2>1 DEF TwoOf
    <2>4. QED
      BY <2>1, <2>2, <2>3
  <1>29. ASSUME NEW i \in 1..7
         PROVE  /\ Script[39 + 5 * i] = Stmt("check_drop", TENANT_TABLES[i])
                /\ Script[40 + 5 * i] = Stmt("check_add", TENANT_TABLES[i])
                /\ Script[41 + 5 * i] = Stmt("check_validate", TENANT_TABLES[i])
                /\ Script[42 + 5 * i] = Stmt("not_null", TENANT_TABLES[i])
                /\ Script[43 + 5 * i] = Stmt("check_drop", TENANT_TABLES[i])
    <2>0. /\ 5 * i - 4 \in 1..35 /\ 5 * i - 3 \in 1..35 /\ 5 * i - 2 \in 1..35
          /\ 5 * i - 1 \in 1..35 /\ 5 * i \in 1..35
          /\ 43 + (5 * i - 4) = 39 + 5 * i /\ 43 + (5 * i - 3) = 40 + 5 * i
          /\ 43 + (5 * i - 2) = 41 + 5 * i /\ 43 + (5 * i - 1) = 42 + 5 * i
      OBVIOUS
    <2>1. PICK k1 \in 1..35, k2 \in 1..35, k3 \in 1..35, k4 \in 1..35, k5 \in 1..35 :
            /\ k1 = 5 * i - 4 /\ k2 = 5 * i - 3 /\ k3 = 5 * i - 2 /\ k4 = 5 * i - 1 /\ k5 = 5 * i
            /\ 43 + k1 = 39 + 5 * i /\ 43 + k2 = 40 + 5 * i /\ 43 + k3 = 41 + 5 * i /\ 43 + k4 = 42 + 5 * i
      BY <2>0
    <2>2. /\ Script[43 + k1] = B4[k1] /\ Script[43 + k2] = B4[k2] /\ Script[43 + k3] = B4[k3]
          /\ Script[43 + k4] = B4[k4] /\ Script[43 + k5] = B4[k5]
      BY <1>24 DEF Within
    <2>3. /\ B4[k1] = Stmt("check_drop", TENANT_TABLES[i]) /\ B4[k2] = Stmt("check_add", TENANT_TABLES[i])
          /\ B4[k3] = Stmt("check_validate", TENANT_TABLES[i]) /\ B4[k4] = Stmt("not_null", TENANT_TABLES[i])
          /\ B4[k5] = Stmt("check_drop", TENANT_TABLES[i])
      BY <1>6, <2>1 DEF FiveOf
    <2>4. QED
      BY <2>1, <2>2, <2>3
  <1>30. ASSUME NEW i \in 1..10
         PROVE  Script[78 + i] = Stmt("index", Indexed[i]) /\ Script[130 + i] = Stmt("enable", RLS_TABLES[i])
    BY <1>7, <1>9, <1>22, <1>25 DEF Within, OneOf
  <1>31. ASSUME NEW i \in 1..21
         PROVE  Script[87 + 2 * i] = PolicyStmt("policy_drop", i) /\ Script[88 + 2 * i] = PolicyStmt("policy_create", i)
    <2>1. PICK k \in 1..42, l \in 1..42 : k = 2 * i - 1 /\ l = 2 * i /\ 88 + k = 87 + 2 * i
      OBVIOUS
    <2>2. Script[88 + k] = B6[k] /\ Script[88 + l] = B6[l]
      BY <1>25 DEF Within
    <2>3. B6[k] = PolicyStmt("policy_drop", i) /\ B6[l] = PolicyStmt("policy_create", i)
      BY <1>8, <2>1 DEF PoliciesOf
    <2>4. QED
      BY <2>1, <2>2, <2>3
  <1>32. QED
    BY <1>18, <1>26, <1>27, <1>28, <1>29, <1>30, <1>31 DEF ScriptIs

LEMMA Statement ==
    /\ Len(Script) = 140 /\ DOMAIN Script = 1..140
    /\ \A k \in 1..140 : Script[k] \in Statements
  <1>1. PICK S : S = Statements
    OBVIOUS
  <1>2. Script \in Seq(S) /\ Len(Script) = 140
    BY <1>1, ScriptShape DEF ScriptIs, Lists
  <1>3. PICK s \in Seq(S) : s = Script
    BY <1>2
  <1>4. DOMAIN s = 1..Len(s) /\ \A k \in 1..Len(s) : s[k] \in S
    OBVIOUS
  <1>5. QED
    BY <1>1, <1>2, <1>3, <1>4

\* Every statement is one of those that ScriptIs names.
Named(k) ==
    \/ \E i \in 1..9 : k = i /\ Script[k].op = "column" /\ Script[k].table = AllTables[i]
    \/ \E i \in 1..8 : k = 8 + 2 * i /\ Script[k].op = "backfill" /\ Script[k].table = Parents[i]
    \/ \E i \in 1..8 : k = 9 + 2 * i /\ Script[k].op = "orphans" /\ Script[k].table = Parents[i]
    \/ \E i \in 1..9 : k = 24 + 2 * i /\ Script[k].op = "fk_add" /\ Script[k].table = AllTables[i]
    \/ \E i \in 1..9 : k = 25 + 2 * i /\ Script[k].op = "fk_validate" /\ Script[k].table = AllTables[i]
    \/ \E i \in 1..7 : k = 39 + 5 * i /\ Script[k].op = "check_drop" /\ Script[k].table = TENANT_TABLES[i]
    \/ \E i \in 1..7 : k = 40 + 5 * i /\ Script[k].op = "check_add" /\ Script[k].table = TENANT_TABLES[i]
    \/ \E i \in 1..7 : k = 41 + 5 * i /\ Script[k].op = "check_validate" /\ Script[k].table = TENANT_TABLES[i]
    \/ \E i \in 1..7 : k = 42 + 5 * i /\ Script[k].op = "not_null" /\ Script[k].table = TENANT_TABLES[i]
    \/ \E i \in 1..7 : k = 43 + 5 * i /\ Script[k].op = "check_drop" /\ Script[k].table = TENANT_TABLES[i]
    \/ \E i \in 1..10 : k = 78 + i /\ Script[k].op = "index" /\ Script[k].table = Indexed[i]
    \/ \E i \in 1..21 : k = 87 + 2 * i /\ Script[k].op = "policy_drop" /\ Script[k].policy = POLICIES[i]
    \/ \E i \in 1..21 : k = 88 + 2 * i /\ Script[k].op = "policy_create" /\ Script[k].policy = POLICIES[i]
    \/ \E i \in 1..10 : k = 130 + i /\ Script[k].op = "enable" /\ Script[k].table = RLS_TABLES[i]

LEMMA AllNamed == \A k \in 1..140 : Named(k)
  <1> TAKE k \in 1..140
  <1>1. CASE k \in 1..9
    <2>1. Script[k] = Stmt("column", AllTables[k])
      BY <1>1, ScriptShape DEF ScriptIs
    <2>2. Script[k].op = "column" /\ Script[k].table = AllTables[k]
      BY <2>1 DEF Stmt
    <2>3. QED
      BY <1>1, <2>2 DEF Named
  <1>2. CASE k \in 10..25
    <2>1. PICK i \in 1..8 : k = 8 + 2 * i \/ k = 9 + 2 * i
      <3>1. (k - 8) \div 2 \in 1..8 /\ (k = 8 + 2 * ((k - 8) \div 2) \/ k = 9 + 2 * ((k - 8) \div 2))
        BY <1>2
      <3>2. QED
        BY <3>1
    <2>2. CASE k = 8 + 2 * i
      <3>1. Script[k] = Stmt("backfill", Parents[i])
        BY <2>2, ScriptShape DEF ScriptIs
      <3>2. Script[k].op = "backfill" /\ Script[k].table = Parents[i]
        BY <3>1 DEF Stmt
      <3>3. QED
        BY <2>2, <3>2 DEF Named
    <2>3. CASE k = 9 + 2 * i
      <3>1. Script[k] = Stmt("orphans", Parents[i])
        BY <2>3, ScriptShape DEF ScriptIs
      <3>2. Script[k].op = "orphans" /\ Script[k].table = Parents[i]
        BY <3>1 DEF Stmt
      <3>3. QED
        BY <2>3, <3>2 DEF Named
    <2>4. QED
      BY <2>1, <2>2, <2>3
  <1>3. CASE k \in 26..43
    <2>1. PICK i \in 1..9 : k = 24 + 2 * i \/ k = 25 + 2 * i
      <3>1. (k - 24) \div 2 \in 1..9 /\ (k = 24 + 2 * ((k - 24) \div 2) \/ k = 25 + 2 * ((k - 24) \div 2))
        BY <1>3
      <3>2. QED
        BY <3>1
    <2>2. CASE k = 24 + 2 * i
      <3>1. Script[k] = Stmt("fk_add", AllTables[i])
        BY <2>2, ScriptShape DEF ScriptIs
      <3>2. Script[k].op = "fk_add" /\ Script[k].table = AllTables[i]
        BY <3>1 DEF Stmt
      <3>3. QED
        BY <2>2, <3>2 DEF Named
    <2>3. CASE k = 25 + 2 * i
      <3>1. Script[k] = Stmt("fk_validate", AllTables[i])
        BY <2>3, ScriptShape DEF ScriptIs
      <3>2. Script[k].op = "fk_validate" /\ Script[k].table = AllTables[i]
        BY <3>1 DEF Stmt
      <3>3. QED
        BY <2>3, <3>2 DEF Named
    <2>4. QED
      BY <2>1, <2>2, <2>3
  <1>4. CASE k \in 44..78
    <2>1. PICK i \in 1..7 : k = 39 + 5 * i \/ k = 40 + 5 * i \/ k = 41 + 5 * i \/ k = 42 + 5 * i \/ k = 43 + 5 * i
      <3>1. PICK i : i = (k - 39) \div 5
        OBVIOUS
      <3>2. i \in 1..7 /\ (k = 39 + 5 * i \/ k = 40 + 5 * i \/ k = 41 + 5 * i \/ k = 42 + 5 * i \/ k = 43 + 5 * i)
        BY <1>4, <3>1
      <3>3. QED
        BY <3>2
    <2>2. CASE k = 39 + 5 * i
      <3>1. Script[k] = Stmt("check_drop", TENANT_TABLES[i])
        BY <2>2, ScriptShape DEF ScriptIs
      <3>2. Script[k].op = "check_drop" /\ Script[k].table = TENANT_TABLES[i]
        BY <3>1 DEF Stmt
      <3>3. QED
        BY <2>2, <3>2 DEF Named
    <2>3. CASE k = 40 + 5 * i
      <3>1. Script[k] = Stmt("check_add", TENANT_TABLES[i])
        BY <2>3, ScriptShape DEF ScriptIs
      <3>2. Script[k].op = "check_add" /\ Script[k].table = TENANT_TABLES[i]
        BY <3>1 DEF Stmt
      <3>3. QED
        BY <2>3, <3>2 DEF Named
    <2>4. CASE k = 41 + 5 * i
      <3>1. Script[k] = Stmt("check_validate", TENANT_TABLES[i])
        BY <2>4, ScriptShape DEF ScriptIs
      <3>2. Script[k].op = "check_validate" /\ Script[k].table = TENANT_TABLES[i]
        BY <3>1 DEF Stmt
      <3>3. QED
        BY <2>4, <3>2 DEF Named
    <2>5. CASE k = 42 + 5 * i
      <3>1. Script[k] = Stmt("not_null", TENANT_TABLES[i])
        BY <2>5, ScriptShape DEF ScriptIs
      <3>2. Script[k].op = "not_null" /\ Script[k].table = TENANT_TABLES[i]
        BY <3>1 DEF Stmt
      <3>3. QED
        BY <2>5, <3>2 DEF Named
    <2>6. CASE k = 43 + 5 * i
      <3>1. Script[k] = Stmt("check_drop", TENANT_TABLES[i])
        BY <2>6, ScriptShape DEF ScriptIs
      <3>2. Script[k].op = "check_drop" /\ Script[k].table = TENANT_TABLES[i]
        BY <3>1 DEF Stmt
      <3>3. QED
        BY <2>6, <3>2 DEF Named
    <2>7. QED
      BY <2>1, <2>2, <2>3, <2>4, <2>5, <2>6
  <1>5. CASE k \in 79..88
    <2>1. PICK i \in 1..10 : k = 78 + i
      <3>1. k - 78 \in 1..10 /\ k = 78 + (k - 78)
        BY <1>5
      <3>2. QED
        BY <3>1
    <2>2. QED
      <3>1. Script[k] = Stmt("index", Indexed[i])
        BY <2>1, ScriptShape DEF ScriptIs
      <3>2. Script[k].op = "index" /\ Script[k].table = Indexed[i]
        BY <3>1 DEF Stmt
      <3>3. QED
        BY <2>1, <3>2 DEF Named
  <1>6. CASE k \in 89..130
    <2>1. PICK i \in 1..21 : k = 87 + 2 * i \/ k = 88 + 2 * i
      <3>1. PICK i : i = (k - 87) \div 2
        OBVIOUS
      <3>2. i \in 1..21 /\ (k = 87 + 2 * i \/ k = 88 + 2 * i)
        BY <1>6, <3>1
      <3>3. QED
        BY <3>2
    <2>2. CASE k = 87 + 2 * i
      <3>1. Script[k] = PolicyStmt("policy_drop", i)
        BY <2>2, ScriptShape DEF ScriptIs
      <3>2. Script[k].op = "policy_drop" /\ Script[k].policy = POLICIES[i]
        BY <3>1 DEF PolicyStmt
      <3>3. QED
        BY <2>2, <3>2 DEF Named
    <2>3. CASE k = 88 + 2 * i
      <3>1. Script[k] = PolicyStmt("policy_create", i)
        BY <2>3, ScriptShape DEF ScriptIs
      <3>2. Script[k].op = "policy_create" /\ Script[k].policy = POLICIES[i]
        BY <3>1 DEF PolicyStmt
      <3>3. QED
        BY <2>3, <3>2 DEF Named
    <2>4. QED
      BY <2>1, <2>2, <2>3
  <1>7. CASE k \in 131..140
    <2>1. PICK i \in 1..10 : k = 130 + i
      <3>1. k - 130 \in 1..10 /\ k = 130 + (k - 130)
        BY <1>7
      <3>2. QED
        BY <3>1
    <2>2. QED
      <3>1. Script[k] = Stmt("enable", RLS_TABLES[i])
        BY <2>1, ScriptShape DEF ScriptIs
      <3>2. Script[k].op = "enable" /\ Script[k].table = RLS_TABLES[i]
        BY <3>1 DEF Stmt
      <3>3. QED
        BY <2>1, <3>2 DEF Named
  <1>8. QED
    BY <1>1, <1>2, <1>3, <1>4, <1>5, <1>6, <1>7

\* Where a statement of each kind can be.
LEMMA WhereIs ==
    ASSUME NEW k \in 1..140
    PROVE  /\ Script[k].op = "check_drop" =>
                \E i \in 1..7 : (k = 39 + 5 * i \/ k = 43 + 5 * i) /\ Script[k].table = TENANT_TABLES[i]
           /\ Script[k].op = "check_add" => \E i \in 1..7 : k = 40 + 5 * i /\ Script[k].table = TENANT_TABLES[i]
           /\ Script[k].op = "check_validate" => \E i \in 1..7 : k = 41 + 5 * i /\ Script[k].table = TENANT_TABLES[i]
           /\ Script[k].op = "not_null" => \E i \in 1..7 : k = 42 + 5 * i /\ Script[k].table = TENANT_TABLES[i]
           /\ Script[k].op = "orphans" => \E i \in 1..8 : k = 9 + 2 * i /\ Script[k].table = Parents[i]
           /\ Script[k].op \in {"fk_add", "fk_validate"} => \E i \in 1..9 : Script[k].table = AllTables[i]
           /\ Script[k].op = "index" => \E i \in 1..10 : Script[k].table = Indexed[i]
           /\ Script[k].op = "policy_drop" => \E i \in 1..21 : k = 87 + 2 * i /\ Script[k].policy = POLICIES[i]
           /\ Script[k].op = "policy_create" => \E i \in 1..21 : k = 88 + 2 * i /\ Script[k].policy = POLICIES[i]
           /\ Script[k].op = "enable" => \E i \in 1..10 : Script[k].table = RLS_TABLES[i]
  <1>1. Named(k)
    BY AllNamed
  <1>3. ASSUME Script[k].op = "check_drop"
        PROVE  \E i \in 1..7 : (k = 39 + 5 * i \/ k = 43 + 5 * i) /\ Script[k].table = TENANT_TABLES[i]
    BY <1>1, <1>3 DEF Named
  <1>4. ASSUME Script[k].op = "check_add" PROVE \E i \in 1..7 : k = 40 + 5 * i /\ Script[k].table = TENANT_TABLES[i]
    BY <1>1, <1>4 DEF Named
  <1>5. ASSUME Script[k].op = "check_validate" PROVE \E i \in 1..7 : k = 41 + 5 * i /\ Script[k].table = TENANT_TABLES[i]
    BY <1>1, <1>5 DEF Named
  <1>6. ASSUME Script[k].op = "not_null" PROVE \E i \in 1..7 : k = 42 + 5 * i /\ Script[k].table = TENANT_TABLES[i]
    BY <1>1, <1>6 DEF Named
  <1>7. ASSUME Script[k].op = "orphans" PROVE \E i \in 1..8 : k = 9 + 2 * i /\ Script[k].table = Parents[i]
    BY <1>1, <1>7 DEF Named
  <1>8. ASSUME Script[k].op = "fk_add" PROVE \E i \in 1..9 : Script[k].table = AllTables[i]
    BY <1>1, <1>8 DEF Named
  <1>9. ASSUME Script[k].op = "fk_validate" PROVE \E i \in 1..9 : Script[k].table = AllTables[i]
    BY <1>1, <1>9 DEF Named
  <1>10. ASSUME Script[k].op = "index" PROVE \E i \in 1..10 : Script[k].table = Indexed[i]
    BY <1>1, <1>10 DEF Named
  <1>11. ASSUME Script[k].op = "policy_drop" PROVE \E i \in 1..21 : k = 87 + 2 * i /\ Script[k].policy = POLICIES[i]
    BY <1>1, <1>11 DEF Named
  <1>12. ASSUME Script[k].op = "policy_create" PROVE \E i \in 1..21 : k = 88 + 2 * i /\ Script[k].policy = POLICIES[i]
    BY <1>1, <1>12 DEF Named
  <1>13. ASSUME Script[k].op = "enable" PROVE \E i \in 1..10 : Script[k].table = RLS_TABLES[i]
    BY <1>1, <1>13 DEF Named
  <1>14. QED
    BY <1>3, <1>4, <1>5, <1>6, <1>7, <1>8, <1>9, <1>10, <1>11, <1>12, <1>13

\* What comes immediately before a statement that depends on it.
Prepared(k) ==
    /\ Script[k + 1].op = "check_add" => Script[k].op = "check_drop" /\ Script[k].table = Script[k + 1].table
    /\ Script[k + 1].op = "check_validate" => Script[k].op = "check_add" /\ Script[k].table = Script[k + 1].table
    /\ Script[k + 1].op = "not_null" => Script[k].op = "check_validate" /\ Script[k].table = Script[k + 1].table
    /\ Script[k + 1].op = "policy_create" => Script[k].op = "policy_drop" /\ Script[k].policy = Script[k + 1].policy

LEMMA CheckBlock ==
    ASSUME NEW i \in 1..7
    PROVE  /\ Script[39 + 5 * i].op = "check_drop" /\ Script[39 + 5 * i].table = TENANT_TABLES[i]
           /\ Script[40 + 5 * i].op = "check_add" /\ Script[40 + 5 * i].table = TENANT_TABLES[i]
           /\ Script[41 + 5 * i].op = "check_validate" /\ Script[41 + 5 * i].table = TENANT_TABLES[i]
           /\ Script[42 + 5 * i].op = "not_null" /\ Script[42 + 5 * i].table = TENANT_TABLES[i]
           /\ Script[43 + 5 * i].op = "check_drop" /\ Script[43 + 5 * i].table = TENANT_TABLES[i]
  <1>1. /\ Script[39 + 5 * i] = Stmt("check_drop", TENANT_TABLES[i])
        /\ Script[40 + 5 * i] = Stmt("check_add", TENANT_TABLES[i])
        /\ Script[41 + 5 * i] = Stmt("check_validate", TENANT_TABLES[i])
        /\ Script[42 + 5 * i] = Stmt("not_null", TENANT_TABLES[i])
        /\ Script[43 + 5 * i] = Stmt("check_drop", TENANT_TABLES[i])
    BY ScriptShape DEF ScriptIs
  <1>2. \A o, t : Stmt(o, t).op = o /\ Stmt(o, t).table = t
    BY DEF Stmt
  <1>3. QED
    BY <1>1, <1>2

LEMMA AllPrepared == \A k \in 1..139 : Prepared(k)
  <1> TAKE k \in 1..139
  <1>1. PICK l \in 1..140 : l = k + 1
    OBVIOUS
  <1>2. ASSUME Script[l].op = "check_add" PROVE Script[k].op = "check_drop" /\ Script[k].table = Script[l].table
    <2>1. PICK i \in 1..7 : l = 40 + 5 * i /\ Script[l].table = TENANT_TABLES[i]
      BY <1>2, WhereIs
    <2>2. k = 39 + 5 * i
      BY <1>1, <2>1
    <2>3. QED
      BY <2>1, <2>2, CheckBlock
  <1>3. ASSUME Script[l].op = "check_validate" PROVE Script[k].op = "check_add" /\ Script[k].table = Script[l].table
    <2>1. PICK i \in 1..7 : l = 41 + 5 * i /\ Script[l].table = TENANT_TABLES[i]
      BY <1>3, WhereIs
    <2>2. k = 40 + 5 * i
      BY <1>1, <2>1
    <2>3. QED
      BY <2>1, <2>2, CheckBlock
  <1>4. ASSUME Script[l].op = "not_null" PROVE Script[k].op = "check_validate" /\ Script[k].table = Script[l].table
    <2>1. PICK i \in 1..7 : l = 42 + 5 * i /\ Script[l].table = TENANT_TABLES[i]
      BY <1>4, WhereIs
    <2>2. k = 41 + 5 * i
      BY <1>1, <2>1
    <2>3. QED
      BY <2>1, <2>2, CheckBlock
  <1>5. ASSUME Script[l].op = "policy_create" PROVE Script[k].op = "policy_drop" /\ Script[k].policy = Script[l].policy
    <2>1. PICK i \in 1..21 : l = 88 + 2 * i /\ Script[l].policy = POLICIES[i]
      BY <1>5, WhereIs
    <2>2. k = 87 + 2 * i
      BY <1>1, <2>1
    <2>3. Script[k] = PolicyStmt("policy_drop", i)
      BY <2>2, ScriptShape DEF ScriptIs
    <2>4. QED
      BY <2>1, <2>3 DEF PolicyStmt
  <1>6. QED
    BY <1>1, <1>2, <1>3, <1>4, <1>5 DEF Prepared

\* A statement op for the table t at position k or later.
Later(op, t, k) == \E l \in k..140 : Script[l].op = op /\ Script[l].table = t
LaterCreated(p, k) == \E l \in k..140 : Script[l].op = "policy_create" /\ Script[l].policy = p

LEMMA LaterOn ==
    ASSUME NEW op, NEW t, NEW k \in 1..140, Later(op, t, k), ~(Script[k].op = op /\ Script[k].table = t)
    PROVE  Later(op, t, k + 1)
  <1>1. PICK l \in k..140 : Script[l].op = op /\ Script[l].table = t
    BY DEF Later
  <1>2. l # k /\ l \in (k + 1)..140
    BY <1>1
  <1>3. QED
    BY <1>1, <1>2 DEF Later

LEMMA LaterCreatedOn ==
    ASSUME NEW p, NEW k \in 1..140, LaterCreated(p, k),
           ~(Script[k].op = "policy_create" /\ Script[k].policy = p)
    PROVE  LaterCreated(p, k + 1)
  <1>1. PICK l \in k..140 : Script[l].op = "policy_create" /\ Script[l].policy = p
    BY DEF LaterCreated
  <1>2. l # k /\ l \in (k + 1)..140
    BY <1>1
  <1>3. QED
    BY <1>1, <1>2 DEF LaterCreated

LEMMA NothingLater == ~(\E op, t : Later(op, t, 141)) /\ ~(\E p : LaterCreated(p, 141))
  <1>1. \A l \in 141..140 : FALSE
    OBVIOUS
  <1>2. QED
    BY <1>1 DEF Later, LaterCreated

\* The ranges of the lists of tables.
LEMMA Ranges ==
    /\ Range(AllTables) = {AllTables[i] : i \in 1..9}
    /\ Range(RLS_TABLES) = {RLS_TABLES[i] : i \in 1..10}
    /\ Range(POLICIES) = {POLICIES[i] : i \in 1..21}
    /\ Operational = {TENANT_TABLES[i] : i \in 1..7}
    /\ Range(AllTables) \cup {"skill_names"} = {Indexed[i] : i \in 1..10}
  <1>1. DOMAIN AllTables = 1..9 /\ DOMAIN RLS_TABLES = 1..10
    <2>1. \A s, n : Lists(Tables, s, n) => DOMAIN s = 1..n
      BY DEF Lists
    <2>2. QED
      BY <2>1, TableLists
  <1>2. DOMAIN POLICIES = 1..21
    BY PolicyCount
  <1>3. Len(TENANT_TABLES) = 7
    BY TenantTables DEF Lists
  <1>4. Range(AllTables) = {AllTables[i] : i \in 1..9}
    BY <1>1 DEF Range
  <1>5. Range(AllTables) \cup {"skill_names"} = {Indexed[i] : i \in 1..10}
    <2>1. \A i \in 1..9 : Indexed[i] = AllTables[i]
      BY TableLists DEF Joins
    <2>2. Indexed[9 + 1] = <<"skill_names">>[1]
      BY TableLists DEF Joins
    <2>3. 9 + 1 = 10 /\ <<"skill_names">>[1] = "skill_names"
      OBVIOUS
    <2>4. Indexed[10] = "skill_names"
      BY <2>2, <2>3
    <2>5. \A i : i \in 1..10 <=> i \in 1..9 \/ i = 10
      OBVIOUS
    <2>6. QED
      BY <1>4, <2>1, <2>4, <2>5
  <1>6. QED
    BY <1>1, <1>2, <1>3, <1>4, <1>5 DEF Range, Operational

\* Everything is made once at least, and for nothing else.
LEMMA Foreseen ==
    /\ \A t \in Range(AllTables) : Later("fk_validate", t, 1)
    /\ \A t \in Range(AllTables) \cup {"skill_names"} : Later("index", t, 1)
    /\ \A t \in Operational : Later("not_null", t, 1) /\ Later("check_drop", t, 1)
    /\ \A t \in Range(RLS_TABLES) : Later("enable", t, 1)
    /\ \A p \in Range(POLICIES) : LaterCreated(p, 1)
  <1>2. ASSUME NEW t \in Range(AllTables) PROVE Later("fk_validate", t, 1)
    <2>1. PICK i \in 1..9 : t = AllTables[i]
      BY Ranges
    <2>2. PICK l \in 1..140 : l = 25 + 2 * i
      OBVIOUS
    <2>3. Script[l] = Stmt("fk_validate", t)
      BY <2>1, <2>2, ScriptShape DEF ScriptIs
    <2>4. Script[l].op = "fk_validate" /\ Script[l].table = t
      BY <2>3 DEF Stmt
    <2>5. QED
      BY <2>4 DEF Later
  <1>3. ASSUME NEW t \in Range(AllTables) \cup {"skill_names"} PROVE Later("index", t, 1)
    <2>1. PICK i \in 1..10 : t = Indexed[i]
      BY Ranges
    <2>2. PICK l \in 1..140 : l = 78 + i
      OBVIOUS
    <2>3. Script[l] = Stmt("index", t)
      BY <2>1, <2>2, ScriptShape DEF ScriptIs
    <2>4. Script[l].op = "index" /\ Script[l].table = t
      BY <2>3 DEF Stmt
    <2>5. QED
      BY <2>4 DEF Later
  <1>4. ASSUME NEW t \in Operational PROVE Later("not_null", t, 1) /\ Later("check_drop", t, 1)
    <2>1. PICK i \in 1..7 : t = TENANT_TABLES[i]
      BY Ranges
    <2>2. 42 + 5 * i \in 1..140 /\ 43 + 5 * i \in 1..140
      OBVIOUS
    <2>3. PICK l \in 1..140 : l = 42 + 5 * i
      BY <2>2
    <2>4. PICK m \in 1..140 : m = 43 + 5 * i
      BY <2>2
    <2>5. /\ Script[l].op = "not_null" /\ Script[l].table = t
          /\ Script[m].op = "check_drop" /\ Script[m].table = t
      BY <2>1, <2>3, <2>4, CheckBlock
    <2>6. QED
      BY <2>5 DEF Later
  <1>5. ASSUME NEW t \in Range(RLS_TABLES) PROVE Later("enable", t, 1)
    <2>1. PICK i \in 1..10 : t = RLS_TABLES[i]
      BY Ranges
    <2>2. PICK l \in 1..140 : l = 130 + i
      OBVIOUS
    <2>3. Script[l] = Stmt("enable", t)
      BY <2>1, <2>2, ScriptShape DEF ScriptIs
    <2>4. Script[l].op = "enable" /\ Script[l].table = t
      BY <2>3 DEF Stmt
    <2>5. QED
      BY <2>4 DEF Later
  <1>6. ASSUME NEW p \in Range(POLICIES) PROVE LaterCreated(p, 1)
    <2>1. PICK i \in 1..21 : p = POLICIES[i]
      BY Ranges
    <2>2. PICK l \in 1..140 : l = 88 + 2 * i
      OBVIOUS
    <2>3. Script[l] = PolicyStmt("policy_create", i)
      BY <2>2, ScriptShape DEF ScriptIs
    <2>4. Script[l].op = "policy_create" /\ Script[l].policy = p
      BY <2>1, <2>3 DEF PolicyStmt
    <2>5. QED
      BY <2>4 DEF LaterCreated
  <1>7. QED
    BY <1>2, <1>3, <1>4, <1>5, <1>6

\* The tables and policies of a statement.
LEMMA OnlyThese ==
    ASSUME NEW k \in 1..140
    PROVE  /\ Script[k].op \in {"check_drop", "check_add", "check_validate", "not_null"} => Script[k].table \in Operational
           /\ Script[k].op \in {"fk_add", "fk_validate"} => Script[k].table \in Range(AllTables)
           /\ Script[k].op = "index" => Script[k].table \in Range(AllTables) \cup {"skill_names"}
           /\ Script[k].op \in {"policy_drop", "policy_create"} => Script[k].policy \in Range(POLICIES)
           /\ Script[k].op = "enable" => Script[k].table \in Range(RLS_TABLES)
  BY WhereIs, Ranges

\* A check is dropped after it was added, a policy created after it was dropped, and the
\* orphans of a table are looked after before its check is validated.
LEMMA Ordered ==
    ASSUME NEW k \in 1..140
    PROVE  /\ Script[k].op = "check_add" => Later("check_drop", Script[k].table, k + 1)
           /\ Script[k].op = "policy_drop" => LaterCreated(Script[k].policy, k + 1)
           /\ Script[k].op = "check_validate" =>
                \E l \in 1..(k - 1) : Script[l].op = "orphans" /\ Script[l].table = Script[k].table
  <1>1. ASSUME Script[k].op = "check_add" PROVE Later("check_drop", Script[k].table, k + 1)
    <2>1. PICK i \in 1..7 : k = 40 + 5 * i /\ Script[k].table = TENANT_TABLES[i]
      BY <1>1, WhereIs
    <2>2. PICK l \in (k + 1)..140 : l = 43 + 5 * i
      BY <2>1
    <2>3. Script[l].op = "check_drop" /\ Script[l].table = TENANT_TABLES[i]
      BY <2>2, CheckBlock
    <2>4. QED
      BY <2>1, <2>3 DEF Later
  <1>2. ASSUME Script[k].op = "policy_drop" PROVE LaterCreated(Script[k].policy, k + 1)
    <2>1. PICK i \in 1..21 : k = 87 + 2 * i /\ Script[k].policy = POLICIES[i]
      BY <1>2, WhereIs
    <2>2. PICK l \in (k + 1)..140 : l = 88 + 2 * i
      BY <2>1
    <2>3. Script[l] = PolicyStmt("policy_create", i)
      BY <2>2, ScriptShape DEF ScriptIs
    <2>4. Script[l].op = "policy_create" /\ Script[l].policy = POLICIES[i]
      BY <2>3 DEF PolicyStmt
    <2>5. QED
      BY <2>1, <2>4 DEF LaterCreated
  <1>3. ASSUME Script[k].op = "check_validate"
        PROVE  \E l \in 1..(k - 1) : Script[l].op = "orphans" /\ Script[l].table = Script[k].table
    <2>1. PICK i \in 1..7 : k = 41 + 5 * i /\ Script[k].table = TENANT_TABLES[i]
      BY <1>3, WhereIs
    <2>2. PICK j \in 1..8 : j = 1 + i
      OBVIOUS
    <2>3. PICK l \in 1..(k - 1) : l = 9 + 2 * j
      BY <2>1, <2>2
    <2>4. Parents[j] = TENANT_TABLES[i]
      BY <2>2, TableLists DEF Joins
    <2>5. Script[l] = Stmt("orphans", TENANT_TABLES[i])
      BY <2>3, <2>4, ScriptShape DEF ScriptIs
    <2>6. Script[l].op = "orphans" /\ Script[l].table = TENANT_TABLES[i]
      BY <2>5 DEF Stmt
    <2>7. QED
      BY <2>1, <2>6
  <1>4. QED
    BY <1>1, <1>2, <1>3

LEMMA FirstStatement == Script[1].op = "column"
  <1>1. Script[1] = Stmt("column", AllTables[1])
    BY ScriptShape DEF ScriptIs
  <1>2. QED
    BY <1>1 DEF Stmt

(***************************************************************************)
(* The inductive invariant of the migration                                *)
(***************************************************************************)

IsSchema(s) ==
    s = [column |-> s.column, fk |-> s.fk, fkValid |-> s.fkValid, check |-> s.check,
         checkValid |-> s.checkValid, notNull |-> s.notNull, index |-> s.index,
         indexValid |-> s.indexValid, policy |-> s.policy, rls |-> s.rls]

\* What there is belongs to the script.
SchemaOK(s) ==
    /\ IsSchema(s)
    /\ s.check \subseteq Operational /\ s.checkValid \subseteq s.check
    /\ s.notNull \subseteq Operational
    /\ s.fkValid \subseteq Range(AllTables)
    /\ s.indexValid \subseteq Range(AllTables) \cup {"skill_names"}
    /\ s.policy \subseteq Range(POLICIES) /\ s.rls \subseteq Range(RLS_TABLES)

RunOK ==
    /\ pc \in 1..141
    /\ run = [attempt |-> run.attempt, dflt |-> run.dflt, building |-> run.building]
    /\ failed \in {"no", "killed", "lock", "check", "unique"}
    /\ failed = "check" => live # {}

\* What the statement at position k relies on.
Ready(s, k) ==
    /\ Script[k].op = "check_add" => Script[k].table \notin s.check
    /\ Script[k].op = "check_validate" => Script[k].table \in s.check
    /\ Script[k].op = "not_null" => Script[k].table \in s.checkValid
    /\ Script[k].op = "policy_create" => Script[k].policy \notin s.policy

\* What is missing, or has to go again, is still to come in the script.
ToCome(s, k) ==
    /\ \A t \in s.check : Later("check_drop", t, k)
    /\ \A t \in Operational : t \in s.notNull \/ Later("not_null", t, k)
    /\ \A t \in Range(AllTables) : t \in s.fkValid \/ Later("fk_validate", t, k)
    /\ \A t \in Range(AllTables) \cup {"skill_names"} : t \in s.indexValid \/ Later("index", t, k)
    /\ \A p \in Range(POLICIES) : p \in s.policy \/ LaterCreated(p, k)
    /\ \A t \in Range(RLS_TABLES) : t \in s.rls \/ Later("enable", t, k)

\* Every row of the table has an organisation.
AllOwned(d, t) == \A x \in DOMAIN d : d[x].table = t => d[x].tenant # NULL

\* The orphans of the table were looked after before position k.
Settled(t, k) == \E l \in 1..140 : l < k /\ Script[l].op = "orphans" /\ Script[l].table = t

Rows(d) == \A x \in DOMAIN d : IsRow(d[x])

\* Tables that a validated check or NOT NULL guards have no row without a tenant; and,
\* as long as the old version does not write, neither have those whose orphans this run
\* has looked after.
Guarded(d, s, k, written) ==
    /\ \A t \in s.checkValid \cup s.notNull : AllOwned(d, t)
    /\ written = {} => \A t \in Operational : Settled(t, k) => AllOwned(d, t)

MInv ==
    /\ SchemaOK(schema) /\ RunOK
    /\ (pc # 141 => Ready(schema, pc)) /\ ToCome(schema, pc)
    /\ Rows(db) /\ Guarded(db, schema, pc, live)

-----------------------------------------------------------------------------
(* What a statement leaves behind *)

\* What the statement at position k does to the schema, as far as the invariant asks.
Effect(s, r, k) ==
    /\ \A t \in r.check : /\ t \in s.check \/ (Script[k].op = "check_add" /\ Script[k].table = t)
                          /\ ~(Script[k].op = "check_drop" /\ Script[k].table = t)
    /\ Script[k].op = "check_add" => Script[k].table \in r.check
    /\ Script[k].op = "check_validate" => Script[k].table \in r.checkValid
    /\ s.notNull \subseteq r.notNull /\ (Script[k].op = "not_null" => Script[k].table \in r.notNull)
    /\ s.fkValid \subseteq r.fkValid /\ (Script[k].op = "fk_validate" => Script[k].table \in r.fkValid)
    /\ s.indexValid \subseteq r.indexValid /\ (Script[k].op = "index" => Script[k].table \in r.indexValid)
    /\ s.rls \subseteq r.rls /\ (Script[k].op = "enable" => Script[k].table \in r.rls)
    /\ \A p \in s.policy : p \in r.policy \/ (Script[k].op = "policy_drop" /\ Script[k].policy = p)
    /\ Script[k].op = "policy_drop" => Script[k].policy \notin r.policy
    /\ Script[k].op = "policy_create" => Script[k].policy \in r.policy

LEMMA StillToCome ==
    ASSUME NEW s, NEW r, NEW k \in 1..140, Effect(s, r, k), ToCome(s, k)
    PROVE  ToCome(r, k + 1)
  <1>1. ASSUME NEW t \in r.check PROVE Later("check_drop", t, k + 1)
    <2>1. CASE Script[k].op = "check_add" /\ Script[k].table = t
      BY <2>1, Ordered
    <2>2. CASE t \in s.check
      <3>1. Later("check_drop", t, k)
        BY <2>2 DEF ToCome
      <3>2. ~(Script[k].op = "check_drop" /\ Script[k].table = t)
        BY <1>1 DEF Effect
      <3>3. QED
        BY <3>1, <3>2, LaterOn
    <2>3. QED
      BY <1>1, <2>1, <2>2 DEF Effect
  <1>2. ASSUME NEW t \in Operational PROVE t \in r.notNull \/ Later("not_null", t, k + 1)
    <2>1. t \in s.notNull \/ Later("not_null", t, k)
      BY DEF ToCome
    <2>2. CASE t \in s.notNull \/ (Script[k].op = "not_null" /\ Script[k].table = t)
      BY <2>2 DEF Effect
    <2>3. QED
      BY <2>1, <2>2, LaterOn
  <1>3. ASSUME NEW t \in Range(AllTables) PROVE t \in r.fkValid \/ Later("fk_validate", t, k + 1)
    <2>1. t \in s.fkValid \/ Later("fk_validate", t, k)
      BY DEF ToCome
    <2>2. CASE t \in s.fkValid \/ (Script[k].op = "fk_validate" /\ Script[k].table = t)
      BY <2>2 DEF Effect
    <2>3. QED
      BY <2>1, <2>2, LaterOn
  <1>4. ASSUME NEW t \in Range(AllTables) \cup {"skill_names"}
        PROVE  t \in r.indexValid \/ Later("index", t, k + 1)
    <2>1. t \in s.indexValid \/ Later("index", t, k)
      BY <1>4 DEF ToCome
    <2>2. CASE t \in s.indexValid \/ (Script[k].op = "index" /\ Script[k].table = t)
      BY <2>2 DEF Effect
    <2>3. QED
      BY <2>1, <2>2, LaterOn
  <1>5. ASSUME NEW p \in Range(POLICIES) PROVE p \in r.policy \/ LaterCreated(p, k + 1)
    <2>1. p \in s.policy \/ LaterCreated(p, k)
      BY DEF ToCome
    <2>2. CASE Script[k].op = "policy_drop" /\ Script[k].policy = p
      BY <2>2, Ordered
    <2>3. CASE Script[k].op = "policy_create" /\ Script[k].policy = p
      BY <2>3 DEF Effect
    <2>4. CASE p \in s.policy /\ ~(Script[k].op = "policy_drop" /\ Script[k].policy = p)
      BY <2>4 DEF Effect
    <2>5. QED
      BY <2>1, <2>2, <2>3, <2>4, LaterCreatedOn
  <1>6. ASSUME NEW t \in Range(RLS_TABLES) PROVE t \in r.rls \/ Later("enable", t, k + 1)
    <2>1. t \in s.rls \/ Later("enable", t, k)
      BY DEF ToCome
    <2>2. CASE t \in s.rls \/ (Script[k].op = "enable" /\ Script[k].table = t)
      BY <2>2 DEF Effect
    <2>3. QED
      BY <2>1, <2>2, LaterOn
  <1>7. QED
    BY <1>1, <1>2, <1>3, <1>4, <1>5, <1>6 DEF ToCome

LEMMA ThenReady ==
    ASSUME NEW s, NEW r, NEW k \in 1..139, Effect(s, r, k)
    PROVE  Ready(r, k + 1)
  <1>1. Prepared(k)
    BY AllPrepared
  <1>2. Script[k].op = "check_drop" => Script[k].table \notin r.check
    BY DEF Effect
  <1>3. /\ Script[k].op = "check_add" => Script[k].table \in r.check
        /\ Script[k].op = "check_validate" => Script[k].table \in r.checkValid
        /\ Script[k].op = "policy_drop" => Script[k].policy \notin r.policy
    BY DEF Effect
  <1>4. QED
    BY <1>1, <1>2, <1>3 DEF Prepared, Ready

\* Only the statements that settle the orphans settle them.
LEMMA NotSettling ==
    ASSUME NEW k \in 1..140, Script[k].op # "orphans", NEW t, Settled(t, k + 1)
    PROVE  Settled(t, k)
  <1>1. PICK l \in 1..140 : l < k + 1 /\ Script[l].op = "orphans" /\ Script[l].table = t
    BY DEF Settled
  <1>2. l # k /\ l < k
    BY <1>1
  <1>3. QED
    BY <1>1, <1>2 DEF Settled

LEMMA Settling ==
    ASSUME NEW k \in 1..140, NEW t, Settled(t, k + 1)
    PROVE  Settled(t, k) \/ t = Script[k].table
  <1>1. PICK l \in 1..140 : l < k + 1 /\ Script[l].op = "orphans" /\ Script[l].table = t
    BY DEF Settled
  <1>2. l = k \/ l < k
    BY <1>1
  <1>3. QED
    BY <1>1, <1>2 DEF Settled

LEMMA SettledBefore ==
    ASSUME NEW k \in 1..140, Script[k].op = "check_validate"
    PROVE  Settled(Script[k].table, k)
  <1>1. PICK l \in 1..(k - 1) : Script[l].op = "orphans" /\ Script[l].table = Script[k].table
    BY Ordered
  <1>2. l \in 1..140 /\ l < k
    OBVIOUS
  <1>3. QED
    BY <1>1, <1>2 DEF Settled

LEMMA NothingSettled == \A t : ~Settled(t, 1)
  <1>1. \A l \in 1..140 : ~(l < 1)
    OBVIOUS
  <1>2. QED
    BY <1>1 DEF Settled

-----------------------------------------------------------------------------
(* Changes of the rows *)

\* From d to e no row of the tables F comes to be without a tenant.
StayOwned(d, e, F) ==
    \A x \in DOMAIN e :
        \/ e[x].table \notin F
        \/ e[x].tenant # NULL
        \/ x \in DOMAIN d /\ d[x].table = e[x].table /\ d[x].tenant = NULL

LEMMA StillOwned ==
    ASSUME NEW d, NEW e, NEW F, StayOwned(d, e, F), NEW t \in F, AllOwned(d, t)
    PROVE  AllOwned(e, t)
  BY DEF StayOwned, AllOwned

LEMMA Updated ==
    ASSUME NEW d, Rows(d), NEW b, \A x \in b : x \in DOMAIN d => d[x].tenant = NULL, NEW f, NEW F,
           NEW e, e = [x \in DOMAIN d |-> IF x \in b THEN [d[x] EXCEPT !.tenant = f[x]] ELSE d[x]]
    PROVE  Rows(e) /\ StayOwned(d, e, F)
  <1>1. ASSUME NEW x \in DOMAIN e
        PROVE  /\ IsRow(e[x])
               /\ e[x].tenant # NULL \/ (x \in DOMAIN d /\ d[x].table = e[x].table /\ d[x].tenant = NULL)
    <2>1. x \in DOMAIN d /\ IsRow(d[x])
      BY DEF Rows
    <2>2. CASE x \notin b
      BY <2>1, <2>2
    <2>3. CASE x \in b
      <3>1. e[x] = [d[x] EXCEPT !.tenant = f[x]] /\ d[x].tenant = NULL
        BY <2>1, <2>3
      <3>2. PICK r : r = d[x]
        OBVIOUS
      <3>3. r = [table |-> r.table, up |-> r.up, cand |-> r.cand, company |-> r.company,
                 at |-> r.at, role |-> r.role, tenant |-> r.tenant]
        BY <2>1, <3>2 DEF IsRow
      <3>4. e[x] = [table |-> r.table, up |-> r.up, cand |-> r.cand, company |-> r.company,
                    at |-> r.at, role |-> r.role, tenant |-> f[x]]
        BY <3>1, <3>2, <3>3
      <3>5. IsRow(e[x])
        BY <3>4 DEF IsRow
      <3>6. e[x].table = r.table
        BY <3>4
      <3>7. QED
        BY <2>1, <3>1, <3>2, <3>5, <3>6
    <2>4. QED
      BY <2>2, <2>3
  <1>2. QED
    BY <1>1 DEF Rows, StayOwned

LEMMA Joined ==
    ASSUME NEW d, Rows(d), NEW new, Rows(new), NEW F,
           \A x \in DOMAIN new : new[x].table \notin F \/ new[x].tenant # NULL,
           NEW e, e = [x \in DOMAIN d \cup DOMAIN new |-> IF x \in DOMAIN new THEN new[x] ELSE d[x]]
    PROVE  Rows(e) /\ StayOwned(d, e, F)
  <1>1. ASSUME NEW x \in DOMAIN e
        PROVE  /\ IsRow(e[x])
               /\ \/ e[x].table \notin F
                  \/ e[x].tenant # NULL
                  \/ x \in DOMAIN d /\ d[x].table = e[x].table /\ d[x].tenant = NULL
    <2>1. CASE x \in DOMAIN new
      BY <2>1 DEF Rows
    <2>2. CASE x \notin DOMAIN new
      BY <2>2 DEF Rows
    <2>3. QED
      BY <2>1, <2>2
  <1>2. QED
    BY <1>1 DEF Rows, StayOwned

-----------------------------------------------------------------------------
(* The steps of the migration *)

LEMMA ScriptLength == Len(Script) = 140
  BY ScriptShape DEF ScriptIs, Lists

LEMMA Position ==
    ASSUME RunOK, Running
    PROVE  pc \in 1..140 /\ failed = "no"
  BY ScriptLength DEF RunOK, Running, Done

\* A statement that takes effect.
LEMMA Forward ==
    ASSUME MInv, Running, Advance, UNCHANGED book,
           Effect(schema, schema', pc), SchemaOK(schema'), Rows(db'), Guarded(db', schema', pc + 1, live)
    PROVE  MInv'
  <1>1. pc \in 1..140 /\ failed = "no" /\ pc' = pc + 1 /\ failed' = failed /\ live' = live
    BY Position DEF MInv, Advance, book
  <1>2. run' = [attempt |-> 1, dflt |-> run.dflt, building |-> FALSE]
    BY DEF MInv, RunOK, Advance
  <1>3. RunOK'
    <2>1. pc' \in 1..141
      BY <1>1
    <2>2. run' = [attempt |-> run'.attempt, dflt |-> run'.dflt, building |-> run'.building]
      BY <1>2
    <2>3. QED
      BY <1>1, <2>1, <2>2 DEF RunOK
  <1>4. ToCome(schema', pc')
    BY <1>1, StillToCome DEF MInv
  <1>5. pc' # 141 => Ready(schema', pc')
    <2>1. HAVE pc' # 141
    <2>2. pc \in 1..139
      BY <1>1, <2>1
    <2>3. QED
      BY <1>1, <2>2, ThenReady
  <1>6. Guarded(db', schema', pc', live')
    BY <1>1
  <1>7. QED
    BY <1>3, <1>4, <1>5, <1>6 DEF MInv

\* A statement that takes effect on the schema alone.
LEMMA SchemaForward ==
    ASSUME MInv, Running, Advance, UNCHANGED <<db, book>>, Script[pc].op # "orphans",
           Effect(schema, schema', pc), SchemaOK(schema'),
           \A t \in schema'.checkValid \cup schema'.notNull :
               t \in schema.checkValid \cup schema.notNull \/ AllOwned(db, t)
    PROVE  MInv'
  <1>1. pc \in 1..140
    BY Position DEF MInv
  <1>2. ASSUME NEW t \in schema'.checkValid \cup schema'.notNull PROVE AllOwned(db, t)
    BY <1>2 DEF MInv, Guarded
  <1>3. ASSUME live = {}, NEW t \in Operational, Settled(t, pc + 1) PROVE AllOwned(db, t)
    <2>1. Settled(t, pc)
      BY <1>1, <1>3, NotSettling
    <2>2. QED
      BY <1>3, <2>1 DEF MInv, Guarded
  <1>4. Guarded(db, schema', pc + 1, live)
    BY <1>2, <1>3 DEF Guarded
  <1>5. db' = db /\ Rows(db') /\ UNCHANGED book
    BY DEF MInv
  <1>6. QED
    BY <1>4, <1>5, Forward

\* A statement that changes rows and stays where it is.
LEMMA RowsChange ==
    ASSUME MInv, UNCHANGED <<schema, pc, failed, live>>, Rows(db'), StayOwned(db, db', Operational),
           run' = [attempt |-> run'.attempt, dflt |-> run'.dflt, building |-> run'.building]
    PROVE  MInv'
  <1>1. ASSUME NEW t \in schema.checkValid \cup schema.notNull PROVE AllOwned(db', t)
    <2>1. t \in Operational /\ AllOwned(db, t)
      BY <1>1 DEF MInv, SchemaOK, Guarded
    <2>2. QED
      BY <2>1, StillOwned
  <1>2. ASSUME live = {}, NEW t \in Operational, Settled(t, pc) PROVE AllOwned(db', t)
    <2>1. AllOwned(db, t)
      BY <1>2 DEF MInv, Guarded
    <2>2. QED
      BY <2>1, StillOwned
  <1>3. Guarded(db', schema, pc, live)
    BY <1>1, <1>2 DEF Guarded
  <1>4. RunOK'
    BY DEF MInv, RunOK
  <1>5. schema' = schema /\ pc' = pc /\ live' = live
    OBVIOUS
  <1>6. QED
    BY <1>3, <1>4, <1>5 DEF MInv

\* A step that touches neither rows nor the schema.
LEMMA Elsewhere ==
    ASSUME MInv, UNCHANGED <<db, schema, pc, live>>, RunOK'
    PROVE  MInv'
  <1>1. schema' = schema /\ pc' = pc /\ live' = live /\ db' = db
    OBVIOUS
  <1>2. QED
    BY <1>1 DEF MInv

LEMMA AddColumnKeeps == MInv /\ AddColumn => MInv'
  <1> SUFFICES ASSUME MInv, AddColumn PROVE MInv'
    OBVIOUS
  <1>1. pc \in 1..140 /\ Script[pc].op = "column" /\ Running /\ IsSchema(schema) /\ SchemaOK(schema)
    BY Position DEF MInv, SchemaOK, AddColumn, At
  <1>2. schema' =
          [column |-> schema.column \cup {Script[pc].table}, fk |-> schema.fk,
           fkValid |-> schema.fkValid, check |-> schema.check,
           checkValid |-> schema.checkValid, notNull |-> schema.notNull,
           index |-> schema.index, indexValid |-> schema.indexValid,
           policy |-> schema.policy, rls |-> schema.rls]
    BY <1>1 DEF AddColumn, At, T, IsSchema
  <1>3. Effect(schema, schema', pc)
    BY <1>1, <1>2 DEF Effect
  <1>4. SchemaOK(schema')
    BY <1>1, <1>2, OnlyThese DEF SchemaOK, IsSchema
  <1>6. QED
    BY <1>1, <1>2, <1>3, <1>4, SchemaForward DEF AddColumn

LEMMA DropCheckKeeps == MInv /\ DropCheck => MInv'
  <1> SUFFICES ASSUME MInv, DropCheck PROVE MInv'
    OBVIOUS
  <1>1. pc \in 1..140 /\ Script[pc].op = "check_drop" /\ Running /\ IsSchema(schema) /\ SchemaOK(schema)
    BY Position DEF MInv, SchemaOK, DropCheck, At
  <1>2. schema' =
          [column |-> schema.column, fk |-> schema.fk, fkValid |-> schema.fkValid,
           check |-> schema.check \ {Script[pc].table},
           checkValid |-> schema.checkValid \ {Script[pc].table},
           notNull |-> schema.notNull, index |-> schema.index,
           indexValid |-> schema.indexValid, policy |-> schema.policy,
           rls |-> schema.rls]
    BY <1>1 DEF DropCheck, At, T, IsSchema
  <1>3. Effect(schema, schema', pc)
    BY <1>1, <1>2 DEF Effect
  <1>4. SchemaOK(schema')
    BY <1>1, <1>2, OnlyThese DEF SchemaOK, IsSchema
  <1>6. QED
    BY <1>1, <1>2, <1>3, <1>4, SchemaForward DEF DropCheck

LEMMA SetNotNullKeeps == MInv /\ SetNotNull => MInv'
  <1> SUFFICES ASSUME MInv, SetNotNull PROVE MInv'
    OBVIOUS
  <1>1. pc \in 1..140 /\ Script[pc].op = "not_null" /\ Running /\ IsSchema(schema) /\ SchemaOK(schema)
    BY Position DEF MInv, SchemaOK, SetNotNull, At
  <1>2. schema' =
          [column |-> schema.column, fk |-> schema.fk, fkValid |-> schema.fkValid,
           check |-> schema.check, checkValid |-> schema.checkValid,
           notNull |-> schema.notNull \cup {Script[pc].table},
           index |-> schema.index, indexValid |-> schema.indexValid,
           policy |-> schema.policy, rls |-> schema.rls]
    BY <1>1 DEF SetNotNull, At, T, IsSchema
  <1>3. Effect(schema, schema', pc)
    BY <1>1, <1>2 DEF Effect
  <1>4. SchemaOK(schema')
    BY <1>1, <1>2, OnlyThese DEF SchemaOK, IsSchema
  <1>5. AllOwned(db, Script[pc].table)
    BY <1>1 DEF MInv, Ready, Guarded
  <1>6. QED
    BY <1>1, <1>2, <1>3, <1>4, <1>5, SchemaForward DEF SetNotNull

LEMMA DropPolicyKeeps == MInv /\ DropPolicy => MInv'
  <1> SUFFICES ASSUME MInv, DropPolicy PROVE MInv'
    OBVIOUS
  <1>1. pc \in 1..140 /\ Script[pc].op = "policy_drop" /\ Running /\ IsSchema(schema) /\ SchemaOK(schema)
    BY Position DEF MInv, SchemaOK, DropPolicy, At
  <1>2. schema' =
          [column |-> schema.column, fk |-> schema.fk, fkValid |-> schema.fkValid,
           check |-> schema.check, checkValid |-> schema.checkValid,
           notNull |-> schema.notNull, index |-> schema.index,
           indexValid |-> schema.indexValid,
           policy |-> schema.policy \ {Script[pc].policy}, rls |-> schema.rls]
    BY <1>1 DEF DropPolicy, At, T, IsSchema
  <1>3. Effect(schema, schema', pc)
    BY <1>1, <1>2 DEF Effect
  <1>4. SchemaOK(schema')
    BY <1>1, <1>2, OnlyThese DEF SchemaOK, IsSchema
  <1>6. QED
    BY <1>1, <1>2, <1>3, <1>4, SchemaForward DEF DropPolicy

LEMMA EnableRlsKeeps == MInv /\ EnableRls => MInv'
  <1> SUFFICES ASSUME MInv, EnableRls PROVE MInv'
    OBVIOUS
  <1>1. pc \in 1..140 /\ Script[pc].op = "enable" /\ Running /\ IsSchema(schema) /\ SchemaOK(schema)
    BY Position DEF MInv, SchemaOK, EnableRls, At
  <1>2. schema' =
          [column |-> schema.column, fk |-> schema.fk, fkValid |-> schema.fkValid,
           check |-> schema.check, checkValid |-> schema.checkValid,
           notNull |-> schema.notNull, index |-> schema.index,
           indexValid |-> schema.indexValid, policy |-> schema.policy,
           rls |-> schema.rls \cup {Script[pc].table}]
    BY <1>1 DEF EnableRls, At, T, IsSchema
  <1>3. Effect(schema, schema', pc)
    BY <1>1, <1>2 DEF Effect
  <1>4. SchemaOK(schema')
    BY <1>1, <1>2, OnlyThese DEF SchemaOK, IsSchema
  <1>6. QED
    BY <1>1, <1>2, <1>3, <1>4, SchemaForward DEF EnableRls

LEMMA ForeignKeyKeeps == MInv /\ ForeignKey => MInv'
  <1> SUFFICES ASSUME MInv, ForeignKey PROVE MInv'
    OBVIOUS
  <1>1. /\ pc \in 1..140 /\ Script[pc].op \in {"fk_add", "fk_validate"} /\ Running
        /\ IsSchema(schema) /\ SchemaOK(schema)
    BY Position DEF MInv, SchemaOK, ForeignKey, At
  <1>2. CASE Script[pc].op = "fk_add"
    <2>1. schema' =
          [column |-> schema.column, fk |-> schema.fk \cup {Script[pc].table},
           fkValid |-> schema.fkValid, check |-> schema.check,
           checkValid |-> schema.checkValid, notNull |-> schema.notNull,
           index |-> schema.index, indexValid |-> schema.indexValid,
           policy |-> schema.policy, rls |-> schema.rls]
      BY <1>1, <1>2 DEF ForeignKey, At, T, IsSchema
    <2>2. Effect(schema, schema', pc)
      BY <1>2, <2>1 DEF Effect
    <2>3. SchemaOK(schema')
      BY <1>1, <2>1 DEF SchemaOK, IsSchema
    <2>4. QED
      BY <1>1, <1>2, <2>1, <2>2, <2>3, SchemaForward DEF ForeignKey
  <1>3. CASE Script[pc].op = "fk_validate"
    <2>1. schema' =
          [column |-> schema.column, fk |-> schema.fk,
           fkValid |-> schema.fkValid \cup {Script[pc].table},
           check |-> schema.check, checkValid |-> schema.checkValid,
           notNull |-> schema.notNull, index |-> schema.index,
           indexValid |-> schema.indexValid, policy |-> schema.policy,
           rls |-> schema.rls]
      BY <1>1, <1>3 DEF ForeignKey, At, T, IsSchema
    <2>2. Effect(schema, schema', pc)
      BY <1>3, <2>1 DEF Effect
    <2>3. SchemaOK(schema')
      BY <1>1, <1>3, <2>1, OnlyThese DEF SchemaOK, IsSchema
    <2>4. QED
      BY <1>1, <1>3, <2>1, <2>2, <2>3, SchemaForward DEF ForeignKey
  <1>4. QED
    BY <1>1, <1>2, <1>3

\* The check is not there: the statement before dropped it.
LEMMA AddCheckKeeps == MInv /\ AddCheck => MInv'
  <1> SUFFICES ASSUME MInv, AddCheck PROVE MInv'
    OBVIOUS
  <1>1. /\ pc \in 1..140 /\ Script[pc].op = "check_add" /\ Running
        /\ IsSchema(schema) /\ SchemaOK(schema)
    BY Position DEF MInv, SchemaOK, AddCheck, At
  <1>2. Script[pc].table \notin schema.check
    BY <1>1 DEF MInv, Ready
  <1>3. /\ schema' = [schema EXCEPT !.check = @ \cup {Script[pc].table}]
        /\ Advance /\ UNCHANGED <<db, book>>
    BY <1>2 DEF AddCheck, T
  <1>4. schema' =
          [column |-> schema.column, fk |-> schema.fk, fkValid |-> schema.fkValid,
           check |-> schema.check \cup {Script[pc].table},
           checkValid |-> schema.checkValid, notNull |-> schema.notNull,
           index |-> schema.index, indexValid |-> schema.indexValid,
           policy |-> schema.policy, rls |-> schema.rls]
    BY <1>1, <1>3 DEF IsSchema
  <1>5. Effect(schema, schema', pc)
    BY <1>1, <1>4 DEF Effect
  <1>6. SchemaOK(schema')
    BY <1>1, <1>4, OnlyThese DEF SchemaOK, IsSchema
  <1>7. QED
    BY <1>1, <1>3, <1>4, <1>5, <1>6, SchemaForward

\* A run whose check fails has met a row of the old version: the orphans of the table
\* were looked after before.
LEMMA ValidateCheckKeeps == MInv /\ ValidateCheck => MInv'
  <1> SUFFICES ASSUME MInv, ValidateCheck PROVE MInv'
    OBVIOUS
  <1>1. /\ pc \in 1..140 /\ Script[pc].op = "check_validate" /\ Running
        /\ IsSchema(schema) /\ SchemaOK(schema)
    BY Position DEF MInv, SchemaOK, ValidateCheck, At
  <1>2. Script[pc].table \in schema.check /\ Script[pc].table \in Operational
    <2>1. Script[pc].table \in schema.check
      BY <1>1 DEF MInv, Ready
    <2>2. QED
      BY <1>1, <2>1 DEF SchemaOK
  <1>3. AllOwned(db, Script[pc].table) <=> Untenanted(T) = {}
    BY DEF AllOwned, Untenanted, RowsOf, T
  <1>4. CASE Untenanted(T) # {}
    <2>1. Raise("check")
      BY <1>4 DEF ValidateCheck
    <2>2. live # {}
      BY <1>1, <1>2, <1>3, <1>4, SettledBefore DEF MInv, Guarded
    <2>3. RunOK'
      BY <2>1, <2>2 DEF MInv, RunOK, Raise
    <2>4. QED
      BY <2>1, <2>3, Elsewhere DEF Raise
  <1>5. CASE Untenanted(T) = {}
    <2>1. /\ schema' = [schema EXCEPT !.checkValid = @ \cup {Script[pc].table}]
          /\ Advance /\ UNCHANGED <<db, book>>
      BY <1>5 DEF ValidateCheck, T
    <2>2. schema' =
          [column |-> schema.column, fk |-> schema.fk, fkValid |-> schema.fkValid,
           check |-> schema.check,
           checkValid |-> schema.checkValid \cup {Script[pc].table},
           notNull |-> schema.notNull, index |-> schema.index,
           indexValid |-> schema.indexValid, policy |-> schema.policy,
           rls |-> schema.rls]
      BY <1>1, <2>1 DEF IsSchema
    <2>3. Effect(schema, schema', pc)
      BY <1>1, <2>2 DEF Effect
    <2>4. SchemaOK(schema')
      BY <1>1, <1>2, <2>2 DEF SchemaOK, IsSchema
    <2>5. AllOwned(db, Script[pc].table)
      BY <1>3, <1>5
    <2>6. QED
      BY <1>1, <2>1, <2>2, <2>3, <2>4, <2>5, SchemaForward
  <1>6. QED
    BY <1>4, <1>5

\* The policy is not there: the statement before dropped it.
LEMMA CreatePolicyKeeps == MInv /\ CreatePolicy => MInv'
  <1> SUFFICES ASSUME MInv, CreatePolicy PROVE MInv'
    OBVIOUS
  <1>1. /\ pc \in 1..140 /\ Script[pc].op = "policy_create" /\ Running
        /\ IsSchema(schema) /\ SchemaOK(schema)
    BY Position DEF MInv, SchemaOK, CreatePolicy, At
  <1>2. Script[pc].policy \notin schema.policy
    BY <1>1 DEF MInv, Ready
  <1>3. /\ schema' = [schema EXCEPT !.policy = @ \cup {Script[pc].policy}]
        /\ Advance /\ UNCHANGED <<db, book>>
    BY <1>2 DEF CreatePolicy
  <1>4. schema' =
          [column |-> schema.column, fk |-> schema.fk, fkValid |-> schema.fkValid,
           check |-> schema.check, checkValid |-> schema.checkValid,
           notNull |-> schema.notNull, index |-> schema.index,
           indexValid |-> schema.indexValid,
           policy |-> schema.policy \cup {Script[pc].policy}, rls |-> schema.rls]
    BY <1>1, <1>3 DEF IsSchema
  <1>5. Effect(schema, schema', pc)
    BY <1>1, <1>4 DEF Effect
  <1>6. SchemaOK(schema')
    BY <1>1, <1>4, OnlyThese DEF SchemaOK, IsSchema
  <1>7. QED
    BY <1>1, <1>3, <1>4, <1>5, <1>6, SchemaForward

\* An index that is being built, or that was left over, changes nothing of the
\* invariant; the statement ends with a valid one.
LEMMA IndexKeeps == MInv /\ Index => MInv'
  <1> SUFFICES ASSUME MInv, Index PROVE MInv'
    OBVIOUS
  <1>1. /\ pc \in 1..140 /\ Script[pc].op = "index" /\ Running
        /\ IsSchema(schema) /\ SchemaOK(schema)
    BY Position DEF MInv, SchemaOK, Index, At
  <1>2. UNCHANGED <<db, book>>
    BY DEF Index
  <1>3. ASSUME NEW i, schema' =
          [column |-> schema.column, fk |-> schema.fk, fkValid |-> schema.fkValid,
           check |-> schema.check, checkValid |-> schema.checkValid,
           notNull |-> schema.notNull, index |-> i,
           indexValid |-> schema.indexValid, policy |-> schema.policy,
           rls |-> schema.rls],
               UNCHANGED pc,
               run' = [attempt |-> run'.attempt, dflt |-> run'.dflt, building |-> run'.building]
        PROVE  MInv'
    <2>1. SchemaOK(schema')
      BY <1>1, <1>3 DEF SchemaOK, IsSchema
    <2>2. /\ schema'.check = schema.check /\ schema'.checkValid = schema.checkValid
          /\ schema'.notNull = schema.notNull /\ schema'.fkValid = schema.fkValid
          /\ schema'.indexValid = schema.indexValid /\ schema'.policy = schema.policy
          /\ schema'.rls = schema.rls
      BY <1>3
    <2>3. pc' = pc /\ live' = live /\ db' = db /\ failed' = failed
      BY <1>2, <1>3 DEF book
    <2>4. RunOK'
      BY <1>3, <2>3 DEF MInv, RunOK
    <2>5. pc' # 141 => Ready(schema', pc')
      BY <2>2, <2>3 DEF MInv, Ready
    <2>6. ToCome(schema', pc')
      BY <2>2, <2>3 DEF MInv, ToCome
    <2>7. Rows(db') /\ Guarded(db', schema', pc', live')
      BY <2>2, <2>3 DEF MInv, Guarded
    <2>8. QED
      BY <2>1, <2>4, <2>5, <2>6, <2>7 DEF MInv
  <1>4. CASE ~run.building /\ LeftoverIndex /\ schema' = [schema EXCEPT !.index = @ \ {T}] /\ UNCHANGED <<pc, run>>
    <2>1. PICK i : i = schema.index \ {T}
      OBVIOUS
    <2>2. schema' =
          [column |-> schema.column, fk |-> schema.fk, fkValid |-> schema.fkValid,
           check |-> schema.check, checkValid |-> schema.checkValid,
           notNull |-> schema.notNull, index |-> i,
           indexValid |-> schema.indexValid, policy |-> schema.policy,
           rls |-> schema.rls]
      BY <1>1, <1>4, <2>1 DEF IsSchema
    <2>3. run' = [attempt |-> run'.attempt, dflt |-> run'.dflt, building |-> run'.building]
      BY <1>4 DEF MInv, RunOK
    <2>4. QED
      BY <1>3, <1>4, <2>2, <2>3
  <1>5. CASE ~run.building /\ ~LeftoverIndex /\ T \in schema.index /\ Advance /\ UNCHANGED schema
    <2>1. Script[pc].table \in schema.indexValid /\ schema' = schema
      BY <1>5 DEF LeftoverIndex, T
    <2>2. Effect(schema, schema', pc)
      BY <1>1, <2>1 DEF Effect
    <2>3. QED
      BY <1>1, <1>2, <1>5, <2>1, <2>2, SchemaForward
  <1>6. CASE /\ ~run.building /\ T \notin schema.index /\ schema' = [schema EXCEPT !.index = @ \cup {T}]
             /\ run' = [run EXCEPT !.building = TRUE] /\ UNCHANGED pc
    <2>1. PICK i : i = schema.index \cup {T}
      OBVIOUS
    <2>2. schema' =
          [column |-> schema.column, fk |-> schema.fk, fkValid |-> schema.fkValid,
           check |-> schema.check, checkValid |-> schema.checkValid,
           notNull |-> schema.notNull, index |-> i,
           indexValid |-> schema.indexValid, policy |-> schema.policy,
           rls |-> schema.rls]
      BY <1>1, <1>6, <2>1 DEF IsSchema
    <2>3. run' = [attempt |-> run'.attempt, dflt |-> run'.dflt, building |-> run'.building]
      BY <1>6 DEF MInv, RunOK
    <2>4. QED
      BY <1>3, <1>6, <2>2, <2>3
  <1>7. CASE /\ run.building /\ ~(T = "skill_names" /\ SameNames)
             /\ schema' = [schema EXCEPT !.indexValid = @ \cup {T}] /\ Advance
    <2>1. schema' =
          [column |-> schema.column, fk |-> schema.fk, fkValid |-> schema.fkValid,
           check |-> schema.check, checkValid |-> schema.checkValid,
           notNull |-> schema.notNull, index |-> schema.index,
           indexValid |-> schema.indexValid \cup {Script[pc].table},
           policy |-> schema.policy, rls |-> schema.rls]
      BY <1>1, <1>7 DEF IsSchema, T
    <2>2. Effect(schema, schema', pc)
      BY <1>1, <2>1 DEF Effect
    <2>3. SchemaOK(schema')
      BY <1>1, <2>1, OnlyThese DEF SchemaOK, IsSchema
    <2>4. QED
      BY <1>1, <1>2, <1>7, <2>1, <2>2, <2>3, SchemaForward
  <1>8. QED
    BY <1>4, <1>5, <1>6, <1>7 DEF Index

\* A duplicate ends the run and nothing else.
LEMMA IndexFailsKeeps == MInv /\ IndexFails => MInv'
  <1> SUFFICES ASSUME MInv, IndexFails PROVE MInv'
    OBVIOUS
  <1>1. Raise("unique")
    BY DEF IndexFails
  <1>2. RunOK'
    BY <1>1 DEF MInv, RunOK, Raise
  <1>3. QED
    BY <1>1, <1>2, Elsewhere DEF Raise

LEMMA NotUsers == "users" \notin Operational /\ "companies" \notin Operational
  <1>1. \A i \in 1..7 : TENANT_TABLES[i] # "users" /\ TENANT_TABLES[i] # "companies"
    BY DEF TENANT_TABLES
  <1>2. QED
    BY <1>1, Ranges

\* An UPDATE of rows that have no tenant, by the values of f.
LEMMA Update ==
    ASSUME MInv, UNCHANGED <<schema, pc, run, book>>, NEW b, NEW t, b \subseteq Untenanted(t), NEW f,
           db' = [x \in DOMAIN db |-> IF x \in b THEN [db[x] EXCEPT !.tenant = f[x]] ELSE db[x]]
    PROVE  MInv'
  <1>1. \A x \in b : x \in DOMAIN db => db[x].tenant = NULL
    BY DEF Untenanted
  <1>2. Rows(db)
    BY DEF MInv
  <1>3. PICK d, e : d = db /\ e = db'
    OBVIOUS
  <1>4. Rows(e) /\ StayOwned(d, e, Operational)
    BY <1>1, <1>2, <1>3, Updated
  <1>5. Rows(db') /\ StayOwned(db, db', Operational)
    BY <1>3, <1>4
  <1>6. run' = [attempt |-> run'.attempt, dflt |-> run'.dflt, building |-> run'.building]
    BY DEF MInv, RunOK
  <1>7. UNCHANGED <<schema, pc, failed, live>>
    BY DEF book
  <1>8. QED
    BY <1>5, <1>6, <1>7, RowsChange

\* A data statement that finds nothing left to do.
LEMMA DataForward ==
    ASSUME MInv, Running, Advance, UNCHANGED <<db, schema, book>>,
           Script[pc].op \in {"backfill", "orphans"},
           Script[pc].op = "orphans" /\ Script[pc].table \in Operational => AllOwned(db, Script[pc].table)
    PROVE  MInv'
  <1>1. pc \in 1..140
    BY Position DEF MInv
  <1>2. Effect(schema, schema', pc)
    BY DEF Effect
  <1>3. ASSUME live = {}, NEW t \in Operational, Settled(t, pc + 1) PROVE AllOwned(db, t)
    <2>1. CASE Settled(t, pc)
      BY <1>3, <2>1 DEF MInv, Guarded
    <2>2. CASE Script[pc].op = "orphans" /\ t = Script[pc].table
      BY <2>2
    <2>3. QED
      BY <1>1, <1>3, <2>1, <2>2, Settling, NotSettling
  <1>4. Guarded(db, schema, pc + 1, live)
    BY <1>3 DEF MInv, Guarded
  <1>5. schema' = schema /\ db' = db /\ UNCHANGED book
    OBVIOUS
  <1>6. QED
    BY <1>2, <1>4, <1>5, Forward DEF MInv

LEMMA BackfillKeeps == MInv /\ Backfill => MInv'
  <1> SUFFICES ASSUME MInv, Backfill PROVE MInv'
    OBVIOUS
  <1>1. Running /\ Script[pc].op = "backfill" /\ UNCHANGED <<schema, book>>
    BY DEF Backfill, At
  <1>2. CASE Source(T) = {}
    BY <1>1, <1>2, DataForward DEF Backfill
  <1>3. CASE Source(T) # {}
    <2>1. PICK b \in Batches(Source(T)) :
             db' = [x \in DOMAIN db |-> IF x \in b THEN [db[x] EXCEPT !.tenant = NewTenant(x)] ELSE db[x]]
      BY <1>3 DEF Backfill
    <2>2. b \subseteq Untenanted(T)
      BY DEF Batches, Source
    <2>3. PICK f : f = [x \in DOMAIN db |-> NewTenant(x)]
      OBVIOUS
    <2>4. \A x \in DOMAIN db : f[x] = NewTenant(x)
      BY <2>3
    <2>5. db' = [x \in DOMAIN db |-> IF x \in b THEN [db[x] EXCEPT !.tenant = f[x]] ELSE db[x]]
      BY <2>1, <2>4
    <2>6. UNCHANGED <<schema, pc, run, book>>
      BY <1>3 DEF Backfill
    <2>7. QED
      BY <2>2, <2>5, <2>6, Update
  <1>4. QED
    BY <1>2, <1>3

LEMMA BackfillOrphansKeeps == MInv /\ BackfillOrphans => MInv'
  <1> SUFFICES ASSUME MInv, BackfillOrphans PROVE MInv'
    OBVIOUS
  <1>1. Running /\ Script[pc].op = "orphans" /\ UNCHANGED <<schema, book>>
    BY DEF BackfillOrphans, At
  <1>2. CASE Orphans(T) = {}
    <2>1. ASSUME T \in Operational PROVE AllOwned(db, T)
      <3>1. T # "users"
        BY <2>1, NotUsers
      <3>2. Untenanted(T) = {}
        BY <1>2, <3>1 DEF Orphans
      <3>3. QED
        BY <3>2 DEF AllOwned, Untenanted, RowsOf
    <2>2. Advance /\ UNCHANGED db
      BY <1>2 DEF BackfillOrphans
    <2>3. QED
      BY <1>1, <2>1, <2>2, DataForward DEF T
  <1>3. CASE Orphans(T) # {}
    <2>1. PICK b \in Batches(Orphans(T)) :
             db' = [x \in DOMAIN db |-> IF x \in b THEN [db[x] EXCEPT !.tenant = run.dflt] ELSE db[x]]
      BY <1>3 DEF BackfillOrphans
    <2>2. b \subseteq Untenanted(T)
      BY DEF Batches, Orphans
    <2>3. PICK f : f = [x \in DOMAIN db |-> run.dflt]
      OBVIOUS
    <2>4. \A x \in DOMAIN db : f[x] = run.dflt
      BY <2>3
    <2>5. db' = [x \in DOMAIN db |-> IF x \in b THEN [db[x] EXCEPT !.tenant = f[x]] ELSE db[x]]
      BY <2>1, <2>4
    <2>6. UNCHANGED <<schema, pc, run, book>>
      BY <1>3 DEF BackfillOrphans
    <2>7. QED
      BY <2>2, <2>5, <2>6, Update
  <1>4. QED
    BY <1>2, <1>3

\* The default organisation is a row of a table that has no tenants.
LEMMA DefaultTenantKeeps == MInv /\ DefaultTenant => MInv'
  <1> SUFFICES ASSUME MInv, DefaultTenant PROVE MInv'
    OBVIOUS
  <1>1. UNCHANGED <<schema, pc, book>>
    BY DEF DefaultTenant
  <1>2. CASE DefaultCompanies # {}
    <2>1. run' = [run EXCEPT !.dflt = Oldest(DefaultCompanies)] /\ UNCHANGED db
      BY <1>2 DEF DefaultTenant
    <2>2. RunOK'
      BY <1>1, <2>1 DEF MInv, RunOK, book
    <2>3. QED
      BY <1>1, <2>1, <2>2, Elsewhere DEF book
  <1>3. CASE DefaultCompanies = {}
    <2>1. PICK n : db' = With([x \in {n} |-> DefaultCompany]) /\ run' = [run EXCEPT !.dflt = n]
      BY <1>3 DEF DefaultTenant
    <2>2. PICK new : new = [x \in {n} |-> DefaultCompany]
      OBVIOUS
    <2>3. Rows(new) /\ \A x \in DOMAIN new : new[x].table = "companies"
      BY <2>2 DEF Rows, IsRow, DefaultCompany
    <2>4. \A x \in DOMAIN new : new[x].table \notin Operational
      BY <2>3, NotUsers
    <2>5. PICK d, e : d = db /\ e = db'
      OBVIOUS
    <2>6. e = [x \in DOMAIN d \cup DOMAIN new |-> IF x \in DOMAIN new THEN new[x] ELSE d[x]]
      BY <2>1, <2>2, <2>5 DEF With
    <2>7. Rows(e) /\ StayOwned(d, e, Operational)
      BY <2>3, <2>4, <2>5, <2>6, Joined DEF MInv
    <2>8. run' = [attempt |-> run'.attempt, dflt |-> run'.dflt, building |-> run'.building]
      BY <2>1 DEF MInv, RunOK
    <2>9. QED
      BY <1>1, <2>5, <2>7, <2>8, RowsChange DEF book
  <1>4. QED
    BY <1>2, <1>3

LEMMA LockTimeoutKeeps == MInv /\ LockTimeout => MInv'
  <1> SUFFICES ASSUME MInv, LockTimeout PROVE MInv'
    OBVIOUS
  <1>1. CASE Raise("lock")
    <2>1. RunOK'
      BY <1>1 DEF MInv, RunOK, Raise
    <2>2. QED
      BY <1>1, <2>1, Elsewhere DEF Raise
  <1>2. CASE run' = [run EXCEPT !.attempt = @ + 1] /\ UNCHANGED <<db, schema, pc, book>>
    <2>1. RunOK'
      BY <1>2 DEF MInv, RunOK, book
    <2>2. QED
      BY <1>2, <2>1, Elsewhere DEF book
  <1>3. QED
    BY <1>1, <1>2 DEF LockTimeout

LEMMA KilledKeeps == MInv /\ Killed => MInv'
  <1> SUFFICES ASSUME MInv, Killed PROVE MInv'
    OBVIOUS
  <1>1. Raise("killed")
    BY DEF Killed
  <1>2. RunOK'
    BY <1>1 DEF MInv, RunOK, Raise
  <1>3. QED
    BY <1>1, <1>2, Elsewhere DEF Raise

\* A new run starts from the first statement: everything is still to come.
LEMMA RerunKeeps == MInv /\ Rerun => MInv'
  <1> SUFFICES ASSUME MInv, Rerun PROVE MInv'
    OBVIOUS
  <1>1. pc' = 1 /\ run' = Fresh /\ failed' = "no" /\ db' = db /\ schema' = schema /\ live' = live
    BY DEF Rerun
  <1>2. RunOK'
    BY <1>1 DEF RunOK, Fresh
  <1>3. Ready(schema, 1)
    BY FirstStatement DEF Ready
  <1>4. ToCome(schema, 1)
    BY Foreseen DEF ToCome, MInv, SchemaOK
  <1>5. Guarded(db, schema, 1, live)
    BY NothingSettled DEF MInv, Guarded
  <1>6. QED
    BY <1>1, <1>2, <1>3, <1>4, <1>5 DEF MInv

\* The old version writes past the columns, but not past a check.
LEMMA OldWrites ==
    ASSUME MInv, UNCHANGED <<schema, pc, run, failed>>, live' # {}, NEW new, Rows(new),
           \A x \in DOMAIN new : new[x].tenant = NULL => new[x].table \notin schema.check \cup schema.notNull,
           db' = With(new)
    PROVE  MInv'
  <1>1. PICK d, e : d = db /\ e = db'
    OBVIOUS
  <1>2. PICK F : F = schema.check \cup schema.notNull
    OBVIOUS
  <1>3. e = [x \in DOMAIN d \cup DOMAIN new |-> IF x \in DOMAIN new THEN new[x] ELSE d[x]]
    BY <1>1 DEF With
  <1>4. \A x \in DOMAIN new : new[x].table \notin F \/ new[x].tenant # NULL
    BY <1>2
  <1>5. Rows(e) /\ StayOwned(d, e, F)
    BY <1>1, <1>3, <1>4, Joined DEF MInv
  <1>6. ASSUME NEW t \in schema.checkValid \cup schema.notNull PROVE AllOwned(e, t)
    <2>1. t \in F /\ AllOwned(d, t)
      BY <1>1, <1>2, <1>6 DEF MInv, SchemaOK, Guarded
    <2>2. QED
      BY <1>5, <2>1, StillOwned
  <1>7. schema' = schema /\ pc' = pc /\ failed' = failed /\ run' = run
    OBVIOUS
  <1>8. Guarded(db', schema', pc', live')
    BY <1>1, <1>6, <1>7 DEF Guarded
  <1>9. RunOK'
    BY <1>7 DEF MInv, RunOK
  <1>10. QED
    BY <1>1, <1>5, <1>7, <1>8, <1>9 DEF MInv

LEMMA ARow == \A t, u, c, n : IsRow(Row(t, u, c, n))
  BY DEF IsRow, Row

LEMMA OldVersionKeeps == MInv /\ OldVersion => MInv'
  <1> SUFFICES ASSUME MInv, OldVersion PROVE MInv'
    OBVIOUS
  <1>1. ASSUME NEW j, NEW c, OldUpload(j, c) PROVE MInv'
    <2>1. PICK a, r : \E new \in {[x \in {a, r} |-> IF x = a THEN Row("applications", j, c, NULL)
                                                    ELSE Row("resumes", NULL, c, NULL)]} :
                        /\ Insertable({new[a], new[r]})
                        /\ db' = With(new)
                        /\ live' = live \cup {a, r}
      BY <1>1 DEF OldUpload
    <2>2. PICK new : /\ new = [x \in {a, r} |-> IF x = a THEN Row("applications", j, c, NULL)
                                                ELSE Row("resumes", NULL, c, NULL)]
                     /\ Insertable({new[a], new[r]})
                     /\ db' = With(new)
                     /\ live' = live \cup {a, r}
      BY <2>1
    <2>3. DOMAIN new = {a, r} /\ Rows(new)
      BY <2>2, ARow DEF Rows
    <2>4. \A x \in DOMAIN new : new[x].tenant = NULL => new[x].table \notin schema.check \cup schema.notNull
      BY <2>2, <2>3 DEF Insertable
    <2>5. live' # {} /\ UNCHANGED <<schema, pc, run, failed>>
      BY <1>1, <2>2 DEF OldUpload
    <2>6. QED
      BY <2>2, <2>3, <2>4, <2>5, OldWrites
  <1>2. ASSUME NEW a, OldStatusChange(a) PROVE MInv'
    <2>1. PICK h : \E row \in {Row("status_history", a, NULL, NULL)} :
                     /\ Insertable({row})
                     /\ db' = With([x \in {h} |-> row])
                     /\ live' = live \cup {h}
      BY <1>2 DEF OldStatusChange
    <2>2. PICK row : /\ row = Row("status_history", a, NULL, NULL)
                     /\ Insertable({row})
                     /\ db' = With([x \in {h} |-> row])
                     /\ live' = live \cup {h}
      BY <2>1
    <2>3. PICK new : new = [x \in {h} |-> row]
      OBVIOUS
    <2>4. DOMAIN new = {h} /\ new[h] = row
      BY <2>3
    <2>5. Rows(new)
      BY <2>2, <2>4, ARow DEF Rows
    <2>6. \A x \in DOMAIN new : new[x].tenant = NULL => new[x].table \notin schema.check \cup schema.notNull
      BY <2>2, <2>4 DEF Insertable
    <2>7. live' # {} /\ UNCHANGED <<schema, pc, run, failed>>
      BY <1>2, <2>2 DEF OldStatusChange
    <2>8. QED
      BY <2>2, <2>3, <2>5, <2>6, <2>7, OldWrites
  <1>3. QED
    BY <1>1, <1>2 DEF OldVersion

LEMMA StampedRow ==
    ASSUME NEW ctx, NEW row, IsRow(row)
    PROVE  IsRow(Stamped(ctx, row))
  <1>1. CASE Stamped(ctx, row) = row
    BY <1>1
  <1>2. CASE Stamped(ctx, row) = [row EXCEPT !.tenant = ctx.tenant]
    <2>1. row = [table |-> row.table, up |-> row.up, cand |-> row.cand, company |-> row.company,
                 at |-> row.at, role |-> row.role, tenant |-> row.tenant]
      BY DEF IsRow
    <2>2. Stamped(ctx, row) =
            [table |-> row.table, up |-> row.up, cand |-> row.cand, company |-> row.company,
             at |-> row.at, role |-> row.role, tenant |-> ctx.tenant]
      BY <1>2, <2>1
    <2>3. QED
      BY <2>2 DEF IsRow
  <1>3. QED
    BY <1>1, <1>2 DEF Stamped

\* The new version writes rows that have a tenant, or none.
LEMMA NewRowsKeep ==
    ASSUME MInv, UNCHANGED <<schema, pc, run, failed>>, NEW ctx, NEW ids, NEW new,
           \A x \in ids : IsRow(new[x]), NewRows(ctx, ids, new)
    PROVE  MInv'
  <1>1. PICK st : st = [x \in ids |-> Stamped(ctx, new[x])]
    OBVIOUS
  <1>2. \/ UNCHANGED <<db, live>>
        \/ /\ db' = With(st) /\ live' = live
           /\ \A x \in ids : st[x].tenant # NULL
    BY <1>1 DEF NewRows, Refused
  <1>3. CASE UNCHANGED <<db, live>>
    <2>1. RunOK'
      BY <1>3 DEF MInv, RunOK
    <2>2. QED
      BY <1>3, <2>1, Elsewhere
  <1>4. CASE db' = With(st) /\ live' = live /\ \A x \in ids : st[x].tenant # NULL
    <2>1. DOMAIN st = ids /\ Rows(st)
      <3>1. DOMAIN st = ids
        BY <1>1
      <3>2. ASSUME NEW x \in ids PROVE IsRow(st[x])
        BY <1>1, StampedRow
      <3>3. QED
        BY <3>1, <3>2 DEF Rows
    <2>2. \A x \in DOMAIN st : st[x].table \notin Operational \/ st[x].tenant # NULL
      BY <1>4, <2>1
    <2>3. PICK d, e : d = db /\ e = db'
      OBVIOUS
    <2>4. e = [x \in DOMAIN d \cup DOMAIN st |-> IF x \in DOMAIN st THEN st[x] ELSE d[x]]
      BY <1>4, <2>3 DEF With
    <2>5. Rows(e) /\ StayOwned(d, e, Operational)
      <3>1. Rows(d) /\ Rows(st)
        BY <2>1, <2>3 DEF MInv
      <3>2. QED
        BY <2>2, <2>4, <3>1, Joined
    <2>6. run' = [attempt |-> run'.attempt, dflt |-> run'.dflt, building |-> run'.building]
      BY DEF MInv, RunOK
    <2>7. QED
      BY <1>4, <2>3, <2>5, <2>6, RowsChange
  <1>5. QED
    BY <1>2, <1>3, <1>4

LEMMA RequestKeeps == MInv /\ Request => MInv'
  <1> SUFFICES ASSUME MInv, Request PROVE MInv'
    OBVIOUS
  <1>1. UNCHANGED <<schema, pc, run, failed>>
    BY DEF Request
  <1>2. ASSUME NEW ctx, NEW x, NEW row, IsRow(row), NewRows(ctx, {x}, [y \in {x} |-> row]) PROVE MInv'
    <2>1. PICK new : new = [y \in {x} |-> row]
      OBVIOUS
    <2>2. \A y \in {x} : IsRow(new[y])
      BY <1>2, <2>1
    <2>3. NewRows(ctx, {x}, new)
      BY <1>2, <2>1
    <2>4. QED
      BY <1>1, <2>2, <2>3, NewRowsKeep
  <1>3. ASSUME NEW u, NEW x, CreateJob(u, x) PROVE MInv'
    BY <1>2, <1>3, ARow DEF CreateJob
  <1>9. ASSUME NEW a, Refused({a}) PROVE MInv'
    <2>1. UNCHANGED <<db, live>>
      BY <1>9 DEF Refused
    <2>2. RunOK'
      BY <1>1, <2>1 DEF MInv, RunOK
    <2>3. QED
      BY <1>1, <2>1, <2>2, Elsewhere
  <1>4. ASSUME NEW u, NEW a, NEW t, NEW x, AddToApplication(u, a, t, x) PROVE MInv'
    <2>1. Refused({a}) \/ NewRows(StaffContext(u), {x}, [y \in {x} |-> Row(t, a, NULL, NULL)])
      BY <1>4 DEF AddToApplication
    <2>2. QED
      BY <1>2, <1>9, <2>1, ARow
  <1>5. ASSUME NEW u, NEW j, NEW x, NEW y, UploadResume(u, j, x, y) PROVE MInv'
    <2>1. PICK c : NewRows(CandidateContext(u), {x, y},
                     [z \in {x, y} |-> IF z = x THEN Row("applications", j, c, UploadTenant(j))
                                                ELSE Row("resumes", NULL, c, UploadTenant(j))])
      BY <1>5 DEF UploadResume
    <2>2. PICK new : new = [z \in {x, y} |-> IF z = x THEN Row("applications", j, c, UploadTenant(j))
                                             ELSE Row("resumes", NULL, c, UploadTenant(j))]
      OBVIOUS
    <2>3. \A z \in {x, y} : IsRow(new[z])
      BY <2>2, ARow
    <2>4. NewRows(CandidateContext(u), {x, y}, new)
      BY <2>1, <2>2
    <2>5. QED
      BY <1>1, <2>3, <2>4, NewRowsKeep
  <1>6. ASSUME NEW u, NEW a, NEW x, RespondToOffer(u, a, x) PROVE MInv'
    <2>1. \/ Refused({a})
          \/ NewRows(CandidateContext(u), {x}, [y \in {x} |-> Row("status_history", a, NULL, db[a].tenant)])
      BY <1>6 DEF RespondToOffer
    <2>2. QED
      BY <1>2, <1>9, <2>1, ARow
  <1>7. ASSUME NEW s, NEW x, SaveQuestion(s, x) PROVE MInv'
    BY <1>2, <1>7, ARow DEF SaveQuestion
  <1>8. QED
    BY <1>3, <1>4, <1>5, <1>6, <1>7 DEF Request

LEMMA MigrationStarts == MigrationInit => MInv
  <1> SUFFICES ASSUME MigrationInit PROVE MInv
    OBVIOUS
  <1>1. pc = 1 /\ run = Fresh /\ failed = "no" /\ live = {} /\ db \in Databases
    BY DEF MigrationInit
  <1>2. schema = [column |-> {}, fk |-> {}, fkValid |-> {}, check |-> {}, checkValid |-> {},
                  notNull |-> {}, index |-> {}, indexValid |-> {}, policy |-> {}, rls |-> {}]
    BY DEF MigrationInit
  <1>3. SchemaOK(schema)
    BY <1>2 DEF SchemaOK, IsSchema
  <1>4. RunOK
    BY <1>1 DEF RunOK, Fresh
  <1>5. Ready(schema, pc)
    BY <1>1, FirstStatement DEF Ready
  <1>6. ToCome(schema, pc)
    <2>1. schema.check = {}
      BY <1>2
    <2>2. QED
      BY <1>1, <2>1, Foreseen DEF ToCome
  <1>7. Rows(db)
    BY <1>1, MigrationAssumption DEF Rows, IsDatabase
  <1>8. Guarded(db, schema, pc, live)
    <2>1. schema.checkValid \cup schema.notNull = {}
      BY <1>2
    <2>2. QED
      BY <1>1, <2>1, NothingSettled DEF Guarded
  <1>9. QED
    BY <1>3, <1>4, <1>5, <1>6, <1>7, <1>8 DEF MInv

LEMMA MigrationSteps == MInv /\ [MigrationNext]_migrationVars => MInv'
  <1>1. MInv /\ Upgrade => MInv'
    BY AddColumnKeeps, BackfillKeeps, DefaultTenantKeeps, BackfillOrphansKeeps, ForeignKeyKeeps,
       DropCheckKeeps, AddCheckKeeps, ValidateCheckKeeps, SetNotNullKeeps, IndexKeeps, IndexFailsKeeps,
       DropPolicyKeeps, CreatePolicyKeeps, EnableRlsKeeps DEF Upgrade
  <1>2. ASSUME MInv, UNCHANGED migrationVars PROVE MInv'
    <2>1. UNCHANGED <<db, schema, pc, run, failed, live>>
      BY <1>2 DEF migrationVars
    <2>2. RunOK'
      BY <1>2, <2>1 DEF MInv, RunOK
    <2>3. QED
      BY <1>2, <2>1, <2>2, Elsewhere
  <1>3. QED
    BY <1>1, <1>2, LockTimeoutKeeps, KilledKeeps, RerunKeeps, OldVersionKeeps, RequestKeeps DEF MigrationNext

\* The inductive invariant of the migration, for any databases, batch size, number of
\* attempts, of runs and of rows written meanwhile: what an interrupted run left undone,
\* or has to take back, is still to come in the script.
THEOREM MigrationInvariant == MigrationSpec => []MInv
  <1>1. QED
    BY MigrationStarts, MigrationSteps, PTL DEF MigrationSpec

LEMMA FreshOnes == \A S : \A x \in FreshId(S) : x \notin DOMAIN db
  BY DEF FreshId

LEMMA AtTheEnd == MInv => EndsComplete
  <1> SUFFICES ASSUME MInv PROVE EndsComplete
    OBVIOUS
  <1>2. ASSUME Done
        PROVE  /\ \A t \in Operational : Untenanted(t) = {} /\ t \in schema.notNull
               /\ schema.check = {}
               /\ schema.fkValid = Range(AllTables)
               /\ schema.indexValid = Range(AllTables) \cup {"skill_names"}
               /\ schema.policy = Range(POLICIES) /\ schema.rls = Range(RLS_TABLES)
    <2>1. pc = 141
      BY <1>2, ScriptLength DEF Done
    <2>2. ToCome(schema, 141) /\ SchemaOK(schema)
      BY <2>1 DEF MInv
    <2>3. ASSUME NEW t \in Operational PROVE Untenanted(t) = {} /\ t \in schema.notNull
      <3>1. t \in schema.notNull
        BY <2>2, NothingLater DEF ToCome
      <3>2. AllOwned(db, t)
        BY <3>1 DEF MInv, Guarded
      <3>3. QED
        BY <3>1, <3>2 DEF AllOwned, Untenanted, RowsOf
    <2>4. schema.check = {}
      BY <2>2, NothingLater DEF ToCome
    <2>5. schema.fkValid = Range(AllTables)
      BY <2>2, NothingLater DEF ToCome, SchemaOK
    <2>6. schema.indexValid = Range(AllTables) \cup {"skill_names"}
      BY <2>2, NothingLater DEF ToCome, SchemaOK
    <2>7. schema.policy = Range(POLICIES) /\ schema.rls = Range(RLS_TABLES)
      BY <2>2, NothingLater DEF ToCome, SchemaOK
    <2>8. QED
      BY <2>3, <2>4, <2>5, <2>6, <2>7
  <1>3. QED
    BY <1>2 DEF EndsComplete

\* A run that ended over two skills of one name: they are still there; and a run that
\* ended is not through.
UInv == (failed = "unique" => SameNames) /\ (failed # "no" => ~Done)

LEMMA NamesStay ==
    ASSUME SameNames, NEW new, DOMAIN new \cap DOMAIN db = {}, db' = With(new)
    PROVE  SameNames'
  <1>1. PICK d, e : d = db /\ e = db'
    OBVIOUS
  <1>2. e = [z \in DOMAIN d \cup DOMAIN new |-> IF z \in DOMAIN new THEN new[z] ELSE d[z]]
    BY <1>1 DEF With
  <1>3. \A z \in DOMAIN d : z \in DOMAIN e /\ e[z] = d[z]
    BY <1>1, <1>2
  <1>4. PICK x \in RowsOf(d, "skills") : \E y \in RowsOf(d, "skills") :
          x # y /\ d[x].role = d[y].role /\ d[x].tenant = d[y].tenant
    BY <1>1 DEF SameNames
  <1>5. PICK y \in RowsOf(d, "skills") : x # y /\ d[x].role = d[y].role /\ d[x].tenant = d[y].tenant
    BY <1>4
  <1>6. x \in RowsOf(e, "skills") /\ y \in RowsOf(e, "skills") /\ e[x] = d[x] /\ e[y] = d[y]
    BY <1>3 DEF RowsOf
  <1>7. \E v, w \in RowsOf(e, "skills") : v # w /\ e[v].role = e[w].role /\ e[v].tenant = e[w].tenant
    BY <1>5, <1>6
  <1>8. QED
    BY <1>1, <1>7 DEF SameNames

LEMMA OldVersionNames == UInv /\ OldVersion => UInv'
  <1> SUFFICES ASSUME UInv, OldVersion PROVE UInv'
    OBVIOUS
  <1>1. failed' = failed /\ pc' = pc
    BY DEF OldVersion, OldUpload, OldStatusChange
  <1>2. \E new : DOMAIN new \cap DOMAIN db = {} /\ db' = With(new)
    <2>1. ASSUME NEW j, NEW c, OldUpload(j, c) PROVE \E new : DOMAIN new \cap DOMAIN db = {} /\ db' = With(new)
      <3>1. PICK a \in FreshId(LiveIds) : \E r \in FreshId(LiveIds \ {a}) :
              \E new \in {[x \in {a, r} |-> IF x = a THEN Row("applications", j, c, NULL)
                                                    ELSE Row("resumes", NULL, c, NULL)]} :
                  db' = With(new)
        BY <2>1 DEF OldUpload
      <3>2. PICK r \in FreshId(LiveIds \ {a}) :
              \E new \in {[x \in {a, r} |-> IF x = a THEN Row("applications", j, c, NULL)
                                                    ELSE Row("resumes", NULL, c, NULL)]} :
                  db' = With(new)
        BY <3>1
      <3>3. PICK new : /\ new = [x \in {a, r} |-> IF x = a THEN Row("applications", j, c, NULL)
                                                  ELSE Row("resumes", NULL, c, NULL)]
                       /\ db' = With(new)
        BY <3>2
      <3>4. DOMAIN new = {a, r} /\ a \notin DOMAIN db /\ r \notin DOMAIN db
        BY <3>3, FreshOnes
      <3>5. QED
        BY <3>3, <3>4
    <2>2. ASSUME NEW a, OldStatusChange(a) PROVE \E new : DOMAIN new \cap DOMAIN db = {} /\ db' = With(new)
      <3>1. PICK h \in FreshId(LiveIds) : \E row \in {Row("status_history", a, NULL, NULL)} :
              db' = With([x \in {h} |-> row])
        BY <2>2 DEF OldStatusChange
      <3>2. PICK new : new = [x \in {h} |-> Row("status_history", a, NULL, NULL)] /\ db' = With(new)
        BY <3>1
      <3>3. DOMAIN new = {h} /\ h \notin DOMAIN db
        BY <3>2, FreshOnes
      <3>4. QED
        BY <3>2, <3>3
    <2>3. QED
      BY <2>1, <2>2 DEF OldVersion
  <1>3. PICK new : DOMAIN new \cap DOMAIN db = {} /\ db' = With(new)
    BY <1>2
  <1>4. SameNames => SameNames'
    BY <1>3, NamesStay
  <1>5. QED
    BY <1>1, <1>4 DEF UInv, Done

LEMMA UpgradeNames == UInv /\ (Upgrade \/ LockTimeout \/ Killed) => UInv'
  <1> SUFFICES ASSUME UInv, Upgrade \/ LockTimeout \/ Killed PROVE UInv'
    OBVIOUS
  <1>1. CASE \E why \in {"duplicate", "check", "lock", "killed"} : Raise(why) /\ Running
    BY <1>1 DEF UInv, Raise, Running, Done
  <1>2. CASE IndexFails
    <2>1. failed' = "unique" /\ pc' = pc /\ ~Done /\ SameNames /\ db' = db
      BY <1>2 DEF IndexFails, At, Running, Raise
    <2>2. SameNames'
      BY <2>1 DEF SameNames
    <2>3. QED
      BY <2>1, <2>2 DEF UInv, Done
  <1>3. CASE failed = "no" /\ failed' = "no"
    BY <1>3 DEF UInv
  <1>4. ASSUME Upgrade
        PROVE  \/ \E why \in {"duplicate", "check", "lock", "killed"} : Raise(why) /\ Running
               \/ IndexFails
               \/ failed = "no" /\ failed' = "no"
    <2>1. CASE AddColumn \/ DropCheck \/ SetNotNull \/ DropPolicy \/ EnableRls \/ ForeignKey
      BY <2>1 DEF AddColumn, DropCheck, SetNotNull, DropPolicy, EnableRls, ForeignKey, At, Running, book
    <2>2. CASE AddCheck \/ ValidateCheck \/ CreatePolicy
      BY <2>2 DEF AddCheck, ValidateCheck, CreatePolicy, At, Running, book
    <2>3. CASE Backfill \/ DefaultTenant \/ BackfillOrphans \/ Index
      BY <2>3 DEF Backfill, DefaultTenant, BackfillOrphans, Index, At, Running, book
    <2>4. QED
      BY <1>4, <2>1, <2>2, <2>3 DEF Upgrade
  <1>5. ASSUME LockTimeout \/ Killed
        PROVE  \/ \E why \in {"duplicate", "check", "lock", "killed"} : Raise(why) /\ Running
               \/ failed = "no" /\ failed' = "no"
    BY <1>5 DEF LockTimeout, Locking, Killed, Running, book
  <1>6. QED
    BY <1>1, <1>2, <1>3, <1>4, <1>5

LEMMA NamesSteps == UInv /\ [MigrationNext]_migrationVars => UInv'
  <1> SUFFICES ASSUME UInv, [MigrationNext]_migrationVars PROVE UInv'
    OBVIOUS
  <1>1. CASE Rerun
    BY <1>1 DEF Rerun, UInv
  <1>2. CASE Request
    BY <1>2 DEF Request, UInv, Done
  <1>3. CASE UNCHANGED migrationVars
    BY <1>3 DEF migrationVars, UInv, Done, SameNames
  <1>4. QED
    BY <1>1, <1>2, <1>3, UpgradeNames, OldVersionNames DEF MigrationNext

LEMMA NamesAtFirst == MigrationInit => UInv
  BY DEF MigrationInit, UInv

LEMMA NotBlocked == MInv /\ UInv => MigrationSound
  <1> SUFFICES ASSUME MInv, UInv PROVE MigrationSound
    OBVIOUS
  <1>1. NeverBlocked
    BY DEF MInv, RunOK, UInv, NeverBlocked
  <1>2. QED
    BY <1>1, AtTheEnd DEF MigrationSound

\* However often the migration was cut off, and whatever the old version wrote
\* meanwhile, a migration that reaches its end is complete, and no run is blocked by
\* what an earlier one left.
THEOREM MigrationIsSound == MigrationSpec => []MigrationSound
  <1>1. MigrationSpec => []UInv
    BY NamesAtFirst, NamesSteps, PTL DEF MigrationSpec
  <1>2. QED
    BY <1>1, MigrationInvariant, NotBlocked, PTL

(***************************************************************************)
(* Where the rows go                                                       *)
(***************************************************************************)

\* The tables whose rows belong to the organisation of the row they refer to.
Dependent == {"applications", "interviews", "status_history", "interview_question_sets", "interview_questions"}

AllKeys(d) == \A x \in DOMAIN d : Keys(d, d[x])

\* The rows of the old version are of these tables, and its applications, like those of
\* the new one, come after the ones before the migration.
Written(d, w) ==
    /\ w \subseteq DOMAIN d
    /\ \A x \in w : d[x].table \in {"applications", "resumes", "status_history"}
    /\ \A x \in RowsOf(d, "applications") : IF x \in w \cup NewIds THEN d[x].at = 9 ELSE d[x].at < 9

\* a is the oldest application of the candidate c, and from before the migration.
IsFirst(d, a, c) ==
    /\ a \in RowsOf(d, "applications") /\ d[a].cand = c /\ d[a].at < 9
    /\ \A b \in RowsOf(d, "applications") : d[b].cand = c => d[a].at <= d[b].at

OneFirst(d) ==
    \A x, y \in RowsOf(d, "applications") :
        d[x].cand = d[y].cand /\ d[x].at = d[y].at /\ d[x].at < 9 => x = y

\* The company of the default organisation.
IsDefault(d, c) == c \in RowsOf(d, "companies") /\ d[c].role = "default"

\* v is a right organisation for the row x.
Home(d, w, x, v) ==
    /\ d[x].table = "users" => d[x].role # "Candidate" /\
          \E c \in RowsOf(d, "companies") : v = c /\ (d[c].up = x \/ d[c].role = "default")
    /\ d[x].table # "skills"
    /\ d[x].table = "jobs" /\ d[x].company # NULL => v = d[x].company
    /\ d[x].table = "jobs" /\ d[x].company = NULL /\ d[d[x].up].role # "Candidate" => v = d[d[x].up].tenant
    /\ d[x].table \in Dependent /\ x \notin w /\ d[x].up \notin w => v = d[d[x].up].tenant
    /\ d[x].table = "resumes" /\ x \notin w \cup NewIds =>
          \A a \in DOMAIN d : IsFirst(d, a, d[x].cand) => v = d[a].tenant

Placed(d, w) == \A x \in DOMAIN d : d[x].tenant # NULL => Home(d, w, x, d[x].tenant)

\* Nothing tells the organisation of the row.
Stray(d, w, x) ==
    /\ d[x].table = "jobs" => d[x].company = NULL /\ d[d[x].up].role = "Candidate"
    /\ d[x].table \in Dependent => d[x].up \in w
    /\ d[x].table = "resumes" => \A a \in DOMAIN d : ~IsFirst(d, a, d[x].cand)

\* The backfill of the table ended before position k.
Backfilled(t, k) == \E l \in 1..140 : l < k /\ Script[l].op = "backfill" /\ Script[l].table = t

\* What the statements before position k have done for the rows that the old version
\* has not written meanwhile.
Provided(d, w, k) ==
    \A x \in DOMAIN d \ w :
        d[x].tenant = NULL =>
            /\ d[x].table \in Operational => ~Settled(d[x].table, k)
            /\ d[x].table = "users" /\ d[x].role # "Candidate" => ~Settled("users", k)
            /\ d[x].table \in Operational /\ Backfilled(d[x].table, k) => Stray(d, w, x)

\* The default organisation.
Defaults(d, c) ==
    /\ \A x, y \in DOMAIN d : IsDefault(d, x) /\ IsDefault(d, y) => x = y
    /\ c # NULL => IsDefault(d, c)
    /\ \/ \E x \in DOMAIN d : IsDefault(d, x)
       \/ \E x \in DefaultIds : x \notin DOMAIN d \cup LiveIds \cup NewIds

NInv ==
    /\ AllKeys(db) /\ Written(db, live) /\ OneFirst(db)
    /\ Placed(db, live) /\ Provided(db, live, pc) /\ Defaults(db, run.dflt)

\* The run and the schema.
TInv ==
    /\ run.attempt \in 1..MaxLockAttempts /\ crashes \in 0..MaxCrashes
    /\ schema.fkValid \subseteq schema.fk /\ schema.indexValid \subseteq schema.index
    /\ pc # 141 /\ Script[pc].op = "fk_validate" => Script[pc].table \in schema.fk
    /\ run.building => pc # 141 /\ Script[pc].op = "index" /\ Script[pc].table \in schema.index

LEMMA ParentTables ==
    /\ Parents[1] = "users" /\ Parents[2] = "jobs" /\ Parents[3] = "applications"
    /\ Parents[4] = "resumes" /\ Parents[5] = "interviews" /\ Parents[6] = "status_history"
    /\ Parents[7] = "interview_question_sets" /\ Parents[8] = "interview_questions"
  <1>1. \A i \in 1..7 : Parents[1 + i] = TENANT_TABLES[i]
    BY TableLists DEF Joins
  <1>2. /\ Parents[1 + 1] = TENANT_TABLES[1] /\ Parents[1 + 2] = TENANT_TABLES[2]
        /\ Parents[1 + 3] = TENANT_TABLES[3] /\ Parents[1 + 4] = TENANT_TABLES[4]
        /\ Parents[1 + 5] = TENANT_TABLES[5] /\ Parents[1 + 6] = TENANT_TABLES[6]
        /\ Parents[1 + 7] = TENANT_TABLES[7]
    BY <1>1
  <1>3. /\ TENANT_TABLES[1] = "jobs" /\ TENANT_TABLES[2] = "applications" /\ TENANT_TABLES[3] = "resumes"
        /\ TENANT_TABLES[4] = "interviews" /\ TENANT_TABLES[5] = "status_history"
        /\ TENANT_TABLES[6] = "interview_question_sets" /\ TENANT_TABLES[7] = "interview_questions"
    BY DEF TENANT_TABLES
  <1>4. Parents[1] = <<"users">>[1]
    BY TableLists DEF Joins
  <1>5. <<"users">>[1] = "users"
    OBVIOUS
  <1>6. QED
    BY <1>2, <1>3, <1>4, <1>5

LEMMA OperationalTables ==
    Operational = {"jobs", "applications", "resumes", "interviews", "status_history",
                   "interview_question_sets", "interview_questions"}
  <1>1. /\ TENANT_TABLES[1] = "jobs" /\ TENANT_TABLES[2] = "applications" /\ TENANT_TABLES[3] = "resumes"
        /\ TENANT_TABLES[4] = "interviews" /\ TENANT_TABLES[5] = "status_history"
        /\ TENANT_TABLES[6] = "interview_question_sets" /\ TENANT_TABLES[7] = "interview_questions"
    BY DEF TENANT_TABLES
  <1>2. \A i \in 1..7 : i = 1 \/ i = 2 \/ i = 3 \/ i = 4 \/ i = 5 \/ i = 6 \/ i = 7
    OBVIOUS
  <1>3. QED
    BY <1>1, <1>2, Ranges

LEMMA OrphansAt ==
    ASSUME NEW i \in 1..8, NEW k \in 1..141, 9 + 2 * i < k
    PROVE  Settled(Parents[i], k)
  <1>1. PICK l \in 1..140 : l = 9 + 2 * i
    OBVIOUS
  <1>2. Script[l] = Stmt("orphans", Parents[i])
    BY <1>1, ScriptShape DEF ScriptIs
  <1>3. Script[l].op = "orphans" /\ Script[l].table = Parents[i]
    BY <1>2 DEF Stmt
  <1>4. QED
    BY <1>1, <1>3 DEF Settled

LEMMA BackfillAt ==
    ASSUME NEW k \in 1..140, Script[k].op = "backfill"
    PROVE  \E i \in 1..8 : k = 8 + 2 * i /\ Script[k].table = Parents[i]
  <1>1. Named(k)
    BY AllNamed
  <1>2. QED
    BY <1>1 DEF Named

\* The rows another table refers to have been looked after before its backfill.
LEMMA ParentsFirst ==
    ASSUME NEW k \in 1..140, Script[k].op = "backfill"
    PROVE  /\ Script[k].table \in Operational \cup {"users"}
           /\ Script[k].table = "jobs" => Settled("users", k)
           /\ Script[k].table = "applications" => Settled("jobs", k)
           /\ Script[k].table \in {"resumes", "interviews", "status_history", "interview_question_sets"} =>
                 Settled("applications", k)
           /\ Script[k].table = "interview_questions" => Settled("interview_question_sets", k)
  <1>1. PICK i \in 1..8 : k = 8 + 2 * i /\ Script[k].table = Parents[i]
    BY BackfillAt
  <1>2. ASSUME NEW j \in 1..8, j < i PROVE Settled(Parents[j], k)
    <2>1. 9 + 2 * j < k /\ k \in 1..141
      BY <1>1, <1>2
    <2>2. QED
      BY <2>1, OrphansAt
  <1>3. i = 1 \/ i = 2 \/ i = 3 \/ i = 4 \/ i = 5 \/ i = 6 \/ i = 7 \/ i = 8
    OBVIOUS
  <1>4. CASE i = 1
    BY <1>1, <1>4, ParentTables
  <1>5. CASE i = 2
    BY <1>1, <1>2, <1>5, ParentTables, OperationalTables
  <1>6. CASE i = 3
    BY <1>1, <1>2, <1>6, ParentTables, OperationalTables
  <1>7. CASE i \in {4, 5, 6, 7}
    <2>1. Settled("applications", k)
      BY <1>2, <1>7, ParentTables
    <2>2. Script[k].table \in {"resumes", "interviews", "status_history", "interview_question_sets"}
      BY <1>1, <1>7, ParentTables
    <2>3. QED
      BY <2>1, <2>2, OperationalTables
  <1>8. CASE i = 8
    BY <1>1, <1>2, <1>8, ParentTables, OperationalTables
  <1>9. QED
    BY <1>3, <1>4, <1>5, <1>6, <1>7, <1>8

LEMMA BackfillFirst ==
    ASSUME NEW k \in 1..140, Script[k].op = "orphans"
    PROVE  Backfilled(Script[k].table, k) /\ Script[k].table \in Operational \cup {"users"}
  <1>1. PICK i \in 1..8 : k = 9 + 2 * i /\ Script[k].table = Parents[i]
    BY WhereIs
  <1>2. PICK l \in 1..140 : l = 8 + 2 * i
    OBVIOUS
  <1>3. Script[l] = Stmt("backfill", Parents[i])
    BY <1>2, ScriptShape DEF ScriptIs
  <1>4. Script[l].op = "backfill" /\ Script[l].table = Parents[i] /\ l < k
    <2>1. Script[l].op = "backfill" /\ Script[l].table = Parents[i]
      BY <1>3 DEF Stmt
    <2>2. QED
      BY <1>1, <1>2, <2>1
  <1>5. Backfilled(Script[k].table, k)
    BY <1>1, <1>4 DEF Backfilled
  <1>6. i = 1 \/ i = 2 \/ i = 3 \/ i = 4 \/ i = 5 \/ i = 6 \/ i = 7 \/ i = 8
    OBVIOUS
  <1>7. Script[k].table \in Operational \cup {"users"}
    BY <1>1, <1>6, ParentTables, OperationalTables
  <1>8. QED
    BY <1>5, <1>7

LEMMA AllSettled == \A t \in Operational \cup {"users"} : Settled(t, 141)
  <1>1. ASSUME NEW i \in 1..8 PROVE Settled(Parents[i], 141)
    <2>1. 9 + 2 * i < 141 /\ 141 \in 1..141
      OBVIOUS
    <2>2. QED
      BY <2>1, OrphansAt
  <1>2. /\ Settled(Parents[1], 141) /\ Settled(Parents[2], 141) /\ Settled(Parents[3], 141)
        /\ Settled(Parents[4], 141) /\ Settled(Parents[5], 141) /\ Settled(Parents[6], 141)
        /\ Settled(Parents[7], 141) /\ Settled(Parents[8], 141)
    BY <1>1
  <1>3. QED
    BY <1>2, ParentTables, OperationalTables

\* Only a backfill makes a table one that was backfilled.
LEMMA Backfilling ==
    ASSUME NEW k \in 1..140, NEW t, Backfilled(t, k + 1)
    PROVE  Backfilled(t, k) \/ (Script[k].op = "backfill" /\ t = Script[k].table)
  <1>1. PICK l \in 1..140 : l < k + 1 /\ Script[l].op = "backfill" /\ Script[l].table = t
    BY DEF Backfilled
  <1>2. l = k \/ l < k
    BY <1>1
  <1>3. QED
    BY <1>1, <1>2 DEF Backfilled

LEMMA NothingBackfilled == \A t : ~Backfilled(t, 1)
  <1>1. \A l \in 1..140 : ~(l < 1)
    OBVIOUS
  <1>2. QED
    BY <1>1 DEF Backfilled

(***************************************************************************)
(* Rows that get a tenant                                                  *)
(***************************************************************************)

\* In e the rows b, which had no tenant in d, have that of f; all else is the same.
Retenanted(d, e, b, f) ==
    /\ DOMAIN e = DOMAIN d
    /\ \A x \in DOMAIN d :
          /\ e[x].table = d[x].table /\ e[x].up = d[x].up /\ e[x].cand = d[x].cand
          /\ e[x].company = d[x].company /\ e[x].at = d[x].at /\ e[x].role = d[x].role
          /\ e[x].tenant = (IF x \in b THEN f[x] ELSE d[x].tenant)
          /\ x \in b => d[x].tenant = NULL

LEMMA Retenants ==
    ASSUME NEW d, Rows(d), NEW b, \A x \in b : x \in DOMAIN d => d[x].tenant = NULL, NEW f,
           NEW e, e = [x \in DOMAIN d |-> IF x \in b THEN [d[x] EXCEPT !.tenant = f[x]] ELSE d[x]]
    PROVE  Retenanted(d, e, b, f)
  <1>1. ASSUME NEW x \in DOMAIN d
        PROVE  /\ e[x].table = d[x].table /\ e[x].up = d[x].up /\ e[x].cand = d[x].cand
               /\ e[x].company = d[x].company /\ e[x].at = d[x].at /\ e[x].role = d[x].role
               /\ e[x].tenant = (IF x \in b THEN f[x] ELSE d[x].tenant)
    <2>1. CASE x \notin b
      BY <2>1
    <2>2. CASE x \in b
      <3>1. e[x] = [d[x] EXCEPT !.tenant = f[x]]
        BY <2>2
      <3>2. PICK r : r = d[x]
        OBVIOUS
      <3>3. r = [table |-> r.table, up |-> r.up, cand |-> r.cand, company |-> r.company,
                 at |-> r.at, role |-> r.role, tenant |-> r.tenant]
        BY <3>2 DEF Rows, IsRow
      <3>4. e[x] = [table |-> r.table, up |-> r.up, cand |-> r.cand, company |-> r.company,
                    at |-> r.at, role |-> r.role, tenant |-> f[x]]
        BY <3>1, <3>2, <3>3
      <3>5. QED
        BY <2>2, <3>2, <3>4
    <2>3. QED
      BY <2>1, <2>2
  <1>2. QED
    BY <1>1 DEF Retenanted

LEMMA SameTables ==
    ASSUME NEW d, NEW e, NEW b, NEW f, Retenanted(d, e, b, f)
    PROVE  /\ \A t : RowsOf(e, t) = RowsOf(d, t)
           /\ \A a, c : IsFirst(e, a, c) <=> IsFirst(d, a, c)
           /\ \A c : IsDefault(e, c) <=> IsDefault(d, c)
  <1>1. \A t : RowsOf(e, t) = RowsOf(d, t)
    BY DEF Retenanted, RowsOf
  <1>2. \A x \in RowsOf(d, "applications") : e[x].cand = d[x].cand /\ e[x].at = d[x].at
    BY DEF Retenanted, RowsOf
  <1>3. \A x \in RowsOf(d, "companies") : e[x].role = d[x].role
    BY DEF Retenanted, RowsOf
  <1>4. \A a, c : IsFirst(e, a, c) <=> IsFirst(d, a, c)
    BY <1>1, <1>2 DEF IsFirst
  <1>5. QED
    BY <1>1, <1>3, <1>4 DEF IsDefault

LEMMA RetenantedKeys ==
    ASSUME NEW d, NEW e, NEW b, NEW f, Retenanted(d, e, b, f), AllKeys(d),
           \A x \in b : f[x] \in RowsOf(d, "companies") \cup {NULL}
    PROVE  AllKeys(e)
  <1> SUFFICES ASSUME NEW x \in DOMAIN e PROVE Keys(e, e[x])
    BY DEF AllKeys
  <1>1. x \in DOMAIN d /\ Keys(d, d[x])
    BY DEF AllKeys, Retenanted
  <1>2. e[x].tenant \in RowsOf(d, "companies") \cup {NULL}
    BY <1>1 DEF Retenanted, Keys
  <1>3. e[x].table = d[x].table /\ e[x].up = d[x].up /\ e[x].company = d[x].company /\ e[x].at = d[x].at
    BY <1>1 DEF Retenanted
  <1>4. QED
    BY <1>1, <1>2, <1>3, SameTables DEF Keys

LEMMA RetenantedWritten ==
    ASSUME NEW d, NEW e, NEW b, NEW f, Retenanted(d, e, b, f), NEW w, Written(d, w), OneFirst(d)
    PROVE  Written(e, w) /\ OneFirst(e)
  <1>1. RowsOf(e, "applications") = RowsOf(d, "applications")
    BY SameTables
  <1>2. \A x \in RowsOf(d, "applications") : e[x].cand = d[x].cand /\ e[x].at = d[x].at
    BY DEF Retenanted, RowsOf
  <1>3. OneFirst(e)
    BY <1>1, <1>2 DEF OneFirst
  <1>4. w \subseteq DOMAIN e /\ \A x \in w : e[x].table = d[x].table
    BY DEF Written, Retenanted
  <1>5. QED
    BY <1>1, <1>2, <1>3, <1>4 DEF Written

LEMMA References ==
    ASSUME NEW d, AllKeys(d), NEW x \in DOMAIN d
    PROVE  /\ d[x].table \in Dependent \cup {"jobs"} => d[x].up \in DOMAIN d
           /\ d[x].tenant \in RowsOf(d, "companies") \cup {NULL}
  <1>1. Keys(d, d[x])
    BY DEF AllKeys
  <1>2. \A t : RowsOf(d, t) \subseteq DOMAIN d
    BY DEF RowsOf
  <1>3. QED
    BY <1>1, <1>2 DEF Keys, Dependent

\* A right organisation stays right: the rows it comes from had it already.
LEMMA RetenantedHome ==
    ASSUME NEW d, NEW e, NEW b, NEW f, Retenanted(d, e, b, f), AllKeys(d), NEW w,
           NEW x \in DOMAIN d, NEW v, v # NULL, Home(d, w, x, v)
    PROVE  Home(e, w, x, v)
  <1>1. \A y \in DOMAIN d : v = d[y].tenant => v = e[y].tenant
    BY DEF Retenanted
  <1>2. /\ e[x].table = d[x].table /\ e[x].up = d[x].up /\ e[x].company = d[x].company
        /\ e[x].cand = d[x].cand /\ e[x].role = d[x].role
    BY DEF Retenanted
  <1>3. d[x].table = "users" => d[x].role # "Candidate" /\
          \E c \in RowsOf(e, "companies") : v = c /\ (e[c].up = x \/ e[c].role = "default")
    <2>1. \A c \in RowsOf(d, "companies") : e[c].up = d[c].up /\ e[c].role = d[c].role
      BY DEF Retenanted, RowsOf
    <2>2. QED
      BY <2>1, SameTables DEF Home
  <1>4. d[x].table = "jobs" /\ d[x].company = NULL /\ e[d[x].up].role # "Candidate" => v = e[d[x].up].tenant
    <2>1. HAVE d[x].table = "jobs" /\ d[x].company = NULL /\ e[d[x].up].role # "Candidate"
    <2>2. d[x].up \in DOMAIN d
      BY <2>1, References
    <2>3. d[d[x].up].role # "Candidate"
      BY <2>1, <2>2 DEF Retenanted
    <2>4. QED
      BY <1>1, <2>1, <2>2, <2>3 DEF Home
  <1>5. d[x].table \in Dependent /\ x \notin w /\ d[x].up \notin w => v = e[d[x].up].tenant
    <2>1. HAVE d[x].table \in Dependent /\ x \notin w /\ d[x].up \notin w
    <2>2. d[x].up \in DOMAIN d
      BY <2>1, References
    <2>3. QED
      BY <1>1, <2>1, <2>2 DEF Home
  <1>6. d[x].table = "resumes" /\ x \notin w \cup NewIds =>
          \A a \in DOMAIN e : IsFirst(e, a, d[x].cand) => v = e[a].tenant
    <2>1. HAVE d[x].table = "resumes" /\ x \notin w \cup NewIds
    <2>2. TAKE a \in DOMAIN e
    <2>3. HAVE IsFirst(e, a, d[x].cand)
    <2>4. a \in DOMAIN d /\ IsFirst(d, a, d[x].cand)
      <3>1. a \in DOMAIN d
        BY DEF Retenanted
      <3>2. \A c : IsFirst(e, a, c) <=> IsFirst(d, a, c)
        BY SameTables
      <3>3. QED
        BY <2>3, <3>1, <3>2
    <2>5. QED
      BY <1>1, <2>1, <2>4 DEF Home
  <1>7. d[x].table # "skills" /\ (d[x].table = "jobs" /\ d[x].company # NULL => v = d[x].company)
    BY DEF Home
  <1>8. QED
    BY <1>2, <1>3, <1>4, <1>5, <1>6, <1>7 DEF Home

LEMMA RetenantedPlaced ==
    ASSUME NEW d, NEW e, NEW b, NEW f, Retenanted(d, e, b, f), AllKeys(d), NEW w, Placed(d, w),
           \A x \in b : x \in DOMAIN d /\ f[x] # NULL => Home(d, w, x, f[x])
    PROVE  Placed(e, w)
  <1> SUFFICES ASSUME NEW x \in DOMAIN e, e[x].tenant # NULL PROVE Home(e, w, x, e[x].tenant)
    BY DEF Placed
  <1>1. x \in DOMAIN d
    BY DEF Retenanted
  <1>2. Home(d, w, x, e[x].tenant)
    <2>1. CASE x \in b
      BY <1>1, <2>1 DEF Retenanted
    <2>2. CASE x \notin b
      BY <1>1, <2>2 DEF Retenanted, Placed
    <2>3. QED
      BY <2>1, <2>2
  <1>3. QED
    BY <1>1, <1>2, RetenantedHome

LEMMA RetenantedStray ==
    ASSUME NEW d, NEW e, NEW b, NEW f, Retenanted(d, e, b, f), AllKeys(d), NEW w,
           NEW x \in DOMAIN d, Stray(d, w, x)
    PROVE  Stray(e, w, x)
  <1>1. e[x].table = d[x].table /\ e[x].up = d[x].up /\ e[x].company = d[x].company /\ e[x].cand = d[x].cand
    BY DEF Retenanted
  <1>2. d[x].table = "jobs" => e[d[x].up].role = "Candidate"
    <2>1. HAVE d[x].table = "jobs"
    <2>2. d[x].up \in DOMAIN d
      BY <2>1, References
    <2>3. QED
      BY <2>1, <2>2 DEF Retenanted, Stray
  <1>3. d[x].table = "resumes" => \A a \in DOMAIN e : ~IsFirst(e, a, d[x].cand)
    <2>1. DOMAIN e = DOMAIN d
      BY DEF Retenanted
    <2>2. \A a, c : IsFirst(e, a, c) <=> IsFirst(d, a, c)
      BY SameTables
    <2>3. d[x].table = "resumes" => \A a \in DOMAIN d : ~IsFirst(d, a, d[x].cand)
      BY DEF Stray
    <2>4. QED
      BY <2>1, <2>2, <2>3
  <1>4. (d[x].table = "jobs" => d[x].company = NULL) /\ (d[x].table \in Dependent => d[x].up \in w)
    BY DEF Stray
  <1>5. QED
    BY <1>1, <1>2, <1>3, <1>4 DEF Stray

LEMMA RetenantedProvided ==
    ASSUME NEW d, NEW e, NEW b, NEW f, Retenanted(d, e, b, f), AllKeys(d), NEW w, NEW k, Provided(d, w, k)
    PROVE  Provided(e, w, k)
  <1> SUFFICES ASSUME NEW x \in DOMAIN e \ w, e[x].tenant = NULL
               PROVE  /\ e[x].table \in Operational => ~Settled(e[x].table, k)
                      /\ e[x].table = "users" /\ e[x].role # "Candidate" => ~Settled("users", k)
                      /\ e[x].table \in Operational /\ Backfilled(e[x].table, k) => Stray(e, w, x)
    BY DEF Provided
  <1>1. x \in DOMAIN d \ w /\ e[x].table = d[x].table /\ e[x].role = d[x].role /\ d[x].tenant = NULL
    BY DEF Retenanted
  <1>2. d[x].table \in Operational /\ Backfilled(d[x].table, k) => Stray(e, w, x)
    BY <1>1, RetenantedStray DEF Provided
  <1>3. QED
    BY <1>1, <1>2 DEF Provided

LEMMA RetenantedDefaults ==
    ASSUME NEW d, NEW e, NEW b, NEW f, Retenanted(d, e, b, f), NEW c, Defaults(d, c)
    PROVE  Defaults(e, c)
  <1>1. DOMAIN e = DOMAIN d
    BY DEF Retenanted
  <1>2. QED
    BY <1>1, SameTables DEF Defaults

(***************************************************************************)
(* Rows that are added                                                     *)
(***************************************************************************)

\* e has the rows of d, and its other applications come after those before the migration.
Extended(d, e) ==
    /\ DOMAIN d \subseteq DOMAIN e /\ \A x \in DOMAIN d : e[x] = d[x]
    /\ \A x \in DOMAIN e \ DOMAIN d : e[x].table = "applications" => e[x].at = 9

LEMMA MoreRows ==
    ASSUME NEW d, NEW e, Extended(d, e)
    PROVE  \A t : RowsOf(d, t) \subseteq RowsOf(e, t) /\ \A x \in DOMAIN d : x \in RowsOf(e, t) => x \in RowsOf(d, t)
  BY DEF Extended, RowsOf

LEMMA MoreKeys ==
    ASSUME NEW d, NEW e, Extended(d, e), NEW r, Keys(d, r)
    PROVE  Keys(e, r)
  BY MoreRows DEF Keys

LEMMA ExtendedKeys ==
    ASSUME NEW d, NEW e, Extended(d, e), AllKeys(d), \A x \in DOMAIN e \ DOMAIN d : Keys(e, e[x])
    PROVE  AllKeys(e)
  <1> SUFFICES ASSUME NEW x \in DOMAIN e PROVE Keys(e, e[x])
    BY DEF AllKeys
  <1>1. CASE x \in DOMAIN d
    <2>1. Keys(d, d[x]) /\ e[x] = d[x]
      BY <1>1 DEF AllKeys, Extended
    <2>2. QED
      BY <2>1, MoreKeys
  <1>2. QED
    BY <1>1

LEMMA ExtendedFirst ==
    ASSUME NEW d, NEW e, Extended(d, e), AllKeys(d), NEW a, NEW c
    PROVE  IsFirst(e, a, c) <=> IsFirst(d, a, c)
  <1>1. ASSUME NEW x \in RowsOf(e, "applications"), e[x].at < 9 PROVE x \in RowsOf(d, "applications") /\ e[x] = d[x]
    BY <1>1 DEF Extended, RowsOf
  <1>2. ASSUME NEW x \in RowsOf(d, "applications") PROVE x \in RowsOf(e, "applications") /\ e[x] = d[x] /\ d[x].at \in Nat
    <2>1. x \in DOMAIN d
      BY DEF RowsOf
    <2>2. d[x].at \in Nat
      BY <2>1 DEF AllKeys, Keys
    <2>3. QED
      BY <2>1, <2>2, MoreRows DEF Extended
  <1>3. ASSUME NEW x \in RowsOf(e, "applications") PROVE x \in RowsOf(d, "applications") \/ e[x].at = 9
    BY DEF Extended, RowsOf
  <1>4. ASSUME IsFirst(e, a, c) PROVE IsFirst(d, a, c)
    BY <1>1, <1>2, <1>4 DEF IsFirst
  <1>5. ASSUME IsFirst(d, a, c) PROVE IsFirst(e, a, c)
    <2>1. a \in RowsOf(e, "applications") /\ e[a] = d[a] /\ d[a].at \in Nat /\ d[a].at < 9 /\ d[a].cand = c
      BY <1>2, <1>5 DEF IsFirst
    <2>2. ASSUME NEW y \in RowsOf(e, "applications"), e[y].cand = c PROVE e[a].at <= e[y].at
      <3>1. CASE e[y].at = 9
        BY <2>1, <3>1
      <3>2. CASE y \in RowsOf(d, "applications")
        BY <1>2, <1>5, <2>1, <2>2, <3>2 DEF IsFirst
      <3>3. QED
        BY <1>3, <3>1, <3>2
    <2>3. QED
      BY <2>1, <2>2 DEF IsFirst
  <1>6. QED
    BY <1>4, <1>5

LEMMA ExtendedOne ==
    ASSUME NEW d, NEW e, Extended(d, e), OneFirst(d)
    PROVE  OneFirst(e)
  <1> SUFFICES ASSUME NEW x \in RowsOf(e, "applications"), NEW y \in RowsOf(e, "applications"),
                      e[x].cand = e[y].cand, e[x].at = e[y].at, e[x].at < 9
               PROVE  x = y
    BY DEF OneFirst
  <1>1. x \in RowsOf(d, "applications") /\ y \in RowsOf(d, "applications") /\ e[x] = d[x] /\ e[y] = d[y]
    BY DEF Extended, RowsOf
  <1>2. QED
    BY <1>1 DEF OneFirst

LEMMA ExtendedHome ==
    ASSUME NEW d, NEW e, Extended(d, e), AllKeys(d), NEW w, NEW u, u \cap DOMAIN d = w,
           NEW x \in DOMAIN d, NEW v, Home(d, w, x, v)
    PROVE  Home(e, u, x, v)
  <1>1. e[x] = d[x] /\ (x \in u <=> x \in w)
    BY DEF Extended
  <1>2. d[x].table = "users" => d[x].role # "Candidate" /\
          \E c \in RowsOf(e, "companies") : v = c /\ (e[c].up = x \/ e[c].role = "default")
    <2>1. \A c \in RowsOf(d, "companies") : c \in RowsOf(e, "companies") /\ e[c] = d[c]
      BY DEF Extended, RowsOf
    <2>2. QED
      BY <2>1 DEF Home
  <1>3. d[x].table \in Dependent \cup {"jobs"} => e[d[x].up] = d[d[x].up] /\ (d[x].up \in u <=> d[x].up \in w)
    BY References DEF Extended
  <1>4. d[x].table = "resumes" /\ x \notin u \cup NewIds =>
          \A a \in DOMAIN e : IsFirst(e, a, d[x].cand) => v = e[a].tenant
    <2>1. HAVE d[x].table = "resumes" /\ x \notin u \cup NewIds
    <2>2. TAKE a \in DOMAIN e
    <2>3. HAVE IsFirst(e, a, d[x].cand)
    <2>4. IsFirst(d, a, d[x].cand)
      BY <2>3, ExtendedFirst
    <2>5. a \in DOMAIN d
      BY <2>4 DEF IsFirst, RowsOf
    <2>6. e[a] = d[a] /\ x \notin w \cup NewIds
      BY <1>1, <2>1, <2>5 DEF Extended
    <2>7. QED
      BY <2>1, <2>4, <2>5, <2>6 DEF Home
  <1>5. d[x].table # "skills" /\ (d[x].table = "jobs" /\ d[x].company # NULL => v = d[x].company)
    BY DEF Home
  <1>6. d[x].table = "jobs" /\ d[x].company = NULL /\ e[d[x].up].role # "Candidate" => v = e[d[x].up].tenant
    BY <1>3 DEF Home
  <1>7. d[x].table \in Dependent /\ x \notin u /\ d[x].up \notin u => v = e[d[x].up].tenant
    BY <1>1, <1>3 DEF Home
  <1>8. QED
    BY <1>1, <1>2, <1>4, <1>5, <1>6, <1>7 DEF Home

LEMMA ExtendedPlaced ==
    ASSUME NEW d, NEW e, Extended(d, e), AllKeys(d), NEW w, NEW u, u \cap DOMAIN d = w, Placed(d, w),
           \A x \in DOMAIN e \ DOMAIN d : e[x].tenant # NULL => Home(e, u, x, e[x].tenant)
    PROVE  Placed(e, u)
  <1> SUFFICES ASSUME NEW x \in DOMAIN e, e[x].tenant # NULL PROVE Home(e, u, x, e[x].tenant)
    BY DEF Placed
  <1>1. CASE x \in DOMAIN d
    <2>1. e[x] = d[x] /\ Home(d, w, x, e[x].tenant)
      BY <1>1 DEF Extended, Placed
    <2>2. QED
      BY <1>1, <2>1, ExtendedHome
  <1>2. QED
    BY <1>1

LEMMA ExtendedStray ==
    ASSUME NEW d, NEW e, Extended(d, e), AllKeys(d), NEW w, NEW u, u \cap DOMAIN d = w,
           NEW x \in DOMAIN d, Stray(d, w, x)
    PROVE  Stray(e, u, x)
  <1>1. e[x] = d[x]
    BY DEF Extended
  <1>2. d[x].table \in Dependent \cup {"jobs"} => e[d[x].up] = d[d[x].up] /\ (d[x].up \in u <=> d[x].up \in w)
    BY References DEF Extended
  <1>3. d[x].table = "resumes" => \A a \in DOMAIN e : ~IsFirst(e, a, d[x].cand)
    <2>1. HAVE d[x].table = "resumes"
    <2>2. TAKE a \in DOMAIN e
    <2>3. SUFFICES ASSUME IsFirst(e, a, d[x].cand) PROVE FALSE
      OBVIOUS
    <2>4. IsFirst(d, a, d[x].cand)
      BY <2>3, ExtendedFirst
    <2>5. a \in DOMAIN d
      BY <2>4 DEF IsFirst, RowsOf
    <2>6. QED
      BY <2>1, <2>4, <2>5 DEF Stray
  <1>4. d[x].table = "jobs" => d[x].company = NULL /\ e[d[x].up].role = "Candidate"
    BY <1>2 DEF Stray
  <1>5. d[x].table \in Dependent => d[x].up \in u
    BY <1>2 DEF Stray
  <1>6. QED
    BY <1>1, <1>3, <1>4, <1>5 DEF Stray

LEMMA ExtendedProvided ==
    ASSUME NEW d, NEW e, Extended(d, e), AllKeys(d), NEW w, NEW u, u \cap DOMAIN d = w, NEW k, Provided(d, w, k),
           \A x \in (DOMAIN e \ DOMAIN d) \ u : e[x].tenant # NULL \/ e[x].table \notin Operational \cup {"users"}
    PROVE  Provided(e, u, k)
  <1> SUFFICES ASSUME NEW x \in DOMAIN e \ u, e[x].tenant = NULL
               PROVE  /\ e[x].table \in Operational => ~Settled(e[x].table, k)
                      /\ e[x].table = "users" /\ e[x].role # "Candidate" => ~Settled("users", k)
                      /\ e[x].table \in Operational /\ Backfilled(e[x].table, k) => Stray(e, u, x)
    BY DEF Provided
  <1>1. CASE x \in DOMAIN d
    <2>1. e[x] = d[x] /\ x \in DOMAIN d \ w
      BY <1>1 DEF Extended
    <2>2. d[x].table \in Operational /\ Backfilled(d[x].table, k) => Stray(e, u, x)
      BY <1>1, <2>1, ExtendedStray DEF Provided
    <2>3. QED
      BY <2>1, <2>2 DEF Provided
  <1>2. QED
    BY <1>1

LEMMA ExtendedDefaults ==
    ASSUME NEW d, NEW e, Extended(d, e), NEW c, Defaults(d, c),
           DOMAIN e \ DOMAIN d \subseteq LiveIds \cup NewIds,
           \A x \in DOMAIN e \ DOMAIN d : ~IsDefault(e, x)
    PROVE  Defaults(e, c)
  <1>1. \A x \in DOMAIN d : IsDefault(e, x) <=> IsDefault(d, x)
    BY DEF Extended, IsDefault, RowsOf
  <1>2. \A x : IsDefault(e, x) => x \in DOMAIN e
    BY DEF IsDefault, RowsOf
  <1>3. \A x : IsDefault(d, x) => x \in DOMAIN d
    BY DEF IsDefault, RowsOf
  <1>4. DOMAIN d \subseteq DOMAIN e
    BY DEF Extended
  <1>5. \A x, y \in DOMAIN e : IsDefault(e, x) /\ IsDefault(e, y) => x = y
    BY <1>1 DEF Defaults
  <1>6. c # NULL => IsDefault(e, c)
    BY <1>1, <1>3 DEF Defaults
  <1>7. CASE \E x \in DOMAIN d : IsDefault(d, x)
    BY <1>1, <1>4, <1>5, <1>6, <1>7 DEF Defaults
  <1>8. CASE \E x \in DefaultIds : x \notin DOMAIN d \cup LiveIds \cup NewIds
    <2>1. PICK x \in DefaultIds : x \notin DOMAIN d \cup LiveIds \cup NewIds
      BY <1>8
    <2>2. x \notin DOMAIN e \cup LiveIds \cup NewIds
      BY <2>1
    <2>3. QED
      BY <1>5, <1>6, <2>1, <2>2 DEF Defaults
  <1>9. QED
    BY <1>7, <1>8 DEF Defaults

-----------------------------------------------------------------------------
(* The oldest row *)

LEMMA OldestRow ==
    ASSUME NEW S, S \subseteq DOMAIN db, S # {}, AllKeys(db)
    PROVE  Oldest(S) \in S /\ \A y \in S : db[Oldest(S)].at <= db[y].at
  <1>1. \A y \in S : db[y].at \in Nat
    BY DEF AllKeys, Keys
  <1>2. PICK N : N = {db[y].at : y \in S}
    OBVIOUS
  <1>3. N \subseteq Nat /\ N # {}
    BY <1>1, <1>2
  <1>4. PICK n \in N : \A m \in N : n <= m
    BY <1>3, Least
  <1>5. \E x \in S : \A y \in S : db[x].at <= db[y].at
    BY <1>2, <1>4
  <1>6. QED
    BY <1>5 DEF Oldest

\* The tables of the rows of the old version.
LEMMA NotWritten ==
    ASSUME NInv, NEW x \in DOMAIN db, db[x].table \in {"users", "jobs"}
    PROVE  x \notin live
  BY DEF NInv, Written

\* A step that changes no row.
LEMMA RowsStay ==
    ASSUME NInv, UNCHANGED <<db, live>>, run'.dflt = run.dflt, Provided(db, live, pc')
    PROVE  NInv'
  <1>1. db' = db /\ live' = live
    OBVIOUS
  <1>2. QED
    BY <1>1 DEF NInv

LEMMA ProvidedOn ==
    ASSUME NEW d, NEW w, NEW k \in 1..140, Script[k].op \notin {"backfill", "orphans"}, Provided(d, w, k)
    PROVE  Provided(d, w, k + 1)
  <1>1. \A t : Settled(t, k + 1) => Settled(t, k)
    BY NotSettling
  <1>2. \A t : Backfilled(t, k + 1) => Backfilled(t, k)
    BY Backfilling
  <1>3. QED
    BY <1>1, <1>2 DEF Provided

\* A statement that changes the schema only.
LEMMA SchemaStays ==
    ASSUME MInv, NInv, Running, Advance, UNCHANGED <<db, book>>,
           Script[pc].op \notin {"backfill", "orphans"}
    PROVE  NInv'
  <1>1. pc \in 1..140 /\ pc' = pc + 1
    BY Position DEF MInv, Advance
  <1>2. run'.dflt = run.dflt
    BY DEF Advance, MInv, RunOK
  <1>3. Provided(db, live, pc + 1)
    BY <1>1, ProvidedOn DEF NInv
  <1>4. QED
    BY <1>1, <1>2, <1>3, RowsStay DEF book

\* An UPDATE of rows that have no tenant.
LEMMA UpdatePlaces ==
    ASSUME MInv, NInv, UNCHANGED <<pc, run, live>>, NEW b, NEW t, b \subseteq Untenanted(t), NEW f,
           db' = [x \in DOMAIN db |-> IF x \in b THEN [db[x] EXCEPT !.tenant = f[x]] ELSE db[x]],
           \A x \in b : f[x] \in RowsOf(db, "companies") \cup {NULL},
           \A x \in b : f[x] # NULL => Home(db, live, x, f[x])
    PROVE  NInv'
  <1>1. PICK d, e, w : d = db /\ e = db' /\ w = live
    OBVIOUS
  <1>2. \A x \in b : x \in DOMAIN d => d[x].tenant = NULL
    BY <1>1 DEF Untenanted
  <1>3. Rows(d)
    BY <1>1 DEF MInv
  <1>4. e = [x \in DOMAIN d |-> IF x \in b THEN [d[x] EXCEPT !.tenant = f[x]] ELSE d[x]]
    BY <1>1
  <1>5. Retenanted(d, e, b, f)
    BY <1>2, <1>3, <1>4, Retenants
  <1>6. /\ AllKeys(d) /\ Written(d, w) /\ OneFirst(d) /\ Placed(d, w)
        /\ Provided(d, w, pc) /\ Defaults(d, run.dflt)
    BY <1>1 DEF NInv
  <1>7. AllKeys(e)
    BY <1>1, <1>5, <1>6, RetenantedKeys
  <1>8. Written(e, w) /\ OneFirst(e)
    BY <1>5, <1>6, RetenantedWritten
  <1>9. Placed(e, w)
    BY <1>1, <1>5, <1>6, RetenantedPlaced
  <1>10. Provided(e, w, pc)
    BY <1>5, <1>6, RetenantedProvided
  <1>11. Defaults(e, run.dflt)
    BY <1>5, <1>6, RetenantedDefaults
  <1>12. pc' = pc /\ run' = run /\ live' = w /\ db' = e
    BY <1>1
  <1>13. QED
    BY <1>7, <1>8, <1>9, <1>10, <1>11, <1>12 DEF NInv

-----------------------------------------------------------------------------
(* The source queries *)

ApplicationsOf(x) == {a \in RowsOf(db, "applications") : db[a].cand = db[x].cand}

LEMMA NewTenantIs ==
    ASSUME NEW x
    PROVE  /\ db[x].table = "users" => NewTenant(x) = OwnedCompany(x)
           /\ db[x].table = "jobs" =>
                 NewTenant(x) = (IF db[x].company # NULL THEN db[x].company ELSE db[db[x].up].tenant)
           /\ db[x].table = "resumes" =>
                 NewTenant(x) = (IF ApplicationsOf(x) = {} THEN NULL ELSE db[Oldest(ApplicationsOf(x))].tenant)
           /\ db[x].table \in Dependent => NewTenant(x) = db[db[x].up].tenant
  <1>1. CASE db[x].table = "users"
    BY <1>1 DEF NewTenant, Dependent
  <1>2. CASE db[x].table = "jobs"
    BY <1>2 DEF NewTenant, Dependent
  <1>3. CASE db[x].table = "resumes"
    BY <1>3 DEF NewTenant, Dependent, ApplicationsOf
  <1>4. CASE db[x].table \notin {"users", "jobs", "resumes"}
    BY <1>4 DEF NewTenant
  <1>5. QED
    BY <1>1, <1>2, <1>3, <1>4 DEF Dependent

LEMMA SourceIs ==
    ASSUME NEW t, NEW x \in Untenanted(t)
    PROVE  /\ t = "users" => (x \in Source(t) <=> db[x].role # "Candidate" /\ NewTenant(x) # NULL)
           /\ t \in {"jobs", "applications"} => (x \in Source(t) <=> NewTenant(x) # NULL)
           /\ t = "resumes" => (x \in Source(t) <=> ApplicationsOf(x) # {})
           /\ t \in Dependent \ {"applications"} => (x \in Source(t) <=> db[x].up \in DOMAIN db)
  <1>1. CASE t = "users"
    BY <1>1 DEF Source, Dependent
  <1>2. CASE t \in {"jobs", "applications"}
    BY <1>2 DEF Source, Dependent
  <1>3. CASE t = "resumes"
    BY <1>3 DEF Source, Dependent, ApplicationsOf
  <1>4. CASE t \notin {"users", "jobs", "applications", "resumes"}
    BY <1>4 DEF Source
  <1>5. QED
    BY <1>1, <1>2, <1>3, <1>4 DEF Dependent

LEMMA FoundRows ==
    ASSUME NEW t, NEW x \in Untenanted(t)
    PROVE  x \in DOMAIN db /\ db[x].table = t /\ db[x].tenant = NULL
  BY DEF Untenanted, RowsOf

LEMMA OwnedIs ==
    ASSUME AllKeys(db), NEW x, OwnedCompany(x) # NULL
    PROVE  OwnedCompany(x) \in RowsOf(db, "companies") /\ db[OwnedCompany(x)].up = x
  <1>1. PICK own : own = {c \in RowsOf(db, "companies") : db[c].up = x}
    OBVIOUS
  <1>2. own # {} /\ OwnedCompany(x) = Oldest(own)
    BY <1>1 DEF OwnedCompany
  <1>3. own \subseteq DOMAIN db
    BY <1>1 DEF RowsOf
  <1>4. QED
    BY <1>1, <1>2, <1>3, OldestRow

LEMMA OldestApplication ==
    ASSUME AllKeys(db), NEW x, ApplicationsOf(x) # {}
    PROVE  /\ Oldest(ApplicationsOf(x)) \in ApplicationsOf(x)
           /\ \A y \in ApplicationsOf(x) : db[Oldest(ApplicationsOf(x))].at <= db[y].at
  <1>1. ApplicationsOf(x) \subseteq DOMAIN db
    BY DEF ApplicationsOf, RowsOf
  <1>2. QED
    BY <1>1, OldestRow

\* The oldest of all applications is the first of those before the migration.
LEMMA FirstIsOldest ==
    ASSUME AllKeys(db), OneFirst(db), NEW x, NEW a, IsFirst(db, a, db[x].cand)
    PROVE  ApplicationsOf(x) # {} /\ a = Oldest(ApplicationsOf(x))
  <1>1. a \in ApplicationsOf(x)
    BY DEF IsFirst, ApplicationsOf
  <1>2. PICK o : o = Oldest(ApplicationsOf(x))
    OBVIOUS
  <1>3. o \in ApplicationsOf(x) /\ db[o].at <= db[a].at
    BY <1>1, <1>2, OldestApplication
  <1>4. o \in RowsOf(db, "applications") /\ db[o].cand = db[x].cand /\ a \in RowsOf(db, "applications")
    BY <1>1, <1>3 DEF ApplicationsOf
  <1>5. db[a].at <= db[o].at /\ db[a].at < 9 /\ db[a].cand = db[x].cand
    BY <1>4 DEF IsFirst
  <1>6. db[o].at \in Nat /\ db[a].at \in Nat
    BY <1>4 DEF AllKeys, Keys, RowsOf
  <1>7. db[o].at = db[a].at
    BY <1>3, <1>5, <1>6
  <1>8. a = o
    BY <1>4, <1>5, <1>7 DEF OneFirst
  <1>9. QED
    BY <1>1, <1>2, <1>8

LEMMA DataStatement ==
    ASSUME MInv, Running, Script[pc].op \in {"backfill", "orphans"}
    PROVE  pc \in 1..140 /\ T \in Operational \cup {"users"}
  <1>1. pc \in 1..140
    BY Position DEF MInv
  <1>2. QED
    BY <1>1, ParentsFirst, BackfillFirst DEF T

\* The organisation a source query finds is a company, and the right one.
LEMMA NewTenantFits ==
    ASSUME NInv, NEW t \in Operational \cup {"users"}, NEW x \in Source(t)
    PROVE  /\ NewTenant(x) \in RowsOf(db, "companies") \cup {NULL}
           /\ NewTenant(x) # NULL => Home(db, live, x, NewTenant(x))
  <1>1. x \in Untenanted(t) /\ x \in DOMAIN db /\ db[x].table = t
    BY FoundRows DEF Source
  <1>2. AllKeys(db) /\ OneFirst(db)
    BY DEF NInv
  <1>3. Keys(db, db[x])
    BY <1>1, <1>2 DEF AllKeys
  <1>4. \A y \in DOMAIN db : db[y].tenant \in RowsOf(db, "companies") \cup {NULL}
    BY <1>2, References
  <1>5. CASE t = "users"
    <2>1. NewTenant(x) = OwnedCompany(x) /\ db[x].role # "Candidate" /\ NewTenant(x) # NULL
      BY <1>1, <1>5, NewTenantIs, SourceIs
    <2>2. NewTenant(x) \in RowsOf(db, "companies") /\ db[NewTenant(x)].up = x
      BY <1>2, <2>1, OwnedIs
    <2>3. QED
      BY <1>1, <1>5, <2>1, <2>2 DEF Home, Dependent
  <1>6. CASE t = "jobs"
    <2>1. NewTenant(x) = (IF db[x].company # NULL THEN db[x].company ELSE db[db[x].up].tenant)
      BY <1>1, <1>6, NewTenantIs
    <2>2. db[x].up \in DOMAIN db
      BY <1>1, <1>2, <1>6, References
    <2>3. db[x].company \in RowsOf(db, "companies") \cup {NULL}
      BY <1>1, <1>3, <1>6 DEF Keys
    <2>4. QED
      BY <1>1, <1>4, <1>6, <2>1, <2>2, <2>3 DEF Home, Dependent
  <1>7. CASE t = "resumes"
    <2>1. ApplicationsOf(x) # {}
      BY <1>1, <1>7, SourceIs
    <2>2. NewTenant(x) = db[Oldest(ApplicationsOf(x))].tenant
      BY <1>1, <1>7, <2>1, NewTenantIs
    <2>3. Oldest(ApplicationsOf(x)) \in DOMAIN db
      BY <1>2, <2>1, OldestApplication DEF ApplicationsOf, RowsOf
    <2>4. \A a \in DOMAIN db : IsFirst(db, a, db[x].cand) => NewTenant(x) = db[a].tenant
      BY <1>2, <2>2, FirstIsOldest
    <2>5. QED
      BY <1>1, <1>4, <1>7, <2>2, <2>3, <2>4 DEF Home, Dependent
  <1>8. CASE t \in Dependent
    <2>1. NewTenant(x) = db[db[x].up].tenant
      BY <1>1, <1>8, NewTenantIs
    <2>2. db[x].up \in DOMAIN db
      BY <1>1, <1>2, <1>8, References
    <2>3. QED
      BY <1>1, <1>4, <1>8, <2>1, <2>2 DEF Home, Dependent
  <1>9. QED
    BY <1>5, <1>6, <1>7, <1>8, OperationalTables DEF Dependent

\* What an exhausted source query leaves without an organisation has none to be found.
LEMMA Exhausted ==
    ASSUME MInv, NInv, Running, Script[pc].op = "backfill", Source(T) = {}, T \in Operational,
           NEW x \in DOMAIN db \ live, db[x].table = T, db[x].tenant = NULL
    PROVE  Stray(db, live, x)
  <1>1. pc \in 1..140 /\ T = Script[pc].table
    BY Position DEF MInv, T
  <1>2. x \in Untenanted(T) /\ x \notin Source(T)
    BY DEF Untenanted, RowsOf
  <1>3. AllKeys(db) /\ Keys(db, db[x])
    BY DEF NInv, AllKeys
  <1>4. Provided(db, live, pc)
    BY DEF NInv
  <1>5. CASE T = "jobs"
    <2>1. NewTenant(x) = NULL
      BY <1>2, <1>5, SourceIs
    <2>2. db[x].company = NULL /\ db[db[x].up].tenant = NULL
      BY <1>5, <2>1, NewTenantIs
    <2>3. db[x].up \in DOMAIN db /\ db[db[x].up].table = "users"
      BY <1>3, <1>5 DEF Keys, RowsOf
    <2>4. db[x].up \notin live
      BY <2>3, NotWritten
    <2>5. Settled("users", pc)
      BY <1>1, <1>5, ParentsFirst
    <2>6. db[db[x].up].role = "Candidate"
      BY <1>4, <2>2, <2>3, <2>4, <2>5 DEF Provided
    <2>7. QED
      BY <1>5, <2>2, <2>6 DEF Stray, Dependent
  <1>6. CASE T = "applications"
    <2>1. NewTenant(x) = NULL
      BY <1>2, <1>6, SourceIs
    <2>2. db[db[x].up].tenant = NULL
      BY <1>6, <2>1, NewTenantIs DEF Dependent
    <2>3. db[x].up \in DOMAIN db /\ db[db[x].up].table = "jobs"
      BY <1>3, <1>6 DEF Keys, RowsOf
    <2>4. db[x].up \notin live
      BY <2>3, NotWritten
    <2>5. Settled("jobs", pc) /\ "jobs" \in Operational
      BY <1>1, <1>6, ParentsFirst, OperationalTables
    <2>6. FALSE
      BY <1>4, <2>2, <2>3, <2>4, <2>5 DEF Provided
    <2>7. QED
      BY <2>6
  <1>7. CASE T = "resumes"
    <2>1. ApplicationsOf(x) = {}
      BY <1>2, <1>7, SourceIs
    <2>2. \A a \in DOMAIN db : ~IsFirst(db, a, db[x].cand)
      BY <2>1 DEF ApplicationsOf, IsFirst
    <2>3. QED
      BY <1>7, <2>2 DEF Stray, Dependent
  <1>8. CASE T \in Dependent \ {"applications"}
    <2>1. db[x].up \notin DOMAIN db
      BY <1>2, <1>8, SourceIs
    <2>2. db[x].up \in DOMAIN db
      BY <1>3, <1>8, References
    <2>3. QED
      BY <2>1, <2>2
  <1>9. QED
    BY <1>5, <1>6, <1>7, <1>8, OperationalTables DEF Dependent

LEMMA BackfillPlaces == MInv /\ NInv /\ Backfill => NInv'
  <1> SUFFICES ASSUME MInv, NInv, Backfill PROVE NInv'
    OBVIOUS
  <1>1. Running /\ Script[pc].op = "backfill" /\ UNCHANGED <<schema, book>>
    BY DEF Backfill, At
  <1>2. pc \in 1..140 /\ T \in Operational \cup {"users"} /\ T = Script[pc].table
    BY <1>1, DataStatement DEF T
  <1>3. CASE Source(T) = {}
    <2>1. Advance /\ UNCHANGED db
      BY <1>3 DEF Backfill
    <2>2. ASSUME NEW x \in DOMAIN db \ live, db[x].tenant = NULL
          PROVE  /\ db[x].table \in Operational => ~Settled(db[x].table, pc + 1)
                 /\ db[x].table = "users" /\ db[x].role # "Candidate" => ~Settled("users", pc + 1)
                 /\ db[x].table \in Operational /\ Backfilled(db[x].table, pc + 1) => Stray(db, live, x)
      <3>1. \A t : Settled(t, pc + 1) => Settled(t, pc)
        BY <1>1, <1>2, NotSettling
      <3>2. ASSUME db[x].table \in Operational, Backfilled(db[x].table, pc + 1) PROVE Stray(db, live, x)
        <4>1. CASE Backfilled(db[x].table, pc)
          BY <2>2, <3>2, <4>1 DEF NInv, Provided
        <4>2. CASE db[x].table = T
          BY <1>1, <1>3, <2>2, <3>2, <4>2, Exhausted
        <4>3. QED
          BY <1>2, <3>2, <4>1, <4>2, Backfilling
      <3>3. QED
        BY <2>2, <3>1, <3>2 DEF NInv, Provided
    <2>3. Provided(db, live, pc + 1)
      BY <2>2 DEF Provided
    <2>4. run'.dflt = run.dflt /\ pc' = pc + 1
      BY <2>1 DEF Advance, MInv, RunOK
    <2>5. QED
      BY <1>1, <2>1, <2>3, <2>4, RowsStay DEF book
  <1>4. CASE Source(T) # {}
    <2>1. PICK b \in Batches(Source(T)) :
             db' = [x \in DOMAIN db |-> IF x \in b THEN [db[x] EXCEPT !.tenant = NewTenant(x)] ELSE db[x]]
      BY <1>4 DEF Backfill
    <2>2. b \subseteq Source(T) /\ b \subseteq Untenanted(T)
      BY DEF Batches, Source
    <2>3. PICK f : f = [x \in DOMAIN db |-> NewTenant(x)]
      OBVIOUS
    <2>4. \A x \in DOMAIN db : f[x] = NewTenant(x)
      BY <2>3
    <2>5. db' = [x \in DOMAIN db |-> IF x \in b THEN [db[x] EXCEPT !.tenant = f[x]] ELSE db[x]]
      BY <2>1, <2>4
    <2>6. ASSUME NEW x \in b
          PROVE  /\ f[x] \in RowsOf(db, "companies") \cup {NULL}
                 /\ f[x] # NULL => Home(db, live, x, f[x])
      <3>1. f[x] = NewTenant(x)
        BY <2>2, <2>4, FoundRows
      <3>2. QED
        BY <1>2, <2>2, <3>1, NewTenantFits
    <2>7. UNCHANGED <<pc, run, live>>
      BY <1>1, <1>4 DEF Backfill, book
    <2>8. QED
      BY <2>2, <2>5, <2>6, <2>7, UpdatePlaces
  <1>5. QED
    BY <1>3, <1>4

\* The default organisation is right for the rows that reach it.
LEMMA DefaultFits ==
    ASSUME MInv, NInv, Running, Script[pc].op = "orphans", run.dflt # NULL, NEW x \in Orphans(T)
    PROVE  run.dflt \in RowsOf(db, "companies") /\ Home(db, live, x, run.dflt)
  <1>1. pc \in 1..140 /\ T \in Operational \cup {"users"} /\ T = Script[pc].table
    BY DataStatement DEF T
  <1>2. x \in Untenanted(T) /\ x \in DOMAIN db /\ db[x].table = T /\ db[x].tenant = NULL
    BY FoundRows DEF Orphans
  <1>3. run.dflt \in RowsOf(db, "companies") /\ db[run.dflt].role = "default"
    BY DEF NInv, Defaults, IsDefault
  <1>4. Backfilled(T, pc)
    BY <1>1, BackfillFirst
  <1>5. CASE T = "users"
    <2>1. db[x].role # "Candidate"
      BY <1>5 DEF Orphans
    <2>2. QED
      BY <1>2, <1>3, <1>5, <2>1 DEF Home, Dependent
  <1>6. CASE T \in Operational /\ x \notin live
    <2>1. Stray(db, live, x)
      BY <1>2, <1>4, <1>6 DEF NInv, Provided
    <2>2. T # "users" /\ T # "skills"
      BY <1>6, OperationalTables
    <2>3. QED
      BY <1>2, <1>3, <2>1, <2>2 DEF Home, Stray
  <1>7. CASE T \in Operational /\ x \in live
    <2>1. T # "users" /\ T # "skills" /\ T # "jobs"
      BY <1>2, <1>7, NotWritten, OperationalTables
    <2>2. QED
      BY <1>2, <1>3, <1>7, <2>1 DEF Home
  <1>8. QED
    BY <1>1, <1>5, <1>6, <1>7

LEMMA BackfillOrphansPlaces == MInv /\ NInv /\ BackfillOrphans => NInv'
  <1> SUFFICES ASSUME MInv, NInv, BackfillOrphans PROVE NInv'
    OBVIOUS
  <1>1. Running /\ Script[pc].op = "orphans" /\ UNCHANGED <<schema, book>>
    BY DEF BackfillOrphans, At
  <1>2. pc \in 1..140 /\ T \in Operational \cup {"users"} /\ T = Script[pc].table
    BY <1>1, DataStatement DEF T
  <1>3. CASE Orphans(T) = {}
    <2>1. Advance /\ UNCHANGED db
      BY <1>3 DEF BackfillOrphans
    <2>2. ASSUME NEW x \in DOMAIN db \ live, db[x].tenant = NULL
          PROVE  /\ db[x].table \in Operational => ~Settled(db[x].table, pc + 1)
                 /\ db[x].table = "users" /\ db[x].role # "Candidate" => ~Settled("users", pc + 1)
                 /\ db[x].table \in Operational /\ Backfilled(db[x].table, pc + 1) => Stray(db, live, x)
      <3>1. \A t : Settled(t, pc + 1) => Settled(t, pc) \/ t = T
        BY <1>2, Settling
      <3>2. \A t : Backfilled(t, pc + 1) => Backfilled(t, pc)
        BY <1>1, <1>2, Backfilling
      <3>3. db[x].table = T => T = "users" /\ db[x].role = "Candidate"
        BY <1>3, <2>2 DEF Orphans, Untenanted, RowsOf
      <3>4. "users" \notin Operational
        BY NotUsers
      <3>5. QED
        BY <2>2, <3>1, <3>2, <3>3, <3>4 DEF NInv, Provided
    <2>3. Provided(db, live, pc + 1)
      BY <2>2 DEF Provided
    <2>4. run'.dflt = run.dflt /\ pc' = pc + 1
      BY <2>1 DEF Advance, MInv, RunOK
    <2>5. QED
      BY <1>1, <2>1, <2>3, <2>4, RowsStay DEF book
  <1>4. CASE Orphans(T) # {}
    <2>1. PICK b \in Batches(Orphans(T)) :
             db' = [x \in DOMAIN db |-> IF x \in b THEN [db[x] EXCEPT !.tenant = run.dflt] ELSE db[x]]
      BY <1>4 DEF BackfillOrphans
    <2>2. b \subseteq Orphans(T) /\ b \subseteq Untenanted(T)
      BY DEF Batches, Orphans
    <2>3. PICK f : f = [x \in DOMAIN db |-> run.dflt]
      OBVIOUS
    <2>4. \A x \in DOMAIN db : f[x] = run.dflt
      BY <2>3
    <2>5. db' = [x \in DOMAIN db |-> IF x \in b THEN [db[x] EXCEPT !.tenant = f[x]] ELSE db[x]]
      BY <2>1, <2>4
    <2>6. run.dflt # NULL /\ UNCHANGED <<pc, run, live>>
      BY <1>1, <1>4 DEF BackfillOrphans, book
    <2>7. ASSUME NEW x \in b
          PROVE  /\ f[x] \in RowsOf(db, "companies") \cup {NULL}
                 /\ f[x] # NULL => Home(db, live, x, f[x])
      <3>1. f[x] = run.dflt
        BY <2>2, <2>4, FoundRows
      <3>2. QED
        BY <1>1, <2>2, <2>6, <3>1, DefaultFits
    <2>8. QED
      BY <2>2, <2>5, <2>6, <2>7, UpdatePlaces
  <1>5. QED
    BY <1>3, <1>4

(***************************************************************************)
(* The rows of the old version and of the new one                          *)
(***************************************************************************)

\* What holds of a row that is inserted into d.
Insertion(d, u, x, r) ==
    /\ x \notin DOMAIN d /\ x \in LiveIds \cup NewIds /\ Keys(d, r) /\ r.at = 9
    /\ r.table \notin {"users", "skills", "companies"}
    /\ x \in u \cup NewIds
    /\ x \in u => r.table \in {"applications", "resumes", "status_history"} /\ r.tenant = NULL
    /\ x \notin u => r.tenant # NULL
    /\ r.tenant # NULL /\ r.table = "jobs" => r.company = NULL
    /\ r.tenant # NULL /\ r.table \in Dependent \cup {"jobs"} => r.tenant = d[r.up].tenant

LEMMA InsertedHome ==
    ASSUME NEW d, NEW e, Extended(d, e), NEW u, NEW x \in DOMAIN e, Insertion(d, u, x, e[x]), e[x].tenant # NULL
    PROVE  Home(e, u, x, e[x].tenant)
  <1>1. \A t : RowsOf(d, t) \subseteq DOMAIN d
    BY DEF RowsOf
  <1>2. e[x].table \in Dependent \cup {"jobs"} => e[x].up \in DOMAIN d
    BY <1>1 DEF Insertion, Keys, Dependent
  <1>3. e[x].table \in Dependent \cup {"jobs"} => e[x].tenant = e[e[x].up].tenant
    BY <1>2 DEF Insertion, Extended
  <1>4. e[x].table # "users" /\ e[x].table # "skills" /\ x \in NewIds /\ (e[x].table = "jobs" => e[x].company = NULL)
    BY DEF Insertion
  <1>5. QED
    BY <1>3, <1>4 DEF Home

\* The rows of new are inserted, and the old version wrote those of u.
Insertions(d, w, u, new, e) ==
    /\ w \subseteq u /\ u \subseteq w \cup DOMAIN new
    /\ \A x \in DOMAIN new : Insertion(d, u, x, new[x])
    /\ e = [x \in DOMAIN d \cup DOMAIN new |-> IF x \in DOMAIN new THEN new[x] ELSE d[x]]

InPlace(d, w, k, c) ==
    AllKeys(d) /\ Written(d, w) /\ OneFirst(d) /\ Placed(d, w) /\ Provided(d, w, k) /\ Defaults(d, c)

LEMMA Inserted ==
    ASSUME NEW d, NEW w, NEW u, NEW k, NEW c, NEW new, NEW e, InPlace(d, w, k, c), Insertions(d, w, u, new, e)
    PROVE  InPlace(e, u, k, c)
  <1>11. AllKeys(d) /\ Written(d, w) /\ OneFirst(d) /\ Placed(d, w) /\ Provided(d, w, k) /\ Defaults(d, c)
    BY DEF InPlace
  <1>12. /\ w \subseteq u /\ u \subseteq w \cup DOMAIN new
        /\ \A x \in DOMAIN new : Insertion(d, u, x, new[x])
    BY DEF Insertions
  <1>1. /\ DOMAIN e = DOMAIN d \cup DOMAIN new /\ \A x \in DOMAIN new : e[x] = new[x] /\ x \notin DOMAIN d
        /\ \A x \in DOMAIN d : x \notin DOMAIN new /\ e[x] = d[x]
    <2>1. \A x \in DOMAIN new : x \notin DOMAIN d
      BY <1>12 DEF Insertion
    <2>2. e = [x \in DOMAIN d \cup DOMAIN new |-> IF x \in DOMAIN new THEN new[x] ELSE d[x]]
      BY DEF Insertions
    <2>3. DOMAIN e = DOMAIN d \cup DOMAIN new
      BY <2>2
    <2>4. ASSUME NEW x \in DOMAIN new PROVE e[x] = new[x]
      BY <2>2
    <2>5. ASSUME NEW x \in DOMAIN d PROVE x \notin DOMAIN new /\ e[x] = d[x]
      BY <2>1, <2>2
    <2>6. QED
      BY <2>1, <2>3, <2>4, <2>5
  <1>2. \A x \in DOMAIN e \ DOMAIN d : x \in DOMAIN new /\ x \in DOMAIN e /\ Insertion(d, u, x, e[x])
    BY <1>11, <1>12, <1>1
  <1>3. u \cap DOMAIN d = w
    BY <1>11, <1>12, <1>1 DEF Written
  <1>4. Extended(d, e)
    BY <1>11, <1>12, <1>1, <1>2 DEF Extended, Insertion
  <1>5. AllKeys(e)
    <2>1. \A x \in DOMAIN e \ DOMAIN d : Keys(d, e[x])
      BY <1>2 DEF Insertion
    <2>2. \A x \in DOMAIN e \ DOMAIN d : Keys(e, e[x])
      BY <1>4, <2>1, MoreKeys
    <2>3. QED
      BY <1>11, <1>4, <2>2, ExtendedKeys
  <1>6. OneFirst(e)
    BY <1>11, <1>4, ExtendedOne
  <1>7. Placed(e, u)
    <2>1. \A x \in DOMAIN e \ DOMAIN d : e[x].tenant # NULL => Home(e, u, x, e[x].tenant)
      BY <1>2, <1>4, InsertedHome
    <2>2. QED
      BY <1>11, <1>3, <1>4, <2>1, ExtendedPlaced
  <1>8. Provided(e, u, k)
    <2>1. \A x \in (DOMAIN e \ DOMAIN d) \ u : e[x].tenant # NULL \/ e[x].table \notin Operational \cup {"users"}
      BY <1>2 DEF Insertion
    <2>2. QED
      BY <1>11, <1>3, <1>4, <2>1, ExtendedProvided
  <1>9. Defaults(e, c)
    <2>1. \A x \in DOMAIN e \ DOMAIN d : e[x].table # "companies" /\ x \in LiveIds \cup NewIds
      BY <1>2 DEF Insertion
    <2>2. \A x \in DOMAIN e \ DOMAIN d : ~IsDefault(e, x)
      BY <2>1 DEF IsDefault, RowsOf
    <2>3. QED
      BY <1>11, <1>4, <2>1, <2>2, ExtendedDefaults
  <1>10. Written(e, u)
    <2>1. u \subseteq DOMAIN e
      BY <1>11, <1>12, <1>1 DEF Written
    <2>2. ASSUME NEW x \in u PROVE e[x].table \in {"applications", "resumes", "status_history"}
      <3>1. CASE x \in DOMAIN new
        BY <1>11, <1>12, <1>1, <3>1 DEF Insertion
      <3>2. CASE x \in w
        BY <1>11, <1>12, <1>1, <3>2 DEF Written
      <3>3. QED
        BY <1>12, <3>1, <3>2
    <2>3. ASSUME NEW x \in RowsOf(e, "applications") PROVE IF x \in u \cup NewIds THEN e[x].at = 9 ELSE e[x].at < 9
      <3>1. CASE x \in DOMAIN new
        BY <1>11, <1>12, <1>1, <3>1 DEF Insertion
      <3>2. CASE x \in DOMAIN d
        <4>1. x \in RowsOf(d, "applications") /\ e[x] = d[x] /\ (x \in u <=> x \in w)
          BY <1>11, <1>12, <1>1, <1>3, <3>2 DEF RowsOf
        <4>2. QED
          BY <1>11, <4>1 DEF Written
      <3>3. QED
        BY <1>11, <1>12, <1>1, <3>1, <3>2 DEF RowsOf
    <2>4. QED
      BY <2>1, <2>2, <2>3 DEF Written
  <1>13. QED
    BY <1>5, <1>6, <1>7, <1>8, <1>9, <1>10 DEF InPlace

\* A step that inserts rows.
LEMMA InsertPlaces ==
    ASSUME NInv, UNCHANGED <<pc, run>>, NEW new, db' = With(new),
           live \subseteq live', live' \subseteq live \cup DOMAIN new,
           \A x \in DOMAIN new : Insertion(db, live', x, new[x])
    PROVE  NInv'
  <1>1. PICK d, e, w, u, k, c : d = db /\ e = db' /\ w = live /\ u = live' /\ k = pc /\ c = run.dflt
    OBVIOUS
  <1>2. e = [x \in DOMAIN d \cup DOMAIN new |-> IF x \in DOMAIN new THEN new[x] ELSE d[x]]
    BY <1>1 DEF With
  <1>3. InPlace(d, w, k, c)
    BY <1>1 DEF NInv, InPlace
  <1>4. Insertions(d, w, u, new, e)
    BY <1>1, <1>2 DEF Insertions
  <1>5. InPlace(e, u, k, c)
    BY <1>3, <1>4, Inserted
  <1>6. pc' = k /\ run'.dflt = c /\ live' = u /\ db' = e
    BY <1>1
  <1>7. QED
    BY <1>5, <1>6 DEF NInv, InPlace

LEMMA FreshIs ==
    ASSUME NEW S, NEW x \in FreshId(S)
    PROVE  x \in S /\ x \notin DOMAIN db
  BY DEF FreshId

LEMMA RowIs ==
    ASSUME NEW t, NEW u, NEW c, NEW n
    PROVE  /\ Row(t, u, c, n).table = t /\ Row(t, u, c, n).up = u /\ Row(t, u, c, n).cand = c
           /\ Row(t, u, c, n).company = NULL /\ Row(t, u, c, n).at = 9 /\ Row(t, u, c, n).tenant = n
  BY DEF Row

LEMMA OldVersionPlaces == NInv /\ OldVersion => NInv'
  <1> SUFFICES ASSUME NInv, OldVersion PROVE NInv'
    OBVIOUS
  <1>1. UNCHANGED <<pc, run>>
    BY DEF OldVersion, OldUpload, OldStatusChange
  <1>2. ASSUME NEW j \in RowsOf(db, "jobs"), NEW c, OldUpload(j, c) PROVE NInv'
    <2>1. PICK a \in FreshId(LiveIds) : \E r \in FreshId(LiveIds \ {a}) :
            \E new \in {[x \in {a, r} |-> IF x = a THEN Row("applications", j, c, NULL)
                                                  ELSE Row("resumes", NULL, c, NULL)]} :
                db' = With(new) /\ live' = live \cup {a, r}
      BY <1>2 DEF OldUpload
    <2>2. PICK r \in FreshId(LiveIds \ {a}) :
            \E new \in {[x \in {a, r} |-> IF x = a THEN Row("applications", j, c, NULL)
                                                  ELSE Row("resumes", NULL, c, NULL)]} :
                db' = With(new) /\ live' = live \cup {a, r}
      BY <2>1
    <2>3. PICK new : /\ new = [x \in {a, r} |-> IF x = a THEN Row("applications", j, c, NULL)
                                                ELSE Row("resumes", NULL, c, NULL)]
                     /\ db' = With(new) /\ live' = live \cup {a, r}
      BY <2>2
    <2>4. a \in LiveIds /\ r \in LiveIds /\ a \notin DOMAIN db /\ r \notin DOMAIN db /\ a # r
      BY FreshIs
    <2>5. DOMAIN new = {a, r} /\ new[a] = Row("applications", j, c, NULL) /\ new[r] = Row("resumes", NULL, c, NULL)
      BY <2>3, <2>4
    <2>6. Insertion(db, live', a, new[a])
      BY <2>3, <2>4, <2>5, RowIs DEF Insertion, Keys
    <2>7. Insertion(db, live', r, new[r])
      BY <2>3, <2>4, <2>5, RowIs DEF Insertion, Keys
    <2>8. QED
      BY <1>1, <2>3, <2>5, <2>6, <2>7, InsertPlaces
  <1>3. ASSUME NEW a \in RowsOf(db, "applications"), OldStatusChange(a) PROVE NInv'
    <2>1. PICK h \in FreshId(LiveIds) : \E row \in {Row("status_history", a, NULL, NULL)} :
            db' = With([x \in {h} |-> row]) /\ live' = live \cup {h}
      BY <1>3 DEF OldStatusChange
    <2>2. PICK new : /\ new = [x \in {h} |-> Row("status_history", a, NULL, NULL)]
                     /\ db' = With(new) /\ live' = live \cup {h}
      BY <2>1
    <2>3. h \in LiveIds /\ h \notin DOMAIN db
      BY FreshIs
    <2>4. DOMAIN new = {h} /\ new[h] = Row("status_history", a, NULL, NULL)
      BY <2>2
    <2>5. Insertion(db, live', h, new[h])
      BY <2>2, <2>3, <2>4, RowIs DEF Insertion, Keys
    <2>6. QED
      BY <1>1, <2>2, <2>4, <2>5, InsertPlaces
  <1>4. QED
    BY <1>2, <1>3 DEF OldVersion

LEMMA StampedIs ==
    ASSUME NEW ctx, NEW t, NEW u, NEW c, NEW n, NEW r, r = Stamped(ctx, Row(t, u, c, n))
    PROVE  /\ r.table = t /\ r.up = u /\ r.cand = c /\ r.company = NULL /\ r.at = 9
           /\ r.tenant = n \/ (ctx.scope = "tenant" /\ n = NULL /\ r.tenant = ctx.tenant)
  <1>1. CASE r = Row(t, u, c, n)
    BY <1>1, RowIs
  <1>2. CASE ctx.scope = "tenant" /\ n = NULL /\ r = [Row(t, u, c, n) EXCEPT !.tenant = ctx.tenant]
    BY <1>2 DEF Row
  <1>3. QED
    BY <1>1, <1>2, RowIs DEF Stamped

LEMMA StaffScope ==
    ASSUME NEW u
    PROVE  StaffContext(u).scope = "tenant" => StaffContext(u).tenant = db[u].tenant
  <1>1. PICK tk : tk = [sub |-> u, tid |-> db[u].tenant]
    OBVIOUS
  <1>2. tk.tid = db[u].tenant /\ StaffContext(u) = ContextFromToken(tk)
    BY <1>1 DEF StaffContext
  <1>3. QED
    BY <1>2 DEF ContextFromToken, PublicContext

LEMMA OtherScopes ==
    SystemContext.scope # "tenant" /\ \A u : CandidateContext(u).scope # "tenant"
  <1>1. ASSUME NEW u PROVE CandidateContext(u).scope # "tenant"
    <2>1. PICK tk : tk = [sub |-> u, tid |-> NULL]
      OBVIOUS
    <2>2. tk.tid = NULL /\ CandidateContext(u) = ContextFromToken(tk)
      BY <2>1 DEF CandidateContext
    <2>3. QED
      BY <2>2 DEF ContextFromToken, PublicContext
  <1>2. QED
    BY <1>1 DEF SystemContext

\* A request that inserts rows, each where it belongs.
LEMMA NewRowsPlace ==
    ASSUME NInv, UNCHANGED <<pc, run>>, NEW ctx, NEW ids, NEW new, NewRows(ctx, ids, new),
           \A x \in ids : Stamped(ctx, new[x]).tenant # NULL => Insertion(db, live, x, Stamped(ctx, new[x]))
    PROVE  NInv'
  <1>1. PICK st : st = [x \in ids |-> Stamped(ctx, new[x])]
    OBVIOUS
  <1>2. \/ UNCHANGED <<db, live>>
        \/ db' = With(st) /\ live' = live /\ \A x \in ids : st[x].tenant # NULL
    BY <1>1 DEF NewRows, Refused
  <1>3. CASE UNCHANGED <<db, live>>
    <2>1. Provided(db, live, pc) /\ run'.dflt = run.dflt /\ pc' = pc
      BY DEF NInv
    <2>2. QED
      BY <1>3, <2>1, RowsStay
  <1>4. CASE db' = With(st) /\ live' = live /\ \A x \in ids : st[x].tenant # NULL
    <2>1. DOMAIN st = ids /\ \A x \in ids : st[x] = Stamped(ctx, new[x])
      BY <1>1
    <2>2. \A x \in DOMAIN st : Insertion(db, live', x, st[x])
      BY <1>4, <2>1
    <2>3. QED
      BY <1>4, <2>2, InsertPlaces
  <1>5. QED
    BY <1>2, <1>3, <1>4

\* One row of the new version.
LEMMA OneRowPlaces ==
    ASSUME NInv, UNCHANGED <<pc, run>>, NEW x \in FreshId(NewIds), NEW ctx, NEW row,
           NewRows(ctx, {x}, [y \in {x} |-> row]),
           Stamped(ctx, row).tenant # NULL => Insertion(db, live, x, Stamped(ctx, row))
    PROVE  NInv'
  <1>1. PICK new : new = [y \in {x} |-> row]
    OBVIOUS
  <1>2. \A y \in {x} : new[y] = row
    BY <1>1
  <1>3. NewRows(ctx, {x}, new)
    BY <1>1
  <1>4. QED
    BY <1>2, <1>3, NewRowsPlace

LEMMA FreshNew ==
    ASSUME NInv, NEW S, S \subseteq NewIds, NEW x \in FreshId(S)
    PROVE  x \in NewIds /\ x \notin DOMAIN db /\ x \notin live
  BY FreshIs DEF NInv, Written

\* The row r refers to a row of the same organisation.
LEMMA FitsIn ==
    ASSUME NInv, NEW x, x \in NewIds, x \notin DOMAIN db, x \notin live, NEW r, r.at = 9, r.tenant # NULL,
           NEW y \in DOMAIN db, r.company = NULL,
           r.tenant = db[y].tenant, r.table # "resumes" => r.up = y,
           \/ r.table = "jobs" /\ db[y].table = "users"
           \/ r.table = "applications" /\ db[y].table = "jobs"
           \/ r.table \in {"interviews", "status_history", "interview_question_sets"} /\ db[y].table = "applications"
           \/ r.table = "interview_questions" /\ db[y].table = "interview_question_sets"
           \/ r.table = "resumes"
    PROVE  Insertion(db, live, x, r)
  <1>1. r.tenant \in RowsOf(db, "companies") \cup {NULL}
    BY References DEF NInv
  <1>2. \A t : db[y].table = t => y \in RowsOf(db, t)
    BY DEF RowsOf
  <1>3. Keys(db, r)
    BY <1>1, <1>2 DEF Keys
  <1>4. QED
    BY <1>3 DEF Insertion, Dependent

LEMMA RefusedPlaces ==
    ASSUME NInv, UNCHANGED <<pc, run>>, NEW a, Refused({a})
    PROVE  NInv'
  <1>1. Provided(db, live, pc) /\ run'.dflt = run.dflt /\ pc' = pc /\ UNCHANGED <<db, live>>
    BY DEF NInv, Refused
  <1>2. QED
    BY <1>1, RowsStay

LEMMA RequestPlaces == NInv /\ Request => NInv'
  <1> SUFFICES ASSUME NInv, Request PROVE NInv'
    OBVIOUS
  <1>1. UNCHANGED <<pc, run>>
    BY DEF Request
  <1>2. PICK x \in FreshId(NewIds) :
         \/ \E u \in Staff : CreateJob(u, x)
         \/ \E u \in Staff, a \in RowsOf(db, "applications"),
               t \in {"interviews", "status_history", "interview_question_sets"} :
               AddToApplication(u, a, t, x)
         \/ \E u \in RowsOf(db, "users") \ Staff, j \in RowsOf(db, "jobs"), y \in FreshId(NewIds \ {x}) :
               UploadResume(u, j, x, y)
         \/ \E u \in RowsOf(db, "users") \ Staff, a \in RowsOf(db, "applications") : RespondToOffer(u, a, x)
         \/ \E s \in RowsOf(db, "interview_question_sets") : SaveQuestion(s, x)
    BY DEF Request
  <1>3. x \in NewIds /\ x \notin DOMAIN db /\ x \notin live
    BY FreshNew
  <1>4. ASSUME NEW u \in Staff, CreateJob(u, x) PROVE NInv'
    <2>1. PICK r : r = Stamped(StaffContext(u), Row("jobs", u, NULL, NULL))
      OBVIOUS
    <2>2. /\ r.table = "jobs" /\ r.up = u /\ r.company = NULL /\ r.at = 9
          /\ r.tenant # NULL => r.tenant = db[u].tenant
      BY <2>1, StampedIs, StaffScope
    <2>3. u \in DOMAIN db /\ db[u].table = "users"
      BY DEF Staff, RowsOf
    <2>4. r.tenant # NULL => Insertion(db, live, x, r)
      BY <1>3, <2>2, <2>3, FitsIn
    <2>5. QED
      BY <1>1, <1>4, <2>1, <2>4, OneRowPlaces DEF CreateJob
  <1>5. ASSUME NEW u \in Staff, NEW a \in RowsOf(db, "applications"),
               NEW t \in {"interviews", "status_history", "interview_question_sets"},
               AddToApplication(u, a, t, x)
        PROVE  NInv'
    <2>1. PICK r : r = Stamped(StaffContext(u), Row(t, a, NULL, NULL))
      OBVIOUS
    <2>2. /\ r.table = t /\ r.up = a /\ r.company = NULL /\ r.at = 9
          /\ r.tenant # NULL => StaffContext(u).scope = "tenant" /\ r.tenant = StaffContext(u).tenant
      BY <2>1, StampedIs
    <2>3. a \in DOMAIN db /\ db[a].table = "applications" /\ "applications" \in Operational
      BY OperationalTables DEF RowsOf
    <2>4. StaffContext(u).scope = "tenant" => db[a].tenant = StaffContext(u).tenant
      BY <1>5, <2>3 DEF AddToApplication, Sees, OrmVisible
    <2>5. r.tenant # NULL => Insertion(db, live, x, r)
      BY <1>3, <2>2, <2>3, <2>4, FitsIn
    <2>6. Refused({a}) \/ NewRows(StaffContext(u), {x}, [y \in {x} |-> Row(t, a, NULL, NULL)])
      BY <1>5 DEF AddToApplication
    <2>7. QED
      BY <1>1, <2>1, <2>5, <2>6, OneRowPlaces, RefusedPlaces
  <1>6. ASSUME NEW u, NEW j \in RowsOf(db, "jobs"), NEW y \in FreshId(NewIds \ {x}), UploadResume(u, j, x, y)
        PROVE  NInv'
    <2>1. PICK c : NewRows(CandidateContext(u), {x, y},
                     [z \in {x, y} |-> IF z = x THEN Row("applications", j, c, UploadTenant(j))
                                                ELSE Row("resumes", NULL, c, UploadTenant(j))])
      BY <1>6 DEF UploadResume
    <2>2. PICK new : new = [z \in {x, y} |-> IF z = x THEN Row("applications", j, c, UploadTenant(j))
                                             ELSE Row("resumes", NULL, c, UploadTenant(j))]
      OBVIOUS
    <2>3. y \in NewIds /\ y \notin DOMAIN db /\ y \notin live /\ y # x
      <3>1. y \in NewIds \ {x} /\ y \notin DOMAIN db
        BY FreshIs
      <3>2. QED
        BY <3>1 DEF NInv, Written
    <2>4. PICK r, q : /\ r = Stamped(CandidateContext(u), Row("applications", j, c, UploadTenant(j)))
                      /\ q = Stamped(CandidateContext(u), Row("resumes", NULL, c, UploadTenant(j)))
      OBVIOUS
    <2>5. /\ r.table = "applications" /\ r.up = j /\ r.company = NULL /\ r.at = 9 /\ r.tenant = db[j].tenant
          /\ q.table = "resumes" /\ q.company = NULL /\ q.at = 9 /\ q.tenant = db[j].tenant
      BY <2>4, StampedIs, OtherScopes DEF UploadTenant
    <2>6. j \in DOMAIN db /\ db[j].table = "jobs"
      BY DEF RowsOf
    <2>7. r.tenant # NULL => Insertion(db, live, x, r)
      BY <1>3, <2>5, <2>6, FitsIn
    <2>8. q.tenant # NULL => Insertion(db, live, y, q)
      BY <2>3, <2>5, <2>6, FitsIn
    <2>9. Stamped(CandidateContext(u), new[x]) = r /\ Stamped(CandidateContext(u), new[y]) = q
      BY <2>2, <2>3, <2>4
    <2>10. \A z \in {x, y} : Stamped(CandidateContext(u), new[z]).tenant # NULL =>
               Insertion(db, live, z, Stamped(CandidateContext(u), new[z]))
      BY <2>7, <2>8, <2>9
    <2>11. NewRows(CandidateContext(u), {x, y}, new)
      BY <2>1, <2>2
    <2>12. QED
      BY <1>1, <2>10, <2>11, NewRowsPlace
  <1>7. ASSUME NEW u, NEW a \in RowsOf(db, "applications"), RespondToOffer(u, a, x) PROVE NInv'
    <2>1. PICK r : r = Stamped(CandidateContext(u), Row("status_history", a, NULL, db[a].tenant))
      OBVIOUS
    <2>2. r.table = "status_history" /\ r.up = a /\ r.company = NULL /\ r.at = 9 /\ r.tenant = db[a].tenant
      BY <2>1, StampedIs, OtherScopes
    <2>3. a \in DOMAIN db /\ db[a].table = "applications"
      BY DEF RowsOf
    <2>4. r.tenant # NULL => Insertion(db, live, x, r)
      BY <1>3, <2>2, <2>3, FitsIn
    <2>5. \/ Refused({a})
          \/ NewRows(CandidateContext(u), {x}, [y \in {x} |-> Row("status_history", a, NULL, db[a].tenant)])
      BY <1>7 DEF RespondToOffer
    <2>6. QED
      BY <1>1, <2>1, <2>4, <2>5, OneRowPlaces, RefusedPlaces
  <1>8. ASSUME NEW s \in RowsOf(db, "interview_question_sets"), SaveQuestion(s, x) PROVE NInv'
    <2>1. PICK r : r = Stamped(SystemContext, Row("interview_questions", s, NULL, db[s].tenant))
      OBVIOUS
    <2>2. r.table = "interview_questions" /\ r.up = s /\ r.company = NULL /\ r.at = 9 /\ r.tenant = db[s].tenant
      BY <2>1, StampedIs, OtherScopes
    <2>3. s \in DOMAIN db /\ db[s].table = "interview_question_sets"
      BY DEF RowsOf
    <2>4. r.tenant # NULL => Insertion(db, live, x, r)
      BY <1>3, <2>2, <2>3, FitsIn
    <2>5. QED
      BY <1>1, <1>8, <2>1, <2>4, OneRowPlaces DEF SaveQuestion
  <1>9. QED
    BY <1>2, <1>4, <1>5, <1>6, <1>7, <1>8

LEMMA DefaultsAre == DefaultCompanies = {c \in DOMAIN db : IsDefault(db, c)}
  BY DEF DefaultCompanies, IsDefault, RowsOf

LEMMA NewDefaultPlaces ==
    ASSUME MInv, NInv, DefaultTenant, DefaultCompanies = {}
    PROVE  NInv'
  <1>1. PICK n : n = CHOOSE d \in DefaultIds : d \notin DOMAIN db
    OBVIOUS
  <1>2. ~\E x \in DOMAIN db : IsDefault(db, x)
    BY DefaultsAre
  <1>3. \E x \in DefaultIds : x \notin DOMAIN db
    BY <1>2 DEF NInv, Defaults
  <1>4. n \in DefaultIds /\ n \notin DOMAIN db
    BY <1>1, <1>3
  <1>5. /\ db' = With([x \in {n} |-> DefaultCompany]) /\ run' = [run EXCEPT !.dflt = n]
        /\ UNCHANGED <<pc, live>>
    BY <1>1 DEF DefaultTenant, book
  <1>6. run'.dflt = n
    BY <1>5 DEF MInv, RunOK
  <1>7. PICK d, e, w, k : d = db /\ e = db' /\ w = live /\ k = pc
    OBVIOUS
  <1>8. PICK new : new = [x \in {n} |-> DefaultCompany]
    OBVIOUS
  <1>9. e = [x \in DOMAIN d \cup DOMAIN new |-> IF x \in DOMAIN new THEN new[x] ELSE d[x]]
    BY <1>5, <1>7, <1>8 DEF With
  <1>10. DOMAIN new = {n} /\ new[n] = DefaultCompany
    BY <1>8
  <1>11. /\ DOMAIN e = DOMAIN d \cup {n} /\ e[n] = DefaultCompany
         /\ \A x \in DOMAIN d : e[x] = d[x] /\ x # n
    <2>1. DOMAIN e = DOMAIN d \cup {n}
      BY <1>9, <1>10
    <2>2. e[n] = DefaultCompany
      BY <1>9, <1>10
    <2>3. ASSUME NEW x \in DOMAIN d PROVE e[x] = d[x] /\ x # n
      BY <1>4, <1>7, <1>9, <1>10
    <2>4. QED
      BY <2>1, <2>2, <2>3
  <1>12. e[n].table = "companies" /\ e[n].at = 5 /\ e[n].role = "default" /\ e[n].tenant = NULL
    BY <1>11 DEF DefaultCompany
  <1>13. /\ AllKeys(d) /\ Written(d, w) /\ OneFirst(d) /\ Placed(d, w)
         /\ Provided(d, w, k)
    BY <1>7 DEF NInv
  <1>14. Extended(d, e)
    BY <1>11, <1>12 DEF Extended
  <1>15. DOMAIN e \ DOMAIN d = {n} /\ w \cap DOMAIN d = w
    BY <1>4, <1>7, <1>11, <1>13 DEF Written
  <1>16. AllKeys(e)
    <2>1. Keys(e, e[n])
      BY <1>12 DEF Keys
    <2>2. QED
      BY <1>13, <1>14, <1>15, <2>1, ExtendedKeys
  <1>17. OneFirst(e)
    BY <1>13, <1>14, ExtendedOne
  <1>18. Placed(e, w)
    BY <1>12, <1>13, <1>14, <1>15, ExtendedPlaced
  <1>19. Provided(e, w, k)
    <2>1. e[n].table \notin Operational \cup {"users"}
      BY <1>12, NotUsers
    <2>2. QED
      BY <1>13, <1>14, <1>15, <2>1, ExtendedProvided
  <1>20. Written(e, w)
    <2>1. RowsOf(e, "applications") = RowsOf(d, "applications")
      BY <1>11, <1>12 DEF RowsOf
    <2>2. \A x \in RowsOf(d, "applications") : e[x] = d[x]
      BY <1>11 DEF RowsOf
    <2>3. w \subseteq DOMAIN d
      BY <1>13 DEF Written
    <2>4. w \subseteq DOMAIN e /\ \A x \in w : e[x] = d[x]
      BY <1>11, <2>3
    <2>5. QED
      BY <1>13, <2>1, <2>2, <2>4 DEF Written
  <1>21. Defaults(e, n)
    <2>1. ASSUME NEW x \in DOMAIN d PROVE ~IsDefault(e, x)
      <3>1. ~IsDefault(d, x) /\ e[x] = d[x]
        BY <1>2, <1>7, <1>11
      <3>2. QED
        BY <1>11, <3>1 DEF IsDefault, RowsOf
    <2>2. IsDefault(e, n)
      BY <1>11, <1>12 DEF IsDefault, RowsOf
    <2>3. \A x \in DOMAIN e : IsDefault(e, x) => x = n
      BY <1>11, <2>1
    <2>4. n \in DOMAIN e
      BY <1>11
    <2>5. QED
      BY <2>2, <2>3, <2>4 DEF Defaults
  <1>22. db' = e /\ live' = w /\ pc' = k
    BY <1>5, <1>7
  <1>23. QED
    BY <1>6, <1>16, <1>17, <1>18, <1>19, <1>20, <1>21, <1>22 DEF NInv

LEMMA DefaultTenantPlaces == MInv /\ NInv /\ DefaultTenant => NInv'
  <1> SUFFICES ASSUME MInv, NInv, DefaultTenant PROVE NInv'
    OBVIOUS
  <1>1. CASE DefaultCompanies # {}
    <2>1. run' = [run EXCEPT !.dflt = Oldest(DefaultCompanies)] /\ UNCHANGED <<db, pc, live>>
      BY <1>1 DEF DefaultTenant, book
    <2>2. run'.dflt = Oldest(DefaultCompanies)
      BY <2>1 DEF MInv, RunOK
    <2>3. DefaultCompanies \subseteq DOMAIN db /\ AllKeys(db)
      BY DefaultsAre DEF NInv
    <2>4. Oldest(DefaultCompanies) \in DefaultCompanies
      BY <1>1, <2>3, OldestRow
    <2>5. IsDefault(db, run'.dflt)
      BY <2>2, <2>4, DefaultsAre
    <2>6. Defaults(db, run'.dflt)
      BY <2>5 DEF NInv, Defaults
    <2>7. db' = db /\ live' = live /\ pc' = pc
      BY <2>1
    <2>8. QED
      BY <2>6, <2>7 DEF NInv
  <1>2. QED
    BY <1>1, NewDefaultPlaces

\* A step that is not about rows and after which the run is where it was.
LEMMA RunStays ==
    ASSUME NInv, UNCHANGED <<db, live, pc>>, run'.dflt = run.dflt
    PROVE  NInv'
  <1>1. Provided(db, live, pc')
    BY DEF NInv
  <1>2. QED
    BY <1>1, RowsStay

LEMMA RaisePlaces ==
    ASSUME NInv, NEW why, Raise(why)
    PROVE  NInv'
  BY RunStays DEF Raise

LEMMA SchemaPlaces ==
    MInv /\ NInv /\ (AddColumn \/ ForeignKey \/ DropCheck \/ AddCheck \/ ValidateCheck \/ SetNotNull
                     \/ DropPolicy \/ CreatePolicy \/ EnableRls) => NInv'
  <1> SUFFICES ASSUME MInv, NInv, AddColumn \/ ForeignKey \/ DropCheck \/ AddCheck \/ ValidateCheck \/ SetNotNull
                                  \/ DropPolicy \/ CreatePolicy \/ EnableRls
               PROVE  NInv'
    OBVIOUS
  <1>1. /\ Running /\ Script[pc].op \notin {"backfill", "orphans"}
        /\ (Advance /\ UNCHANGED <<db, book>>) \/ Raise("duplicate") \/ Raise("check")
    BY DEF AddColumn, ForeignKey, DropCheck, AddCheck, ValidateCheck, SetNotNull, DropPolicy, CreatePolicy,
           EnableRls, At
  <1>2. QED
    BY <1>1, SchemaStays, RaisePlaces

LEMMA IndexPlaces == MInv /\ NInv /\ Index => NInv'
  <1> SUFFICES ASSUME MInv, NInv, Index PROVE NInv'
    OBVIOUS
  <1>1. Running /\ Script[pc].op = "index" /\ UNCHANGED <<db, book>>
    BY DEF Index, At
  <1>2. Advance \/ (UNCHANGED pc /\ (run' = run \/ run' = [run EXCEPT !.building = TRUE]))
    BY DEF Index
  <1>3. CASE Advance
    BY <1>1, <1>3, SchemaStays
  <1>4. CASE UNCHANGED pc /\ (run' = run \/ run' = [run EXCEPT !.building = TRUE])
    <2>1. run'.dflt = run.dflt
      BY <1>4 DEF MInv, RunOK
    <2>2. QED
      BY <1>1, <1>4, <2>1, RunStays DEF book
  <1>5. QED
    BY <1>2, <1>3, <1>4

LEMMA IndexFailsPlaces == NInv /\ IndexFails => NInv'
  BY RaisePlaces DEF IndexFails

LEMMA FaultPlaces == MInv /\ NInv /\ (LockTimeout \/ Killed) => NInv'
  <1> SUFFICES ASSUME MInv, NInv, LockTimeout \/ Killed PROVE NInv'
    OBVIOUS
  <1>1. \/ Raise("lock") \/ Raise("killed")
        \/ run' = [run EXCEPT !.attempt = @ + 1] /\ UNCHANGED <<db, schema, pc, book>>
    BY DEF LockTimeout, Killed
  <1>2. CASE run' = [run EXCEPT !.attempt = @ + 1] /\ UNCHANGED <<db, schema, pc, book>>
    <2>1. run'.dflt = run.dflt
      BY <1>2 DEF MInv, RunOK
    <2>2. QED
      BY <1>2, <2>1, RunStays DEF book
  <1>3. QED
    BY <1>1, <1>2, RaisePlaces

\* A new run knows nothing of the default organisation, and begins with the first table.
LEMMA RerunPlaces == NInv /\ Rerun => NInv'
  <1> SUFFICES ASSUME NInv, Rerun PROVE NInv'
    OBVIOUS
  <1>1. db' = db /\ live' = live /\ pc' = 1 /\ run'.dflt = NULL
    BY DEF Rerun, Fresh
  <1>2. Provided(db, live, 1)
    BY NothingSettled, NothingBackfilled DEF Provided
  <1>3. Defaults(db, NULL)
    BY DEF NInv, Defaults
  <1>4. QED
    BY <1>1, <1>2, <1>3 DEF NInv

LEMMA PlacesAtFirst == MigrationInit => NInv
  <1> SUFFICES ASSUME MigrationInit PROVE NInv
    OBVIOUS
  <1>1. live = {} /\ pc = 1 /\ run.dflt = NULL /\ db \in Databases
    BY DEF MigrationInit, Fresh
  <1>2. /\ IsDatabase(db) /\ DOMAIN db \cap NewIds = {}
        /\ \E x \in DefaultIds : x \notin DOMAIN db \cup LiveIds \cup NewIds
    BY <1>1, MigrationAssumption
  <1>3. /\ AllKeys(db) /\ \A x \in DOMAIN db : db[x].tenant = NULL
    BY <1>2 DEF IsDatabase, AllKeys
  <1>4. OneFirst(db)
    BY <1>2 DEF IsDatabase, OneFirst
  <1>5. Written(db, live)
    <2>1. \A x \in RowsOf(db, "applications") : db[x].at < 9 /\ db[x].at \in Nat /\ x \in DOMAIN db
      BY <1>2, <1>3 DEF IsDatabase, AllKeys, Keys, RowsOf
    <2>2. \A x \in RowsOf(db, "applications") : db[x].at < 9 /\ x \notin NewIds
      BY <1>2, <2>1
    <2>3. QED
      BY <1>1, <2>2 DEF Written
  <1>6. Placed(db, live)
    BY <1>3 DEF Placed
  <1>7. Provided(db, live, pc)
    BY <1>1, NothingSettled, NothingBackfilled DEF Provided
  <1>8. Defaults(db, run.dflt)
    <2>1. \A x, y \in DOMAIN db : IsDefault(db, x) /\ IsDefault(db, y) => x = y
      BY <1>2 DEF IsDatabase, IsDefault
    <2>2. QED
      BY <1>1, <1>2, <2>1 DEF Defaults
  <1>9. QED
    BY <1>3, <1>4, <1>5, <1>6, <1>7, <1>8 DEF NInv

LEMMA PlacesSteps == MInv /\ NInv /\ [MigrationNext]_migrationVars => NInv'
  <1>1. MInv /\ NInv /\ Upgrade => NInv'
    BY BackfillPlaces, DefaultTenantPlaces, BackfillOrphansPlaces, SchemaPlaces, IndexPlaces, IndexFailsPlaces DEF Upgrade
  <1>2. ASSUME NInv, UNCHANGED migrationVars PROVE NInv'
    BY <1>2, RunStays DEF migrationVars
  <1>3. QED
    BY <1>1, <1>2, FaultPlaces, RerunPlaces, OldVersionPlaces, RequestPlaces DEF MigrationNext

\* The inductive invariant of the rows: every row that has an organisation has the right
\* one, and a row that was there before and has none yet is still looked for, or nothing
\* tells where it belongs.
THEOREM PlacementInvariant == MigrationSpec => []NInv
  <1>1. QED
    BY MigrationInvariant, PlacesAtFirst, PlacesSteps, PTL DEF MigrationSpec

LEMMA KeyFirst ==
    ASSUME NEW k \in 1..139, Script[k + 1].op = "fk_validate"
    PROVE  Script[k].op = "fk_add" /\ Script[k].table = Script[k + 1].table
  <1>1. PICK l \in 1..140 : l = k + 1
    OBVIOUS
  <1>2. Named(l) /\ Script[l].op = "fk_validate"
    BY <1>1, AllNamed
  <1>3. PICK i \in 1..9 : l = 25 + 2 * i /\ Script[l].table = AllTables[i]
    BY <1>2 DEF Named
  <1>4. k = 24 + 2 * i
    BY <1>1, <1>3
  <1>5. Script[k] = Stmt("fk_add", AllTables[i])
    BY <1>4, ScriptShape DEF ScriptIs
  <1>6. Script[k].op = "fk_add" /\ Script[k].table = AllTables[i]
    BY <1>5 DEF Stmt
  <1>7. QED
    BY <1>1, <1>3, <1>6

\* The statement took effect.
LEMMA ThenTyped ==
    ASSUME MInv, TInv, Running, Advance, UNCHANGED crashes,
           schema'.fkValid \subseteq schema'.fk, schema'.indexValid \subseteq schema'.index,
           Script[pc].op = "fk_add" => Script[pc].table \in schema'.fk
    PROVE  TInv'
  <1>1. pc \in 1..140 /\ pc' = pc + 1
    BY Position DEF MInv, Advance
  <1>2. run'.attempt = 1 /\ run'.building = FALSE
    BY DEF Advance, MInv, RunOK
  <1>3. 1 \in 1..MaxLockAttempts
    BY MigrationAssumption
  <1>4. pc' # 141 /\ Script[pc'].op = "fk_validate" => Script[pc'].table \in schema'.fk
    <2>1. HAVE pc' # 141 /\ Script[pc'].op = "fk_validate"
    <2>2. pc \in 1..139
      BY <1>1, <2>1
    <2>3. Script[pc].op = "fk_add" /\ Script[pc].table = Script[pc'].table
      BY <1>1, <2>1, <2>2, KeyFirst
    <2>4. QED
      BY <2>3
  <1>5. QED
    BY <1>2, <1>3, <1>4 DEF TInv

LEMMA TypedStays ==
    ASSUME TInv, UNCHANGED <<schema, pc, run, crashes>>
    PROVE  TInv'
  BY DEF TInv

LEMMA SchemaIs ==
    ASSUME MInv
    PROVE  /\ schema = [column |-> schema.column, fk |-> schema.fk, fkValid |-> schema.fkValid,
                        check |-> schema.check, checkValid |-> schema.checkValid, notNull |-> schema.notNull,
                        index |-> schema.index, indexValid |-> schema.indexValid,
                        policy |-> schema.policy, rls |-> schema.rls]
           /\ run = [attempt |-> run.attempt, dflt |-> run.dflt, building |-> run.building]
  BY DEF MInv, SchemaOK, IsSchema, RunOK

LEMMA ForeignKeyTyped == MInv /\ TInv /\ ForeignKey => TInv'
  <1> SUFFICES ASSUME MInv, TInv, ForeignKey PROVE TInv'
    OBVIOUS
  <1>1. Running /\ Advance /\ UNCHANGED crashes /\ Script[pc].op \in {"fk_add", "fk_validate"} /\ pc \in 1..140
    BY Position DEF ForeignKey, At, book, MInv
  <1>2. CASE Script[pc].op = "fk_add"
    <2>1. schema' = [schema EXCEPT !.fk = @ \cup {Script[pc].table}]
      BY <1>1, <1>2 DEF ForeignKey, At, T
    <2>2. /\ schema'.fk = schema.fk \cup {Script[pc].table} /\ schema'.fkValid = schema.fkValid
          /\ schema'.index = schema.index /\ schema'.indexValid = schema.indexValid
      BY <2>1, SchemaIs
    <2>3. QED
      BY <1>1, <2>2, ThenTyped DEF TInv
  <1>3. CASE Script[pc].op = "fk_validate"
    <2>1. schema' = [schema EXCEPT !.fkValid = @ \cup {Script[pc].table}]
      BY <1>1, <1>3 DEF ForeignKey, At, T
    <2>2. /\ schema'.fk = schema.fk /\ schema'.fkValid = schema.fkValid \cup {Script[pc].table}
          /\ schema'.index = schema.index /\ schema'.indexValid = schema.indexValid
      BY <2>1, SchemaIs
    <2>3. schema.fkValid \subseteq schema.fk /\ schema.indexValid \subseteq schema.index /\ Script[pc].table \in schema.fk
      BY <1>1, <1>3 DEF TInv
    <2>4. QED
      BY <1>1, <1>3, <2>2, <2>3, ThenTyped
  <1>4. QED
    BY <1>1, <1>2, <1>3

LEMMA SchemaTyped ==
    MInv /\ TInv /\ (AddColumn \/ DropCheck \/ AddCheck \/ ValidateCheck \/ SetNotNull
                     \/ DropPolicy \/ CreatePolicy \/ EnableRls) => TInv'
  <1> SUFFICES ASSUME MInv, TInv, AddColumn \/ DropCheck \/ AddCheck \/ ValidateCheck \/ SetNotNull
                                  \/ DropPolicy \/ CreatePolicy \/ EnableRls
               PROVE  TInv'
    OBVIOUS
  <1>1. CASE Raise("duplicate") \/ Raise("check")
    BY <1>1, TypedStays DEF Raise
  <1>2. CASE ~Raise("duplicate") /\ ~Raise("check")
    <2>1. Running /\ Script[pc].op # "fk_add" /\ Advance /\ UNCHANGED crashes
      BY <1>2 DEF AddColumn, DropCheck, AddCheck, ValidateCheck, SetNotNull, DropPolicy, CreatePolicy,
                  EnableRls, At, book
    <2>2. \/ schema' = [schema EXCEPT !.column = @ \cup {T}]
          \/ schema' = [schema EXCEPT !.check = @ \ {T}, !.checkValid = @ \ {T}]
          \/ schema' = [schema EXCEPT !.check = @ \cup {T}]
          \/ schema' = [schema EXCEPT !.checkValid = @ \cup {T}]
          \/ schema' = [schema EXCEPT !.notNull = @ \cup {T}]
          \/ schema' = [schema EXCEPT !.policy = @ \ {Script[pc].policy}]
          \/ schema' = [schema EXCEPT !.policy = @ \cup {Script[pc].policy}]
          \/ schema' = [schema EXCEPT !.rls = @ \cup {T}]
      BY <1>2 DEF AddColumn, DropCheck, AddCheck, ValidateCheck, SetNotNull, DropPolicy, CreatePolicy, EnableRls
    <2>3. /\ schema'.fk = schema.fk /\ schema'.fkValid = schema.fkValid
          /\ schema'.index = schema.index /\ schema'.indexValid = schema.indexValid
      BY <2>2, SchemaIs
    <2>4. QED
      BY <2>1, <2>3, ThenTyped DEF TInv
  <1>3. QED
    BY <1>1, <1>2

LEMMA DataTyped == MInv /\ TInv /\ (Backfill \/ BackfillOrphans \/ DefaultTenant) => TInv'
  <1> SUFFICES ASSUME MInv, TInv, Backfill \/ BackfillOrphans \/ DefaultTenant PROVE TInv'
    OBVIOUS
  <1>1. Running /\ Script[pc].op # "fk_add" /\ schema' = schema /\ UNCHANGED crashes
    BY DEF Backfill, BackfillOrphans, DefaultTenant, At, book
  <1>2. Advance \/ UNCHANGED <<pc, run>> \/ (UNCHANGED pc /\ \E c : run' = [run EXCEPT !.dflt = c])
    BY DEF Backfill, BackfillOrphans, DefaultTenant
  <1>3. CASE Advance
    BY <1>1, <1>3, ThenTyped DEF TInv
  <1>4. CASE UNCHANGED <<pc, run>>
    BY <1>1, <1>4, TypedStays
  <1>5. CASE UNCHANGED pc /\ \E c : run' = [run EXCEPT !.dflt = c]
    <2>1. run'.attempt = run.attempt /\ run'.building = run.building
      BY <1>5, SchemaIs
    <2>2. QED
      BY <1>1, <1>5, <2>1 DEF TInv
  <1>6. QED
    BY <1>2, <1>3, <1>4, <1>5

LEMMA IndexTyped == MInv /\ TInv /\ Index => TInv'
  <1> SUFFICES ASSUME MInv, TInv, Index PROVE TInv'
    OBVIOUS
  <1>1. /\ Running /\ Script[pc].op = "index" /\ crashes' = crashes /\ pc \in 1..140 /\ pc # 141
        /\ T = Script[pc].table
    BY Position DEF Index, At, book, MInv, T
  <1>2. schema.fkValid \subseteq schema.fk /\ schema.indexValid \subseteq schema.index
    BY DEF TInv
  <1>3. CASE /\ ~run.building /\ LeftoverIndex
             /\ schema' = [schema EXCEPT !.index = @ \ {T}]
             /\ UNCHANGED <<pc, run>>
    <2>1. /\ schema'.fk = schema.fk /\ schema'.fkValid = schema.fkValid
          /\ schema'.index = schema.index \ {T} /\ schema'.indexValid = schema.indexValid
      BY <1>3, SchemaIs
    <2>2. T \notin schema.indexValid
      BY <1>3 DEF LeftoverIndex
    <2>3. pc' = pc /\ run' = run
      BY <1>3
    <2>4. QED
      BY <1>1, <1>2, <1>3, <2>1, <2>2, <2>3 DEF TInv
  <1>4. CASE Advance /\ UNCHANGED schema
    BY <1>1, <1>2, <1>4, ThenTyped
  <1>5. CASE /\ T \notin schema.index
             /\ schema' = [schema EXCEPT !.index = @ \cup {T}]
             /\ run' = [run EXCEPT !.building = TRUE] /\ UNCHANGED pc
    <2>1. /\ schema'.fk = schema.fk /\ schema'.fkValid = schema.fkValid
          /\ schema'.index = schema.index \cup {T} /\ schema'.indexValid = schema.indexValid
      BY <1>5, SchemaIs
    <2>2. run'.attempt = run.attempt /\ pc' = pc
      BY <1>5, SchemaIs
    <2>3. QED
      BY <1>1, <1>2, <2>1, <2>2 DEF TInv
  <1>6. CASE /\ run.building /\ ~(T = "skill_names" /\ SameNames)
             /\ schema' = [schema EXCEPT !.indexValid = @ \cup {T}]
             /\ Advance
    <2>1. /\ schema'.fk = schema.fk /\ schema'.fkValid = schema.fkValid
          /\ schema'.index = schema.index /\ schema'.indexValid = schema.indexValid \cup {T}
      BY <1>6, SchemaIs
    <2>2. T \in schema.index
      BY <1>1, <1>6 DEF TInv
    <2>3. QED
      BY <1>1, <1>2, <1>6, <2>1, <2>2, ThenTyped
  <1>7. QED
    BY <1>3, <1>4, <1>5, <1>6 DEF Index

LEMMA IndexFailsTyped == TInv /\ IndexFails => TInv'
  BY TypedStays DEF IndexFails, Raise

LEMMA FaultTyped == MInv /\ TInv /\ (LockTimeout \/ Killed \/ Rerun) => TInv'
  <1> SUFFICES ASSUME MInv, TInv, LockTimeout \/ Killed \/ Rerun PROVE TInv'
    OBVIOUS
  <1>1. CASE Raise("lock") \/ Raise("killed")
    BY <1>1, TypedStays DEF Raise
  <1>2. CASE run.attempt # MaxLockAttempts /\ run' = [run EXCEPT !.attempt = @ + 1] /\ UNCHANGED <<db, schema, pc, book>>
    <2>1. run'.attempt = run.attempt + 1 /\ run'.building = run.building
      BY <1>2, SchemaIs
    <2>2. run'.attempt \in 1..MaxLockAttempts
      BY <1>2, <2>1, MigrationAssumption DEF TInv
    <2>3. schema' = schema /\ pc' = pc /\ crashes' = crashes
      BY <1>2 DEF book
    <2>4. QED
      BY <2>1, <2>2, <2>3 DEF TInv
  <1>3. CASE Rerun
    <2>1. schema' = schema /\ pc' = 1 /\ run'.attempt = 1 /\ run'.building = FALSE
      BY <1>3 DEF Rerun, Fresh
    <2>2. crashes' \in 0..MaxCrashes
      BY <1>3, MigrationAssumption DEF Rerun, TInv
    <2>3. Script[1].op # "fk_validate"
      BY FirstStatement
    <2>4. 1 \in 1..MaxLockAttempts
      BY MigrationAssumption
    <2>5. QED
      BY <2>1, <2>2, <2>3, <2>4 DEF TInv
  <1>4. QED
    BY <1>1, <1>2, <1>3 DEF LockTimeout, Killed

LEMMA TypedAtFirst == MigrationInit => TInv
  <1> SUFFICES ASSUME MigrationInit PROVE TInv
    OBVIOUS
  <1>1. /\ schema.fk = {} /\ schema.fkValid = {} /\ schema.index = {} /\ schema.indexValid = {}
        /\ pc = 1 /\ run.attempt = 1 /\ run.building = FALSE /\ crashes = 0
    BY DEF MigrationInit, Fresh
  <1>2. Script[1].op # "fk_validate"
    BY FirstStatement
  <1>3. 1 \in 1..MaxLockAttempts /\ 0 \in 0..MaxCrashes
    BY MigrationAssumption
  <1>4. QED
    BY <1>1, <1>2, <1>3 DEF TInv

LEMMA TypedSteps == MInv /\ TInv /\ [MigrationNext]_migrationVars => TInv'
  <1>1. MInv /\ TInv /\ Upgrade => TInv'
    BY ForeignKeyTyped, SchemaTyped, DataTyped, IndexTyped, IndexFailsTyped DEF Upgrade
  <1>2. ASSUME TInv, OldVersion \/ Request \/ UNCHANGED migrationVars PROVE TInv'
    <2>1. UNCHANGED <<schema, pc, run, crashes>>
      BY <1>2 DEF OldVersion, OldUpload, OldStatusChange, Request, migrationVars
    <2>2. QED
      BY <1>2, <2>1, TypedStays
  <1>3. QED
    BY <1>1, <1>2, FaultTyped DEF MigrationNext

LEMMA Typed == MigrationSpec => []TInv
  <1>1. QED
    BY MigrationInvariant, TypedAtFirst, TypedSteps, PTL DEF MigrationSpec

LEMMA RowsTyped == MInv /\ NInv /\ TInv => MigrationTypeOK
  <1> SUFFICES ASSUME MInv, NInv, TInv PROVE MigrationTypeOK
    OBVIOUS
  <1>1. pc \in 1..141 /\ failed \in {"no", "killed", "lock", "check", "unique"}
    BY DEF MInv, RunOK
  <1>2. schema.checkValid \subseteq schema.check
    BY DEF MInv, SchemaOK
  <1>3. \A x \in DOMAIN db : db[x].tenant \in RowsOf(db, "companies") \cup {NULL}
    BY References DEF NInv
  <1>4. Len(Script) + 1 = 141
    BY ScriptLength
  <1>5. QED
    BY <1>1, <1>2, <1>3, <1>4 DEF MigrationTypeOK, TInv

\* At the end the rows the old version did not write have an organisation.
LEMMA AllProvided ==
    ASSUME NInv, pc = 141, NEW x \in DOMAIN db \ live,
           db[x].table \in Operational \/ (db[x].table = "users" /\ db[x].role # "Candidate")
    PROVE  db[x].tenant # NULL /\ Home(db, live, x, db[x].tenant)
  <1>1. db[x].tenant # NULL
    BY AllSettled DEF NInv, Provided
  <1>2. QED
    BY <1>1 DEF NInv, Placed

\* The oldest of the applications before the migration is the first of all.
LEMMA OldestIsFirst ==
    ASSUME NInv, NEW c, NEW apps, apps # {},
           apps = {a \in RowsOf(db, "applications") \cap Original : db[a].cand = c}
    PROVE  IsFirst(db, Oldest(apps), c) /\ Oldest(apps) \in DOMAIN db
  <1>1. apps \subseteq DOMAIN db /\ AllKeys(db)
    BY DEF NInv, RowsOf
  <1>2. PICK o : o = Oldest(apps)
    OBVIOUS
  <1>3. o \in apps /\ \A y \in apps : db[o].at <= db[y].at
    BY <1>1, <1>2, OldestRow
  <1>4. \A x \in RowsOf(db, "applications") :
          /\ db[x].at \in Nat
          /\ x \in Original => db[x].at < 9
          /\ x \notin Original => db[x].at = 9
    BY <1>1 DEF NInv, Written, AllKeys, Keys, RowsOf, Original
  <1>5. o \in RowsOf(db, "applications") /\ db[o].cand = c /\ db[o].at < 9 /\ db[o].at \in Nat
    BY <1>3, <1>4
  <1>6. ASSUME NEW b \in RowsOf(db, "applications"), db[b].cand = c PROVE db[o].at <= db[b].at
    <2>1. CASE b \in Original
      BY <1>3, <1>6, <2>1
    <2>2. CASE b \notin Original
      BY <1>4, <1>5, <2>2
    <2>3. QED
      BY <2>1, <2>2
  <1>7. QED
    BY <1>1, <1>2, <1>3, <1>5, <1>6 DEF IsFirst

LEMMA Owners == NInv => OwnersKept
  <1> SUFFICES ASSUME NInv, Done, NEW x \in Original,
                      NEW apps, apps = {a \in RowsOf(db, "applications") \cap Original : db[a].cand = db[x].cand}
               PROVE  /\ db[x].table = "jobs" /\ db[x].company # NULL => db[x].tenant = db[x].company
                      /\ db[x].table = "users" /\ db[x].role = "Candidate" => db[x].tenant = NULL
                      /\ db[x].table = "users" /\ db[x].role # "Candidate" =>
                            \E c \in RowsOf(db, "companies") :
                                db[x].tenant = c /\ (db[c].up = x \/ db[c].role = "default")
                      /\ db[x].table = "jobs" /\ db[x].company = NULL /\ db[db[x].up].role # "Candidate" =>
                            db[x].tenant = db[db[x].up].tenant
                      /\ db[x].table = "resumes" /\ apps # {} => db[x].tenant = db[Oldest(apps)].tenant
                      /\ db[x].table = "skills" => db[x].tenant = NULL
    BY DEF OwnersKept
  <1>1. pc = 141
    BY ScriptLength DEF Done
  <1>2. x \in DOMAIN db \ live /\ x \notin live \cup NewIds
    BY DEF Original
  <1>3. "jobs" \in Operational /\ "resumes" \in Operational
    BY OperationalTables
  <1>4. db[x].tenant # NULL => Home(db, live, x, db[x].tenant)
    BY <1>2 DEF NInv, Placed
  <1>5. db[x].table \in {"jobs", "resumes"} \/ (db[x].table = "users" /\ db[x].role # "Candidate") =>
           db[x].tenant # NULL
    BY <1>1, <1>2, <1>3, AllProvided
  <1>6. db[x].table = "resumes" /\ apps # {} => db[x].tenant = db[Oldest(apps)].tenant
    <2>1. HAVE db[x].table = "resumes" /\ apps # {}
    <2>2. IsFirst(db, Oldest(apps), db[x].cand) /\ Oldest(apps) \in DOMAIN db
      BY <2>1, OldestIsFirst
    <2>3. QED
      BY <1>2, <1>4, <1>5, <2>1, <2>2 DEF Home
  <1>7. QED
    BY <1>4, <1>5, <1>6 DEF Home

LEMMA OneDefaultOnly == NInv => OneDefault
  <1> SUFFICES ASSUME NInv PROVE Cardinality(DefaultCompanies) <= 1
    BY DEF OneDefault
  <1>1. CASE DefaultCompanies = {}
    <2>1. Cardinality(DefaultCompanies) = 0
      BY <1>1, FS_EmptySet
    <2>2. QED
      BY <2>1
  <1>2. CASE DefaultCompanies # {}
    <2>1. PICK c : c \in DefaultCompanies
      BY <1>2
    <2>2. DefaultCompanies = {c}
      BY <2>1, DefaultsAre DEF NInv, Defaults
    <2>3. Cardinality({c}) = 1
      BY FS_Singleton
    <2>4. QED
      BY <2>2, <2>3
  <1>3. QED
    BY <1>1, <1>2

LEMMA Links == NInv => LinksInTenant
  <1> SUFFICES ASSUME NInv, Done, NEW x \in DOMAIN db \ live,
                      db[x].table \in Operational \ {"jobs", "resumes"}, db[x].up \notin live
               PROVE  db[x].tenant = db[db[x].up].tenant
    BY DEF LinksInTenant
  <1>1. pc = 141
    BY ScriptLength DEF Done
  <1>2. Home(db, live, x, db[x].tenant)
    BY <1>1, AllProvided
  <1>3. db[x].table \in Dependent
    BY OperationalTables DEF Dependent
  <1>4. QED
    BY <1>2, <1>3 DEF Home

\* However often the migration was cut off and whatever the old version wrote meanwhile,
\* at its end every row from before is in the organisation that owned it, and the rows
\* the new version writes are in that of the rows they refer to; there is at most one
\* default organisation.
THEOREM RowsArePlaced == MigrationSpec => []RowsPlaced
  <1>1. MInv /\ NInv /\ TInv => RowsPlaced
    BY RowsTyped, Owners, OneDefaultOnly, Links DEF RowsPlaced
  <1>2. QED
    BY <1>1, MigrationInvariant, PlacementInvariant, Typed, PTL

(***************************************************************************)
(* Who sees what                                                           *)
(***************************************************************************)

LEMMA AllPolicies ==
    ASSUME NEW p \in Range(POLICIES)
    PROVE  \/ p = Policy("companies", "tenant_self_read", "SELECT")
           \/ p = Policy("companies", "tenant_self_update", "UPDATE")
           \/ p = Policy("candidates", "candidate_self", "ALL")
           \/ p = Policy("candidates", "tenant_applicants_read", "SELECT")
           \/ p = Policy("jobs", "tenant_isolation", "ALL")
           \/ p = Policy("jobs", "public_read", "SELECT")
           \/ p = Policy("applications", "tenant_isolation", "ALL")
           \/ p = Policy("applications", "candidate_read", "SELECT")
           \/ p = Policy("applications", "candidate_apply", "INSERT")
           \/ p = Policy("applications", "candidate_respond", "UPDATE")
           \/ p = Policy("resumes", "tenant_isolation", "ALL")
           \/ p = Policy("resumes", "candidate_read", "SELECT")
           \/ p = Policy("resumes", "candidate_upload", "INSERT")
           \/ p = Policy("interviews", "tenant_isolation", "ALL")
           \/ p = Policy("status_history", "tenant_isolation", "ALL")
           \/ p = Policy("status_history", "candidate_read", "SELECT")
           \/ p = Policy("status_history", "candidate_insert", "INSERT")
           \/ p = Policy("interview_question_sets", "tenant_isolation", "ALL")
           \/ p = Policy("interview_questions", "tenant_isolation", "ALL")
           \/ p = Policy("skills", "shared_read", "SELECT")
           \/ p = Policy("skills", "tenant_custom", "ALL")
  <1>1. PICK i \in 1..21 : p = POLICIES[i]
    BY Ranges
  <1>2. \/ i = 1 \/ i = 2 \/ i = 3 \/ i = 4 \/ i = 5 \/ i = 6 \/ i = 7 \/ i = 8 \/ i = 9 \/ i = 10 \/ i = 11
        \/ i = 12 \/ i = 13 \/ i = 14 \/ i = 15 \/ i = 16 \/ i = 17 \/ i = 18 \/ i = 19 \/ i = 20 \/ i = 21
    OBVIOUS
  <1>3. QED
    BY <1>1, <1>2 DEF POLICIES

\* The policies a SELECT of a table is subject to.
LEMMA ReadPolicies ==
    ASSUME NEW p \in Range(POLICIES), p.command \in {"SELECT", "ALL"}
    PROVE  /\ p.table = "companies" => p.name = "tenant_self_read"
           /\ p.table = "candidates" => p.name \in {"candidate_self", "tenant_applicants_read"}
           /\ p.table = "jobs" => p.name \in {"tenant_isolation", "public_read"}
           /\ p.table \in {"applications", "resumes", "status_history"} =>
                 p.name \in {"tenant_isolation", "candidate_read"}
           /\ p.table \in {"interviews", "interview_question_sets", "interview_questions"} =>
                 p.name = "tenant_isolation"
           /\ p.table = "skills" => p.name \in {"shared_read", "tenant_custom"}
  BY AllPolicies DEF Policy

\* Policies there are.
LEMMA ThePolicies ==
    /\ \A t \in Operational : \E p \in Range(POLICIES) :
          p.table = t /\ p.name = "tenant_isolation" /\ p.command = "ALL"
    /\ \A t \in {"applications", "resumes"} : \E p \in Range(POLICIES) :
          p.table = t /\ p.name = "candidate_read" /\ p.command = "SELECT"
    /\ \E p \in Range(POLICIES) : p.table = "applications" /\ p.name = "candidate_apply" /\ p.command = "INSERT"
    /\ \E p \in Range(POLICIES) : p.table = "applications" /\ p.name = "candidate_respond" /\ p.command = "UPDATE"
    /\ \E p \in Range(POLICIES) : p.table = "resumes" /\ p.name = "candidate_upload" /\ p.command = "INSERT"
    /\ \E p \in Range(POLICIES) : p.table = "status_history" /\ p.name = "candidate_insert" /\ p.command = "INSERT"
    /\ \E p \in Range(POLICIES) : p.table = "skills" /\ p.name = "shared_read" /\ p.command = "SELECT"
  <1>1. \A i \in 1..21 : POLICIES[i] \in Range(POLICIES)
    BY Ranges
  <1>2. /\ POLICIES[5] = Policy("jobs", "tenant_isolation", "ALL")
        /\ POLICIES[7] = Policy("applications", "tenant_isolation", "ALL")
        /\ POLICIES[8] = Policy("applications", "candidate_read", "SELECT")
        /\ POLICIES[9] = Policy("applications", "candidate_apply", "INSERT")
        /\ POLICIES[10] = Policy("applications", "candidate_respond", "UPDATE")
        /\ POLICIES[11] = Policy("resumes", "tenant_isolation", "ALL")
        /\ POLICIES[12] = Policy("resumes", "candidate_read", "SELECT")
        /\ POLICIES[13] = Policy("resumes", "candidate_upload", "INSERT")
        /\ POLICIES[14] = Policy("interviews", "tenant_isolation", "ALL")
        /\ POLICIES[15] = Policy("status_history", "tenant_isolation", "ALL")
        /\ POLICIES[17] = Policy("status_history", "candidate_insert", "INSERT")
        /\ POLICIES[18] = Policy("interview_question_sets", "tenant_isolation", "ALL")
        /\ POLICIES[19] = Policy("interview_questions", "tenant_isolation", "ALL")
        /\ POLICIES[20] = Policy("skills", "shared_read", "SELECT")
    BY DEF POLICIES
  <1>3. \A t, n, c : Policy(t, n, c).table = t /\ Policy(t, n, c).name = n /\ Policy(t, n, c).command = c
    BY DEF Policy
  <1>4. /\ Policy("jobs", "tenant_isolation", "ALL") \in Range(POLICIES)
        /\ Policy("applications", "tenant_isolation", "ALL") \in Range(POLICIES)
        /\ Policy("applications", "candidate_read", "SELECT") \in Range(POLICIES)
        /\ Policy("applications", "candidate_apply", "INSERT") \in Range(POLICIES)
        /\ Policy("applications", "candidate_respond", "UPDATE") \in Range(POLICIES)
        /\ Policy("resumes", "tenant_isolation", "ALL") \in Range(POLICIES)
        /\ Policy("resumes", "candidate_read", "SELECT") \in Range(POLICIES)
        /\ Policy("resumes", "candidate_upload", "INSERT") \in Range(POLICIES)
        /\ Policy("interviews", "tenant_isolation", "ALL") \in Range(POLICIES)
        /\ Policy("status_history", "tenant_isolation", "ALL") \in Range(POLICIES)
        /\ Policy("status_history", "candidate_insert", "INSERT") \in Range(POLICIES)
        /\ Policy("interview_question_sets", "tenant_isolation", "ALL") \in Range(POLICIES)
        /\ Policy("interview_questions", "tenant_isolation", "ALL") \in Range(POLICIES)
        /\ Policy("skills", "shared_read", "SELECT") \in Range(POLICIES)
    BY <1>1, <1>2
  <1>5. \A t \in Operational : Policy(t, "tenant_isolation", "ALL") \in Range(POLICIES)
    BY <1>4, OperationalTables
  <1>6. QED
    BY <1>3, <1>4, <1>5

LEMMA ProtectedTables ==
    Operational \cup {"companies", "candidates", "skills"} \subseteq Range(RLS_TABLES)
  <1>1. /\ Lists(Tables, <<"companies", "candidates">>, 2) /\ Lists(Tables, TENANT_TABLES, 7)
        /\ Lists(Tables, <<"skills">>, 1)
    BY TenantTables DEF Lists, Tables
  <1>2. PICK a, b, c : a = <<"companies", "candidates">> /\ b = TENANT_TABLES /\ c = <<"skills">>
    OBVIOUS
  <1>3. Lists(Tables, a, 2) /\ Lists(Tables, b, 7) /\ Lists(Tables, c, 1)
    BY <1>1, <1>2
  <1>4. Lists(Tables, a \o b, 2 + 7) /\ Joins(a \o b, a, b, 2, 7)
    BY <1>3, Chained
  <1>5. PICK r : r = a \o b
    OBVIOUS
  <1>6. Lists(Tables, r, 9) /\ Joins(r, a, b, 2, 7)
    BY <1>4, <1>5
  <1>7. Joins(r \o c, r, c, 9, 1)
    BY <1>3, <1>6, Chained
  <1>8. RLS_TABLES = r \o c
    BY <1>2, <1>5 DEF RLS_TABLES
  <1>9. Joins(RLS_TABLES, r, c, 9, 1)
    BY <1>7, <1>8
  <1>10. \A i \in 1..10 : RLS_TABLES[i] \in Range(RLS_TABLES)
    BY Ranges
  <1>11. /\ \A i \in 1..9 : r[i] \in Range(RLS_TABLES)
         /\ c[1] \in Range(RLS_TABLES)
    <2>1. \A i \in 1..9 : RLS_TABLES[i] = r[i] /\ i \in 1..10
      BY <1>9 DEF Joins
    <2>2. RLS_TABLES[9 + 1] = c[1] /\ 9 + 1 \in 1..10
      BY <1>9 DEF Joins
    <2>3. QED
      BY <1>10, <2>1, <2>2
  <1>12. a[1] \in Range(RLS_TABLES) /\ a[2] \in Range(RLS_TABLES)
    <2>1. r[1] = a[1] /\ r[2] = a[2]
      BY <1>6 DEF Joins
    <2>2. QED
      BY <1>11, <2>1
  <1>13. \A i \in 1..7 : b[i] \in Range(RLS_TABLES)
    <2>1. \A i \in 1..7 : r[2 + i] = b[i] /\ 2 + i \in 1..9
      BY <1>6 DEF Joins
    <2>2. QED
      BY <1>11, <2>1
  <1>14. a[1] = "companies" /\ a[2] = "candidates" /\ c[1] = "skills"
    BY <1>2
  <1>15. Operational \subseteq Range(RLS_TABLES)
    BY <1>2, <1>13, Ranges
  <1>16. QED
    BY <1>11, <1>12, <1>14, <1>15

\* What the policies of SELECT let through.
LEMMA UsingIs ==
    ASSUME NEW d, NEW ctx, NEW p, NEW x
    PROVE  /\ p.name = "tenant_self_read" => (Using(d, ctx, p, x) <=> Equal(x, ctx.tenant))
           /\ p.name = "candidate_self" =>
                 (Using(d, ctx, p, x) <=> ctx.scope = "candidate" /\ Equal(d[x].up, ctx.user))
           /\ p.name = "tenant_applicants_read" /\ Using(d, ctx, p, x) =>
                 \E a \in RowsOf(d, "applications") : TenantMatch(ctx, d[a])
           /\ p.name \in {"tenant_isolation", "tenant_custom"} => (Using(d, ctx, p, x) <=> TenantMatch(ctx, d[x]))
           /\ p.name = "public_read" => (Using(d, ctx, p, x) <=> ctx.scope \in {"public", "candidate"})
           /\ p.name = "candidate_read" /\ p.table # "status_history" =>
                 (Using(d, ctx, p, x) <=> OwnCandidate(d, ctx, d[x]))
           /\ p.name = "candidate_read" /\ p.table = "status_history" =>
                 (Using(d, ctx, p, x) <=> HistoryOfOwn(d, ctx, d[x]))
           /\ p.name = "candidate_respond" => (Using(d, ctx, p, x) <=> OwnCandidate(d, ctx, d[x]))
           /\ p.name = "shared_read" => (Using(d, ctx, p, x) <=> d[x].tenant = NULL \/ TenantMatch(ctx, d[x]))
  <1>1. CASE p.name = "tenant_self_read"
    BY <1>1 DEF Using
  <1>2. CASE p.name = "candidate_self"
    BY <1>2 DEF Using
  <1>3. CASE p.name = "tenant_applicants_read"
    BY <1>3 DEF Using
  <1>4. CASE p.name \in {"tenant_isolation", "tenant_custom"}
    BY <1>4 DEF Using
  <1>5. CASE p.name = "public_read"
    BY <1>5 DEF Using
  <1>6. CASE p.name = "candidate_read" /\ p.table # "status_history"
    BY <1>6 DEF Using
  <1>7. CASE p.name = "candidate_read" /\ p.table = "status_history"
    BY <1>7 DEF Using
  <1>8. CASE p.name = "shared_read"
    BY <1>8 DEF Using
  <1>9. CASE p.name = "candidate_respond"
    BY <1>9 DEF Using
  <1>10. QED
    BY <1>1, <1>2, <1>3, <1>4, <1>5, <1>6, <1>7, <1>8, <1>9

\* Who is no candidate owns no profile, and who is no staff has no tenant.
LEMMA NoOne ==
    ASSUME NEW d, NEW ctx
    PROVE  /\ ctx.scope # "candidate" =>
                 /\ CurrentCandidates(d, ctx) = {}
                 /\ \A r : ~OwnCandidate(d, ctx, r) /\ ~HistoryOfOwn(d, ctx, r)
           /\ ctx.tenant = NULL => \A r : ~TenantMatch(ctx, r)
  <1>1. ASSUME ctx.scope # "candidate" PROVE CurrentCandidates(d, ctx) = {}
    BY <1>1 DEF CurrentCandidates
  <1>2. ctx.tenant = NULL => \A r : ~TenantMatch(ctx, r)
    BY DEF TenantMatch, Equal
  <1>3. QED
    BY <1>1, <1>2 DEF OwnCandidate, HistoryOfOwn

Visible(d, ctx, x) == RlsVisible(d, Range(RLS_TABLES), Range(POLICIES), ctx, x)

\* Outside the system's own sessions a policy has to let the row through.
LEMMA VisibleIs ==
    ASSUME NEW d, NEW ctx, ctx.scope # "system", NEW x, d[x].table \in Operational \cup {"companies", "candidates", "skills"}
    PROVE  Visible(d, ctx, x) <=>
             \E p \in Range(POLICIES) : p.table = d[x].table /\ p.command \in {"SELECT", "ALL"} /\ Using(d, ctx, p, x)
  BY ProtectedTables DEF Visible, RlsVisible

LEMMA StaffSees ==
    ASSUME NEW d, NEW ctx, ctx.scope = "tenant", ctx.tenant # NULL,
           NEW x, d[x].table \in Operational \cup {"skills"}
    PROVE  /\ OrmVisible(d, ctx, x) <=> Visible(d, ctx, x)
           /\ OrmVisible(d, ctx, x) => d[x].tenant = ctx.tenant \/ d[x].table = "skills"
  <1>1. TenantMatch(ctx, d[x]) <=> d[x].tenant = ctx.tenant
    BY DEF TenantMatch, Equal
  <1>2. "skills" \notin Operational
    BY OperationalTables
  <1>3. CASE d[x].table = "skills"
    <2>1. OrmVisible(d, ctx, x) <=> d[x].tenant = NULL \/ TenantMatch(ctx, d[x])
      BY <1>1, <1>2, <1>3 DEF OrmVisible
    <2>2. ASSUME OrmVisible(d, ctx, x) PROVE Visible(d, ctx, x)
      <3>1. PICK p \in Range(POLICIES) : p.table = "skills" /\ p.name = "shared_read" /\ p.command = "SELECT"
        BY ThePolicies
      <3>2. Using(d, ctx, p, x)
        BY <2>1, <2>2, <3>1, UsingIs
      <3>3. QED
        BY <1>3, <3>1, <3>2, VisibleIs
    <2>3. ASSUME Visible(d, ctx, x) PROVE OrmVisible(d, ctx, x)
      <3>1. PICK p \in Range(POLICIES) :
              p.table = d[x].table /\ p.command \in {"SELECT", "ALL"} /\ Using(d, ctx, p, x)
        BY <1>3, <2>3, VisibleIs
      <3>2. p.name \in {"shared_read", "tenant_custom"}
        BY <1>3, <3>1, ReadPolicies
      <3>3. QED
        BY <2>1, <3>1, <3>2, UsingIs
    <2>4. QED
      BY <1>3, <2>2, <2>3
  <1>4. CASE d[x].table \in Operational
    <2>1. OrmVisible(d, ctx, x) <=> TenantMatch(ctx, d[x])
      BY <1>1, <1>2, <1>4 DEF OrmVisible
    <2>2. ASSUME OrmVisible(d, ctx, x) PROVE Visible(d, ctx, x)
      <3>1. PICK p \in Range(POLICIES) : p.table = d[x].table /\ p.name = "tenant_isolation" /\ p.command = "ALL"
        BY <1>4, ThePolicies
      <3>2. Using(d, ctx, p, x)
        BY <2>1, <2>2, <3>1, UsingIs
      <3>3. QED
        BY <1>4, <3>1, <3>2, VisibleIs
    <2>3. ASSUME Visible(d, ctx, x) PROVE OrmVisible(d, ctx, x)
      <3>1. PICK p \in Range(POLICIES) :
              p.table = d[x].table /\ p.command \in {"SELECT", "ALL"} /\ Using(d, ctx, p, x)
        BY <1>4, <2>3, VisibleIs
      <3>2. p.name \in {"tenant_isolation", "public_read", "candidate_read"}
        BY <1>4, <3>1, ReadPolicies, OperationalTables
      <3>3. p.name # "public_read" \/ ~Using(d, ctx, p, x)
        BY UsingIs
      <3>4. p.name # "candidate_read" \/ ~Using(d, ctx, p, x)
        <4>1. ctx.scope # "candidate"
          OBVIOUS
        <4>2. ~OwnCandidate(d, ctx, d[x]) /\ ~HistoryOfOwn(d, ctx, d[x])
          BY <4>1, NoOne
        <4>3. QED
          BY <4>2, UsingIs
      <3>5. QED
        BY <2>1, <3>1, <3>2, <3>3, <3>4, UsingIs
    <2>4. QED
      BY <1>1, <2>1, <2>2, <2>3
  <1>5. QED
    BY <1>3, <1>4

\* What a session without a tenant sees.
LEMMA OthersSee ==
    ASSUME NEW d, NEW ctx, ctx.scope \in {"public", "candidate"}, ctx.tenant = NULL,
           NEW x, d[x].table \in Operational \cup {"companies", "candidates", "skills"}, Visible(d, ctx, x)
    PROVE  \/ d[x].table = "jobs"
           \/ d[x].table = "skills" /\ d[x].tenant = NULL
           \/ d[x].table = "candidates" /\ ctx.scope = "candidate" /\ Equal(d[x].up, ctx.user)
           \/ d[x].table \in {"applications", "resumes"} /\ OwnCandidate(d, ctx, d[x])
           \/ d[x].table = "status_history" /\ HistoryOfOwn(d, ctx, d[x])
  <1>1. PICK p \in Range(POLICIES) : p.table = d[x].table /\ p.command \in {"SELECT", "ALL"} /\ Using(d, ctx, p, x)
    BY VisibleIs
  <1>2. \A r : ~TenantMatch(ctx, r)
    BY NoOne
  <1>3. ~Equal(x, ctx.tenant)
    BY DEF Equal
  <1>4. p.name \notin {"tenant_isolation", "tenant_custom"} /\ p.name # "tenant_applicants_read"
        /\ p.name # "tenant_self_read"
    BY <1>1, <1>2, <1>3, UsingIs
  <1>5. CASE d[x].table = "candidates"
    BY <1>1, <1>4, <1>5, ReadPolicies, UsingIs
  <1>6. CASE d[x].table \in {"applications", "resumes"}
    BY <1>1, <1>4, <1>6, ReadPolicies, UsingIs
  <1>7. CASE d[x].table = "status_history"
    BY <1>1, <1>4, <1>7, ReadPolicies, UsingIs
  <1>8. CASE d[x].table = "skills"
    BY <1>1, <1>2, <1>4, <1>8, ReadPolicies, UsingIs
  <1>9. CASE d[x].table \in {"companies", "interviews", "interview_question_sets", "interview_questions"}
    BY <1>1, <1>4, <1>9, ReadPolicies
  <1>10. QED
    BY <1>5, <1>6, <1>7, <1>8, <1>9, OperationalTables

LEMMA WithCheckIs ==
    ASSUME NEW d, NEW ctx, NEW p, NEW r
    PROVE  /\ p.name = "tenant_isolation" => (WithCheck(d, ctx, p, r) <=> TenantMatch(ctx, r))
           /\ p.name \in {"candidate_apply", "candidate_respond"} =>
                 (WithCheck(d, ctx, p, r) <=> OwnCandidate(d, ctx, r) /\ JobTenant(d, ctx, r))
           /\ p.name = "candidate_upload" =>
                 (WithCheck(d, ctx, p, r) <=>
                    /\ OwnCandidate(d, ctx, r)
                    /\ \E j \in RowsOf(d, "jobs") : SeesJob(ctx, d[j]) /\ Equal(d[j].tenant, r.tenant))
           /\ p.name = "candidate_insert" =>
                 (WithCheck(d, ctx, p, r) <=>
                    \E a \in RowsOf(d, "applications") :
                        /\ a = r.up /\ SeesApplication(d, ctx, d[a])
                        /\ OwnCandidate(d, ctx, d[a]) /\ Equal(d[a].tenant, r.tenant))
  <1>1. CASE p.name = "tenant_isolation"
    BY <1>1 DEF WithCheck
  <1>2. CASE p.name \in {"candidate_apply", "candidate_respond"}
    BY <1>2 DEF WithCheck
  <1>3. CASE p.name = "candidate_upload"
    BY <1>3 DEF WithCheck
  <1>4. CASE p.name = "candidate_insert"
    BY <1>4 DEF WithCheck
  <1>5. QED
    BY <1>1, <1>2, <1>3, <1>4

MayInsert(d, ctx, r) == RlsMayInsert(d, Range(RLS_TABLES), Range(POLICIES), ctx, r)

LEMMA StaffInserts ==
    ASSUME NEW d, NEW ctx, NEW r, r.table \in Operational, r.tenant # NULL, r.tenant = ctx.tenant
    PROVE  MayInsert(d, ctx, r)
  <1>1. PICK p \in Range(POLICIES) : p.table = r.table /\ p.name = "tenant_isolation" /\ p.command = "ALL"
    BY ThePolicies
  <1>2. WithCheck(d, ctx, p, r)
    BY <1>1, WithCheckIs DEF TenantMatch, Equal
  <1>3. QED
    BY <1>1, <1>2 DEF MayInsert, RlsMayInsert

LEMMA CandidateApplies ==
    ASSUME NEW d, NEW ctx, ctx.scope = "candidate", NEW r, r.table = "applications",
           r.cand \in CurrentCandidates(d, ctx), r.up \in DOMAIN d, r.tenant # NULL, r.tenant = d[r.up].tenant
    PROVE  MayInsert(d, ctx, r)
  <1>1. PICK p \in Range(POLICIES) :
          p.table = "applications" /\ p.name = "candidate_apply" /\ p.command = "INSERT"
    BY ThePolicies
  <1>2. OwnCandidate(d, ctx, r) /\ JobTenant(d, ctx, r)
    BY DEF OwnCandidate, JobTenant, SeesJob, Equal
  <1>3. WithCheck(d, ctx, p, r)
    BY <1>1, <1>2, WithCheckIs
  <1>4. QED
    BY <1>1, <1>3 DEF MayInsert, RlsMayInsert

LEMMA CandidateUploads ==
    ASSUME NEW d, NEW ctx, ctx.scope = "candidate", NEW r, r.table = "resumes",
           r.cand \in CurrentCandidates(d, ctx), NEW j \in RowsOf(d, "jobs"),
           r.tenant # NULL, r.tenant = d[j].tenant
    PROVE  MayInsert(d, ctx, r)
  <1>1. PICK p \in Range(POLICIES) :
          p.table = "resumes" /\ p.name = "candidate_upload" /\ p.command = "INSERT"
    BY ThePolicies
  <1>2. OwnCandidate(d, ctx, r) /\ SeesJob(ctx, d[j]) /\ Equal(d[j].tenant, r.tenant)
    BY DEF OwnCandidate, SeesJob, Equal
  <1>3. WithCheck(d, ctx, p, r)
    BY <1>1, <1>2, WithCheckIs
  <1>4. QED
    BY <1>1, <1>3 DEF MayInsert, RlsMayInsert

LEMMA CandidateResponds ==
    ASSUME NEW d, NEW ctx, ctx.scope = "candidate", NEW r, r.table = "status_history",
           r.up \in RowsOf(d, "applications"), d[r.up].cand \in CurrentCandidates(d, ctx),
           r.tenant # NULL, r.tenant = d[r.up].tenant
    PROVE  MayInsert(d, ctx, r)
  <1>1. PICK p \in Range(POLICIES) :
          p.table = "status_history" /\ p.name = "candidate_insert" /\ p.command = "INSERT"
    BY ThePolicies
  <1>2. OwnCandidate(d, ctx, d[r.up]) /\ SeesApplication(d, ctx, d[r.up]) /\ Equal(d[r.up].tenant, r.tenant)
    BY DEF OwnCandidate, SeesApplication, Equal
  <1>3. WithCheck(d, ctx, p, r)
    BY <1>1, <1>2, WithCheckIs
  <1>4. QED
    BY <1>1, <1>3 DEF MayInsert, RlsMayInsert

MayUpdate(d, ctx, x) == RlsMayUpdate(d, Range(RLS_TABLES), Range(POLICIES), ctx, x)

\* Staff may write back a row of its organisation.
LEMMA StaffUpdates ==
    ASSUME NEW d, NEW ctx, NEW x, d[x].table \in Operational, d[x].tenant # NULL, d[x].tenant = ctx.tenant
    PROVE  MayUpdate(d, ctx, x)
  <1>1. PICK p \in Range(POLICIES) : p.table = d[x].table /\ p.name = "tenant_isolation" /\ p.command = "ALL"
    BY ThePolicies
  <1>2. TenantMatch(ctx, d[x])
    BY DEF TenantMatch, Equal
  <1>3. Using(d, ctx, p, x) /\ WithCheck(d, ctx, p, d[x])
    BY <1>1, <1>2, UsingIs, WithCheckIs
  <1>4. QED
    BY <1>1, <1>3 DEF MayUpdate, RlsMayUpdate

\* A candidate may write back an own application, if it is in the organisation of its job.
LEMMA CandidateUpdates ==
    ASSUME NEW d, NEW ctx, ctx.scope = "candidate", NEW x, d[x].table = "applications",
           d[x].cand \in CurrentCandidates(d, ctx), d[x].up \in DOMAIN d, d[x].tenant # NULL,
           d[x].tenant = d[d[x].up].tenant
    PROVE  MayUpdate(d, ctx, x)
  <1>1. PICK p \in Range(POLICIES) :
          p.table = "applications" /\ p.name = "candidate_respond" /\ p.command = "UPDATE"
    BY ThePolicies
  <1>2. OwnCandidate(d, ctx, d[x]) /\ JobTenant(d, ctx, d[x])
    BY DEF OwnCandidate, JobTenant, SeesJob, Equal
  <1>3. Using(d, ctx, p, x) /\ WithCheck(d, ctx, p, d[x])
    BY <1>1, <1>2, UsingIs, WithCheckIs
  <1>4. QED
    BY <1>1, <1>3 DEF MayUpdate, RlsMayUpdate

-----------------------------------------------------------------------------
(* The ids, the tables, and what is refused *)

\* Every row has an id of the assumption and is of a table the program knows.
Stocked(d) == DOMAIN d \subseteq RowIds /\ \A x \in DOMAIN d : d[x].table \in StoredTables

\* A request was refused only over a row the old version wrote during the migration.
VInv == Stocked(db) /\ denied \subseteq live

LEMMA RetenantedStocked ==
    ASSUME NEW d, NEW e, NEW b, NEW f, Retenanted(d, e, b, f), Stocked(d)
    PROVE  Stocked(e)
  BY DEF Retenanted, Stocked

LEMMA JoinedStocked ==
    ASSUME NEW d, NEW new, NEW e, Stocked(d), Stocked(new),
           e = [x \in DOMAIN d \cup DOMAIN new |-> IF x \in DOMAIN new THEN new[x] ELSE d[x]]
    PROVE  Stocked(e)
  <1>1. DOMAIN e = DOMAIN d \cup DOMAIN new
    OBVIOUS
  <1>2. ASSUME NEW x \in DOMAIN e PROVE e[x].table \in StoredTables
    <2>1. CASE x \in DOMAIN new
      BY <2>1 DEF Stocked
    <2>2. CASE x \notin DOMAIN new
      BY <2>2 DEF Stocked
    <2>3. QED
      BY <2>1, <2>2
  <1>3. QED
    BY <1>1, <1>2 DEF Stocked

LEMMA UpdateStocked ==
    ASSUME MInv, Stocked(db), NEW b, NEW t, b \subseteq Untenanted(t), NEW f,
           db' = [x \in DOMAIN db |-> IF x \in b THEN [db[x] EXCEPT !.tenant = f[x]] ELSE db[x]]
    PROVE  Stocked(db')
  <1>1. PICK d, e : d = db /\ e = db'
    OBVIOUS
  <1>2. \A x \in b : x \in DOMAIN d => d[x].tenant = NULL
    BY <1>1 DEF Untenanted
  <1>3. Rows(d)
    BY <1>1 DEF MInv
  <1>4. e = [x \in DOMAIN d |-> IF x \in b THEN [d[x] EXCEPT !.tenant = f[x]] ELSE d[x]]
    BY <1>1
  <1>5. Retenanted(d, e, b, f)
    BY <1>2, <1>3, <1>4, Retenants
  <1>6. QED
    BY <1>1, <1>5, RetenantedStocked

LEMMA WithStocked ==
    ASSUME Stocked(db), NEW new, Stocked(new), db' = With(new)
    PROVE  Stocked(db')
  <1>1. PICK d, e : d = db /\ e = db'
    OBVIOUS
  <1>2. e = [x \in DOMAIN d \cup DOMAIN new |-> IF x \in DOMAIN new THEN new[x] ELSE d[x]]
    BY <1>1 DEF With
  <1>3. QED
    BY <1>1, <1>2, JoinedStocked

LEMMA FreshStored ==
    /\ NewIds \subseteq RowIds /\ LiveIds \subseteq RowIds /\ DefaultIds \subseteq RowIds
    /\ Operational \subseteq StoredTables /\ "companies" \in StoredTables
  <1>1. NewIds \subseteq RowIds /\ LiveIds \subseteq RowIds /\ DefaultIds \subseteq RowIds
    <2>1. PICK U : U = UNION {DOMAIN d : d \in Databases}
      OBVIOUS
    <2>2. RowIds = U \cup DefaultIds \cup LiveIds \cup NewIds
      BY <2>1, Zenon DEF RowIds
    <2>3. QED
      BY <2>2
  <1>2. QED
    BY <1>1 DEF StoredTables

LEMMA DataStocked == MInv /\ NInv /\ VInv /\ (Backfill \/ BackfillOrphans) => VInv'
  <1> SUFFICES ASSUME MInv, NInv, VInv, Backfill \/ BackfillOrphans PROVE VInv'
    OBVIOUS
  <1>1. denied' = denied /\ live' = live
    BY DEF Backfill, BackfillOrphans, book
  <1>2. CASE db' = db
    BY <1>1, <1>2 DEF VInv
  <1>3. CASE Backfill /\ Source(T) # {}
    <2>1. PICK b \in Batches(Source(T)) :
             db' = [x \in DOMAIN db |-> IF x \in b THEN [db[x] EXCEPT !.tenant = NewTenant(x)] ELSE db[x]]
      BY <1>3 DEF Backfill
    <2>2. b \subseteq Untenanted(T)
      BY DEF Batches, Source
    <2>3. PICK f : f = [x \in DOMAIN db |-> NewTenant(x)]
      OBVIOUS
    <2>4. \A x \in DOMAIN db : f[x] = NewTenant(x)
      BY <2>3
    <2>5. db' = [x \in DOMAIN db |-> IF x \in b THEN [db[x] EXCEPT !.tenant = f[x]] ELSE db[x]]
      BY <2>1, <2>4
    <2>6. QED
      BY <1>1, <2>2, <2>5, UpdateStocked DEF VInv
  <1>4. CASE BackfillOrphans /\ Orphans(T) # {}
    <2>1. PICK b \in Batches(Orphans(T)) :
             db' = [x \in DOMAIN db |-> IF x \in b THEN [db[x] EXCEPT !.tenant = run.dflt] ELSE db[x]]
      BY <1>4 DEF BackfillOrphans
    <2>2. b \subseteq Untenanted(T)
      BY DEF Batches, Orphans
    <2>3. PICK f : f = [x \in DOMAIN db |-> run.dflt]
      OBVIOUS
    <2>4. \A x \in DOMAIN db : f[x] = run.dflt
      BY <2>3
    <2>5. db' = [x \in DOMAIN db |-> IF x \in b THEN [db[x] EXCEPT !.tenant = f[x]] ELSE db[x]]
      BY <2>1, <2>4
    <2>6. QED
      BY <1>1, <2>2, <2>5, UpdateStocked DEF VInv
  <1>5. QED
    BY <1>2, <1>3, <1>4 DEF Backfill, BackfillOrphans

LEMMA DefaultStocked == MInv /\ NInv /\ VInv /\ DefaultTenant => VInv'
  <1> SUFFICES ASSUME MInv, NInv, VInv, DefaultTenant PROVE VInv'
    OBVIOUS
  <1>1. denied' = denied /\ live' = live
    BY DEF DefaultTenant, book
  <1>2. CASE DefaultCompanies # {}
    BY <1>1, <1>2 DEF VInv, DefaultTenant
  <1>3. CASE DefaultCompanies = {}
    <2>1. PICK n : n = CHOOSE d \in DefaultIds : d \notin DOMAIN db
      OBVIOUS
    <2>2. ~\E x \in DOMAIN db : IsDefault(db, x)
      BY <1>3, DefaultsAre
    <2>3. \E x \in DefaultIds : x \notin DOMAIN db
      BY <2>2 DEF NInv, Defaults
    <2>4. n \in DefaultIds
      BY <2>1, <2>3
    <2>5. db' = With([x \in {n} |-> DefaultCompany])
      BY <1>3, <2>1 DEF DefaultTenant
    <2>6. PICK new : new = [x \in {n} |-> DefaultCompany]
      OBVIOUS
    <2>7. DOMAIN new = {n} /\ new[n].table = "companies"
      BY <2>6 DEF DefaultCompany
    <2>8. Stocked(new)
      BY <2>4, <2>7, FreshStored DEF Stocked
    <2>9. QED
      BY <1>1, <2>5, <2>6, <2>8, WithStocked DEF VInv
  <1>4. QED
    BY <1>2, <1>3

LEMMA OldVersionStocked == VInv /\ OldVersion => VInv'
  <1> SUFFICES ASSUME VInv, OldVersion PROVE VInv'
    OBVIOUS
  <1>1. denied' = denied /\ live \subseteq live'
    BY DEF OldVersion, OldUpload, OldStatusChange
  <1>2. "applications" \in StoredTables /\ "resumes" \in StoredTables /\ "status_history" \in StoredTables
    BY FreshStored, OperationalTables
  <1>3. ASSUME NEW j, NEW c, OldUpload(j, c) PROVE VInv'
    <2>1. PICK a \in FreshId(LiveIds) : \E r \in FreshId(LiveIds \ {a}) :
            \E new \in {[x \in {a, r} |-> IF x = a THEN Row("applications", j, c, NULL)
                                                  ELSE Row("resumes", NULL, c, NULL)]} :
                db' = With(new)
      BY <1>3 DEF OldUpload
    <2>2. PICK r \in FreshId(LiveIds \ {a}) :
            \E new \in {[x \in {a, r} |-> IF x = a THEN Row("applications", j, c, NULL)
                                                  ELSE Row("resumes", NULL, c, NULL)]} :
                db' = With(new)
      BY <2>1
    <2>3. PICK new : /\ new = [x \in {a, r} |-> IF x = a THEN Row("applications", j, c, NULL)
                                                ELSE Row("resumes", NULL, c, NULL)]
                     /\ db' = With(new)
      BY <2>2
    <2>4. a \in RowIds /\ r \in RowIds
      BY FreshIs, FreshStored
    <2>5. DOMAIN new = {a, r} /\ \A x \in {a, r} : new[x].table \in {"applications", "resumes"}
      BY <2>3, RowIs
    <2>6. Stocked(new)
      BY <1>2, <2>4, <2>5 DEF Stocked
    <2>7. QED
      BY <1>1, <2>3, <2>6, WithStocked DEF VInv
  <1>4. ASSUME NEW a, OldStatusChange(a) PROVE VInv'
    <2>1. PICK h \in FreshId(LiveIds) : \E row \in {Row("status_history", a, NULL, NULL)} :
            db' = With([x \in {h} |-> row])
      BY <1>4 DEF OldStatusChange
    <2>2. PICK new : new = [x \in {h} |-> Row("status_history", a, NULL, NULL)] /\ db' = With(new)
      BY <2>1
    <2>3. h \in RowIds
      BY FreshIs, FreshStored
    <2>4. DOMAIN new = {h} /\ new[h].table = "status_history"
      BY <2>2, RowIs
    <2>5. Stocked(new)
      BY <1>2, <2>3, <2>4 DEF Stocked
    <2>6. QED
      BY <1>1, <2>2, <2>5, WithStocked DEF VInv
  <1>5. QED
    BY <1>3, <1>4 DEF OldVersion

LEMMA Tokens ==
    ASSUME NEW u \in RowIds, NEW v \in RowIds \cup {NULL}
    PROVE  [sub |-> u, tid |-> v] # NULL
  <1>1. [sub |-> u, tid |-> v] \in [sub : RowIds, tid : RowIds \cup {NULL}]
    OBVIOUS
  <1>2. QED
    BY <1>1, MigrationAssumption

LEMMA StaffIs ==
    ASSUME NInv, VInv, NEW u \in DOMAIN db, db[u].tenant # NULL
    PROVE  StaffContext(u).scope = "tenant" /\ StaffContext(u).tenant = db[u].tenant
  <1>1. u \in RowIds /\ db[u].tenant \in RowIds \cup {NULL}
    <2>1. db[u].tenant \in RowsOf(db, "companies") \cup {NULL}
      BY References DEF NInv
    <2>2. QED
      BY <2>1 DEF VInv, Stocked, RowsOf
  <1>2. PICK tk : tk = [sub |-> u, tid |-> db[u].tenant]
    OBVIOUS
  <1>3. tk # NULL /\ tk.tid = db[u].tenant /\ StaffContext(u) = ContextFromToken(tk)
    BY <1>1, <1>2, Tokens DEF StaffContext
  <1>4. StaffContext(u) = [scope |-> "tenant", tenant |-> tk.tid, user |-> tk.sub]
    BY <1>3 DEF ContextFromToken
  <1>5. QED
    BY <1>3, <1>4

LEMMA CandidateIs ==
    ASSUME VInv, NEW u \in DOMAIN db
    PROVE  /\ CandidateContext(u).scope = "candidate" /\ CandidateContext(u).tenant = NULL
           /\ CandidateContext(u).user = u /\ u # NULL
  <1>1. u \in RowIds /\ u # NULL
    BY MigrationAssumption DEF VInv, Stocked
  <1>2. PICK tk : tk = [sub |-> u, tid |-> NULL]
    OBVIOUS
  <1>3. tk # NULL /\ tk.tid = NULL /\ tk.sub = u /\ CandidateContext(u) = ContextFromToken(tk)
    BY <1>1, <1>2, Tokens DEF CandidateContext
  <1>4. CandidateContext(u) = [scope |-> "candidate", tenant |-> NULL, user |-> tk.sub]
    BY <1>3 DEF ContextFromToken
  <1>5. QED
    BY <1>1, <1>3, <1>4

\* The end of the migration.
LEMMA Ended ==
    ASSUME MInv, NInv, Done
    PROVE  /\ schema.rls = Range(RLS_TABLES) /\ schema.policy = Range(POLICIES)
           /\ \A x \in DOMAIN db : db[x].table \in Operational => db[x].tenant # NULL
           /\ \A u \in Staff : u \in DOMAIN db /\ db[u].table = "users" /\ db[u].tenant # NULL
  <1>1. EndsComplete
    BY AtTheEnd DEF MigrationSound
  <1>2. \A t \in Operational : Untenanted(t) = {}
    BY <1>1 DEF EndsComplete
  <1>3. \A x \in DOMAIN db : db[x].table \in Operational => db[x].tenant # NULL
    BY <1>2 DEF Untenanted, RowsOf
  <1>4. ASSUME NEW u \in Staff PROVE u \in DOMAIN db /\ db[u].table = "users" /\ db[u].tenant # NULL
    <2>1. u \in DOMAIN db /\ db[u].table = "users" /\ db[u].role # "Candidate"
      BY DEF Staff, RowsOf
    <2>2. u \notin live /\ pc = 141
      BY <2>1, NotWritten, ScriptLength DEF Done
    <2>3. QED
      BY <2>1, <2>2, AllProvided
  <1>5. QED
    BY <1>1, <1>3, <1>4 DEF EndsComplete

\* A row of the new version: it is accepted.
Accepted(ctx, after, row) ==
    /\ ~StampRaises(ctx, row) /\ Stamped(ctx, row).tenant # NULL
    /\ MayInsert(after, ctx, Stamped(ctx, row)) /\ row.table \in Operational

LEMMA NewRowsAccepted ==
    ASSUME MInv, NInv, VInv, Done, NEW ctx, NEW ids, ids \subseteq NewIds, NEW new, NewRows(ctx, ids, new),
           \A x \in ids : Stamped(ctx, new[x]).table = new[x].table,
           \A x \in ids : Accepted(ctx, With([y \in ids |-> Stamped(ctx, new[y])]), new[x])
    PROVE  VInv'
  <1>1. PICK st : st = [x \in ids |-> Stamped(ctx, new[x])]
    OBVIOUS
  <1>2. schema.rls = Range(RLS_TABLES) /\ schema.policy = Range(POLICIES)
    BY Ended
  <1>3. DOMAIN st = ids /\ \A x \in ids : st[x] = Stamped(ctx, new[x])
    BY <1>1
  <1>4. ASSUME NEW x \in ids
        PROVE  /\ ~StampRaises(ctx, new[x]) /\ st[x].tenant # NULL /\ st[x].table \in Operational
               /\ RlsMayInsert(With(st), schema.rls, schema.policy, ctx, st[x])
    <2>1. Accepted(ctx, With(st), new[x])
      BY <1>1
    <2>2. QED
      BY <1>2, <1>3, <2>1 DEF Accepted, MayInsert
  <1>5. db' = With(st) /\ denied' = denied /\ live' = live
    <2>1. \/ \E x \in ids : \/ StampRaises(ctx, new[x])
                            \/ ~RlsMayInsert(With(st), schema.rls, schema.policy, ctx, st[x])
                            \/ st[x].tenant = NULL
          \/ db' = With(st) /\ UNCHANGED <<denied, live>>
      BY <1>1 DEF NewRows
    <2>2. QED
      BY <1>4, <2>1
  <1>6. Stocked(st)
    BY <1>3, <1>4, FreshStored DEF Stocked
  <1>7. QED
    BY <1>5, <1>6, WithStocked DEF VInv

\* What was there before is still there when the policies are asked.
LEMMA AfterInsert ==
    ASSUME NEW st, NEW d, d = With(st), DOMAIN st \cap DOMAIN db = {}
    PROVE  /\ \A x \in DOMAIN db : x \in DOMAIN d /\ d[x] = db[x]
           /\ \A t : RowsOf(db, t) \subseteq RowsOf(d, t)
           /\ \A ctx : CurrentCandidates(db, ctx) \subseteq CurrentCandidates(d, ctx)
  <1>1. d = [x \in DOMAIN db \cup DOMAIN st |-> IF x \in DOMAIN st THEN st[x] ELSE db[x]]
    BY DEF With
  <1>2. DOMAIN d = DOMAIN db \cup DOMAIN st
    BY <1>1
  <1>3. ASSUME NEW x \in DOMAIN db PROVE x \in DOMAIN d /\ d[x] = db[x]
    BY <1>1, <1>2
  <1>4. \A t : RowsOf(db, t) \subseteq RowsOf(d, t)
    BY <1>3 DEF RowsOf
  <1>5. \A ctx : CurrentCandidates(db, ctx) \subseteq CurrentCandidates(d, ctx)
    BY <1>3, <1>4 DEF CurrentCandidates, RowsOf
  <1>6. QED
    BY <1>3, <1>4, <1>5

\* One row.
LEMMA OneRowAccepted ==
    ASSUME MInv, NInv, VInv, Done, NEW x \in FreshId(NewIds), NEW ctx, NEW row,
           NewRows(ctx, {x}, [y \in {x} |-> row]), Stamped(ctx, row).table = row.table,
           NEW st, st = [y \in {x} |-> Stamped(ctx, row)], Accepted(ctx, With(st), row)
    PROVE  VInv'
  <1>1. PICK new : new = [y \in {x} |-> row]
    OBVIOUS
  <1>2. \A y \in {x} : new[y] = row
    BY <1>1
  <1>3. NewRows(ctx, {x}, new)
    BY <1>1
  <1>4. st = [y \in {x} |-> Stamped(ctx, new[y])]
    BY <1>2
  <1>5. {x} \subseteq NewIds
    BY FreshIs
  <1>6. \A y \in {x} : Accepted(ctx, With([z \in {x} |-> Stamped(ctx, new[z])]), new[y])
    BY <1>2, <1>4
  <1>7. QED
    BY <1>2, <1>3, <1>5, <1>6, NewRowsAccepted

\* Staff may insert a row of its organisation.
LEMMA StaffAccepted ==
    ASSUME NEW ctx, ctx.scope = "tenant", ctx.tenant # NULL, NEW t \in Operational, NEW u, NEW after
    PROVE  /\ Accepted(ctx, after, Row(t, u, NULL, NULL))
           /\ Stamped(ctx, Row(t, u, NULL, NULL)).table = Row(t, u, NULL, NULL).table
  <1>1. PICK row, r : row = Row(t, u, NULL, NULL) /\ r = Stamped(ctx, row)
    OBVIOUS
  <1>2. row.table = t /\ row.tenant = NULL
    BY <1>1, RowIs
  <1>3. r.tenant = ctx.tenant /\ r.table = t
    <2>1. r = [row EXCEPT !.tenant = ctx.tenant]
      BY <1>1, <1>2 DEF Stamped
    <2>2. QED
      BY <1>1, <2>1 DEF Row
  <1>4. MayInsert(after, ctx, r)
    BY <1>3, StaffInserts
  <1>5. ~StampRaises(ctx, row)
    BY <1>2 DEF StampRaises
  <1>6. QED
    BY <1>1, <1>2, <1>3, <1>4, <1>5 DEF Accepted

\* A row that names its tenant, in a session without one.
LEMMA NamedAccepted ==
    ASSUME NEW ctx, ctx.scope # "tenant", NEW row, row.table \in Operational, row.tenant # NULL,
           NEW after, MayInsert(after, ctx, row)
    PROVE  Accepted(ctx, after, row) /\ Stamped(ctx, row) = row
  BY DEF Accepted, Stamped, StampRaises

LEMMA JobsAreOld ==
    ASSUME NInv, NEW j \in RowsOf(db, "jobs")
    PROVE  j \in DOMAIN db /\ j \notin live
  BY DEF NInv, Written, RowsOf

LEMMA RequestAccepted == MInv /\ NInv /\ VInv /\ Request => VInv'
  <1> SUFFICES ASSUME MInv, NInv, VInv, Request PROVE VInv'
    OBVIOUS
  <1>1. Done
    BY DEF Request
  <1>2. PICK x \in FreshId(NewIds) :
         \/ \E u \in Staff : CreateJob(u, x)
         \/ \E u \in Staff, a \in RowsOf(db, "applications"),
               t \in {"interviews", "status_history", "interview_question_sets"} :
               AddToApplication(u, a, t, x)
         \/ \E u \in RowsOf(db, "users") \ Staff, j \in RowsOf(db, "jobs"), y \in FreshId(NewIds \ {x}) :
               UploadResume(u, j, x, y)
         \/ \E u \in RowsOf(db, "users") \ Staff, a \in RowsOf(db, "applications") : RespondToOffer(u, a, x)
         \/ \E s \in RowsOf(db, "interview_question_sets") : SaveQuestion(s, x)
    BY DEF Request
  <1>3. x \in NewIds /\ x \notin DOMAIN db
    BY FreshNew
  <1>4. /\ schema.rls = Range(RLS_TABLES) /\ schema.policy = Range(POLICIES)
        /\ \A y \in DOMAIN db : db[y].table \in Operational => db[y].tenant # NULL
        /\ \A u \in Staff : u \in DOMAIN db /\ db[u].tenant # NULL
    BY <1>1, Ended
  <1>5. \A u \in Staff : StaffContext(u).scope = "tenant" /\ StaffContext(u).tenant # NULL
    BY <1>4, StaffIs
  <1>6. \A y, t : y \in RowsOf(db, t) => y \in DOMAIN db /\ db[y].table = t
    BY DEF RowsOf
  <1>7. ASSUME NEW u \in Staff, CreateJob(u, x) PROVE VInv'
    <2>1. PICK ctx, row, st : ctx = StaffContext(u) /\ row = Row("jobs", u, NULL, NULL)
                              /\ st = [y \in {x} |-> Stamped(ctx, row)]
      OBVIOUS
    <2>2. ctx.scope = "tenant" /\ ctx.tenant # NULL /\ "jobs" \in Operational
      BY <1>5, <2>1, OperationalTables
    <2>3. Accepted(ctx, With(st), row) /\ Stamped(ctx, row).table = row.table
      BY <2>1, <2>2, StaffAccepted
    <2>4. NewRows(ctx, {x}, [y \in {x} |-> row])
      BY <1>7, <2>1 DEF CreateJob
    <2>5. QED
      BY <1>1, <2>1, <2>3, <2>4, OneRowAccepted
  <1>8. ASSUME NEW u \in Staff, NEW a \in RowsOf(db, "applications"),
               NEW t \in {"interviews", "status_history", "interview_question_sets"},
               AddToApplication(u, a, t, x)
        PROVE  VInv'
    <2>1. PICK ctx, row, st : ctx = StaffContext(u) /\ row = Row(t, a, NULL, NULL)
                              /\ st = [y \in {x} |-> Stamped(ctx, row)]
      OBVIOUS
    <2>2. ctx.scope = "tenant" /\ ctx.tenant # NULL /\ t \in Operational
      BY <1>5, <2>1, OperationalTables
    <2>3. Accepted(ctx, With(st), row) /\ Stamped(ctx, row).table = row.table
      BY <2>1, <2>2, StaffAccepted
    <2>4. /\ a \in DOMAIN db /\ db[a].table = "applications" /\ db[a].tenant # NULL
          /\ "applications" \in Operational
      BY <1>4, <1>6, OperationalTables
    <2>5. db[a].tenant = ctx.tenant
      BY <1>8, <2>1, <2>2, <2>4 DEF AddToApplication, Sees, OrmVisible
    <2>6. MayUpdate(db, ctx, a)
      BY <2>4, <2>5, StaffUpdates
    <2>7. MayChange(ctx, a)
      BY <1>4, <2>6 DEF MayChange, MayUpdate
    <2>8. NewRows(ctx, {x}, [y \in {x} |-> row])
      BY <1>8, <2>1, <2>7 DEF AddToApplication
    <2>9. QED
      BY <1>1, <2>1, <2>3, <2>8, OneRowAccepted
  <1>9. ASSUME NEW u \in RowsOf(db, "users"), NEW j \in RowsOf(db, "jobs"), NEW y \in FreshId(NewIds \ {x}),
               UploadResume(u, j, x, y)
        PROVE  VInv'
    <2>1. PICK ctx : ctx = CandidateContext(u)
      OBVIOUS
    <2>2. ctx.scope = "candidate"
      BY <1>6, <2>1, CandidateIs
    <2>3. PICK c \in CurrentCandidates(db, ctx) :
             NewRows(ctx, {x, y}, [z \in {x, y} |-> IF z = x THEN Row("applications", j, c, UploadTenant(j))
                                                    ELSE Row("resumes", NULL, c, UploadTenant(j))])
      BY <1>9, <2>1 DEF UploadResume
    <2>4. PICK new : new = [z \in {x, y} |-> IF z = x THEN Row("applications", j, c, UploadTenant(j))
                                             ELSE Row("resumes", NULL, c, UploadTenant(j))]
      OBVIOUS
    <2>5. y \in NewIds /\ y # x /\ y \notin DOMAIN db
      BY FreshIs
    <2>6. PICK r, q : r = Row("applications", j, c, UploadTenant(j)) /\ q = Row("resumes", NULL, c, UploadTenant(j))
      OBVIOUS
    <2>7. /\ r.table = "applications" /\ r.up = j /\ r.cand = c /\ r.tenant = db[j].tenant
          /\ q.table = "resumes" /\ q.cand = c /\ q.tenant = db[j].tenant
      BY <2>6, RowIs DEF UploadTenant
    <2>8. /\ j \in DOMAIN db /\ db[j].tenant # NULL
          /\ "applications" \in Operational /\ "resumes" \in Operational
      BY <1>4, <1>6, OperationalTables
    <2>9. new[x] = r /\ new[y] = q
      BY <2>4, <2>5, <2>6
    <2>10. PICK st, d : st = [z \in {x, y} |-> Stamped(ctx, new[z])] /\ d = With(st)
      OBVIOUS
    <2>11. DOMAIN st \cap DOMAIN db = {}
      BY <1>3, <2>5, <2>10
    <2>12. /\ j \in DOMAIN d /\ d[j] = db[j] /\ j \in RowsOf(d, "jobs")
           /\ c \in CurrentCandidates(d, ctx)
      BY <2>8, <2>10, <2>11, AfterInsert
    <2>13. MayInsert(d, ctx, r)
      BY <2>2, <2>7, <2>8, <2>12, CandidateApplies
    <2>14. MayInsert(d, ctx, q)
      BY <2>2, <2>7, <2>8, <2>12, CandidateUploads
    <2>15. ctx.scope # "tenant"
      BY <2>2
    <2>16. Accepted(ctx, d, r) /\ Stamped(ctx, r) = r
      BY <2>7, <2>8, <2>13, <2>15, NamedAccepted
    <2>17. Accepted(ctx, d, q) /\ Stamped(ctx, q) = q
      BY <2>7, <2>8, <2>14, <2>15, NamedAccepted
    <2>18. \A z \in {x, y} : Accepted(ctx, d, new[z]) /\ Stamped(ctx, new[z]).table = new[z].table
      BY <2>9, <2>16, <2>17
    <2>19. NewRows(ctx, {x, y}, new)
      BY <2>3, <2>4
    <2>20. {x, y} \subseteq NewIds
      BY <1>3, <2>5
    <2>21. QED
      BY <1>1, <2>10, <2>18, <2>19, <2>20, NewRowsAccepted
  <1>10. ASSUME NEW u \in RowsOf(db, "users"), NEW a \in RowsOf(db, "applications"), RespondToOffer(u, a, x)
         PROVE  VInv'
    <2>1. PICK ctx, row, st : ctx = CandidateContext(u) /\ row = Row("status_history", a, NULL, db[a].tenant)
                              /\ st = [y \in {x} |-> Stamped(ctx, row)]
      OBVIOUS
    <2>2. ctx.scope = "candidate" /\ ctx.tenant = NULL
      BY <1>6, <2>1, CandidateIs
    <2>3. /\ a \in DOMAIN db /\ db[a].table = "applications" /\ db[a].tenant # NULL
          /\ "applications" \in Operational /\ "status_history" \in Operational
      BY <1>4, <1>6, OperationalTables
    <2>4. Visible(db, ctx, a)
      BY <1>4, <1>10, <2>1 DEF RespondToOffer, Sees, Visible
    <2>5. db[a].cand \in CurrentCandidates(db, ctx)
      BY <2>2, <2>3, <2>4, OthersSee DEF OwnCandidate
    <2>6. row.table = "status_history" /\ row.up = a /\ row.tenant = db[a].tenant
      BY <2>1, RowIs
    <2>7. PICK d : d = With(st)
      OBVIOUS
    <2>8. DOMAIN st \cap DOMAIN db = {}
      BY <1>3, <2>1
    <2>9. d[a] = db[a] /\ a \in RowsOf(d, "applications") /\ db[a].cand \in CurrentCandidates(d, ctx)
      BY <2>3, <2>5, <2>7, <2>8, AfterInsert
    <2>10. MayInsert(d, ctx, row)
      BY <2>2, <2>3, <2>6, <2>9, CandidateResponds
    <2>11. Accepted(ctx, With(st), row) /\ Stamped(ctx, row) = row
      BY <2>2, <2>3, <2>6, <2>7, <2>10, NamedAccepted
    <2>12. CASE MayChange(ctx, a)
      <3>1. NewRows(ctx, {x}, [y \in {x} |-> row])
        BY <1>10, <2>1, <2>12 DEF RespondToOffer
      <3>2. QED
        BY <1>1, <2>1, <2>11, <3>1, OneRowAccepted
    <2>13. CASE ~MayChange(ctx, a)
      <3>1. a \in live
        <4>1. SUFFICES ASSUME a \notin live PROVE FALSE
          OBVIOUS
        <4>2. db[a].up \in RowsOf(db, "jobs")
          BY <2>3 DEF NInv, AllKeys, Keys
        <4>3. db[a].up \in DOMAIN db /\ db[a].up \notin live
          BY <4>2, JobsAreOld
        <4>4. db[a].tenant = db[db[a].up].tenant
          BY <2>3, <4>1, <4>3 DEF NInv, Placed, Home, Dependent
        <4>5. MayUpdate(db, ctx, a)
          BY <2>2, <2>3, <2>5, <4>3, <4>4, CandidateUpdates
        <4>6. QED
          BY <1>4, <2>13, <4>5 DEF MayChange, MayUpdate
      <3>2. denied' = denied \cup {a} /\ UNCHANGED <<db, live>>
        BY <1>10, <2>1, <2>13 DEF RespondToOffer, Refused
      <3>3. QED
        BY <3>1, <3>2 DEF VInv
    <2>14. QED
      BY <2>12, <2>13
  <1>11. ASSUME NEW s \in RowsOf(db, "interview_question_sets"), SaveQuestion(s, x) PROVE VInv'
    <2>1. PICK ctx, row, st : ctx = SystemContext /\ row = Row("interview_questions", s, NULL, db[s].tenant)
                              /\ st = [y \in {x} |-> Stamped(ctx, row)]
      OBVIOUS
    <2>2. ctx.scope = "system"
      BY <2>1 DEF SystemContext
    <2>3. db[s].tenant # NULL /\ "interview_questions" \in Operational
      BY <1>4, <1>6, OperationalTables
    <2>4. row.table = "interview_questions" /\ row.tenant = db[s].tenant
      BY <2>1, RowIs
    <2>5. MayInsert(With(st), ctx, row)
      BY <2>2 DEF MayInsert, RlsMayInsert
    <2>6. Accepted(ctx, With(st), row) /\ Stamped(ctx, row) = row
      BY <2>2, <2>3, <2>4, <2>5, NamedAccepted
    <2>7. NewRows(ctx, {x}, [y \in {x} |-> row])
      BY <1>11, <2>1 DEF SaveQuestion
    <2>8. QED
      BY <1>1, <2>1, <2>6, <2>7, OneRowAccepted
  <1>12. QED
    BY <1>2, <1>7, <1>8, <1>9, <1>10, <1>11

LEMMA AcceptedSteps == MInv /\ NInv /\ VInv /\ [MigrationNext]_migrationVars => VInv'
  <1> SUFFICES ASSUME MInv, NInv, VInv, [MigrationNext]_migrationVars PROVE VInv'
    OBVIOUS
  <1>1. CASE db' = db /\ denied' = denied /\ live' = live
    BY <1>1 DEF VInv
  <1>2. CASE Upgrade \/ LockTimeout \/ Killed \/ Rerun
    <2>1. \/ Backfill \/ BackfillOrphans \/ DefaultTenant
          \/ (db' = db /\ denied' = denied /\ live' = live)
      BY <1>2 DEF Upgrade, AddColumn, ForeignKey, DropCheck, AddCheck, ValidateCheck, SetNotNull, Index,
                  IndexFails, DropPolicy, CreatePolicy, EnableRls, LockTimeout, Killed, Rerun, Raise, book
    <2>2. QED
      BY <1>1, <2>1, DataStocked, DefaultStocked
  <1>3. QED
    BY <1>1, <1>2, OldVersionStocked, RequestAccepted DEF MigrationNext, migrationVars

LEMMA AcceptedAtFirst == MigrationInit => VInv
  <1> SUFFICES ASSUME MigrationInit PROVE VInv
    OBVIOUS
  <1>1. db \in Databases /\ denied = {}
    BY DEF MigrationInit
  <1>2. \A x \in DOMAIN db : db[x].table \in StoredTables
    BY <1>1, MigrationAssumption DEF IsDatabase
  <1>3. DOMAIN db \subseteq RowIds
    <2>1. PICK U : U = UNION {DOMAIN d : d \in Databases}
      OBVIOUS
    <2>2. DOMAIN db \subseteq U
      BY <1>1, <2>1
    <2>3. RowIds = U \cup DefaultIds \cup LiveIds \cup NewIds
      BY <2>1, Zenon DEF RowIds
    <2>4. QED
      BY <2>2, <2>3
  <1>4. QED
    BY <1>1, <1>2, <1>3 DEF VInv, Stocked

\* Whatever the new version inserts or writes back under the policies is let through,
\* unless it is an application that the old version wrote during the migration; and all
\* rows are of tables that row-level security covers, or accounts.
THEOREM NothingRefused == MigrationSpec => []VInv
  <1>1. QED
    BY MigrationInvariant, PlacementInvariant, AcceptedAtFirst, AcceptedSteps, PTL DEF MigrationSpec

LEMMA StaffIsolated == MInv /\ NInv /\ VInv => LayersAgree
  <1> SUFFICES ASSUME MInv, NInv, VInv, Done
               PROVE  /\ denied \subseteq live
                      /\ \A u \in Staff : \A x \in DOMAIN db :
                            db[x].table \in Operational \cup {"skills"} =>
                              /\ OrmVisible(db, StaffContext(u), x)
                                    <=> RlsVisible(db, schema.rls, schema.policy, StaffContext(u), x)
                              /\ OrmVisible(db, StaffContext(u), x)
                                    => db[x].tenant = db[u].tenant \/ db[x].table = "skills"
    BY DEF LayersAgree
  <1>1. schema.rls = Range(RLS_TABLES) /\ schema.policy = Range(POLICIES)
    BY Ended
  <1>2. denied \subseteq live
    BY DEF VInv
  <1>3. ASSUME NEW u \in Staff, NEW x \in DOMAIN db, db[x].table \in Operational \cup {"skills"}
        PROVE  /\ OrmVisible(db, StaffContext(u), x)
                    <=> RlsVisible(db, schema.rls, schema.policy, StaffContext(u), x)
               /\ OrmVisible(db, StaffContext(u), x)
                    => db[x].tenant = db[u].tenant \/ db[x].table = "skills"
    <2>1. u \in DOMAIN db /\ db[u].tenant # NULL
      BY Ended
    <2>2. PICK ctx : ctx = StaffContext(u)
      OBVIOUS
    <2>3. ctx.scope = "tenant" /\ ctx.tenant = db[u].tenant
      BY <2>1, <2>2, StaffIs
    <2>4. /\ OrmVisible(db, ctx, x) <=> Visible(db, ctx, x)
          /\ OrmVisible(db, ctx, x) => db[x].tenant = ctx.tenant \/ db[x].table = "skills"
      BY <1>3, <2>1, <2>3, StaffSees
    <2>5. Visible(db, ctx, x) <=> RlsVisible(db, schema.rls, schema.policy, ctx, x)
      BY <1>1 DEF Visible
    <2>6. QED
      BY <2>2, <2>3, <2>4, <2>5
  <1>4. QED
    BY <1>2, <1>3

LEMMA CandidateIsolated == MInv /\ NInv /\ VInv => CandidateSeesOwn
  <1> SUFFICES ASSUME MInv, NInv, VInv, Done, NEW u \in RowsOf(db, "users"), NEW x \in DOMAIN db,
                      NEW mine, mine = {c \in RowsOf(db, "candidates") : db[c].up = u}
               PROVE  /\ db[x].table # "users" /\ Sees(CandidateContext(u), x) =>
                            \/ db[x].table = "jobs" \/ (db[x].table = "skills" /\ db[x].tenant = NULL)
                            \/ x \in mine \/ db[x].cand \in mine
                            \/ db[x].table = "status_history" /\ db[db[x].up].cand \in mine
                      /\ db[x].table \in {"applications", "resumes"} /\ db[x].cand \in mine =>
                            Sees(CandidateContext(u), x)
                      /\ db[x].table # "users" /\ Sees(PublicContext, x) => db[x].table \in {"jobs", "skills"}
    BY DEF CandidateSeesOwn
  <1>1. schema.rls = Range(RLS_TABLES) /\ schema.policy = Range(POLICIES)
    BY Ended
  <1>2. PICK ctx : ctx = CandidateContext(u)
    OBVIOUS
  <1>3. ctx.scope = "candidate" /\ ctx.tenant = NULL /\ ctx.user = u /\ u # NULL
    BY <1>2, CandidateIs DEF RowsOf
  <1>4. CurrentCandidates(db, ctx) = mine
    BY <1>3 DEF CurrentCandidates, Equal
  <1>5. db[x].table # "users" => db[x].table \in Operational \cup {"companies", "candidates", "skills"}
    BY DEF VInv, Stocked, StoredTables
  <1>6. ASSUME NEW c PROVE Sees(c, x) <=> OrmVisible(db, c, x) /\ Visible(db, c, x)
    BY <1>1 DEF Sees, Visible
  <1>7. ASSUME db[x].table # "users", Sees(ctx, x)
        PROVE  \/ db[x].table = "jobs" \/ (db[x].table = "skills" /\ db[x].tenant = NULL)
               \/ x \in mine \/ db[x].cand \in mine
               \/ db[x].table = "status_history" /\ db[db[x].up].cand \in mine
    <2>1. Visible(db, ctx, x) /\ db[x].table \in Operational \cup {"companies", "candidates", "skills"}
      BY <1>5, <1>6, <1>7
    <2>2. \/ db[x].table = "jobs"
          \/ db[x].table = "skills" /\ db[x].tenant = NULL
          \/ db[x].table = "candidates" /\ ctx.scope = "candidate" /\ Equal(db[x].up, ctx.user)
          \/ db[x].table \in {"applications", "resumes"} /\ OwnCandidate(db, ctx, db[x])
          \/ db[x].table = "status_history" /\ HistoryOfOwn(db, ctx, db[x])
      BY <1>3, <2>1, OthersSee
    <2>3. db[x].table = "candidates" /\ Equal(db[x].up, ctx.user) => x \in mine
      BY <1>3 DEF Equal, RowsOf
    <2>4. OwnCandidate(db, ctx, db[x]) => db[x].cand \in mine
      BY <1>4 DEF OwnCandidate
    <2>5. HistoryOfOwn(db, ctx, db[x]) => db[db[x].up].cand \in mine
      BY <1>4 DEF HistoryOfOwn, OwnCandidate
    <2>6. QED
      BY <2>2, <2>3, <2>4, <2>5
  <1>8. ASSUME db[x].table \in {"applications", "resumes"}, db[x].cand \in mine PROVE Sees(ctx, x)
    <2>1. PICK p \in Range(POLICIES) : p.table = db[x].table /\ p.name = "candidate_read" /\ p.command = "SELECT"
      BY <1>8, ThePolicies
    <2>2. p.table # "status_history" /\ OwnCandidate(db, ctx, db[x])
      BY <1>4, <1>8, <2>1 DEF OwnCandidate
    <2>3. Using(db, ctx, p, x)
      BY <2>1, <2>2, UsingIs
    <2>4. ctx.scope # "system" /\ ctx.scope # "tenant"
      BY <1>3
    <2>5. db[x].table \in Operational \cup {"companies", "candidates", "skills"}
      BY <1>8, <1>5
    <2>6. Visible(db, ctx, x)
      BY <2>1, <2>3, <2>4, <2>5, VisibleIs
    <2>7. OrmVisible(db, ctx, x)
      BY <2>4 DEF OrmVisible
    <2>8. QED
      BY <1>6, <2>6, <2>7
  <1>9. ASSUME db[x].table # "users", Sees(PublicContext, x) PROVE db[x].table \in {"jobs", "skills"}
    <2>1. PICK c : c = PublicContext
      OBVIOUS
    <2>2. c.scope = "public" /\ c.tenant = NULL
      BY <2>1 DEF PublicContext
    <2>3. Visible(db, c, x) /\ db[x].table \in Operational \cup {"companies", "candidates", "skills"}
      BY <1>5, <1>6, <1>9, <2>1
    <2>4. c.scope # "candidate" /\ c.scope \in {"public", "candidate"}
      BY <2>2
    <2>5. ~OwnCandidate(db, c, db[x]) /\ ~HistoryOfOwn(db, c, db[x])
      BY <2>4, NoOne
    <2>6. QED
      BY <2>2, <2>3, <2>4, <2>5, OthersSee
  <1>10. QED
    BY <1>2, <1>7, <1>8, <1>9

\* After the migration both layers show staff the rows of its own organisation and the
\* shared skills, a candidate the own profile and the jobs, a visitor the jobs and the
\* standard skills; and neither layer refuses what the program writes, unless it is about
\* an application the old version wrote during the migration.
THEOREM AccessIsIsolated == MigrationSpec => []Isolated
  <1>1. MInv /\ NInv /\ VInv => Isolated
    BY StaffIsolated, CandidateIsolated DEF Isolated
  <1>2. QED
    BY <1>1, MigrationInvariant, PlacementInvariant, NothingRefused, PTL
=============================================================================
