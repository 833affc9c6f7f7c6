------------------------------- MODULE Backup -------------------------------
(***************************************************************************)
(* Backup and disaster recovery: backup/ats_backup.py (the commands cron   *)
(* runs, and the restore commands) and backup/retention.py (which backups  *)
(* are deleted).  Every command is a process: it takes the global lock,    *)
(* ships its files one by one, releases the lock and applies the retention *)
(* policy outside the lock.  Any step may fail, which ends the process and *)
(* frees the lock.  PostgreSQL, its archiver and rclone are external: WAL  *)
(* segments are numbered, and a base backup contains every segment up to   *)
(* the one it closes when it ends.                                         *)
(*                                                                         *)
(* Time is counted in ticks; a stamp and a modification time are ticks.    *)
(***************************************************************************)
EXTENDS Naturals, Sequences, SequencesExt, FiniteSetsExt

CONSTANTS Jobs,        \* slots for ats-backup processes
          NoJob,       \* nobody holds the lock
          Hourly, Daily, Monthly,  \* HOURLY_, DAILY_, MONTHLY_RETENTION, in ticks
          MonthLen,    \* ticks in a calendar month
          MaxTime, MaxSeg, MaxFails,  \* bounds
          Schedules    \* orders in which cron and operators start the commands

ASSUME BackupAssumption ==
    /\ Hourly \in Nat /\ Daily \in Nat /\ Monthly \in Nat /\ MonthLen \in Nat \ {0}
    /\ Hourly <= Daily
    /\ MaxTime \in Nat /\ MaxSeg \in Nat \ {0} /\ MaxFails \in Nat
    /\ NoJob \notin Jobs
    /\ Schedules \subseteq Seq({"full", "wal", "resumes", "ensure-full"})

VARIABLES
    now,      \* utc_now()
    seg,      \* the WAL segment PostgreSQL is writing
    archived, \* segments below this one have been archived by archive_command
    archive,  \* WAL_ARCHIVE_DIR: segments archived and not yet shipped
    full,     \* offsite full/<stamp>: the files there and the last segment of the base
    wal,      \* offsite wal/<segment>: its modification time
    resumes,  \* offsite resumes/<stamp>
    lock,     \* who holds LOCK_FILE
    job,      \* the ats-backup processes
    shipped,  \* the segment the last successful wal command reported
    taken,    \* history: stamps of every full backup that ever reached offsite
    restore,  \* the restore or drill into the one target directory
    schedule, \* the commands still to be started
    fails     \* how many processes failed

vars == <<now, seg, archived, archive, full, wal, resumes, lock, job, shipped, taken, restore, schedule, fails>>
offsite == <<full, wal, resumes, taken>>
pg == <<seg, archived, archive>>
env == <<schedule, fails>>

Month(t) == t \div MonthLen

-----------------------------------------------------------------------------
(* retention.py *)

\* A unit that can be deleted: its kind, its path (stamp or segment), its age.
BackupItem(kind, path, created) == [kind |-> kind, path |-> path, created |-> created]

\* What inventory() lists: a full backup is there as soon as one file of it is.
Listing ==
         {BackupItem("full", s, s) : s \in DOMAIN full}
    \cup {BackupItem("resumes", s, s) : s \in resumes}
    \cup {BackupItem("wal", g, wal[g]) : g \in DOMAIN wal}

Created(items) == {i.created : i \in items}

\* Mutant: the last backup of a month, not the first, represents it.
RepresentativesLast(snapshots) ==
    {i \in snapshots : \A k \in snapshots :
        Month(k.created) = Month(i.created) => k.created <= i.created}

\* first_of_month: the oldest backup of each calendar month.
MonthlyRepresentatives(snapshots) ==
    {i \in snapshots : \A k \in snapshots :
        Month(k.created) = Month(i.created) => i.created <= k.created}

\* _expired_snapshots
ExpiredSnapshots(snapshots, t) ==
    {i \in snapshots :
        ~ \/ i.created = Max(Created(snapshots))
          \/ t - i.created <= Daily
          \/ i \in MonthlyRepresentatives(snapshots) /\ t - i.created <= Monthly}

\* Mutant: old WAL is deleted whether or not the newest full backup needs it.
WalExpiredAlways(items, t) ==
    {i \in items : i.kind = "wal" /\ t - i.created > Hourly}

\* Segments that are too old and that the newest full backup does not need.
WalExpired(items, t) ==
    LET fulls == Created({i \in items : i.kind = "full"})
    IN  {i \in items : /\ i.kind = "wal" /\ t - i.created > Hourly
                       /\ fulls = {} \/ i.created < Max(fulls)}

PlanDeletions(items, t) ==
         WalExpired(items, t)
    \cup ExpiredSnapshots({i \in items : i.kind = "full"}, t)
    \cup ExpiredSnapshots({i \in items : i.kind = "resumes"}, t)

-----------------------------------------------------------------------------
(* The processes *)

Files == {"base", "dump", "manifest"}

\* sorted(work.iterdir()): base.tar..., database.dump..., manifest.json.
UploadOrder == <<"base", "dump", "manifest">>

Idle == [cmd |-> "none", pc |-> "idle", stamp |-> 0, upto |-> 0, todo |-> <<>>,
         batch |-> {}, plan |-> {}]

NoRestore == [pc |-> "idle", base |-> 0, next |-> 0, latest |-> FALSE, goal |-> 0, newest |-> 0,
              cut |-> FALSE]

Goto(j, pc) == job' = [job EXCEPT ![j].pc = pc]
Release == lock' = NoJob
HoldsLock(j) == lock = j

Init ==
    /\ now = 0
    /\ seg = 1 /\ archived = 1 /\ archive = {}
    /\ full = <<>> /\ wal = <<>> /\ resumes = {} /\ taken = {}
    /\ lock = NoJob
    /\ job = [j \in Jobs |-> Idle]
    /\ shipped = 0
    /\ restore = NoRestore
    /\ schedule \in Schedules
    /\ fails = 0

\* External: time passes.
Tick ==
    /\ now < MaxTime
    /\ now' = now + 1
    /\ UNCHANGED <<pg, offsite, lock, job, shipped, restore, env>>

\* External: archive_command copies the oldest closed segment (cp to .tmp, then mv).
Archive ==
    /\ archived < seg
    /\ archive' = archive \cup {archived}
    /\ archived' = archived + 1
    /\ UNCHANGED <<now, seg, offsite, lock, job, shipped, restore, env>>

\* A command starts.  full and resumes take their stamp before they wait for the
\* lock; ensure-full is full unless the inventory lists a full backup, and an
\* inventory that cannot be read is empty.
Start(j, c) ==
    /\ job[j].pc = "idle"
    /\ schedule # <<>> /\ c = Head(schedule)
    /\ schedule' = Tail(schedule)
    /\ \E listed \in {{}, Listing} :
         IF c = "ensure-full" /\ \E i \in listed : i.kind = "full"
         THEN UNCHANGED job
         ELSE job' = [job EXCEPT ![j] =
                [Idle EXCEPT !.cmd = IF c = "ensure-full" THEN "full" ELSE c,
                             !.pc = "lock",
                             !.stamp = IF c = "wal" THEN 0 ELSE now]]
    /\ UNCHANGED <<now, pg, offsite, lock, shipped, restore, fails>>

\* SingleRun.__enter__
Acquire(j) ==
    /\ job[j].pc = "lock"
    /\ lock = NoJob
    /\ lock' = j
    /\ Goto(j, "work")
    /\ UNCHANGED <<now, pg, offsite, shipped, restore, env>>

\* Any step may raise: the process ends and the kernel frees its lock.
Fail(j) ==
    /\ job[j].pc # "idle"
    /\ fails < MaxFails /\ fails' = fails + 1
    /\ job' = [job EXCEPT ![j] = Idle]
    /\ IF HoldsLock(j) THEN Release ELSE UNCHANGED lock
    /\ UNCHANGED <<now, pg, offsite, shipped, restore, schedule>>

\* cmd_full: pg_basebackup, pg_dump and the manifest are made locally.  The end of
\* the base backup closes the segment that was being written.
FullPrepare(j) ==
    /\ job[j].cmd = "full" /\ job[j].pc = "work"
    /\ seg < MaxSeg
    /\ seg' = seg + 1
    /\ job' = [job EXCEPT ![j].pc = "upload", ![j].upto = seg, ![j].todo = UploadOrder]
    /\ UNCHANGED <<now, archived, archive, offsite, lock, shipped, restore, env>>

\* cmd_full: one file is copied to full/<stamp>.
FullUpload(j) ==
    /\ job[j].cmd = "full" /\ job[j].pc = "upload" /\ job[j].todo # <<>>
    /\ LET s == job[j].stamp
           f == Head(job[j].todo)
           old == IF s \in DOMAIN full THEN full[s].files ELSE {}
       IN  /\ full' = [t \in DOMAIN full \cup {s} |->
                          IF t # s THEN full[t]
                          ELSE [files |-> old \cup {f},
                                upto |-> IF f = "base" \/ old = {}
                                         THEN job[j].upto ELSE full[s].upto]]
           /\ taken' = taken \cup {s}
    /\ job' = [job EXCEPT ![j].todo = Tail(@)]
    /\ UNCHANGED <<now, pg, wal, resumes, lock, shipped, restore, env>>

\* cmd_wal: the current segment is closed and waited for, at most two minutes; a
\* segment that is not archived by then is the failure of Fail.
WalSwitch(j) ==
    /\ job[j].cmd = "wal" /\ job[j].pc = "work"
    /\ seg < MaxSeg
    /\ seg' = seg + 1
    /\ job' = [job EXCEPT ![j].pc = "archiving", ![j].upto = seg]
    /\ UNCHANGED <<now, archived, archive, offsite, lock, shipped, restore, env>>

\* cmd_wal: the archived segments, oldest first, are what this run ships.
WalPending(j) ==
    /\ job[j].cmd = "wal" /\ job[j].pc = "archiving"
    /\ archived > job[j].upto
    /\ job' = [job EXCEPT ![j].pc = "upload", ![j].batch = archive]
    /\ UNCHANGED <<now, pg, offsite, lock, shipped, restore, env>>

\* cmd_wal: a segment is encrypted and copied to offsite.
WalUpload(j) ==
    /\ job[j].cmd = "wal" /\ job[j].pc = "upload" /\ job[j].batch # {}
    /\ LET g == Min(job[j].batch)
       IN  wal' = [h \in DOMAIN wal \cup {g} |-> IF h = g THEN now ELSE wal[h]]
    /\ Goto(j, "unlink")
    /\ UNCHANGED <<now, pg, full, resumes, taken, lock, shipped, restore, env>>

\* cmd_wal: only then is the local copy removed.
WalUnlink(j) ==
    /\ job[j].cmd = "wal" /\ job[j].pc = "unlink"
    /\ archive' = archive \ {Min(job[j].batch)}
    /\ job' = [job EXCEPT ![j].pc = "upload", ![j].batch = @ \ {Min(@)}]
    /\ UNCHANGED <<now, seg, archived, offsite, lock, shipped, restore, env>>

\* cmd_resumes: the archive of the resume files is made and copied.
ResumesUpload(j) ==
    /\ job[j].cmd = "resumes" /\ job[j].pc = "work"
    /\ resumes' = resumes \cup {job[j].stamp}
    /\ Goto(j, "upload")
    /\ UNCHANGED <<now, pg, full, wal, taken, lock, shipped, restore, env>>

\* The end of a command: write_metric, and the lock is released.
Finish(j) ==
    /\ job[j].pc = "upload" /\ job[j].todo = <<>> /\ job[j].batch = {}
    /\ HoldsLock(j)
    /\ Release
    /\ shipped' = IF job[j].cmd = "wal" THEN job[j].upto ELSE shipped
    /\ job' = [job EXCEPT ![j] = [Idle EXCEPT !.cmd = "retention", !.pc = "plan"]]
    /\ UNCHANGED <<now, pg, offsite, restore, env>>

\* cmd_retention: the inventory is read and the deletions are planned.
Plan(j) ==
    /\ job[j].pc = "plan"
    /\ \E listed \in {{}, Listing} :
         job' = [job EXCEPT ![j].pc = "delete", ![j].plan = PlanDeletions(listed, now)]
    /\ UNCHANGED <<now, pg, offsite, lock, shipped, restore, env>>

\* sorted by kind and age.
FirstOf(plan) ==
    CHOOSE i \in plan : \A k \in plan \ {i} :
        \/ i.kind = "full" /\ k.kind # "full"
        \/ i.kind = "resumes" /\ k.kind = "wal"
        \/ i.kind = k.kind /\ i.created < k.created
        \/ i.kind = k.kind /\ i.created = k.created /\ i.path < k.path

Without(f, x) == [y \in DOMAIN f \ {x} |-> f[y]]

\* cmd_retention: purge of one full backup, or deletefile of one file.
Delete(j) ==
    /\ job[j].pc = "delete" /\ job[j].plan # {}
    /\ LET i == FirstOf(job[j].plan)
       IN  /\ full' = IF i.kind = "full" THEN Without(full, i.path) ELSE full
           /\ wal' = IF i.kind = "wal" THEN Without(wal, i.path) ELSE wal
           /\ resumes' = IF i.kind = "resumes" THEN resumes \ {i.path} ELSE resumes
           /\ job' = [job EXCEPT ![j].plan = @ \ {i}]
    /\ UNCHANGED <<now, pg, taken, lock, shipped, restore, env>>

RetentionDone(j) ==
    /\ job[j].pc = "delete" /\ job[j].plan = {}
    /\ job' = [job EXCEPT ![j] = Idle]
    /\ UNCHANGED <<now, pg, offsite, lock, shipped, restore, env>>

-----------------------------------------------------------------------------
(* restore-pitr and drill *)

\* Mutant: the oldest candidate is restored.
BaseForOldest(limit) == Min({s \in DOMAIN full : s <= limit})

\* candidates[-1]: the newest full backup at or before the limit.
BaseFor(limit) == Max({s \in DOMAIN full : s <= limit})

\* recover: the base backup is unpacked into an empty directory.  latest: no target
\* time was given, so the limit is now and all the WAL there is will be replayed.
Recover(limit) ==
    /\ restore.pc = "idle"
    /\ \E s \in DOMAIN full : s <= limit
    /\ LET b == BaseFor(limit)
       IN  IF "base" \in full[b].files
           THEN restore' = [pc |-> "replay", base |-> b, next |-> full[b].upto + 1,
                            latest |-> (limit = now), goal |-> shipped,
                            newest |-> Max(DOMAIN full), cut |-> FALSE]
           ELSE restore' = [NoRestore EXCEPT !.pc = "failed"]
    /\ UNCHANGED <<now, pg, offsite, lock, job, shipped, env>>

\* cmd_fetch_wal: the next segment is there.
FetchWal ==
    /\ restore.pc = "replay" /\ restore.next \in DOMAIN wal
    /\ restore' = [restore EXCEPT !.next = @ + 1]
    /\ UNCHANGED <<now, pg, offsite, lock, job, shipped, env>>

\* External: PostgreSQL takes exit code 1 of its restore_command for the end of the
\* WAL.  It promotes, or stops if a target time was given and is not yet reached.
EndOfWal(failure) ==
    restore' = [restore EXCEPT !.pc = IF restore.latest THEN "promoted" ELSE "failed",
                               !.cut = failure]

\* cmd_fetch_wal exits with 1: the listing is empty, the segment is not there.
Missing ==
    /\ restore.pc = "replay" /\ restore.next \notin DOMAIN wal
    /\ EndOfWal(FALSE)
    /\ UNCHANGED <<now, pg, offsite, lock, job, shipped, env>>

\* cmd_fetch_wal exits with 1 as well when rclone or the decryption fails: PostgreSQL
\* cannot tell it from a segment that is not there.
FetchFails ==
    /\ restore.pc = "replay"
    /\ fails < MaxFails /\ fails' = fails + 1
    /\ EndOfWal(restore.next \in DOMAIN wal)
    /\ UNCHANGED <<now, pg, offsite, lock, job, shipped, schedule>>

\* External: the target time is reached, recovery_target_action is promote.
Promote ==
    /\ restore.pc = "replay" /\ ~restore.latest
    /\ restore' = [restore EXCEPT !.pc = "promoted"]
    /\ UNCHANGED <<now, pg, offsite, lock, job, shipped, env>>

Next ==
    \/ Tick
    \/ Archive
    \/ \E j \in Jobs :
         \/ \E c \in Range(schedule) : Start(j, c)
         \/ Acquire(j)
         \/ Fail(j)
         \/ FullPrepare(j)
         \/ FullUpload(j)
         \/ WalSwitch(j)
         \/ WalPending(j)
         \/ WalUpload(j)
         \/ WalUnlink(j)
         \/ ResumesUpload(j)
         \/ Finish(j)
         \/ Plan(j)
         \/ Delete(j)
         \/ RetentionDone(j)
    \/ \E limit \in 0 .. now : Recover(limit)
    \/ FetchWal
    \/ Missing
    \/ FetchFails
    \/ Promote

Spec == Init /\ [][Next]_vars

-----------------------------------------------------------------------------
(* Properties *)

\* Type correctness of the offsite storage and of the processes.
TypeOK ==
    /\ now \in 0 .. MaxTime
    /\ seg \in 1 .. MaxSeg /\ archived \in 1 .. seg /\ archive \subseteq 1 .. archived
    /\ \A s \in DOMAIN full : full[s].files \subseteq Files /\ full[s].upto < seg
    /\ \A g \in DOMAIN wal : g < archived /\ wal[g] <= now
    /\ resumes \subseteq 0 .. now /\ taken \subseteq 0 .. now
    /\ lock \in Jobs \cup {NoJob}
    /\ shipped < seg

\* Nothing is missing between base backup s and the last segment reported as shipped.
Chain(s) == /\ "base" \in full[s].files
            /\ \A g \in full[s].upto + 1 .. shipped : g \in DOMAIN wal

\* "The newest full backup and the WAL after it are never deleted" (README, backup):
\* whatever failed, was retried or was deleted, recovery from the newest full backup,
\* and from any one taken within the hourly window, reaches the segment the last
\* successful hourly run reported.  So at most one hourly interval is lost.
ShippedIsRecoverable ==
    \A s \in DOMAIN full :
        s = Max(DOMAIN full) \/ now - s <= Hourly => Chain(s)

\* The first full backup of a month stays for Monthly ticks and every one for Daily
\* ticks, however the retention runs of several commands interleave with uploads.
RetentionPromise ==
    \A s \in taken :
        \/ now - s <= Daily
        \/ /\ now - s <= Monthly
           /\ \A t \in taken : Month(t) = Month(s) => s <= t
        => s \in DOMAIN full

\* A retention run leaves nothing that the next one, at the same time, would delete:
\* what is newest or first of its month is the same before and after the deletions.
PlanIsStable ==
    LET plan == PlanDeletions(Listing, now)
    IN  PlanDeletions(Listing \ plan, now) = {}

\* The retention policy keeps what it promises and settles in one run.
RetentionSound == TypeOK /\ RetentionPromise /\ PlanIsStable

\* A restore to the latest moment, none of whose fetches failed, ends at or after the
\* segment that was reported as shipped when it began, unless a newer full backup
\* appeared meanwhile (retention may then delete segments it has not fetched yet).
RestoreReachesShipped ==
    /\ restore.pc = "promoted" /\ restore.latest /\ ~restore.cut
    /\ \A s \in DOMAIN full : s <= restore.newest
    => restore.next > restore.goal
=============================================================================
