--------------------------- MODULE ErasureProofs ---------------------------
(***************************************************************************)
(* Proofs about Erasure for any number of resumes, of concurrent requests  *)
(* and of workers, whatever pipeline each worker runs and whatever fails.  *)
(***************************************************************************)
EXTENDS Erasure, TLAPS

(***************************************************************************)
(* The inductive invariant.  Rows never come back: a row that exists keeps *)
(* existing and an address that was replaced stays replaced, so what a     *)
(* request read and what a late job found out remain true.                 *)
(***************************************************************************)

Erasing == {"revoke", "forget", "files"}

\* What a request holds is still true of the tables: the rows a deletion read exist, with
\* the addresses it saw replaced, and an upload owns the file it saved until its row exists.
ReqOK(q) ==
    /\ req[q].pc \in Erasing => req[q].op = "erase"
    /\ req[q].pc = "insert" =>
          /\ req[q].resume \in Resume
          /\ row[req[q].resume] = None
          /\ file[req[q].resume]
    /\ req[q].pc = "enqueue" => req[q].resume \in Resume /\ row[req[q].resume] # None
    /\ \A r \in Resume : req[q].rows[r] # None =>
          /\ row[r] # None
          /\ req[q].rows[r].url = "deleted" => row[r].url = "deleted"

\* No two uploads save their file under one address.
Exclusive ==
    \A p, q \in Req :
        /\ req[p].pc = "insert" /\ req[q].pc = "insert"
        /\ req[p].resume = req[q].resume
        => p = q

\* A file that outlives its row's address is still on the list of some deletion.
FileOK(r) ==
    DeletedRow(r) /\ file[r] =>
        r \in lost \/ \E q \in Req : req[q].pc \in Erasing /\ r \in Addresses(q)

\* A job has a row, and a late one is on its way to the look-up that stops it.
RunOK(w) ==
    /\ run[w].pc # "idle" => run[w].resume \in Resume /\ row[run[w].resume] # None
    /\ run[w].late =>
          /\ run[w].pc # "idle"
          /\ row[run[w].resume].url = "deleted"
          /\ run[w].pipeline = "linear" => run[w].pc \in {"download", "analyse", "lookup"}
          /\ run[w].pipeline # "linear" => run[w].pc = "lookup"

IInv ==
    /\ TypeOK
    /\ \A q \in Req : ReqOK(q)
    /\ Exclusive
    /\ \A r \in Resume : FileOK(r)
    /\ \A r \in Resume : job[r] = "queued" => row[r] # None
    /\ \A w \in Worker : RunOK(w)

-----------------------------------------------------------------------------
(***************************************************************************)
(* Frames: what is left to show when a step changes one request or worker. *)
(***************************************************************************)

\* Rows stay and replaced addresses stay replaced.
Grows ==
    \A r \in Resume : row[r] # None =>
        /\ row'[r] # None
        /\ row[r].url = "deleted" => row'[r].url = "deleted"

LEMMA ReqKept ==
    ASSUME IInv, NEW q \in Req, req'[q] = req[q], Grows,
           req[q].pc = "insert" =>
               row'[req[q].resume] = None /\ file'[req[q].resume]
    PROVE  ReqOK(q)'
  BY DEF IInv, ReqOK, Grows

LEMMA RunKept ==
    ASSUME IInv, NEW w \in Worker, run'[w] = run[w], Grows
    PROVE  RunOK(w)'
  BY DEF IInv, RunOK, Grows

LEMMA RequestFrame ==
    ASSUME IInv, TypeOK', Grows, UNCHANGED run, NEW q \in Req,
           \A p \in Req \ {q} : req'[p] = req[p],
           \A p \in Req \ {q} : req[p].pc = "insert" =>
               row'[req[p].resume] = None /\ file'[req[p].resume],
           ReqOK(q)',
           \A p \in Req \ {q} : req[p].pc = "insert" /\ req'[q].pc = "insert" =>
               req[p].resume # req'[q].resume,
           \A r \in Resume : FileOK(r)',
           \A r \in Resume : job'[r] = "queued" => job[r] = "queued" \/ row[r] # None
    PROVE  IInv'
  <1>1. ASSUME NEW p \in Req PROVE ReqOK(p)'
    BY <1>1, ReqKept
  <1>2. Exclusive'
    BY DEF IInv, Exclusive
  <1>3. \A w \in Worker : RunOK(w)'
    BY RunKept
  <1>4. ASSUME NEW r \in Resume, job'[r] = "queued" PROVE row'[r] # None
    BY <1>4 DEF IInv, Grows
  <1>5. QED
    BY <1>1, <1>2, <1>3, <1>4 DEF IInv

\* Most steps of a request only move it, or write what no other part looks at.
LEMMA QuietRequest ==
    ASSUME IInv, NEW q \in Req, NEW n \in Request,
           req' = [req EXCEPT ![q] = n],
           erased' \in BOOLEAN, name' \in Name, session' \in BOOLEAN, cache' \in Name,
           UNCHANGED <<row, file, job, history, run>>,
           n.pc # "insert", n.pc # "enqueue",
           n.pc \in Erasing => n.op = "erase",
           req[q].pc \in Erasing => n.pc \in Erasing /\ n.rows = req[q].rows,
           \A r \in Resume : n.rows[r] # None => n.rows = req[q].rows \/ n.rows = row
    PROVE  IInv'
  <1>1. TypeOK'
    BY DEF IInv, TypeOK, history
  <1>2. req'[q] = n /\ \A p \in Req \ {q} : req'[p] = req[p]
    BY DEF IInv, TypeOK, history
  <1>3. Grows
    BY DEF Grows
  <1>4. ReqOK(q)'
    BY <1>2 DEF IInv, ReqOK
  <1>5. ASSUME NEW r \in Resume PROVE FileOK(r)'
    BY <1>2, <1>5 DEF IInv, FileOK, history, DeletedRow, Addresses
  <1>6. \A p \in Req \ {q} : req[p].pc = "insert" =>
            row'[req[p].resume] = None /\ file'[req[p].resume]
    BY DEF IInv, ReqOK
  <1>7. QED
    BY <1>1, <1>2, <1>3, <1>4, <1>5, <1>6, RequestFrame

LEMMA WorkerFrame ==
    ASSUME IInv, TypeOK', Grows, NEW w \in Worker,
           UNCHANGED <<file, lost, req>>,
           \A r \in Resume : row[r] = None => row'[r] = None,
           \A r \in Resume : row[r] # None => row'[r].url = row[r].url,
           \A v \in Worker \ {w} : run'[v] = run[v],
           RunOK(w)',
           \A r \in Resume : job'[r] = "queued" => job[r] = "queued" \/ row[r] # None
    PROVE  IInv'
  <1>1. ASSUME NEW q \in Req PROVE ReqOK(q)'
    BY <1>1, ReqKept DEF IInv, ReqOK
  <1>2. Exclusive'
    BY DEF IInv, Exclusive
  <1>3. ASSUME NEW r \in Resume PROVE FileOK(r)'
    BY <1>3 DEF IInv, FileOK, history, DeletedRow, Addresses
  <1>4. \A v \in Worker : RunOK(v)'
    BY RunKept
  <1>5. ASSUME NEW r \in Resume, job'[r] = "queued" PROVE row'[r] # None
    BY <1>5 DEF IInv, Grows
  <1>6. QED
    BY <1>1, <1>2, <1>3, <1>4, <1>5 DEF IInv

-----------------------------------------------------------------------------
(***************************************************************************)
(* Lemmas about the records the actions build.                             *)
(***************************************************************************)

LEMMA BlankOK == Blank \in Request /\ Blank.pc = "idle" /\ Blank.rows = [r \in Resume |-> None]
  BY DEF Blank, Request, Op, Name

\* What the unit of work writes is a row, and a replaced address stays replaced.
LEMMA FlushOK ==
    ASSUME NEW cur \in Row, NEW old \in Row
    PROVE  /\ Flush(cur, old, Anonymised(old)) \in Row
           /\ Flush(cur, old, Anonymised(old)) # None
           /\ cur.url = "deleted" => Flush(cur, old, Anonymised(old)).url = "deleted"
           /\ Flush(cur, old, Anonymised(old)).url = "deleted" =>
                 cur.url = "deleted" \/ old.url = "live"
  <1>1. Anonymised(old) \in Row /\ Anonymised(old).url = "deleted"
    BY DEF Anonymised, Row
  <1>2. Flush(cur, old, Anonymised(old)) \in Row
    BY <1>1 DEF Flush, Row
  <1>3. Flush(cur, old, Anonymised(old)).url =
            IF "deleted" = old.url THEN cur.url ELSE "deleted"
    BY <1>1 DEF Flush
  <1>4. QED
    BY <1>1, <1>2, <1>3, RowAssumption DEF Row

-----------------------------------------------------------------------------
(***************************************************************************)
(* One lemma per group of actions, one step per action.                    *)
(***************************************************************************)

\* Logins, the user cache, profile edits and the steps of a deletion before its commit
\* and before its files.
LEMMA QuietActions ==
    ASSUME IInv, NEW q \in Req,
           \/ LoginRead(q) \/ LoginCreate(q)
           \/ \E op \in {"edit", "upload", "erase"} : Authenticate(q, op)
           \/ CacheRead(q) \/ UserLoad(q) \/ CacheStore(q)
           \/ EditRead(q) \/ EditCommit(q) \/ UploadStart(q)
           \/ EraseRead(q) \/ EraseRevoke(q) \/ EraseForget(q)
    PROVE  IInv'
  <1>0. /\ req \in [Req -> Request] /\ req[q] \in Request /\ row \in [Resume -> Row \cup {None}]
        /\ erased \in BOOLEAN /\ name \in Name /\ session \in BOOLEAN /\ cache \in Name
        /\ req[q].rows \in [Resume -> Row \cup {None}]
    BY DEF IInv, TypeOK, Request
  <1>1. ASSUME NEW op \in {"login", "edit", "upload", "erase"}, NEW pc \in {"create", "cached"},
               req' = [req EXCEPT ![q] = [Blank EXCEPT !.op = op, !.pc = pc]],
               req[q].pc = "idle",
               UNCHANGED <<erased, data, store, history, run>>
        PROVE  IInv'
    <2>1. PICK n \in Request : /\ n.pc = pc /\ n.rows = [r \in Resume |-> None]
                              /\ req' = [req EXCEPT ![q] = n]
      <3>1. /\ [Blank EXCEPT !.op = op, !.pc = pc] \in Request
            /\ [Blank EXCEPT !.op = op, !.pc = pc].pc = pc
            /\ [Blank EXCEPT !.op = op, !.pc = pc].rows = [r \in Resume |-> None]
        BY DEF Blank, Request, Op, Name
      <3>2. QED
        BY <1>1, <3>1
    <2>2. req[q].pc \notin Erasing /\ pc \notin Erasing
      BY <1>1 DEF Erasing
    <2>3. UNCHANGED <<erased, name, row, file, job, session, cache, history, run>>
      BY <1>1 DEF data, store
    <2>4. QED
      BY <1>0, <1>1, <2>1, <2>2, <2>3, QuietRequest
  <1>2. CASE LoginRead(q)
    BY <1>1, <1>2 DEF LoginRead, At
  <1>3. ASSUME NEW op \in {"edit", "upload", "erase"}, Authenticate(q, op) PROVE IInv'
    BY <1>1, <1>3 DEF Authenticate, At
  <1>4. ASSUME req' = [req EXCEPT ![q] = Blank], req[q].pc \notin Erasing,
               erased' \in BOOLEAN, name' \in Name, session' \in BOOLEAN, cache' \in Name,
               UNCHANGED <<row, file, job, history, run>>
        PROVE  IInv'
    BY <1>4, BlankOK, QuietRequest DEF Erasing
  <1>5. CASE LoginCreate(q) \/ EditCommit(q)
    BY <1>0, <1>4, <1>5 DEF LoginCreate, EditCommit, At, Finish, data, store, Erasing, Name
  <1>6. ASSUME NEW pc \in {"load", "work", "store", "commit", "save", "forget", "files"},
               NEW n, n = req'[q], n \in Request, n.pc = pc, n.op = req[q].op,
               n.rows = req[q].rows \/ n.rows = row \/ n.rows = [r \in Resume |-> None],
               req' = [req EXCEPT ![q] = n],
               req[q].pc \in Erasing => pc \in Erasing /\ n.rows = req[q].rows,
               pc \in Erasing => req[q].op = "erase",
               erased' \in BOOLEAN, name' \in Name, session' \in BOOLEAN, cache' \in Name,
               UNCHANGED <<row, file, job, history, run>>
        PROVE  IInv'
    BY <1>6, QuietRequest DEF Erasing
  <1>7. ASSUME NEW pc \in {"work", "commit", "save", "forget", "files"}, Goto(q, pc),
               req[q].pc \in Erasing => pc \in Erasing,
               pc \in Erasing => req[q].op = "erase",
               erased' \in BOOLEAN, name' \in Name, session' \in BOOLEAN, cache' \in Name,
               UNCHANGED <<row, file, job, history, run>>
        PROVE  IInv'
    <2>1. /\ req'[q] \in Request /\ req'[q].pc = pc /\ req'[q].op = req[q].op
          /\ req'[q].rows = req[q].rows
      BY <1>0, <1>7 DEF Goto, Request
    <2>2. req' = [req EXCEPT ![q] = req'[q]]
      BY <1>0, <1>7 DEF Goto
    <2>3. QED
      BY <1>6, <1>7, <2>1, <2>2
  <1>8. CASE CacheRead(q)
    <2>1. PICK pc \in {"load", "work"}, id \in BOOLEAN :
              req' = [req EXCEPT ![q].pc = pc, ![q].identity = id]
      BY <1>8 DEF CacheRead
    <2>2. /\ req'[q] \in Request /\ req'[q].pc = pc /\ req'[q].op = req[q].op
          /\ req'[q].rows = req[q].rows
      BY <1>0, <2>1 DEF Request
    <2>3. req' = [req EXCEPT ![q] = req'[q]]
      BY <1>0, <2>1
    <2>4. QED
      BY <1>0, <1>6, <1>8, <2>2, <2>3 DEF CacheRead, data, store, Erasing
  <1>9. CASE UserLoad(q)
    <2>1. PICK id \in BOOLEAN : req' = [req EXCEPT ![q].pc = "store", ![q].identity = id]
      BY <1>9 DEF UserLoad
    <2>2. /\ req'[q] \in Request /\ req'[q].pc = "store" /\ req'[q].op = req[q].op
          /\ req'[q].rows = req[q].rows
      BY <1>0, <2>1 DEF Request
    <2>3. req' = [req EXCEPT ![q] = req'[q]]
      BY <1>0, <2>1
    <2>4. QED
      BY <1>0, <1>6, <1>9, <2>2, <2>3 DEF UserLoad, data, store, Erasing
  <1>10. CASE CacheStore(q)
    BY <1>0, <1>7, <1>10 DEF CacheStore, data, Erasing, Name
  <1>11. CASE EditRead(q) \/ UploadStart(q)
    <2>1. name' \in Name
      BY <1>0, <1>11 DEF EditRead, UploadStart, ProfileAfter, Name
    <2>2. QED
      BY <1>0, <1>7, <1>11, <2>1 DEF EditRead, UploadStart, At, store, Erasing
  <1>12. CASE EraseRead(q)
    <2>1. req' = [req EXCEPT ![q].pc = "commit", ![q].name = name, ![q].rows = Collected]
          /\ req[q].pc = "work" /\ UNCHANGED <<erased, data, store, history, run>>
      BY <1>12 DEF EraseRead, At
    <2>2. Collected \in [Resume -> Row \cup {None}]
          /\ (Collected = row \/ Collected = [r \in Resume |-> None])
      BY <1>0 DEF Collected
    <2>3. /\ req'[q] \in Request /\ req'[q].pc = "commit" /\ req'[q].op = req[q].op
          /\ req'[q].rows = Collected
      BY <1>0, <2>1, <2>2 DEF Request
    <2>4. req' = [req EXCEPT ![q] = req'[q]]
      BY <1>0, <2>1
    <2>5. QED
      BY <1>0, <1>6, <2>1, <2>2, <2>3, <2>4 DEF data, store, Erasing
  <1>13. CASE EraseRevoke(q)
    BY <1>0, <1>7, <1>13 DEF EraseRevoke, At, data, Erasing
  <1>14. CASE EraseForget(q)
    BY <1>0, <1>7, <1>14 DEF EraseForget, At, data, Erasing, Name
  <1>15. QED
    BY <1>2, <1>3, <1>5, <1>8, <1>9, <1>10, <1>11, <1>12, <1>13, <1>14

\* An upload: its file, its row, its job.
LEMMA UploadActions ==
    ASSUME IInv, NEW q \in Req,
           (\E r \in Resume : SaveFile(q, r)) \/ UploadCommit(q) \/ Enqueue(q)
    PROVE  IInv'
  <1>0. /\ req \in [Req -> Request] /\ req[q] \in Request /\ row \in [Resume -> Row \cup {None}]
        /\ file \in [Resume -> BOOLEAN] /\ req[q].rows \in [Resume -> Row \cup {None}]
        /\ job \in [Resume -> {"none", "queued", "started", "finished"}]
        /\ \A p \in Req : ReqOK(p)
    BY DEF IInv, TypeOK, Request
  <1>1. ASSUME NEW r \in Resume, SaveFile(q, r) PROVE IInv'
    <2>1. /\ req[q].pc = "save" /\ row[r] = None /\ ~file[r]
          /\ file' = [file EXCEPT ![r] = TRUE]
          /\ req' = [req EXCEPT ![q].pc = "insert", ![q].resume = r]
          /\ UNCHANGED <<erased, name, row, job, session, cache, history, run>>
      BY <1>1 DEF SaveFile, At, store
    <2>2. /\ req'[q] \in Request /\ req'[q].pc = "insert" /\ req'[q].resume = r
          /\ req'[q].rows = req[q].rows
      BY <1>0, <2>1 DEF Request
    <2>3. \A p \in Req \ {q} : req'[p] = req[p]
      BY <1>0, <2>1
    <2>4. TypeOK'
      BY <1>0, <2>1, <2>2 DEF IInv, TypeOK, history
    <2>5. Grows
      BY <2>1 DEF Grows
    <2>6. ReqOK(q)'
      BY <1>0, <2>1, <2>2 DEF ReqOK, Erasing
    <2>7. \A p \in Req \ {q} : req[p].pc = "insert" =>
              /\ row'[req[p].resume] = None /\ file'[req[p].resume]
              /\ req[p].resume # r
      BY <1>0, <2>1 DEF ReqOK
    <2>8. ASSUME NEW t \in Resume PROVE FileOK(t)'
      BY <1>0, <2>1, <2>2, <2>3, <2>8 DEF IInv, FileOK, history, DeletedRow, Addresses, Erasing
    <2>9. QED
      BY <2>1, <2>2, <2>3, <2>4, <2>5, <2>6, <2>7, <2>8, RequestFrame
  <1>2. CASE UploadCommit(q)
    <2>1. PICK r \in Resume : r = req[q].resume /\ row[r] = None /\ file[r]
      BY <1>0, <1>2 DEF UploadCommit, At, ReqOK
    <2>2. /\ req[q].pc = "insert"
          /\ row' = [row EXCEPT ![r] =
                [url |-> "live", text |-> FALSE, skills |-> "none", agent |-> FALSE]]
          /\ req' = [req EXCEPT ![q].pc = "enqueue"]
          /\ UNCHANGED <<erased, name, file, job, session, cache, history, run>>
      BY <1>2, <2>1 DEF UploadCommit, At, store, Goto
    <2>3. row'[r] \in Row /\ row'[r].url = "live"
      BY <1>0, <2>2 DEF Row
    <2>4. row'[r] # None /\ \A t \in Resume \ {r} : row'[t] = row[t]
      BY <1>0, <2>2, <2>3, RowAssumption
    <2>5. /\ req'[q] \in Request /\ req'[q].pc = "enqueue" /\ req'[q].resume = r
          /\ req'[q].rows = req[q].rows
      BY <1>0, <2>1, <2>2 DEF Request
    <2>6. \A p \in Req \ {q} : req'[p] = req[p]
      BY <1>0, <2>2
    <2>7. TypeOK'
      BY <1>0, <2>2, <2>3, <2>4, <2>5 DEF IInv, TypeOK, history
    <2>8. Grows
      BY <2>1, <2>4 DEF Grows
    <2>9. ReqOK(q)'
      BY <1>0, <2>1, <2>4, <2>5 DEF ReqOK, Erasing
    <2>10. \A p \in Req \ {q} : req[p].pc = "insert" =>
               row'[req[p].resume] = None /\ file'[req[p].resume]
      BY <1>0, <2>1, <2>2, <2>4 DEF IInv, ReqOK, Exclusive
    <2>11. ASSUME NEW t \in Resume PROVE FileOK(t)'
      BY <1>0, <2>1, <2>2, <2>3, <2>4, <2>5, <2>6, <2>11
         DEF IInv, FileOK, history, DeletedRow, Addresses, Erasing
    <2>12. QED
      BY <2>2, <2>5, <2>6, <2>7, <2>8, <2>9, <2>10, <2>11, RequestFrame
  <1>3. CASE Enqueue(q)
    <2>1. PICK r \in Resume : r = req[q].resume /\ row[r] # None
      BY <1>0, <1>3 DEF Enqueue, At, ReqOK
    <2>2. /\ req[q].pc = "enqueue" /\ req' = [req EXCEPT ![q] = Blank]
          /\ job' = [job EXCEPT ![r] = "queued"] \/ UNCHANGED job
          /\ UNCHANGED <<erased, name, row, file, session, cache, history, run>>
      BY <1>3, <2>1 DEF Enqueue, At, store, Finish
    <2>3. req'[q] = Blank /\ \A p \in Req \ {q} : req'[p] = req[p]
      BY <1>0, <2>2
    <2>4. TypeOK'
      BY <1>0, <2>2, BlankOK DEF IInv, TypeOK, history
    <2>5. Grows
      BY <2>2 DEF Grows
    <2>6. ReqOK(q)'
      BY <2>3, BlankOK DEF ReqOK, Erasing
    <2>7. \A p \in Req \ {q} : req[p].pc = "insert" =>
              row'[req[p].resume] = None /\ file'[req[p].resume]
      BY <1>0, <2>2 DEF ReqOK
    <2>8. ASSUME NEW t \in Resume PROVE FileOK(t)'
      BY <1>0, <2>2, <2>3, <2>8 DEF IInv, FileOK, history, DeletedRow, Addresses, Erasing
    <2>9. \A t \in Resume : job'[t] = "queued" => job[t] = "queued" \/ row[t] # None
      BY <1>0, <2>1, <2>2
    <2>10. QED
      BY <2>2, <2>3, <2>4, <2>5, <2>6, <2>7, <2>8, <2>9, BlankOK, RequestFrame
  <1>4. QED
    BY <1>1, <1>2, <1>3

\* The commit of a deletion, its files, and the death of the process that serves a request.
LEMMA EraseActions ==
    ASSUME IInv, NEW q \in Req, EraseCommit(q) \/ EraseFiles(q) \/ Crash(q)
    PROVE  IInv'
  <1>0. /\ req \in [Req -> Request] /\ req[q] \in Request /\ row \in [Resume -> Row \cup {None}]
        /\ file \in [Resume -> BOOLEAN] /\ req[q].rows \in [Resume -> Row \cup {None}]
        /\ name \in Name /\ \A p \in Req : ReqOK(p)
    BY DEF IInv, TypeOK, Request
  <1>1. CASE EraseCommit(q)
    <2> DEFINE old == req[q].rows
    <2>1. /\ req[q].pc = "commit" /\ req[q].op = "erase" /\ erased' = TRUE
          /\ req' = [req EXCEPT ![q].pc = "revoke"] /\ name' \in Name
          /\ UNCHANGED <<file, job, session, cache, history, run>>
      BY <1>0, <1>1 DEF EraseCommit, At, Goto, store, Name
    <2>2. row' = [r \in Resume |-> IF old[r] = None THEN row[r]
                                   ELSE Flush(row[r], old[r], Anonymised(old[r]))]
      BY <1>1 DEF EraseCommit
    <2>3. /\ req'[q] \in Request /\ req'[q].pc = "revoke" /\ req'[q].op = "erase"
          /\ req'[q].rows = old
      BY <1>0, <2>1 DEF Request
    <2>4. \A p \in Req \ {q} : req'[p] = req[p]
      BY <1>0, <2>1
    <2>5. ASSUME NEW r \in Resume, old[r] = None PROVE row'[r] = row[r]
      BY <2>2, <2>5
    <2>6. ASSUME NEW r \in Resume, old[r] # None
          PROVE  /\ row[r] # None /\ row'[r] \in Row /\ row'[r] # None
                 /\ row[r].url = "deleted" => row'[r].url = "deleted"
                 /\ row'[r].url = "deleted" => row[r].url = "deleted" \/ old[r].url = "live"
                 /\ old[r].url = "deleted" => row[r].url = "deleted"
      <3>1. old[r] \in Row /\ row[r] \in Row /\ row[r] # None
            /\ (old[r].url = "deleted" => row[r].url = "deleted")
        BY <1>0, <2>6 DEF ReqOK
      <3>2. row'[r] = Flush(row[r], old[r], Anonymised(old[r]))
        BY <2>2, <2>6
      <3>3. QED
        BY <3>1, <3>2, FlushOK
    <2>7. TypeOK'
      <3>1. row' \in [Resume -> Row \cup {None}]
        <4>1. \A r \in Resume : row'[r] \in Row \cup {None}
          BY <1>0, <2>5, <2>6
        <4>2. QED
          BY <2>2, <4>1
      <3>2. QED
        BY <1>0, <2>1, <2>3, <3>1 DEF IInv, TypeOK, history
    <2>8. Grows
      BY <2>5, <2>6 DEF Grows
    <2>9. ReqOK(q)'
      BY <2>3, <2>6 DEF ReqOK, Erasing
    <2>10. \A p \in Req \ {q} : req[p].pc = "insert" =>
               row'[req[p].resume] = None /\ file'[req[p].resume]
      BY <1>0, <2>1, <2>5, <2>6 DEF ReqOK
    <2>11. ASSUME NEW r \in Resume, DeletedRow(r)', file'[r], r \notin lost'
           PROVE  \E p \in Req : req'[p].pc \in Erasing /\ r \in Addresses(p)'
      <3>1. CASE old[r] # None /\ old[r].url = "live"
        BY <2>3, <3>1 DEF Addresses, Erasing
      <3>2. CASE ~(old[r] # None /\ old[r].url = "live")
        <4>1. DeletedRow(r) /\ file[r] /\ r \notin lost
          BY <2>1, <2>5, <2>6, <2>11, <3>2 DEF DeletedRow, history
        <4>2. PICK p \in Req : req[p].pc \in Erasing /\ r \in Addresses(p)
          BY <4>1 DEF IInv, FileOK
        <4>3. p # q
          BY <2>1, <4>2 DEF Erasing
        <4>4. req'[p] = req[p]
          BY <2>4, <4>3
        <4>5. QED
          BY <4>2, <4>4 DEF Addresses
      <3>3. QED
        BY <3>1, <3>2
    <2>12. \A r \in Resume : FileOK(r)'
      BY <2>11 DEF FileOK
    <2>13. QED
      BY <2>1, <2>3, <2>4, <2>7, <2>8, <2>9, <2>10, <2>12, RequestFrame
  <1>2. CASE EraseFiles(q)
    <2>1. PICK kept \in SUBSET Addresses(q) :
              /\ file' = [r \in Resume |-> file[r] /\ r \notin Addresses(q) \ kept]
              /\ lost' = lost \cup kept
      BY <1>2 DEF EraseFiles
    <2>2. /\ req[q].pc = "files" /\ req' = [req EXCEPT ![q] = Blank] /\ done' = TRUE
          /\ UNCHANGED <<erased, name, row, job, session, cache, rewritten, run>>
      BY <1>2 DEF EraseFiles, At, Finish, store
    <2>3. req'[q] = Blank /\ \A p \in Req \ {q} : req'[p] = req[p]
      BY <1>0, <2>2
    <2>4. file' \in [Resume -> BOOLEAN] /\ lost' \subseteq Resume
      BY <2>1 DEF IInv, TypeOK, Addresses
    <2>5. TypeOK'
      BY <1>0, <2>2, <2>4, BlankOK DEF IInv, TypeOK, history
    <2>6. Grows
      BY <2>2 DEF Grows
    <2>7. ReqOK(q)'
      BY <2>3, BlankOK DEF ReqOK, Erasing
    <2>8. ASSUME NEW p \in Req \ {q}, req[p].pc = "insert"
          PROVE  row'[req[p].resume] = None /\ file'[req[p].resume]
      <3>1. req[p].resume \in Resume /\ row[req[p].resume] = None /\ file[req[p].resume]
        BY <1>0, <2>8 DEF ReqOK
      <3>2. req[p].resume \notin Addresses(q)
        BY <1>0, <3>1 DEF ReqOK, Addresses
      <3>3. QED
        BY <2>1, <2>2, <3>1, <3>2
    <2>9. ASSUME NEW r \in Resume, DeletedRow(r)', file'[r], r \notin lost'
          PROVE  \E p \in Req : req'[p].pc \in Erasing /\ r \in Addresses(p)'
      <3>1. DeletedRow(r) /\ file[r] /\ r \notin lost /\ r \notin Addresses(q)
        BY <2>1, <2>2, <2>9 DEF DeletedRow
      <3>2. PICK p \in Req : req[p].pc \in Erasing /\ r \in Addresses(p)
        BY <3>1 DEF IInv, FileOK
      <3>3. req'[p] = req[p]
        BY <2>3, <3>1, <3>2
      <3>4. QED
        BY <3>2, <3>3 DEF Addresses
    <2>10. \A r \in Resume : FileOK(r)'
      BY <2>9 DEF FileOK
    <2>11. QED
      BY <2>2, <2>3, <2>5, <2>6, <2>7, <2>8, <2>10, BlankOK, RequestFrame
  <1>3. CASE Crash(q)
    <2>1. /\ req' = [req EXCEPT ![q] = Blank]
          /\ lost' = lost \cup IF req[q].pc \in Erasing THEN Addresses(q) ELSE {}
          /\ UNCHANGED <<erased, name, row, file, job, session, cache, done, rewritten, run>>
      BY <1>3 DEF Crash, Finish, data, store, Erasing
    <2>2. req'[q] = Blank /\ \A p \in Req \ {q} : req'[p] = req[p]
      BY <1>0, <2>1
    <2>3. TypeOK'
      <3>1. lost' \subseteq Resume
        BY <2>1 DEF IInv, TypeOK, Addresses
      <3>2. QED
        BY <1>0, <2>1, <3>1, BlankOK DEF IInv, TypeOK
    <2>4. Grows
      BY <2>1 DEF Grows
    <2>5. ReqOK(q)'
      BY <2>2, BlankOK DEF ReqOK, Erasing
    <2>6. \A p \in Req \ {q} : req[p].pc = "insert" =>
              row'[req[p].resume] = None /\ file'[req[p].resume]
      BY <1>0, <2>1 DEF ReqOK
    <2>7. ASSUME NEW r \in Resume, DeletedRow(r)', file'[r], r \notin lost'
          PROVE  \E p \in Req : req'[p].pc \in Erasing /\ r \in Addresses(p)'
      <3>1. DeletedRow(r) /\ file[r] /\ r \notin lost
        BY <2>1, <2>7 DEF DeletedRow
      <3>2. PICK p \in Req : req[p].pc \in Erasing /\ r \in Addresses(p)
        BY <3>1 DEF IInv, FileOK
      <3>3. req'[p] = req[p]
        BY <2>1, <2>2, <2>7, <3>2
      <3>4. QED
        BY <2>1, <3>2, <3>3 DEF Addresses
    <2>9. \A r \in Resume : FileOK(r)'
      BY <2>7 DEF FileOK
    <2>8. QED
      BY <2>1, <2>2, <2>3, <2>4, <2>5, <2>6, <2>9, BlankOK, RequestFrame
  <1>4. QED
    BY <1>1, <1>2, <1>3

\* The workers.
LEMMA WorkerActions ==
    ASSUME IInv, NEW w \in Worker, WorkerStep(w)
    PROVE  IInv'
  <1>0. /\ row \in [Resume -> Row \cup {None}] /\ run \in [Worker -> Run] /\ run[w] \in Run
        /\ job \in [Resume -> {"none", "queued", "started", "finished"}] /\ RunOK(w)
    BY DEF IInv, TypeOK, history
  <1>1. Idle \in Run /\ Idle.pc = "idle" /\ ~Idle.late
    BY DEF Idle, Run
  <1>2. ASSUME NEW r \in Resume, NEW p \in Pipeline, Take(w, r, p) PROVE IInv'
    <2>1. /\ job[r] = "queued" /\ job' = [job EXCEPT ![r] = "started"]
          /\ UNCHANGED <<erased, name, row, file, session, cache, history, req>>
      BY <1>2 DEF Take, store
    <2>2. PICK n \in Run :
              /\ run' = [run EXCEPT ![w] = n] /\ n.resume = r /\ n.pipeline = p
              /\ n.pc = IF p = "linear" THEN "download" ELSE "lookup"
              /\ n.late <=> row[r].url = "deleted"
      <3> DEFINE n == [pc |-> IF p = "linear" THEN "download" ELSE "lookup",
                       resume |-> r, late |-> row[r].url = "deleted", pipeline |-> p]
      <3>1. n \in Run
        BY DEF Run
      <3>2. QED
        BY <1>2, <3>1 DEF Take
    <2>3. TypeOK'
      BY <1>0, <2>1, <2>2 DEF IInv, TypeOK, history
    <2>4. Grows
      BY <2>1 DEF Grows
    <2>5. run'[w] = n /\ \A v \in Worker \ {w} : run'[v] = run[v]
      BY <1>0, <2>2
    <2>6. row[r] # None
      BY <2>1 DEF IInv
    <2>7. RunOK(w)'
      BY <2>1, <2>2, <2>5, <2>6 DEF RunOK
    <2>8. \A t \in Resume : job'[t] = "queued" => job[t] = "queued"
      BY <1>0, <2>1
    <2>9. QED
      BY <2>1, <2>3, <2>4, <2>5, <2>7, <2>8, WorkerFrame DEF history
  <1>3. SUFFICES ASSUME run[w].pc # "idle",
                        Lookup(w) \/ Download(w) \/ Analyse(w) \/ WriteResult(w) \/ Retry(w)
                 PROVE  IInv'
    BY <1>2 DEF WorkerStep, Lookup, Download, Analyse, WriteResult, Retry
  <1>4. PICK r \in Resume : r = run[w].resume /\ row[r] # None /\ row[r] \in Row
    BY <1>0, <1>3 DEF RunOK
  \* The job ends, in whatever way, with the row written or not.
  <1>5. ASSUME NEW st \in {"queued", "finished"}, job' = [job EXCEPT ![r] = st],
               run' = [run EXCEPT ![w] = Idle],
               row' = row \/ (\E n \in Row : n.url = row[r].url /\ row' = [row EXCEPT ![r] = n]),
               rewritten' \subseteq Resume,
               UNCHANGED <<erased, name, file, session, cache, done, lost, req>>
        PROVE  IInv'
    <2>1. /\ row'[r] \in Row /\ row'[r].url = row[r].url
          /\ \A t \in Resume \ {r} : row'[t] = row[t]
      BY <1>0, <1>4, <1>5
    <2>2. TypeOK'
      BY <1>0, <1>1, <1>5 DEF IInv, TypeOK, history
    <2>3. row'[r] # None
      BY <2>1, RowAssumption
    <2>4. Grows
      BY <2>1, <2>3 DEF Grows
    <2>5. run'[w] = Idle /\ \A v \in Worker \ {w} : run'[v] = run[v]
      BY <1>0, <1>5
    <2>6. RunOK(w)'
      BY <1>1, <2>5 DEF RunOK
    <2>7. /\ \A t \in Resume : job'[t] = "queued" => job[t] = "queued" \/ row[t] # None
          /\ \A t \in Resume : row[t] = None => row'[t] = None
          /\ \A t \in Resume : row[t] # None => row'[t].url = row[t].url
      BY <1>0, <1>4, <1>5, <2>1
    <2>8. QED
      BY <1>5, <2>2, <2>4, <2>5, <2>6, <2>7, WorkerFrame
  \* The job goes on.
  <1>6. ASSUME NEW pc \in {"download", "analyse", "lookup", "write"},
               run' = [run EXCEPT ![w].pc = pc],
               run[w].late => run[w].pipeline = "linear" /\ pc \in {"analyse", "lookup"},
               UNCHANGED <<erased, name, row, file, job, session, cache, history, req>>
        PROVE  IInv'
    <2>1. /\ run'[w] \in Run /\ run'[w].pc = pc /\ run'[w].resume = r
          /\ (run'[w].late <=> run[w].late) /\ run'[w].pipeline = run[w].pipeline
      BY <1>0, <1>4, <1>6 DEF Run
    <2>2. \A v \in Worker \ {w} : run'[v] = run[v]
      BY <1>0, <1>6
    <2>3. TypeOK'
      BY <1>0, <1>6, <2>1 DEF IInv, TypeOK, history
    <2>4. Grows
      BY <1>6 DEF Grows
    <2>5. RunOK(w)'
      BY <1>0, <1>4, <1>6, <2>1 DEF RunOK
    <2>6. QED
      BY <1>6, <2>2, <2>3, <2>4, <2>5, WorkerFrame DEF history
  <1>7. ASSUME JobReturns(w), UNCHANGED <<erased, name, row, file, store, history, req>>
        PROVE  IInv'
    BY <1>4, <1>5, <1>7 DEF JobReturns, store, history, IInv, TypeOK
  <1>8. CASE Lookup(w)
    <2>1. CASE Found(r)
      <3>1. ~run[w].late
        BY <1>0, <1>4, <2>1 DEF RunOK, Found
      <3>2. QED
        BY <1>4, <1>6, <1>8, <2>1, <3>1 DEF Lookup, store
    <2>2. CASE ~Found(r)
      BY <1>4, <1>7, <1>8, <2>2 DEF Lookup
    <2>3. QED
      BY <2>1, <2>2
  <1>9. CASE Download(w)
    BY <1>0, <1>4, <1>6, <1>7, <1>9 DEF Download, RunOK, store
  <1>10. CASE Analyse(w)
    BY <1>0, <1>4, <1>6, <1>7, <1>10 DEF Analyse, RunOK, store
  <1>11. CASE WriteResult(w)
    <2>1. PICK skills \in {row[r].skills, "full"} :
              row' = [row EXCEPT ![r].text = TRUE, ![r].skills = skills,
                                 ![r].agent = (@ \/ run[w].pipeline = "multi_agent")]
      BY <1>4, <1>11 DEF WriteResult
    <2>2. PICK a \in BOOLEAN : row' = [row EXCEPT ![r].text = TRUE, ![r].skills = skills,
                                                  ![r].agent = a]
      BY <2>1
    <2>3. skills \in {"none", "full", "anonymous"}
      BY <1>4 DEF Row
    <2>4. row'[r] \in Row /\ row'[r].url = row[r].url
      BY <1>0, <1>4, <2>2, <2>3 DEF Row
    <2>5. row' = [row EXCEPT ![r] = row'[r]]
      BY <1>0, <2>2
    <2>6. rewritten' \subseteq Resume
      BY <1>4, <1>11 DEF WriteResult, IInv, TypeOK
    <2>7. QED
      BY <1>4, <1>5, <1>11, <2>4, <2>5, <2>6 DEF WriteResult, JobReturns, store
  <1>12. CASE Retry(w)
    BY <1>4, <1>5, <1>12 DEF Retry, store, history, IInv, TypeOK
  <1>13. QED
    BY <1>3, <1>8, <1>9, <1>10, <1>11, <1>12

-----------------------------------------------------------------------------
(***************************************************************************)
(* The theorems.                                                           *)
(***************************************************************************)

LEMMA InitOK == Init => IInv
  <1> SUFFICES ASSUME Init PROVE IInv
    OBVIOUS
  <1>1. Idle \in Run
    BY DEF Idle, Run
  <1>2. TypeOK
    BY <1>1, BlankOK DEF Init, TypeOK, Name
  <1>3. (\A q \in Req : ReqOK(q)) /\ Exclusive
    BY BlankOK DEF Init, ReqOK, Exclusive, Erasing
  <1>4. \A w \in Worker : RunOK(w)
    BY DEF Init, RunOK, Idle
  <1>5. QED
    BY <1>2, <1>3, <1>4 DEF IInv, Init, FileOK, DeletedRow

LEMMA StutterOK ==
    ASSUME IInv, UNCHANGED <<row, file, job, lost, req, run>>, TypeOK' PROVE IInv'
  BY DEF IInv, ReqOK, Exclusive, FileOK, RunOK, DeletedRow, Addresses

LEMMA NextOK == IInv /\ [Next]_vars => IInv'
  <1> SUFFICES ASSUME IInv, [Next]_vars PROVE IInv'
    OBVIOUS
  <1>1. CASE UNCHANGED vars
    BY <1>1, StutterOK DEF vars, IInv, TypeOK
  <1>2. CASE CacheExpires
    BY <1>2, StutterOK DEF CacheExpires, data, history, IInv, TypeOK, Name
  <1>3. ASSUME NEW q \in Req, RequestStep(q) PROVE IInv'
    BY <1>3, QuietActions, UploadActions, EraseActions DEF RequestStep
  <1>4. QED
    BY <1>1, <1>2, <1>3, WorkerActions DEF Next

\* Rows, files, jobs and the steps under way stay in agreement with one another, however
\* deletions, uploads, logins, workers and crashes interleave.
THEOREM Invariant == Spec => []IInv
  BY InitOK, NextOK, PTL DEF Spec

(***************************************************************************)
(* The content of erased rows.  What a deletion read and found empty stays *)
(* empty until its commit, unless a job writes to the row.                 *)
(***************************************************************************)

Committing(q) == At(q, "erase", "commit")

TextOK(r) ==
    r \notin rewritten =>
        /\ DeletedRow(r) => ~row[r].text /\ row[r].skills # "full"
        /\ \A q \in Req : Committing(q) /\ req[q].rows[r] # None =>
              /\ ~req[q].rows[r].text => ~row[r].text
              /\ req[q].rows[r].skills # "full" => row[r].skills # "full"

TextInv == \A r \in Resume : TextOK(r)

LEMMA TextInit == Init => TextInv
  BY BlankOK DEF Init, TextInv, TextOK, DeletedRow, Committing, At

\* Steps that write no row and start no commit.
LEMMA TextQuiet ==
    ASSUME TextInv, UNCHANGED <<row, rewritten>>,
           \A q \in Req : Committing(q)' => Committing(q) /\ req'[q].rows = req[q].rows
    PROVE  TextInv'
  BY DEF TextInv, TextOK, DeletedRow

\* The steps that neither write a row nor read the rows for a deletion.
LEMMA TextOther ==
    ASSUME IInv, TextInv, NEW q \in Req, RequestStep(q),
           ~EraseRead(q), ~EraseCommit(q), ~UploadCommit(q)
    PROVE  TextInv'
  <1>0. req \in [Req -> Request] /\ req[q] \in Request
    BY DEF IInv, TypeOK
  <1>1. \A p \in Req \ {q} : req'[p] = req[p]
    BY <1>0 DEF RequestStep, LoginRead, LoginCreate, Authenticate, CacheRead, UserLoad, CacheStore,
                EditRead, EditCommit, UploadStart, SaveFile, Enqueue, EraseRevoke, EraseForget,
                EraseFiles, Crash, Goto, Finish
  <1>2. UNCHANGED <<row, rewritten>>
    BY DEF RequestStep, LoginRead, LoginCreate, Authenticate, CacheRead, UserLoad, CacheStore,
           EditRead, EditCommit, UploadStart, SaveFile, Enqueue, EraseRevoke, EraseForget,
           EraseFiles, Crash, data, history
  <1>3. ~Committing(q)'
    <2>1. CASE LoginRead(q) \/ \E op \in {"edit", "upload", "erase"} : Authenticate(q, op)
      <3>1. ASSUME NEW op, NEW pc \in {"create", "cached"},
                   req' = [req EXCEPT ![q] = [Blank EXCEPT !.op = op, !.pc = pc]]
            PROVE  ~Committing(q)'
        <4>1. [Blank EXCEPT !.op = op, !.pc = pc].pc = pc
          BY DEF Blank
        <4>2. QED
          BY <1>0, <3>1, <4>1 DEF Committing, At
      <3>2. QED
        BY <2>1, <3>1 DEF LoginRead, Authenticate
    <2>2. CASE LoginCreate(q) \/ EditCommit(q) \/ Enqueue(q) \/ EraseFiles(q) \/ Crash(q)
      <3>1. req' = [req EXCEPT ![q] = Blank]
        BY <2>2 DEF LoginCreate, EditCommit, Enqueue, EraseFiles, Crash, Finish
      <3>2. QED
        BY <1>0, <3>1, BlankOK DEF Committing, At
    <2>3. CASE CacheRead(q) \/ UserLoad(q) \/ CacheStore(q)
      BY <1>0, <2>3 DEF CacheRead, UserLoad, CacheStore, Goto, Request, Committing, At
    <2>4. CASE EditRead(q) \/ UploadStart(q) \/ \E r \in Resume : SaveFile(q, r)
      BY <1>0, <2>4 DEF EditRead, UploadStart, SaveFile, Goto, Request, Committing, At
    <2>5. CASE EraseRevoke(q) \/ EraseForget(q)
      BY <1>0, <2>5 DEF EraseRevoke, EraseForget, Goto, Request, Committing, At
    <2>6. QED
      BY <2>1, <2>2, <2>3, <2>4, <2>5 DEF RequestStep
  <1>4. \A p \in Req : Committing(p)' => Committing(p) /\ req'[p].rows = req[p].rows
    BY <1>1, <1>3 DEF Committing, At
  <1>5. QED
    BY <1>2, <1>4, TextQuiet

\* A deletion reads the rows as they are.
LEMMA TextRead ==
    ASSUME IInv, TextInv, NEW q \in Req, EraseRead(q)
    PROVE  TextInv'
  <1>0. /\ req \in [Req -> Request] /\ req[q] \in Request
        /\ req' = [req EXCEPT ![q].pc = "commit", ![q].name = name, ![q].rows = Collected]
        /\ UNCHANGED <<row, rewritten>>
    BY DEF IInv, TypeOK, EraseRead, data, history
  <1>1. /\ req'[q].rows = Collected /\ \A p \in Req \ {q} : req'[p] = req[p]
    BY <1>0 DEF Request
  <1>2. \A r \in Resume : Collected[r] # None => Collected[r] = row[r]
    BY DEF Collected
  <1>3. ASSUME NEW r \in Resume, r \notin rewritten PROVE TextOK(r)'
    <2>1. DeletedRow(r)' => ~row'[r].text /\ row'[r].skills # "full"
      BY <1>0, <1>3 DEF TextInv, TextOK, DeletedRow
    <2>2. ASSUME NEW p \in Req, Committing(p)', req'[p].rows[r] # None
          PROVE  /\ ~req'[p].rows[r].text => ~row'[r].text
                 /\ req'[p].rows[r].skills # "full" => row'[r].skills # "full"
      <3>1. CASE p = q
        BY <1>0, <1>1, <1>2, <2>2, <3>1
      <3>2. CASE p # q
        <4>1. req'[p] = req[p] /\ Committing(p)
          BY <1>1, <2>2, <3>2 DEF Committing, At
        <4>2. QED
          BY <1>0, <1>3, <2>2, <4>1 DEF TextInv, TextOK
      <3>3. QED
        BY <3>1, <3>2
    <2>3. QED
      BY <2>1, <2>2 DEF TextOK
  <1>4. ASSUME NEW r \in Resume PROVE TextOK(r)'
    BY <1>0, <1>3 DEF TextOK
  <1>5. QED
    BY <1>4 DEF TextInv

\* A row written for a resume that keeps what others rely on.
LEMMA TextRow ==
    ASSUME IInv, TextInv, rewritten \subseteq rewritten', NEW r \in Resume,
           \A p \in Req : Committing(p)' => Committing(p) /\ req'[p].rows = req[p].rows,
           r \notin rewritten' =>
               /\ DeletedRow(r)' => ~row'[r].text /\ row'[r].skills # "full"
               /\ row[r] # None => /\ ~row[r].text => ~row'[r].text
                                   /\ row[r].skills # "full" => row'[r].skills # "full"
    PROVE  TextOK(r)'
  <1> SUFFICES ASSUME r \notin rewritten', NEW p \in Req, Committing(p)', req'[p].rows[r] # None
               PROVE  /\ ~req'[p].rows[r].text => ~row'[r].text
                      /\ req'[p].rows[r].skills # "full" => row'[r].skills # "full"
    BY DEF TextOK
  <1>1. Committing(p) /\ req'[p].rows = req[p].rows /\ r \notin rewritten
    OBVIOUS
  <1>2. row[r] # None
    BY <1>1 DEF IInv, ReqOK
  <1>3. /\ ~req[p].rows[r].text => ~row[r].text
        /\ req[p].rows[r].skills # "full" => row[r].skills # "full"
    BY <1>1 DEF TextInv, TextOK
  <1>4. QED
    BY <1>1, <1>2, <1>3

LEMMA TextCommits ==
    ASSUME IInv, TextInv, NEW q \in Req, EraseCommit(q) \/ UploadCommit(q)
    PROVE  TextInv'
  <1>0. /\ req \in [Req -> Request] /\ req[q] \in Request /\ row \in [Resume -> Row \cup {None}]
        /\ req[q].rows \in [Resume -> Row \cup {None}] /\ ReqOK(q)
    BY DEF IInv, TypeOK, Request
  <1>1. CASE EraseCommit(q)
    <2> DEFINE old == req[q].rows
    <2>1. /\ Committing(q) /\ req' = [req EXCEPT ![q].pc = "revoke"]
          /\ UNCHANGED rewritten
          /\ row' = [r \in Resume |-> IF old[r] = None THEN row[r]
                                      ELSE Flush(row[r], old[r], Anonymised(old[r]))]
      BY <1>1 DEF EraseCommit, Committing, Goto, history
    <2>2. \A p \in Req : Committing(p)' => Committing(p) /\ req'[p].rows = req[p].rows
      BY <1>0, <2>1 DEF Committing, At, Request
    <2>3. ASSUME NEW r \in Resume, r \notin rewritten
          PROVE  /\ DeletedRow(r)' => ~row'[r].text /\ row'[r].skills # "full"
                 /\ row[r] # None => /\ ~row[r].text => ~row'[r].text
                                     /\ row[r].skills # "full" => row'[r].skills # "full"
      <3>1. CASE old[r] = None
        <4>1. row'[r] = row[r]
          BY <2>1, <3>1
        <4>2. QED
          BY <2>3, <4>1 DEF TextInv, TextOK, DeletedRow
      <3>2. CASE old[r] # None
        <4>1. PICK o \in Row, c \in Row, a \in Row :
                /\ o = old[r] /\ c = row[r] /\ a = Anonymised(o)
                /\ ~a.text /\ a.skills # "full"
                /\ a.skills = o.skills => o.skills # "full"
          <5>1. old[r] \in Row /\ row[r] \in Row
            BY <1>0, <3>2 DEF ReqOK
          <5>2. PICK a : a = Anonymised(old[r])
            OBVIOUS
          <5>3. a \in Row /\ ~a.text /\ a.skills # "full"
            BY <5>1, <5>2 DEF Anonymised, Row
          <5>4. QED
            BY <5>1, <5>2, <5>3
        <4>2. row'[r] = Flush(c, o, a)
          BY <2>1, <3>2, <4>1
        <4>3. /\ Flush(c, o, a).text = (IF a.text = o.text THEN c.text ELSE a.text)
              /\ Flush(c, o, a).skills = (IF a.skills = o.skills THEN c.skills ELSE a.skills)
          BY DEF Flush
        <4>4. /\ ~o.text => ~c.text
              /\ o.skills # "full" => c.skills # "full"
          BY <2>1, <2>3, <3>2, <4>1 DEF TextInv, TextOK
        <4>5. a.text \in BOOLEAN /\ o.text \in BOOLEAN /\ c.text \in BOOLEAN
          BY DEF Row
        <4>6. ~Flush(c, o, a).text
          <5>1. CASE o.text
            BY <4>1, <4>3, <4>5, <5>1
          <5>2. CASE ~o.text
            BY <4>1, <4>3, <4>4, <4>5, <5>2
          <5>3. QED
            BY <5>1, <5>2
        <4>7. Flush(c, o, a).skills # "full"
          BY <4>1, <4>3, <4>4
        <4>8. QED
          BY <4>2, <4>6, <4>7
      <3>3. QED
        BY <3>1, <3>2
    <2>4. \A r \in Resume : TextOK(r)'
      BY <2>1, <2>2, <2>3, TextRow
    <2>5. QED
      BY <2>4 DEF TextInv
  <1>2. CASE UploadCommit(q)
    <2>1. PICK t \in Resume : t = req[q].resume /\ row[t] = None
      BY <1>0, <1>2 DEF UploadCommit, At, ReqOK
    <2>2. /\ row' = [row EXCEPT ![t] =
                [url |-> "live", text |-> FALSE, skills |-> "none", agent |-> FALSE]]
          /\ req' = [req EXCEPT ![q].pc = "enqueue"] /\ UNCHANGED rewritten
      BY <1>2, <2>1 DEF UploadCommit, Goto, history
    <2>3. \A p \in Req : Committing(p)' => Committing(p) /\ req'[p].rows = req[p].rows
      BY <1>0, <2>2 DEF Committing, At, Request
    <2>4. row'[t].url = "live" /\ \A r \in Resume \ {t} : row'[r] = row[r]
      BY <1>0, <2>2
    <2>5. ASSUME NEW r \in Resume, r \notin rewritten
          PROVE  /\ DeletedRow(r)' => ~row'[r].text /\ row'[r].skills # "full"
                 /\ row[r] # None => /\ ~row[r].text => ~row'[r].text
                                     /\ row[r].skills # "full" => row'[r].skills # "full"
      BY <2>1, <2>4, <2>5 DEF TextInv, TextOK, DeletedRow
    <2>6. \A r \in Resume : TextOK(r)'
      BY <2>2, <2>3, <2>5, TextRow
    <2>7. QED
      BY <2>6 DEF TextInv
  <1>3. QED
    BY <1>1, <1>2

LEMMA TextWorker ==
    ASSUME IInv, TextInv, NEW w \in Worker, WorkerStep(w)
    PROVE  TextInv'
  <1>1. CASE WriteResult(w)
    <2>1. PICK r \in Resume : r = run[w].resume
      BY <1>1 DEF WriteResult, IInv, RunOK
    <2>2. /\ rewritten' = rewritten \cup IF DeletedRow(r) \/ Awaited(r) THEN {r} ELSE {}
          /\ UNCHANGED req
      BY <1>1, <2>1 DEF WriteResult
    <2>3. \A t \in Resume \ {r} : row'[t] = row[t]
      <3>1. row \in [Resume -> Row \cup {None}]
        BY DEF IInv, TypeOK
      <3>2. PICK sk : row' = [row EXCEPT ![r].text = TRUE, ![r].skills = sk,
                                         ![r].agent = (@ \/ run[w].pipeline = "multi_agent")]
        BY <1>1, <2>1 DEF WriteResult
      <3>3. QED
        BY <3>1, <3>2
    <2>4. \A p \in Req : Committing(p)' => Committing(p) /\ req'[p].rows = req[p].rows
      BY <2>2 DEF Committing, At
    <2>5. ASSUME NEW t \in Resume \ {r} PROVE TextOK(t)'
      <3>1. row'[t] = row[t] /\ (t \notin rewritten' => t \notin rewritten)
        BY <2>2, <2>3
      <3>2. DeletedRow(t)' <=> DeletedRow(t)
        BY <3>1 DEF DeletedRow
      <3>3. QED
        BY <2>2, <2>4, <3>1, <3>2, TextRow DEF TextInv, TextOK
    <2>6. TextOK(r)'
      <3>1. SUFFICES ASSUME r \notin rewritten' PROVE TextOK(r)'
        BY DEF TextOK
      <3>2. ~DeletedRow(r) /\ ~Awaited(r)
        BY <2>2, <3>1
      <3>3. \A q \in Req : ~(Committing(q)' /\ req'[q].rows[r] # None)
        BY <2>2, <3>2 DEF Awaited, Committing, At
      <3>4. ~DeletedRow(r)'
        <4>1. row \in [Resume -> Row \cup {None}] /\ row[r] # None
          BY <1>1, <2>1 DEF IInv, TypeOK, RunOK, WriteResult
        <4>2. PICK sk : row' = [row EXCEPT ![r].text = TRUE, ![r].skills = sk,
                                           ![r].agent = (@ \/ run[w].pipeline = "multi_agent")]
          BY <1>1, <2>1 DEF WriteResult
        <4>3. row'[r].url = row[r].url
          BY <4>1, <4>2 DEF Row
        <4>4. QED
          BY <3>2, <4>1, <4>3 DEF DeletedRow
      <3>5. QED
        BY <3>3, <3>4 DEF TextOK
    <2>7. QED
      BY <2>5, <2>6 DEF TextInv
  <1>2. CASE ~WriteResult(w)
    <2>1. UNCHANGED <<row, rewritten, req>>
      BY <1>2 DEF WorkerStep, Take, Lookup, Download, Analyse, Retry, history
    <2>2. QED
      BY <2>1, TextQuiet DEF Committing, At
  <1>3. QED
    BY <1>1, <1>2

LEMMA TextNext == IInv /\ TextInv /\ [Next]_vars => TextInv'
  <1> SUFFICES ASSUME IInv, TextInv, [Next]_vars PROVE TextInv'
    OBVIOUS
  <1>1. CASE UNCHANGED vars
    BY <1>1, TextQuiet DEF vars, Committing, At
  <1>2. CASE CacheExpires
    BY <1>2, TextQuiet DEF CacheExpires, data, history, Committing, At
  <1>3. ASSUME NEW q \in Req, RequestStep(q) PROVE TextInv'
    BY <1>3, TextOther, TextRead, TextCommits
  <1>4. QED
    BY <1>1, <1>2, <1>3, TextWorker DEF Next

(***************************************************************************)
(* What the deletion keeps to.                                             *)
(***************************************************************************)

\* Once anonymize_candidate_account has answered, the only files left behind a replaced
\* address are those whose deletion failed or whose addresses died with a process.
THEOREM NoFileLeft == Spec => []FilesErased
  <1>1. IInv => FilesErased
    BY DEF IInv, FilesErased, FilesGone, Forgotten, FileOK, ReqOK
  <1>2. QED
    BY <1>1, Invariant, PTL

\* A row behind a replaced address has neither text nor employers unless a job that had
\* looked it up before wrote to it afterwards; a job that starts after the erasure, or
\* is run again by the queue, never does.
THEOREM NoTextLeft == Spec => []ContentErased
  <1>1. IInv /\ TextInv => ContentErased
    BY DEF IInv, TextInv, TextOK, ContentErased, TextGone, LateJobHarmless, RunOK
  <1>2. Init => TextInv
    BY TextInit
  <1>3. IInv /\ TextInv /\ [Next]_vars => TextInv'
    BY TextNext
  <1>4. QED
    BY <1>1, <1>2, <1>3, Invariant, PTL DEF Spec

=============================================================================
