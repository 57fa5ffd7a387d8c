----------------------------- MODULE EntriesStore -----------------------------
(***************************************************************************)
(* The SQLite database below the entries application (app/db.c), in one    *)
(* master and its workers: who has it open and with which locks after the  *)
(* fork, INSERT and SELECT through the write-ahead log (WAL), checkpoints, *)
(* processes that die or close, and wrd_server_close, which closes the     *)
(* database before it kills the workers.                                   *)
(*                                                                         *)
(* wrd_db_init runs in the master, before the fork.  On a database that    *)
(* exists it reads through the WAL, and the workers inherit an open WAL    *)
(* with none of the master's file locks.  On a new one (fresh) it sets     *)
(* journal_mode last and reads nothing more: every process opens the WAL   *)
(* by itself, at its first statement.                                      *)
(*                                                                         *)
(* The database is one page, a set of rows, and a frame of the WAL is an   *)
(* image of it.  (So a reader's mark matters to writers that start the log *)
(* again; with more pages it matters to checkpoints too.)  The wal-index   *)
(* header is [mx, salt]: each commit and each restart of the log changes   *)
(* it.  The rows that the database had before the start are left out.      *)
(***************************************************************************)
EXTENDS Naturals, Sequences, FiniteSets

CONSTANTS
    Workers,
    Master,
    Nobody,
    Rows,          \* bound: the rows the clients post, each once
    CheckpointAt   \* SQLITE_DEFAULT_WAL_AUTOCHECKPOINT, in frames

Processes == Workers \cup {Master}

ASSUME StoreAssumption ==
    /\ Master \notin Workers
    /\ Nobody \notin Rows
    /\ CheckpointAt \in Nat \ {0}

VARIABLES
    fresh,     \* this start created the database file
    db,        \* the content of the database file
    frames,    \* the WAL file, with what earlier generations left at its end
    mx,        \* wal-index: frames of the current generation
    salt,      \* wal-index: the generation
    backfill,  \* wal-index: frames already copied into the database
    linked,    \* the WAL has its name: a process that opens the database finds it
    attached,  \* the processes with an open WAL
    lock,      \* their locks on the database file
    pc,        \* where each process is
    snap,      \* the read transaction of each process
    row,       \* the row it inserts, or Nobody
    target,    \* the last frame its checkpoint copies
    acked,     \* history: rows answered with 201
    kept,      \* history: rows stored while the database was not exposed, but
               \* those a checkpoint that runs at that moment may write over
    exposed    \* history: a process got the database for itself under the others

index == <<mx, salt, backfill>>
files == <<fresh, db, frames, mx, salt, backfill, linked>>
history == <<acked, kept, exposed>>
vars == <<files, attached, lock, pc, snap, row, target, history>>

\* mark: the lock a reader holds.  "db": READ_LOCK(0), it reads the database
\* file only; "wal": it reads the last of the frames min..mx, if there is one.
Snapshot == [mark : {"none", "header", "db", "wal"}, mx : Nat, min : Nat, salt : Nat]
NoSnapshot == [mark |-> "none", mx |-> 0, min |-> 0, salt |-> 0]

\* Slip: the database is read after journal_mode is set.
OpensWalAlways == TRUE
\* Does wrd_db_init leave the WAL open for the fork?
OpensWal == ~fresh

\* The state behind the fork.
Init ==
    /\ fresh \in BOOLEAN
    /\ db = {} /\ frames = <<>> /\ mx = 0 /\ salt = 0 /\ backfill = 0
    /\ linked = OpensWal
    /\ attached = IF OpensWal THEN Processes ELSE {}
    /\ lock = [p \in Processes |->
                 IF OpensWal /\ p = Master THEN "shared" ELSE "none"]
    /\ pc = [p \in Processes |-> "idle"]
    /\ snap = [p \in Processes |-> NoSnapshot]
    /\ row = [p \in Processes |-> Nobody]
    /\ target = [p \in Processes |-> 0]
    /\ acked = {} /\ kept = {} /\ exposed = FALSE

-------------------------------------------------------------------------------
Goto(p, there) == pc' = [pc EXCEPT ![p] = there]

\* The content a read transaction sees (sqlite3WalFindFrame).
View(p) == IF snap[p].mark = "wal" /\ snap[p].min <= snap[p].mx
             THEN frames[snap[p].mx] ELSE db

\* The content that a process opening the database file would find.
NamedContent == IF linked /\ mx > 0 THEN frames[mx] ELSE db

\* Slip: the header is not looked at again.
UnchangedAlways(p) == TRUE
\* The wal-index header is still the one the process copied.
Unchanged(p) == snap[p].mx = mx /\ snap[p].salt = salt

Holding(mark) == {p \in Processes : snap[p].mark = mark}
Writing == {p \in Processes : pc[p] = "writing"}
Checkpointing == {p \in Workers : pc[p] \in {"backfill", "backfilled"}}

\* sqlite3OsLock: EXCLUSIVE is granted when no other process has a lock.
MayExclude(p) == \A q \in Processes \ {p} : lock[q] = "none"
Excluded == \E p \in Processes : lock[p] = "exclusive"

-------------------------------------------------------------------------------
(* Requests.  A worker serves one at a time.                               *)

StartInsert(w, r) ==
    /\ pc[w] = "idle" /\ \A q \in Workers : row[q] # r
    /\ r \notin acked
    /\ row' = [row EXCEPT ![w] = r]
    /\ Goto(w, "open")
    /\ UNCHANGED <<files, attached, lock, snap, target, history>>

StartList(w) ==
    /\ pc[w] = "idle"
    /\ Goto(w, "open")
    /\ UNCHANGED <<files, attached, lock, snap, row, target, history>>

\* A process that has no open WAL yet takes its SHARED lock and opens it: an
\* existing one is recovered when nobody else uses it, a missing one created.
OpenWal(w) ==
    /\ pc[w] = "open" /\ w \notin attached /\ ~Excluded
    /\ attached' = attached \cup {w}
    /\ lock' = [lock EXCEPT ![w] = "shared"]
    /\ linked' = TRUE
    /\ IF linked
         THEN /\ backfill' = IF attached = {} THEN 0 ELSE backfill
              /\ UNCHANGED <<frames, mx, salt>>
         ELSE frames' = <<>> /\ mx' = 0 /\ salt' = salt + 1 /\ backfill' = 0
    /\ UNCHANGED <<fresh, db, pc, snap, row, target, history>>

\* walIndexTryHdr: the process copies the header.
ReadHeader(w) ==
    /\ pc[w] = "open" /\ w \in attached
    /\ snap' = [snap EXCEPT ![w] =
                  [mark |-> "header", mx |-> mx, min |-> 0, salt |-> salt]]
    /\ Goto(w, "header")
    /\ UNCHANGED <<files, attached, lock, row, target, history>>

\* walTryBeginRead: with everything backfilled, READ_LOCK(0), unless a
\* checkpoint holds it; else a read mark.  A header that changed since it was
\* copied sends the process back.
Marked(w) ==
    IF backfill = snap[w].mx /\ Checkpointing = {}
      THEN [snap[w] EXCEPT !.mark = "db"]
      ELSE [snap[w] EXCEPT !.mark = "wal", !.min = backfill + 1]
BeginRead(w) ==
    /\ pc[w] = "header"
    /\ IF Unchanged(w)
         THEN /\ snap' = [snap EXCEPT ![w] = Marked(w)]
              /\ Goto(w, "reading")
         ELSE /\ snap' = [snap EXCEPT ![w] = NoSnapshot]
              /\ Goto(w, "open")
    /\ UNCHANGED <<files, attached, lock, row, target, history>>

EndList(w) ==
    /\ pc[w] = "reading" /\ row[w] = Nobody
    /\ snap' = [snap EXCEPT ![w] = NoSnapshot]
    /\ Goto(w, "idle")
    /\ UNCHANGED <<files, attached, lock, row, target, history>>

\* Slip: a writer does not mind that its snapshot is old.
MayWriteStale(w) == Writing = {}
\* sqlite3WalBeginWriteTransaction: one writer, and only from the newest
\* content; otherwise the busy handler starts the transaction again.
MayWrite(w) == Writing = {} /\ Unchanged(w)
BeginWrite(w) ==
    /\ pc[w] = "reading" /\ row[w] # Nobody
    /\ IF MayWrite(w)
         THEN Goto(w, "writing") /\ UNCHANGED snap
         ELSE /\ snap' = [snap EXCEPT ![w] = NoSnapshot]
              /\ Goto(w, "open")
    /\ UNCHANGED <<files, attached, lock, row, target, history>>

\* The busy handler gives up after busy_timeout: an error response.
GiveUp(w) ==
    /\ pc[w] = "open"
    /\ \/ w \notin attached /\ Excluded
       \/ row[w] # Nobody /\ Writing # {}
    /\ row' = [row EXCEPT ![w] = Nobody]
    /\ Goto(w, "idle")
    /\ UNCHANGED <<files, attached, lock, snap, target, history>>

\* Slip: the readers' marks are not looked at.
MayRestartUnderReaders(w) == snap[w].mark = "db" /\ backfill > 0
\* walRestartLog: a writer that reads the database file only starts the log
\* again, unless a reader has a mark in it.
MayRestart(w) == snap[w].mark = "db" /\ backfill > 0 /\ Holding("wal") = {}

\* walFrames, and the header that makes the frame visible.
Commit(w) ==
    /\ pc[w] = "writing"
    /\ LET first == MayRestart(w)
           at == IF first THEN 1 ELSE mx + 1
           image == View(w) \cup {row[w]}
       IN  /\ frames' = IF at > Len(frames) THEN Append(frames, image)
                                            ELSE [frames EXCEPT ![at] = image]
           /\ mx' = at
           /\ IF first THEN salt' = salt + 1 /\ backfill' = 0
                       ELSE UNCHANGED <<salt, backfill>>
    /\ kept' = IF exposed THEN kept ELSE kept \cup {row[w]}
    /\ snap' = [snap EXCEPT ![w] = NoSnapshot]
    /\ Goto(w, IF mx' >= CheckpointAt THEN "checkpoint" ELSE "answer")
    /\ UNCHANGED <<fresh, db, linked, attached, lock, row, target, acked, exposed>>

\* walCheckpoint, PASSIVE, from sqlite3WalDefaultHook.  It does nothing when
\* another checkpoint runs or a reader has READ_LOCK(0).  It stops at the oldest
\* mark (safe), and there is nothing to copy then: the newest frame of the one
\* page lies beyond.
Marks == {n \in 0..mx : \A q \in Holding("wal") : n <= snap[q].mx}
StartCheckpoint(w) ==
    /\ pc[w] = "checkpoint"
    /\ \E safe \in Marks :
          /\ \A n \in Marks : n <= safe
          /\ IF Checkpointing = {} /\ Holding("db") = {} /\ backfill < safe
               THEN /\ target' = [target EXCEPT ![w] = safe]
                    /\ Goto(w, IF safe = mx THEN "backfill" ELSE "backfilled")
               ELSE Goto(w, "answer") /\ UNCHANGED target
    /\ UNCHANGED <<files, attached, lock, snap, row, history>>

\* CKPT_LOCK and READ_LOCK(0) are held from StartCheckpoint to EndCheckpoint.
CopyFrames(w) ==
    /\ pc[w] = "backfill"
    /\ db' = frames[target[w]]
    /\ Goto(w, "backfilled")
    /\ UNCHANGED <<fresh, frames, index, linked, attached, lock, snap, row, target, history>>

\* Slip: one frame too many counts as copied.
EndCheckpointBeyond(w) ==
    /\ pc[w] = "backfilled"
    /\ backfill' = target[w] + 1
    /\ Goto(w, "answer")
    /\ UNCHANGED <<fresh, db, frames, mx, salt, linked, attached, lock, snap, row, target,
                   history>>
EndCheckpoint(w) ==
    /\ pc[w] = "backfilled"
    /\ backfill' = target[w]
    /\ Goto(w, "answer")
    /\ UNCHANGED <<fresh, db, frames, mx, salt, linked, attached, lock, snap, row, target,
                   history>>

\* sqlite3_step returned SQLITE_DONE: 201.
Acknowledge(w) ==
    /\ pc[w] = "answer"
    /\ acked' = acked \cup {row[w]}
    /\ row' = [row EXCEPT ![w] = Nobody]
    /\ Goto(w, "idle")
    /\ UNCHANGED <<files, attached, lock, snap, target, kept, exposed>>

-------------------------------------------------------------------------------
(* Closing: wrd_server_close in the master, and in a worker whose accept()  *)
(* or net_init failed.                                                     *)

Leave(p, there) ==
    /\ attached' = attached \ {p}
    /\ lock' = [lock EXCEPT ![p] = "none"]
    /\ snap' = [snap EXCEPT ![p] = NoSnapshot]
    /\ Goto(p, there)

\* The rows that a worker's checkpoint has not seen: it may write the older page
\* over what p copies.
Endangered(p) ==
    UNION {Rows \ frames[target[w]] : w \in {v \in Workers \ {p} : pc[v] = "backfill"}}

\* sqlite3WalClose without an EXCLUSIVE lock leaves the WAL as it is.
StartClose(p) ==
    /\ pc[p] = "idle"
    /\ IF p \in attached /\ MayExclude(p)
         THEN /\ lock' = [lock EXCEPT ![p] = "exclusive"]
              /\ Goto(p, "closing")
              /\ exposed' = (exposed \/ attached # {p})
              /\ kept' = kept \ Endangered(p)
              /\ UNCHANGED <<attached, snap>>
         ELSE Leave(p, "closed") /\ UNCHANGED <<kept, exposed>>
    /\ UNCHANGED <<files, row, target, acked>>

\* With the EXCLUSIVE lock the closing checkpoint takes no lock of the WAL and
\* minds no mark.
CloseReadHeader(p) ==
    /\ pc[p] = "closing"
    /\ target' = [target EXCEPT ![p] = mx]
    /\ Goto(p, IF backfill < mx THEN "closing copy" ELSE "closing unlink")
    /\ UNCHANGED <<files, attached, lock, snap, row, history>>

CloseCopy(p) ==
    /\ pc[p] = "closing copy"
    /\ db' = frames[target[p]]
    /\ backfill' = target[p]
    /\ Goto(p, "closing unlink")
    /\ UNCHANGED <<fresh, frames, mx, salt, linked, attached, lock, snap, row, target, history>>

\* Slip: the WAL is unlinked whatever the checkpoint returned.
CloseFailsUnlinks(p) ==
    /\ pc[p] = "closing copy"
    /\ Goto(p, "closing unlink")
    /\ UNCHANGED <<files, attached, lock, snap, row, target, history>>
\* A checkpoint that fails (disk full) keeps the WAL.
CloseFails(p) ==
    /\ pc[p] = "closing copy"
    /\ Leave(p, "closed")
    /\ UNCHANGED <<files, row, target, history>>

CloseUnlink(p) ==
    /\ pc[p] = "closing unlink"
    /\ linked' = FALSE
    /\ Leave(p, "closed")
    /\ UNCHANGED <<fresh, db, frames, index, row, target, history>>

-------------------------------------------------------------------------------
(* The end of a process: its locks go with it.                             *)

Dies(p) ==
    /\ pc[p] # "gone"
    /\ Leave(p, "gone")
    /\ UNCHANGED <<files, row, target, history>>

\* wrd_worker_close, after the application was closed.
KillWorker(w) == pc[Master] = "closed" /\ Dies(w)

\* SIGKILL, or a handler that crashes.
Crash(p) == Dies(p)

-------------------------------------------------------------------------------
Request(w) ==
    \/ \E r \in Rows : StartInsert(w, r)
    \/ StartList(w)
    \/ OpenWal(w) \/ ReadHeader(w) \/ BeginRead(w) \/ EndList(w)
    \/ BeginWrite(w) \/ GiveUp(w) \/ Commit(w)
    \/ StartCheckpoint(w) \/ CopyFrames(w) \/ EndCheckpoint(w)
    \/ Acknowledge(w)

Close(p) ==
    \/ StartClose(p) \/ CloseReadHeader(p) \/ CloseCopy(p) \/ CloseFails(p)
    \/ CloseUnlink(p)

Next ==
    \/ \E w \in Workers : Request(w) \/ KillWorker(w)
    \/ \E p \in Processes : Close(p) \/ Crash(p)

Spec == Init /\ [][Next]_vars

-------------------------------------------------------------------------------
Places == {"idle", "open", "header", "reading", "writing", "checkpoint", "backfill",
           "backfilled", "answer", "closing", "closing copy", "closing unlink",
           "closed", "gone"}

TypeOK ==
    /\ fresh \in BOOLEAN /\ db \subseteq Rows /\ frames \in Seq(SUBSET Rows)
    /\ mx \in 0..Len(frames) /\ salt \in Nat /\ backfill \in 0..Len(frames)
    /\ linked \in BOOLEAN /\ attached \subseteq Processes
    /\ lock \in [Processes -> {"none", "shared", "exclusive"}]
    /\ pc \in [Processes -> Places]
    /\ snap \in [Processes -> Snapshot]
    /\ row \in [Processes -> Rows \cup {Nobody}]
    /\ target \in [Processes -> Nat]
    /\ acked \subseteq Rows /\ kept \subseteq Rows /\ exposed \in BOOLEAN

\* What was stored while nobody had closed the database under the others is
\* there for the next start, whoever dies or closes in between and whatever
\* the survivors still write (wrd_db_close, wrd_add_entry); except the rows
\* that a checkpoint which is running at such a close may still overwrite
\* with an older page (Endangered).
KeptRowsSurvive == kept \subseteq NamedContent

\* On a database that this start created, every process has locks of its own,
\* and no close loses a row that a client was told of.
FreshLosesNothing == fresh => acked \subseteq NamedContent

\* A listing (wrd_get_entries) reads one state of the database, whatever is
\* inserted, checkpointed or restarted meanwhile.
SnapshotStable ==
    [][\A w \in Workers :
          (pc[w] = "reading" /\ pc'[w] = "reading" /\ ~exposed /\ ~exposed')
             => View(w)' = View(w)]_vars

\* A request that starts after a client was answered 201 sees that client's
\* row, in whichever worker it runs, until somebody closes the database under
\* the workers (exposed).
ReadersSeeAcknowledged ==
    [][\A w \in Workers :
          (pc[w] = "header" /\ pc'[w] = "reading" /\ ~exposed)
             => acked \subseteq View(w)']_vars

\* sqlite3WalClose: an EXCLUSIVE lock "guarantees that the connection
\* associated with this log file is the only connection to the database".
ExclusiveIsOnlyConnection ==
    \A p \in Processes : lock[p] = "exclusive" => attached = {p}

\* The database file, with its WAL, is a set of rows stored one by one.
Store == INSTANCE RowStore WITH rows <- NamedContent
ImplementsStore == Store!Spec
===============================================================================
