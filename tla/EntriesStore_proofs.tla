------------------------- MODULE EntriesStore_proofs -------------------------
(***************************************************************************)
(* For any number of workers and rows, and whatever the checkpoint limit:  *)
(* the rows that were stored before the database was closed under somebody *)
(* survive, a database that this start created loses nothing, listings are *)
(* stable, and the files implement a set of rows.                          *)
(*                                                                         *)
(* KeptRowsSurvive is about one file at a time: with a WAL its last frame, *)
(* without one the database file.  The inductive invariant says of every   *)
(* place where one of the two takes over from the other that the one which *)
(* takes over has the rows.                                                *)
(***************************************************************************)
EXTENDS EntriesStore, TLAPS

Transaction == {"header", "reading", "writing"}
Stored == {"checkpoint", "backfill", "backfilled", "answer"}
Copying == {"backfill", "backfilled"}
Closing == {"closing", "closing copy", "closing unlink"}

\* The database file alone has the rows.
Complete == kept \subseteq db

\* Who has what open and locked, at each place.
Control(p) ==
    /\ snap[p].mark = "none" <=> pc[p] \notin Transaction
    /\ snap[p].mark = "header" <=> pc[p] = "header"
    /\ pc[p] \in Transaction \cup Stored \cup Closing => p \in attached
    /\ pc[p] \in Stored \cup {"writing"} => row[p] \in Rows
    /\ lock[p] = "exclusive" <=> pc[p] \in Closing
    /\ fresh => (lock[p] = "none" <=> p \notin attached)
    /\ ~fresh /\ p \notin attached => pc[p] \in {"closed", "gone"}
    /\ ~exposed /\ pc[p] \in Closing => attached = {p}

\* One writer; one checkpoint, and not beside a reader of the database file.
Exclusion ==
    /\ \A p, q \in Processes : pc[p] = "writing" /\ pc[q] = "writing" => p = q
    /\ \A v, w \in Workers : pc[v] \in Copying /\ pc[w] \in Copying => v = w
    /\ \A w \in Workers, q \in Processes : pc[w] \in Copying => snap[q].mark # "db"

\* The files.
Content ==
    /\ mx > 0 => kept \subseteq frames[mx]
    /\ backfill >= mx => Complete
    /\ ~linked => Complete
    /\ exposed => ~fresh
    /\ ~exposed =>
          /\ backfill <= mx
          /\ attached # {} => linked
          /\ acked \subseteq kept
          /\ db \subseteq kept
          /\ \A i \in 1..Len(frames) : frames[i] \subseteq kept

\* A read transaction whose header is still the newest sees the rows, and its
\* mark keeps what it sees.
Reader(q) ==
    /\ snap[q].mark # "none" =>
          snap[q].salt < salt \/ (snap[q].salt = salt /\ snap[q].mx <= mx)
    /\ snap[q].mark = "db" /\ Unchanged(q) => Complete
    /\ snap[q].mark = "wal" /\ Unchanged(q) /\ snap[q].min > mx => Complete
    /\ snap[q].mark = "wal" => snap[q].min >= 1
    /\ snap[q].mark = "wal" /\ ~exposed => snap[q].min <= backfill + 1 /\ snap[q].salt = salt
    /\ pc[q] = "writing" => Unchanged(q)

\* What a worker's checkpoint copies has the rows.
Checkpoint(w) ==
    /\ pc[w] \in Copying => target[w] \in 1..Len(frames)
    /\ pc[w] \in Copying /\ ~exposed =>
          /\ backfill < target[w] /\ target[w] <= mx
          /\ \A q \in Processes : snap[q].mark = "wal" => target[w] <= snap[q].mx
    /\ pc[w] = "backfill" /\ exposed => kept \subseteq frames[target[w]]
    /\ pc[w] = "backfilled" /\ target[w] >= mx => Complete
    /\ pc[w] \in Stored /\ ~exposed => row[w] \in kept

\* So has what a close copies, and the file it leaves behind.
Closed(p) ==
    /\ pc[p] = "closing copy" =>
          /\ target[p] \in 1..Len(frames)
          /\ kept \subseteq frames[target[p]]
          /\ ~exposed => target[p] <= mx
    /\ pc[p] = "closing unlink" => Complete

Inv ==
    /\ Exclusion
    /\ Content
    /\ \A p \in Processes : Control(p) /\ Reader(p) /\ Closed(p)
    /\ \A w \in Workers : Checkpoint(w)

IInv == TypeOK /\ Inv

-------------------------------------------------------------------------------
(* Facts that most steps use.                                              *)

LEMMA NoSnapshotIsNone == NoSnapshot \in Snapshot /\ NoSnapshot.mark = "none"
  BY DEF NoSnapshot, Snapshot

LEMMA IndexTypes ==
    ASSUME TypeOK
    PROVE  /\ mx \in Nat /\ salt \in Nat /\ backfill \in Nat /\ Len(frames) \in Nat
           /\ mx <= Len(frames) /\ backfill <= Len(frames)
  BY DEF TypeOK

\* A step in which w does not start to write, to copy or to read the database
\* file alone.
LEMMA ExclusionStays ==
    ASSUME Exclusion, NEW w \in Processes,
           \A p \in Processes \ {w} : UNCHANGED <<pc[p], snap[p]>>,
           pc'[w] = "writing" => pc[w] = "writing",
           pc'[w] \in Copying => pc[w] \in Copying,
           snap'[w].mark = "db" => snap[w].mark = "db"
    PROVE  Exclusion'
<1>1. \A p \in Processes : pc'[p] = "writing" => pc[p] = "writing"
  OBVIOUS
<1>2. \A v \in Workers : pc'[v] \in Copying => pc[v] \in Copying
  BY DEF Processes
<1>3. \A q \in Processes : snap'[q].mark = "db" => snap[q].mark = "db"
  OBVIOUS
<1> QED
  BY <1>1, <1>2, <1>3 DEF Exclusion, Copying

\* A step of w that touches neither the files nor the history, nor what belongs
\* to other processes: only what is said of w has to be shown again.
LEMMA LocalStep ==
    ASSUME IInv, NEW w \in Processes, UNCHANGED <<files, history>>,
           attached' = attached \/ attached' = attached \ {w},
           \A p \in Processes \ {w} :
               UNCHANGED <<pc[p], snap[p], row[p], target[p], lock[p]>>,
           snap'[w].mark = "wal" => snap'[w] = snap[w] \/ snap'[w].mx = mx,
           TypeOK', Exclusion', Control(w)', Reader(w)', Closed(w)',
           w \in Workers => Checkpoint(w)'
    PROVE  IInv'
<1> USE DEF files, index, history, IInv, Inv
<1>1. Content'
  BY DEF Content, Complete
<1>2. ASSUME NEW p \in Processes \ {w} PROVE Control(p)'
  <2>1. Control(p)
    OBVIOUS
  <2>2. p \in attached' <=> p \in attached
    OBVIOUS
  <2>3. attached = {p} => attached' = {p}
    OBVIOUS
  <2> QED
    BY <2>1, <2>2, <2>3 DEF Control
<1>3. ASSUME NEW p \in Processes \ {w} PROVE Reader(p)'
  <2>1. Reader(p)
    OBVIOUS
  <2> QED
    BY <2>1 DEF Reader, Unchanged, Complete
<1>4. ASSUME NEW p \in Processes \ {w} PROVE Closed(p)'
  <2>1. Closed(p)
    OBVIOUS
  <2> QED
    BY <2>1 DEF Closed, Complete
<1>5. ASSUME NEW v \in Workers \ {w} PROVE Checkpoint(v)'
  <2>1. v \in Processes \ {w}
    BY DEF Processes
  <2>2. Checkpoint(v)
    OBVIOUS
  <2>3. ASSUME pc[v] \in Copying, ~exposed, NEW q \in Processes, snap'[q].mark = "wal"
        PROVE  target[v] <= snap'[q].mx
    <3>1. target[v] <= mx /\ (snap[q].mark = "wal" => target[v] <= snap[q].mx)
      BY <2>2, <2>3 DEF Checkpoint
    <3> QED
      BY <2>3, <3>1
  <2> QED
    BY <2>1, <2>2, <2>3 DEF Checkpoint, Complete
<1> QED
  BY <1>1, <1>2, <1>3, <1>4, <1>5

LEMMA StartInsertKeeps ==
    ASSUME IInv, NEW w \in Workers, NEW r \in Rows, StartInsert(w, r)
    PROVE  IInv'
<1> USE DEF IInv, Inv
<1> w \in Processes
  BY DEF Processes
<1>1. /\ pc[w] = "idle"
      /\ pc'[w] = "open" /\ row'[w] = r
      /\ UNCHANGED <<snap[w], target[w], lock[w], attached>>
  BY DEF StartInsert, Goto, files, index, history, TypeOK
<1>2. /\ \A p \in Processes \ {w} :
            UNCHANGED <<pc[p], snap[p], row[p], target[p], lock[p]>>
      /\ UNCHANGED <<files, history>>
      /\ attached' = attached \/ attached' = attached \ {w}
  BY DEF StartInsert, Goto, files, index, history, TypeOK
<1>3. TypeOK'
  BY NoSnapshotIsNone, IndexTypes DEF StartInsert, Goto, files, index, history, TypeOK, Places
<1>4. Exclusion'
  BY <1>1, <1>2, ExclusionStays DEF Copying
<1>5. Control(w)'
  BY <1>1, <1>2 DEF Control, Transaction, Stored, Copying, Closing, files, history
<1>6. Reader(w)'
  BY <1>1, <1>2, IndexTypes DEF Reader, Unchanged, Complete, files, history, index
<1>7. Closed(w)'
  BY <1>1, <1>2 DEF Closed, Complete, files, history
<1>8. w \in Workers => Checkpoint(w)'
  BY <1>1, <1>2 DEF Checkpoint, Complete, Transaction, Stored, Copying, Closing, files, history
<1> QED
  BY <1>1, <1>2, <1>3, <1>4, <1>5, <1>6, <1>7, <1>8, LocalStep

LEMMA StartListKeeps ==
    ASSUME IInv, NEW w \in Workers, StartList(w)
    PROVE  IInv'
<1> USE DEF IInv, Inv
<1> w \in Processes
  BY DEF Processes
<1>1. /\ pc[w] = "idle"
      /\ pc'[w] = "open"
      /\ UNCHANGED <<snap[w], row[w], target[w], lock[w], attached>>
  BY DEF StartList, Goto, files, index, history, TypeOK
<1>2. /\ \A p \in Processes \ {w} :
            UNCHANGED <<pc[p], snap[p], row[p], target[p], lock[p]>>
      /\ UNCHANGED <<files, history>>
      /\ attached' = attached \/ attached' = attached \ {w}
  BY DEF StartList, Goto, files, index, history, TypeOK
<1>3. TypeOK'
  BY NoSnapshotIsNone, IndexTypes DEF StartList, Goto, files, index, history, TypeOK, Places
<1>4. Exclusion'
  BY <1>1, <1>2, ExclusionStays DEF Copying
<1>5. Control(w)'
  BY <1>1, <1>2 DEF Control, Transaction, Stored, Copying, Closing, files, history
<1>6. Reader(w)'
  BY <1>1, <1>2, IndexTypes DEF Reader, Unchanged, Complete, files, history, index
<1>7. Closed(w)'
  BY <1>1, <1>2 DEF Closed, Complete, files, history
<1>8. w \in Workers => Checkpoint(w)'
  BY <1>1, <1>2 DEF Checkpoint, Complete, Transaction, Stored, Copying, Closing, files, history
<1> QED
  BY <1>1, <1>2, <1>3, <1>4, <1>5, <1>6, <1>7, <1>8, LocalStep

LEMMA ReadHeaderKeeps ==
    ASSUME IInv, NEW w \in Workers, ReadHeader(w)
    PROVE  IInv'
<1> USE DEF IInv, Inv
<1> w \in Processes
  BY DEF Processes
<1>1. /\ pc[w] = "open" /\ w \in attached
      /\ pc'[w] = "header" /\ snap'[w].mark = "header"
      /\ snap'[w].mx = mx /\ snap'[w].salt = salt
      /\ UNCHANGED <<row[w], target[w], lock[w], attached>>
  BY DEF ReadHeader, Goto, files, index, history, TypeOK
<1>2. /\ \A p \in Processes \ {w} :
            UNCHANGED <<pc[p], snap[p], row[p], target[p], lock[p]>>
      /\ UNCHANGED <<files, history>>
      /\ attached' = attached \/ attached' = attached \ {w}
  BY DEF ReadHeader, Goto, files, index, history, TypeOK
<1>3. TypeOK'
  BY NoSnapshotIsNone, IndexTypes DEF ReadHeader, Goto, files, index, history, TypeOK, Places,
     Snapshot
<1>4. Exclusion'
  BY <1>1, <1>2, ExclusionStays DEF Copying
<1>5. Control(w)'
  BY <1>1, <1>2 DEF Control, Transaction, Stored, Copying, Closing, files, history
<1>6. Reader(w)'
  BY <1>1, <1>2, IndexTypes DEF Reader, Unchanged, Complete, files, history, index
<1>7. Closed(w)'
  BY <1>1, <1>2 DEF Closed, Complete, files, history
<1>8. w \in Workers => Checkpoint(w)'
  BY <1>1, <1>2 DEF Checkpoint, Complete, Transaction, Stored, Copying, Closing, files, history
<1> QED
  BY <1>1, <1>2, <1>3, <1>4, <1>5, <1>6, <1>7, <1>8, LocalStep

LEMMA BeginReadKeeps ==
    ASSUME IInv, NEW w \in Workers, BeginRead(w)
    PROVE  IInv'
<1> USE DEF IInv, Inv
<1> w \in Processes
  BY DEF Processes
<1>1. CASE Unchanged(w) /\ backfill = snap[w].mx /\ Checkpointing = {}
  <2>a. /\ Marked(w) \in Snapshot /\ Marked(w).mark = "db"
        /\ Marked(w).mx = snap[w].mx /\ Marked(w).salt = snap[w].salt
    BY <1>1, IndexTypes DEF Marked, Snapshot, TypeOK
  <2>b. /\ pc[w] = "header"
        /\ pc' = [pc EXCEPT ![w] = "reading"] /\ snap' = [snap EXCEPT ![w] = Marked(w)]
        /\ UNCHANGED <<files, attached, lock, row, target, history>>
    BY <1>1 DEF BeginRead, Goto
  <2>1. /\ pc[w] = "header"
        /\ pc'[w] = "reading" /\ snap'[w].mark = "db"
        /\ UNCHANGED <<snap[w].mx, snap[w].salt, row[w], target[w], lock[w], attached>>
    BY <2>a, <2>b DEF files, index, history, TypeOK
  <2>2. /\ \A p \in Processes \ {w} :
              UNCHANGED <<pc[p], snap[p], row[p], target[p], lock[p]>>
        /\ UNCHANGED <<files, history>>
        /\ attached' = attached \/ attached' = attached \ {w}
    BY <2>a, <2>b DEF files, index, history, TypeOK
  <2>3. TypeOK'
    BY <2>a, <2>b DEF files, index, history, TypeOK, Places
  <2>4. Exclusion'
    <3>1. \A p, q \in Processes : pc'[p] = "writing" /\ pc'[q] = "writing" => p = q
      BY <2>1, <2>2 DEF Exclusion
    <3>2. \A v, u \in Workers : pc'[v] \in Copying /\ pc'[u] \in Copying => v = u
      BY <2>1, <2>2 DEF Exclusion, Copying, Processes
    <3>3. \A v \in Workers : pc'[v] \notin Copying
      BY <1>1, <2>1, <2>2 DEF Checkpointing, Copying, Processes
    <3> QED
      BY <3>1, <3>2, <3>3 DEF Exclusion
  <2>5. Control(w)'
    BY <1>1, <2>1, <2>2 DEF Control, Transaction, Stored, Copying, Closing, files, history
  <2>6. Reader(w)'
    BY <1>1, <2>1, <2>2, IndexTypes DEF Reader, Unchanged, Complete, files, history, index,
       Content
  <2>7. Closed(w)'
    BY <1>1, <2>1, <2>2 DEF Closed, Complete, files, history
  <2>8. w \in Workers => Checkpoint(w)'
    BY <1>1, <2>1, <2>2 DEF Checkpoint, Complete, Transaction, Stored, Copying, Closing, files,
       history
  <2> QED
    BY <2>1, <2>2, <2>3, <2>4, <2>5, <2>6, <2>7, <2>8, LocalStep
<1>2. CASE Unchanged(w) /\ ~(backfill = snap[w].mx /\ Checkpointing = {})
  <2>a. /\ Marked(w) \in Snapshot /\ Marked(w).mark = "wal" /\ Marked(w).min = backfill + 1
        /\ Marked(w).mx = snap[w].mx /\ Marked(w).salt = snap[w].salt
    <3>1. Marked(w) = [snap[w] EXCEPT !.mark = "wal", !.min = backfill + 1]
      BY <1>2 DEF Marked
    <3>2. snap[w] \in Snapshot /\ backfill + 1 \in Nat
      BY IndexTypes DEF TypeOK
    <3> QED
      BY <3>1, <3>2 DEF Snapshot
  <2>b. /\ pc[w] = "header"
        /\ pc' = [pc EXCEPT ![w] = "reading"] /\ snap' = [snap EXCEPT ![w] = Marked(w)]
        /\ UNCHANGED <<files, attached, lock, row, target, history>>
    BY <1>2 DEF BeginRead, Goto
  <2>1. /\ pc[w] = "header"
        /\ pc'[w] = "reading" /\ snap'[w].mark = "wal"
        /\ snap'[w].min = backfill + 1
        /\ UNCHANGED <<snap[w].mx, snap[w].salt, row[w], target[w], lock[w], attached>>
    BY <2>a, <2>b DEF files, index, history, TypeOK
  <2>2. /\ \A p \in Processes \ {w} :
              UNCHANGED <<pc[p], snap[p], row[p], target[p], lock[p]>>
        /\ UNCHANGED <<files, history>>
        /\ attached' = attached \/ attached' = attached \ {w}
    BY <2>a, <2>b DEF files, index, history, TypeOK
  <2>3. TypeOK'
    BY <2>a, <2>b DEF files, index, history, TypeOK, Places
  <2>4. Exclusion'
    BY <2>1, <2>2, ExclusionStays DEF Copying
  <2>5. Control(w)'
    BY <1>2, <2>1, <2>2 DEF Control, Transaction, Stored, Copying, Closing, files, history
  <2>6. Reader(w)'
    BY <1>2, <2>1, <2>2, IndexTypes DEF Reader, Unchanged, Complete, files, history, index,
       Content
  <2>7. Closed(w)'
    BY <1>2, <2>1, <2>2 DEF Closed, Complete, files, history
  <2>8. w \in Workers => Checkpoint(w)'
    BY <1>2, <2>1, <2>2 DEF Checkpoint, Complete, Transaction, Stored, Copying, Closing, files,
       history
  <2> QED
    BY <1>2, <2>1, <2>2, <2>3, <2>4, <2>5, <2>6, <2>7, <2>8, LocalStep DEF Unchanged
<1>3. CASE ~Unchanged(w)
  <2>a. /\ pc[w] = "header"
        /\ pc' = [pc EXCEPT ![w] = "open"] /\ snap' = [snap EXCEPT ![w] = NoSnapshot]
        /\ UNCHANGED <<files, attached, lock, row, target, history>>
    BY <1>3 DEF BeginRead, Goto
  <2>1. /\ pc[w] = "header"
        /\ pc'[w] = "open"
        /\ snap'[w] = NoSnapshot /\ snap'[w].mark = "none"
        /\ UNCHANGED <<row[w], target[w], lock[w], attached>>
    BY <2>a, NoSnapshotIsNone DEF files, index, history, TypeOK
  <2>2. /\ \A p \in Processes \ {w} :
              UNCHANGED <<pc[p], snap[p], row[p], target[p], lock[p]>>
        /\ UNCHANGED <<files, history>>
        /\ attached' = attached \/ attached' = attached \ {w}
    BY <2>a DEF files, index, history, TypeOK
  <2>3. TypeOK'
    BY <2>a, NoSnapshotIsNone DEF files, index, history, TypeOK, Places
  <2>4. Exclusion'
    BY <2>1, <2>2, ExclusionStays DEF Copying
  <2>5. Control(w)'
    BY <2>1, <2>2 DEF Control, Transaction, Stored, Copying, Closing, files, history
  <2>6. Reader(w)'
    BY <2>1, <2>2, IndexTypes DEF Reader, Unchanged, Complete, files, history, index
  <2>7. Closed(w)'
    BY <2>1, <2>2 DEF Closed, Complete, files, history
  <2>8. w \in Workers => Checkpoint(w)'
    BY <2>1, <2>2 DEF Checkpoint, Complete, Transaction, Stored, Copying, Closing, files, history
  <2> QED
    BY <2>1, <2>2, <2>3, <2>4, <2>5, <2>6, <2>7, <2>8, LocalStep
<1> QED
  BY <1>1, <1>2, <1>3

LEMMA EndListKeeps ==
    ASSUME IInv, NEW w \in Workers, EndList(w)
    PROVE  IInv'
<1> USE DEF IInv, Inv
<1> w \in Processes
  BY DEF Processes
<1>1. /\ pc[w] = "reading"
      /\ pc'[w] = "idle"
      /\ snap'[w] = NoSnapshot /\ snap'[w].mark = "none"
      /\ UNCHANGED <<row[w], target[w], lock[w], attached>>
  BY NoSnapshotIsNone DEF EndList, Goto, files, index, history, TypeOK
<1>2. /\ \A p \in Processes \ {w} :
            UNCHANGED <<pc[p], snap[p], row[p], target[p], lock[p]>>
      /\ UNCHANGED <<files, history>>
      /\ attached' = attached \/ attached' = attached \ {w}
  BY DEF EndList, Goto, files, index, history, TypeOK
<1>3. TypeOK'
  BY NoSnapshotIsNone, IndexTypes DEF EndList, Goto, files, index, history, TypeOK, Places
<1>4. Exclusion'
  BY <1>1, <1>2, ExclusionStays DEF Copying
<1>5. Control(w)'
  BY <1>1, <1>2 DEF Control, Transaction, Stored, Copying, Closing, files, history
<1>6. Reader(w)'
  BY <1>1, <1>2, IndexTypes DEF Reader, Unchanged, Complete, files, history, index
<1>7. Closed(w)'
  BY <1>1, <1>2 DEF Closed, Complete, files, history
<1>8. w \in Workers => Checkpoint(w)'
  BY <1>1, <1>2 DEF Checkpoint, Complete, Transaction, Stored, Copying, Closing, files, history
<1> QED
  BY <1>1, <1>2, <1>3, <1>4, <1>5, <1>6, <1>7, <1>8, LocalStep

LEMMA BeginWriteKeeps ==
    ASSUME IInv, NEW w \in Workers, BeginWrite(w)
    PROVE  IInv'
<1> USE DEF IInv, Inv
<1> w \in Processes
  BY DEF Processes
<1>1. CASE MayWrite(w)
  <2>1. /\ pc[w] = "reading" /\ row[w] \in Rows
        /\ pc'[w] = "writing"
        /\ UNCHANGED <<snap[w], row[w], target[w], lock[w], attached>>
    BY <1>1 DEF BeginWrite, Goto, files, index, history, TypeOK
  <2>2. /\ \A p \in Processes \ {w} :
              UNCHANGED <<pc[p], snap[p], row[p], target[p], lock[p]>>
        /\ UNCHANGED <<files, history>>
        /\ attached' = attached \/ attached' = attached \ {w}
    BY <1>1 DEF BeginWrite, Goto, files, index, history, TypeOK
  <2>3. TypeOK'
    BY <1>1, NoSnapshotIsNone, IndexTypes DEF BeginWrite, Goto, files, index, history, TypeOK,
       Places
  <2>4. Exclusion'
    <3>1. \A p, q \in Processes : pc'[p] = "writing" /\ pc'[q] = "writing" => p = q
      BY <1>1, <2>1, <2>2 DEF MayWrite, Writing
    <3>2. \A v, u \in Workers : pc'[v] \in Copying /\ pc'[u] \in Copying => v = u
      BY <2>1, <2>2 DEF Exclusion, Copying, Processes
    <3>3. \A v \in Workers, q \in Processes : pc'[v] \in Copying => snap'[q].mark # "db"
      BY <2>1, <2>2 DEF Exclusion, Copying, Processes
    <3> QED
      BY <3>1, <3>2, <3>3 DEF Exclusion
  <2>5. Control(w)'
    BY <1>1, <2>1, <2>2 DEF Control, Transaction, Stored, Copying, Closing, files, history
  <2>6. Reader(w)'
    BY <1>1, <2>1, <2>2, IndexTypes DEF Reader, Unchanged, Complete, files, history, index,
       MayWrite
  <2>7. Closed(w)'
    BY <1>1, <2>1, <2>2 DEF Closed, Complete, files, history
  <2>8. w \in Workers => Checkpoint(w)'
    BY <1>1, <2>1, <2>2 DEF Checkpoint, Complete, Transaction, Stored, Copying, Closing, files,
       history
  <2> QED
    BY <2>1, <2>2, <2>3, <2>4, <2>5, <2>6, <2>7, <2>8, LocalStep
<1>2. CASE ~MayWrite(w)
  <2>1. /\ pc[w] = "reading" /\ row[w] \in Rows
        /\ pc'[w] = "open"
        /\ snap'[w] = NoSnapshot /\ snap'[w].mark = "none"
        /\ UNCHANGED <<row[w], target[w], lock[w], attached>>
    BY <1>2, NoSnapshotIsNone DEF BeginWrite, Goto, files, index, history, TypeOK
  <2>2. /\ \A p \in Processes \ {w} :
              UNCHANGED <<pc[p], snap[p], row[p], target[p], lock[p]>>
        /\ UNCHANGED <<files, history>>
        /\ attached' = attached \/ attached' = attached \ {w}
    BY <1>2 DEF BeginWrite, Goto, files, index, history, TypeOK
  <2>3. TypeOK'
    BY <1>2, NoSnapshotIsNone, IndexTypes DEF BeginWrite, Goto, files, index, history, TypeOK,
       Places
  <2>4. Exclusion'
    BY <2>1, <2>2, ExclusionStays DEF Copying
  <2>5. Control(w)'
    BY <2>1, <2>2 DEF Control, Transaction, Stored, Copying, Closing, files, history
  <2>6. Reader(w)'
    BY <2>1, <2>2, IndexTypes DEF Reader, Unchanged, Complete, files, history, index
  <2>7. Closed(w)'
    BY <2>1, <2>2 DEF Closed, Complete, files, history
  <2>8. w \in Workers => Checkpoint(w)'
    BY <2>1, <2>2 DEF Checkpoint, Complete, Transaction, Stored, Copying, Closing, files, history
  <2> QED
    BY <2>1, <2>2, <2>3, <2>4, <2>5, <2>6, <2>7, <2>8, LocalStep
<1> QED
  BY <1>1, <1>2

LEMMA GiveUpKeeps ==
    ASSUME IInv, NEW w \in Workers, GiveUp(w)
    PROVE  IInv'
<1> USE DEF IInv, Inv
<1> w \in Processes
  BY DEF Processes
<1>1. /\ pc[w] = "open"
      /\ pc'[w] = "idle"
      /\ UNCHANGED <<snap[w], target[w], lock[w], attached>>
  BY DEF GiveUp, Goto, files, index, history, TypeOK
<1>2. /\ \A p \in Processes \ {w} :
            UNCHANGED <<pc[p], snap[p], row[p], target[p], lock[p]>>
      /\ UNCHANGED <<files, history>>
      /\ attached' = attached \/ attached' = attached \ {w}
  BY DEF GiveUp, Goto, files, index, history, TypeOK
<1>3. TypeOK'
  BY NoSnapshotIsNone, IndexTypes DEF GiveUp, Goto, files, index, history, TypeOK, Places
<1>4. Exclusion'
  BY <1>1, <1>2, ExclusionStays DEF Copying
<1>5. Control(w)'
  BY <1>1, <1>2 DEF Control, Transaction, Stored, Copying, Closing, files, history
<1>6. Reader(w)'
  BY <1>1, <1>2, IndexTypes DEF Reader, Unchanged, Complete, files, history, index
<1>7. Closed(w)'
  BY <1>1, <1>2 DEF Closed, Complete, files, history
<1>8. w \in Workers => Checkpoint(w)'
  BY <1>1, <1>2 DEF Checkpoint, Complete, Transaction, Stored, Copying, Closing, files, history
<1> QED
  BY <1>1, <1>2, <1>3, <1>4, <1>5, <1>6, <1>7, <1>8, LocalStep

LEMMA CloseReadHeaderKeeps ==
    ASSUME IInv, NEW w \in Processes, CloseReadHeader(w)
    PROVE  IInv'
<1> USE DEF IInv, Inv
<1>1. CASE backfill < mx
  <2>a. mx \in Nat /\ mx \in 1..Len(frames) /\ kept \subseteq frames[mx]
    BY <1>1, IndexTypes DEF Content
  <2>b. Reader(w)
    OBVIOUS
  <2>1. /\ pc[w] = "closing"
        /\ pc'[w] = "closing copy" /\ target'[w] = mx
        /\ UNCHANGED <<snap[w], row[w], lock[w], attached>>
    BY <1>1 DEF CloseReadHeader, Goto, files, index, history, TypeOK
  <2>2. /\ \A p \in Processes \ {w} :
              UNCHANGED <<pc[p], snap[p], row[p], target[p], lock[p]>>
        /\ UNCHANGED <<files, history>>
        /\ attached' = attached \/ attached' = attached \ {w}
    BY <1>1 DEF CloseReadHeader, Goto, files, index, history, TypeOK
  <2>3. TypeOK'
    BY <1>1, NoSnapshotIsNone, IndexTypes DEF CloseReadHeader, Goto, files, index, history,
       TypeOK, Places
  <2>4. Exclusion'
    BY <2>1, <2>2, ExclusionStays DEF Copying
  <2>5. Control(w)'
    BY <1>1, <2>1, <2>2 DEF Control, Transaction, Stored, Copying, Closing, files, history
  <2>6. Reader(w)'
    BY <2>b, <2>1, <2>2 DEF Reader, Unchanged, Complete, files, history, index
  <2>7. Closed(w)'
    <3>1. pc'[w] = "closing copy" /\ target'[w] = mx /\ mx' = mx /\ frames' = frames /\ kept' = kept
      BY <2>1, <2>2 DEF files, history
    <3>2. target'[w] \in 1..Len(frames') /\ kept' \subseteq frames'[target'[w]] /\ target'[w] <= mx'
      <4>1. target'[w] = mx' /\ mx' \in Nat
        BY <2>a, <3>1
      <4>2. target'[w] <= mx'
        BY <4>1
      <4>3. target'[w] \in 1..Len(frames') /\ kept' \subseteq frames'[target'[w]]
        BY <2>a, <3>1
      <4> QED
        BY <4>2, <4>3
    <3> QED
      BY <3>1, <3>2 DEF Closed
  <2>8. w \in Workers => Checkpoint(w)'
    BY <1>1, <2>1, <2>2 DEF Checkpoint, Complete, Transaction, Stored, Copying, Closing, files,
       history
  <2> QED
    BY <2>1, <2>2, <2>3, <2>4, <2>5, <2>6, <2>7, <2>8, LocalStep
<1>2. CASE ~(backfill < mx)
  <2>a. Complete
    BY <1>2, IndexTypes DEF Content
  <2>1. /\ pc[w] = "closing"
        /\ pc'[w] = "closing unlink"
        /\ UNCHANGED <<snap[w], row[w], lock[w], attached>>
    BY <1>2 DEF CloseReadHeader, Goto, files, index, history, TypeOK
  <2>2. /\ \A p \in Processes \ {w} :
              UNCHANGED <<pc[p], snap[p], row[p], target[p], lock[p]>>
        /\ UNCHANGED <<files, history>>
        /\ attached' = attached \/ attached' = attached \ {w}
    BY <1>2 DEF CloseReadHeader, Goto, files, index, history, TypeOK
  <2>3. TypeOK'
    BY <1>2, NoSnapshotIsNone, IndexTypes DEF CloseReadHeader, Goto, files, index, history,
       TypeOK, Places
  <2>4. Exclusion'
    BY <2>1, <2>2, ExclusionStays DEF Copying
  <2>5. Control(w)'
    BY <1>2, <2>1, <2>2 DEF Control, Transaction, Stored, Copying, Closing, files, history
  <2>6. Reader(w)'
    BY <1>2, <2>1, <2>2, IndexTypes DEF Reader, Unchanged, Complete, files, history, index
  <2>7. Closed(w)'
    BY <2>a, <2>1, <2>2, IndexTypes DEF Closed, Complete, files, history, index
  <2>8. w \in Workers => Checkpoint(w)'
    BY <1>2, <2>1, <2>2 DEF Checkpoint, Complete, Transaction, Stored, Copying, Closing, files,
       history
  <2> QED
    BY <2>1, <2>2, <2>3, <2>4, <2>5, <2>6, <2>7, <2>8, LocalStep
<1> QED
  BY <1>1, <1>2

LEMMA CloseFailsKeeps ==
    ASSUME IInv, NEW w \in Processes, CloseFails(w)
    PROVE  IInv'
<1> USE DEF IInv, Inv
<1>1. /\ pc[w] = "closing copy"
      /\ pc'[w] = "closed" /\ lock'[w] = "none"
      /\ snap'[w] = NoSnapshot /\ snap'[w].mark = "none"
      /\ attached' = attached \ {w}
      /\ UNCHANGED <<row[w], target[w]>>
  BY NoSnapshotIsNone DEF CloseFails, Goto, files, index, history, Leave, TypeOK
<1>2. /\ \A p \in Processes \ {w} :
            UNCHANGED <<pc[p], snap[p], row[p], target[p], lock[p]>>
      /\ UNCHANGED <<files, history>>
      /\ attached' = attached \/ attached' = attached \ {w}
  BY DEF CloseFails, Goto, files, index, history, Leave, TypeOK
<1>3. TypeOK'
  BY NoSnapshotIsNone, IndexTypes DEF CloseFails, Goto, files, index, history, Leave, TypeOK,
     Places
<1>4. Exclusion'
  BY <1>1, <1>2, ExclusionStays DEF Copying
<1>5. Control(w)'
  BY <1>1, <1>2 DEF Control, Transaction, Stored, Copying, Closing, files, history
<1>6. Reader(w)'
  BY <1>1, <1>2, IndexTypes DEF Reader, Unchanged, Complete, files, history, index
<1>7. Closed(w)'
  BY <1>1, <1>2 DEF Closed, Complete, files, history
<1>8. w \in Workers => Checkpoint(w)'
  BY <1>1, <1>2 DEF Checkpoint, Complete, Transaction, Stored, Copying, Closing, files, history
<1> QED
  BY <1>1, <1>2, <1>3, <1>4, <1>5, <1>6, <1>7, <1>8, LocalStep

LEMMA DiesKeeps ==
    ASSUME IInv, NEW w \in Processes, Dies(w)
    PROVE  IInv'
<1> USE DEF IInv, Inv
<1>1. /\ pc'[w] = "gone" /\ lock'[w] = "none"
      /\ snap'[w] = NoSnapshot /\ snap'[w].mark = "none"
      /\ attached' = attached \ {w}
      /\ UNCHANGED <<row[w], target[w]>>
  BY NoSnapshotIsNone DEF Dies, Goto, files, index, history, Leave, TypeOK
<1>2. /\ \A p \in Processes \ {w} :
            UNCHANGED <<pc[p], snap[p], row[p], target[p], lock[p]>>
      /\ UNCHANGED <<files, history>>
      /\ attached' = attached \/ attached' = attached \ {w}
  BY DEF Dies, Goto, files, index, history, Leave, TypeOK
<1>3. TypeOK'
  BY NoSnapshotIsNone, IndexTypes DEF Dies, Goto, files, index, history, Leave, TypeOK, Places
<1>4. Exclusion'
  BY <1>1, <1>2, ExclusionStays DEF Copying
<1>5. Control(w)'
  BY <1>1, <1>2 DEF Control, Transaction, Stored, Copying, Closing, files, history
<1>6. Reader(w)'
  BY <1>1, <1>2, IndexTypes DEF Reader, Unchanged, Complete, files, history, index
<1>7. Closed(w)'
  BY <1>1, <1>2 DEF Closed, Complete, files, history
<1>8. w \in Workers => Checkpoint(w)'
  BY <1>1, <1>2 DEF Checkpoint, Complete, Transaction, Stored, Copying, Closing, files, history
<1> QED
  BY <1>1, <1>2, <1>3, <1>4, <1>5, <1>6, <1>7, <1>8, LocalStep

LEMMA StartCheckpointKeeps ==
    ASSUME IInv, NEW w \in Workers, StartCheckpoint(w)
    PROVE  IInv'
<1> USE DEF IInv, Inv
<1> w \in Processes
  BY DEF Processes
<1>0. pc[w] = "checkpoint" /\ UNCHANGED <<files, attached, lock, snap, row, history>>
  BY DEF StartCheckpoint
<1>1. ASSUME pc' = [pc EXCEPT ![w] = "answer"], target' = target
      PROVE  IInv'
  <2>1. pc'[w] = "answer" /\ UNCHANGED <<snap[w], row[w], target[w], lock[w], attached>>
    BY <1>0, <1>1 DEF TypeOK
  <2>2. /\ \A p \in Processes \ {w} :
              UNCHANGED <<pc[p], snap[p], row[p], target[p], lock[p]>>
        /\ UNCHANGED <<files, history>>
    BY <1>0, <1>1 DEF TypeOK
  <2>3. TypeOK'
    BY <1>0, <1>1 DEF TypeOK, Places, files, index, history
  <2>4. Exclusion'
    BY <2>1, <2>2, ExclusionStays DEF Copying
  <2>a. Control(w)
    OBVIOUS
  <2>5. Control(w)'
    <3>1. /\ pc[w] \in Stored /\ pc'[w] \in Stored
          /\ UNCHANGED <<snap[w], row[w], lock[w], attached, fresh, exposed>>
      BY <1>0, <2>1, <2>2 DEF Stored, files, history
    <3>2. \A x \in Stored : x \notin Transaction \cup Closing /\ x # "header"
      BY DEF Stored, Transaction, Closing
    <3> QED
      BY <2>a, <3>1, <3>2 DEF Control
  <2>6. Reader(w)'
    BY <2>1, <2>2 DEF Reader, Unchanged, Complete, files, history, index
  <2>7. Closed(w)'
    BY <2>1 DEF Closed
  <2>8. Checkpoint(w)'
    BY <1>0, <2>1, <2>2 DEF Checkpoint, Stored, Copying, history
  <2> QED
    BY <2>1, <2>2, <2>3, <2>4, <2>5, <2>6, <2>7, <2>8, LocalStep
<1>2. ASSUME NEW safe \in 0..mx,
             \A q \in Processes : snap[q].mark = "wal" => safe <= snap[q].mx,
             Checkpointing = {}, Holding("db") = {}, backfill < safe,
             target' = [target EXCEPT ![w] = safe],
             pc' = [pc EXCEPT ![w] = IF safe = mx THEN "backfill" ELSE "backfilled"]
      PROVE  IInv'
  <2>1. /\ pc'[w] = (IF safe = mx THEN "backfill" ELSE "backfilled")
        /\ target'[w] = safe
        /\ UNCHANGED <<snap[w], row[w], lock[w], attached>>
    BY <1>0, <1>2 DEF TypeOK
  <2>2. /\ \A p \in Processes \ {w} :
              UNCHANGED <<pc[p], snap[p], row[p], target[p], lock[p]>>
        /\ UNCHANGED <<files, history>>
    BY <1>0, <1>2 DEF TypeOK
  <2>3. safe \in Nat /\ safe \in 1..Len(frames) /\ safe <= mx
    BY <1>2, IndexTypes
  <2>4. TypeOK'
    BY <1>0, <1>2, <2>3 DEF TypeOK, Places, files, index, history
  <2>5. Exclusion'
    <3>1. \A p, q \in Processes : pc'[p] = "writing" /\ pc'[q] = "writing" => p = q
      BY <2>1, <2>2 DEF Exclusion
    <3>2. \A v \in Workers : pc'[v] \in Copying => v = w
      BY <1>2, <2>2 DEF Checkpointing, Copying, Processes
    <3>3. \A q \in Processes : snap'[q].mark # "db"
      BY <1>0, <1>2 DEF Holding
    <3> QED
      BY <3>1, <3>2, <3>3 DEF Exclusion
  <2>a. Control(w) /\ pc'[w] \in {"backfill", "backfilled"}
    BY <2>1
  <2>6. Control(w)'
    <3>1. /\ pc[w] \in Stored /\ pc'[w] \in Stored
          /\ UNCHANGED <<snap[w], row[w], lock[w], attached, fresh, exposed>>
      BY <1>0, <2>1, <2>2 DEF Stored, files, history
    <3>2. \A x \in Stored : x \notin Transaction \cup Closing /\ x # "header"
      BY DEF Stored, Transaction, Closing
    <3> QED
      BY <2>a, <3>1, <3>2 DEF Control
  <2>7. Reader(w)'
    BY <2>1, <2>2 DEF Reader, Unchanged, Complete, files, history, index
  <2>8. Closed(w)'
    BY <2>1 DEF Closed
  <2>9. Checkpoint(w)'
    <3>1. UNCHANGED <<frames, mx, backfill, kept, exposed, snap>>
      BY <1>0 DEF files, index, history
    <3>2. safe = mx => kept \subseteq frames[safe]
      BY <2>3 DEF Content
    <3>3. safe >= mx => safe = mx
      BY <2>3, IndexTypes
    <3>4. ~exposed => row[w] \in kept
      BY <1>0 DEF Checkpoint, Stored
    <3> QED
      BY <1>2, <2>1, <2>3, <3>1, <3>2, <3>3, <3>4 DEF Checkpoint
  <2> QED
    BY <2>1, <2>2, <2>4, <2>5, <2>6, <2>7, <2>8, <2>9, LocalStep
<1> QED
  BY <1>1, <1>2 DEF StartCheckpoint, Marks, Holding, Goto

LEMMA AcknowledgeKeeps ==
    ASSUME IInv, NEW w \in Workers, Acknowledge(w)
    PROVE  IInv'
<1> USE DEF IInv, Inv
<1> w \in Processes
  BY DEF Processes
<1>1. /\ pc[w] = "answer" /\ pc'[w] = "idle" /\ row'[w] = Nobody
      /\ UNCHANGED <<files, attached, lock, snap, target, kept, exposed>>
      /\ acked' = acked \cup {row[w]}
      /\ \A p \in Processes \ {w} : UNCHANGED <<pc[p], row[p]>>
  BY DEF Acknowledge, Goto, TypeOK
<1>2. row[w] \in Rows /\ (~exposed => row[w] \in kept)
  BY <1>1 DEF Control, Checkpoint, Stored
<1>3. TypeOK'
  BY <1>2 DEF Acknowledge, Goto, TypeOK, Places, files, index
<1>4. Exclusion'
  BY <1>1, ExclusionStays DEF Copying
<1>5. Content'
  BY <1>1, <1>2 DEF Content, Complete, files, index
<1>6. ASSUME NEW p \in Processes PROVE Control(p)'
  <2>1. Control(p)
    OBVIOUS
  <2>2. CASE p = w
    BY <1>1, <2>1, <2>2 DEF Control, Transaction, Stored, Closing, files
  <2>3. CASE p # w
    BY <1>1, <2>1, <2>3 DEF Control, files
  <2> QED
    BY <2>2, <2>3
<1>7. ASSUME NEW p \in Processes PROVE Reader(p)'
  <2>1. Reader(p)
    OBVIOUS
  <2>2. pc'[p] = "writing" => pc[p] = "writing"
    BY <1>1
  <2> QED
    BY <1>1, <2>1, <2>2 DEF Reader, Unchanged, Complete, files, index
<1>8. ASSUME NEW p \in Processes PROVE Closed(p)'
  <2>1. Closed(p)
    OBVIOUS
  <2>2. pc'[p] \in {"closing copy", "closing unlink"} => pc'[p] = pc[p]
    BY <1>1
  <2> QED
    BY <1>1, <2>1, <2>2 DEF Closed, Complete, files, index
<1>9. ASSUME NEW v \in Workers PROVE Checkpoint(v)'
  <2>1. Checkpoint(v) /\ v \in Processes
    BY DEF Processes
  <2>2. CASE v = w
    BY <1>1, <2>2 DEF Checkpoint, Stored, Copying
  <2>3. CASE v # w
    BY <1>1, <2>1, <2>3 DEF Checkpoint, Complete, files, index
  <2> QED
    BY <2>2, <2>3
<1> QED
  BY <1>3, <1>4, <1>5, <1>6, <1>7, <1>8, <1>9

LEMMA EndCheckpointKeeps ==
    ASSUME IInv, NEW w \in Workers, EndCheckpoint(w)
    PROVE  IInv'
<1> USE DEF IInv, Inv
<1> w \in Processes
  BY DEF Processes
<1>1. /\ pc[w] = "backfilled" /\ pc'[w] = "answer" /\ backfill' = target[w]
      /\ UNCHANGED <<fresh, db, frames, mx, salt, linked, attached, lock, snap, row, target>>
      /\ UNCHANGED <<acked, kept, exposed>>
      /\ \A p \in Processes \ {w} : UNCHANGED pc[p]
  BY DEF EndCheckpoint, Goto, TypeOK, history
<1>2. /\ target[w] \in Nat /\ target[w] <= Len(frames)
      /\ target[w] >= mx => Complete
      /\ ~exposed => backfill < target[w] /\ target[w] <= mx
  BY <1>1, IndexTypes DEF Checkpoint, Copying
<1>3. TypeOK'
  <2>1. backfill' \in 0..Len(frames')
    BY <1>1, <1>2, IndexTypes
  <2>2. pc' \in [Processes -> Places]
    BY DEF EndCheckpoint, Goto, TypeOK, Places
  <2> QED
    BY <1>1, <2>1, <2>2 DEF TypeOK
<1>4. Exclusion'
  BY <1>1, ExclusionStays DEF Copying
<1>5. Content'
  BY <1>1, <1>2 DEF Content, Complete
<1>6. ASSUME NEW p \in Processes PROVE Control(p)'
  <2>1. Control(p)
    OBVIOUS
  <2>2. CASE p = w
    BY <1>1, <2>1, <2>2 DEF Control, Transaction, Stored, Closing
  <2>3. CASE p # w
    BY <1>1, <2>1, <2>3 DEF Control
  <2> QED
    BY <2>2, <2>3
<1>7. ASSUME NEW p \in Processes PROVE Reader(p)'
  <2>1. Reader(p)
    OBVIOUS
  <2>2. pc'[p] = "writing" => pc[p] = "writing"
    BY <1>1
  <2>3. snap[p].min \in Nat
    BY DEF TypeOK, Snapshot
  <2>4. snap[p].mark = "wal" /\ ~exposed => snap[p].min <= target[w] + 1
    BY <1>2, <2>1, <2>3, IndexTypes DEF Reader
  <2> QED
    BY <1>1, <2>1, <2>2, <2>4 DEF Reader, Unchanged, Complete
<1>8. ASSUME NEW p \in Processes PROVE Closed(p)'
  <2>1. Closed(p)
    OBVIOUS
  <2>2. pc'[p] \in {"closing copy", "closing unlink"} => pc'[p] = pc[p]
    BY <1>1
  <2> QED
    BY <1>1, <2>1, <2>2 DEF Closed, Complete
<1>9. ASSUME NEW v \in Workers PROVE Checkpoint(v)'
  <2>1. Checkpoint(v) /\ v \in Processes
    BY DEF Processes
  <2>2. CASE v = w
    BY <1>1, <2>1, <2>2 DEF Checkpoint, Stored, Copying
  <2>3. CASE v # w
    <3>1. pc'[v] = pc[v] /\ pc[v] \notin Copying
      BY <1>1, <2>1, <2>3 DEF Exclusion, Copying
    <3> QED
      BY <1>1, <2>1, <3>1 DEF Checkpoint, Copying
  <2> QED
    BY <2>2, <2>3
<1> QED
  BY <1>3, <1>4, <1>5, <1>6, <1>7, <1>8, <1>9

LEMMA CopyFramesKeeps ==
    ASSUME IInv, NEW w \in Workers, CopyFrames(w)
    PROVE  IInv'
<1> USE DEF IInv, Inv
<1> w \in Processes
  BY DEF Processes
<1>1. /\ pc[w] = "backfill" /\ pc'[w] = "backfilled" /\ db' = frames[target[w]]
      /\ UNCHANGED <<fresh, frames, mx, salt, backfill, linked, attached, lock, snap, row, target>>
      /\ UNCHANGED <<acked, kept, exposed>>
      /\ \A p \in Processes \ {w} : UNCHANGED pc[p]
  BY DEF CopyFrames, Goto, TypeOK, history, index
<1>2. /\ target[w] \in Nat /\ target[w] \in 1..Len(frames)
      /\ w \in attached
      /\ ~exposed => backfill < target[w] /\ target[w] <= mx /\ db' \subseteq kept
      /\ exposed => kept \subseteq db'
  BY <1>1, IndexTypes DEF Checkpoint, Copying, Control, Stored, Content
<1>3. target[w] >= mx => kept \subseteq db'
  <2>1. CASE exposed
    BY <1>2, <2>1
  <2>2. CASE ~exposed /\ target[w] >= mx
    <3>1. target[w] = mx /\ mx > 0
      BY <1>2, <2>2, IndexTypes
    <3> QED
      BY <1>1, <3>1 DEF Content
  <2> QED
    BY <2>1, <2>2
<1>4. TypeOK'
  <2>1. frames[target[w]] \in SUBSET Rows
    BY <1>2 DEF TypeOK
  <2>2. db' \subseteq Rows
    BY <1>1, <2>1
  <2>3. pc' \in [Processes -> Places]
    BY DEF CopyFrames, Goto, TypeOK, Places
  <2> QED
    BY <1>1, <2>2, <2>3 DEF TypeOK
<1>5. Exclusion'
  BY <1>1, ExclusionStays DEF Copying
<1>6. Content'
  <2>1. CASE exposed
    BY <1>1, <1>2, <2>1 DEF Content, Complete
  <2>2. CASE ~exposed
    <3>1. linked /\ ~(backfill >= mx)
      BY <1>2, <2>2, IndexTypes DEF Content
    <3> QED
      BY <1>1, <1>2, <2>2, <3>1 DEF Content, Complete
  <2> QED
    BY <2>1, <2>2
<1>7. ASSUME NEW p \in Processes PROVE Control(p)'
  <2>1. Control(p)
    OBVIOUS
  <2>2. CASE p = w
    BY <1>1, <2>1, <2>2 DEF Control, Transaction, Stored, Closing
  <2>3. CASE p # w
    BY <1>1, <2>1, <2>3 DEF Control
  <2> QED
    BY <2>2, <2>3
<1>8. ASSUME NEW p \in Processes PROVE Reader(p)'
  <2>1. Reader(p) /\ snap[p].mark # "db"
    BY <1>1 DEF Exclusion, Copying
  <2>2. pc'[p] = "writing" => pc[p] = "writing"
    BY <1>1
  <2>3. snap[p].min \in Nat
    BY DEF TypeOK, Snapshot
  <2>4. snap[p].mark = "wal" /\ snap[p].min > mx => exposed
    BY <1>2, <2>1, <2>3, IndexTypes DEF Reader
  <2> QED
    BY <1>1, <1>2, <2>1, <2>2, <2>4 DEF Reader, Unchanged, Complete
<1>9. ASSUME NEW p \in Processes PROVE Closed(p)'
  <2>1. Closed(p)
    OBVIOUS
  <2>2. pc'[p] \in {"closing copy", "closing unlink"} => pc'[p] = pc[p] /\ p # w
    BY <1>1
  <2>3. pc[p] = "closing unlink" => exposed
    BY <1>1, <1>2 DEF Control, Closing
  <2> QED
    BY <1>1, <1>2, <2>1, <2>2, <2>3 DEF Closed, Complete
<1>10. ASSUME NEW v \in Workers PROVE Checkpoint(v)'
  <2>1. Checkpoint(v) /\ v \in Processes
    BY DEF Processes
  <2>2. CASE v = w
    BY <1>1, <1>2, <1>3, <2>1, <2>2 DEF Checkpoint, Stored, Copying, Complete
  <2>3. CASE v # w
    <3>1. pc'[v] = pc[v] /\ pc[v] \notin Copying
      BY <1>1, <2>1, <2>3 DEF Exclusion, Copying
    <3> QED
      BY <1>1, <2>1, <3>1 DEF Checkpoint, Copying
  <2> QED
    BY <2>2, <2>3
<1> QED
  BY <1>4, <1>5, <1>6, <1>7, <1>8, <1>9, <1>10

LEMMA StartCloseKeeps ==
    ASSUME IInv, NEW w \in Processes, StartClose(w)
    PROVE  IInv'
<1> USE DEF IInv, Inv
<1>1. CASE ~(w \in attached /\ MayExclude(w))
  <2>1. /\ pc[w] = "idle"
        /\ pc'[w] = "closed" /\ lock'[w] = "none"
        /\ snap'[w] = NoSnapshot /\ snap'[w].mark = "none"
        /\ attached' = attached \ {w}
        /\ UNCHANGED <<row[w], target[w]>>
    BY <1>1, NoSnapshotIsNone DEF StartClose, Goto, Leave, TypeOK
  <2>2. /\ \A p \in Processes \ {w} :
              UNCHANGED <<pc[p], snap[p], row[p], target[p], lock[p]>>
        /\ UNCHANGED <<files, history>>
    BY <1>1 DEF StartClose, Goto, history, Leave, TypeOK
  <2>3. TypeOK'
    BY <1>1, NoSnapshotIsNone DEF StartClose, Goto, files, index, history, Leave, TypeOK, Places
  <2>4. Exclusion'
    BY <2>1, <2>2, ExclusionStays DEF Copying
  <2>5. Control(w)'
    BY <2>1, <2>2 DEF Control, Transaction, Stored, Copying, Closing, files, history
  <2>6. Reader(w)'
    BY <2>1, <2>2 DEF Reader, Unchanged, Complete, files, history, index
  <2>7. Closed(w)'
    BY <2>1, <2>2 DEF Closed, Complete, files, history
  <2>8. w \in Workers => Checkpoint(w)'
    BY <2>1, <2>2 DEF Checkpoint, Complete, Stored, Copying, files, history
  <2> QED
    BY <2>1, <2>2, <2>3, <2>4, <2>5, <2>6, <2>7, <2>8, LocalStep
<1>2. CASE w \in attached /\ MayExclude(w)
  <2>1. /\ pc[w] = "idle" /\ pc'[w] = "closing" /\ lock'[w] = "exclusive"
        /\ UNCHANGED <<files, attached, snap, row, target, acked>>
        /\ exposed' = (exposed \/ attached # {w})
        /\ kept' = kept \ Endangered(w)
        /\ \A p \in Processes \ {w} : pc'[p] = pc[p] /\ lock'[p] = lock[p]
    BY <1>2 DEF StartClose, Goto, TypeOK
  <2>2. kept' \subseteq kept /\ (exposed => exposed')
    BY <2>1
  <2>3. \A v \in Workers : pc[v] = "backfill" => kept' \subseteq frames[target[v]]
    <3> SUFFICES ASSUME NEW v \in Workers, pc[v] = "backfill", NEW r \in kept'
                 PROVE  r \in frames[target[v]]
      OBVIOUS
    <3>1. r \in kept /\ r \in Rows /\ r \notin Endangered(w)
      BY <2>1 DEF TypeOK
    <3>2. v # w
      BY <2>1
    <3> QED
      BY <3>1, <3>2 DEF Endangered
  <2>4. ~exposed' => ~exposed /\ attached = {w} /\ kept' = kept
    <3> SUFFICES ASSUME ~exposed' PROVE ~exposed /\ attached = {w} /\ kept' = kept
      OBVIOUS
    <3>1. ~exposed /\ attached = {w}
      BY <2>1
    <3>2. \A v \in Workers \ {w} : pc[v] # "backfill"
      BY <3>1 DEF Control, Stored, Processes
    <3>3. Endangered(w) = {}
      BY <3>2 DEF Endangered
    <3> QED
      BY <2>1, <3>1, <3>3
  <2>5. exposed' => ~fresh
    <3>1. fresh => attached = {w}
      BY <1>2 DEF MayExclude, Control, TypeOK
    <3> QED
      BY <2>1, <3>1 DEF Content
  <2>6. TypeOK'
    <3>1. pc' \in [Processes -> Places] /\ lock' \in [Processes -> {"none", "shared", "exclusive"}]
      BY <1>2 DEF StartClose, Goto, TypeOK, Places
    <3>2. kept' \subseteq Rows /\ exposed' \in BOOLEAN
      BY <2>1, <2>2 DEF TypeOK
    <3> QED
      BY <2>1, <3>1, <3>2 DEF TypeOK, files, index
  <2>7. Exclusion'
    BY <2>1, ExclusionStays DEF Copying
  <2>8. Content'
    BY <2>1, <2>2, <2>4, <2>5 DEF Content, Complete, files, index
  <2>9. ASSUME NEW p \in Processes PROVE Control(p)'
    <3>1. Control(p)
      OBVIOUS
    <3>2. CASE p = w
      BY <1>2, <2>1, <2>4, <3>1, <3>2 DEF Control, Transaction, Stored, Closing, files
    <3>3. CASE p # w
      <4>1. ~exposed' => pc[p] \notin Closing
        BY <2>4, <3>1, <3>3 DEF Control
      <4> QED
        BY <2>1, <2>4, <3>1, <3>3, <4>1 DEF Control, files
    <3> QED
      BY <3>2, <3>3
  <2>10. ASSUME NEW p \in Processes PROVE Reader(p)'
    <3>1. Reader(p)
      OBVIOUS
    <3>2. pc'[p] = "writing" => pc[p] = "writing"
      BY <2>1
    <3> QED
      BY <2>1, <2>2, <3>1, <3>2 DEF Reader, Unchanged, Complete, files, index
  <2>11. ASSUME NEW p \in Processes PROVE Closed(p)'
    <3>1. Closed(p)
      OBVIOUS
    <3>2. pc'[p] \in {"closing copy", "closing unlink"} => pc'[p] = pc[p]
      BY <2>1
    <3> QED
      BY <2>1, <2>2, <3>1, <3>2 DEF Closed, Complete, files, index
  <2>12. ASSUME NEW v \in Workers PROVE Checkpoint(v)'
    <3>1. Checkpoint(v) /\ v \in Processes
      BY DEF Processes
    <3>2. CASE v = w
      BY <2>1, <3>2 DEF Checkpoint, Stored, Copying
    <3>3. CASE v # w
      BY <2>1, <2>2, <2>3, <2>4, <3>1, <3>3 DEF Checkpoint, Complete, files, index
    <3> QED
      BY <3>2, <3>3
  <2> QED
    BY <2>6, <2>7, <2>8, <2>9, <2>10, <2>11, <2>12
<1> QED
  BY <1>1, <1>2

LEMMA CloseCopyKeeps ==
    ASSUME IInv, NEW w \in Processes, CloseCopy(w)
    PROVE  IInv'
<1> USE DEF IInv, Inv
<1>1. /\ pc[w] = "closing copy" /\ pc'[w] = "closing unlink"
      /\ db' = frames[target[w]] /\ backfill' = target[w]
      /\ UNCHANGED <<fresh, frames, mx, salt, linked, attached, lock, snap, row, target>>
      /\ UNCHANGED <<acked, kept, exposed>>
      /\ \A p \in Processes \ {w} : UNCHANGED pc[p]
  BY DEF CloseCopy, Goto, TypeOK, history
<1>2. /\ target[w] \in Nat /\ target[w] \in 1..Len(frames)
      /\ kept \subseteq db'
      /\ ~exposed => target[w] <= mx /\ db' \subseteq kept
  <2>1. Closed(w) /\ Content
    OBVIOUS
  <2>2. target[w] \in 1..Len(frames) /\ kept \subseteq frames[target[w]]
        /\ (~exposed => target[w] <= mx)
    BY <1>1, <2>1 DEF Closed
  <2>3. ~exposed => frames[target[w]] \subseteq kept
    BY <2>1, <2>2 DEF Content
  <2>4. target[w] \in Nat
    BY <2>2, IndexTypes
  <2> QED
    BY <1>1, <2>2, <2>3, <2>4
<1>3. ~exposed => attached = {w}
  BY <1>1 DEF Control, Closing
<1>4. TypeOK'
  <2>1. frames[target[w]] \in SUBSET Rows
    BY <1>2 DEF TypeOK
  <2>2. db' \subseteq Rows
    BY <1>1, <2>1
  <2>4. backfill' \in 0..Len(frames')
    <3>1. Len(frames) \in Nat
      BY IndexTypes
    <3>2. target[w] \in 0..Len(frames)
      BY <1>2, <3>1
    <3>3. backfill' = target[w] /\ frames' = frames
      BY <1>1
    <3> QED
      BY <3>2, <3>3
  <2>3. pc' \in [Processes -> Places]
    BY DEF CloseCopy, Goto, TypeOK, Places
  <2> QED
    BY <1>1, <2>2, <2>3, <2>4 DEF TypeOK
<1>5. Exclusion'
  BY <1>1, ExclusionStays DEF Copying
<1>6. Content'
  BY <1>1, <1>2 DEF Content, Complete
<1>7. ASSUME NEW p \in Processes PROVE Control(p)'
  <2>1. Control(p)
    OBVIOUS
  <2>2. CASE p = w
    BY <1>1, <2>1, <2>2 DEF Control, Transaction, Stored, Closing
  <2>3. CASE p # w
    BY <1>1, <2>1, <2>3 DEF Control
  <2> QED
    BY <2>2, <2>3
<1>8. ASSUME NEW p \in Processes PROVE Reader(p)'
  <2>1. Reader(p)
    OBVIOUS
  <2>2. pc'[p] = "writing" => pc[p] = "writing"
    BY <1>1
  <2>3. snap[p].mark = "wal" => exposed
    BY <1>1, <1>3 DEF Control, Transaction
  <2> QED
    BY <1>1, <1>2, <2>1, <2>2, <2>3 DEF Reader, Unchanged, Complete
<1>9. ASSUME NEW p \in Processes PROVE Closed(p)'
  <2>1. Closed(p)
    OBVIOUS
  <2>2. pc'[p] = "closing copy" => pc'[p] = pc[p]
    BY <1>1
  <2> QED
    BY <1>1, <1>2, <2>1, <2>2 DEF Closed, Complete
<1>10. ASSUME NEW v \in Workers PROVE Checkpoint(v)'
  <2>1. Checkpoint(v) /\ v \in Processes
    BY DEF Processes
  <2>2. CASE v = w
    BY <1>1, <2>2 DEF Checkpoint, Stored, Copying
  <2>3. CASE v # w
    <3>1. pc[v] \in Copying => exposed
      BY <1>3, <2>1, <2>3 DEF Control, Stored, Copying
    <3> QED
      BY <1>1, <1>2, <2>1, <2>3, <3>1 DEF Checkpoint, Complete
  <2> QED
    BY <2>2, <2>3
<1> QED
  BY <1>4, <1>5, <1>6, <1>7, <1>8, <1>9, <1>10

LEMMA CloseUnlinkKeeps ==
    ASSUME IInv, NEW w \in Processes, CloseUnlink(w)
    PROVE  IInv'
<1> USE DEF IInv, Inv
<1>1. /\ pc[w] = "closing unlink" /\ pc'[w] = "closed"
      /\ snap'[w] = NoSnapshot /\ snap'[w].mark = "none" /\ lock'[w] = "none"
      /\ linked' = FALSE /\ attached' = attached \ {w}
      /\ UNCHANGED <<fresh, db, frames, mx, salt, backfill, row, target>>
      /\ UNCHANGED <<acked, kept, exposed>>
      /\ \A p \in Processes \ {w} : UNCHANGED <<pc[p], snap[p], lock[p]>>
  BY NoSnapshotIsNone DEF CloseUnlink, Leave, Goto, TypeOK, history, index
<1>2. Complete /\ (~exposed => attached = {w})
  BY <1>1 DEF Closed, Control, Closing
<1>3. TypeOK'
  BY NoSnapshotIsNone DEF CloseUnlink, Leave, Goto, TypeOK, Places, history, index
<1>4. Exclusion'
  BY <1>1, ExclusionStays DEF Copying
<1>5. Content'
  BY <1>1, <1>2 DEF Content, Complete
<1>6. ASSUME NEW p \in Processes PROVE Control(p)'
  <2>1. Control(p)
    OBVIOUS
  <2>2. CASE p = w
    BY <1>1, <2>1, <2>2 DEF Control, Transaction, Stored, Closing
  <2>3. CASE p # w
    BY <1>1, <1>2, <2>1, <2>3 DEF Control
  <2> QED
    BY <2>2, <2>3
<1>7. ASSUME NEW p \in Processes PROVE Reader(p)'
  <2>1. Reader(p)
    OBVIOUS
  <2>2. CASE p = w
    BY <1>1, <2>2 DEF Reader
  <2>3. CASE p # w
    BY <1>1, <2>1, <2>3 DEF Reader, Unchanged, Complete
  <2> QED
    BY <2>2, <2>3
<1>8. ASSUME NEW p \in Processes PROVE Closed(p)'
  <2>1. Closed(p)
    OBVIOUS
  <2>2. pc'[p] \in {"closing copy", "closing unlink"} => pc'[p] = pc[p]
    BY <1>1
  <2> QED
    BY <1>1, <2>1, <2>2 DEF Closed, Complete
<1>9. ASSUME NEW v \in Workers PROVE Checkpoint(v)'
  <2>1. Checkpoint(v) /\ v \in Processes
    BY DEF Processes
  <2>2. CASE v = w
    BY <1>1, <2>2 DEF Checkpoint, Stored, Copying
  <2>3. CASE v # w
    <3>1. \A q \in Processes : snap'[q].mark = "wal" => snap'[q] = snap[q]
      BY <1>1
    <3> QED
      BY <1>1, <2>1, <2>3, <3>1 DEF Checkpoint, Complete
  <2> QED
    BY <2>2, <2>3
<1> QED
  BY <1>3, <1>4, <1>5, <1>6, <1>7, <1>8, <1>9

LEMMA OpenWalKeeps ==
    ASSUME IInv, NEW w \in Workers, OpenWal(w)
    PROVE  IInv'
<1> USE DEF IInv, Inv
<1>1. w \in Processes
  BY DEF Processes
<1>2. /\ pc[w] = "open" /\ w \notin attached
      /\ lock'[w] = "shared" /\ linked' = TRUE /\ attached' = attached \cup {w}
      /\ UNCHANGED <<fresh, db, pc, snap, row, target>>
      /\ UNCHANGED <<acked, kept, exposed>>
      /\ \A p \in Processes \ {w} : UNCHANGED lock[p]
  BY <1>1 DEF OpenWal, TypeOK, history
<1>3. fresh /\ ~exposed /\ snap[w].mark = "none"
  BY <1>1, <1>2 DEF Control, Content, Transaction
<1>4. \A p \in Processes : pc[p] \notin Closing
  BY DEF OpenWal, Excluded, Control
\* Both ways, the log that is open now agrees with the database file.
<1>5. /\ mx' \in 0..Len(frames') /\ salt' \in Nat /\ backfill' \in 0..Len(frames')
      /\ frames' \in Seq(SUBSET Rows)
      /\ Content'
      /\ \A p \in Processes : pc[p] \in Transaction \cup Copying =>
             UNCHANGED <<frames, mx, salt, backfill>>
  <2>1. \A p \in Processes : pc[p] \in Transaction \cup Copying => p \in attached
    BY DEF Control, Stored, Copying
  <2>2. CASE linked
    <3>1. UNCHANGED <<frames, mx, salt>>
      BY <2>2 DEF OpenWal
    <3>2. backfill' = 0 \/ backfill' = backfill
      BY <2>2 DEF OpenWal
    <3>3. /\ backfill' \in 0..Len(frames) /\ backfill' <= backfill
          /\ attached # {} => backfill' = backfill
      BY <2>2, <3>2, IndexTypes DEF OpenWal
    <3>4. Content'
      <4>1. Content
        OBVIOUS
      <4>2. backfill' >= mx => backfill >= mx
        BY <3>3, IndexTypes
      <4>3. backfill' <= mx
        BY <1>3, <3>3, <4>1, IndexTypes DEF Content
      <4> QED
        BY <1>2, <1>3, <3>1, <4>1, <4>2, <4>3 DEF Content, Complete
    <3> QED
      BY <2>1, <3>1, <3>3, <3>4 DEF TypeOK
  <2>3. CASE ~linked
    <3>1. attached = {} /\ Complete
      BY <1>3, <2>3 DEF Content
    <3>2. frames' = <<>> /\ mx' = 0 /\ salt' = salt + 1 /\ backfill' = 0
      BY <2>3 DEF OpenWal
    <3>3. Content'
      <4>1. Content
        OBVIOUS
      <4> QED
        BY <1>2, <1>3, <3>1, <3>2, <4>1 DEF Content, Complete
    <3> QED
      BY <2>1, <3>1, <3>2, <3>3, IndexTypes
  <2> QED
    BY <2>2, <2>3
<1>6. TypeOK'
  <2>1. lock' \in [Processes -> {"none", "shared", "exclusive"}]
    BY DEF OpenWal, TypeOK
  <2> QED
    BY <1>1, <1>2, <1>5, <2>1 DEF TypeOK
<1>7. Exclusion'
  BY <1>1, <1>2, ExclusionStays
<1>8. ASSUME NEW p \in Processes PROVE Control(p)'
  <2>1. Control(p)
    OBVIOUS
  <2>2. CASE p = w
    BY <1>2, <1>3, <2>1, <2>2 DEF Control, Transaction, Stored, Closing
  <2>3. CASE p # w
    BY <1>2, <1>3, <1>4, <2>1, <2>3 DEF Control
  <2> QED
    BY <2>2, <2>3
<1>9. ASSUME NEW p \in Processes PROVE Reader(p)'
  <2>1. Reader(p) /\ (snap[p].mark # "none" => pc[p] \in Transaction)
    BY DEF Control
  <2>2. pc[p] = "writing" => pc[p] \in Transaction
    BY DEF Transaction
  <2>3. CASE pc[p] \in Transaction
    BY <1>2, <1>5, <2>1, <2>3 DEF Reader, Unchanged, Complete
  <2>4. CASE pc[p] \notin Transaction
    BY <1>2, <2>1, <2>2, <2>4 DEF Reader
  <2> QED
    BY <2>3, <2>4
<1>10. ASSUME NEW p \in Processes PROVE Closed(p)'
  BY <1>2, <1>4 DEF Closed, Closing
<1>11. ASSUME NEW v \in Workers PROVE Checkpoint(v)'
  <2>1. Checkpoint(v) /\ v \in Processes
    BY DEF Processes
  <2>2. CASE pc[v] \in Copying
    BY <1>2, <1>5, <2>1, <2>2 DEF Checkpoint, Complete
  <2>3. CASE pc[v] \notin Copying
    BY <1>2, <2>1, <2>3 DEF Checkpoint, Copying
  <2> QED
    BY <2>2, <2>3
<1> QED
  BY <1>6, <1>7, <1>5, <1>8, <1>9, <1>10, <1>11

\* A writer's snapshot is the newest content, and it has the rows.
LEMMA WriterSeesRows ==
    ASSUME IInv, NEW w \in Processes, pc[w] = "writing"
    PROVE  /\ kept \subseteq View(w) /\ View(w) \subseteq Rows
           /\ ~exposed => View(w) \subseteq kept
           /\ snap[w].mx = mx /\ snap[w].salt = salt
<1> USE DEF IInv, Inv
<1>1. snap[w].mark \in {"none", "header", "db", "wal"} /\ snap[w].mx \in Nat /\ snap[w].min \in Nat
  BY DEF TypeOK, Snapshot
<1>2. snap[w].mark \in {"db", "wal"} /\ Unchanged(w)
  BY <1>1 DEF Control, Reader, Transaction
<1>3. snap[w].mx = mx /\ snap[w].salt = salt
  BY <1>2 DEF Unchanged
<1>4. Reader(w) /\ Content
  OBVIOUS
<1>5. CASE snap[w].mark = "wal" /\ snap[w].min <= mx
  <2>1. mx \in 1..Len(frames)
    <3>1. snap[w].min >= 1
      BY <1>4, <1>5 DEF Reader
    <3> QED
      BY <1>1, <1>5, <3>1, IndexTypes
  <2>2. View(w) = frames[mx]
    BY <1>3, <1>5 DEF View
  <2>3. frames[mx] \subseteq Rows
    BY <2>1 DEF TypeOK
  <2>4. kept \subseteq frames[mx]
    BY <1>4, <2>1, IndexTypes DEF Content
  <2>5. ~exposed => frames[mx] \subseteq kept
    BY <1>4, <2>1 DEF Content
  <2> QED
    BY <1>3, <2>2, <2>3, <2>4, <2>5
<1>6. CASE ~(snap[w].mark = "wal" /\ snap[w].min <= mx)
  <2>1. View(w) = db
    BY <1>3, <1>6 DEF View
  <2>2. Complete
    BY <1>1, <1>2, <1>4, <1>6, IndexTypes DEF Reader
  <2>3. ~exposed => db \subseteq kept
    BY <1>4 DEF Content
  <2>4. db \subseteq Rows
    BY DEF TypeOK
  <2> QED
    BY <1>3, <2>1, <2>2, <2>3, <2>4 DEF Complete
<1> QED
  BY <1>5, <1>6

LEMMA Overwritten ==
    ASSUME NEW S, NEW f \in Seq(S), NEW x \in S, NEW at \in 1..Len(f)
    PROVE  /\ [f EXCEPT ![at] = x] \in Seq(S)
           /\ Len([f EXCEPT ![at] = x]) = Len(f)
           /\ [f EXCEPT ![at] = x][at] = x
           /\ \A i \in 1..Len(f) : i # at => [f EXCEPT ![at] = x][i] = f[i]
<1>1. [f EXCEPT ![at] = x] \in Seq(S)
  OBVIOUS
<1>2. Len([f EXCEPT ![at] = x]) = Len(f)
  OBVIOUS
<1> QED
  BY <1>1, <1>2

LEMMA RangeGrows ==
    ASSUME NEW n \in Nat, NEW m \in Nat, n <= m, NEW i \in 1..n
    PROVE  i \in 1..m
  OBVIOUS

\* Where a commit writes: the frame, and what stays.
LEMMA FrameWritten ==
    ASSUME NEW at \in Nat, at >= 1, at <= Len(frames) + 1, TypeOK,
           NEW image \in SUBSET Rows,
           frames' = IF at > Len(frames) THEN Append(frames, image)
                                         ELSE [frames EXCEPT ![at] = image]
    PROVE  /\ frames' \in Seq(SUBSET Rows)
           /\ Len(frames') \in Nat /\ at <= Len(frames') /\ Len(frames) <= Len(frames')
           /\ frames'[at] = image
           /\ \A i \in 1..Len(frames') : i # at => i \in 1..Len(frames) /\ frames'[i] = frames[i]
<1>1. frames \in Seq(SUBSET Rows) /\ Len(frames) \in Nat
  BY DEF TypeOK
<1>2. CASE at > Len(frames)
  <2>1. frames' = Append(frames, image) /\ at = Len(frames) + 1
    BY <1>1, <1>2
  <2>2. /\ frames' \in Seq(SUBSET Rows) /\ Len(frames') = Len(frames) + 1
        /\ frames'[at] = image
    BY <1>1, <2>1
  <2>3. \A i \in 1..Len(frames) : frames'[i] = frames[i]
    BY <1>1, <2>1
  <2>4. \A i \in 1..Len(frames') : i # at => i \in 1..Len(frames)
    BY <1>1, <2>1, <2>2
  <2>5. Len(frames') \in Nat /\ at <= Len(frames') /\ Len(frames) <= Len(frames')
    BY <1>1, <2>1, <2>2
  <2> QED
    BY <2>2, <2>3, <2>4, <2>5
<1>3. CASE ~(at > Len(frames))
  <2>1. frames' = [frames EXCEPT ![at] = image] /\ at \in 1..Len(frames)
    BY <1>1, <1>3
  <2>2. /\ frames' \in Seq(SUBSET Rows) /\ Len(frames') = Len(frames) /\ frames'[at] = image
        /\ \A i \in 1..Len(frames) : i # at => frames'[i] = frames[i]
    BY ONLY <1>1, <2>1, image \in SUBSET Rows, Overwritten
  <2> QED
    BY <1>1, <2>1, <2>2
<1> QED
  BY <1>2, <1>3

LEMMA CommitKeeps ==
    ASSUME IInv, NEW w \in Workers, Commit(w)
    PROVE  IInv'
<1> USE DEF IInv, Inv
<1> DEFINE first == MayRestart(w)
           at == IF first THEN 1 ELSE mx + 1
           image == View(w) \cup {row[w]}
<1>1. w \in Processes /\ pc[w] = "writing"
  BY DEF Processes, Commit
<1>2. /\ pc'[w] \in {"checkpoint", "answer"}
      /\ snap'[w] = NoSnapshot /\ snap'[w].mark = "none"
      /\ UNCHANGED <<fresh, db, linked, attached, lock, row, target, acked, exposed>>
      /\ \A p \in Processes \ {w} : UNCHANGED <<pc[p], snap[p]>>
  BY <1>1, NoSnapshotIsNone DEF Commit, Goto, TypeOK
<1>3. /\ mx' = at
      /\ first => salt' = salt + 1 /\ backfill' = 0
      /\ ~first => salt' = salt /\ backfill' = backfill
      /\ kept' = IF exposed THEN kept ELSE kept \cup {row[w]}
      /\ frames' = IF at > Len(frames) THEN Append(frames, image)
                                       ELSE [frames EXCEPT ![at] = image]
  BY DEF Commit
<1>4. /\ kept \subseteq View(w) /\ View(w) \subseteq Rows
      /\ ~exposed => View(w) \subseteq kept
  BY <1>1, WriterSeesRows
<1>5. Control(w) /\ Content /\ row[w] \in Rows /\ w \in attached
  BY <1>1 DEF Control, Transaction
<1>6. at \in Nat /\ at >= 1 /\ at <= Len(frames) + 1
  BY IndexTypes
<1>7. image \in SUBSET Rows
  BY <1>4, <1>5
<1> HIDE DEF first, at, image
<1>8. /\ frames' \in Seq(SUBSET Rows)
      /\ Len(frames') \in Nat /\ at <= Len(frames') /\ Len(frames) <= Len(frames')
      /\ frames'[at] = image
      /\ \A i \in 1..Len(frames') : i # at => i \in 1..Len(frames) /\ frames'[i] = frames[i]
  <2>1. TypeOK
    OBVIOUS
  <2> QED
    BY ONLY <1>3, <1>6, <1>7, <2>1, FrameWritten
<1>9. /\ kept' \subseteq image /\ kept \subseteq kept'
      /\ ~exposed => image \subseteq kept' /\ row[w] \in kept'
      /\ exposed => kept' = kept
  BY <1>3, <1>4 DEF image
<1>10. first => Holding("wal") = {} /\ \A v \in Workers : pc[v] \notin Copying
  BY <1>1 DEF first, MayRestart, Exclusion
<1>11. ~first => mx' = mx + 1
  BY <1>3 DEF at
<1>12. mx' \in Nat /\ mx' >= 1 /\ mx' <= Len(frames') /\ salt' \in Nat
       /\ backfill' \in Nat /\ backfill' <= Len(frames')
  <2>1. salt' \in Nat
    BY <1>3, IndexTypes
  <2>2. backfill' \in Nat /\ backfill' <= Len(frames')
    BY <1>3, <1>8, IndexTypes
  <2> QED
    BY <1>3, <1>6, <1>8, <2>1, <2>2
<1>13. TypeOK'
  <2>1. pc' \in [Processes -> Places] /\ snap' \in [Processes -> Snapshot]
    BY <1>1, NoSnapshotIsNone DEF Commit, Goto, TypeOK, Places
  <2>2. kept' \subseteq Rows
    BY <1>7, <1>9
  <2>3. mx' \in 0..Len(frames') /\ backfill' \in 0..Len(frames')
    BY <1>8, <1>12
  <2> QED
    BY <1>2, <1>8, <1>12, <2>1, <2>2, <2>3 DEF TypeOK
<1>14. Exclusion'
  BY <1>1, <1>2, ExclusionStays DEF Copying
<1>15. Content'
  <2>1. kept' \subseteq frames'[mx']
    BY <1>3, <1>8, <1>9
  <2>2. backfill' >= mx' => Complete'
    <3>1. CASE first
      BY <1>3, <1>12, <3>1
    <3>2. CASE ~first
      <4>1. backfill' = backfill /\ mx' = mx + 1
        BY <1>3, <1>11, <3>2
      <4>2. ~exposed => backfill <= mx
        BY <1>5 DEF Content
      <4>3. backfill >= mx => Complete
        BY <1>5 DEF Content
      <4>4. backfill' >= mx' => exposed /\ backfill >= mx
        BY <4>1, <4>2, IndexTypes
      <4> QED
        BY <1>2, <1>9, <4>3, <4>4 DEF Complete
    <3> QED
      BY <3>1, <3>2
  <2>3. ~linked' => Complete'
    BY <1>2, <1>5, <1>9 DEF Content, Complete
  <2>4. ASSUME ~exposed PROVE backfill' <= mx'
    <3>1. CASE first
      BY <1>3, <1>12, <3>1
    <3>2. CASE ~first
      BY <1>3, <1>5, <1>11, <2>4, <3>2, IndexTypes DEF Content
    <3> QED
      BY <3>1, <3>2
  <2>5. ASSUME ~exposed, NEW i \in 1..Len(frames') PROVE frames'[i] \subseteq kept'
    <3>1. CASE i = at
      BY <1>8, <1>9, <2>5, <3>1
    <3>2. CASE i # at
      <4>1. i \in 1..Len(frames) /\ frames'[i] = frames[i]
        BY <1>8, <3>2
      <4>2. frames[i] \subseteq kept
        BY <1>5, <2>5, <4>1 DEF Content
      <4> QED
        BY <1>9, <4>1, <4>2
    <3> QED
      BY <3>1, <3>2
  <2>6. ~exposed => (attached # {} => linked) /\ acked \subseteq kept /\ db \subseteq kept
    BY <1>5 DEF Content
  <2>7. exposed => ~fresh
    BY <1>5 DEF Content
  <2> QED
    BY <1>2, <1>9, <2>1, <2>2, <2>3, <2>4, <2>5, <2>6, <2>7 DEF Content
<1>16. ASSUME NEW p \in Processes PROVE Control(p)'
  <2>1. Control(p)
    OBVIOUS
  <2>2. CASE p = w
    BY <1>1, <1>2, <1>5, <2>1, <2>2 DEF Control, Transaction, Stored, Closing
  <2>3. CASE p # w
    BY <1>2, <2>1, <2>3 DEF Control
  <2> QED
    BY <2>2, <2>3
<1>17. ASSUME NEW p \in Processes PROVE Reader(p)'
  <2>1. Reader(p) /\ Control(p)
    OBVIOUS
  <2>2. CASE p = w
    BY <1>2, <2>2 DEF Reader
  <2>3. CASE p # w
    <3>1. snap'[p] = snap[p] /\ pc'[p] = pc[p]
      BY <1>2, <2>3
    <3>2. pc[p] # "writing"
      BY <1>1, <2>3 DEF Exclusion
    <3>3. snap[p].mx \in Nat /\ snap[p].salt \in Nat
      BY DEF TypeOK, Snapshot
    <3>4. snap[p].mark # "none" =>
             /\ snap[p].salt < salt' \/ (snap[p].salt = salt' /\ snap[p].mx < mx')
             /\ ~(snap[p].mx = mx' /\ snap[p].salt = salt')
      <4> SUFFICES ASSUME snap[p].mark # "none"
                   PROVE  snap[p].salt < salt' \/ (snap[p].salt = salt' /\ snap[p].mx < mx')
        BY <1>12, <3>3
      <4>1. snap[p].salt < salt \/ (snap[p].salt = salt /\ snap[p].mx <= mx)
        BY <2>1 DEF Reader
      <4>2. CASE first
        BY <1>3, <3>3, <4>1, <4>2, IndexTypes
      <4>3. CASE ~first
        BY <1>3, <1>11, <3>3, <4>1, <4>3, IndexTypes
      <4> QED
        BY <4>2, <4>3
    <3>5. snap[p].mark = "wal" => ~first
      BY <1>10 DEF Holding
    <3>6. snap[p].mark = "wal" =>
             /\ snap[p].min >= 1
             /\ ~exposed => snap[p].min <= backfill' + 1 /\ snap[p].salt = salt'
      BY <1>3, <2>1, <3>5 DEF Reader
    <3>7. snap[p].mark # "none" =>
             snap[p].salt < salt' \/ (snap[p].salt = salt' /\ snap[p].mx <= mx')
      BY <1>12, <3>3, <3>4
    <3>8. snap[p].mark # "none" => ~Unchanged(p)'
      BY <3>1, <3>4 DEF Unchanged
    <3> QED
      BY <1>2, <3>1, <3>2, <3>6, <3>7, <3>8 DEF Reader
  <2> QED
    BY <2>2, <2>3
<1>18. ASSUME NEW p \in Processes PROVE Closed(p)'
  <2>1. Closed(p) /\ Control(p)
    OBVIOUS
  <2>2. CASE pc'[p] \in {"closing copy", "closing unlink"}
    <3>1. p # w /\ pc'[p] = pc[p]
      BY <1>2, <2>2
    <3>2. exposed
      BY <1>5, <2>1, <2>2, <3>1 DEF Control, Closing
    <3>3. pc[p] = "closing copy" =>
             target[p] \in 1..Len(frames) /\ kept \subseteq frames[target[p]]
      BY <2>1 DEF Closed
    <3>4. pc[p] = "closing copy" =>
             target[p] \in 1..Len(frames') /\ kept' \subseteq frames'[target[p]]
      <4> SUFFICES ASSUME pc[p] = "closing copy"
                   PROVE  target[p] \in 1..Len(frames') /\ kept' \subseteq frames'[target[p]]
        OBVIOUS
      <4>1. target[p] \in 1..Len(frames')
        <5>1. target[p] \in 1..Len(frames)
          BY <3>3
        <5>2. Len(frames) \in Nat /\ Len(frames') \in Nat /\ Len(frames) <= Len(frames')
          BY <1>8, IndexTypes
        <5> QED
          BY ONLY <5>1, <5>2, RangeGrows
      <4> QED
        BY <1>8, <1>9, <3>2, <3>3, <4>1
    <3>5. pc[p] = "closing unlink" => Complete'
      BY <1>2, <1>9, <2>1, <3>2 DEF Closed, Complete
    <3> QED
      BY <1>2, <3>1, <3>2, <3>4, <3>5 DEF Closed
  <2> QED
    BY <2>2 DEF Closed
<1>19. ASSUME NEW v \in Workers PROVE Checkpoint(v)'
  <2>1. Checkpoint(v) /\ v \in Processes
    BY DEF Processes
  <2>2. CASE v = w
    BY <1>2, <1>9, <2>2 DEF Checkpoint, Stored, Copying
  <2>3. CASE v # w
    <3>1. pc'[v] = pc[v] /\ target'[v] = target[v] /\ row'[v] = row[v]
      BY <1>2, <2>1, <2>3
    <3>2. pc[v] \in Stored /\ ~exposed => row[v] \in kept'
      BY <1>9, <2>1 DEF Checkpoint
    <3>3. CASE pc[v] \notin Copying
      BY <1>2, <3>1, <3>2, <3>3 DEF Checkpoint, Copying
    <3>4. CASE pc[v] \in Copying
      <4>1. ~first /\ mx' = mx + 1 /\ backfill' = backfill
        BY <1>3, <1>10, <1>11, <3>4
      <4>2. target[v] \in 1..Len(frames)
        BY <2>1, <3>4 DEF Checkpoint
      <4>3. target[v] \in 1..Len(frames')
        BY <1>8, <4>2, IndexTypes
      <4>4. ~exposed => backfill < target[v] /\ target[v] <= mx
        BY <2>1, <3>4 DEF Checkpoint
      <4>5. ~exposed => backfill' < target[v] /\ target[v] < mx'
        BY <4>1, <4>2, <4>4, IndexTypes
      <4>6. ~exposed => \A q \in Processes : snap'[q].mark = "wal" => target[v] <= snap'[q].mx
        <5> SUFFICES ASSUME ~exposed, NEW q \in Processes, snap'[q].mark = "wal"
                     PROVE  target[v] <= snap'[q].mx
          OBVIOUS
        <5>1. snap'[q] = snap[q]
          BY <1>2
        <5> QED
          BY <2>1, <3>4, <5>1 DEF Checkpoint
      <4>7. pc[v] = "backfill" /\ exposed => kept' \subseteq frames'[target[v]]
        <5>1. pc[v] = "backfill" /\ exposed => kept \subseteq frames[target[v]]
          BY <2>1 DEF Checkpoint
        <5> QED
          BY <1>8, <1>9, <4>3, <5>1
      <4>8. pc[v] = "backfilled" /\ target[v] >= mx' => Complete'
        <5>1. target[v] >= mx' => exposed /\ target[v] >= mx
          BY <4>1, <4>2, <4>4, IndexTypes
        <5> QED
          BY <1>2, <1>9, <2>1, <5>1 DEF Checkpoint, Complete
      <4>9. ~exposed => target[v] <= mx'
        BY <1>12, <4>2, <4>5
      <4> QED
        BY <1>2, <3>1, <3>2, <4>3, <4>5, <4>6, <4>7, <4>8, <4>9 DEF Checkpoint
    <3> QED
      BY <3>3, <3>4
  <2> QED
    BY <2>2, <2>3
<1> QED
  BY <1>13, <1>14, <1>15, <1>16, <1>17, <1>18, <1>19

-------------------------------------------------------------------------------
LEMMA InitInv ==
    ASSUME Init
    PROVE  IInv
<1> USE DEF Init, OpensWal
<1>1. NoSnapshot \in Snapshot /\ NoSnapshot.mark = "none"
  BY NoSnapshotIsNone
<1>2. TypeOK
  <2>1. frames \in Seq(SUBSET Rows) /\ Len(frames) = 0
    OBVIOUS
  <2>2. lock \in [Processes -> {"none", "shared", "exclusive"}]
    OBVIOUS
  <2>3. snap \in [Processes -> Snapshot]
    BY <1>1
  <2>4. pc \in [Processes -> Places]
    BY DEF Places
  <2>5. attached \subseteq Processes /\ linked \in BOOLEAN /\ fresh \in BOOLEAN
    OBVIOUS
  <2>6. row \in [Processes -> Rows \cup {Nobody}] /\ target \in [Processes -> Nat]
    OBVIOUS
  <2>7. /\ db = {} /\ mx = 0 /\ salt = 0 /\ backfill = 0
        /\ acked = {} /\ kept = {} /\ exposed = FALSE
    OBVIOUS
  <2>8. mx \in 0..Len(frames) /\ backfill \in 0..Len(frames) /\ salt \in Nat
    BY <2>1, <2>7
  <2>9. db \subseteq Rows /\ acked \subseteq Rows /\ kept \subseteq Rows /\ exposed \in BOOLEAN
    BY <2>7
  <2> HIDE DEF Init, OpensWal
  <2> QED
    BY <2>1, <2>2, <2>3, <2>4, <2>5, <2>6, <2>8, <2>9 DEF TypeOK
<1>3. \A p \in Processes : pc[p] = "idle" /\ snap[p].mark = "none"
  BY <1>1
<1>4. Exclusion
  BY <1>3 DEF Exclusion, Copying, Processes
<1>5. Content
  <2>1. /\ frames = <<>> /\ Len(frames) = 0 /\ mx = 0 /\ backfill = 0
        /\ kept = {} /\ acked = {} /\ db = {} /\ exposed = FALSE
        /\ (attached # {} => linked)
    OBVIOUS
  <2> HIDE DEF Init, OpensWal
  <2> QED
    BY <2>1 DEF Content, Complete
<1>6. ASSUME NEW p \in Processes PROVE Control(p)
  <2>1. fresh => lock[p] = "none" /\ attached = {}
    OBVIOUS
  <2>2. ~fresh => p \in attached
    OBVIOUS
  <2>3. lock[p] # "exclusive"
    OBVIOUS
  <2> HIDE DEF Init, OpensWal
  <2> QED
    BY <1>3, <2>1, <2>2, <2>3 DEF Control, Transaction, Stored, Closing
<1>7. \A p \in Processes : Reader(p)
  BY <1>3 DEF Reader
<1>8. \A p \in Processes : Closed(p)
  BY <1>3 DEF Closed
<1>9. \A w \in Workers : Checkpoint(w)
  BY <1>3 DEF Checkpoint, Copying, Stored, Processes
<1> QED
  BY <1>2, <1>4, <1>5, <1>6, <1>7, <1>8, <1>9 DEF IInv, Inv

LEMMA NextInv ==
    ASSUME IInv, [Next]_vars
    PROVE  IInv'
<1>1. CASE UNCHANGED vars
  BY <1>1 DEF vars, files, history, IInv, TypeOK, Inv, Exclusion, Content, Complete, Control,
              Reader, Unchanged, Closed, Checkpoint
<1>2. ASSUME NEW w \in Workers, Request(w) PROVE IInv'
  BY <1>2, StartInsertKeeps, StartListKeeps, OpenWalKeeps, ReadHeaderKeeps, BeginReadKeeps,
     EndListKeeps, BeginWriteKeeps, GiveUpKeeps, CommitKeeps, StartCheckpointKeeps,
     CopyFramesKeeps, EndCheckpointKeeps, AcknowledgeKeeps
     DEF Request
<1>3. ASSUME NEW p \in Processes, Close(p) PROVE IInv'
  BY <1>3, StartCloseKeeps, CloseReadHeaderKeeps, CloseCopyKeeps, CloseFailsKeeps,
     CloseUnlinkKeeps
     DEF Close
<1>4. ASSUME NEW p \in Processes, Dies(p) PROVE IInv'
  BY <1>4, DiesKeeps
<1> QED
  BY <1>1, <1>2, <1>3, <1>4 DEF Next, KillWorker, Crash, Processes

LEMMA InvAlways == Spec => []IInv
<1>1. Init => IInv
  BY InitInv
<1>2. IInv /\ [Next]_vars => IInv'
  BY NextInv
<1> QED
  BY <1>1, <1>2, PTL DEF Spec

\* What the next start finds: the rows, and nothing else as long as the database
\* was not closed under anybody.
Named ==
    /\ NamedContent \subseteq Rows
    /\ kept \subseteq NamedContent
    /\ ~exposed => NamedContent = kept

LEMMA NamedContentIsKept ==
    ASSUME IInv
    PROVE  Named
<1> USE DEF IInv, Inv
<1>1. Content /\ TypeOK
  OBVIOUS
<1>2. CASE linked /\ mx > 0
  <2>1. mx \in 1..Len(frames) /\ NamedContent = frames[mx]
    BY <1>2, IndexTypes DEF NamedContent
  <2>2. frames[mx] \subseteq Rows
    BY <1>1, <2>1 DEF TypeOK
  <2> QED
    BY <1>1, <1>2, <2>1, <2>2 DEF Content, Named
<1>3. CASE ~(linked /\ mx > 0)
  <2>1. NamedContent = db /\ Complete
    BY <1>1, <1>3, IndexTypes DEF NamedContent, Content
  <2>2. db \subseteq Rows
    BY <1>1 DEF TypeOK
  <2> QED
    BY <1>1, <2>1, <2>2 DEF Content, Complete, Named
<1> QED
  BY <1>2, <1>3

\* The places, locks, marks and files of the model keep their types; in
\* particular the wal-index never counts frames that the WAL file lacks.
THEOREM TypeCorrect == Spec => []TypeOK
  BY InvAlways, PTL DEF IInv

\* The rows stored before the database was closed under somebody are found by
\* the next start (wrd_add_entry, wrd_server_close, sqlite3WalClose).
THEOREM KeptCorrect == Spec => []KeptRowsSurvive
<1>1. IInv => KeptRowsSurvive
  BY NamedContentIsKept DEF KeptRowsSurvive, Named
<1> QED
  BY <1>1, InvAlways, PTL

\* A database that this start created loses no row that a client was told of.
THEOREM FreshCorrect == Spec => []FreshLosesNothing
<1>1. ASSUME IInv PROVE FreshLosesNothing
  <2>1. fresh => ~exposed /\ acked \subseteq kept
    BY <1>1 DEF IInv, Inv, Content
  <2> QED
    BY <1>1, <2>1, NamedContentIsKept DEF FreshLosesNothing, Named
<1> QED
  BY <1>1, InvAlways, PTL

-------------------------------------------------------------------------------
(* Readers.                                                                *)

LEMMA OnlyBeginReadBegins ==
    ASSUME TypeOK, Next, NEW w \in Workers, pc[w] = "header", pc'[w] = "reading"
    PROVE  BeginRead(w)
<1>1. w \in Processes
  BY DEF Processes
<1>2. ASSUME NEW v \in Workers, Request(v), v # w \/ ~BeginRead(w) PROVE FALSE
  BY <1>1, <1>2 DEF Processes, TypeOK, Goto, Request, StartInsert, StartList, OpenWal, ReadHeader,
     BeginRead, EndList, BeginWrite, GiveUp, Commit, StartCheckpoint, CopyFrames, EndCheckpoint,
     Acknowledge
<1>3. ASSUME NEW p \in Processes, Close(p) PROVE FALSE
  BY <1>1, <1>3 DEF TypeOK, Goto, Leave, Close, StartClose, CloseReadHeader, CloseCopy,
     CloseFails,
     CloseUnlink
<1>4. ASSUME NEW p \in Processes, Dies(p) PROVE FALSE
  BY <1>1, <1>4 DEF TypeOK, Goto, Leave, Dies
<1> QED
  BY <1>2, <1>3, <1>4 DEF Next, KillWorker, Crash, Processes

\* A request that starts after a client was answered 201 sees that client's row,
\* in whichever worker it runs (walTryBeginRead).
THEOREM ReadersCorrect == Spec => ReadersSeeAcknowledged
<1>1. ASSUME IInv, [Next]_vars, NEW w \in Workers,
             pc[w] = "header", pc'[w] = "reading", ~exposed
      PROVE  acked \subseteq View(w)'
  <2> USE DEF IInv, Inv
  <2>1. BeginRead(w) /\ w \in Processes
    <3>1. Next
      BY <1>1 DEF vars
    <3> QED
      BY <1>1, <3>1, OnlyBeginReadBegins DEF Processes
  <2>2. /\ Unchanged(w) /\ snap'[w] = Marked(w)
        /\ UNCHANGED <<db, frames>>
    BY <1>1, <2>1 DEF BeginRead, Goto, TypeOK, files
  <2>3. acked \subseteq kept /\ Content
    BY <1>1 DEF Content
  <2>4. snap[w] \in Snapshot /\ snap[w].mx = mx
    BY <1>1, <2>1, <2>2 DEF Unchanged, TypeOK
  <2>5. CASE backfill = mx /\ Checkpointing = {}
    <3>1. snap'[w].mark = "db"
      BY <2>2, <2>4, <2>5 DEF Marked, Snapshot
    <3> QED
      BY <1>1, <2>2, <2>3, <2>5, <3>1, IndexTypes DEF View, Content, Complete
  <2>6. CASE ~(backfill = mx /\ Checkpointing = {})
    <3>1. snap'[w].mark = "wal" /\ snap'[w].min = backfill + 1 /\ snap'[w].mx = mx
      BY <2>2, <2>4, <2>6 DEF Marked, Snapshot
    <3>2. CASE backfill + 1 <= mx
      <4>1. View(w)' = frames[mx] /\ mx > 0
        BY <1>1, <2>2, <3>1, <3>2, IndexTypes DEF View
      <4> QED
        BY <2>3, <4>1 DEF Content
    <3>3. CASE ~(backfill + 1 <= mx)
      <4>1. View(w)' = db /\ backfill >= mx
        BY <1>1, <2>2, <3>1, <3>3, IndexTypes DEF View
      <4> QED
        BY <2>3, <4>1 DEF Content, Complete
    <3> QED
      BY <3>2, <3>3
  <2> QED
    BY <2>5, <2>6
<1>2. IInv /\ [Next]_vars =>
        [\A w \in Workers :
            (pc[w] = "header" /\ pc'[w] = "reading" /\ ~exposed) => acked \subseteq View(w)']_vars
  BY <1>1
<1> QED
  BY <1>2, InvAlways, PTL DEF Spec, ReadersSeeAcknowledged

\* While a worker reads, its snapshot stays; and what it reads, unless another
\* worker commits or copies frames.
LEMMA ReadingStays ==
    ASSUME IInv, Next, NEW w \in Workers, pc[w] = "reading", pc'[w] = "reading", ~exposed
    PROVE  /\ snap'[w] = snap[w]
           /\ \/ UNCHANGED <<db, frames>>
              \/ \E v \in Workers \ {w} : Commit(v) \/ CopyFrames(v)
<1> USE DEF IInv, Inv
<1>1. w \in Processes /\ w \in attached /\ TypeOK
  BY DEF Processes, Control, Transaction
<1>2. linked
  BY <1>1 DEF Content
<1>3. ASSUME NEW p \in Processes, pc[p] \in Closing PROVE FALSE
  <2>1. attached = {p}
    BY <1>3 DEF Control
  <2> QED
    BY <1>1, <1>3, <2>1 DEF Closing
<1> HIDE DEF IInv, Inv
<1>4. ASSUME NEW v \in Workers, Request(v)
      PROVE  /\ snap'[w] = snap[w]
             /\ \/ UNCHANGED <<db, frames>>
                \/ v # w /\ (Commit(v) \/ CopyFrames(v))
  <2>1. v \in Processes
    BY DEF Processes
  <2>2. CASE (\E r \in Rows : StartInsert(v, r)) \/ StartList(v) \/ GiveUp(v) \/ Acknowledge(v)
             \/ StartCheckpoint(v) \/ EndCheckpoint(v)
    BY <1>1, <2>1, <2>2 DEF StartInsert, StartList, GiveUp, Acknowledge, StartCheckpoint,
       EndCheckpoint, files, TypeOK
  <2>3. CASE OpenWal(v)
    BY <1>2, <2>3 DEF OpenWal
  <2>4. CASE ReadHeader(v) \/ BeginRead(v) \/ EndList(v) \/ BeginWrite(v)
    BY <1>1, <2>1, <2>4 DEF ReadHeader, BeginRead, EndList, BeginWrite, Goto, files, TypeOK
  <2>5. CASE Commit(v)
    BY <1>1, <2>1, <2>5 DEF Commit, Goto, TypeOK
  <2>6. CASE CopyFrames(v)
    BY <1>1, <2>1, <2>6 DEF CopyFrames, Goto, TypeOK
  <2> QED
    BY <1>4, <2>2, <2>3, <2>4, <2>5, <2>6 DEF Request
<1>5. ASSUME NEW p \in Processes, Close(p)
      PROVE  snap'[w] = snap[w] /\ UNCHANGED <<db, frames>>
  <2>1. StartClose(p)
    BY <1>3, <1>5 DEF Close, Closing, CloseReadHeader, CloseCopy, CloseFails, CloseUnlink
  <2> QED
    BY <1>1, <2>1 DEF StartClose, Leave, Goto, files, TypeOK
<1>6. ASSUME NEW p \in Processes, Dies(p)
      PROVE  snap'[w] = snap[w] /\ UNCHANGED <<db, frames>>
  BY <1>1, <1>6 DEF Dies, Leave, Goto, files, TypeOK
<1> QED
  BY <1>4, <1>5, <1>6 DEF Next, KillWorker, Crash, Processes

\* A listing reads one state of the database, whatever is inserted, checkpointed
\* or restarted meanwhile (walTryBeginRead, walRestartLog, walCheckpoint).
THEOREM SnapshotCorrect == Spec => SnapshotStable
<1>1. ASSUME IInv, Next, NEW w \in Workers, pc[w] = "reading", pc'[w] = "reading", ~exposed
      PROVE  View(w)' = View(w)
  <2> USE DEF IInv, Inv
  <2>1. /\ w \in Processes /\ Reader(w) /\ snap'[w] = snap[w]
        /\ snap[w] \in Snapshot /\ snap[w].mark \in {"db", "wal"}
    BY <1>1, ReadingStays DEF Processes, TypeOK, Control, Transaction, Snapshot
  <2>2. CASE UNCHANGED <<db, frames>>
    BY <2>1, <2>2 DEF View
  <2>3. ASSUME NEW v \in Workers \ {w}, Commit(v) PROVE View(w)' = View(w)
    <3>1. v \in Processes /\ db' = db /\ pc[v] = "writing"
      BY <2>3 DEF Commit, Processes
    <3>2. CASE snap[w].mark = "wal" /\ snap[w].min <= snap[w].mx
      <4>1. ~MayRestart(v)
        BY <2>1, <3>2 DEF MayRestart, Holding
      <4>2. /\ snap[w].mx \in Nat /\ snap[w].min \in Nat /\ snap[w].min >= 1
            /\ snap[w].mx <= mx
        BY <1>1, <2>1, <3>2, IndexTypes DEF Snapshot, Reader
      <4>3. snap[w].mx \in 1..Len(frames) /\ snap[w].mx # mx + 1
        BY <1>1, <3>2, <4>2, IndexTypes
      <4>4. frames'[snap[w].mx] = frames[snap[w].mx]
        <5> DEFINE image == View(v) \cup {row[v]}
        <5>1. frames' = IF mx + 1 > Len(frames) THEN Append(frames, image)
                                                ELSE [frames EXCEPT ![mx + 1] = image]
          BY <2>3, <4>1 DEF Commit
        <5>2. image \in SUBSET Rows
          BY <1>1, <3>1, WriterSeesRows DEF Control
        <5>3. mx + 1 \in Nat /\ mx + 1 >= 1 /\ mx + 1 <= Len(frames) + 1 /\ TypeOK
          BY <1>1, IndexTypes
        <5> HIDE DEF image
        <5>4. /\ Len(frames') \in Nat /\ Len(frames) <= Len(frames')
              /\ \A i \in 1..Len(frames') : i # mx + 1 => frames'[i] = frames[i]
          BY ONLY <5>1, <5>2, <5>3, FrameWritten
        <5>5. snap[w].mx \in 1..Len(frames')
          BY ONLY <4>3, <5>3, <5>4, IndexTypes, RangeGrows
        <5> QED
          BY <4>3, <5>4, <5>5
      <4> QED
        BY <2>1, <3>2, <4>4 DEF View
    <3>3. CASE ~(snap[w].mark = "wal" /\ snap[w].min <= snap[w].mx)
      BY <2>1, <3>1, <3>3 DEF View
    <3> QED
      BY <3>2, <3>3
  <2>4. ASSUME NEW v \in Workers \ {w}, CopyFrames(v) PROVE View(w)' = View(w)
    <3>1. pc[v] = "backfill" /\ frames' = frames
      BY <2>4 DEF CopyFrames
    <3>2. snap[w].mark = "wal"
      BY <1>1, <2>1, <3>1 DEF Exclusion, Copying
    <3>3. /\ target[v] \in 1..Len(frames) /\ backfill < target[v]
          /\ target[v] <= snap[w].mx
      BY <1>1, <2>1, <3>1, <3>2 DEF Checkpoint, Copying
    <3>4. snap[w].min <= backfill + 1 /\ snap[w].min \in Nat /\ snap[w].mx \in Nat
      BY <1>1, <2>1, <3>2 DEF Reader, Snapshot
    <3>5. snap[w].min <= snap[w].mx
      BY <1>1, <3>3, <3>4, IndexTypes
    <3> QED
      BY <2>1, <3>1, <3>2, <3>5 DEF View
  <2> QED
    BY <1>1, <2>2, <2>3, <2>4, ReadingStays
<1>2. IInv /\ [Next]_vars =>
        [\A w \in Workers :
            (pc[w] = "reading" /\ pc'[w] = "reading" /\ ~exposed /\ ~exposed')
               => View(w)' = View(w)]_vars
  BY <1>1
<1> QED
  BY <1>2, InvAlways, PTL DEF Spec, SnapshotStable

-------------------------------------------------------------------------------
(* The refinement.                                                         *)

LEMMA WhoKeeps ==
    ASSUME Next
    PROVE  \/ UNCHANGED <<kept, exposed>>
           \/ \E w \in Workers : Commit(w)
           \/ \E p \in Processes : StartClose(p)
<1>1. ASSUME NEW w \in Workers, Request(w), ~Commit(w) PROVE UNCHANGED <<kept, exposed>>
  BY <1>1 DEF Request, StartInsert, StartList, OpenWal, ReadHeader, BeginRead, EndList,
     BeginWrite,
     GiveUp, StartCheckpoint, CopyFrames, EndCheckpoint, Acknowledge, history
<1>2. ASSUME NEW p \in Processes, Close(p), ~StartClose(p) PROVE UNCHANGED <<kept, exposed>>
  BY <1>2 DEF Close, CloseReadHeader, CloseCopy, CloseFails, CloseUnlink, history
<1>3. ASSUME NEW p \in Processes, Dies(p) PROVE UNCHANGED <<kept, exposed>>
  BY <1>3 DEF Dies, history
<1> QED
  BY <1>1, <1>2, <1>3 DEF Next, KillWorker, Crash, Processes

\* The database file with its WAL is a set of rows to which one INSERT at a time
\* adds one, whatever processes die or close in between.
THEOREM StoreRefinement == Spec => ImplementsStore
<1>1. Init => Store!Init
  BY DEF Init, NamedContent, Store!Init
<1>2. ASSUME IInv, IInv', Named, Named', [Next]_vars
      PROVE  [Store!Next]_<<NamedContent, kept, exposed>>
  <2>1. CASE UNCHANGED vars
    BY <2>1 DEF vars, files, history, NamedContent
  <2>2. CASE Next /\ UNCHANGED <<kept, exposed>>
    <3>1. CASE exposed
      <4>1. kept \subseteq NamedContent' /\ NamedContent' \subseteq Rows
        BY <1>2, <2>2 DEF Named
      <4> QED
        BY <2>2, <3>1, <4>1 DEF Store!Next, Store!WhileExposed
    <3>2. CASE ~exposed
      <4>1. NamedContent = kept
        BY <1>2, <3>2 DEF Named
      <4>2. NamedContent' = kept'
        BY <1>2, <2>2, <3>2 DEF Named
      <4> QED
        BY <2>2, <4>1, <4>2
    <3> QED
      BY <3>1, <3>2
  <2>3. ASSUME NEW w \in Workers, Commit(w)
        PROVE  [Store!Next]_<<NamedContent, kept, exposed>>
    <3>1. exposed' = exposed /\ kept' = IF exposed THEN kept ELSE kept \cup {row[w]}
      BY <2>3 DEF Commit
    <3>2. row[w] \in Rows
      BY <1>2, <2>3 DEF IInv, Inv, Control, Commit, Processes
    <3>3. kept' \subseteq NamedContent' /\ (~exposed' => NamedContent' = kept')
      BY <1>2 DEF Named
    <3>4. NamedContent' \subseteq Rows
      BY <1>2 DEF Named
    <3>5. CASE exposed
      BY <3>1, <3>3, <3>4, <3>5 DEF Store!Next, Store!WhileExposed
    <3>6. CASE ~exposed
      <4>1. NamedContent = kept
        BY <1>2, <3>6 DEF Named
      <4>2. Store!Store(row[w])
        BY <3>1, <3>3, <3>6, <4>1 DEF Store!Store
      <4> QED
        BY <3>2, <4>2 DEF Store!Next
    <3> QED
      BY <3>5, <3>6
  <2>4. ASSUME NEW p \in Processes, StartClose(p)
        PROVE  [Store!Next]_<<NamedContent, kept, exposed>>
    <3>1. /\ NamedContent' = NamedContent /\ kept' \in SUBSET kept
          /\ exposed' = TRUE \/ UNCHANGED exposed
      <4>1. UNCHANGED <<db, frames, mx, linked>>
        BY <2>4 DEF StartClose, files
      <4>2. exposed \in BOOLEAN
        BY <1>2 DEF IInv, TypeOK
      <4> QED
        BY <2>4, <4>1, <4>2 DEF StartClose, NamedContent
    <3>2. CASE exposed' = TRUE
      BY <3>1, <3>2 DEF Store!Next, Store!Expose
    <3>3. CASE ~exposed' /\ UNCHANGED exposed
      <4>1. NamedContent = kept
        BY <1>2, <3>3 DEF Named
      <4>2. NamedContent' = kept'
        BY <1>2, <3>3 DEF Named
      <4> QED
        BY <3>1, <3>3, <4>1, <4>2
    <3>4. exposed' \in BOOLEAN
      BY <1>2 DEF IInv, TypeOK
    <3> QED
      BY <3>1, <3>2, <3>3, <3>4
  <2> QED
    BY <1>2, <2>1, <2>2, <2>3, <2>4, WhoKeeps
<1>3. IInv => Named
  BY NamedContentIsKept
<1> QED
  BY <1>1, <1>2, <1>3, InvAlways, PTL DEF Spec, ImplementsStore, Store!Spec
===============================================================================
