------------------------ MODULE ServerLifecycle_proofs ------------------------
(***************************************************************************)
(* For any number of instances, workers and process identifiers: a master  *)
(* that closes leaves no worker behind, and the PID file names the master  *)
(* that runs and keeps every other one out until it is removed, which only *)
(* a close or a start that overlapped the master's does.                   *)
(*                                                                         *)
(* NoWorkerLeft speaks of masters that have exited.  Known adds where the  *)
(* PID of each live worker is to be found before that: in the slots the    *)
(* fork loop has filled, and during the close in those the kill loop has   *)
(* still to go through.                                                    *)
(***************************************************************************)
EXTENDS ServerLifecycle, TLAPS

\* The slots of workers[] in which the live workers of i are, at each
\* location of its master.
Holding(i) ==
    IF pc[i] = "fork" THEN 1..index[i]
    ELSE IF pc[i] \in {"sigaction", "close"} \cup Looping THEN Slots
    ELSE IF pc[i] = "kill" THEN {k \in Slots : k > index[i]}
    ELSE {}

\* A master that was killed took the table with it.
Known(i) ==
    pc[i] # "killed" =>
        \A p \in Pids : process[p] = Worker(i) =>
            workers[i] # <<>> /\ \E k \in Holding(i) : workers[i][k] = p

IInv == TypeOK /\ \A i \in Instances : Known(i)

-------------------------------------------------------------------------------
LEMMA EmptyIsNoTable == \A f \in [Slots -> Pids \cup {0}] : f # <<>>
<1> SUFFICES ASSUME NEW f \in [Slots -> Pids \cup {0}], f = <<>> PROVE FALSE
  OBVIOUS
<1>1. DOMAIN f = Slots /\ 1 \in Slots
  BY NumWorkersAssumption DEF Slots
<1>2. DOMAIN f = {}
  OBVIOUS
<1> QED
  BY <1>1, <1>2

LEMMA ProcessTypes ==
    /\ Free \in Process /\ Other \in Process
    /\ \A i \in Instances \cup {NoOne} :
          Master(i) \in Process /\ Worker(i) \in Process /\ Zombie(i) \in Process
  BY DEF Free, Other, Master, Worker, Zombie, Process, Kinds

\* Nobody is a worker who is something else.
LEMMA WorkersAreWorkers ==
    \A i, j : /\ Worker(i) # Free /\ Worker(i) # Other
              /\ Worker(i) # Master(j) /\ Worker(i) # Zombie(j)
              /\ (Worker(i) = Worker(j) => i = j)
<1> SUFFICES ASSUME NEW i, NEW j
    PROVE  /\ Worker(i) # Free /\ Worker(i) # Other
           /\ Worker(i) # Master(j) /\ Worker(i) # Zombie(j)
           /\ (Worker(i) = Worker(j) => i = j)
  OBVIOUS
<1>1. Worker(i).kind = "worker" /\ Worker(i).of = i /\ Worker(j).of = j
  BY DEF Worker
<1>2. /\ Free.kind = "free" /\ Other.kind = "other"
      /\ Master(j).kind = "master" /\ Zombie(j).kind = "zombie"
  BY DEF Free, Other, Master, Zombie
<1> QED
  BY <1>1, <1>2

\* What a step must not do to the workers of i: create one, touch the table,
\* or shrink the slots that hold them.
Keeps(i) ==
    /\ \A p \in Pids : process'[p] = Worker(i) => process[p] = Worker(i)
    /\ workers'[i] = workers[i]
    /\ pc'[i] # "killed" => pc[i] # "killed" /\ Holding(i) \subseteq Holding(i)'

LEMMA KeepsKnown ==
    ASSUME NEW i \in Instances, Known(i), Keeps(i)
    PROVE  Known(i)'
<1> SUFFICES ASSUME pc'[i] # "killed", NEW p \in Pids, process'[p] = Worker(i)'
             PROVE  workers'[i] # <<>> /\ \E k \in Holding(i)' : workers'[i][k] = p
  BY DEF Known
<1>1. process[p] = Worker(i) /\ pc[i] # "killed" /\ workers'[i] = workers[i]
  BY DEF Keeps, Worker
<1>2. workers[i] # <<>> /\ \E k \in Holding(i) : workers[i][k] = p
  BY <1>1 DEF Known
<1>3. Holding(i) \subseteq Holding(i)'
  BY DEF Keeps
<1> QED
  BY <1>1, <1>2, <1>3

\* Freed or turned into a zombie, or left alone.
LEMMA EndsCreateNoWorker ==
    ASSUME TypeOK, NEW i
    PROVE  /\ \A j : \A p \in Pids :
                 WithoutMaster(j)[p] = Worker(i) => process[p] = Worker(i)
           /\ \A q \in Pids : \A p \in Pids :
                 WithoutWorker(q)[p] = Worker(i) => process[p] = Worker(i) /\ p # q
<1>1. ASSUME NEW j, NEW p \in Pids, WithoutMaster(j)[p] = Worker(i)
      PROVE  process[p] = Worker(i)
  BY <1>1, WorkersAreWorkers DEF WithoutMaster
<1>2. ASSUME NEW q \in Pids, NEW p \in Pids, WithoutWorker(q)[p] = Worker(i)
      PROVE  process[p] = Worker(i) /\ p # q
  <2>1. process \in [Pids -> Process]
    BY DEF TypeOK
  <2>2. CASE p = q
    <3>1. WithoutWorker(q)[p] \in {Zombie(process[q].of), Free}
      BY <2>1, <2>2 DEF WithoutWorker
    <3> QED
      BY <3>1, <1>2, WorkersAreWorkers
  <2>3. CASE p # q
    <3>1. WithoutWorker(q)[p] = process[p]
      BY <2>1, <2>3 DEF WithoutWorker
    <3> QED
      BY <3>1, <1>2, <2>3
  <2> QED
    BY <2>2, <2>3
<1> QED
  BY <1>1, <1>2

LEMMA EndsTypes ==
    ASSUME TypeOK
    PROVE  /\ \A j : WithoutMaster(j) \in [Pids -> Process]
           /\ \A q \in Pids : WithoutWorker(q) \in [Pids -> Process]
<1>1. ASSUME NEW j PROVE WithoutMaster(j) \in [Pids -> Process]
  BY ProcessTypes DEF WithoutMaster, TypeOK
<1>2. ASSUME NEW q \in Pids PROVE WithoutWorker(q) \in [Pids -> Process]
  <2>1. process[q].of \in Instances \cup {NoOne}
    BY DEF TypeOK, Process
  <2>2. Zombie(process[q].of) \in Process /\ Free \in Process
    BY <2>1, ProcessTypes
  <2> QED
    BY <2>2 DEF WithoutWorker, TypeOK
<1> QED
  BY <1>1, <1>2

\* What a SIGTERM does to the masters and their workers.
LEMMA SigtermEffect ==
    ASSUME TypeOK, NEW p \in Pids, Sigterm(p)
    PROVE  /\ pc' \in [Instances -> Locations]
           /\ shutdown' \in [Instances -> BOOLEAN]
           /\ process' \in [Pids -> Process]
           /\ \A j \in Instances : \/ pc'[j] = pc[j] \/ pc'[j] = "killed"
                                   \/ pc[j] = "waiting" /\ pc'[j] = "test"
           /\ \A j \in Instances : \A q \in Pids :
                 process'[q] = Worker(j) => process[q] = Worker(j) /\ p # q
<1> DEFINE i == process[p].of
<1>0. process \in [Pids -> Process] /\ process[p].kind \in Kinds
  BY DEF TypeOK, Process
<1>1. CASE process[p].kind = "master"
  <2>1. /\ shutdown' = [shutdown EXCEPT ![i] = @ \/ handled[i]]
        /\ pc' = [pc EXCEPT ![i] = IF ~handled[i] THEN "killed"
                                   ELSE IF @ = "waiting" THEN "test" ELSE @]
        /\ process' = IF handled[i] THEN process ELSE WithoutMaster(i)
    BY <1>1 DEF Sigterm
  <2>2. \A j \in Instances : \/ pc'[j] = pc[j] \/ pc'[j] = "killed"
                             \/ pc[j] = "waiting" /\ pc'[j] = "test"
    BY <2>1 DEF TypeOK
  <2>3. pc' \in [Instances -> Locations]
    BY <2>1 DEF TypeOK, Locations, Running, Looping
  <2>4. shutdown' \in [Instances -> BOOLEAN]
    BY <2>1 DEF TypeOK
  <2>5. process' \in [Pids -> Process]
    BY <2>1, <1>0, EndsTypes
  <2>6. ASSUME NEW j \in Instances, NEW q \in Pids, process'[q] = Worker(j)
        PROVE  process[q] = Worker(j) /\ p # q
    <3>1. process[q] = Worker(j)
      BY <2>1, <2>6, EndsCreateNoWorker
    <3>2. process[q].kind = "worker"
      BY <3>1 DEF Worker
    <3> QED
      BY <3>1, <3>2, <1>1
  <2> QED
    BY <2>2, <2>3, <2>4, <2>5, <2>6
<1>2. CASE process[p].kind = "worker"
  <2>1. process' = WithoutWorker(p) /\ pc' = pc /\ shutdown' = shutdown
    BY <1>2 DEF Sigterm
  <2> QED
    BY <2>1, EndsTypes, EndsCreateNoWorker DEF TypeOK
<1>3. CASE process[p].kind = "other"
  <2>1. process' = [process EXCEPT ![p] = Free] /\ pc' = pc /\ shutdown' = shutdown
    BY <1>3 DEF Sigterm
  <2>2. process' \in [Pids -> Process]
    BY <2>1, <1>0, ProcessTypes
  <2>3. \A j \in Instances : \A q \in Pids :
            process'[q] = Worker(j) => process[q] = Worker(j) /\ p # q
    BY <2>1, <1>0, WorkersAreWorkers
  <2> QED
    BY <2>1, <2>2, <2>3 DEF TypeOK
<1>4. CASE process[p].kind \notin {"master", "worker", "other"}
  <2>1. process' = process /\ pc' = pc /\ shutdown' = shutdown
    BY <1>4 DEF Sigterm
  <2>2. \A j \in Instances : Worker(j).kind = "worker"
    BY DEF Worker
  <2> QED
    BY <2>1, <2>2, <1>4 DEF TypeOK
<1> QED
  BY <1>1, <1>2, <1>3, <1>4

-------------------------------------------------------------------------------
LEMMA InvInit == Init => IInv
<1> SUFFICES ASSUME Init PROVE IInv
  OBVIOUS
<1>1. TypeOK
  BY ProcessTypes, NumWorkersAssumption, FilesAssumption
     DEF Init, TypeOK, Locations, Running, Files
<1>2. ASSUME NEW i \in Instances PROVE Known(i)
  BY WorkersAreWorkers DEF Init, Known
<1> QED
  BY <1>1, <1>2 DEF IInv

\* The history stays one.
LEMMA HistoryTypes ==
    ASSUME TypeOK, NEW i \in Instances,
           StartTakes(i) \/ Taken("close") \/ UNCHANGED taken
    PROVE  taken' \in [Instances -> {"no", "close", "race", "start"}]
  BY DEF StartTakes, Taken, TypeOK

\* A step of a master that only moves on.
LEMMA GotoTypes ==
    ASSUME TypeOK, NEW i, NEW location \in Locations, Goto(i, location)
    PROVE  /\ pc' \in [Instances -> Locations]
           /\ \A j \in Instances : pc'[j] = IF j = i THEN location ELSE pc[j]
  BY DEF TypeOK, Goto

LEMMA AllLocations ==
    /\ {"open", "read", "check", "unlink", "retry", "write", "app", "fork",
        "sigaction", "test", "before_wait", "waiting", "close", "kill", "off",
        "exited", "killed"} = Locations
  BY DEF Locations, Running, Starting, Saving, Looping, Closing

\* Starting up, before the first fork: there is no worker yet.
LEMMA SavingStep ==
    ASSUME IInv, NEW i \in Instances,
           \/ Launch(i) \/ CreatePidFile(i) \/ ReadOldPid(i) \/ CheckOldPid(i)
           \/ UnlinkStale(i) \/ CreateAgain(i) \/ WritePid(i) \/ InitApp(i)
           \/ StartFails(i)
    PROVE  IInv'
<1> DEFINE before == {"off", "open", "read", "check", "unlink", "retry", "write", "app"}
<1>0. TypeOK
  BY DEF IInv
<1>1. /\ pc[i] \in before
      /\ \E location \in {"open", "read", "check", "unlink", "retry", "write", "app",
                          "fork", "close"} : Goto(i, location)
      /\ UNCHANGED <<handled, shutdown, index, workers>>
      /\ process' \in [Pids -> Process]
      /\ \A j \in Instances : \A p \in Pids :
            process'[p] = Worker(j) => process[p] = Worker(j)
      /\ pid_file' \in Files \cup {NoFile}
      /\ old_pid' \in [Instances -> Pids \cup {0}]
      /\ content' \in [Files -> Pids \cup {0}]
      /\ beside' \in [Instances -> SUBSET Instances]
      /\ taken' \in [Instances -> {"no", "close", "race", "start"}]
  <2>1. CASE Launch(i)
    <3>1. PICK q \in All(Free) : process' = [process EXCEPT ![q] = Master(i)]
      BY <2>1 DEF Launch
    <3>2. q \in Pids /\ process' \in [Pids -> Process]
      BY <3>1, <1>0, ProcessTypes DEF All, TypeOK
    <3>3. \A j \in Instances : \A p \in Pids :
              process'[p] = Worker(j) => process[p] = Worker(j)
      BY <3>1, <3>2, <1>0, WorkersAreWorkers DEF TypeOK
    <3> QED
      BY <2>1, <3>2, <3>3, <1>0 DEF Launch, history, TypeOK
  <2>2. CASE CreatePidFile(i)
    BY <2>2, <1>0 DEF CreatePidFile, Create, history, TypeOK, Files
  <2>3. CASE ReadOldPid(i)
    BY <2>3, <1>0 DEF ReadOldPid, history, TypeOK
  <2>4. CASE CheckOldPid(i)
    BY <2>4, <1>0 DEF CheckOldPid, history, TypeOK
  <2>5. CASE UnlinkStale(i)
    BY <2>5, <1>0, HistoryTypes DEF UnlinkStale, TypeOK
  <2>6. CASE CreateAgain(i)
    BY <2>6, <1>0 DEF CreateAgain, Create, history, TypeOK, Files
  <2>7. CASE WritePid(i)
    <3>1. PICK q \in Pids : content' = [content EXCEPT ![i] = q]
      BY <2>7 DEF WritePid, All
    <3> QED
      BY <2>7, <3>1, <1>0 DEF WritePid, TypeOK, Files, Saving
  <2>8. CASE InitApp(i)
    BY <2>8, <1>0 DEF InitApp, history, TypeOK
  <2>9. CASE StartFails(i)
    BY <2>9, <1>0 DEF StartFails, history, TypeOK
  <2> QED
    BY <2>1, <2>2, <2>3, <2>4, <2>5, <2>6, <2>7, <2>8, <2>9
<1>2. PICK location \in Locations :
          /\ location \in {"open", "read", "check", "unlink", "retry", "write", "app",
                           "fork", "close"}
          /\ Goto(i, location)
  BY <1>1, AllLocations
<1>3. /\ pc' \in [Instances -> Locations]
      /\ \A j \in Instances : pc'[j] = IF j = i THEN location ELSE pc[j]
  BY <1>0, <1>2, GotoTypes
<1>4. TypeOK'
  BY <1>0, <1>1, <1>3 DEF TypeOK
<1>5. ASSUME NEW j \in Instances PROVE Known(j)'
  <2>1. pc'[j] # "killed" => pc[j] # "killed"
    BY <1>1, <1>2, <1>3
  <2>2. Holding(j) \subseteq Holding(j)'
    <3>1. CASE j = i
      BY <3>1, <1>1 DEF Holding, Looping
    <3>2. CASE j # i
      BY <3>2, <1>1, <1>3 DEF Holding
    <3> QED
      BY <3>1, <3>2
  <2>3. Keeps(j)
    BY <1>1, <2>1, <2>2 DEF Keeps
  <2> QED
    BY <2>3, KeepsKnown DEF IInv
<1> QED
  BY <1>4, <1>5 DEF IInv

\* The fork loop: the new worker's PID goes into the next slot.
LEMMA ForkStep ==
    ASSUME IInv, NEW i \in Instances, Fork(i)
    PROVE  IInv'
<1>0. TypeOK
  BY DEF IInv
<1>1. PICK q \in All(Free) :
          /\ process' = [process EXCEPT ![q] = Worker(i)]
          /\ workers' = [workers EXCEPT ![i] = [k \in Slots |->
                IF k = index[i] + 1 THEN q ELSE IF @ = <<>> THEN 0 ELSE @[k]]]
  BY DEF Fork
<1>2. q \in Pids /\ process[q] = Free
  BY <1>1 DEF All
<1>3. /\ index[i] \in 0..NumWorkers /\ index[i] < NumWorkers
      /\ index' = [index EXCEPT ![i] = @ + 1] /\ pc' = pc /\ pc[i] = "fork"
      /\ UNCHANGED <<handled, shutdown, old_pid, pid_file, content, beside, taken>>
  BY <1>0 DEF Fork, history, TypeOK
<1> DEFINE table == [k \in Slots |-> IF k = index[i] + 1 THEN q
                        ELSE IF workers[i] = <<>> THEN 0 ELSE workers[i][k]]
<1>4. /\ workers'[i] = table
      /\ \A j \in Instances : j # i => workers'[j] = workers[j]
  BY <1>0, <1>1 DEF TypeOK
<1>5. table \in [Slots -> Pids \cup {0}]
  <2>1. workers[i] = <<>> \/ workers[i] \in [Slots -> Pids \cup {0}]
    BY <1>0 DEF TypeOK
  <2> QED
    BY <2>1, <1>2
<1>6. TypeOK'
  <2>1. workers' \in [Instances -> {<<>>} \cup [Slots -> Pids \cup {0}]]
    BY <1>0, <1>1, <1>5 DEF TypeOK
  <2>2. process' \in [Pids -> Process]
    BY <1>0, <1>1, <1>2, ProcessTypes DEF TypeOK
  <2>3. index' \in [Instances -> 0..NumWorkers]
    BY <1>0, <1>3, NumWorkersAssumption DEF TypeOK
  <2> QED
    BY <1>0, <1>3, <2>1, <2>2, <2>3 DEF TypeOK
<1>7. Known(i)'
  <2> SUFFICES ASSUME NEW p \in Pids, process'[p] = Worker(i)
               PROVE  workers'[i] # <<>> /\ \E k \in Holding(i)' : workers'[i][k] = p
    BY DEF Known, Worker
  <2>1. workers'[i] # <<>>
    BY <1>4, <1>5, EmptyIsNoTable
  <2>2. Holding(i) = 1..index[i] /\ Holding(i)' = 1..(index[i] + 1)
    BY <1>0, <1>3 DEF Holding, TypeOK
  <2>3. CASE p = q
    <3>1. index[i] + 1 \in Slots /\ index[i] + 1 \in 1..(index[i] + 1)
      BY <1>3, NumWorkersAssumption DEF Slots
    <3>2. workers'[i][index[i] + 1] = p
      BY <1>4, <2>3, <3>1
    <3> QED
      BY <2>1, <2>2, <3>1, <3>2
  <2>4. CASE p # q
    <3>1. process[p] = Worker(i)
      BY <1>0, <1>1, <2>4 DEF TypeOK
    <3>2. workers[i] # <<>> /\ \E k \in 1..index[i] : workers[i][k] = p
      BY <1>3, <2>2, <3>1 DEF IInv, Known
    <3>3. PICK k \in 1..index[i] : workers[i][k] = p
      BY <3>2
    <3>4. k \in Slots /\ k # index[i] + 1 /\ k \in 1..(index[i] + 1)
      BY <1>3, NumWorkersAssumption DEF Slots
    <3>5. workers'[i][k] = p
      BY <1>4, <3>2, <3>3, <3>4
    <3> QED
      BY <2>1, <2>2, <3>4, <3>5
  <2> QED
    BY <2>3, <2>4
<1>8. ASSUME NEW j \in Instances, j # i PROVE Known(j)'
  <2>1. \A p \in Pids : process'[p] = Worker(j) => process[p] = Worker(j)
    BY <1>0, <1>1, <1>8, WorkersAreWorkers DEF TypeOK
  <2>2. Holding(j)' = Holding(j)
    BY <1>0, <1>3, <1>8 DEF Holding, TypeOK
  <2>3. Keeps(j)
    BY <1>3, <1>4, <1>8, <2>1, <2>2 DEF Keeps
  <2> QED
    BY <2>3, KeepsKnown DEF IInv
<1> QED
  BY <1>6, <1>7, <1>8 DEF IInv

\* The failure of a fork keeps the slots that are filled, whatever the others
\* hold.
LEMMA ForkFailsStep ==
    ASSUME IInv, NEW i \in Instances, ForkFails(i)
    PROVE  IInv'
<1>0. TypeOK
  BY DEF IInv
<1>1. PICK garbage \in [Slots -> Pids \cup {0}] :
          workers' = [workers EXCEPT ![i] =
              IF @ = <<>> THEN <<>>
              ELSE [k \in Slots |-> IF k <= index[i] THEN @[k] ELSE garbage[k]]]
  BY DEF ForkFails
<1>2. /\ pc[i] = "fork" /\ index[i] \in 0..NumWorkers /\ index[i] < NumWorkers
      /\ Goto(i, "close")
      /\ UNCHANGED <<handled, shutdown, old_pid, index, process, pid_file, content,
                     beside, taken>>
  BY <1>0 DEF ForkFails, history, TypeOK
<1> DEFINE table == [k \in Slots |-> IF k <= index[i] THEN workers[i][k] ELSE garbage[k]]
<1>3. /\ workers'[i] = IF workers[i] = <<>> THEN <<>> ELSE table
      /\ \A j \in Instances : j # i => workers'[j] = workers[j]
  BY <1>0, <1>1 DEF TypeOK
<1>4. workers[i] # <<>> => table \in [Slots -> Pids \cup {0}]
  BY <1>0 DEF TypeOK
<1>5. /\ pc' \in [Instances -> Locations]
      /\ \A j \in Instances : pc'[j] = IF j = i THEN "close" ELSE pc[j]
  BY <1>0, <1>2, GotoTypes, AllLocations
<1>6. TypeOK'
  <2>1. workers' \in [Instances -> {<<>>} \cup [Slots -> Pids \cup {0}]]
    BY <1>0, <1>1, <1>4 DEF TypeOK
  <2> QED
    BY <1>0, <1>2, <1>5, <2>1 DEF TypeOK
<1>7. Known(i)'
  <2> SUFFICES ASSUME NEW p \in Pids, process'[p] = Worker(i)
               PROVE  workers'[i] # <<>> /\ \E k \in Holding(i)' : workers'[i][k] = p
    BY DEF Known, Worker
  <2>1. process[p] = Worker(i) /\ Holding(i) = 1..index[i] /\ Holding(i)' = Slots
    BY <1>2, <1>5 DEF Holding
  <2>2. workers[i] # <<>> /\ \E k \in 1..index[i] : workers[i][k] = p
    BY <1>2, <2>1 DEF IInv, Known
  <2>3. PICK k \in 1..index[i] : workers[i][k] = p
    BY <2>2
  <2>4. k \in Slots /\ k <= index[i]
    BY <1>2, NumWorkersAssumption DEF Slots
  <2>5. workers'[i] = table /\ table # <<>>
    BY <1>3, <1>4, <2>2, EmptyIsNoTable
  <2>6. workers'[i][k] = p
    BY <2>3, <2>4, <2>5
  <2> QED
    BY <2>1, <2>4, <2>5, <2>6
<1>8. ASSUME NEW j \in Instances, j # i PROVE Known(j)'
  <2>1. Holding(j)' = Holding(j)
    BY <1>2, <1>5, <1>8 DEF Holding
  <2>2. Keeps(j)
    BY <1>2, <1>3, <1>5, <1>8, <2>1 DEF Keeps
  <2> QED
    BY <2>2, KeepsKnown DEF IInv
<1> QED
  BY <1>6, <1>7, <1>8 DEF IInv

\* From the last fork to the kill loop every slot may hold a live worker.
LEMMA LoopStep ==
    ASSUME IInv, NEW i \in Instances,
           \/ AllForked(i) \/ InstallHandlers(i) \/ TestShutdown(i) \/ EnterWait(i)
           \/ Reap(i) \/ NoChildren(i) \/ CloseUnlink(i)
    PROVE  IInv'
<1>0. TypeOK
  BY DEF IInv
<1>1. /\ \/ pc[i] = "fork" /\ index[i] = NumWorkers
         \/ pc[i] \in {"sigaction", "test", "before_wait", "waiting", "close"}
      /\ \/ /\ \E location \in {"sigaction", "test", "before_wait", "waiting", "close"} :
                  Goto(i, location)
            /\ index' = index
         \/ Goto(i, "kill") /\ index' = [index EXCEPT ![i] = 0]
      /\ UNCHANGED <<shutdown, old_pid, workers, content, beside>>
      /\ taken' \in [Instances -> {"no", "close", "race", "start"}]
      /\ handled' \in [Instances -> BOOLEAN]
      /\ process' \in [Pids -> Process]
      /\ \A j \in Instances : \A p \in Pids :
            process'[p] = Worker(j) => process[p] = Worker(j)
      /\ pid_file' \in Files \cup {NoFile}
  <2>1. CASE AllForked(i)
    BY <2>1, <1>0 DEF AllForked, history, TypeOK
  <2>2. CASE InstallHandlers(i)
    BY <2>2, <1>0 DEF InstallHandlers, history, TypeOK
  <2>3. CASE TestShutdown(i)
    BY <2>3, <1>0 DEF TestShutdown, history, TypeOK
  <2>4. CASE EnterWait(i)
    BY <2>4, <1>0 DEF EnterWait, history, TypeOK
  <2>5. CASE Reap(i)
    <3>1. PICK q \in Pids : process' = [process EXCEPT ![q] = Free]
      BY <2>5 DEF Reap, All
    <3>2. process' \in [Pids -> Process]
      BY <3>1, <1>0, ProcessTypes DEF TypeOK
    <3>3. \A j \in Instances : \A p \in Pids :
              process'[p] = Worker(j) => process[p] = Worker(j)
      BY <3>1, <1>0, WorkersAreWorkers DEF TypeOK
    <3> QED
      BY <2>5, <3>2, <3>3, <1>0 DEF Reap, history, TypeOK
  <2>6. CASE NoChildren(i)
    BY <2>6, <1>0 DEF NoChildren, history, TypeOK
  <2>7. CASE CloseUnlink(i)
    BY <2>7, <1>0, HistoryTypes DEF CloseUnlink, AfterUnlink, TypeOK
  <2> QED
    BY <2>1, <2>2, <2>3, <2>4, <2>5, <2>6, <2>7
<1>2. PICK location \in Locations :
          /\ location \in {"sigaction", "test", "before_wait", "waiting", "close", "kill"}
          /\ Goto(i, location)
          /\ index' = IF location = "kill" THEN [index EXCEPT ![i] = 0] ELSE index
  <2>1. CASE \E location \in {"sigaction", "test", "before_wait", "waiting", "close"} :
                 Goto(i, location) /\ index' = index
    BY <2>1, AllLocations
  <2>2. CASE Goto(i, "kill") /\ index' = [index EXCEPT ![i] = 0]
    BY <2>2, AllLocations
  <2> QED
    BY <1>1, <2>1, <2>2
<1>3. /\ pc' \in [Instances -> Locations]
      /\ \A j \in Instances : pc'[j] = IF j = i THEN location ELSE pc[j]
  BY <1>0, <1>2, GotoTypes
<1>4. /\ index' \in [Instances -> 0..NumWorkers]
      /\ \A j \in Instances : j # i => index'[j] = index[j]
      /\ location = "kill" => index'[i] = 0
  BY <1>0, <1>2, NumWorkersAssumption DEF TypeOK
<1>5. TypeOK'
  BY <1>0, <1>1, <1>3, <1>4 DEF TypeOK
<1>6. ASSUME NEW j \in Instances PROVE Known(j)'
  <2>1. pc'[j] # "killed" => pc[j] # "killed"
    BY <1>1, <1>2, <1>3
  <2>2. Holding(j) \subseteq Holding(j)'
    <3>1. CASE j = i
      <4>1. Holding(i) = Slots
        BY <1>1 DEF Holding, Looping, Slots
      <4>2. location # "kill" => Holding(i)' = Slots
        BY <1>2, <1>3 DEF Holding, Looping, Slots
      <4>3. location = "kill" => Holding(i)' = {k \in Slots : k > 0}
        BY <1>3, <1>4 DEF Holding, Looping, Slots
      <4>4. {k \in Slots : k > 0} = Slots
        BY NumWorkersAssumption DEF Slots
      <4> QED
        BY <3>1, <4>1, <4>2, <4>3, <4>4
    <3>2. CASE j # i
      BY <3>2, <1>3, <1>4 DEF Holding
    <3> QED
      BY <3>1, <3>2
  <2>3. Keeps(j)
    BY <1>1, <2>1, <2>2 DEF Keeps
  <2> QED
    BY <2>3, KeepsKnown DEF IInv
<1> QED
  BY <1>5, <1>6 DEF IInv

\* A SIGTERM, from whomever.
LEMMA SigtermKeeps ==
    ASSUME IInv, NEW p \in Pids, Sigterm(p), NEW i \in Instances,
           workers' = workers, index'[i] = index[i]
    PROVE  Keeps(i)
<1>1. /\ \/ pc'[i] = pc[i] \/ pc'[i] = "killed"
         \/ pc[i] = "waiting" /\ pc'[i] = "test"
      /\ \A q \in Pids : process'[q] = Worker(i) => process[q] = Worker(i)
  BY SigtermEffect DEF IInv
<1>2. pc'[i] # "killed" => pc[i] # "killed" /\ Holding(i) \subseteq Holding(i)'
  <2>1. CASE pc'[i] = pc[i]
    BY <2>1 DEF Holding
  <2>2. CASE pc[i] = "waiting" /\ pc'[i] = "test"
    BY <2>2 DEF Holding, Looping
  <2> QED
    BY <1>1, <2>1, <2>2
<1> QED
  BY <1>1, <1>2 DEF Keeps

\* The kill loop: a worker known from the slot it goes through is one no more.
LEMMA KillStep ==
    ASSUME IInv, NEW i \in Instances, KillWorker(i)
    PROVE  IInv'
<1>0. TypeOK
  BY DEF IInv
<1> DEFINE q == workers[i][index[i] + 1]
<1>1. /\ pc[i] = "kill" /\ workers[i] # <<>>
      /\ index[i] \in 0..NumWorkers /\ index[i] < NumWorkers
      /\ index' = [index EXCEPT ![i] = @ + 1]
      /\ UNCHANGED <<handled, old_pid, workers, pid_file, content, beside, taken>>
      /\ IF q # 0 THEN Sigterm(q) ELSE UNCHANGED <<pc, shutdown, process>>
  BY <1>0 DEF KillWorker, ToKill, history, TypeOK
<1>2. q \in Pids \cup {0}
  <2>1. workers[i] \in [Slots -> Pids \cup {0}] /\ index[i] + 1 \in Slots
    BY <1>0, <1>1, NumWorkersAssumption DEF TypeOK, Slots
  <2> QED
    BY <2>1
<1>3. /\ index' \in [Instances -> 0..NumWorkers]
      /\ \A j \in Instances : index'[j] = IF j = i THEN index[i] + 1 ELSE index[j]
  BY <1>0, <1>1, NumWorkersAssumption DEF TypeOK
<1>4. CASE ~(q # 0)
  <2>1. UNCHANGED <<pc, shutdown, process>> /\ q = 0
    BY <1>1, <1>4
  <2>2. TypeOK'
    BY <1>0, <1>1, <1>3, <2>1 DEF TypeOK
  <2>3. Known(i)'
    <3> SUFFICES ASSUME NEW p \in Pids, process'[p] = Worker(i)
                 PROVE  workers'[i] # <<>> /\ \E k \in Holding(i)' : workers'[i][k] = p
      BY DEF Known, Worker
    <3>1. /\ Holding(i) = {k \in Slots : k > index[i]}
          /\ Holding(i)' = {k \in Slots : k > index[i] + 1}
      BY <1>1, <1>3, <2>1 DEF Holding, Looping, Slots
    <3>2. PICK k \in Holding(i) : workers[i][k] = p
      BY <1>1, <2>1 DEF IInv, Known
    <3>3. k # index[i] + 1
      BY <2>1, <3>2, PidsAssumption
    <3>4. k \in Holding(i)'
      BY <1>1, <3>1, <3>3, NumWorkersAssumption DEF Slots
    <3> QED
      BY <1>1, <3>2, <3>4
  <2>4. ASSUME NEW j \in Instances, j # i PROVE Known(j)'
    <3>1. Keeps(j)
      BY <1>1, <1>3, <2>1, <2>4 DEF Keeps, Holding
    <3> QED
      BY <3>1, KeepsKnown DEF IInv
  <2> QED
    BY <2>2, <2>3, <2>4 DEF IInv
<1>5. CASE q # 0
  <2>1. Sigterm(q) /\ q \in Pids
    BY <1>1, <1>2, <1>5
  <2>2. /\ pc' \in [Instances -> Locations]
        /\ shutdown' \in [Instances -> BOOLEAN]
        /\ process' \in [Pids -> Process]
        /\ pc'[i] = "kill" \/ pc'[i] = "killed"
        /\ \A p \in Pids : process'[p] = Worker(i) => process[p] = Worker(i) /\ p # q
    BY <1>0, <1>1, <2>1, SigtermEffect
  <2>3. TypeOK'
    BY <1>0, <1>1, <1>3, <2>2 DEF TypeOK
  <2>4. Known(i)'
    <3> SUFFICES ASSUME pc'[i] # "killed", NEW p \in Pids, process'[p] = Worker(i)
                 PROVE  workers'[i] # <<>> /\ \E k \in Holding(i)' : workers'[i][k] = p
      BY DEF Known, Worker
    <3>1. /\ Holding(i) = {k \in Slots : k > index[i]}
          /\ Holding(i)' = {k \in Slots : k > index[i] + 1}
      BY <1>1, <1>3, <2>2 DEF Holding, Looping, Slots
    <3>2. process[p] = Worker(i) /\ p # q
      BY <2>2
    <3>3. PICK k \in Holding(i) : workers[i][k] = p
      BY <1>1, <3>2 DEF IInv, Known
    <3>4. k # index[i] + 1
      BY <3>2, <3>3
    <3>5. k \in Holding(i)'
      BY <1>1, <3>1, <3>4, NumWorkersAssumption DEF Slots
    <3> QED
      BY <1>1, <3>3, <3>5
  <2>5. ASSUME NEW j \in Instances, j # i PROVE Known(j)'
    <3>1. Keeps(j)
      BY <1>1, <1>3, <2>1, <2>5, SigtermKeeps
    <3> QED
      BY <3>1, KeepsKnown DEF IInv
  <2> QED
    BY <2>3, <2>4, <2>5 DEF IInv
<1> QED
  BY <1>4, <1>5

\* What becomes of the memory of a process that ends.
Same(j) == workers'[j] = workers[j] /\ index'[j] = index[j] /\ old_pid'[j] = old_pid[j]

LEMMA ForgetTypes ==
    ASSUME TypeOK, NEW i \in Instances, Forget(i)
    PROVE  /\ handled' \in [Instances -> BOOLEAN]
           /\ shutdown' \in [Instances -> BOOLEAN]
           /\ old_pid' \in [Instances -> Pids \cup {0}]
           /\ index' \in [Instances -> 0..NumWorkers]
           /\ workers' \in [Instances -> {<<>>} \cup [Slots -> Pids \cup {0}]]
           /\ \A j \in Instances : j # i => Same(j)
<1>1. 0 \in 0..NumWorkers
  BY NumWorkersAssumption
<1> QED
  BY <1>1 DEF Forget, Same, TypeOK

\* When the kill loop has been through every slot, no worker is left to know.
LEMMA ExitStep ==
    ASSUME IInv, NEW i \in Instances, Exit(i)
    PROVE  IInv'
<1>0. TypeOK
  BY DEF IInv
<1>1. /\ pc[i] = "kill" /\ index[i] = ToKill(i) /\ Goto(i, "exited")
      /\ process' = WithoutMaster(i)
  BY DEF Exit
<1>2. \A p \in Pids : process[p] # Worker(i)
  <2> SUFFICES ASSUME NEW p \in Pids, process[p] = Worker(i) PROVE FALSE
    OBVIOUS
  <2>1. workers[i] # <<>> /\ \E k \in Holding(i) : workers[i][k] = p
    BY <1>1 DEF IInv, Known
  <2>2. Holding(i) = {k \in Slots : k > NumWorkers}
    BY <1>1, <2>1 DEF Holding, Looping, ToKill
  <2> QED
    BY <2>1, <2>2, NumWorkersAssumption DEF Slots
<1>3. /\ pc' \in [Instances -> Locations]
      /\ \A j \in Instances : pc'[j] = IF j = i THEN "exited" ELSE pc[j]
  BY <1>0, <1>1, GotoTypes, AllLocations
<1>4. \A j \in Instances : \A p \in Pids :
          process'[p] = Worker(j) => process[p] = Worker(j)
  BY <1>0, <1>1, EndsCreateNoWorker
<1>5. TypeOK' /\ \A j \in Instances : j # i => Same(j)
  BY <1>0, <1>1, <1>3, EndsTypes, ForgetTypes DEF Exit, history, TypeOK
<1>6. Known(i)'
  BY <1>2, <1>4 DEF Known, Worker
<1>7. ASSUME NEW j \in Instances, j # i PROVE Known(j)'
  <2>1. Keeps(j)
    BY <1>3, <1>4, <1>5, <1>7 DEF Keeps, Holding, Same
  <2> QED
    BY <2>1, KeepsKnown DEF IInv
<1> QED
  BY <1>5, <1>6, <1>7 DEF IInv

\* Workers that end, signals from outside, crashes and other processes.
LEMMA OutsideStep ==
    ASSUME IInv,
           \/ \E i \in Instances : Crash(i)
           \/ \E p \in Pids : WorkerEnds(p) \/ Stop(p) \/ OtherStarts(p) \/ OtherEnds(p)
    PROVE  IInv'
<1>0. TypeOK
  BY DEF IInv
<1>1. ASSUME NEW i \in Instances, Crash(i) PROVE IInv'
  <2>1. Goto(i, "killed") /\ process' = WithoutMaster(i) /\ Forget(i)
    BY <1>1 DEF Crash
  <2>2. /\ pc' \in [Instances -> Locations]
        /\ \A j \in Instances : pc'[j] = IF j = i THEN "killed" ELSE pc[j]
    BY <1>0, <2>1, GotoTypes, AllLocations
  <2>3. TypeOK'
    BY <1>0, <1>1, <2>1, <2>2, EndsTypes, ForgetTypes DEF Crash, history, TypeOK
  <2>4. Known(i)'
    BY <2>2 DEF Known
  <2>5. ASSUME NEW j \in Instances, j # i PROVE Known(j)'
    <3>1. \A p \in Pids : process'[p] = Worker(j) => process[p] = Worker(j)
      BY <1>0, <2>1, EndsCreateNoWorker
    <3>2. Same(j)
      BY <1>0, <2>1, <2>5, ForgetTypes
    <3>3. Keeps(j)
      BY <2>2, <2>5, <3>1, <3>2 DEF Keeps, Holding, Same
    <3> QED
      BY <3>3, KeepsKnown DEF IInv
  <2> QED
    BY <2>3, <2>4, <2>5 DEF IInv
<1>2. ASSUME NEW q \in Pids, Stop(q) PROVE IInv'
  <2>1. /\ Sigterm(q)
        /\ UNCHANGED <<handled, old_pid, index, workers, pid_file, content, beside, taken>>
    BY <1>2 DEF Stop, history
  <2>2. TypeOK'
    BY <1>0, <2>1, SigtermEffect DEF TypeOK
  <2>3. ASSUME NEW j \in Instances PROVE Known(j)'
    BY <2>1, SigtermKeeps, KeepsKnown DEF IInv
  <2> QED
    BY <2>2, <2>3 DEF IInv
<1>3. ASSUME NEW q \in Pids, WorkerEnds(q) \/ OtherStarts(q) \/ OtherEnds(q) PROVE IInv'
  <2>1. /\ process' \in [Pids -> Process]
        /\ \A j \in Instances : \A p \in Pids :
              process'[p] = Worker(j) => process[p] = Worker(j)
        /\ pid_file' = pid_file
        /\ UNCHANGED <<pc, handled, shutdown, old_pid, index, workers, content,
                       beside, taken>>
    <3>1. CASE WorkerEnds(q)
      BY <3>1, <1>0, EndsTypes, EndsCreateNoWorker DEF WorkerEnds, AfterUnlink, history
    <3>2. CASE OtherStarts(q)
      BY <3>2, <1>0, ProcessTypes, WorkersAreWorkers DEF OtherStarts, history, TypeOK
    <3>3. CASE OtherEnds(q)
      BY <3>3, <1>0, ProcessTypes, WorkersAreWorkers DEF OtherEnds, history, TypeOK
    <3> QED
      BY <1>3, <3>1, <3>2, <3>3
  <2>2. TypeOK'
    BY <1>0, <2>1 DEF TypeOK
  <2>3. ASSUME NEW j \in Instances PROVE Known(j)'
    <3>1. Keeps(j)
      BY <2>1 DEF Keeps, Holding
    <3> QED
      BY <3>1, KeepsKnown DEF IInv
  <2> QED
    BY <2>2, <2>3 DEF IInv
<1> QED
  BY <1>1, <1>2, <1>3

LEMMA InvStep == IInv /\ [Next]_vars => IInv'
<1> SUFFICES ASSUME IInv, [Next]_vars PROVE IInv'
  OBVIOUS
<1>1. CASE UNCHANGED vars
  BY <1>1 DEF vars, IInv, TypeOK, Known, Holding, Worker
<1>2. ASSUME NEW i \in Instances, MasterStep(i) PROVE IInv'
  BY <1>2, SavingStep, ForkStep, LoopStep, KillStep, ExitStep DEF MasterStep
<1>3. CASE Environment
  BY <1>3, SavingStep, ForkFailsStep, OutsideStep DEF Environment
<1> QED
  BY <1>1, <1>2, <1>3 DEF Next

LEMMA InvAlways == Spec => []IInv
  BY InvInit, InvStep, PTL DEF Spec

-------------------------------------------------------------------------------
\* Type correctness of the processes of any number of instances: indices stay
\* within workers[], and every PID signalled from it is a PID.
THEOREM TypeCorrect == Spec => []TypeOK
<1>1. IInv => TypeOK
  BY DEF IInv
<1> QED
  BY <1>1, InvAlways, PTL

\* wrd_server_close leaves no worker of its master behind, for any number of
\* workers and of instances: whether the start failed before, during or after
\* the forks, however many workers ended on their own, and whoever else now
\* has a PID that is in workers[].
THEOREM NoWorkerLeftCorrect == Spec => []NoWorkerLeft
<1>1. IInv => NoWorkerLeft
  <2> SUFFICES ASSUME IInv, NEW i \in Instances, pc[i] = "exited", NEW p \in All(Worker(i))
               PROVE  FALSE
    BY DEF NoWorkerLeft
  <2>1. p \in Pids /\ process[p] = Worker(i)
    BY DEF All
  <2>2. \E k \in Holding(i) : workers[i][k] = p
    BY <2>1 DEF IInv, Known
  <2>3. Holding(i) = {}
    BY DEF Holding, Looping
  <2> QED
    BY <2>2, <2>3
<1> QED
  BY <1>1, InvAlways, PTL

-------------------------------------------------------------------------------
(* The PID file.  OneInstance and PidFileNamesMaster are not inductive:    *)
(* they rest on what an instance that finds the file does about it.        *)

\* Its PID is in the file.
Written == Claimed \ {"write"}

\* Before it creates one.
Early == {"off", "open", "read", "check", "unlink", "retry"}

\* A master that runs has one PID, one that does not has none.
Masters ==
    \A i \in Instances :
        IF pc[i] \in Running THEN \E p \in Pids : All(Master(i)) = {p}
                             ELSE All(Master(i)) = {}

\* The path leads to the file of an instance that has claimed it until it is
\* taken, and the file names the instance ...
Named(i) ==
    /\ taken[i] = "no" => pid_file = i
    /\ pc[i] # "write" => All(Master(i)) = {content[i]}

\* ... so that every start that began later is refused by it.
Respected(i) ==
    taken[i] = "no" /\ pc[i] # "write" =>
        \A j \in Instances \ {i} : j \notin beside[i] =>
            pc[j] # "unlink" /\ (pc[j] = "check" => old_pid[j] = content[i])

\* What was taken was there, does not come back, and was not taken by such a
\* start.
Removed(i) ==
    /\ taken[i] # "start"
    /\ taken[i] # "no" => pid_file # i /\ pc[i] \notin Early

FileInv ==
    /\ Masters
    /\ \A i \in Instances : Removed(i)
    /\ \A i \in Instances : pc[i] \in Claimed => Named(i) /\ Respected(i)

-------------------------------------------------------------------------------
LEMMA MastersAreMasters ==
    \A i, j : /\ Master(i) # Free /\ Master(i) # Other
              /\ Master(i) # Worker(j) /\ Master(i) # Zombie(j)
              /\ (Master(i) = Master(j) => i = j)
<1> SUFFICES ASSUME NEW i, NEW j
    PROVE  /\ Master(i) # Free /\ Master(i) # Other
           /\ Master(i) # Worker(j) /\ Master(i) # Zombie(j)
           /\ (Master(i) = Master(j) => i = j)
  OBVIOUS
<1>1. Master(i).kind = "master" /\ Master(i).of = i /\ Master(j).of = j
  BY DEF Master
<1>2. /\ Free.kind = "free" /\ Other.kind = "other"
      /\ Worker(j).kind = "worker" /\ Zombie(j).kind = "zombie"
  BY DEF Free, Other, Worker, Zombie
<1> QED
  BY <1>1, <1>2

\* Who the masters are does not change ...
SameMasters == \A j \in Instances : All(Master(j))' = All(Master(j))
\* ... but for the one that ends.
MasterGone(i) ==
    \A j \in Instances : All(Master(j))' = IF j = i THEN {} ELSE All(Master(j))

LEMMA MasterEnds ==
    ASSUME TypeOK, NEW i \in Instances, process' = WithoutMaster(i)
    PROVE  MasterGone(i)
<1> SUFFICES ASSUME NEW j \in Instances, NEW p \in Pids
             PROVE  process'[p] = Master(j) <=> j # i /\ process[p] = Master(j)
  BY DEF MasterGone, All, Master
<1>1. process'[p] = IF process[p] \in {Master(i), Zombie(i)} THEN Free ELSE process[p]
  BY DEF WithoutMaster
<1> QED
  BY <1>1, MastersAreMasters

\* A step that gives one PID to something else that is no master, or takes it
\* from it.
LEMMA OneOther ==
    ASSUME TypeOK, NEW p \in Pids, NEW x, process' = [process EXCEPT ![p] = x],
           \A j \in Instances : process[p] # Master(j) /\ x # Master(j)
    PROVE  SameMasters
  BY DEF SameMasters, All, Master, TypeOK

LEMMA WorkerIsOther ==
    ASSUME TypeOK, NEW p \in Pids, process[p].kind = "worker", process' = WithoutWorker(p)
    PROVE  SameMasters
<1>1. PICK x : /\ process' = [process EXCEPT ![p] = x]
               /\ x \in {Zombie(process[p].of), Free}
  BY DEF WithoutWorker
<1>2. ASSUME NEW j \in Instances PROVE process[p] # Master(j) /\ x # Master(j)
  <2>1. Master(j).kind = "master"
    BY DEF Master
  <2> QED
    BY <1>1, <2>1, MastersAreMasters
<1> QED
  BY <1>1, <1>2, OneOther

\* A step that neither claims the file nor looks at it.
Onward(j) ==
    /\ \/ pc'[j] = pc[j]
       \/ pc[j] \in Running /\ pc'[j] \in Closing
       \/ pc[j] \in Written /\ pc'[j] \in Written
    /\ old_pid'[j] = old_pid[j]

\* A step that ends master i, or none.
Unclaimed ==
    /\ UNCHANGED <<pid_file, content, beside, taken>>
    /\ \/ SameMasters /\ \A j \in Instances : Onward(j)
       \/ \E i \in Instances :
             /\ MasterGone(i) /\ pc'[i] \in {"exited", "killed"}
             /\ \A j \in Instances : j # i => Onward(j)

LEMMA UnclaimedKeeps ==
    ASSUME TypeOK, FileInv, Unclaimed
    PROVE  FileInv'
<1> USE DEF Running, Starting, Saving, Looping, Closing, Claimed, Written, Early
<1>1. Masters'
  <2>1. CASE SameMasters /\ \A j \in Instances : Onward(j)
    BY <2>1 DEF FileInv, Masters, SameMasters, Onward
  <2>2. ASSUME NEW i \in Instances, MasterGone(i), pc'[i] \in {"exited", "killed"},
               \A j \in Instances : j # i => Onward(j)
        PROVE  Masters'
    BY <2>2 DEF FileInv, Masters, MasterGone, Onward
  <2> QED
    BY <2>1, <2>2 DEF Unclaimed
<1>2. \A i \in Instances : Onward(i) \/ pc'[i] \in {"exited", "killed"}
  BY DEF Unclaimed
<1>3. \A i \in Instances : Removed(i)'
  BY <1>2 DEF FileInv, Removed, Unclaimed, Onward
<1>4. ASSUME NEW i \in Instances, pc'[i] \in Claimed
      PROVE  Named(i)' /\ Respected(i)'
  <2>1. Onward(i) /\ All(Master(i))' = All(Master(i))
    <3>1. CASE SameMasters /\ \A j \in Instances : Onward(j)
      BY <3>1 DEF SameMasters
    <3>2. ASSUME NEW k \in Instances, MasterGone(k), pc'[k] \in {"exited", "killed"},
                 \A j \in Instances : j # k => Onward(j)
          PROVE  Onward(i) /\ All(Master(i))' = All(Master(i))
      BY <1>4, <3>2 DEF MasterGone
    <3> QED
      BY <3>1, <3>2 DEF Unclaimed
  <2>2. pc[i] \in Claimed /\ (pc[i] = "write" <=> pc'[i] = "write")
    BY <1>4, <2>1 DEF Onward
  <2>3. Named(i) /\ Respected(i)
    BY <2>2 DEF FileInv
  <2>4. Named(i)'
    BY <2>1, <2>2, <2>3 DEF Named, Unclaimed
  <2>5. Respected(i)'
    BY <1>2, <2>2, <2>3 DEF Respected, Unclaimed, Onward
  <2> QED
    BY <2>4, <2>5
<1> QED
  BY <1>1, <1>3, <1>4 DEF FileInv

LEMMA FileInit == Init => FileInv
<1> SUFFICES ASSUME Init PROVE FileInv
  OBVIOUS
<1>1. \A i \in Instances : pc[i] = "off" /\ taken[i] = "no" /\ All(Master(i)) = {}
  BY MastersAreMasters DEF Init, All
<1> QED
  BY <1>1 DEF FileInv, Masters, Removed, Running, Starting, Saving, Looping, Closing, Claimed

LEMMA LaunchFile ==
    ASSUME TypeOK, FileInv, NEW i \in Instances, Launch(i)
    PROVE  FileInv'
<1> USE DEF Running, Starting, Saving, Looping, Closing, Claimed, Written, Early
<1>1. /\ pc[i] = "off" /\ \A j \in Instances : pc'[j] = IF j = i THEN "open" ELSE pc[j]
      /\ UNCHANGED <<old_pid, pid_file, content, beside, taken>>
  BY DEF Launch, Goto, history, TypeOK
<1>2. PICK q \in Pids : process[q] = Free /\ process' = [process EXCEPT ![q] = Master(i)]
  BY DEF Launch, All
<1>3. \A j \in Instances : All(Master(j))' = IF j = i THEN {q} ELSE All(Master(j))
  <2>1. ASSUME NEW j \in Instances, NEW p \in Pids
        PROVE  process'[p] = Master(j) <=>
                   IF j = i THEN p = q ELSE process[p] = Master(j)
    <3>1. process'[p] = IF p = q THEN Master(i) ELSE process[p]
      BY <1>2 DEF TypeOK
    <3>2. process[p] # Master(i)
      BY <1>1 DEF FileInv, Masters, All
    <3> QED
      BY <1>2, <3>1, <3>2, MastersAreMasters
  <2> QED
    BY <2>1 DEF All, Master
<1>4. Masters'
  BY <1>1, <1>3 DEF FileInv, Masters
<1>5. \A j \in Instances : Removed(j)'
  BY <1>1 DEF FileInv, Removed
<1>6. ASSUME NEW j \in Instances, pc'[j] \in Claimed
      PROVE  Named(j)' /\ Respected(j)'
  <2>1. pc[j] \in Claimed /\ j # i
    BY <1>1, <1>6
  <2>2. Named(j) /\ Respected(j)
    BY <2>1 DEF FileInv
  <2> QED
    BY <1>1, <1>3, <2>1, <2>2 DEF Named, Respected
<1> QED
  BY <1>4, <1>5, <1>6 DEF FileInv

\* A file is only created when there is none, so that every other instance that
\* has claimed one has lost it.
LEMMA CreateFile ==
    ASSUME TypeOK, FileInv, NEW i \in Instances, CreatePidFile(i) \/ CreateAgain(i)
    PROVE  FileInv'
<1> USE DEF Running, Starting, Saving, Looping, Closing, Claimed, Written, Early
<1>1. PICK location \in {"write", "read", "close"} :
          /\ \A j \in Instances : pc'[j] = IF j = i THEN location ELSE pc[j]
          /\ IF pid_file = NoFile
             THEN /\ location = "write" /\ pid_file' = i
                  /\ content' = [content EXCEPT ![i] = 0]
             ELSE location # "write" /\ UNCHANGED <<pid_file, content>>
          /\ pc[i] \in {"open", "retry"}
          /\ UNCHANGED <<process, old_pid, beside, taken>>
  BY DEF CreatePidFile, CreateAgain, Create, Goto, history, TypeOK
<1>2. Masters'
  BY <1>1 DEF FileInv, Masters, All, Master
<1>3. \A j \in Instances : j # i => content'[j] = content[j]
  BY <1>1 DEF TypeOK, Files
<1>4. \A j \in Instances : j # NoFile
  BY FilesAssumption
<1>5. ASSUME NEW j \in Instances PROVE Removed(j)'
  <2>1. Removed(j) /\ Removed(i)
    BY DEF FileInv
  <2>2. taken[i] = "no"
    BY <1>1, <2>1 DEF Removed
  <2> QED
    BY <1>1, <2>1, <2>2 DEF Removed
<1>6. ASSUME NEW j \in Instances, pc'[j] \in Claimed
      PROVE  Named(j)' /\ Respected(j)'
  <2>1. CASE j = i
    <3>1. pc'[i] = "write" /\ pid_file' = i
      BY <1>1, <1>6, <2>1
    <3> QED
      BY <2>1, <3>1 DEF Named, Respected
  <2>2. CASE j # i
    <3>1. pc'[j] = pc[j] /\ Named(j) /\ Respected(j)
      BY <1>1, <1>6, <2>2 DEF FileInv
    <3>2. taken[j] = "no" => pid_file' = pid_file
      BY <1>1, <1>4, <3>1 DEF Named
    <3>3. All(Master(j))' = All(Master(j))
      BY <1>1 DEF All, Master
    <3>4. Named(j)'
      BY <1>1, <1>3, <2>2, <3>1, <3>2, <3>3 DEF Named
    <3>5. Respected(j)'
      BY <1>1, <1>3, <2>2, <3>1 DEF Respected
    <3> QED
      BY <3>4, <3>5
  <2> QED
    BY <2>1, <2>2
<1> QED
  BY <1>2, <1>5, <1>6 DEF FileInv

LEMMA ReadFile ==
    ASSUME TypeOK, FileInv, NEW i \in Instances, ReadOldPid(i)
    PROVE  FileInv'
<1> USE DEF Running, Starting, Saving, Looping, Closing, Claimed, Written, Early
<1>1. /\ pc[i] = "read" /\ \A j \in Instances : pc'[j] = IF j = i THEN "check" ELSE pc[j]
      /\ \A j \in Instances : old_pid'[j] =
            IF j = i THEN IF pid_file = NoFile THEN 0 ELSE content[pid_file] ELSE old_pid[j]
      /\ UNCHANGED <<process, pid_file, content, beside, taken>>
  BY DEF ReadOldPid, Goto, history, TypeOK
<1>2. Masters' /\ \A j \in Instances : Removed(j)'
  BY <1>1 DEF FileInv, Masters, Removed, All, Master
<1>3. ASSUME NEW j \in Instances, pc'[j] \in Claimed
      PROVE  Named(j)' /\ Respected(j)'
  <2>1. pc[j] \in Claimed /\ j # i /\ pc'[j] = pc[j]
    BY <1>1, <1>3
  <2>2. Named(j) /\ Respected(j)
    BY <2>1 DEF FileInv
  <2>3. All(Master(j))' = All(Master(j))
    BY <1>1 DEF All, Master
  <2>4. Named(j)'
    BY <1>1, <2>1, <2>2, <2>3 DEF Named
  <2>5. taken[j] = "no" => pid_file = j /\ j # NoFile
    BY <2>2, FilesAssumption DEF Named
  <2>6. Respected(j)'
    BY <1>1, <2>1, <2>2, <2>5 DEF Respected
  <2> QED
    BY <2>4, <2>6
<1> QED
  BY <1>2, <1>3 DEF FileInv

\* A running master is seen to run.
LEMMA CheckFile ==
    ASSUME TypeOK, FileInv, NEW i \in Instances, CheckOldPid(i)
    PROVE  FileInv'
<1> USE DEF Running, Starting, Saving, Looping, Closing, Claimed, Written, Early
<1>1. /\ pc[i] = "check"
      /\ \A j \in Instances :
            pc'[j] = IF j = i THEN IF StillRunning(old_pid[i]) THEN "close" ELSE "unlink"
                     ELSE pc[j]
      /\ \A j \in Instances : j # i => old_pid'[j] = old_pid[j]
      /\ UNCHANGED <<process, pid_file, content, beside, taken>>
  BY DEF CheckOldPid, Goto, history, TypeOK
<1>2. Masters' /\ \A j \in Instances : Removed(j)'
  BY <1>1 DEF FileInv, Masters, Removed, All, Master
<1>3. ASSUME NEW j \in Instances, pc'[j] \in Claimed
      PROVE  Named(j)' /\ Respected(j)'
  <2>1. pc[j] \in Claimed /\ j # i /\ pc'[j] = pc[j]
    BY <1>1, <1>3
  <2>2. Named(j) /\ Respected(j)
    BY <2>1 DEF FileInv
  <2>3. All(Master(j))' = All(Master(j))
    BY <1>1 DEF All, Master
  <2>4. Named(j)'
    BY <1>1, <2>1, <2>2, <2>3 DEF Named
  <2>5. ASSUME taken[j] = "no", pc[j] # "write", i \notin beside[j]
        PROVE  StillRunning(old_pid[i])
    <3>1. All(Master(j)) = {old_pid[i]}
      BY <1>1, <2>1, <2>2, <2>5 DEF Named, Respected
    <3>2. old_pid[i] \in Pids /\ process[old_pid[i]] = Master(j)
      BY <3>1 DEF All
    <3>3. Master(j).kind = "master"
      BY DEF Master
    <3> QED
      BY <3>2, <3>3, PidsAssumption DEF StillRunning
  <2>6. Respected(j)'
    BY <1>1, <2>1, <2>2, <2>5 DEF Respected
  <2> QED
    BY <2>4, <2>6
<1> QED
  BY <1>2, <1>3 DEF FileInv

\* The file that is removed is that of nobody, or taken from its instance.
LEMMA UnlinkFile ==
    ASSUME TypeOK, FileInv, NEW i \in Instances, UnlinkStale(i) \/ CloseUnlink(i)
    PROVE  FileInv'
<1> USE DEF Running, Starting, Saving, Looping, Closing, Claimed, Written, Early
<1>1. PICK how \in {"close", "race", "start"} :
          /\ pid_file' = NoFile /\ Taken(how)
          /\ how = "start" => /\ pc[i] = "unlink" /\ pc[pid_file] # "write"
                              /\ i \notin beside[pid_file]
          /\ pc[i] \in {"unlink", "close"}
          /\ \A j \in Instances : pc'[j] = IF j # i THEN pc[j]
                                    ELSE IF pc[i] = "unlink" THEN "retry" ELSE "kill"
          /\ UNCHANGED <<process, content, old_pid, beside>>
  <2>1. CASE UnlinkStale(i)
    BY <2>1 DEF UnlinkStale, StartTakes, Goto, TypeOK
  <2>2. CASE CloseUnlink(i)
    BY <2>2 DEF CloseUnlink, AfterUnlink, Goto, TypeOK
  <2> QED
    BY <2>1, <2>2
<1>2. Masters'
  BY <1>1 DEF FileInv, Masters, All, Master
<1>3. \A j \in Instances : j # NoFile
  BY FilesAssumption
<1>4. \A j \in Instances :
          taken'[j] = IF pid_file = j /\ pc[j] \in Claimed THEN how ELSE taken[j]
  BY <1>1 DEF Taken, TypeOK
<1>5. ASSUME NEW j \in Instances PROVE Removed(j)'
  <2>1. Removed(j)
    BY DEF FileInv
  <2>2. CASE pid_file = j /\ pc[j] \in Claimed
    <3>1. Named(j) /\ Respected(j) /\ taken[j] = "no" /\ j # i
      BY <1>1, <2>1, <2>2 DEF FileInv, Removed
    <3>2. how # "start"
      BY <1>1, <2>2, <3>1 DEF Respected
    <3> QED
      BY <1>1, <1>3, <1>4, <2>2, <3>1, <3>2 DEF Removed
  <2>3. CASE ~(pid_file = j /\ pc[j] \in Claimed)
    <3>1. taken'[j] = taken[j] /\ (pc[j] \notin Early => pc'[j] \notin Early)
      BY <1>1, <1>4, <2>3
    <3> QED
      BY <1>1, <1>3, <2>1, <3>1 DEF Removed
  <2> QED
    BY <2>2, <2>3
<1>6. ASSUME NEW j \in Instances, pc'[j] \in Claimed
      PROVE  Named(j)' /\ Respected(j)'
  <2>1. pc[j] \in Claimed /\ j # i /\ pc'[j] = pc[j]
    BY <1>1, <1>6
  <2>2. Named(j) /\ Respected(j) /\ taken'[j] # "no"
    BY <1>1, <1>4, <2>1 DEF FileInv, Named
  <2>3. All(Master(j))' = All(Master(j))
    BY <1>1 DEF All, Master
  <2> QED
    BY <1>1, <2>1, <2>2, <2>3 DEF Named, Respected
<1> QED
  BY <1>2, <1>5, <1>6 DEF FileInv

\* Whoever has not looked at the file yet when the PID is written finds it there.
LEMMA WriteFile ==
    ASSUME TypeOK, FileInv, NEW i \in Instances, WritePid(i)
    PROVE  FileInv'
<1> USE DEF Running, Starting, Saving, Looping, Closing, Claimed, Written, Early
<1>1. /\ pc[i] = "write" /\ \A j \in Instances : pc'[j] = IF j = i THEN "app" ELSE pc[j]
      /\ beside' = [beside EXCEPT ![i] = {j \in Instances \ {i} : pc[j] \in Saving}]
      /\ UNCHANGED <<process, pid_file, old_pid, taken>>
  BY DEF WritePid, Goto, TypeOK
<1>2. PICK p \in All(Master(i)) : content' = [content EXCEPT ![i] = p]
  BY DEF WritePid
<1>3. Masters' /\ \A j \in Instances : Removed(j)'
  BY <1>1 DEF FileInv, Masters, Removed, All, Master
<1>4. ASSUME NEW j \in Instances, pc'[j] \in Claimed
      PROVE  Named(j)' /\ Respected(j)'
  <2>1. pc[j] \in Claimed
    BY <1>1, <1>4
  <2>2. Named(j) /\ Respected(j)
    BY <2>1 DEF FileInv
  <2>3. CASE j = i
    <3>1. All(Master(i))' = All(Master(i)) /\ All(Master(i)) = {p}
      BY <1>1, <1>2 DEF FileInv, Masters, All, Master
    <3>2. content'[i] = p /\ beside'[i] = {k \in Instances \ {i} : pc[k] \in Saving}
      BY <1>1, <1>2 DEF TypeOK, Files
    <3>3. Named(i)'
      BY <1>1, <2>2, <2>3, <3>1, <3>2 DEF Named
    <3>4. Respected(i)'
      BY <1>1, <3>2 DEF Respected
    <3> QED
      BY <2>3, <3>3, <3>4
  <2>4. CASE j # i
    <3>1. pc'[j] = pc[j] /\ content'[j] = content[j] /\ beside'[j] = beside[j]
      BY <1>1, <1>2, <2>4 DEF TypeOK, Files
    <3>2. All(Master(j))' = All(Master(j))
      BY <1>1 DEF All, Master
    <3>3. Named(j)'
      BY <1>1, <2>2, <3>1, <3>2 DEF Named
    <3>4. Respected(j)'
      BY <1>1, <2>2, <3>1 DEF Respected
    <3> QED
      BY <3>3, <3>4
  <2> QED
    BY <2>3, <2>4
<1> QED
  BY <1>3, <1>4 DEF FileInv

\* A SIGTERM turns nobody into a master, and kills at most one.
LEMMA SigtermUnclaimed ==
    ASSUME TypeOK, FileInv, NEW p \in Pids, Sigterm(p),
           UNCHANGED <<pid_file, content, old_pid, beside, taken>>
    PROVE  FileInv'
<1> USE DEF Running, Starting, Saving, Looping, Closing, Claimed, Written, Early
<1> DEFINE i == process[p].of
<1>1. CASE process[p].kind = "master"
  <2>1. /\ pc' = [pc EXCEPT ![i] = IF ~handled[i] THEN "killed"
                                   ELSE IF @ = "waiting" THEN "test" ELSE @]
        /\ process' = IF handled[i] THEN process ELSE WithoutMaster(i)
    BY <1>1 DEF Sigterm
  <2>2. \A j \in Instances : j # i => pc'[j] = pc[j]
    BY <2>1 DEF TypeOK
  <2>3. CASE i \in Instances /\ ~handled[i]
    <3>1. MasterGone(i) /\ pc'[i] = "killed"
      BY <2>1, <2>3, MasterEnds DEF TypeOK
    <3>2. Unclaimed
      BY <2>2, <2>3, <3>1 DEF Unclaimed, Onward
    <3> QED
      BY <3>2, UnclaimedKeeps
  <2>4. CASE i \in Instances /\ handled[i]
    <3>1. pc'[i] = pc[i] \/ (pc[i] = "waiting" /\ pc'[i] = "test")
      BY <2>1, <2>4 DEF TypeOK
    <3>2. Unclaimed
      BY <2>1, <2>2, <2>4, <3>1 DEF Unclaimed, Onward, SameMasters, All, Master
    <3> QED
      BY <3>2, UnclaimedKeeps
  <2>5. CASE i \notin Instances
    <3>1. pc' = pc
      BY <2>1, <2>5 DEF TypeOK
    <3>2. SameMasters
      <4> SUFFICES ASSUME NEW j \in Instances, NEW q \in Pids
                   PROVE  process'[q] = Master(j) <=> process[q] = Master(j)
        BY DEF SameMasters, All, Master
      <4>1. CASE handled[i]
        BY <2>1, <4>1
      <4>2. CASE ~handled[i]
        <5>1. process'[q] = IF process[q] \in {Master(i), Zombie(i)} THEN Free ELSE process[q]
          BY <2>1, <4>2 DEF WithoutMaster
        <5> QED
          BY <2>5, <5>1, MastersAreMasters
      <4> QED
        BY <4>1, <4>2
    <3> QED
      BY <3>1, <3>2, UnclaimedKeeps DEF Unclaimed, Onward
  <2> QED
    BY <2>3, <2>4, <2>5
<1>2. CASE process[p].kind = "worker"
  <2>1. process' = WithoutWorker(p) /\ pc' = pc
    BY <1>2 DEF Sigterm
  <2>2. SameMasters
    BY <1>2, <2>1, WorkerIsOther
  <2> QED
    BY <2>1, <2>2, UnclaimedKeeps DEF Unclaimed, Onward
<1>3. CASE process[p].kind = "other"
  <2>1. process' = [process EXCEPT ![p] = Free] /\ pc' = pc
    BY <1>3 DEF Sigterm
  <2>2. \A j \in Instances : process[p] # Master(j) /\ Free # Master(j)
    <3>1. \A j \in Instances : Master(j).kind = "master"
      BY DEF Master
    <3> QED
      BY <1>3, <3>1, MastersAreMasters
  <2>3. SameMasters
    BY <2>1, <2>2, OneOther
  <2> QED
    BY <2>1, <2>3, UnclaimedKeeps DEF Unclaimed, Onward
<1>4. CASE process[p].kind \notin {"master", "worker", "other"}
  <2>1. process' = process /\ pc' = pc
    BY <1>4 DEF Sigterm
  <2>2. SameMasters
    BY <2>1 DEF SameMasters, All, Master
  <2> QED
    BY <2>1, <2>2, UnclaimedKeeps DEF Unclaimed, Onward
<1> QED
  BY <1>1, <1>2, <1>3, <1>4

\* The rest of the start-up and the wait loop.
LEMMA MoveFile ==
    ASSUME TypeOK, FileInv, NEW i \in Instances,
           \/ InitApp(i) \/ StartFails(i) \/ Fork(i) \/ ForkFails(i) \/ AllForked(i)
           \/ InstallHandlers(i) \/ TestShutdown(i) \/ EnterWait(i) \/ Reap(i)
           \/ NoChildren(i)
    PROVE  FileInv'
<1> USE DEF Running, Starting, Saving, Looping, Closing, Claimed, Written, Early
<1>1. UNCHANGED <<pid_file, content, old_pid, beside, taken>>
  BY DEF history, InitApp, StartFails, Fork, ForkFails, AllForked, InstallHandlers,
         TestShutdown, EnterWait, Reap, NoChildren
<1>2. SameMasters
  <2>1. CASE Fork(i)
    <3>1. PICK q \in Pids : process[q] = Free /\ process' = [process EXCEPT ![q] = Worker(i)]
      BY <2>1 DEF Fork, All
    <3>2. \A j \in Instances : Free # Master(j) /\ Worker(i) # Master(j)
      BY MastersAreMasters
    <3> QED
      BY <3>1, <3>2, OneOther
  <2>2. CASE Reap(i)
    <3>1. PICK q \in Pids : process[q] = Zombie(i) /\ process' = [process EXCEPT ![q] = Free]
      BY <2>2 DEF Reap, All
    <3>2. \A j \in Instances : process[q] # Master(j) /\ Free # Master(j)
      BY <3>1, MastersAreMasters
    <3> QED
      BY <3>1, <3>2, OneOther
  <2>3. CASE process' = process
    BY <2>3 DEF SameMasters, All, Master
  <2> QED
    BY <2>1, <2>2, <2>3 DEF InitApp, StartFails, ForkFails, AllForked,
       InstallHandlers, TestShutdown, EnterWait, NoChildren
<1>3. PICK location :
          /\ \A j \in Instances : pc'[j] = IF j = i THEN location ELSE pc[j]
          /\ \/ location = pc[i]
             \/ pc[i] \in Running \ Closing /\ location = "close"
             \/ pc[i] = "app" /\ location = "fork"
             \/ pc[i] = "fork" /\ location = "sigaction"
             \/ pc[i] \in Written /\ location \in Looping
  BY DEF InitApp, StartFails, Fork, ForkFails, AllForked, InstallHandlers,
         TestShutdown, EnterWait, Reap, NoChildren, Goto, TypeOK
<1>4. \A j \in Instances : Onward(j)
  BY <1>1, <1>3 DEF Onward
<1> QED
  BY <1>1, <1>2, <1>4, UnclaimedKeeps DEF Unclaimed

\* The ends of processes, and other ones.
LEMMA EndFile ==
    ASSUME TypeOK, FileInv
    PROVE  /\ \A i \in Instances : KillWorker(i) \/ Exit(i) \/ Crash(i) => FileInv'
           /\ \A p \in Pids : WorkerEnds(p) \/ Stop(p) \/ OtherStarts(p) \/ OtherEnds(p)
                                  => FileInv'
<1> USE DEF Running, Starting, Saving, Looping, Closing, Claimed, Written, Early
<1>1. ASSUME NEW i \in Instances, KillWorker(i) PROVE FileInv'
  <2>1. UNCHANGED <<pid_file, content, old_pid, beside, taken>>
    BY <1>1 DEF KillWorker, history
  <2>2. CASE \E p \in Pids : Sigterm(p)
    BY <2>1, <2>2, SigtermUnclaimed
  <2>3. CASE UNCHANGED <<pc, process>>
    BY <2>1, <2>3, UnclaimedKeeps DEF Unclaimed, Onward, SameMasters, All, Master
  <2>4. index[i] + 1 \in Slots /\ workers[i] \in [Slots -> Pids \cup {0}]
    BY <1>1, NumWorkersAssumption DEF KillWorker, ToKill, TypeOK, Slots
  <2>5. workers[i][index[i] + 1] \in Pids \cup {0}
    BY <2>4
  <2> QED
    BY <1>1, <2>2, <2>3, <2>5 DEF KillWorker
<1>2. ASSUME NEW i \in Instances, Exit(i) \/ Crash(i) PROVE FileInv'
  <2>1. /\ process' = WithoutMaster(i)
        /\ \E end \in {"exited", "killed"} : pc' = [pc EXCEPT ![i] = end]
        /\ Forget(i)
        /\ UNCHANGED <<pid_file, content, beside, taken>>
    BY <1>2 DEF Exit, Crash, Goto, history
  <2>2. MasterGone(i) /\ pc'[i] \in {"exited", "killed"}
        /\ \A j \in Instances : j # i => pc'[j] = pc[j]
    BY <2>1, MasterEnds DEF TypeOK
  <2>3. \A j \in Instances : j # i => Same(j)
    BY <2>1, ForgetTypes
  <2> QED
    BY <2>1, <2>2, <2>3, UnclaimedKeeps DEF Unclaimed, Onward, Same
<1>3. ASSUME NEW p \in Pids, Stop(p) PROVE FileInv'
  BY <1>3, SigtermUnclaimed DEF Stop, history
<1>4. ASSUME NEW p \in Pids, WorkerEnds(p) \/ OtherStarts(p) \/ OtherEnds(p) PROVE FileInv'
  <2>1. UNCHANGED <<pc, pid_file, content, old_pid, beside, taken>>
    BY <1>4 DEF history, WorkerEnds, AfterUnlink, OtherStarts, OtherEnds
  <2>2. SameMasters
    <3>1. CASE WorkerEnds(p)
      BY <3>1, WorkerIsOther DEF WorkerEnds
    <3>2. CASE OtherStarts(p) \/ OtherEnds(p)
      BY <3>2, OneOther, MastersAreMasters DEF OtherStarts, OtherEnds
    <3> QED
      BY <1>4, <3>1, <3>2
  <2> QED
    BY <2>1, <2>2, UnclaimedKeeps DEF Unclaimed, Onward
<1> QED
  BY <1>1, <1>2, <1>3, <1>4

LEMMA FileStep == IInv /\ FileInv /\ [Next]_vars => FileInv'
<1> SUFFICES ASSUME IInv, FileInv, [Next]_vars PROVE FileInv'
  OBVIOUS
<1>0. TypeOK
  BY DEF IInv
<1>1. CASE UNCHANGED vars
  BY <1>0, <1>1, UnclaimedKeeps
     DEF vars, Unclaimed, Onward, SameMasters, All, Master
<1>2. CASE Environment
  BY <1>0, <1>2, LaunchFile, MoveFile, EndFile DEF Environment
<1>3. ASSUME NEW i \in Instances, MasterStep(i) PROVE FileInv'
  BY <1>0, <1>3, CreateFile, ReadFile, CheckFile, UnlinkFile, WriteFile, MoveFile, EndFile
     DEF MasterStep
<1> QED
  BY <1>1, <1>2, <1>3 DEF Next

LEMMA FileAlways == Spec => [](IInv /\ FileInv)
<1>1. Init => IInv /\ FileInv
  BY InvInit, FileInit
<1>2. IInv /\ FileInv /\ [Next]_vars => (IInv /\ FileInv)'
  BY InvStep, FileStep
<1> QED
  BY <1>1, <1>2, PTL DEF Spec

\* The O_EXCL creation, the check of the process that the file names and the
\* retry (wrd_server_save_pid) keep every other launch out, for any number of
\* instances whose starts overlap in any way, that fail, crash or are killed:
\* two run only if the file of one of them was removed under it, by the close of
\* another or by a start that looked at it before the PID was in it.
THEOREM OneInstanceCorrect == Spec => []OneInstance
<1>1. IInv /\ FileInv => OneInstance
  <2> SUFFICES ASSUME IInv, FileInv, NEW i \in Instances, NEW j \in Instances, i # j,
                      pc[i] \in Looping, pc[j] \in Looping
               PROVE  \E x \in {i, j} : taken[x] \in {"close", "race"}
    BY DEF OneInstance
  <2>1. pc[i] \in Claimed /\ pc[j] \in Claimed
    BY DEF Claimed
  <2>2. taken[i] # "no" \/ taken[j] # "no"
    BY <2>1 DEF FileInv, Named
  <2>3. \A x \in Instances : taken[x] \in {"no", "close", "race"}
    BY DEF IInv, TypeOK, FileInv, Removed
  <2> QED
    BY <2>2, <2>3
<1> QED
  BY <1>1, FileAlways, PTL

\* Each of several instances is named by the PID file, from the start-up to the
\* close, until another one removes the file in one of the two ways.
NamedUntilTaken ==
    \A i \in Instances : pc[i] \in {"app", "fork", "sigaction"} \cup Looping =>
        \/ pid_file = i /\ All(Master(i)) = {content[pid_file]}
        \/ taken[i] \in {"close", "race"}

\* The file that save_pid creates and writes names its master until then, for
\* any number of instances, whose starts may overlap.
THEOREM PidFileUntilTaken == Spec => []NamedUntilTaken
<1>1. IInv /\ FileInv => NamedUntilTaken
  <2> SUFFICES ASSUME IInv, FileInv, NEW i \in Instances,
                      pc[i] \in {"app", "fork", "sigaction"} \cup Looping
               PROVE  \/ pid_file = i /\ All(Master(i)) = {content[pid_file]}
                      \/ taken[i] \in {"close", "race"}
    BY DEF NamedUntilTaken
  <2>1. Named(i) /\ Removed(i) /\ pc[i] # "write"
    BY DEF FileInv, Claimed, Looping
  <2>2. taken[i] \in {"no", "close", "race", "start"}
    BY DEF IInv, TypeOK
  <2> QED
    BY <2>1, <2>2 DEF Named, Removed
<1> QED
  BY <1>1, FileAlways, PTL

Untaken == \A i \in Instances : taken[i] = "no"

\* An instance that is alone on the machine is named by the PID file from the
\* start-up to the close, whatever its workers and other processes do.
THEOREM PidFileCorrect ==
    ASSUME \A i, j \in Instances : i = j PROVE Spec => []PidFileNamesMaster
<1>1. Init => Untaken
  BY DEF Init, Untaken
<1>2. IInv /\ Untaken /\ [Next]_vars => Untaken'
  <2> SUFFICES ASSUME IInv, Untaken, [Next]_vars PROVE Untaken'
    OBVIOUS
  <2>1. ASSUME NEW i \in Instances, UnlinkStale(i) \/ CloseUnlink(i) PROVE taken' = taken
    <3>1. pc[i] \in {"unlink", "close"} /\ \A j \in Instances : j = i
      BY <2>1 DEF UnlinkStale, CloseUnlink
    <3>2. \A j \in Instances : pc[j] \notin Claimed
      BY <3>1 DEF Claimed, Looping
    <3> QED
      BY <2>1, <3>2 DEF UnlinkStale, CloseUnlink, StartTakes, Taken
  <2>2. taken' = taken
    <3>1. CASE UNCHANGED vars
      BY <3>1 DEF vars
    <3>2. CASE Environment
      BY <3>2 DEF Environment, Launch, StartFails, ForkFails, Crash, WorkerEnds, Stop,
         OtherStarts, OtherEnds, history
    <3>3. ASSUME NEW i \in Instances, MasterStep(i) PROVE taken' = taken
      BY <2>1, <3>3 DEF MasterStep, CreatePidFile, CreateAgain, Create, ReadOldPid,
         CheckOldPid, WritePid, InitApp, Fork, AllForked, InstallHandlers, TestShutdown,
         EnterWait, Reap, NoChildren, KillWorker, Exit, history
    <3> QED
      BY <3>1, <3>2, <3>3 DEF Next
  <2> QED
    BY <2>2 DEF Untaken
<1>3. IInv /\ FileInv /\ Untaken => PidFileNamesMaster
  <2> SUFFICES ASSUME FileInv, Untaken, NEW i \in Instances,
                      pc[i] \in {"app", "fork", "sigaction"} \cup Looping
               PROVE  pid_file # NoFile /\ All(Master(i)) = {content[pid_file]}
    BY DEF PidFileNamesMaster
  <2>1. Named(i) /\ pc[i] # "write" /\ taken[i] = "no"
    BY DEF FileInv, Claimed, Looping, Untaken
  <2> QED
    BY <2>1, FilesAssumption DEF Named
<1> QED
  BY <1>1, <1>2, <1>3, InvAlways, FileAlways, PTL DEF Spec
=============================================================================
