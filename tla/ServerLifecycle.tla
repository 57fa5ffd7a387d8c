---------------------------- MODULE ServerLifecycle ----------------------------
(***************************************************************************)
(* The life of warudo's processes (server.c, and the fork and kill loops   *)
(* of worker.c): instances of the server that share a PID file, each a     *)
(* master that claims the file, forks its workers, waits for them until it *)
(* is told to stop, and closes.                                            *)
(*                                                                         *)
(* The steps of a master are its system calls: between two of them any     *)
(* other process may run, and a signal may arrive.                         *)
(***************************************************************************)
EXTENDS Naturals, FiniteSets

CONSTANTS
    Instances,        \* launches of the program
    NoOne,
    NumWorkers,       \* what wrd_get_workers found
    Pids,             \* bound: the process identifiers there are
    NoFile, OldFile,  \* no PID file; one left by an earlier run
    ConcurrentStarts, \* bound: may two instances be starting at a time?
    StartFaults,      \* bound: which calls of a start may fail?
    MasterMayCrash,   \* bound: may a master be killed with SIGKILL?
    OtherProcesses    \* bound: may unrelated processes take free PIDs?

ASSUME NumWorkersAssumption == NumWorkers \in Nat \ {0}
ASSUME PidsAssumption == 0 \notin Pids   \* 0 stands for no PID
ASSUME FilesAssumption ==
    /\ NoOne \notin Instances
    /\ NoFile \notin Instances \cup {OldFile}
    /\ OldFile \notin Instances
ASSUME FaultsAssumption ==
    /\ ConcurrentStarts \in BOOLEAN
    /\ StartFaults \subseteq {"open", "init", "fork"}
    /\ MasterMayCrash \in BOOLEAN /\ OtherProcesses \in BOOLEAN

VARIABLES
    pc,         \* where the master of each instance is
    handled,    \* did it call sigaction()?
    shutdown,   \* its wrd_shutdown
    old_pid,    \* what wrd_server_save_pid read from an existing file
    index,      \* iterations done of the fork loop, then of the kill loop
    workers,    \* config->workers[].pid, <<>> for NULL
    process,    \* the system's process table
    pid_file,   \* the file the path leads to, named by who created it
    content,    \* the PID written in each file, 0 when it is empty
    beside,     \* history: who was starting when each instance wrote its PID
    taken       \* history: how a file was removed from under its instance

vars == <<pc, handled, shutdown, old_pid, index, workers, process, pid_file, content,
          beside, taken>>
history == <<beside, taken>>

Files == Instances \cup {OldFile}
Slots == 1..NumWorkers

Kinds == {"free", "master", "worker", "zombie", "other"}
Process == [kind : Kinds, of : Instances \cup {NoOne}]
Free == [kind |-> "free", of |-> NoOne]
Other == [kind |-> "other", of |-> NoOne]
Master(i) == [kind |-> "master", of |-> i]
Worker(i) == [kind |-> "worker", of |-> i]
Zombie(i) == [kind |-> "zombie", of |-> i]
All(x) == {p \in Pids : process[p] = x}

\* Locations: wrd_server_save_pid, wrd_server_init, wrd_server_loop and
\* wrd_server_close.  A master that is "killed" ran no wrd_server_close.
Saving == {"open", "read", "check", "unlink", "retry", "write"}
Starting == Saving \cup {"app", "fork", "sigaction"}
Looping == {"test", "before_wait", "waiting"}
Closing == {"close", "kill"}
\* It has created the file and has not begun to close.
Claimed == {"write", "app", "fork", "sigaction"} \cup Looping
Running == Starting \cup Looping \cup Closing
Locations == Running \cup {"off", "exited", "killed"}

Init ==
    /\ pc = [i \in Instances |-> "off"]
    /\ handled = [i \in Instances |-> FALSE]
    /\ shutdown = [i \in Instances |-> FALSE]
    /\ old_pid = [i \in Instances |-> 0]
    /\ index = [i \in Instances |-> 0]
    /\ workers = [i \in Instances |-> <<>>]
    /\ process = [p \in Pids |-> Free]
    /\ pid_file \in {NoFile, OldFile}
    /\ \E stale \in Pids \cup {0} :
           content = [f \in Files |-> IF f = OldFile THEN stale ELSE 0]
    /\ beside = [i \in Instances |-> {}]
    /\ taken = [i \in Instances |-> "no"]

-------------------------------------------------------------------------------
(* The process table.                                                      *)

\* A master ends: its zombies go with it, its live workers stay.
WithoutMaster(i) ==
    [p \in Pids |-> IF process[p] \in {Master(i), Zombie(i)} THEN Free ELSE process[p]]

\* Its memory goes too.
Forget(i) ==
    /\ handled' = [handled EXCEPT ![i] = FALSE]
    /\ shutdown' = [shutdown EXCEPT ![i] = FALSE]
    /\ old_pid' = [old_pid EXCEPT ![i] = 0]
    /\ index' = [index EXCEPT ![i] = 0]
    /\ workers' = [workers EXCEPT ![i] = <<>>]

\* A worker ends: its master, if there is one, has to wait() for it.
WithoutWorker(p) ==
    LET i == process[p].of
    IN [process EXCEPT ![p] = IF pc[i] \in Running THEN Zombie(i) ELSE Free]

\* SIGTERM to a process that exists.  A master runs its handler, which also
\* interrupts wait(), or dies of it if it has none yet; a worker has none.
Sigterm(p) ==
    LET i == process[p].of
    IN CASE process[p].kind = "master" ->
              /\ shutdown' = [shutdown EXCEPT ![i] = @ \/ handled[i]]
              /\ pc' = [pc EXCEPT ![i] = IF ~handled[i] THEN "killed"
                                         ELSE IF @ = "waiting" THEN "test" ELSE @]
              /\ process' = IF handled[i] THEN process ELSE WithoutMaster(i)
         [] process[p].kind = "worker" ->
              /\ process' = WithoutWorker(p)
              /\ UNCHANGED <<pc, shutdown>>
         [] process[p].kind = "other" ->
              /\ process' = [process EXCEPT ![p] = Free]
              /\ UNCHANGED <<pc, shutdown>>
         [] OTHER -> UNCHANGED <<pc, shutdown, process>>

-------------------------------------------------------------------------------
(* wrd_server_save_pid.                                                    *)

Goto(i, location) == pc' = [pc EXCEPT ![i] = location]

\* main() begins.  The configuration is loaded.
Launch(i) ==
    /\ pc[i] = "off"
    /\ ConcurrentStarts \/ \A j \in Instances : pc[j] \notin Starting
    /\ \E p \in All(Free) : process' = [process EXCEPT ![p] = Master(i)]
    /\ Goto(i, "open")
    /\ UNCHANGED <<handled, shutdown, old_pid, index, workers, pid_file, content, history>>

\* open(O_CREAT | O_EXCL)
Create(i, otherwise) ==
    /\ pid_file' = IF pid_file = NoFile THEN i ELSE pid_file
    /\ content' = IF pid_file = NoFile THEN [content EXCEPT ![i] = 0] ELSE content
    /\ Goto(i, IF pid_file = NoFile THEN "write" ELSE otherwise)
    /\ UNCHANGED <<handled, shutdown, old_pid, index, workers, process, history>>

CreatePidFile(i) == pc[i] = "open" /\ Create(i, "read")

\* fopen and fscanf; the file may be gone, or still be empty.
ReadOldPid(i) ==
    /\ pc[i] = "read"
    /\ old_pid' = [old_pid EXCEPT ![i] = IF pid_file = NoFile THEN 0 ELSE content[pid_file]]
    /\ Goto(i, "check")
    /\ UNCHANGED <<handled, shutdown, index, workers, process, pid_file, content, history>>

\* Slip: an existing file is always taken for a stale one.
StillRunningNever(p) == FALSE

\* kill(old_pid, 0): any process will do.
StillRunning(p) == p # 0 /\ process[p].kind # "free"

CheckOldPid(i) ==
    /\ pc[i] = "check"
    /\ Goto(i, IF StillRunning(old_pid[i]) THEN "close" ELSE "unlink")
    /\ old_pid' = [old_pid EXCEPT ![i] = 0]   \* the end of its block
    /\ UNCHANGED <<handled, shutdown, index, workers, process, pid_file, content, history>>

\* What the removal of the PID file takes from the instance that holds it.
Taken(how) ==
    taken' = IF pid_file \in Instances /\ pc[pid_file] \in Claimed
             THEN [taken EXCEPT ![pid_file] = how] ELSE taken

\* A start races those that had written nothing yet when it began.
StartTakes(i) ==
    Taken(IF pc[pid_file] = "write" \/ i \in beside[pid_file] THEN "race" ELSE "start")

\* Slip: the file is not removed before the retry.
UnlinkStaleKeeps(i) ==
    /\ pc[i] = "unlink"
    /\ Goto(i, "retry")
    /\ UNCHANGED <<handled, shutdown, old_pid, index, workers, process, pid_file,
                   content, history>>

UnlinkStale(i) ==
    /\ pc[i] = "unlink"
    /\ pid_file' = NoFile
    /\ StartTakes(i)
    /\ Goto(i, "retry")
    /\ UNCHANGED <<handled, shutdown, old_pid, index, workers, process, content, beside>>

CreateAgain(i) == pc[i] = "retry" /\ Create(i, "close")

\* dprintf to the open file, whether or not the path still leads to it.
WritePid(i) ==
    /\ pc[i] = "write"
    /\ \E p \in All(Master(i)) : content' = [content EXCEPT ![i] = p]
    /\ beside' = [beside EXCEPT ![i] = {j \in Instances \ {i} : pc[j] \in Saving}]
    /\ Goto(i, "app")
    /\ UNCHANGED <<handled, shutdown, old_pid, index, workers, process, pid_file, taken>>

-------------------------------------------------------------------------------
(* The rest of wrd_server_init.                                            *)

\* app->init and wrd_init_tls
InitApp(i) ==
    /\ pc[i] = "app"
    /\ Goto(i, "fork")
    /\ UNCHANGED <<handled, shutdown, old_pid, index, workers, process, pid_file,
                   content, history>>

\* open() fails for another reason, or app->init or TLS does.
StartFails(i) ==
    /\ \/ "open" \in StartFaults /\ pc[i] \in {"open", "retry"}
       \/ "init" \in StartFaults /\ pc[i] = "app"
    /\ Goto(i, "close")
    /\ UNCHANGED <<handled, shutdown, old_pid, index, workers, process, pid_file,
                   content, history>>

\* Slip: one worker too many.
ForkOneMore(i) ==
    /\ pc[i] = "fork" /\ index[i] <= NumWorkers
    /\ \E p \in All(Free) : process' = [process EXCEPT ![p] = Worker(i)]
    /\ index' = [index EXCEPT ![i] = @ + 1]
    /\ UNCHANGED <<pc, handled, shutdown, old_pid, workers, pid_file, content, history>>

\* One iteration of the loop of wrd_worker_init.
Fork(i) ==
    /\ pc[i] = "fork" /\ index[i] < NumWorkers
    /\ \E p \in All(Free) :
         /\ process' = [process EXCEPT ![p] = Worker(i)]
         /\ workers' = [workers EXCEPT ![i] = [k \in Slots |->
                IF k = index[i] + 1 THEN p ELSE IF @ = <<>> THEN 0 ELSE @[k]]]
    /\ index' = [index EXCEPT ![i] = @ + 1]
    /\ UNCHANGED <<pc, handled, shutdown, old_pid, pid_file, content, history>>

\* Slip: the table is given up when a fork fails.
ForkFailsForgets(i) ==
    /\ "fork" \in StartFaults
    /\ pc[i] = "fork" /\ index[i] < NumWorkers
    /\ workers' = [workers EXCEPT ![i] = <<>>]
    /\ Goto(i, "close")
    /\ UNCHANGED <<handled, shutdown, old_pid, index, process, pid_file, content, history>>

\* fork() fails.  The entries of workers[] that were not assigned hold what
\* malloc() returned: anything.
ForkFails(i) ==
    /\ "fork" \in StartFaults
    /\ pc[i] = "fork" /\ index[i] < NumWorkers
    /\ \E garbage \in [Slots -> Pids \cup {0}] :
           workers' = [workers EXCEPT ![i] =
               IF @ = <<>> THEN <<>>
               ELSE [k \in Slots |-> IF k <= index[i] THEN @[k] ELSE garbage[k]]]
    /\ Goto(i, "close")
    /\ UNCHANGED <<handled, shutdown, old_pid, index, process, pid_file, content, history>>

AllForked(i) ==
    /\ pc[i] = "fork" /\ index[i] = NumWorkers
    /\ Goto(i, "sigaction")
    /\ UNCHANGED <<handled, shutdown, old_pid, index, workers, process, pid_file,
                   content, history>>

InstallHandlers(i) ==
    /\ pc[i] = "sigaction"
    /\ handled' = [handled EXCEPT ![i] = TRUE]
    /\ Goto(i, "test")
    /\ UNCHANGED <<shutdown, old_pid, index, workers, process, pid_file, content, history>>

-------------------------------------------------------------------------------
(* wrd_server_loop.                                                        *)

\* Slip: the flag is not tested.
TestShutdownNever(i) ==
    /\ pc[i] = "test"
    /\ Goto(i, "before_wait")
    /\ UNCHANGED <<handled, shutdown, old_pid, index, workers, process, pid_file,
                   content, history>>

TestShutdown(i) ==
    /\ pc[i] = "test"
    /\ Goto(i, IF shutdown[i] THEN "close" ELSE "before_wait")
    /\ UNCHANGED <<handled, shutdown, old_pid, index, workers, process, pid_file,
                   content, history>>

\* The call of wait(): a signal that came before it does not interrupt it.
EnterWait(i) ==
    /\ pc[i] = "before_wait"
    /\ Goto(i, "waiting")
    /\ UNCHANGED <<handled, shutdown, old_pid, index, workers, process, pid_file,
                   content, history>>

\* wait() returns a child that ended.  Nothing replaces it.
Reap(i) ==
    /\ pc[i] = "waiting"
    /\ \E p \in All(Zombie(i)) : process' = [process EXCEPT ![p] = Free]
    /\ Goto(i, "test")
    /\ UNCHANGED <<handled, shutdown, old_pid, index, workers, pid_file, content, history>>

\* Slip: the loop goes on after any error of wait().
NoChildrenContinues(i) ==
    /\ pc[i] = "waiting"
    /\ All(Worker(i)) = {} /\ All(Zombie(i)) = {}
    /\ Goto(i, "test")
    /\ UNCHANGED <<handled, shutdown, old_pid, index, workers, process, pid_file,
                   content, history>>

\* wait() fails with ECHILD.
NoChildren(i) ==
    /\ pc[i] = "waiting"
    /\ All(Worker(i)) = {} /\ All(Zombie(i)) = {}
    /\ Goto(i, "close")
    /\ UNCHANGED <<handled, shutdown, old_pid, index, workers, process, pid_file,
                   content, history>>

-------------------------------------------------------------------------------
(* wrd_server_close.                                                       *)

\* Slip: a worker removes the file too.
AfterUnlinkByAll(is_worker) == NoFile

\* The file the path leads to afterwards: only a master removes it.
AfterUnlink(is_worker) == IF is_worker THEN pid_file ELSE NoFile

CloseUnlink(i) ==
    /\ pc[i] = "close"
    /\ pid_file' = AfterUnlink(FALSE)
    /\ Taken("close")
    /\ index' = [index EXCEPT ![i] = 0]
    /\ Goto(i, "kill")
    /\ UNCHANGED <<handled, shutdown, old_pid, workers, process, content, beside>>

\* The slots wrd_worker_close goes through.
ToKill(i) == IF workers[i] = <<>> THEN 0 ELSE NumWorkers

\* One iteration of the loop of wrd_worker_close.  workers[].pid is never
\* cleared when a worker is reaped.
KillWorker(i) ==
    /\ pc[i] = "kill" /\ index[i] < ToKill(i)
    /\ LET p == workers[i][index[i] + 1]
       IN IF p # 0 THEN Sigterm(p) ELSE UNCHANGED <<pc, shutdown, process>>
    /\ index' = [index EXCEPT ![i] = @ + 1]
    /\ UNCHANGED <<handled, old_pid, workers, pid_file, content, history>>

Exit(i) ==
    /\ pc[i] = "kill" /\ index[i] = ToKill(i)
    /\ Goto(i, "exited")
    /\ process' = WithoutMaster(i)
    /\ Forget(i)
    /\ UNCHANGED <<pid_file, content, history>>

-------------------------------------------------------------------------------
(* Workers, signals and other processes.                                   *)

\* A worker ends: wrd_net_init failed, or its loop returned after a failed
\* accept(), and it runs wrd_server_close; or it crashed.
WorkerEnds(p) ==
    /\ process[p].kind = "worker"
    /\ process' = WithoutWorker(p)
    /\ pid_file' = AfterUnlink(TRUE)
    /\ UNCHANGED <<pc, handled, shutdown, old_pid, index, workers, content, history>>

\* The administrator stops a master: SIGTERM or SIGINT.
Stop(p) ==
    /\ process[p].kind = "master"
    /\ Sigterm(p)
    /\ UNCHANGED <<handled, old_pid, index, workers, pid_file, content, history>>

\* SIGKILL, or the machine's end of the process.
Crash(i) ==
    /\ MasterMayCrash
    /\ pc[i] \in Running
    /\ Goto(i, "killed")
    /\ process' = WithoutMaster(i)
    /\ Forget(i)
    /\ UNCHANGED <<pid_file, content, history>>

OtherStarts(p) ==
    /\ OtherProcesses
    /\ process[p] = Free
    /\ process' = [process EXCEPT ![p] = Other]
    /\ UNCHANGED <<pc, handled, shutdown, old_pid, index, workers, pid_file, content, history>>

OtherEnds(p) ==
    /\ process[p] = Other
    /\ process' = [process EXCEPT ![p] = Free]
    /\ UNCHANGED <<pc, handled, shutdown, old_pid, index, workers, pid_file, content, history>>

-------------------------------------------------------------------------------
\* The steps a master takes by itself once it is launched.
MasterStep(i) ==
    \/ CreatePidFile(i)
    \/ ReadOldPid(i)
    \/ CheckOldPid(i)
    \/ UnlinkStale(i)
    \/ CreateAgain(i)
    \/ WritePid(i)
    \/ InitApp(i)
    \/ Fork(i)
    \/ AllForked(i)
    \/ InstallHandlers(i)
    \/ TestShutdown(i)
    \/ EnterWait(i)
    \/ Reap(i)
    \/ NoChildren(i)
    \/ CloseUnlink(i)
    \/ KillWorker(i)
    \/ Exit(i)

Environment ==
    \/ \E i \in Instances : Launch(i) \/ StartFails(i) \/ ForkFails(i) \/ Crash(i)
    \/ \E p \in Pids : WorkerEnds(p) \/ Stop(p) \/ OtherStarts(p) \/ OtherEnds(p)

Next == Environment \/ \E i \in Instances : MasterStep(i)

\* Masters run; nothing makes anyone launch, stop or break them.
Fairness == \A i \in Instances : WF_vars(MasterStep(i))

Spec == Init /\ [][Next]_vars
FairSpec == Spec /\ Fairness

-------------------------------------------------------------------------------
(* Properties.                                                             *)

\* Every variable stays in its set.
TypeOK ==
    /\ pc \in [Instances -> Locations]
    /\ handled \in [Instances -> BOOLEAN]
    /\ shutdown \in [Instances -> BOOLEAN]
    /\ old_pid \in [Instances -> Pids \cup {0}]
    /\ index \in [Instances -> 0..NumWorkers]
    /\ workers \in [Instances -> {<<>>} \cup [Slots -> Pids \cup {0}]]
    /\ process \in [Pids -> Process]
    /\ pid_file \in Files \cup {NoFile}
    /\ content \in [Files -> Pids \cup {0}]
    /\ beside \in [Instances -> SUBSET Instances]
    /\ taken \in [Instances -> {"no", "close", "race", "start"}]

\* A master that closed left no worker behind: every child it forked was
\* reaped or is signalled, whichever way the start failed or the loop ended.
NoWorkerLeft == \A i \in Instances : pc[i] = "exited" => All(Worker(i)) = {}

\* Once the start-up wrote it, and until the close removes it, the PID file
\* names its master: none of the ways a worker ends takes it away.
PidFileNamesMaster ==
    \A i \in Instances : pc[i] \in {"app", "fork", "sigaction"} \cup Looping =>
        /\ pid_file # NoFile
        /\ All(Master(i)) = {content[pid_file]}

\* The file is there to keep a second instance from running beside the first,
\* also when their starts overlap: two run together only if the file of one of
\* them was removed while it ran, by the wrd_server_close of another instance (a
\* start that is refused does that) or by a start that was already looking at
\* the file when the PID was written.  A start that begins later never removes
\* it, whatever other processes do and whoever is killed.
OneInstance ==
    \A i, j \in Instances : pc[i] \in Looping /\ pc[j] \in Looping /\ i # j =>
        \E x \in {i, j} : taken[x] \in {"close", "race"}

\* A master whose workers have all ended does not outlive them.
MasterFollowsWorkers ==
    \A i \in Instances :
        pc[i] = "waiting" /\ All(Worker(i)) = {} ~> pc[i] \in {"exited", "killed"}

\* A master that was told to stop does so at the latest when one of its
\* workers ends, even if the signal came just before wait().
StopsAtWorkerExit ==
    \A i \in Instances :
        shutdown[i] /\ All(Zombie(i)) # {} ~> pc[i] \in {"exited", "killed"}

\* A PID file that an earlier run left behind does not keep a new instance from
\* taking its place once the process it names is gone: a start that found such a
\* file is refused only if another process has got that PID since.
StaleFileIsReplaced ==
    \A i \in Instances :
        /\ pc[i] = "open"
        /\ pid_file = NoFile \/ ~StillRunning(content[pid_file])
        ~> \/ pc[i] = "app" /\ pid_file = i
           \/ pc[i] = "close" /\ pid_file # NoFile /\ StillRunning(content[pid_file])
           \/ pc[i] = "killed"
=============================================================================
