------------------------------ MODULE Restart ------------------------------
(***************************************************************************)
(* A run that starts while processes of an earlier run are left over: its  *)
(* workers, which survive a master that is killed, and perhaps the master, *)
(* which may still serve, and whose watchers live on when it does not.     *)
(* WordCount.java (the constructor with free-ports.sh, and run),           *)
(* Worker.java with HeartbeatServerRunnable.java (a worker whose port may  *)
(* be taken), and the server, whichever has the port, that old workers can *)
(* talk to as well as new ones.                                            *)
(*                                                                         *)
(* The tasks and the processes of the new run are those of TaskPool and    *)
(* WorkerPool, which TaskManager and WorkerSupervision implement; requests *)
(* are handled at once (TaskAllocation has the threads).                   *)
(***************************************************************************)
EXTENDS Naturals, Sequences

CONSTANTS
  Capacity,     \* number of workers of this run
  OldCapacity,  \* number of workers of the earlier run
  Task,         \* the tasks, one per input file
  None,         \* Java's null, no process, no task of this run
  MaxSpawn,     \* bound: worker processes started in this run
  MaxLosses,    \* bound: processes that crash or are suspected, clients that leave
  MaxBuildFailures \* bound: ProcessBuilder.start() throws IOException

Id == 0 .. Capacity - 1

(* Worker ids, that is heartbeat ports, of either run. *)
AnyId == Id \union 0 .. OldCapacity - 1

New == 1 .. MaxSpawn
Old == MaxSpawn + 1 .. MaxSpawn + OldCapacity
Process == New \union Old

ASSUME RestartAssumption ==
  /\ Capacity \in Nat /\ OldCapacity \in Nat /\ MaxSpawn \in Nat
  /\ MaxLosses \in Nat /\ MaxBuildFailures \in Nat
  /\ Capacity <= MaxSpawn
  /\ None \notin Nat \union Task

VARIABLES
  pool, vacant, started, failed, stage,  \* of WorkerPool,
  available, assigned, completed,        \* of TaskPool
  master,     \* where the main thread of the new master is
  freed,      \* number of ports the script has freed
  cleaned,    \* the script has run to its end
  toCreate,   \* WordCount.run: workers not created yet
  nextStop,   \* the least id stopAllWorkers has not gone past yet
  serverPort, \* the master that listens on TASK_ALLOCATION_SERVER_PORT
  oldMaster,  \* the process of the earlier master lives
  socket,     \* the process whose heartbeat thread has each worker port
  heartbeat,  \* where the heartbeat thread of each process is
  client,     \* where the client of each process is
  task,       \* the task of this run it was given last
  id,         \* the worker id of each process
  executed,   \* history: tasks executed since this run began
  stray,      \* history: ids of old workers that had not their port then
  contested,  \* history: ids of this run that an old worker has had as well
  losses,
  unbuilt     \* number of failed builds

poolVars == <<pool, vacant, started, failed, stage>>
taskVars == <<available, assigned, completed>>
masterVars == <<master, freed, cleaned, toCreate, nextStop, serverPort>>
processVars == <<socket, heartbeat, client>>
clientVars == <<task, executed>>
faults == <<losses, unbuilt>>
oldVars == <<oldMaster, stray, contested>>
vars == <<poolVars, taskVars, masterVars, processVars, clientVars, id, oldVars, faults>>

Alive(p) == client[p] \notin {"unborn", "dead"}

WP == INSTANCE WorkerPool WITH running <- {p \in New : Alive(p)}
TP == INSTANCE TaskPool WITH Worker <- AnyId

(* An old worker that is left over executes a task of its own run, waits,  *)
(* or has left the loop.  It answers heartbeats on its port, has not got   *)
(* so far, or goes without its port, which was taken.  The earlier master, *)
(* if it lives, has returned from run() or serves.                         *)
Init ==
  /\ TP!Init
  /\ master = "clean"
  /\ freed = 0
  /\ cleaned = FALSE
  /\ toCreate = Capacity
  /\ nextStop = 0
  /\ oldMaster \in BOOLEAN
  /\ serverPort \in IF oldMaster THEN {"old", "none"} ELSE {"none"}
  /\ client \in {c \in [Process -> {"unborn", "dead", "left", "ask", "execute"}] :
                   \A p \in Process : c[p] = "unborn" <=> p \in New}
  /\ id = [p \in Process |-> IF p \in Old THEN p - MaxSpawn - 1 ELSE None]
  /\ heartbeat \in {h \in [Process -> {"none", "bind", "answer"}] :
                      \A p \in Process : h[p] # "none" => Alive(p)}
  /\ socket = [w \in AnyId |->
                 IF \E p \in Old : id[p] = w /\ heartbeat[p] = "answer"
                 THEN CHOOSE p \in Old : id[p] = w ELSE None]
  /\ stray = {id[p] : p \in {q \in Old : Alive(q) /\ heartbeat[q] # "answer"}}
  /\ contested = {}
  /\ task = [p \in Process |-> None]
  /\ WP!Init
  /\ executed = {}
  /\ losses = 0
  /\ unbuilt = 0

(* The operators named Mut... are faulty variants of the definition that   *)
(* follows them; nothing uses them but the mutation runs.                  *)

Lose == losses < MaxLosses /\ losses' = losses + 1 /\ UNCHANGED unbuilt
FailBuild == unbuilt < MaxBuildFailures /\ unbuilt' = unbuilt + 1 /\ UNCHANGED losses

(* The processes ps die, and their sockets are closed. *)
Kill(ps) ==
  /\ client' = [p \in Process |-> IF p \in ps THEN "dead" ELSE client[p]]
  /\ heartbeat' = [p \in Process |-> IF p \in ps THEN "none" ELSE heartbeat[p]]
  /\ socket' = [w \in AnyId |-> IF socket[w] \in ps THEN None ELSE socket[w]]
-----------------------------------------------------------------------------
(* WordCount: staleResourceCleanup, that is free-ports.sh, and run.        *)

MutPortToFree == freed + 1
PortToFree == freed

(* kill -9 of the processes lsof finds on the next UDP port. *)
FreePort ==
  /\ master = "clean" /\ freed < Capacity
  /\ Kill({socket[w] : w \in {PortToFree} \intersect AnyId} \ {None})
  /\ freed' = freed + 1
  /\ UNCHANGED <<poolVars, taskVars, master, cleaned, toCreate, nextStop, serverPort,
                 clientVars, id, oldVars, faults>>

(* The last one is UDP port 11999, which nobody has: the port of the       *)
(* server is a TCP port.  An old worker that is not on its port survives.  *)
FreeServerPort ==
  /\ master = "clean" /\ freed = Capacity
  /\ cleaned' = TRUE
  /\ contested' = {w \in Id : \E p \in Old : Alive(p) /\ id[p] = w}
  /\ master' = "create"
  /\ UNCHANGED <<poolVars, taskVars, freed, toCreate, nextStop, serverPort, processVars,
                 clientVars, id, oldMaster, stray, faults>>

(* The script cannot be run: the exception is logged. *)
CleanupFails ==
  /\ master = "clean" /\ freed = 0
  /\ master' = "create"
  /\ UNCHANGED <<poolVars, taskVars, freed, cleaned, toCreate, nextStop, serverPort,
                 processVars, clientVars, id, oldVars, faults>>

MutNextId == started + 1
NextId == Head(vacant)

(* A worker process starts, and with it Worker.run: the heartbeat thread   *)
(* and the client.                                                         *)
NewWorker ==
  /\ vacant # <<>> /\ started < MaxSpawn
  /\ client' = [client EXCEPT ![started + 1] = "ask"]
  /\ heartbeat' = [heartbeat EXCEPT ![started + 1] = "bind"]
  /\ id' = [id EXCEPT ![started + 1] = NextId]
  /\ UNCHANGED socket

CreateWorker ==
  /\ master = "create" /\ toCreate > 0
  /\ toCreate' = toCreate - 1
  /\ NewWorker
  /\ WP!NewProcess /\ UNCHANGED <<failed, stage>>
  /\ UNCHANGED <<taskVars, master, freed, cleaned, nextStop, serverPort, clientVars,
                 oldVars, faults>>

(* WorkerInstantiationException ends run(); the workers created so far     *)
(* live on, with their watchers.                                           *)
CreateFails ==
  /\ master = "create" /\ toCreate > 0
  /\ FailBuild
  /\ master' = "returned"
  /\ UNCHANGED <<taskVars, freed, cleaned, toCreate, nextStop, serverPort, processVars,
                 clientVars, id, oldVars>>
  /\ WP!NoProcess /\ UNCHANGED <<failed, stage>>

Open ==
  /\ master = "create" /\ toCreate = 0 /\ serverPort = "none"
  /\ master' = "serve" /\ serverPort' = "new"
  /\ UNCHANGED <<poolVars, taskVars, freed, cleaned, toCreate, nextStop, processVars,
                 clientVars, id, oldVars, faults>>

(* BindException: it is logged, and run() returns with nothing done. *)
OpenFails ==
  /\ master = "create" /\ toCreate = 0 /\ serverPort = "old"
  /\ master' = "returned"
  /\ UNCHANGED <<poolVars, taskVars, freed, cleaned, toCreate, nextStop, serverPort,
                 processVars, clientVars, id, oldVars, faults>>

AllTasksCompleted == available = {} /\ \A w \in AnyId : assigned[w] = None

StopServing ==
  /\ master = "serve" /\ AllTasksCompleted
  /\ master' = "stop" /\ serverPort' = "none"
  /\ UNCHANGED <<poolVars, taskVars, freed, cleaned, toCreate, nextStop, processVars,
                 clientVars, id, oldVars, faults>>

(* stopAllWorkers, id by id (see TaskAllocation), and the return. *)
StopNext ==
  /\ master = "stop" /\ nextStop \in Id /\ pool[nextStop] # None
  /\ Kill({pool[nextStop]}) /\ WP!Stop(nextStop)
  /\ nextStop' = nextStop + 1
  /\ UNCHANGED <<taskVars, master, freed, cleaned, toCreate, serverPort, clientVars, id,
                 oldVars, faults>>

PassVacant ==
  /\ master = "stop" /\ nextStop \in Id /\ pool[nextStop] = None
  /\ nextStop' = nextStop + 1
  /\ UNCHANGED <<poolVars, taskVars, master, freed, cleaned, toCreate, serverPort,
                 processVars, clientVars, id, oldVars, faults>>

Return ==
  /\ master = "stop" /\ nextStop = Capacity
  /\ master' = "returned"
  /\ UNCHANGED <<poolVars, taskVars, freed, cleaned, toCreate, nextStop, serverPort,
                 processVars, clientVars, id, oldVars, faults>>
-----------------------------------------------------------------------------
(* HeartbeatServerRunnable.run of process p: it gets its port, or the      *)
(* thread ends on the exception, and the process goes on without it.       *)
Bind(p) ==
  /\ heartbeat[p] = "bind"
  /\ IF socket[id[p]] = None
     THEN /\ socket' = [socket EXCEPT ![id[p]] = p]
          /\ heartbeat' = [heartbeat EXCEPT ![p] = "answer"]
     ELSE /\ heartbeat' = [heartbeat EXCEPT ![p] = "none"]
          /\ UNCHANGED socket
  /\ UNCHANGED <<poolVars, taskVars, masterVars, client, clientVars, id, oldVars, faults>>

(* An id has a watcher: that of its process, or, if this has been stopped, *)
(* one that is not registered any more and goes on (see TaskAllocation).   *)
Watched(w) ==
  \/ pool[w] # None
  \/ vacant # <<>> /\ \E p \in New : id[p] = w

(* It gets no answer from the port (whatever it is the socket of, a        *)
(* process on it answers), or ...                                          *)
Unanswered(w) == socket[w] = None /\ (pool[w] # None => heartbeat[pool[w]] # "bind")

NoticeLoss(w) ==
  /\ Watched(w) /\ Unanswered(w)
  /\ UNCHANGED <<taskVars, masterVars, processVars, clientVars, id, oldVars, faults>>
  /\ WP!Notice(w)

(* ... gets it too late.                                                   *)
SuspectWrongly(w) ==
  /\ Watched(w) /\ ~Unanswered(w)
  /\ Lose
  /\ UNCHANGED <<taskVars, masterVars, processVars, clientVars, id, oldVars>>
  /\ WP!Notice(w)

StopFailed ==
  /\ stage = "stop"
  /\ \/ pool[failed] # None /\ Kill({pool[failed]})
     \/ pool[failed] = None /\ UNCHANGED processVars
  /\ WP!StopFailed
  /\ UNCHANGED <<taskVars, masterVars, clientVars, id, oldVars, faults>>

Replace ==
  /\ NewWorker
  /\ WP!Replace
  /\ UNCHANGED <<taskVars, masterVars, clientVars, oldVars, faults>>

(* The process cannot be created: the exception ends the watcher, before   *)
(* the task is handed back.                                                *)
ReplaceFails ==
  /\ FailBuild
  /\ UNCHANGED <<taskVars, masterVars, processVars, clientVars, id, oldVars>>
  /\ WP!Abandon

MutHandBack ==
  /\ UNCHANGED <<taskVars, masterVars, processVars, clientVars, id, oldVars, faults>>
  /\ WP!HandBack

HandBack ==
  /\ UNCHANGED <<masterVars, processVars, clientVars, id, oldVars, faults>>
  /\ WP!HandBack
  /\ TP!Deallocate(failed) \/ (assigned[failed] = None /\ UNCHANGED taskVars)

(* The earlier master, which may have returned, does the same with its     *)
(* workers: nobody answers for q, which is stopped if it lives, and p is   *)
(* created, under the id that has been vacant longest.                     *)
OldMasterReplaces(q, p) ==
  /\ oldMaster /\ socket[id[q]] = None
  /\ p = q \/ client[p] = "dead"
  /\ client' = [client EXCEPT ![q] = "dead", ![p] = "ask"]
  /\ heartbeat' = [heartbeat EXCEPT ![q] = "none", ![p] = "bind"]
  /\ contested' = IF cleaned THEN contested \union ({id[p]} \intersect Id) ELSE contested
  /\ UNCHANGED <<poolVars, taskVars, masterVars, socket, clientVars, id, oldMaster, stray,
                 faults>>

(* It stops serving, or ends. *)
OldServerCloses ==
  /\ serverPort = "old"
  /\ serverPort' = "none"
  /\ UNCHANGED <<poolVars, taskVars, master, freed, cleaned, toCreate, nextStop, processVars,
                 clientVars, id, oldVars, faults>>

(* (An old worker that the earlier master suspects, or stops as its tasks  *)
(* are completed, has crashed here.)                                       *)
Crash(p) ==
  /\ Alive(p) /\ Lose
  /\ Kill({p})
  /\ IF p \in New THEN WP!Die(p) ELSE UNCHANGED poolVars
  /\ UNCHANGED <<taskVars, masterVars, clientVars, id, oldVars>>
-----------------------------------------------------------------------------
(* The client of process p, old or new, and the handler of its request.    *)

Give(p, f) ==
  /\ client' = [client EXCEPT ![p] = "execute"]
  /\ task' = [task EXCEPT ![p] = f]

(* ALLOCATE, when a task is available: a worker whose id has a task gets   *)
(* it again.  (When there is none it is told to wait.)                     *)
Ask(p) ==
  /\ client[p] = "ask" /\ master = "serve" /\ available # {}
  /\ \/ assigned[id[p]] # None /\ Give(p, assigned[id[p]]) /\ UNCHANGED taskVars
     \/ TP!Allocate(id[p]) /\ Give(p, assigned'[id[p]])
  /\ UNCHANGED <<poolVars, masterVars, socket, heartbeat, executed, id, oldVars, faults>>

Execute(p) ==
  /\ client[p] = "execute"
  /\ client' = [client EXCEPT ![p] = "report"]
  /\ executed' = executed \union ({task[p]} \ {None})
  /\ UNCHANGED <<poolVars, taskVars, masterVars, socket, heartbeat, task, id, oldVars, faults>>

(* SUCCESS: the task of the id, if it has one, is completed.  The handler  *)
(* goes on as for an ALLOCATE.                                             *)
MutReported(p) == id[p] % Capacity
Reported(p) == id[p]

Report(p) ==
  /\ client[p] = "report" /\ master = "serve"
  /\ client' = [client EXCEPT ![p] = "ask"]
  /\ \/ TP!Complete(Reported(p))
     \/ assigned[Reported(p)] = None /\ UNCHANGED taskVars
  /\ UNCHANGED <<poolVars, masterVars, socket, heartbeat, clientVars, id, oldVars, faults>>

(* All tasks are completed: the worker that the pool has for the id of the *)
(* sender, which may be another process, is stopped.                       *)
Dismiss(p) ==
  /\ client[p] = "ask" /\ master = "serve" /\ AllTasksCompleted
  /\ id[p] \in Id /\ pool[id[p]] # None
  /\ Kill({pool[id[p]]}) /\ WP!Stop(id[p])
  /\ UNCHANGED <<taskVars, masterVars, clientVars, id, oldVars, faults>>

(* The loop ends, the process does not: the connection is refused, or the  *)
(* sender gets no answer, as all tasks are completed and the pool has no   *)
(* worker for its id, ...                                                  *)
Refused(p) ==
  /\ \/ client[p] \in {"ask", "report"} /\ serverPort = "none"
     \/ /\ client[p] = "ask" /\ master = "serve" /\ AllTasksCompleted
        /\ id[p] \in Id => pool[id[p]] = None
  /\ client' = [client EXCEPT ![p] = "left"]
  /\ UNCHANGED <<poolVars, taskVars, masterVars, socket, heartbeat, clientVars, id, oldVars,
                 faults>>

(* ... or the connection breaks, or the execution throws.                  *)
Leave(p) ==
  /\ client[p] \in {"ask", "execute", "report"} /\ Lose
  /\ client' = [client EXCEPT ![p] = "left"]
  /\ UNCHANGED <<poolVars, taskVars, masterVars, socket, heartbeat, clientVars, id, oldVars>>

(* The earlier master has the port: the client gets a task of that run, or *)
(* waits.                                                                  *)
OldServerAnswers(p) ==
  /\ client[p] \in {"ask", "report"} /\ serverPort = "old"
  /\ \/ Give(p, None)
     \/ client' = [client EXCEPT ![p] = "ask"] /\ UNCHANGED task
  /\ UNCHANGED <<poolVars, taskVars, masterVars, socket, heartbeat, executed, id, oldVars,
                 faults>>
-----------------------------------------------------------------------------
Clean == FreePort \/ FreeServerPort \/ CleanupFails

Run ==
  \/ CreateWorker
  \/ CreateFails
  \/ Open
  \/ OpenFails
  \/ StopServing
  \/ StopNext
  \/ PassVacant
  \/ Return

Supervise ==
  \/ \E w \in Id : NoticeLoss(w) \/ SuspectWrongly(w)
  \/ StopFailed
  \/ Replace
  \/ ReplaceFails
  \/ HandBack

Talk(p) ==
  \/ Ask(p)
  \/ Execute(p)
  \/ Report(p)
  \/ Refused(p)
  \/ Leave(p)
  \/ OldServerAnswers(p)

Linger ==
  \/ \E q, p \in Old : OldMasterReplaces(q, p)
  \/ OldServerCloses

Next ==
  \/ Clean
  \/ Run
  \/ Supervise
  \/ \E p \in Process : Bind(p) \/ Talk(p) \/ Dismiss(p) \/ Crash(p)
  \/ Linger

Spec == Init /\ [][Next]_vars
-----------------------------------------------------------------------------
(* Type invariant of the module. *)
TypeOK ==
  /\ pool \in [Id -> New \union {None}]
  /\ vacant \in Seq(Id)
  /\ started \in 0 .. MaxSpawn
  /\ failed \in Id \union {None}
  /\ stage \in {"none", "stop", "create", "handBack"}
  /\ available \in SUBSET Task
  /\ assigned \in [AnyId -> Task \union {None}]
  /\ completed \in SUBSET Task
  /\ master \in {"clean", "create", "serve", "stop", "returned"}
  /\ freed \in 0 .. Capacity
  /\ cleaned \in BOOLEAN
  /\ toCreate \in 0 .. Capacity
  /\ nextStop \in 0 .. Capacity
  /\ serverPort \in {"old", "new", "none"}
  /\ socket \in [AnyId -> Process \union {None}]
  /\ heartbeat \in [Process -> {"none", "bind", "answer"}]
  /\ client \in [Process -> {"unborn", "dead", "left", "ask", "execute", "report"}]
  /\ task \in [Process -> Task \union {None}]
  /\ id \in [Process -> AnyId \union {None}]
  /\ executed \in SUBSET Task
  /\ oldMaster \in BOOLEAN
  /\ stray \in SUBSET AnyId
  /\ contested \in SUBSET Id
  /\ losses \in 0 .. MaxLosses
  /\ unbuilt \in 0 .. MaxBuildFailures

(* WordCount: "Reserving ports for the required worker size [...] by       *)
(* deleting previous resources."  If the earlier master is gone, no old    *)
(* worker has an id of this run any more when the script has run, whatever *)
(* happens meanwhile and later; but for one that was not on its port,      *)
(* which the script does not find.                                         *)
IdsReserved == ~oldMaster => contested \subseteq stray

(* When the script has run, what the watcher of an id hears that no old    *)
(* worker has had as well is its own worker: a worker that is up answers   *)
(* on its port, and nobody answers for one that is dead (no start checks   *)
(* that its heartbeat thread got the port).                                *)
WatchersHearTheirWorkers ==
  cleaned =>
    \A w \in Id \ contested :
      pool[w] # None /\ heartbeat[pool[w]] # "bind" =>
        socket[w] = (IF Alive(pool[w]) THEN pool[w] ELSE None)

(* When the script has run, a task that gets completed has been executed   *)
(* in this run, although a report says neither which task nor which run it *)
(* means, and old workers with other ids ask and report as well, from old  *)
(* tasks and new; unless an old worker has had the id of the task.         *)
CompletedInThisRun ==
  [][cleaned => \A f \in completed' \ completed :
                  f \in executed \/ \E w \in contested : assigned[w] = f]_vars

(* When the script has run, a task that an id of this run has, and no old  *)
(* worker has had the id, is executed by its worker, whose death will be   *)
(* noticed, or its client has left its loop with the task; or a worker     *)
(* could not be created, and the one the id has got since, if any, has not *)
(* been told of the task (as in NoForgottenTask of TaskAllocation).        *)
StrangersTakeNoTask ==
  cleaned /\ master = "serve" =>
    \A w \in Id \ contested :
      assigned[w] # None /\ failed # w =>
        \/ /\ pool[w] # None
           /\ Alive(pool[w]) => /\ task[pool[w]] = assigned[w]
                                /\ client[pool[w]] \in {"execute", "report", "left"}
        \/ unbuilt > 0 /\ (pool[w] = None \/ task[pool[w]] = None)
-----------------------------------------------------------------------------
(* What the readme says of free-ports.sh, and a run refutes: "It also      *)
(* frees the task allocation server port."                                 *)
ServerPortFreed == cleaned => serverPort # "old"

(* What it says of failures: "ensuring that every failure gets noticed":   *)
(* also that of a worker which executes a task and is not of this run.     *)
EveryHolderIsWatched ==
  cleaned /\ master = "serve" => \A w \in AnyId : assigned[w] # None => w \in Id
=============================================================================
