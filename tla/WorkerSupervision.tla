------------------------- MODULE WorkerSupervision -------------------------
(***************************************************************************)
(* heartbeat/HeartbeatManager.java and HeartbeatClientRunnable.java (the   *)
(* master's side) with resource/ResourceManager.java, and the threads that *)
(* run in them: the main thread (it creates the workers, and stops them at *)
(* the end), one heartbeat thread per worker process, and the request      *)
(* handlers of TaskAllocationServer that stop a worker.                    *)
(*                                                                         *)
(* Both managers have synchronized methods, and each calls the other with  *)
(* its own monitor held.  A step of the model is a method, or a part of    *)
(* one that takes a monitor, waits, or changes state others can see.       *)
(***************************************************************************)
EXTENDS Naturals, Sequences, FiniteSets

CONSTANTS
  Capacity,          \* number of workers; WordCount.run creates as many
  Main,              \* the main thread
  Handler,           \* request handlers that get to stop a worker
  None,              \* Java's null, and "no thread"
  MaxSpawn,          \* bound: worker processes ever started
  MaxLosses,         \* bound: processes that crash or do not answer in time
  MaxBuildFailures,  \* bound: ProcessBuilder.start() throws IOException
  MaxIOErrors        \* bound: a heartbeat socket throws IOException

Id == 0 .. Capacity - 1   \* worker ids, without WORKER_ID_PREFIX

(* Worker processes are numbered in the order they are started.  The       *)
(* heartbeat thread of process p, which addNewHeartBeat starts, is p too.  *)
Watcher == 1 .. MaxSpawn
Thread == {Main} \union Handler \union Watcher

ASSUME SupervisionAssumption ==
  /\ Capacity \in Nat /\ MaxSpawn \in Nat
  /\ MaxLosses \in Nat /\ MaxBuildFailures \in Nat /\ MaxIOErrors \in Nat
  /\ Main \notin Nat /\ None \notin Nat /\ Main # None
  /\ \A h \in Handler : h \notin Nat /\ h # Main /\ h # None

VARIABLES
  heartbeats,        \* HeartbeatManager: id -> its heartbeat thread
  heartbeatMonitor,  \* the thread in a synchronized method of it
  activeWorkerPool,  \* ResourceManager: id -> process
  vacantIds,         \* ResourceManager: queue of ids to give out
  resourceMonitor,   \* the thread in a synchronized method of it
  pc,                \* where each thread is
  workerId,          \* the id each thread is about; a process has its watcher's
  interrupted,       \* watchers whose interrupt flag is set
  spawned,           \* number of processes started
  alive,             \* processes that run
  toCreate,          \* WordCount.run: workers not created yet
  handedBack,        \* history: watchers that reached TaskManager.update
  faults             \* how many faults of each kind have happened

heartbeatVars == <<heartbeats, heartbeatMonitor>>
resourceVars == <<activeWorkerPool, vacantIds, resourceMonitor>>
processVars == <<spawned, alive>>
masterVars == <<toCreate, handedBack>>
others == <<heartbeatVars, resourceVars, workerId, interrupted,
            processVars, masterVars>>
vars == <<others, pc, faults>>

Active == {w \in Id : activeWorkerPool[w] # None}
Vacant == {vacantIds[i] : i \in DOMAIN vacantIds}
Answering(w) == \E p \in alive : workerId[p] = w

Init ==
  /\ heartbeats = [w \in Id |-> None]
  /\ heartbeatMonitor = None
  /\ activeWorkerPool = [w \in Id |-> None]
  /\ vacantIds = [i \in 1 .. Capacity |-> i - 1]
  /\ resourceMonitor = None
  /\ pc = [t \in Thread |-> IF t = Main THEN "create"
                            ELSE IF t \in Handler THEN "request" ELSE "unborn"]
  /\ workerId = [t \in Thread |-> None]
  /\ interrupted = {}
  /\ spawned = 0
  /\ alive = {}
  /\ toCreate = Capacity
  /\ handedBack = {}
  /\ faults = [loss |-> 0, build |-> 0, io |-> 0]

(* The operators named Mut... are faulty variants of the definition that   *)
(* follows them; nothing uses them but the mutation runs.                  *)

Goto(t, at) == pc' = [pc EXCEPT ![t] = at]

(* A step that changes nothing but where the thread is. *)
Move(t, at) == Goto(t, at) /\ UNCHANGED <<others, faults>>

Fault(kind, max) ==
  /\ faults[kind] < max
  /\ faults' = [faults EXCEPT ![kind] = @ + 1]
-----------------------------------------------------------------------------
(* HeartbeatClientRunnable.run of watcher g.                               *)

(* sleep(HEARTBEAT_INTERVAL) passes and the request is sent. *)
SendHeartbeat(g) ==
  /\ pc[g] = "sleep" /\ g \notin interrupted
  /\ Move(g, "receive")

(* The loop ends, on the flag or on the InterruptedException of sleep. *)
EndHeartbeat(g) ==
  /\ pc[g] = "sleep" /\ g \in interrupted
  /\ Move(g, "ended")

(* The process on the port, whichever it is, answers.  An interrupt does   *)
(* not end DatagramSocket.receive; it is seen at the top of the loop.      *)
ReceiveAnswer(g) ==
  /\ pc[g] = "receive" /\ Answering(workerId[g])
  /\ Move(g, "sleep")

(* SocketTimeoutException: handleMissingHeartbeat is called. *)
MissAnswer(g) ==
  /\ pc[g] = "receive" /\ ~Answering(workerId[g])
  /\ Move(g, "missed")

(* The same, but the process runs: it started or answered too slowly. *)
SuspectWrongly(g) ==
  /\ pc[g] = "receive" /\ Answering(workerId[g])
  /\ Fault("loss", MaxLosses)
  /\ Goto(g, "missed")
  /\ UNCHANGED others

(* Any other IOException is logged, and that is the end of the thread. *)
FailHeartbeat(g) ==
  /\ pc[g] \in {"sleep", "receive"}
  /\ Fault("io", MaxIOErrors)
  /\ Goto(g, "ended")
  /\ UNCHANGED others

(* handleMissingHeartbeat, synchronized, calls the observers.  Observable  *)
(* goes from the last one added to the first: ResourceManager.update, that *)
(* is stopWorker and then createWorker, comes before TaskManager.update.   *)
HandleMissingHeartbeat(g) ==
  /\ pc[g] = "missed" /\ heartbeatMonitor = None
  /\ heartbeatMonitor' = g
  /\ Goto(g, "stop")
  /\ UNCHANGED <<heartbeats, resourceVars, workerId, interrupted,
                 processVars, masterVars, faults>>

(* TaskManager.update, which deallocates the task of the id. *)
NotifyTaskManager(g) ==
  /\ pc[g] = "notify"
  /\ handedBack' = handedBack \union {g}
  /\ Goto(g, "forget")
  /\ UNCHANGED <<heartbeatVars, resourceVars, workerId, interrupted,
                 processVars, toCreate, faults>>

(* heartbeats.remove(port), whatever thread is registered there by now,    *)
(* and the end of handleMissingHeartbeat and of the thread.                *)
ForgetHeartbeat(g) ==
  /\ pc[g] = "forget"
  /\ heartbeats' = [heartbeats EXCEPT ![workerId[g]] = None]
  /\ heartbeatMonitor' = None
  /\ Goto(g, "ended")
  /\ UNCHANGED <<resourceVars, workerId, interrupted,
                 processVars, masterVars, faults>>
-----------------------------------------------------------------------------
(* ResourceManager.stopWorker(workerId[t]), by any thread t.               *)

MutAfterStopNoCreate(t) ==
  CASE t \in Watcher -> "notify"
    [] t \in Handler -> "ended"
    [] t = Main      -> "stopNext"

(* What comes after stopWorker: createWorker in ResourceManager.update, the *)
(* end of a handler, the next worker in stopAllWorkers.                    *)
AfterStop(t) ==
  CASE t \in Watcher -> "create"
    [] t \in Handler -> "ended"
    [] t = Main      -> "stopNext"

(* Entering a synchronized method: of ResourceManager always from outside, *)
(* of HeartbeatManager also with its monitor held (by a watcher).          *)
MutResourceFree == TRUE
ResourceFree == resourceMonitor = None
MutHeartbeatFree(t) == heartbeatMonitor = None
HeartbeatFree(t) == heartbeatMonitor \in {None, t}

(* The worker is not in the pool: "already stopped". *)
StopNothing(t) ==
  /\ pc[t] = "stop" /\ ResourceFree
  /\ activeWorkerPool[workerId[t]] = None
  /\ Move(t, AfterStop(t))

StopWorker(t) ==
  /\ pc[t] = "stop" /\ ResourceFree
  /\ activeWorkerPool[workerId[t]] # None
  /\ resourceMonitor' = t
  /\ Goto(t, "stopHeartBeat")
  /\ UNCHANGED <<heartbeatVars, activeWorkerPool, vacantIds, workerId,
                 interrupted, processVars, masterVars, faults>>

(* The threads registered for id w: one, or none ("already dead"). *)
MutRegistered(w) == {heartbeats[w]}
Registered(w) == {heartbeats[w]} \ {None}

MutWithout(w) == heartbeats
Without(w) == [heartbeats EXCEPT ![w] = None]

(* HeartbeatManager.stopHeartBeat, synchronized: the registered thread, if *)
(* there is one, is interrupted and its registration removed.              *)
StopHeartBeat(t) ==
  /\ pc[t] = "stopHeartBeat" /\ HeartbeatFree(t)
  /\ interrupted' = interrupted \union Registered(workerId[t])
  /\ heartbeats' = Without(workerId[t])
  /\ Goto(t, "pause")
  /\ UNCHANGED <<heartbeatMonitor, resourceVars, workerId,
                 processVars, masterVars, faults>>

MutPauseBeforeKill(t) == pc[t] = "pause" /\ Move(t, "destroy")

(* Thread.sleep(3000) before the kill.  It is as long as the wait for an   *)
(* answer, so a watcher that has been interrupted is not in receive any    *)
(* more when it passes.  A thread whose own flag is set (a watcher that    *)
(* has interrupted itself) gets the exception at once, and its flag is     *)
(* cleared.                                                                *)
PauseBeforeKill(t) ==
  /\ pc[t] = "pause"
  /\ t \notin interrupted =>
       \A g \in interrupted : workerId[g] = workerId[t] => pc[g] # "receive"
  /\ interrupted' = interrupted \ {t}
  /\ Goto(t, "destroy")
  /\ UNCHANGED <<heartbeatVars, resourceVars, workerId,
                 processVars, masterVars, faults>>

MutDestroyed(w) == {}
Destroyed(w) == {activeWorkerPool[w]}

MutWithVacant(w) == vacantIds
WithVacant(w) == Append(vacantIds, w)

(* destroyForcibly().waitFor(), then the id leaves the pool and is vacant. *)
(* (waitFor throws if the flag of t is set: see WaitIsNotInterrupted.)     *)
DestroyWorker(t) ==
  /\ pc[t] = "destroy"
  /\ alive' = alive \ Destroyed(workerId[t])
  /\ activeWorkerPool' = [activeWorkerPool EXCEPT ![workerId[t]] = None]
  /\ vacantIds' = WithVacant(workerId[t])
  /\ resourceMonitor' = None
  /\ Goto(t, AfterStop(t))
  /\ UNCHANGED <<heartbeatVars, workerId, interrupted, spawned,
                 masterVars, faults>>
-----------------------------------------------------------------------------
(* ResourceManager.createWorker, by the main thread or a watcher t.        *)

AboutToCreate(t) ==
  pc[t] = "create" /\ (t = Main => toCreate > 0) /\ ResourceFree

(* buildWorkerProcess throws WorkerInstantiationException: the id has been *)
(* polled and goes nowhere.  The exception leaves every synchronized       *)
(* method of t, and ends t.  (CapacityFullException, the other one, is     *)
(* never thrown: see NeverOverCapacity.)                                   *)
CreateFails(t) ==
  /\ AboutToCreate(t)
  /\ vacantIds # <<>>
  /\ Fault("build", MaxBuildFailures)
  /\ vacantIds' = Tail(vacantIds)
  /\ heartbeatMonitor' = IF heartbeatMonitor = t THEN None ELSE heartbeatMonitor
  /\ Goto(t, "died")
  /\ UNCHANGED <<heartbeats, activeWorkerPool, resourceMonitor, workerId,
                 interrupted, processVars, masterVars>>

(* The process is started and put in the pool under the first vacant id. *)
CreateWorker(t) ==
  /\ AboutToCreate(t)
  /\ vacantIds # <<>>
  /\ spawned < MaxSpawn
  /\ spawned' = spawned + 1
  /\ alive' = alive \union {spawned'}
  /\ workerId' = [workerId EXCEPT ![spawned'] = Head(vacantIds)]
  /\ vacantIds' = Tail(vacantIds)
  /\ activeWorkerPool' = [activeWorkerPool EXCEPT ![Head(vacantIds)] = spawned']
  /\ resourceMonitor' = t
  /\ Goto(t, "addNewHeartBeat")
  /\ UNCHANGED <<heartbeatVars, interrupted, masterVars, faults>>

(* HeartbeatManager.addNewHeartBeat, synchronized, for the new process,    *)
(* and the return from createWorker.                                       *)
AddNewHeartBeat(t) ==
  LET w == workerId[spawned]
      isNew == heartbeats[w] = None   \* or else "ALERT", and no thread
      next == IF t = Main THEN "create" ELSE "notify"
  IN  /\ pc[t] = "addNewHeartBeat" /\ HeartbeatFree(t)
      /\ heartbeats' = IF isNew THEN [heartbeats EXCEPT ![w] = spawned] ELSE heartbeats
      /\ pc' = IF isNew THEN [pc EXCEPT ![t] = next, ![spawned] = "sleep"]
               ELSE [pc EXCEPT ![t] = next]
      /\ toCreate' = IF t = Main THEN toCreate - 1 ELSE toCreate
      /\ resourceMonitor' = None
      /\ UNCHANGED <<heartbeatMonitor, activeWorkerPool, vacantIds, workerId,
                     interrupted, processVars, handedBack, faults>>
-----------------------------------------------------------------------------
(* The main thread, the request handlers, and the environment.             *)

(* WordCount.run has created its workers: TaskAllocationServer.run. *)
StartServing ==
  /\ pc[Main] = "create" /\ toCreate = 0
  /\ Move(Main, "serve")

(* TaskAllocationServer.run leaves its loop for stopAllWorkers, when       *)
(* areAllTasksCompleted says so.  What it says is not modelled here: it    *)
(* may be true while a task is moving, and false again (TaskManager).      *)
StopServing ==
  /\ pc[Main] = "serve"
  /\ Move(Main, "stopNext")

(* stopAllWorkers goes through the pool without its monitor, id by id, and *)
(* meets the workers that are there when it gets to them.                  *)
NextStop == IF workerId[Main] = None THEN 0 ELSE workerId[Main] + 1

StopNext ==
  /\ pc[Main] = "stopNext" /\ NextStop \in Active
  /\ workerId' = [workerId EXCEPT ![Main] = NextStop]
  /\ Goto(Main, "stop")
  /\ UNCHANGED <<heartbeatVars, resourceVars, interrupted,
                 processVars, masterVars, faults>>

PassVacant ==
  /\ pc[Main] = "stopNext" /\ NextStop \in Id \ Active
  /\ workerId' = [workerId EXCEPT ![Main] = NextStop]
  /\ UNCHANGED <<heartbeatVars, resourceVars, pc, interrupted,
                 processVars, masterVars, faults>>

Return ==
  /\ pc[Main] = "stopNext" /\ NextStop = Capacity
  /\ Move(Main, "returned")

(* A handler to which areAllTasksCompleted says so stops the worker that   *)
(* asked: also while the master serves, and tasks are left.  The worker    *)
(* asked when the server listened; it may be gone by now.                  *)
Served == pc[Main] \notin {"create", "addNewHeartBeat", "died"}

HandleRequest(h, w) ==
  /\ pc[h] = "request" /\ Served
  /\ \E p \in 1 .. spawned : workerId[p] = w
  /\ workerId' = [workerId EXCEPT ![h] = w]
  /\ Goto(h, "stop")
  /\ UNCHANGED <<heartbeatVars, resourceVars, interrupted,
                 processVars, masterVars, faults>>

(* A worker process dies. *)
Crash(p) ==
  /\ Fault("loss", MaxLosses)
  /\ alive' = alive \ {p}
  /\ UNCHANGED <<heartbeatVars, resourceVars, pc, workerId, interrupted,
                 spawned, masterVars>>
-----------------------------------------------------------------------------
Watch(g) ==
  \/ SendHeartbeat(g)
  \/ EndHeartbeat(g)
  \/ ReceiveAnswer(g)
  \/ MissAnswer(g)
  \/ HandleMissingHeartbeat(g)
  \/ NotifyTaskManager(g)
  \/ ForgetHeartbeat(g)

Manage(t) ==
  \/ StopNothing(t)
  \/ StopWorker(t)
  \/ StopHeartBeat(t)
  \/ PauseBeforeKill(t)
  \/ DestroyWorker(t)
  \/ CreateWorker(t)
  \/ AddNewHeartBeat(t)

RunMain == StartServing \/ StopNext \/ PassVacant \/ Return

Misfortune ==
  \/ \E g \in Watcher : SuspectWrongly(g) \/ FailHeartbeat(g)
  \/ \E t \in Thread : CreateFails(t)
  \/ \E p \in alive : Crash(p)

Next ==
  \/ \E g \in Watcher : Watch(g)
  \/ \E t \in Thread : Manage(t)
  \/ RunMain \/ StopServing
  \/ \E h \in Handler, w \in Id : HandleRequest(h, w)
  \/ Misfortune

Spec == Init /\ [][Next]_vars

(* Every thread that can go on does.  Nothing is assumed of the faults, of *)
(* the requests, or of what areAllTasksCompleted says.                     *)
Fairness ==
  /\ \A g \in Watcher : WF_vars(Watch(g))
  /\ \A t \in Thread : WF_vars(Manage(t))
  /\ WF_vars(RunMain)

FairSpec == Spec /\ Fairness
-----------------------------------------------------------------------------
(* Type invariant of the module. *)
TypeOK ==
  /\ heartbeats \in [Id -> Watcher \union {None}]
  /\ heartbeatMonitor \in Thread \union {None}
  /\ activeWorkerPool \in [Id -> Watcher \union {None}]
  /\ vacantIds \in Seq(Id)
  /\ resourceMonitor \in Thread \union {None}
  /\ pc \in [Thread -> {"unborn", "sleep", "receive", "missed", "notify", "forget",
                        "stop", "stopHeartBeat", "pause", "destroy", "create",
                        "addNewHeartBeat", "serve", "stopNext", "request",
                        "returned", "ended", "died"}]
  /\ workerId \in [Thread -> Id \union {None}]
  /\ interrupted \in SUBSET Watcher
  /\ spawned \in 0 .. MaxSpawn
  /\ alive \in SUBSET (1 .. spawned)
  /\ toCreate \in 0 .. Capacity
  /\ handedBack \in SUBSET Watcher
  /\ faults \in [{"loss", "build", "io"} -> Nat]

(* A running process is in the pool under its id, so stopWorker can always *)
(* reach it, and no two running processes share an id, that is a heartbeat *)
(* port and an entry in the task manager's map: createWorker gives out an  *)
(* id only after the process that had it has been destroyed.               *)
NoOrphan == \A p \in alive : activeWorkerPool[workerId[p]] = p

(* ResourceManager: an id is vacant once, or active, and only a failed     *)
(* build loses one.                                                        *)
IdConservation ==
  /\ Vacant \intersect Active = {}
  /\ \A i, j \in DOMAIN vacantIds : vacantIds[i] = vacantIds[j] => i = j
  /\ Len(vacantIds) + Cardinality(Active) + faults["build"] = Capacity

(* ResourceManager.update creates a worker even when stopWorker found      *)
(* nothing to stop, yet createWorker is never short of an id, and neither  *)
(* run() nor a watcher ends with CapacityFullException.                    *)
NeverOverCapacity == \A t \in Thread : AboutToCreate(t) => vacantIds # <<>>

(* stopWorker, line 89, on the exception of waitFor(): "This would not     *)
(* happen."  A watcher interrupts itself in stopHeartBeat just before, but *)
(* the sleep in between takes the exception.                               *)
WaitIsNotInterrupted ==
  \A t \in Thread : pc[t] = "destroy" => t \notin interrupted

(* createWorker never meets a heartbeat thread that is still registered    *)
(* for the id it gives out, so every new process gets one of its own (the  *)
(* ALERT branch of addNewHeartBeat is dead).                               *)
EveryProcessIsWatched ==
  \A t \in Thread : pc[t] = "addNewHeartBeat" => heartbeats[workerId[spawned]] = None

(* The ids whose worker a handler has been told to stop, or stopAllWorkers *)
(* has reached.                                                            *)
Dismissed ==
  ({workerId[h] : h \in Handler} \ {None})
    \union {w \in Id : workerId[Main] # None /\ w <= workerId[Main]}

(* The failure a watcher acts on is that of the process in the pool: no    *)
(* worker is killed for the silence of an earlier process with its id      *)
(* (HeartbeatManager.handleMissingHeartbeat passes a port, not a process,  *)
(* to stopWorker).  Only an id whose worker was dismissed, on an answer    *)
(* that may have come too early, can have a watcher that is left over.     *)
NoStaleNotification ==
  \A g \in Watcher :
    /\ pc[g] \in {"sleep", "receive", "missed", "stop", "destroy"}
    /\ workerId[g] \notin Dismissed
    => activeWorkerPool[workerId[g]] = g

(* Besides a dismissal, an I/O error on its own heartbeat socket is the    *)
(* only way for a worker in the pool to go unwatched, that is to be lost   *)
(* for good if it dies: no respawn leaves one behind.                      *)
BeingRegistered(w) == \E t \in Thread : pc[t] = "addNewHeartBeat" /\ workerId[spawned] = w
Unwatched == {w \in Active : pc[activeWorkerPool[w]] \in {"unborn", "ended", "died"}
                              /\ ~BeingRegistered(w)}
UnwatchedByIOErrorOnly == Cardinality(Unwatched \ Dismissed) <= faults["io"]

(* To the rest of the master the two managers are a WorkerPool: although a *)
(* stop and a creation are several steps of threads that interleave, each  *)
(* takes effect at once, a process is killed before its id is given out    *)
(* again, and failures are handled one after the other, stop before create *)
(* before hand back.                                                       *)
Failed ==
  IF heartbeatMonitor = None \/ pc[heartbeatMonitor] = "forget" THEN None
  ELSE workerId[heartbeatMonitor]

Stage ==
  IF Failed = None THEN "none"
  ELSE CASE pc[heartbeatMonitor] = "create" -> "create"
         [] pc[heartbeatMonitor] \in {"addNewHeartBeat", "notify"} -> "handBack"
         [] OTHER -> "stop"

WP == INSTANCE WorkerPool WITH
  pool <- activeWorkerPool, vacant <- vacantIds, started <- spawned,
  running <- alive, failed <- Failed, stage <- Stage

WorkerPoolSpec == WP!Spec

(* Nobody has acted on an answer of areAllTasksCompleted yet. *)
Serving == pc[Main] = "serve" /\ Dismissed = {}

(* A worker process that is lost while the master serves is replaced: the  *)
(* pool is full of live processes again, or areAllTasksCompleted says, too *)
(* early or not, that all is done (and a stop may then deadlock, see       *)
(* EveryMissIsHandedBack).                                                 *)
LossIsRepaired ==
  (Serving /\ Cardinality(alive) < Capacity) ~> (~Serving \/ Cardinality(alive) = Capacity)

(* A watcher that misses an answer while the master serves hands the task  *)
(* of its worker back to the task manager, under the same condition.       *)
MissIsHandedBack ==
  \A g \in Watcher : Serving /\ pc[g] = "missed" ~> ~Serving \/ g \in handedBack
-----------------------------------------------------------------------------
(* What comments say of this code, and runs refute.                        *)

(* TaskAllocationServer: when all tasks are completed "it requests         *)
(* IResourceManager to stop all workers and returns the execution".        *)
ServerReturns == pc[Main] = "stopNext" ~> pc[Main] = "returned"

(* IResourceManager.stopWorker "should also close the heartbeat client for *)
(* that worker before killing the process to prevent redundant failure     *)
(* notifications".                                                         *)
HeartbeatClosedBeforeKill ==
  \A t \in Thread : pc[t] = "destroy" =>
    LET g == activeWorkerPool[workerId[t]]
    IN  g = t \/ g \in interrupted \/ pc[g] = "ended"

(* TaskAllocationClient: "once the tasks are completed, master will anyway *)
(* kill all the workers preemptively".                                     *)
NoWorkerAfterReturn == pc[Main] = "returned" => alive = {}

(* IHeartBeatManager.handleMissingHeartbeat "must notify resource manager  *)
(* to create new resource and task allocator to deallocate tasks for the   *)
(* failed node".                                                           *)
BothManagersNotified ==
  \A g \in Watcher : pc[g] = "died" => g \in handedBack

(* The same promise, also when a handler is told too early that all is     *)
(* completed: the handler and the watcher then wait for each other, while  *)
(* the master serves.                                                      *)
EveryMissIsHandedBack ==
  \A g \in Watcher :
    pc[Main] = "serve" /\ pc[g] = "missed" ~> pc[Main] # "serve" \/ g \in handedBack

(* The readme: "ensuring that every failure gets noticed". *)
EveryFailureNoticed ==
  \A w \in Id, g \in Watcher :
    pc[Main] = "serve" /\ w \notin Dismissed /\ activeWorkerPool[w] = g /\ g \notin alive
      => pc[g] # "ended"
=============================================================================
