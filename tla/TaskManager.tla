---------------------------- MODULE TaskManager ----------------------------
(***************************************************************************)
(* taskallocation/TaskManager.java: the master's bookkeeping of tasks.     *)
(* Request-handler threads, heartbeat threads and the main thread call it  *)
(* concurrently.  allocateTask, deallocateTask and markTaskCompleted are   *)
(* synchronized; isAnyTaskAvailable and areAllTasksCompleted are not, so a *)
(* step of the model is one access that those two can observe: a poll or   *)
(* an add on the queue, a put or a remove on the map, one isEmpty().       *)
(***************************************************************************)
EXTENDS Naturals, Sequences

CONSTANTS
  Thread,      \* the threads of the master that call the task manager
  Worker,      \* worker ids
  Task,        \* the tasks: one per element of the array of input files
  inputFiles,  \* the constructor's array of input files, as tasks
  None         \* Java's null; also "no thread" and "no worker"

(* The code never compares two file names, so equal names given twice are  *)
(* two tasks like any others: a task is an element of the array.           *)
ASSUME TaskManagerAssumption ==
  /\ inputFiles \in Seq(Task)
  /\ \A i, j \in DOMAIN inputFiles : inputFiles[i] = inputFiles[j] => i = j
  /\ \A f \in Task : \E i \in DOMAIN inputFiles : inputFiles[i] = f
  /\ None \notin Task \union Worker \union Thread

VARIABLES
  incompleteTasks,           \* ConcurrentLinkedQueue of tasks to allocate
  ongoingTaskAllocationMap,  \* ConcurrentHashMap worker id -> task
  monitor,                   \* the thread inside a synchronized method
  pc,                        \* where each thread is inside a method
  workerId,                  \* parameter of the method the thread is in
  inputFile,                 \* local variable of the method it is in
  completed,                 \* history: tasks removed by markTaskCompleted
  announced                  \* history: areAllTasksCompleted returned true

pools == <<incompleteTasks, ongoingTaskAllocationMap>>
locals == <<pc, workerId, inputFile>>
history == <<completed, announced>>
vars == <<pools, monitor, locals, history>>

Queued == {incompleteTasks[i] : i \in DOMAIN incompleteTasks}
Ongoing == {ongoingTaskAllocationMap[w] : w \in Worker} \ {None}
Moving == {inputFile[t] : t \in Thread} \ {None}

Init ==
  /\ incompleteTasks = inputFiles
  /\ ongoingTaskAllocationMap = [w \in Worker |-> None]
  /\ monitor = None
  /\ pc = [t \in Thread |-> "idle"]
  /\ workerId = [t \in Thread |-> None]
  /\ inputFile = [t \in Thread |-> None]
  /\ completed = {}
  /\ announced = FALSE
-----------------------------------------------------------------------------
(* The operators named Mut... are faulty variants of the definition that   *)
(* follows them; nothing uses them but the mutation runs.                  *)

(* A thread calls a synchronized method and gets the monitor.  The checks  *)
(* that follow up to the first visible access happen in the same step:     *)
(* nobody else can change what they read while the monitor is held.        *)
MutEnterUnsynchronized(t) == pc[t] = "idle"

Enter(t) == pc[t] = "idle" /\ monitor = None

(* The thread stays in the monitor between two accesses, holding file f    *)
(* of worker w.                                                            *)
Hold(t, at, w, f) ==
  /\ monitor' = t
  /\ pc' = [pc EXCEPT ![t] = at]
  /\ workerId' = [workerId EXCEPT ![t] = w]
  /\ inputFile' = [inputFile EXCEPT ![t] = f]

(* The method returns and releases the monitor. *)
Leave(t) ==
  /\ monitor' = None
  /\ pc' = [pc EXCEPT ![t] = "idle"]
  /\ workerId' = [workerId EXCEPT ![t] = None]
  /\ inputFile' = [inputFile EXCEPT ![t] = None]

isAnyTaskAvailable == incompleteTasks # <<>>

(* allocateTask, the worker already has a task: the same one is returned. *)
AllocateSame(t, w) ==
  /\ Enter(t)
  /\ ongoingTaskAllocationMap[w] # None
  /\ UNCHANGED vars

(* allocateTask, nothing to allocate: NoTaskAvailableException. *)
AllocateNone(t, w) ==
  /\ Enter(t)
  /\ ongoingTaskAllocationMap[w] = None
  /\ ~isAnyTaskAvailable
  /\ UNCHANGED vars

MutAllocatePeek(t, w) ==
  /\ Enter(t)
  /\ ongoingTaskAllocationMap[w] = None
  /\ isAnyTaskAvailable
  /\ Hold(t, "put", w, Head(incompleteTasks))
  /\ UNCHANGED <<pools, history>>

(* allocateTask up to incompleteTasks.poll(): the task is in neither pool. *)
AllocatePoll(t, w) ==
  /\ Enter(t)
  /\ ongoingTaskAllocationMap[w] = None
  /\ isAnyTaskAvailable
  /\ incompleteTasks' = Tail(incompleteTasks)
  /\ Hold(t, "put", w, Head(incompleteTasks))
  /\ UNCHANGED <<ongoingTaskAllocationMap, history>>

(* allocateTask, from ongoingTaskAllocationMap.put to the return. *)
AllocatePut(t) ==
  /\ pc[t] = "put"
  /\ ongoingTaskAllocationMap' =
       [ongoingTaskAllocationMap EXCEPT ![workerId[t]] = inputFile[t]]
  /\ Leave(t)
  /\ UNCHANGED <<incompleteTasks, history>>

(* deallocateTask and markTaskCompleted, the worker has no task. *)
NothingAllocated(t, w) ==
  /\ Enter(t)
  /\ ongoingTaskAllocationMap[w] = None
  /\ UNCHANGED vars

MutDeallocateGetAfterRemove(t, w) ==
  /\ Enter(t)
  /\ ongoingTaskAllocationMap[w] # None
  /\ ongoingTaskAllocationMap' = [ongoingTaskAllocationMap EXCEPT ![w] = None]
  /\ Hold(t, "add", w, ongoingTaskAllocationMap'[w])
  /\ UNCHANGED <<incompleteTasks, history>>

(* deallocateTask up to ongoingTaskAllocationMap.remove(). *)
DeallocateRemove(t, w) ==
  /\ Enter(t)
  /\ ongoingTaskAllocationMap[w] # None
  /\ ongoingTaskAllocationMap' = [ongoingTaskAllocationMap EXCEPT ![w] = None]
  /\ Hold(t, "add", w, ongoingTaskAllocationMap[w])
  /\ UNCHANGED <<incompleteTasks, history>>

MutDeallocateAddFirst(t) ==
  /\ pc[t] = "add"
  /\ incompleteTasks' = <<inputFile[t]>> \o incompleteTasks
  /\ Leave(t)
  /\ UNCHANGED <<ongoingTaskAllocationMap, history>>

(* deallocateTask, from incompleteTasks.add() to the return. *)
DeallocateAdd(t) ==
  /\ pc[t] = "add"
  /\ incompleteTasks' = Append(incompleteTasks, inputFile[t])
  /\ Leave(t)
  /\ UNCHANGED <<ongoingTaskAllocationMap, history>>

MutMarkWithoutRemove(t, w) ==
  /\ Enter(t)
  /\ ongoingTaskAllocationMap[w] # None
  /\ completed' = completed \union {ongoingTaskAllocationMap[w]}
  /\ UNCHANGED <<pools, monitor, locals, announced>>

(* markTaskCompleted: whatever task the worker id has now is dropped. *)
MarkTaskCompleted(t, w) ==
  /\ Enter(t)
  /\ ongoingTaskAllocationMap[w] # None
  /\ completed' = completed \union {ongoingTaskAllocationMap[w]}
  /\ ongoingTaskAllocationMap' = [ongoingTaskAllocationMap EXCEPT ![w] = None]
  /\ UNCHANGED <<incompleteTasks, monitor, locals, announced>>

(* areAllTasksCompleted, unsynchronized, first read: incompleteTasks is    *)
(* empty.  (When it is not, the method returns false and nothing changes.) *)
CompletedFirstRead(t) ==
  /\ pc[t] = "idle"
  /\ incompleteTasks = <<>>
  /\ pc' = [pc EXCEPT ![t] = "checking"]
  /\ UNCHANGED <<pools, monitor, workerId, inputFile, history>>

MutCompletedQueueOnly(t) ==
  /\ pc[t] = "checking"
  /\ announced' = TRUE
  /\ pc' = [pc EXCEPT ![t] = "idle"]
  /\ UNCHANGED <<pools, monitor, workerId, inputFile, completed>>

(* areAllTasksCompleted, second read: ongoingTaskAllocationMap.isEmpty()   *)
(* is the answer.                                                          *)
CompletedSecondRead(t) ==
  /\ pc[t] = "checking"
  /\ announced' = (announced \/ Ongoing = {})
  /\ pc' = [pc EXCEPT ![t] = "idle"]
  /\ UNCHANGED <<pools, monitor, workerId, inputFile, completed>>

CallOn(t, w) ==
  \/ AllocateSame(t, w)
  \/ AllocateNone(t, w)
  \/ AllocatePoll(t, w)
  \/ NothingAllocated(t, w)
  \/ DeallocateRemove(t, w)
  \/ MarkTaskCompleted(t, w)

Step(t) ==
  \/ AllocatePut(t)
  \/ DeallocateAdd(t)
  \/ CompletedFirstRead(t)
  \/ CompletedSecondRead(t)

Next == \E t \in Thread : Step(t) \/ \E w \in Worker : CallOn(t, w)

Spec == Init /\ [][Next]_vars

(* A thread in a method always finishes it.  Workers that wait keep asking *)
(* every WORKER_WAIT_TIME_FOR_AVAILABILITY, so an allocation that is       *)
(* possible again and again is made; and a worker with a task reports      *)
(* success or is lost.                                                     *)
Fairness ==
  /\ \A t \in Thread :
       WF_vars(AllocatePut(t) \/ DeallocateAdd(t) \/ CompletedSecondRead(t))
  /\ SF_vars(\E t \in Thread, w \in Worker : AllocatePoll(t, w))
  /\ \A w \in Worker :
       SF_vars(\E t \in Thread : DeallocateRemove(t, w) \/ MarkTaskCompleted(t, w))

FairSpec == Spec /\ Fairness
-----------------------------------------------------------------------------
(* Type invariant of the module. *)
TypeOK ==
  /\ incompleteTasks \in Seq(Task)
  /\ ongoingTaskAllocationMap \in [Worker -> Task \union {None}]
  /\ monitor \in Thread \union {None}
  /\ pc \in [Thread -> {"idle", "put", "add", "checking"}]
  /\ workerId \in [Thread -> Worker \union {None}]
  /\ inputFile \in [Thread -> Task \union {None}]
  /\ completed \in SUBSET Task
  /\ announced \in BOOLEAN

(* A thread is between the two accesses of a synchronized method exactly   *)
(* when it owns the monitor, and only then it has a task in its hands,     *)
(* for a worker whose map entry is vacant: `synchronized` in TaskManager.  *)
MonitorOwnership ==
  \A t \in Thread :
    /\ pc[t] \in {"put", "add"} <=> monitor = t
    /\ pc[t] \in {"put", "add"} <=> inputFile[t] # None
    /\ pc[t] \in {"put", "add"} <=> workerId[t] # None
    /\ monitor = t => ongoingTaskAllocationMap[workerId[t]] = None

(* No task is lost and none is duplicated, in the middle of any operation  *)
(* too: every input file is queued once, or ongoing for one worker, or in  *)
(* the hands of one thread, or completed (the incompleteTasks queue and    *)
(* the ongoingTaskAllocationMap of TaskManager together).                  *)
TaskConservation ==
  /\ Task = Queued \union Ongoing \union Moving \union completed
  /\ Queued \intersect (Ongoing \union Moving \union completed) = {}
  /\ Ongoing \intersect (Moving \union completed) = {}
  /\ Moving \intersect completed = {}
  /\ \A i, j \in DOMAIN incompleteTasks :
       incompleteTasks[i] = incompleteTasks[j] => i = j
  /\ \A v, w \in Worker :
       ongoingTaskAllocationMap[v] = ongoingTaskAllocationMap[w] =>
         v = w \/ ongoingTaskAllocationMap[v] = None

(* areAllTasksCompleted reads the queue and the map without the monitor.   *)
(* Its answer true can be wrong, but only while another thread is between  *)
(* the two accesses of an allocation or a deallocation, or when a          *)
(* deallocation has refilled the queue after it was read: reading the      *)
(* queue before the map rules out every other wrong answer.                *)
WrongOnlyWhileTasksMove ==
  [][~announced /\ announced' =>
       completed = Task \/ monitor # None \/ incompleteTasks # <<>>]_vars

(* ITaskManager: areAllTasksCompleted is true "when all tasks are notified *)
(* by the workers to be completed".                                        *)
AnnouncedOnlyWhenCompleted == announced => completed = Task

(* The atomic task pool: a polled task counts as available until it is in  *)
(* the map, a removed one as assigned until it is back in the queue.       *)
AvailableOrPolled == Queued \union {inputFile[t] : t \in {u \in Thread : pc[u] = "put"}}

AssignedOrRemoved(w) ==
  IF monitor # None /\ pc[monitor] = "add" /\ workerId[monitor] = w
  THEN inputFile[monitor] ELSE ongoingTaskAllocationMap[w]

Pool == INSTANCE TaskPool WITH
  available <- AvailableOrPolled,
  assigned <- [w \in Worker |-> AssignedOrRemoved(w)]

(* Every step of TaskManager is one atomic operation of the task pool, or  *)
(* none: threads cannot tell that its operations have several steps.       *)
PoolSpec == Pool!Spec

(* ITaskManager: "Tasks should be given in FIFO manner to prevent          *)
(* starvation".  A queued task is allocated eventually, however often      *)
(* other tasks are returned to the queue by workers that fail.             *)
StarvationFree == \A f \in Task : f \in Queued ~> f \notin Queued
=============================================================================
