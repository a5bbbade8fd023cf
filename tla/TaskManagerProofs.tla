------------------------- MODULE TaskManagerProofs -------------------------
(* Theorems about TaskManager, for any threads, workers and input files. *)
EXTENDS TaskManager, Queues, TLAPS

(* TypeOK alone is not inductive: that the file deallocateTask adds is a   *)
(* task, and not null, follows from MonitorOwnership.                      *)
OwnInv == TypeOK /\ MonitorOwnership

(* The inductive invariant: it holds initially, and every step keeps it.   *)
LEMMA InitOwnInv == Init => OwnInv
<1> SUFFICES ASSUME Init PROVE OwnInv
  OBVIOUS
<1>1. None \notin Thread /\ inputFiles \in Seq(Task)
  BY TaskManagerAssumption DEF TaskManagerAssumption
<1>2. TypeOK
  BY <1>1 DEF Init, TypeOK
<1>3. MonitorOwnership
  BY <1>1 DEF Init, MonitorOwnership
<1> QED BY <1>2, <1>3 DEF OwnInv

(* Every action preserves the types and the ownership of the monitor. *)
LEMMA NextOwnInv == OwnInv /\ [Next]_vars => OwnInv'
<1> SUFFICES ASSUME OwnInv, [Next]_vars
             PROVE  OwnInv'
  OBVIOUS
<1> USE TaskManagerAssumption
    DEF TaskManagerAssumption, OwnInv, TypeOK, MonitorOwnership,
        Enter, Hold, Leave, pools, locals, history
<1>1. ASSUME NEW t \in Thread, NEW w \in Worker, CallOn(t, w)
      PROVE  OwnInv'
  <2>1. CASE AllocateSame(t, w) \/ AllocateNone(t, w) \/ NothingAllocated(t, w)
    BY <2>1 DEF AllocateSame, AllocateNone, NothingAllocated, vars
  <2>2. CASE AllocatePoll(t, w)
    <3>1. Head(incompleteTasks) \in Task /\ Tail(incompleteTasks) \in Seq(Task)
      BY <2>2 DEF AllocatePoll, isAnyTaskAvailable
    <3> QED BY <2>2, <3>1 DEF AllocatePoll
  <2>3. CASE DeallocateRemove(t, w)
    BY <2>3 DEF DeallocateRemove
  <2>4. CASE MarkTaskCompleted(t, w)
    BY <2>4 DEF MarkTaskCompleted
  <2> QED BY <1>1, <2>1, <2>2, <2>3, <2>4 DEF CallOn
<1>2. ASSUME NEW t \in Thread, Step(t)
      PROVE  OwnInv'
  <2>1. CASE AllocatePut(t)
    BY <2>1 DEF AllocatePut
  <2>2. CASE DeallocateAdd(t)
    <3>1. Append(incompleteTasks, inputFile[t]) \in Seq(Task)
      BY <2>2 DEF DeallocateAdd
    <3> QED BY <2>2, <3>1 DEF DeallocateAdd
  <2>3. CASE CompletedFirstRead(t)
    BY <2>3 DEF CompletedFirstRead
  <2>4. CASE CompletedSecondRead(t)
    BY <2>4 DEF CompletedSecondRead
  <2> QED BY <1>2, <2>1, <2>2, <2>3, <2>4 DEF Step
<1>3. CASE UNCHANGED vars
  BY <1>3 DEF vars
<1> QED BY <1>1, <1>2, <1>3 DEF Next

(* TypeOK and MonitorOwnership hold in every reachable state: the three    *)
(* synchronized methods of TaskManager exclude each other.                 *)
THEOREM Ownership == Spec => []OwnInv
BY InitOwnInv, NextOwnInv, PTL DEF Spec

(* While a thread is between two accesses of a synchronized method no      *)
(* other thread is in one, and it alone has a task in its hands.           *)
THEOREM Exclusion == Spec => []MonitorOwnership
<1>1. OwnInv => MonitorOwnership
  BY DEF OwnInv
<1> QED BY <1>1, Ownership, PTL

(* The type invariant of TaskManager. *)
THEOREM TypeCorrect == Spec => []TypeOK
<1>1. OwnInv => TypeOK
  BY DEF OwnInv
<1> QED BY <1>1, Ownership, PTL
-----------------------------------------------------------------------------
(* The hands of the threads: empty while the monitor is free, and holding  *)
(* one task when a thread owns it.                                         *)
LEMMA HandsOfOwner ==
  ASSUME OwnInv
  PROVE  /\ monitor = None => Moving = {}
         /\ \A t \in Thread : monitor = t => Moving = {inputFile[t]}
                                           /\ inputFile[t] \in Task
BY TaskManagerAssumption
DEF TaskManagerAssumption, OwnInv, TypeOK, MonitorOwnership, Moving

(* put: a worker without a task gets one; the map stays injective.         *)
LEMMA PutOngoing ==
  ASSUME TypeOK, TaskConservation,
         NEW w \in Worker, ongoingTaskAllocationMap[w] = None,
         NEW f \in Task, f \notin Ongoing,
         ongoingTaskAllocationMap' = [ongoingTaskAllocationMap EXCEPT ![w] = f]
  PROVE  /\ Ongoing' = Ongoing \union {f}
         /\ \A u, v \in Worker :
              ongoingTaskAllocationMap'[u] = ongoingTaskAllocationMap'[v] =>
                u = v \/ ongoingTaskAllocationMap'[u] = None
<1>1. None \notin Task
  BY TaskManagerAssumption DEF TaskManagerAssumption
<1>2. Ongoing' = Ongoing \union {f}
  BY <1>1 DEF Ongoing, TypeOK
<1>3. ASSUME NEW u \in Worker, NEW v \in Worker, u # v,
             ongoingTaskAllocationMap'[u] = ongoingTaskAllocationMap'[v]
      PROVE  ongoingTaskAllocationMap'[u] = None
  BY <1>1, <1>3 DEF Ongoing, TypeOK, TaskConservation
<1> QED BY <1>2, <1>3

(* remove: the task of one worker leaves the map, and no other task does.  *)
LEMMA RemoveOngoing ==
  ASSUME TypeOK, TaskConservation,
         NEW w \in Worker, ongoingTaskAllocationMap[w] # None,
         ongoingTaskAllocationMap' = [ongoingTaskAllocationMap EXCEPT ![w] = None]
  PROVE  /\ ongoingTaskAllocationMap[w] \in Ongoing
         /\ Ongoing' = Ongoing \ {ongoingTaskAllocationMap[w]}
         /\ \A u, v \in Worker :
              ongoingTaskAllocationMap'[u] = ongoingTaskAllocationMap'[v] =>
                u = v \/ ongoingTaskAllocationMap'[u] = None
BY DEF Ongoing, TypeOK, TaskConservation

(* At first every task is in the queue.                                    *)
LEMMA InitConservation == Init => TaskConservation
<1> SUFFICES ASSUME Init PROVE TaskConservation
  OBVIOUS
<1>1. Queued = Task
  BY TaskManagerAssumption DEF TaskManagerAssumption, Init, Queued
<1>2. Ongoing = {} /\ Moving = {} /\ completed = {}
  BY DEF Init, Ongoing, Moving
<1>3. /\ \A i, j \in DOMAIN incompleteTasks :
            incompleteTasks[i] = incompleteTasks[j] => i = j
      /\ \A v, w \in Worker : ongoingTaskAllocationMap[v] = None
  BY TaskManagerAssumption DEF TaskManagerAssumption, Init
<1> QED BY <1>1, <1>2, <1>3 DEF TaskConservation

(* The five steps that move a task, one by one.  Each names where the task *)
(* was and where it is now; everything else is where it was.               *)
LEMMA MoveConservation ==
  ASSUME OwnInv, OwnInv', TaskConservation, NEW t \in Thread,
         \/ AllocatePut(t)
         \/ DeallocateAdd(t)
         \/ \E w \in Worker : \/ AllocatePoll(t, w)
                             \/ DeallocateRemove(t, w)
                             \/ MarkTaskCompleted(t, w)
  PROVE  TaskConservation'
<1> USE DEF OwnInv, pools, locals, history
<1>a. /\ Queued = Elements(incompleteTasks)
      /\ Queued' = Elements(incompleteTasks')
      /\ NoRepetition(incompleteTasks)
  BY DEF Queued, Elements, NoRepetition, TaskConservation
<1>b. /\ incompleteTasks \in Seq(Task)
      /\ completed \subseteq Task
      /\ None \notin Thread
  BY TaskManagerAssumption DEF TypeOK, TaskManagerAssumption
<1>c. /\ monitor = None => Moving = {}
      /\ monitor = t => Moving = {inputFile[t]} /\ inputFile[t] \in Task
  BY HandsOfOwner
<1>d. /\ monitor' = None => Moving' = {}
      /\ monitor' = t => Moving' = {inputFile'[t]}
  BY TaskManagerAssumption
  DEF TaskManagerAssumption, TypeOK, MonitorOwnership, Moving
<1>1. ASSUME NEW w \in Worker, AllocatePoll(t, w)
      PROVE  TaskConservation'
  <2>1. /\ incompleteTasks # <<>>
        /\ incompleteTasks' = Tail(incompleteTasks)
        /\ Ongoing' = Ongoing /\ completed' = completed
        /\ ongoingTaskAllocationMap' = ongoingTaskAllocationMap
        /\ monitor = None /\ monitor' = t
        /\ inputFile'[t] = Head(incompleteTasks)
    BY <1>1 DEF AllocatePoll, isAnyTaskAvailable, Enter, Hold, Ongoing, TypeOK
  <2>2. /\ Moving = {} /\ Moving' = {Head(incompleteTasks)}
        /\ Head(incompleteTasks) \in Queued
        /\ Queued' = Queued \ {Head(incompleteTasks)}
        /\ NoRepetition(incompleteTasks')
    BY <2>1, <1>a, <1>b, <1>c, <1>d, PollElements
  <2> QED BY <2>1, <2>2 DEF TaskConservation, NoRepetition
<1>2. ASSUME AllocatePut(t)
      PROVE  TaskConservation'
  <2>1. /\ monitor = t /\ monitor' = None
        /\ workerId[t] \in Worker
        /\ ongoingTaskAllocationMap[workerId[t]] = None
        /\ ongoingTaskAllocationMap' =
             [ongoingTaskAllocationMap EXCEPT ![workerId[t]] = inputFile[t]]
        /\ incompleteTasks' = incompleteTasks /\ completed' = completed
    BY <1>2 DEF AllocatePut, Leave, TypeOK, MonitorOwnership
  <2>2. Moving = {inputFile[t]} /\ inputFile[t] \in Task /\ Moving' = {}
    BY <2>1, <1>c, <1>d
  <2>3. inputFile[t] \notin Ongoing
    BY <2>2 DEF TaskConservation
  <2>4. /\ Ongoing' = Ongoing \union {inputFile[t]}
        /\ \A u, v \in Worker :
             ongoingTaskAllocationMap'[u] = ongoingTaskAllocationMap'[v] =>
               u = v \/ ongoingTaskAllocationMap'[u] = None
    BY <2>1, <2>2, <2>3, PutOngoing
  <2>5. Queued' = Queued
    BY <2>1 DEF Queued
  <2> QED BY <2>1, <2>2, <2>4, <2>5 DEF TaskConservation
<1>3. ASSUME NEW w \in Worker, DeallocateRemove(t, w)
      PROVE  TaskConservation'
  <2>1. /\ monitor = None /\ monitor' = t
        /\ ongoingTaskAllocationMap[w] # None
        /\ ongoingTaskAllocationMap' = [ongoingTaskAllocationMap EXCEPT ![w] = None]
        /\ inputFile'[t] = ongoingTaskAllocationMap[w]
        /\ incompleteTasks' = incompleteTasks /\ completed' = completed
    BY <1>3 DEF DeallocateRemove, Enter, Hold, TypeOK
  <2>2. Moving = {} /\ Moving' = {ongoingTaskAllocationMap[w]}
    BY <2>1, <1>c, <1>d
  <2>3. /\ ongoingTaskAllocationMap[w] \in Ongoing
        /\ Ongoing' = Ongoing \ {ongoingTaskAllocationMap[w]}
        /\ \A u, v \in Worker :
             ongoingTaskAllocationMap'[u] = ongoingTaskAllocationMap'[v] =>
               u = v \/ ongoingTaskAllocationMap'[u] = None
    BY <2>1, RemoveOngoing
  <2>4. Queued' = Queued
    BY <2>1 DEF Queued
  <2> QED BY <2>1, <2>2, <2>3, <2>4 DEF TaskConservation
<1>4. ASSUME DeallocateAdd(t)
      PROVE  TaskConservation'
  <2>1. /\ monitor = t /\ monitor' = None
        /\ incompleteTasks' = Append(incompleteTasks, inputFile[t])
        /\ ongoingTaskAllocationMap' = ongoingTaskAllocationMap
        /\ Ongoing' = Ongoing /\ completed' = completed
    BY <1>4 DEF DeallocateAdd, Leave, TypeOK, MonitorOwnership, Ongoing
  <2>2. Moving = {inputFile[t]} /\ inputFile[t] \in Task /\ Moving' = {}
    BY <2>1, <1>c, <1>d
  <2>3. inputFile[t] \notin Queued
    BY <2>2 DEF TaskConservation
  <2>4. /\ Queued' = Queued \union {inputFile[t]}
        /\ NoRepetition(incompleteTasks')
    BY <2>1, <2>2, <2>3, <1>a, <1>b, AddElements
  <2> QED BY <2>1, <2>2, <2>4 DEF TaskConservation, NoRepetition
<1>5. ASSUME NEW w \in Worker, MarkTaskCompleted(t, w)
      PROVE  TaskConservation'
  <2>1. /\ ongoingTaskAllocationMap[w] # None
        /\ ongoingTaskAllocationMap' = [ongoingTaskAllocationMap EXCEPT ![w] = None]
        /\ completed' = completed \union {ongoingTaskAllocationMap[w]}
        /\ incompleteTasks' = incompleteTasks
        /\ Queued' = Queued /\ Moving' = Moving
    BY <1>5 DEF MarkTaskCompleted, Queued, Moving
  <2>2. /\ ongoingTaskAllocationMap[w] \in Ongoing
        /\ Ongoing' = Ongoing \ {ongoingTaskAllocationMap[w]}
        /\ \A u, v \in Worker :
             ongoingTaskAllocationMap'[u] = ongoingTaskAllocationMap'[v] =>
               u = v \/ ongoingTaskAllocationMap'[u] = None
    BY <2>1, RemoveOngoing
  <2> QED BY <2>1, <2>2 DEF TaskConservation
<1> QED BY <1>1, <1>2, <1>3, <1>4, <1>5

(* Every other step leaves every task where it is. *)
LEMMA NextConservation ==
  OwnInv /\ OwnInv' /\ TaskConservation /\ [Next]_vars => TaskConservation'
<1> SUFFICES ASSUME OwnInv, OwnInv', TaskConservation, [Next]_vars
             PROVE  TaskConservation'
  OBVIOUS
<1>1. ASSUME incompleteTasks' = incompleteTasks, completed' = completed,
             ongoingTaskAllocationMap' = ongoingTaskAllocationMap,
             inputFile' = inputFile
      PROVE  TaskConservation'
  BY <1>1 DEF TaskConservation, Queued, Ongoing, Moving
<1>2. ASSUME NEW t \in Thread, NEW w \in Worker, CallOn(t, w)
      PROVE  TaskConservation'
  <2>1. CASE AllocateSame(t, w) \/ AllocateNone(t, w) \/ NothingAllocated(t, w)
    BY <1>1, <2>1 DEF AllocateSame, AllocateNone, NothingAllocated,
                      vars, pools, locals, history
  <2> QED BY <1>2, <2>1, MoveConservation DEF CallOn
<1>3. ASSUME NEW t \in Thread, Step(t)
      PROVE  TaskConservation'
  <2>1. CASE CompletedFirstRead(t) \/ CompletedSecondRead(t)
    BY <1>1, <2>1 DEF CompletedFirstRead, CompletedSecondRead, pools, history
  <2> QED BY <1>3, <2>1, MoveConservation DEF Step
<1>4. CASE UNCHANGED vars
  BY <1>1, <1>4 DEF vars, pools, locals, history
<1> QED BY <1>2, <1>3, <1>4 DEF Next

(* No task is ever lost or duplicated, however the threads interleave and  *)
(* whichever workers are lost.                                             *)
THEOREM Conservation == Spec => []TaskConservation
BY InitConservation, NextConservation, Ownership, PTL DEF Spec

(* A wrong answer true of areAllTasksCompleted needs a task in motion: if  *)
(* the monitor is free, the queue is empty and the map is empty, then by   *)
(* conservation every task is completed.                                   *)
THEOREM WrongAnswerNeedsMove == Spec => WrongOnlyWhileTasksMove
<1>1. ASSUME OwnInv, TaskConservation, [Next]_vars
      PROVE  [~announced /\ announced' =>
                completed = Task \/ monitor # None \/ incompleteTasks # <<>>]_vars
  <2> SUFFICES ASSUME ~announced, announced', Next,
                      monitor = None, incompleteTasks = <<>>
               PROVE  completed = Task
    BY <1>1
  <2>1. PICK t \in Thread : Step(t) \/ \E w \in Worker : CallOn(t, w)
    BY DEF Next
  <2>2. CompletedSecondRead(t)
    BY <2>1 DEF Step, CallOn, AllocateSame, AllocateNone, AllocatePoll,
                NothingAllocated, DeallocateRemove, MarkTaskCompleted, AllocatePut,
                DeallocateAdd, CompletedFirstRead, vars, history
  <2>3. Ongoing = {}
    BY <2>2 DEF CompletedSecondRead
  <2>4. Queued = {}
    BY DEF Queued
  <2>5. Moving = {}
    BY <1>1, HandsOfOwner
  <2> QED BY <1>1, <2>3, <2>4, <2>5 DEF TaskConservation
<1> QED BY <1>1, Ownership, Conservation, PTL DEF Spec, WrongOnlyWhileTasksMove
-----------------------------------------------------------------------------
(* The refinement mapping, by what the owner of the monitor is doing. *)
MappedMap == [w \in Worker |-> AssignedOrRemoved(w)]

(* Nobody is between two accesses. *)
MappingAtRest ==
  monitor = None => /\ AvailableOrPolled = Queued
                    /\ MappedMap = ongoingTaskAllocationMap

(* The owner has polled a task that it has not put yet. *)
MappingPolled ==
  \A t \in Thread : pc[t] = "put" =>
    /\ AvailableOrPolled = Queued \union {inputFile[t]}
    /\ MappedMap = ongoingTaskAllocationMap

(* The owner has removed a task that it has not added yet. *)
MappingRemoved ==
  \A t \in Thread : pc[t] = "add" =>
    /\ AvailableOrPolled = Queued
    /\ MappedMap = [ongoingTaskAllocationMap EXCEPT ![workerId[t]] = inputFile[t]]

(* The three lines of the mapping follow from who owns the monitor.        *)
LEMMA Mapping == OwnInv => MappingAtRest /\ MappingPolled /\ MappingRemoved
<1> SUFFICES ASSUME OwnInv
             PROVE  MappingAtRest /\ MappingPolled /\ MappingRemoved
  OBVIOUS
<1> USE DEF OwnInv, TypeOK, MonitorOwnership
<1>0. None \notin Thread
  BY TaskManagerAssumption DEF TaskManagerAssumption
<1>1. ASSUME \A t \in Thread : pc[t] # "add"
      PROVE  MappedMap = ongoingTaskAllocationMap
  <2>1. \A w \in Worker : AssignedOrRemoved(w) = ongoingTaskAllocationMap[w]
    BY <1>1 DEF AssignedOrRemoved
  <2> QED BY <2>1 DEF MappedMap
<1>2. ASSUME \A t \in Thread : pc[t] # "put"
      PROVE  AvailableOrPolled = Queued
  BY <1>2 DEF AvailableOrPolled
<1>3. MappingAtRest
  BY <1>0, <1>1, <1>2 DEF MappingAtRest
<1>4. MappingPolled
  <2> SUFFICES ASSUME NEW t \in Thread, pc[t] = "put"
               PROVE  /\ AvailableOrPolled = Queued \union {inputFile[t]}
                      /\ MappedMap = ongoingTaskAllocationMap
    BY DEF MappingPolled
  <2>1. \A u \in Thread : u # t => pc[u] \notin {"put", "add"}
    BY <1>0
  <2>2. {u \in Thread : pc[u] = "put"} = {t}
    BY <2>1
  <2> QED BY <1>1, <2>1, <2>2 DEF AvailableOrPolled
<1>5. MappingRemoved
  <2> SUFFICES ASSUME NEW t \in Thread, pc[t] = "add"
               PROVE  /\ AvailableOrPolled = Queued
                      /\ MappedMap = [ongoingTaskAllocationMap EXCEPT ![workerId[t]] = inputFile[t]]
    BY DEF MappingRemoved
  <2>1. \A u \in Thread : u # t => pc[u] \notin {"put", "add"}
    BY <1>0
  <2>2. ASSUME NEW w \in Worker
        PROVE  AssignedOrRemoved(w) =
                 IF w = workerId[t] THEN inputFile[t] ELSE ongoingTaskAllocationMap[w]
    <3>1. monitor = t
      OBVIOUS
    <3>2. monitor # None
      BY <3>1, <1>0
    <3> QED BY <3>1, <3>2 DEF AssignedOrRemoved
  <2>3. MappedMap = [w \in Worker |-> IF w = workerId[t] THEN inputFile[t]
                                      ELSE ongoingTaskAllocationMap[w]]
    BY <2>2 DEF MappedMap
  <2>4. DOMAIN ongoingTaskAllocationMap = Worker
    OBVIOUS
  <2>5. MappedMap = [ongoingTaskAllocationMap EXCEPT ![workerId[t]] = inputFile[t]]
    BY <2>3, <2>4
  <2> QED BY <1>2, <2>1, <2>5
<1> QED BY <1>3, <1>4, <1>5

(* The initial state maps to that of the pool.                             *)
LEMMA InitPool == Init => Pool!Init
<1> SUFFICES ASSUME Init PROVE Pool!Init
  OBVIOUS
<1>1. monitor = None /\ OwnInv
  BY InitOwnInv DEF Init
<1>2. AvailableOrPolled = Queued /\ MappedMap = ongoingTaskAllocationMap
  BY <1>1, Mapping DEF MappingAtRest
<1>3. Queued = Task
  BY TaskManagerAssumption DEF TaskManagerAssumption, Init, Queued
<1> QED BY <1>2, <1>3 DEF Pool!Init, Init, MappedMap

(* Each step of TaskManager is one operation of the pool or none: the put  *)
(* is the allocation, the add is the deallocation, and the poll and the    *)
(* remove before them change nothing that the pool sees.                   *)
LEMMA StepPool ==
  OwnInv /\ OwnInv' /\ TaskConservation /\ [Next]_vars => [Pool!Next]_(Pool!vars)
<1> SUFFICES ASSUME OwnInv, OwnInv', TaskConservation, [Next]_vars
             PROVE  Pool!Next \/ UNCHANGED <<AvailableOrPolled, MappedMap, completed>>
  BY DEF Pool!vars, MappedMap
<1> USE DEF OwnInv, pools, locals, history
<1>a. MappingAtRest /\ MappingPolled /\ MappingRemoved
  BY Mapping
<1>b. (OwnInv => MappingAtRest /\ MappingPolled /\ MappingRemoved)'
  BY Mapping, PTL
<1>c. /\ Queued = Elements(incompleteTasks)
      /\ Queued' = Elements(incompleteTasks')
      /\ NoRepetition(incompleteTasks)
      /\ incompleteTasks \in Seq(Task)
  BY DEF Queued, Elements, NoRepetition, TaskConservation, TypeOK
<1>d. None \notin Thread /\ None \notin Task
  BY TaskManagerAssumption DEF TaskManagerAssumption
<1>1. ASSUME NEW t \in Thread, NEW w \in Worker, CallOn(t, w)
      PROVE  Pool!Next \/ UNCHANGED <<AvailableOrPolled, MappedMap, completed>>
  <2>1. CASE AllocateSame(t, w) \/ AllocateNone(t, w) \/ NothingAllocated(t, w)
    <3>1. UNCHANGED vars
      BY <2>1 DEF AllocateSame, AllocateNone, NothingAllocated
    <3> QED BY <3>1 DEF vars, AvailableOrPolled, Queued, MappedMap, AssignedOrRemoved
  <2>2. CASE AllocatePoll(t, w)
    <3>1. /\ monitor = None
          /\ pc'[t] = "put" /\ inputFile'[t] = Head(incompleteTasks)
          /\ incompleteTasks # <<>> /\ incompleteTasks' = Tail(incompleteTasks)
          /\ ongoingTaskAllocationMap' = ongoingTaskAllocationMap
          /\ completed' = completed
      BY <2>2 DEF AllocatePoll, Enter, Hold, isAnyTaskAvailable, TypeOK
    <3>2. Head(incompleteTasks) \in Queued /\ Queued' = Queued \ {Head(incompleteTasks)}
      BY <3>1, <1>c, PollElements
    <3>3. AvailableOrPolled = Queued /\ MappedMap = ongoingTaskAllocationMap
      BY <3>1, <1>a DEF MappingAtRest
    <3>4. /\ AvailableOrPolled' = Queued' \union {inputFile'[t]}
          /\ MappedMap' = ongoingTaskAllocationMap'
      BY <3>1, <1>b DEF MappingPolled
    <3> QED BY <3>1, <3>2, <3>3, <3>4
  <2>3. CASE DeallocateRemove(t, w)
    <3>1. /\ monitor = None
          /\ pc'[t] = "add" /\ workerId'[t] = w
          /\ inputFile'[t] = ongoingTaskAllocationMap[w]
          /\ ongoingTaskAllocationMap' = [ongoingTaskAllocationMap EXCEPT ![w] = None]
          /\ completed' = completed /\ Queued' = Queued
      BY <2>3 DEF DeallocateRemove, Enter, Hold, TypeOK, Queued
    <3>2. AvailableOrPolled = Queued /\ MappedMap = ongoingTaskAllocationMap
      BY <3>1, <1>a DEF MappingAtRest
    <3>3. /\ AvailableOrPolled' = Queued'
          /\ MappedMap' = [ongoingTaskAllocationMap' EXCEPT ![w] = ongoingTaskAllocationMap[w]]
      BY <3>1, <1>b DEF MappingRemoved
    <3>4. MappedMap' = MappedMap
      BY <3>1, <3>2, <3>3 DEF TypeOK
    <3> QED BY <3>1, <3>2, <3>3, <3>4
  <2>4. CASE MarkTaskCompleted(t, w)
    <3>1. /\ monitor = None /\ monitor' = None
          /\ ongoingTaskAllocationMap[w] # None
          /\ ongoingTaskAllocationMap' = [ongoingTaskAllocationMap EXCEPT ![w] = None]
          /\ completed' = completed \union {ongoingTaskAllocationMap[w]}
          /\ Queued' = Queued
      BY <2>4 DEF MarkTaskCompleted, Enter, Queued
    <3>2. AvailableOrPolled = Queued /\ MappedMap = ongoingTaskAllocationMap
      BY <3>1, <1>a DEF MappingAtRest
    <3>3. AvailableOrPolled' = Queued' /\ MappedMap' = ongoingTaskAllocationMap'
      BY <3>1, <1>b DEF MappingAtRest
    <3>4. Pool!Complete(w)
      BY <3>1, <3>2, <3>3 DEF Pool!Complete, MappedMap
    <3> QED BY <3>4 DEF Pool!Next
  <2> QED BY <1>1, <2>1, <2>2, <2>3, <2>4 DEF CallOn
<1>2. ASSUME NEW t \in Thread, Step(t)
      PROVE  Pool!Next \/ UNCHANGED <<AvailableOrPolled, MappedMap, completed>>
  <2>1. CASE AllocatePut(t)
    <3> DEFINE w == workerId[t]
               f == inputFile[t]
    <3>1. /\ monitor = t /\ monitor' = None /\ pc[t] = "put"
          /\ w \in Worker /\ ongoingTaskAllocationMap[w] = None
          /\ ongoingTaskAllocationMap' = [ongoingTaskAllocationMap EXCEPT ![w] = f]
          /\ completed' = completed /\ Queued' = Queued
      BY <2>1 DEF AllocatePut, Leave, TypeOK, MonitorOwnership, Queued
    <3>2. f \notin Queued
      BY <3>1, HandsOfOwner DEF TaskConservation
    <3>3. AvailableOrPolled = Queued \union {f} /\ MappedMap = ongoingTaskAllocationMap
      BY <3>1, <1>a DEF MappingPolled
    <3>4. AvailableOrPolled' = Queued' /\ MappedMap' = ongoingTaskAllocationMap'
      BY <3>1, <1>b DEF MappingAtRest
    <3>5. Pool!Allocate(w)
      BY <3>1, <3>2, <3>3, <3>4 DEF Pool!Allocate, MappedMap
    <3> QED BY <3>1, <3>5 DEF Pool!Next
  <2>2. CASE DeallocateAdd(t)
    <3> DEFINE w == workerId[t]
               f == inputFile[t]
    <3>1. /\ monitor = t /\ monitor' = None /\ pc[t] = "add"
          /\ w \in Worker /\ ongoingTaskAllocationMap[w] = None
          /\ f \in Task
          /\ incompleteTasks' = Append(incompleteTasks, f)
          /\ ongoingTaskAllocationMap' = ongoingTaskAllocationMap
          /\ completed' = completed
      BY <2>2 DEF DeallocateAdd, Leave, TypeOK, MonitorOwnership
    <3>2. Queued' = Queued \union {f}
      BY <3>1, <1>c, AddElements
    <3>3. /\ AvailableOrPolled = Queued
          /\ MappedMap = [ongoingTaskAllocationMap EXCEPT ![w] = f]
      BY <3>1, <1>a DEF MappingRemoved
    <3>4. AvailableOrPolled' = Queued' /\ MappedMap' = ongoingTaskAllocationMap'
      BY <3>1, <1>b DEF MappingAtRest
    <3>5. MappedMap[w] = f /\ MappedMap' = [MappedMap EXCEPT ![w] = None]
      BY <3>1, <3>3, <3>4 DEF TypeOK
    <3>6. Pool!Deallocate(w)
      BY <1>d, <3>1, <3>2, <3>3, <3>4, <3>5 DEF Pool!Deallocate, MappedMap
    <3> QED BY <3>1, <3>6 DEF Pool!Next
  <2>3. CASE CompletedFirstRead(t) \/ CompletedSecondRead(t)
    <3>1. /\ \A u \in Thread : pc'[u] = "put" <=> pc[u] = "put"
          /\ \A u \in Thread : pc'[u] = "add" <=> pc[u] = "add"
          /\ UNCHANGED <<pools, workerId, inputFile, completed>>
      BY <2>3 DEF CompletedFirstRead, CompletedSecondRead, TypeOK
    <3>2. AvailableOrPolled' = AvailableOrPolled
      BY <3>1 DEF AvailableOrPolled, Queued
    <3>3. MappedMap' = MappedMap
      <4>1. CASE monitor = None
        BY <2>3, <3>1, <4>1 DEF MappedMap, AssignedOrRemoved,
                                CompletedFirstRead, CompletedSecondRead
      <4>2. CASE monitor # None
        BY <2>3, <3>1, <4>2 DEF MappedMap, AssignedOrRemoved, TypeOK,
                                CompletedFirstRead, CompletedSecondRead
      <4> QED BY <4>1, <4>2
    <3> QED BY <3>1, <3>2, <3>3
  <2> QED BY <1>2, <2>1, <2>2, <2>3 DEF Step
<1>3. CASE UNCHANGED vars
  BY <1>3 DEF vars, AvailableOrPolled, Queued, MappedMap, AssignedOrRemoved
<1> QED BY <1>1, <1>2, <1>3 DEF Next

(* TaskManager implements the atomic pool: however its threads interleave, *)
(* nobody can tell that an allocation or a deallocation has several steps. *)
THEOREM Refinement == Spec => PoolSpec
BY InitPool, StepPool, Ownership, Conservation, PTL DEF Spec, PoolSpec, Pool!Spec
=============================================================================
