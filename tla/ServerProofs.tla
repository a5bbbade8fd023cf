---------------------------- MODULE ServerProofs ----------------------------
(* Theorems about the server of TaskAllocation and its workers: types, what *)
(* each action amounts to, and how the task manager, the pool and the       *)
(* processes fit together, however slow the handlers are.                   *)
EXTENDS AllocationProofs, Queues, FiniteSetTheorems

(* The part of the state that is not the task manager's. *)
Types ==
  /\ main \in {"create", "loop", "accept", "stop", "returned"}
  /\ nextStop \in 0 .. Capacity
  /\ handler \in [Process -> {"none", "ask", "report", "mark", "check", "stop",
                              "query", "allocate"}]
  /\ client \in [Process -> {"unborn", "ask", "report", "await", "execute",
                             "store", "left", "dead"}]
  /\ task \in [Process -> Task \union {None}]
  /\ \A p \in Process : client[p] \in {"execute", "store", "report"} => task[p] # None
  /\ id \in [Process -> Id \union {None}]
  /\ activeWorkerPool \in [Id -> Process \union {None}]
  /\ vacantIds \in Seq(Id)
  /\ spawned \in 0 .. MaxSpawn
  /\ failed \in Id \union {None}
  /\ stage \in {"none", "stop", "create", "handBack"}
  /\ watcher \in [Process -> {"unborn", "registered", "forgotten", "missed", "ended"}]
  /\ misses \in Nat
  /\ resourceMonitor \in Process \union {Main, None}
  /\ heartbeatStopped \in BOOLEAN
  /\ executions \in [Task -> Nat]
  /\ output \in [Task -> {"absent", "broken", "complete"}]
  /\ faults \in [{"loss", "leave", "build", "write", "socket"} -> Nat]

(* null is no task, no worker id, no thread and no process. *)
LEMMA NoneIsNothing ==
  /\ None \notin Task /\ None \notin Id /\ None \notin Process /\ None \notin Thread
  /\ Main \notin Process /\ Watcher \notin Process /\ Main # Watcher
  /\ Capacity \in Nat /\ MaxSpawn \in Nat /\ Capacity <= MaxSpawn
BY AllocationAssumption, TasksAssumption
DEF AllocationAssumption, TM!TaskManagerAssumption, Id, Process, Thread

(* What the task manager's own invariant says, in the names used here. *)
LEMMA TaskManagerTypes ==
  ASSUME TMP!OwnInv
  PROVE  /\ TM!TypeOK
         /\ \A t \in Thread : pc[t] \in {"put", "add"} => inputFile[t] \in Task
BY DEF TMP!OwnInv, TMP!TypeOK, TMP!MonitorOwnership, TM!TypeOK

(* The types hold initially, and every step keeps them; one lemma per      *)
(* group of operations.                                                    *)
LEMMA InitTypes == Init => Types
<1> SUFFICES ASSUME Init PROVE Types
  OBVIOUS
<1> USE NoneIsNothing DEF Init
<1>1. \A w \in Id : w + 1 \in Process
  BY DEF Id, Process
<1>2. \A p \in Process : p <= Capacity => p - 1 \in Id
  BY DEF Id, Process
<1>3. activeWorkerPool \in [Id -> Process \union {None}]
  BY <1>1
<1>4. id \in [Process -> Id \union {None}]
  BY <1>2
<1>5. vacantIds \in Seq(Id) /\ spawned \in 0 .. MaxSpawn /\ nextStop \in 0 .. Capacity
  OBVIOUS
<1>6. faults \in [{"loss", "leave", "build", "write", "socket"} -> Nat]
  <2>1. PICK taken \in 0 .. MaxBadSockets :
          faults = [loss |-> 0, leave |-> 0, build |-> 0, write |-> 0, socket |-> taken]
    BY DEF Init
  <2> QED BY <2>1, AllocationAssumption DEF AllocationAssumption
<1>7. /\ handler \in [Process -> {"none"}] /\ client \in [Process -> {"ask", "unborn"}]
      /\ task \in [Process -> {None}]
      /\ executions \in [Task -> {0}] /\ output \in [Task -> {"absent"}]
      /\ watcher \in [Process -> {"registered", "unborn"}]
  OBVIOUS
<1> HIDE DEF Init
<1> QED BY <1>3, <1>4, <1>5, <1>6, <1>7 DEF Types, Init

(* The client, and the acceptance of its request. *)
LEMMA WorkTypes ==
  ASSUME Types, NEW p \in Process,
         \/ Work(p) \/ Leave(p) \/ StoreFails(p) \/ Accept(p) \/ AcceptBroken(p)
         \/ AskElsewhere(p)
  PROVE  Types'
<1> USE DEF Types, processVars, watchVars, stopVars, files, Fault
<1>1. CASE Request(p)
  <2>1. /\ handler' = [handler EXCEPT ![p] = client[p]]
        /\ client' = [client EXCEPT ![p] = "await"] /\ client[p] \in {"ask", "report"}
        /\ UNCHANGED <<main, nextStop, task, processVars, files, faults>>
    BY <1>1 DEF Request
  <2> QED BY <2>1
<1>2. CASE Leave(p)
  BY <1>2 DEF Leave
<1>3. CASE OpenOutput(p)
  BY <1>3 DEF OpenOutput, AfterTruncation
<1>4. CASE StoreWordCount(p)
  BY <1>4 DEF StoreWordCount, Executed
<1>5. CASE StoreFails(p)
  <2>1. faults' \in [{"loss", "leave", "build", "write", "socket"} -> Nat]
    BY <1>5 DEF StoreFails
  <2>2. executions' \in [Task -> Nat]
    BY <1>5 DEF StoreFails, Executed
  <2> QED BY <1>5, <2>1, <2>2 DEF StoreFails
<1>6. CASE Accept(p) \/ AcceptBroken(p)
  BY <1>6 DEF Accept, AcceptBroken, FirstStep
<1>7. CASE AskElsewhere(p)
  <2>1. /\ \/ \E f \in Task : /\ client' = [client EXCEPT ![p] = "execute"]
                             /\ task' = [task EXCEPT ![p] = f]
           \/ client' = [client EXCEPT ![p] = "ask"] /\ task' = task
        /\ UNCHANGED <<main, nextStop, handler, processVars, files, faults>>
    BY <1>7 DEF AskElsewhere
  <2>2. CASE client' = [client EXCEPT ![p] = "ask"] /\ task' = task
    BY <2>1, <2>2
  <2>3. CASE \E f \in Task : /\ client' = [client EXCEPT ![p] = "execute"]
                             /\ task' = [task EXCEPT ![p] = f]
    <3>1. PICK f \in Task : /\ client' = [client EXCEPT ![p] = "execute"]
                            /\ task' = [task EXCEPT ![p] = f]
      BY <2>3
    <3>2. /\ client' \in [Process -> {"unborn", "ask", "report", "await", "execute",
                                      "store", "left", "dead"}]
          /\ task' \in [Process -> Task \union {None}]
          /\ task'[p] = f /\ \A q \in Process \ {p} : client'[q] = client[q] /\ task'[q] = task[q]
      BY <3>1
    <3>3. \A q \in Process : client'[q] = "execute" => task'[q] # None
      BY <3>2, NoneIsNothing
    <3> QED BY <2>1, <3>2, <3>3
  <2> QED BY <2>1, <2>2, <2>3
<1> QED BY <1>1, <1>2, <1>3, <1>4, <1>5, <1>6, <1>7 DEF Work

(* The steps of the threads that wait. *)
LEMMA WaitingTypes ==
  ASSUME Types, Waiting
  PROVE  Types'
<1>1. /\ watcher' \in [Process -> {"unborn", "registered", "forgotten", "missed", "ended"}]
      /\ faults' \in [{"loss", "leave", "build", "write", "socket"} -> Nat]
  <2>1. faults' \in [{"loss", "leave", "build", "write", "socket"} -> Nat]
    <3>1. CASE faults' = [faults EXCEPT !["loss"] = @ + 1]
      BY <3>1 DEF Types
    <3>2. CASE faults' = faults
      BY <3>2 DEF Types
    <3> QED BY <3>1, <3>2, WaitingIsQuiet
  <2>2. CASE watcher' = watcher
    BY <2>1, <2>2 DEF Types
  <2>3. CASE \E p \in Process : watcher' = [watcher EXCEPT ![p] = "missed"]
    BY <2>1, <2>3 DEF Types
  <2> QED BY <2>2, <2>3, WaitingIsQuiet
<1>2. resourceMonitor' \in Process \union {Main, None} /\ heartbeatStopped' \in BOOLEAN
  BY DEF Types, Waiting, EnterStopNext, EnterStopWorker, EnterStop, StopHeartBeat, MissAnswer,
         SuspectWrongly, Miss, stopVars
<1> QED BY <1>1, <1>2, WaitingIsQuiet DEF Types, files

(* A worker that is stopped by anybody. *)
LEMMA KillTypes ==
  ASSUME Types, NEW w \in Id, Kill(w), WP!Remove(w),
         UNCHANGED <<main, task, id, failed, misses, files, faults>>,
         resourceMonitor' \in {resourceMonitor, None}, heartbeatStopped' \in BOOLEAN,
         handler' = handler \/ \E p \in Process : handler' = [handler EXCEPT ![p] = "none"],
         stage' \in {stage, "create"}, nextStop' \in 0 .. Capacity
  PROVE  Types'
<1> USE DEF Types, files
<1>1. /\ client' = [client EXCEPT ![activeWorkerPool[w]] = "dead"]
      /\ activeWorkerPool' = [activeWorkerPool EXCEPT ![w] = None]
      /\ vacantIds' = Append(vacantIds, w)
      /\ spawned' = spawned
      /\ watcher' = [watcher EXCEPT ![activeWorkerPool[w]] =
                       IF @ = "registered" THEN "ended" ELSE @]
  BY DEF Kill, WP!Remove
<1>2. handler' \in [Process -> {"none", "ask", "report", "mark", "check", "stop",
                               "query", "allocate"}]
  OBVIOUS
<1>3. /\ client' \in [Process -> {"unborn", "ask", "report", "await", "execute",
                                  "store", "left", "dead"}]
      /\ \A p \in Process : client'[p] \in {client[p], "dead"}
  BY <1>1
<1>4. /\ activeWorkerPool' \in [Id -> Process \union {None}] /\ vacantIds' \in Seq(Id)
      /\ stage' \in {"none", "stop", "create", "handBack"}
  BY <1>1
<1>5. watcher' \in [Process -> {"unborn", "registered", "forgotten", "missed", "ended"}]
  BY <1>1
<1> QED BY <1>1, <1>2, <1>3, <1>4, <1>5

(* The handler of a request. *)
LEMMA HandleTypes ==
  ASSUME Types, CallInv, TMP!OwnInv, NEW p \in Process, Handle(p)
  PROVE  Types'
<1> USE DEF watchVars, stopVars
<1>1. CASE Mark(p) \/ CheckFirstRead(p) \/ CheckSecondRead(p)
  BY <1>1 DEF Types, processVars, files, Mark, CheckFirstRead, CheckSecondRead
<1>2. CASE StopWorker(p)
  <2>1. id[p] \in Id
    BY <1>2 DEF StopWorker, CallInv, Callers
  <2>2. CASE ExitStop(p, id[p])
    BY <1>2, <2>1, <2>2, KillTypes DEF StopWorker, ExitStop, WP!Stop, WP!failureVars, Types
  <2>3. CASE UNCHANGED <<client, processVars>>
    BY <1>2, <2>3 DEF Types, processVars, files, StopWorker
  <2> QED BY <1>2, <2>2, <2>3 DEF StopWorker
<1>3. CASE QueryAvailable(p)
  BY <1>3 DEF Types, processVars, files, QueryAvailable, AnswerWait
<1>4. CASE Allocate(p)
  <2> USE DEF Types, processVars, files
  <2>1. CASE TM!AllocateSame(p, id[p]) /\ AnswerTask(p, ongoingTaskAllocationMap[id[p]])
    <3>1. id[p] \in Id /\ ongoingTaskAllocationMap[id[p]] \in Task
      BY <1>4, <2>1, TaskManagerTypes
      DEF Allocate, CallInv, Callers, TM!AllocateSame, TM!TypeOK
    <3> QED BY <1>4, <2>1, <3>1, NoneIsNothing DEF Allocate, AnswerTask
  <2>2. CASE TM!AllocatePut(p) /\ AnswerTask(p, Given(p))
    <3>1. inputFile[p] \in Task
      BY <2>2, TaskManagerTypes DEF TM!AllocatePut, Thread
    <3> QED BY <1>4, <2>2, <3>1, NoneIsNothing DEF Allocate, AnswerTask, Given
  <2>3. CASE AnswerWait(p) \/ UNCHANGED <<handler, client, task>>
    BY <1>4, <2>3 DEF Allocate, AnswerWait
  <2> QED BY <1>4, <2>1, <2>2, <2>3 DEF Allocate
<1>5. CASE EnterStopWorker(p)
  BY <1>5, WaitingTypes DEF Waiting
<1> QED BY <1>1, <1>2, <1>3, <1>4, <1>5 DEF Handle

(* The main thread. *)
LEMMA ServeTypes ==
  ASSUME Types, Serve
  PROVE  Types'
<1>1. CASE StopNext
  <2>1. nextStop \in Id /\ ExitStop(Main, nextStop) /\ nextStop' = nextStop + 1
    BY <1>1 DEF StopNext
  <2>2. nextStop' \in 0 .. Capacity
    BY <2>1, NoneIsNothing DEF Id
  <2> QED BY <1>1, <2>1, <2>2, KillTypes DEF StopNext, ExitStop, WP!Stop, WP!failureVars
<1>2. CASE PassVacant
  <2>1. nextStop' \in 0 .. Capacity
    BY <1>2, NoneIsNothing DEF PassVacant, Id
  <2> QED BY <1>2, <2>1 DEF Types, processVars, watchVars, stopVars, files, PassVacant
<1>3. CASE Open \/ OpenFails \/ LoopFirstRead \/ LoopSecondRead \/ AcceptTimeout \/ Return
  BY <1>3
  DEF Types, processVars, watchVars, stopVars, files, Open, OpenFails, LoopFirstRead,
      LoopSecondRead, AcceptTimeout, Return
<1>4. CASE EnterStopNext
  BY <1>4, WaitingTypes DEF Waiting
<1> QED BY <1>1, <1>2, <1>3, <1>4 DEF Serve

(* Losses, and the handling of a failure. *)
LEMMA LossTypes ==
  ASSUME Types, CallInv,
         \/ \E p \in Process : Crash(p) \/ Notice(p)
         \/ HandleFailure \/ ReplaceFails
  PROVE  Types'
<1> USE DEF files, watchVars, stopVars
<1>1. ASSUME NEW p \in Process, Crash(p)
      PROVE  Types'
  BY <1>1 DEF Types, Crash, Fault, WP!Die, WP!failureVars
<1>2. ASSUME NEW p \in Process, Notice(p)
      PROVE  Types'
  <2>1. id[p] \in Id
    BY <1>2 DEF Notice, CallInv, Callers
  <2> QED BY <1>2, <2>1 DEF Types, Notice, WP!Notice, WP!poolVars
<1>3. CASE StopFailed
  <2>1. failed \in Id /\ failed' = failed
    BY <1>3 DEF StopFailed, WP!StopFailed, CallInv, Failures
  <2>2. CASE activeWorkerPool[failed] = None
    BY <1>3, <2>2 DEF Types, StopFailed, WP!StopFailed, WP!Remove, WP!poolVars, Kill
  <2>3. CASE activeWorkerPool[failed] # None
    BY <1>3, <2>1, <2>3, KillTypes DEF StopFailed, WP!StopFailed, Types
  <2> QED BY <2>2, <2>3
<1>4. CASE Deallocate
  BY <1>4 DEF Types, Deallocate, Update, EndHandling, WP!HandBack, WP!poolVars, processVars
<1>5. CASE ReplaceFails
  BY <1>5 DEF Types, ReplaceFails, Fault, WP!Abandon, WP!NoProcess
<1>6. CASE Replace
  <2>1. /\ spawned + 1 \in Process /\ spawned + 1 \in 0 .. MaxSpawn
        /\ Head(vacantIds) \in Id /\ Tail(vacantIds) \in Seq(Id)
    BY <1>6, NoneIsNothing DEF Replace, Types, Process
  <2> QED BY <1>6, <2>1 DEF Types, Replace, WP!Replace, WP!NewProcess
<1> QED BY <1>1, <1>2, <1>3, <1>4, <1>5, <1>6 DEF HandleFailure

(* Every step keeps the types.                                             *)
LEMMA NextTypes == TMP!OwnInv /\ CallInv /\ Types /\ [Next]_vars => Types'
<1> SUFFICES ASSUME TMP!OwnInv, CallInv, Types, [Next]_vars PROVE Types'
  OBVIOUS
<1>1. CASE UNCHANGED vars
  BY <1>1 DEF vars, processVars, watchVars, stopVars, files, Types
<1> QED BY <1>1, WorkTypes, HandleTypes, ServeTypes, WaitingTypes, LossTypes
        DEF Next, Misfortune, NoticeFailure, Waiting, Proceed

(* What holds in every state of the server without more ado. *)
THEOREM Foundation == Spec => [](TMP!OwnInv /\ TMP!TaskConservation /\ CallInv /\ Types)
<1>1. Spec => [](TMP!OwnInv /\ TMP!TaskConservation)
  BY TasksAssumption, UsesTaskManager, TMP!Ownership, TMP!Conservation, PTL
<1>2. Spec => []CallInv
  BY InitCallInv, NextCallInv, PTL DEF Spec
<1> QED BY <1>1, <1>2, InitTypes, NextTypes, PTL DEF Spec

(* Type correctness of the server, its handlers and its workers. *)
THEOREM AllocationTypeCorrect == Spec => []TypeOK
<1>1. TMP!OwnInv /\ Types => TypeOK
  BY TaskManagerTypes DEF Types, TypeOK
<1> QED BY <1>1, Foundation, PTL
-----------------------------------------------------------------------------
(* The actions of TaskAllocation in its own variables: what the operations *)
(* of the task manager and of the pool that they call amount to.           *)

Local == /\ TMP!OwnInv /\ CallInv /\ Types

(* What these invariants say about single values, ready to be cited.       *)
LEMMA LocalDomains ==
  ASSUME Local
  PROVE  /\ ongoingTaskAllocationMap \in [Id -> Task \union {None}]
         /\ incompleteTasks \in Seq(Task)
         /\ DOMAIN pc = Thread
         /\ workerId \in [Thread -> Id \union {None}]
         /\ inputFile \in [Thread -> Task \union {None}]
         /\ completed \subseteq Task
         /\ \A t \in Thread : pc[t] \in {"put", "add"} <=> monitor = t
         /\ \A t \in Thread : pc[t] \in {"put", "add"} <=> inputFile[t] # None
         /\ \A p \in Process : client[p] # "unborn" => id[p] \in Id
         /\ \A p \in Process : handler[p] # "none" => client[p] # "unborn"
BY DEF Local, TMP!OwnInv, TMP!TypeOK, TMP!MonitorOwnership, CallInv, Callers

(* A success is marked: whatever task the id has is completed. *)
LEMMA MarkEffect ==
  ASSUME Local, NEW p \in Process, Mark(p)
  PROVE  /\ handler[p] = "mark" /\ handler' = [handler EXCEPT ![p] = "check"]
         /\ id[p] \in Id
         /\ ongoingTaskAllocationMap' = [ongoingTaskAllocationMap EXCEPT ![id[p]] = None]
         /\ completed' = completed \union ({ongoingTaskAllocationMap[id[p]]} \ {None})
         /\ UNCHANGED <<incompleteTasks, monitor, pc, workerId, inputFile,
                        main, nextStop, client, task, processVars, files, faults>>
<1>1. id[p] \in Id /\ ongoingTaskAllocationMap \in [Id -> Task \union {None}]
  BY LocalDomains DEF Mark
<1>2. CASE TM!MarkTaskCompleted(p, id[p])
  BY <1>1, <1>2 DEF Mark, TM!MarkTaskCompleted, TM!Enter, TM!locals
<1>3. CASE TM!NothingAllocated(p, id[p])
  BY <1>1, <1>3
  DEF Mark, TM!NothingAllocated, TM!Enter, TM!vars, TM!pools, TM!locals, TM!history
<1> QED BY <1>2, <1>3 DEF Mark

(* The check for completion: "stop" is the answer when the map is empty.   *)
LEMMA CheckEffect ==
  ASSUME Local, NEW p \in Process, CheckFirstRead(p) \/ CheckSecondRead(p)
  PROVE  /\ handler[p] = "check"
         /\ \E a \in {"check", "query", "stop"} :
              /\ handler' = [handler EXCEPT ![p] = a]
              /\ a = "stop" => \A w \in Id : ongoingTaskAllocationMap[w] = None
         /\ pc[p] \in {"idle", "checking"} /\ pc'[p] \in {"idle", "checking"}
         /\ \A t \in Thread : t # p => pc'[t] = pc[t]
         /\ UNCHANGED <<incompleteTasks, ongoingTaskAllocationMap, monitor, workerId,
                        inputFile, completed, main, nextStop, client, task, processVars, files,
                        faults>>
<1>1. /\ handler \in [Process -> {"none", "ask", "report", "mark", "check", "stop",
                                 "query", "allocate"}]
      /\ p \in Thread /\ DOMAIN pc = Thread
  BY LocalDomains DEF Local, Types, Thread
<1>2. CASE CheckFirstRead(p)
  BY <1>1, <1>2 DEF CheckFirstRead, TM!CompletedFirstRead, TM!pools, TM!history, taskVars
<1>3. CASE CheckSecondRead(p)
  BY <1>1, <1>3 DEF CheckSecondRead, TM!CompletedSecondRead, TM!pools, TM!Ongoing
<1> QED BY <1>2, <1>3

(* The handler stops the worker that the pool has for the id, if any.      *)
LEMMA StopWorkerEffect ==
  ASSUME Local, NEW p \in Process, StopWorker(p)
  PROVE  /\ handler[p] = "stop" /\ handler' = [handler EXCEPT ![p] = "none"]
         /\ id[p] \in Id
         /\ \/ Kill(id[p]) /\ WP!Remove(id[p]) /\ UNCHANGED <<failed, stage>>
            \/ activeWorkerPool[id[p]] = None /\ UNCHANGED <<client, processVars>>
         /\ UNCHANGED <<taskVars, main, nextStop, task, id, misses, files, faults>>
BY LocalDomains DEF StopWorker, ExitStop, WP!Stop, WP!Remove, WP!failureVars, processVars,
                         watchVars

(* allocateTask, in two steps when a task is polled. *)
AllocateSameEffect(p) ==
  /\ pc[p] = "idle"
  /\ ongoingTaskAllocationMap[id[p]] # None
  /\ AnswerTask(p, ongoingTaskAllocationMap[id[p]])
  /\ UNCHANGED taskVars

AllocatePollEffect(p) ==
  /\ incompleteTasks # <<>> /\ monitor = None
  /\ incompleteTasks' = Tail(incompleteTasks)
  /\ monitor' = p
  /\ pc' = [pc EXCEPT ![p] = "put"]
  /\ workerId' = [workerId EXCEPT ![p] = id[p]]
  /\ inputFile' = [inputFile EXCEPT ![p] = Head(incompleteTasks)]
  /\ UNCHANGED <<ongoingTaskAllocationMap, completed, announced, handler, client, task>>

AllocatePutEffect(p) ==
  /\ pc[p] = "put" /\ inputFile[p] \in Task
  /\ ongoingTaskAllocationMap' =
       [ongoingTaskAllocationMap EXCEPT ![workerId[p]] = inputFile[p]]
  /\ monitor' = None
  /\ pc' = [pc EXCEPT ![p] = "idle"]
  /\ workerId' = [workerId EXCEPT ![p] = None]
  /\ inputFile' = [inputFile EXCEPT ![p] = None]
  /\ AnswerTask(p, inputFile[p])
  /\ UNCHANGED <<incompleteTasks, completed, announced>>

(* allocateTask of a handler: the task the worker has already, no task,    *)
(* the next one polled, or the one polled before put into the map.         *)
LEMMA AllocateEffect ==
  ASSUME Local, NEW p \in Process, Allocate(p)
  PROVE  /\ handler[p] = "allocate" /\ id[p] \in Id
         /\ \/ AllocateSameEffect(p)
            \/ /\ pc[p] = "idle" /\ ongoingTaskAllocationMap[id[p]] = None
               /\ AnswerWait(p) /\ UNCHANGED taskVars
            \/ AllocatePollEffect(p)
            \/ AllocatePutEffect(p)
         /\ UNCHANGED <<main, nextStop, processVars, files, faults>>
<1>1. handler[p] = "allocate" /\ id[p] \in Id /\ p \in Thread
  BY LocalDomains DEF Allocate, Thread
<1>2. CASE TM!AllocateSame(p, id[p]) /\ AnswerTask(p, ongoingTaskAllocationMap[id[p]])
  BY <1>1, <1>2
  DEF Allocate, AllocateSameEffect, TM!AllocateSame, TM!Enter, TM!vars, TM!pools, TM!locals,
      TM!history, taskVars
<1>3. CASE TM!AllocateNone(p, id[p]) /\ AnswerWait(p)
  BY <1>1, <1>3
  DEF Allocate, TM!AllocateNone, TM!Enter, TM!vars, TM!pools, TM!locals, TM!history, taskVars
<1>4. CASE TM!AllocatePoll(p, id[p]) /\ UNCHANGED <<handler, client, task>>
  BY <1>1, <1>4
  DEF Allocate, AllocatePollEffect, TM!AllocatePoll, TM!Enter, TM!Hold,
      TM!isAnyTaskAvailable, TM!history
<1>5. CASE TM!AllocatePut(p) /\ AnswerTask(p, Given(p))
  <2>1. inputFile[p] \in Task
    BY <1>1, <1>5, TaskManagerTypes DEF TM!AllocatePut, Local
  <2> QED BY <1>1, <1>5, <2>1
      DEF Allocate, AllocatePutEffect, TM!AllocatePut, TM!Leave, TM!history, Given
<1> QED BY <1>1, <1>2, <1>3, <1>4, <1>5 DEF Allocate

(* deallocateTask, in two steps when the failed id has a task. *)
DeallocateRemoveEffect ==
  /\ pc[Watcher] = "idle" /\ monitor = None /\ failed \in Id
  /\ ongoingTaskAllocationMap[failed] # None
  /\ ongoingTaskAllocationMap' = [ongoingTaskAllocationMap EXCEPT ![failed] = None]
  /\ monitor' = Watcher
  /\ pc' = [pc EXCEPT ![Watcher] = "add"]
  /\ workerId' = [workerId EXCEPT ![Watcher] = failed]
  /\ inputFile' = [inputFile EXCEPT ![Watcher] = ongoingTaskAllocationMap[failed]]
  /\ UNCHANGED <<incompleteTasks, processVars>>

(* The watchers when the handling of a failure ends. *)
Forgotten ==
  watcher' = [p \in Process |->
               IF watcher[p] = "registered" /\ id[p] = failed THEN "forgotten" ELSE watcher[p]]

DeallocateAddEffect ==
  /\ pc[Watcher] = "add" /\ inputFile[Watcher] \in Task
  /\ incompleteTasks' = Append(incompleteTasks, inputFile[Watcher])
  /\ monitor' = None
  /\ pc' = [pc EXCEPT ![Watcher] = "idle"]
  /\ workerId' = [workerId EXCEPT ![Watcher] = None]
  /\ inputFile' = [inputFile EXCEPT ![Watcher] = None]
  /\ failed' = None /\ stage' = "none" /\ Forgotten
  /\ UNCHANGED <<ongoingTaskAllocationMap, id, activeWorkerPool, vacantIds, spawned>>

(* deallocateTask of the watcher: nothing to give back, the task taken out *)
(* of the map, or added to the queue.                                      *)
LEMMA DeallocateEffect ==
  ASSUME Local, Deallocate
  PROVE  /\ stage = "handBack" /\ failed \in Id
         /\ \/ /\ ongoingTaskAllocationMap[failed] = None /\ pc[Watcher] = "idle"
               /\ failed' = None /\ stage' = "none" /\ Forgotten
               /\ UNCHANGED <<taskVars, activeWorkerPool, vacantIds, spawned>>
            \/ DeallocateRemoveEffect
            \/ DeallocateAddEffect
         /\ UNCHANGED <<completed, announced, main, nextStop, handler, client, task, id, misses,
                        files, faults>>
<1> USE DEF EndHandling, Forgotten, processVars, watchVars
<1>1. failed \in Id /\ stage = "handBack" /\ Watcher \in Thread
  BY DEF Deallocate, Local, CallInv, Failures, Thread
<1>2. CASE TM!NothingAllocated(Watcher, failed) /\ EndHandling
  BY <1>1, <1>2
  DEF Deallocate, TM!NothingAllocated, TM!Enter, TM!vars, TM!pools, TM!locals, TM!history,
      taskVars, WP!HandBack, WP!poolVars
<1>3. CASE TM!DeallocateRemove(Watcher, failed) /\ UNCHANGED processVars
  BY <1>1, <1>3
  DEF Deallocate, DeallocateRemoveEffect, TM!DeallocateRemove, TM!Enter, TM!Hold, TM!history
<1>4. CASE TM!DeallocateAdd(Watcher) /\ EndHandling
  <2>1. inputFile[Watcher] \in Task
    BY <1>1, <1>4, TaskManagerTypes DEF TM!DeallocateAdd, Local
  <2> QED BY <1>1, <1>4, <2>1
      DEF Deallocate, DeallocateAddEffect, TM!DeallocateAdd, TM!Leave, TM!history,
          WP!HandBack, WP!poolVars
<1> QED BY <1>1, <1>2, <1>3, <1>4 DEF Deallocate, Update

(* The main thread, but for stopAllWorkers. *)
LEMMA ServeEffect ==
  ASSUME Local,
         \/ Open \/ OpenFails \/ LoopFirstRead \/ LoopSecondRead \/ AcceptTimeout
         \/ PassVacant \/ Return
  PROVE  /\ main \notin {"returned"}
         /\ main = "stop" => main' \in {"stop", "returned"}
         /\ pc'[Main] \in {pc[Main], "idle", "checking"}
         /\ \A t \in Thread : t # Main => pc'[t] = pc[t]
         /\ UNCHANGED <<incompleteTasks, ongoingTaskAllocationMap, monitor, workerId,
                        inputFile, completed, handler, client, task, processVars, files,
                        faults>>
<1>1. CASE LoopFirstRead
  BY <1>1, LocalDomains
  DEF LoopFirstRead, TM!CompletedFirstRead, TM!pools, TM!history, taskVars, Thread
<1>2. CASE LoopSecondRead
  BY <1>2, LocalDomains DEF LoopSecondRead, TM!CompletedSecondRead, TM!pools, Thread
<1>3. CASE OpenFails
  BY <1>3 DEF OpenFails, taskVars
<1>4. CASE Open \/ AcceptTimeout \/ PassVacant \/ Return
  BY <1>4 DEF Open, AcceptTimeout, PassVacant, Return, taskVars
<1> QED BY <1>1, <1>2, <1>3, <1>4

(* The next worker of stopAllWorkers. *)
LEMMA StopNextEffect ==
  ASSUME StopNext
  PROVE  /\ main = "stop" /\ nextStop \in Id /\ nextStop' = nextStop + 1
         /\ Kill(nextStop) /\ WP!Remove(nextStop)
         /\ \E w \in Id : Kill(w) /\ WP!Remove(w)
         /\ UNCHANGED <<taskVars, main, handler, task, id, failed, stage, misses, files, faults>>
BY DEF StopNext, ExitStop, WP!Stop, WP!Remove, WP!failureVars

(* The failed worker is stopped, if a handler has not been faster. *)
LEMMA StopFailedEffect ==
  ASSUME Local, StopFailed
  PROVE  /\ stage = "stop" /\ stage' = "create" /\ failed \in Id
         /\ \/ /\ Kill(failed) /\ WP!Remove(failed)
               /\ PromptHandlers => handler[activeWorkerPool[failed]] = "none"
            \/ /\ activeWorkerPool[failed] = None
               /\ UNCHANGED <<client, watcher, activeWorkerPool, vacantIds, spawned>>
         /\ UNCHANGED <<taskVars, main, nextStop, handler, task, id, failed, misses, files,
                        faults>>
<1>1. failed \in Id
  BY DEF StopFailed, Local, CallInv, Failures
<1> QED BY <1>1 DEF StopFailed, WP!StopFailed, WP!Remove, WP!poolVars, Kill

(* What a kill comes to. *)
LEMMA KillEffect ==
  ASSUME NEW w \in Id, Kill(w), WP!Remove(w)
  PROVE  /\ activeWorkerPool[w] # None
         /\ client' = [client EXCEPT ![activeWorkerPool[w]] = "dead"]
         /\ activeWorkerPool' = [activeWorkerPool EXCEPT ![w] = None]
         /\ vacantIds' = Append(vacantIds, w)
         /\ spawned' = spawned
         /\ watcher' = [watcher EXCEPT ![activeWorkerPool[w]] =
                          IF @ = "registered" THEN "ended" ELSE @]
BY DEF Kill, WP!Remove

(* The replacement gets the first vacant id. *)
LEMMA ReplaceEffect ==
  ASSUME Local, Replace
  PROVE  /\ stage = "create" /\ stage' = "handBack"
         /\ vacantIds # <<>> /\ Head(vacantIds) \in Id
         /\ spawned + 1 \in Process /\ client[spawned + 1] = "unborn"
         /\ handler[spawned + 1] = "none"
         /\ spawned' = spawned + 1
         /\ client' = [client EXCEPT ![spawned + 1] = "ask"]
         /\ id' = [id EXCEPT ![spawned + 1] = Head(vacantIds)]
         /\ activeWorkerPool' = [activeWorkerPool EXCEPT ![Head(vacantIds)] = spawned + 1]
         /\ vacantIds' = Tail(vacantIds)
         /\ watcher' = [watcher EXCEPT ![spawned + 1] = "registered"]
         /\ UNCHANGED <<taskVars, main, nextStop, handler, task, failed, misses, files, faults>>
<1>1. spawned + 1 \in Process
  BY NoneIsNothing DEF Replace, Local, Types, Process
<1>2. client[spawned + 1] = "unborn" /\ handler[spawned + 1] = "none"
  BY <1>1 DEF Local, CallInv, Callers, Failures
<1> QED BY <1>1, <1>2 DEF Replace, WP!Replace, WP!NewProcess, Local, Types

(* A build that fails loses the id that was polled.                        *)
LEMMA ReplaceFailsEffect ==
  ASSUME Local, ReplaceFails
  PROVE  /\ stage = "create" /\ failed' = None /\ stage' = "none"
         /\ vacantIds # <<>> /\ vacantIds' = Tail(vacantIds)
         /\ faults' = [faults EXCEPT !["build"] = @ + 1]
         /\ UNCHANGED <<taskVars, main, nextStop, handler, client, task, id, activeWorkerPool,
                        spawned, watchVars, files>>
BY DEF ReplaceFails, Fault, WP!Abandon, WP!NoProcess

(* A worker that crashes, and a failure that is noticed. *)
LEMMA LossEffect ==
  ASSUME Local, NEW p \in Process, Crash(p) \/ Notice(p)
  PROVE  /\ \/ /\ Crash(p) /\ Alive(p) /\ client' = [client EXCEPT ![p] = "dead"]
               /\ faults' = [faults EXCEPT !["loss"] = @ + 1]
               /\ UNCHANGED <<failed, stage, watcher, misses>>
            \/ /\ Notice(p) /\ watcher[p] = "missed"
               /\ watcher' = [watcher EXCEPT ![p] = "ended"] /\ misses' = misses + 1
               /\ id[p] \in Id
               /\ failed = None /\ failed' = id[p] /\ stage' = "stop"
               /\ UNCHANGED <<client, faults>>
         /\ UNCHANGED <<taskVars, main, nextStop, handler, task, id, activeWorkerPool, vacantIds,
                        spawned, files>>
<1>1. CASE Crash(p)
  BY <1>1 DEF Crash, Fault, WP!Die, WP!failureVars, watchVars
<1>2. CASE Notice(p)
  BY <1>2 DEF Notice, WP!Notice, WP!poolVars, Local, CallInv, Callers
<1> QED BY <1>1, <1>2
-----------------------------------------------------------------------------
(* How the parts fit together, however slow the handlers are.              *)

(* A thread is in the middle of a method of the task manager only where    *)
(* the handler of its request, or the watcher, calls it, for that id.      *)
Linked ==
  /\ \A p \in Process : pc[p] \in {"idle", "put", "checking"}
  /\ \A p \in Process :
       pc[p] = "put" => handler[p] = "allocate" /\ workerId[p] = id[p]
  /\ pc[Main] \in {"idle", "checking"}
  /\ pc[Watcher] \in {"idle", "add"}
  /\ pc[Watcher] = "add" => stage = "handBack" /\ workerId[Watcher] = failed

(* A running process is in the pool, and a vacant id is not. *)
Pooled ==
  /\ \A p \in Process : Alive(p) => activeWorkerPool[id[p]] = p
  /\ \A w \in Id : activeWorkerPool[w] # None => id[activeWorkerPool[w]] = w
  /\ \A w \in Elements(vacantIds) : activeWorkerPool[w] = None
  /\ NoRepetition(vacantIds)
  /\ stage = "none" <=> failed = None
  /\ stage = "create" => activeWorkerPool[failed] = None

(* A client that does not wait has no request under way. *)
Waits ==
  \A p \in Process :
    client[p] \in {"unborn", "ask", "execute", "store", "report"} => handler[p] = "none"

Wiring == Linked /\ Pooled /\ Waits

(* The wiring holds initially.                                             *)
LEMMA InitWiring == Init => Wiring
<1> SUFFICES ASSUME Init PROVE Wiring
  OBVIOUS
<1> USE NoneIsNothing DEF Init
<1>1. Linked
  BY DEF Linked, TM!Init, Thread
<1>2. Pooled
  <2>1. \A p \in Process : p <= Capacity => p - 1 \in Id /\ activeWorkerPool[p - 1] = p
    BY DEF Id, Process
  <2>2. \A w \in Id : w + 1 \in Process /\ w + 1 <= Capacity /\ id[w + 1] = w
    BY DEF Id, Process
  <2>3. Elements(vacantIds) = {} /\ NoRepetition(vacantIds)
    BY DEF Elements, NoRepetition
  <2>4. \A p \in Process : Alive(p) => p <= Capacity /\ id[p] = p - 1
    BY DEF Alive
  <2> QED BY <2>1, <2>2, <2>3, <2>4 DEF Pooled
<1>3. Waits
  BY DEF Waits
<1> QED BY <1>1, <1>2, <1>3 DEF Wiring

(* The pool, when no process starts or leaves it, ... *)
LEMMA SamePooled ==
  ASSUME Pooled, UNCHANGED <<id, activeWorkerPool, vacantIds, failed, stage>>,
         \A p \in Process : Alive(p)' => Alive(p)
  PROVE  Pooled'
BY DEF Pooled

(* ... and when one is stopped. *)
LEMMA KillPooled ==
  ASSUME Local, Pooled, NEW w \in Id, Kill(w), WP!Remove(w), UNCHANGED <<id, failed>>,
         \/ stage' = stage
         \/ stage = "stop" /\ stage' = "create" /\ failed = w
  PROVE  Pooled'
<1> DEFINE q == activeWorkerPool[w]
<1>1. /\ q # None /\ client' = [client EXCEPT ![q] = "dead"]
      /\ activeWorkerPool' = [activeWorkerPool EXCEPT ![w] = None]
      /\ vacantIds' = Append(vacantIds, w)
  BY KillEffect
<1>2. q \in Process /\ id[q] = w
  BY <1>1 DEF Local, Types, Pooled
<1>3. /\ Elements(vacantIds') = Elements(vacantIds) \union {w}
      /\ NoRepetition(vacantIds') /\ Elements(vacantIds) \subseteq Id
  <2>1. vacantIds \in Seq(Id) /\ w \notin Elements(vacantIds)
    BY <1>1 DEF Local, Types, Pooled
  <2>2. Elements(vacantIds) \subseteq Id
    BY <2>1 DEF Elements
  <2> QED BY <1>1, <2>1, <2>2, AddElements DEF Pooled
<1>4. \A p \in Process : Alive(p)' => p # q /\ activeWorkerPool'[id[p]] = p
  <2> SUFFICES ASSUME NEW p \in Process, Alive(p)'
               PROVE  p # q /\ activeWorkerPool'[id[p]] = p
    OBVIOUS
  <2>1. p # q /\ Alive(p)
    BY <1>1, <1>2 DEF Alive, Local, Types
  <2>2. activeWorkerPool[id[p]] = p /\ id[p] # w
    BY <2>1 DEF Pooled
  <2> QED BY <1>1, <2>1, <2>2 DEF Local, Types
<1>5. \A v \in Id : activeWorkerPool'[v] # None => id[activeWorkerPool'[v]] = v
  BY <1>1 DEF Local, Types, Pooled
<1>6. /\ stage' = "none" <=> failed' = None
      /\ stage' = "create" => activeWorkerPool'[failed'] = None
  BY <1>1 DEF Local, Types, Pooled, CallInv, Failures
<1>7. \A v \in Elements(vacantIds') : activeWorkerPool'[v] = None
  BY <1>1, <1>3 DEF Local, Types, Pooled
<1> QED BY <1>3, <1>4, <1>5, <1>6, <1>7 DEF Pooled

(* The client, and the acceptance of its request. *)
LEMMA WorkWiring ==
  ASSUME Local, Wiring, NEW p \in Process,
         \/ Work(p) \/ Leave(p) \/ StoreFails(p) \/ Accept(p) \/ AcceptBroken(p)
         \/ AskElsewhere(p)
  PROVE  Wiring'
<1> USE DEF Local, Types
<1>1. /\ UNCHANGED <<taskVars, processVars>>
      /\ handler' = handler \/ handler[p] \in {"none", "ask", "report"}
      /\ \A q \in Process : q # p => client'[q] = client[q] /\ handler'[q] = handler[q]
      /\ client'[p] = "unborn" <=> client[p] = "unborn"
      /\ client'[p] = "dead" <=> client[p] = "dead"
      /\ \/ handler'[p] = "none" /\ handler[p] = "none"
         \/ client'[p] \notin {"unborn", "ask", "execute", "store", "report"}
         \/ client' = client /\ handler[p] # "none"
  BY DEF Work, Request, OpenOutput, StoreWordCount, Leave, StoreFails, Accept, AcceptBroken,
         AskElsewhere, AfterTruncation, FirstStep, Wiring, Waits
<1>2. Linked'
  BY <1>1 DEF Wiring, Linked, taskVars, processVars
<1>3. Pooled'
  <2>1. \A q \in Process : Alive(q)' => Alive(q)
    BY <1>1 DEF Alive
  <2> QED BY <1>1, <2>1, SamePooled DEF Wiring, processVars
<1>4. Waits'
  BY <1>1 DEF Wiring, Waits
<1> QED BY <1>2, <1>3, <1>4 DEF Wiring

(* The steps of the threads that wait. *)
LEMMA WaitingWiring == Wiring /\ Waiting => Wiring'
BY WaitingIsQuiet DEF Wiring, Linked, Pooled, Waits, Alive, taskVars

(* A worker that is stopped by its handler, by the main thread, or by the  *)
(* watcher.                                                                *)
LEMMA KillWiring ==
  ASSUME Local, Wiring, NEW w \in Id, Kill(w), WP!Remove(w),
         UNCHANGED <<taskVars, id, failed>>,
         \/ UNCHANGED handler
         \/ \E p \in Process : handler' = [handler EXCEPT ![p] = "none"] /\ handler[p] = "stop",
         \/ stage' = stage
         \/ stage = "stop" /\ stage' = "create" /\ failed = w
  PROVE  Wiring'
<1>1. /\ client' = [client EXCEPT ![activeWorkerPool[w]] = "dead"]
      /\ \A p \in Process : handler'[p] \in {handler[p], "none"}
      /\ \A p \in Process : handler[p] = "allocate" => handler'[p] = "allocate"
  BY KillEffect DEF Local, Types
<1>2. Linked'
  BY <1>1 DEF Wiring, Linked, taskVars, Pooled
<1>3. Pooled'
  BY KillPooled DEF Wiring
<1>4. Waits'
  BY <1>1 DEF Wiring, Waits, Local, Types
<1> QED BY <1>2, <1>3, <1>4 DEF Wiring

(* The check for completion. *)
LEMMA CheckWiring ==
  ASSUME Local, Wiring, NEW p \in Process, CheckFirstRead(p) \/ CheckSecondRead(p)
  PROVE  Wiring'
<1>1. DOMAIN handler = Process
  BY DEF Local, Types
<1>2. handler[p] = "check" /\ \A q \in Process : q # p => handler'[q] = handler[q]
  BY <1>1, CheckEffect
<1>3. pc'[p] \in {"idle", "checking"} /\ \A t \in Thread : t # p => pc'[t] = pc[t]
  BY CheckEffect
<1>4. UNCHANGED <<client, processVars, workerId>>
  BY CheckEffect
<1>5. Linked'
  <2>1. \A q \in Process :
          /\ pc'[q] \in {"idle", "put", "checking"}
          /\ pc'[q] = "put" => handler'[q] = "allocate" /\ workerId'[q] = id'[q]
    BY <1>2, <1>3, <1>4 DEF Wiring, Linked, processVars, Thread
  <2>2. /\ Main \in Thread /\ Watcher \in Thread /\ Main # p /\ Watcher # p
        /\ UNCHANGED <<workerId, stage, failed>>
    BY <1>4, NoneIsNothing DEF processVars, Thread
  <2> QED BY <1>3, <2>1, <2>2 DEF Wiring, Linked
<1>6. Waits'
  BY <1>2, <1>4 DEF Wiring, Waits
<1>7. Pooled'
  BY <1>4, SamePooled DEF Wiring, Alive, processVars
<1> QED BY <1>5, <1>6, <1>7 DEF Wiring

(* The handler of a request. *)
LEMMA HandleWiring ==
  ASSUME Local, Wiring, NEW p \in Process, Handle(p)
  PROVE  Wiring'
<1> USE NoneIsNothing, LocalDomains DEF Local, Types, Thread
<1>1. CASE Mark(p)
  <2>1. Linked' /\ Waits'
    BY <1>1, MarkEffect DEF Wiring, Linked, Waits, processVars
  <2>2. Pooled'
    BY <1>1, MarkEffect, SamePooled DEF Wiring, Alive, processVars
  <2> QED BY <2>1, <2>2 DEF Wiring
<1>2. CASE CheckFirstRead(p) \/ CheckSecondRead(p)
  BY <1>2, CheckWiring
<1>3. CASE StopWorker(p)
  <2>1. /\ handler[p] = "stop" /\ handler' = [handler EXCEPT ![p] = "none"] /\ id[p] \in Id
        /\ UNCHANGED <<taskVars, id>>
    BY <1>3, StopWorkerEffect
  <2>2. CASE Kill(id[p]) /\ WP!Remove(id[p]) /\ UNCHANGED <<failed, stage>>
    BY <2>1, <2>2, KillWiring
  <2>3. CASE UNCHANGED <<client, processVars>>
    <3>1. Linked' /\ Waits'
      BY <2>1, <2>3 DEF Wiring, Linked, Waits, processVars, taskVars
    <3>2. Pooled'
      BY <2>3, SamePooled DEF Wiring, Alive, processVars
    <3> QED BY <3>1, <3>2 DEF Wiring
  <2> QED BY <1>3, <2>2, <2>3, StopWorkerEffect
<1>4. CASE QueryAvailable(p) \/ Allocate(p)
  <2>1. /\ handler[p] \in {"query", "allocate"}
        /\ UNCHANGED processVars
        /\ \A q \in Process : q # p => client'[q] = client[q] /\ handler'[q] = handler[q]
        /\ client'[p] = client[p] \/ handler'[p] = "none"
        /\ client'[p] \in {"unborn", "dead"} <=> client[p] \in {"unborn", "dead"}
    BY <1>4, AllocateEffect
    DEF QueryAvailable, AnswerTask, AnswerWait, AllocateSameEffect, AllocatePollEffect,
        AllocatePutEffect
  <2>2. Waits'
    <3> SUFFICES ASSUME NEW q \in Process,
                        client'[q] \in {"unborn", "ask", "execute", "store", "report"}
                 PROVE  handler'[q] = "none"
      BY DEF Waits
    <3>1. \A r \in Process : client[r] \in {"unborn", "ask", "execute", "store", "report"}
                               => handler[r] = "none"
      BY DEF Wiring, Waits
    <3>2. CASE q = p
      BY <2>1, <3>1, <3>2
    <3>3. CASE q # p
      BY <2>1, <3>1, <3>3
    <3> QED BY <3>2, <3>3
  <2>3. Pooled'
    BY <2>1, SamePooled DEF Wiring, Alive, processVars
  <2>4. Linked'
    <3>1. CASE QueryAvailable(p)
      BY <3>1, <2>1 DEF QueryAvailable, taskVars, processVars, Wiring, Linked
    <3>2. ASSUME pc[p] = "idle", UNCHANGED taskVars
          PROVE  Linked'
      BY <2>1, <3>2 DEF taskVars, processVars, Wiring, Linked
    <3>3. ASSUME handler[p] = "allocate", AllocatePollEffect(p)
          PROVE  Linked'
      BY <2>1, <3>3 DEF AllocatePollEffect, processVars, Wiring, Linked
    <3>4. CASE AllocatePutEffect(p)
      BY <2>1, <3>4 DEF AllocatePutEffect, processVars, Wiring, Linked
    <3> QED BY <1>4, <3>1, <3>2, <3>3, <3>4, AllocateEffect DEF AllocateSameEffect
  <2> QED BY <2>2, <2>3, <2>4 DEF Wiring
<1>5. CASE EnterStopWorker(p)
  BY <1>5, WaitingWiring DEF Waiting
<1> QED BY <1>1, <1>2, <1>3, <1>4, <1>5 DEF Handle

(* The main thread. *)
LEMMA ServeWiring ==
  ASSUME Local, Wiring, Serve
  PROVE  Wiring'
<1>1. CASE StopNext
  <2>1. PICK w \in Id : Kill(w) /\ WP!Remove(w)
    BY <1>1, StopNextEffect
  <2> QED BY <1>1, <2>1, StopNextEffect, KillWiring
<1>2. CASE \/ Open \/ OpenFails \/ LoopFirstRead \/ LoopSecondRead \/ AcceptTimeout
           \/ PassVacant \/ Return
  <2>1. /\ pc'[Main] \in {pc[Main], "idle", "checking"}
        /\ \A t \in Thread : t # Main => pc'[t] = pc[t]
        /\ UNCHANGED <<workerId, handler, client, processVars>>
    BY <1>2, ServeEffect
  <2>2. Linked'
    BY <2>1, NoneIsNothing DEF Wiring, Linked, processVars, Thread
  <2>3. Pooled'
    BY <2>1, SamePooled DEF Wiring, Alive, processVars
  <2>4. Waits'
    BY <2>1 DEF Wiring, Waits
  <2> QED BY <2>2, <2>3, <2>4 DEF Wiring
<1>3. CASE EnterStopNext
  BY <1>3, WaitingWiring DEF Waiting
<1> QED BY <1>1, <1>2, <1>3 DEF Serve

(* Losses. *)
LEMMA LossWiring ==
  ASSUME Local, Wiring, NEW p \in Process, Crash(p) \/ Notice(p)
  PROVE  Wiring'
<1>1. Linked'
  BY LossEffect, NoneIsNothing DEF Wiring, Linked, Pooled, taskVars, Thread
<1>2. /\ \A q \in Process : Alive(q)' => Alive(q)
      /\ stage' = "none" <=> failed' = None
      /\ stage' = "create" => stage = "create" /\ failed' = failed
  BY LossEffect, NoneIsNothing DEF Wiring, Pooled, Alive, Local, Types
<1>3. Pooled'
  BY <1>2, LossEffect DEF Wiring, Pooled
<1>4. Waits'
  BY LossEffect DEF Wiring, Waits, Local, Types
<1> QED BY <1>1, <1>3, <1>4 DEF Wiring

(* The handling of a failure: the failed worker is stopped, ...            *)
LEMMA StopFailedWiring ==
  ASSUME Local, Wiring, StopFailed
  PROVE  Wiring'
<1>1. /\ stage = "stop" /\ stage' = "create" /\ failed \in Id
      /\ UNCHANGED <<taskVars, handler, id, failed>>
  BY StopFailedEffect
<1>2. CASE Kill(failed) /\ WP!Remove(failed)
  BY <1>1, <1>2, KillWiring
<1>3. CASE activeWorkerPool[failed] = None /\ UNCHANGED <<client, activeWorkerPool, vacantIds>>
  <2>1. Linked' /\ Waits'
    BY <1>1, <1>3 DEF Wiring, Linked, Waits, taskVars
  <2>2. Pooled'
    BY <1>1, <1>3, NoneIsNothing DEF Wiring, Pooled, Alive
  <2> QED BY <2>1, <2>2 DEF Wiring
<1> QED BY <1>2, <1>3, StopFailedEffect

(* ... another is created, ...                                             *)
LEMMA ReplaceWiring ==
  ASSUME Local, Wiring, Replace
  PROVE  Wiring'
<1> DEFINE q == spawned + 1
           v == Head(vacantIds)
<1>1. /\ stage = "create" /\ stage' = "handBack" /\ v \in Id /\ q \in Process
      /\ client[q] = "unborn" /\ handler[q] = "none"
      /\ client' = [client EXCEPT ![q] = "ask"] /\ id' = [id EXCEPT ![q] = v]
      /\ activeWorkerPool' = [activeWorkerPool EXCEPT ![v] = q]
      /\ UNCHANGED <<taskVars, handler, failed>>
  BY ReplaceEffect
<1>2. /\ v \in Elements(vacantIds) /\ Elements(vacantIds') = Elements(vacantIds) \ {v}
      /\ NoRepetition(vacantIds')
  <2>1. vacantIds \in Seq(Id) /\ vacantIds # <<>> /\ NoRepetition(vacantIds)
    BY ReplaceEffect DEF Wiring, Pooled, Local, Types
  <2> QED BY <2>1, ReplaceEffect, PollElements
<1>3. activeWorkerPool[v] = None
  BY <1>2 DEF Wiring, Pooled
<1>4. Linked'
  BY <1>1, NoneIsNothing DEF Wiring, Linked, taskVars, Local, Types, Thread
<1>5. Pooled'
  <2>1. \A p \in Process : Alive(p)' => activeWorkerPool'[id'[p]] = p
    <3> SUFFICES ASSUME NEW p \in Process, Alive(p)'
                 PROVE  activeWorkerPool'[id'[p]] = p
      OBVIOUS
    <3>1. CASE p = q
      BY <1>1, <3>1 DEF Local, Types
    <3>2. CASE p # q
      <4>1. Alive(p) /\ id'[p] = id[p]
        BY <1>1, <3>2 DEF Alive, Local, Types
      <4>2. id[p] \in Id /\ activeWorkerPool[id[p]] = p
        BY <4>1, LocalDomains DEF Wiring, Pooled, Alive
      <4>3. id[p] # v
        BY <1>3, <4>2, NoneIsNothing
      <4> QED BY <1>1, <4>1, <4>2, <4>3 DEF Local, Types
    <3> QED BY <3>1, <3>2
  <2>2. \A w \in Id : activeWorkerPool'[w] # None => id'[activeWorkerPool'[w]] = w
    <3>1. \A w \in Id : activeWorkerPool[w] # q
      BY <1>1, NoneIsNothing DEF Local, CallInv, Failures
    <3> QED BY <1>1, <3>1 DEF Wiring, Pooled, Local, Types
  <2>3. \A w \in Elements(vacantIds') : activeWorkerPool'[w] = None
    <3>1. Elements(vacantIds) \subseteq Id
      BY DEF Elements, Local, Types
    <3> QED BY <1>1, <1>2, <3>1 DEF Wiring, Pooled, Local, Types
  <2> QED BY <1>1, <1>2, <2>1, <2>2, <2>3, NoneIsNothing DEF Wiring, Pooled
<1>6. Waits'
  BY <1>1 DEF Wiring, Waits, Local, Types
<1> QED BY <1>4, <1>5, <1>6 DEF Wiring

(* ... or cannot be, ...                                                   *)
LEMMA ReplaceFailsWiring ==
  ASSUME Local, Wiring, ReplaceFails
  PROVE  Wiring'
<1>1. /\ Elements(vacantIds') = Elements(vacantIds) \ {Head(vacantIds)}
      /\ NoRepetition(vacantIds')
  <2>1. vacantIds \in Seq(Id) /\ vacantIds # <<>> /\ NoRepetition(vacantIds)
    BY ReplaceFailsEffect DEF Wiring, Pooled, Local, Types
  <2> QED BY <2>1, ReplaceFailsEffect, PollElements
<1>2. Linked'
  BY ReplaceFailsEffect DEF Wiring, Linked, taskVars
<1>3. Pooled'
  BY <1>1, ReplaceFailsEffect DEF Wiring, Pooled, Alive
<1>4. Waits'
  BY ReplaceFailsEffect DEF Wiring, Waits
<1> QED BY <1>2, <1>3, <1>4 DEF Wiring

(* ... and the task of the failed id is deallocated.                       *)
LEMMA DeallocateWiring ==
  ASSUME Local, Wiring, Deallocate
  PROVE  Wiring'
<1>1. /\ \A p \in Process : pc'[p] = pc[p] /\ workerId'[p] = workerId[p]
      /\ pc'[Main] = pc[Main]
      /\ \/ pc'[Watcher] = "idle" /\ failed' = None /\ stage' = "none"
         \/ pc'[Watcher] = "add" /\ stage = "handBack" /\ workerId'[Watcher] = failed
            /\ UNCHANGED <<failed, stage>>
      /\ UNCHANGED <<handler, client, id, activeWorkerPool, vacantIds>>
  <2> USE NoneIsNothing, LocalDomains, DeallocateEffect DEF Thread
  <2>1. CASE DeallocateRemoveEffect
    BY <2>1 DEF DeallocateRemoveEffect, processVars
  <2>2. CASE DeallocateAddEffect
    BY <2>2 DEF DeallocateAddEffect
  <2> QED BY <2>1, <2>2 DEF taskVars
<1>2. Linked'
  BY <1>1 DEF Wiring, Linked
<1>3. Pooled'
  BY <1>1 DEF Wiring, Pooled, Alive
<1>4. Waits'
  BY <1>1 DEF Wiring, Waits
<1> QED BY <1>2, <1>3, <1>4 DEF Wiring

(* Every step keeps the wiring.                                            *)
LEMMA NextWiring == Local /\ Wiring /\ [Next]_vars => Wiring'
<1> SUFFICES ASSUME Local, Wiring, [Next]_vars PROVE Wiring'
  OBVIOUS
<1>1. CASE UNCHANGED vars
  BY <1>1 DEF vars, taskVars, processVars, Wiring, Linked, Pooled, Waits, Alive
<1>2. ASSUME NEW p \in Process,
             \/ Proceed(p) \/ Accept(p) \/ Leave(p) \/ StoreFails(p) \/ AcceptBroken(p)
             \/ AskElsewhere(p)
      PROVE  Wiring'
  BY <1>2, WorkWiring, HandleWiring DEF Proceed
<1>3. CASE Serve \/ Waiting
  BY <1>3, ServeWiring, WaitingWiring
<1>4. ASSUME NEW p \in Process, Crash(p) \/ Notice(p)
      PROVE  Wiring'
  BY <1>4, LossWiring
<1>5. CASE HandleFailure \/ ReplaceFails
  BY <1>5, StopFailedWiring, ReplaceWiring, ReplaceFailsWiring, DeallocateWiring
  DEF HandleFailure
<1> QED BY <1>1, <1>2, <1>3, <1>4, <1>5 DEF Next, Misfortune, NoticeFailure, Waiting

(* Everything that holds however slow the handlers are. *)
Wired == Local /\ TMP!TaskConservation /\ Wiring

(* The wiring, the types and the task manager's invariants hold in every   *)
(* run.                                                                    *)
THEOREM AlwaysWired == Spec => []Wired
<1>2. Local /\ Wiring /\ [Next]_vars => Wiring'
  BY NextWiring
<1>3. Spec => []Wiring
  <2>1. (TMP!OwnInv /\ TMP!TaskConservation /\ CallInv /\ Types) => Local
    BY DEF Local
  <2> QED BY <1>2, <2>1, InitWiring, Foundation, PTL DEF Spec
<1>4. (TMP!OwnInv /\ TMP!TaskConservation /\ CallInv /\ Types) /\ Wiring => Wired
  BY DEF Local, Wired
<1> QED BY <1>3, <1>4, Foundation, PTL
-----------------------------------------------------------------------------
(* After a server that has listened has returned.                          *)

(* A client that has no task to write: it has not been answered with one.  *)
Idle(p) == client[p] \in {"unborn", "ask", "left", "dead"}

(* Nobody is answered before the server listens, and stopAllWorkers leaves *)
(* only idle clients behind, under the ids that it has passed.  If another *)
(* process has the port, it may answer them.                               *)
Settled ==
  ~PortTaken =>
    /\ main = "create" => \A p \in Process : Idle(p)
    /\ main \in {"create", "loop", "accept"} => nextStop = 0
    /\ main = "stop" => \A p \in Process : Idle(p) \/ nextStop <= id[p]
    /\ main = "returned" => \A p \in Process : Idle(p)

(* Most steps wake no idle client while the server does not listen, and    *)
(* leave the main thread where it is.                                      *)
LEMMA SameSettled ==
  ASSUME Settled, UNCHANGED <<main, nextStop>>, PortTaken' <=> PortTaken,
         \A p \in Process : \/ Idle(p)' \/ (~Idle(p) /\ id'[p] = id[p])
                            \/ Listening \/ PortTaken
  PROVE  Settled'
BY DEF Settled, Listening

(* Whether the port is taken is decided before the server runs.            *)
LEMMA SamePort == Wired /\ [Next]_vars => (PortTaken' <=> PortTaken)
<1> SUFFICES ASSUME Wired, [Next]_vars PROVE faults'["socket"] = faults["socket"]
  BY DEF PortTaken
<1>0. Local /\ faults \in [{"loss", "leave", "build", "write", "socket"} -> Nat]
  BY DEF Wired, Local, Types
<1>1. ASSUME NEW p \in Process,
             \/ Proceed(p) \/ Accept(p) \/ Leave(p) \/ StoreFails(p) \/ AcceptBroken(p)
             \/ AskElsewhere(p) \/ Crash(p) \/ Notice(p)
      PROVE  faults'["socket"] = faults["socket"]
  BY <1>0, <1>1
  DEF Proceed, Work, Request, OpenOutput, StoreWordCount, Handle, Mark, CheckFirstRead,
      CheckSecondRead, EnterStopWorker, StopWorker, QueryAvailable, Allocate, Accept, Leave,
      StoreFails, AcceptBroken, AskElsewhere, Crash, Notice, Fault
<1>2. CASE Serve \/ HandleFailure \/ ReplaceFails
  BY <1>0, <1>2
  DEF Serve, Open, OpenFails, LoopFirstRead, LoopSecondRead, AcceptTimeout, EnterStopNext,
      StopNext, PassVacant, Return, HandleFailure, StopFailed, Replace, Deallocate,
      ReplaceFails, Fault
<1>3. CASE Waiting
  BY <1>0, <1>3, WaitingIsQuiet
<1>4. CASE UNCHANGED vars
  BY <1>4 DEF vars
<1> QED BY <1>1, <1>2, <1>3, <1>4 DEF Next, Misfortune, NoticeFailure, Waiting

(* The worker processes, the acceptance of a request and its handler.      *)
LEMMA ProcessSettled ==
  ASSUME Wired, Settled, PortTaken' <=> PortTaken, NEW p \in Process,
         \/ Proceed(p) \/ Accept(p) \/ Leave(p) \/ StoreFails(p) \/ AcceptBroken(p)
         \/ AskElsewhere(p) \/ Crash(p)
  PROVE  Settled'
<1>0. Local /\ Types
  BY DEF Wired, Local
<1>1. CASE Accept(p) \/ AcceptBroken(p)
  <2>1. /\ main = "accept" /\ main' = "loop"
        /\ nextStop' = nextStop
    BY <1>1 DEF Accept, AcceptBroken
  <2> QED BY <2>1 DEF Settled
<1>2. CASE Work(p) \/ Leave(p) \/ StoreFails(p) \/ AskElsewhere(p) \/ Crash(p)
  <2>1. /\ UNCHANGED <<main, nextStop, id>>
        /\ \A q \in Process : q # p => client'[q] = client[q]
        /\ Idle(p)' \/ ~Idle(p) \/ Listening \/ PortTaken
    BY <1>0, <1>2
    DEF Work, Request, OpenOutput, StoreWordCount, Leave, StoreFails, AskElsewhere, Crash,
        Idle, Types, processVars
  <2>2. \A q \in Process : q # p => (Idle(q)' <=> Idle(q))
    BY <2>1 DEF Idle
  <2> QED BY <2>1, <2>2, SameSettled
<1>3. CASE Handle(p)
  <2>1. UNCHANGED <<main, nextStop, id>>
    BY <1>3
    DEF Handle, Mark, CheckFirstRead, CheckSecondRead, EnterStopWorker, EnterStop, StopWorker,
        ExitStop, QueryAvailable, Allocate, processVars
  <2>2. \A q \in Process : client'[q] = client[q] \/ client'[q] = "dead" \/ client[q] = "await"
    <3>1. CASE Mark(p) \/ CheckFirstRead(p) \/ CheckSecondRead(p) \/ EnterStopWorker(p)
      BY <3>1 DEF Mark, CheckFirstRead, CheckSecondRead, EnterStopWorker
    <3>2. CASE StopWorker(p)
      BY <1>0, <3>2, StopWorkerEffect DEF Kill, Types
    <3>3. CASE QueryAvailable(p)
      BY <1>0, <3>3 DEF QueryAvailable, AnswerWait, Types
    <3>4. CASE Allocate(p)
      BY <1>0, <3>4, AllocateEffect
      DEF AllocateSameEffect, AllocatePollEffect, AllocatePutEffect, AnswerTask, AnswerWait,
          Types
    <3> QED BY <1>3, <3>1, <3>2, <3>3, <3>4 DEF Handle
  <2>3. \A q \in Process : Idle(q)' \/ ~Idle(q)
    BY <2>2 DEF Idle
  <2> QED BY <2>1, <2>3, SameSettled
<1> QED BY <1>1, <1>2, <1>3 DEF Proceed

(* The threads that wait. *)
LEMMA WaitingSettled ==
  ASSUME Settled, PortTaken' <=> PortTaken, Waiting
  PROVE  Settled'
BY WaitingIsQuiet DEF Settled, Idle

(* The main thread.                                                        *)
LEMMA ServeSettled ==
  ASSUME Wired, Settled, PortTaken' <=> PortTaken, Serve
  PROVE  Settled'
<1>0. Local /\ Types /\ Pooled /\ Capacity \in Nat
  BY NoneIsNothing DEF Wired, Local, Wiring
<1>1. \A p \in Process : ~Idle(p) => id[p] \in Id /\ (client[p] # "dead" => Alive(p))
  BY <1>0, LocalDomains DEF Idle, Alive
<1>2. CASE Open \/ LoopFirstRead \/ LoopSecondRead \/ AcceptTimeout
  <2>1. /\ main \in {"create", "loop", "accept"} /\ UNCHANGED <<nextStop, client, id>>
        /\ main' \in {"loop", "accept", "stop"}
    BY <1>2
    DEF Open, LoopFirstRead, LoopSecondRead, AcceptTimeout, processVars
  <2>2. \A p \in Process : Idle(p) \/ 0 <= id[p]
    BY <1>1 DEF Id
  <2> QED BY <2>1, <2>2 DEF Settled, Idle
<1>3. CASE StopNext \/ PassVacant
  <2>1. /\ main = "stop" /\ main' = main /\ id' = id
        /\ nextStop \in Id /\ nextStop' = nextStop + 1
        /\ \A p \in Process : client'[p] \in {client[p], "dead"}
        /\ \A p \in Process : activeWorkerPool[nextStop] = p => client'[p] = "dead"
    <3>1. CASE StopNext
      BY <1>0, <3>1, StopNextEffect DEF Kill, Types
    <3>2. CASE PassVacant
      BY <3>2, NoneIsNothing DEF PassVacant, processVars
    <3> QED BY <1>3, <3>1, <3>2
  <2> SUFFICES ASSUME ~PortTaken, NEW p \in Process, ~Idle(p)'
               PROVE  nextStop' <= id'[p]
    BY <2>1 DEF Settled
  <2>2. ~Idle(p) /\ client[p] # "dead" /\ client'[p] # "dead"
    BY <2>1 DEF Idle
  <2>3. id[p] \in Id /\ activeWorkerPool[id[p]] = p
    BY <1>0, <1>1, <2>2 DEF Pooled
  <2>4. nextStop <= id[p] /\ id[p] # nextStop
    BY <2>1, <2>2, <2>3 DEF Settled
  <2> QED BY <2>1, <2>3, <2>4 DEF Id
<1>4. CASE Return
  <2>1. /\ main = "stop" /\ nextStop = Capacity /\ main' = "returned" /\ client' = client
    BY <1>4 DEF Return
  <2>2. ~PortTaken => \A p \in Process : Idle(p)
    BY <1>0, <1>1, <2>1 DEF Settled, Id
  <2> QED BY <2>1, <2>2 DEF Settled, Idle
<1>5. CASE OpenFails
  BY <1>5 DEF OpenFails, Settled
<1>6. CASE EnterStopNext
  BY <1>6, WaitingSettled DEF Waiting
<1> QED BY <1>2, <1>3, <1>4, <1>5, <1>6 DEF Serve

(* Losses, and the handling of a failure: a new process asks.              *)
LEMMA FailureSettled ==
  ASSUME Wired, Settled, PortTaken' <=> PortTaken,
         \/ \E p \in Process : Notice(p)
         \/ HandleFailure \/ ReplaceFails
  PROVE  Settled'
<1>0. Local /\ Types
  BY DEF Wired, Local
<1>1. UNCHANGED <<main, nextStop>>
  BY DEF Notice, HandleFailure, StopFailed, Replace, Deallocate, ReplaceFails
<1>2. \A p \in Process : Idle(p)' \/ (client'[p] = client[p] /\ id'[p] = id[p])
  <2>1. CASE Replace
    BY <1>0, <2>1, ReplaceEffect DEF Idle, Types
  <2>2. CASE StopFailed
    BY <1>0, <2>2, StopFailedEffect DEF Idle, Kill, Types
  <2>3. CASE (\E p \in Process : Notice(p)) \/ ReplaceFails
    BY <2>3 DEF Notice, ReplaceFails
  <2>4. CASE Deallocate
    BY <1>0, <2>4, DeallocateEffect
  <2> QED BY <2>1, <2>2, <2>3, <2>4 DEF HandleFailure
<1>3. \A p \in Process : Idle(p)' \/ (~Idle(p) /\ id'[p] = id[p])
  BY <1>2 DEF Idle
<1> QED BY <1>1, <1>3, SameSettled

(* Every step leaves things settled.                                       *)
LEMMA NextSettled == Wired /\ Settled /\ [Next]_vars => Settled'
<1> SUFFICES ASSUME Wired, Settled, [Next]_vars PROVE Settled'
  OBVIOUS
<1>0. PortTaken' <=> PortTaken
  BY SamePort
<1>1. CASE UNCHANGED vars
  BY <1>0, <1>1 DEF vars, processVars, Settled, Idle
<1> QED BY <1>0, <1>1, ProcessSettled, ServeSettled, WaitingSettled, FailureSettled
        DEF Next, Misfortune, NoticeFailure, Waiting

(* Once a server that has listened has returned, each client that is left  *)
(* over has no task to write, and is told of none.                         *)
THEOREM SettledAfterReturn == Spec => []Settled
<1>1. Init => Settled
  BY NoneIsNothing DEF Init, Settled, Idle
<1> QED BY <1>1, AlwaysWired, NextSettled, PTL DEF Spec

(* Master.run: what the merger reads after a server that has listened has  *)
(* returned is not written any more, however slow the handlers are and     *)
(* whoever crashed.                                                        *)
THEOREM OutputsStaySettled == Spec => OutputsSettled
<1>1. Settled /\ [Next]_vars => (main = "returned" /\ ~PortTaken => output' = output)
  <2> SUFFICES ASSUME Settled, [Next]_vars, main = "returned", ~PortTaken
               PROVE  output' = output
    OBVIOUS
  <2>1. ASSUME NEW p \in Process PROVE ~OpenOutput(p) /\ ~StoreWordCount(p)
    BY DEF Settled, Idle, OpenOutput, StoreWordCount
  <2>2. ASSUME NEW p \in Process,
               \/ Proceed(p) \/ Accept(p) \/ Leave(p) \/ StoreFails(p) \/ AcceptBroken(p)
               \/ AskElsewhere(p) \/ Crash(p) \/ Notice(p)
        PROVE  output' = output
    BY <2>1, <2>2
    DEF Proceed, Work, Request, Handle, Mark, CheckFirstRead, CheckSecondRead, EnterStopWorker,
        StopWorker, QueryAvailable, Allocate, Accept, Leave, StoreFails, AcceptBroken,
        AskElsewhere, Crash, Notice, files
  <2>3. CASE Serve \/ HandleFailure \/ ReplaceFails
    BY <2>3
    DEF Serve, Open, OpenFails, LoopFirstRead, LoopSecondRead, AcceptTimeout, EnterStopNext,
        StopNext, PassVacant, Return, HandleFailure, StopFailed, Replace, Deallocate,
        ReplaceFails, files
  <2>4. CASE Waiting
    BY <2>4, WaitingIsQuiet DEF files
  <2>5. CASE UNCHANGED vars
    BY <2>5 DEF vars, files
  <2> QED BY <2>2, <2>3, <2>4, <2>5 DEF Next, Misfortune, NoticeFailure, Waiting
<1> QED BY <1>1, SettledAfterReturn, PTL DEF Spec, OutputsSettled
=============================================================================
