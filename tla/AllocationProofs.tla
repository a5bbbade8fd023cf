-------------------------- MODULE AllocationProofs --------------------------
(* Theorems about TaskAllocation, for any number of workers, processes,    *)
(* tasks and faults, and with slow handlers too: what is proved of the     *)
(* task manager alone holds in the server that uses it.                    *)
EXTENDS TaskAllocation, TLAPS

TMP == INSTANCE TaskManagerProofs WITH Worker <- Id

(* The ids that threads call the task manager with are worker ids: those   *)
(* of the processes that have made a request, ...                          *)
Callers ==
  /\ DOMAIN client = Process /\ DOMAIN handler = Process /\ DOMAIN id = Process
  /\ \A p \in Process : client[p] # "unborn" => id[p] \in Id
  /\ \A p \in Process : handler[p] # "none" => client[p] # "unborn"
  /\ DOMAIN watcher = Process
  /\ \A p \in Process : watcher[p] # "unborn" => client[p] # "unborn"

(* ... and those of failed processes.                                      *)
Failures ==
  /\ vacantIds \in Seq(Id)
  /\ DOMAIN activeWorkerPool = Id
  /\ spawned \in Nat
  /\ \A w \in Id : activeWorkerPool[w] \in {None} \union 1 .. spawned
  /\ \A p \in Process : client[p] = "unborn" <=> p > spawned
  /\ stage # "none" => failed \in Id

CallInv == Callers /\ Failures

(* The steps in which a thread enters stopWorker, or waits in it, or a     *)
(* heartbeat thread misses an answer.                                      *)
Waiting ==
  \/ EnterStopNext
  \/ StopHeartBeat
  \/ \E p \in Process : EnterStopWorker(p) \/ MissAnswer(p) \/ SuspectWrongly(p)

(* They change nothing that others see, and not the files, but may count   *)
(* a fault.                                                                *)
LEMMA WaitingIsQuiet ==
  ASSUME Waiting
  PROVE  /\ UNCHANGED <<taskVars, main, nextStop, handler, client, task, id, activeWorkerPool,
                        vacantIds, spawned, failed, stage, misses, files>>
         /\ faults' = faults \/ faults' = [faults EXCEPT !["loss"] = @ + 1]
         /\ \/ UNCHANGED watcher
            \/ \E p \in Process : watcher[p] \in {"registered", "forgotten"}
                                  /\ watcher' = [watcher EXCEPT ![p] = "missed"]
<1>1. CASE EnterStopNext
  BY <1>1 DEF EnterStopNext, EnterStop, watchVars
<1>2. CASE StopHeartBeat
  BY <1>2 DEF StopHeartBeat, watchVars
<1>3. ASSUME NEW p \in Process, EnterStopWorker(p)
      PROVE  UNCHANGED <<taskVars, main, nextStop, handler, client, task, id, activeWorkerPool,
                        vacantIds, spawned, failed, stage, watcher, misses, files, faults>>
  BY <1>3 DEF EnterStopWorker, EnterStop, watchVars
<1>4. ASSUME NEW p \in Process, MissAnswer(p) \/ SuspectWrongly(p)
      PROVE  /\ UNCHANGED <<taskVars, main, nextStop, handler, client, task, id,
                            activeWorkerPool, vacantIds, spawned, failed, stage, misses,
                            files>>
             /\ faults' = faults \/ faults' = [faults EXCEPT !["loss"] = @ + 1]
             /\ watcher[p] \in {"registered", "forgotten"}
             /\ watcher' = [watcher EXCEPT ![p] = "missed"]
  BY <1>4 DEF MissAnswer, SuspectWrongly, Miss, Hearing, Fault
<1> QED BY <1>1, <1>2, <1>3, <1>4 DEF Waiting

(* CallInv holds initially, and every step keeps it.                       *)
LEMMA InitCallInv == Init => CallInv
<1> SUFFICES ASSUME Init PROVE CallInv
  OBVIOUS
<1> USE AllocationAssumption DEF AllocationAssumption, Init, Process, Id
<1>1. DOMAIN client = Process /\ DOMAIN handler = Process /\ DOMAIN id = Process
  OBVIOUS
<1>2. \A p \in Process : client[p] # "unborn" => p <= Capacity
  OBVIOUS
<1>3. \A p \in Process : p <= Capacity => id[p] = p - 1 /\ p - 1 \in Id
  OBVIOUS
<1>4. Callers
  <2>1. DOMAIN watcher = Process /\ \A p \in Process : watcher[p] # "unborn" => p <= Capacity
    OBVIOUS
  <2>2. \A p \in Process : p <= Capacity => client[p] # "unborn"
    OBVIOUS
  <2> QED BY <1>1, <1>2, <1>3, <2>1, <2>2 DEF Callers
<1>5. Failures
  BY DEF Failures
<1> QED BY <1>4, <1>5 DEF CallInv

(* A step that starts no process keeps it, also when one is killed and     *)
(* leaves the pool.                                                        *)
LEMMA NoNewProcess ==
  ASSUME CallInv, UNCHANGED <<id, spawned>>,
         DOMAIN client' = Process, DOMAIN handler' = Process,
         \A p \in Process : client'[p] = "unborn" <=> client[p] = "unborn",
         \A p \in Process : handler'[p] # "none" => client[p] # "unborn",
         DOMAIN watcher' = Process,
         \A p \in Process : watcher'[p] # "unborn" => watcher[p] # "unborn",
         stage' # "none" => failed' \in Id,
         \/ UNCHANGED <<activeWorkerPool, vacantIds>>
         \/ \E w \in Id : /\ activeWorkerPool' = [activeWorkerPool EXCEPT ![w] = None]
                         /\ vacantIds' = Append(vacantIds, w)
  PROVE  CallInv'
<1>1. Callers'
  BY DEF CallInv, Callers
<1>2. /\ vacantIds' \in Seq(Id) /\ DOMAIN activeWorkerPool' = Id /\ spawned' \in Nat
      /\ \A w \in Id : activeWorkerPool'[w] \in {None} \union 1 .. spawned'
  <2>1. CASE UNCHANGED <<activeWorkerPool, vacantIds>>
    BY <2>1 DEF CallInv, Failures
  <2>2. ASSUME NEW w \in Id,
               activeWorkerPool' = [activeWorkerPool EXCEPT ![w] = None],
               vacantIds' = Append(vacantIds, w)
        PROVE  /\ vacantIds' \in Seq(Id) /\ DOMAIN activeWorkerPool' = Id /\ spawned' \in Nat
               /\ \A v \in Id : activeWorkerPool'[v] \in {None} \union 1 .. spawned'
    BY <2>2 DEF CallInv, Failures
  <2> QED BY <2>1, <2>2
<1>3. \A p \in Process : client'[p] = "unborn" <=> p > spawned'
  BY DEF CallInv, Failures
<1> QED BY <1>1, <1>2, <1>3 DEF CallInv, Failures

(* The threads that wait keep it. *)
LEMMA WaitingCallInv == CallInv /\ Waiting => CallInv'
<1> SUFFICES ASSUME CallInv, Waiting PROVE CallInv'
  OBVIOUS
<1>1. /\ DOMAIN watcher' = Process
      /\ \A p \in Process : watcher'[p] # "unborn" => watcher[p] # "unborn"
  BY WaitingIsQuiet DEF CallInv, Callers
<1> QED BY <1>1, WaitingIsQuiet, NoNewProcess DEF CallInv, Callers, Failures

(* A kill leaves the heartbeat threads where they are, or ends one.        *)
LEMMA KillIsStop ==
  ASSUME CallInv, NEW w \in Id, Kill(w)
  PROVE  /\ DOMAIN client' = Process /\ DOMAIN watcher' = Process
         /\ \A p \in Process : client'[p] = "unborn" <=> client[p] = "unborn"
         /\ \A p \in Process : watcher'[p] # "unborn" => watcher[p] # "unborn"
<1> DEFINE q == activeWorkerPool[w]
<1>1. /\ q # None /\ client' = [client EXCEPT ![q] = "dead"]
      /\ watcher' = [watcher EXCEPT ![q] = IF watcher[q] = "registered" THEN "ended"
                                           ELSE watcher[q]]
  BY DEF Kill
<1>2. \A p \in Process : p = q => client[p] # "unborn"
  BY <1>1 DEF CallInv, Failures
<1> QED BY <1>1, <1>2 DEF CallInv, Callers

(* A worker is stopped, by a handler or by the main thread. *)
LEMMA ExitStopCallInv ==
  ASSUME CallInv, NEW t, NEW w \in Id, ExitStop(t, w), DOMAIN handler' = Process,
         \A p \in Process : handler'[p] # "none" => client[p] # "unborn"
  PROVE  CallInv'
<1>1. /\ UNCHANGED <<id, spawned, failed, stage>>
      /\ activeWorkerPool' = [activeWorkerPool EXCEPT ![w] = None]
      /\ vacantIds' = Append(vacantIds, w)
  BY DEF ExitStop, WP!Stop, WP!Remove, WP!failureVars
<1>2. Kill(w)
  BY DEF ExitStop
<1> QED BY <1>1, <1>2, KillIsStop, NoNewProcess DEF CallInv, Callers, Failures

(* A worker, its client or its handler calls with the id it has.           *)
LEMMA WorkCallInv ==
  ASSUME CallInv, NEW p \in Process, Proceed(p) \/ Accept(p) \/ Leave(p) \/ StoreFails(p)
                                       \/ AcceptBroken(p) \/ AskElsewhere(p)
  PROVE  CallInv'
<1> USE DEF processVars, watchVars
<1>1. ASSUME \/ Request(p) \/ Leave(p) \/ OpenOutput(p) \/ StoreWordCount(p) \/ StoreFails(p)
             \/ AskElsewhere(p)
      PROVE  CallInv'
  BY <1>1, NoNewProcess
  DEF Request, Leave, OpenOutput, StoreWordCount, StoreFails, AskElsewhere, AfterTruncation,
      CallInv, Callers, Failures
<1>2. ASSUME Accept(p) \/ AcceptBroken(p) \/ Mark(p) \/ CheckFirstRead(p) \/ CheckSecondRead(p)
      PROVE  CallInv'
  BY <1>2, NoNewProcess
  DEF Accept, AcceptBroken, Mark, CheckFirstRead, CheckSecondRead,
      CallInv, Callers, Failures
<1>3. ASSUME QueryAvailable(p) \/ Allocate(p)
      PROVE  CallInv'
  BY <1>3, NoNewProcess
  DEF QueryAvailable, Allocate, AnswerTask, AnswerWait, CallInv, Callers, Failures
<1>4. ASSUME StopWorker(p)
      PROVE  CallInv'
  <2>1. handler' = [handler EXCEPT ![p] = "none"] /\ id[p] \in Id
    BY <1>4 DEF StopWorker, CallInv, Callers
  <2>2. CASE ExitStop(p, id[p])
    <3>1. handler'[p] = "none" /\ \A q \in Process \ {p} : handler'[q] = handler[q]
      BY <2>1 DEF CallInv, Callers
    <3> QED BY <2>1, <2>2, <3>1, ExitStopCallInv DEF CallInv, Callers
  <2>3. CASE UNCHANGED <<client, processVars>>
    BY <2>1, <2>3, NoNewProcess DEF CallInv, Callers, Failures
  <2> QED BY <1>4, <2>2, <2>3 DEF StopWorker
<1>5. ASSUME EnterStopWorker(p)
      PROVE  CallInv'
  BY <1>5, WaitingCallInv DEF Waiting
<1> QED BY <1>1, <1>2, <1>3, <1>4, <1>5 DEF Proceed, Work, Handle

(* The main thread. *)
LEMMA ServeCallInv ==
  ASSUME CallInv, Serve
  PROVE  CallInv'
<1>1. CASE StopNext
  BY <1>1, ExitStopCallInv DEF StopNext, CallInv, Callers
<1>2. CASE \/ Open \/ OpenFails \/ LoopFirstRead \/ LoopSecondRead \/ AcceptTimeout
           \/ PassVacant \/ Return
  BY <1>2, NoNewProcess
  DEF OpenFails, Open, LoopFirstRead, LoopSecondRead, AcceptTimeout, PassVacant, Return,
      processVars, watchVars, CallInv, Callers, Failures
<1>3. CASE EnterStopNext
  BY <1>3, WaitingCallInv DEF Waiting
<1> QED BY <1>1, <1>2, <1>3 DEF Serve

(* Losses, and the handling of a failure. *)
LEMMA LossCallInv ==
  ASSUME CallInv,
         \/ \E p \in Process : Crash(p) \/ Notice(p)
         \/ HandleFailure \/ ReplaceFails
  PROVE  CallInv'
<1>1. ASSUME NEW p \in Process, Crash(p)
      PROVE  CallInv'
  BY <1>1, NoNewProcess
  DEF Crash, Alive, WP!Die, WP!failureVars, watchVars, CallInv, Callers, Failures
<1>2. ASSUME NEW p \in Process, Notice(p)
      PROVE  CallInv'
  <2>1. id[p] \in Id
    BY <1>2 DEF Notice, CallInv, Callers
  <2> QED BY <1>2, <2>1, NoNewProcess
      DEF Notice, WP!Notice, WP!poolVars, CallInv, Callers, Failures
<1>3. CASE StopFailed
  <2>1. failed \in Id /\ failed' = failed /\ UNCHANGED <<handler, id>>
    BY <1>3 DEF StopFailed, WP!StopFailed, CallInv, Failures
  <2>2. CASE activeWorkerPool[failed] = None
    BY <1>3, <2>1, <2>2, NoNewProcess
    DEF StopFailed, WP!StopFailed, WP!Remove, WP!poolVars, Kill, CallInv, Callers, Failures
  <2>3. CASE activeWorkerPool[failed] # None
    <3>1. Kill(failed) /\ WP!Remove(failed)
      BY <1>3, <2>3 DEF StopFailed, WP!StopFailed
    <3> QED BY <2>1, <3>1, KillIsStop, NoNewProcess DEF WP!Remove, CallInv, Callers, Failures
  <2> QED BY <2>2, <2>3
<1>4. CASE Deallocate
  <2>1. DOMAIN watcher' = Process
        /\ \A p \in Process : watcher'[p] # "unborn" => watcher[p] # "unborn"
    BY <1>4 DEF Deallocate, Update, EndHandling, processVars, watchVars, CallInv, Callers
  <2> QED BY <1>4, <2>1, NoNewProcess
      DEF Deallocate, Update, EndHandling, WP!HandBack, WP!poolVars, processVars,
          CallInv, Callers, Failures
<1>5. CASE ReplaceFails
  <2>1. vacantIds # <<>> /\ vacantIds' = Tail(vacantIds) /\ stage' = "none"
        /\ UNCHANGED <<activeWorkerPool, spawned, handler, client, id, watcher>>
    BY <1>5 DEF ReplaceFails, WP!Abandon, WP!NoProcess, watchVars
  <2>2. vacantIds' \in Seq(Id)
    BY <2>1 DEF CallInv, Failures
  <2> QED BY <2>1, <2>2 DEF CallInv, Callers, Failures
<1>6. CASE Replace
  <2> DEFINE q == spawned + 1
             w == Head(vacantIds)
  <2>1. /\ vacantIds # <<>> /\ vacantIds' = Tail(vacantIds) /\ spawned' = q
        /\ q \in Process /\ UNCHANGED <<handler, failed>>
        /\ client' = [client EXCEPT ![q] = "ask"] /\ id' = [id EXCEPT ![q] = w]
        /\ activeWorkerPool' = [activeWorkerPool EXCEPT ![w] = q]
        /\ watcher' = [watcher EXCEPT ![q] = "registered"]
    BY <1>6, AllocationAssumption
    DEF Replace, WP!Replace, WP!NewProcess, AllocationAssumption, Process, CallInv, Failures
  <2>2. w \in Id /\ vacantIds' \in Seq(Id) /\ failed \in Id
    BY <1>6, <2>1 DEF Replace, WP!Replace, CallInv, Failures
  <2>3. Callers'
    BY <2>1, <2>2 DEF CallInv, Callers
  <2>4. Failures'
    BY <2>1, <2>2 DEF CallInv, Callers, Failures, Process
  <2> QED BY <2>3, <2>4 DEF CallInv
<1> QED BY <1>1, <1>2, <1>3, <1>4, <1>5, <1>6 DEF HandleFailure

(* Every step keeps the calls in their places.                             *)
LEMMA NextCallInv == CallInv /\ [Next]_vars => CallInv'
<1> SUFFICES ASSUME CallInv, [Next]_vars PROVE CallInv'
  OBVIOUS
<1>1. CASE UNCHANGED vars
  BY <1>1 DEF vars, processVars, watchVars, CallInv, Callers, Failures
<1> QED BY <1>1, WorkCallInv, ServeCallInv, WaitingCallInv, LossCallInv
        DEF Next, Misfortune, NoticeFailure, Waiting
-----------------------------------------------------------------------------
(* A step of a thread in TaskManager is a step of the task manager.        *)
LEMMA CallIsStep ==
  ASSUME NEW t \in Thread, NEW w \in Id,
         \/ TM!AllocateSame(t, w) \/ TM!AllocateNone(t, w) \/ TM!AllocatePoll(t, w)
         \/ TM!NothingAllocated(t, w) \/ TM!DeallocateRemove(t, w)
         \/ TM!MarkTaskCompleted(t, w)
  PROVE  TMP!Next
<1>1. ASSUME TM!AllocateSame(t, w) \/ TM!AllocateNone(t, w) \/ TM!AllocatePoll(t, w)
      PROVE  TMP!CallOn(t, w)
  BY <1>1
  DEF TM!AllocateSame, TM!AllocateNone, TM!AllocatePoll, TM!Enter, TM!Hold,
      TM!isAnyTaskAvailable, TM!vars, TM!pools, TM!locals, TM!history,
      TMP!CallOn, TMP!AllocateSame, TMP!AllocateNone, TMP!AllocatePoll, TMP!Enter, TMP!Hold,
      TMP!isAnyTaskAvailable, TMP!vars, TMP!pools, TMP!locals, TMP!history
<1>2. ASSUME TM!NothingAllocated(t, w) \/ TM!DeallocateRemove(t, w) \/ TM!MarkTaskCompleted(t, w)
      PROVE  TMP!CallOn(t, w)
  BY <1>2
  DEF TM!NothingAllocated, TM!DeallocateRemove, TM!MarkTaskCompleted, TM!Enter, TM!Hold,
      TM!vars, TM!pools, TM!locals, TM!history,
      TMP!CallOn, TMP!NothingAllocated, TMP!DeallocateRemove, TMP!MarkTaskCompleted,
      TMP!Enter, TMP!Hold, TMP!vars, TMP!pools, TMP!locals, TMP!history
<1> QED BY <1>1, <1>2 DEF TMP!Next

(* The second access of a method is a step of TaskManager.                 *)
LEMMA ReturnIsStep ==
  ASSUME NEW t \in Thread,
         \/ TM!AllocatePut(t) \/ TM!DeallocateAdd(t)
         \/ TM!CompletedFirstRead(t) \/ TM!CompletedSecondRead(t)
  PROVE  TMP!Next
<1>1. TMP!Step(t)
  BY DEF TM!AllocatePut, TM!DeallocateAdd, TM!CompletedFirstRead, TM!CompletedSecondRead,
         TM!Leave, TM!Ongoing, TM!pools, TM!history,
         TMP!Step, TMP!AllocatePut, TMP!DeallocateAdd, TMP!CompletedFirstRead,
         TMP!CompletedSecondRead, TMP!Leave, TMP!Ongoing, TMP!pools, TMP!history
<1> QED BY <1>1 DEF TMP!Next

(* Every step of the server leaves the task manager alone, or is one of    *)
(* its steps, by a thread of the server and for a worker id.               *)
LEMMA StepTaskManager == CallInv /\ [Next]_vars => [TMP!Next]_(TMP!vars)
<1> SUFFICES ASSUME CallInv, [Next]_vars, taskVars' # taskVars
             PROVE  TMP!Next
  BY DEF taskVars, TMP!vars, TMP!pools, TMP!locals, TMP!history
<1>0. Process \subseteq Thread /\ Main \in Thread /\ Watcher \in Thread
  BY DEF Thread
<1>1. ASSUME NEW p \in Process, Handle(p)
      PROVE  TMP!Next
  <2>1. p \in Thread /\ id[p] \in Id
    BY <1>0, <1>1
    DEF Handle, Mark, CheckFirstRead, CheckSecondRead, EnterStopWorker, StopWorker,
        QueryAvailable, Allocate, CallInv, Callers
  <2> QED BY <1>1, <2>1, CallIsStep, ReturnIsStep
      DEF Handle, Mark, CheckFirstRead, CheckSecondRead, EnterStopWorker, StopWorker,
          QueryAvailable, Allocate
<1>2. CASE LoopFirstRead \/ LoopSecondRead
  BY <1>0, <1>2, ReturnIsStep DEF LoopFirstRead, LoopSecondRead
<1>3. CASE Deallocate
  <2>1. failed \in Id
    BY <1>3 DEF Deallocate, CallInv, Failures
  <2> QED BY <1>0, <1>3, <2>1, CallIsStep, ReturnIsStep DEF Deallocate, Update
<1>4. CASE UNCHANGED vars
  BY <1>4 DEF vars
<1>5. ASSUME NEW p \in Process, Work(p) \/ Accept(p)
      PROVE  FALSE
  BY <1>5 DEF Work, Request, OpenOutput, StoreWordCount, Accept
<1>6. CASE Misfortune \/ NoticeFailure
  BY <1>6
  DEF Misfortune, Leave, StoreFails, AcceptBroken, Crash, SuspectWrongly, AskElsewhere,
      NoticeFailure, MissAnswer, Notice, Miss, ReplaceFails
<1>7. CASE \/ Open \/ OpenFails \/ AcceptTimeout \/ EnterStopNext \/ StopNext \/ PassVacant
           \/ Return \/ StopHeartBeat \/ StopFailed \/ Replace
  BY <1>7 DEF Open, OpenFails, AcceptTimeout, EnterStopNext, StopNext, PassVacant, Return,
              StopHeartBeat, StopFailed, Replace
<1> QED BY <1>1, <1>2, <1>3, <1>4, <1>5, <1>6, <1>7 DEF Next, Proceed, Serve, HandleFailure

(* The server begins with a task manager that is new.                      *)
LEMMA InitTaskManager == Init => TMP!Init
BY DEF Init, TM!Init, TMP!Init

(* What the server, its handlers and the watcher do to the task manager is *)
(* what TaskManager allows.                                                *)
THEOREM UsesTaskManager == Spec => TMP!Spec
BY InitCallInv, NextCallInv, StepTaskManager, InitTaskManager, PTL DEF Spec, TMP!Spec

(* No task is lost and none is duplicated while the server runs, whatever  *)
(* processes are lost, clients leave, writes fail, and however slow the    *)
(* handlers are.                                                           *)
THEOREM ServerConservesTasks == Spec => []TMP!TaskConservation
BY TasksAssumption, UsesTaskManager, TMP!Conservation, PTL

(* The server sees the task manager as a TaskPool with atomic operations.  *)
THEOREM ServerUsesPool == Spec => TMP!PoolSpec
BY TasksAssumption, UsesTaskManager, TMP!Refinement, PTL

(* The main loop ends, and a worker is told that all is done, with a task  *)
(* not completed only if that task was moving at that moment, or had just  *)
(* been queued again.                                                      *)
THEOREM ServerMisledOnlyByMoves == Spec => TMP!WrongOnlyWhileTasksMove
BY TasksAssumption, UsesTaskManager, TMP!WrongAnswerNeedsMove, PTL
-----------------------------------------------------------------------------
(* A step that starts no process, kills none and handles no failure is a   *)
(* stutter of the pool.                                                    *)
LEMMA StutterWorkerPool ==
  ASSUME UNCHANGED <<activeWorkerPool, vacantIds, spawned, failed, stage>>,
         \A p \in Process : Alive(p)' <=> Alive(p)
  PROVE  UNCHANGED WP!vars
BY DEF WP!vars, WP!poolVars, WP!failureVars

(* A thread that waits, or only talks, leaves the processes alone.         *)
LEMMA WaitingStutters == Waiting => UNCHANGED WP!vars
BY WaitingIsQuiet, StutterWorkerPool DEF Alive

(* Every step of the server is an operation of the pool, or none.          *)
LEMMA StepWorkerPool == CallInv /\ [Next]_vars => [WP!Next]_(WP!vars)
<1> SUFFICES ASSUME CallInv, [Next]_vars
             PROVE  WP!Next \/ UNCHANGED WP!vars
  OBVIOUS
<1> USE DEF Alive, processVars
<1>1. ASSUME NEW p \in Process, Work(p) \/ Accept(p) \/ Leave(p) \/ StoreFails(p)
                                  \/ AcceptBroken(p) \/ AskElsewhere(p)
      PROVE  UNCHANGED WP!vars
  BY <1>1, StutterWorkerPool
  DEF Work, Request, OpenOutput, StoreWordCount, Accept, Leave, StoreFails, AcceptBroken,
      AskElsewhere, AfterTruncation, CallInv, Callers
<1>2. ASSUME NEW p \in Process, Handle(p)
      PROVE  WP!Next \/ UNCHANGED WP!vars
  <2>1. CASE Mark(p) \/ CheckFirstRead(p) \/ CheckSecondRead(p)
    BY <2>1, StutterWorkerPool DEF Mark, CheckFirstRead, CheckSecondRead
  <2>2. CASE QueryAvailable(p) \/ Allocate(p)
    BY <2>2, StutterWorkerPool
    DEF QueryAvailable, Allocate, AnswerTask, AnswerWait, CallInv, Callers
  <2>3. CASE StopWorker(p)
    <3>1. id[p] \in WP!Id
      BY <2>3 DEF StopWorker, CallInv, Callers, Id, WP!Id
    <3>2. WP!Stop(id[p]) \/ UNCHANGED <<client, processVars>>
      BY <2>3 DEF StopWorker, ExitStop
    <3>3. CASE UNCHANGED <<client, processVars>>
      BY <3>3, StutterWorkerPool
    <3>4. CASE WP!Stop(id[p])
      <4>1. \E w \in WP!Id : WP!Stop(w)
        BY <3>1, <3>4 DEF WP!Stop, WP!Remove
      <4> QED BY <4>1 DEF WP!Next
    <3> QED BY <3>2, <3>3, <3>4
  <2>4. CASE EnterStopWorker(p)
    BY <2>4, WaitingStutters DEF Waiting
  <2> QED BY <1>2, <2>1, <2>2, <2>3, <2>4 DEF Handle
<1>3. CASE \/ Open \/ OpenFails \/ LoopFirstRead \/ LoopSecondRead \/ AcceptTimeout
           \/ PassVacant \/ Return
  BY <1>3, StutterWorkerPool
  DEF Open, OpenFails, LoopFirstRead, LoopSecondRead, AcceptTimeout, PassVacant, Return
<1>4. CASE StopNext
  <2>1. nextStop \in WP!Id /\ WP!Stop(nextStop)
    BY <1>4 DEF StopNext, ExitStop, Id, WP!Id
  <2>2. \E w \in WP!Id : WP!Stop(w)
    BY <2>1 DEF WP!Stop, WP!Remove
  <2> QED BY <2>2 DEF WP!Next
<1>5. ASSUME NEW p \in Process, Crash(p)
      PROVE  WP!Next
  <2>1. p \in {q \in Process : Alive(q)} /\ WP!Die(p)
    BY <1>5 DEF Crash
  <2> QED BY <2>1 DEF WP!Next
<1>6. ASSUME NEW p \in Process, Notice(p)
      PROVE  WP!Next
  <2>1. id[p] \in WP!Id /\ WP!Notice(id[p])
    BY <1>6 DEF Notice, CallInv, Callers, Id, WP!Id
  <2> QED BY <2>1 DEF WP!Next
<1>7. CASE StopFailed \/ Replace \/ ReplaceFails
  BY <1>7 DEF StopFailed, Replace, ReplaceFails, WP!Next
<1>8. CASE Deallocate
  <2>1. WP!HandBack \/ UNCHANGED <<client, processVars>>
    BY <1>8 DEF Deallocate, Update, EndHandling
  <2>2. CASE UNCHANGED <<client, processVars>>
    BY <2>2, StutterWorkerPool
  <2> QED BY <2>1, <2>2 DEF WP!Next
<1>9. CASE UNCHANGED vars
  BY <1>9, StutterWorkerPool DEF vars
<1>10. CASE Waiting
  BY <1>10, WaitingStutters
<1> QED BY <1>1, <1>2, <1>3, <1>4, <1>5, <1>6, <1>7, <1>8, <1>9, <1>10
        DEF Next, Proceed, Serve, HandleFailure, Misfortune, NoticeFailure, Waiting

(* From the moment its workers run, what the server and the watcher do to  *)
(* the processes is what WorkerPool allows, and WorkerSupervision          *)
(* implements (SupervisionRefinement).                                     *)
THEOREM UsesWorkerPool == Spec => [][WP!Next]_(WP!vars)
BY InitCallInv, NextCallInv, StepWorkerPool, PTL DEF Spec
=============================================================================
