-------------------------- MODULE TaskAllocation --------------------------
(***************************************************************************)
(* taskallocation/TaskAllocationServer.java (the accept loop of the main   *)
(* thread and one handler thread per request), TaskAllocationClient.java   *)
(* (the loop of a worker process), the output files of WordCounter.java,   *)
(* the failure notification of HeartbeatManager, and the waiting in        *)
(* stopWorker, on top of two other modules: TaskManager, for the tasks,    *)
(* and WorkerPool, which is what WorkerSupervision implements, for the     *)
(* processes.  An action here that calls the one or the other has the      *)
(* action of that module as a conjunct.                                    *)
(***************************************************************************)
EXTENDS Naturals, Sequences

CONSTANTS
  Capacity,        \* number of workers
  Task,            \* the tasks, one per input file
  inputFiles,      \* the tasks in the order of the array
  Main,            \* the main thread
  Watcher,         \* the heartbeat thread inside handleMissingHeartbeat
  None,            \* Java's null
  PromptHandlers,  \* a request is handled before its sender is replaced
  MaxSpawn,        \* bound: worker processes ever started
  MaxLosses,       \* bound: processes that crash or are taken for dead
  MaxLeavers,      \* bound: clients whose loop ends on an exception
  MaxBuildFailures, \* bound: ProcessBuilder.start() throws IOException
  MaxBadWrites,    \* bound: output files that cannot be written
  MaxBadSockets    \* bound: the port of the server is taken (at most once)

Id == 0 .. Capacity - 1

(* A worker process has one request under way at most, so the handler of   *)
(* the request of process p is thread p.                                   *)
Process == 1 .. MaxSpawn
Thread == Process \union {Main, Watcher}

ASSUME AllocationAssumption ==
  /\ Capacity \in Nat /\ MaxSpawn \in Nat /\ Capacity <= MaxSpawn
  /\ MaxLosses \in Nat /\ MaxLeavers \in Nat /\ MaxBuildFailures \in Nat
  /\ MaxBadWrites \in Nat /\ MaxBadSockets \in Nat
  /\ PromptHandlers \in BOOLEAN
  /\ Main \notin Nat /\ Watcher \notin Nat /\ None \notin Nat
  /\ Main # Watcher /\ None \notin {Main, Watcher}

VARIABLES
  incompleteTasks, ongoingTaskAllocationMap, monitor,  \* of TaskManager,
  pc, workerId, inputFile, completed, announced,       \* with the threads in it
  main,      \* where the main thread is
  nextStop,  \* the least id stopAllWorkers has not gone past yet
  handler,   \* where the handler of the request of each process is
  client,    \* where each worker process is
  task,      \* the task each worker process has been given last
  id,        \* the worker id of each process
  activeWorkerPool, vacantIds, spawned,  \* of WorkerPool,
  failed, stage,     \* with the id the watcher is handling the failure of
  watcher,   \* where the heartbeat thread of each process is
  misses,    \* history: how many failures have been handled, or are
  resourceMonitor,   \* the handler, or Main, that is in stopWorker,
  heartbeatStopped,  \* and whether it has returned from stopHeartBeat
  executions,  \* history: how often each task of this server has been executed
  output,    \* the state of the output file of each task
  faults     \* how many faults of each kind have happened

taskVars == <<incompleteTasks, ongoingTaskAllocationMap, monitor,
              pc, workerId, inputFile, completed, announced>>
watchVars == <<watcher, misses>>
stopVars == <<resourceMonitor, heartbeatStopped>>
processVars == <<id, activeWorkerPool, vacantIds, spawned, failed, stage,
                 watchVars, stopVars>>
files == <<output, executions>>
vars == <<taskVars, main, nextStop, handler, client, task, processVars, files, faults>>

Alive(p) == client[p] \notin {"unborn", "dead"}

TM == INSTANCE TaskManager WITH Worker <- Id
WP == INSTANCE WorkerPool WITH
  pool <- activeWorkerPool, vacant <- vacantIds, started <- spawned,
  running <- {p \in Process : Alive(p)}

(* The array of input files is as TaskManager assumes. *)
ASSUME TasksAssumption == TM!TaskManagerAssumption

Listening == main \in {"loop", "accept"}

(* Another process listens on the port of the server, from the beginning.  *)
PortTaken == faults["socket"] > 0

Init ==
  /\ TM!Init
  /\ main = "create"
  /\ nextStop = 0
  /\ handler = [p \in Process |-> "none"]
  /\ client = [p \in Process |-> IF p <= Capacity THEN "ask" ELSE "unborn"]
  /\ task = [p \in Process |-> None]
  /\ id = [p \in Process |-> IF p <= Capacity THEN p - 1 ELSE None]
  /\ activeWorkerPool = [w \in Id |-> w + 1]
  /\ vacantIds = <<>>
  /\ spawned = Capacity
  /\ failed = None
  /\ stage = "none"
  /\ watcher = [p \in Process |-> IF p <= Capacity THEN "registered" ELSE "unborn"]
  /\ misses = 0
  /\ resourceMonitor = None
  /\ heartbeatStopped = FALSE
  /\ executions = [f \in Task |-> 0]
  /\ output = [f \in Task |-> "absent"]
  /\ \E taken \in 0 .. MaxBadSockets :
       faults = [loss |-> 0, leave |-> 0, build |-> 0, write |-> 0, socket |-> taken]

(* The operators named Mut... are faulty variants of the definition that   *)
(* follows them; nothing uses them but the mutation runs.                  *)

Fault(kind, max) ==
  /\ faults[kind] < max
  /\ faults' = [faults EXCEPT ![kind] = @ + 1]
-----------------------------------------------------------------------------
(* TaskAllocationClient.run, in worker process p.                          *)

(* Connect and send "ALLOCATE id", or "SUCCESS id" after an execution.     *)
Request(p) ==
  /\ client[p] \in {"ask", "report"} /\ Listening /\ handler[p] = "none"
  /\ handler' = [handler EXCEPT ![p] = client[p]]
  /\ client' = [client EXCEPT ![p] = "await"]
  /\ UNCHANGED <<taskVars, main, nextStop, task, processVars, files, faults>>

(* If the port of the server is taken, whoever has it gets the request.    *)
(* It may be the master of another job on the same files.                  *)
AskElsewhere(p) ==
  /\ client[p] \in {"ask", "report"} /\ PortTaken
  /\ \/ /\ client' = [client EXCEPT ![p] = "execute"]
        /\ \E f \in Task : task' = [task EXCEPT ![p] = f]
     \/ client' = [client EXCEPT ![p] = "ask"] /\ UNCHANGED task
  /\ UNCHANGED <<taskVars, main, nextStop, handler, processVars, files, faults>>

(* An exception ends the loop, not the process, which goes on answering    *)
(* heartbeats: the connection is refused, because the server does not      *)
(* listen yet, or has returned, or it is closed by another listener, it    *)
(* breaks before the answer is read, or the execution throws.              *)
Leave(p) ==
  /\ \/ client[p] \in {"ask", "report"} /\ ~Listening
     \/ client[p] \in {"await", "execute", "store"}
  /\ Fault("leave", MaxLeavers)
  /\ client' = [client EXCEPT ![p] = "left"]
  /\ UNCHANGED <<taskVars, main, nextStop, handler, task, processVars, files>>

(* WordCounter.execute up to new FileOutputStream: the words are counted   *)
(* and the output file of the task, which may exist, is truncated.         *)
MutAfterTruncation == "report"
AfterTruncation == "store"

OpenOutput(p) ==
  /\ client[p] = "execute"
  /\ output' = [output EXCEPT ![task[p]] = "broken"]
  /\ client' = [client EXCEPT ![p] = AfterTruncation]
  /\ UNCHANGED <<taskVars, main, nextStop, handler, task, processVars, executions, faults>>

(* Executions for another listener are not counted. *)
Executed(f) == IF PortTaken THEN executions ELSE [executions EXCEPT ![f] = @ + 1]

(* storeWordCount to its end: the map is written.                          *)
StoreWordCount(p) ==
  /\ client[p] = "store"
  /\ output' = [output EXCEPT ![task[p]] = "complete"]
  /\ executions' = Executed(task[p])
  /\ client' = [client EXCEPT ![p] = "report"]
  /\ UNCHANGED <<taskVars, main, nextStop, handler, task, processVars, faults>>

(* The write fails: the exception is logged, and the task is a success.    *)
StoreFails(p) ==
  /\ client[p] = "store"
  /\ Fault("write", MaxBadWrites)
  /\ executions' = Executed(task[p])
  /\ client' = [client EXCEPT ![p] = "report"]
  /\ UNCHANGED <<taskVars, main, nextStop, handler, task, processVars, output>>
-----------------------------------------------------------------------------
(* TaskAllocationServer.run, in the main thread.                           *)

Open ==
  /\ main = "create" /\ ~PortTaken
  /\ main' = "loop"
  /\ UNCHANGED <<taskVars, nextStop, handler, client, task, processVars, files, faults>>

(* The port is taken: the IOException is logged, and run() returns.  The   *)
(* workers are not stopped.                                                *)
OpenFails ==
  /\ main = "create" /\ PortTaken
  /\ main' = "returned"
  /\ UNCHANGED <<taskVars, nextStop, handler, client, task, processVars, files, faults>>

(* while (!areAllTasksCompleted()), with its two reads.                    *)
LoopFirstRead ==
  /\ main = "loop"
  /\ \/ TM!CompletedFirstRead(Main) /\ UNCHANGED main
     \/ /\ TM!isAnyTaskAvailable /\ pc[Main] = "idle"
        /\ main' = "accept"
        /\ UNCHANGED taskVars
  /\ UNCHANGED <<nextStop, handler, client, task, processVars, files, faults>>

LoopSecondRead ==
  /\ main = "loop" /\ TM!CompletedSecondRead(Main)
  /\ main' = IF TM!Ongoing = {} THEN "stop" ELSE "accept"
  /\ UNCHANGED <<nextStop, handler, client, task, processVars, files, faults>>

(* A connection is accepted and its handler thread reads the message: a    *)
(* success is marked first.                                                *)
MutMarkAlways(message) == "mark"
FirstStep(message) == IF message = "report" THEN "mark" ELSE "check"

Accept(p) ==
  /\ main = "accept" /\ handler[p] \in {"ask", "report"}
  /\ main' = "loop"
  /\ handler' = [handler EXCEPT ![p] = FirstStep(handler[p])]
  /\ UNCHANGED <<taskVars, nextStop, client, task, processVars, files, faults>>

(* The process is dead, and with it its message: the handler ends at once. *)
(* (readLine returns null, or throws.)                                     *)
AcceptBroken(p) ==
  /\ main = "accept" /\ handler[p] \in {"ask", "report"} /\ ~Alive(p)
  /\ main' = "loop"
  /\ handler' = [handler EXCEPT ![p] = "none"]
  /\ UNCHANGED <<taskVars, nextStop, client, task, processVars, files, faults>>

(* accept() times out. *)
AcceptTimeout ==
  /\ main = "accept"
  /\ main' = "loop"
  /\ UNCHANGED <<taskVars, nextStop, handler, client, task, processVars, files, faults>>

(* ResourceManager.stopWorker(w), in a handler or in the main thread t, if *)
(* the pool has a worker for w: t takes the monitor, ...                   *)
EnterStop(t, w) ==
  /\ resourceMonitor = None /\ activeWorkerPool[w] # None
  /\ resourceMonitor' = t
  /\ UNCHANGED <<heartbeatStopped, watchVars, id, activeWorkerPool, vacantIds,
                 spawned, failed, stage>>

(* ... waits in stopHeartBeat until no failure is being handled, ...       *)
StopHeartBeat ==
  /\ resourceMonitor # None /\ ~heartbeatStopped /\ failed = None
  /\ heartbeatStopped' = TRUE
  /\ UNCHANGED <<taskVars, main, nextStop, handler, client, task, id,
                 activeWorkerPool, vacantIds, spawned, failed, stage, watchVars,
                 resourceMonitor, files, faults>>

(* ... and kills the process.  A heartbeat thread that is registered has   *)
(* ended by then; one that has seen a miss goes on.                        *)
Kill(w) ==
  /\ activeWorkerPool[w] # None
  /\ client' = [client EXCEPT ![activeWorkerPool[w]] = "dead"]
  /\ watcher' = [watcher EXCEPT ![activeWorkerPool[w]] =
                   IF @ = "registered" THEN "ended" ELSE @]

ExitStop(t, w) ==
  /\ resourceMonitor = t /\ heartbeatStopped
  /\ Kill(w)
  /\ WP!Stop(w)
  /\ resourceMonitor' = None /\ heartbeatStopped' = FALSE
  /\ UNCHANGED <<id, misses>>

(* stopAllWorkers goes through the pool without its monitor, id by id: a   *)
(* worker that is created under an id it has passed goes on.               *)
EnterStopNext ==
  /\ main = "stop" /\ nextStop \in Id
  /\ EnterStop(Main, nextStop)
  /\ UNCHANGED <<taskVars, main, nextStop, handler, client, task, files, faults>>

StopNext ==
  /\ main = "stop" /\ nextStop \in Id
  /\ nextStop' = nextStop + 1
  /\ ExitStop(Main, nextStop)
  /\ UNCHANGED <<taskVars, main, handler, task, files, faults>>

PassVacant ==
  /\ main = "stop" /\ nextStop \in Id /\ activeWorkerPool[nextStop] = None
  /\ nextStop' = nextStop + 1
  /\ UNCHANGED <<taskVars, main, handler, client, task, processVars, files, faults>>

MutReturn ==
  /\ main = "stop"
  /\ main' = "returned"
  /\ UNCHANGED <<taskVars, nextStop, handler, client, task, processVars, files, faults>>

Return ==
  /\ main = "stop" /\ nextStop = Capacity
  /\ main' = "returned"
  /\ UNCHANGED <<taskVars, nextStop, handler, client, task, processVars, files, faults>>
-----------------------------------------------------------------------------
(* TaskCommunicationServerThread.run, for the request of process p.        *)

(* The answer reaches the process, if it still waits, and the thread ends. *)
AnswerTask(p, f) ==
  /\ handler' = [handler EXCEPT ![p] = "none"]
  /\ client' = [client EXCEPT ![p] = IF @ = "await" THEN "execute" ELSE @]
  /\ task' = [task EXCEPT ![p] = f]

MutAnswerNothing(p) ==
  /\ handler' = [handler EXCEPT ![p] = "none"]
  /\ UNCHANGED <<client, task>>

AnswerWait(p) ==
  /\ handler' = [handler EXCEPT ![p] = "none"]
  /\ client' = [client EXCEPT ![p] = IF @ = "await" THEN "ask" ELSE @]
  /\ UNCHANGED task

(* SUCCESS: whatever task the id has is completed. *)
MutMark(p) ==
  /\ handler[p] = "mark"
  /\ \/ TM!DeallocateRemove(p, id[p]) /\ UNCHANGED handler
     \/ /\ TM!DeallocateAdd(p) \/ TM!NothingAllocated(p, id[p])
        /\ handler' = [handler EXCEPT ![p] = "check"]
  /\ UNCHANGED <<main, nextStop, client, task, processVars, files, faults>>

Mark(p) ==
  /\ handler[p] = "mark"
  /\ TM!MarkTaskCompleted(p, id[p]) \/ TM!NothingAllocated(p, id[p])
  /\ handler' = [handler EXCEPT ![p] = "check"]
  /\ UNCHANGED <<main, nextStop, client, task, processVars, files, faults>>

(* areAllTasksCompleted, with its two reads. *)
CheckFirstRead(p) ==
  /\ handler[p] = "check"
  /\ \/ TM!CompletedFirstRead(p) /\ UNCHANGED handler
     \/ /\ TM!isAnyTaskAvailable /\ pc[p] = "idle"
        /\ handler' = [handler EXCEPT ![p] = "query"]
        /\ UNCHANGED taskVars
  /\ UNCHANGED <<main, nextStop, client, task, processVars, files, faults>>

CheckSecondRead(p) ==
  /\ handler[p] = "check" /\ TM!CompletedSecondRead(p)
  /\ handler' = [handler EXCEPT ![p] = IF TM!Ongoing = {} THEN "stop" ELSE "query"]
  /\ UNCHANGED <<main, nextStop, client, task, processVars, files, faults>>

(* All completed: the worker that the pool has for the id is stopped for   *)
(* good, and gets no answer.                                               *)
EnterStopWorker(p) ==
  /\ handler[p] = "stop"
  /\ EnterStop(p, id[p])
  /\ UNCHANGED <<taskVars, main, nextStop, handler, client, task, files, faults>>

StopWorker(p) ==
  /\ handler[p] = "stop"
  /\ handler' = [handler EXCEPT ![p] = "none"]
  /\ \/ ExitStop(p, id[p])
     \/ /\ resourceMonitor = None /\ activeWorkerPool[id[p]] = None
        /\ UNCHANGED <<client, processVars>>
  /\ UNCHANGED <<taskVars, main, nextStop, task, files, faults>>

(* isAnyTaskAvailable comes before allocateTask, which would give the      *)
(* worker the task it already has.                                         *)
QueryAvailable(p) ==
  /\ handler[p] = "query"
  /\ \/ /\ TM!isAnyTaskAvailable
        /\ handler' = [handler EXCEPT ![p] = "allocate"]
        /\ UNCHANGED <<client, task>>
     \/ ~TM!isAnyTaskAvailable /\ AnswerWait(p)
  /\ UNCHANGED <<taskVars, main, nextStop, processVars, files, faults>>

MutGiven(p) == inputFile'[p]
Given(p) == inputFile[p]

Allocate(p) ==
  /\ handler[p] = "allocate"
  /\ \/ TM!AllocateSame(p, id[p]) /\ AnswerTask(p, ongoingTaskAllocationMap[id[p]])
     \/ TM!AllocateNone(p, id[p]) /\ AnswerWait(p)
     \/ TM!AllocatePoll(p, id[p]) /\ UNCHANGED <<handler, client, task>>
     \/ TM!AllocatePut(p) /\ AnswerTask(p, Given(p))
  /\ UNCHANGED <<main, nextStop, processVars, files, faults>>
-----------------------------------------------------------------------------
(* Losses.                                                                 *)

Crash(p) ==
  /\ Alive(p)
  /\ Fault("loss", MaxLosses)
  /\ client' = [client EXCEPT ![p] = "dead"]
  /\ WP!Die(p)
  /\ UNCHANGED <<taskVars, main, nextStop, handler, task, id, watchVars, stopVars, files>>

(* The heartbeat thread of process p misses the answer, as no process has  *)
(* the port, or ...                                                        *)
Hearing(p) == watcher[p] \in {"registered", "forgotten"}
Answered(p) == \E q \in Process : Alive(q) /\ id[q] = id[p]
Miss(p) ==
  /\ watcher' = [watcher EXCEPT ![p] = "missed"]
  /\ UNCHANGED <<taskVars, main, nextStop, handler, client, task, id, activeWorkerPool,
                 vacantIds, spawned, failed, stage, misses, stopVars, files>>

MissAnswer(p) ==
  /\ Hearing(p) /\ ~Answered(p)
  /\ Miss(p)
  /\ UNCHANGED faults

(* ... as the process that has it, p or a later one, is only slow.         *)
SuspectWrongly(p) ==
  /\ Hearing(p) /\ Answered(p)
  /\ Fault("loss", MaxLosses)
  /\ Miss(p)

(* handleMissingHeartbeat: the miss is the failure of the id, whatever the *)
(* pool has under it by now: another process, or none.                     *)
Notice(p) ==
  /\ watcher[p] = "missed"
  /\ watcher' = [watcher EXCEPT ![p] = "ended"]
  /\ misses' = misses + 1
  /\ UNCHANGED <<taskVars, main, nextStop, handler, client, task, id, stopVars, files, faults>>
  /\ WP!Notice(id[p])

(* ResourceManager.update: stopWorker finds the process, or nothing (a     *)
(* handler has been faster), and createWorker follows in either case.      *)
StopFailed ==
  /\ stage = "stop" /\ resourceMonitor = None
  /\ \/ /\ Kill(failed)
        /\ PromptHandlers => handler[activeWorkerPool[failed]] = "none"
     \/ activeWorkerPool[failed] = None /\ UNCHANGED <<client, watcher>>
  /\ WP!StopFailed
  /\ UNCHANGED <<taskVars, main, nextStop, handler, task, id, misses, stopVars, files, faults>>

Replace ==
  /\ resourceMonitor = None
  /\ vacantIds # <<>> /\ spawned < MaxSpawn
  /\ client' = [client EXCEPT ![spawned + 1] = "ask"]
  /\ id' = [id EXCEPT ![spawned + 1] = Head(vacantIds)]
  /\ watcher' = [watcher EXCEPT ![spawned + 1] = "registered"]
  /\ WP!Replace
  /\ UNCHANGED <<taskVars, main, nextStop, handler, task, misses, stopVars, files, faults>>

ReplaceFails ==
  /\ resourceMonitor = None
  /\ Fault("build", MaxBuildFailures)
  /\ UNCHANGED <<taskVars, main, nextStop, handler, client, task, id, watchVars,
                 stopVars, files>>
  /\ WP!Abandon

(* TaskManager.update, after it: the task of the id is deallocated.  Then  *)
(* handleMissingHeartbeat removes the registration of the id, which may be *)
(* that of the replacement.                                                *)
EndHandling ==
  /\ WP!HandBack
  /\ watcher' = [p \in Process |->
                   IF watcher[p] = "registered" /\ id[p] = failed THEN "forgotten"
                   ELSE watcher[p]]
  /\ UNCHANGED <<id, misses, stopVars>>

MutUpdate == UNCHANGED taskVars /\ EndHandling
Update ==
  \/ TM!NothingAllocated(Watcher, failed) /\ EndHandling
  \/ TM!DeallocateRemove(Watcher, failed) /\ UNCHANGED processVars
  \/ TM!DeallocateAdd(Watcher) /\ EndHandling

Deallocate ==
  /\ stage = "handBack"
  /\ UNCHANGED <<main, nextStop, handler, client, task, files, faults>>
  /\ Update
-----------------------------------------------------------------------------
Handle(p) ==
  \/ Mark(p)
  \/ CheckFirstRead(p)
  \/ CheckSecondRead(p)
  \/ EnterStopWorker(p)
  \/ StopWorker(p)
  \/ QueryAvailable(p)
  \/ Allocate(p)

Work(p) == Request(p) \/ OpenOutput(p) \/ StoreWordCount(p)

(* A worker process and the handler of its request take turns. *)
Proceed(p) == Work(p) \/ Handle(p)

(* A failure is noticed and handled. *)
NoticeFailure == \E p \in Process : MissAnswer(p) \/ Notice(p)
HandleFailure == StopFailed \/ Replace \/ Deallocate

Serve ==
  \/ Open
  \/ OpenFails
  \/ LoopFirstRead
  \/ LoopSecondRead
  \/ AcceptTimeout
  \/ EnterStopNext
  \/ StopNext
  \/ PassVacant
  \/ Return

Misfortune ==
  \/ \E p \in Process : Leave(p) \/ StoreFails(p) \/ AcceptBroken(p) \/ Crash(p)
                         \/ SuspectWrongly(p) \/ AskElsewhere(p)
  \/ ReplaceFails

Next ==
  \/ \E p \in Process : Proceed(p) \/ Accept(p)
  \/ Serve
  \/ StopHeartBeat
  \/ NoticeFailure
  \/ HandleFailure
  \/ Misfortune

Spec == Init /\ [][Next]_vars

(* Every thread and process that can go on does, a worker that runs        *)
(* finishes its task, connections are accepted in the order they come, and *)
(* a failure is handled as far as the monitors, and the handler of its     *)
(* process, let it: a thread that waits for a monitor that is never given  *)
(* back waits for ever.                                                    *)
Fairness ==
  /\ \A p \in Process : WF_vars(Proceed(p)) /\ SF_vars(Accept(p))
  /\ WF_vars(Serve)
  /\ WF_vars(StopHeartBeat)
  /\ WF_vars(NoticeFailure)
  /\ SF_vars(HandleFailure)

FairSpec == Spec /\ Fairness
-----------------------------------------------------------------------------
(* Type invariant of the module. *)
TypeOK ==
  /\ TM!TypeOK
  /\ main \in {"create", "loop", "accept", "stop", "returned"}
  /\ nextStop \in 0 .. Capacity
  /\ handler \in [Process -> {"none", "ask", "report", "mark", "check", "stop",
                              "query", "allocate"}]
  /\ client \in [Process -> {"unborn", "ask", "report", "await", "execute",
                             "store", "left", "dead"}]
  /\ task \in [Process -> Task \union {None}]
  /\ \A p \in Process : client[p] = "execute" => task[p] # None
  /\ id \in [Process -> Id \union {None}]
  /\ activeWorkerPool \in [Id -> Process \union {None}]
  /\ vacantIds \in Seq(Id)
  /\ spawned \in 0 .. MaxSpawn
  /\ failed \in Id \union {None}
  /\ stage \in {"none", "stop", "create", "handBack"}
  /\ watcher \in [Process -> {"unborn", "registered", "forgotten", "missed", "ended"}]
  /\ misses \in Nat
  /\ resourceMonitor \in Process \union {Main, None}
  /\ heartbeatStopped \in BOOLEAN
  /\ executions \in [Task -> Nat]
  /\ output \in [Task -> {"absent", "broken", "complete"}]
  /\ faults \in [{"loss", "leave", "build", "write", "socket"} -> Nat]

(* ITaskManager.markTaskCompleted: "workerId that completed the task. The  *)
(* task allocated to this worker is completed."  A task is completed only  *)
(* after some worker has executed it.                                      *)
CompletedWasExecuted == \A f \in completed : executions[f] > 0

(* The same, step by step: what a SUCCESS completes is the task that its   *)
(* sender has executed, although it only says who the sender is.           *)
ReportsOwnTask ==
  [][\A p \in Process : handler[p] = "mark" /\ handler'[p] = "check" =>
       completed' \subseteq completed \union {task[p]}]_vars

(* A task is executed once, and each miss that is handled, rightly or not, *)
(* costs two executions at most: that of the process which is stopped, and *)
(* the one the replacement may start before the task is deallocated        *)
(* (TaskManager.update runs after ResourceManager.update).                 *)
RepeatedWorkBounded == \A f \in Task : executions[f] <= 1 + 2 * misses

(* A completed task has its output, unless a write failed or a process     *)
(* that executes the task a second time is rewriting the file, or died     *)
(* doing so (WordCounter.storeWordCount truncates the file first).         *)
Rewriting(f) == \E p \in Process : task[p] = f /\ client[p] \in {"store", "left", "dead"}
OutputOfCompleted ==
  \A f \in completed :
    output[f] = "complete" \/ faults["write"] > 0 \/ (faults["loss"] > 0 /\ Rewriting(f))

(* Master.run: "Before it returns, final result should be printed to the   *)
(* stream": the merger reads the outputs after the server has returned.    *)
MergerReadsAllOutputs ==
  main = "returned" /\ completed = Task => \A f \in Task : output[f] = "complete"

(* What the merger reads stays as it is: nobody writes an output any more  *)
(* once a server that has listened returns, although workers may live on   *)
(* then, or be created (by a failure that is being handled).  If the port  *)
(* was taken, another listener may go on giving them tasks.                *)
OutputsSettled == [][main = "returned" /\ ~PortTaken => output' = output]_vars

(* A task is never forgotten while the server serves: the id it is         *)
(* allocated to has a process, which works on it, has left its loop with   *)
(* it, or is dead and will be replaced; or the failure of the id is being  *)
(* handled; or its replacement could not be created, and the process that  *)
(* the id has got since, if any, was made for the failure of another id,   *)
(* and has not been told of the task.                                      *)
NoForgottenTask ==
  \A w \in Id :
    LET p == activeWorkerPool[w]
        f == ongoingTaskAllocationMap[w]
    IN  Listening /\ f # None /\ failed # w =>
          \/ p # None /\ client[p] = "dead"
          \/ /\ p # None /\ task[p] = f
             /\ client[p] \in {"execute", "store", "report", "await", "left"}
          \/ faults["build"] > 0 /\ (p = None \/ task[p] = None)

(* TaskAllocationServer: "Keeps listening for requests until all the tasks *)
(* are completed [...] Thereafter it requests IResourceManager to stop all *)
(* workers and returns the execution."                                     *)
ServerFinishes == <>(main = "returned")

(* Whatever is lost, fails or leaves, the server finishes, if requests are *)
(* handled before their sender is replaced (else see TasksReassigned), but *)
(* for three reasons: a task stays for ever with an id whose client has    *)
(* left or whose process could not be replaced (and a process that gets    *)
(* the id later waits, and is not told of it); no client asks any more     *)
(* (they have left, or areAllTasksCompleted answered true too early and    *)
(* they were stopped); or a thread that stops a worker, because it was     *)
(* answered so or at the end, and a watcher that handles a failure wait    *)
(* for each other's monitor.                                               *)
Working(w) == activeWorkerPool[w] # None /\ client[activeWorkerPool[w]] # "left"
KnowsItsTask(w) == Working(w) /\ task[activeWorkerPool[w]] = ongoingTaskAllocationMap[w]
Stranded == \E w \in Id : ongoingTaskAllocationMap[w] # None /\ ~KnowsItsTask(w)
Deserted == \A w \in Id : ~Working(w)

Deadlocked == resourceMonitor # None /\ ~heartbeatStopped /\ stage \in {"stop", "create"}

(* The bound on processes cuts a behaviour short. *)
Exhausted == stage = "create" /\ spawned = MaxSpawn

FinishesUnlessStuck ==
  []~Exhausted => ServerFinishes \/ <>[](Stranded \/ Deserted \/ Deadlocked)

(* Nobody has seen all tasks completed too early. *)
NotMisled == announced => completed = Task

(* The readme, on killed workers: "the tasks were reassigned, and the flow *)
(* followed its normal course after that": also when nobody is misled.     *)
TasksReassigned == []NotMisled => \A w \in Id : failed = w ~> completed = Task

(* ITaskManager: "The implementation must maintain a mapping of Task       *)
(* allocated to each worker and a record of available tasks".  A live      *)
(* worker executes only what the map says it has.                          *)
ExecutesItsTask ==
  \A p \in Process :
    client[p] = "execute" /\ failed = None => ongoingTaskAllocationMap[id[p]] = task[p]

(* TaskAllocationClient: "once the tasks are completed, master will anyway *)
(* kill all the workers preemptively, so the client remains in an infinite *)
(* loop until explicitly interrupted".  A client that leaves its loop      *)
(* before is not replaced, since its process goes on answering heartbeats. *)
LeaversAreStopped ==
  []NotMisled => \A p \in Process : client[p] = "left" ~> client[p] = "dead"
=============================================================================
