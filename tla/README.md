# Distributed word count: TLA+ models and proofs

The repository runs a word count as one master process and several worker
processes on one machine. The master hands out input files over TCP, watches
the workers with UDP heartbeats, replaces those it loses, and merges their
results at the end. This directory holds TLA+ modules of the parts that are
concurrent, TLC configurations that check them on small instances, and TLAPS
proofs. Paths below are relative to `src/main/java` of the repository.

## 1. Inventory

### Parts, their state and operations

| Part | Source | State | Operations |
|---|---|---|---|
| Task manager | `taskallocation/TaskManager.java` | `incompleteTasks` (queue of files), `ongoingTaskAllocationMap` (worker id to file) | `allocateTask`, `deallocateTask`, `markTaskCompleted` (synchronized); `isAnyTaskAvailable`, `areAllTasksCompleted` (not); `update` (observer: deallocates) |
| Task allocation server | `taskallocation/TaskAllocationServer.java` | the listening socket, one thread per request | accept loop until all tasks are completed, then `stopAllWorkers`; a handler reads `ALLOCATE id` or `SUCCESS id`, answers `TASK` or `WAIT`, or stops the worker |
| Task allocation client | `taskallocation/TaskAllocationClient.java` | the next message | asks, executes, reports, waits; any exception ends the loop, not the process |
| Heartbeat manager | `heartbeat/HeartbeatManager.java` | `heartbeats` (port to thread) | `addNewHeartBeat`, `stopHeartBeat`, `handleMissingHeartbeat` (all synchronized); notifies the observers |
| Heartbeat client thread ("watcher") | `heartbeat/HeartbeatClientRunnable.java` | its interrupt flag, where it is in the loop | sleep 3 s, request, wait up to 3 s, report |
| Heartbeat server thread | `heartbeat/HeartbeatServerRunnable.java` | its UDP port | gets the port of its worker id, or dies; answers every request |
| Resource manager | `resource/ResourceManager.java` | `activeWorkerPool` (id to process), `vacantIds` (queue) | `createWorker`, `stopWorker` (synchronized); `stopAllWorkers`, `update` (stop, then create), `getActiveWorkers` |
| Master | `WordCount.java`, `Master.java` | number of workers, files | the constructor frees the ports of an earlier run; `run` creates the workers, runs the server, merges |
| Scripts | `free-ports.sh`, `kill-worker.sh` (top directory) | - | kill the processes on the UDP ports 12000 .. 12000 + n - 1 and 11999; kill a worker |
| Word counter, merger, sorter | `wordcount/*.java` | one serialized map per input file | count, store, merge, sort, print |
| Utilities | `util/ApplicationUtils.java` | - | `getOutputFile`, `processId` |

### Who calls whom

    main thread ------ createWorker x N ------> ResourceManager --addNewHeartBeat-->  HeartbeatManager
         |             stopAllWorkers -------->      |          --stopHeartBeat--->        |  ^
         |                                           v                                     |  | handleMissing-
    TaskAllocationServer -- handlers: stopWorker     worker processes <---- heartbeats ----+  | Heartbeat
         |                                                                                    |
         +-- allocateTask, markTaskCompleted --> TaskManager <--- update --- (observers) -----+
                                                 ResourceManager <--- update ----------------+

Three kinds of threads run in the master: the main thread, one handler per
request, one watcher per worker process. The two managers call each other with
their own monitors held. `java.util.Observable` calls the observers last added
first, so `ResourceManager.update` (stop, then create) runs before
`TaskManager.update`, both inside `HeartbeatManager.handleMissingHeartbeat`.

### What is hard, and what makes each part correct

* **Task manager.** The readers are not synchronized and see the queue and the
  map between two accesses of a writer. Correct: no file is lost or given twice;
  a file counts as done only when a worker said so; the queue is fair.
* **Heartbeat and resource managers.** Lock order; a watcher that stops itself;
  ids (ports) that are used again; exceptions halfway through a handler;
  failures during startup and shutdown, and handlers that stop a worker because
  they were told too early that all tasks are completed. Correct: every running
  process is in the pool and watched; a failure kills only the process it is about;
  a lost worker is replaced and its task queued again; at the end all workers are
  stopped.
* **Server, handlers and clients.** Requests of an earlier process with the same
  id, late `SUCCESS` messages, workers that give up. Correct: a file is completed
  only after an execution of it; while any worker lives, work goes on.
* **Restart.** Workers survive a master that is killed, and know the port of the
  next one; a master may be left over too. Correct: the new master hears and
  kills its own workers, and counts what was executed in its own run.
* **Counting and merging.** Repeated, failed and overwritten executions.
  Correct: the result is the sum over the input files.

The full list, with the line where each hazard bites and the properties that
cover it, is `hazards` in `PROJECT.json`.

## 2. Modules

| Module | What it is |
|---|---|
| `TaskPool` | what a task manager promises: atomic `Allocate`, `Deallocate`, `Complete` on a set of available tasks and an assignment |
| `TaskManager` | `TaskManager.java`, one step per access other threads can see |
| `MCTaskManager` | three input files for TLC |
| `Queues` | what `poll` and `add` do to a queue without repetition, proved once and used by four of the proof modules |
| `TaskManagerProofs` | theorems about `TaskManager` |
| `WorkerPool` | what the heartbeat and resource managers promise together: atomic `Start`, `Stop`, `Die`, `Notice`, `StopFailed`, `Replace`, `Abandon`, `HandBack` |
| `WorkerSupervision` | `HeartbeatManager`, `HeartbeatClientRunnable`, `ResourceManager`, and the main thread, watchers and handlers that run in them |
| `SupervisionProofs` | theorems about `WorkerSupervision`: who owns what, which ids and processes are in use, refinement of `WorkerPool`, whom a heartbeat thread speaks for, and which workers have none |
| `TaskAllocation` | `TaskAllocationServer`, `TaskAllocationClient`, the file side of `WordCounter`, composed with `TaskManager` for the tasks and `WorkerPool` for the processes |
| `AllocationProofs` | theorems about `TaskAllocation`: it uses the components as they allow |
| `ServerProofs` | its type invariant, what each action amounts to, how threads, processes and ids fit together, and what is left when the server has returned |
| `CompletionProofs` | what comes of the tasks: executed how often, completed by whom, stored, not forgotten |
| `MCTaskAllocation` | two input files, or one, for TLC |
| `Restart` | a run that starts where processes of an earlier one are left over: `free-ports.sh`, `WordCount`, `Worker`, `HeartbeatServerRunnable`, on `TaskPool` and `WorkerPool` |
| `RestartProofs` | theorems about `Restart` |
| `MergerSorter` | `WordCounter`, `MergerSorter`, `getOutputFile`: counts, outputs, merge and order |
| `MergerSorterProofs` | theorems about `MergerSorter`, and about sums over finite sets |
| `MCMergerSorter` | two input files for TLC |

How they fit together (`A <== B`: B implements A, which is checked and proved;
`A --> B`: B is composed of A):

    TaskPool    <==  TaskManager
    WorkerPool  <==  WorkerSupervision
    TaskManager, WorkerPool  -->  TaskAllocation
    TaskPool,    WorkerPool  -->  Restart

Definitions named `Mut...` are deliberately faulty variants of the definition
that follows them. No specification uses them; each replaces its original once,
to see that a property notices.

### TaskManager

The variables have the names of the fields. `monitor` is the owner of the
object's monitor; `pc`, `workerId` and `inputFile` are the program counter, the
parameter and the local variable of each thread. A synchronized method that
makes two visible accesses is two actions with the monitor held in between:
`AllocatePoll`/`AllocatePut` (`poll`, then `put`) and
`DeallocateRemove`/`DeallocateAdd` (`remove`, then `add`). Checks of the holder
of the monitor are merged with the access that follows: nobody can change what
they read. `CompletedFirstRead`/`CompletedSecondRead` are the two `isEmpty()` of
`areAllTasksCompleted`, which takes no monitor. A file is identified by its
place in the array, since the code never compares names; `getOutputFile` is left
out. `completed` and `announced` are history variables.

Any thread may call any method with any worker id at any time: every use the
handlers and watchers make of the task manager is among these, so the safety
results hold in the program.

`TaskManager` refines `TaskPool`: a polled file still counts as available until
it is put in the map, a removed one as assigned until it is back in the queue.

### WorkerSupervision

Processes are numbered in the order they are started, and the watcher that
`addNewHeartBeat` starts for process p is thread p. Ids are indices, that is
ports without `WORKER_ID_PREFIX`. `heartbeatMonitor` and `resourceMonitor` are
the owners of the two monitors; a watcher inside `handleMissingHeartbeat`
enters `stopHeartBeat` and `addNewHeartBeat` again (`HeartbeatFree`).

| Code | Actions |
|---|---|
| `HeartbeatClientRunnable.run` | `SendHeartbeat`, `ReceiveAnswer`, `EndHeartbeat` (interrupt), `MissAnswer`, `SuspectWrongly` (timeout of a live process), `FailHeartbeat` (`IOException`) |
| `handleMissingHeartbeat` | `HandleMissingHeartbeat`, then `update` of the resource manager (the actions of stop and create), `NotifyTaskManager`, `ForgetHeartbeat` |
| `stopWorker` | `StopNothing`, or `StopWorker`, `StopHeartBeat`, `PauseBeforeKill`, `DestroyWorker` |
| `createWorker` | `CreateWorker`, `AddNewHeartBeat`; `CreateFails` (`WorkerInstantiationException`). There is no action for `CapacityFullException`: `NeverOverCapacity` is that its condition never holds |
| `WordCount.run`, `TaskAllocationServer.run` | `CreateWorker`..., `StartServing`, `StopServing`, `StopNext`, `PassVacant`, `Return` |
| a handler that stops its worker | `HandleRequest`, then the actions of stop |
| task manager | `NotifyTaskManager` only records that `update` was called |
| outside | `Crash` |

What `areAllTasksCompleted` answers is left open: it can be true while a task
moves and false again (`WrongOnlyWhileTasksMove`), so a handler may be told to
stop a worker at any time after the server has begun to listen (`HandleRequest`),
and the main thread may leave its loop at any time (`StopServing`). `Dismissed`
are the ids whose worker a handler was told to stop, or which `stopAllWorkers`
has reached.

`stopAllWorkers` runs through the keys of the pool without the monitor. Its place is
the id that the main thread works on (`NextStop`): it stops the worker that the next
id has, or passes it by, and does not come back to an id for which a worker is
created behind it. `TaskAllocation` and `Restart` have the same loop, with its place
in `nextStop`.

Time: the pause of three seconds before a kill is as long as the wait for an
answer, so a watcher that was interrupted before it has left `receive` when the
pause passes (`PauseBeforeKill`). The kill and the removal from the pool are one
step: in between the process is dead and still listed, as after a crash, and only
the holder of the monitor can act on the entry. Nothing else depends on time: a
timeout may hit a live process, at the price of one of `MaxLosses`.

The two managers together implement `WorkerPool` (`WorkerPoolSpec`). The failure
that is being handled is that of the watcher that has the heartbeat manager's
monitor (`Failed`), and its program counter gives the stage (`Stage`): stop,
create, hand back. A stop takes effect at `DestroyWorker`, a creation at
`CreateWorker`; all other steps are stutters. This is what `TaskAllocation` and
`Restart` are built on.

### TaskAllocation

The module composes: it instantiates `TaskManager` with the worker ids as
workers and the main thread, the handlers and the watcher as threads, and
`WorkerPool` with the processes. Each call of the code is a conjunct such as
`TM!AllocatePoll(p, id[p])` or `WP!Replace`, so all steps of `TaskManager`
interleave here too. A worker process has one request under way at most, so the
handler of the request of process p is thread p. Failures are handled one at a
time, since the watchers need the heartbeat manager's monitor: one thread,
`Watcher`, stands for the one that has it. Which misses reach it is the state of
each process's heartbeat thread (`watcher`): it hears whatever process has its
port, and may be unregistered (`forgotten`) after a failure was handled under its
id, so that it outlives its own worker and reports, later on, a miss under an id
that has another process, or none. `StopFailed` then finds nothing to stop, and
a worker is created all the same.

A stop waits, as in the code: a handler, or the main thread, takes the resource
manager's monitor, then waits until no failure is being handled
(`StopHeartBeat`), and then kills; a failure that is being handled waits for the
resource manager's monitor in turn. This is the deadlock of section 3
(`Deadlocked`), and it can happen while the master serves.

| Code | Actions |
|---|---|
| `TaskAllocationClient.run` | `Request` (connect, send), `AskElsewhere` (another listener has the port); `Leave` (an exception ends the loop: refused, broken, or thrown by the execution) |
| `WordCounter.execute` | `OpenOutput` (count, truncate the file), `StoreWordCount`, `StoreFails` (swallowed) |
| `TaskAllocationServer.run` | `Open`, `OpenFails` (the port is taken), `LoopFirstRead`/`LoopSecondRead` (`areAllTasksCompleted`), `Accept`, `AcceptBroken` (the sender is dead), `AcceptTimeout`, `EnterStopNext`, `StopHeartBeat`, `StopNext` and `PassVacant` (`stopAllWorkers`), `Return` |
| a handler | `Mark` (`SUCCESS`), `CheckFirstRead`/`CheckSecondRead`, `EnterStopWorker`, `StopHeartBeat` and `StopWorker`, `QueryAvailable`, `Allocate`; `AnswerTask` and `AnswerWait` are its replies as the client takes them |
| a heartbeat thread | `MissAnswer` or `SuspectWrongly` (a live process is too slow); `Notice` (`handleMissingHeartbeat` begins) |
| a lost worker | `Crash`; a miss; `StopFailed`, `Replace` or `ReplaceFails` (`ResourceManager.update`); then `Deallocate` (`TaskManager.update`, and the end of `handleMissingHeartbeat`), in this order |

The run begins when the workers have been created and the server is about to
listen, so the initial state has the pool full. Each kind of fault has a bound
of its own (`MaxLosses`, `MaxLeavers`, `MaxBuildFailures`, `MaxBadWrites`,
`MaxBadSockets`), counted in `faults`; `misses` counts the failures that are handled,
which may be more than the losses. Whether the port of the server is taken is
chosen in the initial state (`PortTaken`): then the workers of this run connect to
whoever has it, and get tasks from there or are told to wait, also after
`run()` has returned. The output file of a task is absent,
broken (truncated) or complete; two processes that execute the same task write
the same bytes, so the file is whatever the last truncation or write left.

`PromptHandlers` separates two questions. It is TRUE when every request is
handled before its sender is replaced: the master takes at least six seconds to
miss a heartbeat and stop a worker, a handler some milliseconds. Nothing in the
code enforces it, so FALSE is the code as such; what then goes wrong is listed
below.

### Restart

The initial states are those an earlier run can leave behind once its startup is
over. Each of its workers is dead, executes a task, asks, or is out of its loop;
one that lives answers on its heartbeat port, has not got so far, or lives
without its port, because another process had it (`HeartbeatServerRunnable`).
Its master is dead, or lives and has the port of the server, or lives and has
returned from `run()`: its watchers go on, and replace workers
(`OldMasterReplaces`), whether it serves or not. One process is left over per id;
that one crashes, or that the old master suspects it or stops it, is `Crash`.

The constructor runs `free-ports.sh` port by port (`FreePort`, then
`FreeServerPort`, which looks for UDP port 11999 while the server listens on TCP,
and so frees nothing), or fails to (`CleanupFails`). The script kills whoever has
a port, so an old worker without its port survives it. A new worker process
tries to get its heartbeat port (`Bind`): if another process has it, the
heartbeat thread dies and the worker goes on without. A watcher hears whatever
process has the port. An id is taken as watched when a process of this run has, or
has had it (`Watched`): that covers the heartbeat threads that are not registered
any more, and a few that have ended. Builds fail at startup (`CreateFails`: `run()`
ends with the exception) and in a replacement (`ReplaceFails`: the task is not
handed back).

`toCreate` counts the workers that the loop of `WordCount.run` has still to create: a
worker that is lost and replaced meanwhile does not count as one of them. `Ask`,
`Execute`, `Report`, `Dismiss`, `Refused` and `Leave` are the clients, of both runs,
and the handlers of their requests, which are handled at once (`TaskAllocation` has
their threads): old workers know the port of the server too. An old master that
has the port answers them all (`OldServerAnswers`). An old task is `None`: what a
stranger reports is only an id. `stray` and `contested` are histories: the ids of
old workers that were not on their ports at first, and the ids of this run under
which an old worker was alive when the script had run, or has been created since.

### MergerSorter

Words are numbers in the order of `String.compareTo`. The initial states choose
the contents of the input files, the output name of each (`getOutputFile` maps
inputs with one base name to one output) and what earlier runs have left on the
disk. `Execute` and `StoreFails` may happen in any order and number; then the
merger's loop runs, file by file, and skips what it cannot read. A name with a
blank in it is garbled on its way to the client, since the blank separates the
names of a task (`Garbled`): such a file is never stored where the merger looks.
A missing input file is stored as an empty map, so it is a file without words.
`list.sort` is not modelled as an algorithm: `SortAndWrite` takes any list of the
entries that the comparator does not object to (`Sorted`).

## 3. Runs

| Run | Instance | Shows |
|---|---|---|
| `task_manager` | 3 threads, 2 workers, 3 files, fair; 2110 states | types, ownership of the monitor, `TaskConservation`, refinement of `TaskPool`, `WrongOnlyWhileTasksMove`, and `StarvationFree`: a queued file is allocated eventually |
| `all_completed_too_early` | 2 threads | refutes `AnnouncedOnlyWhenCompleted` |
| `supervision` | 3 workers, 5 processes, 1 handler, 2 losses, 1 failed build, 1 failed socket; 1556912 states | the invariants of `WorkerSupervision`, and that it implements `WorkerPool` |
| `repair` | 2 workers, 4 processes, 2 losses, fair; 59969 states | `LossIsRepaired`, `MissIsHandedBack`, until a handler or the main thread is told that all is completed |
| `shutdown_deadlock` | 1 loss, fair | refutes `ServerReturns` |
| `heartbeat_not_closed` | 1 loss | refutes `HeartbeatClosedBeforeKill` |
| `allocation` | 2 workers, 4 processes, 1 file, 1 loss, the port taken or not, slow handlers; 1408135 states | types, `RepeatedWorkBounded`: a task is executed at most twice more per miss that is handled, and `OutputsSettled`: no output is written after a server that has listened returns |
| `allocation_prompt` | 2 workers, 3 processes, 2 files, prompt handlers, 1 loss, 1 failed write, a client that leaves and a failed build; 2776015 states | `CompletedWasExecuted`, `ReportsOwnTask`, `OutputOfCompleted`, `NoForgottenTask` |
| `allocation_finishes` | 2 workers, 3 processes, 1 file, prompt handlers, a loss, a client that leaves, a failed build, fair; 229426 states | `FinishesUnlessStuck`: the server finishes, or a task is stuck with an id nobody works for, or nobody asks any more, or the monitors deadlock |
| `outputs_broken` | prompt handlers | refutes `MergerReadsAllOutputs` |
| `merger_sorter` | 2 files of up to 2 of 3 words, 2 output names, blanks or not; 99372 states | `JointCount`, `StoredAreCounted`, `Ordered` |
| `restart` | 1 new worker, 2 old ones, 3 processes, 1 file, 1 loss, 1 failed build, 300 initial states; 2984076 states | when `free-ports.sh` has run: `IdsReserved`, `WatchersHearTheirWorkers`, `CompletedInThisRun`, `StrangersTakeNoTask` |

Twelve more configurations are kept beside these and are not among the listed
runs. One passes: `MCTaskAllocation_lostid` (3 workers, 4 processes, 1 file, 2
losses, 1 failed build, prompt handlers; 18117208 states, nine minutes) checks
`NoForgottenTask` on an instance where a lost id is given to the replacement of
another worker. Each of the others gives the counterexample of one documented
promise when TLC is called on it:

| Configuration | Refutes | How |
|---|---|---|
| `MCWorkerSupervision_return` | `NoWorkerAfterReturn` | a failure that is being handled starts a worker after `stopAllWorkers` |
| `MCWorkerSupervision_notified` | `BothManagersNotified` | the replacement cannot be built, and the task of the lost worker is never deallocated |
| `MCWorkerSupervision_early` | `EveryMissIsHandedBack` | a handler that is told too early that all is completed stops a worker, and deadlocks with the failure of another one while the master serves |
| `MCWorkerSupervision_noticed` | `EveryFailureNoticed` | an I/O error on a heartbeat socket leaves a worker unwatched |
| `MCTaskAllocation_finish` | `ServerFinishes` | while the watcher has the last task in its hands, the handlers of all workers see everything completed and stop them: nobody is left to complete it |
| `MCTaskAllocation_twice` | `ExecutesItsTask` | the replacement gets the task of the lost process before it is deallocated |
| `MCTaskAllocation_late` | `CompletedWasExecuted` (slow handlers) | a late `SUCCESS` completes the task of the replacement |
| `MCTaskAllocation_reassigned` | `TasksReassigned` (slow handlers) | a late `ALLOCATE` of a lost process leaves its task with the id, and the replacement never learns of it |
| `MCTaskAllocation_giveup` | `LeaversAreStopped` | all workers connect before the server listens and leave their loops |
| `MCRestart_port` | `ServerPortFreed` | the script looks for a UDP port, the server has a TCP port: a master that is left over keeps it, and the new run returns at once |
| `MCRestart_holder` | `EveryHolderIsWatched` | a worker of an earlier, larger run, whose port the script does not free, is given a task and is watched by nobody |

Why the bounds are enough. In `TaskManager` three threads give a writer between
its two accesses, a reader between its two, and another caller blocked on the
monitor; two workers and three files make the queue long enough to have an order
and leave a file when both workers have one. In `WorkerSupervision` three
workers let one watcher handle a failure while a second is blocked on a monitor
and the main thread or a handler stops or creates the third; two losses give the
second failure of an id (its watcher is then unregistered, see below) or two
failures at once; five processes are all that three workers and two losses start
while the master serves. At shutdown the respawns do not end, and `MaxSpawn`
cuts them off. In `TaskAllocation` two workers and two files let one worker
finish, wait or be told that all is completed while the other is anywhere; the
third process is the replacement. The run with slow handlers has one file and a
fourth process instead: the watcher that is left over after a failure needs it,
to report a miss under an id that is vacant or has another process (more misses
than losses, up to three with one loss, do occur). In `MCTaskAllocation_lostid`
three workers and two losses are what it takes that an id with a task goes to a
process that is not told of it: a handler that was told too early that all is
completed stops a worker (its id is vacant), the build of a replacement fails
(the vacant id is polled and lost), and the id of the failure, vacant too and
with its task, is polled for the next failure. `allocation_finishes` has one
file, so that the other worker has to take over whatever is queued again; with
four processes it passes as well (476786 states). Respawns need not end while
watchers are left over, so the property is about the behaviours that `MaxSpawn`
does not cut off (`Exhausted`). In `Restart` the earlier run is larger by one,
so that one stranger has an id this run does not have, and the other shares its
id with new workers; three processes are the first worker, its replacement, and
the replacement of that. With two tasks and two processes the run passes too
(12008100 states), and so do random behaviours of two new and three old workers,
four processes and two tasks (38 million states). In `MergerSorter` two words
per file make counts differ or tie, within a file and across files, and two
names let outputs collide or not.

The runs of `TaskAllocation`, `Restart` and `MergerSorter` do not check
deadlock, since the program ends, and neither do those of `WorkerSupervision`:
the program stops when `run()` has returned and every watcher has ended, and it
does deadlock (`shutdown_deadlock` is about that). The runs of `TaskManager` do
check it.

### Fairness

`TaskManager`: a thread inside a method finishes it (weak fairness of its
second access: no code waits in there). An allocation that is possible again and
again happens, since waiting workers ask every three seconds, and a worker with
a task reports success or is lost (strong fairness, because the steps are
disabled whenever another thread has the monitor). Nothing is assumed about
which of the two a worker does.

`WorkerSupervision`: every thread that can go on does (weak fairness of each
watcher, of each thread inside the resource manager, of the main thread while it
creates and stops workers). Crashes, suspicions, failed builds and sockets,
requests, and what `areAllTasksCompleted` says are not assumed to happen, or not
to happen.

`TaskAllocation`: every worker process or its handler (they take turns) goes on,
and so do the main thread, a thread that waits in `stopHeartBeat` and is let in,
and a heartbeat thread that nobody answers or that has missed its answer (weak
fairness of `Proceed`, `Serve`, `StopHeartBeat`, `NoticeFailure`). The connection of a
process that waits is accepted (strong: the backlog of the listening socket is
first in first out, and the loop comes back to `accept` again and again). The
handling of a failure goes on when it can (strong, since its steps are disabled
while another thread has the monitor they need, and such a thread comes and goes
many times). None of this says that a monitor is ever given back: a handler or the
main thread inside `stopWorker` and a failure that is being handled may wait for
each other for ever, and `FinishesUnlessStuck` has that as an exception
(`Deadlocked`). No fault is assumed to happen.

### What the violations show

1. `areAllTasksCompleted` can say yes while the last file is between `poll` and
   `put`. The main thread then stops the workers, and the file is not counted.
   `WrongOnlyWhileTasksMove` bounds the damage: there is no other way.
2. `createWorker` and `stopWorker` take the resource manager's monitor and then
   the heartbeat manager's; a missing heartbeat takes them the other way round.
   If a failure is noticed while the main thread or a handler stops a worker (or
   while the workers are being created), `run()` never returns. A handler stops a
   worker whenever `areAllTasksCompleted` says so, too early or not (see 1), so this
   can also happen while the master serves and tasks are left.
3. The `heartbeats.remove(port)` at the end of `handleMissingHeartbeat` removes
   the watcher of the *replacement*, which has the same port. From then on that
   worker cannot be stopped without its watcher reporting it missing: under an id
   that has another process by then, which is killed, or none, and then a worker
   too many is created. Each such miss can cost executions without a loss.
4. A replacement can get the task of the lost process before it is deallocated,
   because the resource manager is notified first; then another worker gets it
   too. If one of them completes it and the other has just truncated the output
   file when `stopAllWorkers` kills it, the result lacks the words of that file,
   although no handler was slow and nothing was announced too early.

Two more, outside the listed runs, need a handler that is slower than the loss and
replacement of its sender. `SUCCESS` carries the worker id and nothing else:
handled late, it completes whatever the id has by then. The `ALLOCATE` of a lost
process, handled late, leaves its task with the id, and the replacement never
learns of it: the handler asks `isAnyTaskAvailable` before `allocateTask`, which
would return it.

From startup until `areAllTasksCompleted` answers true for the first time, to a
handler or to the main thread, on the other hand, supervision works:
`LossIsRepaired` and `MissIsHandedBack`. Watchers do not deadlock each other, since
each takes the heartbeat manager's monitor first, and keeps it throughout. After
that answer, which may come while tasks are left, only this is left of it: under
the ids whose worker nobody has been told to stop, a watcher acts on the failure of
its own worker (`NoStaleNotification`), and only an I/O error leaves a worker
unwatched (`UnwatchedByIOErrorOnly`).

## 4. Proofs

`TaskManagerProofs` proves, for any sets of threads, workers and files:

| Theorem | States |
|---|---|
| `Ownership`, `TypeCorrect` | `Spec => []OwnInv`, `Spec => []TypeOK` |
| `Conservation` | `Spec => []TaskConservation` |
| `WrongAnswerNeedsMove` | `Spec => WrongOnlyWhileTasksMove` |
| `Refinement` | `Spec => PoolSpec`, that is `TaskManager` implements `TaskPool` |

The only assumption is `TaskManagerAssumption`: the array of input files has no
element twice (as elements, not as names), covers `Task`, and null is not one of
the values. TLC evaluates it in the runs.

The argument. `TypeOK` is not inductive: `deallocateTask` adds the file in its
local variable, which is a file and not null only because the thread is between
`remove` and `add`, that is the owner of the monitor. So `OwnInv` is `TypeOK`
with `MonitorOwnership` (a thread is between two accesses iff it owns the
monitor, iff it has a file and a worker in hand, whose entry is empty), and that
is inductive. `TaskConservation` is inductive relative to `OwnInv`: the lemmas
`PollElements`, `AddElements`, `PutOngoing` and `RemoveOngoing` say what each
access does to the set of queued and of ongoing files, and
`MoveConservation` follows one file through each of the five steps that move one.
`WrongAnswerNeedsMove` combines the three: monitor free, queue empty and map
empty leave no place for a file but `completed`. For `Refinement`, `Mapping`
computes the mapped state from what the owner of the monitor is doing (at rest,
polled, removed); `StepPool` shows that `put` is the abstract allocation, `add`
the abstract deallocation, and `poll` and `remove` are stutters.

`SupervisionProofs` proves, for any number of workers, handlers, processes and
faults:

| Theorem | States |
|---|---|
| `Supervised`, `SupervisionTypeCorrect` | `Spec => []SupInv`, `Spec => []TypeOK` |
| `NeverAnOrphan`, `NeverInterrupted`, `AlwaysWatched` | `NoOrphan`, `WaitIsNotInterrupted`, `EveryProcessIsWatched` |
| `IdsConserved` | `IdConservation` |
| `AlwaysAnIdForACreator` | `NeverOverCapacity` |
| `SupervisionRefinement` | `Spec => WorkerPoolSpec`, that is `WorkerSupervision` implements `WorkerPool` |
| `WatchersAreCurrent` | `Spec => [](SupInv /\ WatchInv)` |
| `NeverStale`, `UnwatchedOnlyByIOErrors` | `NoStaleNotification`, `UnwatchedByIOErrorOnly` |

Assumption: `SupervisionAssumption` (the values that stand for threads, null and
numbers differ, the bounds are natural numbers).

The argument. `TypeOK` is not inductive here either: an id is put back in
`vacantIds` from a field that may be null, unless one knows where the thread is.
`SupInv` says which threads can be where (`Places`), who owns each monitor
(`HeartbeatOwner`, `ResourceOwner`: a watcher that handles a failure has the
first from beginning to end, and a thread between `StopWorker` and
`DestroyWorker` or after `CreateWorker` has the second), that ids in use are ids (`Ids`),
that the pool and the processes agree (`Pool`), that a vacant id is vacant once and
neither in the pool nor registered (`Vacancy`), and what a thread relies on in the
middle of a stop or a creation (`Stops`, `Adds`). Each operation has a lemma that
it keeps all of this; the three invariants of the second row follow from it at once.
`EveryProcessIsWatched`, for instance, rests on `Vacancy`: an id becomes vacant
only after `stopHeartBeat` has removed its registration, and while it is vacant
nobody registers it.
`IdConservation` needs a count besides (`IdCount`: vacant, active and lost ids add
up to the capacity). `NeverOverCapacity` needs another (`ClaimCount`): count the
processes that are in the pool *or* have a watcher that may still come to replace
them, and add the workers the main thread has still to create. This never
exceeds the ids that are left. A watcher about to create is counted though its
process has left the pool, so fewer ids are active than are left, and one is
vacant. For the refinement, `FailureMapping` computes `Failed` and `Stage` from
where the owner of the heartbeat monitor is; `StutterPool` and `OtherFailure`
cover the steps that map to stutters, and of other threads than that owner.

The last three theorems are about the heartbeat threads. The maps of the two
managers are changed under two monitors, one after the other.
`NoStaleNotification` holds all the same, for the ids that are not in
`Dismissed`, because a worker with such an id is stopped by watchers only, and
one that does holds the heartbeat manager's monitor from the miss to the
replacement. Hence a watcher that has not yet stopped its worker finds it in the
pool (`CurrentInPool`), one that has finds another or none (`PastNotInPool`), a
registration is always that of the process in the pool (`RegisteredInPool`, for
every id), and a watcher that is interrupted although nobody dismissed its
worker has done it itself (`OwnInterrupts`). `NoStaleNotification` is one
conjunct of this and not inductive alone. `UnwatchedByIOErrorOnly` counts: the
workers in the pool, not dismissed, whose thread has ended (`Silent`) are at
most as many as I/O errors (`SilentCount`). No other thread ends while its
worker is in the pool and not dismissed, and an unwatched worker has one that
ended.

`AllocationProofs` proves, for any number of workers, processes and tasks, any
faults, and slow handlers too:

| Theorem | States |
|---|---|
| `UsesTaskManager` | `TaskAllocation` takes the steps `TaskManager` allows, or leaves it alone |
| `ServerConservesTasks`, `ServerUsesPool`, `ServerMisledOnlyByMoves` | hence `TaskConservation`, `PoolSpec` and `WrongOnlyWhileTasksMove` hold in it |
| `UsesWorkerPool` | it takes the steps `WorkerPool` allows, or leaves the processes alone |

Assumptions: `AllocationAssumption`, and `TasksAssumption`, which is that of
`TaskManager`. Their point is that the guarantees proved of the components are not
lost where they are used: every call is made by a thread of the server with an
existing worker id (`CallInv`), and every step that starts or kills a process
does so through the pool.

`ServerProofs` and `CompletionProofs` prove, from the same assumptions:

| Theorem | States | Handlers |
|---|---|---|
| `Foundation`, `AllocationTypeCorrect` | `Spec => []TypeOK`, with what it needs | any |
| `AlwaysWired` | `Spec => []Wired` | any |
| `SettledAfterReturn`, `OutputsStaySettled` | `Spec => []Settled`, `Spec => OutputsSettled` (both unless the port is taken) | any |
| `WorkIsBounded` | `Spec => []RepeatedWorkBounded` | any |
| `CompletionIsEarned` | `Spec => [](PortTaken \/ (Placed /\ Earned))` | prompt |
| `CompletedByExecution` | `Spec => []CompletedWasExecuted` | prompt |
| `ReportsAreOwn` | `Spec => ReportsOwnTask` | prompt |
| `OutputsOfCompleted` | `Spec => []OutputOfCompleted` | prompt |
| `MergerReadsWhatIsSettled` | `Spec => []ReadByMerger` | prompt |
| `NoneIsForgotten` | `Spec => []NoForgottenTask` | prompt |

"Prompt" is the hypothesis `PromptHandlers`: a request is handled before its
sender is replaced. A late `SUCCESS` (`MCTaskAllocation_late`) or a late `ALLOCATE`
(`MCTaskAllocation_reassigned`) breaks what these theorems state, so they say what
the program owes to the six seconds of the heartbeats, not that it is right whatever
its timing.

The argument. `Wired` says where a call of the task manager may be halfway (`Linked`),
that a live process is in the pool under its id and a vacant id is not (`Pooled`), and
that a client that does not wait has no request under way (`Waits`); it rests on
the task manager's own invariants, which `UsesTaskManager` brings over. All else is
proved relative to it, and each action is first reduced to its effect on
the variables (`MarkEffect`, `AllocateEffect`, ..., `ReplaceEffect`), so that the
later proofs do not open the composed modules again.

* `WorkIsBounded` is a count of credit (`WorkBound`). For a task f add its executions so far,
  one if f is queued or moving (`Available`), the processes that execute f or
  will when their answer comes (`Prospects`), and what is left of the failure being
  handled (`Pending`: two until its process has been replaced, then one until its task
  is back in the queue). This never exceeds 1 + 2 * misses. A miss brings two when its
  handling begins, whatever the pool has under its id; the replacement may ask at
  once and become a prospect of f, and the deallocation makes f available again:
  these are the only two sources. If the port is taken nothing is ever executed for
  this server (`Unserved`).
* `CompletionIsEarned`: with prompt handlers the sender of a request stays in the
  pool while it is handled, and no other process with its id has anything to do
  with tasks or the server (`Placed`). So an id stands for one process at a
  time: whoever executes or reports has, in the map, its own task or nothing any more,
  and what is reported has been executed (`Earned`).
* `OutputsOfCompleted` needs, without any condition, that an executed task is
  stored unless somebody writes it again or has stopped writing (`Written`); that
  nobody misses an answer while nothing has been lost (`Unhurt`); and that in such a run the map
  is exact and reported and completed tasks are stored (`Intact`).
* `NoneIsForgotten` needs that an unborn process has no task (`Fresh`), and for every
  id with a task, unless its failure is being handled, one of three (`Remembered`): the process
  of the id is dead; or has this task and is busy with it or has left with it; or a
  build failed, and the id has no process or one that was given no task.
* `OutputsStaySettled` is not that every worker is dead when the server has returned: a
  worker created under an id that `stopAllWorkers` has passed lives on. But it asks, and
  nobody answers (`Settled`): while the loop is at `nextStop`, every client that has
  been answered is under an id still to come, and new ones have not been answered.
  Before the server listens nobody has been. If its port is taken nothing of this
  holds: whoever has the port may answer, so both statements leave that case out.
* `ReportsAreOwn` follows from `Placed` and `Earned`: when the handler marks, the id in
  the message has in the map the sender's task, or nothing.
* `MergerReadsWhatIsSettled` puts the two together for the moment that counts: when the
  merger starts, the output of a completed task is whole unless a write failed or a
  worker with this task was lost, or left, before the end. `OutputsSettled` says
  that it stays so. `outputs_broken` shows that the exception is real.

`RestartProofs` proves, for any numbers of workers of both runs and of crashes:

| Theorem | States |
|---|---|
| `ProcessesInOrder`, `RestartTypeCorrect` | `Spec => []Life`, `Spec => []TypeOK` |
| `PortsCleared`, `WatchersHear` | `Spec => [](Life /\ Phases /\ Cleared)`, `Spec => []WatchersHearTheirWorkers` |
| `WorkOfThisRun` | `Spec => [](Life /\ Phases /\ Cleared /\ Working)` |
| `CompletedHere` | `Spec => []CompletedInThisRun` |
| `IdsAreReserved` | `Spec => []IdsReserved` |
| `TasksAreKept` | `Spec => []StrangersTakeNoTask` |
| `RestartUsesWorkerPool`, `RestartUsesTaskPool` | `Spec => WP!Spec`, `Spec => TP!Spec`: the run takes the steps that `WorkerPool` and `TaskPool` allow, or leaves them alone |

Assumption: `RestartAssumption`. The argument goes in three layers. `Life` is about
processes, whether the script has run or not: ids, pool and vacant ids agree
and a port has the process that says so (`Names`, `Pooled`, `Vacancy`, `Sockets`).
`Phases` follows the master: before it serves no task is given, and the earlier
master's port is not taken from it. `Cleared` follows the constructor port by port:
below `freed` no port is taken but by an old worker that got its port late, and
once the script has run every old worker that lives under an id of this run has its
id in `contested` (`Contests`); with the earlier master gone these are among `stray`
(`Strays`), which is `IdsReserved`. So under the other ids a new worker is the only
process (`OneWorkerPerId`), gets its port, and `WatchersHear` follows. Then
`Working`: under these ids a task stands for a process that was given it, and reports
are of executed tasks (`Counted`), and while the master serves the process of such an
id is at work on what its id has, or is dead, or its client has left with it, or a
build failed (`Held`). A stranger can take a task under an id that this run does not
have, or under a contested one; that is why strangers may lose tasks but complete what
they did not execute only under a contested id. The two refinements need
one fact of `Phases`: the script is done before the first worker is created, so that
a process it kills is none of the pool's.

`MergerSorterProofs` proves, for any words, input files, output names and contents:

| Theorem | States |
|---|---|
| `MergerTypeCorrect` | `Spec => []TypeOK` |
| `JointlyCounted`, `StoredCounted` | `Spec => []JointCount`, `Spec => []StoredAreCounted` |
| `ResultOrdered` | `Spec => []Ordered` |
| `OneResult` | `Spec => [](\E s : Sorted = {s})`: the comparator leaves the sort exactly one list |

Assumption: `MergerAssumption` (the array has no element twice, and there are finitely
many words). The argument:

* Sums. `SumFunctionOnSet` is a fold, defined by recursion over sets. The library's
  induction theorems cannot be used, since they take the induction hypothesis as an
  operator, but its fact that the strict subsets of a finite set are well-founded can:
  `SubsetInduction` follows from it by a minimal counterexample. It gives that sums exist
  and do not depend on which element is taken first (`SumsExist`, `SumsAgree`), and
  then the lemmas `SumNat`, `SumElement`, `SumAdd` and `SumPositive`.
* The merger. `MergerInv` is inductive: what `stored` says an output holds is the count of
  that file (`StoredWhole`), and at `position` the merged map has at least the sum
  over the stored files before it, exactly that sum if all were stored, and never more
  than `MaxLen` for each file (`MergedBefore`). The place of the files in the array
  gives the sets `Before`, whose growth by one file is `BeforeNext`.
* The order. Any two entries are comparable (`CompareOrders`), so each entry has a place
  of its own, one more than the number of entries ahead of it (`PlaceBijection`): the
  list by places is sorted, and in a sorted list every entry is in its place (`InPlace`).

### What the proofs corrected

* `NoForgottenTask` was stated as if an id whose replacement could not be built
  stayed empty. The attempt to prove it showed a step where it does not: the id of
  the failure is vacant, but the failed build loses the id that `poll` returned,
  which is another one if a worker was stopped before. The id with the task then goes to
  the next replacement, which is not told of it. The property and
  `FinishesUnlessStuck` now say so, and `MCTaskAllocation_lostid` is the instance where it
  happens.
* `Restart` counted a replacement during startup as one of the workers
  `WordCount.run` creates. `toCreate` is the loop's own count.
* `stopAllWorkers` was modelled as stopping until no worker is left. The code runs
  through the keys once, so a worker created behind it survives. What the merger may
  rely on then (`OutputsSettled`) could only be asked of the loop as it is.
* `MergerSorter` sorted with an operator that returns the one right list. The
  code calls `list.sort` with a comparator, so that there is one right list is now a
  theorem (`OneResult`).

### What is not proved

* All liveness, since the provers have neither fairness nor ENABLED:
  `StarvationFree`, `LossIsRepaired`, `MissIsHandedBack`, `FinishesUnlessStuck`.

These four stay properties that TLC checks under the fairness of section 3. Every
invariant, action property and refinement that a passing run checks is a theorem; those
of `TaskAllocation` that hold with prompt handlers only are proved under that
hypothesis.

## 5. Plan

Done: all modules of section 2, with their runs, and the proofs of section 4. What
could still be added:

1. What the six seconds of the heartbeats give: a model with clocks in which
   `PromptHandlers` is a consequence of the time a handler takes and not a hypothesis.
2. The order of the queue as an invariant (who is served before whom), which
   would be the safety part of `StarvationFree`.

## 6. Not modelled

* How `getOutputFile` takes names apart (only which names collide), the wording of the
  messages, the overflow of a count beyond 2^31 - 1 equal words.
* A blank in a file name can also make a client overwrite a file in its working
  directory; only that the words are not stored is modelled.
* The output directory: if it cannot be created the program ends before it does
  anything.
* `getActiveWorkers`, `getActiveProcess`, `setOutputStream`: they change nothing that
  is modelled.
* The tests, the build files, logging, and the generated documentation under
  `javadoc`. The only JavaScript of the repository is there (jQuery and the search
  of the generated pages); it is not part of the program.
