------------------------- MODULE SupervisionProofs -------------------------
(* Theorems about WorkerSupervision, for any number of workers, request    *)
(* handlers, processes and faults.                                         *)
EXTENDS WorkerSupervision, Queues, FiniteSetTheorems, FunctionTheorems, TLAPS

(* Where a thread is that stops a worker, that owns the monitor of the     *)
(* resource manager, and, for a watcher, that of the heartbeat manager.    *)
Stopping == {"stopHeartBeat", "pause", "destroy"}
Managing == Stopping \union {"addNewHeartBeat"}
Handling == Managing \union {"stop", "create", "notify", "forget"}

(* Which thread can be where. *)
Places ==
  /\ \A g \in Watcher : g > spawned => pc[g] = "unborn"
  /\ \A h \in Handler : pc[h] \in Stopping \union {"request", "stop", "ended"}
  /\ pc[Main] \in Managing \union {"create", "serve", "stopNext", "stop", "returned", "died"}

HeartbeatOwner ==
  /\ heartbeatMonitor \in Watcher \union {None}
  /\ \A g \in Watcher : pc[g] \in Handling <=> heartbeatMonitor = g

ResourceOwner == \A t \in Thread : pc[t] \in Managing <=> resourceMonitor = t

(* A process has an id, and so has a thread that stops a worker. *)
Ids ==
  /\ \A g \in Watcher : g <= spawned => workerId[g] \in Id
  /\ \A t \in Thread \ Watcher : pc[t] \in Stopping \union {"stop"} => workerId[t] \in Id

Pool ==
  /\ \A w \in Active : activeWorkerPool[w] <= spawned /\ workerId[activeWorkerPool[w]] = w
  /\ NoOrphan

(* A vacant id is vacant once, and neither active nor registered. *)
Vacancy ==
  /\ \A w \in Vacant : activeWorkerPool[w] = None /\ heartbeats[w] = None
  /\ NoRepetition(vacantIds)

(* What a thread relies on while it stops a worker, or has created one. *)
Stops ==
  \A t \in Thread :
    /\ pc[t] \in Stopping => activeWorkerPool[workerId[t]] # None
    /\ pc[t] \in {"pause", "destroy"} => heartbeats[workerId[t]] = None
    /\ pc[t] = "destroy" => t \notin interrupted

Adds ==
  \A t \in Thread : pc[t] = "addNewHeartBeat" =>
    /\ spawned > 0 /\ pc[spawned] = "unborn"
    /\ activeWorkerPool[workerId[spawned]] = spawned
    /\ heartbeats[workerId[spawned]] = None
    /\ t = Main => toCreate > 0

SupInv ==
  /\ TypeOK /\ Places /\ HeartbeatOwner /\ ResourceOwner
  /\ Ids /\ Pool /\ Vacancy /\ Stops /\ Adds

(* The values that stand for threads, numbers and null differ. *)
LEMMA Distinct ==
  /\ None \notin Thread /\ None \notin Nat
  /\ Main \notin Watcher /\ Main \notin Handler
  /\ Watcher \subseteq Nat /\ \A h \in Handler : h \notin Watcher
  /\ Capacity \in Nat /\ MaxSpawn \in Nat
BY SupervisionAssumption DEF SupervisionAssumption, Thread, Watcher

(* The inductive invariant holds initially, and every step keeps it; one   *)
(* lemma per operation that changes the pool, the ids or the monitors.     *)
LEMMA InitSupInv == Init => SupInv
<1> SUFFICES ASSUME Init PROVE SupInv
  OBVIOUS
<1> USE Distinct DEF Init
<1>1. vacantIds \in Seq(Id) /\ DOMAIN vacantIds = 1 .. Capacity
  BY DEF Id
<1>2. TypeOK
  <2>1. pc \in [Thread -> {"create", "request", "unborn"}]
    OBVIOUS
  <2>2. alive \in SUBSET (1 .. spawned) /\ spawned \in 0 .. MaxSpawn
    OBVIOUS
  <2>3. faults \in [{"loss", "build", "io"} -> Nat]
    OBVIOUS
  <2>4. toCreate \in 0 .. Capacity /\ heartbeats \in [Id -> {None}]
        /\ activeWorkerPool \in [Id -> {None}] /\ workerId \in [Thread -> {None}]
    OBVIOUS
  <2> HIDE DEF Init
  <2> QED BY <1>1, <2>1, <2>2, <2>3, <2>4 DEF TypeOK, Init
<1>3. Places /\ HeartbeatOwner /\ ResourceOwner
  BY DEF Places, HeartbeatOwner, ResourceOwner, Managing, Stopping, Handling, Thread
<1>4. Ids
  BY DEF Ids, Stopping, Thread, Watcher
<1>5. Pool /\ Vacancy
  BY <1>1 DEF Pool, NoOrphan, Active, Vacancy, Vacant, NoRepetition, Id
<1>6. Stops /\ Adds
  BY DEF Stops, Adds, Stopping
<1> QED BY <1>2, <1>3, <1>4, <1>5, <1>6 DEF SupInv
-----------------------------------------------------------------------------
(* Every thread that has to do with a worker has its id.                   *)
LEMMA IdInUse ==
  ASSUME SupInv
  PROVE  /\ \A g \in Watcher : pc[g] # "unborn" => g <= spawned /\ workerId[g] \in Id
         /\ \A t \in Thread : pc[t] \in Stopping \union {"stop"} => workerId[t] \in Id
<1>1. \A g \in Watcher : pc[g] # "unborn" => g <= spawned /\ workerId[g] \in Id
  BY Distinct DEF SupInv, TypeOK, Places, Ids
<1> QED BY <1>1 DEF SupInv, Ids, Thread, Stopping

(* The steps that change neither the pool, nor the ids, nor the monitors:  *)
(* a watcher waits for its worker, the main thread goes on, a fault.       *)
LEMMA WatchingSupInv ==
  ASSUME SupInv, NEW g \in Watcher,
         SendHeartbeat(g) \/ EndHeartbeat(g) \/ ReceiveAnswer(g) \/ MissAnswer(g)
           \/ SuspectWrongly(g) \/ FailHeartbeat(g)
  PROVE  SupInv'
<1> USE Distinct
    DEF SupInv, TypeOK, Goto, Move, Fault, others, heartbeatVars, resourceVars,
        processVars, masterVars, Thread
<1>1. PICK a \in {"sleep", "receive", "missed", "ended"} :
        /\ pc[g] \in {"sleep", "receive"}
        /\ pc' = [pc EXCEPT ![g] = a]
        /\ UNCHANGED others
        /\ faults' \in [{"loss", "build", "io"} -> Nat]
  <2>1. CASE SendHeartbeat(g) \/ EndHeartbeat(g) \/ ReceiveAnswer(g) \/ MissAnswer(g)
    BY <2>1 DEF SendHeartbeat, EndHeartbeat, ReceiveAnswer, MissAnswer
  <2>2. CASE SuspectWrongly(g)
    BY <2>2 DEF SuspectWrongly
  <2>3. CASE FailHeartbeat(g)
    BY <2>3 DEF FailHeartbeat
  <2> QED BY <2>1, <2>2, <2>3
<1>2. TypeOK'
  BY <1>1
<1>3. Places' /\ HeartbeatOwner' /\ ResourceOwner'
  BY <1>1 DEF Places, HeartbeatOwner, ResourceOwner, Managing, Stopping, Handling
<1>4. Ids' /\ Pool' /\ Vacancy'
  <2>1. Ids'
    BY <1>1 DEF Ids, Stopping
  <2>2. Pool' /\ Vacancy'
    BY <1>1 DEF Pool, NoOrphan, Active, Vacancy, Vacant
  <2> QED BY <2>1, <2>2
<1>5. Stops' /\ Adds'
  BY <1>1 DEF Stops, Adds, Stopping
<1> QED BY <1>2, <1>3, <1>4, <1>5

(* The main thread: it starts to serve, stops serving, takes the next      *)
(* worker to stop, returns.                                                *)
LEMMA RunMainSupInv ==
  ASSUME SupInv, RunMain \/ StopServing
  PROVE  SupInv'
<1> USE Distinct
    DEF SupInv, TypeOK, Goto, Move, others, heartbeatVars, resourceVars,
        processVars, masterVars, Thread
<1>1. PICK a \in {"serve", "stopNext", "stop", "returned"} :
        /\ pc[Main] \in {"create", "serve", "stopNext"}
        /\ pc' = [pc EXCEPT ![Main] = a]
        /\ \/ UNCHANGED workerId /\ a # "stop"
           \/ \E w \in Id : workerId' = [workerId EXCEPT ![Main] = w]
        /\ UNCHANGED <<heartbeatVars, resourceVars, interrupted, processVars, masterVars, faults>>
  <2>1. CASE StartServing \/ StopServing \/ Return
    BY <2>1 DEF StartServing, StopServing, Return
  <2>2. CASE StopNext
    BY <2>2 DEF StopNext, Active
  <2>3. CASE PassVacant
    BY <2>3 DEF PassVacant, Active
  <2> QED BY <2>1, <2>2, <2>3 DEF RunMain
<1>2. TypeOK'
  BY <1>1
<1>3. Places' /\ HeartbeatOwner' /\ ResourceOwner'
  BY <1>1 DEF Places, HeartbeatOwner, ResourceOwner, Managing, Stopping, Handling
<1>4. Ids' /\ Pool' /\ Vacancy'
  <2>1. \A g \in Watcher : workerId'[g] = workerId[g]
    BY <1>1
  <2>2. Ids'
    BY <1>1 DEF Ids, Stopping
  <2>3. Pool'
    BY <1>1, <2>1 DEF Pool, NoOrphan, Active, Watcher
  <2>4. Vacancy'
    BY <1>1 DEF Vacancy, Vacant
  <2> QED BY <2>2, <2>3, <2>4
<1>5. Stops' /\ Adds'
  <2>1. \A t \in Thread \ {Main} : pc'[t] = pc[t] /\ workerId'[t] = workerId[t]
    BY <1>1
  <2>2. Stops'
    BY <1>1, <2>1 DEF Stops, Stopping
  <2>3. pc'[Main] # "addNewHeartBeat" /\ (spawned > 0 => spawned \in Thread \ {Main})
    BY <1>1 DEF Watcher
  <2>4. Adds'
    BY <1>1, <2>1, <2>3 DEF Adds
  <2> QED BY <2>2, <2>4
<1> QED BY <1>2, <1>3, <1>4, <1>5

(* A handler gets to stop the worker of its request.                       *)
LEMMA HandleRequestSupInv ==
  ASSUME SupInv, NEW h \in Handler, NEW w \in Id, HandleRequest(h, w)
  PROVE  SupInv'
<1> USE Distinct
    DEF SupInv, TypeOK, Goto, heartbeatVars, resourceVars, processVars, masterVars, Thread
<1>1. /\ pc[h] = "request"
      /\ pc' = [pc EXCEPT ![h] = "stop"]
      /\ workerId' = [workerId EXCEPT ![h] = w]
      /\ UNCHANGED <<heartbeatVars, resourceVars, interrupted, processVars, masterVars, faults>>
  BY DEF HandleRequest
<1>2. TypeOK'
  BY <1>1
<1>3. Places' /\ HeartbeatOwner' /\ ResourceOwner'
  BY <1>1 DEF Places, HeartbeatOwner, ResourceOwner, Managing, Stopping, Handling
<1>4. Ids' /\ Pool' /\ Vacancy'
  BY <1>1 DEF Ids, Pool, NoOrphan, Active, Vacancy, Vacant, Stopping, Watcher
<1>5. Stops' /\ Adds'
  BY <1>1 DEF Stops, Adds, Stopping, Watcher
<1> QED BY <1>2, <1>3, <1>4, <1>5

(* A worker process dies.                                                  *)
LEMMA CrashSupInv ==
  ASSUME SupInv, NEW p \in alive, Crash(p)
  PROVE  SupInv'
<1> USE DEF Crash, Fault, SupInv, TypeOK, heartbeatVars, resourceVars, masterVars
<1>1. TypeOK'
  OBVIOUS
<1>2. Places' /\ HeartbeatOwner' /\ ResourceOwner' /\ Ids'
  BY DEF Places, HeartbeatOwner, ResourceOwner, Ids
<1>3. Pool' /\ Vacancy' /\ Stops' /\ Adds'
  BY DEF Pool, NoOrphan, Active, Vacancy, Vacant, Stops, Adds
<1> QED BY <1>1, <1>2, <1>3
-----------------------------------------------------------------------------
(* handleMissingHeartbeat, but for the calls of the resource manager.      *)
LEMMA MissingSupInv ==
  ASSUME SupInv, NEW g \in Watcher,
         HandleMissingHeartbeat(g) \/ NotifyTaskManager(g) \/ ForgetHeartbeat(g)
  PROVE  SupInv'
<1> USE Distinct
    DEF SupInv, TypeOK, Goto, heartbeatVars, resourceVars, processVars, masterVars, Thread
<1>1. PICK a \in {"stop", "forget", "ended"} :
        /\ pc' = [pc EXCEPT ![g] = a]
        /\ a = "stop" => pc[g] = "missed" /\ heartbeatMonitor = None /\ heartbeatMonitor' = g
        /\ a = "forget" => pc[g] = "notify" /\ heartbeatMonitor' = heartbeatMonitor
        /\ a = "ended" => pc[g] = "forget" /\ heartbeatMonitor' = None
        /\ \/ heartbeats' = heartbeats
           \/ heartbeats' = [heartbeats EXCEPT ![workerId[g]] = None]
        /\ handedBack' \in SUBSET Watcher
        /\ UNCHANGED <<resourceVars, workerId, interrupted, processVars,
                       toCreate, faults>>
  BY DEF HandleMissingHeartbeat, NotifyTaskManager, ForgetHeartbeat
<1>2. TypeOK'
  BY <1>1
<1>3. Places' /\ HeartbeatOwner' /\ ResourceOwner'
  <2>1. Places' /\ ResourceOwner'
    BY <1>1 DEF Places, ResourceOwner, Managing, Stopping
  <2>2. HeartbeatOwner'
    BY <1>1 DEF HeartbeatOwner, Managing, Stopping, Handling
  <2> QED BY <2>1, <2>2
<1>4. \A w \in Id : heartbeats[w] = None => heartbeats'[w] = None
  BY <1>1
<1>5. Ids' /\ Pool' /\ Vacancy'
  BY <1>1, <1>4 DEF Ids, Pool, NoOrphan, Active, Vacancy, Vacant, Stopping
<1>6. Stops'
  <2>1. \A t \in Thread : pc'[t] \in Stopping => pc[t] = pc'[t] /\ workerId[t] \in Id
    BY <1>1, IdInUse DEF Stopping
  <2> QED BY <1>1, <1>4, <2>1 DEF Stops, Stopping
<1>7. Adds'
  BY <1>1, <1>4 DEF Adds, Ids, Places, Watcher
<1> QED BY <1>2, <1>3, <1>5, <1>6, <1>7
-----------------------------------------------------------------------------
(* stopWorker, by any thread, step by step.                                *)
LEMMA StopNothingSupInv ==
  ASSUME SupInv, NEW t \in Thread, StopNothing(t)
  PROVE  SupInv'
<1> USE Distinct
    DEF SupInv, TypeOK, Goto, Move, others, heartbeatVars, resourceVars,
        processVars, masterVars, Thread
<1>1. PICK a \in {"create", "ended", "stopNext"} :
        /\ pc[t] = "stop"
        /\ pc' = [pc EXCEPT ![t] = a]
        /\ t \in Watcher <=> a = "create"
        /\ t \in Handler <=> a = "ended"
        /\ UNCHANGED <<others, faults>>
  BY DEF StopNothing, AfterStop
<1>2. TypeOK'
  BY <1>1
<1>3. Places' /\ ResourceOwner'
  BY <1>1 DEF Places, ResourceOwner, Managing, Stopping
<1>4. HeartbeatOwner'
  BY <1>1 DEF HeartbeatOwner, Managing, Stopping, Handling
<1>5. Ids' /\ Pool' /\ Vacancy'
  BY <1>1 DEF Ids, Pool, NoOrphan, Active, Vacancy, Vacant, Stopping
<1>6. Stops' /\ Adds'
  BY <1>1 DEF Stops, Adds, Stopping
<1> QED BY <1>2, <1>3, <1>4, <1>5, <1>6

(* stopWorker takes the monitor of the resource manager, ...               *)
LEMMA StopWorkerSupInv ==
  ASSUME SupInv, NEW t \in Thread, StopWorker(t)
  PROVE  SupInv'
<1> USE Distinct
    DEF SupInv, TypeOK, Goto, StopWorker, ResourceFree, heartbeatVars,
        processVars, masterVars, Thread
<1>1. TypeOK'
  OBVIOUS
<1>2. Places' /\ ResourceOwner'
  BY DEF Places, ResourceOwner, Managing, Stopping
<1>3. HeartbeatOwner'
  BY DEF HeartbeatOwner, Managing, Stopping, Handling
<1>4. Ids' /\ Pool' /\ Vacancy'
  <2>1. Ids'
    BY DEF Ids, Stopping
  <2>2. Pool'
    BY DEF Pool, NoOrphan, Active
  <2>3. Vacancy'
    BY DEF Vacancy, Vacant
  <2> QED BY <2>1, <2>2, <2>3
<1>5. Stops' /\ Adds'
  BY DEF Stops, Adds, Stopping
<1> QED BY <1>1, <1>2, <1>3, <1>4, <1>5

(* ... interrupts the registered heartbeat thread, ...                     *)
LEMMA StopHeartBeatSupInv ==
  ASSUME SupInv, NEW t \in Thread, StopHeartBeat(t)
  PROVE  SupInv'
<1> USE Distinct
    DEF SupInv, TypeOK, Goto, StopHeartBeat, Registered, Without, resourceVars,
        processVars, masterVars, Thread
<1>1. workerId[t] \in Id
  BY IdInUse DEF Stopping
<1>2. TypeOK'
  <2>1. interrupted' \in SUBSET Watcher
    <3>1. heartbeats[workerId[t]] \in Watcher \union {None}
      BY <1>1
    <3> QED BY <3>1
  <2>2. heartbeats' \in [Id -> Watcher \union {None}]
    OBVIOUS
  <2> QED BY <2>1, <2>2
<1>3. Places' /\ ResourceOwner'
  BY DEF Places, ResourceOwner, Managing, Stopping
<1>4. HeartbeatOwner'
  BY DEF HeartbeatOwner, Managing, Stopping, Handling
<1>5. Ids' /\ Pool'
  BY DEF Ids, Pool, NoOrphan, Active, Stopping
<1>6. Vacancy'
  BY <1>1 DEF Vacancy, Vacant
<1>7. \A u \in Thread : u # t => pc'[u] \notin Managing
  BY DEF ResourceOwner, Managing, Stopping
<1>8. Stops' /\ Adds'
  BY <1>1, <1>7 DEF Stops, Adds, Managing, Stopping
<1> QED BY <1>2, <1>3, <1>4, <1>5, <1>6, <1>8

(* ... pauses, ...                                                         *)
LEMMA PauseBeforeKillSupInv ==
  ASSUME SupInv, NEW t \in Thread, PauseBeforeKill(t)
  PROVE  SupInv'
<1> USE Distinct
    DEF SupInv, TypeOK, Goto, PauseBeforeKill, heartbeatVars, resourceVars,
        processVars, masterVars, Thread
<1>1. TypeOK'
  OBVIOUS
<1>2. Places' /\ ResourceOwner'
  BY DEF Places, ResourceOwner, Managing, Stopping
<1>3. HeartbeatOwner'
  BY DEF HeartbeatOwner, Managing, Stopping, Handling
<1>4. Ids' /\ Pool' /\ Vacancy'
  <2>1. Ids'
    BY DEF Ids, Stopping
  <2>2. Pool'
    BY DEF Pool, NoOrphan, Active
  <2>3. Vacancy'
    BY DEF Vacancy, Vacant
  <2> QED BY <2>1, <2>2, <2>3
<1>5. Stops' /\ Adds'
  BY DEF Stops, Adds, Stopping
<1> QED BY <1>1, <1>2, <1>3, <1>4, <1>5

(* ... and kills the process, whose id is then vacant.                     *)
LEMMA DestroyWorkerSupInv ==
  ASSUME SupInv, NEW t \in Thread, DestroyWorker(t)
  PROVE  SupInv'
<1> USE Distinct
    DEF SupInv, TypeOK, Goto, heartbeatVars, masterVars, Thread
<1> DEFINE w == workerId[t]
           q == activeWorkerPool[w]
<1>1. PICK a \in {"create", "ended", "stopNext"} :
        /\ pc[t] = "destroy"
        /\ pc' = [pc EXCEPT ![t] = a]
        /\ t \in Watcher <=> a = "create"
        /\ t \in Handler <=> a = "ended"
        /\ alive' = alive \ {q}
        /\ activeWorkerPool' = [activeWorkerPool EXCEPT ![w] = None]
        /\ vacantIds' = Append(vacantIds, w)
        /\ resourceMonitor' = None
        /\ UNCHANGED <<heartbeatVars, workerId, interrupted, spawned, masterVars, faults>>
  BY DEF DestroyWorker, Destroyed, WithVacant, AfterStop
<1>2. w \in Id /\ q # None /\ heartbeats[w] = None
  BY <1>1, IdInUse DEF Stopping, Stops
<1>3. TypeOK'
  <2>1. vacantIds' \in Seq(Id)
    BY <1>1, <1>2
  <2>2. activeWorkerPool' \in [Id -> Watcher \union {None}] /\ alive' \in SUBSET (1 .. spawned')
    BY <1>1
  <2>3. pc' \in [Thread -> {"unborn", "sleep", "receive", "missed", "notify", "forget",
                       "stop", "stopHeartBeat", "pause", "destroy", "create",
                       "addNewHeartBeat", "serve", "stopNext", "request",
                       "returned", "ended", "died"}]
    BY <1>1
  <2> QED BY <1>1, <2>1, <2>2, <2>3
<1>4. Places' /\ ResourceOwner'
  BY <1>1 DEF Places, ResourceOwner, Managing, Stopping
<1>5. HeartbeatOwner'
  BY <1>1 DEF HeartbeatOwner, Managing, Stopping, Handling
<1>6. Ids'
  BY <1>1 DEF Ids, Stopping
<1>7. Pool'
  BY <1>1, <1>2 DEF Pool, NoOrphan, Active, Ids, Watcher
<1>8. Vacancy'
  <2>1. Vacant = Elements(vacantIds) /\ Vacant' = Elements(vacantIds')
    BY DEF Vacant, Elements
  <2>2. w \notin Vacant
    BY <1>2 DEF Vacancy
  <2>3. Vacant' = Vacant \union {w} /\ NoRepetition(vacantIds')
    BY <1>1, <1>2, <2>1, <2>2, AddElements DEF Vacancy
  <2>4. Vacant \subseteq Id
    BY DEF Vacant
  <2> QED BY <1>1, <1>2, <2>3, <2>4 DEF Vacancy
<1>9. Stops' /\ Adds'
  <2>1. \A u \in Thread : pc'[u] \notin Managing
    BY <1>1 DEF ResourceOwner, Managing, Stopping
  <2> QED BY <2>1 DEF Stops, Adds, Managing, Stopping
<1> QED BY <1>3, <1>4, <1>5, <1>6, <1>7, <1>8, <1>9
-----------------------------------------------------------------------------
(* createWorker.                                                           *)

(* The threads that create workers, and what they may take for granted.    *)
LEMMA Creator ==
  ASSUME SupInv, NEW t \in Thread, pc[t] \in {"create", "addNewHeartBeat"}
  PROVE  /\ t \in Watcher \union {Main}
         /\ t \in Watcher => t <= spawned /\ heartbeatMonitor = t
         /\ t = Main => heartbeatMonitor # t
<1>1. t \notin Handler
  BY DEF SupInv, Places, Stopping
<1>2. t \in Watcher \union {Main}
  BY <1>1 DEF Thread
<1>3. t \in Watcher => heartbeatMonitor = t
  BY DEF SupInv, HeartbeatOwner, Handling, Managing
<1>4. t \in Watcher => t <= spawned
  BY Distinct DEF SupInv, TypeOK, Places
<1>5. t = Main => heartbeatMonitor # t
  BY Distinct DEF SupInv, HeartbeatOwner
<1> QED BY <1>2, <1>3, <1>4, <1>5

(* createWorker cannot build the process, ...                              *)
LEMMA CreateFailsSupInv ==
  ASSUME SupInv, NEW t \in Thread, CreateFails(t)
  PROVE  SupInv'
<1> USE Distinct
    DEF SupInv, TypeOK, Goto, Fault, CreateFails, AboutToCreate, ResourceFree,
        processVars, masterVars, Thread
<1>1. Vacant = Elements(vacantIds) /\ Vacant' = Elements(vacantIds')
  BY DEF Vacant, Elements
<1>2. Vacant' \subseteq Vacant /\ NoRepetition(vacantIds') /\ vacantIds' \in Seq(Id)
  BY <1>1, PollElements DEF Vacancy
<1>3. TypeOK'
  BY <1>2
<1>4. Places' /\ ResourceOwner'
  <2>1. Places'
    BY Creator DEF Places, Managing, Stopping
  <2>2. ResourceOwner'
    BY DEF ResourceOwner, Managing, Stopping
  <2> QED BY <2>1, <2>2
<1>5. HeartbeatOwner'
  BY Creator DEF HeartbeatOwner, Managing, Stopping, Handling
<1>6. Ids' /\ Pool'
  BY DEF Ids, Pool, NoOrphan, Active, Stopping
<1>7. Vacancy'
  BY <1>2 DEF Vacancy
<1>8. Stops' /\ Adds'
  BY DEF Stops, Adds, Stopping
<1> QED BY <1>3, <1>4, <1>5, <1>6, <1>7, <1>8

(* ... or starts it under the first vacant id, ...                         *)
LEMMA CreateWorkerSupInv ==
  ASSUME SupInv, NEW t \in Thread, CreateWorker(t)
  PROVE  SupInv'
<1> USE Distinct
    DEF SupInv, TypeOK, Goto, heartbeatVars, masterVars, Thread
<1> DEFINE w == Head(vacantIds)
           p == spawned + 1
<1>1. /\ pc[t] = "create" /\ resourceMonitor = None
      /\ t = Main => toCreate > 0
      /\ vacantIds # <<>> /\ spawned < MaxSpawn
      /\ spawned' = p
      /\ alive' = alive \union {p}
      /\ workerId' = [workerId EXCEPT ![p] = w]
      /\ vacantIds' = Tail(vacantIds)
      /\ activeWorkerPool' = [activeWorkerPool EXCEPT ![w] = p]
      /\ resourceMonitor' = t
      /\ pc' = [pc EXCEPT ![t] = "addNewHeartBeat"]
      /\ UNCHANGED <<heartbeatVars, interrupted, masterVars, faults>>
  BY DEF CreateWorker, AboutToCreate, ResourceFree
<1>2. Vacant = Elements(vacantIds) /\ Vacant' = Elements(vacantIds')
  BY DEF Vacant, Elements
<1>3. /\ w \in Vacant /\ Vacant' = Vacant \ {w}
      /\ NoRepetition(vacantIds') /\ vacantIds' \in Seq(Id)
  BY <1>1, <1>2, PollElements DEF Vacancy
<1>4. w \in Id /\ activeWorkerPool[w] = None /\ heartbeats[w] = None
  BY <1>1, <1>3 DEF Vacancy
<1>5. p \in Watcher /\ pc[p] = "unborn" /\ p # t
  <2>1. p \in Watcher
    BY <1>1 DEF Watcher
  <2> QED BY <1>1, <2>1 DEF Places
<1>6. TypeOK'
  BY <1>1, <1>3, <1>4, <1>5
<1>7. Places' /\ ResourceOwner'
  BY <1>1, <1>5, Creator DEF Places, ResourceOwner, Managing, Stopping
<1>8. HeartbeatOwner'
  BY <1>1, Creator DEF HeartbeatOwner, Managing, Stopping, Handling
<1>9. Ids'
  BY <1>1, <1>4, <1>5 DEF Ids, Stopping
<1>10. Pool'
  BY <1>1, <1>4, <1>5 DEF Pool, NoOrphan, Active, Ids, Watcher
<1>11. Vacancy'
  <2>1. Vacant \subseteq Id
    BY DEF Vacant
  <2> QED BY <1>1, <1>3, <2>1 DEF Vacancy
<1>12. Stops'
  BY <1>1, <1>5 DEF Stops, ResourceOwner, Managing, Stopping
<1>13. Adds'
  BY <1>1, <1>4, <1>5 DEF Adds, ResourceOwner, Managing, Stopping
<1> QED BY <1>6, <1>7, <1>8, <1>9, <1>10, <1>11, <1>12, <1>13

(* ... and registers its heartbeat thread.                                 *)
LEMMA AddNewHeartBeatSupInv ==
  ASSUME SupInv, NEW t \in Thread, AddNewHeartBeat(t)
  PROVE  SupInv'
<1> USE Distinct
    DEF SupInv, TypeOK, Goto, processVars, Thread
<1> DEFINE w == workerId[spawned]
<1>1. /\ pc[t] = "addNewHeartBeat"
      /\ spawned \in Watcher /\ pc[spawned] = "unborn" /\ spawned # t
      /\ w \in Id /\ activeWorkerPool[w] = spawned /\ heartbeats[w] = None
      /\ t = Main => toCreate > 0
  BY DEF AddNewHeartBeat, Adds, Ids, Watcher
<1>2. PICK a \in {"create", "notify"} :
        /\ t = Main <=> a = "create"
        /\ heartbeats' = [heartbeats EXCEPT ![w] = spawned]
        /\ pc' = [pc EXCEPT ![t] = a, ![spawned] = "sleep"]
        /\ toCreate' = IF t = Main THEN toCreate - 1 ELSE toCreate
        /\ resourceMonitor' = None
        /\ UNCHANGED <<heartbeatMonitor, activeWorkerPool, vacantIds, workerId,
                       interrupted, processVars, handedBack, faults>>
  BY <1>1 DEF AddNewHeartBeat
<1>3. \A u \in Thread : pc'[u] = IF u = t THEN a ELSE IF u = spawned THEN "sleep" ELSE pc[u]
  BY <1>1, <1>2
<1>4. TypeOK'
  BY <1>1, <1>2
<1>5. Places' /\ ResourceOwner'
  <2>1. Places'
    <3>1. \A g \in Watcher : g > spawned => pc'[g] = "unborn"
      BY <1>1, <1>3, Creator DEF Places
    <3>2. \A h \in Handler : pc'[h] \in Stopping \union {"request", "stop", "ended"}
      BY <1>1, <1>3, Creator DEF Places
    <3>3. pc'[Main] \in Managing \union {"create", "serve", "stopNext", "stop", "returned",
                                         "died"}
      BY <1>1, <1>2, <1>3 DEF Places
    <3> QED BY <1>2, <3>1, <3>2, <3>3 DEF Places
  <2>2. ResourceOwner'
    BY <1>1, <1>2, <1>3 DEF ResourceOwner, Managing, Stopping
  <2> QED BY <2>1, <2>2
<1>6. HeartbeatOwner'
  BY <1>1, <1>2, <1>3, Creator DEF HeartbeatOwner, Managing, Stopping, Handling
<1>7. Ids' /\ Pool'
  BY <1>1, <1>2, <1>3 DEF Ids, Pool, NoOrphan, Active, Stopping
<1>8. Vacancy'
  <2>1. Vacant \subseteq Id /\ Vacant' = Vacant /\ w \notin Vacant
    BY <1>1, <1>2 DEF Vacant, Vacancy
  <2> QED BY <1>1, <1>2, <2>1 DEF Vacancy
<1>9. Stops' /\ Adds'
  <2>1. \A u \in Thread : pc'[u] \notin Managing
    BY <1>1, <1>2, <1>3 DEF ResourceOwner, Managing, Stopping
  <2> QED BY <2>1 DEF Stops, Adds, Managing, Stopping
<1> QED BY <1>4, <1>5, <1>6, <1>7, <1>8, <1>9
-----------------------------------------------------------------------------
(* All steps together.                                                     *)
LEMMA NextSupInv == SupInv /\ [Next]_vars => SupInv'
<1> SUFFICES ASSUME SupInv, [Next]_vars
             PROVE  SupInv'
  OBVIOUS
<1>1. ASSUME NEW g \in Watcher, Watch(g)
      PROVE  SupInv'
  BY <1>1, WatchingSupInv, MissingSupInv DEF Watch
<1>2. ASSUME NEW t \in Thread, Manage(t)
      PROVE  SupInv'
  BY <1>2, StopNothingSupInv, StopWorkerSupInv, StopHeartBeatSupInv, PauseBeforeKillSupInv,
     DestroyWorkerSupInv, CreateWorkerSupInv, AddNewHeartBeatSupInv DEF Manage
<1>3. CASE RunMain \/ StopServing
  BY <1>3, RunMainSupInv
<1>4. ASSUME NEW h \in Handler, NEW w \in Id, HandleRequest(h, w)
      PROVE  SupInv'
  BY <1>4, HandleRequestSupInv
<1>5. CASE Misfortune
  BY <1>5, WatchingSupInv, CreateFailsSupInv, CrashSupInv DEF Misfortune
<1>6. CASE UNCHANGED vars
  BY <1>6 DEF vars, others, heartbeatVars, resourceVars, processVars, masterVars,
       SupInv, TypeOK, Places, HeartbeatOwner, ResourceOwner, Ids, Pool, NoOrphan,
       Active, Vacancy, Vacant, Stops, Adds
<1> QED BY <1>1, <1>2, <1>3, <1>4, <1>5, <1>6 DEF Next

(* The inductive invariant holds in every reachable state. *)
THEOREM Supervised == Spec => []SupInv
BY InitSupInv, NextSupInv, PTL DEF Spec

(* The type invariant of WorkerSupervision. *)
THEOREM SupervisionTypeCorrect == Spec => []TypeOK
<1>1. SupInv => TypeOK
  BY DEF SupInv
<1> QED BY <1>1, Supervised, PTL

(* Every running process is in the pool under its id, and no two have the  *)
(* same: stopWorker reaches every worker.                                  *)
THEOREM NeverAnOrphan == Spec => []NoOrphan
<1>1. SupInv => NoOrphan
  BY DEF SupInv, Pool
<1> QED BY <1>1, Supervised, PTL

(* "This would not happen": waitFor() is never interrupted in stopWorker,  *)
(* whichever threads interrupt which.                                      *)
THEOREM NeverInterrupted == Spec => []WaitIsNotInterrupted
<1>1. SupInv => WaitIsNotInterrupted
  BY DEF SupInv, Stops, WaitIsNotInterrupted
<1> QED BY <1>1, Supervised, PTL

(* A new process never finds another heartbeat thread registered for its   *)
(* id, although handleMissingHeartbeat forgets the one of the replacement. *)
THEOREM AlwaysWatched == Spec => []EveryProcessIsWatched
<1>1. SupInv => EveryProcessIsWatched
  BY DEF SupInv, Adds, EveryProcessIsWatched
<1> QED BY <1>1, Supervised, PTL
-----------------------------------------------------------------------------
(* Ids are neither lost nor duplicated, but for failed builds.             *)

(* How many workers are active, with one less.                             *)
LEMMA FiniteActive == IsFiniteSet(Active)
<1>1. IsFiniteSet(Id)
  BY Distinct, FS_Interval DEF Id
<1> QED BY <1>1, FS_Subset DEF Active

(* The pool without one id counts one less.                                *)
LEMMA OneLess ==
  ASSUME NEW w \in Active
  PROVE  Cardinality(Active \ {w}) = Cardinality(Active) - 1
BY FiniteActive, FS_RemoveElement

(* Every id is vacant, active, or has been lost.                           *)
IdCount == Len(vacantIds) + Cardinality(Active) + faults["build"] = Capacity

(* The sum holds initially, and whatever moves an id keeps it.             *)
LEMMA InitIdCount == Init => IdCount
<1> SUFFICES ASSUME Init PROVE IdCount
  OBVIOUS
<1>1. vacantIds \in Seq(Int) /\ Len(vacantIds) = Capacity
  BY Distinct DEF Init
<1>2. Active = {}
  BY DEF Init, Active
<1>3. faults["build"] = 0
  BY DEF Init
<1> QED BY <1>1, <1>2, <1>3, FS_EmptySet, Distinct DEF IdCount

(* Every step keeps the count of ids.                                      *)
LEMMA NextIdCount == SupInv /\ IdCount /\ [Next]_vars => IdCount'
<1> SUFFICES ASSUME SupInv, IdCount, [Next]_vars
             PROVE  IdCount'
  OBVIOUS
<1> USE Distinct DEF SupInv, TypeOK
<1>0. Cardinality(Active) \in Nat /\ Len(vacantIds) \in Nat /\ faults["build"] \in Nat
  BY FiniteActive, FS_CardinalityType
<1>1. ASSUME UNCHANGED <<activeWorkerPool, vacantIds>>, faults'["build"] = faults["build"]
      PROVE  IdCount'
  BY <1>1 DEF IdCount, Active
<1>2. ASSUME NEW t \in Thread, DestroyWorker(t)
      PROVE  IdCount'
  <2> DEFINE w == workerId[t]
  <2>1. w \in Id /\ w \in Active
    BY <1>2, IdInUse DEF DestroyWorker, Stopping, Stops, Active
  <2>2. Active' = Active \ {w}
    BY <1>2, <2>1 DEF DestroyWorker, Active
  <2>3. Cardinality(Active') = Cardinality(Active) - 1
    BY <2>1, <2>2, OneLess
  <2>4. Len(vacantIds') = Len(vacantIds) + 1
    BY <1>2, <2>1 DEF DestroyWorker, WithVacant
  <2>5. faults' = faults
    BY <1>2 DEF DestroyWorker
  <2> QED BY <1>0, <2>3, <2>4, <2>5 DEF IdCount
<1>3. ASSUME NEW t \in Thread, CreateWorker(t)
      PROVE  IdCount'
  <2> DEFINE w == Head(vacantIds)
  <2>1. vacantIds # <<>> /\ vacantIds' = Tail(vacantIds) /\ faults' = faults
        /\ activeWorkerPool' = [activeWorkerPool EXCEPT ![w] = spawned + 1]
    BY <1>3 DEF CreateWorker
  <2>2. w \in Vacant
    BY <2>1, PollElements DEF Vacant, Elements, Vacancy
  <2>3. w \in Id /\ w \notin Active
    BY <2>1, <2>2 DEF Vacancy, Active
  <2>4. Active' = Active \union {w}
    BY <2>1, <2>3 DEF Active
  <2>5. Cardinality(Active') = Cardinality(Active) + 1
    BY <2>3, <2>4, FiniteActive, FS_AddElement
  <2>6. Len(vacantIds') = Len(vacantIds) - 1
    BY <2>1
  <2> QED BY <1>0, <2>1, <2>5, <2>6 DEF IdCount
<1>4. ASSUME NEW t \in Thread, CreateFails(t)
      PROVE  IdCount'
  <2>1. vacantIds # <<>> /\ vacantIds' = Tail(vacantIds) /\ Active' = Active
        /\ faults'["build"] = faults["build"] + 1
    BY <1>4 DEF CreateFails, Fault, Active
  <2>2. Len(vacantIds') = Len(vacantIds) - 1
    BY <2>1
  <2> QED BY <1>0, <2>1, <2>2 DEF IdCount
<1> USE DEF Goto, Move, Fault, others, heartbeatVars, resourceVars
<1>5. ASSUME NEW g \in Watcher, Watch(g) \/ SuspectWrongly(g) \/ FailHeartbeat(g)
      PROVE  IdCount'
  BY <1>5, <1>1 DEF Watch, SendHeartbeat, EndHeartbeat, ReceiveAnswer, MissAnswer,
     HandleMissingHeartbeat, NotifyTaskManager, ForgetHeartbeat, SuspectWrongly, FailHeartbeat
<1>6. ASSUME NEW t \in Thread,
             StopNothing(t) \/ StopWorker(t) \/ StopHeartBeat(t) \/ PauseBeforeKill(t)
               \/ AddNewHeartBeat(t)
      PROVE  IdCount'
  BY <1>6, <1>1 DEF StopNothing, StopWorker, StopHeartBeat, PauseBeforeKill, AddNewHeartBeat
<1>7. CASE RunMain \/ StopServing
  BY <1>7, <1>1 DEF RunMain, StartServing, StopServing, StopNext, PassVacant, Return
<1>8. ASSUME NEW h \in Handler, NEW w \in Id, HandleRequest(h, w)
      PROVE  IdCount'
  BY <1>8, <1>1 DEF HandleRequest
<1>9. ASSUME NEW p \in alive, Crash(p)
      PROVE  IdCount'
  BY <1>9, <1>1 DEF Crash
<1>10. CASE UNCHANGED vars
  BY <1>10, <1>1 DEF vars
<1> HIDE DEF SupInv, TypeOK, Goto, Move, Fault, others, heartbeatVars, resourceVars
<1> QED BY <1>2, <1>3, <1>4, <1>5, <1>6, <1>7, <1>8, <1>9, <1>10 DEF Next, Manage, Misfortune

(* An id is vacant once, or active, and only a failed build loses one.     *)
THEOREM IdsConserved == Spec => []IdConservation
<1>1. SupInv /\ IdCount => IdConservation
  BY DEF SupInv, IdCount, IdConservation, Vacancy, NoRepetition, Active
<1> QED BY <1>1, InitIdCount, NextIdCount, Supervised, PTL DEF Spec
-----------------------------------------------------------------------------
(* createWorker is never short of an id: who may still ask for one.        *)

(* A process in the pool needs its id, and so does a watcher that may come *)
(* to replace its process, whether that is still in the pool or not: one   *)
(* id for the two.  The main thread needs one for each worker it has still *)
(* to create.                                                              *)
Claiming == Stopping \union {"sleep", "receive", "missed", "stop", "create"}
Pooled(p) == \E w \in Id : activeWorkerPool[w] = p
Claims == {p \in Watcher : pc[p] \in Claiming \/ Pooled(p)}
Due == CASE pc[Main] = "create" -> toCreate
         [] pc[Main] = "addNewHeartBeat" -> toCreate - 1
         [] OTHER -> 0

ClaimCount ==
  /\ Cardinality(Claims) + Due + faults["build"] <= Capacity
  /\ \A g \in Watcher : pc[g] = "create" => ~Pooled(g)

(* The claims are finitely many, now and after a step.                     *)
LEMMA ClaimTypes ==
  SupInv => /\ IsFiniteSet(Claims) /\ Cardinality(Claims) \in Nat
            /\ Due \in Nat /\ faults["build"] \in Nat
<1> SUFFICES ASSUME SupInv
             PROVE  /\ IsFiniteSet(Claims) /\ Cardinality(Claims) \in Nat
                    /\ Due \in Nat /\ faults["build"] \in Nat
  OBVIOUS
<1>1. IsFiniteSet(Watcher)
  BY Distinct, FS_Interval DEF Watcher
<1>2. IsFiniteSet(Claims)
  BY <1>1, FS_Subset DEF Claims
<1>3. Due \in Nat /\ faults["build"] \in Nat
  BY Distinct DEF Due, SupInv, TypeOK, Adds, Thread
<1> QED BY <1>2, <1>3, FS_CardinalityType

(* Claims can be counted after every step.                                 *)
LEMMA NextClaimTypes ==
  ASSUME SupInv'
  PROVE  Cardinality(Claims') \in Nat /\ Due' \in Nat
<1>1. (/\ IsFiniteSet(Claims) /\ Cardinality(Claims) \in Nat
       /\ Due \in Nat /\ faults["build"] \in Nat)'
  BY ClaimTypes, PTL
<1> QED BY <1>1

(* A step after which nobody claims an id that did not before.             *)
LEMMA NoNewClaim ==
  ASSUME SupInv, SupInv', ClaimCount,
         Claims' \subseteq Claims, Due' <= Due, faults'["build"] = faults["build"],
         \A g \in Watcher : pc'[g] = "create" => ~Pooled(g)'
  PROVE  ClaimCount'
<1>1. Cardinality(Claims') <= Cardinality(Claims)
  BY ClaimTypes, FS_Subset
<1>2. Cardinality(Claims') \in Nat /\ Due' \in Nat
  BY NextClaimTypes
<1> QED BY <1>1, <1>2, ClaimTypes, Distinct DEF ClaimCount

(* A watcher that creates a worker passes its claim on to the new process. *)
LEMMA CreateWorkerClaims ==
  ASSUME SupInv, SupInv', ClaimCount, NEW t \in Thread, CreateWorker(t)
  PROVE  ClaimCount'
<1> DEFINE p == spawned + 1
<1> USE Distinct DEF CreateWorker, AboutToCreate, Goto
<1>1. /\ pc[t] = "create" /\ pc' = [pc EXCEPT ![t] = "addNewHeartBeat"]
      /\ activeWorkerPool' = [activeWorkerPool EXCEPT ![Head(vacantIds)] = p]
      /\ faults' = faults /\ toCreate' = toCreate /\ t \in Watcher \union {Main}
  BY Creator DEF masterVars
<1>2. p \in Watcher /\ p # t /\ pc[p] = "unborn"
  BY Creator DEF SupInv, TypeOK, Places, Watcher
<1>3. DOMAIN pc = Thread /\ Claims \subseteq Watcher
  BY DEF SupInv, TypeOK, Claims
<1>4. \A g \in Watcher : Pooled(g)' => g = p \/ Pooled(g)
  BY <1>1 DEF Pooled, SupInv, TypeOK
<1>5. \A g \in Watcher : pc'[g] = "create" => ~Pooled(g)'
  BY <1>1, <1>2, <1>3, <1>4 DEF ClaimCount, Thread
<1>6. p \notin Claims
  <2>1. pc[p] \notin Claiming
    BY <1>2 DEF Claiming, Stopping
  <2>2. ~Pooled(p)
    BY <1>2 DEF Pooled, SupInv, Pool, Active, TypeOK, Watcher
  <2> QED BY <2>1, <2>2 DEF Claims
<1>7. Claims' \subseteq (Claims \ {t}) \union {p}
  BY <1>1, <1>2, <1>3, <1>4 DEF Claims, Claiming, Stopping, Thread, ClaimCount
<1> HIDE DEF CreateWorker, AboutToCreate, Goto
<1>8. CASE t \in Watcher
  <2>1. t \in Claims
    BY <1>1, <1>8 DEF Claims, Claiming
  <2>2. IsFiniteSet(Claims \ {t}) /\ Cardinality(Claims \ {t}) = Cardinality(Claims) - 1
    BY <2>1, ClaimTypes, FS_RemoveElement
  <2>3. /\ IsFiniteSet((Claims \ {t}) \union {p})
        /\ Cardinality((Claims \ {t}) \union {p}) = Cardinality(Claims)
    <3>1. p \notin Claims \ {t}
      BY <1>6
    <3>2. Cardinality((Claims \ {t}) \union {p}) = Cardinality(Claims \ {t}) + 1
          /\ IsFiniteSet((Claims \ {t}) \union {p})
      BY <3>1, <2>2, FS_AddElement
    <3> QED BY <3>2, <2>2, ClaimTypes
  <2>4. Cardinality(Claims') <= Cardinality(Claims)
    BY <1>7, <2>3, FS_Subset
  <2>5. Due' = Due
    BY <1>1, <1>8 DEF Due, Thread, SupInv, TypeOK
  <2>6. Cardinality(Claims') \in Nat
    BY NextClaimTypes
  <2> QED BY <1>1, <1>5, <2>4, <2>5, <2>6, ClaimTypes DEF ClaimCount
<1>9. CASE t = Main
  <2>1. IsFiniteSet(Claims \union {p}) /\ Cardinality(Claims \union {p}) = Cardinality(Claims) + 1
    BY <1>6, ClaimTypes, FS_AddElement
  <2>2. Cardinality(Claims') <= Cardinality(Claims) + 1
    BY <1>7, <2>1, FS_Subset
  <2>3. Due' = Due - 1
    BY <1>1, <1>9 DEF Due, Thread, SupInv, TypeOK
  <2>4. Cardinality(Claims') \in Nat
    BY NextClaimTypes
  <2> QED BY <1>1, <1>5, <2>2, <2>3, <2>4, ClaimTypes DEF ClaimCount
<1> QED BY <1>1, <1>8, <1>9

(* A failed build costs an id, and the claim of the thread that dies.      *)
LEMMA CreateFailsClaims ==
  ASSUME SupInv, SupInv', ClaimCount, NEW t \in Thread, CreateFails(t)
  PROVE  ClaimCount'
<1> USE Distinct DEF CreateFails, AboutToCreate, Goto, Fault
<1>1. /\ pc[t] = "create" /\ pc' = [pc EXCEPT ![t] = "died"]
      /\ activeWorkerPool' = activeWorkerPool /\ toCreate' = toCreate
      /\ t \in Watcher \union {Main} /\ faults'["build"] = faults["build"] + 1
      /\ t = Main => toCreate > 0
  BY Creator DEF masterVars, SupInv, TypeOK
<1>2. DOMAIN pc = Thread /\ \A g \in Watcher : Pooled(g)' <=> Pooled(g)
  BY <1>1 DEF SupInv, TypeOK, Pooled
<1>3. \A g \in Watcher : pc'[g] = "create" => ~Pooled(g)'
  BY <1>1, <1>2 DEF ClaimCount, Thread
<1>4. Claims' \subseteq Claims \ {t}
  BY <1>1, <1>2 DEF Claims, Claiming, Stopping, Thread, ClaimCount
<1>5. IsFiniteSet(Claims \ {t}) /\ Cardinality(Claims') <= Cardinality(Claims \ {t})
  BY <1>4, ClaimTypes, FS_RemoveElement, FS_Subset
<1>6. Cardinality(Claims') \in Nat
  BY NextClaimTypes
<1> HIDE DEF CreateFails, AboutToCreate, Goto, Fault
<1>7. CASE t \in Watcher
  <2>1. Cardinality(Claims \ {t}) = Cardinality(Claims) - 1
    BY <1>1, <1>7, ClaimTypes, FS_RemoveElement DEF Claims, Claiming
  <2>2. Due' = Due
    BY <1>1, <1>7 DEF Due, Thread, SupInv, TypeOK
  <2> QED BY <1>1, <1>3, <1>5, <1>6, <2>1, <2>2, ClaimTypes DEF ClaimCount
<1>8. CASE t = Main
  <2>1. Cardinality(Claims \ {t}) = Cardinality(Claims)
    BY <1>8, ClaimTypes, FS_RemoveElement DEF Claims
  <2>2. Due' <= Due - 1 /\ Due' \in Nat
    <3>1. Due = toCreate /\ toCreate \in Nat /\ toCreate > 0
      BY <1>1, <1>8 DEF Due, SupInv, TypeOK
    <3>2. pc'[Main] = "died"
      BY <1>1, <1>2, <1>8 DEF Thread
    <3>3. Due' = 0
      BY <3>2 DEF Due
    <3> QED BY <3>1, <3>3
  <2> QED BY <1>1, <1>3, <1>5, <1>6, <2>1, <2>2, ClaimTypes DEF ClaimCount
<1> QED BY <1>1, <1>7, <1>8

(* Every other step keeps the claims, or gives one up.                     *)
LEMMA NextClaimCount == SupInv /\ SupInv' /\ ClaimCount /\ [Next]_vars => ClaimCount'
<1> SUFFICES ASSUME SupInv, SupInv', ClaimCount, [Next]_vars
             PROVE  ClaimCount'
  OBVIOUS
<1> USE Distinct
<1>0. /\ DOMAIN pc = Thread /\ toCreate \in Nat
      /\ activeWorkerPool \in [Id -> Watcher \union {None}]
      /\ Main \in Thread /\ Watcher \subseteq Thread
  BY DEF SupInv, TypeOK, Thread
<1>1. ASSUME UNCHANGED <<activeWorkerPool, toCreate>>, faults'["build"] = faults["build"],
             \A g \in Watcher : pc'[g] \in Claiming => pc[g] \in Claiming,
             \A g \in Watcher : pc'[g] = "create" => pc[g] = "create" \/ ~Pooled(g),
             pc'[Main] \in {"create", "addNewHeartBeat"} => pc'[Main] = pc[Main]
      PROVE  ClaimCount'
  <2>1. \A g \in Watcher : Pooled(g)' <=> Pooled(g)
    BY <1>1 DEF Pooled
  <2>2. Claims' \subseteq Claims
    BY <1>1, <2>1 DEF Claims
  <2>3. Due' <= Due
    BY <1>1, ClaimTypes DEF Due
  <2> QED BY <1>1, <2>1, <2>2, <2>3, NoNewClaim DEF ClaimCount
<1>2. ASSUME NEW t \in Thread, DestroyWorker(t)
      PROVE  ClaimCount'
  <2>1. /\ pc[t] = "destroy" /\ pc' = [pc EXCEPT ![t] = AfterStop(t)]
        /\ activeWorkerPool' = [activeWorkerPool EXCEPT ![workerId[t]] = None]
        /\ UNCHANGED <<faults, toCreate>>
    BY <1>2 DEF DestroyWorker, Goto, masterVars
  <2>2. /\ t \in Watcher => AfterStop(t) = "create"
        /\ t \notin Watcher => AfterStop(t) \in {"ended", "stopNext"}
    BY DEF AfterStop, Thread
  <2>3. \A g \in Watcher : Pooled(g)' => Pooled(g)
    BY <1>0, <2>1 DEF Pooled
  <2>4. Claims' \subseteq Claims
    BY <1>0, <2>1, <2>2, <2>3 DEF Claims, Claiming, Stopping
  <2>5. Due' <= Due
    BY <1>0, <2>1, <2>2, ClaimTypes DEF Due
  <2>6. t \in Watcher => ~Pooled(t)'
    BY <1>0, <2>1 DEF Pooled, SupInv, Pool, Active
  <2>7. \A g \in Watcher : pc'[g] = "create" => ~Pooled(g)'
    BY <1>0, <2>1, <2>2, <2>3, <2>6 DEF ClaimCount
  <2> QED BY <2>1, <2>4, <2>5, <2>7, NoNewClaim
<1>3. ASSUME NEW t \in Thread, StopNothing(t)
      PROVE  ClaimCount'
  <2>1. /\ pc[t] = "stop" /\ pc' = [pc EXCEPT ![t] = AfterStop(t)]
        /\ activeWorkerPool[workerId[t]] = None
        /\ UNCHANGED <<activeWorkerPool, faults, toCreate>>
    BY <1>3 DEF StopNothing, Move, Goto, others, resourceVars, masterVars
  <2>2. /\ t \in Watcher => AfterStop(t) = "create"
        /\ t \notin Watcher => AfterStop(t) \in {"ended", "stopNext"}
    BY DEF AfterStop, Thread
  <2>3. t \in Watcher => ~Pooled(t)
    BY <1>0, <2>1 DEF Pooled, SupInv, Pool, Active
  <2> QED BY <1>0, <1>1, <2>1, <2>2, <2>3 DEF Claiming, Stopping
<1>4. ASSUME NEW t \in Thread, AddNewHeartBeat(t)
      PROVE  ClaimCount'
  <2>1. /\ pc[t] = "addNewHeartBeat" /\ t \in Watcher \union {Main}
        /\ spawned \in Watcher /\ pc[spawned] = "unborn" /\ Pooled(spawned)
        /\ activeWorkerPool' = activeWorkerPool /\ faults' = faults
        /\ toCreate' = IF t = Main THEN toCreate - 1 ELSE toCreate
    BY <1>4, Creator DEF AddNewHeartBeat, SupInv, Adds, TypeOK, Watcher, Pooled, Ids
  <2>2. \A g \in Watcher : /\ g \notin {t, spawned} => pc'[g] = pc[g]
                           /\ g = t => pc'[g] = "notify"
                           /\ g = spawned => pc'[g] \in {"sleep", "unborn"}
    BY <1>0, <1>4, <2>1 DEF AddNewHeartBeat
  <2>3. /\ t = Main => pc'[Main] = "create"
        /\ t # Main => pc'[Main] = pc[Main]
    BY <1>0, <1>4, <2>1 DEF AddNewHeartBeat
  <2>4. \A g \in Watcher : Pooled(g)' <=> Pooled(g)
    BY <2>1 DEF Pooled
  <2>5. Claims' \subseteq Claims
    BY <2>1, <2>2, <2>4 DEF Claims, Claiming, Stopping
  <2>6. Due' <= Due
    BY <1>0, <2>1, <2>3, ClaimTypes DEF Due
  <2>7. \A g \in Watcher : pc'[g] = "create" => ~Pooled(g)'
    BY <2>2, <2>4 DEF ClaimCount
  <2> QED BY <2>1, <2>5, <2>6, <2>7, NoNewClaim
<1>5. ASSUME NEW g \in Watcher, Watch(g) \/ SuspectWrongly(g) \/ FailHeartbeat(g)
      PROVE  ClaimCount'
  <2>1. /\ UNCHANGED <<activeWorkerPool, toCreate>>
        /\ faults'["build"] = faults["build"]
    BY <1>5
    DEF Watch, SendHeartbeat, EndHeartbeat, ReceiveAnswer, MissAnswer, HandleMissingHeartbeat,
        NotifyTaskManager, ForgetHeartbeat, SuspectWrongly, FailHeartbeat,
        Goto, Move, Fault, others, resourceVars, masterVars, SupInv, TypeOK
  <2>2. PICK at \in {"sleep", "receive", "missed", "stop", "forget", "ended"} :
          pc' = [pc EXCEPT ![g] = at]
    BY <1>5
    DEF Watch, SendHeartbeat, EndHeartbeat, ReceiveAnswer, MissAnswer, HandleMissingHeartbeat,
        NotifyTaskManager, ForgetHeartbeat, SuspectWrongly, FailHeartbeat, Goto, Move
  <2>3. at \in Claiming => pc[g] \in Claiming
    BY <1>0, <1>5, <2>2
    DEF Watch, SendHeartbeat, EndHeartbeat, ReceiveAnswer, MissAnswer, HandleMissingHeartbeat,
        NotifyTaskManager, ForgetHeartbeat, SuspectWrongly, FailHeartbeat,
        Goto, Move, Claiming, Stopping
  <2> QED BY <1>0, <1>1, <2>1, <2>2, <2>3
<1>6. ASSUME NEW t \in Thread, StopWorker(t) \/ StopHeartBeat(t) \/ PauseBeforeKill(t)
      PROVE  ClaimCount'
  BY <1>0, <1>1, <1>6
  DEF StopWorker, StopHeartBeat, PauseBeforeKill, Goto, resourceVars, masterVars,
      Claiming, Stopping
<1>7. CASE RunMain \/ StopServing
  BY <1>0, <1>1, <1>7
  DEF RunMain, StartServing, StopServing, StopNext, PassVacant, Return,
      Goto, Move, others, resourceVars, masterVars, Claiming, Stopping
<1>8. ASSUME NEW h \in Handler, NEW w \in Id, HandleRequest(h, w)
      PROVE  ClaimCount'
  BY <1>0, <1>1, <1>8 DEF HandleRequest, Goto, resourceVars, masterVars, Claiming, Stopping
<1>9. ASSUME NEW p \in alive, Crash(p)
      PROVE  ClaimCount'
  BY <1>0, <1>1, <1>9 DEF Crash, Fault, resourceVars, masterVars, SupInv, TypeOK
<1>10. CASE UNCHANGED vars
  BY <1>0, <1>1, <1>10 DEF vars, others, resourceVars, masterVars
<1> QED BY <1>2, <1>3, <1>4, <1>5, <1>6, <1>7, <1>8, <1>9, <1>10,
           CreateWorkerClaims, CreateFailsClaims DEF Next, Manage, Misfortune

(* At first all ids are due to the main thread.                            *)
LEMMA InitClaimCount == Init => ClaimCount
<1> SUFFICES ASSUME Init PROVE ClaimCount
  OBVIOUS
<1> USE Distinct DEF Init
<1>1. Claims = {}
  BY DEF Claims, Claiming, Stopping, Pooled, Thread
<1>2. Due = Capacity /\ faults["build"] = 0
  BY DEF Due, Thread
<1>3. \A g \in Watcher : pc[g] # "create"
  BY DEF Thread
<1> QED BY <1>1, <1>2, <1>3, FS_EmptySet DEF ClaimCount

(* The processes in the pool are as many as the ids that are active, and   *)
(* each has a claim.                                                       *)
LEMMA ActiveClaims ==
  ASSUME SupInv, NEW S,
         \A w \in Active : activeWorkerPool[w] \notin S
  PROVE  Cardinality(Active) <= Cardinality(Claims \ S)
<1> DEFINE f == [w \in Active |-> activeWorkerPool[w]]
<1>1. f \in [Active -> Claims \ S]
  BY DEF Claims, Pooled, Active, SupInv, TypeOK
<1>2. \A v, w \in Active : f[v] = f[w] => v = w
  BY DEF SupInv, Pool
<1>3. f \in Injection(Active, Claims \ S)
  BY <1>1, <1>2, Fun_IsInj
<1>4. IsFiniteSet(Claims \ S)
  BY ClaimTypes, FS_Subset
<1> QED BY <1>3, <1>4, FS_Injection

(* createWorker finds a vacant id whenever it is called, by the main       *)
(* thread or by a watcher that may have stopped nothing before: the        *)
(* CapacityFullException is never thrown.                                  *)
THEOREM AlwaysAnIdForACreator == Spec => []NeverOverCapacity
<1>1. ASSUME SupInv, IdCount, ClaimCount, NEW t \in Thread, AboutToCreate(t)
      PROVE  vacantIds # <<>>
  <2>1. Len(vacantIds) \in Nat /\ Cardinality(Active) \in Nat
    BY <1>1, FiniteActive, FS_CardinalityType DEF SupInv, TypeOK
  <2>2. Cardinality(Active) < Capacity - faults["build"]
    <3>1. CASE t \in Watcher
      <4>1. t \in Claims /\ ~Pooled(t)
        BY <1>1, <3>1 DEF Claims, Claiming, AboutToCreate, ClaimCount
      <4>2. Cardinality(Active) <= Cardinality(Claims \ {t})
        BY <1>1, <4>1, ActiveClaims DEF Pooled, Active
      <4>3. Cardinality(Claims \ {t}) = Cardinality(Claims) - 1
        BY <1>1, <4>1, ClaimTypes, FS_RemoveElement
      <4> QED BY <1>1, <2>1, <4>2, <4>3, ClaimTypes, Distinct DEF ClaimCount
    <3>2. CASE t = Main
      <4>1. Due > 0
        BY <1>1, <3>2 DEF AboutToCreate, Due
      <4>2. Cardinality(Active) <= Cardinality(Claims)
        <5>1. Claims \ {} = Claims
          OBVIOUS
        <5> QED BY <1>1, <5>1, ActiveClaims
      <4> QED BY <1>1, <2>1, <4>1, <4>2, ClaimTypes, Distinct DEF ClaimCount
    <3> QED BY <1>1, <3>1, <3>2, Creator DEF AboutToCreate
  <2>3. Len(vacantIds) > 0
    BY <1>1, <2>1, <2>2, ClaimTypes, Distinct DEF IdCount
  <2> QED BY <2>3
<1>2. SupInv /\ IdCount /\ ClaimCount => NeverOverCapacity
  BY <1>1 DEF NeverOverCapacity
<1> QED BY <1>2, InitIdCount, NextIdCount, InitClaimCount, NextClaimCount, Supervised,
           PTL DEF Spec
-----------------------------------------------------------------------------
(* The two managers implement WorkerPool.                                  *)

(* What the mapping makes of a watcher that handles a failure.             *)
FailureOf(g) ==
  /\ pc[g] \in Stopping \union {"stop"} => Failed = workerId[g] /\ Stage = "stop"
  /\ pc[g] = "create" => Failed = workerId[g] /\ Stage = "create"
  /\ pc[g] \in {"addNewHeartBeat", "notify"} => Failed = workerId[g] /\ Stage = "handBack"
  /\ pc[g] = "forget" => Failed = None /\ Stage = "none"

FailureMapping ==
  /\ heartbeatMonitor = None => Failed = None /\ Stage = "none"
  /\ \A g \in Watcher : heartbeatMonitor = g => FailureOf(g)

(* The mapping follows the watcher that has the monitor.                   *)
LEMMA Failure == SupInv => FailureMapping
<1> SUFFICES ASSUME SupInv PROVE FailureMapping
  OBVIOUS
<1>1. \A g \in Watcher : heartbeatMonitor = g => pc[g] # "unborn"
  BY DEF SupInv, HeartbeatOwner, Handling, Managing, Stopping
<1>2. \A g \in Watcher : heartbeatMonitor = g =>
        workerId[g] \in Id /\ workerId[g] # None /\ g # None
  BY <1>1, IdInUse, Distinct DEF Id, Thread
<1> QED BY <1>2 DEF FailureMapping, FailureOf, Failed, Stage, Stopping

(* The initial states map to initial states.                               *)
LEMMA InitWorkerPool == Init => WP!Init
BY DEF Init, WP!Init, Failed, Stage, Id, WP!Id

(* A step that leaves the pool alone and takes no watcher from one stage   *)
(* to the next is a stutter.                                               *)
LEMMA StutterPool ==
  ASSUME SupInv, SupInv',
         UNCHANGED <<activeWorkerPool, vacantIds, spawned, alive>>,
         heartbeatMonitor' = heartbeatMonitor,
         \A g \in Watcher : heartbeatMonitor = g =>
           /\ workerId'[g] = workerId[g]
           /\ \/ pc'[g] = pc[g]
              \/ {pc[g], pc'[g]} \subseteq Stopping \union {"stop"}
              \/ {pc[g], pc'[g]} \subseteq {"addNewHeartBeat", "notify"}
  PROVE  UNCHANGED WP!vars
<1>1. FailureMapping /\ FailureMapping'
  BY Failure, PTL
<1>2. heartbeatMonitor \in Watcher \union {None}
  BY DEF SupInv, HeartbeatOwner
<1>3. CASE heartbeatMonitor = None
  BY <1>1, <1>3 DEF FailureMapping, WP!vars, WP!poolVars, WP!failureVars
<1>4. ASSUME NEW g \in Watcher, heartbeatMonitor = g
      PROVE  UNCHANGED WP!vars
  <2>1. pc[g] \in Handling
    BY <1>4 DEF SupInv, HeartbeatOwner
  <2>2. FailureOf(g) /\ FailureOf(g)'
    BY <1>1, <1>4 DEF FailureMapping
  <2>3. Failed' = Failed /\ Stage' = Stage
    BY <1>4, <2>1, <2>2 DEF FailureOf, Handling, Managing, Stopping
  <2> QED BY <2>3 DEF WP!vars, WP!poolVars, WP!failureVars
<1> QED BY <1>2, <1>3, <1>4

(* A step of the main thread, or of a handler, leaves the watcher that     *)
(* handles a failure where it is.                                          *)
LEMMA OtherFailure ==
  ASSUME SupInv, SupInv',
         heartbeatMonitor' = heartbeatMonitor,
         \A g \in Watcher : heartbeatMonitor = g =>
           workerId'[g] = workerId[g] /\ pc'[g] = pc[g]
  PROVE  Failed' = Failed /\ Stage' = Stage
<1>1. FailureMapping /\ FailureMapping'
  BY Failure, PTL
<1>2. heartbeatMonitor \in Watcher \union {None}
  BY DEF SupInv, HeartbeatOwner
<1>3. \A g \in Watcher : heartbeatMonitor = g => pc[g] \in Handling
  BY DEF SupInv, HeartbeatOwner
<1> QED BY <1>1, <1>2, <1>3 DEF FailureMapping, FailureOf, Handling, Managing, Stopping
-----------------------------------------------------------------------------
(* The steps that are an operation of WorkerPool, each the one it takes    *)
(* effect in.                                                              *)
LEMMA StopNothingPool ==
  ASSUME SupInv, SupInv', NEW t \in Thread, StopNothing(t)
  PROVE  WP!Next \/ UNCHANGED WP!vars
<1> USE Distinct DEF Goto, Move, others, heartbeatVars, resourceVars, processVars
<1>1. /\ pc[t] = "stop" /\ pc' = [pc EXCEPT ![t] = AfterStop(t)]
      /\ activeWorkerPool[workerId[t]] = None
      /\ UNCHANGED <<heartbeatMonitor, activeWorkerPool, vacantIds, spawned, alive, workerId>>
  BY DEF StopNothing
<1>2. CASE t \notin Watcher
  <2>1. \A g \in Watcher : pc'[g] = pc[g]
    BY <1>1, <1>2 DEF SupInv, TypeOK
  <2> QED BY <1>1, <2>1, StutterPool
<1>3. CASE t \in Watcher
  <2>1. pc'[t] = "create"
    BY <1>1, <1>3 DEF SupInv, TypeOK, AfterStop, Thread
  <2>2. heartbeatMonitor = t /\ heartbeatMonitor' = t
    BY <1>1, <1>3 DEF SupInv, HeartbeatOwner, Handling
  <2>3. FailureOf(t) /\ FailureOf(t)'
    <3>1. FailureMapping /\ FailureMapping'
      BY Failure, PTL
    <3> QED BY <1>3, <2>2, <3>1 DEF FailureMapping
  <2>4. Failed = workerId[t] /\ Stage = "stop" /\ Failed' = workerId[t] /\ Stage' = "create"
    BY <1>1, <2>1, <2>3 DEF FailureOf
  <2>5. WP!StopFailed
    BY <1>1, <2>4 DEF WP!StopFailed, WP!poolVars
  <2> QED BY <2>5 DEF WP!Next
<1> QED BY <1>2, <1>3

(* The kill in stopWorker is the stop of the pool.                         *)
LEMMA DestroyWorkerPool ==
  ASSUME SupInv, SupInv', NEW t \in Thread, DestroyWorker(t)
  PROVE  WP!Next
<1> USE Distinct DEF Goto, heartbeatVars
<1> DEFINE w == workerId[t]
<1>1. /\ pc[t] = "destroy" /\ pc' = [pc EXCEPT ![t] = AfterStop(t)]
      /\ alive' = alive \ {activeWorkerPool[w]}
      /\ activeWorkerPool' = [activeWorkerPool EXCEPT ![w] = None]
      /\ vacantIds' = Append(vacantIds, w)
      /\ UNCHANGED <<heartbeatMonitor, spawned, workerId>>
  BY DEF DestroyWorker, Destroyed, WithVacant
<1>2. w \in Id /\ activeWorkerPool[w] # None
  BY <1>1, IdInUse DEF SupInv, Stopping, Stops
<1>3. WP!Remove(w)
  BY <1>1, <1>2 DEF WP!Remove
<1>4. CASE t \notin Watcher
  <2>1. \A g \in Watcher : pc'[g] = pc[g]
    BY <1>1, <1>4 DEF SupInv, TypeOK
  <2>2. WP!Stop(w)
    BY <1>1, <1>3, <2>1, OtherFailure DEF WP!Stop, WP!failureVars
  <2> QED BY <1>2, <2>2 DEF WP!Next, WP!Id, Id
<1>5. CASE t \in Watcher
  <2>1. pc'[t] = "create"
    BY <1>1, <1>5 DEF SupInv, TypeOK, AfterStop, Thread
  <2>2. heartbeatMonitor = t /\ heartbeatMonitor' = t
    BY <1>1, <1>5 DEF SupInv, HeartbeatOwner, Handling, Managing, Stopping
  <2>3. FailureOf(t) /\ FailureOf(t)'
    <3>1. FailureMapping /\ FailureMapping'
      BY Failure, PTL
    <3> QED BY <1>5, <2>2, <3>1 DEF FailureMapping
  <2>4. Failed = w /\ Stage = "stop" /\ Failed' = w /\ Stage' = "create"
    BY <1>1, <2>1, <2>3 DEF FailureOf, Stopping
  <2>5. WP!StopFailed
    BY <1>3, <2>4 DEF WP!StopFailed
  <2> QED BY <2>5 DEF WP!Next
<1> QED BY <1>4, <1>5

(* A process that is built is the start, or the replacement, of the pool.  *)
LEMMA CreateWorkerPool ==
  ASSUME SupInv, SupInv', NEW t \in Thread, CreateWorker(t)
  PROVE  WP!Next
<1> USE Distinct DEF Goto, heartbeatVars
<1>1. /\ pc[t] = "create" /\ pc' = [pc EXCEPT ![t] = "addNewHeartBeat"]
      /\ workerId' = [workerId EXCEPT ![spawned + 1] = Head(vacantIds)]
      /\ UNCHANGED heartbeatMonitor
      /\ spawned < MaxSpawn
  BY DEF CreateWorker, AboutToCreate
<1>2. WP!NewProcess
  BY DEF CreateWorker, WP!NewProcess
<1>3. spawned \in Nat /\ pc = [u \in Thread |-> pc[u]] /\ workerId \in [Thread -> Id \union {None}]
  BY DEF SupInv, TypeOK
<1>4. \A g \in Watcher : g = spawned + 1 => pc[g] = "unborn"
  BY <1>3 DEF SupInv, Places
<1>5. \A g \in Watcher : heartbeatMonitor = g => workerId'[g] = workerId[g]
  BY <1>1, <1>3, <1>4 DEF SupInv, HeartbeatOwner, Handling, Managing, Stopping, Thread
<1>6. CASE t = Main
  <2>1. \A g \in Watcher : pc'[g] = pc[g]
    BY <1>1, <1>3, <1>6
  <2>2. WP!Start
    BY <1>1, <1>2, <1>5, <2>1, OtherFailure DEF WP!Start, WP!failureVars
  <2> QED BY <2>2 DEF WP!Next
<1>7. CASE t \in Watcher
  <2>1. pc'[t] = "addNewHeartBeat"
    BY <1>1, <1>3
  <2>2. heartbeatMonitor = t /\ heartbeatMonitor' = t /\ workerId'[t] = workerId[t]
    BY <1>1, <1>5, <1>7, Creator
  <2>3. FailureOf(t) /\ FailureOf(t)'
    <3>1. FailureMapping /\ FailureMapping'
      BY Failure, PTL
    <3> QED BY <1>7, <2>2, <3>1 DEF FailureMapping
  <2>4. Failed = workerId[t] /\ Stage = "create" /\ Failed' = workerId[t] /\ Stage' = "handBack"
    BY <1>1, <2>1, <2>2, <2>3 DEF FailureOf
  <2>5. WP!Replace
    BY <1>2, <2>4 DEF WP!Replace
  <2> QED BY <2>5 DEF WP!Next
<1> QED BY <1>1, <1>6, <1>7, Creator

(* A build that fails is a start, or a replacement, without a process.     *)
LEMMA CreateFailsPool ==
  ASSUME SupInv, SupInv', NEW t \in Thread, CreateFails(t)
  PROVE  WP!Next
<1> USE Distinct DEF Goto, processVars
<1>1. /\ pc[t] = "create" /\ pc' = [pc EXCEPT ![t] = "died"]
      /\ heartbeatMonitor' = IF heartbeatMonitor = t THEN None ELSE heartbeatMonitor
      /\ UNCHANGED workerId
  BY DEF CreateFails, AboutToCreate
<1>2. WP!NoProcess
  BY DEF CreateFails, WP!NoProcess
<1>3. CASE t = Main
  <2>1. \A g \in Watcher : pc'[g] = pc[g]
    BY <1>1, <1>3 DEF SupInv, TypeOK
  <2>2. heartbeatMonitor' = heartbeatMonitor
    BY <1>1, <1>3, Creator
  <2>3. WP!Start
    BY <1>1, <1>2, <2>1, <2>2, OtherFailure DEF WP!Start, WP!failureVars
  <2> QED BY <2>3 DEF WP!Next
<1>4. CASE t \in Watcher
  <2>1. heartbeatMonitor = t /\ heartbeatMonitor' = None
    BY <1>1, <1>4, Creator
  <2>2. FailureMapping /\ FailureMapping'
    BY Failure, PTL
  <2>3. Stage = "create" /\ Failed' = None /\ Stage' = "none"
    BY <1>1, <1>4, <2>1, <2>2 DEF FailureMapping, FailureOf
  <2>4. WP!Abandon
    BY <1>2, <2>3 DEF WP!Abandon
  <2> QED BY <2>4 DEF WP!Next
<1> QED BY <1>1, <1>3, <1>4, Creator

(* handleMissingHeartbeat is entered, calls the task manager, returns.     *)
LEMMA MissingPool ==
  ASSUME SupInv, SupInv', NEW g \in Watcher,
         HandleMissingHeartbeat(g) \/ NotifyTaskManager(g) \/ ForgetHeartbeat(g)
  PROVE  WP!Next \/ UNCHANGED WP!vars
<1> USE Distinct DEF Goto, resourceVars, processVars, heartbeatVars, Thread
<1>a. FailureMapping /\ FailureMapping'
  BY Failure, PTL
<1>b. /\ pc = [u \in Thread |-> pc[u]]
      /\ UNCHANGED <<activeWorkerPool, vacantIds, spawned, alive, workerId>>
  BY DEF SupInv, TypeOK, HandleMissingHeartbeat, NotifyTaskManager, ForgetHeartbeat
<1>0. /\ FailureMapping /\ FailureMapping'
      /\ pc = [u \in Thread |-> pc[u]]
      /\ UNCHANGED <<activeWorkerPool, vacantIds, spawned, alive, workerId>>
  BY <1>a, <1>b
<1>1. CASE HandleMissingHeartbeat(g)
  <2>1. Failed = None /\ Failed' = workerId[g] /\ Stage' = "stop" /\ workerId[g] \in Id
    BY <1>0, <1>1, IdInUse DEF HandleMissingHeartbeat, FailureMapping, FailureOf
  <2>2. WP!Notice(workerId[g])
    BY <1>0, <2>1 DEF WP!Notice, WP!poolVars
  <2> QED BY <2>1, <2>2 DEF WP!Next, WP!Id, Id
<1>2. CASE NotifyTaskManager(g)
  <2>1. heartbeatMonitor = g /\ heartbeatMonitor' = g
    BY <1>2 DEF NotifyTaskManager, SupInv, HeartbeatOwner, Handling
  <2>2. Stage = "handBack" /\ Failed' = None /\ Stage' = "none"
    BY <1>0, <1>2, <2>1 DEF NotifyTaskManager, FailureMapping, FailureOf
  <2>3. WP!HandBack
    BY <1>0, <2>2 DEF WP!HandBack, WP!poolVars
  <2> QED BY <2>3 DEF WP!Next
<1>3. CASE ForgetHeartbeat(g)
  <2>1. heartbeatMonitor = g /\ heartbeatMonitor' = None
    BY <1>3 DEF ForgetHeartbeat, SupInv, HeartbeatOwner, Handling
  <2>2. Failed = None /\ Stage = "none" /\ Failed' = None /\ Stage' = "none"
    BY <1>0, <1>3, <2>1 DEF ForgetHeartbeat, FailureMapping, FailureOf
  <2> QED BY <1>0, <2>2 DEF WP!vars, WP!poolVars, WP!failureVars
<1> QED BY <1>1, <1>2, <1>3

(* Every step of the two managers is one of the pool or none.              *)
LEMMA StepWorkerPool == SupInv /\ SupInv' /\ [Next]_vars => [WP!Next]_(WP!vars)
<1> SUFFICES ASSUME SupInv, SupInv', [Next]_vars
             PROVE  WP!Next \/ UNCHANGED WP!vars
  OBVIOUS
<1>0. /\ pc = [t \in Thread |-> pc[t]] /\ workerId = [t \in Thread |-> workerId[t]]
      /\ Main \notin Watcher /\ \A h \in Handler : h \notin Watcher
      /\ Watcher \subseteq Thread /\ Handler \subseteq Thread /\ Main \in Thread
  BY Distinct DEF SupInv, TypeOK, Thread
<1>1. ASSUME NEW g \in Watcher,
             SendHeartbeat(g) \/ EndHeartbeat(g) \/ ReceiveAnswer(g) \/ MissAnswer(g)
               \/ SuspectWrongly(g) \/ FailHeartbeat(g)
      PROVE  UNCHANGED WP!vars
  <2>1. /\ pc[g] \in {"sleep", "receive"} /\ UNCHANGED others
        /\ \A u \in Watcher : u # g => pc'[u] = pc[u]
    BY <1>0, <1>1 DEF SendHeartbeat, EndHeartbeat, ReceiveAnswer, MissAnswer,
       SuspectWrongly, FailHeartbeat, Goto, Move
  <2>2. heartbeatMonitor # g
    BY <2>1 DEF SupInv, HeartbeatOwner, Handling, Managing, Stopping
  <2> QED BY <2>1, <2>2, StutterPool DEF others, heartbeatVars, resourceVars, processVars
<1>2. ASSUME NEW t \in Thread,
             StopWorker(t) \/ StopHeartBeat(t) \/ PauseBeforeKill(t)
      PROVE  UNCHANGED WP!vars
  <2>1. /\ {pc[t], pc'[t]} \subseteq Stopping \union {"stop"}
        /\ \A u \in Watcher : u # t => pc'[u] = pc[u]
        /\ UNCHANGED <<heartbeatMonitor, activeWorkerPool, vacantIds, spawned, alive, workerId>>
    BY <1>0, <1>2 DEF StopWorker, StopHeartBeat, PauseBeforeKill, Goto, Stopping,
       heartbeatVars, resourceVars, processVars
  <2> QED BY <2>1, StutterPool
<1>3. ASSUME NEW t \in Thread, AddNewHeartBeat(t)
      PROVE  UNCHANGED WP!vars
  <2>1. /\ pc[t] = "addNewHeartBeat" /\ pc[spawned] = "unborn" /\ spawned \in Watcher
        /\ UNCHANGED <<heartbeatMonitor, activeWorkerPool, vacantIds, spawned, alive, workerId>>
    BY <1>3, Distinct DEF AddNewHeartBeat, processVars, SupInv, TypeOK, Adds, Watcher
  <2>2. /\ t # Main => pc'[t] = "notify"
        /\ \A u \in Watcher : u # t /\ u # spawned => pc'[u] = pc[u]
    BY <1>0, <1>3, <2>1 DEF AddNewHeartBeat
  <2>3. heartbeatMonitor # spawned
    BY <2>1 DEF SupInv, HeartbeatOwner, Handling, Managing, Stopping
  <2> QED BY <1>0, <2>1, <2>2, <2>3, StutterPool
<1>4. CASE RunMain \/ StopServing
  <2>1. /\ \A u \in Watcher : pc'[u] = pc[u] /\ workerId'[u] = workerId[u]
        /\ UNCHANGED <<heartbeatMonitor, activeWorkerPool, vacantIds, spawned, alive>>
    BY <1>0, <1>4 DEF RunMain, StartServing, StopServing, StopNext, PassVacant, Return, Goto, Move,
       others, heartbeatVars, resourceVars, processVars
  <2> QED BY <2>1, StutterPool
<1>5. ASSUME NEW h \in Handler, NEW w \in Id, HandleRequest(h, w)
      PROVE  UNCHANGED WP!vars
  <2>1. /\ \A u \in Watcher : pc'[u] = pc[u] /\ workerId'[u] = workerId[u]
        /\ UNCHANGED <<heartbeatMonitor, activeWorkerPool, vacantIds, spawned, alive>>
    BY <1>0, <1>5 DEF HandleRequest, Goto, heartbeatVars, resourceVars, processVars
  <2> QED BY <2>1, StutterPool
<1>6. ASSUME NEW p \in alive, Crash(p)
      PROVE  WP!Next
  <2>1. Failed' = Failed /\ Stage' = Stage
    BY <1>6, OtherFailure DEF Crash, heartbeatVars
  <2>2. WP!Die(p)
    BY <1>6, <2>1 DEF Crash, resourceVars, WP!Die, WP!failureVars
  <2> QED BY <2>2 DEF WP!Next
<1>7. CASE UNCHANGED vars
  BY <1>7, StutterPool DEF vars, others, heartbeatVars, resourceVars, processVars
<1> QED
  BY <1>1, <1>2, <1>3, <1>4, <1>5, <1>6, <1>7, MissingPool, StopNothingPool,
     DestroyWorkerPool, CreateWorkerPool, CreateFailsPool
  DEF Next, Watch, Manage, Misfortune

(* WorkerSupervision implements WorkerPool, for any number of workers,     *)
(* threads and faults.                                                     *)
THEOREM SupervisionRefinement == Spec => WorkerPoolSpec
BY InitWorkerPool, StepWorkerPool, Supervised, PTL DEF Spec, WorkerPoolSpec, WP!Spec
-----------------------------------------------------------------------------
(* Whom a heartbeat thread speaks for, and which workers have none, for    *)
(* every id whose worker has not been dismissed.                           *)
(* Where the watcher of a worker is before that worker is out of the pool, *)
(* and after.                                                              *)
Current == {"sleep", "receive", "missed", "stop"} \union Stopping
Past == {"create", "addNewHeartBeat", "notify", "forget", "died"}

(* Only the worker in the pool has its heartbeat thread registered. *)
RegisteredInPool == \A w \in Id : heartbeats[w] # None => activeWorkerPool[w] = heartbeats[w]

(* A handler is about no worker before it is told to stop one. *)
Untold == \A h \in Handler : pc[h] = "request" => workerId[h] = None

(* A worker that was not dismissed is stopped by watchers only, each its   *)
(* own, which it has found in the pool, ...                                *)
CurrentInPool ==
  \A g \in Watcher : pc[g] \in Current /\ workerId[g] \notin Dismissed =>
    activeWorkerPool[workerId[g]] = g

PastNotInPool == \A g \in Watcher : pc[g] \in Past => activeWorkerPool[workerId[g]] # g

(* ... and its watcher is interrupted by nobody else. *)
OwnInterrupts ==
  \A g \in interrupted :
    g <= spawned /\ (workerId[g] \notin Dismissed => pc[g] = "pause")

(* A process whose heartbeat thread has not started is being registered. *)
LastIsRegistered ==
  \A g \in Watcher : g <= spawned /\ pc[g] = "unborn" =>
    g = spawned /\ \E t \in Thread : pc[t] = "addNewHeartBeat"

WatchInv ==
  /\ RegisteredInPool /\ Untold /\ CurrentInPool
  /\ PastNotInPool /\ OwnInterrupts /\ LastIsRegistered

(* It holds initially, and every step keeps it; one lemma per operation.   *)
LEMMA InitWatchInv == Init => WatchInv
BY Distinct
DEF Init, WatchInv, RegisteredInPool, Untold, CurrentInPool, PastNotInPool,
    OwnInterrupts, LastIsRegistered, Current, Past, Stopping, Watcher, Thread

(* A watcher waits for its worker, misses it, or ends. *)
LEMMA WatchingWatchInv ==
  ASSUME SupInv, WatchInv, NEW g \in Watcher,
         SendHeartbeat(g) \/ EndHeartbeat(g) \/ ReceiveAnswer(g) \/ MissAnswer(g)
           \/ SuspectWrongly(g) \/ FailHeartbeat(g)
  PROVE  WatchInv'
<1> USE Distinct
    DEF SupInv, TypeOK, Goto, Move, Fault, others, heartbeatVars, resourceVars,
        processVars, masterVars, Thread
<1>1. PICK a \in {"sleep", "receive", "missed", "ended"} :
        /\ pc[g] \in {"sleep", "receive"}
        /\ pc' = [pc EXCEPT ![g] = a]
        /\ UNCHANGED others
  BY DEF SendHeartbeat, EndHeartbeat, ReceiveAnswer, MissAnswer, SuspectWrongly, FailHeartbeat
<1>2. RegisteredInPool' /\ Untold' /\ Dismissed' = Dismissed
  BY <1>1 DEF WatchInv, RegisteredInPool, Untold, Dismissed
<1>3. CurrentInPool' /\ PastNotInPool' /\ OwnInterrupts' /\ LastIsRegistered'
  BY <1>1, <1>2
  DEF WatchInv, CurrentInPool, PastNotInPool, OwnInterrupts, LastIsRegistered,
      Current, Past, Stopping
<1> QED BY <1>2, <1>3 DEF WatchInv

(* The main thread goes on, a handler gets to stop a worker, a worker      *)
(* dies: none takes back the dismissal of a worker.                        *)
LEMMA OthersDismiss ==
  ASSUME SupInv, WatchInv,
         \/ RunMain \/ StopServing
         \/ \E h \in Handler, w \in Id : HandleRequest(h, w)
         \/ \E p \in alive : Crash(p)
  PROVE  Dismissed \subseteq Dismissed'
<1>1. CASE RunMain \/ StopServing
  <2>1. \A h \in Handler : workerId'[h] = workerId[h]
    BY <1>1, Distinct DEF SupInv, TypeOK, Thread, RunMain, StartServing, StopServing, StopNext,
       PassVacant, Return, Move, others
  <2>2. workerId[Main] # None => workerId'[Main] # None /\ workerId[Main] <= workerId'[Main]
    BY <1>1, Distinct
    DEF RunMain, StartServing, StopServing, StopNext, PassVacant, Return, NextStop, Move,
        others, Active, Id, SupInv, TypeOK, Thread
  <2>3. workerId[Main] \in Nat \union {None} /\ workerId'[Main] \in Nat \union {None}
    BY <1>1, Distinct
    DEF RunMain, StartServing, StopServing, StopNext, PassVacant, Return, NextStop, Move,
        others, Active, Id, SupInv, TypeOK, Thread
  <2> SUFFICES ASSUME NEW w \in Dismissed PROVE w \in Dismissed'
    OBVIOUS
  <2>4. ASSUME NEW h \in Handler, w = workerId[h], w # None
        PROVE  w \in Dismissed'
    BY <2>1, <2>4 DEF Dismissed
  <2>5. CASE w \in Id /\ workerId[Main] # None /\ w <= workerId[Main]
    BY <2>2, <2>3, <2>5 DEF Dismissed, Id
  <2> QED BY <2>4, <2>5 DEF Dismissed
<1>2. ASSUME NEW h \in Handler, NEW w \in Id, HandleRequest(h, w)
      PROVE  Dismissed \subseteq Dismissed'
  <2>1. workerId[h] = None /\ workerId' = [workerId EXCEPT ![h] = w]
    BY <1>2 DEF HandleRequest, WatchInv, Untold
  <2> QED BY <2>1, Distinct DEF Dismissed, SupInv, TypeOK, Thread
<1>3. CASE \E p \in alive : Crash(p)
  BY <1>3 DEF Crash, Dismissed
<1> QED BY <1>1, <1>2, <1>3

(* The same steps keep the invariant.                                      *)
LEMMA OthersWatchInv ==
  ASSUME SupInv, WatchInv,
         \/ RunMain \/ StopServing
         \/ \E h \in Handler, w \in Id : HandleRequest(h, w)
         \/ \E p \in alive : Crash(p)
  PROVE  WatchInv'
<1>0. Dismissed \subseteq Dismissed'
  BY OthersDismiss
<1> USE Distinct
    DEF SupInv, TypeOK, Goto, Move, others, heartbeatVars, resourceVars,
        processVars, masterVars, Thread
<1>1. /\ UNCHANGED <<heartbeats, activeWorkerPool, interrupted, spawned>>
      /\ \A g \in Watcher : pc'[g] = pc[g] /\ workerId'[g] = workerId[g]
      /\ \A t \in Thread : pc[t] = "addNewHeartBeat" => pc'[t] = "addNewHeartBeat"
  BY DEF RunMain, StartServing, StopServing, StopNext, PassVacant, Return,
         HandleRequest, Crash
<1>2. Untold'
  <2>1. CASE RunMain \/ StopServing
    BY <2>1
    DEF RunMain, StartServing, StopServing, StopNext, PassVacant, Return, WatchInv, Untold
  <2>2. CASE \E h \in Handler, w \in Id : HandleRequest(h, w)
    BY <2>2 DEF HandleRequest, WatchInv, Untold
  <2>3. CASE \E p \in alive : Crash(p)
    BY <2>3 DEF Crash, WatchInv, Untold
  <2> QED BY <2>1, <2>2, <2>3
<1>3. RegisteredInPool' /\ CurrentInPool' /\ PastNotInPool' /\ OwnInterrupts'
  BY <1>0, <1>1
  DEF WatchInv, RegisteredInPool, CurrentInPool, PastNotInPool, OwnInterrupts
<1>4. LastIsRegistered'
  BY <1>1 DEF WatchInv, LastIsRegistered
<1> QED BY <1>2, <1>3, <1>4 DEF WatchInv

(* handleMissingHeartbeat, but for the calls of the resource manager.      *)
LEMMA MissingWatchInv ==
  ASSUME SupInv, WatchInv, NEW g \in Watcher,
         HandleMissingHeartbeat(g) \/ NotifyTaskManager(g) \/ ForgetHeartbeat(g)
  PROVE  WatchInv'
<1> USE Distinct
    DEF SupInv, TypeOK, Goto, heartbeatVars, resourceVars, processVars, masterVars, Thread
<1>1. PICK a \in {"stop", "forget", "ended"} :
        /\ pc' = [pc EXCEPT ![g] = a]
        /\ a = "stop" => pc[g] = "missed"
        /\ a = "forget" => pc[g] = "notify"
        /\ a = "ended" => pc[g] = "forget"
        /\ \/ heartbeats' = heartbeats
           \/ heartbeats' = [heartbeats EXCEPT ![workerId[g]] = None]
        /\ UNCHANGED <<resourceVars, workerId, interrupted, processVars,
                       toCreate, faults>>
  BY DEF HandleMissingHeartbeat, NotifyTaskManager, ForgetHeartbeat
<1>2. RegisteredInPool' /\ Untold' /\ Dismissed' = Dismissed
  BY <1>1 DEF WatchInv, RegisteredInPool, Untold, Dismissed
<1>3. CurrentInPool' /\ PastNotInPool' /\ OwnInterrupts' /\ LastIsRegistered'
  BY <1>1, <1>2
  DEF WatchInv, CurrentInPool, PastNotInPool, OwnInterrupts, LastIsRegistered,
      Current, Past, Stopping
<1> QED BY <1>2, <1>3 DEF WatchInv
-----------------------------------------------------------------------------
(* A thread that stops a worker that was not dismissed is a watcher, and   *)
(* the worker is its own.                                                  *)
LEMMA StopperIsWatcher ==
  ASSUME SupInv, WatchInv, NEW t \in Thread,
         pc[t] \in Stopping \union {"stop"}, workerId[t] \notin Dismissed
  PROVE  t \in Watcher /\ activeWorkerPool[workerId[t]] = t
<1>1. workerId[t] \in Id
  BY IdInUse
<1>2. t \notin Handler
  BY <1>1, Distinct DEF Dismissed, Id, Thread
<1>3. t # Main
  BY <1>1, Distinct DEF Dismissed, Id, Thread
<1> QED BY <1>2, <1>3 DEF WatchInv, CurrentInPool, Current, Thread

(* stopWorker, by any thread, up to the kill.                              *)
LEMMA StopWatchInv ==
  ASSUME SupInv, WatchInv, NEW t \in Thread,
         StopNothing(t) \/ StopWorker(t) \/ StopHeartBeat(t) \/ PauseBeforeKill(t)
  PROVE  WatchInv'
<1> USE Distinct
    DEF SupInv, TypeOK, Goto, Move, others, heartbeatVars, resourceVars,
        processVars, masterVars, Thread
<1>1. PICK a \in {"create", "ended", "stopNext", "stopHeartBeat", "pause", "destroy"} :
        /\ pc[t] \in Stopping \union {"stop"}
        /\ pc' = [pc EXCEPT ![t] = a]
        /\ UNCHANGED <<activeWorkerPool, workerId, spawned>>
        /\ a \in {"create", "ended", "stopNext"} => activeWorkerPool[workerId[t]] = None
        /\ a = "pause" => heartbeats' = [heartbeats EXCEPT ![workerId[t]] = None]
                          /\ interrupted' \subseteq interrupted \union {heartbeats[workerId[t]]}
        /\ a # "pause" => heartbeats' = heartbeats /\ interrupted' \subseteq interrupted
        /\ a = "destroy" => t \notin interrupted'
        /\ a \notin {"pause", "destroy"} => pc[t] = "stop"
        /\ a = "pause" => pc[t] = "stopHeartBeat"
        /\ None \notin interrupted'
  BY DEF StopNothing, StopWorker, StopHeartBeat, PauseBeforeKill, AfterStop, Registered,
         Without, Stopping
<1>2. workerId[t] \in Id /\ Dismissed' = Dismissed
  BY <1>1, IdInUse DEF Dismissed
<1>3. RegisteredInPool'
  BY <1>1, <1>2 DEF WatchInv, RegisteredInPool
<1>4. Untold'
  BY <1>1 DEF WatchInv, Untold
<1>5. CurrentInPool'
  BY <1>1, <1>2, StopperIsWatcher DEF WatchInv, CurrentInPool, Current, Stopping
<1>6. PastNotInPool'
  BY <1>1, <1>2 DEF WatchInv, PastNotInPool, Past
<1>7. OwnInterrupts'
  <2> SUFFICES ASSUME NEW g \in interrupted'
               PROVE  g <= spawned /\ (workerId[g] \notin Dismissed => pc'[g] = "pause")
    BY <1>1, <1>2 DEF OwnInterrupts
  <2>1. CASE g \in interrupted
    BY <1>1, <2>1 DEF WatchInv, OwnInterrupts, Stopping
  <2>2. CASE g \notin interrupted
    <3>1. a = "pause" /\ g = heartbeats[workerId[t]] /\ g # None
      BY <1>1, <2>2
    <3>2. g = activeWorkerPool[workerId[t]] /\ workerId[g] = workerId[t] /\ g <= spawned
      BY <1>2, <3>1 DEF WatchInv, RegisteredInPool, Pool, Active
    <3>3. workerId[t] \notin Dismissed => g = t
      BY <1>1, <3>2, StopperIsWatcher
    <3> QED BY <1>1, <3>1, <3>2, <3>3
  <2> QED BY <2>1, <2>2
<1>8. LastIsRegistered'
  BY <1>1 DEF WatchInv, LastIsRegistered, Stopping
<1> QED BY <1>3, <1>4, <1>5, <1>6, <1>7, <1>8 DEF WatchInv

(* The kill.                                                               *)
LEMMA DestroyWorkerWatchInv ==
  ASSUME SupInv, WatchInv, NEW t \in Thread, DestroyWorker(t)
  PROVE  WatchInv'
<1> USE Distinct
    DEF SupInv, TypeOK, Goto, heartbeatVars, masterVars, Thread
<1> DEFINE w == workerId[t]
<1>1. PICK a \in {"create", "ended", "stopNext"} :
        /\ pc[t] = "destroy"
        /\ pc' = [pc EXCEPT ![t] = a]
        /\ activeWorkerPool' = [activeWorkerPool EXCEPT ![w] = None]
        /\ UNCHANGED <<heartbeats, workerId, interrupted, spawned>>
  BY DEF DestroyWorker, AfterStop
<1>2. /\ w \in Id /\ heartbeats[w] = None /\ t \notin interrupted
      /\ Dismissed' = Dismissed
  BY <1>1, IdInUse DEF Stopping, Stops, Dismissed
<1>3. RegisteredInPool'
  BY <1>1, <1>2 DEF WatchInv, RegisteredInPool
<1>4. Untold'
  BY <1>1 DEF WatchInv, Untold
<1>5. CurrentInPool'
  <2> SUFFICES ASSUME NEW g \in Watcher, pc'[g] \in Current, workerId[g] \notin Dismissed
               PROVE  activeWorkerPool'[workerId[g]] = g
    BY <1>1, <1>2 DEF CurrentInPool
  <2>1. g # t /\ pc[g] \in Current
    BY <1>1 DEF Current, Stopping
  <2>2. activeWorkerPool[workerId[g]] = g
    BY <2>1 DEF WatchInv, CurrentInPool
  <2>3. workerId[g] # w
    BY <1>1, <2>1, <2>2, StopperIsWatcher DEF Stopping
  <2> QED BY <1>1, <2>2, <2>3
<1>6. PastNotInPool'
  BY <1>1, <1>2 DEF WatchInv, PastNotInPool, Past, Watcher
<1>7. OwnInterrupts' /\ LastIsRegistered'
  BY <1>1, <1>2 DEF WatchInv, OwnInterrupts, LastIsRegistered
<1> QED BY <1>3, <1>4, <1>5, <1>6, <1>7 DEF WatchInv
-----------------------------------------------------------------------------
(* createWorker fails, ...                                                 *)
LEMMA CreateFailsWatchInv ==
  ASSUME SupInv, WatchInv, NEW t \in Thread, CreateFails(t)
  PROVE  WatchInv'
<1> USE Distinct
    DEF SupInv, TypeOK, Goto, CreateFails, AboutToCreate, processVars, masterVars, Thread
<1>0. Dismissed' = Dismissed
  BY DEF Dismissed
<1>1. RegisteredInPool' /\ CurrentInPool' /\ PastNotInPool'
  BY <1>0
  DEF WatchInv, RegisteredInPool, CurrentInPool, PastNotInPool, Current, Past, Stopping
<1>2. Untold'
  BY DEF WatchInv, Untold
<1>3. OwnInterrupts' /\ LastIsRegistered'
  BY <1>0 DEF WatchInv, OwnInterrupts, LastIsRegistered
<1> QED BY <1>1, <1>2, <1>3 DEF WatchInv

(* ... or starts the process under a vacant id, ...                        *)
LEMMA CreateWorkerWatchInv ==
  ASSUME SupInv, WatchInv, NEW t \in Thread, CreateWorker(t)
  PROVE  WatchInv'
<1> USE Distinct
    DEF SupInv, TypeOK, Goto, heartbeatVars, masterVars, Thread
<1> DEFINE w == Head(vacantIds)
           p == spawned + 1
<1>1. /\ pc[t] = "create" /\ resourceMonitor = None
      /\ vacantIds # <<>> /\ spawned < MaxSpawn
      /\ spawned' = p
      /\ workerId' = [workerId EXCEPT ![p] = w]
      /\ activeWorkerPool' = [activeWorkerPool EXCEPT ![w] = p]
      /\ pc' = [pc EXCEPT ![t] = "addNewHeartBeat"]
      /\ UNCHANGED <<heartbeats, interrupted>>
  BY DEF CreateWorker, AboutToCreate, ResourceFree
<1>2. w \in Vacant /\ w \in Id /\ activeWorkerPool[w] = None /\ heartbeats[w] = None
  BY <1>1 DEF Vacancy, Vacant
<1>3. p \in Watcher /\ pc[p] = "unborn" /\ p # t
  <2>1. p \in Watcher
    BY <1>1 DEF Watcher
  <2> QED BY <1>1, <2>1 DEF Places
<1>4. \A g \in Watcher : pc[g] # "unborn" => workerId[g] \in Id /\ workerId'[g] = workerId[g]
  BY <1>1, <1>3, IdInUse
<1>5. RegisteredInPool' /\ Untold' /\ Dismissed' = Dismissed
  <2>1. \A u \in Handler \union {Main} : workerId'[u] = workerId[u]
    BY <1>1, <1>3
  <2>2. Dismissed' = Dismissed
    BY <2>1 DEF Dismissed
  <2> QED BY <1>1, <1>2, <1>3, <2>1, <2>2 DEF WatchInv, RegisteredInPool, Untold
<1>6. CurrentInPool'
  BY <1>1, <1>2, <1>3, <1>4, <1>5 DEF WatchInv, CurrentInPool, Current, Stopping
<1>7. PastNotInPool'
  BY <1>1, <1>2, <1>3, <1>4 DEF WatchInv, PastNotInPool, Past
<1>8. OwnInterrupts'
  <2>1. \A g \in interrupted : g # p /\ g <= spawned'
    BY <1>1 DEF WatchInv, OwnInterrupts, Watcher
  <2> QED BY <1>1, <1>5, <2>1 DEF WatchInv, OwnInterrupts
<1>9. LastIsRegistered'
  <2>1. \A u \in Thread : pc[u] # "addNewHeartBeat"
    BY <1>1 DEF ResourceOwner, Managing
  <2>2. pc'[t] = "addNewHeartBeat"
    BY <1>1
  <2> QED BY <1>1, <1>3, <2>1, <2>2 DEF WatchInv, LastIsRegistered, Watcher
<1> QED BY <1>5, <1>6, <1>7, <1>8, <1>9 DEF WatchInv

(* ... and registers its heartbeat thread.                                 *)
LEMMA AddNewHeartBeatWatchInv ==
  ASSUME SupInv, WatchInv, NEW t \in Thread, AddNewHeartBeat(t)
  PROVE  WatchInv'
<1> USE Distinct
    DEF SupInv, TypeOK, Goto, processVars, Thread
<1> DEFINE w == workerId[spawned]
<1>1. /\ pc[t] = "addNewHeartBeat"
      /\ spawned \in Watcher /\ pc[spawned] = "unborn" /\ spawned # t
      /\ w \in Id /\ activeWorkerPool[w] = spawned /\ heartbeats[w] = None
  BY DEF AddNewHeartBeat, Adds, Ids, Watcher
<1>2. PICK a \in {"create", "notify"} :
        /\ t = Main <=> a = "create"
        /\ heartbeats' = [heartbeats EXCEPT ![w] = spawned]
        /\ pc' = [pc EXCEPT ![t] = a, ![spawned] = "sleep"]
        /\ UNCHANGED <<activeWorkerPool, workerId, interrupted, spawned>>
  BY <1>1 DEF AddNewHeartBeat
<1>3. \A u \in Thread : pc'[u] = IF u = t THEN a ELSE IF u = spawned THEN "sleep" ELSE pc[u]
  BY <1>1, <1>2
<1>4. RegisteredInPool'
  BY <1>1, <1>2 DEF WatchInv, RegisteredInPool
<1>5. Untold' /\ Dismissed' = Dismissed
  <2>1. t \in Watcher \union {Main}
    BY <1>1, Creator
  <2> QED BY <1>1, <1>2, <1>3, <2>1 DEF WatchInv, Untold, Dismissed
<1>6. CurrentInPool'
  BY <1>1, <1>2, <1>3, <1>5 DEF WatchInv, CurrentInPool, Current, Stopping
<1>7. PastNotInPool'
  BY <1>1, <1>2, <1>3 DEF WatchInv, PastNotInPool, Past
<1>8. OwnInterrupts'
  BY <1>1, <1>2, <1>3, <1>5 DEF WatchInv, OwnInterrupts
<1>9. LastIsRegistered'
  BY <1>1, <1>2, <1>3 DEF WatchInv, LastIsRegistered
<1> QED BY <1>4, <1>5, <1>6, <1>7, <1>8, <1>9 DEF WatchInv

(* Every step keeps the invariant of the watchers.                         *)
LEMMA NextWatchInv == SupInv /\ WatchInv /\ [Next]_vars => WatchInv'
<1> SUFFICES ASSUME SupInv, WatchInv, [Next]_vars PROVE WatchInv'
  OBVIOUS
<1>1. CASE UNCHANGED vars
  BY <1>1
  DEF vars, others, heartbeatVars, resourceVars, processVars, masterVars, WatchInv,
      RegisteredInPool, Untold, CurrentInPool, PastNotInPool, OwnInterrupts,
      LastIsRegistered, Dismissed
<1>2. ASSUME NEW g \in Watcher, Watch(g) PROVE WatchInv'
  BY <1>2, WatchingWatchInv, MissingWatchInv DEF Watch
<1>3. ASSUME NEW t \in Thread, Manage(t) PROVE WatchInv'
  BY <1>3, StopWatchInv, DestroyWorkerWatchInv, CreateWorkerWatchInv, AddNewHeartBeatWatchInv
  DEF Manage
<1>4. CASE Misfortune
  BY <1>4, WatchingWatchInv, CreateFailsWatchInv, OthersWatchInv DEF Misfortune
<1> QED BY <1>1, <1>2, <1>3, <1>4, OthersWatchInv DEF Next

(* Every registered heartbeat thread is that of the process in the pool, a *)
(* watcher stops only its own worker unless a handler or stopAllWorkers    *)
(* had one of its id to stop, and once it has taken that worker out of the *)
(* pool it never finds itself there again (heartbeats and activeWorkerPool,*)
(* two maps that no lock keeps in step).                                   *)
THEOREM WatchersAreCurrent == Spec => [](SupInv /\ WatchInv)
BY InitWatchInv, NextWatchInv, Supervised, PTL DEF Spec

(* The failure a watcher acts on is that of the process in the pool, for   *)
(* every id whose worker no handler was told to stop, whatever becomes of  *)
(* the others, and until stopAllWorkers gets to it.                        *)
THEOREM NeverStale == Spec => []NoStaleNotification
<1>1. WatchInv => NoStaleNotification
  BY DEF WatchInv, CurrentInPool, NoStaleNotification, Current, Stopping
<1> QED BY <1>1, WatchersAreCurrent, PTL
-----------------------------------------------------------------------------
(* The workers in the pool whose heartbeat thread has ended, though they   *)
(* were not dismissed.                                                     *)
Silent == {w \in Active \ Dismissed : pc[activeWorkerPool[w]] = "ended"}

SilentCount == Cardinality(Silent) <= faults["io"]

(* An unwatched worker that was not dismissed is a silent one.             *)
LEMMA UnwatchedIsSilent ==
  ASSUME SupInv, WatchInv
  PROVE  Unwatched \ Dismissed \subseteq Silent
<1> SUFFICES ASSUME NEW w \in Unwatched \ Dismissed PROVE w \in Silent
  OBVIOUS
<1> DEFINE p == activeWorkerPool[w]
<1>1. w \in Active /\ w \in Id /\ p \in Watcher /\ p <= spawned /\ workerId[p] = w
  BY DEF Unwatched, Active, SupInv, TypeOK, Pool
<1>2. pc[p] # "died"
  BY <1>1 DEF WatchInv, PastNotInPool, Past
<1>3. ASSUME pc[p] = "unborn" PROVE FALSE
  <2>1. BeingRegistered(w)
    BY <1>1, <1>3 DEF WatchInv, LastIsRegistered, BeingRegistered
  <2> QED BY <2>1 DEF Unwatched
<1> QED BY <1>1, <1>2, <1>3 DEF Unwatched, Silent

(* No worker is silent at first.                                           *)
LEMMA InitSilentCount == Init => SilentCount
<1> SUFFICES ASSUME Init PROVE SilentCount
  OBVIOUS
<1>1. Silent = {} /\ faults["io"] = 0
  BY DEF Init, Silent, Active
<1> QED BY <1>1, FS_EmptySet DEF SilentCount

(* Only a heartbeat socket that fails makes a worker silent: that of one   *)
(* of the watchers, which counts as a fault.                               *)
LEMMA NewSilence ==
  ASSUME SupInv, SupInv', WatchInv, Next
  PROVE  \/ Silent' \subseteq Silent /\ faults'["io"] >= faults["io"]
         \/ \E w \in Id : Silent' \subseteq Silent \union {w}
                          /\ faults'["io"] = faults["io"] + 1
<1> USE Distinct DEF SupInv, TypeOK, Goto, Move, Fault, others, heartbeatVars, resourceVars,
                     processVars, masterVars, Thread
<1>1. ASSUME NEW g \in Watcher,
             SendHeartbeat(g) \/ ReceiveAnswer(g) \/ MissAnswer(g) \/ SuspectWrongly(g)
               \/ HandleMissingHeartbeat(g) \/ NotifyTaskManager(g)
      PROVE  Silent' \subseteq Silent /\ faults'["io"] >= faults["io"]
  <2>1. PICK a \in {"sleep", "receive", "missed", "stop", "forget"} :
          /\ pc' = [pc EXCEPT ![g] = a]
          /\ UNCHANGED <<activeWorkerPool, workerId>>
          /\ faults'["io"] = faults["io"]
    BY <1>1 DEF SendHeartbeat, ReceiveAnswer, MissAnswer, SuspectWrongly,
                HandleMissingHeartbeat, NotifyTaskManager
  <2> QED BY <2>1 DEF Silent, Active, Dismissed
<1>2. ASSUME NEW g \in Watcher, EndHeartbeat(g)
      PROVE  Silent' \subseteq Silent /\ faults'["io"] >= faults["io"]
  <2>1. workerId[g] \in Dismissed
    BY <1>2 DEF EndHeartbeat, WatchInv, OwnInterrupts
  <2>2. \A w \in Active : activeWorkerPool[w] = g => w \in Dismissed
    BY <2>1 DEF Pool
  <2>3. Dismissed' = Dismissed
    BY <1>2 DEF EndHeartbeat, Dismissed
  <2> QED BY <1>2, <2>2, <2>3 DEF EndHeartbeat, Silent, Active
<1>3. ASSUME NEW g \in Watcher, ForgetHeartbeat(g)
      PROVE  Silent' \subseteq Silent /\ faults'["io"] >= faults["io"]
  <2>1. \A w \in Active : activeWorkerPool[w] # g
    <3>1. activeWorkerPool[workerId[g]] # g
      BY <1>3 DEF ForgetHeartbeat, WatchInv, PastNotInPool, Past
    <3> QED BY <3>1 DEF Pool
  <2> QED BY <1>3, <2>1 DEF ForgetHeartbeat, Silent, Active, Dismissed
<1>4. ASSUME NEW g \in Watcher, FailHeartbeat(g)
      PROVE  /\ faults'["io"] = faults["io"] + 1
             /\ \E w \in Id : Silent' \subseteq Silent \union {w}
  <2>1. workerId[g] \in Id
    BY <1>4, IdInUse DEF FailHeartbeat
  <2>2. \A w \in Active : activeWorkerPool[w] = g => w = workerId[g]
    BY DEF Pool
  <2>3. Silent' \subseteq Silent \union {workerId[g]}
    BY <1>4, <2>2 DEF FailHeartbeat, Silent, Active, Dismissed
  <2> QED BY <1>4, <2>1, <2>3 DEF FailHeartbeat
<1>5. ASSUME NEW t \in Thread,
             StopNothing(t) \/ StopWorker(t) \/ StopHeartBeat(t) \/ PauseBeforeKill(t)
               \/ DestroyWorker(t) \/ CreateFails(t)
      PROVE  Silent' \subseteq Silent /\ faults'["io"] >= faults["io"]
  <2>1. PICK a \in {"create", "ended", "stopNext", "stopHeartBeat", "pause", "destroy", "died"} :
          /\ pc' = [pc EXCEPT ![t] = a]
          /\ t \in Watcher => a # "ended"
          /\ UNCHANGED workerId
          /\ faults'["io"] = faults["io"]
          /\ \/ activeWorkerPool' = activeWorkerPool
             \/ activeWorkerPool' = [activeWorkerPool EXCEPT ![workerId[t]] = None]
    <3>1. CASE StopNothing(t) \/ StopWorker(t)
      BY <3>1 DEF StopNothing, StopWorker, AfterStop
    <3>2. CASE StopHeartBeat(t) \/ PauseBeforeKill(t)
      BY <3>2 DEF StopHeartBeat, PauseBeforeKill
    <3>3. CASE DestroyWorker(t)
      BY <3>3 DEF DestroyWorker, AfterStop
    <3>4. CASE CreateFails(t)
      BY <3>4 DEF CreateFails
    <3> QED BY <1>5, <3>1, <3>2, <3>3, <3>4
  <2>2. \A w \in Id : activeWorkerPool'[w] \in {None, activeWorkerPool[w]}
    BY <2>1
  <2>3. \A v \in Watcher : pc'[v] = "ended" => pc[v] = "ended"
    BY <2>1
  <2>4. Dismissed' = Dismissed /\ faults'["io"] = faults["io"] /\ faults["io"] \in Nat
    BY <2>1 DEF Dismissed
  <2>5. ASSUME NEW w \in Silent' PROVE w \in Silent
    <3>1. w \in Id /\ activeWorkerPool[w] = activeWorkerPool'[w] /\ w \notin Dismissed
      BY <2>2, <2>4, <2>5 DEF Silent, Active
    <3>2. activeWorkerPool[w] \in Watcher /\ pc'[activeWorkerPool[w]] = "ended"
      BY <2>5, <3>1 DEF Silent, Active
    <3> QED BY <2>3, <3>1, <3>2, Distinct DEF Silent, Active, Thread
  <2> QED BY <2>4, <2>5
<1>6. ASSUME NEW t \in Thread, CreateWorker(t)
      PROVE  Silent' \subseteq Silent /\ faults'["io"] >= faults["io"]
  <2>1. spawned + 1 \in Watcher /\ pc[spawned + 1] = "unborn" /\ Head(vacantIds) \in Id
    BY <1>6 DEF CreateWorker, Places, Watcher
  <2>2. Dismissed' = Dismissed
    BY <1>6, <2>1 DEF CreateWorker, Dismissed
  <2> QED BY <1>6, <2>1, <2>2 DEF CreateWorker, AboutToCreate, Silent, Active
<1>7. ASSUME NEW t \in Thread, AddNewHeartBeat(t)
      PROVE  Silent' \subseteq Silent /\ faults'["io"] >= faults["io"]
  <2>1. \A g \in Watcher : pc'[g] = "ended" => pc[g] = "ended"
    BY <1>7 DEF AddNewHeartBeat
  <2> QED BY <1>7, <2>1 DEF AddNewHeartBeat, Silent, Active, Dismissed
<1>8. ASSUME RunMain \/ StopServing \/ (\E h \in Handler, w \in Id : HandleRequest(h, w))
               \/ (\E p \in alive : Crash(p))
      PROVE  Silent' \subseteq Silent /\ faults'["io"] >= faults["io"]
  <2>1. /\ \A g \in Watcher : pc'[g] = pc[g]
        /\ UNCHANGED activeWorkerPool /\ faults'["io"] = faults["io"]
    BY <1>8 DEF RunMain, StartServing, StopServing, StopNext, PassVacant, Return,
                HandleRequest, Crash
  <2>2. \A w \in Active : activeWorkerPool[w] \in Watcher
    BY DEF Active
  <2>3. Dismissed \subseteq Dismissed'
    BY <1>8, OthersDismiss
  <2>4. \A w \in Silent' : w \in Silent
    BY <2>1, <2>2, <2>3 DEF Silent, Active
  <2> QED BY <2>1, <2>4
<1> QED BY <1>1, <1>2, <1>3, <1>4, <1>5, <1>6, <1>7, <1>8
    DEF Next, Watch, Manage, Misfortune

(* At most one worker more is silent after each failure of a heartbeat     *)
(* socket, and after no other step.                                        *)
LEMMA NextSilentCount ==
  SupInv /\ SupInv' /\ WatchInv /\ SilentCount /\ [Next]_vars => SilentCount'
<1> SUFFICES ASSUME SupInv, SupInv', WatchInv, SilentCount, [Next]_vars
             PROVE  Cardinality(Silent') <= faults'["io"]
  BY DEF SilentCount
<1>1. IsFiniteSet(Silent)
  BY FiniteActive, FS_Subset DEF Silent
<1>2. Cardinality(Silent) \in Nat /\ faults["io"] \in Nat /\ faults'["io"] \in Nat
  BY <1>1, FS_CardinalityType DEF SupInv, TypeOK
<1>3. CASE UNCHANGED vars
  BY <1>3
  DEF vars, others, heartbeatVars, resourceVars, processVars, masterVars, SilentCount,
      Silent, Active, Dismissed
<1>4. CASE Next
  <2>1. Cardinality(Silent) <= faults["io"]
    BY <1>4, NewSilence DEF SilentCount
  <2>2. CASE Silent' \subseteq Silent /\ faults'["io"] >= faults["io"]
    <3>1. Cardinality(Silent') <= Cardinality(Silent) /\ Cardinality(Silent') \in Nat
      BY <1>1, <2>2, FS_Subset, FS_CardinalityType
    <3> QED BY <1>2, <2>1, <2>2, <3>1
  <2>3. ASSUME NEW w \in Id, Silent' \subseteq Silent \union {w},
               faults'["io"] = faults["io"] + 1
        PROVE  Cardinality(Silent') <= faults'["io"]
    <3>1. /\ IsFiniteSet(Silent \union {w})
          /\ Cardinality(Silent \union {w}) \in {Cardinality(Silent), Cardinality(Silent) + 1}
      BY <1>1, FS_AddElement
    <3>2. Cardinality(Silent') <= Cardinality(Silent \union {w}) /\ Cardinality(Silent') \in Nat
      BY <2>3, <3>1, FS_Subset, FS_CardinalityType
    <3> QED BY <1>2, <2>1, <2>3, <3>1, <3>2
  <2> QED BY <1>4, <2>2, <2>3, NewSilence
<1> QED BY <1>3, <1>4

(* No respawn leaves an unwatched worker behind: but for the workers that  *)
(* were dismissed there are no more than heartbeat sockets have failed.    *)
THEOREM UnwatchedOnlyByIOErrors == Spec => []UnwatchedByIOErrorOnly
<1>1. ASSUME SupInv, WatchInv, SilentCount
      PROVE  UnwatchedByIOErrorOnly
  <2> DEFINE U == Unwatched \ Dismissed
  <2>1. IsFiniteSet(Silent)
    BY <1>1, FiniteActive, FS_Subset DEF Silent
  <2>2. /\ Cardinality(U) <= Cardinality(Silent)
        /\ Cardinality(U) \in Nat /\ Cardinality(Silent) \in Nat
    BY <1>1, <2>1, UnwatchedIsSilent, FS_Subset, FS_CardinalityType
  <2>3. Cardinality(Silent) <= faults["io"] /\ faults["io"] \in Nat
    BY <1>1 DEF SilentCount, SupInv, TypeOK
  <2> QED BY <2>2, <2>3 DEF UnwatchedByIOErrorOnly
<1>2. SupInv /\ WatchInv /\ SilentCount => UnwatchedByIOErrorOnly
  BY <1>1
<1>3. Spec => []SilentCount
  BY InitSilentCount, NextSilentCount, WatchersAreCurrent, PTL DEF Spec
<1> QED BY <1>2, <1>3, WatchersAreCurrent, PTL
=============================================================================
