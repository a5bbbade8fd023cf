--------------------------- MODULE CompletionProofs ---------------------------
(* Theorems about the outcome of a run of TaskAllocation: how often a task *)
(* is executed, however slow the handlers are, and, when none is slower    *)
(* than the replacement of its worker, that tasks are completed by those   *)
(* who have executed them, and that none is forgotten.                     *)
EXTENDS ServerProofs

-----------------------------------------------------------------------------
(* How often a task is executed.  Each failure that is handled is worth    *)
(* two executions: they are spent by the time its handling ends.           *)

(* The processes that execute f, or will when the answer comes. *)
Prospects(f) ==
  {p \in Process :
     \/ client[p] \in {"execute", "store"} /\ task[p] = f
     \/ /\ client[p] \in {"ask", "await"} /\ handler[p] \notin {"report", "mark"}
        /\ ongoingTaskAllocationMap[id[p]] = f}

(* The next to ask gets f. *)
Available(f) == IF f \in TM!Queued \union TM!Moving THEN 1 ELSE 0

(* What the failure that is being handled is still worth: a replacement    *)
(* that may start the task, and the task in the queue again.               *)
Pending ==
  CASE stage \in {"stop", "create"} -> 2
    [] stage = "handBack" /\ pc[Watcher] = "idle" -> 1
    [] OTHER -> 0

Bound(f) ==
  executions[f] + Available(f) + Cardinality(Prospects(f)) + Pending <= 1 + 2 * misses

WorkBound == \A f \in Task : Bound(f)

(* Processes can be counted. *)
LEMMA Sizes ==
  ASSUME NEW D, IsFiniteSet(D), NEW S \in SUBSET D, NEW T \in SUBSET D
  PROVE  /\ Cardinality(S) \in Nat
         /\ T \subseteq S => Cardinality(T) <= Cardinality(S)
         /\ \A e \in D : T \subseteq S \union {e} => Cardinality(T) <= Cardinality(S) + 1
         /\ \A e \in S : T \subseteq S \ {e} => Cardinality(T) + 1 <= Cardinality(S)
<1>1. IsFiniteSet(S) /\ IsFiniteSet(T)
  BY FS_Subset
<1>2. Cardinality(S) \in Nat /\ Cardinality(T) \in Nat
  BY <1>1, FS_CardinalityType
<1>3. T \subseteq S => Cardinality(T) <= Cardinality(S)
  BY <1>1, FS_Subset
<1>4. ASSUME NEW e \in D, T \subseteq S \union {e}
      PROVE  Cardinality(T) <= Cardinality(S) + 1
  <2>1. /\ IsFiniteSet(S \union {e})
        /\ Cardinality(S \union {e}) \in {Cardinality(S), Cardinality(S) + 1}
    BY <1>1, <1>2, FS_AddElement
  <2>2. Cardinality(T) <= Cardinality(S \union {e})
    BY <1>4, <2>1, FS_Subset
  <2> QED BY <1>2, <2>1, <2>2
<1>5. ASSUME NEW e \in S, T \subseteq S \ {e}
      PROVE  Cardinality(T) + 1 <= Cardinality(S)
  <2>1. IsFiniteSet(S \ {e}) /\ Cardinality(S \ {e}) = Cardinality(S) - 1
    BY <1>1, FS_RemoveElement
  <2>2. Cardinality(T) <= Cardinality(S \ {e})
    BY <1>5, <2>1, FS_Subset
  <2> QED BY <1>2, <2>1, <2>2
<1> QED BY <1>2, <1>3, <1>4, <1>5

(* There are finitely many processes.                                      *)
LEMMA FiniteProcesses == IsFiniteSet(Process)
BY NoneIsNothing, FS_Interval DEF Process

(* The same, for the sets that are counted. *)
LEMMA Counts ==
  /\ Pending \in 0 .. 2
  /\ \A f : /\ Available(f) \in 0 .. 1
            /\ Cardinality(Prospects(f)) \in Nat /\ Cardinality(Prospects(f)') \in Nat
            /\ Prospects(f)' \subseteq Prospects(f) =>
                 Cardinality(Prospects(f)') <= Cardinality(Prospects(f))
<1>1. \A f : Prospects(f) \in SUBSET Process /\ Prospects(f)' \in SUBSET Process
  BY DEF Prospects
<1>2. \A f : Available(f) \in 0 .. 1
  BY DEF Available
<1>3. Pending \in 0 .. 2
  BY DEF Pending
<1> QED BY <1>1, <1>2, <1>3, FiniteProcesses, Sizes

(* A step that gains no prospects keeps the bound. *)
LEMMA NoGain ==
  ASSUME Types, WorkBound,
         executions' = executions, misses' = misses,
         (TM!Queued \union TM!Moving)' \subseteq TM!Queued \union TM!Moving,
         \A f \in Task : Prospects(f)' \subseteq Prospects(f),
         Pending' \in Nat, Pending' <= Pending
  PROVE  WorkBound'
<1> SUFFICES ASSUME NEW f \in Task PROVE Bound(f)'
  BY DEF WorkBound
<1>1. Available(f)' \in 0 .. 1 /\ Available(f)' <= Available(f)
  BY DEF Available
<1>2. executions[f] \in Nat /\ misses \in Nat
  BY DEF Types
<1>3. Bound(f)
  BY DEF WorkBound
<1>4. Prospects(f)' \subseteq Prospects(f)
  OBVIOUS
<1> HIDE DEF Prospects, Pending, Available
<1> QED BY <1>1, <1>2, <1>3, <1>4, Counts DEF Bound

(* The client, but for the end of an execution, and the accept. *)
LEMMA WorkKeepsBound ==
  ASSUME Wired, WorkBound, NEW p \in Process,
         Request(p) \/ OpenOutput(p) \/ Leave(p) \/ Accept(p) \/ AcceptBroken(p)
  PROVE  WorkBound'
<1> USE DEF Wired, Local, Types, processVars, watchVars
<1>1. /\ UNCHANGED <<taskVars, task, processVars, executions>>
      /\ \A q \in Process : q # p => client'[q] = client[q] /\ handler'[q] = handler[q]
      /\ client'[p] \in {"unborn", "dead"} <=> client[p] \in {"unborn", "dead"}
      /\ client'[p] \in {"execute", "store"} => client[p] \in {"execute", "store"}
      /\ client'[p] \in {"ask", "await"} /\ handler'[p] \notin {"report", "mark"} =>
           client[p] \in {"ask", "await"} /\ handler[p] \notin {"report", "mark"}
  <2>1. CASE Request(p)
    BY <2>1 DEF Request, files
  <2>2. CASE OpenOutput(p)
    BY <2>2 DEF OpenOutput, AfterTruncation, files
  <2>3. CASE Leave(p)
    BY <2>3 DEF Leave, Fault, files
  <2>4. CASE Accept(p)
    BY <2>4 DEF Accept, FirstStep, files
  <2>5. CASE AcceptBroken(p)
    BY <2>5 DEF AcceptBroken, Alive, files
  <2> QED BY <2>1, <2>2, <2>3, <2>4, <2>5
<1>2. \A f \in Task : Prospects(f)' \subseteq Prospects(f)
  BY <1>1 DEF Prospects, taskVars, processVars
<1>3. Pending' = Pending
  BY <1>1 DEF Pending, taskVars, processVars
<1>4. (TM!Queued \union TM!Moving)' = TM!Queued \union TM!Moving
  BY <1>1 DEF TM!Queued, TM!Moving, taskVars
<1> QED BY <1>1, <1>2, <1>3, <1>4, NoGain, Counts

(* The threads that wait. *)
LEMMA WaitingKeepsBound ==
  ASSUME Wired, WorkBound, Waiting
  PROVE  WorkBound'
<1>1. UNCHANGED <<taskVars, handler, client, task, id, stage, misses, executions>>
  BY WaitingIsQuiet DEF files
<1>2. \A f \in Task : Prospects(f)' = Prospects(f)
  BY <1>1 DEF Prospects, taskVars
<1>3. Pending' = Pending
  BY <1>1 DEF Pending, taskVars
<1>4. (TM!Queued \union TM!Moving)' = TM!Queued \union TM!Moving
  BY <1>1 DEF TM!Queued, TM!Moving, taskVars
<1> QED BY <1>1, <1>2, <1>3, <1>4, NoGain, Counts DEF Wired, Local

(* An execution ends: it was in prospect. *)
LEMMA StoreKeepsBound ==
  ASSUME Wired, WorkBound, ~PortTaken, NEW p \in Process, StoreWordCount(p) \/ StoreFails(p)
  PROVE  WorkBound'
<1> USE DEF Wired, Local, Types
<1>1. /\ UNCHANGED <<taskVars, handler, task, processVars>>
      /\ client[p] = "store" /\ client' = [client EXCEPT ![p] = "report"]
      /\ task[p] \in Task
      /\ executions' = [executions EXCEPT ![task[p]] = @ + 1]
  BY DEF StoreWordCount, StoreFails, Executed
<1>2. ASSUME NEW f \in Task
      PROVE  Prospects(f)' \subseteq (IF f = task[p] THEN Prospects(f) \ {p} ELSE Prospects(f))
  BY <1>1 DEF Prospects, taskVars, processVars
<1>3. p \in Prospects(task[p])
  BY <1>1 DEF Prospects
<1>4. Pending' = Pending
  BY <1>1 DEF Pending, taskVars, processVars
<1>5. \A f : Available(f)' = Available(f)
  BY <1>1 DEF Available, TM!Queued, TM!Moving, taskVars
<1> SUFFICES ASSUME NEW f \in Task PROVE Bound(f)'
  BY DEF WorkBound
<1>6. /\ executions[f] \in Nat /\ misses \in Nat /\ misses' = misses
      /\ executions'[f] = IF f = task[p] THEN executions[f] + 1 ELSE executions[f]
  BY <1>1 DEF processVars, watchVars
<1>7. Bound(f)
  BY DEF WorkBound
<1> HIDE DEF Wired, Local, Types, Prospects, Pending, Available
<1>8. CASE f = task[p]
  <2>1. Cardinality(Prospects(f)') + 1 <= Cardinality(Prospects(f))
    <3>1. Prospects(f) \in SUBSET Process /\ Prospects(f)' \in SUBSET Process
      BY DEF Prospects
    <3> QED BY <1>2, <1>3, <1>8, <3>1, FiniteProcesses, Sizes
  <2> QED BY <1>4, <1>5, <1>6, <1>7, <1>8, <2>1, Counts DEF Bound
<1>9. CASE f # task[p]
  BY <1>2, <1>4, <1>5, <1>6, <1>7, <1>9, Counts DEF Bound
<1> QED BY <1>8, <1>9

(* A worker that is stopped has nothing in prospect. *)
LEMMA KillKeepsBound ==
  ASSUME Wired, WorkBound, NEW w \in Id, Kill(w), WP!Remove(w),
         UNCHANGED <<taskVars, id, failed, task, executions, misses>>,
         \/ UNCHANGED handler
         \/ \E p \in Process : handler' = [handler EXCEPT ![p] = "none"] /\ handler[p] = "stop",
         \/ stage' = stage
         \/ stage = "stop" /\ stage' = "create" /\ failed = w
  PROVE  WorkBound'
<1> DEFINE q == activeWorkerPool[w]
<1>1. /\ q # None /\ client' = [client EXCEPT ![q] = "dead"]
      /\ activeWorkerPool' = [activeWorkerPool EXCEPT ![w] = None]
  BY KillEffect
<1>2. q \in Process /\ id[q] = w
  BY <1>1 DEF Wired, Local, Types, Wiring, Pooled
<1>3. \A p \in Process : client'[p] \in {client[p], "dead"} /\ (p # q => client'[p] = client[p])
  BY <1>1, <1>2 DEF Wired, Local, Types
<1>4. \A f \in Task : Prospects(f)' \subseteq Prospects(f)
  <2>1. \A p \in Process : handler[p] \in {"report", "mark"} => handler'[p] = handler[p]
    BY DEF Wired, Local, Types
  <2> QED BY <1>3, <2>1 DEF Prospects, taskVars
<1>5. Pending' = Pending
  BY DEF Pending, taskVars
<1>6. (TM!Queued \union TM!Moving)' = TM!Queued \union TM!Moving
  BY DEF TM!Queued, TM!Moving, taskVars
<1> QED BY <1>4, <1>5, <1>6, NoGain, Counts DEF Wired, Local

(* The handler of a request. *)
LEMMA HandleKeepsBound ==
  ASSUME Wired, Wired', WorkBound, NEW p \in Process, Handle(p)
  PROVE  WorkBound'
<1>0. Local /\ Wiring /\ Types /\ TMP!TaskConservation' /\ Linked /\ Waits
  BY DEF Wired, Local, Wiring
<1>1. CASE Mark(p)
  <2>1. \A f \in Task : Prospects(f)' \subseteq Prospects(f)
    <3>1. /\ UNCHANGED <<client, task, id>> /\ id[p] \in Id
          /\ client[p] \notin {"ask", "execute", "store"}
          /\ handler' = [handler EXCEPT ![p] = "check"] /\ handler[p] = "mark"
          /\ ongoingTaskAllocationMap' = [ongoingTaskAllocationMap EXCEPT ![id[p]] = None]
      BY <1>0, <1>1, MarkEffect DEF Waits, processVars
    <3>2. \A q \in Process : client[q] \in {"ask", "await"} => id[q] \in Id
      BY <1>0, LocalDomains
    <3>3. ongoingTaskAllocationMap \in [Id -> Task \union {None}]
      BY <1>0, LocalDomains
    <3> QED BY <1>0, <3>1, <3>2, <3>3, NoneIsNothing DEF Prospects, Types
  <2>2. Pending' = Pending /\ UNCHANGED <<misses, executions>>
    BY <1>0, <1>1, MarkEffect DEF Pending, processVars, watchVars, files
  <2>3. (TM!Queued \union TM!Moving)' = TM!Queued \union TM!Moving
    BY <1>0, <1>1, MarkEffect DEF TM!Queued, TM!Moving
  <2> QED BY <1>0, <2>1, <2>2, <2>3, NoGain, Counts
<1>2. CASE CheckFirstRead(p) \/ CheckSecondRead(p)
  <2>1. /\ handler[p] = "check" /\ \A q \in Process : q # p => handler'[q] = handler[q]
        /\ pc'[Watcher] = pc[Watcher]
        /\ UNCHANGED <<incompleteTasks, ongoingTaskAllocationMap, inputFile,
                       client, task, processVars, executions, faults>>
    <3>1. Watcher \in Thread /\ Watcher # p
      BY NoneIsNothing DEF Thread
    <3>2. /\ handler[p] = "check" /\ \A t \in Thread : t # p => pc'[t] = pc[t]
          /\ \E a \in {"check", "query", "stop"} : handler' = [handler EXCEPT ![p] = a]
          /\ UNCHANGED <<incompleteTasks, ongoingTaskAllocationMap, inputFile,
                         client, task, processVars, files, faults>>
      BY <1>0, <1>2, CheckEffect
    <3> QED BY <3>1, <3>2 DEF files
  <2>2. \A f \in Task : Prospects(f)' \subseteq Prospects(f)
    BY <2>1 DEF Prospects, processVars
  <2>3. Pending' = Pending /\ misses' = misses
    BY <2>1 DEF Pending, processVars, watchVars
  <2>4. (TM!Queued \union TM!Moving)' = TM!Queued \union TM!Moving
    BY <2>1 DEF TM!Queued, TM!Moving
  <2> QED BY <1>0, <2>1, <2>2, <2>3, <2>4, NoGain, Counts
<1>3. CASE StopWorker(p)
  <2>1. /\ handler[p] = "stop" /\ handler' = [handler EXCEPT ![p] = "none"] /\ id[p] \in Id
        /\ UNCHANGED <<taskVars, id, task, executions, misses>>
    BY <1>0, <1>3, StopWorkerEffect DEF files
  <2>2. CASE Kill(id[p]) /\ WP!Remove(id[p]) /\ UNCHANGED <<failed, stage>>
    BY <2>1, <2>2, KillKeepsBound
  <2>3. CASE UNCHANGED <<client, processVars>>
    <3>1. \A f \in Task : Prospects(f)' \subseteq Prospects(f)
      <4>1. client[p] \notin {"ask", "execute", "store"}
        BY <1>0, <2>1 DEF Waits
      <4> QED BY <1>0, <2>1, <2>3, <4>1 DEF Prospects, taskVars, Types
    <3>2. Pending' = Pending
      BY <2>1, <2>3 DEF Pending, processVars, taskVars
    <3>3. (TM!Queued \union TM!Moving)' = TM!Queued \union TM!Moving
      BY <2>1 DEF TM!Queued, TM!Moving, taskVars
    <3> QED BY <1>0, <2>1, <3>1, <3>2, <3>3, NoGain, Counts
  <2> QED BY <1>0, <1>3, <2>2, <2>3, StopWorkerEffect
<1>4. CASE QueryAvailable(p) \/ Allocate(p)
  <2>1. /\ handler[p] \in {"query", "allocate"}
        /\ UNCHANGED <<processVars, misses, executions>>
        /\ \A q \in Process : q # p => /\ client'[q] = client[q] /\ handler'[q] = handler[q]
                                       /\ task'[q] = task[q]
        /\ client'[p] \in {client[p], "execute", "ask"}
        /\ client[p] # "await" => client'[p] = client[p]
        /\ client[p] \notin {"ask", "execute", "store"}
        /\ handler'[p] \notin {"report", "mark"}
    BY <1>0, <1>4, AllocateEffect
    DEF QueryAvailable, AnswerTask, AnswerWait, AllocateSameEffect, AllocatePollEffect,
        AllocatePutEffect, files, Waits, Types, processVars, watchVars
  <2>2. CASE QueryAvailable(p) \/ AllocateSameEffect(p) \/ (AnswerWait(p) /\ UNCHANGED taskVars)
    <3>1. /\ UNCHANGED taskVars
          /\ client'[p] = "execute" => /\ client[p] = "await"
                                       /\ task'[p] = ongoingTaskAllocationMap[id[p]]
      BY <1>0, <2>1, <2>2
      DEF QueryAvailable, AnswerWait, AnswerTask, AllocateSameEffect, Types
    <3>2. \A f \in Task : Prospects(f)' \subseteq Prospects(f)
      BY <2>1, <3>1 DEF Prospects, taskVars, processVars
    <3>3. Pending' = Pending
      BY <2>1, <3>1 DEF Pending, processVars, taskVars
    <3>4. (TM!Queued \union TM!Moving)' = TM!Queued \union TM!Moving
      BY <3>1 DEF TM!Queued, TM!Moving, taskVars
    <3> QED BY <1>0, <2>1, <3>2, <3>3, <3>4, NoGain, Counts
  <2>3. CASE AllocatePollEffect(p)
    <3>1. \A f \in Task : Prospects(f)' \subseteq Prospects(f)
      BY <2>1, <2>3 DEF AllocatePollEffect, Prospects, processVars
    <3>2. Pending' = Pending
      BY <1>0, <2>1, <2>3, LocalDomains, NoneIsNothing
      DEF AllocatePollEffect, Pending, processVars, Thread
    <3>3. (TM!Queued \union TM!Moving)' \subseteq TM!Queued \union TM!Moving
      <4>1. /\ incompleteTasks \in Seq(Task) /\ incompleteTasks # <<>>
            /\ NoRepetition(incompleteTasks)
        BY <1>0, <2>3, LocalDomains
        DEF AllocatePollEffect, Wired, TMP!TaskConservation, NoRepetition
      <4>2. /\ TM!Queued = Elements(incompleteTasks) /\ Head(incompleteTasks) \in TM!Queued
            /\ TM!Queued' \subseteq TM!Queued
        BY <2>3, <4>1, PollElements DEF AllocatePollEffect, TM!Queued, Elements
      <4>3. TM!Moving' \subseteq TM!Moving \union {Head(incompleteTasks)}
        BY <1>0, <2>3, LocalDomains DEF AllocatePollEffect, TM!Moving
      <4> QED BY <4>2, <4>3
    <3> QED BY <1>0, <2>1, <3>1, <3>2, <3>3, NoGain, Counts
  <2>4. CASE AllocatePutEffect(p)
    <3> DEFINE w == id[p]
    <3>0. PICK g \in Task : g = inputFile[p]
      BY <2>4 DEF AllocatePutEffect
    <3>1. /\ w \in Id /\ g \in Task /\ workerId[p] = w
          /\ ongoingTaskAllocationMap' = [ongoingTaskAllocationMap EXCEPT ![w] = g]
          /\ client'[p] = "execute" => task'[p] = g
          /\ client'[p] # "ask"
      <4>1. w \in Id /\ g \in Task /\ workerId[p] = w
        BY <1>0, <2>1, <2>4, <3>0, LocalDomains DEF AllocatePutEffect, Linked
      <4> QED BY <1>0, <2>1, <2>4, <3>0, <4>1 DEF AllocatePutEffect, AnswerTask, Types
    <3>2. pc'[Watcher] = pc[Watcher]
      BY <1>0, <2>4, NoneIsNothing DEF AllocatePutEffect, Thread
    <3>3. ongoingTaskAllocationMap \in [Id -> Task \union {None}]
      BY <1>0, LocalDomains
    <3>4. TM!Queued' = TM!Queued /\ TM!Moving' \subseteq TM!Moving
      BY <1>0, <2>4, LocalDomains DEF AllocatePutEffect, TM!Queued, TM!Moving
    <3>5. g \in TM!Moving
      BY <3>0, NoneIsNothing DEF TM!Moving, Thread
    <3>6. g \notin (TM!Queued \union TM!Moving)'
      <4>1. g \in TMP!Ongoing'
        BY <3>1, <3>3, NoneIsNothing DEF TMP!Ongoing
      <4> QED BY <1>0, <4>1
          DEF TMP!TaskConservation, TM!Queued, TM!Moving, TMP!Queued, TMP!Moving
    <3>7. \A f \in Task : f # g => Prospects(f)' \subseteq Prospects(f)
      <4>1. \A q \in Process : client'[q] \in {"ask", "await"} => id[q] \in Id
        BY <1>0, <2>1, LocalDomains
      <4> QED BY <2>1, <3>1, <3>3, <4>1, NoneIsNothing DEF Prospects, processVars
    <3>8. \E e \in Process : Prospects(g)' \subseteq Prospects(g) \union {e}
      <4>1. \A q \in Process : client'[q] \in {"ask", "await", "execute", "store"} =>
                                 activeWorkerPool[id[q]] = q /\ id[q] \in Id
        <5>1. \A q \in Process :
                client'[q] \in {"ask", "await", "execute", "store"} => Alive(q)
          BY <2>1 DEF Alive
        <5> QED BY <1>0, <5>1, LocalDomains DEF Wiring, Pooled, Alive
      <4>2. \A q \in Process : q \in Prospects(g)' /\ q \notin Prospects(g) => id[q] = w
        <5> SUFFICES ASSUME NEW q \in Process, q # p, q \in Prospects(g)', q \notin Prospects(g)
                     PROVE  id[q] = w
          OBVIOUS
        <5>1. ongoingTaskAllocationMap'[id[q]] = g /\ ongoingTaskAllocationMap[id[q]] # g
          BY <2>1 DEF Prospects, processVars
        <5>2. id[q] \in Id
          BY <2>1, <4>1 DEF Prospects
        <5> QED BY <3>1, <3>3, <5>1, <5>2
      <4>3. \A q \in Process : q \in Prospects(g)' /\ q \notin Prospects(g) =>
                                 q = activeWorkerPool[w]
        <5>1. \A q \in Process :
                q \in Prospects(g)' => client'[q] \in {"ask", "await", "execute", "store"}
          BY DEF Prospects
        <5> QED BY <4>1, <4>2, <5>1
      <4>4. Prospects(g)' \subseteq Process
        BY DEF Prospects
      <4>5. CASE activeWorkerPool[w] \in Process
        BY <4>3, <4>4, <4>5
      <4>6. CASE activeWorkerPool[w] \notin Process
        BY <4>3, <4>4, <4>6
      <4> QED BY <4>5, <4>6
    <3>9. ASSUME NEW f \in Task PROVE Bound(f)'
      <4>1. executions[f] \in Nat /\ misses \in Nat /\ UNCHANGED <<executions, misses>>
        BY <1>0, <2>1 DEF Types
      <4>2. Bound(f)
        BY DEF WorkBound
      <4>3. Pending' = Pending
        BY <2>1, <3>2 DEF Pending, processVars
      <4>4. CASE f = g
        <5>1. Available(f) = 1 /\ Available(f)' = 0
          BY <3>5, <3>6, <4>4 DEF Available
        <5>2. Cardinality(Prospects(f)') <= Cardinality(Prospects(f)) + 1
          <6>1. Prospects(f) \in SUBSET Process /\ Prospects(f)' \in SUBSET Process
            BY DEF Prospects
          <6>2. PICK e \in Process : Prospects(f)' \subseteq Prospects(f) \union {e}
            BY <3>8, <4>4
          <6> QED BY <6>1, <6>2, FiniteProcesses, Sizes
        <5> HIDE DEF Prospects, Pending, Available, w
        <5> QED BY <4>1, <4>2, <4>3, <5>1, <5>2, Counts DEF Bound
      <4>5. CASE f # g
        <5>1. Available(f)' <= Available(f) /\ Available(f)' \in 0 .. 1
          BY <3>4 DEF Available
        <5>2. Prospects(f)' \subseteq Prospects(f)
          BY <3>7, <4>5
        <5> HIDE DEF Prospects, Pending, Available, w
        <5> QED BY <4>1, <4>2, <4>3, <5>1, <5>2, Counts DEF Bound
      <4> QED BY <4>4, <4>5
    <3> QED BY <3>9 DEF WorkBound
  <2> QED BY <1>0, <1>4, <2>2, <2>3, <2>4, AllocateEffect
<1>5. CASE EnterStopWorker(p)
  BY <1>5, WaitingKeepsBound DEF Waiting
<1> QED BY <1>1, <1>2, <1>3, <1>4, <1>5 DEF Handle

(* The main thread. *)
LEMMA ServeKeepsBound ==
  ASSUME Wired, WorkBound, Serve
  PROVE  WorkBound'
<1>0. Local /\ Wiring /\ Types
  BY DEF Wired, Local
<1>1. CASE StopNext
  <2>1. PICK w \in Id : Kill(w) /\ WP!Remove(w)
    BY <1>1, StopNextEffect
  <2> QED BY <1>1, <2>1, StopNextEffect, KillKeepsBound DEF files
<1>2. CASE \/ Open \/ OpenFails \/ LoopFirstRead \/ LoopSecondRead \/ AcceptTimeout
           \/ PassVacant \/ Return
  <2>1. /\ \A t \in Thread : t # Main => pc'[t] = pc[t]
        /\ UNCHANGED <<incompleteTasks, ongoingTaskAllocationMap, inputFile,
                       handler, client, task, processVars, files>>
    BY <1>0, <1>2, ServeEffect
  <2>2. pc'[Watcher] = pc[Watcher] /\ UNCHANGED <<executions, misses>>
    BY <2>1, NoneIsNothing DEF Thread, files, processVars, watchVars
  <2>3. Pending' = Pending /\ \A f \in Task : Prospects(f)' = Prospects(f)
    BY <2>1, <2>2 DEF Pending, Prospects, processVars
  <2>4. (TM!Queued \union TM!Moving)' = TM!Queued \union TM!Moving
    BY <2>1 DEF TM!Queued, TM!Moving
  <2> QED BY <1>0, <2>2, <2>3, <2>4, NoGain, Counts
<1>3. CASE EnterStopNext
  BY <1>3, WaitingKeepsBound DEF Waiting
<1> QED BY <1>1, <1>2, <1>3 DEF Serve

(* A crash gains nothing, and a miss that is handled pays for its          *)
(* consequences: ...                                                       *)
LEMMA LossKeepsBound ==
  ASSUME Wired, WorkBound, NEW p \in Process, Crash(p) \/ Notice(p)
  PROVE  WorkBound'
<1>0. Local /\ Wiring /\ Types
  BY DEF Wired, Local
<1>1. UNCHANGED <<taskVars, handler, task, id, executions>>
  BY <1>0, LossEffect DEF files
<1>2. \A q \in Process : client'[q] \in {client[q], "dead"}
  BY <1>0, LossEffect DEF Types
<1>3. ASSUME NEW f \in Task
      PROVE  /\ Prospects(f)' \subseteq Prospects(f)
             /\ Available(f)' = Available(f)
  BY <1>1, <1>2 DEF Prospects, Available, TM!Queued, TM!Moving, taskVars
<1>4. /\ Pending \in 0 .. 2 /\ Pending' \in 0 .. 2
      /\ misses \in Nat /\ misses' \in Nat
      /\ Pending' + 2 * misses <= Pending + 2 * misses'
  <2>1. CASE Crash(p)
    <3>1. UNCHANGED <<stage, misses>>
      BY <2>1 DEF Crash, WP!Die, WP!failureVars, watchVars
    <3>2. Pending' = Pending
      BY <1>1, <3>1 DEF Pending, taskVars
    <3> QED BY <1>0, <3>1, <3>2, Counts DEF Types
  <2>2. CASE Notice(p)
    <3>1. failed = None /\ stage' = "stop" /\ misses' = misses + 1
      BY <2>2 DEF Notice, WP!Notice
    <3>2. Pending = 0 /\ Pending' = 2
      BY <1>0, <3>1 DEF Pending, Wiring, Pooled
    <3> QED BY <1>0, <3>1, <3>2 DEF Types
  <2> QED BY <2>1, <2>2
<1> SUFFICES ASSUME NEW f \in Task PROVE Bound(f)'
  BY DEF WorkBound
<1>5. executions[f] \in Nat /\ executions' = executions /\ Bound(f)
  BY <1>0, <1>1 DEF Types, WorkBound
<1>6. /\ Cardinality(Prospects(f)) \in Nat /\ Cardinality(Prospects(f)') \in Nat
      /\ Cardinality(Prospects(f)') <= Cardinality(Prospects(f))
      /\ Available(f)' = Available(f) /\ Available(f) \in 0 .. 1
  BY <1>3, Counts
<1>7. /\ Pending \in Nat /\ Pending' \in Nat /\ Available(f) \in Nat
      /\ executions'[f] = executions[f]
  BY <1>4, <1>5, <1>6
<1>8. \A e, a, c, d, k, l, m, n \in Nat :
        e + a + c + k <= 1 + 2 * m /\ d <= c /\ l + 2 * m <= k + 2 * n =>
          e + a + d + l <= 1 + 2 * n
  OBVIOUS
<1> HIDE DEF Pending, Prospects, Available
<1>9. executions[f] + Available(f) + Cardinality(Prospects(f)') + Pending' <= 1 + 2 * misses'
  BY <1>4, <1>5, <1>6, <1>7, <1>8 DEF Bound
<1> QED BY <1>6, <1>7, <1>9 DEF Bound

(* ... the replacement, which may start the task of the id it gets, ... *)
LEMMA ReplaceKeepsBound ==
  ASSUME Wired, WorkBound, Replace
  PROVE  WorkBound'
<1>0. Local /\ Wiring /\ Types
  BY DEF Wired, Local
<1> DEFINE q == spawned + 1
           v == Head(vacantIds)
<1>1. /\ q \in Process /\ v \in Id /\ client[q] = "unborn" /\ stage = "create"
      /\ stage' = "handBack"
      /\ client' = [client EXCEPT ![q] = "ask"] /\ id' = [id EXCEPT ![q] = v]
      /\ activeWorkerPool' = [activeWorkerPool EXCEPT ![v] = q]
      /\ UNCHANGED <<taskVars, handler, task, failed, misses, executions>>
  BY <1>0, ReplaceEffect DEF files
<1>2. Pending = 2 /\ Pending' = 1
  BY <1>0, <1>1 DEF Pending, Wiring, Linked, taskVars
<1> SUFFICES ASSUME NEW f \in Task PROVE Bound(f)'
  BY DEF WorkBound
<1>3. Prospects(f)' \subseteq Prospects(f) \union {q}
  BY <1>0, <1>1 DEF Prospects, taskVars, Types
<1>4. Cardinality(Prospects(f)') <= Cardinality(Prospects(f)) + 1
  <2>1. Prospects(f) \in SUBSET Process /\ Prospects(f)' \in SUBSET Process
    BY DEF Prospects
  <2> QED BY <1>1, <1>3, <2>1, FiniteProcesses, Sizes
<1>5. Available(f)' = Available(f)
  BY <1>1 DEF Available, TM!Queued, TM!Moving, taskVars
<1>6. executions[f] \in Nat /\ misses \in Nat /\ UNCHANGED <<executions, misses>>
  BY <1>0, <1>1 DEF Types
<1>7. Bound(f)
  BY DEF WorkBound
<1> HIDE DEF Pending, Prospects, Available, q, v
<1> QED BY <1>2, <1>4, <1>5, <1>6, <1>7, Counts DEF Bound

(* ... and the task, which is queued again.                             *)
LEMMA DeallocateKeepsBound ==
  ASSUME Wired, WorkBound, Deallocate
  PROVE  WorkBound'
<1>0. Local /\ Wiring /\ Types
  BY DEF Wired, Local
<1>1. /\ stage = "handBack" /\ failed \in Id /\ Watcher \in Thread
      /\ UNCHANGED <<activeWorkerPool, handler, client, task, id, misses, executions>>
  BY <1>0, DeallocateEffect
  DEF DeallocateRemoveEffect, DeallocateAddEffect, files, processVars, Thread
<1>2. DOMAIN pc = Thread /\ DOMAIN inputFile = Thread
  BY <1>0, LocalDomains
<1>3. CASE UNCHANGED taskVars /\ stage' = "none"
  <2>1. Pending' = 0
    BY <1>3 DEF Pending
  <2>2. \A f \in Task : Prospects(f)' = Prospects(f)
    BY <1>1, <1>3 DEF Prospects, taskVars
  <2>3. (TM!Queued \union TM!Moving)' = TM!Queued \union TM!Moving
    BY <1>3 DEF TM!Queued, TM!Moving, taskVars
  <2> QED BY <1>0, <1>1, <2>1, <2>2, <2>3, NoGain, Counts
<1>4. CASE DeallocateAddEffect
  <2>1. Pending' = 0
    BY <1>4 DEF Pending, DeallocateAddEffect
  <2>2. \A f \in Task : Prospects(f)' = Prospects(f)
    BY <1>1, <1>4 DEF Prospects, DeallocateAddEffect
  <2>3. (TM!Queued \union TM!Moving)' \subseteq TM!Queued \union TM!Moving
    <3>1. incompleteTasks \in Seq(Task) /\ inputFile[Watcher] \in Task
      BY <1>0, <1>4, LocalDomains DEF DeallocateAddEffect
    <3>2. Elements(Append(incompleteTasks, inputFile[Watcher]))
            = Elements(incompleteTasks) \union {inputFile[Watcher]}
      BY <3>1, AddElements
    <3>3. incompleteTasks' = Append(incompleteTasks, inputFile[Watcher])
      BY <1>4 DEF DeallocateAddEffect
    <3>4. TM!Queued = Elements(incompleteTasks) /\ TM!Queued' = Elements(incompleteTasks')
      BY DEF TM!Queued, Elements
    <3>5. TM!Queued' = TM!Queued \union {inputFile[Watcher]}
      BY <3>2, <3>3, <3>4
    <3>6. inputFile[Watcher] \in TM!Moving
      BY <1>1, <3>1, NoneIsNothing DEF TM!Moving
    <3>7. TM!Moving' \subseteq TM!Moving
      BY <1>2, <1>4 DEF DeallocateAddEffect, TM!Moving
    <3> QED BY <3>5, <3>6, <3>7
  <2> QED BY <1>0, <1>1, <2>1, <2>2, <2>3, NoGain, Counts
<1>5. CASE DeallocateRemoveEffect
  <2>1. Pending = 1 /\ Pending' = 0
    BY <1>1, <1>2, <1>5 DEF Pending, DeallocateRemoveEffect, processVars
  <2>2. \A f \in Task : Prospects(f)' \subseteq Prospects(f)
    <3>1. \A p \in Process : client[p] \in {"ask", "await"} => id[p] \in Id
      BY <1>0, LocalDomains
    <3>2. ongoingTaskAllocationMap \in [Id -> Task \union {None}]
      BY <1>0, LocalDomains
    <3> QED BY <1>1, <1>5, <3>1, <3>2, NoneIsNothing DEF Prospects, DeallocateRemoveEffect
  <2> SUFFICES ASSUME NEW f \in Task PROVE Bound(f)'
    BY DEF WorkBound
  <2>3. Available(f) \in 0 .. 1 /\ Available(f)' \in 0 .. 1
    BY DEF Available
  <2>4. executions[f] \in Nat /\ misses \in Nat /\ UNCHANGED <<executions, misses>>
    BY <1>0, <1>1 DEF Types
  <2>5. Bound(f) /\ Prospects(f)' \subseteq Prospects(f)
    BY <2>2 DEF WorkBound
  <2> HIDE DEF Pending, Prospects, Available
  <2> QED BY <2>1, <2>3, <2>4, <2>5, Counts DEF Bound
<1> QED BY <1>0, <1>3, <1>4, <1>5, DeallocateEffect

(* A worker that has failed is stopped, or cannot be replaced. *)
LEMMA StopFailedKeepsBound ==
  ASSUME Wired, WorkBound, StopFailed \/ ReplaceFails
  PROVE  WorkBound'
<1>0. Local /\ Wiring /\ Types
  BY DEF Wired, Local
<1>1. CASE StopFailed
  <2>1. /\ stage = "stop" /\ stage' = "create" /\ failed \in Id
        /\ UNCHANGED <<taskVars, handler, task, id, failed, misses, executions>>
    BY <1>0, <1>1, StopFailedEffect DEF files
  <2>2. CASE Kill(failed) /\ WP!Remove(failed)
    BY <2>1, <2>2, KillKeepsBound
  <2>3. CASE activeWorkerPool[failed] = None /\ UNCHANGED <<client, activeWorkerPool>>
    <3>1. \A f \in Task : Prospects(f)' = Prospects(f)
      BY <2>1, <2>3 DEF Prospects, taskVars
    <3>2. Pending' = 2 /\ Pending = 2
      BY <2>1 DEF Pending
    <3>3. (TM!Queued \union TM!Moving)' = TM!Queued \union TM!Moving
      BY <2>1 DEF TM!Queued, TM!Moving, taskVars
    <3> QED BY <1>0, <2>1, <3>1, <3>2, <3>3, NoGain
  <2> QED BY <1>0, <1>1, <2>2, <2>3, StopFailedEffect
<1>2. CASE ReplaceFails
  <2>1. /\ stage = "create" /\ stage' = "none" /\ UNCHANGED <<executions, misses>>
        /\ UNCHANGED <<taskVars, handler, client, task, id>>
    BY <1>0, <1>2, ReplaceFailsEffect DEF files, watchVars
  <2>2. \A f \in Task : Prospects(f)' = Prospects(f)
    BY <2>1 DEF Prospects, taskVars
  <2>3. Pending' = 0 /\ Pending = 2
    BY <2>1 DEF Pending
  <2>4. (TM!Queued \union TM!Moving)' = TM!Queued \union TM!Moving
    BY <2>1 DEF TM!Queued, TM!Moving, taskVars
  <2> QED BY <1>0, <2>1, <2>2, <2>3, <2>4, NoGain
<1> QED BY <1>1, <1>2

(* At first nothing has been executed and nothing missed.                  *)
LEMMA InitWorkBound == Init /\ Wired => WorkBound
<1> SUFFICES ASSUME Init, Wired, NEW f \in Task PROVE Bound(f)
  BY DEF WorkBound
<1>1. Prospects(f) = {}
  <2>1. \A p \in Process : client[p] \in {"ask", "await"} => id[p] \in Id
    BY LocalDomains DEF Wired
  <2> QED BY <2>1, NoneIsNothing DEF Prospects, Init, TM!Init
<1>2. Pending = 0 /\ executions[f] = 0 /\ misses = 0
  BY DEF Pending, Init
<1>3. Available(f) \in 0 .. 1
  BY DEF Available
<1>4. Cardinality({}) = 0
  BY FS_EmptySet
<1> HIDE DEF Pending, Prospects, Available
<1> QED BY <1>1, <1>2, <1>3, <1>4 DEF Bound

(* Every step pays for what it adds, if the server has its port.           *)
LEMMA NextWorkBound ==
  Wired /\ Wired' /\ ~PortTaken /\ WorkBound /\ [Next]_vars => WorkBound'
<1> SUFFICES ASSUME Wired, Wired', ~PortTaken, WorkBound, [Next]_vars PROVE WorkBound'
  OBVIOUS
<1>1. CASE UNCHANGED vars
  BY <1>1
  DEF vars, taskVars, processVars, watchVars, files, WorkBound, Bound, Prospects, Available,
      Pending, TM!Queued, TM!Moving
<1>2. ASSUME NEW p \in Process,
             Proceed(p) \/ Accept(p) \/ Leave(p) \/ StoreFails(p) \/ AcceptBroken(p)
      PROVE  WorkBound'
  BY <1>2, WorkKeepsBound, StoreKeepsBound, HandleKeepsBound DEF Proceed, Work
<1>3. ASSUME NEW p \in Process PROVE ~AskElsewhere(p)
  BY DEF AskElsewhere
<1> QED BY <1>1, <1>2, <1>3, WaitingKeepsBound, ServeKeepsBound, LossKeepsBound,
           StopFailedKeepsBound, ReplaceKeepsBound, DeallocateKeepsBound
        DEF Next, Misfortune, NoticeFailure, HandleFailure, Waiting

(* If it has not, no request is handled, and nothing executed for it.      *)
Unserved ==
  PortTaken =>
    /\ main \in {"create", "returned"}
    /\ \A p \in Process : handler[p] = "none"
    /\ \A w \in Id : ongoingTaskAllocationMap[w] = None
    /\ completed = {} /\ \A f \in Task : executions[f] = 0

(* Every step of a server without its port keeps it so.                    *)
LEMMA NextUnserved == Wired /\ Unserved /\ [Next]_vars => Unserved'
<1> SUFFICES ASSUME Wired, Unserved, [Next]_vars, PortTaken PROVE Unserved'
  BY SamePort DEF Unserved
<1>0. /\ Local /\ \A p \in Process : handler[p] = "none"
      /\ main \in {"create", "returned"} /\ ~Listening
      /\ \A w \in Id : ongoingTaskAllocationMap[w] = None
      /\ completed = {} /\ \A f \in Task : executions[f] = 0
  BY DEF Unserved, Wired, Listening
<1>1. ASSUME NEW p \in Process,
             \/ Proceed(p) \/ Accept(p) \/ Leave(p) \/ StoreFails(p) \/ AcceptBroken(p)
             \/ AskElsewhere(p) \/ Crash(p) \/ Notice(p)
      PROVE  UNCHANGED <<main, handler, ongoingTaskAllocationMap, completed, executions>>
  <2>1. ~Request(p) /\ ~Accept(p) /\ ~AcceptBroken(p) /\ ~Handle(p)
    BY <1>0
    DEF Request, Accept, AcceptBroken, Handle, Mark, CheckFirstRead, CheckSecondRead,
        EnterStopWorker, StopWorker, QueryAvailable, Allocate
  <2>2. CASE OpenOutput(p) \/ StoreWordCount(p) \/ StoreFails(p)
    BY <2>2 DEF OpenOutput, StoreWordCount, StoreFails, Executed, taskVars
  <2>3. CASE Leave(p) \/ AskElsewhere(p) \/ Crash(p) \/ Notice(p)
    BY <2>3 DEF Leave, AskElsewhere, Crash, Notice, files, taskVars
  <2> QED BY <1>1, <2>1, <2>2, <2>3 DEF Proceed, Work
<1>2. CASE Serve
  <2>1. OpenFails
    BY <1>0, <1>2
    DEF Serve, Open, LoopFirstRead, LoopSecondRead, AcceptTimeout, EnterStopNext, StopNext,
        PassVacant, Return
  <2> QED BY <1>0, <2>1 DEF OpenFails, Unserved, files, taskVars
<1>3. CASE StopFailed \/ Replace \/ ReplaceFails
  BY <1>0, <1>3 DEF StopFailed, Replace, ReplaceFails, Unserved, files, taskVars
<1>4. CASE Deallocate
  BY <1>0, <1>4, DeallocateEffect
  DEF DeallocateRemoveEffect, DeallocateAddEffect, Unserved, files, taskVars
<1>5. CASE Waiting \/ UNCHANGED vars
  BY <1>0, <1>5, WaitingIsQuiet DEF Unserved, vars, files, taskVars
<1>6. ASSUME UNCHANGED <<main, handler, ongoingTaskAllocationMap, completed, executions>>
      PROVE  Unserved'
  BY <1>0, <1>6 DEF Unserved
<1> QED BY <1>1, <1>2, <1>3, <1>4, <1>5, <1>6
        DEF Next, Misfortune, NoticeFailure, HandleFailure, Waiting

(* A server whose port is taken never hands out a task.                    *)
LEMMA NeverServed == Spec => []Unserved
<1>1. Init => Unserved
  BY DEF Init, TM!Init, Unserved
<1> QED BY <1>1, AlwaysWired, NextUnserved, PTL DEF Spec

(* TaskManager and HeartbeatManager together: a task is executed once, and *)
(* twice more for each miss that is handled, whether a process was lost,   *)
(* or the pool had another one under the id, or none: however slow the     *)
(* handlers are and whatever else goes wrong.                              *)
THEOREM WorkIsBounded == Spec => []RepeatedWorkBounded
<1>1. Types /\ Unserved /\ (PortTaken \/ WorkBound) => RepeatedWorkBounded
  <2> SUFFICES ASSUME Types, Unserved, PortTaken \/ WorkBound, NEW f \in Task
               PROVE  executions[f] <= 1 + 2 * misses
    BY DEF RepeatedWorkBounded
  <2>1. executions[f] \in Nat /\ misses \in Nat
    BY DEF Types
  <2>2. executions[f] = 0 \/ Bound(f)
    BY DEF Unserved, WorkBound
  <2> HIDE DEF Pending, Prospects, Available
  <2> QED BY <2>1, <2>2, Counts DEF Bound
<1>2. Wired => Types
  BY DEF Wired, Local
<1>3. Wired /\ Wired' /\ (PortTaken \/ WorkBound) /\ [Next]_vars => (PortTaken \/ WorkBound)'
  BY SamePort, NextWorkBound
<1> QED BY <1>1, <1>2, <1>3, AlwaysWired, NeverServed, InitWorkBound, PTL DEF Spec
-----------------------------------------------------------------------------
(* From here on the server has its port.  When requests are handled before *)
(* their senders are replaced, an id has one process at a time that is     *)
(* engaged with a task or with the server.                                 *)

Stopped == main \in {"stop", "returned"}
Engaged(p) == handler[p] # "none" \/ client[p] \in {"await", "execute", "store", "report"}

(* The sender of a request stays in the pool while it is handled, and no   *)
(* other process of its id is engaged.                                     *)
Placed ==
  /\ \A p \in Process : ~Stopped /\ handler[p] # "none" => activeWorkerPool[id[p]] = p
  /\ \A p, q \in Process : handler[p] # "none" /\ Engaged(q) /\ id[p] = id[q] => p = q

(* Most steps engage nobody and leave the pool alone. *)
Quiet ==
  /\ UNCHANGED <<id, activeWorkerPool>>
  /\ Stopped => Stopped'
  /\ \A p \in Process : /\ handler'[p] # "none" => handler[p] # "none"
                        /\ Engaged(p)' => Engaged(p)

(* A worker's own steps engage nobody and keep the pool.                   *)
LEMMA WorkIsQuiet ==
  ASSUME Wired, NEW p \in Process,
         OpenOutput(p) \/ StoreWordCount(p) \/ StoreFails(p) \/ Leave(p)
           \/ Accept(p) \/ AcceptBroken(p)
  PROVE  Quiet
<1>0. Types
  BY DEF Wired, Local
<1>1. /\ UNCHANGED processVars
      /\ main \in {"stop", "returned"} => main' = main
      /\ \A q \in Process : /\ handler'[q] # "none" => handler[q] # "none"
                            /\ q # p => client'[q] = client[q]
      /\ client'[p] \in {"await", "execute", "store", "report"} =>
           client[p] \in {"await", "execute", "store", "report"}
      /\ \A q \in Process : q # p => handler'[q] = handler[q]
  <2>1. CASE OpenOutput(p)
    BY <1>0, <2>1 DEF OpenOutput, AfterTruncation, Types
  <2>2. CASE StoreWordCount(p)
    BY <1>0, <2>2 DEF StoreWordCount, Types
  <2>3. CASE StoreFails(p)
    BY <1>0, <2>3 DEF StoreFails, Types
  <2>4. CASE Leave(p)
    BY <1>0, <2>4 DEF Leave, Types
  <2>5. CASE Accept(p)
    BY <1>0, <2>5 DEF Accept, Types
  <2>6. CASE AcceptBroken(p)
    BY <1>0, <2>6 DEF AcceptBroken, Types
  <2> QED BY <2>1, <2>2, <2>3, <2>4, <2>5, <2>6
<1> QED BY <1>1 DEF Quiet, Stopped, Engaged, processVars

(* An allocation concerns nobody but the sender of the request.            *)
LEMMA AllocateAlone ==
  ASSUME Local, NEW p \in Process, Allocate(p)
  PROVE  /\ handler[p] = "allocate" /\ UNCHANGED <<main, processVars, files, faults>>
         /\ \A q \in Process : q # p => /\ handler'[q] = handler[q] /\ client'[q] = client[q]
                                        /\ task'[q] = task[q]
<1>1. CASE AllocateSameEffect(p) \/ AllocatePutEffect(p)
  BY <1>1, AllocateEffect
  DEF AllocateSameEffect, AllocatePutEffect, AnswerTask, Local, Types
<1>2. CASE AnswerWait(p) \/ AllocatePollEffect(p)
  BY <1>2, AllocateEffect DEF AllocatePollEffect, AnswerWait, Local, Types
<1> QED BY <1>1, <1>2, AllocateEffect

(* So do those of a handler, unless it answers that all is done.           *)
LEMMA HandleIsQuiet ==
  ASSUME Wired, NEW p \in Process, Handle(p), ~StopWorker(p)
  PROVE  Quiet
<1>0. Local /\ Types
  BY DEF Wired, Local
<1>1. /\ UNCHANGED <<main, id, activeWorkerPool>> /\ handler[p] # "none"
      /\ \A q \in Process : q # p => handler'[q] = handler[q] /\ client'[q] = client[q]
  <2>1. CASE Mark(p)
    BY <1>0, <2>1, MarkEffect DEF Types, processVars
  <2>2. CASE CheckFirstRead(p) \/ CheckSecondRead(p)
    <3>1. /\ handler[p] = "check" /\ UNCHANGED <<main, processVars, client>>
          /\ \E a \in {"check", "query", "stop"} : handler' = [handler EXCEPT ![p] = a]
      BY <1>0, <2>2, CheckEffect
    <3> QED BY <1>0, <3>1 DEF Types, processVars
  <2>3. CASE QueryAvailable(p)
    BY <1>0, <2>3 DEF QueryAvailable, AnswerWait, Types, processVars
  <2>4. CASE Allocate(p)
    BY <1>0, <2>4, AllocateAlone DEF processVars
  <2>5. CASE EnterStopWorker(p)
    BY <2>5, WaitingIsQuiet DEF Waiting, EnterStopWorker
  <2> QED BY <2>1, <2>2, <2>3, <2>4, <2>5 DEF Handle
<1> QED BY <1>1 DEF Quiet, Stopped, Engaged

(* So do those of the main loop, and most failures.                        *)
LEMMA RestIsQuiet ==
  ASSUME Wired,
         \/ Serve /\ ~StopNext
         \/ Waiting
         \/ \E p \in Process : Crash(p) \/ Notice(p)
         \/ Deallocate \/ ReplaceFails
         \/ UNCHANGED vars
  PROVE  Quiet
<1>0. Local /\ Types
  BY DEF Wired, Local
<1>1. CASE \/ Open \/ OpenFails \/ LoopFirstRead \/ LoopSecondRead \/ AcceptTimeout
           \/ PassVacant \/ Return
  BY <1>0, <1>1, ServeEffect DEF Quiet, Stopped, Engaged, processVars
<1>2. ASSUME NEW p \in Process, Notice(p)
      PROVE  Quiet
  BY <1>2 DEF Notice, WP!Notice, WP!poolVars, Quiet, Stopped, Engaged
<1>3. ASSUME NEW p \in Process, Crash(p)
      PROVE  Quiet
  BY <1>0, <1>3 DEF Crash, WP!Die, Quiet, Stopped, Engaged, Types
<1>4. CASE Deallocate
  <2>1. UNCHANGED <<main, handler, client, id, activeWorkerPool>>
    BY <1>0, <1>4, DeallocateEffect
    DEF DeallocateRemoveEffect, DeallocateAddEffect, processVars
  <2> QED BY <2>1 DEF Quiet, Stopped, Engaged
<1>5. CASE ReplaceFails
  BY <1>0, <1>5, ReplaceFailsEffect DEF Quiet, Stopped, Engaged
<1>6. CASE UNCHANGED vars
  BY <1>6 DEF vars, processVars, Quiet, Stopped, Engaged
<1>7. CASE Waiting
  BY <1>7, WaitingIsQuiet DEF Quiet, Stopped, Engaged
<1> QED BY <1>1, <1>2, <1>3, <1>4, <1>5, <1>6, <1>7 DEF Serve, Waiting

(* The steps that Placed must be checked for, one by one.                  *)
LEMMA StepKinds ==
  ASSUME Wired, ~PortTaken, [Next]_vars
  PROVE  \/ Quiet
         \/ \E p \in Process : Request(p) \/ StopWorker(p)
         \/ StopNext \/ StopFailed \/ Replace
<1>1. ASSUME NEW p \in Process, Proceed(p), ~Request(p), ~StopWorker(p)
      PROVE  Quiet
  BY <1>1, WorkIsQuiet, HandleIsQuiet DEF Proceed, Work
<1> QED BY <1>1, WorkIsQuiet, RestIsQuiet
        DEF Next, Serve, HandleFailure, Misfortune, NoticeFailure, Waiting, AskElsewhere

(* No handler runs at first.                                               *)
LEMMA InitPlaced == Init => Placed
<1> SUFFICES ASSUME Init PROVE Placed
  OBVIOUS
<1>1. \A p \in Process : handler[p] = "none"
  BY DEF Init
<1> QED BY <1>1 DEF Placed

(* Every step keeps the sender of a running handler in its place in the    *)
(* pool: the one step that would replace it, PromptHandlers excludes.      *)
LEMMA NextPlaced ==
  ASSUME PromptHandlers, ~PortTaken, Wired, Placed, [Next]_vars
  PROVE  Placed'
<1>0. Local /\ Types /\ Pooled
  BY DEF Wired, Local, Wiring
<1>1. CASE Quiet
  BY <1>1 DEF Quiet, Placed
<1>2. ASSUME NEW p \in Process, Request(p)
      PROVE  Placed'
  <2>1. /\ ~Stopped /\ UNCHANGED <<main, id, activeWorkerPool>>
        /\ activeWorkerPool[id[p]] = p
        /\ \A q \in Process : q # p => handler'[q] = handler[q] /\ client'[q] = client[q]
    BY <1>0, <1>2 DEF Request, Stopped, Listening, processVars, Pooled, Alive
  <2>2. \A q \in Process : Engaged(q) => activeWorkerPool[id[q]] = q
    BY <1>0, <2>1 DEF Engaged, Placed, Pooled, Alive
  <2>3. \A q \in Process : Engaged(q)' => q = p \/ Engaged(q)
    BY <2>1 DEF Engaged
  <2> QED BY <2>1, <2>2, <2>3 DEF Placed, Engaged, Stopped
<1>3. ASSUME NEW w \in Id, Kill(w), WP!Remove(w), UNCHANGED <<main, id>>,
             \A p \in Process : handler'[p] \in {handler[p], "none"},
             \A p \in Process : ~Stopped /\ handler'[p] # "none" => id[p] # w
      PROVE  Placed'
  <2>1. /\ activeWorkerPool' = [activeWorkerPool EXCEPT ![w] = None]
        /\ \A p \in Process : client'[p] \in {client[p], "dead"}
    BY <1>0, <1>3, KillEffect DEF Types
  <2>2. \A p \in Process : Engaged(p)' => Engaged(p)
    BY <1>3, <2>1 DEF Engaged
  <2> QED BY <1>0, <1>3, <2>1, <2>2 DEF Placed, Stopped, Types
<1>4. ASSUME NEW p \in Process, StopWorker(p)
      PROVE  Placed'
  <2>1. /\ handler[p] # "none" /\ handler' = [handler EXCEPT ![p] = "none"] /\ id[p] \in Id
        /\ UNCHANGED <<main, id>>
    BY <1>0, <1>4, StopWorkerEffect
  <2>2. CASE Kill(id[p]) /\ WP!Remove(id[p])
    BY <1>0, <1>3, <2>1, <2>2 DEF Placed, Types, Engaged
  <2>3. CASE UNCHANGED <<client, processVars>>
    <3>1. Quiet
      BY <1>0, <2>1, <2>3 DEF Quiet, Stopped, Engaged, processVars, Types
    <3> QED BY <1>1, <3>1
  <2> QED BY <1>0, <1>4, <2>2, <2>3, StopWorkerEffect
<1>5. CASE StopNext
  <2>1. PICK w \in Id : Kill(w) /\ WP!Remove(w)
    BY <1>5, StopNextEffect
  <2> QED BY <1>3, <1>5, <2>1, StopNextEffect DEF Stopped
<1>6. CASE StopFailed
  <2>1. failed \in Id /\ UNCHANGED <<main, handler, id>>
    BY <1>0, <1>6, StopFailedEffect
  <2>2. CASE /\ Kill(failed) /\ WP!Remove(failed)
             /\ handler[activeWorkerPool[failed]] = "none"
    <3>1. \A p \in Process : ~Stopped /\ handler'[p] # "none" => id[p] # failed
      BY <2>1, <2>2 DEF Placed
    <3> QED BY <1>3, <2>1, <2>2, <3>1
  <2>3. CASE UNCHANGED <<client, activeWorkerPool>>
    <3>1. Quiet
      BY <2>1, <2>3 DEF Quiet, Stopped, Engaged
    <3> QED BY <1>1, <3>1
  <2> QED BY <1>0, <1>6, <2>2, <2>3, StopFailedEffect
<1>7. CASE Replace
  <2> DEFINE q == spawned + 1
             v == Head(vacantIds)
  <2>1. /\ q \in Process /\ v \in Id /\ handler[q] = "none" /\ vacantIds # <<>>
        /\ client' = [client EXCEPT ![q] = "ask"] /\ id' = [id EXCEPT ![q] = v]
        /\ activeWorkerPool' = [activeWorkerPool EXCEPT ![v] = q]
        /\ UNCHANGED <<main, handler>>
    BY <1>0, <1>7, ReplaceEffect
  <2>2. activeWorkerPool[v] = None
    BY <1>0, <2>1, PollElements DEF Pooled, Types
  <2>3. \A p \in Process : handler[p] # "none" => p # q /\ id'[p] = id[p] /\ id[p] \in Id
    BY <1>0, <2>1, LocalDomains DEF Types
  <2>4. \A p \in Process : Engaged(p)' => Engaged(p) /\ id'[p] = id[p]
    BY <1>0, <2>1 DEF Engaged, Types
  <2>5. \A p \in Process : ~Stopped /\ handler[p] # "none" => activeWorkerPool'[id[p]] = p
    BY <1>0, <2>1, <2>2, <2>3, NoneIsNothing DEF Placed, Types
  <2> QED BY <2>1, <2>3, <2>4, <2>5 DEF Placed, Stopped
<1> QED BY <1>1, <1>2, <1>4, <1>5, <1>6, <1>7, StepKinds
-----------------------------------------------------------------------------
(* A task is completed by a process that has executed it.                  *)

Reporting(p) == client[p] = "report" \/ handler[p] \in {"report", "mark"}
Busy(p) == client[p] \in {"execute", "store"} \/ Reporting(p)

(* The id of a busy process has its task, or none any more; the process    *)
(* reports a task that has been executed; and nobody is stopped who has a  *)
(* task.                                                                   *)
Earned ==
  /\ \A p \in Process :
       Busy(p) => task[p] # None /\ ongoingTaskAllocationMap[id[p]] \in {None, task[p]}
  /\ \A p \in Process : Reporting(p) => executions[task[p]] > 0
  /\ \A p \in Process : handler[p] = "stop" => ongoingTaskAllocationMap[id[p]] = None
  /\ CompletedWasExecuted

(* Most steps make nobody busy, and give no id a task. *)
Calm ==
  /\ UNCHANGED <<task, executions, completed>>
  /\ \A p \in Process : /\ Busy(p)' => Busy(p) /\ id'[p] = id[p]
                        /\ Reporting(p)' => Reporting(p)
                        /\ handler'[p] = "stop" => handler[p] = "stop" /\ id'[p] = id[p]
  /\ \A w \in Id : ongoingTaskAllocationMap'[w] \in {ongoingTaskAllocationMap[w], None}

(* A calm step keeps Earned.                                               *)
LEMMA CalmKeepsEarned ==
  ASSUME Wired, Earned, Calm
  PROVE  Earned'
<1>1. \A p \in Process : Busy(p) \/ handler[p] = "stop" => id[p] \in Id
  BY LocalDomains DEF Wired, Busy, Reporting
<1>2. \A p \in Process : Busy(p)' => task'[p] # None
                           /\ ongoingTaskAllocationMap'[id'[p]] \in {None, task'[p]}
  BY <1>1 DEF Earned, Calm
<1>3. \A p \in Process : Reporting(p)' => executions'[task'[p]] > 0
  BY DEF Earned, Calm
<1>4. \A p \in Process : handler'[p] = "stop" => ongoingTaskAllocationMap'[id'[p]] = None
  BY <1>1 DEF Earned, Calm
<1>5. CompletedWasExecuted'
  BY DEF Earned, Calm, CompletedWasExecuted
<1> QED BY <1>2, <1>3, <1>4, <1>5 DEF Earned

(* A worker's steps are calm unless they store a result.                   *)
LEMMA WorkIsCalm ==
  ASSUME Wired, NEW p \in Process,
         Request(p) \/ OpenOutput(p) \/ Leave(p) \/ Accept(p) \/ AcceptBroken(p)
  PROVE  Calm
<1>0. Types /\ ongoingTaskAllocationMap \in [Id -> Task \union {None}]
  BY LocalDomains DEF Wired, Local
<1>1. /\ UNCHANGED <<taskVars, task, processVars, executions>>
      /\ \A q \in Process : q # p => client'[q] = client[q] /\ handler'[q] = handler[q]
      /\ client'[p] \in {"execute", "store"} => client[p] \in {"execute", "store"}
      /\ client'[p] = "report" => client[p] = "report"
      /\ handler'[p] \in {"report", "mark"} =>
           client[p] = "report" \/ handler[p] \in {"report", "mark"}
      /\ handler'[p] # "stop" \/ handler[p] = "stop"
  <2>1. CASE Request(p)
    BY <1>0, <2>1 DEF Request, files, Types
  <2>2. CASE OpenOutput(p)
    BY <1>0, <2>2 DEF OpenOutput, AfterTruncation, files, Types
  <2>3. CASE Leave(p)
    BY <1>0, <2>3 DEF Leave, Fault, files, Types
  <2>4. CASE Accept(p)
    BY <1>0, <2>4 DEF Accept, FirstStep, files, Types
  <2>5. CASE AcceptBroken(p)
    BY <1>0, <2>5 DEF AcceptBroken, Alive, files, Types
  <2> QED BY <2>1, <2>2, <2>3, <2>4, <2>5
<1> QED BY <1>0, <1>1 DEF Calm, Busy, Reporting, taskVars, processVars

(* The death of a worker is calm.                                          *)
LEMMA KillIsCalm ==
  ASSUME Wired, NEW w \in Id, Kill(w), WP!Remove(w),
         UNCHANGED <<taskVars, id, task, executions>>,
         \A p \in Process : handler'[p] \in {handler[p], "none"}
  PROVE  Calm
<1>1. \A p \in Process : client'[p] \in {client[p], "dead"}
  BY KillEffect DEF Wired, Local, Types
<1> QED BY <1>1 DEF Calm, Busy, Reporting, taskVars

(* The main loop, the failures and the handlers that only read are calm.   *)
LEMMA RestIsCalm ==
  ASSUME Wired,
         \/ Serve \/ Waiting \/ HandleFailure \/ ReplaceFails
         \/ \E p \in Process : Crash(p) \/ Notice(p)
         \/ \E p \in Process : CheckFirstRead(p) \/ QueryAvailable(p) \/ StopWorker(p)
         \/ UNCHANGED vars
  PROVE  Calm
<1>0. Local /\ Types /\ ongoingTaskAllocationMap \in [Id -> Task \union {None}]
  BY LocalDomains DEF Wired, Local
<1>1. CASE \/ Open \/ OpenFails \/ LoopFirstRead \/ LoopSecondRead \/ AcceptTimeout
           \/ PassVacant \/ Return
  BY <1>0, <1>1, ServeEffect DEF Calm, Busy, Reporting, processVars, files
<1>2. CASE StopNext
  BY <1>0, <1>2, StopNextEffect, KillIsCalm DEF files
<1>3. ASSUME NEW p \in Process, StopWorker(p)
      PROVE  Calm
  <2>1. /\ handler' = [handler EXCEPT ![p] = "none"] /\ id[p] \in Id
        /\ UNCHANGED <<taskVars, id, task, executions>>
    BY <1>0, <1>3, StopWorkerEffect DEF files
  <2>2. \A q \in Process : handler'[q] \in {handler[q], "none"}
    BY <1>0, <2>1 DEF Types
  <2>3. CASE Kill(id[p]) /\ WP!Remove(id[p])
    BY <2>1, <2>2, <2>3, KillIsCalm
  <2>4. CASE UNCHANGED client
    BY <2>1, <2>2, <2>4 DEF Calm, Busy, Reporting, taskVars
  <2> QED BY <1>0, <1>3, <2>3, <2>4, StopWorkerEffect
<1>4. ASSUME NEW p \in Process, CheckFirstRead(p)
      PROVE  Calm
  BY <1>0, <1>4
  DEF CheckFirstRead, TM!CompletedFirstRead, TM!pools, TM!history, taskVars, Calm, Busy,
      Reporting, processVars, files, Types
<1>5. ASSUME NEW p \in Process, QueryAvailable(p)
      PROVE  Calm
  BY <1>0, <1>5
  DEF QueryAvailable, AnswerWait, taskVars, Calm, Busy, Reporting, processVars, files, Types
<1>6. ASSUME NEW p \in Process, Crash(p)
      PROVE  Calm
  BY <1>0, <1>6 DEF Crash, taskVars, Calm, Busy, Reporting, files, Types
<1>7. ASSUME NEW p \in Process, Notice(p)
      PROVE  Calm
  BY <1>7 DEF Notice, taskVars, Calm, Busy, Reporting, files
<1>8. CASE StopFailed
  <2>1. /\ failed \in Id /\ UNCHANGED <<taskVars, id, handler, task, executions>>
    BY <1>0, <1>8, StopFailedEffect DEF files
  <2>2. CASE Kill(failed) /\ WP!Remove(failed)
    BY <2>1, <2>2, KillIsCalm
  <2>3. CASE UNCHANGED client
    BY <2>1, <2>3 DEF Calm, Busy, Reporting, taskVars
  <2> QED BY <1>0, <1>8, <2>2, <2>3, StopFailedEffect
<1>9. CASE Replace
  <2>1. /\ spawned + 1 \in Process /\ handler[spawned + 1] = "none"
        /\ client' = [client EXCEPT ![spawned + 1] = "ask"]
        /\ \A q \in Process : q # spawned + 1 => id'[q] = id[q]
        /\ UNCHANGED <<taskVars, handler, task, executions>>
    BY <1>0, <1>9, ReplaceEffect DEF files, Types
  <2> QED BY <1>0, <2>1 DEF Calm, Busy, Reporting, taskVars, Types
<1>10. CASE ReplaceFails
  BY <1>0, <1>10, ReplaceFailsEffect DEF Calm, Busy, Reporting, taskVars, files
<1>11. CASE Deallocate
  BY <1>0, <1>11, DeallocateEffect
  DEF DeallocateRemoveEffect, DeallocateAddEffect, Calm, Busy, Reporting, taskVars, files
<1>12. CASE UNCHANGED vars
  BY <1>12 DEF vars, taskVars, processVars, files, Calm, Busy, Reporting
<1>13. CASE Waiting
  BY <1>13, WaitingIsQuiet DEF taskVars, files, Calm, Busy, Reporting
<1> QED BY <1>1, <1>2, <1>3, <1>4, <1>5, <1>6, <1>7, <1>8, <1>9, <1>10, <1>11, <1>12, <1>13
        DEF Serve, HandleFailure, Waiting

(* The steps that Earned must be checked for, one by one.                  *)
LEMMA CalmSteps ==
  ASSUME Wired, ~PortTaken, [Next]_vars
  PROVE  \/ Calm
         \/ \E p \in Process : StoreWordCount(p) \/ StoreFails(p) \/ Mark(p)
                                 \/ CheckSecondRead(p) \/ Allocate(p)
<1>1. ASSUME NEW p \in Process, EnterStopWorker(p)
      PROVE  Waiting
  BY <1>1 DEF Waiting
<1> QED BY <1>1, WorkIsCalm, RestIsCalm
        DEF Next, Proceed, Work, Handle, Misfortune, NoticeFailure, Waiting, AskElsewhere

(* At first nobody works and nothing is completed.                         *)
LEMMA InitEarned == Init => Earned
BY NoneIsNothing DEF Init, TM!Init, Earned, Busy, Reporting, CompletedWasExecuted

(* Every step keeps Earned.                                                *)
LEMMA NextEarned ==
  ASSUME ~PortTaken, Wired, Placed, Earned, [Next]_vars
  PROVE  Earned'
<1>0. Local /\ Types /\ Waits /\ ongoingTaskAllocationMap \in [Id -> Task \union {None}]
  BY LocalDomains DEF Wired, Local, Wiring
<1>1. \A p \in Process : Engaged(p) \/ Busy(p) => id[p] \in Id
  BY <1>0, LocalDomains DEF Busy, Reporting, Engaged
<1>2. ASSUME NEW p \in Process, StoreWordCount(p) \/ StoreFails(p)
      PROVE  Earned'
  <2>1. /\ UNCHANGED <<task, id, ongoingTaskAllocationMap, completed, handler>>
        /\ client[p] = "store" /\ client' = [client EXCEPT ![p] = "report"]
        /\ task[p] \in Task
        /\ executions' = [executions EXCEPT ![task[p]] = @ + 1]
    BY <1>0, <1>2 DEF StoreWordCount, StoreFails, Executed, taskVars, processVars, Types
  <2>2. \A f \in Task : executions[f] > 0 \/ f = task[p] => executions'[f] > 0
    BY <1>0, <2>1 DEF Types
  <2>3. \A q \in Process : /\ Busy(q)' => Busy(q)
                           /\ Reporting(q)' => Reporting(q) \/ q = p
                           /\ Reporting(q)' => task[q] \in Task
    <3>1. \A q \in Process : /\ Busy(q)' => Busy(q)
                             /\ Reporting(q)' => Reporting(q) \/ q = p
      BY <1>0, <2>1 DEF Busy, Reporting, Types
    <3> QED BY <1>0, <3>1 DEF Earned, Busy, Types
  <2>4. CompletedWasExecuted'
    <3>1. completed \subseteq Task
      BY <1>0, LocalDomains
    <3> QED BY <2>1, <2>2, <3>1 DEF Earned, CompletedWasExecuted
  <2>5. \A q \in Process : Reporting(q)' => executions'[task'[q]] > 0
    BY <2>1, <2>2, <2>3 DEF Earned
  <2> QED BY <2>1, <2>3, <2>4, <2>5 DEF Earned
<1>3. ASSUME NEW p \in Process, Mark(p)
      PROVE  Earned'
  <2>1. /\ handler[p] = "mark" /\ handler' = [handler EXCEPT ![p] = "check"] /\ id[p] \in Id
        /\ ongoingTaskAllocationMap' = [ongoingTaskAllocationMap EXCEPT ![id[p]] = None]
        /\ completed' = completed \union ({ongoingTaskAllocationMap[id[p]]} \ {None})
        /\ UNCHANGED <<client, task, id, executions>>
    BY <1>0, <1>3, MarkEffect DEF processVars, files
  <2>2. \A q \in Process : /\ (Busy(q)' => Busy(q)) /\ (Reporting(q)' => Reporting(q))
                           /\ handler'[q] = "stop" => handler[q] = "stop"
    BY <1>0, <2>1 DEF Busy, Reporting, Types
  <2>3. \A w \in Id : ongoingTaskAllocationMap'[w] \in {ongoingTaskAllocationMap[w], None}
    BY <1>0, <2>1
  <2>4. CompletedWasExecuted'
    <3>1. Busy(p) /\ Reporting(p)
      BY <2>1 DEF Busy, Reporting
    <3> QED BY <2>1, <3>1 DEF Earned, CompletedWasExecuted
  <2>5. \A q \in Process : handler[q] = "stop" => id[q] \in Id
    BY <1>1 DEF Engaged
  <2> QED BY <1>1, <2>1, <2>2, <2>3, <2>4, <2>5 DEF Earned
<1>4. ASSUME NEW p \in Process, CheckSecondRead(p)
      PROVE  Earned'
  <2>1. /\ handler[p] = "check"
        /\ UNCHANGED <<ongoingTaskAllocationMap, completed, client, task, id, executions>>
        /\ \E a \in {"check", "query", "stop"} :
             /\ handler' = [handler EXCEPT ![p] = a]
             /\ a = "stop" => \A w \in Id : ongoingTaskAllocationMap[w] = None
    BY <1>0, <1>4, CheckEffect DEF processVars, files
  <2>2. \A q \in Process : Reporting(q)' => Reporting(q)
    BY <1>0, <2>1 DEF Reporting, Types
  <2>3. \A q \in Process : handler'[q] = "stop" => ongoingTaskAllocationMap[id[q]] = None
    BY <1>0, <1>1, <2>1 DEF Earned, Types, Engaged
  <2> QED BY <2>1, <2>2, <2>3 DEF Earned, Busy, CompletedWasExecuted
<1>5. ASSUME NEW p \in Process, Allocate(p)
      PROVE  Earned'
  <2>1. handler[p] = "allocate" /\ id[p] \in Id /\ UNCHANGED <<id, executions>> /\ ~Busy(p)
        /\ Engaged(p)
    BY <1>0, <1>5, AllocateEffect DEF processVars, files, Waits, Busy, Reporting, Engaged
  <2>2. CASE \/ AnswerWait(p) /\ UNCHANGED taskVars
             \/ AllocatePollEffect(p)
    <3>1. UNCHANGED <<ongoingTaskAllocationMap, completed, task>>
      BY <2>2 DEF AnswerWait, AllocatePollEffect, taskVars
    <3>2. \A q \in Process : /\ (Busy(q)' => Busy(q)) /\ (Reporting(q)' => Reporting(q))
                             /\ handler'[q] = "stop" => handler[q] = "stop"
      BY <1>0, <2>1, <2>2 DEF AnswerWait, AllocatePollEffect, Busy, Reporting, Types
    <3> QED BY <2>1, <3>1, <3>2 DEF Earned, CompletedWasExecuted
  <2>3. ASSUME NEW f \in Task, AnswerTask(p, f), completed' = completed,
               ongoingTaskAllocationMap' = [ongoingTaskAllocationMap EXCEPT ![id[p]] = f]
        PROVE  Earned'
    <3>1. /\ handler' = [handler EXCEPT ![p] = "none"]
          /\ \A q \in Process : q # p => client'[q] = client[q] /\ task'[q] = task[q]
          /\ task'[p] = f /\ client'[p] # "report"
      BY <1>0, <2>1, <2>3 DEF AnswerTask, Types, Waits
    <3>2. \A q \in Process : Busy(q)' => q = p \/ (Busy(q) /\ id[q] # id[p])
      <4>1. \A q \in Process : Busy(q) => Engaged(q)
        BY DEF Busy, Reporting, Engaged
      <4>2. \A q \in Process : Busy(q)' /\ q # p => Busy(q)
        BY <1>0, <3>1 DEF Busy, Reporting, Types
      <4> QED BY <2>1, <4>1, <4>2 DEF Placed
    <3>3. \A q \in Process : Reporting(q)' => Reporting(q) /\ q # p
      BY <1>0, <3>1 DEF Reporting, Types
    <3>4. \A q \in Process : handler'[q] = "stop" => handler[q] = "stop" /\ id[q] # id[p]
      BY <1>0, <2>1, <3>1 DEF Placed, Engaged, Types
    <3>5. \A q \in Process : Busy(q)' => task'[q] # None
                               /\ ongoingTaskAllocationMap'[id[q]] \in {None, task'[q]}
      <4>1. ongoingTaskAllocationMap'[id[p]] = f
        BY <1>0, <2>1, <2>3
      <4>2. \A q \in Process : Busy(q) /\ id[q] # id[p] =>
              ongoingTaskAllocationMap'[id[q]] = ongoingTaskAllocationMap[id[q]]
        BY <1>0, <1>1, <2>1, <2>3
      <4>3. \A q \in Process : Busy(q) /\ id[q] # id[p] => q # p
        OBVIOUS
      <4> QED BY <3>1, <3>2, <4>1, <4>2, <4>3, NoneIsNothing DEF Earned
    <3>6. \A q \in Process : handler'[q] = "stop" => ongoingTaskAllocationMap'[id[q]] = None
      BY <1>0, <1>1, <2>1, <2>3, <3>4 DEF Earned, Engaged
    <3> QED BY <2>1, <2>3, <3>1, <3>3, <3>5, <3>6 DEF Earned, CompletedWasExecuted
  <2>4. CASE AllocateSameEffect(p)
    <3>1. /\ ongoingTaskAllocationMap[id[p]] \in Task
          /\ UNCHANGED <<ongoingTaskAllocationMap, completed>>
      BY <1>0, <2>1, <2>4 DEF AllocateSameEffect, taskVars
    <3>2. ongoingTaskAllocationMap'
            = [ongoingTaskAllocationMap EXCEPT ![id[p]] = ongoingTaskAllocationMap[id[p]]]
      BY <1>0, <3>1
    <3> QED BY <2>3, <2>4, <3>1, <3>2 DEF AllocateSameEffect
  <2>5. CASE AllocatePutEffect(p)
    <3>1. workerId[p] = id[p]
      BY <2>5 DEF AllocatePutEffect, Wired, Wiring, Linked
    <3> QED BY <2>3, <2>5, <3>1 DEF AllocatePutEffect
  <2> QED BY <1>0, <1>5, <2>2, <2>4, <2>5, AllocateEffect
<1> QED BY <1>2, <1>3, <1>4, <1>5, CalmSteps, CalmKeepsEarned

(* TaskManager.markTaskCompleted drops whatever task the id has, and the   *)
(* handler marks before it answers: with handlers that are done before     *)
(* their workers are replaced, a task that is completed has been executed. *)
THEOREM CompletionIsEarned ==
  ASSUME PromptHandlers
  PROVE  Spec => [](PortTaken \/ (Placed /\ Earned))
<1>1. Init => Placed /\ Earned
  BY InitPlaced, InitEarned
<1>2. Wired /\ (PortTaken \/ (Placed /\ Earned)) /\ [Next]_vars =>
        (PortTaken \/ (Placed /\ Earned))'
  BY SamePort, NextPlaced, NextEarned
<1> QED BY <1>1, <1>2, AlwaysWired, PTL DEF Spec

(* A completed task has been executed (markComplete takes the worker id    *)
(* and not the task: it is right only because the id still stands for the  *)
(* worker that reported).                                                  *)
THEOREM CompletedByExecution ==
  ASSUME PromptHandlers
  PROVE  Spec => []CompletedWasExecuted
<1>1. Unserved /\ (PortTaken \/ (Placed /\ Earned)) => CompletedWasExecuted
  BY DEF Earned, Unserved, CompletedWasExecuted
<1>2. Spec => [](PortTaken \/ (Placed /\ Earned))
  BY CompletionIsEarned
<1> QED BY <1>1, <1>2, NeverServed, PTL

(* A SUCCESS completes the task of its sender, although it only names the  *)
(* id: with handlers that are done before their workers are replaced, the  *)
(* id still has the task of the sender, or none.                           *)
THEOREM ReportsAreOwn ==
  ASSUME PromptHandlers
  PROVE  Spec => ReportsOwnTask
<1>1. ASSUME Wired, Unserved, PortTaken \/ Earned, [Next]_vars
      PROVE  \A p \in Process : handler[p] = "mark" /\ handler'[p] = "check" =>
               completed' \subseteq completed \union {task[p]}
  <2> SUFFICES ASSUME NEW p \in Process, handler[p] = "mark", handler'[p] = "check"
               PROVE  completed' \subseteq completed \union {task[p]}
    OBVIOUS
  <2>0. Local /\ Types /\ ~PortTaken /\ Earned
    BY <1>1 DEF Wired, Local, Unserved
  <2>1. CASE Calm
    BY <2>1 DEF Calm
  <2>2. ASSUME NEW q \in Process, Mark(q)
        PROVE  completed' \subseteq completed \union {task[p]}
    <3>1. q = p
      BY <2>0, <2>2, MarkEffect DEF Types
    <3>2. completed' = completed \union ({ongoingTaskAllocationMap[id[p]]} \ {None})
      BY <2>0, <2>2, <3>1, MarkEffect
    <3>3. ongoingTaskAllocationMap[id[p]] \in {None, task[p]}
      BY <2>0 DEF Earned, Busy, Reporting
    <3> QED BY <3>2, <3>3
  <2>3. ASSUME NEW q \in Process, StoreWordCount(q) \/ StoreFails(q)
        PROVE  completed' = completed
    BY <2>3 DEF StoreWordCount, StoreFails, taskVars
  <2>4. ASSUME NEW q \in Process, CheckSecondRead(q)
        PROVE  completed' = completed
    BY <2>0, <2>4, CheckEffect
  <2>5. ASSUME NEW q \in Process, Allocate(q)
        PROVE  completed' = completed
    BY <2>0, <2>5, AllocateEffect
    DEF AllocateSameEffect, AllocatePollEffect, AllocatePutEffect, taskVars
  <2> QED BY <1>1, <2>0, <2>1, <2>2, <2>3, <2>4, <2>5, CalmSteps
<1>2. Spec => [](PortTaken \/ (Placed /\ Earned))
  BY CompletionIsEarned
<1> QED BY <1>1, <1>2, AlwaysWired, NeverServed, PTL DEF Spec, ReportsOwnTask
-----------------------------------------------------------------------------
(* The output of a task, however slow the handlers are: it is complete     *)
(* when the task has been executed, unless somebody writes it again, or    *)
(* has stopped writing it.                                                 *)

Rewriter(p) == handler[p] = "none" /\ client[p] \in {"store", "left", "dead"}

Written ==
  \A f \in Task : executions[f] > 0 =>
    \/ output[f] = "complete" \/ faults["write"] > 0
    \/ \E p \in Process : Rewriter(p) /\ task[p] = f

(* Most steps touch no output, and a rewriter remains one. *)
Lasting ==
  /\ UNCHANGED <<executions, output>>
  /\ faults["write"] > 0 => faults'["write"] > 0
  /\ \A p \in Process : Rewriter(p) => Rewriter(p)' /\ task'[p] = task[p]

(* The death of a worker leaves the outputs.                               *)
LEMMA KillIsLasting ==
  ASSUME Wired, NEW w \in Id, Kill(w), WP!Remove(w),
         UNCHANGED <<task, executions, output, faults>>,
         \A p \in Process : handler'[p] \in {handler[p], "none"}
  PROVE  Lasting
<1>1. \A p \in Process : client'[p] \in {client[p], "dead"}
  BY KillEffect DEF Wired, Local, Types
<1> QED BY <1>1 DEF Lasting, Rewriter

(* So do the steps of a worker that does not write.                        *)
LEMMA WorkIsLasting ==
  ASSUME Wired, NEW p \in Process, Request(p) \/ Leave(p) \/ Accept(p) \/ AcceptBroken(p)
  PROVE  Lasting
<1>0. Types /\ Waits
  BY DEF Wired, Local, Wiring
<1>1. CASE Request(p)
  BY <1>0, <1>1 DEF Request, Lasting, Rewriter, files, Types
<1>2. CASE Leave(p)
  BY <1>0, <1>2 DEF Leave, Fault, Lasting, Rewriter, files, Types
<1>3. CASE Accept(p)
  BY <1>0, <1>3 DEF Accept, Lasting, Rewriter, files, Types
<1>4. CASE AcceptBroken(p)
  BY <1>0, <1>4 DEF AcceptBroken, Lasting, Rewriter, files, Types
<1> QED BY <1>1, <1>2, <1>3, <1>4

(* So do the handlers.                                                     *)
LEMMA HandleIsLasting ==
  ASSUME Wired, NEW p \in Process, Handle(p)
  PROVE  Lasting
<1>0. Local /\ Types
  BY DEF Wired, Local
<1>1. CASE Mark(p)
  BY <1>0, <1>1, MarkEffect DEF Lasting, Rewriter, files, Types
<1>2. CASE CheckFirstRead(p) \/ CheckSecondRead(p)
  <2>1. /\ handler[p] = "check" /\ UNCHANGED <<client, task, files, faults>>
        /\ \E a \in {"check", "query", "stop"} : handler' = [handler EXCEPT ![p] = a]
    BY <1>0, <1>2, CheckEffect
  <2> QED BY <1>0, <2>1 DEF Lasting, Rewriter, files, Types
<1>3. CASE StopWorker(p)
  <2>1. /\ handler' = [handler EXCEPT ![p] = "none"] /\ id[p] \in Id
        /\ UNCHANGED <<task, executions, output, faults>>
    BY <1>0, <1>3, StopWorkerEffect DEF files
  <2>2. \A q \in Process : handler'[q] \in {handler[q], "none"}
    BY <1>0, <2>1 DEF Types
  <2>3. CASE Kill(id[p]) /\ WP!Remove(id[p])
    BY <2>1, <2>2, <2>3, KillIsLasting
  <2>4. CASE UNCHANGED client
    BY <2>1, <2>2, <2>4 DEF Lasting, Rewriter
  <2> QED BY <1>0, <1>3, <2>3, <2>4, StopWorkerEffect
<1>4. CASE QueryAvailable(p)
  BY <1>0, <1>4 DEF QueryAvailable, AnswerWait, Lasting, Rewriter, files, Types
<1>5. CASE Allocate(p)
  <2>1. /\ handler[p] = "allocate" /\ UNCHANGED <<files, faults>>
        /\ \A q \in Process : q # p => /\ handler'[q] = handler[q] /\ client'[q] = client[q]
                                       /\ task'[q] = task[q]
    BY <1>0, <1>5, AllocateAlone
  <2> QED BY <2>1 DEF Lasting, Rewriter, files
<1>6. CASE EnterStopWorker(p)
  BY <1>6, WaitingIsQuiet DEF Waiting, EnterStopWorker, Lasting, Rewriter, files
<1> QED BY <1>1, <1>2, <1>3, <1>4, <1>5, <1>6 DEF Handle

(* So do the main loop and the failures of processes.                      *)
LEMMA RestIsLasting ==
  ASSUME Wired,
         \/ Serve \/ Waiting \/ HandleFailure \/ ReplaceFails
         \/ \E p \in Process : Crash(p) \/ Notice(p)
         \/ UNCHANGED vars
  PROVE  Lasting
<1>0. Local /\ Types
  BY DEF Wired, Local
<1>1. CASE \/ Open \/ OpenFails \/ LoopFirstRead \/ LoopSecondRead \/ AcceptTimeout
           \/ PassVacant \/ Return
  BY <1>0, <1>1, ServeEffect DEF Lasting, Rewriter, files, Types
<1>2. CASE StopNext
  BY <1>0, <1>2, StopNextEffect, KillIsLasting DEF files
<1>3. ASSUME NEW p \in Process, Crash(p)
      PROVE  Lasting
  BY <1>0, <1>3 DEF Crash, Fault, Lasting, Rewriter, files, Types
<1>4. ASSUME NEW p \in Process, Notice(p)
      PROVE  Lasting
  BY <1>4 DEF Notice, Lasting, Rewriter, files
<1>5. CASE StopFailed
  <2>1. /\ failed \in Id /\ UNCHANGED <<handler, task, executions, output, faults>>
    BY <1>0, <1>5, StopFailedEffect DEF files
  <2>2. CASE Kill(failed) /\ WP!Remove(failed)
    BY <2>1, <2>2, KillIsLasting
  <2>3. CASE UNCHANGED client
    BY <2>1, <2>3 DEF Lasting, Rewriter
  <2> QED BY <1>0, <1>5, <2>2, <2>3, StopFailedEffect
<1>6. CASE Replace
  BY <1>0, <1>6, ReplaceEffect DEF Lasting, Rewriter, files, Types
<1>7. CASE ReplaceFails
  BY <1>0, <1>7, ReplaceFailsEffect DEF Lasting, Rewriter, files, Types
<1>8. CASE Deallocate
  BY <1>8 DEF Deallocate, Lasting, Rewriter, files
<1>9. CASE UNCHANGED vars
  BY <1>9 DEF vars, files, Lasting, Rewriter
<1>10. CASE Waiting
  <2>1. faults'["write"] = faults["write"]
    BY <1>0, <1>10, WaitingIsQuiet DEF Types
  <2> QED BY <1>10, <2>1, WaitingIsQuiet DEF Lasting, Rewriter, files
<1> QED BY <1>1, <1>2, <1>3, <1>4, <1>5, <1>6, <1>7, <1>8, <1>9, <1>10
        DEF Serve, HandleFailure, Waiting

(* Every step keeps Written.                                               *)
LEMMA NextWritten ==
  ASSUME ~PortTaken, Wired, Written, [Next]_vars
  PROVE  Written'
<1>0. Types /\ Waits
  BY DEF Wired, Local, Wiring
<1>1. CASE Lasting
  BY <1>1 DEF Lasting, Written
<1>2. ASSUME NEW p \in Process, OpenOutput(p)
      PROVE  Written'
  <2>1. /\ UNCHANGED <<task, handler, executions, faults>> /\ task[p] \in Task
        /\ client[p] = "execute" /\ handler[p] = "none"
        /\ client' = [client EXCEPT ![p] = "store"]
        /\ output' = [output EXCEPT ![task[p]] = "broken"]
    BY <1>0, <1>2 DEF OpenOutput, AfterTruncation, Types, Waits
  <2>2. Rewriter(p)' /\ \A q \in Process : Rewriter(q) => Rewriter(q)'
    BY <1>0, <2>1 DEF Rewriter, Types
  <2>3. \A f \in Task : f # task[p] => output'[f] = output[f]
    BY <1>0, <2>1 DEF Types
  <2> QED BY <2>1, <2>2, <2>3 DEF Written
<1>3. ASSUME NEW p \in Process, StoreWordCount(p)
      PROVE  Written'
  <2>1. /\ UNCHANGED <<task, handler, faults>> /\ task[p] \in Task
        /\ client' = [client EXCEPT ![p] = "report"]
        /\ output' = [output EXCEPT ![task[p]] = "complete"]
        /\ executions' = [executions EXCEPT ![task[p]] = @ + 1]
    BY <1>0, <1>3 DEF StoreWordCount, Executed, Types
  <2>2. \A q \in Process : Rewriter(q) /\ task[q] # task[p] => Rewriter(q)'
    BY <1>0, <2>1 DEF Rewriter, Types
  <2>3. \A f \in Task : f # task[p] => output'[f] = output[f] /\ executions'[f] = executions[f]
    BY <1>0, <2>1 DEF Types
  <2>4. output'[task[p]] = "complete"
    BY <1>0, <2>1 DEF Types
  <2> QED BY <2>1, <2>2, <2>3, <2>4 DEF Written
<1>4. ASSUME NEW p \in Process, StoreFails(p)
      PROVE  Written'
  BY <1>0, <1>4 DEF StoreFails, Fault, Types, Written
<1> QED BY <1>1, <1>2, <1>3, <1>4, WorkIsLasting, HandleIsLasting, RestIsLasting
        DEF Next, Proceed, Work, Misfortune, NoticeFailure, Waiting, AskElsewhere

(* At first no task is executed.                                           *)
LEMMA InitWritten == Init => Written
BY DEF Init, Written
-----------------------------------------------------------------------------
(* As long as no process has been lost, nobody is replaced, and the output *)
(* of a task that is reported or completed stays as it is.                 *)

Unhurt ==
  faults["loss"] = 0 =>
    /\ failed = None
    /\ \A p \in Process : /\ watcher[p] \in {"unborn", "registered", "ended"}
                          /\ watcher[p] = "registered" => Alive(p)

(* All the first workers live.                                             *)
LEMMA InitUnhurt == Init => Unhurt
BY DEF Init, Unhurt, Alive

(* The steps of a run without losses. *)
Smooth ==
  \/ \E p \in Process : Proceed(p) \/ Accept(p) \/ Leave(p) \/ StoreFails(p) \/ AcceptBroken(p)
  \/ Serve \/ StopHeartBeat
  \/ UNCHANGED vars

(* Without a loss no answer is missed, and no failure handled.             *)
LEMMA SmoothUnlessLost ==
  ASSUME ~PortTaken, Wired, Unhurt, [Next]_vars, faults'["loss"] = 0
  PROVE  faults["loss"] = 0 /\ Smooth
<1>0. Types /\ (stage = "none" <=> failed = None)
  BY DEF Wired, Local, Wiring, Pooled
<1>1. faults["loss"] \in Nat
  BY <1>0 DEF Types
<1>2. ASSUME NEW p \in Process, Crash(p) \/ SuspectWrongly(p)
      PROVE  FALSE
  BY <1>0, <1>1, <1>2 DEF Crash, SuspectWrongly, Fault, Types
<1>3. ASSUME NEW p \in Process, MissAnswer(p) \/ Notice(p)
      PROVE  FALSE
  <2>1. faults' = faults
    BY <1>3 DEF MissAnswer, Notice
  <2>2. /\ watcher[p] \in {"unborn", "registered", "ended"}
        /\ watcher[p] = "registered" => Alive(p)
    BY <2>1 DEF Unhurt
  <2> QED BY <1>3, <2>2 DEF MissAnswer, Notice, Hearing, Answered
<1>4. HandleFailure \/ ReplaceFails => stage # "none"
  BY DEF HandleFailure, StopFailed, Replace, Deallocate, ReplaceFails, WP!StopFailed,
         WP!Replace, WP!Abandon
<1>5. HandleFailure \/ ReplaceFails => faults'["loss"] = faults["loss"]
  BY <1>0 DEF HandleFailure, StopFailed, Replace, Deallocate, ReplaceFails, Fault, Types
<1>6. ~HandleFailure /\ ~ReplaceFails
  BY <1>0, <1>4, <1>5 DEF Unhurt
<1>7. Smooth
  BY <1>2, <1>3, <1>6 DEF Next, Misfortune, NoticeFailure, AskElsewhere, Smooth
<1>8. faults'["loss"] = faults["loss"]
  <2>1. ASSUME NEW p \in Process, Proceed(p) \/ Accept(p) \/ AcceptBroken(p)
        PROVE  faults' = faults
    BY <2>1
    DEF Proceed, Work, Request, OpenOutput, StoreWordCount, Handle, Mark, CheckFirstRead,
        CheckSecondRead, EnterStopWorker, StopWorker, QueryAvailable, Allocate, Accept,
        AcceptBroken
  <2>2. CASE Serve
    BY <2>2
    DEF Serve, Open, OpenFails, LoopFirstRead, LoopSecondRead, AcceptTimeout, EnterStopNext,
        StopNext, PassVacant, Return
  <2>3. ASSUME NEW p \in Process, Leave(p) \/ StoreFails(p)
        PROVE  faults'["loss"] = faults["loss"]
    BY <1>0, <2>3 DEF Leave, StoreFails, Fault, Types
  <2>4. StopHeartBeat \/ UNCHANGED vars => faults' = faults
    BY DEF StopHeartBeat, vars
  <2> QED BY <1>7, <2>1, <2>2, <2>3, <2>4 DEF Smooth
<1> QED BY <1>7, <1>8

(* Every step keeps Unhurt.                                                *)
LEMMA NextUnhurt ==
  ASSUME ~PortTaken, Wired, Unhurt, [Next]_vars
  PROVE  Unhurt'
<1> SUFFICES ASSUME faults'["loss"] = 0
             PROVE  Unhurt'
  BY DEF Unhurt
<1>0. Local /\ Types
  BY DEF Wired, Local
<1>1. /\ failed = None /\ Smooth
      /\ \A p \in Process : /\ watcher[p] \in {"unborn", "registered", "ended"}
                            /\ watcher[p] = "registered" => Alive(p)
  BY SmoothUnlessLost DEF Unhurt
<1>2. ASSUME failed' = failed, watcher' = watcher, \A p \in Process : Alive(p) => Alive(p)'
      PROVE  Unhurt'
  BY <1>1, <1>2 DEF Unhurt
<1>3. ASSUME NEW w \in Id, Kill(w), WP!Remove(w), failed' = failed
      PROVE  Unhurt'
  <2> DEFINE q == activeWorkerPool[w]
  <2>1. /\ client' = [client EXCEPT ![q] = "dead"]
        /\ watcher' = [watcher EXCEPT ![q] =
                         IF watcher[q] = "registered" THEN "ended" ELSE watcher[q]]
    BY <1>3, KillEffect
  <2>2. ASSUME NEW p \in Process
        PROVE  /\ watcher'[p] \in {"unborn", "registered", "ended"}
               /\ watcher'[p] = "registered" => Alive(p)'
    <3>1. CASE p = q
      BY <1>0, <1>1, <2>1, <3>1 DEF Types
    <3>2. CASE p # q
      BY <1>0, <1>1, <2>1, <3>2 DEF Types, Alive
    <3> QED BY <3>1, <3>2
  <2> QED BY <1>1, <1>3, <2>2 DEF Unhurt
<1>4. ASSUME NEW p \in Process,
             Work(p) \/ Accept(p) \/ Leave(p) \/ StoreFails(p) \/ AcceptBroken(p)
      PROVE  Unhurt'
  <2>1. /\ UNCHANGED processVars
        /\ \A q \in Process : client[q] \notin {"unborn", "dead"} =>
                                client'[q] \notin {"unborn", "dead"}
    BY <1>0, <1>4
    DEF Work, Request, OpenOutput, StoreWordCount, Leave, StoreFails, Accept, AcceptBroken,
        AfterTruncation, Types
  <2> QED BY <1>2, <2>1 DEF processVars, watchVars, Alive
<1>5. ASSUME NEW p \in Process, Handle(p), ~StopWorker(p)
      PROVE  Unhurt'
  <2>1. UNCHANGED <<failed, watcher>>
    BY <1>5
    DEF Handle, Mark, CheckFirstRead, CheckSecondRead, EnterStopWorker, EnterStop,
        QueryAvailable, Allocate, processVars, watchVars
  <2>2. \A q \in Process : client[q] \notin {"unborn", "dead"} =>
                             client'[q] \notin {"unborn", "dead"}
    <3>1. CASE Mark(p) \/ CheckFirstRead(p) \/ CheckSecondRead(p) \/ EnterStopWorker(p)
      BY <3>1 DEF Mark, CheckFirstRead, CheckSecondRead, EnterStopWorker
    <3>2. CASE QueryAvailable(p) \/ Allocate(p)
      BY <1>0, <3>2 DEF QueryAvailable, Allocate, AnswerTask, AnswerWait, Types
    <3> QED BY <1>5, <3>1, <3>2 DEF Handle
  <2> QED BY <1>2, <2>1, <2>2 DEF Alive
<1>6. ASSUME NEW p \in Process, StopWorker(p)
      PROVE  Unhurt'
  <2>1. id[p] \in Id
    BY <1>0, <1>6, StopWorkerEffect
  <2>2. CASE Kill(id[p]) /\ WP!Remove(id[p]) /\ UNCHANGED <<failed, stage>>
    BY <1>3, <2>1, <2>2
  <2>3. CASE UNCHANGED <<client, processVars>>
    BY <1>2, <2>3 DEF processVars, watchVars, Alive
  <2> QED BY <1>0, <1>6, <2>2, <2>3, StopWorkerEffect
<1>7. CASE StopNext
  BY <1>3, <1>7, StopNextEffect
<1>8. CASE \/ Open \/ OpenFails \/ LoopFirstRead \/ LoopSecondRead \/ AcceptTimeout
           \/ PassVacant \/ Return
  BY <1>0, <1>2, <1>8, ServeEffect DEF processVars, watchVars, Alive
<1>9. CASE EnterStopNext \/ StopHeartBeat
  BY <1>2, <1>9 DEF EnterStopNext, EnterStop, StopHeartBeat, watchVars, Alive
<1>10. CASE UNCHANGED vars
  BY <1>2, <1>10 DEF vars, processVars, watchVars, Alive
<1> QED BY <1>1, <1>4, <1>5, <1>6, <1>7, <1>8, <1>9, <1>10 DEF Smooth, Proceed, Serve

Stored(f) == output[f] = "complete" \/ faults["write"] > 0

Whole ==
  /\ \A p \in Process : Busy(p) => ongoingTaskAllocationMap[id[p]] = task[p]
  /\ \A p \in Process : Reporting(p) => Stored(task[p])
  /\ \A f \in completed : Stored(f)

Intact == faults["loss"] = 0 => Whole

(* Most steps of such a run change neither the map nor an output. *)
LEMMA StillSteps ==
  ASSUME Wired, Smooth
  PROVE  \/ Calm /\ Lasting /\ ongoingTaskAllocationMap' = ongoingTaskAllocationMap
         \/ \E p \in Process : OpenOutput(p) \/ StoreWordCount(p) \/ StoreFails(p) \/ Mark(p)
                                 \/ CheckSecondRead(p) \/ Allocate(p)
<1>1. ASSUME NEW p \in Process,
             Request(p) \/ Leave(p) \/ Accept(p) \/ AcceptBroken(p)
      PROVE  Calm /\ Lasting /\ ongoingTaskAllocationMap' = ongoingTaskAllocationMap
  BY <1>1, WorkIsCalm, WorkIsLasting DEF Request, Leave, Accept, AcceptBroken, taskVars
<1>2. ASSUME NEW p \in Process, CheckFirstRead(p) \/ QueryAvailable(p) \/ StopWorker(p)
      PROVE  Calm /\ Lasting /\ ongoingTaskAllocationMap' = ongoingTaskAllocationMap
  <2>1. Calm /\ Lasting
    BY <1>2, RestIsCalm, HandleIsLasting DEF Handle
  <2> QED BY <1>2, <2>1
      DEF CheckFirstRead, TM!CompletedFirstRead, TM!pools, QueryAvailable, StopWorker, taskVars
<1>3. CASE Serve \/ StopHeartBeat \/ UNCHANGED vars
  <2>1. Calm /\ Lasting
    BY <1>3, RestIsCalm, RestIsLasting DEF Waiting
  <2> QED BY <1>3, <2>1
      DEF Serve, Open, OpenFails, LoopFirstRead, LoopSecondRead, AcceptTimeout, EnterStopNext,
          StopNext, PassVacant, Return, TM!CompletedFirstRead, TM!CompletedSecondRead, TM!pools,
          StopHeartBeat, taskVars, vars
<1>4. ASSUME NEW p \in Process, EnterStopWorker(p)
      PROVE  Calm /\ Lasting /\ ongoingTaskAllocationMap' = ongoingTaskAllocationMap
  BY <1>4, RestIsCalm, RestIsLasting DEF Waiting, EnterStopWorker, taskVars
<1> QED BY <1>1, <1>2, <1>3, <1>4 DEF Smooth, Proceed, Work, Handle

(* Nobody else is busy with the task of a busy process. *)
LEMMA BusyAlone ==
  ASSUME Wired, Placed, NEW p \in Process, client[p] = "execute", NEW q \in Process, Busy(q),
         ongoingTaskAllocationMap[id[p]] = task[p],
         ongoingTaskAllocationMap[id[q]] = task[q], task[p] = task[q], q # p
  PROVE  FALSE
<1>0. Types /\ Waits /\ Pooled
  BY DEF Wired, Local, Wiring
<1>1. id[p] \in Id /\ id[q] \in Id /\ task[p] # None
  BY <1>0, LocalDomains DEF Wired, Busy, Reporting, Types
<1>2. id[p] = id[q]
  BY <1>1 DEF Wired, TMP!TaskConservation
<1>3. activeWorkerPool[id[p]] = p /\ Engaged(p)
  BY <1>0 DEF Pooled, Alive, Engaged
<1>4. CASE handler[q] # "none"
  BY <1>2, <1>3, <1>4 DEF Placed
<1>5. CASE handler[q] = "none"
  <2>1. activeWorkerPool[id[q]] = q
    BY <1>0, <1>5 DEF Busy, Reporting, Pooled, Alive
  <2> QED BY <1>2, <1>3, <2>1
<1> QED BY <1>4, <1>5

(* At first no task is reported or completed.                              *)
LEMMA InitIntact == Init => Intact
BY NoneIsNothing DEF Init, TM!Init, Intact, Whole, Busy, Reporting

(* Every step keeps Intact.                                                *)
LEMMA NextIntact ==
  ASSUME ~PortTaken, Wired, Placed, Earned, Unhurt, Intact, [Next]_vars
  PROVE  Intact'
<1> SUFFICES ASSUME faults'["loss"] = 0
             PROVE  Whole'
  BY DEF Intact
<1>0. /\ Local /\ Types /\ Waits
      /\ ongoingTaskAllocationMap \in [Id -> Task \union {None}]
      /\ \A p \in Process : Busy(p) => id[p] \in Id
  BY LocalDomains DEF Wired, Local, Wiring, Busy, Reporting
<1>1. /\ Smooth
      /\ \A p \in Process : Busy(p) => ongoingTaskAllocationMap[id[p]] = task[p]
      /\ \A p \in Process : Reporting(p) => Stored(task[p])
      /\ \A f \in completed : Stored(f)
  BY SmoothUnlessLost DEF Intact, Whole
<1>2. CASE Calm /\ Lasting /\ ongoingTaskAllocationMap' = ongoingTaskAllocationMap
  BY <1>1, <1>2 DEF Calm, Lasting, Stored, Whole
<1>3. ASSUME NEW p \in Process, OpenOutput(p)
      PROVE  Whole'
  <2>1. /\ UNCHANGED <<ongoingTaskAllocationMap, completed, id, task, handler, faults>>
        /\ client[p] = "execute" /\ task[p] \in Task
        /\ client' = [client EXCEPT ![p] = "store"]
        /\ \A f \in Task : f # task[p] => output'[f] = output[f]
    BY <1>0, <1>3 DEF OpenOutput, AfterTruncation, taskVars, processVars, Types
  <2>2. /\ \A q \in Process : /\ Busy(q)' => Busy(q)
                              /\ Reporting(q)' => Reporting(q) /\ Busy(q) /\ q # p
        /\ Busy(p)
    BY <1>0, <2>1 DEF Busy, Reporting, Types, Waits
  <2>3. task[p] \notin completed
    <3>1. task[p] \in TMP!Ongoing
      BY <1>0, <1>1, <2>1, <2>2, NoneIsNothing DEF TMP!Ongoing
    <3> QED BY <3>1 DEF Wired, TMP!TaskConservation
  <2>4. \A q \in Process : Reporting(q)' => task[q] \in Task /\ task[q] # task[p]
    <3>1. \A q \in Process : Reporting(q)' => task[q] # task[p]
      BY <1>1, <2>1, <2>2, BusyAlone
    <3> QED BY <1>0, <2>2, <3>1 DEF Earned, Types
  <2>5. completed \subseteq Task
    BY <1>0, LocalDomains
  <2> QED BY <1>1, <2>1, <2>2, <2>3, <2>4, <2>5 DEF Stored, Whole
<1>4. ASSUME NEW p \in Process, StoreWordCount(p) \/ StoreFails(p)
      PROVE  Whole'
  <2>1. /\ UNCHANGED <<ongoingTaskAllocationMap, completed, id, task, handler>>
        /\ client[p] = "store" /\ task[p] \in Task
        /\ client' = [client EXCEPT ![p] = "report"]
        /\ \/ output' = [output EXCEPT ![task[p]] = "complete"] /\ faults' = faults
           \/ faults'["write"] > 0
    BY <1>0, <1>4 DEF StoreWordCount, StoreFails, Fault, taskVars, processVars, Types
  <2>2. \A q \in Process : /\ Busy(q)' => Busy(q)
                           /\ Reporting(q)' => Reporting(q) \/ q = p
                           /\ Reporting(q) => task[q] \in Task
    <3>1. \A q \in Process : /\ Busy(q)' => Busy(q)
                             /\ Reporting(q)' => Reporting(q) \/ q = p
      BY <1>0, <2>1 DEF Busy, Reporting, Types
    <3> QED BY <1>0, <3>1 DEF Earned, Busy, Types
  <2>3. \A f \in Task : Stored(f) \/ f = task[p] => Stored(f)'
    BY <1>0, <2>1 DEF Stored, Types
  <2>4. completed \subseteq Task
    BY <1>0, LocalDomains
  <2>5. \A f \in completed' : Stored(f)'
    BY <1>1, <2>1, <2>3, <2>4
  <2>6. \A q \in Process : Reporting(q)' => Stored(task[q])'
    <3> SUFFICES ASSUME NEW q \in Process, Reporting(q)' PROVE Stored(task[q])'
      OBVIOUS
    <3>1. PICK f \in Task : f = task[q]
      BY <2>1, <2>2
    <3>2. Stored(f) \/ f = task[p]
      BY <1>1, <2>2, <3>1
    <3> QED BY <2>1, <2>3, <3>1, <3>2
  <2> QED BY <1>1, <2>1, <2>2, <2>5, <2>6 DEF Whole
<1>5. ASSUME NEW p \in Process, Mark(p)
      PROVE  Whole'
  <2>1. /\ handler[p] = "mark" /\ handler' = [handler EXCEPT ![p] = "check"] /\ id[p] \in Id
        /\ ongoingTaskAllocationMap' = [ongoingTaskAllocationMap EXCEPT ![id[p]] = None]
        /\ completed' = completed \union ({ongoingTaskAllocationMap[id[p]]} \ {None})
        /\ UNCHANGED <<client, task, id, output, faults>>
    BY <1>0, <1>5, MarkEffect DEF processVars, files
  <2>2. \A q \in Process : /\ Busy(q)' => Busy(q) /\ q # p
                           /\ Reporting(q)' => Reporting(q)
    BY <1>0, <2>1 DEF Busy, Reporting, Types, Waits
  <2>3. \A q \in Process : Busy(q) /\ q # p => id[q] # id[p]
    <3>1. \A q \in Process : Busy(q) => Engaged(q)
      BY DEF Busy, Reporting, Engaged
    <3> QED BY <2>1, <3>1 DEF Placed
  <2>4. Busy(p) /\ Reporting(p)
    BY <2>1 DEF Busy, Reporting
  <2> QED BY <1>0, <1>1, <2>1, <2>2, <2>3, <2>4 DEF Stored, Whole
<1>6. ASSUME NEW p \in Process, CheckSecondRead(p)
      PROVE  Whole'
  <2>1. /\ handler[p] = "check"
        /\ UNCHANGED <<ongoingTaskAllocationMap, completed, client, task, id, output, faults>>
        /\ \E a \in {"check", "query", "stop"} : handler' = [handler EXCEPT ![p] = a]
    BY <1>0, <1>6, CheckEffect DEF processVars, files
  <2>2. \A q \in Process : (Busy(q)' => Busy(q)) /\ (Reporting(q)' => Reporting(q))
    BY <1>0, <2>1 DEF Busy, Reporting, Types
  <2> QED BY <1>1, <2>1, <2>2 DEF Stored, Whole
<1>7. ASSUME NEW p \in Process, Allocate(p)
      PROVE  Whole'
  <2>1. /\ handler[p] = "allocate" /\ id[p] \in Id /\ UNCHANGED <<id, output, faults>>
        /\ ~Busy(p) /\ client[p] \notin {"execute", "store", "report"}
    BY <1>0, <1>7, AllocateEffect DEF processVars, files, Waits, Busy, Reporting
  <2>2. CASE \/ AnswerWait(p) /\ UNCHANGED taskVars
             \/ AllocatePollEffect(p)
    <3>1. UNCHANGED <<ongoingTaskAllocationMap, completed, task>>
      BY <2>2 DEF AnswerWait, AllocatePollEffect, taskVars
    <3>2. \A q \in Process : (Busy(q)' => Busy(q)) /\ (Reporting(q)' => Reporting(q))
      BY <1>0, <2>1, <2>2 DEF AnswerWait, AllocatePollEffect, Busy, Reporting, Types
    <3> QED BY <1>1, <2>1, <3>1, <3>2 DEF Stored, Whole
  <2>3. ASSUME NEW f \in Task, AnswerTask(p, f), completed' = completed,
               ongoingTaskAllocationMap' = [ongoingTaskAllocationMap EXCEPT ![id[p]] = f]
        PROVE  Whole'
    <3>1. /\ handler' = [handler EXCEPT ![p] = "none"]
          /\ \A q \in Process : q # p => client'[q] = client[q] /\ task'[q] = task[q]
          /\ task'[p] = f /\ client'[p] # "report"
      BY <1>0, <2>1, <2>3 DEF AnswerTask, Types
    <3>2. \A q \in Process : Busy(q)' => q = p \/ (Busy(q) /\ q # p /\ id[q] # id[p])
      <4>1. \A q \in Process : Busy(q) => Engaged(q)
        BY DEF Busy, Reporting, Engaged
      <4>2. \A q \in Process : Busy(q)' /\ q # p => Busy(q)
        BY <1>0, <3>1 DEF Busy, Reporting, Types
      <4> QED BY <2>1, <4>1, <4>2 DEF Placed
    <3>3. \A q \in Process : Reporting(q)' => Reporting(q) /\ q # p
      BY <1>0, <3>1 DEF Reporting, Types
    <3>4. /\ ongoingTaskAllocationMap'[id[p]] = f
          /\ \A q \in Process : Busy(q) /\ id[q] # id[p] =>
               ongoingTaskAllocationMap'[id[q]] = ongoingTaskAllocationMap[id[q]]
      BY <1>0, <2>1, <2>3
    <3> QED BY <1>1, <2>1, <2>3, <3>1, <3>2, <3>3, <3>4 DEF Stored, Whole
  <2>4. CASE AllocateSameEffect(p)
    <3>1. /\ ongoingTaskAllocationMap[id[p]] \in Task
          /\ UNCHANGED <<ongoingTaskAllocationMap, completed>>
      BY <1>0, <2>1, <2>4 DEF AllocateSameEffect, taskVars
    <3>2. ongoingTaskAllocationMap'
            = [ongoingTaskAllocationMap EXCEPT ![id[p]] = ongoingTaskAllocationMap[id[p]]]
      BY <1>0, <3>1
    <3> QED BY <2>3, <2>4, <3>1, <3>2 DEF AllocateSameEffect
  <2>5. CASE AllocatePutEffect(p)
    <3>1. workerId[p] = id[p]
      BY <2>5 DEF AllocatePutEffect, Wired, Wiring, Linked
    <3> QED BY <2>3, <2>5, <3>1 DEF AllocatePutEffect
  <2> QED BY <1>0, <1>7, <2>2, <2>4, <2>5, AllocateEffect
<1> QED BY <1>1, <1>2, <1>3, <1>4, <1>5, <1>6, <1>7, StillSteps

(* WordCounter.storeWordCount truncates the output before it writes it:    *)
(* with prompt handlers, the output of a completed task is whole, unless a *)
(* write failed, or a process was lost and the task is written once more.  *)
THEOREM OutputsOfCompleted ==
  ASSUME PromptHandlers
  PROVE  Spec => []OutputOfCompleted
<1>1. Spec => [](PortTaken \/ (Placed /\ Earned))
  BY CompletionIsEarned
<1>2. Init => Written /\ Unhurt /\ Intact
  BY InitWritten, InitUnhurt, InitIntact
<1>3. /\ Wired /\ (PortTaken \/ (Placed /\ Earned)) /\ [Next]_vars
      /\ (PortTaken \/ (Written /\ Unhurt /\ Intact))
      => (PortTaken \/ (Written /\ Unhurt /\ Intact))'
  <2> SUFFICES ASSUME Wired, PortTaken \/ (Placed /\ Earned), [Next]_vars,
                      PortTaken \/ (Written /\ Unhurt /\ Intact), ~PortTaken
               PROVE  Written' /\ Unhurt' /\ Intact'
    BY SamePort
  <2>1. Written'
    BY NextWritten
  <2>2. Unhurt'
    BY NextUnhurt
  <2>3. Intact'
    BY NextIntact
  <2> QED BY <2>1, <2>2, <2>3
<1>4. Wired /\ Earned /\ Written /\ Intact => OutputOfCompleted
  <2> SUFFICES ASSUME Wired, Earned, Written, Intact, NEW f \in completed
               PROVE  \/ output[f] = "complete" \/ faults["write"] > 0
                      \/ faults["loss"] > 0 /\ Rewriting(f)
    BY DEF OutputOfCompleted
  <2>1. f \in Task /\ executions[f] > 0 /\ faults["loss"] \in Nat
    BY LocalDomains DEF Wired, Local, Types, Earned, CompletedWasExecuted
  <2>2. CASE faults["loss"] = 0
    BY <2>2 DEF Intact, Whole, Stored
  <2>3. CASE faults["loss"] > 0
    BY <2>1, <2>3 DEF Written, Rewriter, Rewriting
  <2> QED BY <2>1, <2>2, <2>3
<1>5. Unserved /\ PortTaken => OutputOfCompleted
  BY DEF Unserved, OutputOfCompleted
<1> QED BY <1>1, <1>2, <1>3, <1>4, <1>5, AlwaysWired, NeverServed, PTL DEF Spec

(* A worker that was given the task has died, or left its loop. *)
Abandoned(f) == \E p \in Process : task[p] = f /\ client[p] \in {"left", "dead"}

ReadByMerger ==
  main = "returned" =>
    \A f \in completed :
      output[f] = "complete" \/ faults["write"] > 0 \/ (faults["loss"] > 0 /\ Abandoned(f))

(* What the merger reads when the server has returned (and what does not   *)
(* change then, by OutputsStaySettled): the output of each completed task, *)
(* whole unless a write failed, or a process was lost and a worker with    *)
(* the task has died or left.                                              *)
THEOREM MergerReadsWhatIsSettled ==
  ASSUME PromptHandlers
  PROVE  Spec => []ReadByMerger
<1>1. OutputOfCompleted /\ Settled /\ Unserved => ReadByMerger
  BY DEF OutputOfCompleted, Rewriting, Settled, Idle, ReadByMerger, Abandoned, Unserved
<1>2. Spec => []OutputOfCompleted
  BY OutputsOfCompleted
<1> QED BY <1>1, <1>2, SettledAfterReturn, NeverServed, PTL
-----------------------------------------------------------------------------
(* No task is forgotten.  A process that is still to be started has no     *)
(* task, ...                                                               *)

Fresh == \A p \in Process : client[p] = "unborn" => task[p] = None

(* ... and as long as the server has not stopped, the process of an id     *)
(* with a task is busy with it, or has left with it, or is dead; unless    *)
(* the failure of the id is being handled, or somebody was not replaced.   *)
Kept(w) ==
  \/ /\ activeWorkerPool[w] # None
     /\ \/ client[activeWorkerPool[w]] = "dead"
        \/ /\ task[activeWorkerPool[w]] = ongoingTaskAllocationMap[w]
           /\ Busy(activeWorkerPool[w]) \/ client[activeWorkerPool[w]] = "left"
  \/ /\ faults["build"] > 0
     /\ activeWorkerPool[w] = None \/ task[activeWorkerPool[w]] = None

Remembered ==
  \A w \in Id : ~Stopped /\ ongoingTaskAllocationMap[w] # None /\ failed # w => Kept(w)

(* Every step keeps Fresh.                                                 *)
LEMMA NextFresh ==
  ASSUME Wired, Wired', Fresh, [Next]_vars
  PROVE  Fresh'
<1>0. Local /\ Types /\ CallInv /\ CallInv'
  BY DEF Wired, Local
<1>1. spawned' \in {spawned, spawned + 1}
  BY <1>0, StepWorkerPool
  DEF WP!Next, WP!vars, WP!poolVars, WP!failureVars, WP!Start, WP!NewProcess, WP!NoProcess,
      WP!Stop, WP!Notice, WP!Remove, WP!Die, WP!StopFailed, WP!Replace, WP!Abandon,
      WP!HandBack
<1>2. \A p \in Process : client'[p] = "unborn" => client[p] = "unborn"
  BY <1>0, <1>1 DEF CallInv, Failures, Process
<1>3. ASSUME NEW p \in Process, Allocate(p)
      PROVE  client[p] # "unborn" /\ \A q \in Process : q # p => task'[q] = task[q]
  <2>1. client[p] # "unborn"
    BY <1>0, <1>3, LocalDomains DEF Allocate
  <2>2. \A q \in Process : q # p => task'[q] = task[q]
    BY <1>0, <1>3, AllocateEffect
    DEF AllocateSameEffect, AllocatePollEffect, AllocatePutEffect, AnswerTask, AnswerWait, Types
  <2> QED BY <2>1, <2>2
<1>4. ASSUME NEW p \in Process, AskElsewhere(p)
      PROVE  client[p] # "unborn" /\ \A q \in Process : q # p => task'[q] = task[q]
  BY <1>0, <1>4 DEF AskElsewhere, Types
<1>5. task' = task \/ \E p \in Process : Allocate(p) \/ AskElsewhere(p)
  <2>1. ASSUME NEW p \in Process,
               Proceed(p) \/ Accept(p) \/ Leave(p) \/ StoreFails(p) \/ AcceptBroken(p), ~Allocate(p)
        PROVE  task' = task
    BY <2>1
    DEF Proceed, Work, Request, OpenOutput, StoreWordCount, Handle, Mark, CheckFirstRead,
        CheckSecondRead, EnterStopWorker, StopWorker, QueryAvailable, AnswerWait, Accept, Leave,
        StoreFails, AcceptBroken
  <2>2. CASE Serve \/ HandleFailure \/ ReplaceFails
    BY <2>2
    DEF Serve, Open, OpenFails, LoopFirstRead, LoopSecondRead, AcceptTimeout, EnterStopNext,
        StopNext, PassVacant, Return, HandleFailure, StopFailed, Replace, Deallocate, ReplaceFails
  <2>3. CASE Waiting
    BY <2>3, WaitingIsQuiet
  <2>4. ASSUME NEW p \in Process, Crash(p) \/ Notice(p)
        PROVE  task' = task
    BY <2>4 DEF Crash, Notice
  <2>5. CASE UNCHANGED vars
    BY <2>5 DEF vars
  <2> QED BY <2>1, <2>2, <2>3, <2>4, <2>5 DEF Next, Misfortune, NoticeFailure, Waiting
<1> QED BY <1>2, <1>3, <1>4, <1>5 DEF Fresh

(* Most steps change no task, and nobody who has one lets go of it. *)
Steady ==
  /\ UNCHANGED <<task, ongoingTaskAllocationMap, activeWorkerPool, failed>>
  /\ Stopped => Stopped'
  /\ faults["build"] > 0 => faults'["build"] > 0
  /\ \A p \in Process :
       /\ client[p] = "dead" => client'[p] = "dead"
       /\ Busy(p) \/ client[p] = "left" =>
            (Busy(p) \/ client[p] = "left")' \/ client'[p] = "dead"

(* A steady step keeps Remembered.                                         *)
LEMMA SteadyRemembers ==
  ASSUME Wired, Remembered, Steady
  PROVE  Remembered'
<1> SUFFICES ASSUME NEW w \in Id, ~Stopped', ongoingTaskAllocationMap'[w] # None, failed' # w
             PROVE  Kept(w)'
  BY DEF Remembered
<1>1. Kept(w)
  BY DEF Remembered, Steady
<1>2. activeWorkerPool[w] \in Process \union {None}
  BY DEF Wired, Local, Types
<1> QED BY <1>1, <1>2 DEF Steady, Kept, Busy, Reporting

(* A worker's steps are steady.                                            *)
LEMMA WorkIsSteady ==
  ASSUME Wired, NEW p \in Process,
         Work(p) \/ Leave(p) \/ StoreFails(p) \/ Accept(p) \/ AcceptBroken(p)
  PROVE  Steady
<1>0. Types /\ Waits /\ (handler[p] # "none" => client[p] # "unborn")
  BY LocalDomains DEF Wired, Local, Wiring
<1>1. /\ UNCHANGED <<taskVars, task, processVars>>
      /\ main \in {"stop", "returned"} => main' = main
      /\ faults["build"] > 0 => faults'["build"] > 0
      /\ \A q \in Process : q # p => client'[q] = client[q] /\ handler'[q] = handler[q]
      /\ client[p] = "dead" => client'[p] = "dead"
      /\ Busy(p) \/ client[p] = "left" =>
           (Busy(p) \/ client[p] = "left")' \/ client'[p] = "dead"
  <2>1. CASE Request(p)
    BY <1>0, <2>1 DEF Request, Listening, Busy, Reporting, Types
  <2>2. CASE OpenOutput(p)
    BY <1>0, <2>2 DEF OpenOutput, AfterTruncation, Busy, Reporting, Types
  <2>3. CASE StoreWordCount(p)
    BY <1>0, <2>3 DEF StoreWordCount, Busy, Reporting, Types
  <2>4. CASE StoreFails(p)
    BY <1>0, <2>4 DEF StoreFails, Fault, Busy, Reporting, Types
  <2>5. CASE Leave(p)
    BY <1>0, <2>5 DEF Leave, Fault, Busy, Reporting, Types
  <2>6. CASE Accept(p)
    BY <1>0, <2>6 DEF Accept, FirstStep, Busy, Reporting, Types
  <2>7. CASE AcceptBroken(p)
    BY <1>0, <2>7 DEF AcceptBroken, Alive, Busy, Reporting, Types
  <2> QED BY <2>1, <2>2, <2>3, <2>4, <2>5, <2>6, <2>7 DEF Work
<1> QED BY <1>1 DEF Steady, Stopped, Busy, Reporting, taskVars, processVars

(* So are those of the main loop, short of stopping, the handlers that     *)
(* only read, a thread that waits, and the death of a process.             *)
LEMMA RestIsSteady ==
  ASSUME Wired,
         \/ Serve /\ ~StopNext
         \/ Waiting
         \/ \E p \in Process : \/ Crash(p) \/ CheckFirstRead(p) \/ CheckSecondRead(p)
                               \/ QueryAvailable(p)
         \/ UNCHANGED vars
  PROVE  Steady
<1>0. Local /\ Types /\ Waits
  BY DEF Wired, Local, Wiring
<1>1. CASE \/ Open \/ OpenFails \/ LoopFirstRead \/ LoopSecondRead \/ AcceptTimeout
           \/ PassVacant \/ Return
  BY <1>0, <1>1, ServeEffect DEF Steady, Stopped, Busy, Reporting, processVars, Types
<1>2. ASSUME NEW p \in Process, Crash(p)
      PROVE  Steady
  BY <1>0, <1>2
  DEF Crash, Fault, WP!Die, WP!failureVars, Steady, Stopped, Busy, Reporting, taskVars, Types
<1>3. ASSUME NEW p \in Process, CheckFirstRead(p) \/ CheckSecondRead(p)
      PROVE  Steady
  <2>1. /\ handler[p] = "check"
        /\ UNCHANGED <<ongoingTaskAllocationMap, main, client, task, processVars, faults>>
        /\ \E a \in {"check", "query", "stop"} : handler' = [handler EXCEPT ![p] = a]
    BY <1>0, <1>3, CheckEffect
  <2> QED BY <1>0, <2>1 DEF Steady, Stopped, Busy, Reporting, processVars, Types
<1>4. ASSUME NEW p \in Process, QueryAvailable(p)
      PROVE  Steady
  BY <1>0, <1>4
  DEF QueryAvailable, AnswerWait, Steady, Stopped, Busy, Reporting, taskVars, processVars, Types
<1>5. CASE UNCHANGED vars
  BY <1>5 DEF vars, taskVars, processVars, Steady, Stopped, Busy, Reporting
<1>6. CASE Waiting
  <2>1. /\ UNCHANGED <<task, ongoingTaskAllocationMap, activeWorkerPool, failed, main, handler,
                       client>>
        /\ faults' = faults \/ faults' = [faults EXCEPT !["loss"] = @ + 1]
    BY <1>6, WaitingIsQuiet DEF taskVars
  <2>2. faults'["build"] = faults["build"]
    BY <1>0, <2>1 DEF Types
  <2> QED BY <2>1, <2>2 DEF Steady, Stopped, Busy, Reporting
<1> QED BY <1>1, <1>2, <1>3, <1>4, <1>5, <1>6 DEF Serve, Waiting

(* A worker that is stopped has no task, or its failure is being handled.  *)
LEMMA KillRemembers ==
  ASSUME Wired, Remembered, NEW w \in Id, Kill(w), WP!Remove(w),
         UNCHANGED <<taskVars, main, task, failed, faults>>,
         \A p \in Process : handler'[p] = handler[p] \/ handler[p] = "stop",
         ongoingTaskAllocationMap[w] = None \/ failed = w
  PROVE  Remembered'
<1>0. Types /\ Pooled
  BY DEF Wired, Local, Wiring
<1> SUFFICES ASSUME NEW v \in Id, ~Stopped', ongoingTaskAllocationMap'[v] # None, failed' # v
             PROVE  Kept(v)'
  BY DEF Remembered
<1>1. v # w /\ Kept(v)
  BY DEF Remembered, Stopped, taskVars
<1>2. /\ activeWorkerPool[w] # None
      /\ client' = [client EXCEPT ![activeWorkerPool[w]] = "dead"]
      /\ activeWorkerPool' = [activeWorkerPool EXCEPT ![w] = None]
  BY KillEffect
<1>3. activeWorkerPool'[v] = activeWorkerPool[v] /\ activeWorkerPool[v] \in Process \union {None}
  BY <1>0, <1>1, <1>2 DEF Types
<1>4. activeWorkerPool[v] # None =>
        /\ activeWorkerPool[v] # activeWorkerPool[w]
        /\ client'[activeWorkerPool[v]] = client[activeWorkerPool[v]]
  BY <1>0, <1>1, <1>2, <1>3 DEF Pooled, Types
<1> QED BY <1>1, <1>3, <1>4 DEF Kept, Busy, Reporting, taskVars

(* An answer with a task: the process of the id is its receiver. *)
LEMMA AnswerRemembers ==
  ASSUME Wired, Placed, Remembered, NEW p \in Process, handler[p] = "allocate",
         NEW f \in Task, AnswerTask(p, f),
         UNCHANGED <<main, processVars, faults>>,
         ongoingTaskAllocationMap' = [ongoingTaskAllocationMap EXCEPT ![id[p]] = f]
  PROVE  Remembered'
<1>0. /\ Types /\ Pooled /\ Waits /\ ongoingTaskAllocationMap \in [Id -> Task \union {None}]
      /\ id[p] \in Id /\ client[p] # "unborn"
  BY LocalDomains DEF Wired, Local, Wiring
<1>1. /\ \A q \in Process : q # p => /\ handler'[q] = handler[q] /\ client'[q] = client[q]
                                     /\ task'[q] = task[q]
      /\ task'[p] = f /\ client'[p] \in {"execute", "left", "dead"}
  BY <1>0 DEF AnswerTask, Types, Waits
<1> SUFFICES ASSUME NEW w \in Id, ~Stopped', ongoingTaskAllocationMap'[w] # None, failed' # w
             PROVE  Kept(w)'
  BY DEF Remembered
<1>2. CASE w = id[p]
  <2>1. activeWorkerPool[w] = p /\ p # None
    BY <1>2, NoneIsNothing DEF Placed, Stopped
  <2> QED BY <1>0, <1>1, <1>2, <2>1 DEF Kept, Busy, processVars
<1>3. CASE w # id[p]
  <2>1. Kept(w) /\ ongoingTaskAllocationMap'[w] = ongoingTaskAllocationMap[w]
    BY <1>0, <1>3 DEF Remembered, Stopped, processVars
  <2>2. activeWorkerPool[w] \in Process \union {None} /\ activeWorkerPool[w] # p
    BY <1>0, <1>3, NoneIsNothing DEF Types, Pooled
  <2> QED BY <1>1, <2>1, <2>2 DEF Kept, Busy, Reporting, processVars
<1> QED BY <1>2, <1>3

(* The handlers of a report and of a request keep Remembered.              *)
LEMMA HandleRemembers ==
  ASSUME Wired, Placed, Earned, Remembered, NEW p \in Process, Handle(p)
  PROVE  Remembered'
<1>0. /\ Local /\ Types /\ Pooled /\ Waits
      /\ ongoingTaskAllocationMap \in [Id -> Task \union {None}]
  BY LocalDomains DEF Wired, Local, Wiring
<1>1. CASE Mark(p)
  <2>1. /\ handler[p] = "mark" /\ handler' = [handler EXCEPT ![p] = "check"] /\ id[p] \in Id
        /\ ongoingTaskAllocationMap' = [ongoingTaskAllocationMap EXCEPT ![id[p]] = None]
        /\ UNCHANGED <<main, client, task, processVars, faults>>
    BY <1>0, <1>1, MarkEffect
  <2> SUFFICES ASSUME NEW w \in Id, ~Stopped', ongoingTaskAllocationMap'[w] # None, failed' # w
               PROVE  Kept(w)'
    BY DEF Remembered
  <2>2. w # id[p] /\ ongoingTaskAllocationMap'[w] = ongoingTaskAllocationMap[w] /\ Kept(w)
    BY <1>0, <2>1 DEF Remembered, Stopped, processVars
  <2>3. activeWorkerPool[w] \in Process \union {None} /\ activeWorkerPool[w] # p
    BY <1>0, <2>2, NoneIsNothing DEF Types, Pooled
  <2>4. \A q \in Process : q # p => handler'[q] = handler[q]
    BY <1>0, <2>1 DEF Types
  <2> QED BY <2>1, <2>2, <2>3, <2>4 DEF Kept, Busy, Reporting, processVars
<1>2. CASE CheckFirstRead(p) \/ CheckSecondRead(p) \/ QueryAvailable(p)
  BY <1>2, RestIsSteady, SteadyRemembers
<1>5. CASE EnterStopWorker(p)
  <2>1. Waiting
    BY <1>5 DEF Waiting
  <2> QED BY <2>1, RestIsSteady, SteadyRemembers
<1>3. CASE StopWorker(p)
  <2>1. /\ handler[p] = "stop" /\ handler' = [handler EXCEPT ![p] = "none"] /\ id[p] \in Id
        /\ UNCHANGED <<taskVars, main, task, faults>>
        /\ ongoingTaskAllocationMap[id[p]] = None
    BY <1>0, <1>3, StopWorkerEffect DEF Earned
  <2>2. \A q \in Process : handler'[q] = handler[q] \/ handler[q] = "stop"
    BY <1>0, <2>1 DEF Types
  <2>3. CASE Kill(id[p]) /\ WP!Remove(id[p]) /\ UNCHANGED <<failed, stage>>
    BY <2>1, <2>2, <2>3, KillRemembers
  <2>4. CASE UNCHANGED <<client, processVars>>
    <3>1. Steady
      BY <2>1, <2>2, <2>4 DEF Steady, Stopped, Busy, Reporting, taskVars, processVars
    <3> QED BY <3>1, SteadyRemembers
  <2> QED BY <1>0, <1>3, <2>3, <2>4, StopWorkerEffect
<1>4. CASE Allocate(p)
  <2>1. handler[p] = "allocate" /\ id[p] \in Id /\ UNCHANGED <<main, processVars, faults>>
    BY <1>0, <1>4, AllocateEffect
  <2>2. CASE \/ AnswerWait(p) /\ UNCHANGED taskVars
             \/ AllocatePollEffect(p)
    <3>1. /\ UNCHANGED <<task, ongoingTaskAllocationMap>>
          /\ \A q \in Process : /\ client[q] = "dead" => client'[q] = "dead"
                                /\ client[q] = "left" => client'[q] = "left"
      BY <1>0, <2>2 DEF AnswerWait, AllocatePollEffect, taskVars, Types
    <3>2. \A q \in Process : Busy(q) => Busy(q)'
      BY <1>0, <2>1, <2>2 DEF AnswerWait, AllocatePollEffect, Busy, Reporting, Types
    <3>3. Steady
      BY <2>1, <3>1, <3>2 DEF Steady, Stopped, processVars
    <3> QED BY <3>3, SteadyRemembers
  <2>3. CASE AllocateSameEffect(p)
    <3>1. /\ ongoingTaskAllocationMap[id[p]] \in Task
          /\ ongoingTaskAllocationMap' = ongoingTaskAllocationMap
      BY <1>0, <2>1, <2>3 DEF AllocateSameEffect, taskVars
    <3>2. ongoingTaskAllocationMap'
            = [ongoingTaskAllocationMap EXCEPT ![id[p]] = ongoingTaskAllocationMap[id[p]]]
      BY <1>0, <3>1
    <3> QED BY <2>1, <2>3, <3>1, <3>2, AnswerRemembers DEF AllocateSameEffect
  <2>4. CASE AllocatePutEffect(p)
    <3>1. workerId[p] = id[p]
      BY <2>4 DEF AllocatePutEffect, Wired, Wiring, Linked
    <3> QED BY <2>1, <2>4, <3>1, AnswerRemembers DEF AllocatePutEffect
  <2> QED BY <1>0, <1>4, <2>2, <2>3, <2>4, AllocateEffect
<1> QED BY <1>1, <1>2, <1>3, <1>4, <1>5 DEF Handle

(* So does the handling of a failure, from noticing it to giving the task  *)
(* back.                                                                   *)
LEMMA FailureRemembers ==
  ASSUME Wired, Fresh, Remembered,
         HandleFailure \/ ReplaceFails \/ \E p \in Process : Notice(p)
  PROVE  Remembered'
<1>0. /\ Local /\ Types /\ Pooled /\ Linked
      /\ ongoingTaskAllocationMap \in [Id -> Task \union {None}]
  BY LocalDomains DEF Wired, Local, Wiring
<1>1. ASSUME NEW p \in Process, Notice(p)
      PROVE  Remembered'
  <2>1. /\ failed = None
        /\ UNCHANGED <<ongoingTaskAllocationMap, main, client, handler, task, activeWorkerPool,
                       faults>>
    BY <1>1 DEF Notice, WP!Notice, WP!poolVars, taskVars
  <2> QED BY <2>1, NoneIsNothing DEF Remembered, Stopped, Kept, Busy, Reporting
<1>2. CASE StopFailed
  <2>1. /\ failed \in Id /\ UNCHANGED <<taskVars, main, handler, task, failed, faults>>
    BY <1>0, <1>2, StopFailedEffect
  <2>2. CASE Kill(failed) /\ WP!Remove(failed)
    BY <2>1, <2>2, KillRemembers
  <2>3. CASE UNCHANGED <<client, activeWorkerPool>>
    <3>1. Steady
      BY <2>1, <2>3 DEF Steady, Stopped, Busy, Reporting, taskVars
    <3> QED BY <3>1, SteadyRemembers
  <2> QED BY <1>0, <1>2, <2>2, <2>3, StopFailedEffect
<1>3. CASE Replace
  <2> DEFINE q == spawned + 1
             v == Head(vacantIds)
  <2>1. /\ q \in Process /\ v \in Id /\ client[q] = "unborn" /\ vacantIds # <<>>
        /\ client' = [client EXCEPT ![q] = "ask"]
        /\ activeWorkerPool' = [activeWorkerPool EXCEPT ![v] = q]
        /\ UNCHANGED <<taskVars, main, handler, task, failed, faults>>
    BY <1>0, <1>3, ReplaceEffect
  <2>2. activeWorkerPool[v] = None
    BY <1>0, <2>1, PollElements DEF Pooled, Types
  <2> SUFFICES ASSUME NEW w \in Id, ~Stopped', ongoingTaskAllocationMap'[w] # None, failed' # w
               PROVE  Kept(w)'
    BY DEF Remembered
  <2>3. Kept(w)
    BY <2>1 DEF Remembered, Stopped, taskVars
  <2>4. CASE w = v
    <3>1. faults["build"] > 0
      BY <2>2, <2>3, <2>4 DEF Kept
    <3>2. activeWorkerPool'[w] = q /\ task'[q] = None
      BY <1>0, <2>1, <2>4 DEF Fresh, Types
    <3> QED BY <2>1, <3>1, <3>2 DEF Kept
  <2>5. CASE w # v
    <3>1. /\ activeWorkerPool'[w] = activeWorkerPool[w]
          /\ activeWorkerPool[w] \in Process \union {None}
      BY <1>0, <2>1, <2>5 DEF Types
    <3>2. activeWorkerPool[w] # q
      BY <1>0, <2>1, NoneIsNothing DEF Local, CallInv, Failures
    <3>3. activeWorkerPool[w] # None => client'[activeWorkerPool[w]] = client[activeWorkerPool[w]]
      BY <1>0, <2>1, <3>1, <3>2 DEF Types
    <3> QED BY <2>1, <2>3, <3>1, <3>3 DEF Kept, Busy, Reporting, taskVars
  <2> QED BY <2>4, <2>5
<1>4. CASE ReplaceFails
  <2>1. /\ stage = "create" /\ failed' = None
        /\ UNCHANGED <<taskVars, main, handler, client, task, activeWorkerPool>>
        /\ faults'["build"] = faults["build"] + 1 /\ faults["build"] \in Nat
    BY <1>0, <1>4, ReplaceFailsEffect DEF Types
  <2> SUFFICES ASSUME NEW w \in Id, ~Stopped', ongoingTaskAllocationMap'[w] # None, failed' # w
               PROVE  Kept(w)'
    BY DEF Remembered
  <2>2. CASE w = failed
    <3>1. activeWorkerPool[w] = None
      BY <1>0, <2>1, <2>2 DEF Pooled
    <3> QED BY <2>1, <3>1 DEF Kept
  <2>3. CASE w # failed
    <3>1. Kept(w)
      BY <2>1, <2>3 DEF Remembered, Stopped, taskVars
    <3> QED BY <2>1, <3>1 DEF Kept, Busy, Reporting, taskVars
  <2> QED BY <2>2, <2>3
<1>5. CASE Deallocate
  <2>1. UNCHANGED <<main, handler, client, task, activeWorkerPool, faults>>
    BY <1>0, <1>5, DeallocateEffect
    DEF DeallocateRemoveEffect, DeallocateAddEffect, processVars
  <2>2. /\ failed \in Id
        /\ \A w \in Id : ongoingTaskAllocationMap'[w] # None =>
             ongoingTaskAllocationMap'[w] = ongoingTaskAllocationMap[w]
        /\ failed' = failed \/ ongoingTaskAllocationMap'[failed] = None
    <3>1. CASE DeallocateRemoveEffect
      BY <1>0, <3>1 DEF DeallocateRemoveEffect, processVars
    <3>2. CASE DeallocateAddEffect
      <4>1. Watcher \in Thread /\ workerId[Watcher] = failed /\ failed \in Id
        BY <1>0, <1>5, <3>2, DeallocateEffect DEF DeallocateAddEffect, Linked, Thread
      <4>2. ongoingTaskAllocationMap[workerId[Watcher]] = None
        BY <3>2, <4>1
        DEF DeallocateAddEffect, Wired, Local, TMP!OwnInv, TMP!MonitorOwnership
      <4> QED BY <3>2, <4>1, <4>2 DEF DeallocateAddEffect
    <3> QED BY <1>0, <1>5, <3>1, <3>2, DeallocateEffect DEF taskVars
  <2> QED BY <2>1, <2>2 DEF Remembered, Stopped, Kept, Busy, Reporting
<1> QED BY <1>1, <1>2, <1>3, <1>4, <1>5 DEF HandleFailure

(* At first no task is out.                                                *)
LEMMA InitRemembered == Init => Fresh /\ Remembered
BY NoneIsNothing DEF Init, TM!Init, Fresh, Remembered

(* Every step keeps Remembered.                                            *)
LEMMA NextRemembered ==
  ASSUME Wired, ~PortTaken, Placed, Earned, Fresh, Remembered, [Next]_vars
  PROVE  Remembered'
<1>1. ASSUME NEW p \in Process,
             Work(p) \/ Leave(p) \/ StoreFails(p) \/ Accept(p) \/ AcceptBroken(p)
      PROVE  Remembered'
  BY <1>1, WorkIsSteady, SteadyRemembers
<1>2. CASE StopNext
  BY <1>2 DEF StopNext, Remembered, Stopped
<1>3. ASSUME NEW p \in Process, Crash(p)
      PROVE  Remembered'
  BY <1>3, RestIsSteady, SteadyRemembers
<1>4. CASE (Serve /\ ~StopNext) \/ Waiting \/ UNCHANGED vars
  BY <1>4, RestIsSteady, SteadyRemembers
<1> QED BY <1>1, <1>2, <1>3, <1>4, HandleRemembers, FailureRemembers
        DEF Next, Proceed, Misfortune, NoticeFailure, Waiting, AskElsewhere

(* TaskAllocationServer with HeartbeatManager and ResourceManager: with    *)
(* prompt handlers, a task that an id has is executed by the process of    *)
(* the id, or will be handed back, whatever is lost and whoever leaves;    *)
(* only a process that cannot be created may make the server forget one.   *)
THEOREM NoneIsForgotten ==
  ASSUME PromptHandlers
  PROVE  Spec => []NoForgottenTask
<1>1. Spec => [](PortTaken \/ (Placed /\ Earned))
  BY CompletionIsEarned
<1>2. /\ Wired /\ Wired' /\ (PortTaken \/ (Placed /\ Earned)) /\ [Next]_vars
      /\ (PortTaken \/ (Fresh /\ Remembered))
      => (PortTaken \/ (Fresh /\ Remembered))'
  <2> SUFFICES ASSUME Wired, Wired', PortTaken \/ (Placed /\ Earned), [Next]_vars,
                      PortTaken \/ (Fresh /\ Remembered), ~PortTaken
               PROVE  Fresh' /\ Remembered'
    BY SamePort
  <2>1. Fresh'
    BY NextFresh
  <2>2. Remembered'
    BY NextRemembered
  <2> QED BY <2>1, <2>2
<1>3. Wired /\ Remembered => NoForgottenTask
  <2> SUFFICES ASSUME Wired, Remembered, NEW w \in Id, Listening,
                      ongoingTaskAllocationMap[w] # None, failed # w
               PROVE  LET p == activeWorkerPool[w]
                          f == ongoingTaskAllocationMap[w]
                      IN  \/ p # None /\ client[p] = "dead"
                          \/ /\ p # None /\ task[p] = f
                             /\ client[p] \in {"execute", "store", "report", "await", "left"}
                          \/ faults["build"] > 0 /\ (p = None \/ task[p] = None)
    BY DEF NoForgottenTask
  <2>1. Kept(w)
    BY DEF Remembered, Stopped, Listening
  <2>2. \A p \in Process : Busy(p) =>
          client[p] \in {"execute", "store", "report", "await", "left", "dead"}
    BY LocalDomains DEF Wired, Local, Types, Wiring, Waits, Busy, Reporting
  <2>3. activeWorkerPool[w] \in Process \union {None}
    BY DEF Wired, Local, Types
  <2> QED BY <2>1, <2>2, <2>3 DEF Kept
<1>4. Unserved /\ PortTaken => NoForgottenTask
  BY DEF Unserved, NoForgottenTask
<1> QED BY <1>1, <1>2, <1>3, <1>4, AlwaysWired, NeverServed, InitRemembered, PTL DEF Spec
=============================================================================
