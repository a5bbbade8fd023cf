----------------------------- MODULE WorkerPool -----------------------------
(***************************************************************************)
(* What HeartbeatManager and ResourceManager promise the rest of the       *)
(* master of its worker processes: every operation is atomic, a process is *)
(* gone before its id is used again, and failures are handled one at a     *)
(* time, each by stopping the worker, creating another and handing back    *)
(* the task, in this order.  WorkerSupervision implements it, and          *)
(* TaskAllocation is built on it.                                          *)
(***************************************************************************)
EXTENDS Naturals, Sequences

CONSTANTS
  Capacity,  \* number of workers
  None,      \* Java's null
  MaxSpawn   \* bound: worker processes ever started

Id == 0 .. Capacity - 1
Process == 1 .. MaxSpawn   \* in the order they are started

VARIABLES
  pool,      \* the process of each id
  vacant,    \* the ids without a process, longest first
  started,   \* number of processes started
  running,   \* the processes that run
  failed,    \* the id whose failure is being handled
  stage      \* what is next for it

poolVars == <<pool, vacant, started, running>>
failureVars == <<failed, stage>>
vars == <<poolVars, failureVars>>

Init ==
  /\ pool = [w \in Id |-> None]
  /\ vacant = [i \in 1 .. Capacity |-> i - 1]
  /\ started = 0
  /\ running = {}
  /\ failed = None
  /\ stage = "none"
-----------------------------------------------------------------------------
(* The first vacant id gets a new process. *)
NewProcess ==
  /\ vacant # <<>> /\ started < MaxSpawn
  /\ started' = started + 1
  /\ running' = running \union {started'}
  /\ pool' = [pool EXCEPT ![Head(vacant)] = started']
  /\ vacant' = Tail(vacant)

(* It does not start, and its id is lost. *)
NoProcess ==
  /\ vacant # <<>>
  /\ vacant' = Tail(vacant)
  /\ UNCHANGED <<pool, started, running>>

(* The process of id w, which may be dead, is killed, and w is vacant. *)
Remove(w) ==
  /\ pool[w] # None
  /\ running' = running \ {pool[w]}
  /\ pool' = [pool EXCEPT ![w] = None]
  /\ vacant' = Append(vacant, w)
  /\ UNCHANGED started

Start == (NewProcess \/ NoProcess) /\ UNCHANGED failureVars
Stop(w) == Remove(w) /\ UNCHANGED failureVars

Die(p) ==
  /\ p \in running
  /\ running' = running \ {p}
  /\ UNCHANGED <<pool, vacant, started, failureVars>>

(* The failure of id w is noticed, rightly or not. *)
Notice(w) ==
  /\ failed = None
  /\ failed' = w /\ stage' = "stop"
  /\ UNCHANGED poolVars

StopFailed ==
  /\ stage = "stop"
  /\ Remove(failed) \/ (pool[failed] = None /\ UNCHANGED poolVars)
  /\ stage' = "create" /\ UNCHANGED failed

(* A replacement is created, under the id that has been vacant longest. *)
Replace ==
  /\ stage = "create"
  /\ NewProcess
  /\ stage' = "handBack" /\ UNCHANGED failed

(* It cannot be created, and the task is not handed back either. *)
Abandon ==
  /\ stage = "create"
  /\ NoProcess
  /\ failed' = None /\ stage' = "none"

(* The task of the failed id has been handed back. *)
HandBack ==
  /\ stage = "handBack"
  /\ failed' = None /\ stage' = "none"
  /\ UNCHANGED poolVars

Next ==
  \/ Start
  \/ \E w \in Id : Stop(w) \/ Notice(w)
  \/ \E p \in running : Die(p)
  \/ StopFailed
  \/ Replace
  \/ Abandon
  \/ HandBack

Spec == Init /\ [][Next]_vars
=============================================================================
