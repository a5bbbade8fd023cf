------------------------------ MODULE TaskPool ------------------------------
(***************************************************************************)
(* What a task manager promises, with every operation atomic: each task is *)
(* available, assigned to one worker, or completed; it becomes assigned    *)
(* by an allocation, available again when its worker is lost, and          *)
(* completed when its worker reports success.  TaskManager, where the      *)
(* same operations are made of several steps, is shown to implement it.    *)
(***************************************************************************)
CONSTANTS
  Worker,  \* worker ids
  Task,    \* one task per input file
  None     \* stands for Java's null; not a task

VARIABLES
  available,  \* tasks no worker has
  assigned,   \* assigned[w]: the task worker w has, or None
  completed   \* tasks reported done

vars == <<available, assigned, completed>>

Init ==
  /\ available = Task
  /\ assigned = [w \in Worker |-> None]
  /\ completed = {}

(* A worker without a task is given one that is available. *)
Allocate(w) ==
  /\ assigned[w] = None
  /\ \E f \in available :
       /\ assigned' = [assigned EXCEPT ![w] = f]
       /\ available' = available \ {f}
  /\ UNCHANGED completed

(* The worker is lost: whatever it had is available again. *)
Deallocate(w) ==
  /\ assigned[w] # None
  /\ available' = available \union {assigned[w]}
  /\ assigned' = [assigned EXCEPT ![w] = None]
  /\ UNCHANGED completed

(* The worker reports success on the task it has. *)
Complete(w) ==
  /\ assigned[w] # None
  /\ completed' = completed \union {assigned[w]}
  /\ assigned' = [assigned EXCEPT ![w] = None]
  /\ UNCHANGED available

Next == \E w \in Worker : Allocate(w) \/ Deallocate(w) \/ Complete(w)

Spec == Init /\ [][Next]_vars
=============================================================================
