--------------------------- MODULE RestartProofs ---------------------------
(* Theorems about Restart: what the watchers of a run hear, whose work is  *)
(* counted and which tasks are lost when processes of an earlier run are   *)
(* left over, for any number of workers of both runs and any crashes.      *)
EXTENDS Restart, Queues, TLAPS

(* Names and ids of the processes; a vacant id has no process (but an id   *)
(* without one may be lost), and a process of this run that lives is in    *)
(* the pool under its id.                                                  *)
Names ==
  /\ \A p \in Process : client[p] = "unborn" <=> p \in New /\ p > started
  /\ \A p \in Old : id[p] = p - MaxSpawn - 1
  /\ \A p \in New : IF p <= started THEN id[p] \in Id ELSE id[p] = None

Pooled ==
  /\ \A p \in New : Alive(p) => pool[id[p]] = p
  /\ \A w \in Id : pool[w] # None => pool[w] <= started /\ id[pool[w]] = w

Vacancy ==
  /\ NoRepetition(vacant)
  /\ \A w \in Id : w \in Elements(vacant) => pool[w] = None
  /\ failed = None <=> stage = "none"

(* A socket belongs to a process that lives and has its id. *)
Sockets ==
  /\ \A p \in Process : heartbeat[p] # "none" => Alive(p)
  /\ \A p \in Process : heartbeat[p] = "answer" => socket[id[p]] = p
  /\ \A w \in AnyId : socket[w] # None => id[socket[w]] = w /\ heartbeat[socket[w]] = "answer"

Life == TypeOK /\ Names /\ Pooled /\ Vacancy /\ Sockets

(* null is none of the other values, and the processes of the two runs     *)
(* differ.                                                                 *)
LEMMA Distinct ==
  /\ None \notin Task /\ None \notin Process /\ None \notin New /\ None \notin Id
  /\ None \notin AnyId
  /\ Process = New \union Old /\ New \intersect Old = {}
  /\ Id \subseteq AnyId /\ Id \subseteq Nat /\ AnyId \subseteq Nat /\ Process \subseteq Nat
  /\ \A p \in Old : p - MaxSpawn - 1 \in AnyId
  /\ \A p, q \in Old : p - MaxSpawn - 1 = q - MaxSpawn - 1 => p = q
  /\ Capacity \in Nat /\ OldCapacity \in Nat /\ MaxSpawn \in Nat
  /\ MaxLosses \in Nat /\ MaxBuildFailures \in Nat
<1> USE RestartAssumption DEF RestartAssumption, Process, New, Old, Id, AnyId
<1>1. Id \subseteq Nat /\ AnyId \subseteq Nat /\ Process \subseteq Nat
  OBVIOUS
<1> QED BY <1>1

(* A process that is not unborn has an id, and only one that lives in this *)
(* run has the id of another.                                              *)
LEMMA HasId ==
  ASSUME TypeOK, Names
  PROVE  /\ \A p \in Process : client[p] # "unborn" => id[p] \in AnyId
         /\ \A p \in New : client[p] # "unborn" => id[p] \in Id /\ p <= started
         /\ \A p \in Old : client[p] # "unborn"
<1>1. started \in Nat
  BY Distinct DEF TypeOK
<1>2. \A p \in New : client[p] # "unborn" => id[p] \in Id /\ p <= started
  BY <1>1, Distinct DEF Names
<1>3. \A p \in Old : client[p] # "unborn" /\ id[p] \in AnyId
  BY Distinct DEF Names
<1> QED BY <1>2, <1>3, Distinct

(* It holds when the program starts. *)
LEMMA InitLife == Init => Life
<1> SUFFICES ASSUME Init PROVE Life
  OBVIOUS
<1> USE Distinct DEF Init
<1>1. /\ pool = [w \in Id |-> None] /\ vacant = [i \in 1 .. Capacity |-> i - 1]
      /\ started = 0 /\ failed = None /\ stage = "none"
      /\ available = Task /\ assigned = [w \in AnyId |-> None] /\ completed = {}
  BY DEF WP!Init, TP!Init, WP!Id, Id
<1>2. \A p \in New : p \in Process /\ p > 0 /\ client[p] = "unborn"
  BY DEF New
<1>3. \A p \in Old : p \in Process /\ client[p] # "unborn" /\ id[p] = p - MaxSpawn - 1
  OBVIOUS
<1>4. Names
  BY <1>1, <1>2, <1>3 DEF Names
<1>5. Pooled
  BY <1>1, <1>2 DEF Pooled, Alive
<1>6. vacant \in Seq(Id) /\ NoRepetition(vacant)
  <2>1. vacant \in [1 .. Capacity -> Id]
    BY <1>1 DEF Id
  <2>2. vacant \in Seq(Id)
    BY <2>1
  <2> QED BY <1>1, <2>2 DEF NoRepetition
<1>7. \A w \in Id : w \in Elements(vacant)
  <2> SUFFICES ASSUME NEW w \in Id PROVE w \in Elements(vacant)
    OBVIOUS
  <2>1. w + 1 \in DOMAIN vacant /\ vacant[w + 1] = w
    BY <1>1 DEF Id
  <2> QED BY <2>1 DEF Elements
<1>8. Vacancy
  BY <1>1, <1>6, <1>7 DEF Vacancy
<1>9. \A p \in Process : heartbeat[p] # "none" => Alive(p) /\ p \in Old
  BY <1>2 DEF Alive
<1>10. \A w \in AnyId : \A q \in Old :
         id[q] = w /\ heartbeat[q] = "answer" => socket[w] = q
  <2> SUFFICES ASSUME NEW w \in AnyId, NEW q \in Old, id[q] = w, heartbeat[q] = "answer"
               PROVE  socket[w] = q
    OBVIOUS
  <2>1. \A p \in Old : id[p] = w => p = q
    BY <1>3
  <2>2. socket[w] = CHOOSE p \in Old : id[p] = w
    OBVIOUS
  <2> QED BY <2>1, <2>2
<1>13. \A w \in AnyId :
         socket[w] # None => \E q \in Old : id[q] = w /\ heartbeat[q] = "answer" /\ socket[w] = q
  BY <1>10
<1>14. \A p \in Old : id[p] \in AnyId
  BY <1>3
<1>11. Sockets
  BY <1>9, <1>10, <1>13, <1>14 DEF Sockets
<1>12. TypeOK
  <2>1. id \in [Process -> AnyId \union {None}]
    BY <1>3
  <2>2. socket \in [AnyId -> Process \union {None}]
    BY <1>13
  <2>3. client \in [Process -> {"unborn", "dead", "left", "ask", "execute", "report"}]
    OBVIOUS
  <2>4. heartbeat \in [Process -> {"none", "bind", "answer"}]
    OBVIOUS
  <2>5. task \in [Process -> Task \union {None}] /\ executed \in SUBSET Task
    OBVIOUS
  <2>6. /\ freed \in 0 .. Capacity /\ started \in 0 .. MaxSpawn /\ toCreate \in 0 .. Capacity
        /\ losses \in 0 .. MaxLosses /\ unbuilt \in 0 .. MaxBuildFailures
    BY <1>1
  <2>7. pool \in [Id -> New \union {None}]
    BY <1>1
  <2>8. serverPort \in {"old", "new", "none"} /\ oldMaster \in BOOLEAN
    OBVIOUS
  <2>9. stray \in SUBSET AnyId /\ contested \in SUBSET Id
    BY <1>14
  <2> QED BY <1>1, <1>6, <2>1, <2>2, <2>3, <2>4, <2>5, <2>6, <2>7, <2>8, <2>9 DEF TypeOK
<1> QED BY <1>4, <1>5, <1>8, <1>11, <1>12 DEF Life
-----------------------------------------------------------------------------
(* What the operations on processes do.                                    *)

(* A step after which the same processes live, and have what they had. *)
Still ==
  /\ UNCHANGED <<pool, vacant, started, socket, heartbeat, id>>
  /\ \A p \in Process : /\ client'[p] = "unborn" <=> client[p] = "unborn"
                        /\ Alive(p)' <=> Alive(p)
  /\ failed' = None <=> stage' = "none"

(* Nothing changes but what the clients and the master do.                 *)
LEMMA StillLives ==
  ASSUME Life, TypeOK', Still
  PROVE  Life'
<1>1. Names'
  BY DEF Life, Names, Still
<1>2. Pooled'
  BY Distinct DEF Life, Pooled, Still
<1>3. Vacancy'
  BY DEF Life, Vacancy, Still
<1>4. Sockets'
  BY DEF Life, Sockets, Still
<1> QED BY <1>1, <1>2, <1>3, <1>4 DEF Life

(* The death of processes that were born. *)
LEMMA KillEffect ==
  ASSUME Life, NEW ps \in SUBSET Process, \A p \in ps : client[p] # "unborn", Kill(ps), id' = id
  PROVE  /\ client' \in [Process -> {"unborn", "dead", "left", "ask", "execute", "report"}]
         /\ heartbeat' \in [Process -> {"none", "bind", "answer"}]
         /\ socket' \in [AnyId -> Process \union {None}]
         /\ \A p \in Process :
              /\ client'[p] = IF p \in ps THEN "dead" ELSE client[p]
              /\ client'[p] = "unborn" <=> client[p] = "unborn"
              /\ Alive(p)' <=> Alive(p) /\ p \notin ps
              /\ heartbeat'[p] = IF p \in ps THEN "none" ELSE heartbeat[p]
         /\ \A w \in AnyId : socket'[w] = IF socket[w] \in ps THEN None ELSE socket[w]
         /\ Sockets'
<1>1. /\ client' \in [Process -> {"unborn", "dead", "left", "ask", "execute", "report"}]
      /\ heartbeat' \in [Process -> {"none", "bind", "answer"}]
      /\ socket' \in [AnyId -> Process \union {None}]
  BY DEF Kill, Life, TypeOK
<1>2. \A w \in AnyId : socket'[w] = IF socket[w] \in ps THEN None ELSE socket[w]
  BY DEF Kill
<1>3. \A p \in Process :
        /\ client'[p] = IF p \in ps THEN "dead" ELSE client[p]
        /\ client'[p] = "unborn" <=> client[p] = "unborn"
        /\ Alive(p)' <=> Alive(p) /\ p \notin ps
        /\ heartbeat'[p] = IF p \in ps THEN "none" ELSE heartbeat[p]
  BY DEF Kill, Alive
<1>4. Sockets'
  <2>1. \A p \in Process : heartbeat'[p] # "none" => Alive(p)'
    BY <1>3 DEF Life, Sockets
  <2>2. ASSUME NEW p \in Process, heartbeat'[p] = "answer"
        PROVE  socket'[id[p]] = p
    <3>1. p \notin ps /\ heartbeat[p] = "answer"
      BY <1>3, <2>2
    <3>2. socket[id[p]] = p /\ id[p] \in AnyId
      BY <3>1, HasId DEF Life, Sockets, Alive
    <3> QED BY <1>2, <3>1, <3>2
  <2>3. ASSUME NEW w \in AnyId, socket'[w] # None
        PROVE  id[socket'[w]] = w /\ heartbeat'[socket'[w]] = "answer"
    <3>1. socket'[w] = socket[w] /\ socket[w] \notin ps /\ socket[w] \in Process
      BY <1>2, <2>3 DEF Life, TypeOK
    <3>2. id[socket[w]] = w /\ heartbeat[socket[w]] = "answer"
      BY <2>3, <3>1 DEF Life, Sockets
    <3> QED BY <1>3, <3>1, <3>2
  <2> QED BY <2>1, <2>2, <2>3 DEF Sockets
<1> QED BY <1>1, <1>2, <1>3, <1>4

(* The death of processes that stay in the pool. *)
LEMMA KillLives ==
  ASSUME Life, TypeOK', NEW ps \in SUBSET Process, \A p \in ps : client[p] # "unborn", Kill(ps),
         UNCHANGED <<poolVars, id>>
  PROVE  Life'
<1>0. id' = id
  OBVIOUS
<1>1. \A p \in Process : /\ client'[p] = "unborn" <=> client[p] = "unborn"
                         /\ Alive(p)' <=> Alive(p) /\ p \notin ps
  BY <1>0, KillEffect
<1>2. Names' /\ Vacancy'
  BY <1>1 DEF Life, Names, Vacancy, poolVars
<1>3. Pooled'
  BY <1>1, Distinct DEF Life, Pooled, poolVars
<1>4. Sockets'
  BY <1>0, KillEffect
<1> QED BY <1>2, <1>3, <1>4 DEF Life

(* The death of a worker that leaves the pool. *)
LEMMA RemoveLives ==
  ASSUME Life, TypeOK', NEW w \in Id, pool[w] # None, Kill({pool[w]}), WP!Remove(w), id' = id,
         failed' = None <=> stage' = "none"
  PROVE  Life'
<1>0. /\ TypeOK /\ pool[w] \in New /\ pool[w] \in Process /\ client[pool[w]] # "unborn"
      /\ id[pool[w]] = w
  <2>1. TypeOK /\ pool[w] \in New /\ pool[w] \in Process
    BY Distinct DEF Life, TypeOK
  <2>2. pool[w] <= started /\ id[pool[w]] = w
    BY DEF Life, Pooled
  <2>3. pool[w] \in Nat /\ started \in Nat
    BY <2>1, Distinct DEF TypeOK
  <2>4. ~(pool[w] > started)
    BY <2>2, <2>3
  <2> QED BY <2>1, <2>2, <2>4 DEF Life, Names
<1>1. /\ pool' = [pool EXCEPT ![w] = None] /\ vacant' = Append(vacant, w)
      /\ started' = started
  BY DEF WP!Remove
<1>2. \A p \in Process : /\ client'[p] = "unborn" <=> client[p] = "unborn"
                         /\ Alive(p)' <=> Alive(p) /\ p # pool[w]
  BY <1>0, KillEffect
<1>3. Names'
  BY <1>1, <1>2 DEF Life, Names
<1>4. Pooled'
  <2>1. ASSUME NEW p \in New, Alive(p)'
        PROVE  pool'[id'[p]] = p
    <3>1. Alive(p) /\ p # pool[w] /\ id[p] \in Id
      BY <1>2, <2>1, Distinct, HasId DEF Life, Alive
    <3>2. pool[id[p]] = p /\ id[p] # w
      BY <3>1 DEF Life, Pooled
    <3> QED BY <1>0, <1>1, <3>1, <3>2 DEF TypeOK
  <2>2. ASSUME NEW v \in Id, pool'[v] # None
        PROVE  pool'[v] <= started' /\ id'[pool'[v]] = v
    <3>1. v # w /\ pool'[v] = pool[v]
      BY <1>0, <1>1, <2>2 DEF TypeOK
    <3> QED BY <1>1, <2>2, <3>1 DEF Life, Pooled
  <2> QED BY <2>1, <2>2 DEF Pooled
<1>5. Vacancy'
  <2>1. w \notin Elements(vacant) /\ vacant \in Seq(Id) /\ NoRepetition(vacant)
    BY DEF Life, Vacancy, TypeOK
  <2>2. NoRepetition(vacant') /\ Elements(vacant') = Elements(vacant) \union {w}
    BY <1>1, <2>1, AddElements
  <2>3. \A v \in Id : pool'[v] = IF v = w THEN None ELSE pool[v]
    BY <1>0, <1>1 DEF TypeOK
  <2> QED BY <2>2, <2>3 DEF Life, Vacancy
<1>6. Sockets'
  BY <1>0, KillEffect
<1> QED BY <1>3, <1>4, <1>5, <1>6 DEF Life

(* A new process: its number is unused, and the id it gets is free. *)
LEMMA NewEffect ==
  ASSUME Life, NewWorker, WP!NewProcess
  PROVE  /\ started + 1 \in New /\ started + 1 \in Process /\ client[started + 1] = "unborn"
         /\ heartbeat[started + 1] = "none"
         /\ Head(vacant) \in Id /\ pool[Head(vacant)] = None
         /\ vacant' \in Seq(Id) /\ NoRepetition(vacant')
         /\ Elements(vacant') = Elements(vacant) \ {Head(vacant)}
         /\ started' = started + 1 /\ started' \in 0 .. MaxSpawn
         /\ pool' = [pool EXCEPT ![Head(vacant)] = started + 1]
         /\ client' = [client EXCEPT ![started + 1] = "ask"]
         /\ heartbeat' = [heartbeat EXCEPT ![started + 1] = "bind"]
         /\ id' = [id EXCEPT ![started + 1] = Head(vacant)]
         /\ socket' = socket
<1>1. /\ vacant # <<>> /\ started < MaxSpawn /\ started' = started + 1
      /\ vacant' = Tail(vacant) /\ pool' = [pool EXCEPT ![Head(vacant)] = started + 1]
  BY DEF WP!NewProcess
<1>2. started \in 0 .. MaxSpawn /\ vacant \in Seq(Id)
  BY DEF Life, TypeOK
<1>3. started + 1 \in New /\ started' \in 0 .. MaxSpawn
  BY <1>1, <1>2, Distinct DEF New
<1>4. started + 1 \in Process /\ started + 1 > started
  BY <1>2, <1>3, Distinct
<1>5. client[started + 1] = "unborn"
  BY <1>3, <1>4 DEF Life, Names
<1>6. heartbeat[started + 1] = "none"
  BY <1>4, <1>5 DEF Life, Sockets, Alive
<1>7. /\ Head(vacant) \in Elements(vacant)
      /\ Elements(Tail(vacant)) = Elements(vacant) \ {Head(vacant)}
      /\ NoRepetition(Tail(vacant))
  BY <1>1, <1>2, PollElements DEF Life, Vacancy
<1>8. Head(vacant) \in Id /\ Tail(vacant) \in Seq(Id)
  BY <1>1, <1>2
<1>9. pool[Head(vacant)] = None
  BY <1>7, <1>8 DEF Life, Vacancy
<1> QED BY <1>1, <1>3, <1>4, <1>5, <1>6, <1>7, <1>8, <1>9 DEF NewWorker, NextId

(* A new process leaves the others what they have.                         *)
LEMMA NewLives ==
  ASSUME Life, TypeOK', NewWorker, WP!NewProcess, failed' = None <=> stage' = "none"
  PROVE  Life'
<1> DEFINE n == started + 1
           w == Head(vacant)
<1>0. /\ TypeOK /\ started \in Nat /\ n \in Nat /\ started' = n /\ n \in New /\ n \in Process
      /\ w \in Id /\ pool[w] = None /\ client[n] = "unborn" /\ heartbeat[n] = "none"
  <2>1. TypeOK
    BY DEF Life
  <2>2. started \in Nat
    BY <2>1, Distinct DEF TypeOK
  <2> QED BY <2>1, <2>2, NewEffect
<1>1. /\ \A p \in Process : /\ client'[p] = IF p = n THEN "ask" ELSE client[p]
                            /\ heartbeat'[p] = IF p = n THEN "bind" ELSE heartbeat[p]
                            /\ id'[p] = IF p = n THEN w ELSE id[p]
      /\ \A v \in Id : pool'[v] = IF v = w THEN n ELSE pool[v]
      /\ socket' = socket
  <2>1. /\ client' = [client EXCEPT ![n] = "ask"]
        /\ heartbeat' = [heartbeat EXCEPT ![n] = "bind"]
        /\ id' = [id EXCEPT ![n] = w]
        /\ pool' = [pool EXCEPT ![w] = n]
        /\ socket' = socket
    BY NewEffect
  <2>2. DOMAIN client = Process /\ DOMAIN heartbeat = Process /\ DOMAIN id = Process
    BY <1>0 DEF TypeOK
  <2>3. DOMAIN pool = Id
    BY <1>0 DEF TypeOK
  <2> HIDE DEF n, w
  <2> QED BY <2>1, <2>2, <2>3
<1>2. \A p \in Process : Alive(p)' <=> Alive(p) \/ p = n
  BY <1>0, <1>1 DEF Alive
<1> HIDE DEF n, w
<1>3. Names'
  <2>1. \A p \in Process : p > started' <=> p > started /\ p # n
    BY <1>0, Distinct DEF n
  <2>2. \A p \in New : p <= started' <=> p <= started \/ p = n
    BY <1>0, Distinct DEF n
  <2>3. \A p \in Old : p \in Process /\ p # n
    BY <1>0, Distinct
  <2>4. \A p \in New : p \in Process
    BY Distinct
  <2> QED BY <1>0, <1>1, <2>1, <2>2, <2>3, <2>4 DEF Life, Names
<1>4. Pooled'
  <2>1. ASSUME NEW p \in New, Alive(p)'
        PROVE  pool'[id'[p]] = p
    <3>1. p \in Process
      BY Distinct
    <3>2. CASE p = n
      BY <1>0, <1>1, <3>2
    <3>3. CASE p # n
      <4>1. Alive(p) /\ id[p] \in Id /\ pool[id[p]] = p /\ id'[p] = id[p]
        BY <1>1, <1>2, <2>1, <3>1, <3>3, HasId DEF Life, Pooled, Alive
      <4>2. id[p] # w
        BY <1>0, <3>1, <4>1, Distinct
      <4> QED BY <1>1, <4>1, <4>2
    <3> QED BY <3>2, <3>3
  <2>2. ASSUME NEW v \in Id, pool'[v] # None
        PROVE  pool'[v] <= started' /\ id'[pool'[v]] = v
    <3>1. CASE v = w
      <4>1. pool'[v] = n /\ id'[n] = v
        BY <1>0, <1>1, <3>1
      <4> QED BY <1>0, <4>1
    <3>2. CASE v # w
      <4>1. pool'[v] = pool[v] /\ pool[v] # None /\ pool[v] \in New /\ pool[v] \in Process
        BY <1>0, <1>1, <2>2, <3>2, Distinct DEF TypeOK
      <4>2. pool[v] <= started /\ id[pool[v]] = v
        BY <4>1 DEF Life, Pooled
      <4>3. pool[v] # n /\ pool[v] <= n
        BY <1>0, <4>1, <4>2, Distinct DEF n
      <4> QED BY <1>0, <1>1, <4>1, <4>2, <4>3
    <3> QED BY <3>1, <3>2
  <2> QED BY <2>1, <2>2 DEF Pooled
<1>5. Vacancy'
  <2>1. /\ NoRepetition(vacant') /\ Elements(vacant') = Elements(vacant) \ {w}
    BY NewEffect DEF w
  <2>2. n # None
    BY <1>0, Distinct
  <2> QED BY <1>0, <1>1, <2>1, <2>2 DEF Life, Vacancy
<1>6. Sockets'
  <2>1. ASSUME NEW v \in AnyId, socket[v] # None
        PROVE  socket[v] \in Process /\ socket[v] # n
    <3>1. socket[v] \in Process
      BY <1>0, <2>1 DEF TypeOK
    <3>2. heartbeat[socket[v]] # "none"
      BY <2>1 DEF Life, Sockets
    <3> QED BY <1>0, <3>1, <3>2
  <2>2. \A p \in Process : heartbeat'[p] = "answer" => p # n /\ socket[id[p]] = p
    BY <1>1 DEF Life, Sockets
  <2>3. \A p \in Process : heartbeat'[p] # "none" => Alive(p)'
    BY <1>0, <1>1, <1>2 DEF Life, Sockets
  <2>4. \A p \in Process : heartbeat'[p] = "answer" => socket'[id'[p]] = p
    BY <1>1, <2>2
  <2>5. ASSUME NEW v \in AnyId, socket'[v] # None
        PROVE  id'[socket'[v]] = v /\ heartbeat'[socket'[v]] = "answer"
    <3>1. id[socket[v]] = v /\ heartbeat[socket[v]] = "answer"
      BY <1>1, <2>5 DEF Life, Sockets
    <3> QED BY <1>1, <2>1, <2>5, <3>1
  <2> QED BY <2>3, <2>4, <2>5 DEF Sockets
<1> QED BY <1>0, <1>3, <1>4, <1>5, <1>6 DEF Life

(* A process binds its port, or does without. *)
LEMMA BindLives ==
  ASSUME Life, NEW p \in Process, Bind(p)
  PROVE  Life'
<1>0. /\ TypeOK /\ heartbeat[p] = "bind" /\ Alive(p) /\ id[p] \in AnyId
      /\ UNCHANGED <<poolVars, taskVars, masterVars, client, clientVars, id, oldVars, faults>>
  BY HasId DEF Bind, Life, Sockets, Alive
<1>1. \/ /\ socket[id[p]] = None
         /\ socket' = [socket EXCEPT ![id[p]] = p]
         /\ heartbeat' = [heartbeat EXCEPT ![p] = "answer"]
      \/ heartbeat' = [heartbeat EXCEPT ![p] = "none"] /\ socket' = socket
  BY DEF Bind
<1>2. TypeOK'
  BY <1>0, <1>1 DEF TypeOK, poolVars, taskVars, masterVars, clientVars, oldVars, faults
<1>3. Names' /\ Vacancy'
  BY <1>0 DEF Life, Names, Vacancy, poolVars
<1>4. Pooled'
  BY <1>0 DEF Life, Pooled, Alive, poolVars
<1>5. Sockets'
  <2>1. CASE heartbeat' = [heartbeat EXCEPT ![p] = "none"] /\ socket' = socket
    <3>1. \A w \in AnyId : socket[w] # None => socket[w] \in Process /\ socket[w] # p
      BY <1>0 DEF Life, Sockets, TypeOK
    <3> QED BY <1>0, <2>1, <3>1 DEF Life, Sockets, Alive, TypeOK
  <2>2. CASE /\ socket[id[p]] = None
             /\ socket' = [socket EXCEPT ![id[p]] = p]
             /\ heartbeat' = [heartbeat EXCEPT ![p] = "answer"]
    <3>1. \A q \in Process : heartbeat'[q] = IF q = p THEN "answer" ELSE heartbeat[q]
      BY <2>2 DEF Life, TypeOK
    <3>2. \A w \in AnyId : socket'[w] = IF w = id[p] THEN p ELSE socket[w]
      BY <2>2 DEF Life, TypeOK
    <3>3. \A q \in Process : heartbeat'[q] # "none" => Alive(q)'
      BY <1>0, <3>1 DEF Life, Sockets, Alive
    <3>4. ASSUME NEW q \in Process, heartbeat'[q] = "answer"
          PROVE  socket'[id[q]] = q
      <4>1. CASE q = p
        BY <1>0, <3>2, <4>1
      <4>2. CASE q # p
        <5>1. heartbeat[q] = "answer" /\ socket[id[q]] = q /\ id[q] \in AnyId
          BY <3>1, <3>4, <4>2, HasId DEF Life, Sockets, Alive
        <5>2. id[q] # id[p]
          BY <2>2, <5>1, Distinct
        <5> QED BY <3>2, <5>1, <5>2
      <4> QED BY <4>1, <4>2
    <3>5. ASSUME NEW w \in AnyId, socket'[w] # None
          PROVE  id[socket'[w]] = w /\ heartbeat'[socket'[w]] = "answer"
      <4>1. CASE w = id[p]
        BY <3>1, <3>2, <4>1
      <4>2. CASE w # id[p]
        <5>1. socket'[w] = socket[w] /\ socket[w] \in Process
          BY <3>2, <3>5, <4>2 DEF Life, TypeOK
        <5>2. id[socket[w]] = w /\ heartbeat[socket[w]] = "answer"
          BY <3>5, <5>1 DEF Life, Sockets
        <5> QED BY <3>1, <5>1, <5>2
      <4> QED BY <4>1, <4>2
    <3> QED BY <1>0, <3>3, <3>4, <3>5 DEF Sockets
  <2> QED BY <1>1, <2>1, <2>2
<1> QED BY <1>2, <1>3, <1>4, <1>5 DEF Life

(* The earlier master replaces a worker of its own. *)
LEMMA OldLives ==
  ASSUME Life, NEW q \in Old, NEW p \in Old, OldMasterReplaces(q, p)
  PROVE  Life'
<1>0. /\ TypeOK /\ p \in Process /\ q \in Process /\ p \notin New /\ q \notin New
      /\ client[p] # "unborn" /\ client[q] # "unborn" /\ (p = q \/ client[p] = "dead")
      /\ socket[id[q]] = None /\ id[q] \in AnyId
      /\ client' = [client EXCEPT ![q] = "dead", ![p] = "ask"]
      /\ heartbeat' = [heartbeat EXCEPT ![q] = "none", ![p] = "bind"]
      /\ contested' = contested \/ contested' = contested \union ({id[p]} \intersect Id)
      /\ UNCHANGED <<poolVars, taskVars, masterVars, socket, clientVars, id, oldMaster, stray,
                     faults>>
  BY Distinct, HasId DEF OldMasterReplaces, Life
<1>1. TypeOK'
  <2>1. /\ client' \in [Process -> {"unborn", "dead", "left", "ask", "execute", "report"}]
        /\ heartbeat' \in [Process -> {"none", "bind", "answer"}]
        /\ contested' \in SUBSET Id
    BY <1>0 DEF TypeOK
  <2> QED BY <1>0, <2>1 DEF TypeOK, poolVars, taskVars, masterVars, clientVars, faults
<1>2. \A r \in Process :
        /\ client'[r] = IF r = p THEN "ask" ELSE IF r = q THEN "dead" ELSE client[r]
        /\ heartbeat'[r] = IF r = p THEN "bind" ELSE IF r = q THEN "none" ELSE heartbeat[r]
  BY <1>0 DEF TypeOK
<1>3. \A r \in Process : Alive(r)' <=> (Alive(r) /\ r # q) \/ r = p
  BY <1>2 DEF Alive
<1>4. Names' /\ Vacancy'
  <2>1. ASSUME NEW r \in Process
        PROVE  client'[r] = "unborn" <=> client[r] = "unborn"
    <3>1. client[p] # "unborn" /\ client[q] # "unborn"
      BY <1>0
    <3>2. client'[r] = IF r = p THEN "ask" ELSE IF r = q THEN "dead" ELSE client[r]
      BY <1>2
    <3> QED BY <3>1, <3>2
  <2>2. UNCHANGED <<pool, vacant, started, failed, stage, id>>
    BY <1>0 DEF poolVars
  <2>3. Names'
    BY <2>1, <2>2 DEF Life, Names
  <2>4. Vacancy'
    BY <2>2 DEF Life, Vacancy
  <2> QED BY <2>3, <2>4
<1>5. Pooled'
  BY <1>0, <1>3, Distinct DEF Life, Pooled, poolVars
<1>6. Sockets'
  <2>1. heartbeat[p] # "answer" /\ heartbeat[q] # "answer"
    BY <1>0, Distinct DEF Life, Sockets, Alive
  <2>2. \A w \in AnyId : socket[w] # None =>
          socket[w] \in Process /\ socket[w] # p /\ socket[w] # q
    BY <1>0, <2>1 DEF Life, Sockets, TypeOK
  <2>3. \A r \in Process : heartbeat'[r] # "none" => Alive(r)'
    BY <1>2, <1>3 DEF Life, Sockets
  <2>4. \A r \in Process : heartbeat'[r] = "answer" => socket'[id'[r]] = r
    BY <1>0, <1>2 DEF Life, Sockets
  <2>5. ASSUME NEW w \in AnyId, socket'[w] # None
        PROVE  id'[socket'[w]] = w /\ heartbeat'[socket'[w]] = "answer"
    <3>1. socket' = socket /\ id' = id
      BY <1>0
    <3>2. id[socket[w]] = w /\ heartbeat[socket[w]] = "answer"
      BY <2>5, <3>1 DEF Life, Sockets
    <3>3. heartbeat'[socket[w]] = heartbeat[socket[w]]
      BY <1>2, <2>2, <2>5, <3>1
    <3> QED BY <3>1, <3>2, <3>3
  <2> QED BY <2>3, <2>4, <2>5 DEF Sockets
<1> QED BY <1>1, <1>4, <1>5, <1>6 DEF Life

(* The client's steps change what it does, and nobody's life. *)
LEMMA ClientLives ==
  ASSUME Life, NEW p \in Process, Talk(p)
  PROVE  Life'
<1>0. TypeOK
  BY DEF Life
<1>1. client[p] \in {"ask", "execute", "report"} /\ id[p] \in AnyId
  <2>1. client[p] \in {"ask", "execute", "report"}
    BY DEF Talk, Ask, Execute, Report, Refused, Leave, OldServerAnswers
  <2> QED BY <2>1, HasId DEF Life
<1>2. /\ UNCHANGED <<poolVars, masterVars, socket, heartbeat, id, oldVars, unbuilt>>
      /\ losses' \in 0 .. MaxLosses
      /\ client' \in [Process -> {"unborn", "dead", "left", "ask", "execute", "report"}]
      /\ client'[p] \in {"left", "ask", "execute", "report"}
      /\ \A q \in Process : q # p => client'[q] = client[q]
      /\ available' \in SUBSET Task /\ assigned' \in [AnyId -> Task \union {None}]
      /\ completed' \in SUBSET Task /\ executed' \in SUBSET Task
      /\ task' \in [Process -> Task \union {None}]
  <2>1. CASE Ask(p)
    <3>1. /\ client' = [client EXCEPT ![p] = "execute"]
          /\ UNCHANGED <<poolVars, masterVars, socket, heartbeat, executed, id, oldVars, faults>>
      BY <2>1 DEF Ask, Give
    <3>2. CASE assigned[id[p]] # None /\ Give(p, assigned[id[p]]) /\ UNCHANGED taskVars
      BY <1>0, <1>1, <3>1, <3>2 DEF Give, TypeOK, taskVars, faults
    <3>3. CASE TP!Allocate(id[p]) /\ Give(p, assigned'[id[p]])
      <4>1. PICK f \in available : /\ assigned' = [assigned EXCEPT ![id[p]] = f]
                                   /\ available' = available \ {f}
                                   /\ completed' = completed
        BY <3>3 DEF TP!Allocate
      <4>2. f \in Task /\ assigned'[id[p]] = f
        BY <1>0, <1>1, <4>1 DEF TypeOK
      <4> QED BY <1>0, <1>1, <3>1, <3>3, <4>1, <4>2 DEF Give, TypeOK, faults
    <3> QED BY <2>1, <3>2, <3>3 DEF Ask
  <2>2. CASE Execute(p)
    BY <1>0, <2>2 DEF Execute, TypeOK, taskVars, faults
  <2>3. CASE Report(p)
    <3>1. /\ client' = [client EXCEPT ![p] = "ask"]
          /\ UNCHANGED <<poolVars, masterVars, socket, heartbeat, clientVars, id, oldVars, faults>>
      BY <2>3 DEF Report
    <3>2. CASE TP!Complete(id[p])
      BY <1>0, <1>1, <3>1, <3>2 DEF TP!Complete, TypeOK, clientVars, faults
    <3>3. CASE UNCHANGED taskVars
      BY <1>0, <3>1, <3>3 DEF TypeOK, taskVars, clientVars, faults
    <3> QED BY <2>3, <3>2, <3>3 DEF Report, Reported
  <2>4. CASE Refused(p)
    BY <1>0, <2>4 DEF Refused, TypeOK, taskVars, clientVars, faults
  <2>5. CASE Leave(p)
    <3>1. losses' \in 0 .. MaxLosses
      BY <1>0, <2>5, Distinct DEF Leave, Lose, TypeOK
    <3> QED BY <1>0, <2>5, <3>1 DEF Leave, Lose, TypeOK, taskVars, clientVars
  <2>6. CASE OldServerAnswers(p)
    BY <1>0, <2>6 DEF OldServerAnswers, Give, TypeOK, taskVars, faults
  <2> QED BY <2>1, <2>2, <2>3, <2>4, <2>5, <2>6 DEF Talk
<1>3. TypeOK'
  BY <1>0, <1>2 DEF TypeOK, poolVars, masterVars, oldVars
<1>4. Still
  BY <1>1, <1>2 DEF Life, Vacancy, Still, Alive, poolVars
<1> QED BY <1>3, <1>4, StillLives

(* The master's steps, but for those that start or kill a process, touch   *)
(* no process.                                                             *)
LEMMA MasterLives ==
  ASSUME Life, \/ FreeServerPort \/ CleanupFails \/ Open \/ OpenFails \/ StopServing
               \/ PassVacant \/ Return \/ OldServerCloses
               \/ HandBack \/ \E w \in Id : NoticeLoss(w) \/ SuspectWrongly(w)
  PROVE  Life'
<1>0. TypeOK /\ (failed = None <=> stage = "none")
  BY DEF Life, Vacancy
<1>1. CASE \/ FreeServerPort \/ CleanupFails \/ Open \/ OpenFails \/ StopServing
           \/ PassVacant \/ Return \/ OldServerCloses
  <2>1. /\ UNCHANGED <<poolVars, taskVars, toCreate, processVars, clientVars, id, oldMaster, stray,
                       faults>>
        /\ freed' = freed
        /\ nextStop' = nextStop \/ (nextStop \in Id /\ nextStop' = nextStop + 1)
        /\ master' \in {"clean", "create", "serve", "stop", "returned"} /\ cleaned' \in BOOLEAN
        /\ serverPort' \in {"old", "new", "none"}
        /\ contested' \in SUBSET Id
    <3>1. CASE FreeServerPort \/ CleanupFails \/ OpenFails \/ OldServerCloses
      BY <1>0, <3>1
      DEF FreeServerPort, CleanupFails, OpenFails, OldServerCloses, TypeOK, oldVars
    <3>2. CASE Open \/ StopServing \/ PassVacant \/ Return
      BY <1>0, <3>2 DEF Open, StopServing, PassVacant, Return, TypeOK, oldVars
    <3> QED BY <1>1, <3>1, <3>2
  <2>2. nextStop' \in 0 .. Capacity
    BY <1>0, <2>1, Distinct DEF TypeOK, Id
  <2>3. TypeOK'
    BY <1>0, <2>1, <2>2 DEF TypeOK, poolVars, taskVars, processVars, clientVars, faults
  <2>4. Still
    BY <1>0, <2>1 DEF Still, Alive, poolVars, processVars
  <2> QED BY <2>3, <2>4, StillLives
<1>2. CASE HandBack
  <2>1. /\ UNCHANGED <<masterVars, processVars, clientVars, id, oldVars, faults>>
        /\ UNCHANGED <<pool, vacant, started>>
        /\ stage = "handBack" /\ failed' = None /\ stage' = "none"
    BY <1>2 DEF HandBack, WP!HandBack, WP!poolVars
  <2>2. failed \in Id /\ failed \in AnyId
    BY <1>0, <2>1, Distinct DEF TypeOK
  <2>3. /\ available' \in SUBSET Task /\ assigned' \in [AnyId -> Task \union {None}]
        /\ completed' \in SUBSET Task
    BY <1>0, <1>2, <2>2 DEF HandBack, TP!Deallocate, taskVars, TypeOK
  <2>4. TypeOK'
    BY <1>0, <2>1, <2>3 DEF TypeOK, masterVars, processVars, clientVars, oldVars, faults
  <2>5. Still
    BY <1>0, <2>1 DEF Still, Alive, processVars
  <2> QED BY <2>4, <2>5, StillLives
<1>3. ASSUME NEW w \in Id, NoticeLoss(w) \/ SuspectWrongly(w) PROVE Life'
  <2>1. /\ UNCHANGED <<taskVars, masterVars, processVars, clientVars, id, oldVars, unbuilt>>
        /\ losses' = losses \/ (losses < MaxLosses /\ losses' = losses + 1)
        /\ UNCHANGED <<pool, vacant, started>>
        /\ failed' = w /\ stage' = "stop"
    BY <1>3 DEF NoticeLoss, SuspectWrongly, Lose, WP!Notice, WP!poolVars, faults
  <2>2. losses' \in 0 .. MaxLosses
    BY <1>0, <2>1, Distinct DEF TypeOK
  <2>3. TypeOK'
    BY <1>0, <2>1, <2>2 DEF TypeOK, taskVars, masterVars, processVars, clientVars, oldVars
  <2>4. Still
    BY <1>0, <2>1, Distinct DEF Still, Alive, processVars
  <2> QED BY <2>3, <2>4, StillLives
<1> QED BY <1>1, <1>2, <1>3

(* A build that fails takes an id that is vacant, and leaves the rest.     *)
LEMMA FailingLives ==
  ASSUME Life, CreateFails \/ ReplaceFails
  PROVE  Life'
<1>0. TypeOK /\ (failed = None <=> stage = "none")
  BY DEF Life, Vacancy
<1>1. /\ UNCHANGED <<taskVars, freed, cleaned, toCreate, nextStop, serverPort, processVars,
                     clientVars, id, oldVars, losses, pool, started>>
      /\ unbuilt < MaxBuildFailures /\ unbuilt' = unbuilt + 1
      /\ vacant # <<>> /\ vacant' = Tail(vacant)
      /\ master' \in {"clean", "create", "serve", "stop", "returned"}
      /\ failed' = None <=> stage' = "none"
      /\ failed' \in Id \union {None} /\ stage' \in {"none", "stop", "create", "handBack"}
  <2>1. CASE CreateFails
    BY <1>0, <2>1 DEF CreateFails, FailBuild, WP!NoProcess, TypeOK
  <2>2. CASE ReplaceFails
    BY <1>0, <2>2 DEF ReplaceFails, FailBuild, WP!Abandon, WP!NoProcess, masterVars, TypeOK
  <2> QED BY <2>1, <2>2
<1>2. /\ vacant \in Seq(Id) /\ vacant' \in Seq(Id)
      /\ NoRepetition(vacant') /\ Elements(vacant') \subseteq Elements(vacant)
  <2>1. vacant \in Seq(Id) /\ NoRepetition(vacant)
    BY <1>0 DEF Life, Vacancy, TypeOK
  <2> QED BY <1>1, <2>1, PollElements
<1>3. unbuilt' \in 0 .. MaxBuildFailures
  BY <1>0, <1>1, Distinct DEF TypeOK
<1>4. TypeOK'
  BY <1>0, <1>1, <1>2, <1>3 DEF TypeOK, taskVars, processVars, clientVars, oldVars
<1>5. Names'
  BY <1>1 DEF Life, Names, processVars
<1>6. Pooled'
  BY <1>1 DEF Life, Pooled, Alive, processVars
<1>7. Vacancy'
  BY <1>1, <1>2 DEF Life, Vacancy
<1>8. Sockets'
  BY <1>1 DEF Life, Sockets, Alive, processVars
<1> QED BY <1>4, <1>5, <1>6, <1>7, <1>8 DEF Life

(* Who is killed has been born: the process that has a port, the worker in *)
(* the pool, or one that lives.                                            *)
LEMMA Victims ==
  ASSUME Life
  PROVE  /\ \A w \in AnyId : socket[w] # None =>
              /\ socket[w] \in Process /\ Alive(socket[w]) /\ id[socket[w]] = w
         /\ \A w \in Id : pool[w] # None =>
              /\ pool[w] \in New /\ pool[w] \in Process /\ client[pool[w]] # "unborn"
              /\ id[pool[w]] = w
BY Distinct DEF Life, TypeOK, Names, Pooled, Sockets

(* The steps that kill. *)
LEMMA KillingLives ==
  ASSUME Life,
         FreePort \/ StopNext \/ StopFailed \/ \E p \in Process : Crash(p) \/ Dismiss(p)
  PROVE  Life'
<1>0. TypeOK /\ (failed = None <=> stage = "none")
  BY DEF Life, Vacancy
<1>1. CASE FreePort
  <2> DEFINE ps == {socket[w] : w \in {PortToFree} \intersect AnyId} \ {None}
  <2>1. ps \in SUBSET Process /\ \A p \in ps : client[p] # "unborn"
    BY Victims DEF Alive
  <2>2. /\ Kill(ps) /\ freed < Capacity /\ freed' = freed + 1
        /\ UNCHANGED <<poolVars, taskVars, master, cleaned, toCreate, nextStop, serverPort,
                       clientVars, id, oldVars, faults>>
    BY <1>1 DEF FreePort
  <2> HIDE DEF ps
  <2>3. /\ client' \in [Process -> {"unborn", "dead", "left", "ask", "execute", "report"}]
        /\ heartbeat' \in [Process -> {"none", "bind", "answer"}]
        /\ socket' \in [AnyId -> Process \union {None}]
    BY <2>1, <2>2, KillEffect
  <2>4. freed' \in 0 .. Capacity
    BY <1>0, <2>2, Distinct DEF TypeOK
  <2>5. TypeOK'
    BY <1>0, <2>2, <2>3, <2>4 DEF TypeOK, poolVars, taskVars, clientVars, oldVars, faults
  <2> QED BY <2>1, <2>2, <2>5, KillLives
<1>2. ASSUME NEW w \in Id, pool[w] # None, Kill({pool[w]}), WP!Remove(w),
             UNCHANGED <<taskVars, master, freed, cleaned, toCreate, serverPort, clientVars,
                         id, oldVars, faults, failed>>,
             nextStop' \in 0 .. Capacity,
             stage' \in {"none", "stop", "create", "handBack"}, failed' = None <=> stage' = "none"
      PROVE  Life'
  <2>1. {pool[w]} \in SUBSET Process /\ \A p \in {pool[w]} : client[p] # "unborn"
    BY <1>2, Victims
  <2>2. /\ client' \in [Process -> {"unborn", "dead", "left", "ask", "execute", "report"}]
        /\ heartbeat' \in [Process -> {"none", "bind", "answer"}]
        /\ socket' \in [AnyId -> Process \union {None}]
    BY <1>2, <2>1, KillEffect
  <2>3. /\ pool' \in [Id -> New \union {None}] /\ vacant' \in Seq(Id) /\ started' = started
    BY <1>0, <1>2 DEF WP!Remove, TypeOK
  <2>4. TypeOK'
    BY <1>0, <1>2, <2>2, <2>3 DEF TypeOK, taskVars, clientVars, oldVars, faults
  <2> QED BY <1>2, <2>4, RemoveLives
<1>3. CASE StopNext
  <2>1. /\ nextStop \in Id /\ pool[nextStop] # None /\ Kill({pool[nextStop]})
        /\ WP!Remove(nextStop) /\ failed' = failed /\ stage' = stage
    BY <1>3 DEF StopNext, WP!Stop, WP!failureVars
  <2>2. nextStop' \in 0 .. Capacity
    BY <1>3, <2>1, Distinct DEF StopNext, Id
  <2>3. UNCHANGED <<taskVars, master, freed, cleaned, toCreate, serverPort, clientVars, id,
                    oldVars, faults>>
    BY <1>3 DEF StopNext
  <2> QED BY <1>0, <1>2, <2>1, <2>2, <2>3 DEF TypeOK
<1>4. CASE StopFailed
  <2>1. /\ stage = "stop" /\ failed' = failed /\ stage' = "create"
        /\ UNCHANGED <<taskVars, masterVars, clientVars, id, oldVars, faults>>
    BY <1>4 DEF StopFailed, WP!StopFailed
  <2>2. failed \in Id /\ failed # None
    BY <1>0, <2>1, Distinct DEF TypeOK
  <2>3. CASE pool[failed] # None
    BY <1>0, <1>2, <1>4, <2>1, <2>2, <2>3 DEF StopFailed, WP!StopFailed, masterVars, TypeOK
  <2>4. CASE pool[failed] = None
    <3>1. UNCHANGED <<pool, vacant, started, processVars>>
      BY <1>4, <2>4 DEF StopFailed, WP!StopFailed, WP!Remove, WP!poolVars
    <3>2. TypeOK'
      BY <1>0, <2>1, <3>1 DEF TypeOK, taskVars, masterVars, clientVars, processVars, oldVars, faults
    <3>3. Still
      BY <2>1, <2>2, <3>1 DEF Still, Alive, processVars
    <3> QED BY <3>2, <3>3, StillLives
  <2> QED BY <2>3, <2>4
<1>5. ASSUME NEW p \in Process, Crash(p) PROVE Life'
  <2>1. {p} \in SUBSET Process /\ \A q \in {p} : client[q] # "unborn"
    BY <1>5 DEF Crash, Alive
  <2>2. Kill({p}) /\ UNCHANGED <<poolVars, taskVars, masterVars, clientVars, id, oldVars, unbuilt>>
    BY <1>5 DEF Crash, Lose, WP!Die, WP!failureVars, poolVars
  <2>3. losses' \in 0 .. MaxLosses
    BY <1>0, <1>5, Distinct DEF Crash, Lose, TypeOK
  <2>4. /\ client' \in [Process -> {"unborn", "dead", "left", "ask", "execute", "report"}]
        /\ heartbeat' \in [Process -> {"none", "bind", "answer"}]
        /\ socket' \in [AnyId -> Process \union {None}]
    BY <2>1, <2>2, KillEffect
  <2>5. TypeOK'
    BY <1>0, <2>2, <2>3, <2>4 DEF TypeOK, poolVars, taskVars, masterVars, clientVars, oldVars
  <2> QED BY <2>1, <2>2, <2>5, KillLives
<1>6. ASSUME NEW p \in Process, Dismiss(p) PROVE Life'
  <2>1. /\ id[p] \in Id /\ pool[id[p]] # None /\ Kill({pool[id[p]]})
        /\ WP!Remove(id[p]) /\ failed' = failed /\ stage' = stage
        /\ UNCHANGED <<taskVars, masterVars, clientVars, id, oldVars, faults>>
    BY <1>6 DEF Dismiss, WP!Stop, WP!failureVars
  <2> QED BY <1>0, <1>2, <2>1 DEF TypeOK, masterVars
<1> QED BY <1>1, <1>3, <1>4, <1>5, <1>6

(* The steps that start a process. *)
LEMMA StartingLives ==
  ASSUME Life, CreateWorker \/ Replace
  PROVE  Life'
<1>0. TypeOK /\ (failed = None <=> stage = "none")
  BY DEF Life, Vacancy
<1>1. NewWorker /\ WP!NewProcess /\ UNCHANGED <<taskVars, clientVars, oldVars, faults>>
  BY DEF CreateWorker, Replace, WP!Replace
<1>2. /\ UNCHANGED <<master, freed, cleaned, serverPort, failed>>
      /\ stage' \in {"none", "stop", "create", "handBack"}
      /\ failed' = None <=> stage' = "none"
      /\ toCreate' \in 0 .. Capacity /\ nextStop' = nextStop
  <2>1. CASE CreateWorker
    BY <1>0, <2>1, Distinct DEF CreateWorker, TypeOK
  <2>2. CASE Replace
    BY <1>0, <2>2 DEF Replace, WP!Replace, masterVars, TypeOK
  <2> QED BY <2>1, <2>2
<1>3. /\ pool' \in [Id -> New \union {None}] /\ vacant' \in Seq(Id) /\ started' \in 0 .. MaxSpawn
      /\ client' \in [Process -> {"unborn", "dead", "left", "ask", "execute", "report"}]
      /\ heartbeat' \in [Process -> {"none", "bind", "answer"}]
      /\ socket' = socket /\ id' \in [Process -> AnyId \union {None}]
  <2> DEFINE n == started + 1
             w == Head(vacant)
  <2>1. /\ n \in New /\ n \in Process /\ w \in Id /\ w \in AnyId
        /\ vacant' \in Seq(Id) /\ started' \in 0 .. MaxSpawn
        /\ pool' = [pool EXCEPT ![w] = n]
        /\ client' = [client EXCEPT ![n] = "ask"]
        /\ heartbeat' = [heartbeat EXCEPT ![n] = "bind"]
        /\ id' = [id EXCEPT ![n] = w]
        /\ socket' = socket
    BY <1>1, NewEffect, Distinct
  <2> HIDE DEF n, w
  <2> QED BY <1>0, <2>1 DEF TypeOK
<1>4. TypeOK'
  BY <1>0, <1>1, <1>2, <1>3 DEF TypeOK, taskVars, clientVars, oldVars, faults
<1> QED BY <1>1, <1>2, <1>4, NewLives

(* Every step keeps names, pool, vacant ids and sockets in order. *)
LEMMA NextLife == Life /\ [Next]_vars => Life'
<1> SUFFICES ASSUME Life, [Next]_vars PROVE Life'
  OBVIOUS
<1>1. CASE UNCHANGED vars
  <2>1. TypeOK'
    BY <1>1
    DEF vars, poolVars, taskVars, masterVars, processVars, clientVars, oldVars, faults, Life,
        TypeOK
  <2>2. Still
    BY <1>1 DEF vars, poolVars, processVars, Still, Alive, Life, Vacancy
  <2> QED BY <2>1, <2>2, StillLives
<1> QED BY <1>1, BindLives, OldLives, ClientLives, MasterLives, FailingLives, KillingLives,
           StartingLives
        DEF Next, Clean, Run, Supervise, Linger

(* The invariant of the processes and ports of both runs. *)
THEOREM ProcessesInOrder == Spec => []Life
BY InitLife, NextLife, PTL DEF Spec

(* The type invariant.  It needs the rest of Life: whoever asks for a task *)
(* must have an id (the map is read with it), and so must the worker whose *)
(* failure is handled.                                                     *)
THEOREM RestartTypeCorrect == Spec => []TypeOK
<1>1. Life => TypeOK
  BY DEF Life
<1> QED BY <1>1, ProcessesInOrder, PTL
-----------------------------------------------------------------------------
(* Where the master is and what that says of the ports and the tasks.      *)
Phases ==
  /\ master = "clean" => started = 0 /\ failed = None /\ ~cleaned
  /\ master \in {"clean", "create"} \/ serverPort = "old" =>
       completed = {} /\ \A w \in AnyId : assigned[w] = None
  /\ serverPort = "new" <=> master = "serve"
  /\ serverPort = "old" => master \in {"clean", "create", "returned"} /\ oldMaster

(* The master starts with the script, and no task is out.                  *)
LEMMA InitPhases == Init => Phases
<1> SUFFICES ASSUME Init PROVE Phases
  OBVIOUS
<1> QED BY DEF Init, WP!Init, TP!Init, Phases

(* Every step keeps this; only a master that serves gives out tasks and    *)
(* completes them.                                                         *)
LEMMA NextPhases == Life /\ Phases /\ [Next]_vars => Phases'
<1> SUFFICES ASSUME Life, Phases, [Next]_vars PROVE Phases'
  OBVIOUS
<1>0. TypeOK /\ (failed = None <=> stage = "none")
  BY DEF Life, Vacancy
<1>1. CASE UNCHANGED vars
  BY <1>1 DEF vars, poolVars, taskVars, masterVars, oldVars, Phases
<1>2. CASE \/ FreePort \/ FreeServerPort \/ CleanupFails \/ CreateFails \/ Open \/ OpenFails
           \/ StopServing \/ PassVacant \/ Return \/ OldServerCloses
  <2>1. UNCHANGED <<started, failed, taskVars>>
    BY <1>2
    DEF FreePort, FreeServerPort, CleanupFails, CreateFails, Open, OpenFails, StopServing,
        PassVacant, Return, OldServerCloses, poolVars, WP!NoProcess
  <2>2. UNCHANGED <<started, failed, completed, assigned>>
    BY <2>1 DEF taskVars
  <2>3. /\ master' = "clean" => master = "clean" /\ cleaned' = cleaned
        /\ master' \in {"clean", "create"} => master \in {"clean", "create"}
        /\ serverPort' = "old" => serverPort = "old"
        /\ serverPort' = "new" <=> master' = "serve"
        /\ serverPort' = "old" => master' \in {"clean", "create", "returned"} /\ oldMaster'
    <3>1. CASE FreePort \/ FreeServerPort \/ CleanupFails \/ CreateFails \/ OldServerCloses
      BY <3>1
      DEF FreePort, FreeServerPort, CleanupFails, CreateFails, OldServerCloses, oldVars, Phases
    <3>2. CASE Open \/ OpenFails \/ StopServing \/ PassVacant \/ Return
      BY <3>2 DEF Open, OpenFails, StopServing, PassVacant, Return, oldVars, Phases
    <3> QED BY <1>2, <3>1, <3>2
  <2> QED BY <2>2, <2>3 DEF Phases
<1>3. ASSUME UNCHANGED <<masterVars, completed, assigned, oldMaster>>,
             master = "clean" => started' = started /\ failed' = failed
      PROVE  Phases'
  BY <1>3 DEF Phases, masterVars
<1>4. CASE CreateWorker
  BY <1>4 DEF CreateWorker, taskVars, oldVars, Phases
<1>5. CASE StopNext
  BY <1>3, <1>5 DEF StopNext, taskVars, masterVars, oldVars, Phases
<1>6. ASSUME NEW w \in Id, NoticeLoss(w) \/ SuspectWrongly(w)
      PROVE  Phases'
  <2>1. Watched(w) /\ UNCHANGED <<taskVars, masterVars, oldMaster>>
    BY <1>6 DEF NoticeLoss, SuspectWrongly, oldVars
  <2>2. started # 0
    <3>1. CASE pool[w] # None
      <4>1. pool[w] \in New /\ pool[w] <= started
        BY <1>0, <3>1 DEF Life, Pooled, TypeOK
      <4> QED BY <4>1 DEF New
    <3>2. ASSUME NEW p \in New, id[p] = w
          PROVE  started # 0
      <4>1. CASE p <= started
        BY <4>1 DEF New
      <4>2. CASE ~(p <= started)
        BY <1>0, <3>2, <4>2, Distinct DEF Life, Names, TypeOK
      <4> QED BY <4>1, <4>2
    <3> QED BY <2>1, <3>1, <3>2 DEF Watched
  <2> QED BY <1>3, <2>1, <2>2 DEF Phases, taskVars
<1>7. CASE StopFailed \/ Replace \/ ReplaceFails
  <2>1. stage # "none" /\ UNCHANGED <<taskVars, masterVars, oldMaster>>
    BY <1>7
    DEF StopFailed, Replace, ReplaceFails, WP!StopFailed, WP!Replace, WP!Abandon, oldVars
  <2> QED BY <1>0, <1>3, <2>1 DEF Phases, taskVars
<1>8. CASE HandBack
  <2>1. stage = "handBack" /\ UNCHANGED <<masterVars, oldMaster>>
    BY <1>8 DEF HandBack, WP!HandBack, oldVars
  <2>2. master # "clean" /\ failed \in AnyId
    BY <1>0, <2>1, Distinct DEF Phases, TypeOK
  <2>3. CASE UNCHANGED taskVars
    BY <1>3, <2>1, <2>2, <2>3 DEF taskVars
  <2>4. CASE TP!Deallocate(failed)
    <3>1. ~(master \in {"clean", "create"} \/ serverPort = "old")
      BY <2>2, <2>4 DEF TP!Deallocate, Phases
    <3> QED BY <2>1, <3>1 DEF Phases, masterVars
  <2> QED BY <1>8, <2>3, <2>4 DEF HandBack
<1>9. ASSUME NEW p \in Process,
             \/ Bind(p) \/ Execute(p) \/ Refused(p) \/ Leave(p) \/ OldServerAnswers(p)
             \/ Crash(p)
      PROVE  Phases'
  <2>1. UNCHANGED <<taskVars, masterVars, started, failed, oldMaster>>
    BY <1>9
    DEF Bind, Execute, Refused, Leave, OldServerAnswers, Crash, poolVars, oldVars, WP!Die,
        WP!failureVars
  <2> QED BY <1>3, <2>1 DEF taskVars
<1>10. ASSUME NEW p \in Process, Ask(p) \/ Report(p) \/ Dismiss(p)
       PROVE  Phases'
  <2>1. master = "serve" /\ UNCHANGED <<masterVars, oldMaster>>
    BY <1>10 DEF Ask, Report, Dismiss, oldVars
  <2> QED BY <2>1 DEF Phases, masterVars
<1>11. ASSUME NEW q \in Old, NEW p \in Old, OldMasterReplaces(q, p)
       PROVE  Phases'
  BY <1>3, <1>11 DEF OldMasterReplaces, poolVars, taskVars
<1> QED BY <1>1, <1>2, <1>4, <1>5, <1>6, <1>7, <1>8, <1>9, <1>10, <1>11
        DEF Next, Clean, Run, Supervise, Talk, Linger
-----------------------------------------------------------------------------
(* The ids that old workers have.  If the earlier master is gone, those    *)
(* are on their ports but for the stray, and the script takes the ports    *)
(* one by one; when it has run, an old worker that lives, or keeps a       *)
(* worker of this run from its port, has a contested id.                   *)
Strays ==
  ~oldMaster =>
    /\ \A p \in Old : Alive(p) => heartbeat[p] = "answer" \/ id[p] \in stray
    /\ master = "clean" => \A w \in Id : w < freed => socket[w] = None \/ w \in stray
    /\ contested \subseteq stray

Contests ==
  cleaned =>
    /\ \A p \in Old : Alive(p) /\ id[p] \in Id => id[p] \in contested
    /\ \A p \in New : Alive(p) /\ heartbeat[p] = "none" => id[p] \in contested

Cleared == Strays /\ Contests

(* No port has been freed yet, and old workers answer on theirs.           *)
LEMMA InitCleared == Init => Cleared
<1> SUFFICES ASSUME Init PROVE Cleared
  OBVIOUS
<1>1. \A p \in Old : Alive(p) => heartbeat[p] = "answer" \/ id[p] \in stray
  BY DEF Init
<1>2. \A w \in Id : ~(w < freed)
  BY DEF Init, Id
<1> QED BY <1>1, <1>2 DEF Init, Cleared, Strays, Contests

(* Most steps bring nobody to life and open no socket. *)
Dwindling ==
  /\ \A p \in Process : Alive(p)' => Alive(p) /\ heartbeat'[p] = heartbeat[p]
  /\ \A w \in AnyId : socket'[w] \in {socket[w], None}
  /\ id' = id

(* Who is born, or binds a port, does so in one of these steps.            *)
LEMMA StepKinds ==
  ASSUME Life, [Next]_vars
  PROVE  \/ Dwindling
         \/ CreateWorker \/ Replace
         \/ \E p \in Process : Bind(p)
         \/ \E q, p \in Old : OldMasterReplaces(q, p)
<1>1. ASSUME NEW ps \in SUBSET Process, \A p \in ps : client[p] # "unborn", Kill(ps), id' = id
      PROVE  Dwindling
  BY <1>1, KillEffect DEF Dwindling
<1>2. CASE UNCHANGED <<processVars, id>>
  BY <1>2 DEF processVars, Dwindling, Alive
<1>3. ASSUME NEW p \in Process, Talk(p)
      PROVE  Dwindling
  <2>1. UNCHANGED <<socket, heartbeat, id>> /\ client[p] \in {"ask", "execute", "report"}
    BY <1>3 DEF Talk, Ask, Execute, Report, Refused, Leave, OldServerAnswers
  <2>2. \A q \in Process : q # p => client'[q] = client[q]
    BY <1>3
    DEF Talk, Ask, Give, Execute, Report, Refused, Leave, OldServerAnswers, Life, TypeOK
  <2> QED BY <2>1, <2>2 DEF Dwindling, Alive
<1>4. CASE FreePort
  <2> DEFINE ps == {socket[w] : w \in {PortToFree} \intersect AnyId} \ {None}
  <2>1. ps \in SUBSET Process /\ \A p \in ps : client[p] # "unborn"
    BY Victims DEF Alive
  <2>2. Kill(ps) /\ id' = id
    BY <1>4 DEF FreePort
  <2> HIDE DEF ps
  <2> QED BY <1>1, <2>1, <2>2
<1>5. CASE StopNext \/ \E p \in Process : Dismiss(p)
  <2>1. PICK w \in Id : pool[w] # None /\ Kill({pool[w]})
    BY <1>5 DEF StopNext, Dismiss
  <2>2. {pool[w]} \in SUBSET Process /\ \A p \in {pool[w]} : client[p] # "unborn"
    BY <2>1, Victims
  <2> QED BY <1>1, <1>5, <2>1, <2>2 DEF StopNext, Dismiss
<1>6. CASE StopFailed
  <2>1. failed \in Id
    BY <1>6 DEF StopFailed, Life, TypeOK, Vacancy
  <2>2. CASE pool[failed] = None
    BY <1>2, <1>6, <2>2 DEF StopFailed
  <2>3. CASE pool[failed] # None
    <3>1. {pool[failed]} \in SUBSET Process /\ \A p \in {pool[failed]} : client[p] # "unborn"
      BY <2>1, <2>3, Victims
    <3> QED BY <1>1, <1>6, <2>3, <3>1 DEF StopFailed
  <2> QED BY <2>2, <2>3
<1>7. ASSUME NEW p \in Process, Crash(p)
      PROVE  Dwindling
  <2>1. {p} \in SUBSET Process /\ \A q \in {p} : client[q] # "unborn"
    BY <1>7 DEF Crash, Alive
  <2> QED BY <1>1, <1>7, <2>1 DEF Crash
<1>8. CASE \/ FreeServerPort \/ CleanupFails \/ CreateFails \/ Open \/ OpenFails \/ StopServing
           \/ PassVacant \/ Return \/ OldServerCloses
           \/ ReplaceFails \/ HandBack \/ \E w \in Id : NoticeLoss(w) \/ SuspectWrongly(w)
  <2>1. UNCHANGED <<processVars, id>>
    BY <1>8
    DEF FreeServerPort, CleanupFails, CreateFails, Open, OpenFails, StopServing, PassVacant,
        Return, OldServerCloses, ReplaceFails, HandBack, NoticeLoss, SuspectWrongly
  <2> QED BY <1>2, <2>1
<1>9. CASE UNCHANGED vars
  BY <1>2, <1>9 DEF vars
<1> QED BY <1>3, <1>4, <1>5, <1>6, <1>7, <1>8, <1>9 DEF Next, Clean, Run, Supervise, Linger

(* The master, the script and the ids, step by step. *)
LEMMA MasterSteps ==
  ASSUME Life, Phases, [Next]_vars
  PROVE  /\ UNCHANGED <<oldMaster, stray>>
         /\ cleaned' => cleaned \/ FreeServerPort
         /\ cleaned => cleaned'
         /\ master' = "clean" => master = "clean" /\ (FreePort \/ freed' = freed)
         /\ master' = "serve" => master = "serve" \/ Open
         /\ \/ contested' = contested \/ FreeServerPort
            \/ \E q, p \in Old : OldMasterReplaces(q, p)
         /\ cleaned => contested \subseteq contested'
<1> DEFINE Goal ==
      /\ UNCHANGED <<oldMaster, stray>>
      /\ cleaned' => cleaned \/ FreeServerPort
      /\ cleaned => cleaned'
      /\ master' = "clean" => master = "clean" /\ (FreePort \/ freed' = freed)
      /\ master' = "serve" => master = "serve" \/ Open
      /\ \/ contested' = contested \/ FreeServerPort
         \/ \E q, p \in Old : OldMasterReplaces(q, p)
      /\ cleaned => contested \subseteq contested'
<1>1. CASE UNCHANGED <<master, freed, cleaned, oldVars>>
  BY <1>1 DEF oldVars
<1>2. CASE FreePort \/ FreeServerPort \/ CleanupFails
  BY <1>2 DEF FreePort, FreeServerPort, CleanupFails, oldVars, Phases
<1>3. CASE CreateFails \/ Open \/ OpenFails \/ StopServing \/ PassVacant \/ Return
  BY <1>3 DEF CreateFails, Open, OpenFails, StopServing, PassVacant, Return, oldVars
<1>4. CASE CreateWorker \/ StopNext \/ Supervise \/ OldServerCloses \/ UNCHANGED vars
  <2>1. UNCHANGED <<master, freed, cleaned, oldVars>>
    BY <1>4
    DEF CreateWorker, StopNext, Supervise, NoticeLoss, SuspectWrongly, StopFailed, Replace,
        ReplaceFails, HandBack, OldServerCloses, vars, masterVars
  <2> QED BY <1>1, <2>1
<1>5. ASSUME NEW p \in Process, Bind(p) \/ Talk(p) \/ Dismiss(p) \/ Crash(p)
      PROVE  Goal
  <2>1. UNCHANGED <<master, freed, cleaned, oldVars>>
    BY <1>5
    DEF Bind, Talk, Ask, Execute, Report, Refused, Leave, OldServerAnswers, Dismiss, Crash,
        masterVars
  <2> QED BY <1>1, <2>1
<1>6. ASSUME NEW q \in Old, NEW p \in Old, OldMasterReplaces(q, p)
      PROVE  Goal
  <2>1. UNCHANGED <<master, freed, cleaned, oldMaster, stray>> /\ contested \subseteq contested'
    BY <1>6 DEF OldMasterReplaces, masterVars
  <2> QED BY <1>6, <2>1
<1> QED BY <1>1, <1>2, <1>3, <1>4, <1>5, <1>6 DEF Next, Clean, Run, Linger

(* When the script has run, an id that no old worker has had stands for    *)
(* one process.                                                            *)
LEMMA OneWorkerPerId ==
  ASSUME Life, Cleared, cleaned
  PROVE  /\ \A p \in Process : Alive(p) /\ id[p] \in Id \ contested =>
              p \in New /\ pool[id[p]] = p
         /\ \A p, q \in Process :
              Alive(p) /\ Alive(q) /\ id[p] = id[q] /\ id[p] \notin contested => p = q
<1>1. \A p \in Process : Alive(p) /\ id[p] \in Id \ contested => p \in New /\ pool[id[p]] = p
  BY Distinct DEF Cleared, Contests, Life, Pooled
<1>2. ASSUME NEW p \in Process, NEW q \in Process, Alive(p), Alive(q), id[p] = id[q],
             id[p] \notin contested
      PROVE  p = q
  <2>1. CASE id[p] \in Id
    BY <1>1, <1>2, <2>1
  <2>2. CASE id[p] \notin Id
    <3>1. p \in Old /\ q \in Old
      BY <1>2, <2>2, Distinct, HasId DEF Life, Alive
    <3> QED BY <1>2, <3>1, Distinct DEF Life, Names
  <2> QED BY <2>1, <2>2
<1> QED BY <1>1, <1>2

(* The script takes the ports one by one, and an old worker that binds one *)
(* was not on it.                                                          *)
LEMMA NextStrays == Life /\ Phases /\ Strays /\ [Next]_vars => Strays'
<1> SUFFICES ASSUME Life, Phases, Strays, [Next]_vars, ~oldMaster'
             PROVE  /\ \A p \in Old : Alive(p)' => heartbeat'[p] = "answer" \/ id'[p] \in stray'
                    /\ master' = "clean" =>
                         \A w \in Id : w < freed' => socket'[w] = None \/ w \in stray'
                    /\ contested' \subseteq stray'
  BY DEF Strays
<1>0. /\ ~oldMaster /\ stray' = stray /\ TypeOK
      /\ master' = "clean" => master = "clean" /\ (FreePort \/ freed' = freed)
      /\ contested' = contested \/ FreeServerPort
  BY MasterSteps DEF Life, OldMasterReplaces
<1>1. /\ \A p \in Old : Alive(p) => heartbeat[p] = "answer" \/ id[p] \in stray
      /\ master = "clean" => \A w \in Id : w < freed => socket[w] = None \/ w \in stray
      /\ contested \subseteq stray
  BY <1>0 DEF Strays
<1>2. New \subseteq Process /\ Old \subseteq Process /\ Id \subseteq AnyId
  BY Distinct
<1>3. contested' \subseteq stray'
  <2>1. CASE FreeServerPort
    <3>1. /\ master = "clean" /\ freed = Capacity
          /\ contested' = {w \in Id : \E p \in Old : Alive(p) /\ id[p] = w}
      BY <2>1 DEF FreeServerPort
    <3>2. \A w \in Id : socket[w] = None \/ w \in stray
      BY <1>1, <3>1, Distinct DEF Id
    <3>3. ASSUME NEW p \in Old, Alive(p), id[p] \in Id
          PROVE  id[p] \in stray
      <4>1. heartbeat[p] = "answer" => socket[id[p]] = p
        BY <1>2 DEF Life, Sockets
      <4> QED BY <1>1, <1>2, <3>2, <3>3, <4>1, Distinct
    <3> QED BY <1>0, <3>1, <3>3
  <2> QED BY <1>0, <1>1, <2>1
<1>4. CASE Dwindling
  <2>1. \A p \in Old : Alive(p)' => heartbeat'[p] = "answer" \/ id'[p] \in stray'
    BY <1>0, <1>1, <1>2, <1>4 DEF Dwindling
  <2>2. ASSUME master' = "clean", NEW w \in Id, w < freed'
        PROVE  socket'[w] = None \/ w \in stray'
    <3>1. CASE w < freed
      BY <1>0, <1>1, <1>2, <1>4, <2>2, <3>1 DEF Dwindling
    <3>2. CASE ~(w < freed)
      <4>1. FreePort
        BY <1>0, <2>2, <3>2
      <4>2. w = freed /\ freed \in Nat
        <5>1. freed' = freed + 1 /\ freed \in Nat /\ w \in Nat
          BY <1>0, <4>1, Distinct DEF FreePort, TypeOK
        <5> QED BY <2>2, <3>2, <5>1
      <4>3. socket[w] # None =>
              socket[w] \in {socket[v] : v \in {PortToFree} \intersect AnyId} \ {None}
        BY <1>2, <4>2 DEF PortToFree
      <4>4. socket'[w] = IF socket[w] \in {socket[v] : v \in {PortToFree} \intersect AnyId} \ {None}
                         THEN None ELSE socket[w]
        BY <1>2, <4>1 DEF FreePort, Kill
      <4> QED BY <4>3, <4>4
    <3> QED BY <3>1, <3>2
  <2> QED BY <1>3, <2>1, <2>2
<1>5. CASE CreateWorker \/ Replace
  <2> DEFINE n == started + 1
  <2>1. NewWorker /\ WP!NewProcess
    BY <1>5 DEF CreateWorker, Replace, WP!Replace
  <2>2. /\ n \in New
        /\ \A p \in Process : p # n => /\ client'[p] = client[p]
                                       /\ heartbeat'[p] = heartbeat[p] /\ id'[p] = id[p]
    BY <1>0, <2>1, NewEffect DEF TypeOK
  <2>3. master' # "clean"
    BY <1>5 DEF CreateWorker, Replace, WP!Replace, masterVars, Phases, Life, Vacancy
  <2> HIDE DEF n
  <2>4. \A p \in Old : p # n
    BY <2>2, Distinct
  <2> QED BY <1>0, <1>1, <1>2, <1>3, <2>2, <2>3, <2>4 DEF Alive
<1>6. ASSUME NEW p \in Process, Bind(p)
      PROVE  /\ \A q \in Old : Alive(q)' => heartbeat'[q] = "answer" \/ id'[q] \in stray'
             /\ master' = "clean" =>
                  \A w \in Id : w < freed' => socket'[w] = None \/ w \in stray'
  <2>1. /\ heartbeat[p] = "bind" /\ Alive(p)
        /\ UNCHANGED <<client, id, masterVars>>
    BY <1>6 DEF Bind, Life, Sockets
  <2>2. \A q \in Process : q # p => heartbeat'[q] = heartbeat[q]
    BY <1>0, <1>6 DEF Bind, TypeOK
  <2>3. \A w \in AnyId : w # id[p] => socket'[w] = socket[w]
    BY <1>0, <1>6 DEF Bind, TypeOK
  <2>4. CASE p \in Old
    <3>1. id[p] \in stray
      BY <1>1, <2>1, <2>4
    <3> QED BY <1>0, <1>1, <1>2, <2>1, <2>2, <2>3, <3>1 DEF Alive, masterVars
  <2>5. CASE p \in New
    <3>1. p <= started
      BY <2>1, <2>5, HasId DEF Life, Alive
    <3>2. started # 0
      BY <2>5, <3>1 DEF New
    <3>3. master' # "clean"
      BY <2>1, <3>2 DEF Phases, masterVars
    <3>4. p \notin Old
      BY <2>5, Distinct
    <3> QED BY <1>0, <1>1, <1>2, <2>1, <2>2, <3>3, <3>4 DEF Alive
  <2> QED BY <2>4, <2>5, Distinct
<1> QED BY <1>0, <1>3, <1>4, <1>5, <1>6, StepKinds DEF OldMasterReplaces

(* When the script has run, nobody gets an id of this run unnoticed, and a *)
(* worker finds its port free but for old workers.                         *)
LEMMA NextContests == Life /\ Phases /\ Cleared /\ [Next]_vars => Contests'
<1> SUFFICES ASSUME Life, Phases, Cleared, [Next]_vars, cleaned'
             PROVE  /\ \A p \in Old : Alive(p)' /\ id'[p] \in Id => id'[p] \in contested'
                    /\ \A p \in New :
                         Alive(p)' /\ heartbeat'[p] = "none" => id'[p] \in contested'
  BY DEF Contests
<1>0. /\ TypeOK
      /\ cleaned \/ FreeServerPort
      /\ cleaned => contested \subseteq contested'
  BY MasterSteps DEF Life
<1>1. cleaned =>
        /\ \A p \in Old : Alive(p) /\ id[p] \in Id => id[p] \in contested
        /\ \A p \in New : Alive(p) /\ heartbeat[p] = "none" => id[p] \in contested
  BY DEF Cleared, Contests
<1>2. New \subseteq Process /\ Old \subseteq Process /\ Id \subseteq AnyId
  BY Distinct
<1>3. CASE FreeServerPort
  <2>1. /\ started = 0 /\ UNCHANGED <<client, heartbeat, socket, id>>
        /\ contested' = {w \in Id : \E p \in Old : Alive(p) /\ id[p] = w}
    BY <1>3 DEF FreeServerPort, Phases, processVars
  <2>2. \A p \in New : ~Alive(p)
    <3>1. \A p \in New : p > started
      BY <2>1 DEF New
    <3> QED BY <1>2, <3>1 DEF Life, Names, Alive
  <2> QED BY <2>1, <2>2 DEF Alive
<1>4. CASE cleaned /\ Dwindling
  BY <1>0, <1>1, <1>2, <1>4 DEF Dwindling
<1>5. CASE cleaned /\ (CreateWorker \/ Replace)
  <2> DEFINE n == started + 1
  <2>1. NewWorker /\ WP!NewProcess
    BY <1>5 DEF CreateWorker, Replace, WP!Replace
  <2>2. /\ n \in New
        /\ \A p \in Process : p # n => /\ client'[p] = client[p]
                                       /\ heartbeat'[p] = heartbeat[p] /\ id'[p] = id[p]
        /\ heartbeat'[n] = "bind"
    BY <1>0, <2>1, NewEffect DEF TypeOK
  <2> HIDE DEF n
  <2>3. \A p \in Old : p # n
    BY <2>2, Distinct
  <2> QED BY <1>0, <1>1, <1>2, <1>5, <2>2, <2>3 DEF Alive
<1>6. ASSUME cleaned, NEW p \in Process, Bind(p)
      PROVE  /\ \A q \in Old : Alive(q)' /\ id'[q] \in Id => id'[q] \in contested'
             /\ \A q \in New : Alive(q)' /\ heartbeat'[q] = "none" => id'[q] \in contested'
  <2>1. /\ heartbeat[p] = "bind" /\ Alive(p) /\ UNCHANGED <<client, id>>
    BY <1>6 DEF Bind, Life, Sockets
  <2>2. \A q \in Process : q # p => heartbeat'[q] = heartbeat[q]
    BY <1>0, <1>6 DEF Bind, TypeOK
  <2>3. ASSUME p \in New, heartbeat'[p] = "none"
        PROVE  id[p] \in contested
    <3>1. socket[id[p]] # None /\ id[p] \in AnyId
      BY <1>0, <1>6, <2>1, <2>3, HasId DEF Bind, TypeOK, Life, Alive
    <3>2. /\ socket[id[p]] \in Process /\ Alive(socket[id[p]]) /\ id[socket[id[p]]] = id[p]
          /\ heartbeat[socket[id[p]]] = "answer"
      BY <3>1, Victims DEF Life, Sockets
    <3>3. socket[id[p]] # p
      BY <2>1, <3>2
    <3> QED BY <1>6, <2>1, <3>2, <3>3, OneWorkerPerId
  <2> QED BY <1>0, <1>1, <1>2, <1>6, <2>1, <2>2, <2>3 DEF Alive
<1>7. ASSUME cleaned, NEW q \in Old, NEW p \in Old, OldMasterReplaces(q, p)
      PROVE  /\ \A r \in Old : Alive(r)' /\ id'[r] \in Id => id'[r] \in contested'
             /\ \A r \in New : Alive(r)' /\ heartbeat'[r] = "none" => id'[r] \in contested'
  <2>1. /\ client' = [client EXCEPT ![q] = "dead", ![p] = "ask"]
        /\ heartbeat' = [heartbeat EXCEPT ![q] = "none", ![p] = "bind"]
        /\ contested' = contested \union ({id[p]} \intersect Id)
        /\ id' = id
    BY <1>7 DEF OldMasterReplaces
  <2>2. \A r \in New : r # p /\ r # q
    BY Distinct
  <2>3. \A r \in New : client'[r] = client[r] /\ heartbeat'[r] = heartbeat[r]
    BY <1>0, <1>2, <2>1, <2>2 DEF TypeOK
  <2>4. \A r \in Old : Alive(r)' => Alive(r) \/ r = p
    BY <1>0, <1>2, <2>1 DEF Alive, TypeOK
  <2> QED BY <1>1, <1>7, <2>1, <2>3, <2>4 DEF Alive
<1> QED BY <1>0, <1>3, <1>4, <1>5, <1>6, <1>7, StepKinds

(* The ports, in every run. *)
THEOREM PortsCleared == Spec => [](Life /\ Phases /\ Cleared)
<1>1. Init => Life /\ Phases /\ Cleared
  BY InitLife, InitPhases, InitCleared
<1>2. (Life /\ Phases /\ Cleared) /\ [Next]_vars => (Life /\ Phases /\ Cleared)'
  BY NextLife, NextPhases, NextStrays, NextContests DEF Cleared
<1> QED BY <1>1, <1>2, PTL DEF Spec

(* If the earlier master is gone, the script reserves the ids of this run, *)
(* but for those of workers that were not on their ports: WordCount says   *)
(* that it reserves the ports of all its workers, and asks nobody who has  *)
(* which id.                                                               *)
THEOREM IdsAreReserved == Spec => []IdsReserved
<1>1. Cleared => IdsReserved
  BY DEF Cleared, Strays, IdsReserved
<1> QED BY <1>1, PortsCleared, PTL

(* When the script has run, the watcher of an id that no old worker has    *)
(* had hears its own worker and nobody else (HeartbeatServerRunnable gives *)
(* up if the port is taken, Worker.run does not notice, and whoever has    *)
(* the port answers).                                                      *)
THEOREM WatchersHear == Spec => []WatchersHearTheirWorkers
<1>1. Life /\ Cleared => WatchersHearTheirWorkers
  <2> SUFFICES ASSUME Life, Cleared, cleaned, NEW w \in Id \ contested,
                      pool[w] # None, heartbeat[pool[w]] # "bind"
               PROVE  socket[w] = (IF Alive(pool[w]) THEN pool[w] ELSE None)
    BY DEF WatchersHearTheirWorkers
  <2>0. TypeOK /\ w \in AnyId
    BY Distinct DEF Life
  <2>1. pool[w] \in New /\ pool[w] \in Process /\ id[pool[w]] = w
    BY Victims
  <2>2. CASE Alive(pool[w])
    <3>1. heartbeat[pool[w]] = "answer"
      BY <2>0, <2>1, <2>2 DEF Cleared, Contests, TypeOK
    <3> QED BY <2>1, <2>2, <3>1 DEF Life, Sockets
  <2>3. CASE ~Alive(pool[w])
    <3>1. ASSUME socket[w] # None PROVE FALSE
      <4>1. socket[w] \in Process /\ Alive(socket[w]) /\ id[socket[w]] = w
        BY <2>0, <3>1, Victims
      <4>2. pool[w] = socket[w]
        BY <4>1, OneWorkerPerId
      <4> QED BY <2>3, <4>1, <4>2
    <3> QED BY <2>3, <3>1
  <2> QED BY <2>2, <2>3
<1> QED BY <1>1, PortsCleared, PTL
-----------------------------------------------------------------------------
(* Who reports in this run has executed its task, unless that is one of an *)
(* earlier run, and who has not started has none.                          *)
Reporting ==
  /\ \A p \in Process : client[p] = "report" => task[p] \in executed \union {None}
  /\ \A p \in Process : client[p] = "unborn" => task[p] = None

(* When the script has run, an id with a task that no old worker has had   *)
(* stands for a process that was given this task, if it is at work, ...    *)
Counted ==
  \A p \in Process :
    client[p] \in {"execute", "report"} /\ id[p] \notin contested /\ assigned[id[p]] # None =>
      assigned[id[p]] = task[p]

(* ... and that is at work on it, or has left with it, or is dead; but for *)
(* a replacement that is, or could not be, created.                        *)
OnTask(w) ==
  /\ pool[w] # None
  /\ Alive(pool[w]) => /\ task[pool[w]] = assigned[w]
                       /\ client[pool[w]] \in {"execute", "report", "left"}

Untold(w) == pool[w] = None \/ task[pool[w]] = None

Held ==
  \A w \in Id \ contested : assigned[w] # None =>
    /\ failed # w => OnTask(w) \/ (unbuilt > 0 /\ Untold(w))
    /\ stage = "create" /\ failed = w => OnTask(w) \/ Untold(w)

Working == Reporting /\ (cleaned => Counted /\ (master = "serve" => Held))

(* The script has not run at first. *)
LEMMA InitWorking == Init => Working
BY DEF Init, Working, Reporting

(* Most steps give no task and begin no work. *)
Idle ==
  /\ UNCHANGED <<completed, executed, task, id>>
  /\ \A w \in AnyId : assigned'[w] \in {assigned[w], None}
  /\ \A p \in Process : /\ client'[p] \in {"execute", "report"} => client'[p] = client[p]
                        /\ client'[p] = "unborn" => client[p] = "unborn"

(* The steps that neither start a process nor are a client's.              *)
LEMMA IdleSteps ==
  ASSUME Life, [Next]_vars
  PROVE  \/ Idle
         \/ CreateWorker \/ Replace
         \/ \E q, p \in Old : OldMasterReplaces(q, p)
         \/ \E p \in Process : Talk(p)
<1>0. TypeOK
  BY DEF Life
<1>1. ASSUME UNCHANGED <<taskVars, clientVars, id>>,
             \A p \in Process : client'[p] \in {client[p], "dead"}
      PROVE  Idle
  BY <1>1 DEF taskVars, clientVars, Idle
<1>2. ASSUME NEW ps, Kill(ps) PROVE \A p \in Process : client'[p] \in {client[p], "dead"}
  BY <1>2 DEF Kill
<1>3. CASE FreePort \/ StopNext \/ StopFailed \/ \E p \in Process : Dismiss(p)
  BY <1>1, <1>2, <1>3 DEF FreePort, StopNext, StopFailed, Dismiss, processVars
<1>4. CASE HandBack
  <2>1. UNCHANGED <<processVars, clientVars, id>>
    BY <1>4 DEF HandBack
  <2>2. completed' = completed /\ \A w \in AnyId : assigned'[w] \in {assigned[w], None}
    BY <1>0, <1>4 DEF HandBack, TP!Deallocate, taskVars, TypeOK
  <2> QED BY <2>1, <2>2 DEF processVars, clientVars, Idle
<1>5. CASE \/ FreeServerPort \/ CleanupFails \/ CreateFails \/ Open \/ OpenFails \/ StopServing
           \/ PassVacant \/ Return \/ OldServerCloses
           \/ ReplaceFails \/ \E w \in Id : NoticeLoss(w) \/ SuspectWrongly(w)
  <2>1. UNCHANGED <<taskVars, processVars, clientVars, id>>
    BY <1>5
    DEF FreeServerPort, CleanupFails, CreateFails, Open, OpenFails, StopServing, PassVacant,
        Return, OldServerCloses, ReplaceFails, NoticeLoss, SuspectWrongly
  <2> QED BY <1>1, <2>1 DEF processVars
<1>6. ASSUME NEW p \in Process, Bind(p) \/ Crash(p)
      PROVE  Idle
  BY <1>1, <1>2, <1>6 DEF Bind, Crash
<1>7. CASE UNCHANGED vars
  BY <1>1, <1>7 DEF vars, processVars
<1> QED BY <1>3, <1>4, <1>5, <1>6, <1>7 DEF Next, Clean, Run, Supervise, Linger

(* What a new process and a worker of the earlier master begin with. *)
LEMMA StartsIdle ==
  ASSUME Life, CreateWorker \/ Replace \/ \E q, p \in Old : OldMasterReplaces(q, p)
  PROVE  /\ UNCHANGED <<taskVars, clientVars>>
         /\ \A p \in Process :
              /\ client'[p] \in {"execute", "report"} => client'[p] = client[p] /\ id'[p] = id[p]
              /\ client'[p] = "unborn" => client[p] = "unborn"
<1>0. TypeOK
  BY DEF Life
<1>1. CASE CreateWorker \/ Replace
  <2> DEFINE n == started + 1
  <2>1. NewWorker /\ WP!NewProcess /\ UNCHANGED <<taskVars, clientVars>>
    BY <1>1 DEF CreateWorker, Replace, WP!Replace
  <2>2. /\ client'[n] = "ask"
        /\ \A p \in Process : p # n => client'[p] = client[p] /\ id'[p] = id[p]
    BY <1>0, <2>1, NewEffect DEF TypeOK
  <2> HIDE DEF n
  <2> QED BY <2>1, <2>2
<1>2. ASSUME NEW q \in Old, NEW p \in Old, OldMasterReplaces(q, p)
      PROVE  /\ UNCHANGED <<taskVars, clientVars>>
             /\ \A r \in Process :
                  /\ client'[r] \in {"execute", "report"} =>
                       client'[r] = client[r] /\ id'[r] = id[r]
                  /\ client'[r] = "unborn" => client[r] = "unborn"
  <2>1. /\ UNCHANGED <<taskVars, clientVars, id>>
        /\ client' = [client EXCEPT ![q] = "dead", ![p] = "ask"]
    BY <1>2 DEF OldMasterReplaces
  <2>2. \A r \in Process :
          client'[r] = IF r = p THEN "ask" ELSE IF r = q THEN "dead" ELSE client[r]
    BY <1>0, <2>1, Distinct DEF TypeOK
  <2>3. ASSUME NEW r \in Process
        PROVE  /\ client'[r] \in {"execute", "report"} => client'[r] = client[r]
               /\ client'[r] = "unborn" => client[r] = "unborn"
    BY <2>2
  <2> QED BY <2>1, <2>3
<1> QED BY <1>1, <1>2

(* A client that reports has executed what it was given.                   *)
LEMMA NextReporting == Life /\ Reporting /\ [Next]_vars => Reporting'
<1> SUFFICES ASSUME Life, Reporting, [Next]_vars PROVE Reporting'
  OBVIOUS
<1>0. TypeOK
  BY DEF Life
<1>1. CASE Idle
  BY <1>1 DEF Idle, Reporting
<1>2. CASE CreateWorker \/ Replace \/ \E q, p \in Old : OldMasterReplaces(q, p)
  <2>1. /\ UNCHANGED clientVars
        /\ \A p \in Process : /\ client'[p] = "report" => client[p] = "report"
                              /\ client'[p] = "unborn" => client[p] = "unborn"
    BY <1>2, StartsIdle
  <2> QED BY <2>1 DEF Reporting, clientVars
<1>3. ASSUME NEW p \in Process, Talk(p)
      PROVE  Reporting'
  <2>1. /\ \A q \in Process : q # p => client'[q] = client[q] /\ task'[q] = task[q]
        /\ client'[p] # "unborn"
        /\ executed \subseteq executed'
        /\ client'[p] = "report" => task'[p] \in executed' \union {None}
    <3>1. CASE Execute(p)
      BY <1>0, <3>1 DEF Execute, TypeOK
    <3>2. CASE Ask(p) \/ OldServerAnswers(p)
      BY <1>0, <3>2 DEF Ask, OldServerAnswers, Give, TypeOK
    <3>3. CASE Report(p) \/ Refused(p) \/ Leave(p)
      BY <1>0, <3>3 DEF Report, Refused, Leave, clientVars, TypeOK
    <3> QED BY <1>3, <3>1, <3>2, <3>3 DEF Talk
  <2> QED BY <2>1 DEF Reporting
<1> QED BY <1>1, <1>2, <1>3, IdleSteps

(* A client at work. *)
LEMMA WorkCounts ==
  ASSUME Life, Phases, Cleared, cleaned, Counted, NEW p \in Process, Talk(p)
  PROVE  Counted'
<1>0. TypeOK
  BY DEF Life
<1>1. /\ client[p] \in {"ask", "execute", "report"} /\ Alive(p) /\ id[p] \in AnyId
      /\ id' = id /\ contested' = contested
  <2>1. /\ client[p] \in {"ask", "execute", "report"}
        /\ id' = id /\ contested' = contested
    BY DEF Talk, Ask, Execute, Report, Refused, Leave, OldServerAnswers, oldVars
  <2> QED BY <2>1, HasId DEF Life, Alive
<1>2. ASSUME NEW q \in Process, q # p, client[q] \in {"execute", "report"},
             id[q] \notin contested
      PROVE  id[q] # id[p]
  BY <1>1, <1>2, OneWorkerPerId DEF Alive
<1>3. ASSUME NEW f \in Task, Give(p, f), assigned' = [assigned EXCEPT ![id[p]] = f]
      PROVE  Counted'
  <2>1. /\ client'[p] = "execute" /\ task'[p] = f /\ assigned'[id[p]] = f
        /\ \A q \in Process : q # p => client'[q] = client[q] /\ task'[q] = task[q]
    BY <1>0, <1>1, <1>3 DEF Give, TypeOK
  <2>2. \A q \in Process : id[q] # id[p] => assigned'[id[q]] = assigned[id[q]]
    BY <1>0, <1>3 DEF TypeOK
  <2> QED BY <1>1, <1>2, <2>1, <2>2 DEF Counted
<1>4. CASE Ask(p)
  <2>1. CASE assigned[id[p]] # None /\ Give(p, assigned[id[p]]) /\ UNCHANGED taskVars
    <3>1. PICK f \in Task : f = assigned[id[p]]
      BY <1>0, <1>1, <2>1 DEF TypeOK
    <3>2. Give(p, f) /\ assigned' = assigned
      BY <1>4, <2>1, <3>1 DEF taskVars
    <3>3. assigned' = [assigned EXCEPT ![id[p]] = f]
      BY <1>0, <1>1, <3>1, <3>2 DEF TypeOK
    <3> QED BY <1>3, <3>2, <3>3
  <2>2. CASE TP!Allocate(id[p]) /\ Give(p, assigned'[id[p]])
    <3>1. PICK f \in available : assigned' = [assigned EXCEPT ![id[p]] = f]
      BY <2>2 DEF TP!Allocate
    <3>2. f \in Task /\ Give(p, f)
      BY <1>0, <1>1, <2>2, <3>1 DEF TypeOK
    <3> QED BY <1>3, <3>1, <3>2
  <2> QED BY <1>4, <2>1, <2>2 DEF Ask
<1>5. CASE Execute(p) \/ Refused(p) \/ Leave(p)
  <2>1. /\ client'[p] \in {"execute", "report"} => client[p] \in {"execute", "report"}
        /\ UNCHANGED <<assigned, task>>
        /\ \A q \in Process : q # p => client'[q] = client[q]
    BY <1>0, <1>5 DEF Execute, Refused, Leave, taskVars, clientVars, TypeOK
  <2> QED BY <1>1, <2>1 DEF Counted
<1>6. CASE Report(p)
  <2>1. /\ client[p] = "report" /\ client'[p] = "ask" /\ task' = task
        /\ \A q \in Process : q # p => client'[q] = client[q]
    BY <1>0, <1>6 DEF Report, clientVars, TypeOK
  <2>2. CASE TP!Complete(id[p])
    <3>1. assigned' = [assigned EXCEPT ![id[p]] = None]
      BY <2>2 DEF TP!Complete
    <3>2. \A q \in Process : id[q] # id[p] => assigned'[id[q]] = assigned[id[q]]
      BY <1>0, <3>1 DEF TypeOK
    <3> QED BY <1>1, <1>2, <2>1, <3>1, <3>2 DEF Counted
  <2>3. CASE UNCHANGED taskVars
    BY <1>1, <2>1, <2>3 DEF Counted, taskVars
  <2> QED BY <1>6, <2>2, <2>3 DEF Report, Reported
<1>7. CASE OldServerAnswers(p)
  <2>1. \A w \in AnyId : assigned[w] = None
    BY <1>7 DEF OldServerAnswers, Phases
  <2>2. /\ assigned' = assigned
        /\ \A q \in Process : q # p => client'[q] = client[q]
    BY <1>0, <1>7 DEF OldServerAnswers, Give, taskVars, TypeOK
  <2>3. \A q \in Process : client[q] \in {"execute", "report"} => id[q] \in AnyId
    BY HasId DEF Life
  <2> QED BY <1>1, <2>1, <2>2, <2>3 DEF Counted
<1> QED BY <1>4, <1>5, <1>6, <1>7 DEF Talk

(* Every step leaves the ids with the processes at work on their tasks.    *)
LEMMA NextCounted ==
  ASSUME Life, Phases, Cleared, cleaned, Counted, [Next]_vars
  PROVE  Counted'
<1>1. contested \subseteq contested'
  BY MasterSteps
<1>2. \A p \in Process : client[p] \in {"execute", "report"} => id[p] \in AnyId
  BY HasId DEF Life
<1>3. CASE Idle
  <2>1. ASSUME NEW p \in Process, client'[p] \in {"execute", "report"},
               id[p] \notin contested', assigned'[id[p]] # None
        PROVE  assigned'[id[p]] = task[p]
    <3>1. client'[p] = client[p] /\ id[p] \in AnyId
      BY <1>2, <1>3, <2>1 DEF Idle
    <3>2. assigned'[id[p]] = assigned[id[p]] /\ assigned[id[p]] # None
      BY <1>3, <2>1, <3>1 DEF Idle
    <3> QED BY <1>1, <2>1, <3>1, <3>2 DEF Counted
  <2> QED BY <1>3, <2>1 DEF Counted, Idle
<1>4. CASE CreateWorker \/ Replace \/ \E q, p \in Old : OldMasterReplaces(q, p)
  <2>1. /\ UNCHANGED <<assigned, task>>
        /\ \A p \in Process :
             client'[p] \in {"execute", "report"} => client'[p] = client[p] /\ id'[p] = id[p]
    BY <1>4, StartsIdle DEF taskVars, clientVars
  <2> QED BY <1>1, <2>1 DEF Counted
<1> QED BY <1>3, <1>4, IdleSteps, WorkCounts

(* The master goes on serving: every task is still held.                   *)
LEMMA ServingHolds ==
  ASSUME Life, Phases, Cleared, Reporting, cleaned, master = "serve", master' = "serve",
         Held, [Next]_vars
  PROVE  Held'
<1>0. /\ TypeOK /\ (failed = None <=> stage = "none")
      /\ serverPort = "new" /\ unbuilt \in Nat
      /\ Id \subseteq AnyId /\ New \subseteq Process
      /\ contested \subseteq contested'
  <2>1. contested \subseteq contested'
    BY MasterSteps
  <2>2. serverPort = "new"
    BY DEF Phases
  <2>3. TypeOK /\ (failed = None <=> stage = "none")
    BY DEF Life, Vacancy
  <2>4. unbuilt \in Nat
    BY <2>3, Distinct DEF TypeOK
  <2>5. Id \subseteq AnyId /\ New \subseteq Process
    BY Distinct
  <2> QED BY <2>1, <2>2, <2>3, <2>4, <2>5
<1>1. \A w \in Id : pool[w] # None =>
        pool[w] \in New /\ pool[w] \in Process /\ client[pool[w]] # "unborn" /\ id[pool[w]] = w
  BY Victims
<1>2. CASE /\ UNCHANGED <<assigned, pool, failed, stage, task, unbuilt>>
           /\ \A p \in New : client'[p] \in {client[p], "dead"}
  BY <1>0, <1>1, <1>2 DEF Held, OnTask, Untold, Alive
<1>3. CASE \/ Clean \/ Run
           \/ OldServerCloses \/ \E p \in Process : OldServerAnswers(p)
  <2>1. FALSE
    BY <1>0, <1>3
    DEF Clean, FreePort, FreeServerPort, CleanupFails, Run, CreateWorker, CreateFails, Open,
        OpenFails, StopServing, StopNext, PassVacant, Return, OldServerCloses, OldServerAnswers
  <2> QED BY <2>1
<1>4. ASSUME NEW v \in Id, NoticeLoss(v) \/ SuspectWrongly(v)
      PROVE  Held'
  <2>1. /\ failed = None /\ stage' = "stop"
        /\ UNCHANGED <<assigned, pool, task, client, unbuilt>>
    BY <1>4
    DEF NoticeLoss, SuspectWrongly, Lose, WP!Notice, WP!poolVars, taskVars, clientVars,
        processVars, faults
  <2> QED BY <1>0, <2>1, Distinct DEF Held, OnTask, Untold, Alive
<1>5. CASE StopFailed
  <2>1. /\ failed \in Id /\ failed' = failed /\ stage = "stop" /\ stage' = "create"
        /\ UNCHANGED <<assigned, task, unbuilt>>
    BY <1>0, <1>5 DEF StopFailed, WP!StopFailed, taskVars, clientVars, faults, TypeOK
  <2>2. pool'[failed] = None /\ \A w \in Id : w # failed => pool'[w] = pool[w]
    BY <1>0, <1>5, <2>1 DEF StopFailed, WP!StopFailed, WP!Remove, WP!poolVars, TypeOK
  <2>3. \A p \in Process : p # pool[failed] => client'[p] = client[p]
    BY <1>5 DEF StopFailed, Kill, processVars
  <2>4. \A w \in Id : w # failed /\ pool[w] # None => pool[w] # pool[failed]
    BY <1>1, <2>1
  <2>5. ASSUME NEW w \in Id, w # failed
        PROVE  (OnTask(w) => OnTask(w)') /\ (Untold(w) => Untold(w)')
    BY <1>1, <2>1, <2>2, <2>3, <2>4, <2>5 DEF OnTask, Untold, Alive
  <2>6. Untold(failed)'
    BY <2>1, <2>2 DEF Untold
  <2> QED BY <1>0, <2>1, <2>5, <2>6 DEF Held
<1>6. CASE Replace
  <2>1. /\ NewWorker /\ WP!NewProcess /\ failed' = failed
        /\ stage = "create" /\ stage' = "handBack"
        /\ UNCHANGED <<assigned, task, unbuilt>>
    BY <1>6 DEF Replace, WP!Replace, taskVars, clientVars, faults
  <2>2. PICK n \in Process, v \in Id :
          /\ client[n] = "unborn" /\ pool[v] = None /\ pool'[v] = n
          /\ \A w \in Id : w # v => pool'[w] = pool[w]
          /\ \A p \in Process : p # n => client'[p] = client[p]
    BY <1>0, <2>1, NewEffect DEF TypeOK
  <2>3. \A w \in Id : pool[w] # None => pool[w] # n
    BY <2>2, Victims
  <2>4. ~OnTask(v) /\ Untold(v) /\ Untold(v)'
    <3>1. task'[n] = None
      BY <2>1, <2>2 DEF Reporting
    <3> QED BY <2>2, <3>1 DEF OnTask, Untold
  <2>5. ASSUME NEW w \in Id, w # v
        PROVE  (OnTask(w) => OnTask(w)') /\ (Untold(w) => Untold(w)')
    BY <1>1, <2>1, <2>2, <2>3, <2>5 DEF OnTask, Untold, Alive
  <2>6. ASSUME NEW w \in Id \ contested, assigned[w] # None, failed # w
        PROVE  OnTask(w)' \/ (unbuilt > 0 /\ Untold(w)')
    <3>1. OnTask(w) \/ (unbuilt > 0 /\ Untold(w))
      BY <2>6 DEF Held
    <3>2. CASE w = v
      BY <2>4, <3>1, <3>2
    <3>3. CASE w # v
      BY <2>5, <2>6, <3>1, <3>3
    <3> QED BY <3>2, <3>3
  <2> QED BY <1>0, <2>1, <2>6 DEF Held
<1>7. CASE ReplaceFails
  <2>1. /\ stage = "create" /\ failed' = None /\ stage' = "none"
        /\ UNCHANGED <<assigned, pool, task, client>> /\ unbuilt' = unbuilt + 1
    BY <1>7
    DEF ReplaceFails, FailBuild, WP!Abandon, WP!NoProcess, taskVars, clientVars, processVars
  <2>2. unbuilt' > 0
    BY <1>0, <2>1
  <2>3. \A w \in Id : (OnTask(w) => OnTask(w)') /\ (Untold(w) => Untold(w)')
    BY <2>1 DEF OnTask, Untold, Alive
  <2> QED BY <1>0, <2>1, <2>2, <2>3 DEF Held
<1>8. CASE HandBack
  <2>1. /\ failed \in Id /\ failed' = None /\ stage' = "none"
        /\ UNCHANGED <<pool, task, client, unbuilt>>
    BY <1>0, <1>8
    DEF HandBack, WP!HandBack, WP!poolVars, clientVars, processVars, faults, TypeOK
  <2>2. assigned'[failed] = None /\ \A w \in Id : w # failed => assigned'[w] = assigned[w]
    BY <1>0, <1>8, <2>1 DEF HandBack, TP!Deallocate, taskVars, TypeOK
  <2>3. ASSUME NEW w \in Id, w # failed
        PROVE  (OnTask(w) => OnTask(w)') /\ (Untold(w) => Untold(w)')
    BY <2>1, <2>2, <2>3 DEF OnTask, Untold, Alive
  <2> QED BY <1>0, <2>1, <2>2, <2>3 DEF Held
<1>9. ASSUME NEW p \in Process, Bind(p) \/ Crash(p)
      PROVE  Held'
  <2>1. CASE Bind(p)
    BY <1>2, <2>1 DEF Bind, poolVars, taskVars, clientVars, faults
  <2>2. CASE Crash(p)
    <3>1. UNCHANGED <<assigned, pool, failed, stage, task, unbuilt>> /\ Kill({p})
      BY <2>2 DEF Crash, Lose, WP!Die, WP!failureVars, poolVars, taskVars, clientVars
    <3> QED BY <1>0, <1>2, <3>1 DEF Kill
  <2> QED BY <1>9, <2>1, <2>2
<1>10. ASSUME NEW q \in Old, NEW p \in Old, OldMasterReplaces(q, p)
       PROVE  Held'
  <2>1. /\ UNCHANGED <<assigned, pool, failed, stage, task, unbuilt>>
        /\ client' = [client EXCEPT ![q] = "dead", ![p] = "ask"]
    BY <1>10 DEF OldMasterReplaces, poolVars, taskVars, clientVars, faults
  <2>2. \A r \in New : client'[r] = client[r]
    BY <1>0, <2>1, Distinct DEF TypeOK
  <2> QED BY <1>2, <2>1, <2>2
<1>11. ASSUME NEW p \in Process, Dismiss(p) \/ Refused(p)
       PROVE  Held'
  <2>1. AllTasksCompleted /\ assigned' = assigned
    BY <1>0, <1>11 DEF Dismiss, Refused, taskVars
  <2> QED BY <1>0, <2>1 DEF AllTasksCompleted, Held
<1>12. ASSUME NEW p \in Process, Ask(p) \/ Execute(p) \/ Report(p) \/ Leave(p)
       PROVE  Held'
  <2>1. /\ client[p] \in {"ask", "execute", "report"} /\ Alive(p) /\ id[p] \in AnyId
        /\ UNCHANGED <<pool, failed, stage, unbuilt, contested>>
    <3>1. /\ client[p] \in {"ask", "execute", "report"}
          /\ UNCHANGED <<pool, failed, stage, unbuilt, contested>>
      BY <1>12 DEF Ask, Execute, Report, Leave, Lose, poolVars, oldVars, faults
    <3> QED BY <3>1, HasId DEF Life, Alive
  <2>2. PICK v \in AnyId : v = id[p] /\ (v \in Id \ contested => pool[v] = p)
    BY <2>1, OneWorkerPerId
  <2>3. \A q \in Process : q # p => client'[q] = client[q] /\ task'[q] = task[q]
    BY <1>0, <1>12 DEF Ask, Give, Execute, Report, Leave, clientVars, TypeOK
  <2>4. \A w \in Id : w # v => assigned'[w] = assigned[w]
    BY <1>0, <1>12, <2>2
    DEF Ask, TP!Allocate, Execute, Report, Reported, TP!Complete, Leave, taskVars, TypeOK
  <2>5. ASSUME NEW w \in Id, w # v
        PROVE  (OnTask(w) => OnTask(w)') /\ (Untold(w) => Untold(w)')
    <3>1. pool[w] # None => pool[w] # p /\ pool[w] \in Process
      BY <1>1, <2>2, <2>5
    <3> QED BY <2>1, <2>3, <2>4, <2>5, <3>1 DEF OnTask, Untold, Alive
  <2>6. ASSUME v \in Id \ contested, assigned'[v] # None
        PROVE  \/ OnTask(v)'
               \/ /\ assigned[v] # None /\ (OnTask(v) => OnTask(v)')
                  /\ Untold(v) => Untold(v)'
    <3>1. p # None /\ pool[v] = p
      BY <2>2, <2>6, Distinct
    <3>2. CASE Ask(p)
      <4>1. assigned'[v] = task'[p] /\ client'[p] = "execute"
        BY <1>0, <2>1, <2>2, <3>2 DEF Ask, Give, taskVars, TypeOK
      <4> QED BY <2>1, <3>1, <4>1 DEF OnTask, Alive
    <3>3. CASE Execute(p) \/ Leave(p)
      <4>1. UNCHANGED <<assigned, task>> /\ client'[p] \in {"report", "left"}
        BY <1>0, <3>3 DEF Execute, Leave, taskVars, clientVars, TypeOK
      <4> QED BY <2>1, <2>6, <3>1, <4>1 DEF OnTask, Untold, Alive
    <3>4. CASE Report(p)
      <4>1. assigned'[v] = None
        BY <1>0, <2>1, <2>2, <3>4 DEF Report, Reported, TP!Complete, taskVars, TypeOK
      <4> QED BY <2>6, <4>1
    <3> QED BY <1>12, <3>2, <3>3, <3>4
  <2>7. ASSUME NEW w \in Id \ contested, assigned'[w] # None
        PROVE  /\ failed # w => OnTask(w)' \/ (unbuilt > 0 /\ Untold(w)')
               /\ stage = "create" /\ failed = w => OnTask(w)' \/ Untold(w)'
    <3>1. \/ OnTask(w)'
          \/ /\ assigned[w] # None /\ (OnTask(w) => OnTask(w)')
             /\ Untold(w) => Untold(w)'
      BY <2>4, <2>5, <2>6, <2>7
    <3>2. assigned[w] # None =>
            /\ failed # w => OnTask(w) \/ (unbuilt > 0 /\ Untold(w))
            /\ stage = "create" /\ failed = w => OnTask(w) \/ Untold(w)
      BY <2>7 DEF Held
    <3> QED BY <3>1, <3>2
  <2> QED BY <2>1, <2>7 DEF Held
<1>13. CASE UNCHANGED vars
  BY <1>2, <1>13 DEF vars, poolVars, taskVars, clientVars, processVars, faults
<1> QED BY <1>3, <1>4, <1>5, <1>6, <1>7, <1>8, <1>9, <1>10, <1>11, <1>12, <1>13
        DEF Next, Supervise, Talk, Linger

(* Every step keeps the work of this run apart from that of earlier ones.  *)
LEMMA NextWorking ==
  Life /\ Phases /\ Cleared /\ Working /\ [Next]_vars => Working'
<1> SUFFICES ASSUME Life, Phases, Cleared, Working, [Next]_vars PROVE Working'
  OBVIOUS
<1>0. /\ cleaned' => cleaned \/ FreeServerPort
      /\ master' = "serve" => master = "serve" \/ Open
      /\ Life' /\ Phases' /\ Reporting'
  BY MasterSteps, NextLife, NextPhases, NextReporting DEF Working
<1>1. ASSUME \A w \in AnyId : assigned'[w] = None
      PROVE  Counted' /\ Held'
  <2>1. ASSUME NEW p \in Process, client'[p] # "unborn" PROVE id'[p] \in AnyId
    <3>1. started' \in Nat
      BY <1>0, Distinct DEF Life, TypeOK
    <3>2. CASE p \in Old
      BY <1>0, <3>2, Distinct DEF Life, Names
    <3>3. CASE p \in New
      <4>1. p <= started' /\ id'[p] \in Id
        BY <1>0, <2>1, <3>1, <3>3, Distinct DEF Life, Names
      <4> QED BY <4>1, Distinct
    <3> QED BY <3>2, <3>3, Distinct
  <2>2. Counted'
    BY <1>1, <2>1 DEF Counted
  <2>3. \A w \in Id : assigned'[w] = None
    BY <1>1, Distinct
  <2> QED BY <2>2, <2>3 DEF Held
<1>2. CASE FreeServerPort
  <2>1. \A w \in AnyId : assigned'[w] = None
    BY <1>2 DEF FreeServerPort, taskVars, Phases
  <2> QED BY <1>0, <1>1, <2>1 DEF Working
<1>3. CASE cleaned
  <2>1. Counted'
    BY <1>3, NextCounted DEF Working
  <2>2. ASSUME Open PROVE Held'
    <3>1. \A w \in AnyId : assigned'[w] = None
      BY <2>2 DEF Open, taskVars, Phases
    <3> QED BY <1>1, <3>1
  <2>3. ASSUME master = "serve", master' = "serve" PROVE Held'
    BY <1>3, <2>3, ServingHolds DEF Working
  <2> QED BY <1>0, <2>1, <2>2, <2>3 DEF Working
<1>4. CASE ~cleaned'
  BY <1>0, <1>4 DEF Working
<1> QED BY <1>0, <1>2, <1>3, <1>4

(* The whole invariant, in every run. *)
THEOREM WorkOfThisRun == Spec => [](Life /\ Phases /\ Cleared /\ Working)
<1>1. Life /\ Phases /\ Cleared /\ Working /\ [Next]_vars => Working'
  BY NextWorking
<1> QED BY <1>1, InitWorking, PortsCleared, PTL DEF Spec

(* When the script has run, a task that gets completed has been executed   *)
(* in this run, unless an old worker has had its id (the report of a       *)
(* worker says neither which task nor which run it means:                  *)
(* TaskAllocationClient sends its id).                                     *)
THEOREM CompletedHere == Spec => CompletedInThisRun
<1> DEFINE Step ==
      cleaned => \A f \in completed' \ completed :
                   f \in executed \/ \E w \in contested : assigned[w] = f
<1>1. ASSUME Life, Cleared, Working, [Next]_vars PROVE Step
  <2> SUFFICES ASSUME cleaned, NEW f \in completed', f \notin completed
               PROVE  f \in executed \/ \E w \in contested : assigned[w] = f
    OBVIOUS
  <2>1. PICK p \in Process : Talk(p)
    <3>1. (CreateWorker \/ Replace \/ \E r, q \in Old : OldMasterReplaces(r, q))
            => UNCHANGED completed
      BY <1>1, StartsIdle DEF taskVars
    <3> QED BY <1>1, <3>1, IdleSteps DEF Idle
  <2>2. Report(p) /\ TP!Complete(id[p])
    BY <2>1
    DEF Talk, Ask, Execute, Report, Reported, Refused, Leave, OldServerAnswers, taskVars,
        TP!Allocate
  <2>3. client[p] = "report" /\ f = assigned[id[p]] /\ f # None
    BY <2>2 DEF Report, TP!Complete
  <2>4. id[p] \notin contested => f = task[p]
    BY <1>1, <2>3 DEF Working, Counted
  <2> QED BY <1>1, <2>3, <2>4 DEF Working, Reporting
<1>2. ASSUME Life, Cleared, Working, [Next]_vars PROVE [Step]_vars
  BY <1>1, <1>2
<1> HIDE DEF Step
<1>3. Spec => [][Step]_vars
  BY <1>2, WorkOfThisRun, PTL DEF Spec
<1> QED BY <1>3 DEF CompletedInThisRun, Step

(* When the script has run and the master serves, strangers take no task   *)
(* from the ids that no old worker has had: the worker of such an id is on *)
(* its task, or will be noticed as dead (NoticeLoss), or its client has    *)
(* left with the task; unless a build failed.                              *)
THEOREM TasksAreKept == Spec => []StrangersTakeNoTask
<1>1. Life /\ Working => StrangersTakeNoTask
  BY DEF Working, Held, OnTask, Untold, StrangersTakeNoTask
<1> QED BY <1>1, WorkOfThisRun, PTL
-----------------------------------------------------------------------------
(* A run that starts among strangers still takes the steps of its two      *)
(* abstract managers, and no others.                                       *)

(* A step that starts and kills no process of this run, and handles no     *)
(* failure, is a stutter of the pool.                                      *)
LEMMA StutterPool ==
  ASSUME UNCHANGED poolVars, \A p \in New : Alive(p)' <=> Alive(p)
  PROVE  UNCHANGED WP!vars
BY DEF poolVars, WP!vars, WP!poolVars, WP!failureVars

(* The clients, the cleanup and the earlier master leave the pool alone:   *)
(* the script runs before the first worker of this run is created.         *)
LEMMA StrangersStutter ==
  ASSUME Life, Phases,
         Clean \/ Linger \/ \E p \in Process : Bind(p) \/ Talk(p)
  PROVE  UNCHANGED WP!vars
<1>0. TypeOK /\ Names /\ New \subseteq Process /\ New \intersect Old = {}
  BY Distinct DEF Life
<1>1. CASE FreePort
  <2>1. started = 0
    BY <1>1 DEF FreePort, Phases
  <2>2. \A p \in New : p \in Nat /\ p > 0
    BY Distinct DEF New
  <2>3. \A p \in New : client[p] = "unborn"
    BY <1>0, <2>1, <2>2 DEF Names
  <2>4. \A w \in AnyId : socket[w] # None => Alive(socket[w])
    BY Victims
  <2>5. \A p \in New : client'[p] = "unborn"
    BY <1>0, <1>1, <2>3, <2>4 DEF FreePort, Kill, Alive
  <2> QED BY <1>1, <2>3, <2>5, StutterPool DEF FreePort, Alive
<1>2. CASE FreeServerPort \/ CleanupFails
  BY <1>2, StutterPool DEF FreeServerPort, CleanupFails, Alive, processVars
<1>3. CASE OldServerCloses
  BY <1>3, StutterPool DEF OldServerCloses, Alive, processVars
<1>4. ASSUME NEW q \in Old, NEW p \in Old, OldMasterReplaces(q, p)
      PROVE  UNCHANGED WP!vars
  <2>1. UNCHANGED poolVars /\ client' = [client EXCEPT ![q] = "dead", ![p] = "ask"]
    BY <1>4 DEF OldMasterReplaces
  <2>2. \A r \in New : client'[r] = client[r]
    BY <1>0, <2>1 DEF TypeOK
  <2> QED BY <2>1, <2>2, StutterPool DEF Alive
<1>5. ASSUME NEW p \in Process, Bind(p) \/ Talk(p)
      PROVE  UNCHANGED WP!vars
  <2>1. /\ UNCHANGED poolVars
        /\ \/ client' = client
           \/ \E c \in {"ask", "execute", "report", "left"} :
                client' = [client EXCEPT ![p] = c] /\ Alive(p)
    <3>1. CASE Bind(p) \/ Ask(p) \/ OldServerAnswers(p)
      BY <3>1 DEF Bind, Ask, OldServerAnswers, Give, Alive
    <3>2. CASE Execute(p) \/ Report(p) \/ Refused(p) \/ Leave(p)
      BY <3>2 DEF Execute, Report, Refused, Leave, Alive
    <3> QED BY <1>5, <3>1, <3>2 DEF Talk
  <2>2. \A q \in New : Alive(q)' <=> Alive(q)
    BY <1>0, <2>1 DEF Alive, TypeOK
  <2> QED BY <2>1, <2>2, StutterPool
<1> QED BY <1>1, <1>2, <1>3, <1>4, <1>5 DEF Clean, Linger

(* Every step is an operation of the pool, or none.                        *)
LEMMA StepPool == Life /\ Phases /\ [Next]_vars => [WP!Next]_(WP!vars)
<1> SUFFICES ASSUME Life, Phases, [Next]_vars
             PROVE  WP!Next \/ UNCHANGED WP!vars
  OBVIOUS
<1>1. CASE Clean \/ Linger \/ \E p \in Process : Bind(p) \/ Talk(p)
  BY <1>1, StrangersStutter
<1>2. CASE CreateWorker \/ CreateFails
  <2>1. WP!Start
    BY <1>2 DEF CreateWorker, CreateFails, WP!Start, WP!failureVars
  <2> QED BY <2>1 DEF WP!Next
<1>3. CASE Open \/ OpenFails \/ StopServing \/ PassVacant \/ Return
  BY <1>3, StutterPool
  DEF Open, OpenFails, StopServing, PassVacant, Return, Alive, processVars
<1>4. ASSUME NEW w \in Id, WP!Stop(w) PROVE WP!Next
  BY <1>4 DEF Id, WP!Id, WP!Next
<1>5. CASE StopNext
  BY <1>4, <1>5 DEF StopNext
<1>6. ASSUME NEW p \in Process, Dismiss(p) PROVE WP!Next
  BY <1>4, <1>6 DEF Dismiss
<1>7. ASSUME NEW w \in Id, NoticeLoss(w) \/ SuspectWrongly(w) PROVE WP!Next
  BY <1>7 DEF NoticeLoss, SuspectWrongly, Id, WP!Id, WP!Next
<1>8. CASE StopFailed \/ Replace \/ ReplaceFails \/ HandBack
  BY <1>8 DEF StopFailed, Replace, ReplaceFails, HandBack, WP!Next
<1>9. ASSUME NEW p \in Process, Crash(p)
      PROVE  WP!Next \/ UNCHANGED WP!vars
  <2>1. CASE p \in New
    <3>1. p \in {q \in New : Alive(q)} /\ WP!Die(p)
      BY <1>9, <2>1 DEF Crash
    <3> QED BY <3>1 DEF WP!Next
  <2>2. CASE p \notin New
    BY <1>9, <2>2, Distinct, StutterPool DEF Crash, Kill, Alive
  <2> QED BY <2>1, <2>2
<1>10. CASE UNCHANGED vars
  BY <1>10, StutterPool DEF vars, Alive, processVars
<1> QED BY <1>1, <1>2, <1>3, <1>5, <1>6, <1>7, <1>8, <1>9, <1>10 DEF Next, Run, Supervise

(* The processes of a run are those of a WorkerPool, whatever is left over *)
(* from an earlier run, on which ports, and whatever it does.              *)
THEOREM RestartUsesWorkerPool == Spec => WP!Spec
<1>1. Init => WP!Init
  BY DEF Init
<1> QED BY <1>1, StepPool, PortsCleared, PTL DEF Spec, WP!Spec

(* Every step is an operation on the task pool, or none.                   *)
LEMMA StepTasks == Life /\ [Next]_vars => [TP!Next]_(TP!vars)
<1> SUFFICES ASSUME Life, [Next]_vars
             PROVE  TP!Next \/ UNCHANGED TP!vars
  OBVIOUS
<1> USE DEF taskVars, TP!vars
<1>1. \A p \in Process : client[p] # "unborn" => id[p] \in AnyId
  BY HasId DEF Life
<1>2. ASSUME NEW p \in Process, Ask(p) \/ Report(p)
      PROVE  TP!Next \/ UNCHANGED TP!vars
  <2>1. id[p] \in AnyId
    BY <1>1, <1>2 DEF Ask, Report
  <2> QED BY <1>2, <2>1 DEF Ask, Report, Reported, TP!Next
<1>3. ASSUME NEW p \in Process,
             \/ Bind(p) \/ Execute(p) \/ Refused(p) \/ Leave(p)
             \/ OldServerAnswers(p) \/ Dismiss(p) \/ Crash(p)
      PROVE  UNCHANGED TP!vars
  BY <1>3 DEF Bind, Execute, Refused, Leave, OldServerAnswers, Dismiss, Crash
<1>4. CASE HandBack
  <2>1. failed \in AnyId
    BY <1>4, Distinct DEF HandBack, WP!HandBack, Life, Vacancy, TypeOK
  <2> QED BY <1>4, <2>1 DEF HandBack, TP!Next
<1>5. CASE Clean \/ Run
  BY <1>5
  DEF Clean, FreePort, FreeServerPort, CleanupFails, Run, CreateWorker, CreateFails, Open,
      OpenFails, StopServing, StopNext, PassVacant, Return
<1>6. CASE \/ StopFailed \/ Replace \/ ReplaceFails
           \/ \E w \in Id : NoticeLoss(w) \/ SuspectWrongly(w)
  BY <1>6 DEF StopFailed, Replace, ReplaceFails, NoticeLoss, SuspectWrongly
<1>7. CASE Linger
  BY <1>7 DEF Linger, OldMasterReplaces, OldServerCloses
<1>8. CASE UNCHANGED vars
  BY <1>8 DEF vars
<1> QED BY <1>2, <1>3, <1>4, <1>5, <1>6, <1>7, <1>8 DEF Next, Supervise, Talk

(* The tasks of a run are those of a TaskPool whose workers may be         *)
(* strangers: each is available, assigned or completed, although workers   *)
(* with ids this run does not use, or uses as well, ask and report.        *)
THEOREM RestartUsesTaskPool == Spec => TP!Spec
<1>1. Init => TP!Init
  BY DEF Init
<1> QED BY <1>1, StepTasks, ProcessesInOrder, PTL DEF Spec, TP!Spec
=============================================================================
