------------------------------- MODULE Queues -------------------------------
(* What poll() and add() of a Java queue do to its elements, for a queue   *)
(* without repetitions: the tasks of TaskManager, the ids of               *)
(* WorkerSupervision.                                                      *)
EXTENDS Naturals, Sequences, TLAPS

NoRepetition(s) == \A i, j \in DOMAIN s : s[i] = s[j] => i = j
Elements(s) == {s[i] : i \in DOMAIN s}

(* poll(): the head leaves, the other elements stay. *)
LEMMA PollElements ==
  ASSUME NEW S, NEW s \in Seq(S), s # <<>>, NoRepetition(s)
  PROVE  /\ Head(s) \in Elements(s)
         /\ Elements(Tail(s)) = Elements(s) \ {Head(s)}
         /\ NoRepetition(Tail(s))
<1>1. /\ Len(s) \in Nat \ {0}
      /\ DOMAIN s = 1 .. Len(s)
      /\ DOMAIN Tail(s) = 1 .. Len(s) - 1
      /\ \A i \in 1 .. Len(s) - 1 : Tail(s)[i] = s[i + 1]
      /\ Head(s) = s[1]
  OBVIOUS
<1>2. Head(s) \in Elements(s)
  BY <1>1 DEF Elements
<1>3. Elements(Tail(s)) \subseteq Elements(s) \ {Head(s)}
  BY <1>1 DEF Elements, NoRepetition
<1>4. ASSUME NEW e \in Elements(s) \ {Head(s)}
      PROVE  e \in Elements(Tail(s))
  <2>1. PICK i \in 1 .. Len(s) : s[i] = e /\ i # 1
    BY <1>1 DEF Elements
  <2>2. i - 1 \in 1 .. Len(s) - 1 /\ Tail(s)[i - 1] = e
    BY <1>1, <2>1
  <2> QED BY <1>1, <2>2 DEF Elements
<1>5. NoRepetition(Tail(s))
  BY <1>1 DEF NoRepetition
<1> QED BY <1>2, <1>3, <1>4, <1>5

(* add(e): e joins the others, at the end. *)
LEMMA AddElements ==
  ASSUME NEW S, NEW s \in Seq(S), NEW e \in S
  PROVE  /\ Elements(Append(s, e)) = Elements(s) \union {e}
         /\ NoRepetition(s) /\ e \notin Elements(s) => NoRepetition(Append(s, e))
<1>1. /\ Len(s) \in Nat
      /\ DOMAIN s = 1 .. Len(s)
      /\ DOMAIN Append(s, e) = 1 .. Len(s) + 1
      /\ \A i \in 1 .. Len(s) : Append(s, e)[i] = s[i]
      /\ Append(s, e)[Len(s) + 1] = e
  OBVIOUS
<1>2. Elements(Append(s, e)) = Elements(s) \union {e}
  BY <1>1 DEF Elements
<1>3. NoRepetition(s) /\ e \notin Elements(s) => NoRepetition(Append(s, e))
  BY <1>1 DEF Elements, NoRepetition
<1> QED BY <1>2, <1>3
=============================================================================
