------------------------- MODULE MergerSorterProofs -------------------------
(* Theorems about MergerSorter, for any input files, words, outputs of     *)
(* earlier runs and executions: what is merged, and in which order it is   *)
(* printed.  The first two sections prove the facts about induction and    *)
(* sums they rest on.                                                      *)
EXTENDS MergerSorter, FiniteSetTheorems, FunctionTheorems, TLAPS

(* Induction over the subsets of a finite set, for a property given as the *)
(* set of those that have it: a subset has it if all its strict subsets    *)
(* do.                                                                     *)
LEMMA SubsetInduction ==
  ASSUME NEW S, IsFiniteSet(S), NEW Q,
         \A T \in SUBSET S : (\A U \in SUBSET T : U # T => U \in Q) => T \in Q
  PROVE  \A T \in SUBSET S : T \in Q
<1> DEFINE Bad == (SUBSET S) \ Q
<1> SUFFICES ASSUME Bad # {} PROVE FALSE
  OBVIOUS
<1>1. Bad \subseteq FiniteSubsetsOf(S)
  BY FS_Subset DEF FiniteSubsetsOf
<1> HIDE DEF Bad
<1>2. PICK T \in Bad : \A U \in Bad : ~(<<U, T>> \in StrictSubsetOrdering(S))
  BY <1>1, FS_StrictSubsetOrderingWellFounded, WFMin
<1> USE DEF Bad
<1>3. ASSUME NEW U \in SUBSET T, U # T
      PROVE  U \in Q
  BY <1>2, <1>3 DEF StrictSubsetOrdering
<1> QED BY <1>3
-----------------------------------------------------------------------------
(* Sums of a function over a finite set.  The library defines them by a    *)
(* recursion that takes out a chosen element.                              *)
Pick(s) == CHOOSE x \in s : TRUE
Plus(a, b) == a + b

SumEquation(c, S, g) ==
  g = [s \in SUBSET S |-> IF s = {} THEN 0 ELSE Plus(c[Pick(s)], g[s \ {Pick(s)}])]
Sums(c, S) == CHOOSE g : SumEquation(c, S, g)

(* The sum of the library, in these words. *)
LEMMA SumIsSums ==
  ASSUME NEW c, NEW S
  PROVE  SumFunctionOnSet(c, S) = Sums(c, S)[S]
BY DEF SumFunctionOnSet, FoldFunctionOnSet, MapThenFoldSet, Sums, SumEquation, Pick, Plus

(* A chosen element is one. *)
LEMMA PickElement == \A s : s # {} => Pick(s) \in s
BY DEF Pick

(* Two solutions of the equation agree where both are defined. *)
LEMMA SumsAgree ==
  ASSUME NEW c, NEW T, NEW U, IsFiniteSet(T),
         NEW g, SumEquation(c, T, g), NEW h, SumEquation(c, U, h)
  PROVE  \A s \in SUBSET T : s \subseteq U => g[s] = h[s]
<1> DEFINE Q == {s \in SUBSET T : s \subseteq U => g[s] = h[s]}
<1>1. ASSUME NEW s \in SUBSET T, \A r \in SUBSET s : r # s => r \in Q, s \subseteq U
      PROVE  g[s] = h[s]
  <2>1. CASE s = {}
    BY <1>1, <2>1 DEF SumEquation
  <2>2. CASE s # {}
    <3>1. s \ {Pick(s)} \in SUBSET s /\ s \ {Pick(s)} # s
      BY <2>2, PickElement
    <3>2. g[s \ {Pick(s)}] = h[s \ {Pick(s)}]
      BY <1>1, <3>1
    <3>3. g[s] = Plus(c[Pick(s)], g[s \ {Pick(s)}])
      BY <2>2 DEF SumEquation
    <3>4. h[s] = Plus(c[Pick(s)], h[s \ {Pick(s)}])
      BY <1>1, <2>2 DEF SumEquation
    <3> QED BY <3>2, <3>3, <3>4
  <2> QED BY <2>1, <2>2
<1>2. \A s \in SUBSET T : (\A r \in SUBSET s : r # s => r \in Q) => s \in Q
  BY <1>1
<1> HIDE DEF Q
<1>3. \A s \in SUBSET T : s \in Q
  BY <1>2, SubsetInduction
<1> QED BY <1>3 DEF Q

(* The equation has a solution. *)
LEMMA SumsExist ==
  ASSUME NEW c, NEW S, IsFiniteSet(S)
  PROVE  SumEquation(c, S, Sums(c, S))
<1> DEFINE Q == {T \in SUBSET S : \E g : SumEquation(c, T, g)}
<1>1. ASSUME NEW T \in SUBSET S, \A U \in SUBSET T : U # T => U \in Q
      PROVE  \E g : SumEquation(c, T, g)
  <2> DEFINE value(u) == Sums(c, u)[u]
             g == [s \in SUBSET T |->
                     IF s = {} THEN 0 ELSE Plus(c[Pick(s)], value(s \ {Pick(s)}))]
  <2>1. ASSUME NEW U \in SUBSET T, U # T
        PROVE  SumEquation(c, U, Sums(c, U))
    BY <1>1, <2>1 DEF Sums
  <2>2. ASSUME NEW u \in SUBSET T, u # T
        PROVE  g[u] = value(u)
    <3>1. CASE u = {}
      BY <2>1, <2>2, <3>1 DEF SumEquation
    <3>2. CASE u # {}
      <4> DEFINE v == u \ {Pick(u)}
      <4>1. v \in SUBSET T /\ v # T /\ v \in SUBSET u
        BY <3>2, PickElement
      <4>2. IsFiniteSet(u)
        BY <2>2, FS_Subset
      <4>3. SumEquation(c, u, Sums(c, u)) /\ SumEquation(c, v, Sums(c, v))
        BY <2>1, <2>2, <4>1
      <4>4. Sums(c, u)[v] = Sums(c, v)[v]
        BY <4>1, <4>2, <4>3, SumsAgree
      <4>5. Sums(c, u)[u] = Plus(c[Pick(u)], Sums(c, u)[v])
        BY <3>2, <4>3 DEF SumEquation
      <4> QED BY <3>2, <4>4, <4>5
    <3> QED BY <3>1, <3>2
  <2>3. ASSUME NEW s \in SUBSET T, s # {}
        PROVE  g[s] = Plus(c[Pick(s)], g[s \ {Pick(s)}])
    <3>1. s \ {Pick(s)} \in SUBSET T /\ s \ {Pick(s)} # T
      BY <2>3, PickElement
    <3>2. g[s \ {Pick(s)}] = value(s \ {Pick(s)})
      BY <2>2, <3>1
    <3> QED BY <2>3, <3>2
  <2>4. g = [s \in SUBSET T |-> IF s = {} THEN 0 ELSE Plus(c[Pick(s)], g[s \ {Pick(s)}])]
    <3>1. \A s \in SUBSET T :
            g[s] = IF s = {} THEN 0 ELSE Plus(c[Pick(s)], g[s \ {Pick(s)}])
      BY <2>3
    <3>2. g = [s \in SUBSET T |-> g[s]]
      OBVIOUS
    <3> HIDE DEF g
    <3> QED BY <3>1, <3>2
  <2> HIDE DEF g
  <2> QED BY <2>4 DEF SumEquation
<1>2. \A T \in SUBSET S : (\A U \in SUBSET T : U # T => U \in Q) => T \in Q
  BY <1>1
<1> HIDE DEF Q
<1>3. S \in Q
  BY <1>2, SubsetInduction
<1> QED BY <1>3 DEF Q, Sums

(* The sum over no elements, and with the chosen element taken out. *)
LEMMA SumPick ==
  ASSUME NEW c, NEW S, IsFiniteSet(S)
  PROVE  SumFunctionOnSet(c, S) =
           IF S = {} THEN 0
           ELSE Plus(c[Pick(S)], SumFunctionOnSet(c, S \ {Pick(S)}))
<1> DEFINE R == S \ {Pick(S)}
<1>1. SumEquation(c, S, Sums(c, S)) /\ SumEquation(c, R, Sums(c, R))
  BY SumsExist, FS_RemoveElement
<1>2. Sums(c, S)[R] = Sums(c, R)[R]
  <2>1. R \in SUBSET S /\ R \in SUBSET R
    OBVIOUS
  <2> HIDE DEF R
  <2> QED BY <1>1, <2>1, SumsAgree
<1>3. Sums(c, S)[S] = IF S = {} THEN 0 ELSE Plus(c[Pick(S)], Sums(c, S)[R])
  BY <1>1 DEF SumEquation
<1> QED BY <1>2, <1>3, SumIsSums

(* The sum over no elements. *)
LEMMA SumEmpty == \A c : SumFunctionOnSet(c, {}) = 0
BY SumPick, FS_EmptySet

(* The sum of natural numbers is one. *)
LEMMA SumNat ==
  ASSUME NEW c, NEW S, IsFiniteSet(S), \A x \in S : c[x] \in Nat
  PROVE  \A T \in SUBSET S : SumFunctionOnSet(c, T) \in Nat
<1> DEFINE Q == {T \in SUBSET S : SumFunctionOnSet(c, T) \in Nat}
<1>1. ASSUME NEW T \in SUBSET S, \A U \in SUBSET T : U # T => U \in Q
      PROVE  T \in Q
  <2>1. CASE T = {}
    BY <2>1, SumEmpty
  <2>2. CASE T # {}
    <3> DEFINE U == T \ {Pick(T)}
    <3>1. Pick(T) \in T /\ U \in SUBSET T /\ U # T
      BY <2>2, PickElement
    <3>2. SumFunctionOnSet(c, U) \in Nat /\ c[Pick(T)] \in Nat
      BY <1>1, <3>1
    <3>3. SumFunctionOnSet(c, T) = Plus(c[Pick(T)], SumFunctionOnSet(c, U))
      BY <2>2, SumPick, FS_Subset
    <3> QED BY <3>2, <3>3 DEF Plus
  <2> QED BY <2>1, <2>2
<1> HIDE DEF Q
<1>2. \A T \in SUBSET S : T \in Q
  BY <1>1, SubsetInduction
<1> QED BY <1>2 DEF Q

(* Any element can be taken out first. *)
LEMMA SumElement ==
  ASSUME NEW c, NEW S, IsFiniteSet(S), \A x \in S : c[x] \in Nat
  PROVE  \A T \in SUBSET S : \A x \in T :
           SumFunctionOnSet(c, T) = c[x] + SumFunctionOnSet(c, T \ {x})
<1> DEFINE Q == {T \in SUBSET S : \A x \in T :
                   SumFunctionOnSet(c, T) = c[x] + SumFunctionOnSet(c, T \ {x})}
<1>1. ASSUME NEW T \in SUBSET S, \A U \in SUBSET T : U # T => U \in Q, NEW x \in T
      PROVE  SumFunctionOnSet(c, T) = c[x] + SumFunctionOnSet(c, T \ {x})
  <2> DEFINE p == Pick(T)
             U == T \ {p}
             V == U \ {x}
             W == T \ {x}
  <2>1. p \in T /\ U \in SUBSET T /\ U # T
    BY PickElement
  <2>2. SumFunctionOnSet(c, T) = c[p] + SumFunctionOnSet(c, U)
    BY SumPick, FS_Subset DEF Plus
  <2>3. CASE p = x
    BY <2>2, <2>3
  <2>4. CASE p # x
    <3>1. x \in U /\ p \in W /\ W \in SUBSET T /\ W # T /\ W \ {p} = V
      BY <2>1, <2>4
    <3>2. SumFunctionOnSet(c, U) = c[x] + SumFunctionOnSet(c, V)
      BY <1>1, <2>1, <3>1
    <3>3. SumFunctionOnSet(c, W) = c[p] + SumFunctionOnSet(c, V)
      BY <1>1, <3>1
    <3>4. c[x] \in Nat /\ c[p] \in Nat /\ SumFunctionOnSet(c, V) \in Nat
      <4>1. V \in SUBSET S
        OBVIOUS
      <4> HIDE DEF V
      <4> QED BY <2>1, <4>1, SumNat
    <3> HIDE DEF p, U, V, W
    <3>5. SumFunctionOnSet(c, T) = c[x] + SumFunctionOnSet(c, W)
      BY <2>2, <3>2, <3>3, <3>4
    <3> QED BY <3>5 DEF W
  <2> QED BY <2>3, <2>4
<1>2. \A T \in SUBSET S : (\A U \in SUBSET T : U # T => U \in Q) => T \in Q
  BY <1>1
<1> HIDE DEF Q
<1>3. \A T \in SUBSET S : T \in Q
  BY <1>2, SubsetInduction
<1> QED BY <1>3 DEF Q

(* A sum with one element more. *)
LEMMA SumAdd ==
  ASSUME NEW c, NEW S, IsFiniteSet(S), \A x \in S : c[x] \in Nat,
         NEW T \in SUBSET S, NEW x \in S, x \notin T
  PROVE  SumFunctionOnSet(c, T \union {x}) = c[x] + SumFunctionOnSet(c, T)
<1> DEFINE U == T \union {x}
<1>1. U \in SUBSET S /\ x \in U /\ U \ {x} = T
  OBVIOUS
<1> HIDE DEF U
<1>2. SumFunctionOnSet(c, U) = c[x] + SumFunctionOnSet(c, U \ {x})
  BY <1>1, SumElement
<1> QED BY <1>1, <1>2 DEF U

(* A sum is positive if and only if one of its numbers is. *)
LEMMA SumPositive ==
  ASSUME NEW c, NEW S, IsFiniteSet(S), \A x \in S : c[x] \in Nat
  PROVE  SumFunctionOnSet(c, S) > 0 <=> \E x \in S : c[x] > 0
<1>1. ASSUME NEW x \in S, c[x] > 0
      PROVE  SumFunctionOnSet(c, S) > 0
  <2> DEFINE U == S \ {x}
  <2>1. SumFunctionOnSet(c, S) = c[x] + SumFunctionOnSet(c, U)
    BY SumElement
  <2>2. U \in SUBSET S
    OBVIOUS
  <2> HIDE DEF U
  <2>3. SumFunctionOnSet(c, U) \in Nat
    BY <2>2, SumNat
  <2> QED BY <1>1, <2>1, <2>3
<1>2. ASSUME \A x \in S : ~(c[x] > 0)
      PROVE  SumFunctionOnSet(c, S) = 0
  <2> DEFINE Q == {T \in SUBSET S : SumFunctionOnSet(c, T) = 0}
  <2>1. ASSUME NEW T \in SUBSET S, \A U \in SUBSET T : U # T => U \in Q
        PROVE  T \in Q
    <3>1. CASE T = {}
      BY <3>1, SumEmpty
    <3>2. CASE T # {}
      <4> DEFINE U == T \ {Pick(T)}
      <4>1. Pick(T) \in T /\ U \in SUBSET T /\ U # T
        BY <3>2, PickElement
      <4>2. SumFunctionOnSet(c, U) = 0 /\ c[Pick(T)] = 0
        BY <1>2, <2>1, <4>1
      <4>3. SumFunctionOnSet(c, T) = Plus(c[Pick(T)], SumFunctionOnSet(c, U))
        BY <3>2, SumPick, FS_Subset
      <4> QED BY <4>2, <4>3 DEF Plus
    <3> QED BY <3>1, <3>2
  <2> HIDE DEF Q
  <2>2. S \in Q
    BY <2>1, SubsetInduction
  <2> QED BY <2>2 DEF Q
<1> QED BY <1>1, <1>2
-----------------------------------------------------------------------------
(* The inductive invariant. *)
Before == {inputFiles[i] : i \in 1 .. position - 1}

(* What the words of a file are counted as is what its output file holds,  *)
(* if it was stored there last.                                            *)
StoredWhole ==
  \A o \in Output : stored[o] # NoFile =>
    disk[o] = wordCount(stored[o]) /\ getOutputFile[stored[o]] = o

(* The files before position have been merged, and no other. *)
MergedBefore ==
  \A w \in Word :
    /\ wordCountMaster[w] <= MaxLen * (position - 1)
    /\ wordCountMaster[w] >= SumFunctionOnSet(counts(w), StoredFiles \cap Before)
    /\ AllStored => wordCountMaster[w] = SumFunctionOnSet(counts(w), Before)

(* Merging starts with the first file and ends with the last, and what is  *)
(* printed are all words that were found, sorted.                          *)
PhaseInv ==
  /\ phase = "work" => position = 1
  /\ phase \in {"sort", "done"} => position = Len(inputFiles) + 1
  /\ IF phase = "done" THEN result \in Sorted ELSE result = <<>>

Types ==
  /\ text \in [File -> BoundedSeq(Word, MaxLen)]
  /\ getOutputFile \in [File -> Output]
  /\ blank \in SUBSET File
  /\ disk \in [Output -> Count \union {Unreadable}]
  /\ phase \in {"work", "merge", "sort", "done"}
  /\ position \in 1 .. Len(inputFiles) + 1
  /\ wordCountMaster \in [Word -> Nat]
  /\ stored \in [Output -> File \union {NoFile}]

MergerInv == Types /\ StoredWhole /\ MergedBefore /\ PhaseInv

(* The array of input files, and its files. *)
LEMMA Files ==
  /\ Len(inputFiles) \in Nat /\ DOMAIN inputFiles = 1 .. Len(inputFiles)
  /\ \A i \in 1 .. Len(inputFiles) : inputFiles[i] \in File
  /\ \A i, j \in 1 .. Len(inputFiles) : inputFiles[i] = inputFiles[j] => i = j
  /\ \A f \in File : \E i \in 1 .. Len(inputFiles) : f = inputFiles[i]
  /\ IsFiniteSet(File)
<1>1. Len(inputFiles) \in Nat /\ inputFiles \in [1 .. Len(inputFiles) -> File]
  BY MergerAssumption
<1>2. \A f \in File : \E i \in 1 .. Len(inputFiles) : f = inputFiles[i]
  BY <1>1 DEF File, Range
<1>3. inputFiles \in Surjection(1 .. Len(inputFiles), File)
  BY <1>1, <1>2 DEF Surjection
<1>4. IsFiniteSet(File)
  BY <1>1, <1>3, FS_Interval, FS_Surjection
<1>5. \A i, j \in 1 .. Len(inputFiles) : inputFiles[i] = inputFiles[j] => i = j
  BY <1>1, MergerAssumption DEF IsInjective
<1> QED BY <1>1, <1>2, <1>4, <1>5

(* A text has at most MaxLen occurrences of a word, and one if and only if *)
(* the word is in it.                                                      *)
LEMMA OccurrencesType ==
  ASSUME NEW s \in BoundedSeq(Word, MaxLen), NEW w
  PROVE  /\ Occurrences(s, w) \in 0 .. MaxLen
         /\ Occurrences(s, w) > 0 <=> w \in ToSet(s)
<1> DEFINE D == {i \in DOMAIN s : s[i] = w}
<1>1. PICK n \in 0 .. MaxLen : s \in [1 .. n -> Word]
  BY DEF BoundedSeq, SeqOf
<1>2. IsFiniteSet(1 .. n) /\ Cardinality(1 .. n) = n
  BY FS_Interval, MergerAssumption
<1>3. D \in SUBSET (1 .. n)
  BY <1>1
<1>4. D # {} <=> w \in ToSet(s)
  BY DEF ToSet
<1> HIDE DEF D
<1>5. IsFiniteSet(D) /\ Cardinality(D) <= n /\ Cardinality(D) \in Nat
  BY <1>2, <1>3, FS_Subset, FS_CardinalityType
<1>6. Cardinality(D) > 0 <=> D # {}
  BY <1>5, FS_EmptySet
<1>7. Occurrences(s, w) = Cardinality(D)
  BY DEF Occurrences, D
<1> QED BY <1>1, <1>4, <1>5, <1>6, <1>7, MergerAssumption

(* What a file counts, and the sums over files. *)
LEMMA CountsType ==
  ASSUME text \in [File -> BoundedSeq(Word, MaxLen)]
  PROVE  /\ \A w \in Word : counts(w) \in [File -> 0 .. MaxLen]
         /\ \A w \in Word : \A f \in File : counts(w)[f] = wordCount(f)[w]
         /\ \A f \in File : wordCount(f) \in Count
         /\ \A w \in Word : \A F \in SUBSET File : SumFunctionOnSet(counts(w), F) \in Nat
<1>1. \A f \in File : \A w : Occurrences(text[f], w) \in 0 .. MaxLen
  BY OccurrencesType
<1>2. \A w \in Word : counts(w) \in [File -> 0 .. MaxLen]
  BY <1>1 DEF counts
<1>3. \A f \in File : wordCount(f) \in Count
  BY <1>1 DEF wordCount, Count
<1>4. ASSUME NEW w \in Word, NEW F \in SUBSET File
      PROVE  SumFunctionOnSet(counts(w), F) \in Nat
  <2>1. \A x \in File : counts(w)[x] \in Nat
    BY <1>2, MergerAssumption
  <2> QED BY <2>1, Files, SumNat
<1> QED BY <1>2, <1>3, <1>4 DEF counts, wordCount

(* The files before the first and before the next position. *)
LEMMA BeforeStart ==
  position = 1 => Before = {}
BY DEF Before

(* All files are before the end. *)
LEMMA BeforeEnd ==
  position = Len(inputFiles) + 1 => Before = File
BY Files DEF Before

(* A step of the merger adds its file to those before position. *)
LEMMA BeforeNext ==
  ASSUME position \in 1 .. Len(inputFiles), position' = position + 1
  PROVE  /\ inputFiles[position] \in File \ Before
         /\ Before' = Before \union {inputFiles[position]}
         /\ Before \in SUBSET File
<1>1. Before' = {inputFiles[i] : i \in 1 .. position}
  BY Files DEF Before
<1>2. 1 .. position = (1 .. position - 1) \union {position}
  BY Files
<1>3. inputFiles[position] \notin Before
  BY Files DEF Before
<1>4. Before \in SUBSET File
  BY Files DEF Before
<1> QED BY <1>1, <1>2, <1>3, <1>4, Files DEF Before

(* Before the merger has started, nothing is merged. *)
LEMMA NothingMerged ==
  ASSUME Types, MergedBefore, position = 1, position' = 1, wordCountMaster' = wordCountMaster
  PROVE  MergedBefore'
<1>1. Before' = {}
  BY DEF Before
<1>2. ASSUME NEW w \in Word
      PROVE  wordCountMaster'[w] = 0
  BY MergerAssumption DEF MergedBefore, Types
<1> QED BY <1>1, <1>2, SumEmpty, MergerAssumption DEF MergedBefore

(* What is left alone stays as it is. *)
LEMMA KeepsStored ==
  StoredWhole /\ UNCHANGED <<text, getOutputFile, disk, stored>> => StoredWhole'
BY DEF StoredWhole, wordCount

(* What has been merged stays as it is while files are stored.             *)
LEMMA KeepsMerged ==
  MergedBefore /\ UNCHANGED <<text, getOutputFile, position, wordCountMaster, stored>>
    => MergedBefore'
BY DEF MergedBefore, Before, StoredFiles, AllStored, counts

(* The lists depend on the merged counts only.                             *)
LEMMA KeepsSorted == UNCHANGED wordCountMaster => UNCHANGED Sorted
BY DEF Sorted, Entries, Compare

(* Every step keeps the invariant. *)
LEMMA Step == MergerInv /\ [Next]_vars => MergerInv'
<1> SUFFICES ASSUME MergerInv, [Next]_vars
             PROVE  MergerInv'
  OBVIOUS
<1> USE DEF MergerInv
<1>1. ASSUME NEW f \in File, Execute(f)
      PROVE  MergerInv'
  <2>1. wordCount(f) \in Count
    BY CountsType DEF Types
  <2>2. Types'
    BY <1>1, <2>1 DEF Execute, Types, inputs
  <2>3. StoredWhole'
    <3>1. ASSUME NEW o \in Output, stored'[o] # NoFile
          PROVE  disk'[o] = [w \in Word |-> Occurrences(text[stored'[o]], w)]
                 /\ getOutputFile[stored'[o]] = o
      BY <1>1, <3>1 DEF Execute, Types, StoredWhole, wordCount
    <3>2. text' = text /\ getOutputFile' = getOutputFile
      BY <1>1 DEF Execute, inputs
    <3> QED BY <3>1, <3>2 DEF StoredWhole, wordCount
  <2>4. position' = 1 /\ wordCountMaster' = wordCountMaster
    BY <1>1 DEF Execute, PhaseInv
  <2>5. MergedBefore'
    BY <1>1, <2>4, NothingMerged DEF Execute, PhaseInv
  <2>6. PhaseInv'
    BY <1>1 DEF Execute, PhaseInv
  <2> QED BY <2>2, <2>3, <2>5, <2>6
<1>2. ASSUME NEW f \in File, StoreFails(f)
      PROVE  MergerInv'
  <2>1. Types'
    BY <1>2 DEF StoreFails, Types, inputs
  <2>2. StoredWhole'
    <3>1. ASSUME NEW o \in Output, stored'[o] # NoFile
          PROVE  disk'[o] = [w \in Word |-> Occurrences(text[stored'[o]], w)]
                 /\ getOutputFile[stored'[o]] = o
      BY <1>2, <3>1 DEF StoreFails, Types, StoredWhole, wordCount
    <3>2. text' = text /\ getOutputFile' = getOutputFile
      BY <1>2 DEF StoreFails, inputs
    <3> QED BY <3>1, <3>2 DEF StoredWhole, wordCount
  <2>3. position' = 1 /\ wordCountMaster' = wordCountMaster
    BY <1>2 DEF StoreFails, PhaseInv
  <2>4. MergedBefore'
    BY <1>2, <2>3, NothingMerged DEF StoreFails, PhaseInv
  <2>5. PhaseInv'
    BY <1>2 DEF StoreFails, PhaseInv
  <2> QED BY <2>1, <2>2, <2>4, <2>5
<1>3. CASE StartMerger
  <2>1. Types'
    BY <1>3 DEF StartMerger, Types, inputs
  <2>2. StoredWhole' /\ MergedBefore'
    BY <1>3, KeepsStored, KeepsMerged DEF StartMerger, inputs
  <2>3. PhaseInv'
    BY <1>3 DEF StartMerger, PhaseInv
  <2> QED BY <2>1, <2>2, <2>3
<1>4. CASE MergeNext
  <2> DEFINE f == inputFiles[position]
             m == disk[getOutputFile[f]]
  <2>1. position' = position + 1 /\ position \in 1 .. Len(inputFiles)
    BY <1>4 DEF MergeNext, AfterUnreadable, Types
  <2>2. f \in File \ Before /\ Before' = Before \union {f} /\ Before \in SUBSET File
    BY <2>1, BeforeNext
  <2>3. m \in Count \union {Unreadable}
    BY <2>2 DEF Types
  <2>4. \/ m # Unreadable /\ wordCountMaster' = [w \in Word |-> wordCountMaster[w] + m[w]]
        \/ m = Unreadable /\ wordCountMaster' = wordCountMaster
    BY <1>4 DEF MergeNext, Merged
  <2>5. UNCHANGED <<inputs, disk, phase, result, stored>> /\ phase = "merge"
    BY <1>4 DEF MergeNext
  <2>6. f \in StoredFiles => m # Unreadable /\ \A w \in Word : m[w] = counts(w)[f]
    <3>1. ASSUME f \in StoredFiles
          PROVE  m = wordCount(f)
      BY <2>2, <3>1, MergerAssumption DEF StoredFiles, StoredWhole, Types
    <3> QED BY <2>2, <3>1, CountsType, MergerAssumption DEF Types
  <2>7. StoredFiles' = StoredFiles /\ \A w \in Word : counts(w)' = counts(w)
    BY <2>5 DEF StoredFiles, counts, inputs
  <2> HIDE DEF f, m
  <2>8. wordCountMaster' \in [Word -> Nat]
    BY <2>3, <2>4, MergerAssumption DEF Types, Count
  <2>9. Types'
    BY <2>1, <2>5, <2>8, Files DEF Types, inputs
  <2>10. StoredWhole'
    BY <2>5, KeepsStored DEF inputs
  <2>11. ASSUME NEW w \in Word
         PROVE  /\ wordCountMaster'[w] <= MaxLen * (position' - 1)
                /\ wordCountMaster'[w] >= SumFunctionOnSet(counts(w), StoredFiles \cap Before')
                /\ AllStored => wordCountMaster'[w] = SumFunctionOnSet(counts(w), Before')
    <3> DEFINE more == wordCountMaster'[w] - wordCountMaster[w]
               c == counts(w)
               F == StoredFiles \cap Before
    <3>1. more \in 0 .. MaxLen /\ wordCountMaster'[w] = wordCountMaster[w] + more
          /\ (f \in StoredFiles => more = c[f])
      BY <2>3, <2>4, <2>6, MergerAssumption DEF Types, Count
    <3>2. c \in [File -> Nat]
      BY CountsType, MergerAssumption DEF Types
    <3>3. SumFunctionOnSet(c, Before') = c[f] + SumFunctionOnSet(c, Before)
      BY <2>2, <3>2, Files, SumAdd
    <3>4. SumFunctionOnSet(c, StoredFiles \cap Before') =
            IF f \in StoredFiles THEN c[f] + SumFunctionOnSet(c, F) ELSE SumFunctionOnSet(c, F)
      <4>1. F \in SUBSET File /\ f \notin F
        BY <2>2
      <4>2. f \in StoredFiles => StoredFiles \cap Before' = F \union {f}
        BY <2>2
      <4>3. f \notin StoredFiles => StoredFiles \cap Before' = F
        BY <2>2
      <4> HIDE DEF c, F
      <4>4. SumFunctionOnSet(c, F \union {f}) = c[f] + SumFunctionOnSet(c, F)
        BY <2>2, <3>2, <4>1, Files, SumAdd
      <4> QED BY <4>2, <4>3, <4>4
    <3>5. SumFunctionOnSet(c, F) \in Nat /\ SumFunctionOnSet(c, Before) \in Nat /\ c[f] \in Nat
      BY <2>2, <3>2, CountsType DEF Types
    <3>6. wordCountMaster[w] \in Nat /\ wordCountMaster[w] <= MaxLen * (position - 1)
          /\ wordCountMaster[w] >= SumFunctionOnSet(c, F)
          /\ (AllStored => wordCountMaster[w] = SumFunctionOnSet(c, Before))
      BY DEF MergedBefore, Types
    <3>7. AllStored => f \in StoredFiles
      BY <2>2 DEF AllStored
    <3>8. MaxLen * (position' - 1) = MaxLen * (position - 1) + MaxLen
      BY <2>1, MergerAssumption, Files
    <3>9. MaxLen * (position - 1) \in Nat
      BY <2>1, MergerAssumption, Files
    <3> HIDE DEF more, c, F
    <3>10. wordCountMaster'[w] <= MaxLen * (position' - 1)
      BY <3>1, <3>6, <3>8, <3>9, MergerAssumption
    <3>11. wordCountMaster'[w] >= SumFunctionOnSet(c, StoredFiles \cap Before')
      BY <3>1, <3>4, <3>5, <3>6, MergerAssumption
    <3>12. AllStored => wordCountMaster'[w] = SumFunctionOnSet(c, Before')
      BY <3>1, <3>3, <3>5, <3>6, <3>7
    <3> QED BY <3>10, <3>11, <3>12 DEF c
  <2>12. MergedBefore'
    BY <2>7, <2>11 DEF MergedBefore, AllStored
  <2>13. PhaseInv'
    BY <2>5 DEF PhaseInv
  <2> QED BY <2>9, <2>10, <2>12, <2>13
<1>5. CASE EndMerger
  <2>1. Types'
    BY <1>5 DEF EndMerger, Types, inputs
  <2>2. StoredWhole' /\ MergedBefore'
    BY <1>5, KeepsStored, KeepsMerged DEF EndMerger, inputs
  <2>3. PhaseInv'
    BY <1>5, Files DEF EndMerger, PhaseInv, Types
  <2> QED BY <2>1, <2>2, <2>3
<1>6. CASE SortAndWrite
  <2>1. Types'
    BY <1>6 DEF SortAndWrite, Types, inputs
  <2>2. StoredWhole' /\ MergedBefore'
    BY <1>6, KeepsStored, KeepsMerged DEF SortAndWrite, inputs
  <2>3. PhaseInv'
    BY <1>6, KeepsSorted DEF SortAndWrite, PhaseInv
  <2> QED BY <2>1, <2>2, <2>3
<1>7. CASE UNCHANGED vars
  <2>1. Types'
    BY <1>7 DEF vars, Types, inputs
  <2>2. StoredWhole' /\ MergedBefore'
    BY <1>7, KeepsStored, KeepsMerged DEF vars, inputs
  <2>3. PhaseInv'
    BY <1>7, KeepsSorted DEF vars, PhaseInv
  <2> QED BY <2>1, <2>2, <2>3
<1> QED BY <1>1, <1>2, <1>3, <1>4, <1>5, <1>6, <1>7 DEF Next

(* The invariant holds before anything is stored.                          *)
LEMMA Start == Init => MergerInv
<1> SUFFICES ASSUME Init PROVE MergerInv
  OBVIOUS
<1>1. [w \in Word |-> MaxLen] \in Count
  BY MergerAssumption DEF Count
<1>2. Types
  BY <1>1, Files DEF Init, Types
<1>3. StoredWhole
  BY DEF Init, StoredWhole
<1>4. Before = {}
  BY DEF Init, Before
<1>5. MergedBefore
  BY <1>4, SumEmpty, MergerAssumption DEF Init, MergedBefore
<1>6. PhaseInv
  BY DEF Init, PhaseInv
<1> QED BY <1>2, <1>3, <1>5, <1>6 DEF MergerInv

(* The invariant, in every run.                                            *)
LEMMA Invariant == Spec => []MergerInv
BY Start, Step, PTL DEF Spec
-----------------------------------------------------------------------------
(* What is sorted are the words that were found, each of them once.        *)
LEMMA EntriesFinite ==
  /\ Entries \in SUBSET Word
  /\ IsFiniteSet(Entries)
  /\ Cardinality(Entries) \in Nat /\ Cardinality(Entries) <= Cardinality(Word)
<1>1. Entries \in SUBSET Word
  BY DEF Entries
<1> QED BY <1>1, FS_Subset, FS_CardinalityType, MergerAssumption

(* A sorted list has every entry once.                                     *)
LEMMA SortedType ==
  ASSUME NEW s \in Sorted
  PROVE  /\ s \in [1 .. Cardinality(Entries) -> Entries]
         /\ \A i, j \in 1 .. Cardinality(Entries) : i # j => s[i] # s[j]
         /\ \A i, j \in 1 .. Cardinality(Entries) : i < j => ~Compare(s[j], s[i])
         /\ ToSet(s) = Entries
<1> DEFINE n == Cardinality(Entries)
<1>1. /\ s \in [1 .. n -> Entries]
      /\ \A i, j \in 1 .. n : i # j => s[i] # s[j]
      /\ \A i, j \in 1 .. n : i < j => ~Compare(s[j], s[i])
  BY DEF Sorted, SetToSeqs
<1>2. s \in Injection(1 .. n, Entries)
  BY <1>1 DEF Injection, IsInjective
<1>3. Cardinality(1 .. n) = n
  BY FS_Interval, EntriesFinite
<1> HIDE DEF n
<1>4. s \in Surjection(1 .. n, Entries)
  BY <1>2, <1>3, EntriesFinite, FS_Injection DEF n
<1>5. ToSet(s) = Entries
  BY <1>1, <1>4 DEF Surjection, ToSet
<1> QED BY <1>1, <1>5 DEF n

(* TypeOK: no counter passes MaxLen times the number of files, and what is *)
(* printed are at most as many words as there are.                         *)
THEOREM MergerTypeCorrect == Spec => []TypeOK
<1>1. MergerInv => TypeOK
  <2> SUFFICES ASSUME MergerInv PROVE TypeOK
    OBVIOUS
  <2> USE DEF MergerInv
  <2>1. ASSUME NEW w \in Word
        PROVE  wordCountMaster[w] \in 0 .. MaxLen * Len(inputFiles)
    <3>1. position - 1 \in Nat /\ position - 1 <= Len(inputFiles)
      BY Files DEF Types
    <3>2. MaxLen * (position - 1) <= MaxLen * Len(inputFiles)
      BY <3>1, Files, MergerAssumption
    <3>3. wordCountMaster[w] \in Nat /\ wordCountMaster[w] <= MaxLen * (position - 1)
      BY DEF MergedBefore, Types
    <3>4. MaxLen * (position - 1) \in Nat /\ MaxLen * Len(inputFiles) \in Nat
      BY <3>1, Files, MergerAssumption
    <3> QED BY <3>2, <3>3, <3>4
  <2>2. result \in BoundedSeq(Word, Cardinality(Word))
    <3>1. PICK n \in 0 .. Cardinality(Word) : result \in [1 .. n -> Word]
      <4>1. CASE phase = "done"
        <5>1. result \in [1 .. Cardinality(Entries) -> Entries]
          BY <4>1, SortedType DEF PhaseInv
        <5>2. Cardinality(Word) \in Nat
          BY FS_CardinalityType, MergerAssumption
        <5> QED BY <5>1, <5>2, EntriesFinite
      <4>2. CASE phase # "done"
        <5>1. result \in [1 .. 0 -> Word]
          BY <4>2 DEF PhaseInv
        <5> QED BY <5>1, FS_CardinalityType, MergerAssumption
      <4> QED BY <4>1, <4>2
    <3> QED BY <3>1 DEF BoundedSeq, SeqOf
  <2> QED BY <2>1, <2>2 DEF TypeOK, Types
<1> QED BY <1>1, Invariant, PTL

(* JointCount: if every file was stored under a name of its own, the       *)
(* result counts every word of every file once.                            *)
THEOREM JointlyCounted == Spec => []JointCount
<1>1. MergerInv => JointCount
  <2> SUFFICES ASSUME MergerInv, phase = "done", AllStored
               PROVE  /\ \A w \in Word : wordCountMaster[w] = SumFunctionOnSet(counts(w), File)
                      /\ ToSet(result) = UNION {ToSet(text[f]) : f \in File}
    BY DEF JointCount
  <2> USE DEF MergerInv
  <2>1. Before = File
    BY BeforeEnd DEF PhaseInv
  <2>2. \A w \in Word : wordCountMaster[w] = SumFunctionOnSet(counts(w), File)
    BY <2>1 DEF MergedBefore
  <2>3. \A f \in File : text[f] \in BoundedSeq(Word, MaxLen)
    BY DEF Types
  <2>4. ASSUME NEW w \in Word
        PROVE  w \in Entries <=> \E f \in File : w \in ToSet(text[f])
    <3>1. \A f \in File : counts(w)[f] \in Nat
      BY CountsType, MergerAssumption DEF Types
    <3>2. w \in Entries <=> \E f \in File : counts(w)[f] > 0
      BY <2>2, <3>1, Files, SumPositive DEF Entries
    <3>3. \A f \in File : counts(w)[f] > 0 <=> w \in ToSet(text[f])
      BY <2>3, OccurrencesType DEF counts
    <3> QED BY <3>2, <3>3
  <2>5. \A f \in File : ToSet(text[f]) \subseteq Word
    BY <2>3 DEF BoundedSeq, SeqOf, ToSet
  <2>6. Entries = UNION {ToSet(text[f]) : f \in File}
    BY <2>4, <2>5 DEF Entries
  <2>7. ToSet(result) = Entries
    BY SortedType DEF PhaseInv
  <2> QED BY <2>2, <2>6, <2>7
<1> QED BY <1>1, Invariant, PTL

(* StoredAreCounted: whatever happened to other files, every file that was *)
(* stored under a name of its own is counted in full.                      *)
THEOREM StoredCounted == Spec => []StoredAreCounted
<1>1. MergerInv => StoredAreCounted
  <2> SUFFICES ASSUME MergerInv, phase = "done", NEW w \in Word
               PROVE  wordCountMaster[w] >= SumFunctionOnSet(counts(w), StoredFiles)
    BY DEF StoredAreCounted
  <2>1. StoredFiles \cap Before = StoredFiles
    BY BeforeEnd DEF MergerInv, PhaseInv, StoredFiles
  <2> QED BY <2>1 DEF MergerInv, MergedBefore
<1> QED BY <1>1, Invariant, PTL

(* Ordered: falling counts, then rising words, and no word twice, although *)
(* the sort is only known to return what its comparator does not object    *)
(* to.                                                                     *)
THEOREM ResultOrdered == Spec => []Ordered
<1>1. MergerInv => Ordered
  <2> SUFFICES ASSUME MergerInv, NEW i \in DOMAIN result, NEW j \in DOMAIN result, i < j
               PROVE  /\ result[i] # result[j]
                      /\ wordCountMaster[result[i]] >= wordCountMaster[result[j]]
                      /\ wordCountMaster[result[i]] = wordCountMaster[result[j]]
                           => result[i] < result[j]
    BY DEF Ordered
  <2> USE DEF MergerInv
  <2>1. result \in Sorted
    BY DEF PhaseInv
  <2>2. /\ i \in 1 .. Cardinality(Entries) /\ j \in 1 .. Cardinality(Entries)
        /\ result[i] \in Entries /\ result[j] \in Entries
        /\ result[i] # result[j] /\ ~Compare(result[j], result[i])
    <3> DEFINE n == Cardinality(Entries)
    <3>1. /\ result \in [1 .. n -> Entries]
          /\ \A k, l \in 1 .. n : k # l => result[k] # result[l]
          /\ \A k, l \in 1 .. n : k < l => ~Compare(result[l], result[k])
      BY <2>1, SortedType
    <3>2. i \in 1 .. n /\ j \in 1 .. n /\ i # j
      BY <3>1, EntriesFinite
    <3> HIDE DEF n
    <3>3. result[i] \in Entries /\ result[j] \in Entries
      BY <3>1, <3>2
    <3> QED BY <3>1, <3>2, <3>3 DEF n
  <2>3. /\ result[i] \in Nat /\ result[j] \in Nat
        /\ wordCountMaster[result[i]] \in Nat /\ wordCountMaster[result[j]] \in Nat
    BY <2>2, MergerAssumption DEF Entries, Types
  <2> QED BY <2>2, <2>3 DEF Compare
<1> QED BY <1>1, Invariant, PTL
-----------------------------------------------------------------------------
(* The comparator orders what was found. *)
LEMMA CompareOrders ==
  ASSUME wordCountMaster \in [Word -> Nat], NEW u \in Entries, NEW v \in Entries
  PROVE  /\ ~Compare(u, u)
         /\ Compare(u, v) => ~Compare(v, u)
         /\ u = v \/ Compare(u, v) \/ Compare(v, u)
         /\ \A w \in Entries : Compare(w, u) /\ Compare(u, v) => Compare(w, v)
<1>1. \A w \in Entries : w \in Nat /\ wordCountMaster[w] \in Nat
  BY MergerAssumption DEF Entries
<1> QED BY <1>1 DEF Compare

(* The place of a word: the number of words ahead of it, and one. *)
Ahead(w) == {u \in Entries : Compare(u, w)}
place == [w \in Entries |-> Cardinality(Ahead(w)) + 1]

(* A place is a position of the list, and smaller ahead of it.             *)
LEMMA PlaceType ==
  ASSUME wordCountMaster \in [Word -> Nat]
  PROVE  /\ place \in [Entries -> 1 .. Cardinality(Entries)]
         /\ \A v, w \in Entries : Compare(v, w) => place[v] < place[w]
<1>1. ASSUME NEW w \in Entries
      PROVE  /\ Ahead(w) \in SUBSET Entries /\ w \notin Ahead(w)
             /\ IsFiniteSet(Ahead(w)) /\ Cardinality(Ahead(w)) \in Nat
             /\ Ahead(w) \union {w} \in SUBSET Entries
             /\ place[w] = Cardinality(Ahead(w)) + 1
             /\ Cardinality(Ahead(w) \union {w}) = place[w]
  <2>1. Ahead(w) \in SUBSET Entries
    BY DEF Ahead
  <2>2. w \notin Ahead(w)
    BY CompareOrders DEF Ahead
  <2>3. IsFiniteSet(Ahead(w)) /\ Cardinality(Ahead(w)) \in Nat
    BY <2>1, EntriesFinite, FS_Subset, FS_CardinalityType
  <2>4. Cardinality(Ahead(w) \union {w}) = place[w]
    BY <2>2, <2>3, FS_AddElement DEF place
  <2>5. place[w] = Cardinality(Ahead(w)) + 1
    BY DEF place
  <2> QED BY <2>1, <2>2, <2>3, <2>4, <2>5
<1>2. ASSUME NEW w \in Entries
      PROVE  place[w] \in 1 .. Cardinality(Entries)
  <2> DEFINE A == Ahead(w) \union {w}
  <2>1. A \in SUBSET Entries /\ Cardinality(A) = place[w]
    BY <1>1
  <2> HIDE DEF A
  <2>2. Cardinality(A) <= Cardinality(Entries)
    BY <2>1, EntriesFinite, FS_Subset
  <2>3. Cardinality(Ahead(w)) \in Nat /\ place[w] = Cardinality(Ahead(w)) + 1
    BY <1>1
  <2> QED BY <2>1, <2>2, <2>3, EntriesFinite
<1>3. ASSUME NEW v \in Entries, NEW w \in Entries, Compare(v, w)
      PROVE  place[v] < place[w]
  <2> DEFINE A == Ahead(v) \union {v}
  <2>1. A \in SUBSET Ahead(w)
    BY <1>3, CompareOrders DEF Ahead
  <2>2. IsFiniteSet(Ahead(w)) /\ Cardinality(Ahead(w)) \in Nat
        /\ Cardinality(A) = place[v] /\ place[w] = Cardinality(Ahead(w)) + 1
    BY <1>1
  <2> HIDE DEF A
  <2>3. Cardinality(A) <= Cardinality(Ahead(w))
    BY <2>1, <2>2, FS_Subset
  <2>4. place[v] \in Nat
    BY <1>2
  <2> QED BY <2>2, <2>3, <2>4
<1> QED BY <1>2, <1>3 DEF place

(* Every position is the place of one entry.                               *)
LEMMA PlaceBijection ==
  ASSUME wordCountMaster \in [Word -> Nat]
  PROVE  /\ \A v, w \in Entries : place[v] = place[w] => v = w
         /\ \A i \in 1 .. Cardinality(Entries) : \E w \in Entries : place[w] = i
<1> DEFINE n == Cardinality(Entries)
<1>1. place \in [Entries -> 1 .. n] /\ n \in Nat
  BY PlaceType, EntriesFinite
<1>2. \A v, w \in Entries : Compare(v, w) => place[v] < place[w]
  BY PlaceType
<1>3. IsFiniteSet(1 .. n) /\ Cardinality(1 .. n) = n
  BY <1>1, FS_Interval
<1> HIDE DEF n
<1>4. \A v, w \in Entries : place[v] = place[w] => v = w
  BY <1>1, <1>2, CompareOrders
<1>5. place \in Injection(Entries, 1 .. n)
  BY <1>1, <1>4 DEF Injection, IsInjective
<1>6. place \in Surjection(Entries, 1 .. n)
  BY <1>3, <1>5, FS_Injection DEF n
<1> QED BY <1>4, <1>6 DEF Surjection, n

(* In a sorted list every word is in its place. *)
LEMMA InPlace ==
  ASSUME wordCountMaster \in [Word -> Nat],
         NEW s \in Sorted, NEW i \in 1 .. Cardinality(Entries)
  PROVE  s[i] \in Entries /\ place[s[i]] = i
<1> DEFINE n == Cardinality(Entries)
<1>1. /\ n \in Nat /\ s \in [1 .. n -> Entries]
      /\ \A k, l \in 1 .. n : k # l => s[k] # s[l]
      /\ \A k, l \in 1 .. n : k < l => ~Compare(s[l], s[k])
      /\ ToSet(s) = Entries
  BY SortedType, EntriesFinite
<1>2. i \in 1 .. n
  OBVIOUS
<1> HIDE DEF n
<1>3. \A w \in Entries : \E k \in 1 .. n : w = s[k]
  BY <1>1 DEF ToSet
<1>4. ASSUME NEW k \in 1 .. n
      PROVE  Compare(s[k], s[i]) <=> k < i
  <2>1. CASE k < i
    <3>1. s[k] # s[i] /\ ~Compare(s[i], s[k]) /\ s[k] \in Entries /\ s[i] \in Entries
      BY <1>1, <1>2, <2>1
    <3> QED BY <2>1, <3>1, CompareOrders
  <2>2. CASE k = i
    BY <1>1, <1>2, <2>2, CompareOrders
  <2>3. CASE i < k
    BY <1>1, <1>2, <2>3
  <2> QED BY <1>1, <1>2, <2>1, <2>2, <2>3
<1>5. Ahead(s[i]) = {s[k] : k \in 1 .. i - 1}
  <2>1. \A k \in 1 .. n : k < i <=> k \in 1 .. i - 1
    BY <1>1, <1>2
  <2>2. 1 .. i - 1 \subseteq 1 .. n
    BY <1>1, <1>2
  <2> QED BY <1>1, <1>3, <1>4, <2>1, <2>2 DEF Ahead
<1> DEFINE t == [k \in 1 .. i - 1 |-> s[k]]
<1>6. t \in Surjection(1 .. i - 1, Ahead(s[i]))
  BY <1>5 DEF Surjection
<1>7. t \in Injection(1 .. i - 1, Ahead(s[i]))
  <2>1. \A k, l \in 1 .. i - 1 : t[k] = t[l] => k = l
    BY <1>1, <1>2
  <2>2. t \in [1 .. i - 1 -> Ahead(s[i])]
    BY <1>6 DEF Surjection
  <2> HIDE DEF t
  <2> QED BY <2>1, <2>2 DEF Injection, IsInjective
<1>8. IsFiniteSet(1 .. i - 1) /\ Cardinality(1 .. i - 1) = i - 1
  BY <1>1, <1>2, FS_Interval
<1> HIDE DEF t
<1>9. Cardinality(Ahead(s[i])) = i - 1
  BY <1>6, <1>7, <1>8, FS_Surjection
<1> QED BY <1>1, <1>2, <1>9 DEF place

(* There is a list that the comparator does not object to, and only one:   *)
(* the sort can return, and the result does not depend on its algorithm or *)
(* on the order in which the map lists its entries.                        *)
THEOREM OneResult == Spec => [](\E s : Sorted = {s})
<1>1. MergerInv => \E s : Sorted = {s}
  <2> SUFFICES ASSUME MergerInv PROVE \E s : Sorted = {s}
    OBVIOUS
  <2> DEFINE n == Cardinality(Entries)
             s == [i \in 1 .. n |-> CHOOSE w \in Entries : place[w] = i]
  <2>1. wordCountMaster \in [Word -> Nat] /\ n \in Nat
    BY EntriesFinite DEF MergerInv, Types
  <2>2. \A i \in 1 .. n : s[i] \in Entries /\ place[s[i]] = i
    BY <2>1, PlaceBijection
  <2>3. s \in Sorted
    <3>1. s \in [1 .. n -> Entries]
      BY <2>2
    <3>2. \A i, j \in 1 .. n : i # j => s[i] # s[j]
      BY <2>2
    <3>3. \A i, j \in 1 .. n : i < j => ~Compare(s[j], s[i])
      <4>1. ASSUME NEW i \in 1 .. n, NEW j \in 1 .. n, i < j, Compare(s[j], s[i])
            PROVE  FALSE
        <5>1. place[s[j]] < place[s[i]]
          BY <2>1, <2>2, <4>1, PlaceType
        <5>2. j < i
          BY <2>2, <5>1
        <5> QED BY <2>1, <4>1, <5>2
      <4> QED BY <4>1
    <3> HIDE DEF s
    <3> QED BY <3>1, <3>2, <3>3 DEF Sorted, SetToSeqs
  <2> HIDE DEF s
  <2>4. ASSUME NEW t \in Sorted
        PROVE  t = s
    <3>1. ASSUME NEW i \in 1 .. n
          PROVE  t[i] = s[i]
      BY <2>1, <2>2, <3>1, InPlace, PlaceBijection
    <3>2. t \in [1 .. n -> Entries] /\ s \in [1 .. n -> Entries]
      BY <2>3, <2>4, SortedType
    <3>3. t = [i \in 1 .. n |-> t[i]] /\ s = [i \in 1 .. n |-> s[i]]
      BY <3>2
    <3> QED BY <3>1, <3>3
  <2> QED BY <2>3, <2>4
<1> QED BY <1>1, Invariant, PTL
=============================================================================
