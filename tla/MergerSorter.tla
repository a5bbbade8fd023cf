---------------------------- MODULE MergerSorter ----------------------------
(***************************************************************************)
(* wordcount/WordCounter.java (what an execution stores),                  *)
(* wordcount/MergerSorter.java (what the master makes of it) and           *)
(* ApplicationUtils.getOutputFile.  Executions happen in any order, any    *)
(* number of times, and may fail, as TaskAllocation allows; the merger     *)
(* starts when the server has returned.                                    *)
(***************************************************************************)
EXTENDS Naturals, Sequences, SequencesExt, FiniteSetsExt

CONSTANTS
  inputFiles,  \* the array of input files
  Word,        \* words; their order as numbers is that of String.compareTo
  Output,      \* names of output files
  MaxLen,      \* bound: words in an input file
  Unreadable,  \* an output file that does not exist or is not complete
  NoFile       \* not one of the input files

File == Range(inputFiles)
Count == [Word -> 0 .. MaxLen]

ASSUME MergerAssumption ==
  /\ inputFiles \in Seq(File) /\ IsInjective(inputFiles)
  /\ Word \subseteq Nat /\ IsFiniteSet(Word) /\ MaxLen \in Nat
  /\ Unreadable \notin Count
  /\ NoFile \notin File

VARIABLES
  text,             \* the words of each input file; none if it is missing
  getOutputFile,    \* the output file of each input file
  blank,            \* the input files whose name contains a blank
  disk,             \* what each output file holds
  phase,            \* "work", "merge", "sort" or "done"
  position,         \* the next file of the merger's loop
  wordCountMaster,  \* the merged map; an absent key is a 0
  result,           \* the words in the order they are printed
  stored            \* history: the input file each output holds all words of

inputs == <<text, getOutputFile, blank>>
vars == <<inputs, disk, phase, position, wordCountMaster, result, stored>>

(* getOutputFile maps any two names that agree up to the first dot, in     *)
(* whatever directories, to one output file.  Output files may be there    *)
(* from an earlier run.                                                    *)
Init ==
  /\ text \in [File -> BoundedSeq(Word, MaxLen)]
  /\ getOutputFile \in [File -> Output]
  /\ blank \in SUBSET File
  /\ disk \in [Output -> {Unreadable, [w \in Word |-> MaxLen]}]
  /\ phase = "work"
  /\ position = 1
  /\ wordCountMaster = [w \in Word |-> 0]
  /\ result = <<>>
  /\ stored = [o \in Output |-> NoFile]

(* The operators named Mut... are faulty variants of the definition that   *)
(* follows them; nothing uses them but the mutation runs.                  *)
-----------------------------------------------------------------------------
(* WordCounter.execute: the map of the words of the file.                  *)
Occurrences(s, w) == Cardinality({i \in DOMAIN s : s[i] = w})
MutWordCount(f) ==
  [w \in Word |-> IF w \in Range(text[f]) THEN Occurrences(text[f], w) + 1 ELSE 0]
wordCount(f) == [w \in Word |-> Occurrences(text[f], w)]

(* The task travels in a line "TASK input output", which the client takes  *)
(* apart at the blanks: with a blank in a name it reads a file that is not *)
(* there and stores an empty map where the merger does not look.           *)
Garbled(f) == f \in blank

(* The output file is written as a whole. *)
Execute(f) ==
  /\ phase = "work" /\ ~Garbled(f)
  /\ disk' = [disk EXCEPT ![getOutputFile[f]] = wordCount(f)]
  /\ stored' = [stored EXCEPT ![getOutputFile[f]] = f]
  /\ UNCHANGED <<inputs, phase, position, wordCountMaster, result>>

(* It is truncated and not written to the end: the exception is swallowed, *)
(* or the process is killed.  (When it cannot be opened nothing changes.)  *)
StoreFails(f) ==
  /\ phase = "work" /\ ~Garbled(f)
  /\ disk' = [disk EXCEPT ![getOutputFile[f]] = Unreadable]
  /\ stored' = [stored EXCEPT ![getOutputFile[f]] = NoFile]
  /\ UNCHANGED <<inputs, phase, position, wordCountMaster, result>>

(* MergerSorter.execute is called when the server has returned.            *)
StartMerger ==
  /\ phase = "work"
  /\ phase' = "merge"
  /\ UNCHANGED <<inputs, disk, position, wordCountMaster, result, stored>>

(* merger: one round of its loop, which catches the exceptions of its file. *)
MutAfterUnreadable == Len(inputFiles) + 1
AfterUnreadable == position + 1

MutMerged(m) == [w \in Word |-> IF m[w] > 0 THEN m[w] ELSE wordCountMaster[w]]
Merged(m) == [w \in Word |-> wordCountMaster[w] + m[w]]

MergeNext ==
  /\ phase = "merge" /\ position <= Len(inputFiles)
  /\ LET m == disk[getOutputFile[inputFiles[position]]] IN
     \/ m # Unreadable /\ wordCountMaster' = Merged(m) /\ position' = position + 1
     \/ m = Unreadable /\ position' = AfterUnreadable /\ UNCHANGED wordCountMaster
  /\ UNCHANGED <<inputs, disk, phase, result, stored>>

EndMerger ==
  /\ phase = "merge" /\ position > Len(inputFiles)
  /\ phase' = "sort"
  /\ UNCHANGED <<inputs, disk, position, wordCountMaster, result, stored>>

(* The comparator of sorter: o1 comes before o2.                           *)
MutCompare(o1, o2) ==
  \/ wordCountMaster[o1] > wordCountMaster[o2]
  \/ wordCountMaster[o1] = wordCountMaster[o2] /\ o2 < o1

Compare(o1, o2) ==
  \/ wordCountMaster[o1] > wordCountMaster[o2]
  \/ wordCountMaster[o1] = wordCountMaster[o2] /\ o1 < o2

(* list.sort returns the entries of the map in an order that its           *)
(* comparator does not object to.                                          *)
Entries == {w \in Word : wordCountMaster[w] > 0}
Sorted ==
  {s \in SetToSeqs(Entries) : \A i, j \in DOMAIN s : i < j => ~Compare(s[j], s[i])}

(* sorter and writer. *)
SortAndWrite ==
  /\ phase = "sort"
  /\ phase' = "done"
  /\ result' \in Sorted
  /\ UNCHANGED <<inputs, disk, position, wordCountMaster, stored>>

Next ==
  \/ \E f \in File : Execute(f) \/ StoreFails(f)
  \/ StartMerger
  \/ MergeNext
  \/ EndMerger
  \/ SortAndWrite

Spec == Init /\ [][Next]_vars
-----------------------------------------------------------------------------
(* Type invariant of the module. *)
TypeOK ==
  /\ text \in [File -> BoundedSeq(Word, MaxLen)]
  /\ getOutputFile \in [File -> Output]
  /\ blank \in SUBSET File
  /\ disk \in [Output -> Count \union {Unreadable}]
  /\ phase \in {"work", "merge", "sort", "done"}
  /\ position \in 1 .. Len(inputFiles) + 1
  /\ wordCountMaster \in [Word -> 0 .. MaxLen * Len(inputFiles)]
  /\ result \in BoundedSeq(Word, Cardinality(Word))
  /\ stored \in [Output -> File \union {NoFile}]

(* The readme: "find the joint ordered word count frequency of a           *)
(* collection of files".  If the last execution of every file was stored,  *)
(* under a name of its own, the result counts every word of every file     *)
(* once, whatever was there before and however often files were executed.  *)
StoredFiles == {f \in File : stored[getOutputFile[f]] = f}
AllStored == StoredFiles = File

counts(w) == [f \in File |-> Occurrences(text[f], w)]

JointCount ==
  phase = "done" /\ AllStored =>
    /\ \A w \in Word : wordCountMaster[w] = SumFunctionOnSet(counts(w), File)
    /\ ToSet(result) = UNION {ToSet(text[f]) : f \in File}

(* A file whose output is missing, broken or overwritten does not cost the *)
(* words of the others: whatever else happened, every file that was stored *)
(* under a name of its own is counted in full (the exceptions of the       *)
(* merger are caught file by file).                                        *)
StoredAreCounted ==
  phase = "done" =>
    \A w \in Word : wordCountMaster[w] >= SumFunctionOnSet(counts(w), StoredFiles)

(* The result is ordered by falling count, then by word, with every word   *)
(* once ("both the sorting operation in the same comparator").             *)
Ordered ==
  \A i, j \in DOMAIN result : i < j =>
    LET v == result[i]
        w == result[j]
    IN  /\ v # w
        /\ wordCountMaster[v] >= wordCountMaster[w]
        /\ wordCountMaster[v] = wordCountMaster[w] => v < w
=============================================================================
