SPECIFICATION Spec
CONSTANTS
  inputFiles <- MCInputFiles
  Word = {1, 2, 3}
  Output = {o1, o2}
  MaxLen = 2
  Unreadable = Unreadable
  NoFile = NoFile
  f1 = f1
  f2 = f2
INVARIANTS
  TypeOK
  JointCount
  StoredAreCounted
  Ordered
CHECK_DEADLOCK FALSE
