-------------------------- MODULE MCTaskAllocation --------------------------
(* TaskAllocation with two input files, or with one. *)
EXTENDS TaskAllocation

CONSTANTS f1, f2

MCTask == {f1, f2}
MCInputFiles == <<f1, f2>>
MCOneTask == {f1}
MCOneFile == <<f1>>
=============================================================================
