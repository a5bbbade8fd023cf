--------------------------- MODULE MCTaskManager ---------------------------
(* TaskManager with three input files, in the order of the array. *)
EXTENDS TaskManager

CONSTANTS f1, f2, f3

MCTask == {f1, f2, f3}
MCInputFiles == <<f1, f2, f3>>
=============================================================================
