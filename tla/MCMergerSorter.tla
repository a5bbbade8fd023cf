-------------------------- MODULE MCMergerSorter --------------------------
(* MergerSorter with two input files. *)
EXTENDS MergerSorter

CONSTANTS f1, f2

MCInputFiles == <<f1, f2>>
=============================================================================
