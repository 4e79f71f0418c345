--------------------------- MODULE MCDetailFanout ---------------------------
(***************************************************************************)
(* Instances of DetailFanout for TLC.                                      *)
(***************************************************************************)
EXTENDS DetailFanout, TLC

Symmetry == Permutations(Annos)

(* The faults after which the counter is still exact: tasks that stop      *)
(* before their DECR, messages dropped by age, sends that fail.            *)
CountedFaults == {"interrupt", "age", "send"}

AllFaults == FaultKinds

CrashOnly == {"crash"}
=============================================================================
