----------------------------- MODULE MCSyncGuard -----------------------------
(* Instances of SyncGuard for TLC.                                         *)
EXTENDS SyncGuard
=============================================================================
