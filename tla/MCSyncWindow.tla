---------------------------- MODULE MCSyncWindow ----------------------------
(* Instances of SyncWindow for TLC.                                        *)
EXTENDS SyncWindow
=============================================================================
