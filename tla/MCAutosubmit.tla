---------------------------- MODULE MCAutosubmit ----------------------------
(* Autosubmit for TLC; the cfgs give its constants their values.           *)
EXTENDS Autosubmit
=============================================================================
