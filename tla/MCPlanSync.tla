----------------------------- MODULE MCPlanSync -----------------------------
(* Instances of PlanSync for TLC: one writer at a time, either daily walks *)
(* over a loaded table or backfills of an empty one.                       *)
EXTENDS PlanSync

VARIABLE who  \* the writer of this behaviour

SingleInit ==
  \/ who = "daily" /\ Init
  \/ who = "backfill" /\ InitWith(MaxId - 1, FALSE)

SingleNext ==
  /\ Next
  /\ \A w \in Writers \ {who} : pc'[w] = "idle"
  /\ UNCHANGED who

SingleSpec == SingleInit /\ [][SingleNext]_<<vars, who>>

(* A backfill that is only ever resumed needs nothing above its resume     *)
(* point, wherever it was cut before (plans.py:280-285): cutting it loses  *)
(* nothing, unless a page was rolled back.                                 *)
BackfillIsResumable == who = "backfill" => ResumePointIsSound
=============================================================================
