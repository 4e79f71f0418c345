--------------------------------- MODULE Notices ----------------------------
(* The two kinds of Telegram messages together: those about lots that match *)
(* a query and those about points of the procurement plan. They share no    *)
(* state and one promise.                                                   *)
EXTENDS Notify, PlanNotify

(* Nobody gets a message twice, about a lot or about a plan point, unless a *)
(* worker died, or two passes ran beside each other, in the middle of it    *)
(* (queue/notify.py, jobs/plan_notify.py).                                  *)
NothingIsSentTwice == OneMessagePerPair /\ PointIsToldOnce
=============================================================================
