----------------------------- MODULE RunBarrier -----------------------------
(***************************************************************************)
(* What the pending counter of queue/actors.py promises, without the       *)
(* counter: a scrape run is a barrier over its detail tasks.  The run is   *)
(* launched once with a set of announcements, each of them is resolved     *)
(* (its details are saved, skipped or given up), and finished_at is        *)
(* written in the counter's name only when none is outstanding.  The       *)
(* listing may finish a run that has nothing to fan out or that failed,    *)
(* and the reaper may finish any run that is still open.                   *)
(***************************************************************************)
CONSTANT Annos                \* announcements a listing can bring up

VARIABLES launched,           \* has the listing fanned out its details?
          outstanding,        \* announcements of the run not resolved yet
          finishedBy          \* who wrote ScrapeRun.finished_at last

barrierVars == <<launched, outstanding, finishedBy>>

BarrierInit == /\ launched = FALSE
               /\ outstanding = {}
               /\ finishedBy = "none"

Launch(T) == /\ ~launched
             /\ T # {}
             /\ launched' = TRUE
             /\ outstanding' = T
             /\ UNCHANGED finishedBy

(* A run that never fans out is finished by its own listing.               *)
CloseByListing == /\ ~launched
                  /\ finishedBy' = "listing"
                  /\ UNCHANGED <<launched, outstanding>>

Resolve(a) == /\ a \in outstanding
              /\ outstanding' = outstanding \ {a}
              /\ UNCHANGED <<launched, finishedBy>>

CloseByCounter == /\ launched
                  /\ outstanding = {}
                  /\ finishedBy' = "counter"
                  /\ UNCHANGED <<launched, outstanding>>

CloseByReaper == /\ finishedBy = "none"
                 /\ finishedBy' = "reaper"
                 /\ UNCHANGED <<launched, outstanding>>

BarrierNext == \/ \E T \in SUBSET Annos : Launch(T)
               \/ CloseByListing
               \/ \E a \in Annos : Resolve(a)
               \/ CloseByCounter
               \/ CloseByReaper

BarrierSpec == BarrierInit /\ [][BarrierNext]_barrierVars

=============================================================================
