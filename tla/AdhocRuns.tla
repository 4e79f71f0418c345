----------------------------- MODULE AdhocRuns -----------------------------
(***************************************************************************)
(* Runs that a person starts from /scan, /ingest or the report of an       *)
(* organisation: the request looks for a run in progress, inserts its row  *)
(* and sends a message; the actor walks the listing and keeps the row      *)
(* alive with its heartbeat.  One run at a time is what the Crawl-delay    *)
(* asks for (jobs/scan.py:113-114).                                        *)
(***************************************************************************)
EXTENDS Integers, FiniteSets

CONSTANTS
    RunIds,       \* ids of scrape_runs, in the order of insertion
    Requests,     \* requests of the web application at the same time
    StaleAfter,   \* _STALE_RUN_AFTER
    RunRetries,   \* max_retries of scan_actor and ingest_actor
    AdhocTime     \* bound: ticks

ASSUME AdhocAssumption ==
    /\ RunIds \subseteq Nat /\ IsFiniteSet(RunIds)
    /\ StaleAfter \in Nat \ {0} /\ {RunRetries, AdhocTime} \subseteq Nat

VARIABLES
    clock,
    runRow,       \* the row: none, open or closed, its start and heartbeat
    asking,       \* request -> where it stands, and the run it has inserted
    message,      \* run -> none, queued, walking or gone
    runRetries,   \* run -> retries left
    unguarded     \* history: runs the check could not see: inserted between
                  \* the check and the insertion of another one, silent for
                  \* StaleAfter, or walked again after their row was closed

adhocVars == <<clock, runRow, asking, message, runRetries, unguarded>>

NoRun == [state |-> "none", started |-> 0, progress |-> 0]
Quiet == [at |-> "quiet", run |-> -1]

AdhocTypeOK ==
    /\ clock \in 0..AdhocTime
    /\ runRow \in [RunIds -> [state : {"none", "open", "closed"},
                              started : 0..AdhocTime, progress : 0..AdhocTime]]
    /\ asking \in [Requests -> [at : {"quiet", "free", "inserted"}, run : RunIds \cup {-1}]]
    /\ message \in [RunIds -> {"none", "queued", "walking", "gone"}]
    /\ runRetries \in [RunIds -> 0..RunRetries] /\ unguarded \subseteq RunIds

AdhocInit ==
    /\ clock = 0
    /\ runRow = [r \in RunIds |-> NoRun]
    /\ asking = [q \in Requests |-> Quiet]
    /\ message = [r \in RunIds |-> "none"]
    /\ runRetries = [r \in RunIds |-> RunRetries]
    /\ unguarded = {}

Open(r) == runRow[r].state = "open"

\* Mutant: the age of the run counts, not its heartbeat.
StaleRunsByAge(r) == Open(r) /\ clock - runRow[r].started > StaleAfter

(* _progress_ts() < now - _STALE_RUN_AFTER *)
StaleRuns(r) == Open(r) /\ clock - runRow[r].progress > StaleAfter

(* close_stale_runs, before every look and on the page of the runs. *)
Reaped == [r \in RunIds |-> IF StaleRuns(r) THEN [runRow[r] EXCEPT !.state = "closed"]
                            ELSE runRow[r]]

(* find_active_run *)
Active == {r \in RunIds : Open(r) /\ ~StaleRuns(r)}

(* RunsPage: /runs, /scan and /ingest show only living runs. *)
RunsPage ==
    /\ runRow' = Reaped
    /\ UNCHANGED <<clock, asking, message, runRetries, unguarded>>

(* create_scan_run, create_ingest_run: refused while a run is active. *)
FindActiveRun(q) ==
    /\ asking[q] = Quiet
    /\ runRow' = Reaped
    /\ asking' = IF Active = {} THEN [asking EXCEPT ![q].at = "free"] ELSE asking
    /\ UNCHANGED <<clock, message, runRetries, unguarded>>

InsertRun(q) ==
    /\ asking[q].at = "free"
    /\ \E r \in RunIds :
        /\ runRow[r].state = "none" /\ \A s \in RunIds : s < r => runRow[s].state # "none"
        /\ runRow' = [runRow EXCEPT ![r] =
                          [state |-> "open", started |-> clock, progress |-> clock]]
        /\ asking' = [asking EXCEPT ![q] = [at |-> "inserted", run |-> r]]
        /\ unguarded' = IF \E p \in Requests \ {q} : asking[p].at = "free"
                        THEN unguarded \cup {r} ELSE unguarded
    /\ UNCHANGED <<clock, message, runRetries>>

(* scan_start, ingest_start: the message is sent after the commit. *)
SendRun(q) ==
    /\ asking[q].at = "inserted"
    /\ message' = [message EXCEPT ![asking[q].run] = "queued"]
    /\ asking' = [asking EXCEPT ![q] = Quiet]
    /\ UNCHANGED <<clock, runRow, runRetries, unguarded>>

(* The process or the broker fails on the way: an open row without a run. *)
RequestDies(q) ==
    /\ asking[q] # Quiet
    /\ asking' = [asking EXCEPT ![q] = Quiet]
    /\ UNCHANGED <<clock, runRow, message, runRetries, unguarded>>

(* scan_actor, ingest_actor: the row is not looked at when the walk starts. *)
StartRun(r) ==
    /\ message[r] = "queued"
    /\ message' = [message EXCEPT ![r] = "walking"]
    /\ UNCHANGED <<clock, runRow, asking, runRetries, unguarded>>

(* _touch_run: a row that has been closed stays closed. *)
Heartbeat(r) ==
    /\ message[r] = "walking" /\ runRow[r].progress # clock
    /\ runRow' = [runRow EXCEPT ![r].progress = clock]
    /\ UNCHANGED <<clock, asking, message, runRetries, unguarded>>

WalkFinished(r) ==
    /\ message[r] = "walking"
    /\ runRow' = [runRow EXCEPT ![r].state = "closed"]
    /\ message' = [message EXCEPT ![r] = "gone"]
    /\ UNCHANGED <<clock, asking, runRetries, unguarded>>

(* The row is closed with an error and the message comes back. *)
WalkFailed(r) ==
    /\ message[r] = "walking"
    /\ runRow' = [runRow EXCEPT ![r].state = "closed"]
    /\ IF runRetries[r] > 0
       THEN /\ message' = [message EXCEPT ![r] = "queued"]
            /\ runRetries' = [runRetries EXCEPT ![r] = @ - 1]
            /\ unguarded' = unguarded \cup {r}
       ELSE /\ message' = [message EXCEPT ![r] = "gone"]
            /\ UNCHANGED <<runRetries, unguarded>>
    /\ UNCHANGED <<clock, asking>>

ClockTicks ==
    /\ clock < AdhocTime
    /\ clock' = clock + 1
    /\ unguarded' = unguarded \cup
                    {r \in RunIds : Open(r) /\ clock + 1 - runRow[r].progress > StaleAfter}
    /\ UNCHANGED <<runRow, asking, message, runRetries>>

AdhocNext ==
    \/ RunsPage \/ ClockTicks
    \/ \E q \in Requests : FindActiveRun(q) \/ InsertRun(q) \/ SendRun(q) \/ RequestDies(q)
    \/ \E r \in RunIds : StartRun(r) \/ Heartbeat(r) \/ WalkFinished(r) \/ WalkFailed(r)

AdhocSpec == AdhocInit /\ [][AdhocNext]_adhocVars

(* jobs/scan.py:113-114 and jobs/ingest.py:31-34: however old a run grows, *)
(* no second one works beside it, as long as it is not one of those that   *)
(* the check could not see.                                                *)
OneRunAtATime ==
    \A r, s \in RunIds : (r < s /\ message[r] = "walking" /\ message[s] = "walking")
        => {r, s} \cap unguarded # {}
=============================================================================
