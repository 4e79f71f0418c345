------------------------------ MODULE SyncGuard ------------------------------
(***************************************************************************)
(* How the synchronisations keep out of each other's way: _sync_run of     *)
(* queue/actors.py.  A message of bids_sync_actor (contracts, plans) looks *)
(* for a live run of its kind in scrape_runs, inserts a row of its own,    *)
(* and looks again for a live run older than its row.  Threads are the     *)
(* worker threads that took such a message; a thread that dies leaves its  *)
(* row open, and its message is delivered again.                           *)
(*                                                                         *)
(* The database (db/engine.py) may be PostgreSQL or SQLite.  With SQLite   *)
(* an uncommitted INSERT keeps other writers out, so that rows become      *)
(* visible in the order of their ids: the behaviours in which reordered    *)
(* stays FALSE.                                                            *)
(***************************************************************************)
EXTENDS Naturals, FiniteSets

CONSTANTS
  Threads,   \* worker threads, one message each
  MaxDeaths  \* bound: deaths of worker processes

ASSUME GuardAssumption == MaxDeaths \in Nat

VARIABLES
  pc,        \* where each thread is
  id,        \* the id of its row of scrape_runs, 0: none
  nextId,    \* the sequence of scrape_runs.id
  open,      \* committed rows with finished_at NULL
  quiet,     \* those without a heartbeat for _STALE_RUN_AFTER
  completed, \* threads that have done the work
  reordered, \* auxiliary: a row was committed before an older one
  deaths     \* deaths so far

vars == <<pc, id, nextId, open, quiet, completed, reordered, deaths>>

(* The row of the thread is, or is about to be, in scrape_runs.            *)
Claiming == {"inserted", "committed", "working"}

TypeOK ==
  /\ pc \in [Threads -> {"queued", "checked", "yielding", "done"} \cup Claiming]
  /\ nextId \in Nat \ {0}
  /\ id \in [Threads -> 0 .. nextId - 1]
  /\ \A t \in Threads : pc[t] \in Claiming => id[t] # 0
  /\ open \subseteq 1 .. nextId - 1
  /\ quiet \subseteq open
  /\ completed \subseteq Threads
  /\ reordered \in BOOLEAN
  /\ deaths \in 0 .. MaxDeaths

Init ==
  /\ pc = [t \in Threads |-> "queued"]
  /\ id = [t \in Threads |-> 0]
  /\ nextId = 1
  /\ open = {} /\ quiet = {} /\ completed = {}
  /\ reordered = FALSE
  /\ deaths = 0

Goes(t, from, to) == pc[t] = from /\ pc' = [pc EXCEPT ![t] = to]

(* active_run_of_kind: not finished, and a heartbeat not too long ago.     *)
Live == open \ quiet

(* _skip_duplicate before the row is inserted: the message is dropped.     *)
FirstCheck(t) ==
  /\ IF Live # {} THEN Goes(t, "queued", "done") ELSE Goes(t, "queued", "checked")
  /\ UNCHANGED <<id, nextId, open, quiet, completed, reordered, deaths>>

(* The INSERT takes the next id; nobody sees the row yet.                  *)
Insert(t) ==
  /\ Goes(t, "checked", "inserted")
  /\ id' = [id EXCEPT ![t] = nextId]
  /\ nextId' = nextId + 1
  /\ UNCHANGED <<open, quiet, completed, reordered, deaths>>

CommitRow(t) ==
  /\ Goes(t, "inserted", "committed")
  /\ open' = open \cup {id[t]}
  /\ reordered' = (reordered \/ \E u \in Threads : pc[u] = "inserted" /\ id[u] < id[t])
  /\ UNCHANGED <<id, nextId, quiet, completed, deaths>>

(* Mutants: the second look is left out, or gives way to any live run.     *)
RecheckNothing(t) ==
  /\ Goes(t, "committed", "working")
  /\ UNCHANGED <<id, nextId, open, quiet, completed, reordered, deaths>>

RecheckAnyRun(t) ==
  /\ IF Live \ {id[t]} # {}
       THEN Goes(t, "committed", "yielding")
       ELSE Goes(t, "committed", "working")
  /\ UNCHANGED <<id, nextId, open, quiet, completed, reordered, deaths>>

(* _skip_duplicate with before_id: it gives way to an older live run.      *)
Recheck(t) ==
  /\ IF \E i \in Live : i < id[t]
       THEN Goes(t, "committed", "yielding")
       ELSE Goes(t, "committed", "working")
  /\ UNCHANGED <<id, nextId, open, quiet, completed, reordered, deaths>>

(* _close_run.                                                             *)
CloseRow(t) == open' = open \ {id[t]} /\ quiet' = quiet \ {id[t]}

Yield(t) ==
  /\ Goes(t, "yielding", "done")
  /\ CloseRow(t)
  /\ UNCHANGED <<id, nextId, completed, reordered, deaths>>

(* The body of the actor ends, or raises: the finally closes the run.      *)
Finish(t) ==
  /\ Goes(t, "working", "done")
  /\ completed' = completed \cup {t}
  /\ CloseRow(t)
  /\ UNCHANGED <<id, nextId, reordered, deaths>>

(* The worker process dies.  An uncommitted row is rolled back, a          *)
(* committed one stays open; the message was not acknowledged.             *)
Die(t) ==
  /\ pc[t] \notin {"queued", "done"}
  /\ deaths < MaxDeaths
  /\ deaths' = deaths + 1
  /\ pc' = [pc EXCEPT ![t] = "queued"]
  /\ id' = [id EXCEPT ![t] = 0]
  /\ UNCHANGED <<nextId, open, quiet, completed, reordered>>

(* 15 minutes go by without a heartbeat of a run nobody works at: every    *)
(* other touches its row much more often.                                  *)
Silence(i) ==
  /\ i \in Live
  /\ \A t \in Threads : id[t] = i => pc[t] = "done"
  /\ quiet' = quiet \cup {i}
  /\ UNCHANGED <<pc, id, nextId, open, completed, reordered, deaths>>

(* Mutant: the commit is forgotten.                                        *)
ReapUncommitted == quiet # {} /\ UNCHANGED vars

(* close_stale_runs: hourly from expire_actor, and from pages of the UI.   *)
Reap ==
  /\ quiet # {}
  /\ open' = open \ quiet
  /\ quiet' = {}
  /\ UNCHANGED <<pc, id, nextId, completed, reordered, deaths>>

Next ==
  \/ \E t \in Threads :
       \/ FirstCheck(t) \/ Insert(t) \/ CommitRow(t) \/ Recheck(t)
       \/ Yield(t) \/ Finish(t) \/ Die(t)
  \/ \E i \in open : Silence(i)
  \/ Reap

Spec == Init /\ [][Next]_vars

(* A thread goes on with its message, time passes, the timer fires.        *)
Fairness ==
  /\ \A t \in Threads :
       WF_vars(FirstCheck(t) \/ Insert(t) \/ CommitRow(t) \/ Recheck(t)
               \/ Yield(t) \/ Finish(t))
  /\ WF_vars(\E i \in open : Silence(i))
  /\ WF_vars(Reap)

FairSpec == Spec /\ Fairness

-----------------------------------------------------------------------------
(* Properties.                                                             *)

(* Two synchronisations of a kind never work at the same time              *)
(* (ingest.py:161-180): they would take the same selection.                *)
OneWorks == \A t, u \in Threads : pc[t] = "working" /\ pc[u] = "working" => t = u

(* The second look is enough as long as rows become visible in the order   *)
(* of their ids (actors.py:171-179).                                       *)
OneWorksInOrder == ~reordered => OneWorks

(* However a volley of messages interleaves, the giving way is not mutual: *)
(* unless somebody died, one of them does the work.                        *)
VolleyIsNotLost ==
  deaths = 0 /\ (\A t \in Threads : pc[t] = "done") => Threads = {} \/ completed # {}

(* actors.py:161-167: no run stays "in progress" in the UI for ever, not   *)
(* even that of a dead worker.                                             *)
RowsAreClosed == <>[](open = {})

-----------------------------------------------------------------------------
(* The inductive invariant of OneWorksInOrder: a run that works is older   *)
(* than every other that may still claim the work.                         *)
RowsAreTheirs ==
  /\ \A t, u \in Threads : id[t] # 0 /\ id[t] = id[u] => t = u
  /\ \A t \in Threads :
       /\ pc[t] \in {"committed", "working"} => id[t] \in Live
       /\ pc[t] = "inserted" => id[t] \notin open

VisibleInOrder ==
  \A t, u \in Threads :
    pc[t] \in {"committed", "working"} /\ pc[u] = "inserted" => id[t] < id[u]

OldestWorks ==
  \A t, u \in Threads :
    pc[t] = "working" /\ pc[u] \in Claiming /\ t # u => id[t] < id[u]

GuardInv == RowsAreTheirs /\ (~reordered => VisibleInOrder /\ OldestWorks)
=============================================================================
