----------------------------- MODULE SyncWindow -----------------------------
(***************************************************************************)
(* The incremental synchronisation of contracts: contracts_sync_actor asks *)
(* the OWS source for what changed since its watermark, the start of the   *)
(* last successful run tagged "contracts-sync" in scrape_runs              *)
(* (jobs/incremental.py).  One message of the actor works at a time; what  *)
(* a second one leaves in scrape_runs when it finds the first at work is a *)
(* step of its own here (YieldingDuplicate).  SyncGuard models how it is   *)
(* found.                                                                  *)
(***************************************************************************)
EXTENDS Naturals, FiniteSetsExt

CONSTANTS
  N,         \* contracts of the source are 1 .. N, in the order of its pages
  PageSize,  \* contracts of a page, and of a commit (200 in the code)
  Margin,    \* WINDOW_MARGIN (1 hour)
  FirstSpan, \* FIRST_RUN_SPAN (48 hours)
  MaxSpan,   \* MAX_SPAN (7 days)
  Days,      \* the days_back a run may be asked for by hand (contracts-sync --days)
  Stale,     \* _STALE_RUN_AFTER (15 minutes)
  Skew,      \* bound: how far the clock of the source lags behind
  Start,     \* the time of the first run
  MaxTime,   \* bound: time
  MaxRuns,   \* bound: rows of scrape_runs
  Faults,    \* what may go wrong: a subset of {"ows", "other", "death", "duplicate"}
  MaxFaults  \* bound: how often

ASSUME SyncWindowAssumption ==
  /\ N \in Nat \ {0} /\ PageSize \in Nat \ {0}
  /\ Margin \in Nat /\ FirstSpan \in Nat /\ MaxSpan \in Nat /\ Days \subseteq Nat
  /\ Stale \in Nat /\ Skew \in Nat
  /\ Start \in Nat /\ FirstSpan <= Start /\ Margin <= Start
  /\ MaxTime \in Nat /\ Start <= MaxTime /\ MaxRuns \in Nat /\ MaxFaults \in Nat
  /\ Faults \subseteq {"ows", "other", "death", "duplicate"}

VARIABLES
  now,     \* time
  changed, \* source: when each contract last changed, by its clock; 0: never
  stored,  \* contracts table: the change of the source each row reflects
  runs,    \* scrape_runs: the rows with this note
  pc,      \* where the actor is
  run,     \* the id of its row
  window,  \* its (dt_from, dt_to), clamped; byHand: from days_back
  after,   \* the last contract of the pages it has fetched
  faults,  \* faults so far
  lost,    \* auxiliary: changes before this time were given up by the ceiling
  skipped, \* auxiliary: a success by hand began here, after the window that was due
  masked   \* auxiliary: a run that did not finish its walk was closed as a success

vars == <<now, changed, stored, runs, pc, run, window, after, faults, lost, skipped, masked>>

Contracts == 1 .. N
Time == 0 .. MaxTime
NoWindow == [from |-> 0, to |-> 0, clamped |-> FALSE, byHand |-> FALSE]

Windows == [from : Time, to : Time, clamped : BOOLEAN, byHand : BOOLEAN]

(* open: finished_at is NULL; ok, failed: closed, errors is 0 or not.      *)
Runs == [id : 1 .. MaxRuns, started : Time, progress : Time,
         state : {"open", "ok", "failed"}]

TypeOK ==
  /\ now \in Time
  /\ changed \in [Contracts -> Time]
  /\ stored \in [Contracts -> Time]
  /\ \A c \in Contracts : stored[c] <= changed[c] /\ changed[c] <= now
  /\ runs \subseteq Runs
  /\ \A r \in runs : r.started <= r.progress /\ r.progress <= now
  /\ \A r, q \in runs : r.id = q.id => r = q
  /\ pc \in {"idle", "asked", "walking"}
  /\ run \in 0 .. MaxRuns
  /\ pc = "walking" => \E r \in runs : r.id = run /\ r.state = "open" /\ window.to <= r.started
  /\ window \in Windows
  /\ window.from <= window.to /\ window.to <= now
  /\ after \in 0 .. N
  /\ faults \in 0 .. MaxFaults
  /\ lost \in Time
  /\ skipped \in Time
  /\ masked \in BOOLEAN

Init ==
  /\ now = Start
  /\ changed \in [Contracts -> {0, Start}]
  /\ stored = [c \in Contracts |-> 0]
  /\ runs = {} /\ pc = "idle" /\ run = 0 /\ window = NoWindow /\ after = 0
  /\ faults = 0 /\ lost = 0 /\ skipped = 0 /\ masked = FALSE

Fault(f) ==
  /\ f \in Faults
  /\ faults < MaxFaults
  /\ faults' = faults + 1

-----------------------------------------------------------------------------
(* External: time, and contracts that change.                              *)

Row(i) == CHOOSE r \in runs : r.id = i

(* A page, and the work between two statements, take less than the silence *)
(* that would have the run closed.                                         *)
Tick ==
  /\ now < MaxTime
  /\ pc = "asked" => now < window.to + Stale
  /\ pc = "walking" => now < Row(run).progress + Stale
  /\ now' = now + 1
  /\ UNCHANGED <<changed, stored, runs, pc, run, window, after, faults, lost, skipped, masked>>

Change(c) ==
  /\ \E t \in {s \in Time : s <= now /\ now <= s + Skew} :
       /\ t > changed[c]
       /\ changed' = [changed EXCEPT ![c] = t]
  /\ UNCHANGED <<now, stored, runs, pc, run, window, after, faults, lost, skipped, masked>>

-----------------------------------------------------------------------------
(* The window.                                                             *)

(* last_success_started_at: the latest start of a run that finished with   *)
(* no errors.                                                              *)
Successes == {r \in runs : r.state = "ok"}

LastSuccess == Max({r.started : r \in Successes})

Window(from, t, clamped) == [from |-> from, to |-> t, clamped |-> clamped, byHand |-> FALSE]

(* Mutant: the margin is forgotten.                                         *)
WindowWithoutMargin(t) ==
  IF Successes = {} THEN Window(t - FirstSpan, t, FALSE)
  ELSE IF LastSuccess + MaxSpan < t THEN Window(t - MaxSpan, t, TRUE)
  ELSE Window(LastSuccess, t, FALSE)

(* Where the next window will begin, the ceiling aside.                    *)
NextFrom == IF LastSuccess > Margin THEN LastSuccess - Margin ELSE 0

(* sync_window at time t: (from, to, clamped).                             *)
SyncWindowAt(t) ==
  IF Successes = {} THEN Window(t - FirstSpan, t, FALSE)
  ELSE IF LastSuccess + MaxSpan < t + Margin THEN Window(t - MaxSpan, t, TRUE)
  ELSE Window(NextFrom, t, FALSE)

-----------------------------------------------------------------------------
(* contracts_sync_actor.                                                   *)

NextId == 1 + Max({0} \cup {r.id : r \in runs})

Live(r) == r.state = "open" /\ now <= r.progress + Stale

WithRow(r) == {q \in runs : q.id # r.id} \cup {r}

CloseRow(i, state) == WithRow([Row(i) EXCEPT !.state = state])

(* close_stale_runs, hourly or from a page of the UI: finished_at is set,  *)
(* errors stays as it was.                                                 *)
Reap(r) ==
  /\ r.state = "open" /\ ~Live(r)
  /\ runs' = CloseRow(r.id, "ok")
  /\ masked' = TRUE
  /\ UNCHANGED <<now, changed, stored, pc, run, window, after, faults, lost, skipped>>

(* No run of this kind is live (active_run_of_kind).                       *)
MayAsk ==
  /\ pc = "idle"
  /\ NextId <= MaxRuns
  /\ ~ \E r \in runs : Live(r)

(* The window is computed.  What the 7-day ceiling cuts off is given up,   *)
(* with a warning.                                                         *)
Ask ==
  /\ MayAsk
  /\ pc' = "asked"
  /\ window' = SyncWindowAt(now)
  /\ lost' = IF window'.clamped \/ Successes = {} THEN Max({lost, window'.from}) ELSE lost
  /\ UNCHANGED <<now, changed, stored, runs, run, after, faults, skipped, masked>>

(* A run by hand: the days it was asked for, in a row with the same note.  *)
AskByHand(days_back) ==
  /\ MayAsk
  /\ days_back <= now
  /\ pc' = "asked"
  /\ window' = [from |-> now - days_back, to |-> now, clamped |-> FALSE, byHand |-> TRUE]
  /\ UNCHANGED <<now, changed, stored, runs, run, after, faults, lost, skipped, masked>>

NewRow == [id |-> NextId, started |-> now, progress |-> now, state |-> "open"]

(* _sync_run: the row of the run.                                          *)
Insert ==
  /\ pc = "asked"
  /\ pc' = "walking"
  /\ runs' = runs \cup {NewRow}
  /\ run' = NextId
  /\ after' = 0
  /\ UNCHANGED <<now, changed, stored, window, faults, lost, skipped, masked>>

InWindow(c) == window.from <= changed[c] /\ changed[c] <= window.to

(* Mutant: the pages are counted in the result, as with an offset, instead *)
(* of by the id of the last contract.                                      *)
ToComeByOffset ==
  {c \in Contracts : InWindow(c) /\ Cardinality({d \in 1 .. c - 1 : InWindow(d)}) >= after}

(* The contracts the source has in the window, after the cursor.           *)
ToCome == {c \in Contracts : c > after /\ InWindow(c)}

NextPage == {c \in ToCome : Cardinality({d \in ToCome : d < c}) < PageSize}

(* A page of the source, written and committed; the heartbeat.             *)
Page ==
  /\ pc = "walking"
  /\ ToCome # {}
  /\ stored' = [c \in Contracts |-> IF c \in NextPage THEN changed[c] ELSE stored[c]]
  /\ after' = Max(NextPage)
  /\ runs' = WithRow([Row(run) EXCEPT !.progress = now])
  /\ UNCHANGED <<now, changed, pc, run, window, faults, lost, skipped, masked>>

Leaves == pc' = "idle" /\ run' = 0 /\ window' = NoWindow /\ after' = 0

Close(state) ==
  /\ pc = "walking"
  /\ runs' = CloseRow(run, state)
  /\ Leaves
  /\ UNCHANGED <<now, changed, stored, lost>>

(* A run by hand whose window begins after the one that was due.           *)
Leaps == window.byHand /\ (Successes = {} \/ window.from > NextFrom)

(* The walk is over: the finally of _sync_run closes the run, and the next *)
(* window begins at its start.                                             *)
Done ==
  /\ ToCome = {}
  /\ Close("ok")
  /\ skipped' = IF Leaps THEN Max({skipped, window.from}) ELSE skipped
  /\ UNCHANGED <<faults, masked>>

(* OwsApiError: errors is incremented, then the run is closed.             *)
OwsFails == Close("failed") /\ Fault("ows") /\ UNCHANGED <<skipped, masked>>

(* TimeLimitExceeded, or any other exception: the finally of _sync_run     *)
(* closes the run, and nothing counts an error.                            *)
OtherFails == Close("ok") /\ Fault("other") /\ masked' = TRUE /\ UNCHANGED skipped

(* The worker dies: the row stays open.                                    *)
Dies ==
  /\ pc # "idle"
  /\ Fault("death")
  /\ Leaves
  /\ UNCHANGED <<now, changed, stored, runs, lost, skipped, masked>>

(* A second message that passed the first check before the row of this run *)
(* was visible: it inserts a row, finds the older run and closes its own.  *)
YieldingDuplicate ==
  /\ pc = "walking"
  /\ NextId <= MaxRuns
  /\ Fault("duplicate")
  /\ runs' = runs \cup {[NewRow EXCEPT !.state = "ok"]}
  /\ masked' = TRUE
  /\ UNCHANGED <<now, changed, stored, pc, run, window, after, lost, skipped>>

Next == \/ Tick
        \/ \E c \in Contracts : Change(c)
        \/ \E r \in runs : Reap(r)
        \/ \E d \in Days : AskByHand(d)
        \/ Ask \/ Insert \/ Page \/ Done
        \/ OwsFails \/ OtherFails \/ Dies \/ YieldingDuplicate

Spec == Init /\ [][Next]_vars

-----------------------------------------------------------------------------
(* Properties.                                                             *)

(* incremental.py:3-4, actors.py:238-239: a change that no later window    *)
(* will ask for is in the table, unless the first window or the ceiling    *)
(* gave it up.  The margin has to absorb the clock of the source and the   *)
(* time between the end of the window and the start of the run.            *)
Behind(c) == Successes # {} /\ lost <= changed[c] /\ changed[c] < NextFrom

NothingFallsBehind == \A c \in Contracts : Behind(c) => stored[c] = changed[c]

(* It holds as long as only failures of OWS end a run: they are the ones   *)
(* that are counted, so that the next window begins where theirs did.  And *)
(* for what a success by hand did not leap over: days_back may be less     *)
(* than the time since the last success, and the run becomes the watermark *)
(* all the same.                                                           *)
CountedFailuresLoseNothing ==
  ~masked => \A c \in Contracts : Behind(c) /\ skipped <= changed[c] => stored[c] = changed[c]

(* A walk that reaches the end of the source has brought everything that   *)
(* was in its window when it began and still is, whatever changed, and so  *)
(* left the window, under its pages.                                       *)
WalkIsComplete ==
  [][pc = "walking" /\ pc' = "idle" /\ faults' = faults =>
       \A c \in Contracts :
         window.from <= changed[c] /\ changed[c] + Skew < window.to
           => stored[c] = changed[c]]_vars
=============================================================================
