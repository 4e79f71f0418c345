---------------------------- MODULE DetailFanout ----------------------------
(***************************************************************************)
(* One scrape run of queue/actors.py: a listing actor that fans out one    *)
(* detail_actor message per announcement, the Redis pending counter that   *)
(* the detail tasks decrement, and the three writers of                    *)
(* ScrapeRun.finished_at (the listing, the counter, the reaper of          *)
(* jobs/ingest.py).  Keys and messages of different runs share nothing, so *)
(* one run is modelled.                                                    *)
(*                                                                         *)
(* The queue is Dramatiq over Redis (queue/broker.py): delivery is at      *)
(* least once (the message of a dead worker process is handed out again),  *)
(* a failed attempt is retried a bounded number of times, messages older   *)
(* than a day are dropped, and Redis itself is not persistent.             *)
(***************************************************************************)
EXTENDS Integers, FiniteSets

CONSTANTS
  Annos,          \* announcements, one member per fan-out that can target it
  MaxRetries,     \* detail_actor: max_retries
  ListingRetries, \* listing/scan/ingest actor: max_retries
  SameRun,        \* TRUE: scan_actor and ingest_actor, whose run row is
                  \* created by the web handler and reused by a retry;
                  \* FALSE: listing_actor, reconcile_actor and
                  \* api_daily_actor, which insert a row per attempt
  Faults,         \* the kinds of fault of this instance
  MaxFaults,      \* bound: how many crashes and Redis losses may happen
  TimeLimit,      \* detail_actor: time_limit, in ticks of the clock
  StaleAfter,     \* _STALE_RUN_AFTER of jobs/ingest.py, in the same ticks
  NoKey           \* an absent Redis key

FaultKinds == {"crash", "redis", "interrupt", "late", "age", "send"}

ASSUME FanoutAssumption ==
  /\ IsFiniteSet(Annos)
  /\ MaxRetries \in Nat /\ ListingRetries \in Nat /\ MaxFaults \in Nat
  /\ SameRun \in BOOLEAN
  /\ Faults \subseteq FaultKinds
  /\ NoKey \notin Int

(* Ten minutes and a quarter of an hour.                                   *)
ASSUME PatienceAssumption ==
  /\ TimeLimit \in Nat /\ StaleAfter \in Nat
  /\ 0 < TimeLimit /\ TimeLimit < StaleAfter

VARIABLES
  pc,         \* where the listing actor is
  attempt,    \* retries its message has used
  targets,    \* announcements of the last fan-out (what _set_pending counted)
  toSend,     \* targets whose detail_actor message is not sent yet
  pending,    \* goszakup:run:<id>:pending
  total,      \* goszakup:run:<id>:total
  task,       \* detail_actor message of each announcement
  saved,      \* announcements whose details are committed
  skipped,    \* announcements dropped by detail_scope = 'watchlist'
  run,        \* the ScrapeRun row
  age,        \* ticks since the attempt in progress started
  resolved,   \* auxiliary: announcements whose task has done its DECR
  faults      \* crashes and Redis losses so far

listingVars == <<pc, attempt, targets, toSend>>
redisVars   == <<pending, total>>
dataVars    == <<saved, skipped>>
vars == <<pc, attempt, targets, toSend, pending, total, task, saved, skipped,
          run, age, resolved, faults>>

ListingPcs  == {"listing", "backoff", "count", "sending", "done", "dead"}
TaskStates  == {"none", "queued", "running", "decr", "closing", "clearing",
                "acking", "done", "dead"}
InFlight    == {"running", "decr", "closing", "clearing", "acking"}
Finishers   == {"none", "listing", "counter", "reaper"}

TypeOK ==
  /\ pc \in ListingPcs
  /\ attempt \in 0 .. ListingRetries
  /\ targets \subseteq Annos
  /\ toSend \subseteq targets
  /\ pending \in Int \cup {NoKey}
  /\ total \in Nat \cup {NoKey}
  /\ task \in [Annos -> [st : TaskStates, retries : 0 .. MaxRetries]]
  /\ saved \subseteq Annos
  /\ skipped \subseteq Annos
  /\ run \in [finishedBy : Finishers, clean : BOOLEAN, silent : 0 .. StaleAfter + 1]
  /\ age \in [Annos -> 0 .. TimeLimit]
  /\ resolved \subseteq Annos
  /\ faults \in 0 .. MaxFaults

Finished == run.finishedBy # "none"
RunIsStale == run.silent > StaleAfter
Attempts == {a \in Annos : task[a].st \in InFlight}

Init ==
  /\ pc = "listing" /\ attempt = 0
  /\ targets = {} /\ toSend = {}
  /\ pending = NoKey /\ total = NoKey
  /\ task = [a \in Annos |-> [st |-> "none", retries |-> 0]]
  /\ saved = {} /\ skipped = {}
  /\ run = [finishedBy |-> "none", clean |-> TRUE, silent |-> 0]
  /\ age = [a \in Annos |-> 0]
  /\ resolved = {}
  /\ faults = 0

-----------------------------------------------------------------------------
(* Writes to the ScrapeRun row.  silent counts the ticks since             *)
(* last_progress_at, clean stands for errors = 0.                          *)

TouchRun == run' = [run EXCEPT !.silent = 0]

\* Mutant: errors=1 is not written.
CountErrorForgotten == run' = [run EXCEPT !.silent = 0]

CountError == run' = [run EXCEPT !.silent = 0, !.clean = FALSE]

CloseRun(by) == run' = [run EXCEPT !.finishedBy = by]

(* _increment_run(errors=1) and then _close_run.                           *)
FailAndClose(by) ==
  run' = [finishedBy |-> by, clean |-> FALSE, silent |-> 0]

-----------------------------------------------------------------------------
(* The listing actor.                                                      *)

(* session.commit() and _touch_run every hundredth listed lot.             *)
ListingHeartbeat ==
  /\ pc = "listing"
  /\ run.silent > 0
  /\ TouchRun
  /\ UNCHANGED <<listingVars, redisVars, task, dataVars, resolved, faults, age>>

(* Dramatiq hands the message of a failed listing out again while it has   *)
(* retries left.  A listing_actor retry works on a run of its own, so for  *)
(* this run its producer is gone.                                          *)
RetryListing ==
  IF SameRun /\ attempt < ListingRetries
    THEN pc' = "backoff" /\ attempt' = attempt + 1
    ELSE pc' = "dead" /\ UNCHANGED attempt

(* The source raised: roll back, count the error, close the run, re-raise. *)
ListingFails ==
  /\ pc = "listing"
  /\ FailAndClose("listing")
  /\ RetryListing
  /\ UNCHANGED <<targets, toSend, redisVars, task, dataVars, resolved, faults, age>>

(* TimeLimitExceeded is not an Exception: the handler that closes the run  *)
(* does not see it.                                                        *)
ListingInterrupted ==
  /\ "interrupt" \in Faults
  /\ pc \in {"listing", "count", "sending"}
  /\ RetryListing
  /\ UNCHANGED <<targets, toSend, redisVars, task, dataVars, run, resolved, faults, age>>

ListingResumes ==
  /\ pc = "backoff"
  /\ pc' = "listing"
  /\ UNCHANGED <<attempt, targets, toSend, redisVars, task, dataVars, run,
                 resolved, faults, age>>

(* The walk is over: its announcements with new lots or changed statuses   *)
(* are the targets.  A retry walks again and may send an announcement of   *)
(* an earlier fan-out a second message; messages are all that counts here, *)
(* so that each fan-out has members of Annos of its own.                   *)
(* No targets (or listing_only): close at once.                            *)
ListingEnds(T) ==
  /\ pc = "listing"
  /\ T \subseteq {a \in Annos : task[a].st = "none"}
  /\ \/ /\ T = {}
        /\ pc' = "done"
        /\ run' = [run EXCEPT !.silent = 0, !.finishedBy = "listing"]
        /\ UNCHANGED <<targets, toSend>>
     \/ /\ T # {}
        /\ pc' = "count"
        /\ TouchRun
        /\ targets' = T
        /\ toSend' = T
  /\ UNCHANGED <<attempt, redisVars, task, dataVars, resolved, faults, age>>

(* _set_pending, before the first message is sent.                         *)
SetPending ==
  /\ pc = "count"
  /\ pc' = "sending"
  /\ pending' = Cardinality(targets)
  /\ total' = Cardinality(targets)
  /\ UNCHANGED <<attempt, targets, toSend, task, dataVars, run, resolved, faults, age>>

SendDetail(a) ==
  /\ pc = "sending"
  /\ a \in toSend
  /\ toSend' = toSend \ {a}
  /\ task' = [task EXCEPT ![a] = [st |-> "queued", retries |-> 0]]
  /\ pc' = IF toSend' = {} THEN "done" ELSE pc
  /\ UNCHANGED <<attempt, targets, redisVars, dataVars, run, resolved, faults, age>>

(* _set_pending or detail_actor.send raises (Redis is unreachable): the    *)
(* actor does not catch it.                                                *)
SendFails ==
  /\ "send" \in Faults
  /\ pc \in {"count", "sending"}
  /\ RetryListing
  /\ UNCHANGED <<targets, toSend, redisVars, task, dataVars, run, resolved, faults, age>>

-----------------------------------------------------------------------------
(* detail_actor.                                                           *)

Move(a, from, to) ==
  /\ task[a].st = from
  /\ task' = [task EXCEPT ![a].st = to]

(* An attempt is as old as the ticks since it started; where none is in    *)
(* progress the age is 0.                                                  *)
NoAttempt(S) == age' = [a \in Annos |-> IF a \in S THEN 0 ELSE age[a]]

(* The next attempt of a message, or its last one.                         *)
Requeue(a) ==
  /\ task' = [task EXCEPT ![a] =
               IF @.retries < MaxRetries
                 THEN [st |-> "queued", retries |-> @.retries + 1]
                 ELSE [@ EXCEPT !.st = "dead"]]
  /\ NoAttempt({a})

\* Mutant: no heartbeat at the start of an attempt.
StartDetailSilently(a) ==
  /\ Move(a, "queued", "running")
  /\ UNCHANGED <<listingVars, redisVars, dataVars, run, resolved, faults, age>>

(* The heartbeat comes first.                                              *)
StartDetail(a) ==
  /\ Move(a, "queued", "running")
  /\ TouchRun
  /\ UNCHANGED <<listingVars, redisVars, dataVars, resolved, faults, age>>

(* api_degraded (or an explicit scope) and no watchlist lot: no fetch.     *)
SkipDetail(a) ==
  /\ Move(a, "running", "decr")
  /\ skipped' = skipped \cup {a}
  /\ UNCHANGED <<listingVars, redisVars, saved, run, resolved, faults, age>>

(* Fetched, saved, committed, counted.                                     *)
SaveDetail(a) ==
  /\ Move(a, "running", "decr")
  /\ saved' = saved \cup {a}
  /\ TouchRun
  /\ UNCHANGED <<listingVars, redisVars, skipped, resolved, faults, age>>

(* An exception, before the commit of the details or after it (counting    *)
(* the run, choosing the watchlist lots): count the error; re-raise while  *)
(* retries remain, otherwise go on to the DECR.                            *)
DetailFails(a) ==
  /\ task[a].st = "running"
  /\ saved' \in {saved, saved \cup {a}}
  /\ CountError
  /\ IF task[a].retries < MaxRetries
       THEN Requeue(a)
       ELSE task' = [task EXCEPT ![a].st = "decr"] /\ UNCHANGED age
  /\ UNCHANGED <<listingVars, redisVars, skipped, resolved, faults>>

\* Mutant: the key is deleted together with the last DECR, before the run is
\* closed.
DecrementAndDelete(a) ==
  LET remaining == (IF pending = NoKey THEN 0 ELSE pending) - 1 IN
  /\ Move(a, "decr", IF remaining > 0 THEN "acking" ELSE "closing")
  /\ pending' = IF remaining > 0 THEN remaining ELSE NoKey
  /\ resolved' = resolved \cup {a}
  /\ UNCHANGED <<listingVars, total, dataVars, run, faults, age>>

\* Mutant: closes when one task remains.
DecrementOffByOne(a) ==
  LET remaining == (IF pending = NoKey THEN 0 ELSE pending) - 1 IN
  /\ Move(a, "decr", IF remaining > 1 THEN "acking" ELSE "closing")
  /\ pending' = remaining
  /\ resolved' = resolved \cup {a}
  /\ UNCHANGED <<listingVars, total, dataVars, run, faults, age>>

\* Mutant: only exactly zero closes the run and deletes the key.
DecrementToZeroOnly(a) ==
  LET remaining == (IF pending = NoKey THEN 0 ELSE pending) - 1 IN
  /\ Move(a, "decr", IF remaining # 0 THEN "acking" ELSE "closing")
  /\ pending' = remaining
  /\ resolved' = resolved \cup {a}
  /\ UNCHANGED <<listingVars, total, dataVars, run, faults, age>>

(* The first half of _decrement_pending_and_maybe_close.  Redis counts an  *)
(* absent key as 0.                                                        *)
Decrement(a) ==
  LET remaining == (IF pending = NoKey THEN 0 ELSE pending) - 1 IN
  /\ Move(a, "decr", IF remaining > 0 THEN "acking" ELSE "closing")
  /\ pending' = remaining
  /\ resolved' = resolved \cup {a}
  /\ UNCHANGED <<listingVars, total, dataVars, run, faults, age>>

CloseByCounter(a) ==
  /\ Move(a, "closing", "clearing")
  /\ CloseRun("counter")
  /\ UNCHANGED <<listingVars, redisVars, dataVars, resolved, faults, age>>

DeleteKey(a) ==
  /\ Move(a, "clearing", "acking")
  /\ pending' = NoKey
  /\ UNCHANGED <<listingVars, total, dataVars, run, resolved, faults, age>>

AckDetail(a) ==
  /\ Move(a, "acking", "done")
  /\ NoAttempt({a})
  /\ UNCHANGED <<listingVars, redisVars, dataVars, run, resolved, faults>>

(* An interrupt, or an exception outside the try block (analyze_actor.send,*)
(* r.decr, the closing session): no error is counted and the message is    *)
(* retried or dead-lettered where it stands.  An interrupt that comes      *)
(* late, when the DECR and what follows it are done and the actor has only *)
(* to return, has the whole attempt repeated.                              *)
DetailInterrupted(a) ==
  /\ \/ "interrupt" \in Faults /\ a \in Attempts /\ task[a].st # "acking"
     \/ "late" \in Faults /\ task[a].st = "acking"
  /\ Requeue(a)
  /\ UNCHANGED <<listingVars, redisVars, dataVars, run, resolved, faults>>

(* AgeLimit: a message that waited for a day is dropped.                   *)
DetailExpires(a) ==
  /\ "age" \in Faults
  /\ Move(a, "queued", "dead")
  /\ UNCHANGED <<listingVars, redisVars, dataVars, run, resolved, faults, age>>

-----------------------------------------------------------------------------
(* The environment: worker processes, Redis, time.                         *)

(* A worker process dies with the messages S its threads hold, and with    *)
(* the listing if it ran there; Redis hands all of them out again.  The    *)
(* redelivered listing_actor starts a run of its own.                      *)
WorkerCrash(S, listing) ==
  /\ "crash" \in Faults
  /\ faults < MaxFaults
  /\ faults' = faults + 1
  /\ S \subseteq Attempts
  /\ S # {} \/ listing
  /\ task' = [a \in Annos |-> IF a \in S THEN [task[a] EXCEPT !.st = "queued"]
                                         ELSE task[a]]
  /\ NoAttempt(S)
  /\ IF listing
       THEN /\ pc \in {"listing", "count", "sending"}
            /\ pc' = IF SameRun THEN "backoff" ELSE "dead"
       ELSE UNCHANGED pc
  /\ UNCHANGED <<attempt, targets, toSend, redisVars, dataVars, run, resolved>>

(* Redis restarts empty: counters and waiting messages are gone, attempts  *)
(* in progress live on in their workers.                                   *)
RedisLoss ==
  /\ "redis" \in Faults
  /\ faults < MaxFaults
  /\ faults' = faults + 1
  /\ pending' = NoKey
  /\ total' = NoKey
  /\ task' = [a \in Annos |-> IF task[a].st = "queued"
                                THEN [task[a] EXCEPT !.st = "dead"]
                                ELSE task[a]]
  /\ pc' = IF pc = "backoff" THEN "dead" ELSE pc
  /\ UNCHANGED <<attempt, targets, toSend, dataVars, run, resolved, age>>

(* Time passes.  Dramatiq interrupts an attempt at its time limit (if that *)
(* does not end it, DetailInterrupted does): no attempt grows older.  The  *)
(* listing has a limit of hours and its silence may outlast the reaper's   *)
(* patience.  The clock of a run matters until it is closed.               *)
Tick ==
  /\ ~Finished
  /\ ~RunIsStale
  /\ \A a \in Attempts : age[a] < TimeLimit
  /\ run' = [run EXCEPT !.silent = @ + 1]
  /\ age' = [a \in Annos |-> IF a \in Attempts THEN age[a] + 1 ELSE age[a]]
  /\ UNCHANGED <<listingVars, redisVars, task, dataVars, resolved, faults>>

\* Mutant: the reaper asks the Redis counter instead of the heartbeat alone.
CloseStaleRunByCounter ==
  /\ ~Finished
  /\ RunIsStale
  /\ pending # NoKey
  /\ CloseRun("reaper")
  /\ UNCHANGED <<listingVars, redisVars, task, dataVars, resolved, faults, age>>

(* close_stale_runs, hourly from expire_actor and on every page that shows *)
(* the active run.                                                         *)
CloseStaleRun ==
  /\ ~Finished
  /\ RunIsStale
  /\ CloseRun("reaper")
  /\ UNCHANGED <<listingVars, redisVars, task, dataVars, resolved, faults, age>>

-----------------------------------------------------------------------------
Listing == \/ ListingHeartbeat \/ ListingFails \/ ListingResumes
           \/ \E T \in SUBSET Annos : ListingEnds(T)
           \/ SetPending
           \/ \E a \in Annos : SendDetail(a)

Detail(a) == \/ StartDetail(a) \/ SkipDetail(a) \/ SaveDetail(a)
             \/ DetailFails(a) \/ Decrement(a) \/ CloseByCounter(a)
             \/ DeleteKey(a) \/ AckDetail(a)

Reaper == Tick \/ CloseStaleRun

Environment == \/ ListingInterrupted \/ SendFails \/ RedisLoss
               \/ \E a \in Annos : DetailInterrupted(a) \/ DetailExpires(a)
               \/ \E S \in SUBSET Annos, b \in BOOLEAN : WorkerCrash(S, b)

Next == Listing \/ (\E a \in Annos : Detail(a)) \/ Reaper \/ Environment

(* Workers take what is queued, attempts end (each has a time limit), the  *)
(* clock advances and the timer of expire_actor fires.  Nothing is assumed *)
(* of the faults, nor of which way an attempt ends.                        *)
Fairness ==
  /\ WF_vars(ListingResumes) /\ WF_vars(SetPending)
  /\ WF_vars(ListingFails \/ \E T \in SUBSET Annos : ListingEnds(T))
  /\ \A a \in Annos : WF_vars(SendDetail(a)) /\ WF_vars(Detail(a))
  /\ WF_vars(Tick) /\ WF_vars(CloseStaleRun)

Spec     == Init /\ [][Next]_vars
FairSpec == Spec /\ Fairness

-----------------------------------------------------------------------------
(* What the page of a run shows (run_progress): the phase, and how many of *)
(* its details are done.                                                   *)

AtLeast(n, low) == IF n < low THEN low ELSE n

Progress ==
  IF Finished THEN [phase |-> 2, done |-> 0]
  ELSE IF pending = NoKey \/ total = NoKey THEN [phase |-> 0, done |-> 0]
  ELSE [phase |-> 1, done |-> AtLeast(total - AtLeast(pending, 0), 0)]

-----------------------------------------------------------------------------
(* Properties.                                                             *)

(* "The pending counter determines the moment all detail tasks of this     *)
(* ScrapeRun are finished": when finished_at is written because the        *)
(* counter reached zero, every announcement of the fan-out has been sent   *)
(* and its task has come to its end.                                       *)
NoEarlyClose ==
  run.finishedBy = "counter" => toSend = {} /\ targets \subseteq resolved

(* sync_window takes a finished api-daily run with errors = 0 for a        *)
(* success and moves its watermark.  So if the counter closed a run that   *)
(* counted no error, the details of every announcement are in the database *)
(* or were left out on purpose.                                            *)
CleanRunIsComplete ==
  run.finishedBy = "counter" /\ run.clean => targets \subseteq saved \cup skipped

(* The progress shown for a run never goes back: listing, then details     *)
(* with a count that only grows, then done.  In particular the key is not  *)
(* removed before finished_at is committed.                                *)
ProgressForward ==
  [][ /\ Progress'.phase >= Progress.phase
      /\ Progress'.phase = Progress.phase => Progress'.done >= Progress.done ]_vars

(* Once every detail message that was sent is acknowledged, no counter key *)
(* is left in Redis, whatever was delivered twice and however often the    *)
(* listing fanned out.                                                     *)
KeyIsCleanedUp ==
  (/\ pc = "done" /\ targets # {} /\ toSend = {}
   /\ \A a \in Annos : task[a].st \in {"none", "done"}) => pending = NoKey

(* The reaper never takes a run for dead while a worker holds one of its   *)
(* detail messages: an attempt touches the run when it starts and must be  *)
(* over before _STALE_RUN_AFTER has passed, however many other attempts    *)
(* touched the run, failed or died meanwhile.                              *)
ReaperSparesAttempts == RunIsStale => Attempts = {}

(* Every run is finished in the end, also when the counter, the queue or   *)
(* a worker was lost on the way.                                           *)
RunIsFinished == <>Finished

(* The counter implements the barrier.                                     *)
Barrier == INSTANCE RunBarrier WITH
             launched    <- total # NoKey,
             outstanding <- IF total = NoKey THEN {} ELSE targets \ resolved,
             finishedBy  <- run.finishedBy

ImplementsBarrier == Barrier!BarrierSpec

-----------------------------------------------------------------------------
(* Why the counter is exact while no message is handled twice.             *)

(* Faults that only lose a DECR: they can delay a close, never hasten it.  *)
Exact == /\ ~SameRun
         /\ Faults \subseteq {"interrupt", "age", "send"}

Launched == total # NoKey

BeforeLaunch ==
  /\ pc \in {"listing", "backoff", "count"} => ~Launched
  /\ pc = "sending" => Launched
  /\ pc = "count" => targets # {}
  /\ ~Launched => /\ pending = NoKey
                  /\ resolved = {}
                  /\ run.finishedBy # "counter"
                  /\ \A a \in Annos : task[a].st = "none"

(* The key holds the number of unresolved targets, and it goes away only   *)
(* when there are none.                                                    *)
CounterIsExact ==
  Launched =>
    \/ targets \subseteq resolved /\ (pending # NoKey => pending <= 0)
    \/ pending # NoKey /\ pending = Cardinality(targets \ resolved)

TasksAccounted ==
  /\ resolved \subseteq targets \ toSend
  /\ \A a \in Annos :
       /\ task[a].st # "none" => a \in targets \ toSend
       /\ task[a].st \in {"acking", "done"} => a \in resolved
       /\ task[a].st \in {"closing", "clearing"} => targets \subseteq resolved
       /\ task[a].st \in {"queued", "running", "decr"} /\ a \in resolved
            => targets \subseteq resolved

ClosedWhenResolved == run.finishedBy = "counter" => targets \subseteq resolved

(* A task reaches its DECR with its details saved or skipped, or with an   *)
(* error counted.                                                          *)
CleanTasksDidWork ==
  run.clean =>
    \A a \in Annos : task[a].st = "decr" \/ a \in resolved => a \in saved \cup skipped

(* The inductive invariant behind NoEarlyClose, CleanRunIsComplete and the *)
(* refinement of RunBarrier, for the code of _decrement_pending_and_maybe_ *)
(* close and its callers.                                                  *)
FanoutInv == /\ BeforeLaunch /\ CounterIsExact /\ TasksAccounted
             /\ ClosedWhenResolved /\ CleanTasksDidWork

(* Behind ReaperSparesAttempts: the run was touched after every attempt in *)
(* progress started.                                                       *)
AttemptsTouched == \A a \in Attempts : run.silent <= age[a]

==============================================================================
