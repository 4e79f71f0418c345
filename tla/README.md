# goszakup: TLA+ models, checks and proofs

`goszakup` watches the procurement portal goszakup.gov.kz. It scrapes or fetches lots,
contracts, bids and procurement plans into one database, classifies the lots and matches
them with the queries of its users, notifies them, and submits bids automatically
through an agent on a Windows machine. The work is done by Dramatiq actors over Redis;
a FastAPI application, a Telegram bot and systemd timers send the messages.

This directory models the parts of the program whose correctness depends on order: what
two workers do at the same time, what a crash leaves behind, what a message delivered
twice or late does. Every definition is translated from the code named for it in
`PROJECT.json` (`map`); where a property quotes a promise, its comment names the file and
line of the promise.

    tlc -workers 2 -config MCSyncGuard_volley.cfg MCSyncGuard
    tlapm SyncGuard_proofs.tla

## 1. The system

| Component | Code (`src/src/goszakup` unless said otherwise) | State it keeps | Operations | Interacts with |
|---|---|---|---|---|
| Fan-out of a run | `queue/actors.py`, `jobs/ingest.py` | `scrape_runs` row, Redis keys `goszakup:run:<id>:pending/total`, queue `details` | listing/scan/ingest/reconcile/api-daily actors, `detail_actor`, `_set_pending`, `_decrement_pending_and_maybe_close`, `close_stale_runs`, `run_progress` | lots, analysis, matching (messages), the UI (reads the row and the keys) |
| Guard of the synchronisations | `queue/actors.py` `_sync_run`, `_skip_duplicate`; `jobs/ingest.py` | `scrape_runs` rows tagged by `note` | check, insert, check again, close | contracts, bids and plans actors; the reaper |
| Contracts synchronisation | `jobs/incremental.py`, `jobs/contracts.py` | `contracts`, the window | `sync_window`, paging, upsert and commit per page | OWS API, `scrape_runs` as the watermark |
| Plan synchronisation | `jobs/plans.py` | `plan_points` by `root_id` | daily walk, backfill, upsert, commit with rollback | OWS API, `link_lots`, plan notifications |
| Bids synchronisation | `jobs/bids.py` | bids, `bids_synced_at` | select, upsert, winner, recount | OWS API, announcements |
| Automatic submission | `autosubmit/`, `queue/autosubmit.py` | `submissions` row | dispatch tick, `apply_result` | submit agent over HTTP in both directions |
| Submit agent | `src/agent` | `_active` in memory, one thread per run | `POST /run`, wait for `open_at`, wizard, report | the portal, the web application |
| Listing and details | `jobs/run_preset.py`, `jobs/scan.py`, `jobs/daily.py`, `scraper/documents.py` | announcements, lots, documents, files | walk pages, upsert from listing, apply details, download | fan-out, organisations |
| Expiry, reconciliation, retention | `jobs/expire.py`, `reconcile.py`, `retention.py` | statuses, stubs, files | hourly and nightly sweeps | fan-out |
| Matching | `queue/matching.py`, `classify/matcher.py`, `jobs/match.py`, editor in `web/app.py` | `user_queries.version`, `user_lot_matches` | match, edit, rematch, drop stale | LLM, notifications |
| Notifications | `queue/notify.py`, `jobs/plan_notify.py`, `notify/` | `notified_at` | check, send, mark | Telegram |
| Lot analysis | `classify/llm.py` and neighbours | `lot_analyses` | analyse and save | LLM, matching |
| OWS client | `api/client.py` | page cache and lock in Redis | `iter_graphql`, retries | all synchronisations |
| Rate limit | `queue/rate_limit.py` | one slot in Redis | acquire, release | OWS client, scraper |
| Sources and degradation | `sources.py` | `api_degraded` and a fallback counter in Redis | choose source, fall back per page, mark degraded | listing, details, health check |
| Watchlist, scope, pre-filter | `watchlist.py`, `scope.py`, `prefilter.py` | a one-minute cache | predicate in SQL and Python | details, catch-up, matching |
| Health check | `jobs/health.py` | cooldown keys in Redis | probe, alert | Telegram |
| Runs started by hand | `jobs/scan.py`, `web/app.py`, `jobs/ingest.py` | `scrape_runs` | look for an open run, insert, send | fan-out, reaper |
| Organisations | `jobs/run_preset.py` `_get_or_create_org` | `organizations` | look by BIN, by name, insert | every job, in its own transaction |
| Supplier pages | `orgs.py`, `jobs/supplier_*.py` | none of their own | role, report, card, contacts | bids, contracts, details |
| Plan pages | `jobs/plan_report.py`, `scope.py`, `web/app.py` | none of their own | conditions, totals, months, card, dashboard | plan synchronisation, notifications |
| Accounts and roles | `web/app.py` `/users`, `/roles` | `users`, `roles` | create, edit, delete | every page |
| Rule tables, scraper pages, other reports, vault, command line, schema | `classify/rules.py` ..., `scraper/`, `jobs/*report.py`, `vault/`, `cli.py`, `db/` | none of their own | data conversion | everything |

What is hard in it:

* **Concurrency.** A worker host runs two processes of four threads. Any two actors, any
  two messages of one actor, and the event loop of the web application interleave at
  every database commit, Redis call and HTTP call. Sessions neither flush nor expire on
  their own (`db/engine.py`), so a row read before a call is written back after it as it was.
* **Delivery.** Dramatiq delivers at least once: the message of a dead worker is handed out
  again. A failed attempt is retried a bounded number of times; `TimeLimitExceeded` and
  `Shutdown` are not `Exception`s and pass the handlers by; messages older than a day are
  dropped; Redis is not persistent.
* **Watermarks.** Three different ones decide what is never fetched again: the start of the
  last successful run (contracts), `max(point_id)` (plans), `bids_synced_at` (bids).
* **Time.** Timers fire hourly and daily over the same rows; the reaper decides by silence.

## 2. What makes each component correct

* Fan-out: a run is closed in the name of its counter only when all its details are over; a
  run closed with `errors = 0` is complete; every run is closed; the reaper spares living runs.
* Guard: one synchronisation of a kind works at a time; a volley of messages is not lost;
  no row stays open. Runs started by hand: one works at a time.
* Contracts: a change is in the table before the windows have moved past it.
* Plans: nothing below the watermark is missing; a newer version is never replaced.
* Automatic submission: one bid. Nothing is posted again unless the dispatcher knows that
  it was refused; the final POST is sent once; a terminal status is final; a submission is
  not forgotten.
* Listing: a walk that ends has met every lot that stayed listed. Lots: the columns of a
  row tell one status however walks overlap; a change reaches the details; a stub is completed.
* Matching: what a row claims to be computed from is what it was computed from, and a lot a
  query asks for is matched in the end. Notifications: one message per match and per plan
  point, and none forgotten.
* Analysis: what is said of a lot was said of its text or of one like it.
* Bids: every announcement gets its turn; zero means that nobody applied.
* Suppliers, lists and pages: two programs over the same rows say the same.
* Plan pages: figures asked for in several statements fit each other; a link leads to what it names.
* Documents: the file behind a row is the whole document of that row.
* Rate limit and page cache: the pause between requests; pages shared, not lost.
* Watchlist cache, alerts: nothing older than its time to live; no silence without a message.
* Organisations, accounts: a row stands for one BIN; somebody can administer, a role stays
  what it was.

`PROJECT.json` lists under `hazards` where in the code each of these can go wrong, and which
property would notice.

## 3. The modules

| Module | Models | State in the model and in the code |
|---|---|---|
| `RunBarrier` | the abstract promise of the pending counter: a barrier over a set of tasks | `outstanding`: tasks not over; `finishedBy`: who wrote `finished_at` |
| `DetailFanout` | one run: the listing actor, its `detail_actor` messages, the counter, the reaper | `pc, attempt, targets, toSend`: the listing actor and its message; `pending, total`: Redis keys; `task`: each detail message with its place in `detail_actor`; `run`: `finished_at` with its writer, `errors = 0`, the ticks since `last_progress_at`; `age`: the ticks an attempt has lasted |
| `Autosubmit` | dispatcher ticks, the HTTP call, the agent, its report, the ingest | `status, attempts`: the row; `tick`: the loop over `candidate_ids`; `requests, acks, reports`: HTTP under way; `active, stage`: `_active` and the thread of the agent; `phase`: the clock against `open_at` and `close_at` |
| `FinalPost` | the last POST of a submission by `fire()` or by the browser | `at, left`: the client; `wire`: POSTs under way; `handled, reply`: how many the portal handled, and its last answer by what the clients look at (the status code, an explicit error) and by what they cannot see (the bid is placed); `outcome`: `RunResult.status` |
| `PlanSync` | the plan at the source, daily walk and backfill | `source`: versions in the order of their ids, each with its root; `stored`: `PlanPoint.point_id` by root; `cursor, page`: `iter_graphql`; `staged, inserts, clash`: the session |
| `SyncWindow` | the contracts walk and its watermark | `changed`: `last_update_date` at the source; `stored`; `runs`: rows of `scrape_runs`; `window, after`: the query, from the watermark or from the `days_back` of a run by hand, and its cursor |
| `SyncGuard` | `_sync_run` under concurrent messages of one kind | `id, open, quiet`: rows of `scrape_runs`, visible once committed, stale after 15 minutes |
| `Crawl` | the slot of `queue/rate_limit.py` and the request loop around it | `slotTtl`: the Redis key; `phase, stay, attempt`: a request; `rest`: ticks since the source was last busy |
| `Listing` | a walk over a listing: API pages by cursor, shared through the cache and its lock, then HTML by page number | `cache, fetchLock`: Redis; `walk`: cursor, page, lots yielded; `listed`: the portal |
| `Lots` | `_upsert_lot_from_listing` by overlapping walks, details, expiry, reconciliation | `lot, anno`: committed rows; `stagedLots`: what a session has flushed and so locked; `walk`: the loop with `on_new`, `on_status_change`; `details`: messages |
| `Matching` | one query: the editor, backfill, fan-out, `match_actor` | `query`, `row`: `user_queries`, `user_lot_matches`; `editor, work`: what a request or a task has read, and what an uncommitted edit deletes; `queue`: messages |
| `Notify` | `match_actor` with its early returns, retries and redeliveries, `notify_actor`, `explain_actor`, the webhook | `match, marked`: `matched`, `notified_at`; `wanted`: the query is on and passes the lot; `matchTask`: the task of a pair and an analysis, with its place and retries; `notifyTasks`: messages by retry; `lapse`: why nobody may be on the way |
| `PlanNotify` | `plan_notify_actor` over the queries with the toggle on | `recorded`: rows of told points; `passing`: a pass with its candidates |
| `Watch` | the cache of `watchlist_rules` in each process | `returned`: what a reader got, and when; versions of the tables |
| `Alerts` | the hourly health check, its cooldown keys, the flag of `sources.py` | `cooldown, fallbacks, flagUntil`: Redis; `outbox`: messages of this check |
| `AdhocRuns` | runs started by a button, reaped, retried | `runRow`; `asking`: a request between check and insert; `message` |
| `Access` | `/users` and `/roles` | `accounts, roles`; `form`: a request between its reads and its commit |
| `Registry` | `_get_or_create_org` in concurrent transactions | `orgs`, and each session's rows, locks and savepoint |
| `Bids` | the daily poll of applications | `ours, bidRow, bidsCount, winner, syncedAt`: rows; `poll`: the loop; `portalBids, award`: the portal |
| `Analysis` | `analyze_and_save` by actor, button and `reanalyze` | `papers`: `documents` with `sha256` and the cached `text_simhash`; `brief`: `lot_analyses` by column group; `call, batch`: what a session has read, and the simhashes and marks it has flushed; `paid, booked`: answers and `llm_calls` |
| `Suppliers` | winner, bids and contracts of lots, and their four readers | `lotWinner, contract, orgs, stamped`: rows; `bid`: rows of `lot_bids` by application, of which a supplier may have several for one lot; readers are operators |
| `PlanPages` | `/plans`, the plan on the card of an organization, the plan on the dashboard, over a table that `plans-sync` changes | `plan`: the columns of `plan_points` the pages filter and sum, with NULLs; `today`; `view`: the statements a page has asked; `shown`: its figures |
| `Storefront` | one lot, one client, one query: scope, pre-filter and watchlist condition in SQL and in Python | `lotCols` with NULLs, `client`, `watched`; SQL conditions are three-valued |
| `Documents` | `_save_documents`, `download_document`, retention | `docRow`; `file, part`: the directory; `fetch, pass`: sessions |
| `Notices` | `Notify` and `PlanNotify` together: one promise about both kinds of messages | |
| `DetailFanout_proofs`, `Autosubmit_proofs`, `PlanSync_proofs`, `SyncGuard_proofs`, `SyncWindow_proofs` | theorems about the module of the same name | |
| `Workers_proofs` | theorems about `Watch`, `Notify`, `PlanNotify`, `Alerts`, `Crawl`, `Listing` | |
| `Sessions_proofs` | theorems about `AdhocRuns`, `Access`, `Registry` | |
| `Market_proofs` | theorems about `Storefront`, `Lots`, `Documents`, `Bids`, `Matching`, `Analysis`, `Suppliers`, `PlanPages`, `FinalPost` | |
| `MC*` | instances for TLC: values, bounds, symmetry, the sets of faults | |

`DetailFanout` instantiates `RunBarrier` with a refinement mapping (`Barrier`): outstanding
are the targets whose task has not done its `DECR`.

One action stands for one step between two points where another process can look: a commit, a flush
that takes a lock, a Redis command, an HTTP call. So `detail_actor` is `StartDetail` (heartbeat),
`SaveDetail` / `SkipDetail` / `DetailFails` (the body to its commit), `Decrement` (`DECR`),
`CloseByCounter` (the commit of `finished_at`), `DeleteKey`, `AckDetail`; `match_actor` is
`MatchStarts` (its reads), the LLM, `SaveMatch`. A row lock makes a longer step atomic: `Claim` is
everything from `SELECT ... FOR UPDATE SKIP LOCKED` to the commit of `DISPATCHING`. An ORM session
writes the attributes that differ from what it read, not the row; where this matters (`Lots`,
`Analysis`, `Access`, `Matching`) the write is modelled so. Auxiliary variables (`resolved`,
`refused`, `trouble`, `masked`, `reordered`, `owes`, `overtaken`, `excuse`, `excused`, `lapse`,
`skipped`, `marred`, `mixed`, `crossed`, the fault counters) record history for the properties and
guard nothing in the program's steps; counters with a `Max` bound in the CONSTANTS limit the
environment.

In most modules an operator preceded by the comment "Mutant" is a broken form of the
definition that follows. It is no part of `Next`; substituted for that definition it makes a
named property fail (`mutants` in `PROJECT.json`), which shows that the property can.

**The two harnesses.** `MCServices` and `MCMarket` check many components in one run each. A
variable `component` is chosen in the initial state; only that component moves, the others
stay in one initial state. The components of a harness share no variable, so that every
interleaving of two of them would show nothing that each does not show by itself: the state
space is the sum and not the product. What components do share in the program (a row of a
lot, a message) is inside the module that models the races over it, as an input of the
others: `Matching` takes analyses, `Suppliers` bids and contracts, `Storefront` whatever a
listing or the details may write.

## 4. The runs

Every run ends in less than four minutes on two cores.

| Run | Instance | Shows |
|---|---|---|
| `fanout_faults` | two announcements, any fault, a run row reused by a retry of `scan_actor`; fairness | the run is finished in the end, its key is cleaned up, the reaper, whose patience exceeds the limit of an attempt, spares a detail in progress |
| `fanout_early` (violated) | two announcements, one crash | a redelivered detail decrements again, `finished_at` is early |
| `autosubmit_dispatch` | one submission, two overlapping ticks, two deaths; fairness | exclusive claim, licensed redispatch, one run per life of the agent, `PLANNED` is left |
| `autosubmit_terminal` (violated) | one submission, one tick, no fault | the dispatcher overwrites a terminal status |
| `autosubmit_report` (violated) | one submission, no death, a report that is lost; fairness | `ARMED` is for ever |
| `plans_cut` (violated) | one cut of a daily walk | the watermark passes versions that were not stored |
| `window_walk` | two contracts, pages of one, three runs, by hand or not, two faults of any kind | a finished walk is complete; counted failures lose nothing that no run by hand has leapt over |
| `window_exception` (violated) | one exception that is not `OwsApiError` | the window moves past what was not read |
| `guard_volley` | three messages, two deaths; fairness | one works unless rows became visible out of order; the volley is not lost; rows are closed |
| `guard_postgres` (violated) | two messages | both work |
| `services` | `PlanSync` (daily walk or backfill), `Crawl`, `Listing`, `Notify`, `PlanNotify`, `Watch`, `Alerts`, `AdhocRuns`, `Access`, `Registry`, `PlanPages` | see below |
| `market` | `DetailFanout` (three announcements, one retry, faults that only lose a `DECR`), `Lots`, `Matching`, `Bids`, `Analysis`, `Suppliers`, `Storefront`, `Documents`, `FinalPost` | see below |

| Property | Run | Says |
|---|---|---|
| `CleanWalkLeavesNoGap`, `NeverOlder` | `services` | the watermark is sound while no walk was cut, capped or rolled back; no version goes back |
| `BackfillIsResumable` | `services` | a backfill resumed from `min(point_id)` leaves nothing above its resume point |
| `CrawlDelayKept` | `services` | while requests keep to their hold, one is in flight and the pause lies between two, with three clients, deaths in flight and releases by whoever |
| `FinishedWalkMissesNothing` | `services` | a walk that ends has met what stayed listed, with old shared pages, taken-over locks and the HTML fallback |
| `NothingIsSentTwice` | `services` | no second message about a match or a plan point but for a death or an overlap in the middle |
| `NothingStaysUnsaid` | `services` | a positive match not told is on its way, but for a backfill, a query that no longer wants it and retries that are over |
| `RulesAreRecent` | `services` | a reader of the rules never gets any older than the time to live |
| `SilenceIsEarned` | `services` | a problem is silenced only by its own message |
| `OneRunAtATime` | `services` | no second run by hand works beside one the check could see |
| `AccessIsKept` | `services` | somebody can administer, roles are what was assigned, but for requests that overlap |
| `AttributionIsRight` | `services` | what was attributed by BIN points to the row of that BIN, while names are unique |
| `PlanPagesFit` | `services` | the months of a plan page add up to its totals, planned and announced to the plan, whatever plans-sync commits before or after; page, dashboard, card and notification select the same points |
| `CleanRunIsComplete`, `ProgressForward` | `market` | a run closed without errors has all its details; the progress shown never goes back |
| `ImplementsBarrier` | `market` | the fan-out and its counter implement `RunBarrier` |
| `StatusesAgree` | `market` | status, history and `is_actual` of a lot agree after overlapping walks |
| `ChangeReachesDetails` | `market` | a new or changed lot gets its details, or is one the reconciliation looks for |
| `MatchesAreTrue`, `NothingIsForgotten` | `market` | a match is computed from what it says and obeys the pre-filter after an edit; every wanted lot is matched in the end |
| `CountIsTrue`, `AwardIsSeen` | `market` | zero bids means none; an award is seen within the recheck pause and the days of the queue |
| `BriefsFitTheirTexts` | `market` | an analysis, copied or not, is of a text like the lot's own, but for rows mixed by two sessions or written by an outdated simhash or sha256 |
| `SupplierPagesAgree` | `market` | role, report, card and contacts agree on wins, on the lots of the bids and on sums, with several bids of one supplier for a lot and with groups cut off |
| `ListsAgreeWithPages` | `market` | SQL and Python forms of scope, pre-filter and watchlist agree on NULLs |
| `WholeFiles` | `market` | a downloaded row has its whole file |
| `OnePost` | `market` | the final POST reaches the portal at most once |

**Why the bounds are enough.** Fan-out: with three announcements a task can be before, in and after
its `DECR` while the others differ; one retry distinguishes the last attempt from the others. Of its
clock only the order of two spans counts: an attempt lasts at most one tick (`TimeLimit`, ten
minutes in the code), the reaper wants a silence of more than two (`StaleAfter`, fifteen); the
theorem `ReaperIsPatient` is for any two such spans. In `market` attempts do not age
(`FanoutBound`): that is the question of `fanout_faults`. Autosubmit: submissions share nothing but
the loop of a tick, so one of them meets every interleaving of two ticks; three attempts leave a
middle one. Plans: six versions in pages of two are three pages, so a cap, a cut and a rollback each
have a page before and one after; three roots allow a new one, an edited one and one edited twice in
a page. Window: three runs are a success, a failure and the run that relies on them; the span of
time exceeds `MaxSpan`, so the ceiling is reached; `Skew` + `Stale` = `Margin` is the tightest
margin the code's one hour stands for (a clock that lags less than 45 minutes and 15 minutes of
silence); a run by hand asks for one tick, less than the margin, so that it leaps over what the next
window would have had. Guard: three messages are an older, a younger and one that both compete with.
Crawl: a stay of five ticks lasts until the key of the slot (`Delay + Timeout + Spare` ticks) has
expired, three clients are a late one, its successor and the one that its release lets in. Listing:
three lots, one per page, are a page before, at and after the cursor; all times are one tick, so
that a lock and a page can each outlive the other. Lots: two walkers over one known lot and one new
one meet in either order, which gives insert conflicts and the deadlock; a third walk adds nothing
that `StatusesAgree` does not except, and the theorem of section 6 has no bound on walks.
`LotsBound` lets one lot change its status and makes the first walk the one that may leave the
details out; without it the run is three times as long and finds nothing (checked apart). Matching:
two lots and a limit of one, so that the limit cuts; one edit, one fault, two workers that may hold
the same lot; `MatchBound` fixes which of the two lots expires and which is analysed first, and
opens no request to edit that could not commit any more. Notifications: one pair analysed twice, two
workers, one retry of each task, one death. Suppliers: two lots of two customers and one group
shown, so that the list is cut; two applications of one supplier for one lot and one of a rival for
the other. Registry: one session runs two transactions and the other a single one, so that a row can
be committed before, while and after the other looks. Runs by hand: two ticks suffice to be silent
for longer than `StaleAfter`; three rows are one beside the pair that overlaps. Bids: two
announcements and a limit of one, so that one waits; the horizon lies behind the last day. Analysis:
two lots whose texts are t1 and t2, of three with t2 like the other two, so that likeness is not
transitive; one document that comes or comes again, two answers, one of them unfit; not both the
button and `reanalyze` in a behaviour (`AnalysisBound`). Documents: two URLs of one name and one of
its own; two sessions and one pass of the retention. Storefront: one lot, one user and one query
suffice because every list is a condition on one lot. Plan pages: two points are one in and one
beside a group; two months are one that has a next one and one that has not; of columns that are
filtered alike (`kato`, `category`) one is there. Symmetry is used in `fanout_early` only, over
announcements the module does not tell apart; `WalkersInOrder` and `WorkersInOrder` use the same
symmetry for walkers and workers that are all idle.

**Deadlock** is checked in `plans_cut`, whose walks may always begin again. It is switched off
in the others because they end by design: a run is closed, a submission is over, time and
rows are used up, a volley is handled.

**Fairness.** `DetailFanout`: workers take queued messages, each attempt ends (the time limit
of an actor is ten minutes or an explicit one), time passes, and `expire_actor` calls
`close_stale_runs` hourly; nothing is assumed about how an attempt ends. `Autosubmit`: the
dispatcher's timer ticks, the call to the agent has a timeout of 15 seconds, `open_at` comes
(`close_at` is optional and may not), an answer arrives or is lost. `SyncGuard`: a message in
a worker goes on, 15 minutes of silence pass, the hourly timer fires. Faults are never fair.
The components of the harnesses state their progress as invariants instead
(`NothingIsForgotten`, `NothingStaysUnsaid`, `AwardIsSeen`, `ChangeReachesDetails`: what is
owed is under way, or a named event excuses it).

**External assumptions.** Dramatiq and Redis are not in `src/`: redelivery after a worker's
death, the retry count, the day of `AgeLimit`, interrupts outside `Exception` and a `DECR` of
an absent key as -1 are taken as the code's comments and options use them. PostgreSQL:
READ COMMITTED, a row lock until the commit, a unique index that waits for an uncommitted
row, one victim per cycle of waiting sessions. The OWS source answers pages after a cursor:
ids descending for plans and lots, ascending for contracts; its clock may lag. The portal
steps of the agent are stubs in the source; a run may fail at each, and the model also lets
it reach the final POST. The LLM may answer anything, late, or not at all.

## 5. Where the code and its comments disagree

Each of these is a run that TLC refutes; the counterexample is a behaviour of the code.

1. `fanout_early`: the counter counts deliveries, not tasks. A worker that dies between
   `DECR` and the acknowledgement makes the redelivered message decrement again.
2. `autosubmit_terminal`: the agent's report of a fast failure can arrive before the answer
   to `POST /run` was read; the dispatcher then writes `ARMED` (or, after a timeout, `PLANNED`)
   over the terminal status.
3. `plans_cut`: "the watermark does not move" when OWS cuts a walk, says the comment. The
   watermark is the maximum of the table and the newest page is committed first. The same gap
   arises when `_commit` rolls a page back after a page above it was committed (two versions
   of a new plan point in one page).
4. `window_exception`: only `OwsApiError` counts an error; whatever else ends the walk closes
   the run as a success, which becomes the watermark. The reaper does the same to a dead run,
   and a duplicate that gave way leaves a successful row of its own. These are the three steps
   that set `masked` in `SyncWindow`; each alone refutes `NothingFallsBehind`. So does,
   with no fault at all, a run by hand over fewer days than have passed since the last success
   (`contracts-sync --days`, `queue/actors.py:250-253`): its row has the same note and becomes the watermark.
5. `guard_postgres`: an id is taken at the `INSERT`, the row is seen after the `COMMIT`. A
   younger row committed first looks and finds nothing; the older one ignores younger rows.
6. `autosubmit_report`: the agent posts its outcome once and logs a failure, because Linux
   "will see the hanging `ARMED` by timeout" (`agent/report.py:3-4`, again in `runner.py:3-4`).
   There is no such timeout: ticks select `PLANNED` rows, and only the report moves `ARMED` on.

More were met with the same models. Each is a definition of its module, refuted by TLC under
the module's specification, and has no run of its own:

* `FailedIsNotAccepted` (`FinalPost`): the browser's client turns a timeout after the POST
  has left into `FAILED` (`agent/runner.py:43`), where `db/models.py:765` and
  `fire.py:31-33` ask for `UNKNOWN`; and `fire()` says `FAILED` when a gateway reports an error
  of a POST that went through.
* `SubmittedIsAccepted` (`FinalPost`): `db/models.py:752` says of `SUBMITTED` that the server has
  accepted the bid. `fire()` takes every answer below 400 that is no JSON error for that, a
  redirect or the page of the login included (`fire.py:37-42,85-88`); the browser's client does
  not look at the status code either (`wizard.py:90`).
* `OldMatchesAreIgnored` (`Matching`): `db/models.py:626-627` says that matches of an older
  version are ignored; `/matched` shows them.
* A match that `match_actor` inserts between the `SELECT` of `_drop_stale_matches` and the commit
  of the edit stays on `/matched` although the new pre-filter excludes it (`web/app.py:1583-1594,1699`):
  `NothingExcludedIsShown` excepts it by `overtaken`.
* `match_actor` sends the notification of a match found unmarked (`queue/matching.py:71-73`), but a
  task that comes back after its commit to a query switched off or narrowed returns before that
  (59-64), its retries are bounded, and a backfill never sends: `NothingStaysUnsaid` names these by `lapse`.
* A pass of the reconciliation takes 200 stubs in no order (`jobs/reconcile.py:24-37`), so that the
  same ones may fill every pass: `ChangeReachesDetails` says that a stub is among those it looks for.
* The report counts the rows of `lot_bids` (`supplier_report.py:96`), the card the lots
  (`supplier_card.py:276-282`): a supplier with two applications for a lot has two bids on one page and
  one on the other. The groups of the card are cut at `group_rows` (`supplier_card.py:207`): those
  shown then sum up to less than its totals. `SupplierPagesAgree` states what is left of the agreement.
* `text_simhash` is computed once and not reset when a file is downloaded again after retention
  (`llm.py:619-624`, `run_preset.py:350-357`), and `reanalyze` writes the `sha256` its session loaded at the
  start beside the analysis of the file as it is now: `BriefsFitTheirTexts` leaves such rows out (`marred`).
* `RulesNeverReplaceTheModel` (`Analysis`): `reanalyze --force` marks a row with a version
  that is not the model's, after which a certain rule replaces the model's answer, against
  the comment of `_analyze_inner`.
* `EveryAnswerIsBooked` (`Analysis`): an answer is charged before its row of `llm_calls` is
  committed; an interrupt in between loses the booking, against the comment of `_call_llm`.
* `OnlyLotsInScopeAreShown` (`Storefront`): the page of the matches and its count in the
  navigation apply no scope (`web/app.py:1749`), against `scope.py:3-5`.
* `ActualMeansOpen` (`Lots`): `is_actual` is on in a status of the processual group, against
  `scraper/statuses.py:52-54`. Status and `is_actual` are assigned together
  (`jobs/run_preset.py:189-192`), but a session writes only what differs from what it read: a
  walk that saw an expired lot still open writes `is_actual` alone, another, which saw the
  new status and found `is_actual` already off, writes the status alone. Three walks do the
  same without an expiry. `StatusesAgree` excepts such rows, until a walk reads the row again.
* `LinkListsThePlan` (`PlanPages`, with the constants of `services`): the card of an
  organization promises the whole list of its plan on `/plans` and hands its BIN to the search
  there (`organization.html:150-153`, `org_report.html:129`); `plan_conditions` looks into
  names and codes and not into `customer_bin`, so that the list does not have those points.
* `UpcomingHasNextMonth` (`PlanPages`, same): "the current and the next month"
  (`plan_report.py:177-178`) is December alone in December. The plan of the next year may not
  be there yet, but where it is the dashboard does not show it.
* `NeverOlder` with `Writers = {"daily", "backfill"}` and `NoResume = TRUE`: a backfill
  decides on the row its session read and overwrites what the daily walk committed since.

## 6. What is proved

TLAPS checks these for every value of the constants that the assumptions of the modules
allow. Every proof rests on an inductive invariant, which TLC checked first.

| Theorem | Under | Argument |
|---|---|---|
| `DetailFanout_proofs` `TypeCorrect` | nothing more | inductive |
| `CounterInvariant`, `CloseIsNotEarly`, `CleanIsComplete`, `FanoutImplementsBarrier` | `Exact`: a row per attempt of the listing, faults that lose a `DECR` but never repeat one | `FanoutInv`: the key is the number of unresolved targets, or there are none and the key is at most 0 or gone. "Close is not early" alone is not inductive: that the key cannot reach 0 early needs the count of the unresolved, and that a task can resolve once needs its place |
| `Autosubmit_proofs` `TypeCorrect`, `ClaimInvariant`, `ClaimsAreExclusive`, `CrashNeverRedispatches` | any number of ticks and submissions | `DispatchInv`: a `PLANNED` row is in nobody's hands, and `attempts` exceeds the refusals seen by one exactly while a request of unknown fate exists |
| `AgentRunsOnce`, `ArmedMeansAccepted` | one life of the agent; nothing has died | an answer under way implies the registry entry; entries are not removed while the process lives |
| `PlanSync_proofs` `TypeCorrect` | nothing more | inductive, with the page as the top segment below the cursor |
| `NeverGoesBack`, `WatermarkIsSound` | `Single`: one writer | staged versions are newer than stored ones; in a walk everything above the items still to come is stored or staged, everything below the stop was covered before |
| `ResumeLosesNothing` | the behaviours of `MCPlanSync`: a backfill that is only resumed (`NoResume = FALSE`), alone | `BackfillInv`: a resumed walk goes down from the oldest stored version, so that what it stored or staged lies at its cursor or above; a page is committed as a whole, and the cursor becomes the resume point |
| `SyncGuard_proofs` `TypeCorrect`, `GuardInvariant`, `OneWorksWhenOrdered` | any number of messages and deaths | while rows become visible in the order of their ids, a worker is older than every thread that may still claim the work: committed rows it saw, uncommitted ones are younger |
| `OneDoesTheWork` | any number of messages | `VolleyInv`: as long as nobody has died every open row has a thread that will close it, and whoever gave way did so for an older row; the oldest row of all has none to give way to (least element of a set of numbers, by `WellFoundedInduction`) |
| `ReaperIsPatient` | every fault; `TimeLimit < StaleAfter` (`PatienceAssumption`: ten minutes and fifteen) | `AttemptsTouched`: the run was touched after every attempt in progress began, so that its silence is no longer than the age of any, and no age exceeds the limit |
| `KeyIsDeleted` | every fault, a row used by several listings | `KeyInv`: once a fan-out is counted the key is at most the number of its unresolved targets, an unresolved target still has its message, and a key at zero or below is held by the attempt that deletes it |
| `ProgressOnlyGrows` | `OneFanOut`: a run is fanned out once and Redis keeps its keys; any retries, deaths and other faults | `ProgressInv`: there is no key and no message before the fan-out, and after it the key is missing only if the run is finished |
| `SyncWindow_proofs` `TypeCorrect`, `WalkBringsItsWindow` | every page size | `WalkInv`: what lies behind the cursor, in the window and before what the source's clock may date back is stored; the row of the walk is live |
| `NothingCountedIsLost` | `MarginIsEnough`: the margin is at least `Skew + Stale` | `WindowInv`: until a failure is masked, every change that lies a margin before the start of a success is stored, and a window begins before such a margin, at zero, where the ceiling gave up (`lost`) or where a run by hand leapt to (`skipped`) |

| Theorem of `Workers_proofs` | Under | Argument |
|---|---|---|
| `RulesStayRecent` | any number of processes, threads, edits; a build of any length | `WatchInv`: rules, in a call or in the cache, are those of the tables at their stamp or later, for the stamp is taken before the first table is read |
| `PairIsToldOnce`, `MatchIsSpokenFor` | any number of analyses, workers, retries | `NotifyInv`: a pair nothing went wrong with is in the hands of one thread at most, which has not sent before, and what went out is marked or about to be; a match that is not marked has a match task that will look at it again, a message or a worker, or one of the named lapses since a message was last queued |
| `PointToldOnce` | any finite number of passes, a limit of at least one | `PlanNotifyInv`: the messages about a point, with the passes that may still send one or have sent one unrecorded, are at most one more than the interruptions (cardinalities of finite sets) |
| `MessagesGoOutOnce` | both | conjunction of the two |
| `SilenceStaysEarned` | every cooldown, window, threshold | `KeyIsEarned`: a key that silences a code is that of a message under way, of a lost one, or of one told when the key was set or later |
| `DelayStaysKept` | any number of clients and deaths | `KeyOutlives`: one request is in flight at most, the key outlives it by the delay, and after it covers what is left of the pause |
| `WalksMissNothing` | any number of walkers and lots, every page size and delay; a cache that lives at least a tick | `ListingInv`: of the lots listed all along, a page below a cursor, in the cache, on its way or being built, leaves out none above its end (counting: the newest `n` of a set are a segment), and a walk has seen those above its cursor; page by page, in a calm walk (no lot withdrawn, less than a page of new ones between two pages) the others only move onto pages still to come |

| Theorem of `Sessions_proofs` | Under | Argument |
|---|---|---|
| `OneRunWalks` | any number of requests and rows | `AdhocInv`: a live run that the check could see is open and fresh, nobody has passed the check while there is one, and there is one at most; a row is inserted and sent once |
| `AccessStays` | any sets of accounts, roles, requests | `AccessInv`: requests have crossed, or somebody may administer, roles are as chosen, and a form whose reads are not stale finds the rows as it read them |
| `AttributionStaysRight` | any number of sessions; `NamesAreUnique` over the names rows really get (a BIN without a name is called by its BIN) | `RegistryInv`: a row keeps its name and the BIN it has (`RowRefines`), that BIN is the one of every fact of its name, and a row written by one session waits for its commit; hence what a session found remains the row for its fact |

| Theorem of `Market_proofs` | Under | Argument |
|---|---|---|
| `StorefrontTypes`, `PagesAgree` | any regions, verticals, codes, users and amounts | three-valued: `NOT (NULL)` loses a row, so each condition is first shown to be true exactly when the value is there and fits; the codes' `LIKE` needs the types of the columns |
| `LotsStayInStep` | any number of lots, statuses, walks | `LotsInv`: every committed row is sound, is as sound under the change a session has flushed, and one session at most has flushed a change of it, so that nobody else alters it in between |
| `ChangesReachDetails` | same | `OwedInv`: a walk remembers what it has flushed and drops neither without the other; what is owed is with a message, a walk, or lost |
| `FilesStayWhole` | any number of documents, sessions, retention passes | `BodiesAreWhole`: for a document that owns its file name, whatever the directory, the sessions and the row hold of it is its own body |
| `CountsStayTrue` | a finite set of announcements | `BidsInv`: a poll is about announcements that take no more applications, its answer is all there will ever be, and the selection of our lots missed only those that came after it |
| `AwardsComeThrough` | a finite set of announcements, a positive limit of a run | `AwardInv`: whatever is polled while a lot waits for its award is asked again only after it; each day the limit many others pass it, or it is in line itself, so that after `QueueDays` all have passed (cardinalities of finite sets) |
| `MatchesStayTrue`, `NothingStaysForgotten` | any number of lots, editors, workers | `MatchInv`: a version tells the text of the query, in a row, a task and a form of the editor alike, unless two edits crossed; a row's stamp tells its analysis; every row passes the current filter, and the one an edit under way changes to unless that edit drops it; what is asked for, whether the query is on or off, is under way, up to date or excused; all but rows overtaken by an edit or an analysis in the middle of their task |
| `BriefsStayTrue` | any number of callers; `Near` reflexive and symmetric, not transitive | `AnalysisInv`: a row with no `reused` mark was said of its very text, so that a copy by an up-to-date simhash is one step of likeness away; a row once read does not vanish, so an insert is told from an update; a document once listed keeps its place |
| `SuppliersAgree` | finite sets of lots and of contract numbers | sums over finite sets, from the definition of the fold: a set that breaks a law would have a smallest such subset (a least cardinality, by `WellFoundedInduction`, over the *set* of subsets, so that no operator is a parameter); hence sums do not depend on the order of adding, grow with the set, and the sums of groups are the sum of the whole. Then the lots of an organization are those of its lines, and its customers partition its wins; the groups shown are a part of them |
| `PlanPagesStayTrue` | a finite set of points | `PlanPagesInv`: as long as no commit has marked the page under way, what it has counted is what the table holds; the months, NULL among them, partition the points (the lemmas on sums again); what is planned is a part of the plan. That the readers agree follows from the types alone: a comparison with NULL and the Python test of `None` lose the same row |
| `PostTypes`, `PostedOnce`, `FireTellsWhatItHeard` | any number of retries | `PostInv`: a client that may still connect has sent nothing and reported nothing; without that, at most one POST is not inductive |

Attempts that failed have changed the models. `StatusesAgree` in its first form excepted
expired lots only: three walks over one lot break it, which two did not show; hence
`overlapped`, and `ActualMeansOpen` in section 5. `NothingIsForgotten` excepted crossing
edits without need: the exception is gone. `AttributionIsRight` needs unique row names, not
unique names in the facts. `NothingCountedIsLost` needs the window's start to lie after time
zero (`Margin <= Start`).

`OneWorksWhenOrdered` is the positive half of the fifth finding: two workers need a row
committed before an older one. With SQLite, where an uncommitted `INSERT` keeps other writers
out, this cannot happen; with PostgreSQL it can. `FireTellsWhatItHeard` is the positive half of
`FailedIsNotAccepted` and `SubmittedIsAccepted`: what may be under way is `UNKNOWN` to `fire()`, where the
browser's client says `FAILED`; what an answer means is the portal's.

Only model-checked: `RunIsFinished`, `PlannedIsLeft`, `RowsAreClosed` (liveness under
fairness is out of the prover's reach). Every other property of a passing run is a theorem.
`ProgressForward` is model-checked, and proved, for a run that is fanned out once;
`SyncWindow`'s `NothingFallsBehind`, as stated by a comment, is refuted and proved in the
weaker form that the code keeps.

## 7. What is abstracted, and what is not modelled

* The content of lots, contracts, plan points, matches and analyses is a version, a text of
  a small set or "saved"; the parsing of pages, the mapping of API fields, prompts and the
  extraction of text are left out.
* A run is modelled alone: keys, messages and rows of different runs are disjoint.
* `WorkerCrash` redelivers a message with its retries unchanged, as Dramatiq does.
* Time is symbolic: "stale" is 15 minutes without a write, in `SyncWindow` and `DetailFanout` a few ticks, a
  day in `Bids`, an hour in `Alerts`.
* The components of a harness are not composed with each other: a lot that a walk changes
  while it is matched is, in `Matching`, an analysis or an expiry out of nowhere.
* Columns of a lot other than status, history and `is_actual` are not in `Lots`: a walk
  writes them by the same rule.
* Not modelled because it has no state of its own: rule tables, HTML parsing, spreadsheets,
  cryptography, templates, dashboards, migrations.
* Not modelled yet: `link_lots`, login and sessions, presets, `industry_sync`, the limit of
  the watchlist catch-up.

## 8. Plan

1. Done: all modules of section 3, the proofs of section 6.
2. Proofs next: the models of point 3. The three liveness properties stay with TLC.
3. Models next: `Lots` with `Matching` in one module (a status change under an LLM call), the
   catch-up with its limit, `link_lots` beside `PlanSync`.
