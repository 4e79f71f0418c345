------------------------------- MODULE Notify -------------------------------
(***************************************************************************)
(* Telegram notifications about matches: match_actor (queue/matching.py),  *)
(* notify_actor and explain_actor (queue/notify.py) and the webhook behind *)
(* the button of a notification (web/app.py).  What a verdict rests on is  *)
(* in Matching; here it is an input.                                       *)
(***************************************************************************)
EXTENDS Naturals, FiniteSets

CONSTANTS
    Pairs,         \* a query and a lot
    Rounds,        \* bound: analyses of the lot, each sends one match task
    Notifiers,     \* worker threads of the queue goszakup_notify
    MatchRetries,  \* retries of match_actor
    MaxRetries,    \* retries of notify_actor
    MaxMishaps,    \* bound: deaths of a worker
    MaxClicks,     \* bound: presses of the button
    NoPair         \* a thread with nothing to do

ASSUME NotifyAssumption ==
    /\ {MatchRetries, MaxRetries, MaxMishaps, MaxClicks} \subseteq Nat
    /\ NoPair \notin Pairs

VARIABLES
    match,        \* UserLotMatch of the pair: "none", "no" or "yes"
    marked,       \* notified_at IS NOT NULL
    wanted,       \* the query is active and its pre-filter passes the lot
    matchTask,    \* pair, round -> the match_actor task with notify=True
    notifyTasks,  \* pair -> attempts left -> notify_actor messages queued
    notifier,     \* thread -> the pair, the attempts left and how far it is
    connected,    \* notify_telegram and telegram_chat_id of the user
    clicks,       \* explain requests: how many stand at each stage
    mishaps,
    told,         \* history: messages Telegram delivered for the pair
    excused,      \* history: the row was dropped, a message went out and its
                  \* mark did not, or two threads handled the pair at once
    lapse         \* history: why nobody may be on the way to tell of the pair,
                  \* since a message for it was last queued

matchVars == <<match, marked, wanted, matchTask, lapse>>
tellVars == <<notifyTasks, notifier, connected, clicks, told, excused>>
notifyVars == <<matchVars, tellVars, mishaps>>

Stages == {"queued", "answered", "failed", "hanging"}
Free == [pair |-> NoPair, left |-> 0, at |-> "free"]

(* A task: not sent, queued, before the LLM call having read no row or a    *)
(* row (that may be dropped then), past the commit, or over.                *)
AtWork == {"new", "known", "gone", "done"}
MatchTasks == [at : {"unsent", "queued", "over"} \cup AtWork, left : 0..MatchRetries]
Lapses == {"no", "backfill", "unwanted", "match retries", "notify retries"}

NotifyTypeOK ==
    /\ match \in [Pairs -> {"none", "no", "yes"}]
    /\ marked \in [Pairs -> BOOLEAN] /\ wanted \in [Pairs -> BOOLEAN]
    /\ matchTask \in [Pairs -> [Rounds -> MatchTasks]]
    /\ notifyTasks \in [Pairs -> [0..MaxRetries -> Nat]]
    /\ notifier \in [Notifiers -> [pair : Pairs \cup {NoPair}, left : 0..MaxRetries,
                                   at : {"free", "read", "rowless", "delivered"}]]
    /\ connected \in BOOLEAN /\ mishaps \in 0..MaxMishaps
    /\ clicks \in [Stages -> 0..MaxClicks]
    /\ told \in [Pairs -> Nat] /\ excused \in [Pairs -> BOOLEAN]
    /\ lapse \in [Pairs -> Lapses]

NotifyInit ==
    /\ match = [p \in Pairs |-> "none"] /\ marked = [p \in Pairs |-> FALSE]
    /\ wanted = [p \in Pairs |-> TRUE]
    /\ matchTask = [p \in Pairs |-> [r \in Rounds |-> [at |-> "unsent", left |-> MatchRetries]]]
    /\ notifyTasks = [p \in Pairs |-> [n \in 0..MaxRetries |-> 0]]
    /\ notifier = [w \in Notifiers |-> Free]
    /\ connected = TRUE /\ mishaps = 0
    /\ clicks = [s \in Stages |-> 0]
    /\ told = [p \in Pairs |-> 0] /\ excused = [p \in Pairs |-> FALSE]
    /\ lapse = [p \in Pairs |-> "no"]

(* The row says that somebody is still to be told.                         *)
Unsaid(p) == match[p] = "yes" /\ ~marked[p]

(***************************************************************************)
(* match_actor with notify=True.                                           *)
(***************************************************************************)
(* enqueue_matches_for_lot after an analysis.                              *)
FanOutMatch(p, r) ==
    /\ matchTask[p][r].at = "unsent" /\ wanted[p]
    /\ matchTask' = [matchTask EXCEPT ![p][r].at = "queued"]
    /\ UNCHANGED <<match, marked, wanted, lapse, tellVars, mishaps>>

(* An edit of the pre-filter, or the switch of the query.                  *)
WantOrNot(p) ==
    /\ wanted' = [wanted EXCEPT ![p] = ~ @]
    /\ UNCHANGED <<match, marked, matchTask, lapse, tellVars, mishaps>>

(* match_actor reads the row; a query that is off or does not want the lot *)
(* any more ends the task, even one that was committed and died.           *)
MatchBegins(p, r) ==
    /\ matchTask[p][r].at = "queued"
    /\ matchTask' = [matchTask EXCEPT ![p][r].at =
                        IF ~wanted[p] THEN "over" ELSE IF match[p] = "none" THEN "new" ELSE "known"]
    /\ lapse' = [lapse EXCEPT ![p] = IF ~wanted[p] /\ Unsaid(p) THEN "unwanted" ELSE @]
    /\ UNCHANGED <<match, marked, wanted, tellVars, mishaps>>

\* Mutant: the idempotent skip of match_and_save ends the task.
MatchKeepsAndLeaves(p, r) ==
    /\ matchTask[p][r].at \in {"new", "known", "gone"}
    /\ matchTask' = [matchTask EXCEPT ![p][r].at = "over"]
    /\ UNCHANGED <<match, marked, wanted, lapse, tellVars, mishaps>>

(* match_and_save keeps an up-to-date row, or the LLM did not answer.      *)
MatchKeeps(p, r) ==
    /\ matchTask[p][r].at \in {"new", "known", "gone"}
    /\ matchTask' = [matchTask EXCEPT ![p][r].at = "done"]
    /\ UNCHANGED <<match, marked, wanted, lapse, tellVars, mishaps>>

(* A verdict is committed: a new row (the unique key lets one in), or the  *)
(* row read, which keeps its notified_at.                                  *)
MatchPair(p, r) ==
    /\ \/ matchTask[p][r].at = "new" /\ match[p] = "none"
       \/ matchTask[p][r].at = "known"
    /\ \E verdict \in {"no", "yes"} : match' = [match EXCEPT ![p] = verdict]
    /\ matchTask' = [matchTask EXCEPT ![p][r].at = "done"]
    /\ UNCHANGED <<marked, wanted, lapse, tellVars, mishaps>>

(* The task fails: the row was taken or is gone, the database or the broker *)
(* does not answer, the time is up.  Retries sends it again or drops it.    *)
MatchFails(p, r) ==
    /\ matchTask[p][r].at \in AtWork
    /\ matchTask' = [matchTask EXCEPT ![p][r] =
                       IF @.left = 0 THEN [at |-> "over", left |-> 0]
                       ELSE [at |-> "queued", left |-> @.left - 1]]
    /\ lapse' = [lapse EXCEPT ![p] =
                   IF matchTask[p][r].left = 0 /\ Unsaid(p) THEN "match retries" ELSE @]
    /\ UNCHANGED <<match, marked, wanted, tellVars, mishaps>>

(* The worker dies; the broker delivers the task again.                    *)
MatchWorkerDies(p, r) ==
    /\ matchTask[p][r].at \in AtWork /\ mishaps < MaxMishaps
    /\ mishaps' = mishaps + 1
    /\ matchTask' = [matchTask EXCEPT ![p][r].at = "queued"]
    /\ UNCHANGED <<match, marked, wanted, lapse, tellVars>>

(* The state of the row, not the result of match_and_save, decides: a task *)
(* that skips the verdict still sends the notification.                    *)
EnqueueNotify(p, r) ==
    /\ matchTask[p][r].at = "done" /\ Unsaid(p)
    /\ notifyTasks' = [notifyTasks EXCEPT ![p][MaxRetries] = @ + 1]
    /\ lapse' = [lapse EXCEPT ![p] = "no"]
    /\ matchTask' = [matchTask EXCEPT ![p][r].at = "over"]
    /\ UNCHANGED <<match, marked, wanted, notifier, connected, clicks, told, excused, mishaps>>

NothingToTell(p, r) ==
    /\ matchTask[p][r].at = "done" /\ ~Unsaid(p)
    /\ matchTask' = [matchTask EXCEPT ![p][r].at = "over"]
    /\ UNCHANGED <<match, marked, wanted, lapse, tellVars, mishaps>>

(* match_actor with notify=False, of a backfill or of the command line,    *)
(* commits its verdict and tells nobody.                                   *)
BackfillMatch(p) ==
    /\ \E verdict \in {"no", "yes"} :
         /\ match' = [match EXCEPT ![p] = verdict]
         /\ lapse' = [lapse EXCEPT ![p] =
                        IF verdict = "yes" /\ match[p] # "yes" /\ ~marked[p] THEN "backfill" ELSE @]
    /\ UNCHANGED <<marked, wanted, matchTask, tellVars, mishaps>>

(* _drop_stale_matches, or the deletion of the query, takes the row away.  *)
(* A task names the row: one still queued will find nothing, one that has  *)
(* read the row cannot mark it any more.                                   *)
DropMatch(p) ==
    /\ match[p] # "none"
    /\ match' = [match EXCEPT ![p] = "none"]
    /\ marked' = [marked EXCEPT ![p] = FALSE]
    /\ notifyTasks' = [notifyTasks EXCEPT ![p] = [n \in 0..MaxRetries |-> 0]]
    /\ notifier' = [w \in Notifiers |->
                      IF notifier[w].pair # p THEN notifier[w]
                      ELSE IF notifier[w].at = "delivered" THEN Free
                      ELSE [notifier[w] EXCEPT !.at = "rowless"]]
    /\ matchTask' = [matchTask EXCEPT ![p] =
                       [r \in Rounds |-> IF @[r].at = "known" THEN [at |-> "gone", left |-> @[r].left] ELSE @[r]]]
    /\ excused' = [excused EXCEPT ![p] = TRUE]
    /\ UNCHANGED <<wanted, lapse, connected, clicks, mishaps, told>>

(***************************************************************************)
(* notify_actor.                                                           *)
(***************************************************************************)
Handling(p) == {w \in Notifiers : notifier[w].pair = p /\ notifier[w].at # "rowless"}

\* Mutant: the early return looks at the verdict only.
NotifyBeginsBlindly(w) ==
    /\ notifier[w] = Free
    /\ \E p \in Pairs, n \in 0..MaxRetries :
        /\ notifyTasks[p][n] > 0
        /\ notifyTasks' = [notifyTasks EXCEPT ![p][n] = @ - 1]
        /\ notifier' = IF match[p] # "yes" THEN notifier
                       ELSE [notifier EXCEPT ![w] = [pair |-> p, left |-> n, at |-> "read"]]
        /\ excused' = [excused EXCEPT ![p] =
                          @ \/ (match[p] = "yes" /\ Handling(p) # {})]
    /\ UNCHANGED <<matchVars, connected, clicks, mishaps, told>>

(* The row is gone, not matched or already marked: return.  Otherwise the  *)
(* message is built and sent from this reading.                            *)
NotifyBegins(w) ==
    /\ notifier[w] = Free
    /\ \E p \in Pairs, n \in 0..MaxRetries :
        /\ notifyTasks[p][n] > 0
        /\ notifyTasks' = [notifyTasks EXCEPT ![p][n] = @ - 1]
        /\ notifier' = IF match[p] # "yes" \/ marked[p] THEN notifier
                       ELSE [notifier EXCEPT ![w] = [pair |-> p, left |-> n, at |-> "read"]]
        /\ excused' = [excused EXCEPT ![p] =
                          @ \/ (match[p] = "yes" /\ ~marked[p] /\ Handling(p) # {})]
    /\ UNCHANGED <<matchVars, connected, clicks, mishaps, told>>

(* The user switched notifications off, or has no chat: marked as handled. *)
NotifyMuted(w) ==
    /\ notifier[w].at = "read" /\ ~connected
    /\ marked' = [marked EXCEPT ![notifier[w].pair] = TRUE]
    /\ notifier' = [notifier EXCEPT ![w] = Free]
    /\ UNCHANGED <<match, wanted, matchTask, lapse, notifyTasks, connected,
                   clicks, mishaps, told, excused>>

(* send_message returned ok. *)
NotifyDelivered(w) ==
    /\ notifier[w].at = "read" /\ connected
    /\ told' = [told EXCEPT ![notifier[w].pair] = @ + 1]
    /\ notifier' = [notifier EXCEPT ![w].at = "delivered"]
    /\ UNCHANGED <<matchVars, notifyTasks, connected, clicks, mishaps, excused>>

(* Telegram did not take it, or its answer or the commit of the mark was   *)
(* lost after it did: Retries sends the task again or drops it.            *)
NotifyFails(w) ==
    /\ \/ notifier[w].at = "read" /\ connected
       \/ notifier[w].at = "delivered"
    /\ LET p == notifier[w].pair  n == notifier[w].left
       IN  /\ notifyTasks' = IF n = 0 THEN notifyTasks
                             ELSE [notifyTasks EXCEPT ![p][n - 1] = @ + 1]
           /\ lapse' = [lapse EXCEPT ![p] = IF n = 0 THEN "notify retries" ELSE @]
           /\ excused' = [excused EXCEPT ![p] = @ \/ notifier[w].at = "delivered"]
    /\ notifier' = [notifier EXCEPT ![w] = Free]
    /\ UNCHANGED <<match, marked, wanted, matchTask, connected, clicks, mishaps, told>>

(* notified_at is committed. *)
NotifyMarks(w) ==
    /\ notifier[w].at = "delivered"
    /\ marked' = [marked EXCEPT ![notifier[w].pair] = TRUE]
    /\ notifier' = [notifier EXCEPT ![w] = Free]
    /\ UNCHANGED <<match, wanted, matchTask, lapse, notifyTasks, connected,
                   clicks, mishaps, told, excused>>

(* The row went away after it was read: the message may still go out, the  *)
(* commit fails and the retry finds no row.                                *)
NotifyForNothing(w) ==
    /\ notifier[w].at = "rowless"
    /\ \E sent \in (IF connected THEN {0, 1} ELSE {0}) :
          told' = [told EXCEPT ![notifier[w].pair] = @ + sent]
    /\ notifier' = [notifier EXCEPT ![w] = Free]
    /\ UNCHANGED <<matchVars, notifyTasks, connected, clicks, mishaps, excused>>

(* The worker dies: the broker delivers the message again with the same    *)
(* attempts.                                                               *)
NotifierDies(w) ==
    /\ notifier[w].at \in {"read", "delivered"} /\ mishaps < MaxMishaps
    /\ mishaps' = mishaps + 1
    /\ LET p == notifier[w].pair
       IN  /\ notifyTasks' = [notifyTasks EXCEPT ![p][notifier[w].left] = @ + 1]
           /\ excused' = [excused EXCEPT ![p] = @ \/ notifier[w].at = "delivered"]
    /\ notifier' = [notifier EXCEPT ![w] = Free]
    /\ UNCHANGED <<matchVars, connected, clicks, told>>

(* The settings page. *)
Connect ==
    /\ connected' = ~connected
    /\ UNCHANGED <<matchVars, notifyTasks, notifier, clicks, mishaps, told, excused>>

(***************************************************************************)
(* The button: telegram_webhook leaves a placeholder and queues            *)
(* explain_actor, which has no retries.                                    *)
(***************************************************************************)
Clicked == clicks["queued"] + clicks["answered"] + clicks["failed"] + clicks["hanging"]

TelegramWebhook ==
    /\ Clicked < MaxClicks /\ \E p \in Pairs : told[p] > 0
    /\ clicks' = [clicks EXCEPT !["queued"] = @ + 1]
    /\ UNCHANGED <<matchVars, notifyTasks, notifier, connected, mishaps, told, excused>>

(* The explanation, or the apology, replaces the placeholder or follows    *)
(* it; nothing could be delivered; the time limit or a death leaves the    *)
(* placeholder for ever.                                                   *)
Explain ==
    /\ clicks["queued"] > 0
    /\ \E s \in {"answered", "failed", "hanging"} :
        clicks' = [clicks EXCEPT !["queued"] = @ - 1, ![s] = @ + 1]
    /\ UNCHANGED <<matchVars, notifyTasks, notifier, connected, mishaps, told, excused>>

NotifyNext ==
    \/ Connect \/ TelegramWebhook \/ Explain
    \/ \E p \in Pairs : WantOrNot(p) \/ BackfillMatch(p) \/ DropMatch(p)
    \/ \E p \in Pairs, r \in Rounds :
          \/ FanOutMatch(p, r) \/ MatchBegins(p, r) \/ MatchKeeps(p, r) \/ MatchPair(p, r)
          \/ MatchFails(p, r) \/ MatchWorkerDies(p, r) \/ EnqueueNotify(p, r) \/ NothingToTell(p, r)
    \/ \E w \in Notifiers : NotifyBegins(w) \/ NotifyMuted(w) \/ NotifyDelivered(w)
                            \/ NotifyFails(w) \/ NotifyMarks(w) \/ NotifyForNothing(w) \/ NotifierDies(w)

NotifySpec == NotifyInit /\ [][NotifyNext]_notifyVars

(* models.py:683-685, "одно уведомление на пару (запрос, лот)", as far as  *)
(* the code keeps it: however often the lot is analysed again, a second    *)
(* message needs a dropped row, a message that went out and whose mark did *)
(* not follow (a death, a lost answer), or two threads on the pair at once. *)
OneMessagePerPair == \A p \in Pairs : told[p] > 1 => excused[p]

(* A positive match nobody was told about is on its way: a match task is   *)
(* still to look at the row, a notification is queued or being handled     *)
(* (matching.py:71-73, "матч уже есть, но уведомление ещё не уходило").    *)
(* The exceptions are those of the code: a backfill wrote the verdict, the *)
(* task came back after the query was switched off or narrowed, the        *)
(* retries of the match task or of the notification are over; each lasts   *)
(* only until a notification for the pair is queued again.                 *)
NothingStaysUnsaid ==
    \A p \in Pairs :
        Unsaid(p) =>
            \/ \E r \in Rounds : matchTask[p][r].at \in {"queued"} \cup AtWork
            \/ Handling(p) # {} \/ \E n \in 0..MaxRetries : notifyTasks[p][n] > 0
            \/ lapse[p] # "no"
=============================================================================
