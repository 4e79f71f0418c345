------------------------------- MODULE Alerts -------------------------------
(***************************************************************************)
(* The hourly health check (jobs/health.py): problems are told to the      *)
(* administrators by Telegram, each kind at most once in a cooldown kept   *)
(* in Redis; and the flag that FallbackSource raises when the API keeps    *)
(* failing (sources.py), which is one of the problems.  A tick is an hour. *)
(***************************************************************************)
EXTENDS Integers, FiniteSets

CONSTANTS
    Codes,        \* kinds of problems, Problem.code
    Degraded,     \* the code "api-degraded"
    RedisDown,    \* the code "redis-down"
    Cooldown,     \* ALERT_COOLDOWN_S
    Window,       \* _FALLBACK_WINDOW
    DegradedTtl,  \* _DEGRADED_TTL
    Threshold,    \* _DEGRADED_THRESHOLD
    MaxFallbacks, \* bound: fallbacks to HTML
    AlertTime     \* bound: hours

ASSUME AlertsAssumption ==
    /\ {Degraded, RedisDown} \subseteq Codes
    /\ {Cooldown, Window, DegradedTtl, Threshold, MaxFallbacks, AlertTime} \subseteq Nat

VARIABLES
    hour, checked,      \* the timer has run this hour
    wrong,              \* problems the checks would find now
    cooldown,           \* code -> the hour its key expires
    fallbacks,          \* _FALLBACK_KEY: the counter and when it expires, -1: never
    flagUntil,          \* API_DEGRADED_KEY
    admins,             \* somebody to write to, and a bot token
    outbox,             \* problems of the message being sent
    missed,             \* fallbacks so far
    toldAt,             \* history: code -> when it was last told, -1: never
    unlucky             \* history: codes whose message was not delivered

alertsVars == <<hour, checked, wrong, cooldown, fallbacks, flagUntil, admins,
                outbox, missed, toldAt, unlucky>>

AlertsTypeOK ==
    /\ hour \in 0..AlertTime /\ checked \in BOOLEAN
    /\ wrong \subseteq Codes /\ outbox \subseteq Codes /\ unlucky \subseteq Codes
    /\ cooldown \in [Codes -> 0..(AlertTime + Cooldown)]
    /\ fallbacks \in [count : 0..MaxFallbacks, until : -1..(AlertTime + Window)]
    /\ flagUntil \in 0..(AlertTime + DegradedTtl)
    /\ admins \in BOOLEAN /\ missed \in 0..MaxFallbacks
    /\ toldAt \in [Codes -> -1..AlertTime]

AlertsInit ==
    /\ hour = 0 /\ checked = FALSE /\ wrong = {}
    /\ cooldown = [c \in Codes |-> 0]
    /\ fallbacks = [count |-> 0, until |-> 0] /\ flagUntil = 0
    /\ admins = FALSE /\ outbox = {} /\ missed = 0
    /\ toldAt = [c \in Codes |-> -1] /\ unlucky = {}

Reachable == RedisDown \notin wrong

(* The LLM, Redis, the disk, the watchlist, the matches, OWS, a licence or *)
(* a token goes bad or is well again.                                      *)
Turn(c) ==
    /\ c # Degraded
    /\ wrong' = IF c \in wrong THEN wrong \ {c} ELSE wrong \cup {c}
    /\ UNCHANGED <<hour, checked, cooldown, fallbacks, flagUntil, admins, outbox,
                   missed, toldAt, unlucky>>

(* The settings page of an administrator, or the environment. *)
Appoint ==
    /\ ~admins /\ admins' = TRUE
    /\ UNCHANGED <<hour, checked, wrong, cooldown, fallbacks, flagUntil, outbox,
                   missed, toldAt, unlucky>>

(* mark_api_degraded: INCR, EXPIRE for the first miss of a window, the     *)
(* flag from the third on.  A death after INCR leaves the counter without  *)
(* an end.                                                                 *)
FallBackToHtml ==
    /\ missed < MaxFallbacks
    /\ missed' = missed + 1
    /\ IF ~Reachable THEN UNCHANGED <<fallbacks, flagUntil>>
       ELSE \E end \in {hour + Window, -1} :
              LET n == fallbacks.count + 1
              IN  /\ fallbacks' = [count |-> n, until |-> IF n = 1 THEN end ELSE fallbacks.until]
                  /\ flagUntil' = IF n >= Threshold THEN hour + DegradedTtl ELSE flagUntil
    /\ UNCHANGED <<hour, checked, wrong, cooldown, admins, outbox, toldAt, unlucky>>

(* collect_problems: nothing is said of the flag while Redis is down. *)
Problems == wrong \cup (IF Reachable /\ flagUntil > hour THEN {Degraded} ELSE {})

\* Mutant: one key for the whole check.
FreshUnderOneKey(ps) ==
    IF ~Reachable THEN ps ELSE IF \E c \in Codes : cooldown[c] > hour THEN {} ELSE ps

(* _alertable: SET NX EX for each code; without Redis everything is sent.  *)
Alertable(ps) == IF ~Reachable THEN ps ELSE {c \in ps : cooldown[c] <= hour}

(* run_health_check: recipients are looked up before the keys are set. *)
Check ==
    /\ ~checked /\ outbox = {} /\ checked' = TRUE
    /\ IF Problems = {} \/ ~admins THEN UNCHANGED <<cooldown, outbox>>
       ELSE /\ outbox' = Alertable(Problems)
            /\ cooldown' = [c \in Codes |->
                  IF Reachable /\ c \in Alertable(Problems) THEN hour + Cooldown
                  ELSE cooldown[c]]
    /\ UNCHANGED <<hour, wrong, fallbacks, flagUntil, admins, missed, toldAt, unlucky>>

Tell ==
    /\ outbox # {} /\ outbox' = {}
    /\ toldAt' = [c \in Codes |-> IF c \in outbox THEN hour ELSE toldAt[c]]
    /\ unlucky' = unlucky \ outbox
    /\ UNCHANGED <<hour, checked, wrong, cooldown, fallbacks, flagUntil, admins, missed>>

(* Telegram does not take it, or the process dies: the keys stay. *)
TellFails ==
    /\ outbox # {} /\ outbox' = {}
    /\ unlucky' = unlucky \cup outbox
    /\ UNCHANGED <<hour, checked, wrong, cooldown, fallbacks, flagUntil, admins,
                   missed, toldAt>>

NextHour ==
    /\ hour < AlertTime /\ checked /\ outbox = {}
    /\ hour' = hour + 1 /\ checked' = FALSE
    /\ fallbacks' = IF fallbacks.until \in 0..(hour + 1) THEN [count |-> 0, until |-> 0]
                    ELSE fallbacks
    /\ UNCHANGED <<wrong, cooldown, flagUntil, admins, outbox, missed, toldAt, unlucky>>

AlertsNext == \/ Appoint \/ FallBackToHtml \/ Check \/ Tell \/ TellFails \/ NextHour
              \/ \E c \in Codes : Turn(c)

AlertsSpec == AlertsInit /\ [][AlertsNext]_alertsVars

(* A problem is never silenced by anything but its own message: one that   *)
(* the check has passed over was told within the cooldown                  *)
(* (health.py:303-312, 349-350), unless Telegram failed on its last        *)
(* message.                                                                *)
SilenceIsEarned ==
    [][Check => \A c \in Problems \ outbox' :
            \/ ~admins \/ c \in unlucky
            \/ toldAt[c] >= 0 /\ toldAt[c] > hour - Cooldown]_alertsVars
=============================================================================
