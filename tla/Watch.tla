------------------------------- MODULE Watch -------------------------------
(***************************************************************************)
(* watchlist.py: the rules that decide which lots deserve documents and    *)
(* the LLM, built from the users and the queries and kept for a minute in  *)
(* every process.  A version of a table is the number of edits behind it.  *)
(***************************************************************************)
EXTENDS Integers, FiniteSets

CONSTANTS
    Processes,    \* the web process and the workers
    Readers,      \* threads
    ProcessOf,    \* thread -> its process
    Ttl,          \* CACHE_TTL
    MaxBuild,     \* bound: longest _build_rules
    MaxRuleEdits, \* bound: edits of users and queries
    WatchTime     \* bound: ticks

Tables == {"users", "queries"}

ASSUME WatchAssumption ==
    /\ ProcessOf \in [Readers -> Processes]
    /\ {Ttl, MaxBuild, MaxRuleEdits, WatchTime} \subseteq Nat /\ MaxBuild < Ttl

VARIABLES
    watchNow,
    edited,       \* table -> edits so far
    editedAt,     \* table -> edit -> when it was committed, -1: not yet
    cachedRules,  \* process -> [at, rules]; at = -1: no rules
    reader,       \* thread -> the call of watchlist_rules under way
    returned      \* thread -> what its last call returned, and when

watchVars == <<watchNow, edited, editedAt, cachedRules, reader, returned>>

NoRules == [t \in Tables |-> 0]
OutOfCall == [at |-> "out", now |-> -1, rules |-> NoRules]

WatchTypeOK ==
    /\ watchNow \in 0..WatchTime
    /\ edited \in [Tables -> 0..MaxRuleEdits]
    /\ editedAt \in [Tables -> [0..MaxRuleEdits -> -1..WatchTime]]
    /\ cachedRules \in [Processes -> [at : -1..WatchTime, rules : [Tables -> 0..MaxRuleEdits]]]
    /\ \A r \in Readers : reader[r].at \in {"out", "users", "queries", "store"}

WatchInit ==
    /\ watchNow = 0
    /\ edited = [t \in Tables |-> 0]
    /\ editedAt = [t \in Tables |-> [n \in 0..MaxRuleEdits |-> IF n = 0 THEN 0 ELSE -1]]
    /\ cachedRules = [p \in Processes |-> [at |-> -1, rules |-> NoRules]]
    /\ reader = [r \in Readers |-> OutOfCall]
    /\ returned = [r \in Readers |-> [at |-> 0, rules |-> NoRules]]

(* A scope or a pre-filter is edited through a process, which drops its    *)
(* own cache; the other processes keep theirs.                             *)
EditRules(t, p) ==
    /\ edited[t] < MaxRuleEdits
    /\ edited' = [edited EXCEPT ![t] = @ + 1]
    /\ editedAt' = [editedAt EXCEPT ![t][edited[t] + 1] = watchNow]
    /\ cachedRules' = [cachedRules EXCEPT ![p] = [at |-> -1, rules |-> NoRules]]
    /\ UNCHANGED <<watchNow, reader, returned>>

Fresh(p) == cachedRules[p].at >= 0 /\ watchNow - cachedRules[p].at < Ttl

(* watchlist_rules: the clock is read first, then the cache. *)
AskRules(r) ==
    /\ reader[r].at = "out"
    /\ IF Fresh(ProcessOf[r])
       THEN /\ returned' = [returned EXCEPT ![r] =
                    [at |-> watchNow, rules |-> cachedRules[ProcessOf[r]].rules]]
            /\ UNCHANGED reader
       ELSE /\ reader' = [reader EXCEPT ![r] = 
                    [at |-> "users", now |-> watchNow, rules |-> NoRules]]
            /\ UNCHANGED returned
    /\ UNCHANGED <<watchNow, edited, editedAt, cachedRules>>

(* _build_rules: the users, then the queries with their owners. *)
ReadTable(r) ==
    /\ reader[r].at \in Tables
    /\ reader' = [reader EXCEPT ![r] =
          [at |-> IF reader[r].at = "users" THEN "queries" ELSE "store",
           now |-> reader[r].now,
           rules |-> [reader[r].rules EXCEPT ![reader[r].at] = edited[reader[r].at]]]]
    /\ UNCHANGED <<watchNow, edited, editedAt, cachedRules, returned>>

\* Mutant: the rules are dated when they are stored.
StoreRulesDatedNow(r) ==
    /\ reader[r].at = "store"
    /\ cachedRules' = [cachedRules EXCEPT ![ProcessOf[r]] =
                          [at |-> watchNow, rules |-> reader[r].rules]]
    /\ returned' = [returned EXCEPT ![r] = [at |-> watchNow, rules |-> reader[r].rules]]
    /\ reader' = [reader EXCEPT ![r] = OutOfCall]
    /\ UNCHANGED <<watchNow, edited, editedAt>>

(* The rules are stored under the time at which the call began, over       *)
(* whatever another thread stored or an edit dropped meanwhile.            *)
StoreRules(r) ==
    /\ reader[r].at = "store"
    /\ cachedRules' = [cachedRules EXCEPT ![ProcessOf[r]] =
                          [at |-> reader[r].now, rules |-> reader[r].rules]]
    /\ returned' = [returned EXCEPT ![r] = [at |-> watchNow, rules |-> reader[r].rules]]
    /\ reader' = [reader EXCEPT ![r] = OutOfCall]
    /\ UNCHANGED <<watchNow, edited, editedAt>>

WatchTick ==
    /\ watchNow < WatchTime
    /\ \A r \in Readers : reader[r].at # "out" => watchNow < reader[r].now + MaxBuild
    /\ watchNow' = watchNow + 1
    /\ UNCHANGED <<edited, editedAt, cachedRules, reader, returned>>

WatchNext ==
    \/ WatchTick
    \/ \E t \in Tables, p \in Processes : EditRules(t, p)
    \/ \E r \in Readers : AskRules(r) \/ ReadTable(r) \/ StoreRules(r)

WatchSpec == WatchInit /\ [][WatchNext]_watchVars

(* watchlist.py:117-122: an edit of a scope or a pre-filter made in any    *)
(* process counts everywhere after CACHE_TTL at the latest, also when      *)
(* rules built before the edit are stored after it.                        *)
RulesAreRecent ==
    \A r \in Readers, t \in Tables :
        \A n \in (returned[r].rules[t] + 1)..edited[t] :
            editedAt[t][n] > returned[r].at - Ttl
=============================================================================
