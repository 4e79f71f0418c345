--------------------------- MODULE Workers_proofs -----------------------------
(* What the workers and the timers promise: the cache of the rules, the     *)
(* notifications of lots and of plan points, the alerts of the health       *)
(* check, the slot of the rate limit, the walk over the listing of lots;    *)
(* for every number of processes and retries.                               *)
EXTENDS Watch, Notices, Alerts, Crawl, Listing, FiniteSetTheorems, WellFoundedInduction, TLAPS

-----------------------------------------------------------------------------
(* The cache of the watchlist rules.                                        *)

RuleCalls == [at : {"out", "users", "queries", "store"}, now : -1..WatchTime,
          rules : [Tables -> 0..MaxRuleEdits]]
RuleReturns == [at : 0..WatchTime, rules : [Tables -> 0..MaxRuleEdits]]

(* Nothing in the rules is older than the moment: every edit of the table  *)
(* that they do not contain was committed then or later.                   *)
AsOf(rules, t, moment) ==
  \A n \in (rules[t] + 1)..edited[t] : editedAt[t][n] >= moment

HasRead(r, t) == reader[r].at = "store" \/ (reader[r].at = "queries" /\ t = "users")

(* The time under which rules are stored is the time the call began: this  *)
(* is what keeps a build that overlaps an edit, or another build, honest.  *)
CallsAreDated ==
  \A r \in Readers : reader[r].at # "out" =>
    /\ reader[r].now \in 0..watchNow /\ watchNow <= reader[r].now + MaxBuild
    /\ \A t \in Tables : HasRead(r, t) => AsOf(reader[r].rules, t, reader[r].now)

CacheIsDated ==
  \A p \in Processes : cachedRules[p].at >= 0 =>
    /\ cachedRules[p].at <= watchNow
    /\ \A t \in Tables : AsOf(cachedRules[p].rules, t, cachedRules[p].at)

WatchInv ==
  /\ WatchTypeOK
  /\ reader \in [Readers -> RuleCalls] /\ returned \in [Readers -> RuleReturns]
  /\ \A r \in Readers : returned[r].at <= watchNow
  /\ CallsAreDated /\ CacheIsDated /\ RulesAreRecent

LEMMA CallTypes ==
  /\ NoRules \in [Tables -> 0..MaxRuleEdits] /\ OutOfCall \in RuleCalls
  /\ \A now \in 0..WatchTime :
       [at |-> "users", now |-> now, rules |-> NoRules] \in RuleCalls
  <1>1. NoRules \in [Tables -> 0..MaxRuleEdits]
    BY WatchAssumption DEF NoRules
  <1>2. OutOfCall \in RuleCalls
    BY <1>1, WatchAssumption DEF OutOfCall, RuleCalls
  <1>3. \A now \in 0..WatchTime :
           [at |-> "users", now |-> now, rules |-> NoRules] \in RuleCalls
    <2> SUFFICES ASSUME NEW now \in 0..WatchTime
                 PROVE  [at |-> "users", now |-> now, rules |-> NoRules] \in RuleCalls
      OBVIOUS
    <2>2. now \in -1..WatchTime
      BY WatchAssumption
    <2> QED BY <1>1, <2>2 DEF RuleCalls
  <1> QED BY <1>1, <1>2, <1>3

LEMMA WatchInvInit == WatchInit => WatchInv
  <1> SUFFICES ASSUME WatchInit PROVE WatchInv
    OBVIOUS
  <1> USE WatchAssumption DEF WatchInit
  <1>0. NoRules \in [Tables -> 0..MaxRuleEdits]
    BY DEF NoRules
  <1>1. WatchTypeOK
    BY <1>0 DEF WatchTypeOK, OutOfCall
  <1>2. reader \in [Readers -> RuleCalls] /\ returned \in [Readers -> RuleReturns]
    BY <1>0 DEF RuleCalls, RuleReturns, OutOfCall
  <1>3. CallsAreDated /\ CacheIsDated
    BY DEF CallsAreDated, CacheIsDated, OutOfCall
  <1>4. RulesAreRecent
    BY DEF RulesAreRecent, NoRules, Tables
  <1> QED BY <1>1, <1>2, <1>3, <1>4 DEF WatchInv

LEMMA WatchInvStep == WatchInv /\ [WatchNext]_watchVars => WatchInv'
  <1> SUFFICES ASSUME WatchInv, [WatchNext]_watchVars PROVE WatchInv'
    OBVIOUS
  <1> USE WatchAssumption DEF WatchInv
  <1>1. ASSUME NEW t \in Tables, NEW p \in Processes, EditRules(t, p) PROVE WatchInv'
    <2>1. WatchTypeOK'
      BY <1>1, SMTT(20) DEF WatchTypeOK, EditRules, NoRules
    <2>0. \A u \in Tables : /\ edited[u] \in 0..MaxRuleEdits
                            /\ edited'[u] = IF u = t THEN edited[u] + 1 ELSE edited[u]
      BY <1>1 DEF EditRules, WatchTypeOK
    <2>a. ASSUME NEW u \in Tables, NEW n \in 0..edited'[u]
          PROVE  editedAt'[u][n] = IF n > edited[u] THEN watchNow ELSE editedAt[u][n]
      <3>1. editedAt' = [editedAt EXCEPT ![t] = [editedAt[t] EXCEPT ![edited[t] + 1] = watchNow]]
        BY <1>1 DEF EditRules
      <3>2. n \in 0..MaxRuleEdits
        BY <2>0, <1>1 DEF EditRules
      <3>3. /\ editedAt[t] \in [0..MaxRuleEdits -> -1..WatchTime]
            /\ editedAt \in [Tables -> [0..MaxRuleEdits -> -1..WatchTime]]
        BY DEF WatchTypeOK
      <3>4. CASE u # t
        BY <3>1, <3>3, <3>4, <2>0
      <3>5. CASE u = t
        <4>1. editedAt'[u][n] = [editedAt[t] EXCEPT ![edited[t] + 1] = watchNow][n]
          BY <3>1, <3>3, <3>5
        <4>2. n = edited[t] + 1 \/ n <= edited[t]
          BY <2>0, <3>5
        <4> QED BY <4>1, <4>2, <3>2, <3>3, <3>5, <2>0
      <3> QED BY <3>4, <3>5
    <2>2. ASSUME NEW rules \in [Tables -> 0..MaxRuleEdits], NEW m \in Int, NEW u \in Tables,
                 m <= watchNow, AsOf(rules, u, m)
          PROVE  \A n \in (rules[u] + 1)..edited'[u] : editedAt'[u][n] >= m
      <3>1. watchNow \in Int /\ rules[u] \in 0..MaxRuleEdits
        BY DEF WatchTypeOK
      <3> SUFFICES ASSUME NEW n \in (rules[u] + 1)..edited'[u]
                   PROVE  editedAt'[u][n] >= m
        OBVIOUS
      <3>2. n \in 0..edited'[u] /\ (n <= edited[u] => n \in (rules[u] + 1)..edited[u])
        BY <2>0, <3>1
      <3>3. editedAt'[u][n] = IF n > edited[u] THEN watchNow ELSE editedAt[u][n]
        BY <2>a, <3>2
      <3>4. CASE n > edited[u]
        BY <3>3, <3>4, <2>2
      <3>5. CASE n <= edited[u]
        <4>1. editedAt[u][n] >= m
          BY <3>2, <3>5, <2>2 DEF AsOf
        <4>2. ~(n > edited[u])
          BY <3>1, <3>2, <3>5, <2>0
        <4> QED BY <3>3, <4>1, <4>2
      <3> QED BY <3>1, <3>2, <3>4, <3>5, <2>0
    <2>3. CallsAreDated'
      <3> SUFFICES ASSUME NEW r \in Readers, reader[r].at # "out"
                   PROVE  /\ reader[r].now \in 0..watchNow
                          /\ watchNow <= reader[r].now + MaxBuild
                          /\ \A u \in Tables : HasRead(r, u)
                               => AsOf(reader[r].rules, u, reader[r].now)'
        BY <1>1 DEF CallsAreDated, EditRules, HasRead
      <3>1. reader[r].rules \in [Tables -> 0..MaxRuleEdits] /\ reader[r].now \in Int
        BY DEF RuleCalls
      <3>2. ASSUME NEW u \in Tables, HasRead(r, u)
            PROVE  AsOf(reader[r].rules, u, reader[r].now)'
        <4>a. AsOf(reader[r].rules, u, reader[r].now)
          <5>1. reader[r].at # "out"
            OBVIOUS
          <5> QED BY <5>1, <3>2 DEF CallsAreDated
        <4>b. reader[r].now \in 0..watchNow
          BY DEF CallsAreDated
        <4>1. reader[r].now <= watchNow
          <5>1. watchNow \in Int
            BY DEF WatchTypeOK
          <5> QED BY <4>b, <5>1, <3>1
        <4>2. reader' = reader
          BY <1>1 DEF EditRules
        <4>3. \A n \in (reader[r].rules[u] + 1)..edited'[u] : editedAt'[u][n] >= reader[r].now
          BY <4>a, <4>1, <3>1, <2>2
        <4> QED BY <4>2, <4>3 DEF AsOf
      <3> QED BY <3>2 DEF CallsAreDated
    <2>4. CacheIsDated'
      <3> SUFFICES ASSUME NEW q \in Processes, cachedRules'[q].at >= 0
                   PROVE  /\ cachedRules'[q].at <= watchNow
                          /\ \A u \in Tables : AsOf(cachedRules[q].rules, u, cachedRules[q].at)'
        BY <1>1 DEF CacheIsDated, EditRules
      <3>1. q # p /\ cachedRules'[q] = cachedRules[q]
        BY <1>1 DEF EditRules, WatchTypeOK
      <3>2. cachedRules[q].at \in Int /\ cachedRules[q].rules \in [Tables -> 0..MaxRuleEdits]
        BY DEF WatchTypeOK
      <3> QED BY <3>1, <3>2, <2>2 DEF CacheIsDated, AsOf
    <2>5. RulesAreRecent'
      <3> SUFFICES ASSUME NEW r \in Readers, NEW u \in Tables,
                          NEW n \in (returned[r].rules[u] + 1)..edited'[u]
                   PROVE  editedAt'[u][n] > returned[r].at - Ttl
        BY <1>1 DEF RulesAreRecent, EditRules
      <3>1. /\ edited[u] \in 0..MaxRuleEdits /\ watchNow \in 0..WatchTime
            /\ returned[r].at \in 0..watchNow /\ returned[r].rules[u] \in 0..MaxRuleEdits
        BY DEF WatchTypeOK, RuleReturns
      <3>2. n \in 0..edited'[u] /\ (n <= edited[u] => n \in (returned[r].rules[u] + 1)..edited[u])
        BY <2>0, <3>1
      <3> QED BY <2>a, <3>1, <3>2 DEF RulesAreRecent
    <2> QED BY <1>1, <2>1, <2>3, <2>4, <2>5 DEF EditRules
  <1>2. ASSUME NEW r \in Readers, AskRules(r) PROVE WatchInv'
    <2>0. /\ ProcessOf[r] \in Processes /\ watchNow \in 0..WatchTime
          /\ cachedRules[ProcessOf[r]] \in [at : -1..WatchTime, rules : [Tables -> 0..MaxRuleEdits]]
      BY DEF WatchTypeOK
    <2>u. UNCHANGED <<watchNow, edited, editedAt, cachedRules>>
      BY <1>2 DEF AskRules
    <2>1. reader' = reader \/ reader' = [reader EXCEPT ![r] =
             [at |-> "users", now |-> watchNow, rules |-> NoRules]]
      BY <1>2 DEF AskRules
    <2>2. returned' = returned \/ returned' = [returned EXCEPT ![r] =
             [at |-> watchNow, rules |-> cachedRules[ProcessOf[r]].rules]]
      BY <1>2 DEF AskRules
    <2>a. reader' \in [Readers -> RuleCalls]
      BY <2>0, <2>1, CallTypes
    <2>b. returned' \in [Readers -> RuleReturns]
      <3>1. [at |-> watchNow, rules |-> cachedRules[ProcessOf[r]].rules] \in RuleReturns
        BY <2>0 DEF RuleReturns
      <3> QED BY <2>2, <3>1
    <2>c. \A q \in Readers : returned'[q].at <= watchNow'
      BY <2>0, <2>2, <2>u
    <2>d. WatchTypeOK'
      BY <2>a, <2>u DEF WatchTypeOK, RuleCalls
    <2>3. CallsAreDated'
      <3> SUFFICES ASSUME NEW q \in Readers, reader'[q].at # "out"
                   PROVE  /\ reader'[q].now \in 0..watchNow
                          /\ watchNow <= reader'[q].now + MaxBuild
                          /\ \A t \in Tables : HasRead(q, t)' => AsOf(reader'[q].rules, t, reader'[q].now)
        BY <2>u DEF CallsAreDated, AsOf
      <3>1. CASE reader'[q] = reader[q]
        BY <3>1 DEF CallsAreDated, HasRead
      <3>2. CASE reader'[q] = [at |-> "users", now |-> watchNow, rules |-> NoRules]
        <4>1. reader'[q].at = "users" /\ reader'[q].now = watchNow
          BY <3>2 DEF OutOfCall
        <4> QED BY <4>1, <2>0 DEF HasRead
      <3> QED BY <2>1, <3>1, <3>2
    <2>4. CacheIsDated'
      BY <2>u DEF CacheIsDated, AsOf
    <2>5. RulesAreRecent'
      <3>1. CASE Fresh(ProcessOf[r])
        <4>1. \A t \in Tables : AsOf(cachedRules[ProcessOf[r]].rules, t, cachedRules[ProcessOf[r]].at)
          BY <3>1, <2>0 DEF CacheIsDated, Fresh
        <4>2. \A t \in Tables : \A n \in (cachedRules[ProcessOf[r]].rules[t] + 1)..edited[t] :
                 editedAt[t][n] > watchNow - Ttl
          <5> SUFFICES ASSUME NEW t \in Tables,
                              NEW n \in (cachedRules[ProcessOf[r]].rules[t] + 1)..edited[t]
                       PROVE  editedAt[t][n] > watchNow - Ttl
            OBVIOUS
          <5>1. /\ edited[t] \in 0..MaxRuleEdits
                /\ cachedRules[ProcessOf[r]].rules[t] \in 0..MaxRuleEdits
                /\ cachedRules[ProcessOf[r]].at \in Int
            BY <2>0 DEF WatchTypeOK
          <5>2. n \in 0..MaxRuleEdits
            BY <5>1 DEF WatchAssumption
          <5>3. editedAt[t] \in [0..MaxRuleEdits -> -1..WatchTime]
            BY DEF WatchTypeOK
          <5>4. editedAt[t][n] \in Int
            BY <5>2, <5>3
          <5> QED BY <4>1, <5>1, <5>2, <5>4, <3>1, <2>0 DEF AsOf, Fresh
        <4> QED BY <2>2, <2>u, <4>2 DEF RulesAreRecent
      <3>2. CASE ~Fresh(ProcessOf[r])
        BY <1>2, <3>2 DEF RulesAreRecent, AskRules
      <3> QED BY <3>1, <3>2
    <2> QED BY <2>a, <2>b, <2>c, <2>d, <2>3, <2>4, <2>5
  <1>3. ASSUME NEW r \in Readers, ReadTable(r) PROVE WatchInv'
    <2>u. UNCHANGED <<watchNow, edited, editedAt, cachedRules, returned>>
      BY <1>3 DEF ReadTable
    <2>0. /\ reader[r] \in RuleCalls /\ reader[r].at \in Tables
          /\ edited[reader[r].at] \in 0..MaxRuleEdits
      BY <1>3 DEF WatchTypeOK, ReadTable
    <2> DEFINE call == [at |-> IF reader[r].at = "users" THEN "queries" ELSE "store",
                        now |-> reader[r].now,
                        rules |-> [reader[r].rules EXCEPT ![reader[r].at] = edited[reader[r].at]]]
    <2>a. call \in RuleCalls
      BY <2>0 DEF RuleCalls
    <2>b. reader' = [reader EXCEPT ![r] = call]
      BY <1>3 DEF ReadTable
    <2> HIDE DEF call
    <2>1. reader' \in [Readers -> RuleCalls] /\ WatchTypeOK'
      BY <2>a, <2>b, <2>u DEF WatchTypeOK, RuleCalls
    <2>2. CallsAreDated'
      <3> SUFFICES ASSUME NEW q \in Readers, reader'[q].at # "out"
                   PROVE  /\ reader'[q].now \in 0..watchNow
                          /\ watchNow <= reader'[q].now + MaxBuild
                          /\ \A t \in Tables : HasRead(q, t)' => AsOf(reader'[q].rules, t, reader'[q].now)
        BY <2>u DEF CallsAreDated, AsOf
      <3>1. CASE q # r
        BY <2>b, <3>1 DEF CallsAreDated, HasRead
      <3>2. CASE q = r
        <4>1. /\ reader'[r] = call /\ call.now = reader[r].now /\ reader[r].at # "out"
              /\ call.at = (IF reader[r].at = "users" THEN "queries" ELSE "store")
              /\ call.rules = [reader[r].rules EXCEPT ![reader[r].at] = edited[reader[r].at]]
          BY <2>b, <2>0 DEF Tables, call
        <4>2. ASSUME NEW t \in Tables, HasRead(r, t)' PROVE AsOf(call.rules, t, reader[r].now)
          <5>0. reader[r].rules \in [Tables -> 0..MaxRuleEdits] /\ edited[t] \in 0..MaxRuleEdits
            BY <2>0 DEF RuleCalls, WatchTypeOK
          <5>1. CASE t = reader[r].at
            <6>1. call.rules[t] = edited[t]
              BY <5>1, <4>1, <5>0
            <6> QED BY <6>1, <5>0 DEF AsOf
          <5>2. CASE t # reader[r].at
            <6>1. HasRead(r, t)
              BY <4>2, <4>1, <5>2, <2>0 DEF HasRead, Tables
            <6>2. call.rules[t] = reader[r].rules[t]
              BY <4>1, <5>2, <5>0
            <6> QED BY <6>1, <6>2, <4>1 DEF CallsAreDated, AsOf
          <5> QED BY <5>1, <5>2
        <4> QED BY <3>2, <4>1, <4>2 DEF CallsAreDated
      <3> QED BY <3>1, <3>2
    <2>3. CacheIsDated' /\ RulesAreRecent'
      BY <2>u DEF CacheIsDated, AsOf, RulesAreRecent
    <2> QED BY <2>1, <2>2, <2>3, <2>u
  <1>4. ASSUME NEW r \in Readers, StoreRules(r) PROVE WatchInv'
    <2>u. UNCHANGED <<watchNow, edited, editedAt>>
      BY <1>4 DEF StoreRules
    <2>0. /\ ProcessOf[r] \in Processes /\ watchNow \in 0..WatchTime
          /\ reader[r] \in RuleCalls /\ reader[r].at = "store"
      BY <1>4 DEF WatchTypeOK, StoreRules
    <2>1. /\ reader[r].now \in 0..watchNow /\ watchNow <= reader[r].now + MaxBuild
          /\ \A t \in Tables : AsOf(reader[r].rules, t, reader[r].now)
      BY <2>0 DEF CallsAreDated, HasRead
    <2>2. /\ reader' = [reader EXCEPT ![r] = OutOfCall]
          /\ returned' = [returned EXCEPT ![r] = [at |-> watchNow, rules |-> reader[r].rules]]
          /\ cachedRules' = [cachedRules EXCEPT ![ProcessOf[r]] =
                                [at |-> reader[r].now, rules |-> reader[r].rules]]
      BY <1>4 DEF StoreRules
    <2>3. reader' \in [Readers -> RuleCalls]
      BY <2>2, CallTypes
    <2>4. returned' \in [Readers -> RuleReturns] /\ \A q \in Readers : returned'[q].at <= watchNow'
      BY <2>0, <2>2, <2>u DEF RuleReturns, RuleCalls
    <2>5. WatchTypeOK'
      BY <2>0, <2>1, <2>2, <2>3, <2>u DEF WatchTypeOK, RuleCalls
    <2>6. CallsAreDated'
      BY <2>2, <2>u DEF CallsAreDated, HasRead, AsOf, OutOfCall
    <2>7. CacheIsDated'
      BY <2>0, <2>1, <2>2, <2>u DEF CacheIsDated, AsOf, WatchTypeOK
    <2>8. ASSUME NEW t \in Tables, NEW n \in (reader[r].rules[t] + 1)..edited[t]
          PROVE  editedAt[t][n] > watchNow - Ttl
      <3>1. /\ edited[t] \in 0..MaxRuleEdits /\ reader[r].rules[t] \in 0..MaxRuleEdits
            /\ editedAt[t] \in [0..MaxRuleEdits -> -1..WatchTime]
        BY <2>0 DEF WatchTypeOK, RuleCalls
      <3>2. n \in 0..MaxRuleEdits /\ editedAt[t][n] >= reader[r].now
        BY <3>1, <2>1, SMTT(20) DEF AsOf
      <3>a. editedAt[t][n] \in -1..WatchTime
        BY <3>1, <3>2
      <3>b. reader[r].now \in -1..WatchTime
        BY <2>0 DEF RuleCalls
      <3>3. /\ editedAt[t][n] \in Int /\ reader[r].now \in Int /\ watchNow \in Int
            /\ Ttl \in Int /\ MaxBuild \in Int /\ MaxBuild < Ttl
        BY <3>a, <3>b, <2>0
      <3> QED BY <3>2, <3>3, <2>1
    <2>9. RulesAreRecent'
      BY <2>2, <2>8, <2>u DEF RulesAreRecent
    <2> QED BY <2>3, <2>4, <2>5, <2>6, <2>7, <2>9
  <1>5. CASE WatchTick
    <2> USE <1>5 DEF WatchTick
    <2>1. WatchTypeOK' /\ watchNow \in 0..WatchTime /\ watchNow' = watchNow + 1
      BY DEF WatchTypeOK
    <2>2. \A r \in Readers : returned[r].at <= watchNow'
      BY <2>1 DEF RuleReturns
    <2>3. CallsAreDated' /\ CacheIsDated'
      BY <2>1 DEF CallsAreDated, CacheIsDated, HasRead, AsOf, RuleCalls, WatchTypeOK
    <2>4. RulesAreRecent'
      BY DEF RulesAreRecent
    <2> QED BY <2>1, <2>2, <2>3, <2>4
  <1>6. CASE UNCHANGED watchVars
    BY <1>6 DEF watchVars, WatchTypeOK, CallsAreDated, CacheIsDated, RulesAreRecent, HasRead, AsOf
  <1> QED BY <1>1, <1>2, <1>3, <1>4, <1>5, <1>6 DEF WatchNext

(* An edit of a scope or a pre-filter counts everywhere after CACHE_TTL     *)
(* (watchlist.py:117-122), for any number of processes, threads and edits   *)
(* and every length of a build.                                             *)
THEOREM RulesStayRecent == WatchSpec => []RulesAreRecent
  <1>1. WatchInv => RulesAreRecent
    BY DEF WatchInv
  <1> QED BY <1>1, WatchInvInit, WatchInvStep, PTL DEF WatchSpec

-----------------------------------------------------------------------------
(* One message per pair, and none forgotten.                                *)

ClicksAreFew == Clicked <= MaxClicks

TaskStages == {"unsent", "queued", "over"} \cup AtWork

(* A pair nothing went wrong with is in the hands of one thread at most,   *)
(* which has not sent its message before, and a message that went out is   *)
(* marked or about to be.                                                  *)
OneAtATime(p) ==
  \A v, w \in Notifiers : notifier[v].pair = p /\ notifier[w].pair = p => v = w

ToldOnce(p) ==
  /\ told[p] <= 1
  /\ told[p] = 1 => marked[p] \/ \E w \in Notifiers : notifier[w].pair = p /\ notifier[w].at = "delivered"
  /\ \A w \in Notifiers : notifier[w].pair = p =>
       notifier[w].at \in {"read", "delivered"} /\ (notifier[w].at = "read" => told[p] = 0)

PairsAreCareful == \A p \in Pairs : ~excused[p] => OneAtATime(p) /\ ToldOnce(p)

RetryCounts == [Pairs -> [0..MaxRetries -> Nat]]

LEMMA TaskAdded ==
  ASSUME NEW tasks \in RetryCounts, NEW q \in Pairs, NEW m \in 0..MaxRetries
  PROVE  LET later == [tasks EXCEPT ![q][m] = @ + 1]
         IN  /\ later \in RetryCounts /\ later[q][m] > 0
             /\ \A p \in Pairs, n \in 0..MaxRetries : later[p][n] >= tasks[p][n]
  <1> DEFINE row == [tasks[q] EXCEPT ![m] = @ + 1]
             later == [tasks EXCEPT ![q] = row]
  <1>1. tasks[q] \in [0..MaxRetries -> Nat] /\ tasks[q][m] \in Nat
    BY DEF RetryCounts
  <1>2. /\ row \in [0..MaxRetries -> Nat] /\ row[m] = tasks[q][m] + 1
        /\ \A n \in 0..MaxRetries : row[n] >= tasks[q][n]
    <2>1. tasks[q][m] + 1 \in Nat
      BY <1>1
    <2>2. row \in [0..MaxRetries -> Nat] /\ row[m] = tasks[q][m] + 1
      BY <1>1, <2>1
    <2>3. ASSUME NEW n \in 0..MaxRetries PROVE row[n] >= tasks[q][n]
      <3>1. row[n] = IF n = m THEN tasks[q][m] + 1 ELSE tasks[q][n]
        BY <1>1
      <3>2. tasks[q][n] \in Nat
        BY <1>1
      <3> QED BY <1>1, <3>1, <3>2
    <2> QED BY <2>2, <2>3
  <1> HIDE DEF row
  <1>3. later \in RetryCounts /\ later[q] = row /\ \A p \in Pairs : p # q => later[p] = tasks[p]
    BY <1>2 DEF RetryCounts
  <1>4. \A p \in Pairs, n \in 0..MaxRetries : tasks[p][n] \in Nat
    BY DEF RetryCounts
  <1>5. [tasks EXCEPT ![q][m] = @ + 1] = later
    BY DEF row
  <1> HIDE DEF later
  <1>6. \A p \in Pairs, n \in 0..MaxRetries : later[p][n] >= tasks[p][n]
    <2> SUFFICES ASSUME NEW p \in Pairs, NEW n \in 0..MaxRetries
                 PROVE  later[p][n] >= tasks[p][n]
      OBVIOUS
    <2>1. tasks[p][n] \in Nat
      BY <1>4
    <2>2. CASE p = q
      BY <1>2, <1>3, <2>2
    <2>3. CASE p # q
      BY <1>3, <2>1, <2>3
    <2> QED BY <2>2, <2>3
  <1>7. later[q][m] > 0
    BY <1>1, <1>2, <1>3
  <1> QED BY <1>3, <1>5, <1>6, <1>7

LEMMA TaskTaken ==
  ASSUME NEW tasks \in RetryCounts, NEW q \in Pairs, NEW m \in 0..MaxRetries, tasks[q][m] > 0
  PROVE  [tasks EXCEPT ![q][m] = @ - 1] \in RetryCounts
  <1> DEFINE row == [tasks[q] EXCEPT ![m] = @ - 1]
  <1>1. tasks[q] \in [0..MaxRetries -> Nat] /\ tasks[q][m] \in Nat
    BY DEF RetryCounts
  <1>2. tasks[q][m] - 1 \in Nat
    BY <1>1
  <1>3. row \in [0..MaxRetries -> Nat]
    BY <1>1, <1>2
  <1>4. [tasks EXCEPT ![q][m] = @ - 1] = [tasks EXCEPT ![q] = row]
    OBVIOUS
  <1> QED BY <1>3, <1>4 DEF RetryCounts

LEMMA CountedUp ==
  ASSUME NEW f \in [Pairs -> Nat], NEW q, NEW d \in {0, 1}
  PROVE  [f EXCEPT ![q] = @ + d] \in [Pairs -> Nat]
  <1>1. CASE q \in Pairs
    BY <1>1
  <1>2. CASE q \notin Pairs
    BY <1>2
  <1> QED BY <1>1, <1>2

TaskTable == [Pairs -> [Rounds -> MatchTasks]]

LEMMA TaskPut ==
  ASSUME NEW tasks \in TaskTable, NEW q \in Pairs, NEW k \in Rounds, NEW task \in MatchTasks
  PROVE  LET later == [tasks EXCEPT ![q][k] = task]
         IN  /\ later \in TaskTable /\ later[q][k] = task
             /\ \A p \in Pairs : p # q => later[p] = tasks[p]
             /\ \A r \in Rounds : r # k => later[q][r] = tasks[q][r]
  <1> DEFINE row == [tasks[q] EXCEPT ![k] = task]
  <1>1. tasks[q] \in [Rounds -> MatchTasks]
    BY DEF TaskTable
  <1>2. /\ row \in [Rounds -> MatchTasks] /\ row[k] = task
        /\ \A r \in Rounds : r # k => row[r] = tasks[q][r]
    BY <1>1
  <1> HIDE DEF row
  <1>3. LET later == [tasks EXCEPT ![q] = row]
        IN  /\ later \in TaskTable /\ later[q] = row
            /\ \A p \in Pairs : p # q => later[p] = tasks[p]
    BY <1>2 DEF TaskTable
  <1>4. [tasks EXCEPT ![q][k] = task] = [tasks EXCEPT ![q] = row]
    BY DEF row
  <1> QED BY <1>2, <1>3, <1>4

LEMMA TaskMoves ==
  ASSUME NEW tasks \in TaskTable, NEW q \in Pairs, NEW k \in Rounds, NEW stage \in TaskStages
  PROVE  LET later == [tasks EXCEPT ![q][k].at = stage]
         IN  /\ later \in TaskTable /\ later[q][k].at = stage
             /\ \A p \in Pairs : p # q => later[p] = tasks[p]
             /\ \A r \in Rounds : r # k => later[q][r] = tasks[q][r]
  <1> DEFINE task == [tasks[q][k] EXCEPT !.at = stage]
  <1>1. tasks[q][k] \in MatchTasks
    BY DEF TaskTable
  <1>2. task \in MatchTasks /\ task.at = stage
    BY <1>1 DEF MatchTasks, TaskStages
  <1>3. [tasks EXCEPT ![q][k].at = stage] = [tasks EXCEPT ![q][k] = task]
    OBVIOUS
  <1> HIDE DEF task
  <1> QED BY <1>2, <1>3, TaskPut

LEMMA NotifyInitially ==
  NotifyInit => NotifyTypeOK /\ ClicksAreFew /\ PairsAreCareful /\ NothingStaysUnsaid
  <1> SUFFICES ASSUME NotifyInit
               PROVE  NotifyTypeOK /\ ClicksAreFew /\ PairsAreCareful /\ NothingStaysUnsaid
    OBVIOUS
  <1> USE NotifyAssumption DEF NotifyInit
  <1>1. Free \in [pair : Pairs \cup {NoPair}, left : 0..MaxRetries,
                 at : {"free", "read", "rowless", "delivered"}]
    BY DEF Free
  <1>2. NotifyTypeOK
    <2>1. [at |-> "unsent", left |-> MatchRetries] \in MatchTasks
      BY DEF MatchTasks
    <2>2. matchTask \in [Pairs -> [Rounds -> MatchTasks]] /\ lapse \in [Pairs -> Lapses]
      BY <2>1 DEF Lapses
    <2> QED BY <1>1, <2>2 DEF NotifyTypeOK, Stages
  <1>3. ClicksAreFew
    BY DEF ClicksAreFew, Clicked, Stages
  <1>4. PairsAreCareful
    BY DEF PairsAreCareful, OneAtATime, ToldOnce, Free
  <1>5. NothingStaysUnsaid
    BY DEF NothingStaysUnsaid, Unsaid
  <1> QED BY <1>2, <1>3, <1>4, <1>5

LEMMA NotifyTypeStep ==
  ASSUME NotifyTypeOK, ClicksAreFew, [NotifyNext]_notifyVars
  PROVE  NotifyTypeOK' /\ ClicksAreFew'
  <1> USE NotifyAssumption DEF NotifyTypeOK, ClicksAreFew
  <1> DEFINE Threads == [pair : Pairs \cup {NoPair}, left : 0..MaxRetries,
                         at : {"free", "read", "rowless", "delivered"}]
  <1>a. Free \in Threads /\ notifyTasks \in RetryCounts
    BY DEF Free, RetryCounts
  <1>t. matchTask \in TaskTable
    BY DEF TaskTable
  <1>1. CASE Connect
    BY <1>1 DEF Connect, Clicked, matchVars
  <1>2. CASE TelegramWebhook
    <2>1. /\ clicks' = [clicks EXCEPT !["queued"] = @ + 1] /\ Clicked < MaxClicks
          /\ UNCHANGED <<matchVars, notifyTasks, notifier, connected, mishaps, told, excused>>
      BY <1>2 DEF TelegramWebhook
    <2>2. \A s \in Stages : clicks[s] \in 0..MaxClicks
      OBVIOUS
    <2>3. clicks["queued"] + 1 \in 0..MaxClicks
      BY <2>1, <2>2 DEF Clicked, Stages
    <2>4. clicks' \in [Stages -> 0..MaxClicks]
      BY <2>1, <2>3
    <2>5. Clicked' <= MaxClicks
      BY <2>1, <2>2 DEF Clicked, Stages
    <2> QED BY <2>1, <2>4, <2>5 DEF matchVars
  <1>3. CASE Explain
    <2>1. PICK s \in {"answered", "failed", "hanging"} :
             clicks' = [clicks EXCEPT !["queued"] = @ - 1, ![s] = @ + 1]
      BY <1>3 DEF Explain
    <2>2. /\ clicks["queued"] > 0
          /\ UNCHANGED <<matchVars, notifyTasks, notifier, connected, mishaps, told, excused>>
      BY <1>3 DEF Explain
    <2>3. \A u \in Stages : clicks[u] \in 0..MaxClicks
      OBVIOUS
    <2>4. clicks[s] + 1 \in 0..MaxClicks /\ clicks["queued"] - 1 \in 0..MaxClicks
      BY <2>1, <2>2, <2>3, SMTT(20) DEF Clicked, Stages
    <2>5. clicks' \in [Stages -> 0..MaxClicks]
      BY <2>1, <2>4
    <2>6. Clicked' <= MaxClicks
      <3>1. /\ clicks["queued"] \in Nat /\ clicks["answered"] \in Nat
            /\ clicks["failed"] \in Nat /\ clicks["hanging"] \in Nat
        BY <2>3 DEF Stages
      <3>2. clicks'["queued"] = clicks["queued"] - 1
        BY <2>1 DEF Stages
      <3>3. /\ clicks'["answered"] = clicks["answered"] + (IF s = "answered" THEN 1 ELSE 0)
            /\ clicks'["failed"] = clicks["failed"] + (IF s = "failed" THEN 1 ELSE 0)
            /\ clicks'["hanging"] = clicks["hanging"] + (IF s = "hanging" THEN 1 ELSE 0)
        BY <2>1, <3>1 DEF Stages
      <3>4. Clicked' = Clicked
        <4> DEFINE a == clicks["queued"]  b == clicks["answered"]
                   c == clicks["failed"]  d == clicks["hanging"]
        <4>0. Clicked = a + b + c + d
          BY DEF Clicked
        <4>t. a \in Nat /\ b \in Nat /\ c \in Nat /\ d \in Nat
          BY <3>1
        <4> HIDE DEF a, b, c, d
        <4>1. CASE s = "answered"
          <5>1. Clicked' = (a - 1) + (b + 1) + c + d
            BY <3>1, <3>2, <3>3, <4>1 DEF Clicked, a, b, c, d
          <5> QED BY <4>t, <4>0, <5>1
        <4>2. CASE s = "failed"
          <5>1. Clicked' = (a - 1) + b + (c + 1) + d
            BY <3>1, <3>2, <3>3, <4>2 DEF Clicked, a, b, c, d
          <5> QED BY <4>t, <4>0, <5>1
        <4>3. CASE s = "hanging"
          <5>1. Clicked' = (a - 1) + b + c + (d + 1)
            BY <3>1, <3>2, <3>3, <4>3 DEF Clicked, a, b, c, d
          <5> QED BY <4>t, <4>0, <5>1
        <4> QED BY <2>1, <4>1, <4>2, <4>3
      <3> QED BY <3>4
    <2> QED BY <2>2, <2>5, <2>6 DEF matchVars
  <1>4. ASSUME NEW p \in Pairs, WantOrNot(p) \/ BackfillMatch(p)
        PROVE  NotifyTypeOK' /\ ClicksAreFew'
    <2>1. UNCHANGED <<marked, matchTask, tellVars, mishaps>> /\ UNCHANGED Clicked
      BY <1>4 DEF WantOrNot, BackfillMatch, tellVars, Clicked
    <2>2. match' \in [Pairs -> {"none", "no", "yes"}] /\ wanted' \in [Pairs -> BOOLEAN]
      BY <1>4 DEF WantOrNot, BackfillMatch
    <2>3. lapse' \in [Pairs -> Lapses]
      BY <1>4 DEF WantOrNot, BackfillMatch, Lapses
    <2> QED BY <2>1, <2>2, <2>3 DEF tellVars
  <1>5. ASSUME NEW p \in Pairs, NEW r \in Rounds,
               \/ FanOutMatch(p, r) \/ MatchBegins(p, r) \/ MatchKeeps(p, r)
               \/ MatchPair(p, r) \/ MatchWorkerDies(p, r) \/ NothingToTell(p, r)
        PROVE  NotifyTypeOK' /\ ClicksAreFew'
    <2>1. UNCHANGED <<marked, wanted, tellVars>> /\ UNCHANGED Clicked
      BY <1>5 DEF FanOutMatch, MatchBegins, MatchKeeps, MatchPair, MatchWorkerDies, NothingToTell,
                  tellVars, Clicked
    <2>2. PICK stage \in TaskStages : matchTask' = [matchTask EXCEPT ![p][r].at = stage]
      BY <1>5 DEF FanOutMatch, MatchBegins, MatchKeeps, MatchPair, MatchWorkerDies, NothingToTell,
                  TaskStages, AtWork
    <2>3. matchTask' \in [Pairs -> [Rounds -> MatchTasks]]
      BY <1>t, <2>2, TaskMoves DEF TaskTable
    <2>4. match' \in [Pairs -> {"none", "no", "yes"}]
      BY <1>5 DEF FanOutMatch, MatchBegins, MatchKeeps, MatchPair, MatchWorkerDies, NothingToTell
    <2>5. lapse' \in [Pairs -> Lapses]
      <3>1. lapse' = lapse \/ lapse' = [lapse EXCEPT ![p] = "unwanted"]
        <4>1. CASE MatchBegins(p, r) /\ ~wanted[p] /\ Unsaid(p)
          BY <4>1 DEF MatchBegins
        <4>2. CASE MatchBegins(p, r) /\ ~(~wanted[p] /\ Unsaid(p))
          BY <4>2 DEF MatchBegins
        <4> QED BY <1>5, <4>1, <4>2 DEF FanOutMatch, MatchKeeps, MatchPair, MatchWorkerDies, NothingToTell
      <3> QED BY <3>1 DEF Lapses
    <2>6. mishaps' \in 0..MaxMishaps
      <3>1. CASE MatchWorkerDies(p, r)
        BY <3>1 DEF MatchWorkerDies
      <3> QED BY <1>5, <3>1 DEF FanOutMatch, MatchBegins, MatchKeeps, MatchPair, NothingToTell
    <2> QED BY <2>1, <2>3, <2>4, <2>5, <2>6 DEF tellVars
  <1>6. ASSUME NEW p \in Pairs, NEW r \in Rounds, MatchFails(p, r)
        PROVE  NotifyTypeOK' /\ ClicksAreFew'
    <2>1. UNCHANGED <<match, marked, wanted, tellVars, mishaps>> /\ UNCHANGED Clicked
      BY <1>6 DEF MatchFails, tellVars, Clicked
    <2>2. matchTask[p][r] \in MatchTasks
      OBVIOUS
    <2>3. PICK task \in MatchTasks : matchTask' = [matchTask EXCEPT ![p][r] = task]
      <3>1. CASE matchTask[p][r].left = 0
        <4>1. [at |-> "over", left |-> 0] \in MatchTasks
          BY DEF MatchTasks
        <4> QED BY <1>6, <3>1, <4>1 DEF MatchFails
      <3>2. CASE matchTask[p][r].left # 0
        <4>1. [at |-> "queued", left |-> matchTask[p][r].left - 1] \in MatchTasks
          BY <2>2, <3>2 DEF MatchTasks
        <4> QED BY <1>6, <3>2, <4>1 DEF MatchFails
      <3> QED BY <3>1, <3>2
    <2>4. matchTask' \in [Pairs -> [Rounds -> MatchTasks]]
      BY <1>t, <2>3, TaskPut DEF TaskTable
    <2>5. lapse' \in [Pairs -> Lapses]
      BY <1>6 DEF MatchFails, Lapses
    <2> QED BY <2>1, <2>4, <2>5 DEF tellVars
  <1>7. ASSUME NEW p \in Pairs, NEW r \in Rounds, EnqueueNotify(p, r)
        PROVE  NotifyTypeOK' /\ ClicksAreFew'
    <2>1. /\ UNCHANGED <<match, marked, wanted, notifier, connected, clicks, told, excused, mishaps>>
          /\ notifyTasks' = [notifyTasks EXCEPT ![p][MaxRetries] = @ + 1]
          /\ matchTask' = [matchTask EXCEPT ![p][r].at = "over"]
          /\ lapse' = [lapse EXCEPT ![p] = "no"]
      BY <1>7 DEF EnqueueNotify
    <2>2. notifyTasks' \in RetryCounts
      <3>1. MaxRetries \in 0..MaxRetries
        OBVIOUS
      <3> QED BY <1>a, <2>1, <3>1, TaskAdded
    <2>3. matchTask' \in [Pairs -> [Rounds -> MatchTasks]]
      BY <1>t, <2>1, TaskMoves DEF TaskStages, TaskTable
    <2>4. lapse' \in [Pairs -> Lapses] /\ Clicked' <= MaxClicks
      BY <2>1 DEF Lapses, Clicked
    <2> QED BY <2>1, <2>2, <2>3, <2>4 DEF RetryCounts
  <1>8. ASSUME NEW p \in Pairs, DropMatch(p) PROVE NotifyTypeOK' /\ ClicksAreFew'
    <2>1. /\ match' = [match EXCEPT ![p] = "none"] /\ marked' = [marked EXCEPT ![p] = FALSE]
          /\ notifyTasks' = [notifyTasks EXCEPT ![p] = [n \in 0..MaxRetries |-> 0]]
          /\ excused' = [excused EXCEPT ![p] = TRUE]
          /\ UNCHANGED <<wanted, lapse, connected, clicks, mishaps, told>>
      BY <1>8 DEF DropMatch
    <2>2. notifier' \in [Notifiers -> Threads]
      <3>1. \A w \in Notifiers : [notifier[w] EXCEPT !.at = "rowless"] \in Threads
        BY ZenonT(40)
      <3> QED BY <1>8, <1>a, <3>1 DEF DropMatch
    <2>3. notifyTasks' \in [Pairs -> [0..MaxRetries -> Nat]]
      BY <2>1
    <2>4. match' \in [Pairs -> {"none", "no", "yes"}] /\ marked' \in [Pairs -> BOOLEAN]
      BY <2>1
    <2>5. excused' \in [Pairs -> BOOLEAN] /\ Clicked' <= MaxClicks
      BY <2>1 DEF Clicked
    <2>6. matchTask' \in [Pairs -> [Rounds -> MatchTasks]]
      <3> DEFINE row == [r \in Rounds |-> IF matchTask[p][r].at = "known"
                                          THEN [at |-> "gone", left |-> matchTask[p][r].left]
                                          ELSE matchTask[p][r]]
      <3>1. \A r \in Rounds : [at |-> "gone", left |-> matchTask[p][r].left] \in MatchTasks
        BY DEF MatchTasks, AtWork
      <3>2. row \in [Rounds -> MatchTasks]
        BY <3>1
      <3>3. matchTask' = [matchTask EXCEPT ![p] = row]
        BY <1>8 DEF DropMatch
      <3> HIDE DEF row
      <3> QED BY <3>2, <3>3
    <2> QED BY <2>1, <2>2, <2>3, <2>4, <2>5, <2>6
  <1>9. ASSUME NEW w \in Notifiers, NotifyBegins(w) PROVE NotifyTypeOK' /\ ClicksAreFew'
    <2>1. PICK p \in Pairs, n \in 0..MaxRetries :
            /\ notifyTasks[p][n] > 0 /\ notifyTasks' = [notifyTasks EXCEPT ![p][n] = @ - 1]
            /\ notifier' = IF match[p] # "yes" \/ marked[p] THEN notifier
                           ELSE [notifier EXCEPT ![w] = [pair |-> p, left |-> n, at |-> "read"]]
            /\ excused' = [excused EXCEPT ![p] =
                              @ \/ (match[p] = "yes" /\ ~marked[p] /\ Handling(p) # {})]
      BY <1>9 DEF NotifyBegins
    <2>2. notifyTasks' \in RetryCounts
      BY <1>a, <2>1, TaskTaken
    <2>3. notifier' \in [Notifiers -> Threads]
      <3>1. [pair |-> p, left |-> n, at |-> "read"] \in Threads
        OBVIOUS
      <3> QED BY <2>1, <3>1
    <2>4. excused' \in [Pairs -> BOOLEAN]
      BY <2>1
    <2>5. UNCHANGED <<matchVars, connected, clicks, mishaps, told>>
      BY <1>9 DEF NotifyBegins
    <2>6. Clicked' <= MaxClicks
      BY <2>5 DEF Clicked
    <2> QED BY <2>2, <2>3, <2>4, <2>5, <2>6 DEF RetryCounts, matchVars
  <1>10. ASSUME NEW w \in Notifiers, NotifyMuted(w) \/ NotifyMarks(w)
         PROVE  NotifyTypeOK' /\ ClicksAreFew'
    <2>1. /\ marked' = [marked EXCEPT ![notifier[w].pair] = TRUE]
          /\ notifier' = [notifier EXCEPT ![w] = Free]
          /\ UNCHANGED <<match, wanted, matchTask, lapse, notifyTasks, connected,
                         clicks, mishaps, told, excused>>
      BY <1>10 DEF NotifyMuted, NotifyMarks
    <2>2. notifier' \in [Notifiers -> Threads] /\ marked' \in [Pairs -> BOOLEAN]
      BY <1>a, <2>1
    <2>3. Clicked' <= MaxClicks
      BY <2>1 DEF Clicked
    <2> QED BY <2>1, <2>2, <2>3
  <1>11. ASSUME NEW w \in Notifiers, NotifyDelivered(w) \/ NotifyForNothing(w)
         PROVE  NotifyTypeOK' /\ ClicksAreFew'
    <2>1. UNCHANGED <<matchVars, notifyTasks, connected, clicks, mishaps, excused>>
      BY <1>11 DEF NotifyDelivered, NotifyForNothing
    <2>2. told' \in [Pairs -> Nat]
      <3>1. CASE NotifyDelivered(w)
        <4>1. told' = [told EXCEPT ![notifier[w].pair] = @ + 1]
          BY <3>1 DEF NotifyDelivered
        <4>2. 1 \in {0, 1} /\ told \in [Pairs -> Nat]
          OBVIOUS
        <4> QED BY <4>1, <4>2, CountedUp
      <3>2. CASE NotifyForNothing(w)
        <4>1. PICK sent \in {0, 1} : told' = [told EXCEPT ![notifier[w].pair] = @ + sent]
          BY <3>2 DEF NotifyForNothing
        <4>2. told \in [Pairs -> Nat]
          OBVIOUS
        <4> QED BY <4>1, <4>2, CountedUp
      <3> QED BY <1>11, <3>1, <3>2
    <2>3. notifier' \in [Notifiers -> Threads]
      <3>1. [notifier[w] EXCEPT !.at = "delivered"] \in Threads
        OBVIOUS
      <3>2. CASE NotifyDelivered(w)
        BY <3>1, <3>2 DEF NotifyDelivered
      <3>3. CASE NotifyForNothing(w)
        BY <1>a, <3>3 DEF NotifyForNothing
      <3> QED BY <1>11, <3>2, <3>3
    <2>4. Clicked' <= MaxClicks
      BY <2>1 DEF Clicked
    <2> QED BY <2>1, <2>2, <2>3, <2>4 DEF matchVars
  <1>12. ASSUME NEW w \in Notifiers, NotifyFails(w) \/ NotifierDies(w)
         PROVE  NotifyTypeOK' /\ ClicksAreFew'
    <2>1. /\ notifier' = [notifier EXCEPT ![w] = Free]
          /\ UNCHANGED <<match, marked, wanted, matchTask, connected, clicks, told>>
      BY <1>12 DEF NotifyFails, NotifierDies, matchVars
    <2>2. notifyTasks' \in RetryCounts
      <3> DEFINE q == notifier[w].pair
      <3>1. PICK n \in 0..MaxRetries :
               notifyTasks' = notifyTasks \/ notifyTasks' = [notifyTasks EXCEPT ![q][n] = @ + 1]
        <4>1. notifier[w].left \in 0..MaxRetries
          OBVIOUS
        <4>2. CASE NotifierDies(w)
          BY <4>1, <4>2 DEF NotifierDies
        <4>3. CASE NotifyFails(w) /\ notifier[w].left = 0
          BY <4>1, <4>3 DEF NotifyFails
        <4>4. CASE NotifyFails(w) /\ notifier[w].left # 0
          <5>1. notifier[w].left - 1 \in 0..MaxRetries
            BY <4>1, <4>4
          <5> QED BY <5>1, <4>4 DEF NotifyFails
        <4> QED BY <1>12, <4>2, <4>3, <4>4
      <3>2. CASE q \in Pairs
        <4>1. [notifyTasks EXCEPT ![q][n] = @ + 1] \in RetryCounts
          BY <1>a, <3>2, TaskAdded
        <4> QED BY <1>a, <3>1, <4>1
      <3>3. CASE q \notin Pairs
        <4>1. DOMAIN notifyTasks = Pairs
          BY <1>a DEF RetryCounts
        <4>3. [notifyTasks EXCEPT ![q] = [notifyTasks[q] EXCEPT ![n] = @ + 1]] = notifyTasks
          BY <3>3, <1>a DEF RetryCounts
        <4>2. notifyTasks' = notifyTasks
          BY <3>1, <4>3
        <4> QED BY <1>a, <4>2
      <3> QED BY <3>2, <3>3
    <2>3. notifier' \in [Notifiers -> Threads]
      BY <1>a, <2>1
    <2>4. excused' \in [Pairs -> BOOLEAN] /\ lapse' \in [Pairs -> Lapses] /\ mishaps' \in 0..MaxMishaps
      <3>1. CASE NotifyFails(w)
        <4>1. /\ excused' = [excused EXCEPT ![notifier[w].pair] = @ \/ notifier[w].at = "delivered"]
              /\ mishaps' = mishaps
          BY <3>1 DEF NotifyFails
        <4>2. lapse' = lapse \/ lapse' = [lapse EXCEPT ![notifier[w].pair] = "notify retries"]
          <5>1. CASE notifier[w].left = 0
            BY <3>1, <5>1 DEF NotifyFails
          <5>2. CASE notifier[w].left # 0
            BY <3>1, <5>2 DEF NotifyFails
          <5> QED BY <5>1, <5>2
        <4>3. lapse' \in [Pairs -> Lapses]
          BY <4>2 DEF Lapses
        <4> QED BY <4>1, <4>3
      <3>2. CASE NotifierDies(w)
        <4>1. /\ excused' = [excused EXCEPT ![notifier[w].pair] = @ \/ notifier[w].at = "delivered"]
              /\ mishaps < MaxMishaps /\ mishaps' = mishaps + 1 /\ lapse' = lapse
          BY <3>2 DEF NotifierDies, matchVars
        <4>2. excused' \in [Pairs -> BOOLEAN]
          BY <4>1
        <4>3. mishaps' \in 0..MaxMishaps
          BY <4>1
        <4> QED BY <4>1, <4>2, <4>3
      <3> QED BY <1>12, <3>1, <3>2
    <2>5. Clicked' <= MaxClicks
      BY <2>1 DEF Clicked
    <2> QED BY <2>1, <2>2, <2>3, <2>4, <2>5 DEF RetryCounts
  <1>13. CASE UNCHANGED notifyVars
    BY <1>13 DEF notifyVars, matchVars, tellVars, Clicked
  <1>14. [NotifyNext]_notifyVars
    OBVIOUS
  <1> QED BY ONLY <1>1, <1>2, <1>3, <1>4, <1>5, <1>6, <1>7, <1>8, <1>9, <1>10, <1>11, <1>12, <1>13, <1>14
          DEF NotifyNext

(* The ways in which a pair nobody was told about is still spoken for.     *)
ToCome(p) == \E r \in Rounds : matchTask[p][r].at \in {"queued"} \cup AtWork

Voiced(p) ==
  \/ ToCome(p) \/ lapse[p] # "no"
  \/ \E w \in Notifiers : notifier[w].pair = p /\ notifier[w].at # "rowless"
  \/ \E n \in 0..MaxRetries : notifyTasks[p][n] > 0

LEMMA UnsaidStep ==
  ASSUME NotifyTypeOK, NothingStaysUnsaid, [NotifyNext]_notifyVars
  PROVE  NothingStaysUnsaid'
  <1> SUFFICES ASSUME NEW p \in Pairs, match'[p] = "yes", ~marked'[p]
               PROVE  Voiced(p)'
    BY DEF NothingStaysUnsaid, Unsaid, Voiced, ToCome, Handling
  <1>a. match[p] = "yes" /\ ~marked[p] => Voiced(p)
    BY DEF NothingStaysUnsaid, Unsaid, Voiced, ToCome, Handling
  <1> USE NotifyAssumption DEF NotifyTypeOK, Voiced, Free
  <1>t. matchTask \in TaskTable
    BY DEF TaskTable
  <1>1. CASE Connect \/ TelegramWebhook \/ Explain
    BY <1>1, <1>a DEF Connect, TelegramWebhook, Explain, matchVars, ToCome
  <1>2. ASSUME NEW q \in Pairs, NEW r \in Rounds, EnqueueNotify(q, r) PROVE Voiced(p)'
    <2>1. /\ notifyTasks' = [notifyTasks EXCEPT ![q][MaxRetries] = @ + 1]
          /\ matchTask' = [matchTask EXCEPT ![q][r].at = "over"]
          /\ lapse' = [lapse EXCEPT ![q] = "no"] /\ UNCHANGED <<match, marked, notifier>>
      BY <1>2 DEF EnqueueNotify
    <2>2. notifyTasks \in RetryCounts /\ MaxRetries \in 0..MaxRetries
      BY DEF RetryCounts
    <2>3. /\ notifyTasks'[q][MaxRetries] > 0
          /\ \A n \in 0..MaxRetries : notifyTasks'[p][n] >= notifyTasks[p][n]
      BY <2>1, <2>2, TaskAdded
    <2>4. CASE p = q
      BY <2>2, <2>3, <2>4
    <2>5. CASE p # q
      <3>1. lapse'[p] = lapse[p]
        BY <2>1, <2>5
      <3>2. ToCome(p) => ToCome(p)'
        <4>1. \A k \in Rounds : matchTask'[p][k] = matchTask[p][k]
          BY <2>1, <2>5
        <4> QED BY <4>1 DEF ToCome
      <3>3. \A n \in 0..MaxRetries : notifyTasks[p][n] \in Nat /\ notifyTasks'[p][n] \in Nat
        BY <2>1, <2>2, TaskAdded DEF RetryCounts
      <3> QED BY <1>a, <2>1, <2>3, <3>1, <3>2, <3>3
    <2> QED BY <2>4, <2>5
  <1>3. ASSUME NEW q \in Pairs, WantOrNot(q) \/ BackfillMatch(q) PROVE Voiced(p)'
    <2>1. UNCHANGED <<marked, matchTask, notifyTasks, notifier>>
      BY <1>3 DEF WantOrNot, BackfillMatch, tellVars
    <2>2. ToCome(p) => ToCome(p)'
      BY <2>1 DEF ToCome
    <2>3. CASE match[p] = "yes"
      <3>1. lapse[p] # "no" => lapse'[p] # "no"
        BY <1>3 DEF WantOrNot, BackfillMatch
      <3> QED BY <1>a, <2>1, <2>2, <2>3, <3>1
    <2>4. CASE match[p] # "yes"
      <3>1. lapse'[p] = "backfill"
        <4>1. PICK verdict \in {"no", "yes"} :
                /\ match' = [match EXCEPT ![q] = verdict]
                /\ lapse' = [lapse EXCEPT ![q] =
                       IF verdict = "yes" /\ match[q] # "yes" /\ ~marked[q] THEN "backfill" ELSE @]
          BY <1>3, <2>4 DEF WantOrNot, BackfillMatch
        <4>2. p = q /\ verdict = "yes"
          BY <2>4, <4>1
        <4> QED BY <2>1, <2>4, <4>1, <4>2
      <3> QED BY <3>1
    <2> QED BY <2>3, <2>4
  <1>4. ASSUME NEW q \in Pairs, NEW r \in Rounds,
               FanOutMatch(q, r) \/ MatchKeeps(q, r) \/ MatchPair(q, r) \/ MatchWorkerDies(q, r)
        PROVE  Voiced(p)'
    <2>1. UNCHANGED <<marked, lapse, notifyTasks, notifier>>
      BY <1>4 DEF FanOutMatch, MatchKeeps, MatchPair, MatchWorkerDies, tellVars
    <2>2. PICK stage \in {"queued", "done"} : matchTask' = [matchTask EXCEPT ![q][r].at = stage]
      BY <1>4 DEF FanOutMatch, MatchKeeps, MatchPair, MatchWorkerDies
    <2>3. /\ matchTask'[q][r].at = stage
          /\ \A o \in Pairs : o # q => matchTask'[o] = matchTask[o]
      BY <1>t, <2>2, TaskMoves DEF TaskStages, AtWork
    <2>4. p = q => ToCome(p)'
      BY <2>3 DEF ToCome, AtWork
    <2>5. p # q => match'[p] = match[p] /\ (ToCome(p) => ToCome(p)')
      <3>1. p # q => \A k \in Rounds : matchTask'[p][k] = matchTask[p][k]
        BY <2>3
      <3> QED BY <1>4, <3>1 DEF ToCome, FanOutMatch, MatchKeeps, MatchPair, MatchWorkerDies
    <2> QED BY <1>a, <2>1, <2>4, <2>5
  <1>5. ASSUME NEW q \in Pairs, NEW r \in Rounds,
               MatchBegins(q, r) \/ NothingToTell(q, r) \/ MatchFails(q, r)
        PROVE  Voiced(p)'
    <2>1. UNCHANGED <<match, marked, notifyTasks, notifier>>
      BY <1>5 DEF MatchBegins, NothingToTell, MatchFails, tellVars
    <2>2. p # q => lapse'[p] = lapse[p] /\ (ToCome(p) => ToCome(p)')
      <3>1. p # q => lapse'[p] = lapse[p] /\ \A k \in Rounds : matchTask'[p][k] = matchTask[p][k]
        BY <1>5 DEF MatchBegins, NothingToTell, MatchFails
      <3> QED BY <3>1 DEF ToCome
    <2>3. CASE p = q
      <3>0. Unsaid(q)
        BY <2>1, <2>3 DEF Unsaid
      <3>1. CASE MatchBegins(q, r)
        <4>1. CASE wanted[q]
          <5>1. PICK stage \in {"new", "known"} : matchTask' = [matchTask EXCEPT ![q][r].at = stage]
            BY <3>1, <4>1 DEF MatchBegins
          <5>2. matchTask'[q][r].at = stage
            BY <1>t, <5>1, TaskMoves DEF TaskStages, AtWork
          <5> QED BY <2>3, <5>2 DEF ToCome, AtWork
        <4>2. CASE ~wanted[q]
          BY <2>3, <3>0, <3>1, <4>2 DEF MatchBegins
        <4> QED BY <4>1, <4>2
      <3>2. CASE NothingToTell(q, r)
        BY <3>0, <3>2 DEF NothingToTell
      <3>3. CASE MatchFails(q, r)
        <4>1. CASE matchTask[q][r].left = 0
          BY <2>3, <3>0, <3>3, <4>1 DEF MatchFails
        <4>2. CASE matchTask[q][r].left # 0
          <5>1. matchTask'[q][r].at = "queued"
            BY <3>3, <4>2 DEF MatchFails
          <5> QED BY <2>3, <5>1 DEF ToCome
        <4> QED BY <4>1, <4>2
      <3> QED BY <1>5, <3>1, <3>2, <3>3
    <2> QED BY <1>a, <2>1, <2>2, <2>3
  <1>6. ASSUME NEW q \in Pairs, DropMatch(q) PROVE Voiced(p)'
    <2>1. p # q
      BY <1>6 DEF DropMatch
    <2>2. \A k \in Rounds : matchTask'[p][k] = matchTask[p][k]
      BY <1>6, <2>1 DEF DropMatch
    <2>3. ToCome(p) => ToCome(p)'
      BY <2>2 DEF ToCome
    <2> QED BY <1>6, <1>a, <2>1, <2>3 DEF DropMatch
  <1>7. ASSUME NEW w \in Notifiers, NotifyBegins(w) PROVE Voiced(p)'
    BY <1>7, <1>a DEF NotifyBegins, matchVars, ToCome
  <1>8. ASSUME NEW w \in Notifiers, NotifyMuted(w) PROVE Voiced(p)'
    BY <1>8, <1>a DEF NotifyMuted, matchVars, ToCome
  <1>9. ASSUME NEW w \in Notifiers, NotifyDelivered(w) PROVE Voiced(p)'
    BY <1>9, <1>a DEF NotifyDelivered, matchVars, ToCome
  <1>10. ASSUME NEW w \in Notifiers, NotifyMarks(w) PROVE Voiced(p)'
    BY <1>10, <1>a DEF NotifyMarks, matchVars, ToCome
  <1>11. ASSUME NEW w \in Notifiers, NotifyFails(w) PROVE Voiced(p)'
    <2>0. ToCome(p) => ToCome(p)'
      BY <1>11 DEF NotifyFails, ToCome
    <2>1. CASE notifier[w].left = 0
      BY <1>11, <1>a, <2>0, <2>1 DEF NotifyFails
    <2>2. CASE notifier[w].left # 0
      <3> DEFINE q == notifier[w].pair  n == notifier[w].left - 1
      <3>1. notifyTasks' = [notifyTasks EXCEPT ![q][n] = @ + 1]
        BY <1>11, <2>2 DEF NotifyFails
      <3>2. n \in 0..MaxRetries
        BY <2>2
      <3>3. CASE q = p
        <4>1. notifyTasks'[p][n] > 0
          BY <3>1, <3>2, <3>3, TaskAdded DEF RetryCounts
        <4> QED BY <3>2, <4>1
      <3>4. CASE q # p
        BY <1>11, <1>a, <2>0, <2>2, <3>1, <3>4 DEF NotifyFails
      <3> QED BY <3>3, <3>4
    <2> QED BY <2>1, <2>2
  <1>12. ASSUME NEW w \in Notifiers, NotifyForNothing(w) PROVE Voiced(p)'
    BY <1>12, <1>a DEF NotifyForNothing, matchVars, ToCome
  <1>13. ASSUME NEW w \in Notifiers, NotifierDies(w) PROVE Voiced(p)'
    BY <1>13, <1>a DEF NotifierDies, matchVars, ToCome
  <1>14. CASE UNCHANGED notifyVars
    BY <1>14, <1>a DEF notifyVars, matchVars, tellVars, ToCome
  <1> QED BY <1>1, <1>2, <1>3, <1>4, <1>5, <1>6, <1>7, <1>8, <1>9, <1>10, <1>11, <1>12, <1>13, <1>14 DEF NotifyNext

LEMMA CarefulStep ==
  ASSUME NotifyTypeOK, PairsAreCareful, [NotifyNext]_notifyVars
  PROVE  PairsAreCareful'
  <1> USE NotifyAssumption DEF NotifyTypeOK, PairsAreCareful, OneAtATime, ToldOnce, Free
  <1>1. CASE Connect \/ TelegramWebhook \/ Explain
    BY <1>1 DEF Connect, TelegramWebhook, Explain, matchVars
  <1>2. ASSUME NEW p \in Pairs, WantOrNot(p) \/ BackfillMatch(p)
        PROVE  PairsAreCareful'
    <2>1. UNCHANGED <<marked, notifier, told, excused>>
      BY <1>2 DEF WantOrNot, BackfillMatch, tellVars
    <2> QED BY <2>1
  <1>3. ASSUME NEW p \in Pairs, NEW r \in Rounds,
               \/ FanOutMatch(p, r) \/ MatchBegins(p, r) \/ MatchKeeps(p, r) \/ MatchPair(p, r)
               \/ MatchFails(p, r) \/ MatchWorkerDies(p, r) \/ EnqueueNotify(p, r) \/ NothingToTell(p, r)
        PROVE  PairsAreCareful'
    <2>1. UNCHANGED <<marked, notifier, told, excused>>
      BY <1>3 DEF FanOutMatch, MatchBegins, MatchKeeps, MatchPair, MatchFails,
                  MatchWorkerDies, EnqueueNotify, NothingToTell, tellVars
    <2> QED BY <2>1
  <1>5. ASSUME NEW p \in Pairs, DropMatch(p)
        PROVE  PairsAreCareful'
    BY <1>5 DEF DropMatch
  <1>6. ASSUME NEW w \in Notifiers, NotifyBegins(w)
        PROVE  PairsAreCareful'
    <2>1. PICK p \in Pairs, n \in 0..MaxRetries :
            /\ notifier' = IF match[p] # "yes" \/ marked[p] THEN notifier
                           ELSE [notifier EXCEPT ![w] = [pair |-> p, left |-> n, at |-> "read"]]
            /\ excused' = [excused EXCEPT ![p] =
                              @ \/ (match[p] = "yes" /\ ~marked[p] /\ Handling(p) # {})]
      BY <1>6 DEF NotifyBegins
    <2>2. notifier[w].pair = NoPair /\ told' = told /\ marked' = marked
      BY <1>6 DEF NotifyBegins, matchVars
    <2>3. CASE match[p] # "yes" \/ marked[p]
      BY <2>1, <2>2, <2>3
    <2>4. CASE match[p] = "yes" /\ ~marked[p]
      <3>1. \A q \in Pairs : ~excused'[q] => ~excused[q]
        BY <2>1
      <3>2. notifier' = [notifier EXCEPT ![w] = [pair |-> p, left |-> n, at |-> "read"]]
        BY <2>1, <2>4
      <3>3. ~excused'[p] => \A v \in Notifiers : notifier[v].pair # p
        BY <2>1, <2>4, <3>1 DEF Handling
      <3>4. ~excused'[p] => told[p] = 0
        BY <3>1, <3>3, <2>4
      <3>5. ASSUME NEW q \in Pairs, ~excused'[q] PROVE OneAtATime(q)'
        <4>1. \A v \in Notifiers \ {w} : notifier'[v] = notifier[v]
          BY <3>2
        <4>2. notifier'[w].pair = p
          BY <3>2
        <4>3. CASE q = p
          <5>1. \A v \in Notifiers \ {w} : notifier'[v].pair # p
            BY <3>3, <3>5, <4>1, <4>3
          <5> QED BY <5>1, <4>3
        <4>4. CASE q # p
          <5>1. \A v \in Notifiers : notifier'[v].pair = q => v # w /\ notifier[v].pair = q
            BY <4>1, <4>2, <4>4
          <5>2. OneAtATime(q)
            BY <3>1, <3>5
          <5> QED BY <5>1, <5>2
        <4> QED BY <4>3, <4>4
      <3>6. ASSUME NEW q \in Pairs, ~excused'[q] PROVE ToldOnce(q)'
        <4>1. CASE q = p
          BY <2>2, <3>1, <3>2, <3>3, <3>4, <3>6, <4>1
        <4>2. CASE q # p
          BY <2>2, <3>1, <3>2, <3>6, <4>2
        <4> QED BY <4>1, <4>2
      <3> QED BY <3>5, <3>6
    <2> QED BY <2>3, <2>4
  <1>7. ASSUME NEW w \in Notifiers, NotifyMuted(w)
        PROVE  PairsAreCareful'
    BY <1>7 DEF NotifyMuted
  <1>12. ASSUME NEW w \in Notifiers, NotifyDelivered(w)
        PROVE  PairsAreCareful'
    <2> DEFINE p == notifier[w].pair
    <2>1. /\ notifier[w].at = "read"
          /\ told' = [told EXCEPT ![p] = @ + 1]
          /\ notifier' = [notifier EXCEPT ![w].at = "delivered"]
          /\ marked' = marked /\ excused' = excused
      BY <1>12 DEF NotifyDelivered, matchVars
    <2>2. /\ notifier'[w].at = "delivered" /\ notifier'[w].pair = p
          /\ \A v \in Notifiers \ {w} : notifier'[v] = notifier[v]
      BY <2>1
    <2>3. ASSUME NEW q \in Pairs, ~excused[q]
          PROVE  OneAtATime(q)' /\ ToldOnce(q)'
      <3>1. OneAtATime(q) /\ ToldOnce(q)
        BY <2>3
      <3>2. OneAtATime(q)'
        <4>1. \A v \in Notifiers : notifier'[v].pair = notifier[v].pair
          BY <2>2
        <4> QED BY <3>1, <4>1
      <3>3. CASE q = p
        <4>1. told[q] = 0 /\ told'[q] = 1
          BY <2>1, <3>1, <3>3
        <4>2. \A v \in Notifiers : notifier'[v].pair = q => v = w
          BY <2>2, <3>2, <3>3
        <4> QED BY <2>2, <3>2, <3>3, <4>1, <4>2
      <3>4. CASE q # p
        <4>1. told'[q] = told[q]
          BY <2>1, <3>4
        <4>2. \A v \in Notifiers : (notifier'[v].pair = q \/ notifier[v].pair = q) =>
                                     v # w /\ notifier'[v] = notifier[v]
          BY <2>2, <3>4
        <4> HIDE DEF p
        <4> QED BY <2>1, <3>1, <3>2, <4>1, <4>2
      <3> QED BY <3>3, <3>4
    <2> QED BY <2>1, <2>3
  <1>13. ASSUME NEW w \in Notifiers, NotifyMarks(w)
        PROVE  PairsAreCareful'
    BY <1>13 DEF NotifyMarks
  <1>9. ASSUME NEW w \in Notifiers, NotifyForNothing(w)
        PROVE  PairsAreCareful'
    BY <1>9 DEF NotifyForNothing, matchVars
  <1>10. ASSUME NEW w \in Notifiers, NotifierDies(w) \/ NotifyFails(w)
        PROVE  PairsAreCareful'
    <2>1. /\ excused' = [excused EXCEPT ![notifier[w].pair] = @ \/ notifier[w].at = "delivered"]
          /\ notifier' = [notifier EXCEPT ![w] = Free] /\ UNCHANGED <<told, marked>>
          /\ notifier[w].at \in {"read", "delivered"}
      BY <1>10 DEF NotifierDies, NotifyFails, matchVars
    <2>2. \A q \in Pairs : ~excused'[q] =>
            ~excused[q] /\ (notifier[w].pair = q => notifier[w].at = "read")
      BY <2>1, ZenonT(40)
    <2>3. ASSUME NEW q \in Pairs, ~excused'[q] PROVE OneAtATime(q)'
      BY <2>1, <2>2, <2>3
    <2>4. ASSUME NEW q \in Pairs, ~excused'[q] PROVE ToldOnce(q)'
      BY <2>1, <2>2, <2>4
    <2> QED BY <2>3, <2>4
  <1>11. CASE UNCHANGED notifyVars
    BY <1>11 DEF notifyVars, matchVars, tellVars
  <1> QED BY <1>1, <1>2, <1>3, <1>5, <1>6, <1>7, <1>12, <1>13, <1>9, <1>10, <1>11 DEF NotifyNext

NotifyInv == NotifyTypeOK /\ ClicksAreFew /\ PairsAreCareful /\ NothingStaysUnsaid

LEMMA NotifyInvariant == NotifySpec => []NotifyInv
  <1>1. NotifyInit => NotifyInv
    BY NotifyInitially DEF NotifyInv
  <1>2. NotifyInv /\ [NotifyNext]_notifyVars => NotifyInv'
    BY NotifyTypeStep, CarefulStep, UnsaidStep DEF NotifyInv
  <1> QED BY <1>1, <1>2, PTL DEF NotifySpec

(* A second message about a pair takes a dropped row, a message whose mark  *)
(* did not follow (a death, a lost answer), or two threads on the pair      *)
(* (models.py:683-685), for any number of analyses, workers and retries.    *)
THEOREM PairIsToldOnce == NotifySpec => []OneMessagePerPair
  <1>1. NotifyInv => OneMessagePerPair
    BY DEF NotifyInv, NotifyTypeOK, PairsAreCareful, ToldOnce, OneMessagePerPair
  <1> QED BY <1>1, NotifyInvariant, PTL

(* A positive match nobody was told about has a match task, a notification  *)
(* or a thread to come (matching.py:71-73), whatever dies in between, for   *)
(* any number of pairs, analyses and threads, unless since the last         *)
(* notification queued for the pair a backfill wrote the verdict, a task    *)
(* came back to a query that does not want the lot any more, or the retries *)
(* of match_actor or notify_actor ran out.                                  *)
THEOREM MatchIsSpokenFor == NotifySpec => []NothingStaysUnsaid
  BY NotifyInvariant, PTL DEF NotifyInv

-----------------------------------------------------------------------------
(* Plan points are told once.                                               *)

WorkingPasses == {n \in Passes : passing[n].stage = "working"}
CarryingPasses(pair) == {n \in Passes : pair \in passing[n].pending}
MeaningPasses(pair) == {n \in Passes : passing[n].query = pair[1] /\ pair[2] \in passing[n].todo}

PassRecord == [stage : {"waiting", "working", "over"}, left : SUBSET PlanQueries,
            query : PlanQueries \cup {NoQuery}, todo : SUBSET Points,
            pending : SUBSET PointPairs]

PassShape ==
  /\ passing \in [Passes -> PassRecord]
  /\ \A n \in Passes :
       /\ passing[n].stage # "working" => passing[n].query = NoQuery
       /\ passing[n].query = NoQuery => passing[n].todo = {} /\ passing[n].pending = {}
       /\ \A p \in passing[n].todo : <<passing[n].query, p>> \notin passing[n].pending
  /\ open \subseteq Points
  /\ sends \in [PointPairs -> Nat] /\ interrupts \in Nat

PairCounted(pair) ==
  /\ pair \notin recorded =>
       /\ sends[pair] <= interrupts + Cardinality(CarryingPasses(pair))
       /\ sends[pair] + Cardinality(WorkingPasses \ CarryingPasses(pair)) <= 1 + interrupts
  /\ pair \in recorded => sends[pair] + Cardinality(MeaningPasses(pair)) <= 1 + interrupts

PlanNotifyInv == PassShape /\ \A pair \in PointPairs : PairCounted(pair)

LEMMA CountPasses ==
  ASSUME NEW S \in SUBSET Passes, NEW T \in SUBSET Passes, NEW n \in Passes
  PROVE  /\ Cardinality(S) \in Nat /\ Cardinality(T) \in Nat
         /\ S \subseteq T => Cardinality(S) <= Cardinality(T)
         /\ S \subseteq T \cup {n} => Cardinality(S) <= Cardinality(T) + 1
         /\ n \in T /\ S \subseteq T \ {n} => Cardinality(S) + 1 <= Cardinality(T)
  <1>0. IsFiniteSet(Passes) /\ IsFiniteSet(S) /\ IsFiniteSet(T)
    BY FS_Subset, PlanNotifyAssumption
  <1>1. Cardinality(S) \in Nat /\ Cardinality(T) \in Nat
    BY <1>0, FS_CardinalityType
  <1>2. S \subseteq T => Cardinality(S) <= Cardinality(T)
    BY <1>0, FS_Subset
  <1>3. ASSUME S \subseteq T \cup {n} PROVE Cardinality(S) <= Cardinality(T) + 1
    <2>0. /\ IsFiniteSet(T \cup {n})
          /\ Cardinality(T \cup {n}) = IF n \in T THEN Cardinality(T) ELSE Cardinality(T) + 1
      BY <1>0, FS_AddElement
    <2>1. IsFiniteSet(T \cup {n}) /\ Cardinality(T \cup {n}) <= Cardinality(T) + 1
      BY <2>0, <1>1
    <2>2. Cardinality(S) <= Cardinality(T \cup {n})
      BY <1>3, <2>1, FS_Subset
    <2>3. Cardinality(T \cup {n}) \in Nat
      BY <2>1, FS_CardinalityType
    <2> QED BY <1>1, <2>1, <2>2, <2>3
  <1>4. ASSUME n \in T, S \subseteq T \ {n} PROVE Cardinality(S) + 1 <= Cardinality(T)
    <2>1. IsFiniteSet(T \ {n}) /\ Cardinality(T \ {n}) = Cardinality(T) - 1
      BY <1>0, <1>4, FS_RemoveElement
    <2>2. Cardinality(S) <= Cardinality(T \ {n})
      BY <1>4, <2>1, FS_Subset
    <2> QED BY <1>1, <2>1, <2>2
  <1> QED BY <1>1, <1>2, <1>3, <1>4

LEMMA CandidatesAreNew ==
  ASSUME open \subseteq Points, NEW q \in PlanQueries
  PROVE  Candidates(q) \subseteq {p \in Points : <<q, p>> \notin recorded}
  BY DEF Candidates, First, Unrecorded

LEMMA PassShapeStep ==
  ASSUME PassShape, [PlanNotifyNext]_planNotifyVars
  PROVE  PassShape'
  <1> USE PlanNotifyAssumption DEF PassShape, PassRecord
  <1>1. ASSUME NEW p \in Points, PointOpens(p) \/ PointCloses(p) PROVE PassShape'
    BY <1>1 DEF PointOpens, PointCloses
  <1>2. ASSUME NEW q \in PlanQueries, Toggles(q) PROVE PassShape'
    BY <1>2 DEF Toggles
  <1>3. ASSUME NEW n \in Passes, PassStarts(n) PROVE PassShape'
    BY <1>3 DEF PassStarts
  <1>4. ASSUME NEW n \in Passes, QueryCommits(n) PROVE PassShape'
    BY <1>4, ZenonT(40) DEF QueryCommits
  <1>5. ASSUME NEW n \in Passes, PassEnds(n) PROVE PassShape'
    BY <1>5 DEF PassEnds
  <1>6. ASSUME NEW n \in Passes, PassFails(n) PROVE PassShape'
    BY <1>6 DEF PassFails, Waiting
  <1>7. ASSUME NEW n \in Passes, NEW q \in PlanQueries, TakesQuery(n, q) PROVE PassShape'
    <2>1. passing' = [passing EXCEPT ![n].left = @ \ {q},
                   ![n].query = IF q \in toggled THEN q ELSE NoQuery,
                   ![n].todo = IF q \in toggled THEN Candidates(q) ELSE {}]
      BY <1>7 DEF TakesQuery
    <2>2. Candidates(q) \subseteq Points
      BY CandidatesAreNew
    <2>3. passing[n].stage = "working" /\ passing[n].query = NoQuery
          /\ UNCHANGED <<open, sends, interrupts>>
      BY <1>7 DEF TakesQuery
    <2>4. /\ \A k \in Passes : k # n => passing'[k] = passing[k]
          /\ passing'[n].pending = {} /\ passing'[n].stage = "working"
          /\ passing'[n].query = IF q \in toggled THEN q ELSE NoQuery
          /\ passing'[n].todo = IF q \in toggled THEN Candidates(q) ELSE {}
      BY <2>1, <2>3
    <2>5. passing' \in [Passes -> PassRecord]
      <3> DEFINE query == IF q \in toggled THEN q ELSE NoQuery
                 todo == IF q \in toggled THEN Candidates(q) ELSE {}
      <3>1. query \in PlanQueries \cup {NoQuery} /\ todo \in SUBSET Points
        BY <2>2
      <3>2. passing' = [passing EXCEPT ![n].left = @ \ {q}, ![n].query = query, ![n].todo = todo]
        BY <2>1
      <3> HIDE DEF query, todo
      <3>3. passing[n] \in PassRecord /\ DOMAIN passing = Passes
        OBVIOUS
      <3>4. [passing[n] EXCEPT !.left = @ \ {q}] \in PassRecord
        BY <3>3
      <3>5. [[passing[n] EXCEPT !.left = @ \ {q}] EXCEPT !.query = query] \in PassRecord
        BY <3>1, <3>4
      <3>6. [[[passing[n] EXCEPT !.left = @ \ {q}] EXCEPT !.query = query] EXCEPT !.todo = todo] \in PassRecord
        BY <3>1, <3>5
      <3>7. passing' = [passing EXCEPT ![n] =
               [[[passing[n] EXCEPT !.left = @ \ {q}] EXCEPT !.query = query] EXCEPT !.todo = todo]]
        BY <3>2, <3>3
      <3> QED BY <3>6, <3>7
    <2> QED BY <2>3, <2>4, <2>5
  <1>8. ASSUME NEW n \in Passes, NEW p \in Points, Tells(n, p) PROVE PassShape'
    <2> DEFINE q == passing[n].query
    <2>1. p \in passing[n].todo /\ UNCHANGED <<open, interrupts>> /\ q \in PlanQueries
      BY <1>8 DEF Tells
    <2>2. CASE Deliverable(q, p)
      <3>1. PICK sent \in {0, 1} :
              /\ passing' = [passing EXCEPT ![n].todo = @ \ {p}, ![n].pending = @ \cup {<<q, p>>}]
              /\ sends' = [sends EXCEPT ![<<q, p>>] = @ + sent]
        BY <1>8, <2>2 DEF Tells
      <3>2. <<q, p>> \in PointPairs
        BY <2>1 DEF PointPairs
      <3>3. sends' \in [PointPairs -> Nat]
        BY <3>1, <3>2
      <3> QED BY <2>1, <3>1, <3>2, <3>3
    <2>3. CASE ~Deliverable(q, p)
      BY <1>8, <2>1, <2>3 DEF Tells
    <2> QED BY <2>2, <2>3
  <1>9. CASE UNCHANGED planNotifyVars
    BY <1>9 DEF planNotifyVars
  <1> QED BY <1>1, <1>2, <1>3, <1>4, <1>5, <1>6, <1>7, <1>8, <1>9 DEF PlanNotifyNext

(* What a step does to the passes that carry a pair, that mean to send it, *)
(* and that work without it, decides about the count.                      *)
LEMMA PairStep ==
  ASSUME PassShape, PassShape', NEW pair \in PointPairs, PairCounted(pair),
         [PlanNotifyNext]_planNotifyVars
  PROVE  PairCounted(pair)'
  <1> DEFINE C == CarryingPasses(pair)  M == MeaningPasses(pair)  R == WorkingPasses \ CarryingPasses(pair)
             c == Cardinality(C)  m == Cardinality(M)  r == Cardinality(R)
             s == sends[pair]     i == interrupts
  <1>a. /\ C \in SUBSET Passes /\ C' \in SUBSET Passes /\ M \in SUBSET Passes
        /\ M' \in SUBSET Passes /\ R \in SUBSET Passes /\ R' \in SUBSET Passes
    BY DEF CarryingPasses, MeaningPasses, WorkingPasses
  <1>b. s \in Nat /\ i \in Nat /\ s' \in Nat /\ i' \in Nat
    BY DEF PassShape
  <1>c. /\ c \in Nat /\ m \in Nat /\ r \in Nat /\ c' \in Nat /\ m' \in Nat /\ r' \in Nat
    BY <1>a, FS_Subset, FS_CardinalityType, PlanNotifyAssumption
  <1>d. /\ pair \notin recorded => s <= i + c /\ s + r <= 1 + i
        /\ pair \in recorded => s + m <= 1 + i
    BY DEF PairCounted
  <1>e. ASSUME pair \notin recorded' => s' <= i' + c' /\ s' + r' <= 1 + i',
               pair \in recorded' => s' + m' <= 1 + i'
        PROVE  PairCounted(pair)'
    BY <1>e DEF PairCounted
  <1>1. CASE UNCHANGED <<passing, sends, recorded, interrupts>>
    BY <1>1 DEF PairCounted, CarryingPasses, MeaningPasses, WorkingPasses
  <1>2. ASSUME NEW n \in Passes, PassStarts(n) PROVE PairCounted(pair)'
    <2>1. /\ C' = C /\ M' = M /\ R' = R \cup {n} /\ s' = s /\ recorded' = recorded
          /\ i' = i \/ i' = i + 1
      BY <1>2 DEF PassStarts, CarryingPasses, MeaningPasses, WorkingPasses, PassShape
    <2>2. CASE \E k \in Passes : passing[k].stage = "working"
      <3>1. i' = i + 1
        BY <1>2, <2>2 DEF PassStarts
      <3>2. r' <= r + 1 /\ c' = c /\ m' = m
        BY <1>a, <2>1, CountPasses
      <3> QED BY <1>b, <1>c, <1>d, <1>e, <2>1, <3>1, <3>2
    <2>3. CASE ~\E k \in Passes : passing[k].stage = "working"
      <3>1. i' = i /\ C = {} /\ R = {}
        BY <1>2, <2>3 DEF PassStarts, CarryingPasses, WorkingPasses, PassShape
      <3>2. c' = c /\ c = 0 /\ m' = m
        BY <2>1, <3>1, FS_EmptySet
      <3>3. R' = {n}
        BY <2>1, <3>1
      <3>4. r' = 1
        BY <3>3, FS_Singleton
      <3> HIDE DEF c, m, r, s, i
      <3> QED BY <1>b, <1>c, <1>d, <1>e, <2>1, <3>1, <3>2, <3>4
    <2> QED BY <2>2, <2>3
  <1>3. ASSUME NEW n \in Passes, NEW q \in PlanQueries, TakesQuery(n, q) PROVE PairCounted(pair)'
    <2>1. UNCHANGED <<sends, recorded, interrupts>>
      BY <1>3 DEF TakesQuery
    <2>2. C' = C /\ R' = R
      BY <1>3 DEF TakesQuery, CarryingPasses, WorkingPasses, PassShape
    <2>3. pair \in recorded => M' \subseteq M
      <3>1. \A k \in Passes : k # n => passing'[k] = passing[k]
        BY <1>3 DEF TakesQuery, PassShape
      <3>2. \/ passing'[n].query = q /\ passing'[n].todo = Candidates(q)
            \/ passing'[n].todo = {}
        BY <1>3 DEF TakesQuery, PassShape
      <3>3. Candidates(q) \subseteq {p \in Points : <<q, p>> \notin recorded}
        BY CandidatesAreNew DEF PassShape
      <3>4. pair = <<pair[1], pair[2]>>
        BY DEF PointPairs
      <3> QED BY <3>1, <3>2, <3>3, <3>4 DEF MeaningPasses
    <2>4. pair \in recorded => m' <= m
      BY <1>a, <1>3, <2>3, CountPasses
    <2>5. c' = c /\ r' = r
      BY <2>2
    <2>6. s' = s /\ i' = i /\ recorded' = recorded
      BY <2>1
    <2> QED BY <1>b, <1>c, <1>d, <1>e, <2>4, <2>5, <2>6
  <1>4. ASSUME NEW n \in Passes, NEW p \in Points, Tells(n, p) PROVE PairCounted(pair)'
    <2> DEFINE q == passing[n].query
    <2>1. /\ p \in passing[n].todo /\ UNCHANGED <<recorded, interrupts>> /\ q \in PlanQueries
          /\ passing[n].stage = "working" /\ <<q, p>> \notin passing[n].pending
      <3>1. p \in passing[n].todo /\ UNCHANGED <<recorded, interrupts>>
        BY <1>4 DEF Tells
      <3>2. q # NoQuery /\ passing[n].stage = "working" /\ <<q, p>> \notin passing[n].pending
        BY <3>1 DEF PassShape
      <3>3. q \in PlanQueries
        BY <3>2 DEF PassShape, PassRecord
      <3> QED BY <3>1, <3>2, <3>3
    <2>2. CASE Deliverable(q, p)
      <3>1. PICK sent \in {0, 1} :
              /\ passing' = [passing EXCEPT ![n].todo = @ \ {p}, ![n].pending = @ \cup {<<q, p>>}]
              /\ sends' = [sends EXCEPT ![<<q, p>>] = @ + sent]
        BY <1>4, <2>2 DEF Tells
      <3>2. /\ \A k \in Passes : k # n => passing'[k] = passing[k]
            /\ passing'[n].todo = passing[n].todo \ {p} /\ passing'[n].query = q
            /\ passing'[n].pending = passing[n].pending \cup {<<q, p>>}
            /\ passing'[n].stage = "working"
        BY <2>1, <3>1 DEF PassShape
      <3>3. CASE pair = <<q, p>>
        <4>1. s' <= s + 1
          BY <1>b, <3>1, <3>3 DEF PassShape
        <4>2. /\ n \notin C /\ C' = C \cup {n} /\ n \in R /\ R' \subseteq R \ {n}
              /\ n \in M /\ M' \subseteq M \ {n}
          BY <2>1, <3>2, <3>3 DEF CarryingPasses, MeaningPasses, WorkingPasses
        <4>3. c + 1 <= c'
          <5>1. n \in C' /\ C \subseteq C' \ {n}
            BY <4>2
          <5> QED BY <1>a, <5>1, CountPasses
        <4>4. r' + 1 <= r /\ m' + 1 <= m
          BY <1>a, <4>2, CountPasses
        <4> QED BY <1>b, <1>c, <1>d, <1>e, <2>1, <4>1, <4>3, <4>4
      <3>4. CASE pair # <<q, p>>
        <4>1. s' = s
          BY <3>1, <3>4 DEF PassShape
        <4>2. C' = C /\ R' = R /\ M' \subseteq M
          BY <2>1, <3>2, <3>4 DEF CarryingPasses, MeaningPasses, WorkingPasses
        <4>3. c' = c /\ r' = r /\ m' <= m
          BY <1>4, <1>a, <4>2, CountPasses
        <4> QED BY <1>b, <1>c, <1>d, <1>e, <2>1, <4>1, <4>3
      <3> QED BY <3>3, <3>4
    <2>3. CASE ~Deliverable(q, p)
      <3>1. passing' = [passing EXCEPT ![n].todo = @ \ {p}] /\ sends' = sends
        BY <1>4, <2>3 DEF Tells
      <3>2. C' = C /\ R' = R /\ M' \subseteq M
        BY <2>1, <3>1 DEF CarryingPasses, MeaningPasses, WorkingPasses, PassShape
      <3>3. c' = c /\ r' = r /\ m' <= m
        BY <1>4, <1>a, <3>2, CountPasses
      <3> QED BY <1>b, <1>c, <1>d, <1>e, <2>1, <3>1, <3>3
    <2> QED BY <2>2, <2>3
  <1>5. ASSUME NEW n \in Passes, QueryCommits(n) PROVE PairCounted(pair)'
    <2>1. /\ recorded' = recorded \cup passing[n].pending /\ UNCHANGED <<sends, interrupts>>
          /\ passing[n].pending \cap recorded = {} /\ passing[n].todo = {}
          /\ \A k \in Passes : k # n => passing'[k] = passing[k]
          /\ passing'[n].pending = {} /\ passing'[n].stage = passing[n].stage
          /\ passing'[n].todo = {}
      BY <1>5 DEF QueryCommits, PassShape
    <2>2. CASE pair \in passing[n].pending
      <3>1. pair \in recorded' /\ pair \notin recorded
        BY <2>1, <2>2
      <3>2. M' \subseteq R
        <4> SUFFICES ASSUME NEW k \in Passes, k \in M' PROVE k \in R
          BY <1>a
        <4>1. k # n /\ k \in M
          BY <2>1 DEF MeaningPasses
        <4>2. passing[k].stage = "working"
          BY <4>1 DEF MeaningPasses, PassShape
        <4>3. pair \notin passing[k].pending
          <5>1. pair = <<passing[k].query, pair[2]>> /\ pair[2] \in passing[k].todo
            BY <4>1 DEF MeaningPasses, PointPairs
          <5> QED BY <5>1 DEF PassShape
        <4> QED BY <4>2, <4>3 DEF WorkingPasses, CarryingPasses
      <3>3. m' <= r
        BY <1>5, <1>a, <3>2, CountPasses
      <3> QED BY <1>b, <1>c, <1>d, <1>e, <2>1, <3>1, <3>3
    <2>3. CASE pair \notin passing[n].pending
      <3>1. C' = C /\ R' = R /\ M' \subseteq M /\ (pair \in recorded' <=> pair \in recorded)
        BY <2>1, <2>3 DEF CarryingPasses, WorkingPasses, MeaningPasses
      <3>2. c' = c /\ r' = r /\ m' <= m
        BY <1>5, <1>a, <3>1, CountPasses
      <3> QED BY <1>b, <1>c, <1>d, <1>e, <2>1, <3>1, <3>2
    <2> QED BY <2>2, <2>3
  <1>6. ASSUME NEW n \in Passes, PassEnds(n) PROVE PairCounted(pair)'
    <2>1. UNCHANGED <<sends, recorded, interrupts>>
      BY <1>6 DEF PassEnds
    <2>2. C' = C /\ M' = M /\ R' \subseteq R
      BY <1>6 DEF PassEnds, CarryingPasses, MeaningPasses, WorkingPasses, PassShape
    <2>3. c' = c /\ m' = m /\ r' <= r
      BY <1>6, <1>a, <2>2, CountPasses
    <2> QED BY <1>b, <1>c, <1>d, <1>e, <2>1, <2>3
  <1>7. ASSUME NEW n \in Passes, PassFails(n) PROVE PairCounted(pair)'
    <2>1. /\ UNCHANGED <<sends, recorded>> /\ i <= i'
          /\ passing[n].pending # {} => i' = i + 1
          /\ \A k \in Passes : k # n => passing'[k] = passing[k]
          /\ passing'[n].stage = "over" /\ passing'[n].todo = {} /\ passing'[n].pending = {}
      BY <1>7, <1>b DEF PassFails, PassShape, PassRecord, Waiting
    <2>2. M' \subseteq M /\ R' \subseteq R /\ C \subseteq C' \cup {n} /\ (n \notin C => C \subseteq C')
      BY <2>1 DEF CarryingPasses, WorkingPasses, MeaningPasses
    <2>3. m' <= m /\ r' <= r /\ c <= c' + 1 /\ (n \notin C => c <= c')
      BY <1>a, <2>2, CountPasses
    <2>4. n \in C => i' = i + 1
      BY <2>1 DEF CarryingPasses
    <2> QED BY <1>b, <1>c, <1>d, <1>e, <2>1, <2>3, <2>4
  <1>8. CASE \/ \E p \in Points : PointOpens(p) \/ PointCloses(p)
             \/ \E q \in PlanQueries : Toggles(q)
             \/ UNCHANGED planNotifyVars
    BY <1>1, <1>8 DEF PointOpens, PointCloses, Toggles, planNotifyVars
  <1> QED BY <1>2, <1>3, <1>4, <1>5, <1>6, <1>7, <1>8 DEF PlanNotifyNext

(* A point is told to a query once and once more for each pass that died or *)
(* ran beside another (plan_notify.py), for any finite number of passes.    *)
THEOREM PointToldOnce == PlanNotifySpec => []PointIsToldOnce
  <1>1. PlanNotifyInit => PlanNotifyInv
    <2> SUFFICES ASSUME PlanNotifyInit PROVE PlanNotifyInv
      OBVIOUS
    <2>1. PassShape
      BY PlanNotifyAssumption DEF PlanNotifyInit, PassShape, PassRecord, Waiting
    <2>2. ASSUME NEW pair \in PointPairs PROVE PairCounted(pair)
      <3>1. /\ CarryingPasses(pair) = {} /\ WorkingPasses = {} /\ sends[pair] = 0 /\ interrupts = 0
            /\ recorded = {}
        BY DEF PlanNotifyInit, Waiting, CarryingPasses, WorkingPasses
      <3>2. Cardinality(CarryingPasses(pair)) = 0 /\ Cardinality(WorkingPasses \ CarryingPasses(pair)) = 0
        BY <3>1, FS_EmptySet
      <3> QED BY <3>1, <3>2 DEF PairCounted
    <2> QED BY <2>1, <2>2 DEF PlanNotifyInv
  <1>2. PlanNotifyInv /\ [PlanNotifyNext]_planNotifyVars => PlanNotifyInv'
    BY PassShapeStep, PairStep DEF PlanNotifyInv, PointPairs
  <1>3. PlanNotifyInv => PointIsToldOnce
    <2> SUFFICES ASSUME PlanNotifyInv, NEW pair \in PointPairs PROVE sends[pair] <= 1 + interrupts
      BY DEF PointIsToldOnce
    <2>1. MeaningPasses(pair) \in SUBSET Passes /\ WorkingPasses \ CarryingPasses(pair) \in SUBSET Passes
      BY DEF MeaningPasses, WorkingPasses
    <2>2. Cardinality(MeaningPasses(pair)) \in Nat /\ Cardinality(WorkingPasses \ CarryingPasses(pair)) \in Nat
      BY <2>1, PlanNotifyAssumption, FS_Subset, FS_CardinalityType
    <2> QED BY <2>2 DEF PlanNotifyInv, PassShape, PairCounted
  <1> QED BY <1>1, <1>2, <1>3, PTL DEF PlanNotifySpec

(* Nobody gets a message twice, about a lot or about a plan point, unless a *)
(* worker died or two passes overlapped in the middle of it                 *)
(* (queue/notify.py, jobs/plan_notify.py).                                  *)
THEOREM MessagesGoOutOnce == NotifySpec /\ PlanNotifySpec => []NothingIsSentTwice
  BY PairIsToldOnce, PointToldOnce, PTL DEF NothingIsSentTwice

-----------------------------------------------------------------------------
(* Alerts of the health check.                                              *)

AlertsShape ==
  /\ hour \in Nat /\ unlucky \subseteq Codes /\ outbox \subseteq Codes
  /\ wrong \subseteq Codes
  /\ cooldown \in [Codes -> Nat] /\ toldAt \in [Codes -> Int]

(* A key that silences a code is that of a message under way, of one that  *)
(* was lost, or of one that was told when the key was set or later.        *)
KeyIsEarned(c) ==
  /\ cooldown[c] <= hour + Cooldown
  /\ cooldown[c] > hour =>
       \/ c \in unlucky \cup outbox
       \/ toldAt[c] >= 0 /\ cooldown[c] <= toldAt[c] + Cooldown

AlertsInv == AlertsShape /\ \A c \in Codes : KeyIsEarned(c)

LEMMA AlertsInvInit == AlertsInit => AlertsInv
  BY AlertsAssumption DEF AlertsInit, AlertsInv, AlertsShape, KeyIsEarned

LEMMA AlertableCodes ==
  ASSUME AlertsShape PROVE Alertable(Problems) \subseteq Codes
  BY AlertsAssumption DEF AlertsShape, Alertable, Problems

LEMMA AlertsInvStep == AlertsInv /\ [AlertsNext]_alertsVars => AlertsInv'
<1> SUFFICES ASSUME AlertsInv, [AlertsNext]_alertsVars PROVE AlertsInv'
  OBVIOUS
<1> USE AlertsAssumption
<1>1. ASSUME NEW c \in Codes, Turn(c) PROVE AlertsInv'
  BY <1>1 DEF Turn, AlertsInv, AlertsShape, KeyIsEarned
<1>2. CASE Appoint
  BY <1>2 DEF Appoint, AlertsInv, AlertsShape, KeyIsEarned
<1>3. CASE FallBackToHtml
  BY <1>3 DEF FallBackToHtml, AlertsInv, AlertsShape, KeyIsEarned
<1>4. CASE Check
  <2>1. CASE Problems = {} \/ ~admins
    BY <1>4, <2>1 DEF Check, AlertsInv, AlertsShape, KeyIsEarned
  <2>2. CASE ~(Problems = {} \/ ~admins)
    <3>1. /\ outbox' = Alertable(Problems) /\ outbox = {}
          /\ cooldown' = [c \in Codes |->
               IF Reachable /\ c \in Alertable(Problems) THEN hour + Cooldown ELSE cooldown[c]]
          /\ UNCHANGED <<hour, wrong, toldAt, unlucky>>
      BY <1>4, <2>2 DEF Check
    <3>2. AlertsShape'
      BY <3>1, AlertableCodes DEF AlertsInv, AlertsShape
    <3>3. ASSUME NEW c \in Codes PROVE KeyIsEarned(c)'
      <4>1. CASE Reachable /\ c \in Alertable(Problems)
        BY <3>1, <4>1 DEF AlertsInv, AlertsShape, KeyIsEarned
      <4>2. CASE ~(Reachable /\ c \in Alertable(Problems))
        BY <3>1, <4>2 DEF AlertsInv, AlertsShape, KeyIsEarned
      <4> QED BY <4>1, <4>2
    <3> QED BY <3>2, <3>3 DEF AlertsInv
  <2> QED BY <2>1, <2>2
<1>5. CASE Tell
  BY <1>5 DEF Tell, AlertsInv, AlertsShape, KeyIsEarned
<1>6. CASE TellFails
  BY <1>6 DEF TellFails, AlertsInv, AlertsShape, KeyIsEarned
<1>7. CASE NextHour
  BY <1>7 DEF NextHour, AlertsInv, AlertsShape, KeyIsEarned
<1>8. CASE UNCHANGED alertsVars
  BY <1>8 DEF alertsVars, AlertsInv, AlertsShape, KeyIsEarned
<1> QED BY <1>1, <1>2, <1>3, <1>4, <1>5, <1>6, <1>7, <1>8 DEF AlertsNext

(* A code the check passes over was told within the cooldown, or Telegram   *)
(* lost its last message (health.py:303-312, 349-350), however often Redis  *)
(* is down in between.                                                      *)
THEOREM SilenceStaysEarned == AlertsSpec => SilenceIsEarned
  <1> DEFINE Earned == Check => \A c \in Problems \ outbox' :
            \/ ~admins \/ c \in unlucky
            \/ toldAt[c] >= 0 /\ toldAt[c] > hour - Cooldown
  <1>1. AlertsInv /\ [AlertsNext]_alertsVars => [Earned]_alertsVars
    <2> SUFFICES ASSUME AlertsInv, Check, NEW c \in Problems \ outbox', admins, c \notin unlucky
                 PROVE  toldAt[c] >= 0 /\ toldAt[c] > hour - Cooldown
      OBVIOUS
    <2>1. outbox = {} /\ outbox' = Alertable(Problems)
      BY DEF Check
    <2>2. c \in Codes /\ cooldown[c] > hour
      BY <2>1, AlertsAssumption DEF Alertable, Problems, AlertsInv, AlertsShape
    <2> QED BY <2>1, <2>2, AlertsAssumption DEF AlertsInv, AlertsShape, KeyIsEarned
  <1> HIDE DEF Earned
  <1>2. AlertsSpec => [][Earned]_alertsVars
    BY <1>1, AlertsInvInit, AlertsInvStep, PTL DEF AlertsSpec
  <1> QED BY <1>2 DEF Earned, SilenceIsEarned

-----------------------------------------------------------------------------
(* The pause between two requests.                                          *)

CrawlShape ==
  /\ slotTtl \in Nat /\ rest \in Nat /\ prompt \in BOOLEAN
  /\ phase \in [Clients -> {"idle", "waiting", "flight", "backoff"}]
  /\ stay \in [Clients -> Nat]

(* The key outlives the one request in flight by the delay, and what is    *)
(* left of it after the request covers what is left of the pause.          *)
KeyOutlives ==
  /\ \A c, d \in Clients : phase[c] = "flight" /\ phase[d] = "flight" => c = d
  /\ \A c \in Clients :
       phase[c] = "flight" => slotTtl + stay[c] >= Hold /\ stay[c] <= Timeout + Spare
  /\ (\A c \in Clients : phase[c] # "flight") => rest >= Delay \/ rest + slotTtl >= Delay

CrawlInv == CrawlShape /\ (prompt => KeyOutlives)

LEMMA CrawlInvInit == CrawlInit => CrawlInv
  BY CrawlAssumption DEF CrawlInit, CrawlInv, CrawlShape, KeyOutlives

LEMMA CrawlShapeStep == CrawlShape /\ [CrawlNext]_crawlVars => CrawlShape'
<1> SUFFICES ASSUME CrawlShape, [CrawlNext]_crawlVars PROVE CrawlShape'
  OBVIOUS
<1> USE CrawlAssumption DEF CrawlShape
<1>1. CASE CrawlTick
  BY <1>1 DEF CrawlTick
<1>2. ASSUME NEW c \in Clients, AskPage(c) PROVE CrawlShape'
  BY <1>2 DEF AskPage
<1>3. ASSUME NEW c \in Clients, Acquire(c) PROVE CrawlShape'
  BY <1>3 DEF Acquire, Hold
<1>4. ASSUME NEW c \in Clients, Answered(c) PROVE CrawlShape'
  BY <1>4 DEF Answered, Released
<1>5. ASSUME NEW c \in Clients, Refused(c) PROVE CrawlShape'
  BY <1>5 DEF Refused, Released
<1>6. ASSUME NEW c \in Clients, TryAgain(c) PROVE CrawlShape'
  BY <1>6 DEF TryAgain
<1>7. ASSUME NEW c \in Clients, Killed(c) PROVE CrawlShape'
  BY <1>7 DEF Killed
<1>8. CASE UNCHANGED crawlVars
  BY <1>8 DEF crawlVars
<1> QED BY <1>1, <1>2, <1>3, <1>4, <1>5, <1>6, <1>7, <1>8 DEF CrawlNext

(* The key is there for the delay as long as a request is in flight.       *)
LEMMA KeyInFlight ==
  ASSUME CrawlInv, prompt, NEW c \in Clients, phase[c] = "flight"
  PROVE  slotTtl >= Delay /\ slotTtl > 0
  BY CrawlAssumption DEF CrawlInv, CrawlShape, KeyOutlives, Hold

(* A request that leaves the flight, its key shortened to the delay at     *)
(* most.                                                                   *)
LEMMA LandingKeeps ==
  ASSUME CrawlInv, prompt, NEW c \in Clients, phase[c] = "flight",
         slotTtl' \in {Delay, slotTtl}, rest' = 0,
         \E to \in {"idle", "backoff"} : phase' = [phase EXCEPT ![c] = to]
  PROVE  KeyOutlives'
<1>1. \A d \in Clients : phase'[d] # "flight"
  BY DEF CrawlInv, CrawlShape, KeyOutlives
<1>2. slotTtl' >= Delay
  BY KeyInFlight, CrawlAssumption
<1>3. slotTtl' \in Nat
  BY CrawlAssumption DEF CrawlInv, CrawlShape
<1>4. Delay \in Nat
  BY CrawlAssumption
<1>5. \A n, m \in Nat : n >= m => 0 + n >= m
  OBVIOUS
<1>6. rest' + slotTtl' >= Delay
  BY <1>2, <1>3, <1>4, <1>5, Zenon
<1> QED BY <1>1, <1>6 DEF KeyOutlives

(* A client whose request is not in flight, before and after.              *)
LEMMA GroundKeeps ==
  ASSUME CrawlInv, prompt, NEW c \in Clients, phase[c] # "flight",
         \E to \in {"waiting"} : phase' = [phase EXCEPT ![c] = to],
         UNCHANGED <<slotTtl, stay, rest>>
  PROVE  KeyOutlives'
<1>1. \A d \in Clients : phase'[d] = "flight" <=> phase[d] = "flight"
  BY DEF CrawlInv, CrawlShape
<1>2. slotTtl' = slotTtl /\ stay' = stay /\ rest' = rest
  OBVIOUS
<1> QED BY <1>1, <1>2 DEF CrawlInv, KeyOutlives, Hold

LEMMA CrawlInvStep == CrawlInv /\ [CrawlNext]_crawlVars => CrawlInv'
<1> SUFFICES ASSUME CrawlInv, [CrawlNext]_crawlVars, prompt' PROVE KeyOutlives'
  BY CrawlShapeStep DEF CrawlInv
<1> USE CrawlAssumption
<1>1. CASE CrawlTick
  <2>1. prompt
    BY <1>1 DEF CrawlTick
  <2>2. \A c \in Clients : phase[c] = "flight" =>
           /\ stay'[c] = stay[c] + 1 /\ stay'[c] <= Timeout + Spare
           /\ slotTtl' = slotTtl - 1 /\ slotTtl > 0
    <3> SUFFICES ASSUME NEW c \in Clients, phase[c] = "flight"
                 PROVE  /\ stay'[c] = stay[c] + 1 /\ stay'[c] <= Timeout + Spare
                        /\ slotTtl' = slotTtl - 1 /\ slotTtl > 0
      OBVIOUS
    <3>1. slotTtl > 0 /\ slotTtl \in Nat
      BY <2>1, KeyInFlight DEF CrawlInv, CrawlShape
    <3>2. stay'[c] = stay[c] + 1
      BY <1>1 DEF CrawlTick
    <3>3. stay'[c] <= Timeout + Spare
      BY <1>1 DEF CrawlTick
    <3>4. slotTtl' = slotTtl - 1
      BY <1>1, <3>1 DEF CrawlTick
    <3> QED BY <3>1, <3>2, <3>3, <3>4
  <2>3. slotTtl + rest >= Delay /\ slotTtl > 0 => slotTtl' + rest' >= Delay \/ rest' >= Delay
    BY <1>1 DEF CrawlTick, CrawlInv, CrawlShape
  <2>4. slotTtl + rest >= Delay /\ slotTtl = 0 => rest' >= Delay
    BY <1>1 DEF CrawlTick, CrawlInv, CrawlShape
  <2>5. rest >= Delay => rest' >= Delay
    BY <1>1 DEF CrawlTick, CrawlInv, CrawlShape
  <2>6. (\A c \in Clients : phase[c] # "flight") => rest' >= Delay \/ rest' + slotTtl' >= Delay
    BY <2>1, <2>3, <2>4, <2>5, CrawlShapeStep DEF CrawlInv, CrawlShape, KeyOutlives
  <2>7. \A c \in Clients : phase[c] = "flight" => slotTtl' + stay'[c] >= Hold
    BY <2>1, <2>2 DEF CrawlInv, CrawlShape, KeyOutlives, Hold
  <2> QED BY <1>1, <2>1, <2>2, <2>6, <2>7 DEF CrawlTick, CrawlInv, KeyOutlives, Hold
<1>2. ASSUME NEW c \in Clients, AskPage(c) PROVE KeyOutlives'
  BY <1>2, GroundKeeps DEF AskPage
<1>3. ASSUME NEW c \in Clients, Acquire(c) PROVE KeyOutlives'
  <2>1. prompt /\ slotTtl = 0
    BY <1>3 DEF Acquire
  <2>2. \A d \in Clients : phase[d] # "flight"
    BY <2>1, KeyInFlight
  <2>3. /\ \A d \in Clients : phase'[d] = "flight" => d = c
        /\ phase'[c] = "flight" /\ stay'[c] = 0 /\ slotTtl' = Hold
    BY <1>3, <2>2 DEF Acquire, CrawlInv, CrawlShape
  <2>4. Hold \in Nat /\ 0 <= Timeout + Spare
    BY DEF Hold
  <2> QED BY <2>3, <2>4 DEF KeyOutlives, Hold
<1>4. ASSUME NEW c \in Clients, Answered(c) PROVE KeyOutlives'
  BY <1>4, LandingKeeps DEF Answered, Released
<1>5. ASSUME NEW c \in Clients, Refused(c) PROVE KeyOutlives'
  BY <1>5, LandingKeeps DEF Refused, Released
<1>6. ASSUME NEW c \in Clients, TryAgain(c) PROVE KeyOutlives'
  BY <1>6, GroundKeeps DEF TryAgain
<1>7. ASSUME NEW c \in Clients, Killed(c) PROVE KeyOutlives'
  BY <1>7, LandingKeeps DEF Killed
<1>8. CASE UNCHANGED crawlVars
  BY <1>8 DEF crawlVars, CrawlInv, KeyOutlives, Hold
<1> QED BY <1>1, <1>2, <1>3, <1>4, <1>5, <1>6, <1>7, <1>8 DEF CrawlNext

(* While no request outstays its timeout, a request starts only when no     *)
(* other is in flight and the last one lies Delay ticks back                *)
(* (rate_limit.py:13-14, 114-118), for any number of clients that share the *)
(* key and die.                                                             *)
THEOREM DelayStaysKept == CrawlSpec => CrawlDelayKept
  <1>1. CrawlInv /\ [CrawlNext]_crawlVars => [\A c \in Clients : StartsInItsSlot(c)]_crawlVars
    <2> SUFFICES ASSUME CrawlInv, CrawlNext, NEW c \in Clients,
                        phase[c] = "waiting", phase'[c] = "flight", prompt
                 PROVE  rest >= Delay /\ \A d \in Clients : phase[d] # "flight"
      BY DEF StartsInItsSlot
    <2>1. slotTtl = 0
      BY DEF CrawlInv, CrawlShape, CrawlNext, CrawlTick, AskPage, Acquire, Answered,
             Refused, TryAgain, Killed
    <2>2. \A d \in Clients : phase[d] # "flight"
      BY <2>1, KeyInFlight, CrawlAssumption
    <2> QED BY <2>1, <2>2, CrawlAssumption DEF CrawlInv, CrawlShape, KeyOutlives
  <1> QED BY <1>1, CrawlInvInit, CrawlInvStep, PTL DEF CrawlSpec, CrawlDelayKept

-----------------------------------------------------------------------------
(* The walk over the listing of lots.                                       *)

LEMMA CursorTypes ==
  /\ MaxLot \in Nat /\ Lots \subseteq Nat /\ Cursors \subseteq Nat /\ Top \in Cursors
  /\ Horizon \in Nat /\ Horizon > 0 /\ CacheTtl \in Nat /\ MaxFlight \in Nat
  /\ Horizon = CacheTtl + MaxFlight
  /\ \A l \in Lots : 0 < l /\ l < Top /\ l \in Cursors
<1>1. MaxLot \in Nat /\ Lots = 1..MaxLot /\ Top = MaxLot + 1 /\ Cursors = Lots \cup {Top}
  BY ListingAssumption DEF Lots, Cursors, Top
<1>2. CacheTtl \in Nat /\ 0 < CacheTtl /\ MaxFlight \in Nat
  BY ListingAssumption
<1>3. Horizon = CacheTtl + MaxFlight
  BY DEF Horizon
<1> QED BY <1>1, <1>2, <1>3

(* Sets of lots are finite, and the smaller have fewer elements.           *)
LEMMA LotsCounted ==
  ASSUME NEW S \in SUBSET Lots
  PROVE  /\ IsFiniteSet(S) /\ Cardinality(S) \in Nat
         /\ \A T \in SUBSET S : Cardinality(T) <= Cardinality(S)
<1>1. IsFiniteSet(Lots)
  BY ListingAssumption, FS_Interval DEF Lots
<1>2. IsFiniteSet(S)
  BY <1>1, FS_Subset
<1>3. Cardinality(S) \in Nat
  BY <1>2, FS_CardinalityType
<1>4. \A T \in SUBSET S : Cardinality(T) <= Cardinality(S)
  BY <1>2, FS_Subset
<1> QED BY <1>2, <1>3, <1>4

(* A set of lots has an oldest and a newest one.                           *)
LEMMA SomeLotIsLeast ==
  ASSUME NEW S \in SUBSET Nat, S # {}
  PROVE  \E m \in S : \A k \in S : m <= k
<1> DEFINE R == {p \in Nat \X Nat : p[1] < p[2]}
<1>1. R = OpToRel(<, Nat)
  BY DEF OpToRel
<1>2. PICK m \in S : \A k \in S : ~(<<k, m>> \in R)
  <2>1. IsWellFoundedOn(R, Nat)
    BY <1>1, NatLessThanWellFounded
  <2> HIDE DEF R
  <2> QED BY <2>1, WFMin
<1>3. ASSUME NEW k \in S PROVE m <= k
  <2>1. k \in Nat /\ m \in Nat /\ ~(k < m)
    BY <1>2
  <2> QED BY <2>1
<1> QED BY <1>3

LEMMA OldestLot ==
  ASSUME NEW S \in SUBSET Lots, S # {}
  PROVE  Min(S) \in S /\ \A k \in S : Min(S) <= k
<1>1. \E m \in S : \A k \in S : m <= k
  BY CursorTypes, SomeLotIsLeast
<1> QED BY <1>1 DEF Min

LEMMA NewestLot ==
  ASSUME NEW S \in SUBSET Lots, S # {}
  PROVE  \E m \in S : \A k \in S : k <= m
<1> DEFINE T == {n \in Nat : \E k \in S : n + k = Top}
<1>1. \A k \in S : k \in Nat /\ k < Top /\ Top \in Nat
  BY CursorTypes
<1>2. PICK k \in S : TRUE
  OBVIOUS
<1>3. Top - k \in T
  BY <1>1
<1>4. PICK n \in T : \A o \in T : n <= o
  <2>1. T \in SUBSET Nat /\ T # {}
    BY <1>3
  <2> HIDE DEF T
  <2> QED BY <2>1, SomeLotIsLeast
<1>5. PICK m \in S : n + m = Top
  BY <1>4
<1>6. \A j \in S : j <= m
  <2> SUFFICES ASSUME NEW j \in S PROVE j <= m
    OBVIOUS
  <2>1. Top - j \in T
    BY <1>1
  <2>2. n <= Top - j /\ n \in Nat
    BY <1>4, <2>1
  <2> QED BY <1>1, <1>5, <2>2
<1> QED BY <1>6

LEMMA NewestGrows ==
  ASSUME NEW S \in SUBSET Lots, NEW n \in Int, NEW k \in Int, n <= k
  PROVE  NewestOf(S, n) \subseteq NewestOf(S, k) /\ NewestOf(S, k) \subseteq S
<1>1. \A l \in S : Cardinality({m \in S : m > l}) \in Nat
  <2> SUFFICES ASSUME NEW l \in S PROVE Cardinality({m \in S : m > l}) \in Nat
    OBVIOUS
  <2>1. {m \in S : m > l} \in SUBSET Lots
    OBVIOUS
  <2> QED BY <2>1, LotsCounted
<1> QED BY <1>1 DEF NewestOf

(* If one more would be no more, these are all.                            *)
LEMMA NewestAreAll ==
  ASSUME NEW S \in SUBSET Lots, NEW n \in Nat, NEW k \in Nat, n < k,
         NewestOf(S, k) \subseteq NewestOf(S, n)
  PROVE  NewestOf(S, n) = S
<1> DEFINE N == NewestOf(S, n)
           Above(l) == {m \in S : m > l}
<1>1. \A l \in S : l \in N <=> Cardinality(Above(l)) < n
  BY DEF NewestOf
<1>2. \A l \in S : Cardinality(Above(l)) < k => l \in N
  BY DEF NewestOf
<1>3. N \subseteq S
  BY DEF NewestOf
<1>4. ASSUME S \ N # {} PROVE FALSE
  <2>1. S \ N \in SUBSET Lots
    OBVIOUS
  <2>2. PICK l \in S \ N : \A m \in S \ N : m <= l
    BY <1>4, <2>1, NewestLot
  <2> DEFINE A == Above(l)
  <2>3. l \in Nat /\ \A m \in S : m \in Nat
    BY CursorTypes
  <2>4. A \in SUBSET Lots /\ A \subseteq N
    <3> SUFFICES ASSUME NEW m \in A PROVE m \in Lots /\ m \in N
      OBVIOUS
    <3>1. m \in S /\ m > l
      OBVIOUS
    <3> HIDE DEF N, A
    <3> QED BY <2>2, <2>3, <3>1
  <2>5. Cardinality(A) <= n
    <3>1. CASE A = {}
      BY <3>1, FS_EmptySet
    <3>2. CASE A # {}
      <4> DEFINE o == Min(A)
      <4>1. o \in A /\ \A m \in A : o <= m
        BY <2>4, <3>2, OldestLot
      <4>2. o \in S /\ Cardinality(Above(o)) < n
        BY <1>1, <2>4, <4>1
      <4> HIDE DEF o
      <4>3. A = Above(o) \cup {o}
        <5>1. ASSUME NEW m \in A PROVE m \in Above(o) \cup {o}
          <6>1. o <= m /\ m \in S
            BY <4>1
          <6> QED BY <2>3, <4>2, <6>1
        <5>2. ASSUME NEW m \in Above(o) \cup {o} PROVE m \in A
          <6>1. l < o
            BY <4>1
          <6> QED BY <2>3, <4>1, <4>2, <6>1
        <5> QED BY <5>1, <5>2
      <4>4. Above(o) \in SUBSET Lots
        OBVIOUS
      <4>5. IsFiniteSet(Above(o)) /\ Cardinality(Above(o)) \in Nat
        BY <4>4, LotsCounted
      <4>6. Cardinality(Above(o) \cup {o}) <= Cardinality(Above(o)) + 1
        <5> DEFINE B == Above(o)
        <5>1. IsFiniteSet(B) /\ Cardinality(B) \in Nat
          BY <4>5
        <5> HIDE DEF B
        <5>2. Cardinality(B \cup {o}) = IF o \in B THEN Cardinality(B) ELSE Cardinality(B) + 1
          BY <5>1, FS_AddElement
        <5>3. Cardinality(B \cup {o}) <= Cardinality(B) + 1
          BY <5>1, <5>2
        <5> QED BY <5>3 DEF B
      <4>8. Cardinality(A) <= Cardinality(Above(o)) + 1
        BY <4>3, <4>6
      <4>7. Cardinality(A) \in Nat
        BY <2>4, LotsCounted
      <4> HIDE DEF A, Above
      <4> QED BY <4>2, <4>5, <4>7, <4>8
    <3> QED BY <3>1, <3>2
  <2>6. Cardinality(A) \in Nat
    BY <2>4, LotsCounted
  <2>7. Cardinality(A) < k
    BY <2>5, <2>6
  <2> QED BY <1>2, <2>2, <2>7
<1> QED BY <1>3, <1>4

LEMMA NewestOfNone == \A S \in SUBSET Lots : NewestOf(S, 0) = {}
<1> SUFFICES ASSUME NEW S \in SUBSET Lots, NEW l \in S
             PROVE  ~(Cardinality({m \in S : m > l}) < 0)
  BY DEF NewestOf
<1>1. {m \in S : m > l} \in SUBSET Lots
  OBVIOUS
<1> QED BY <1>1, LotsCounted

ListedPages == [items : SUBSET Lots, more : BOOLEAN, last : Cursors]

(* What the API answers below a cursor leaves out nothing above its end.   *)
LEMMA PageIsWhole ==
  ASSUME listed \in SUBSET Lots, NEW c \in Cursors
  PROVE  LET p == PageAfter(c) IN
         /\ p \in ListedPages
         /\ \A l \in listed : l < c /\ l >= p.last => l \in p.items
         /\ ~p.more => \A l \in listed : l < c => l \in p.items
         /\ p.items = {} => \A l \in listed : ~(l < c)
         /\ p.items # {} => p.last < c
<1> DEFINE below == {l \in listed : l < c}
           items == NewestOf(below, Limit)
           last == IF items = {} THEN c ELSE Min(items)
           more == items # below
<1>1. below \in SUBSET Lots /\ Limit \in Nat /\ 0 < Limit
  BY ListingAssumption
<1>2. items \subseteq below
  BY DEF NewestOf
<1>3. items # {} => last \in items /\ \A k \in items : last <= k
  <2>1. items \in SUBSET Lots
    BY <1>1, <1>2
  <2> HIDE DEF items
  <2> QED BY <2>1, OldestLot
<1>4. last \in Cursors /\ (items # {} => last < c)
  BY <1>1, <1>2, <1>3, CursorTypes
<1>5. ASSUME NEW l \in below, items # {}, l >= last PROVE l \in items
  <2>1. {m \in below : m > l} \subseteq {m \in below : m > last}
    <3>1. l \in Nat /\ last \in Nat /\ last <= l /\ \A m \in below : m \in Nat
      BY <1>1, <1>2, <1>3, <1>5, CursorTypes
    <3>2. ASSUME NEW m \in below, m > l PROVE m > last
      <4> HIDE DEF last, below
      <4> QED BY <3>1, <3>2
    <3> HIDE DEF last
    <3> QED BY <3>2
  <2>2. {m \in below : m > last} \in SUBSET Lots /\ {m \in below : m > l} \in SUBSET Lots
    BY <1>1
  <2>3. Cardinality({m \in below : m > l}) <= Cardinality({m \in below : m > last})
        /\ Cardinality({m \in below : m > l}) \in Nat /\ Cardinality({m \in below : m > last}) \in Nat
    BY <2>1, <2>2, LotsCounted
  <2>4. Cardinality({m \in below : m > last}) < Limit
    BY <1>3, <1>5 DEF NewestOf
  <2>5. Cardinality({m \in below : m > l}) < Limit
    BY <1>1, <2>3, <2>4
  <2> QED BY <2>5 DEF NewestOf
<1>6. items = {} => below = {}
  <2>1. NewestOf(below, 0) = {}
    BY <1>1, NewestOfNone
  <2>2. items = {} => NewestOf(below, 0) = below
    <3> SUFFICES ASSUME items = {} PROVE NewestOf(below, 0) = below
      OBVIOUS
    <3>1. NewestOf(below, Limit) \subseteq NewestOf(below, 0)
      OBVIOUS
    <3> HIDE DEF below
    <3> QED BY <1>1, <3>1, NewestAreAll
  <2> QED BY <2>1, <2>2
<1>7. PageAfter(c) = [items |-> items, more |-> more, last |-> last]
  BY DEF PageAfter
<1>8. items \in SUBSET Lots
  BY <1>1, <1>2
<1>9. \A l \in listed : l < c => l \in below
  OBVIOUS
<1>10. \A l \in listed : l < c /\ l >= last => l \in items
  <2> SUFFICES ASSUME NEW l \in listed, l < c, l >= last PROVE l \in items
    OBVIOUS
  <2> QED BY <1>5, <1>6, <1>9
<1>11. more \in BOOLEAN /\ (~more => items = below)
  OBVIOUS
<1>12. items = {} => \A l \in listed : ~(l < c)
  BY <1>6, <1>9
<1> HIDE DEF items, last, more, below
<1> QED BY <1>4, <1>7, <1>8, <1>9, <1>10, <1>11, <1>12 DEF ListedPages


LEMMA NewestSplit ==
  ASSUME NEW S \in SUBSET Lots, NEW F \in SUBSET S,
         \A l \in S \ F, f \in F : l > f,
         NEW n \in Nat, Cardinality(S \ F) <= n
  PROVE  /\ n - Cardinality(S \ F) \in Nat
         /\ NewestOf(S, n) = (S \ F) \cup NewestOf(F, n - Cardinality(S \ F))
<1> DEFINE A == S \ F
           Over(B, l) == {m \in B : m > l}
<1>1. IsFiniteSet(A) /\ Cardinality(A) \in Nat /\ A \in SUBSET Lots
  BY LotsCounted
<1>2. \A l \in S : l \in Nat
  BY CursorTypes
<1>3. ASSUME NEW l \in F
      PROVE  Cardinality(Over(S, l)) < n <=> Cardinality(Over(F, l)) < n - Cardinality(A)
  <2>1. Over(S, l) = A \cup Over(F, l)
    OBVIOUS
  <2>2. A \cap Over(F, l) = {}
    OBVIOUS
  <2>3. Over(F, l) \in SUBSET Lots
    OBVIOUS
  <2>4. IsFiniteSet(Over(F, l)) /\ Cardinality(Over(F, l)) \in Nat
    BY <2>3, LotsCounted
  <2> DEFINE B == Over(F, l)
             c == Cardinality(A)
             d == Cardinality(B)
  <2>5. Cardinality(A \cup B) = c + d - Cardinality({})
    <3>1. A \cap B = {}
      BY <2>2
    <3>2. IsFiniteSet(A) /\ IsFiniteSet(B)
      BY <1>1, <2>4
    <3> HIDE DEF A, B
    <3> QED BY <3>1, <3>2, FS_Union
  <2>6. Cardinality(Over(S, l)) = c + d
    <3>1. c \in Nat /\ d \in Nat
      BY <1>1, <2>4
    <3>2. Cardinality(Over(S, l)) = Cardinality(A \cup B)
      BY <2>1
    <3> HIDE DEF c, d, A, B, Over
    <3> QED BY <2>5, <3>1, <3>2, FS_EmptySet
  <2>7. c \in Nat /\ d \in Nat
    BY <1>1, <2>4
  <2> HIDE DEF c, d
  <2>8. Cardinality(Over(S, l)) < n <=> d < n - c
    BY <2>6, <2>7
  <2> QED BY <2>8 DEF c, d
<1>4. ASSUME NEW l \in A PROVE Cardinality(Over(S, l)) < n
  <2>1. Over(S, l) \subseteq A \ {l}
    <3> SUFFICES ASSUME NEW m \in S, m > l PROVE m \in A /\ m # l
      OBVIOUS
    <3>1. m \notin F
      <4>1. m \in F => l > m
        OBVIOUS
      <4> QED BY <1>2, <4>1
    <3> QED BY <1>2, <3>1
  <2>2. Cardinality(A \ {l}) = Cardinality(A) - 1 /\ A \ {l} \in SUBSET Lots
    <3>1. IsFiniteSet(A) /\ l \in A /\ A \in SUBSET Lots
      BY <1>1
    <3> HIDE DEF A
    <3> QED BY <3>1, FS_RemoveElement
  <2>3. Cardinality(Over(S, l)) <= Cardinality(A \ {l}) /\ Cardinality(Over(S, l)) \in Nat
    <3>1. Over(S, l) \in SUBSET Lots
      OBVIOUS
    <3> HIDE DEF A, Over
    <3> QED BY <2>1, <2>2, <3>1, LotsCounted
  <2>4. Cardinality(A) <= n
    OBVIOUS
  <2> HIDE DEF A, Over
  <2> QED BY <1>1, <2>2, <2>3, <2>4
<1>5. n - Cardinality(A) \in Nat
  <2>1. Cardinality(A) <= n
    OBVIOUS
  <2> HIDE DEF A
  <2> QED BY <1>1, <2>1
<1> DEFINE k == n - Cardinality(A)
<1>6. \A l \in S : l \in NewestOf(S, n) <=> Cardinality(Over(S, l)) < n
  BY DEF NewestOf
<1>7. \A l \in F : l \in NewestOf(F, k) <=> Cardinality(Over(F, l)) < k
  BY DEF NewestOf
<1>8. NewestOf(S, n) \subseteq S /\ NewestOf(F, k) \subseteq F
  BY DEF NewestOf
<1>9. \A l \in F : l \in NewestOf(S, n) <=> l \in NewestOf(F, k)
  BY <1>3, <1>6, <1>7
<1>10. \A l \in A : l \in NewestOf(S, n)
  BY <1>4, <1>6
<1>11. S = A \cup F /\ A \cap F = {}
  OBVIOUS
<1>12. NewestOf(S, n) = A \cup NewestOf(F, k)
  <2> HIDE DEF A, k, Over
  <2> QED BY <1>8, <1>9, <1>10, <1>11
<1> QED BY <1>5, <1>12

(***************************************************************************)
(* The inductive invariant.                                                *)
(***************************************************************************)
Steps == {"idle", "look", "wait", "fetch", "reply", "html", "done", "htmlDone",
          "capped", "cut"}
WalkRecord == [at : Steps, after : Cursors, pages : Nat, seen : SUBSET Lots,
               since : Nat, until : Nat, reply : ListedPages, total : Nat,
               calm : BOOLEAN, shift : Nat]
CacheRecord == [page : ListedPages, until : Nat]

(* Of the lots S listed from before t to now, page p below cursor c leaves *)
(* out none above its end.                                                 *)
PageFits(p, c, t, S, born) ==
  /\ \A l \in S : (born[l] < t /\ l < c) =>
      /\ l >= p.last => l \in p.items
      /\ ~p.more => l \in p.items
      /\ p.items # {}
  /\ p.items # {} => p.last < c

EntryFits(e, c, now, S, born) ==
  e.until > now =>
    /\ e.until <= now + CacheTtl
    /\ PageFits(e.page, c, e.until - Horizon, S, born)

(* The walker holds an answer on its way.                                  *)
ReplyFits(r, now, S, born) ==
  r.at = "reply" =>
    /\ now <= r.until /\ r.until <= now + MaxFlight
    /\ r.since + MaxFlight <= r.until
    /\ PageFits(r.reply, r.after, r.until - MaxFlight, S, born)

(* Through the API: everything from the cursor up has been seen.           *)
CursorIsSound(r, S, born) ==
  /\ r.at = "idle" => r.after = Top
  /\ r.at \in {"look", "wait", "fetch", "reply", "done"} =>
      \A l \in S : (born[l] + Horizon <= r.since /\ (l >= r.after \/ r.at = "done"))
                      => l \in r.seen

(* Through numbered pages: when the first page was read F was listed, and  *)
(* since then only newer lots came.                                        *)
FirstListing(r, F, S, born) ==
  /\ \A l \in S \ F, f \in F : l > f
  /\ \A l \in S : born[l] < r.since => l \in F
  /\ Cardinality(F) = r.total
  /\ r.shift <= Cardinality(S \ F)
  /\ Cardinality(S \ F) - r.shift + PerPage <= r.pages * PerPage
  /\ r.seen = NewestOf(F, r.pages * PerPage - (Cardinality(S \ F) - r.shift))

NumbersAreSound(r, S, born) ==
  (r.at = "html" /\ r.calm) =>
    IF r.pages = 0 THEN r.seen = {} ELSE \E F \in SUBSET S : FirstListing(r, F, S, born)

EndIsSound(r, S, born) ==
  (r.at = "htmlDone" /\ r.calm) => \A l \in S : born[l] < r.since => l \in r.seen

WalkSound(r, now, S, born) ==
  /\ r.since <= now
  /\ ReplyFits(r, now, S, born)
  /\ CursorIsSound(r, S, born)
  /\ NumbersAreSound(r, S, born)
  /\ EndIsSound(r, S, born)

ListingTypes ==
  /\ time \in Nat /\ listed \subseteq Lots /\ bornAt \in [Lots -> Nat]
  /\ cache \in [Cursors -> CacheRecord]
  /\ walk \in [Walkers -> WalkRecord]

CacheIsSound == \A c \in Cursors : EntryFits(cache[c], c, time, listed, bornAt)
WalksAreSound == \A v \in Walkers : WalkSound(walk[v], time, listed, bornAt)

ListingInv == ListingTypes /\ CacheIsSound /\ WalksAreSound

(* The records of the walk after a step: the fields it sets, and the rest. *)
SetStart(r, a, b) == [r EXCEPT !.at = a, !.since = b]
LEMMA SetStartFields ==
  ASSUME NEW r \in WalkRecord, NEW a \in Steps, NEW b \in Nat
  PROVE  /\ SetStart(r, a, b) \in WalkRecord
         /\ SetStart(r, a, b).at = a /\ SetStart(r, a, b).after = r.after
         /\ SetStart(r, a, b).pages = r.pages /\ SetStart(r, a, b).seen = r.seen
         /\ SetStart(r, a, b).since = b /\ SetStart(r, a, b).until = r.until
         /\ SetStart(r, a, b).reply = r.reply /\ SetStart(r, a, b).total = r.total
         /\ SetStart(r, a, b).calm = r.calm /\ SetStart(r, a, b).shift = r.shift
  BY DEF SetStart, WalkRecord

SetUntil(r, a, u) == [r EXCEPT !.at = a, !.until = u]
LEMMA SetUntilFields ==
  ASSUME NEW r \in WalkRecord, NEW a \in Steps, NEW u \in Nat
  PROVE  /\ SetUntil(r, a, u) \in WalkRecord
         /\ SetUntil(r, a, u).at = a /\ SetUntil(r, a, u).after = r.after
         /\ SetUntil(r, a, u).pages = r.pages /\ SetUntil(r, a, u).seen = r.seen
         /\ SetUntil(r, a, u).since = r.since /\ SetUntil(r, a, u).until = u
         /\ SetUntil(r, a, u).reply = r.reply /\ SetUntil(r, a, u).total = r.total
         /\ SetUntil(r, a, u).calm = r.calm /\ SetUntil(r, a, u).shift = r.shift
  BY DEF SetUntil, WalkRecord

SetReply(r, a, u, p) == [r EXCEPT !.at = a, !.until = u, !.reply = p]
LEMMA SetReplyFields ==
  ASSUME NEW r \in WalkRecord, NEW a \in Steps, NEW u \in Nat, NEW p \in ListedPages
  PROVE  /\ SetReply(r, a, u, p) \in WalkRecord
         /\ SetReply(r, a, u, p).at = a /\ SetReply(r, a, u, p).after = r.after
         /\ SetReply(r, a, u, p).pages = r.pages /\ SetReply(r, a, u, p).seen = r.seen
         /\ SetReply(r, a, u, p).since = r.since /\ SetReply(r, a, u, p).until = u
         /\ SetReply(r, a, u, p).reply = p /\ SetReply(r, a, u, p).total = r.total
         /\ SetReply(r, a, u, p).calm = r.calm /\ SetReply(r, a, u, p).shift = r.shift
  BY DEF SetReply, WalkRecord

SetSeen(r, s, k, p) == [r EXCEPT !.seen = s, !.pages = k, !.reply = p]
LEMMA SetSeenFields ==
  ASSUME NEW r \in WalkRecord, NEW s \in SUBSET Lots, NEW k \in Nat, NEW p \in ListedPages
  PROVE  /\ SetSeen(r, s, k, p) \in WalkRecord
         /\ SetSeen(r, s, k, p).at = r.at /\ SetSeen(r, s, k, p).after = r.after
         /\ SetSeen(r, s, k, p).pages = k /\ SetSeen(r, s, k, p).seen = s
         /\ SetSeen(r, s, k, p).since = r.since /\ SetSeen(r, s, k, p).until = r.until
         /\ SetSeen(r, s, k, p).reply = p /\ SetSeen(r, s, k, p).total = r.total
         /\ SetSeen(r, s, k, p).calm = r.calm /\ SetSeen(r, s, k, p).shift = r.shift
  BY DEF SetSeen, WalkRecord

SetNext(r, u, c, a) == [r EXCEPT !.until = u, !.after = c, !.at = a]
LEMMA SetNextFields ==
  ASSUME NEW r \in WalkRecord, NEW u \in Nat, NEW c \in Cursors, NEW a \in Steps
  PROVE  /\ SetNext(r, u, c, a) \in WalkRecord
         /\ SetNext(r, u, c, a).at = a /\ SetNext(r, u, c, a).after = c
         /\ SetNext(r, u, c, a).pages = r.pages /\ SetNext(r, u, c, a).seen = r.seen
         /\ SetNext(r, u, c, a).since = r.since /\ SetNext(r, u, c, a).until = u
         /\ SetNext(r, u, c, a).reply = r.reply /\ SetNext(r, u, c, a).total = r.total
         /\ SetNext(r, u, c, a).calm = r.calm /\ SetNext(r, u, c, a).shift = r.shift
  BY DEF SetNext, WalkRecord

SetNumbers(r, k, s, m) == [r EXCEPT !.pages = k, !.seen = s, !.total = m]
LEMMA SetNumbersFields ==
  ASSUME NEW r \in WalkRecord, NEW k \in Nat, NEW s \in SUBSET Lots, NEW m \in Nat
  PROVE  /\ SetNumbers(r, k, s, m) \in WalkRecord
         /\ SetNumbers(r, k, s, m).at = r.at /\ SetNumbers(r, k, s, m).after = r.after
         /\ SetNumbers(r, k, s, m).pages = k /\ SetNumbers(r, k, s, m).seen = s
         /\ SetNumbers(r, k, s, m).since = r.since /\ SetNumbers(r, k, s, m).until = r.until
         /\ SetNumbers(r, k, s, m).reply = r.reply /\ SetNumbers(r, k, s, m).total = m
         /\ SetNumbers(r, k, s, m).calm = r.calm /\ SetNumbers(r, k, s, m).shift = r.shift
  BY DEF SetNumbers, WalkRecord

SetPace(r, h, d, a) == [r EXCEPT !.shift = h, !.calm = d, !.at = a]
LEMMA SetPaceFields ==
  ASSUME NEW r \in WalkRecord, NEW h \in Nat, NEW d \in BOOLEAN, NEW a \in Steps
  PROVE  /\ SetPace(r, h, d, a) \in WalkRecord
         /\ SetPace(r, h, d, a).at = a /\ SetPace(r, h, d, a).after = r.after
         /\ SetPace(r, h, d, a).pages = r.pages /\ SetPace(r, h, d, a).seen = r.seen
         /\ SetPace(r, h, d, a).since = r.since /\ SetPace(r, h, d, a).until = r.until
         /\ SetPace(r, h, d, a).reply = r.reply /\ SetPace(r, h, d, a).total = r.total
         /\ SetPace(r, h, d, a).calm = d /\ SetPace(r, h, d, a).shift = h
  BY DEF SetPace, WalkRecord

SetShift(r, h) == [r EXCEPT !.shift = h]
LEMMA SetShiftFields ==
  ASSUME NEW r \in WalkRecord, NEW h \in Nat
  PROVE  /\ SetShift(r, h) \in WalkRecord
         /\ SetShift(r, h).at = r.at /\ SetShift(r, h).after = r.after
         /\ SetShift(r, h).pages = r.pages /\ SetShift(r, h).seen = r.seen
         /\ SetShift(r, h).since = r.since /\ SetShift(r, h).until = r.until
         /\ SetShift(r, h).reply = r.reply /\ SetShift(r, h).total = r.total
         /\ SetShift(r, h).calm = r.calm /\ SetShift(r, h).shift = h
  BY DEF SetShift, WalkRecord

SetCalm(r, d) == [r EXCEPT !.calm = d]
LEMMA SetCalmFields ==
  ASSUME NEW r \in WalkRecord, NEW d \in BOOLEAN
  PROVE  /\ SetCalm(r, d) \in WalkRecord
         /\ SetCalm(r, d).at = r.at /\ SetCalm(r, d).after = r.after
         /\ SetCalm(r, d).pages = r.pages /\ SetCalm(r, d).seen = r.seen
         /\ SetCalm(r, d).since = r.since /\ SetCalm(r, d).until = r.until
         /\ SetCalm(r, d).reply = r.reply /\ SetCalm(r, d).total = r.total
         /\ SetCalm(r, d).calm = d /\ SetCalm(r, d).shift = r.shift
  BY DEF SetCalm, WalkRecord

LEMMA IdleFields ==
  /\ Idle \in WalkRecord
  /\ Idle.at = "idle" /\ Idle.after = Top /\ Idle.pages = 0 /\ Idle.seen = {}
  /\ Idle.since = 0 /\ Idle.calm = TRUE /\ Idle.shift = 0
<1>1. NoPage \in ListedPages
  BY CursorTypes DEF NoPage, ListedPages
<1> QED BY <1>1, CursorTypes DEF Idle, WalkRecord, Steps

(***************************************************************************)
(* What a change of the portal or of the clock leaves true.                *)
(***************************************************************************)
LEMMA FitsStays ==
  ASSUME NEW p, NEW c, NEW t \in Int, NEW u \in Int, u <= t,
         NEW S, NEW Q \in SUBSET S, NEW born, NEW bred,
         \A l \in Q : bred[l] = born[l] /\ born[l] \in Int,
         PageFits(p, c, t, S, born)
  PROVE  PageFits(p, c, u, Q, bred)
<1>1. \A l \in Q : bred[l] < u => born[l] < t
  OBVIOUS
<1> QED BY <1>1 DEF PageFits

LEMMA FitsANewLot ==
  ASSUME NEW p, NEW c, NEW t \in Int, NEW S, NEW l, NEW now \in Int, t <= now,
         NEW born, NEW bred, bred[l] = now, \A m \in S : m # l => bred[m] = born[m],
         PageFits(p, c, t, S, born)
  PROVE  PageFits(p, c, t, S \cup {l}, bred)
<1>1. ~(bred[l] < t)
  OBVIOUS
<1>2. \A m \in S \cup {l} : bred[m] < t => m \in S /\ born[m] < t
  BY <1>1
<1> QED BY <1>2 DEF PageFits

(* A lot leaves the list, or nothing changes.                              *)
LEMMA SoundWithFewer ==
  ASSUME NEW r \in WalkRecord, NEW q \in WalkRecord, NEW now \in Nat,
         NEW S \in SUBSET Lots, NEW Q \in SUBSET S,
         NEW born \in [Lots -> Nat], NEW bred \in [Lots -> Nat],
         \A l \in Q : bred[l] = born[l],
         q.at = r.at, q.after = r.after, q.seen = r.seen, q.since = r.since,
         q.until = r.until, q.reply = r.reply, q.calm => r.calm /\ r.at # "html",
         WalkSound(r, now, S, born)
  PROVE  WalkSound(q, now, Q, bred)
<1>1. q.since <= now
  BY DEF WalkSound
<1>2. ReplyFits(q, now, Q, bred)
  <2> SUFFICES ASSUME q.at = "reply"
               PROVE  /\ now <= r.until /\ r.until <= now + MaxFlight
                      /\ r.since + MaxFlight <= r.until
                      /\ PageFits(r.reply, r.after, r.until - MaxFlight, Q, bred)
    BY DEF ReplyFits
  <2>1. /\ now <= r.until /\ r.until <= now + MaxFlight
        /\ r.since + MaxFlight <= r.until
        /\ PageFits(r.reply, r.after, r.until - MaxFlight, S, born)
    BY DEF ReplyFits, WalkSound
  <2>2. r.until - MaxFlight \in Int
    BY CursorTypes DEF WalkRecord
  <2>3. \A l \in Q : bred[l] = born[l] /\ born[l] \in Int
    OBVIOUS
  <2>4. PageFits(r.reply, r.after, r.until - MaxFlight, Q, bred)
    BY <2>1, <2>2, <2>3, FitsStays
  <2> QED BY <2>1, <2>4
<1>3. CursorIsSound(q, Q, bred)
  BY DEF WalkSound, CursorIsSound
<1>4. NumbersAreSound(q, Q, bred)
  BY DEF NumbersAreSound
<1>5. EndIsSound(q, Q, bred)
  BY DEF WalkSound, EndIsSound
<1> QED BY <1>1, <1>2, <1>3, <1>4, <1>5 DEF WalkSound

LEMMA SoundLater ==
  ASSUME NEW r \in WalkRecord, NEW now \in Nat, NEW S, NEW born,
         r.at = "reply" => now < r.until,
         WalkSound(r, now, S, born)
  PROVE  WalkSound(r, now + 1, S, born)
<1>1. r.since \in Nat /\ r.until \in Nat /\ MaxFlight \in Nat
  BY CursorTypes DEF WalkRecord
<1>2. r.since <= now + 1
  BY <1>1 DEF WalkSound
<1>3. ReplyFits(r, now + 1, S, born)
  <2>1. ReplyFits(r, now, S, born)
    BY DEF WalkSound
  <2> QED BY <1>1, <2>1 DEF ReplyFits
<1> QED BY <1>2, <1>3 DEF WalkSound

(* A lot appears above all others.                                         *)
LEMMA SoundWithANewLot ==
  ASSUME NEW r \in WalkRecord, NEW q \in WalkRecord, NEW now \in Nat,
         NEW S \in SUBSET Lots, NEW l \in Lots \ S, \A m \in S : m < l,
         NEW born \in [Lots -> Nat], NEW bred \in [Lots -> Nat],
         bred[l] = now, \A m \in S : bred[m] = born[m],
         q.at = r.at, q.after = r.after, q.seen = r.seen, q.since = r.since,
         q.until = r.until, q.reply = r.reply, q.calm = r.calm,
         q.pages = r.pages, q.total = r.total,
         r.at = "html" => q.shift = r.shift + 1,
         WalkSound(r, now, S, born)
  PROVE  WalkSound(q, now, S \cup {l}, bred)
<1>0. /\ r.since \in Nat /\ r.since <= now /\ Horizon \in Nat /\ Horizon > 0
      /\ MaxFlight \in Nat /\ r.until \in Nat
  BY CursorTypes DEF WalkSound, WalkRecord
<1>1. q.since <= now
  BY <1>0
<1>2. ReplyFits(q, now, S \cup {l}, bred)
  <2> SUFFICES ASSUME r.at = "reply"
               PROVE  /\ now <= r.until /\ r.until <= now + MaxFlight
                      /\ r.since + MaxFlight <= r.until
                      /\ PageFits(r.reply, r.after, r.until - MaxFlight, S \cup {l}, bred)
    BY DEF ReplyFits
  <2>1. /\ now <= r.until /\ r.until <= now + MaxFlight
        /\ r.since + MaxFlight <= r.until
        /\ PageFits(r.reply, r.after, r.until - MaxFlight, S, born)
    BY DEF ReplyFits, WalkSound
  <2>2. r.until - MaxFlight \in Int /\ r.until - MaxFlight <= now
    BY <1>0, <2>1
  <2>3. PageFits(r.reply, r.after, r.until - MaxFlight, S \cup {l}, bred)
    BY <2>1, <2>2, FitsANewLot
  <2> QED BY <2>1, <2>3
<1>3. CursorIsSound(q, S \cup {l}, bred)
  <2>1. ~(bred[l] + Horizon <= r.since)
    BY <1>0
  <2>2. CursorIsSound(r, S, born)
    BY DEF WalkSound
  <2> QED BY <2>1, <2>2 DEF CursorIsSound
<1>4. ~(bred[l] < r.since)
  BY <1>0
<1>5. NumbersAreSound(q, S \cup {l}, bred)
  <2> SUFFICES ASSUME r.at = "html", r.calm, r.pages # 0
               PROVE  \E F \in SUBSET (S \cup {l}) : FirstListing(q, F, S \cup {l}, bred)
    BY DEF WalkSound, NumbersAreSound
  <2>1. PICK F \in SUBSET S : FirstListing(r, F, S, born)
    BY DEF WalkSound, NumbersAreSound
  <2>2. (S \cup {l}) \ F = (S \ F) \cup {l}
    OBVIOUS
  <2> DEFINE n == Cardinality(S \ F)
  <2>3. Cardinality((S \cup {l}) \ F) = n + 1 /\ n \in Nat
    <3>1. S \ F \in SUBSET Lots
      OBVIOUS
    <3>2. IsFiniteSet(S \ F) /\ n \in Nat
      BY <3>1, LotsCounted
    <3>3. l \notin S \ F
      OBVIOUS
    <3>4. Cardinality((S \ F) \cup {l}) = n + 1
      BY <3>2, <3>3, FS_AddElement
    <3> QED BY <2>2, <3>2, <3>4
  <2>4. Cardinality((S \cup {l}) \ F) - q.shift = n - r.shift
    <3>1. r.shift \in Nat /\ q.shift = r.shift + 1
      BY DEF WalkRecord
    <3> HIDE DEF n
    <3> QED BY <2>3, <3>1
  <2>5. q.shift <= Cardinality((S \cup {l}) \ F)
    <3>1. r.shift \in Nat /\ q.shift = r.shift + 1 /\ r.shift <= n
      BY <2>1 DEF WalkRecord, FirstListing
    <3> HIDE DEF n
    <3> QED BY <2>3, <3>1
  <2>6. \A k \in (S \cup {l}) \ F, f \in F : k > f
    <3>1. \A k \in S \ F, f \in F : k > f
      BY <2>1 DEF FirstListing
    <3>2. \A f \in F : l > f
      BY CursorTypes
    <3> QED BY <2>2, <3>1, <3>2
  <2>7. \A k \in S \cup {l} : bred[k] < q.since => k \in F
    BY <1>4, <2>1 DEF FirstListing
  <2>8. FirstListing(q, F, S \cup {l}, bred)
    BY <2>1, <2>4, <2>5, <2>6, <2>7 DEF FirstListing
  <2> QED BY <2>8
<1>6. EndIsSound(q, S \cup {l}, bred)
  BY <1>4 DEF WalkSound, EndIsSound
<1> QED BY <1>1, <1>2, <1>3, <1>5, <1>6 DEF WalkSound

LEMMA EntryWithANewLot ==
  ASSUME NEW e \in CacheRecord, NEW c, NEW now \in Nat, NEW S, NEW l, NEW born, NEW bred,
         bred[l] = now, \A m \in S : bred[m] = born[m], EntryFits(e, c, now, S, born)
  PROVE  EntryFits(e, c, now, S \cup {l}, bred)
<1> SUFFICES ASSUME e.until > now
             PROVE  /\ e.until <= now + CacheTtl
                    /\ PageFits(e.page, c, e.until - Horizon, S \cup {l}, bred)
  BY DEF EntryFits
<1>1. e.until <= now + CacheTtl /\ PageFits(e.page, c, e.until - Horizon, S, born)
  BY DEF EntryFits
<1>2. e.until - Horizon \in Int /\ e.until - Horizon <= now
  <2>1. e.until \in Nat
    BY DEF CacheRecord
  <2> QED BY <1>1, <2>1, CursorTypes
<1>3. PageFits(e.page, c, e.until - Horizon, S \cup {l}, bred)
  <2> DEFINE p == e.page
             t == e.until - Horizon
  <2>1. t \in Int /\ t <= now /\ now \in Int /\ PageFits(p, c, t, S, born)
    BY <1>1, <1>2
  <2>2. bred[l] = now /\ \A m \in S : m # l => bred[m] = born[m]
    OBVIOUS
  <2> HIDE DEF p, t
  <2>3. PageFits(p, c, t, S \cup {l}, bred)
    BY <2>1, <2>2, FitsANewLot
  <2> QED BY <2>3 DEF p, t
<1> QED BY <1>1, <1>3

(***************************************************************************)
(* What a page leaves true.                                                *)
(***************************************************************************)
WalkedOn(r, page) ==
  LET pages == r.pages + 1
      ended == page.items = {} \/ ~page.more \/ page.last = r.after
  IN  SetNext(SetSeen(r, r.seen \cup page.items, pages, NoPage), 0,
              IF ended THEN Top ELSE page.last,
              IF ended THEN "done" ELSE IF pages >= PageCap THEN "capped" ELSE "look")

LEMMA SoundAfterPage ==
  ASSUME NEW r \in WalkRecord, r.at \in {"look", "wait", "reply"},
         NEW now \in Nat, NEW S \in SUBSET Lots, NEW born \in [Lots -> Nat],
         NEW p \in ListedPages, NEW t \in Int, r.since < t + Horizon,
         PageFits(p, r.after, t, S, born), WalkSound(r, now, S, born)
  PROVE  WalkedOn(r, p) \in WalkRecord /\ WalkSound(WalkedOn(r, p), now, S, born)
<1> DEFINE pages == r.pages + 1
           ended == p.items = {} \/ ~p.more \/ p.last = r.after
           after == IF ended THEN Top ELSE p.last
           at == IF ended THEN "done" ELSE IF pages >= PageCap THEN "capped" ELSE "look"
           seen == r.seen \cup p.items
           h == SetSeen(r, seen, pages, NoPage)
           q == SetNext(h, 0, after, at)
<1>1. pages \in Nat /\ seen \in SUBSET Lots /\ NoPage \in ListedPages
  BY CursorTypes DEF WalkRecord, ListedPages, NoPage
<1>2. after \in Cursors /\ at \in Steps
  BY CursorTypes DEF ListedPages, Steps
<1>3. /\ h \in WalkRecord /\ h.since = r.since /\ h.seen = seen
  <2> HIDE DEF pages, seen
  <2> QED BY <1>1, SetSeenFields
<1>4. /\ q \in WalkRecord /\ q.since = h.since /\ q.seen = h.seen
      /\ q.at = at /\ q.after = after
  <2> HIDE DEF h, after, at
  <2> QED BY <1>2, <1>3, SetNextFields
<1>5. WalkedOn(r, p) = q
  BY DEF WalkedOn
<1>6. \A l \in S : l \in Nat /\ born[l] \in Nat /\ l < Top /\ r.after \in Nat
  BY CursorTypes DEF WalkRecord
<1>7. \A l \in S : (born[l] + Horizon <= r.since /\ l >= r.after) => l \in r.seen
  BY DEF WalkSound, CursorIsSound
<1>8. \A l \in S : born[l] + Horizon <= r.since => born[l] < t
  <2>1. r.since \in Nat /\ Horizon \in Nat
    BY CursorTypes DEF WalkRecord
  <2> QED BY <1>6, <2>1
<1>9. ASSUME NEW l \in S, born[l] + Horizon <= r.since,
             (at \in {"look", "done"} /\ l >= after) \/ at = "done"
      PROVE  l \in seen
  <2>1. CASE l >= r.after
    BY <1>7, <1>9, <2>1
  <2>2. CASE l < r.after
    <3>1. /\ l >= p.last => l \in p.items
          /\ ~p.more => l \in p.items
          /\ p.items # {} /\ p.last < r.after
      BY <1>8, <1>9, <2>2 DEF PageFits
    <3>2. p.last \in Nat
      BY CursorTypes DEF ListedPages
    <3>3. CASE ended
      BY <1>6, <3>1, <3>2, <3>3
    <3>4. CASE ~ended
      <4>1. at # "done" /\ after = p.last
        BY <3>4
      <4> QED BY <1>9, <3>1, <4>1
    <3> QED BY <3>3, <3>4
  <2> QED BY <1>6, <2>1, <2>2
<1> HIDE DEF q, h, after, at, seen
<1>10. CursorIsSound(q, S, born)
  <2>1. at \in {"done", "capped", "look"}
    BY DEF at
  <2> QED BY <1>3, <1>4, <1>9, <2>1 DEF CursorIsSound
<1>11. at \notin {"reply", "html", "htmlDone"}
  BY DEF at
<1>12. WalkSound(q, now, S, born)
  BY <1>3, <1>4, <1>10, <1>11 DEF WalkSound, ReplyFits, NumbersAreSound, EndIsSound
<1> QED BY <1>4, <1>5, <1>12

PageOf(S, p) == NewestOf(S, p * PerPage) \ NewestOf(S, (p - 1) * PerPage)

NumberedOn(r, S) ==
  LET p     == r.pages + 1
      fresh == PageOf(S, p) \ r.seen
      total == IF p = 1 THEN Cardinality(S) ELSE r.total
      seen  == r.seen \cup fresh
  IN  SetPace(SetNumbers(r, p, seen, total), 0, r.calm /\ r.shift < PerPage,
              IF fresh = {} \/ Cardinality(seen) >= total THEN "htmlDone"
              ELSE IF p >= PageCap THEN "capped" ELSE "html")

(* The first page: what is listed now is the first listing.                *)
LEMMA FirstNumber ==
  ASSUME NEW S \in SUBSET Lots
  PROVE  /\ PageOf(S, 1) = NewestOf(S, PerPage)
         /\ PageOf(S, 1) = {} => S = {}
<1>1. PerPage \in Nat /\ 0 < PerPage /\ 1 * PerPage = PerPage /\ (1 - 1) * PerPage = 0
  BY ListingAssumption
<1>2. PageOf(S, 1) = NewestOf(S, PerPage)
  BY <1>1, NewestOfNone DEF PageOf
<1>3. NewestOf(S, PerPage) = {} => S = {}
  <2> SUFFICES ASSUME NewestOf(S, PerPage) = {} PROVE S = {}
    OBVIOUS
  <2>1. NewestOf(S, PerPage) \subseteq NewestOf(S, 0)
    OBVIOUS
  <2>2. NewestOf(S, 0) = S
    BY <1>1, <2>1, NewestAreAll
  <2> QED BY <2>2, NewestOfNone
<1> QED BY <1>2, <1>3

(* A later page continues where the one before ended, or overlaps it.      *)
LEMMA NextNumber ==
  ASSUME NEW S \in SUBSET Lots, NEW F \in SUBSET S,
         \A l \in S \ F, f \in F : l > f,
         NEW k \in Nat, NEW h \in Nat, h <= Cardinality(S \ F), h < PerPage,
         Cardinality(S \ F) - h + PerPage <= k * PerPage
  PROVE  LET old == NewestOf(F, k * PerPage - (Cardinality(S \ F) - h))
             new == NewestOf(F, (k + 1) * PerPage - Cardinality(S \ F))
         IN  /\ old \cup PageOf(S, k + 1) = new
             /\ PageOf(S, k + 1) \subseteq old => old = F
<1> DEFINE g == Cardinality(S \ F)
           P == k * PerPage
           old == NewestOf(F, P - (g - h))
           new == NewestOf(F, (k + 1) * PerPage - g)
<1>1. PerPage \in Nat /\ g \in Nat /\ P \in Nat
  <2>1. S \ F \in SUBSET Lots
    OBVIOUS
  <2> QED BY <2>1, ListingAssumption, LotsCounted
<1>2. (k + 1) * PerPage = P + PerPage /\ (k + 1 - 1) * PerPage = P
  BY <1>1
<1>3. /\ g <= P /\ g <= P + PerPage
      /\ P - g <= P - (g - h) /\ P - (g - h) < (P + PerPage) - g
      /\ P - (g - h) \in Nat /\ (P + PerPage) - g \in Nat /\ P - g \in Nat
  <2>1. h <= g /\ g - h + PerPage <= P
    OBVIOUS
  <2> HIDE DEF g, P
  <2> QED BY <1>1, <2>1
<1>4. NewestOf(S, P) = (S \ F) \cup NewestOf(F, P - g)
  <2> HIDE DEF P
  <2> QED BY <1>1, <1>3, NewestSplit
<1>5. NewestOf(S, P + PerPage) = (S \ F) \cup NewestOf(F, (P + PerPage) - g)
  <2> DEFINE n == P + PerPage
  <2>1. n \in Nat /\ g <= n
    BY <1>1, <1>3
  <2> HIDE DEF n
  <2>2. NewestOf(S, n) = (S \ F) \cup NewestOf(F, n - g)
    BY <2>1, NewestSplit
  <2>3. n = P + PerPage
    BY DEF n
  <2> HIDE DEF P, g
  <2> QED BY <2>2, <2>3, Zenon
<1>6. new = NewestOf(F, (P + PerPage) - g)
  <2> HIDE DEF P, g
  <2> QED BY <1>2, Zenon
<1>7. PageOf(S, k + 1) = new \ NewestOf(F, P - g)
  <2>1. new \subseteq F
    BY DEF NewestOf
  <2>2. PageOf(S, k + 1) = NewestOf(S, P + PerPage) \ NewestOf(S, P)
    <3> HIDE DEF P
    <3> QED BY <1>2 DEF PageOf
  <2> HIDE DEF new, P, g
  <2> QED BY <1>4, <1>5, <1>6, <2>1, <2>2
<1>8. F \in SUBSET Lots
  OBVIOUS
<1>9. NewestOf(F, P - g) \subseteq old /\ old \subseteq new
  <2> HIDE DEF g, P
  <2> QED BY <1>1, <1>3, <1>6, <1>8, NewestGrows
<1>10. new \subseteq old => old = F
  <2> HIDE DEF g, P
  <2> QED BY <1>1, <1>3, <1>6, <1>8, NewestAreAll
<1> HIDE DEF old, new, P
<1>11. old \cup PageOf(S, k + 1) = new /\ (PageOf(S, k + 1) \subseteq old => old = F)
  BY <1>7, <1>9, <1>10
<1> QED BY <1>11 DEF old, new, P

LEMMA SoundAfterNumber ==
  ASSUME NEW r \in WalkRecord, r.at = "html",
         NEW now \in Nat, NEW S \in SUBSET Lots, NEW born \in [Lots -> Nat],
         WalkSound(r, now, S, born)
  PROVE  NumberedOn(r, S) \in WalkRecord /\ WalkSound(NumberedOn(r, S), now, S, born)
<1> DEFINE p == r.pages + 1
           fresh == PageOf(S, p) \ r.seen
           total == IF p = 1 THEN Cardinality(S) ELSE r.total
           seen == r.seen \cup fresh
           calm == r.calm /\ r.shift < PerPage
           at == IF fresh = {} \/ Cardinality(seen) >= total THEN "htmlDone"
                 ELSE IF p >= PageCap THEN "capped" ELSE "html"
           h == SetNumbers(r, p, seen, total)
           q == SetPace(h, 0, calm, at)
<1>1. /\ r.pages \in Nat /\ r.shift \in Nat /\ r.total \in Nat /\ r.calm \in BOOLEAN
      /\ r.seen \in SUBSET Lots /\ r.since \in Nat
  BY DEF WalkRecord
<1>2. PageOf(S, p) \subseteq S
  BY DEF PageOf, NewestOf
<1>3. p \in Nat /\ seen \in SUBSET Lots /\ total \in Nat
  BY <1>1, <1>2, LotsCounted
<1>4. calm \in BOOLEAN /\ at \in Steps
  BY DEF Steps
<1>5. /\ h \in WalkRecord /\ h.since = r.since /\ h.seen = seen /\ h.total = total
      /\ h.pages = p
  <2> HIDE DEF p, seen, total
  <2> QED BY <1>3, SetNumbersFields
<1>6. /\ q \in WalkRecord /\ q.since = h.since /\ q.seen = h.seen /\ q.total = h.total
      /\ q.pages = h.pages /\ q.shift = 0 /\ q.calm = calm /\ q.at = at
  <2> HIDE DEF h, calm, at
  <2> QED BY <1>4, <1>5, SetPaceFields
<1>7. NumberedOn(r, S) = q
  BY DEF NumberedOn
<1>8. ASSUME calm
      PROVE  \E F \in SUBSET S : FirstListing(q, F, S, born) /\ (fresh = {} => seen = F)
  <2>1. r.calm /\ r.shift < PerPage
    BY <1>8
  <2>2. CASE r.pages = 0
    <3>1. r.seen = {}
      BY <2>1, <2>2 DEF WalkSound, NumbersAreSound
    <3>2. p = 1 /\ total = Cardinality(S)
      BY <2>2
    <3>3. seen = NewestOf(S, PerPage) /\ (fresh = {} => seen = S)
      BY <3>1, <3>2, FirstNumber
    <3>4. /\ q.seen = NewestOf(S, PerPage) /\ q.total = Cardinality(S) /\ q.pages = 1
          /\ q.shift = 0
      BY <1>5, <1>6, <3>2, <3>3
    <3>5. S \ S = {} /\ Cardinality({}) = 0
      BY FS_EmptySet
    <3>6. 1 * PerPage - (0 - 0) = PerPage /\ 0 - 0 + PerPage <= 1 * PerPage
      BY ListingAssumption
    <3>7. FirstListing(q, S, S, born)
      <4>1. /\ \A l \in S \ S, f \in S : l > f
            /\ \A l \in S : born[l] < q.since => l \in S
            /\ Cardinality(S) = q.total
        BY <3>4
      <4>2. Cardinality(S \ S) = 0
        BY <3>5
      <4>3. q.pages * PerPage = PerPage /\ PerPage \in Nat
        BY <3>4, <3>6, ListingAssumption
      <4>4. q.shift <= 0 /\ 0 - q.shift + PerPage <= q.pages * PerPage
        <5> HIDE DEF q
        <5> QED BY <3>4, <4>3
      <4>5. q.pages * PerPage - (0 - q.shift) = PerPage
        <5> HIDE DEF q
        <5> QED BY <3>4, <4>3
      <4> HIDE DEF q
      <4>6. q.seen = NewestOf(S, q.pages * PerPage - (0 - q.shift))
        BY <3>4, <4>5, Zenon
      <4> QED BY <4>1, <4>2, <4>4, <4>6, Zenon DEF FirstListing
    <3> QED BY <3>3, <3>7
  <2>3. CASE r.pages # 0
    <3>1. PICK F \in SUBSET S : FirstListing(r, F, S, born)
      BY <2>1, <2>3 DEF WalkSound, NumbersAreSound
    <3> DEFINE g == Cardinality(S \ F)
    <3>2. g \in Nat
      <4>1. S \ F \in SUBSET Lots
        OBVIOUS
      <4> QED BY <4>1, LotsCounted
    <3>3. /\ \A l \in S \ F, f \in F : l > f
          /\ r.shift <= g /\ g - r.shift + PerPage <= r.pages * PerPage
          /\ r.seen = NewestOf(F, r.pages * PerPage - (g - r.shift))
          /\ Cardinality(F) = r.total
          /\ \A l \in S : born[l] < r.since => l \in F
      BY <3>1 DEF FirstListing
    <3>4. /\ r.seen \cup PageOf(S, p) = NewestOf(F, p * PerPage - g)
          /\ PageOf(S, p) \subseteq r.seen => r.seen = F
      <4>1. r.shift < PerPage /\ r.pages + 1 = p
        BY <2>1
      <4> HIDE DEF p
      <4>2. /\ r.seen \cup PageOf(S, r.pages + 1) = NewestOf(F, (r.pages + 1) * PerPage - g)
            /\ PageOf(S, r.pages + 1) \subseteq r.seen => r.seen = F
        <5> DEFINE k == r.pages
                   s == r.shift
        <5>1. k \in Nat /\ s \in Nat /\ s <= g /\ s < PerPage /\ g - s + PerPage <= k * PerPage
          BY <1>1, <3>3, <4>1
        <5> HIDE DEF k, s
        <5>2. LET old == NewestOf(F, k * PerPage - (g - s))
                  new == NewestOf(F, (k + 1) * PerPage - g)
              IN  /\ old \cup PageOf(S, k + 1) = new
                  /\ PageOf(S, k + 1) \subseteq old => old = F
          BY <3>3, <5>1, NextNumber
        <5>3. r.seen = NewestOf(F, k * PerPage - (g - s))
          BY <3>3 DEF k, s
        <5>4. k = r.pages
          BY DEF k
        <5> HIDE DEF g
        <5> QED BY <5>2, <5>3, <5>4, Zenon
      <4> HIDE DEF g
      <4> QED BY <4>1, <4>2, Zenon
    <3>5. seen = NewestOf(F, p * PerPage - g)
      BY <3>4
    <3>6. fresh = {} => seen = F
      BY <3>4
    <3>7. total = r.total
      BY <1>1, <2>3
    <3>8. g - 0 + PerPage <= p * PerPage /\ g - 0 = g /\ 0 <= g
      <4>1. PerPage \in Nat /\ r.pages * PerPage \in Nat
        BY <1>1, ListingAssumption
      <4>2. p * PerPage = r.pages * PerPage + PerPage
        BY <1>1, <4>1
      <4> DEFINE P == r.pages * PerPage
      <4>3. g <= P
        <5> DEFINE s == r.shift
        <5>1. g - s + PerPage <= P /\ s \in Nat /\ s < PerPage /\ P \in Nat
          BY <1>1, <2>1, <3>3, <4>1
        <5> HIDE DEF g, P, s
        <5> QED BY <3>2, <4>1, <5>1
      <4> HIDE DEF g
      <4> QED BY <3>2, <4>1, <4>2, <4>3
    <3>9. /\ q.seen = NewestOf(F, p * PerPage - g) /\ q.total = r.total /\ q.pages = p
          /\ q.shift = 0 /\ q.since = r.since
      <4> HIDE DEF q, h, seen, total, p, g
      <4> QED BY <1>5, <1>6, <3>5, <3>7
    <3>10. FirstListing(q, F, S, born)
      <4> HIDE DEF q, p
      <4> QED BY <3>3, <3>8, <3>9 DEF FirstListing
    <3> QED BY <3>6, <3>10
  <2> QED BY <2>2, <2>3
<1>9. ASSUME calm, at = "htmlDone" PROVE \A l \in S : born[l] < r.since => l \in seen
  <2>1. PICK F \in SUBSET S : FirstListing(q, F, S, born) /\ (fresh = {} => seen = F)
    BY <1>8, <1>9
  <2>2. /\ \A l \in S : born[l] < r.since => l \in F
        /\ Cardinality(F) = total
        /\ seen \subseteq F
    <3>1. /\ \A l \in S : born[l] < q.since => l \in F
          /\ Cardinality(F) = q.total /\ q.seen \subseteq F
      <4> HIDE DEF q
      <4> QED BY <2>1 DEF FirstListing, NewestOf
    <3>2. q.since = r.since /\ q.total = total /\ q.seen = seen
      <4> HIDE DEF q, h, seen, total
      <4> QED BY <1>5, <1>6
    <3> HIDE DEF q, total, seen
    <3> QED BY <3>1, <3>2
  <2>3. seen = F
    <3>1. fresh = {} \/ Cardinality(seen) >= total
      BY <1>9
    <3>2. CASE Cardinality(seen) >= total
      <4>1. F \in SUBSET Lots
        OBVIOUS
      <4>2. IsFiniteSet(F) /\ Cardinality(F) \in Nat /\ Cardinality(seen) \in Nat
        BY <1>3, <4>1, LotsCounted
      <4> HIDE DEF seen, total
      <4>3. Cardinality(seen) <= Cardinality(F)
        BY <2>2, <4>2, FS_Subset
      <4>4. Cardinality(seen) = Cardinality(F)
        BY <1>3, <2>2, <3>2, <4>2, <4>3
      <4> QED BY <2>2, <4>2, <4>4, FS_Subset
    <3> QED BY <2>1, <3>1, <3>2
  <2> QED BY <2>2, <2>3
<1>10. at \in {"htmlDone", "capped", "html"}
  OBVIOUS
<1>11. r.since <= now
  BY DEF WalkSound
<1> HIDE DEF q, h, fresh, total, seen, calm, at
<1>12. p # 0
  BY <1>1
<1>13. NumbersAreSound(q, S, born)
  <2> SUFFICES ASSUME q.calm PROVE \E F \in SUBSET S : FirstListing(q, F, S, born)
    BY <1>5, <1>6, <1>12 DEF NumbersAreSound
  <2> QED BY <1>6, <1>8
<1>14. EndIsSound(q, S, born)
  BY <1>5, <1>6, <1>9 DEF EndIsSound
<1>15. ReplyFits(q, now, S, born) /\ CursorIsSound(q, S, born)
  BY <1>6, <1>10 DEF ReplyFits, CursorIsSound
<1>16. WalkSound(q, now, S, born)
  BY <1>5, <1>6, <1>11, <1>13, <1>14, <1>15 DEF WalkSound
<1> QED BY <1>6, <1>7, <1>16

(***************************************************************************)
(* The steps.                                                              *)
(***************************************************************************)
LEMMA ListingInvInit == ListingInit => ListingInv
<1> SUFFICES ASSUME ListingInit PROVE ListingInv
  OBVIOUS
<1>1. NoPage \in ListedPages
  BY CursorTypes DEF NoPage, ListedPages
<1>2. [page |-> NoPage, until |-> 0] \in CacheRecord
  BY <1>1 DEF CacheRecord
<1>3. ListingTypes
  <2>1. time \in Nat /\ listed \subseteq Lots
    BY CursorTypes, ListingAssumption DEF ListingInit, Lots
  <2> QED BY <1>2, <2>1, IdleFields DEF ListingInit, ListingTypes
<1>4. CacheIsSound
  BY CursorTypes DEF ListingInit, CacheIsSound, EntryFits
<1>5. WalkSound(Idle, Horizon, listed, bornAt)
  BY IdleFields, CursorTypes
     DEF WalkSound, ReplyFits, CursorIsSound, NumbersAreSound, EndIsSound
<1> QED BY <1>3, <1>4, <1>5 DEF ListingInv, WalksAreSound, ListingInit

(* One walker moves and the portal does not.                               *)
LEMMA OneWalks ==
  ASSUME ListingInv, NEW v \in Walkers, NEW q \in WalkRecord,
         walk' = [walk EXCEPT ![v] = q], WalkSound(q, time, listed, bornAt),
         UNCHANGED <<time, listed, bornAt, cache>>
  PROVE  ListingInv'
<1>1. ListingTypes'
  BY DEF ListingInv, ListingTypes
<1>2. CacheIsSound'
  <2>1. CacheIsSound
    BY DEF ListingInv
  <2> QED BY <2>1 DEF CacheIsSound
<1>3. WalksAreSound'
  <2> SUFFICES ASSUME NEW w \in Walkers PROVE WalkSound(walk'[w], time, listed, bornAt)
    BY DEF WalksAreSound
  <2>1. WalkSound(walk[w], time, listed, bornAt) /\ walk \in [Walkers -> WalkRecord]
    BY DEF ListingInv, WalksAreSound, ListingTypes
  <2> QED BY <2>1
<1> QED BY <1>1, <1>2, <1>3 DEF ListingInv

LEMMA WalkTypes ==
  ASSUME ListingInv, NEW v \in Walkers
  PROVE  /\ walk \in [Walkers -> WalkRecord] /\ walk[v] \in WalkRecord
         /\ WalkSound(walk[v], time, listed, bornAt)
         /\ time \in Nat /\ listed \in SUBSET Lots /\ bornAt \in [Lots -> Nat]
  BY DEF ListingInv, ListingTypes, WalksAreSound

(* A walker goes on with the place it has reached.                         *)
LEMMA SoundOnTheWay ==
  ASSUME NEW r \in WalkRecord, NEW q \in WalkRecord, NEW now, NEW S, NEW born,
         r.at \in {"look", "wait", "fetch"}, q.at \in {"wait", "fetch"},
         q.after = r.after, q.seen = r.seen, q.since = r.since,
         WalkSound(r, now, S, born)
  PROVE  WalkSound(q, now, S, born)
  BY DEF WalkSound, ReplyFits, CursorIsSound, NumbersAreSound, EndIsSound

LEMMA LotAppearsKeeps == ListingInv /\ LotAppears => ListingInv'
<1> SUFFICES ASSUME ListingInv, NEW l \in Lots \ listed,
                    \A m \in listed : m < l,
                    listed' = listed \cup {l}, bornAt' = [bornAt EXCEPT ![l] = time],
                    walk' = [v \in Walkers |-> [walk[v] EXCEPT
                               !.shift = IF walk[v].at = "html" THEN @ + 1 ELSE @]],
                    UNCHANGED <<time, cache, fetchLock>>
             PROVE  ListingInv'
  BY DEF LotAppears
<1>1. /\ time \in Nat /\ listed \in SUBSET Lots /\ bornAt \in [Lots -> Nat]
      /\ cache \in [Cursors -> CacheRecord]
  BY DEF ListingInv, ListingTypes
<1>2. /\ bornAt' \in [Lots -> Nat] /\ bornAt'[l] = time
      /\ \A m \in listed : bornAt'[m] = bornAt[m]
  BY <1>1
<1>3. ASSUME NEW v \in Walkers
      PROVE  walk'[v] \in WalkRecord /\ WalkSound(walk'[v], time, listed', bornAt')
  <2> DEFINE r == walk[v]
             h == IF r.at = "html" THEN r.shift + 1 ELSE r.shift
             q == SetShift(r, h)
  <2>1. r \in WalkRecord /\ WalkSound(r, time, listed, bornAt)
    BY WalkTypes
  <2>2. h \in Nat
    BY <2>1 DEF WalkRecord
  <2>3. walk'[v] = q
    BY DEF SetShift
  <2>4. /\ q \in WalkRecord
        /\ q.at = r.at /\ q.after = r.after /\ q.seen = r.seen /\ q.since = r.since
        /\ q.until = r.until /\ q.reply = r.reply /\ q.calm = r.calm
        /\ q.pages = r.pages /\ q.total = r.total /\ q.shift = h
    <3> HIDE DEF r, h
    <3> QED BY <2>1, <2>2, SetShiftFields
  <2>5. r.at = "html" => q.shift = r.shift + 1
    <3> HIDE DEF q, r
    <3> QED BY <2>4
  <2> DEFINE b == bornAt'
  <2>6. b \in [Lots -> Nat] /\ b[l] = time /\ \A m \in listed : b[m] = bornAt[m]
    BY <1>2
  <2> HIDE DEF q, r, h, b
  <2>7. WalkSound(q, time, listed \cup {l}, b)
    BY <1>1, <2>1, <2>4, <2>5, <2>6, SoundWithANewLot
  <2> QED BY <2>3, <2>4, <2>7 DEF b
<1>4. ListingTypes'
  <2>1. walk' \in [Walkers -> WalkRecord]
    BY <1>3
  <2> QED BY <1>1, <1>2, <2>1 DEF ListingTypes
<1>5. CacheIsSound'
  <2> SUFFICES ASSUME NEW c \in Cursors PROVE EntryFits(cache[c], c, time, listed', bornAt')
    BY DEF CacheIsSound
  <2>1. EntryFits(cache[c], c, time, listed, bornAt) /\ cache[c] \in CacheRecord
    BY <1>1 DEF ListingInv, CacheIsSound
  <2> DEFINE e == cache[c]
             b == bornAt'
  <2>2. b[l] = time /\ \A m \in listed : b[m] = bornAt[m]
    BY <1>2
  <2>3. EntryFits(e, c, time, listed, bornAt) /\ e \in CacheRecord
    BY <2>1
  <2> HIDE DEF e, b
  <2>4. EntryFits(e, c, time, listed \cup {l}, b)
    BY <1>1, <2>2, <2>3, EntryWithANewLot
  <2> QED BY <2>4 DEF e, b
<1>6. WalksAreSound'
  BY <1>3 DEF WalksAreSound
<1> QED BY <1>4, <1>5, <1>6 DEF ListingInv

LEMMA WithdrawKeeps == ListingInv /\ Withdraw => ListingInv'
<1> SUFFICES ASSUME ListingInv, NEW l \in listed,
                    listed' = listed \ {l}, bornAt' = [bornAt EXCEPT ![l] = time],
                    walk' = [v \in Walkers |-> [walk[v] EXCEPT
                               !.calm = @ /\ walk[v].at # "html"]],
                    UNCHANGED <<time, cache, fetchLock>>
             PROVE  ListingInv'
  BY DEF Withdraw
<1>1. /\ time \in Nat /\ listed \in SUBSET Lots /\ bornAt \in [Lots -> Nat]
      /\ cache \in [Cursors -> CacheRecord]
  BY DEF ListingInv, ListingTypes
<1>2. /\ bornAt' \in [Lots -> Nat] /\ listed' \in SUBSET listed
      /\ \A m \in listed' : bornAt'[m] = bornAt[m] /\ bornAt[m] \in Int
  BY <1>1
<1>3. ASSUME NEW v \in Walkers
      PROVE  walk'[v] \in WalkRecord /\ WalkSound(walk'[v], time, listed', bornAt')
  <2> DEFINE r == walk[v]
             d == r.calm /\ r.at # "html"
             q == SetCalm(r, d)
  <2>1. r \in WalkRecord /\ WalkSound(r, time, listed, bornAt)
    BY WalkTypes
  <2>2. d \in BOOLEAN
    OBVIOUS
  <2>3. walk'[v] = q
    BY DEF SetCalm
  <2>4. /\ q \in WalkRecord
        /\ q.at = r.at /\ q.after = r.after /\ q.seen = r.seen /\ q.since = r.since
        /\ q.until = r.until /\ q.reply = r.reply /\ q.calm = d
    <3> HIDE DEF r, d
    <3> QED BY <2>1, <2>2, SetCalmFields
  <2>5. q.calm => r.calm /\ r.at # "html"
    <3> HIDE DEF q, r
    <3> QED BY <2>4
  <2> HIDE DEF q, r, d
  <2>6. WalkSound(q, time, listed', bornAt')
    BY <1>1, <1>2, <2>1, <2>4, <2>5, SoundWithFewer
  <2> QED BY <2>3, <2>4, <2>6
<1>4. ListingTypes'
  <2>1. walk' \in [Walkers -> WalkRecord]
    BY <1>3
  <2> QED BY <1>1, <1>2, <2>1 DEF ListingTypes
<1>5. CacheIsSound'
  <2> SUFFICES ASSUME NEW c \in Cursors PROVE EntryFits(cache[c], c, time, listed', bornAt')
    BY DEF CacheIsSound
  <2>1. EntryFits(cache[c], c, time, listed, bornAt)
    BY DEF ListingInv, CacheIsSound
  <2> DEFINE e == cache[c]
             t == e.until - Horizon
  <2>2. t \in Int /\ t <= t
    BY <1>1, CursorTypes DEF CacheRecord
  <2> SUFFICES ASSUME e.until > time
               PROVE  e.until <= time + CacheTtl /\ PageFits(e.page, c, t, listed', bornAt')
    BY DEF EntryFits
  <2>3. e.until <= time + CacheTtl /\ PageFits(e.page, c, t, listed, bornAt)
    BY <2>1 DEF EntryFits
  <2> HIDE DEF e, t
  <2>5. PageFits(e.page, c, t, listed', bornAt')
    BY <1>2, <2>2, <2>3, FitsStays
  <2> QED BY <2>3, <2>5
<1>6. WalksAreSound'
  BY <1>3 DEF WalksAreSound
<1> QED BY <1>4, <1>5, <1>6 DEF ListingInv

LEMMA TimePassesKeeps == ListingInv /\ TimePasses => ListingInv'
<1> SUFFICES ASSUME ListingInv,
                    \A v \in Walkers : walk[v].at = "reply" => time < walk[v].until,
                    time' = time + 1,
                    cache' = [c \in Cursors |-> IF cache[c].until <= time + 1
                                THEN [page |-> NoPage, until |-> 0] ELSE cache[c]],
                    UNCHANGED <<listed, bornAt, walk>>
             PROVE  ListingInv'
  BY DEF TimePasses
<1>1. time \in Nat /\ cache \in [Cursors -> CacheRecord]
  BY DEF ListingInv, ListingTypes
<1>2. [page |-> NoPage, until |-> 0] \in CacheRecord
  BY CursorTypes DEF CacheRecord, NoPage, ListedPages
<1>3. ListingTypes'
  BY <1>1, <1>2 DEF ListingInv, ListingTypes
<1>4. CacheIsSound'
  <2> SUFFICES ASSUME NEW c \in Cursors
               PROVE  EntryFits(cache'[c], c, time + 1, listed, bornAt)
    BY DEF CacheIsSound
  <2>1. EntryFits(cache[c], c, time, listed, bornAt)
    BY DEF ListingInv, CacheIsSound
  <2>2. cache[c].until \in Nat
    BY <1>1 DEF CacheRecord
  <2>3. CASE cache[c].until <= time + 1
    BY <1>1, <2>3 DEF EntryFits
  <2>4. CASE ~(cache[c].until <= time + 1)
    <3>1. cache'[c] = cache[c]
      BY <2>4
    <3> QED BY <1>1, <2>1, <2>2, <3>1, CursorTypes DEF EntryFits
  <2> QED BY <2>3, <2>4
<1>5. WalksAreSound'
  <2> SUFFICES ASSUME NEW v \in Walkers
               PROVE  WalkSound(walk[v], time + 1, listed, bornAt)
    BY DEF WalksAreSound
  <2> QED BY WalkTypes, SoundLater
<1> QED BY <1>3, <1>4, <1>5 DEF ListingInv

(* A page of the cache, or an answer that has come.                        *)
LEMMA ConsumedIsWalkedOn ==
  ASSUME NEW v \in Walkers, walk \in [Walkers -> WalkRecord],
         NEW page, Consumed(v, page)
  PROVE  walk' = [walk EXCEPT ![v] = WalkedOn(walk[v], page)]
<1> DEFINE r == walk[v]
           pages == r.pages + 1
           ended == page.items = {} \/ ~page.more \/ page.last = r.after
           after == IF ended THEN Top ELSE page.last
           at == IF ended THEN "done" ELSE IF pages >= PageCap THEN "capped" ELSE "look"
           q == [r EXCEPT !.seen = @ \cup page.items, !.pages = pages, !.reply = NoPage,
                          !.until = 0, !.after = after, !.at = at]
<1>1. walk' = [walk EXCEPT ![v] = q]
  BY DEF Consumed
<1>2. q = SetNext(SetSeen(r, r.seen \cup page.items, pages, NoPage), 0, after, at)
  <2>1. r \in WalkRecord
    OBVIOUS
  <2> HIDE DEF r, pages, after, at
  <2> QED BY <2>1 DEF SetNext, SetSeen, WalkRecord
<1>3. WalkedOn(r, page) = SetNext(SetSeen(r, r.seen \cup page.items, pages, NoPage), 0, after, at)
  BY DEF WalkedOn
<1> HIDE DEF q
<1> QED BY <1>1, <1>2, <1>3

LEMMA HitKeeps ==
  ASSUME NEW v \in Walkers, ListingInv, Hit(v)
  PROVE  ListingInv'
<1> DEFINE r == walk[v]
           e == cache[r.after]
           q == WalkedOn(r, e.page)
           t == e.until - Horizon
<1>1. /\ r \in WalkRecord /\ WalkSound(r, time, listed, bornAt) /\ time \in Nat
      /\ listed \in SUBSET Lots /\ bornAt \in [Lots -> Nat]
      /\ walk \in [Walkers -> WalkRecord]
  BY WalkTypes
<1>2. r.after \in Cursors /\ r.since \in Nat /\ r.since <= time
  BY <1>1 DEF WalkRecord, WalkSound
<1>3. e \in CacheRecord /\ EntryFits(e, r.after, time, listed, bornAt)
  BY <1>2 DEF ListingInv, ListingTypes, CacheIsSound
<1>4. e.page \in ListedPages /\ e.until \in Nat /\ e.until > time
  BY <1>3 DEF CacheRecord, Hit, Cached
<1>5. PageFits(e.page, r.after, t, listed, bornAt)
  BY <1>3, <1>4 DEF EntryFits
<1>6. t \in Int /\ r.since < t + Horizon
  <2> HIDE DEF e, r
  <2> QED BY <1>1, <1>2, <1>4, CursorTypes
<1>7. r.at \in {"look", "wait", "reply"}
  BY DEF Hit
<1>8. walk' = [walk EXCEPT ![v] = q]
  <2>1. Consumed(v, e.page)
    BY DEF Hit
  <2> HIDE DEF e
  <2> QED BY <1>1, <2>1, ConsumedIsWalkedOn
<1>9. q \in WalkRecord /\ WalkSound(q, time, listed, bornAt)
  <2> HIDE DEF e, r, t
  <2> QED BY <1>1, <1>4, <1>5, <1>6, <1>7, SoundAfterPage
<1>10. UNCHANGED <<time, listed, bornAt, cache>>
  BY DEF Hit
<1> HIDE DEF q
<1> QED BY <1>8, <1>9, <1>10, OneWalks

LEMMA StoreKeeps ==
  ASSUME NEW v \in Walkers, ListingInv, Store(v)
  PROVE  ListingInv'
<1> DEFINE r == walk[v]
           q == WalkedOn(r, r.reply)
           t == r.until - MaxFlight
           e == [page |-> r.reply, until |-> time + CacheTtl]
<1>1. /\ r \in WalkRecord /\ WalkSound(r, time, listed, bornAt) /\ time \in Nat
      /\ listed \in SUBSET Lots /\ bornAt \in [Lots -> Nat]
      /\ walk \in [Walkers -> WalkRecord]
  BY WalkTypes
<1>2. /\ r.after \in Cursors /\ r.since \in Nat /\ r.until \in Nat
      /\ r.reply \in ListedPages
  BY <1>1 DEF WalkRecord
<1>3. /\ time <= r.until /\ r.since + MaxFlight <= r.until
      /\ PageFits(r.reply, r.after, t, listed, bornAt)
  BY <1>1 DEF Store, WalkSound, ReplyFits
<1>4. t \in Int /\ r.since < t + Horizon
  <2> HIDE DEF r
  <2> QED BY <1>2, <1>3, CursorTypes
<1>5. r.at \in {"look", "wait", "reply"}
  BY DEF Store
<1>6. walk' = [walk EXCEPT ![v] = q]
  <2>1. Consumed(v, r.reply)
    BY DEF Store
  <2> QED BY <1>1, <2>1, ConsumedIsWalkedOn
<1>7. q \in WalkRecord /\ WalkSound(q, time, listed, bornAt)
  <2> HIDE DEF r, t
  <2> QED BY <1>1, <1>2, <1>3, <1>4, <1>5, SoundAfterPage
<1>8. /\ cache' = [cache EXCEPT ![r.after] = e]
      /\ time' = time /\ listed' = listed /\ bornAt' = bornAt
  BY DEF Store
<1>9. e \in CacheRecord
  <2>1. time + CacheTtl \in Nat
    BY <1>1, CursorTypes
  <2> HIDE DEF r
  <2> QED BY <1>2, <2>1 DEF CacheRecord
<1>10. EntryFits(e, r.after, time, listed, bornAt)
  <2> DEFINE u == e.until - Horizon
  <2>1. e.until = time + CacheTtl /\ e.page = r.reply
    OBVIOUS
  <2>2. u \in Int /\ u <= t
    <3> HIDE DEF r, e
    <3> QED BY <1>1, <1>2, <1>3, <2>1, CursorTypes
  <2>3. \A m \in listed : bornAt[m] = bornAt[m] /\ bornAt[m] \in Int
    BY <1>1
  <2>4. PageFits(r.reply, r.after, u, listed, bornAt)
    <3> HIDE DEF r, e, t, u
    <3> QED BY <1>3, <1>4, <2>2, <2>3, FitsStays
  <2>5. e.until <= time + CacheTtl
    BY <1>1, <2>1, CursorTypes
  <2> HIDE DEF e, r
  <2> QED BY <2>1, <2>4, <2>5 DEF EntryFits
<1> HIDE DEF q, e, r
<1>11. cache \in [Cursors -> CacheRecord] /\ CacheIsSound
  BY DEF ListingInv, ListingTypes
<1>12. cache' \in [Cursors -> CacheRecord] /\ walk' \in [Walkers -> WalkRecord]
  BY <1>1, <1>6, <1>7, <1>8, <1>9, <1>11
<1>13. ListingTypes'
  BY <1>1, <1>8, <1>12 DEF ListingTypes
<1>14. CacheIsSound'
  <2> SUFFICES ASSUME NEW c \in Cursors PROVE EntryFits(cache'[c], c, time, listed, bornAt)
    BY <1>8 DEF CacheIsSound
  <2>1. EntryFits(cache[c], c, time, listed, bornAt)
    BY <1>11 DEF CacheIsSound
  <2>2. cache'[c] = IF c = r.after THEN e ELSE cache[c]
    BY <1>8, <1>11
  <2> QED BY <1>10, <2>1, <2>2
<1>15. WalksAreSound'
  <2> SUFFICES ASSUME NEW w \in Walkers PROVE WalkSound(walk'[w], time, listed, bornAt)
    BY <1>8 DEF WalksAreSound
  <2>1. WalkSound(walk[w], time, listed, bornAt)
    BY WalkTypes
  <2>2. walk'[w] = IF w = v THEN q ELSE walk[w]
    BY <1>1, <1>6
  <2> QED BY <1>7, <2>1, <2>2
<1> QED BY <1>13, <1>14, <1>15 DEF ListingInv

(* Begin, lead, follow, go alone, read the page.                           *)
LEMMA BeginKeeps ==
  ASSUME NEW v \in Walkers, ListingInv, Begin(v)
  PROVE  ListingInv'
<1> DEFINE r == walk[v]
           q == SetStart(r, "look", time)
<1>1. /\ r \in WalkRecord /\ WalkSound(r, time, listed, bornAt) /\ time \in Nat
      /\ listed \in SUBSET Lots /\ walk \in [Walkers -> WalkRecord]
  BY WalkTypes
<1>2. walk' = [walk EXCEPT ![v] = q] /\ UNCHANGED <<time, listed, bornAt, cache>>
  BY <1>1 DEF Begin, SetStart
<1>3. q \in WalkRecord /\ q.at = "look" /\ q.since = time /\ q.after = r.after
  <2>1. "look" \in Steps
    BY DEF Steps
  <2> HIDE DEF r
  <2> QED BY <1>1, <2>1, SetStartFields
<1>4. r.after = Top
  BY <1>1 DEF Begin, WalkSound, CursorIsSound
<1>5. \A l \in listed : ~(l >= Top)
  BY <1>1, CursorTypes
<1> HIDE DEF q
<1>6. WalkSound(q, time, listed, bornAt)
  BY <1>1, <1>3, <1>4, <1>5
     DEF WalkSound, ReplyFits, CursorIsSound, NumbersAreSound, EndIsSound
<1> QED BY <1>2, <1>3, <1>6, OneWalks

LEMMA WaitingKeeps ==
  ASSUME NEW v \in Walkers, ListingInv, Lead(v) \/ Follow(v) \/ GoAlone(v)
  PROVE  ListingInv'
<1> DEFINE r == walk[v]
<1>1. /\ r \in WalkRecord /\ WalkSound(r, time, listed, bornAt) /\ time \in Nat
      /\ walk \in [Walkers -> WalkRecord]
  BY WalkTypes
<1>2. UNCHANGED <<time, listed, bornAt, cache>> /\ r.at \in {"look", "wait", "fetch"}
  BY DEF Lead, Follow, GoAlone
<1>3. PICK a \in {"wait", "fetch"}, u \in Nat : walk' = [walk EXCEPT ![v] = SetUntil(r, a, u)]
  <2>1. CASE Lead(v) \/ GoAlone(v)
    <3>1. walk' = [walk EXCEPT ![v] = SetUntil(r, "fetch", 0)]
      BY <1>1, <2>1 DEF Lead, GoAlone, SetUntil
    <3> QED BY <3>1
  <2>2. CASE Follow(v)
    <3>1. walk' = [walk EXCEPT ![v] = SetUntil(r, "wait", time + Patience)]
      BY <1>1, <2>2 DEF Follow, SetUntil
    <3>2. time + Patience \in Nat
      BY <1>1, ListingAssumption
    <3> QED BY <3>1, <3>2
  <2> QED BY <2>1, <2>2
<1> DEFINE q == SetUntil(r, a, u)
<1>4. /\ q \in WalkRecord /\ q.at = a /\ q.after = r.after /\ q.seen = r.seen
      /\ q.since = r.since
  <2>1. a \in Steps
    BY DEF Steps
  <2> HIDE DEF r
  <2> QED BY <1>1, <2>1, SetUntilFields
<1>5. q.at \in {"wait", "fetch"} /\ walk' = [walk EXCEPT ![v] = q]
  BY <1>3, <1>4
<1> HIDE DEF q, r
<1>6. WalkSound(q, time, listed, bornAt)
  BY <1>1, <1>2, <1>4, <1>5, SoundOnTheWay
<1> QED BY <1>2, <1>4, <1>5, <1>6, OneWalks

LEMMA ReadKeeps ==
  ASSUME NEW v \in Walkers, ListingInv, Read(v)
  PROVE  ListingInv'
<1> DEFINE r == walk[v]
           p == PageAfter(r.after)
           u == time + MaxFlight
           q == SetReply(r, "reply", u, p)
<1>1. /\ r \in WalkRecord /\ WalkSound(r, time, listed, bornAt) /\ time \in Nat
      /\ listed \in SUBSET Lots /\ walk \in [Walkers -> WalkRecord]
  BY WalkTypes
<1>2. walk' = [walk EXCEPT ![v] = q] /\ UNCHANGED <<time, listed, bornAt, cache>>
  BY <1>1 DEF Read, SetReply
<1>3. r.after \in Cursors /\ r.since \in Nat /\ r.since <= time
  BY <1>1 DEF WalkRecord, WalkSound
<1>4. /\ p \in ListedPages
      /\ \A l \in listed : l < r.after /\ l >= p.last => l \in p.items
      /\ ~p.more => \A l \in listed : l < r.after => l \in p.items
      /\ p.items = {} => \A l \in listed : ~(l < r.after)
      /\ p.items # {} => p.last < r.after
  BY <1>1, <1>3, PageIsWhole
<1>5. u \in Nat /\ MaxFlight \in Nat
  BY <1>1, CursorTypes
<1>6. /\ q \in WalkRecord /\ q.at = "reply" /\ q.after = r.after /\ q.seen = r.seen
      /\ q.since = r.since /\ q.until = u /\ q.reply = p
  <2>1. "reply" \in Steps
    BY DEF Steps
  <2> HIDE DEF r, p, u
  <2> QED BY <1>1, <1>4, <1>5, <2>1, SetReplyFields
<1>7. PageFits(p, r.after, u - MaxFlight, listed, bornAt)
  <2> HIDE DEF r, p, u
  <2> QED BY <1>4 DEF PageFits
<1>8. time <= u /\ u <= time + MaxFlight /\ r.since + MaxFlight <= u
  <2> HIDE DEF r
  <2> QED BY <1>1, <1>3, <1>5
<1>9. ReplyFits(q, time, listed, bornAt)
  <2> HIDE DEF q, r, p, u
  <2> QED BY <1>6, <1>7, <1>8 DEF ReplyFits
<1>10. r.at = "fetch"
  BY DEF Read
<1> HIDE DEF q, r, p, u
<1>11. WalkSound(q, time, listed, bornAt)
  BY <1>1, <1>3, <1>6, <1>9, <1>10 DEF WalkSound, CursorIsSound, NumbersAreSound, EndIsSound
<1> QED BY <1>2, <1>6, <1>11, OneWalks

(* Fall back to the numbered pages, read one of them, break off.           *)
LEMMA LeavingKeeps ==
  ASSUME NEW v \in Walkers, ListingInv, FallBack(v) \/ WalkBroken(v)
  PROVE  ListingInv'
<1>1. time \in Nat /\ walk \in [Walkers -> WalkRecord]
  BY WalkTypes
<1>2. UNCHANGED <<time, listed, bornAt, cache>>
  BY DEF FallBack, WalkBroken
<1>3. PICK a \in {"html", "cut"}, b \in Nat :
         b <= time /\ walk' = [walk EXCEPT ![v] = SetStart(Idle, a, b)]
  <2>1. CASE FallBack(v)
    <3>1. walk' = [walk EXCEPT ![v] = SetStart(Idle, "html", time)]
      BY <2>1 DEF FallBack, SetStart
    <3>2. time <= time
      BY <1>1
    <3> QED BY <1>1, <3>1, <3>2
  <2>2. CASE WalkBroken(v)
    <3>1. [Idle EXCEPT !.at = "cut"] = SetStart(Idle, "cut", 0)
      BY IdleFields DEF SetStart, WalkRecord
    <3>2. walk' = [walk EXCEPT ![v] = SetStart(Idle, "cut", 0)]
      BY <2>2, <3>1 DEF WalkBroken
    <3>3. 0 \in Nat /\ 0 <= time
      BY <1>1
    <3> QED BY <3>2, <3>3
  <2> QED BY <2>1, <2>2
<1> DEFINE q == SetStart(Idle, a, b)
<1>4. /\ q \in WalkRecord /\ q.at = a /\ q.since = b
      /\ q.pages = 0 /\ q.seen = {}
  <2>1. a \in Steps
    BY DEF Steps
  <2> QED BY <2>1, IdleFields, SetStartFields
<1>5. walk' = [walk EXCEPT ![v] = q]
  BY <1>3
<1> HIDE DEF q
<1>6. WalkSound(q, time, listed, bornAt)
  BY <1>3, <1>4 DEF WalkSound, ReplyFits, CursorIsSound, NumbersAreSound, EndIsSound
<1> QED BY <1>2, <1>4, <1>5, <1>6, OneWalks

LEMMA HtmlPageKeeps ==
  ASSUME NEW v \in Walkers, ListingInv, HtmlPage(v)
  PROVE  ListingInv'
<1> DEFINE r == walk[v]
           q == NumberedOn(r, listed)
<1>1. /\ r \in WalkRecord /\ WalkSound(r, time, listed, bornAt) /\ time \in Nat
      /\ listed \in SUBSET Lots /\ bornAt \in [Lots -> Nat]
      /\ walk \in [Walkers -> WalkRecord]
  BY WalkTypes
<1>2. r.at = "html" /\ UNCHANGED <<time, listed, bornAt, cache>>
  BY DEF HtmlPage
<1>3. walk' = [walk EXCEPT ![v] = q]
  <2> DEFINE p == r.pages + 1
             fresh == PageOf(listed, p) \ r.seen
             total == IF p = 1 THEN Cardinality(listed) ELSE r.total
             seen == r.seen \cup fresh
             at == IF fresh = {} \/ Cardinality(seen) >= total THEN "htmlDone"
                   ELSE IF p >= PageCap THEN "capped" ELSE "html"
             h == [r EXCEPT !.pages = p, !.seen = seen, !.total = total, !.shift = 0,
                            !.calm = @ /\ r.shift < PerPage, !.at = at]
  <2>1. PageOf(listed, p) = PageNumber(p)
    BY DEF PageOf, PageNumber
  <2>2. walk' = [walk EXCEPT ![v] = h]
    <3>1. fresh = PageNumber(p) \ r.seen
      BY <2>1
    <3> QED BY <3>1 DEF HtmlPage
  <2>3. h = SetPace(SetNumbers(r, p, seen, total), 0, r.calm /\ r.shift < PerPage, at)
    <3> HIDE DEF r, p, seen, total, at
    <3> QED BY <1>1 DEF SetPace, SetNumbers, WalkRecord
  <2>4. q = SetPace(SetNumbers(r, p, seen, total), 0, r.calm /\ r.shift < PerPage, at)
    BY DEF NumberedOn
  <2> HIDE DEF h, q
  <2> QED BY <2>2, <2>3, <2>4
<1>4. q \in WalkRecord /\ WalkSound(q, time, listed, bornAt)
  <2> HIDE DEF r
  <2> QED BY <1>1, <1>2, SoundAfterNumber
<1> HIDE DEF q
<1> QED BY <1>2, <1>3, <1>4, OneWalks

LEMMA ListingInvStep == ListingInv /\ [ListingNext]_listingVars => ListingInv'
<1> SUFFICES ASSUME ListingInv, [ListingNext]_listingVars PROVE ListingInv'
  OBVIOUS
<1>1. CASE LotAppears
  BY <1>1, LotAppearsKeeps
<1>2. CASE Withdraw
  BY <1>2, WithdrawKeeps
<1>3. CASE TimePasses
  BY <1>3, TimePassesKeeps
<1>4. ASSUME NEW v \in Walkers, Begin(v) PROVE ListingInv'
  BY <1>4, BeginKeeps
<1>5. ASSUME NEW v \in Walkers, Hit(v) PROVE ListingInv'
  BY <1>5, HitKeeps
<1>6. ASSUME NEW v \in Walkers, Lead(v) \/ Follow(v) \/ GoAlone(v) PROVE ListingInv'
  BY <1>6, WaitingKeeps
<1>7. ASSUME NEW v \in Walkers, Read(v) PROVE ListingInv'
  BY <1>7, ReadKeeps
<1>8. ASSUME NEW v \in Walkers, Store(v) PROVE ListingInv'
  BY <1>8, StoreKeeps
<1>9. ASSUME NEW v \in Walkers, FallBack(v) \/ WalkBroken(v) PROVE ListingInv'
  BY <1>9, LeavingKeeps
<1>10. ASSUME NEW v \in Walkers, HtmlPage(v) PROVE ListingInv'
  BY <1>10, HtmlPageKeeps
<1>11. CASE UNCHANGED listingVars
  BY <1>11 DEF listingVars, ListingInv, ListingTypes, CacheIsSound, WalksAreSound
<1> QED BY <1>1, <1>2, <1>3, <1>4, <1>5, <1>6, <1>7, <1>8, <1>9, <1>10, <1>11 DEF ListingNext

(* A walk that comes to its own end has yielded every lot that was listed  *)
(* all along, through the API (sources.py:134-136) or page by page         *)
(* (search.py:222-225), for any number of walkers and lots and every page  *)
(* size, life of the cache and delay of an answer.                         *)
THEOREM WalksMissNothing == ListingSpec => []FinishedWalkMissesNothing
<1>1. ListingInv => FinishedWalkMissesNothing
  <2> SUFFICES ASSUME ListingInv, NEW v \in Walkers
               PROVE  /\ walk[v].at = "done" =>
                          ListedSince(walk[v].since - Horizon) \subseteq walk[v].seen
                      /\ (walk[v].at = "htmlDone" /\ walk[v].calm) =>
                          ListedSince(walk[v].since - 1) \subseteq walk[v].seen
    BY DEF FinishedWalkMissesNothing
  <2> DEFINE r == walk[v]
  <2>1. /\ r \in WalkRecord /\ WalkSound(r, time, listed, bornAt)
        /\ listed \in SUBSET Lots /\ bornAt \in [Lots -> Nat]
    BY WalkTypes
  <2>2. r.since \in Nat /\ Horizon \in Nat /\ \A l \in listed : bornAt[l] \in Nat
    BY <2>1, CursorTypes DEF WalkRecord
  <2>3. r.at = "done" => \A l \in listed : bornAt[l] + Horizon <= r.since => l \in r.seen
    BY <2>1 DEF WalkSound, CursorIsSound
  <2>4. r.at = "htmlDone" /\ r.calm => \A l \in listed : bornAt[l] < r.since => l \in r.seen
    BY <2>1 DEF WalkSound, EndIsSound
  <2> HIDE DEF r
  <2>5. ListedSince(r.since - Horizon) \subseteq {l \in listed : bornAt[l] + Horizon <= r.since}
    BY <2>2 DEF ListedSince
  <2>6. ListedSince(r.since - 1) \subseteq {l \in listed : bornAt[l] < r.since}
    BY <2>2 DEF ListedSince
  <2>7. /\ r.at = "done" => ListedSince(r.since - Horizon) \subseteq r.seen
        /\ (r.at = "htmlDone" /\ r.calm) => ListedSince(r.since - 1) \subseteq r.seen
    BY <2>3, <2>4, <2>5, <2>6
  <2> QED BY <2>7 DEF r
<1> QED BY <1>1, ListingInvInit, ListingInvStep, PTL DEF ListingSpec
=============================================================================
