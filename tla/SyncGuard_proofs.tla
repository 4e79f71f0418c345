-------------------------- MODULE SyncGuard_proofs --------------------------
(* The double look of _sync_run, for any number of threads and deaths.     *)
EXTENDS SyncGuard, WellFoundedInduction, TLAPS

USE GuardAssumption

LEMMA TypeStep == TypeOK /\ [Next]_vars => TypeOK'
  <1> SUFFICES ASSUME TypeOK, [Next]_vars PROVE TypeOK'
    OBVIOUS
  <1> USE DEF TypeOK, Goes, Claiming
  <1>1. ASSUME NEW t \in Threads, FirstCheck(t) PROVE TypeOK'
    BY <1>1 DEF FirstCheck
  <1>2. ASSUME NEW t \in Threads, Insert(t) PROVE TypeOK'
    BY <1>2 DEF Insert
  <1>3. ASSUME NEW t \in Threads, CommitRow(t) PROVE TypeOK'
    <2>1. id[t] \in 1 .. nextId - 1  BY <1>3 DEF CommitRow
    <2>2. (open \subseteq 1 .. nextId - 1)'  BY <1>3, <2>1 DEF CommitRow
    <2> QED BY <1>3, <2>2 DEF CommitRow
  <1>4. ASSUME NEW t \in Threads, Recheck(t) PROVE TypeOK'
    BY <1>4 DEF Recheck
  <1>5. ASSUME NEW t \in Threads, Yield(t) PROVE TypeOK'
    BY <1>5 DEF Yield, CloseRow
  <1>6. ASSUME NEW t \in Threads, Finish(t) PROVE TypeOK'
    BY <1>6 DEF Finish, CloseRow
  <1>7. ASSUME NEW t \in Threads, Die(t) PROVE TypeOK'
    <2>1. deaths' \in 0 .. MaxDeaths  BY <1>7 DEF Die, GuardAssumption
    <2> QED BY <1>7, <2>1 DEF Die
  <1>8. ASSUME NEW i \in open, Silence(i) PROVE TypeOK'
    BY <1>8 DEF Silence
  <1>9. CASE Reap
    BY <1>9 DEF Reap
  <1>10. CASE UNCHANGED vars
    BY <1>10 DEF vars
  <1> QED BY <1>1, <1>2, <1>3, <1>4, <1>5, <1>6, <1>7, <1>8, <1>9, <1>10 DEF Next

LEMMA TypeInit == Init => TypeOK
  <1> SUFFICES ASSUME Init PROVE TypeOK
    OBVIOUS
  <1>1. reordered \in BOOLEAN
    BY Zenon DEF Init
  <1>2. /\ pc \in [Threads -> {"queued", "checked", "yielding", "done"} \cup Claiming]
        /\ \A t \in Threads : pc[t] \in Claiming => id[t] # 0
    BY DEF Init, Claiming
  <1>3. /\ nextId \in Nat \ {0} /\ id \in [Threads -> 0 .. nextId - 1]
        /\ deaths \in 0 .. MaxDeaths
    BY DEF Init, GuardAssumption
  <1> QED BY <1>1, <1>2, <1>3 DEF Init, TypeOK

(* The type invariant: a thread that claims the work has a row, rows are   *)
(* numbered as they were inserted, and only open rows are reaped.          *)
THEOREM TypeCorrect == Spec => []TypeOK
  BY TypeInit, TypeStep, PTL DEF Spec

-----------------------------------------------------------------------------
(* Every thread that moves leaves the others where they are.               *)
LEMMA RowsStep == TypeOK /\ RowsAreTheirs /\ [Next]_vars => RowsAreTheirs'
  <1> SUFFICES ASSUME TypeOK, RowsAreTheirs, [Next]_vars PROVE RowsAreTheirs'
    OBVIOUS
  <1> USE DEF RowsAreTheirs, Goes, Claiming, Live
  <1>0. /\ nextId \in Nat \ {0}
        /\ \A t \in Threads : id[t] \in Nat /\ id[t] < nextId /\ (pc[t] \in Claiming => id[t] # 0)
        /\ pc \in [Threads -> {"queued", "checked", "yielding", "done"} \cup Claiming]
        /\ id \in [Threads -> 0 .. nextId - 1]
        /\ quiet \subseteq open /\ open \subseteq 1 .. nextId - 1
    BY DEF TypeOK
  <1>1. ASSUME NEW t \in Threads, FirstCheck(t) PROVE RowsAreTheirs'
    BY <1>0, <1>1 DEF FirstCheck
  <1>2. ASSUME NEW t \in Threads, Insert(t) PROVE RowsAreTheirs'
    <2>1. /\ id'[t] = nextId /\ \A u \in Threads \ {t} : id'[u] = id[u]
          /\ pc'[t] = "inserted" /\ \A u \in Threads \ {t} : pc'[u] = pc[u]
          /\ nextId' = nextId + 1 /\ UNCHANGED <<open, quiet>>
      BY <1>0, <1>2 DEF Insert
    <2> QED BY <1>0, <2>1
  <1>3. ASSUME NEW t \in Threads, CommitRow(t) PROVE RowsAreTheirs'
    <2>1. id[t] \notin quiet
      BY <1>0, <1>3 DEF CommitRow
    <2> QED BY <1>0, <1>3, <2>1 DEF CommitRow
  <1>4. ASSUME NEW t \in Threads, Recheck(t) PROVE RowsAreTheirs'
    BY <1>0, <1>4 DEF Recheck
  <1>5. ASSUME NEW t \in Threads, Yield(t) \/ Finish(t) PROVE RowsAreTheirs'
    BY <1>0, <1>5 DEF Yield, Finish, CloseRow
  <1>6. ASSUME NEW t \in Threads, Die(t) PROVE RowsAreTheirs'
    BY <1>0, <1>6 DEF Die
  <1>7. ASSUME NEW i \in open, Silence(i) PROVE RowsAreTheirs'
    BY <1>0, <1>7 DEF Silence
  <1>8. CASE Reap
    BY <1>0, <1>8 DEF Reap
  <1>9. CASE UNCHANGED vars
    BY <1>9 DEF vars
  <1> QED BY <1>1, <1>2, <1>3, <1>4, <1>5, <1>6, <1>7, <1>8, <1>9 DEF Next

(* A younger row is not visible while an older one is uncommitted: the     *)
(* step that would make it so sets reordered.                              *)
LEMMA VisibleStep ==
  TypeOK /\ RowsAreTheirs /\ VisibleInOrder /\ ~reordered' /\ [Next]_vars => VisibleInOrder'
  <1> SUFFICES ASSUME TypeOK, RowsAreTheirs, VisibleInOrder, ~reordered', [Next]_vars,
                      NEW t \in Threads, NEW u \in Threads,
                      pc'[t] \in {"committed", "working"}, pc'[u] = "inserted"
               PROVE  id'[t] < id'[u]
    BY DEF VisibleInOrder
  <1> USE DEF Goes, Claiming
  <1>0. /\ nextId \in Nat \ {0}
        /\ \A v \in Threads : id[v] \in Nat /\ id[v] < nextId
        /\ pc \in [Threads -> {"queued", "checked", "yielding", "done"} \cup Claiming]
        /\ id \in [Threads -> 0 .. nextId - 1]
    BY DEF TypeOK
  <1>1. pc[t] \in {"committed", "working"} /\ pc[u] = "inserted" => id[t] < id[u]
    BY DEF VisibleInOrder
  <1>2. ASSUME NEW v \in Threads, FirstCheck(v) PROVE id'[t] < id'[u]
    BY <1>0, <1>1, <1>2 DEF FirstCheck
  <1>3. ASSUME NEW v \in Threads, Insert(v) PROVE id'[t] < id'[u]
    <2>1. t # v /\ pc[t] = pc'[t] /\ id'[t] = id[t]
      BY <1>0, <1>3 DEF Insert
    <2>2. CASE u = v  BY <1>0, <1>3, <2>1, <2>2 DEF Insert
    <2>3. CASE u # v  BY <1>0, <1>1, <1>3, <2>1, <2>3 DEF Insert
    <2> QED BY <2>2, <2>3
  <1>4. ASSUME NEW v \in Threads, CommitRow(v) PROVE id'[t] < id'[u]
    <2>1. u # v /\ pc[u] = "inserted" /\ id' = id  BY <1>0, <1>4 DEF CommitRow
    <2>2. CASE t = v
      <3>1. ~ (id[u] < id[t])  BY <1>4, <2>1, <2>2 DEF CommitRow
      <3>2. id[t] # id[u]
        BY <1>4, <2>1, <2>2 DEF CommitRow, RowsAreTheirs, TypeOK
      <3> QED BY <1>0, <2>1, <3>1, <3>2
    <2>3. CASE t # v  BY <1>0, <1>1, <1>4, <2>1, <2>3 DEF CommitRow
    <2> QED BY <2>2, <2>3
  <1>5. ASSUME NEW v \in Threads, Recheck(v) PROVE id'[t] < id'[u]
    <2>1. id' = id /\ pc[u] = "inserted" /\ pc[t] \in {"committed", "working"}
      BY <1>0, <1>5 DEF Recheck
    <2> QED BY <1>1, <2>1
  <1>6. ASSUME NEW v \in Threads, Yield(v) \/ Finish(v) PROVE id'[t] < id'[u]
    BY <1>0, <1>1, <1>6 DEF Yield, Finish
  <1>7. ASSUME NEW v \in Threads, Die(v) PROVE id'[t] < id'[u]
    BY <1>0, <1>1, <1>7 DEF Die
  <1>8. CASE UNCHANGED <<pc, id>>
    BY <1>1, <1>8
  <1> QED BY <1>2, <1>3, <1>4, <1>5, <1>6, <1>7, <1>8 DEF Next, Silence, Reap, vars

(* A thread begins to work only when no other that may claim the work has  *)
(* an older row: committed rows it sees, uncommitted ones are younger.     *)
LEMMA OldestStep ==
  TypeOK /\ RowsAreTheirs /\ VisibleInOrder /\ OldestWorks /\ [Next]_vars => OldestWorks'
  <1> SUFFICES ASSUME TypeOK, RowsAreTheirs, VisibleInOrder, OldestWorks, [Next]_vars,
                      NEW t \in Threads, NEW u \in Threads,
                      pc'[t] = "working", pc'[u] \in Claiming, t # u
               PROVE  id'[t] < id'[u]
    BY DEF OldestWorks
  <1> USE DEF Goes, Claiming
  <1>0. /\ nextId \in Nat \ {0}
        /\ \A v \in Threads : id[v] \in Nat /\ id[v] < nextId
        /\ pc \in [Threads -> {"queued", "checked", "yielding", "done"} \cup Claiming]
        /\ id \in [Threads -> 0 .. nextId - 1]
    BY DEF TypeOK
  <1>1. pc[t] = "working" /\ pc[u] \in Claiming => id[t] < id[u]
    BY DEF OldestWorks
  <1>2. ASSUME NEW v \in Threads, FirstCheck(v) PROVE id'[t] < id'[u]
    BY <1>0, <1>1, <1>2 DEF FirstCheck
  <1>3. ASSUME NEW v \in Threads, Insert(v) PROVE id'[t] < id'[u]
    <2>1. t # v /\ pc[t] = "working" /\ id'[t] = id[t]
      BY <1>0, <1>3 DEF Insert
    <2>2. CASE u = v  BY <1>0, <1>3, <2>1, <2>2 DEF Insert
    <2>3. CASE u # v  BY <1>0, <1>1, <1>3, <2>1, <2>3 DEF Insert
    <2> QED BY <2>2, <2>3
  <1>4. ASSUME NEW v \in Threads, CommitRow(v) PROVE id'[t] < id'[u]
    BY <1>0, <1>1, <1>4 DEF CommitRow
  <1>5. ASSUME NEW v \in Threads, Recheck(v) PROVE id'[t] < id'[u]
    <2>1. id' = id /\ pc[u] \in Claiming  BY <1>0, <1>5 DEF Recheck
    <2>2. CASE t = v
      <3>1. pc[t] = "committed" /\ ~ \E i \in Live : i < id[t]
        BY <1>0, <1>5, <2>2 DEF Recheck
      <3>2. CASE pc[u] = "inserted"
        BY <2>1, <3>1, <3>2 DEF VisibleInOrder
      <3>3. CASE pc[u] \in {"committed", "working"}
        <4>1. id[u] \in Live /\ id[u] # id[t]
          BY <3>1, <3>3 DEF RowsAreTheirs, TypeOK
        <4> QED BY <1>0, <2>1, <3>1, <4>1
      <3> QED BY <1>0, <1>5, <2>1, <3>2, <3>3, <2>2 DEF Recheck
    <2>3. CASE t # v
      <3>1. pc[t] = "working"  BY <1>0, <1>5, <2>3 DEF Recheck
      <3> QED BY <1>1, <2>1, <3>1
    <2> QED BY <2>2, <2>3
  <1>6. ASSUME NEW v \in Threads, Yield(v) \/ Finish(v) PROVE id'[t] < id'[u]
    BY <1>0, <1>1, <1>6 DEF Yield, Finish
  <1>7. ASSUME NEW v \in Threads, Die(v) PROVE id'[t] < id'[u]
    BY <1>0, <1>1, <1>7 DEF Die
  <1>8. CASE UNCHANGED <<pc, id>>
    BY <1>1, <1>8
  <1> QED BY <1>2, <1>3, <1>4, <1>5, <1>6, <1>7, <1>8 DEF Next, Silence, Reap, vars

(* reordered is never reset.                                               *)
LEMMA OrderIsLost == TypeOK /\ [Next]_vars /\ reordered => reordered'
  BY DEF Next, FirstCheck, Insert, CommitRow, Recheck, Yield, Finish, Die, Silence, Reap, vars

(* The second look is exact while rows become visible in the order of      *)
(* their ids, for any number of threads, deaths and redeliveries.          *)
THEOREM GuardInvariant == Spec => []GuardInv
  <1>1. Init => GuardInv
    BY DEF Init, GuardInv, RowsAreTheirs, VisibleInOrder, OldestWorks, Claiming
  <1>2. TypeOK /\ GuardInv /\ [Next]_vars => GuardInv'
    BY RowsStep, VisibleStep, OldestStep, OrderIsLost DEF GuardInv
  <1> QED BY <1>1, <1>2, TypeCorrect, PTL DEF Spec

(* ingest.py:161-180, actors.py:171-179: two synchronisations of a kind    *)
(* work at the same time only if a row was committed before an older one,  *)
(* which SQLite excludes and PostgreSQL does not.                          *)
THEOREM OneWorksWhenOrdered == Spec => []OneWorksInOrder
  <1>1. TypeOK /\ GuardInv => OneWorksInOrder
    <2> SUFFICES ASSUME TypeOK, GuardInv, ~reordered,
                        NEW t \in Threads, NEW u \in Threads,
                        pc[t] = "working", pc[u] = "working", t # u
                 PROVE  FALSE
      BY DEF OneWorks, OneWorksInOrder
    <2>1. id[t] \in Nat /\ id[u] \in Nat  BY DEF TypeOK
    <2>2. id[t] < id[u] /\ id[u] < id[t]  BY DEF GuardInv, OldestWorks, Claiming
    <2> QED BY <2>1, <2>2
  <1> QED BY <1>1, GuardInvariant, TypeCorrect, PTL

-----------------------------------------------------------------------------
(* While nobody has died, every open row has a thread that will close it,  *)
(* and whoever gave way did so for an older row.                           *)
RowsHaveOwners ==
  \A i \in open : \E t \in Threads : id[t] = i /\ pc[t] \in {"committed", "working", "yielding"}

GaveWay(t) == pc[t] = "yielding" \/ (pc[t] = "done" /\ id[t] # 0 /\ t \notin completed)

GiveWayToOlder ==
  \A t \in Threads :
    /\ pc[t] \in {"queued", "checked"} => id[t] = 0
    /\ GaveWay(t) => \E u \in Threads : id[u] # 0 /\ id[u] < id[t]
    /\ pc[t] = "done" => \E u \in Threads : id[u] # 0

VolleyInv == deaths = 0 => RowsHaveOwners /\ GiveWayToOlder

(* A set of numbers has a least element.                                   *)
LEMMA LeastExists ==
  ASSUME NEW S \in SUBSET Nat, S # {}
  PROVE  \E m \in S : \A k \in S : m <= k
  <1> DEFINE R == {p \in Nat \X Nat : p[1] < p[2]}
  <1>1. R = OpToRel(<, Nat)
    BY DEF OpToRel
  <1>2. PICK m \in S : \A k \in S : ~(<<k, m>> \in R)
    <2>1. IsWellFoundedOn(R, Nat)
      BY <1>1, NatLessThanWellFounded
    <2> HIDE DEF R
    <2> QED BY <2>1, WFMin
  <1>3. ASSUME NEW k \in S PROVE m <= k
    <2>1. k \in Nat /\ m \in Nat /\ ~(k < m)
      BY <1>2
    <2> QED BY <2>1
  <1> QED BY <1>3

LEMMA VolleyStep == TypeOK /\ VolleyInv /\ [Next]_vars => VolleyInv'
  <1> SUFFICES ASSUME TypeOK, VolleyInv, [Next]_vars, deaths' = 0
               PROVE  RowsHaveOwners' /\ GiveWayToOlder'
    BY DEF VolleyInv
  <1>0. /\ nextId \in Nat \ {0} /\ deaths \in Nat
        /\ \A v \in Threads : id[v] \in Nat /\ id[v] < nextId
        /\ pc \in [Threads -> {"queued", "checked", "yielding", "done"} \cup Claiming]
        /\ id \in [Threads -> 0 .. nextId - 1]
        /\ open \subseteq 1 .. nextId - 1
        /\ quiet \subseteq open
    BY DEF TypeOK
  <1>1. deaths = 0
    BY <1>0 DEF Next, vars, FirstCheck, Insert, CommitRow, Recheck, Yield, Finish, Die, Silence, Reap
  <1>2. RowsHaveOwners /\ GiveWayToOlder
    BY <1>1 DEF VolleyInv
  <1> USE DEF Goes, RowsHaveOwners, GiveWayToOlder, GaveWay, Live
  <1>3. ASSUME NEW t \in Threads, FirstCheck(t) PROVE RowsHaveOwners' /\ GiveWayToOlder'
    <2>1. CASE Live # {}
      <3>0. PICK i \in open : TRUE
        BY <1>0, <2>1
      <3>1. \E u \in Threads : id[u] # 0
        BY <1>0, <1>2, <3>0
      <3> QED BY <1>0, <1>2, <1>3, <2>1, <3>1 DEF FirstCheck
    <2>2. CASE Live = {}
      <3>1. /\ pc[t] = "queued" /\ pc'[t] = "checked" /\ \A u \in Threads \ {t} : pc'[u] = pc[u]
            /\ UNCHANGED <<id, open, completed>>
        BY <1>0, <1>3, <2>2 DEF FirstCheck
      <3> QED BY <1>2, <3>1
    <2> QED BY <2>1, <2>2
  <1>4. ASSUME NEW t \in Threads, Insert(t) PROVE RowsHaveOwners' /\ GiveWayToOlder'
    <2>1. /\ id[t] = 0 /\ id'[t] = nextId /\ \A u \in Threads \ {t} : id'[u] = id[u]
          /\ pc[t] = "checked" /\ pc'[t] = "inserted" /\ \A u \in Threads \ {t} : pc'[u] = pc[u]
          /\ UNCHANGED <<open, completed>>
      BY <1>0, <1>2, <1>4 DEF Insert
    <2>2. \A u \in Threads : id[u] # 0 => id'[u] = id[u] /\ id'[u] # 0
      BY <2>1
    <2>3. RowsHaveOwners'
      BY <1>0, <1>2, <2>1, <2>2
    <2> QED BY <1>2, <2>1, <2>2, <2>3
  <1>5. ASSUME NEW t \in Threads, CommitRow(t) PROVE RowsHaveOwners' /\ GiveWayToOlder'
    BY <1>0, <1>2, <1>5 DEF CommitRow
  <1>6. ASSUME NEW t \in Threads, Recheck(t) PROVE RowsHaveOwners' /\ GiveWayToOlder'
    <2>1. CASE \E i \in Live : i < id[t]
      <3>1. PICK u \in Threads : id[u] \in open /\ id[u] < id[t]
        BY <1>2, <2>1
      <3>2. id[u] # 0
        BY <1>0, <3>1
      <3> QED BY <1>0, <1>2, <1>6, <2>1, <3>1, <3>2 DEF Recheck
    <2>2. CASE ~ \E i \in Live : i < id[t]
      BY <1>0, <1>2, <1>6, <2>2 DEF Recheck
    <2> QED BY <2>1, <2>2
  <1>7. ASSUME NEW t \in Threads, Yield(t) PROVE RowsHaveOwners' /\ GiveWayToOlder'
    BY <1>0, <1>2, <1>7 DEF Yield, CloseRow
  <1>8. ASSUME NEW t \in Threads, Finish(t) PROVE RowsHaveOwners' /\ GiveWayToOlder'
    <2>1. id[t] # 0
      BY <1>8 DEF TypeOK, Claiming, Finish
    <2> QED BY <1>0, <1>2, <1>8, <2>1 DEF Finish, CloseRow
  <1>9. ~ \E t \in Threads : Die(t)
    BY <1>0, <1>1 DEF Die
  <1>10. CASE Reap \/ (\E i \in open : Silence(i)) \/ UNCHANGED vars
    BY <1>2, <1>10 DEF Reap, Silence, vars
  <1> QED BY <1>3, <1>4, <1>5, <1>6, <1>7, <1>8, <1>9, <1>10 DEF Next

(* However many messages interleave, the giving way is never mutual: unless *)
(* somebody died, one run of the volley does the work (actors.py:168-191).  *)
(* The oldest row that is open is the one nobody makes give way.            *)
THEOREM OneDoesTheWork == Spec => []VolleyIsNotLost
  <1>1. Init => VolleyInv
    BY DEF Init, VolleyInv, RowsHaveOwners, GiveWayToOlder, GaveWay
  <1>2. TypeOK /\ VolleyInv => VolleyIsNotLost
    <2> SUFFICES ASSUME TypeOK, VolleyInv, deaths = 0, \A t \in Threads : pc[t] = "done",
                        NEW t \in Threads, completed = {}
                 PROVE  FALSE
      BY DEF VolleyIsNotLost
    <2> DEFINE Ids == {id[u] : u \in {v \in Threads : id[v] # 0}}
    <2>1. Ids \in SUBSET Nat /\ Ids # {}
      <3>1. PICK u \in Threads : id[u] # 0
        BY DEF VolleyInv, GiveWayToOlder
      <3>2. \A v \in Threads : id[v] \in Nat
        BY DEF TypeOK
      <3> QED BY <3>1, <3>2
    <2>2. PICK m \in Ids : \A k \in Ids : m <= k
      <3> HIDE DEF Ids
      <3> QED BY <2>1, LeastExists
    <2>3. PICK u \in Threads : id[u] # 0 /\ id[u] = m
      BY <2>2
    <2>4. PICK v \in Threads : id[v] # 0 /\ id[v] < id[u]
      BY <2>3 DEF VolleyInv, GiveWayToOlder, GaveWay
    <2>5. m <= id[v] /\ m \in Nat /\ id[v] \in Nat
      BY <2>1, <2>2, <2>4 DEF TypeOK
    <2> QED BY <2>3, <2>4, <2>5
  <1> QED BY <1>1, <1>2, VolleyStep, TypeCorrect, PTL DEF Spec
=============================================================================
