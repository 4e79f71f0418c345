---------------------------- MODULE Market_proofs -----------------------------
(* What becomes of lots, documents and submissions, for every set of        *)
(* values, sessions and retries: the components of MCMarket that are proved *)
(* so far.                                                                  *)
EXTENDS Storefront, Lots, Documents, Bids, FiniteSetTheorems, SequenceTheorems, Matching, Analysis,
        Suppliers, WellFoundedInduction, PlanPages, FinalPost, TLAPS

-----------------------------------------------------------------------------
(* Lists and pages: the SQL form and the Python form of a rule agree.       *)

Scopes == [regions : SUBSET Regions, categories : SUBSET Verticals, min : Amounts \cup {Null}]

LEMMA StorefrontTypeInit == StorefrontInit => StorefrontTypeOK
  <1> SUFFICES ASSUME StorefrontInit PROVE StorefrontTypeOK
    OBVIOUS
  <1>1. lotCols \in LotRecords
    BY DEF StorefrontInit, LotRecords
  <1>2. client \in Clients
    BY DEF StorefrontInit, Clients
  <1>3. AnyLot \in ClientFilters
    BY DEF AnyLot, ClientFilters
  <1>4. watched \in [active : BOOLEAN, filter : ClientFilters]
    BY <1>3 DEF StorefrontInit
  <1> QED BY <1>1, <1>2, <1>4 DEF StorefrontInit, StorefrontTypeOK

LEMMA StorefrontTypeStep ==
  StorefrontTypeOK /\ [StorefrontNext]_storefrontVars => StorefrontTypeOK'
  <1> SUFFICES ASSUME StorefrontTypeOK, [StorefrontNext]_storefrontVars
               PROVE  StorefrontTypeOK'
    OBVIOUS
  <1> USE DEF StorefrontTypeOK
  <1>1. ASSUME NEW k \in Regions \cup {Null}, NEW a \in Amounts \cup {Null},
               NEW w \in BOOLEAN, NEW x \in BOOLEAN, ListingWrites(k, a, w, x)
        PROVE  StorefrontTypeOK'
    BY <1>1, ZenonT(40) DEF ListingWrites, LotRecords
  <1>2. ASSUME NEW c \in Codes, NEW v \in Verticals \cup {Null}, DetailsWrite(c, v)
        PROVE  StorefrontTypeOK'
    BY <1>2 DEF DetailsWrite, LotRecords
  <1>3. ASSUME NEW u \in ScopeForms, ScopeSaved(u) PROVE StorefrontTypeOK'
    BY <1>3, StorefrontAssumption DEF ScopeSaved
  <1>4. ASSUME NEW f \in FilterForms, NEW active \in BOOLEAN, QuerySaved(f, active)
        PROVE  StorefrontTypeOK'
    BY <1>4, StorefrontAssumption DEF QuerySaved
  <1>5. ASSUME NEW answer \in {"matched", "rejected"}, Matched(answer)
        PROVE  StorefrontTypeOK'
    BY <1>5 DEF Matched
  <1>6. CASE Star
    BY <1>6 DEF Star
  <1>7. CASE UNCHANGED storefrontVars
    BY <1>7 DEF storefrontVars
  <1> QED BY <1>1, <1>2, <1>3, <1>4, <1>5, <1>6, <1>7 DEF StorefrontNext

(* The columns of the lot, the client and the query keep their types.      *)
THEOREM StorefrontTypes == StorefrontSpec => []StorefrontTypeOK
  BY StorefrontTypeInit, StorefrontTypeStep, PTL DEF StorefrontSpec

-----------------------------------------------------------------------------
(* IN (...) over a column is true exactly when the value, which is then    *)
(* not NULL, is in the list.                                               *)
LEMMA InAgrees ==
  ASSUME NEW S, Null \notin S, NEW x
  PROVE  SqlIn(x, S) = "true" <=> x \in S
  BY DEF SqlIn, Truth

LEMMA AtLeastAgrees ==
  ASSUME NEW x, NEW n
  PROVE  SqlAtLeast(x, n) = "true" <=> x # Null /\ x >= n
  BY DEF SqlAtLeast, Truth

LEMMA AtMostAgrees ==
  ASSUME NEW x, NEW n
  PROVE  SqlAtMost(x, n) = "true" <=> x # Null /\ x <= n
  BY DEF SqlAtMost, Truth

(* scope.py: the conditions of the lists and the predicate of the page     *)
(* select the same lots.                                                   *)
LEMMA ScopeAgrees ==
  ASSUME NEW s \in Scopes, NEW l \in LotRecords
  PROVE  Holds(SqlScope(s, l)) <=> InScope(s, l)
  <1>1. Null \notin s.regions /\ Null \notin s.categories
    BY StorefrontAssumption DEF Scopes
  <1>2. Holds(SqlScope(s, l)) <=>
          /\ s.regions # {} => SqlIn(l.kato, s.regions) = "true"
          /\ s.categories # {} => SqlIn(l.category, s.categories) = "true"
          /\ s.min # Null => SqlAtLeast(l.amount, s.min) = "true"
    BY DEF Holds, SqlScope
  <1> QED BY <1>1, <1>2, InAgrees, AtLeastAgrees DEF InScope

(* prefilter.py: without the keywords, which only Python looks for, the    *)
(* conditions are those of the predicate.                                  *)
LEMMA FilterAgrees ==
  ASSUME NEW f \in ClientFilters, NEW l \in LotRecords
  PROVE  Passes(f, l) <=> Holds(SqlFilter(f, l)) /\ (f.keywords => l.word)
  <1>1. Null \notin f.categories /\ Null \notin f.codes
    BY StorefrontAssumption DEF ClientFilters
  <1>2. Holds(SqlFilter(f, l)) <=>
          /\ f.categories # {} => SqlIn(l.category, f.categories) = "true"
          /\ f.codes # {} => SqlIn(l.code, f.codes) = "true"
          /\ f.max # Null => SqlAtMost(l.amount, f.max) = "true"
    BY DEF Holds, SqlFilter
  <1> QED BY <1>1, <1>2, InAgrees, AtMostAgrees DEF Passes

LEMMA ScopeIsTyped == StorefrontTypeOK => Scope(client) \in Scopes
  BY DEF StorefrontTypeOK, Clients, Scope, Everything, Scopes

(* In every state the program can reach, whatever is NULL, the lists show  *)
(* the lots whose pages open, and the SQL of the watchlist and of the      *)
(* matcher's candidates loses none that the Python predicate takes         *)
(* (scope.py, prefilter.py, watchlist.py).                                 *)
THEOREM PagesAgree == StorefrontSpec => []ListsAgreeWithPages
  <1>1. StorefrontTypeOK => ListsAgreeWithPages
    <2> SUFFICES ASSUME StorefrontTypeOK PROVE ListsAgreeWithPages
      OBVIOUS
    <2>1. /\ lotCols \in LotRecords
          /\ watched.filter \in ClientFilters
          /\ client.categories \subseteq Verticals
      BY DEF StorefrontTypeOK, Clients
    <2>2. Holds(SqlScope(Scope(client), lotCols)) <=> InScope(Scope(client), lotCols)
      BY <2>1, ScopeIsTyped, ScopeAgrees
    <2>3. Passes(watched.filter, lotCols) => Holds(SqlFilter(watched.filter, lotCols))
      BY <2>1, FilterAgrees
    <2>4. ASSUME ByQuery PROVE WatchlistConditions
      <3>1. Holds(SqlScope(Scope(client), lotCols) \cup SqlFilter(watched.filter, lotCols))
        BY <2>2, <2>3, <2>4 DEF ByQuery, Holds
      <3> QED BY <3>1, <2>4 DEF ByQuery, WatchlistConditions
    <2>5. ASSUME ByVertical, lotCols.category \in client.categories
          PROVE  WatchlistConditions
      <3>1. SqlIn(lotCols.category, client.categories) = "true"
        BY <2>1, <2>5, InAgrees, StorefrontAssumption
      <3> QED BY <3>1, <2>5 DEF WatchlistConditions, Holds
    <2>6. ShouldAnalyze => WatchlistConditions
      BY <2>4, <2>5 DEF ShouldAnalyze
    <2> QED BY <2>2, <2>3, <2>6 DEF ListsAgreeWithPages, Listed, CardOpens
  <1> QED BY <1>1, StorefrontTypes, PTL

-----------------------------------------------------------------------------
(* The lots: status, history and is_actual; changes and their details.      *)

WalkRecord == [pc : {"idle", "next", "load", "flush", "sending"}, left : SUBSET LotIds,
               lot : LotIds \cup {Absent}, hit : LotStatuses \cup {0},
               got : LotRow \cup {Absent}, new : SUBSET LotIds, changed : SUBSET LotIds,
               deep : BOOLEAN]

(* A hit in hand is of a lot and a status; a record that was read is there.   *)
Meets(r) ==
  /\ r.pc \in {"load", "flush"} => r.lot \in LotIds /\ r.hit \in LotStatuses
  /\ r.got # Absent => r.pc = "flush" /\ lot[r.lot] # Absent

LotsShape ==
  /\ portal \in [LotIds -> LotStatuses]
  /\ lot \in [LotIds -> LotRow \cup {Absent}]
  /\ stagedLots \in [Walkers -> [LotIds -> Change \cup {Absent}]]
  /\ walk \in [Walkers -> WalkRecord]
  /\ \A w \in Walkers : Meets(walk[w])

(* What StatusesAgree asks of the record of l. *)
SoundLot(l, r) ==
  /\ r \in LotRow /\ r.history = r.status
  /\ l \notin expired \cup overlapped => (r.actual <=> is_actual(r.status))

RowsAgree == \A l \in LotIds : lot[l] # Absent => SoundLot(l, lot[l])

(* The record is as good after the commit as before it ... *)
StagedAgree ==
  \A w \in Walkers, l \in LotIds :
    stagedLots[w][l] # Absent => SoundLot(l, Changed(lot[l], stagedLots[w][l]))

(* ... for nobody else can change it in between. *)
OneHolds ==
  \A w, v \in Walkers, l \in LotIds :
    stagedLots[w][l] # Absent /\ stagedLots[v][l] # Absent => w = v

LotsInv == LotsShape /\ RowsAgree /\ StagedAgree /\ OneHolds

LEMMA AbsentIsNoRow == \A r \in LotRow : r # Absent
  BY DEF LotRow, Absent

LEMMA AbsentIsNoChange == \A c \in Change : c # Absent
  BY DEF Change, Absent

LEMMA LotsInvInit == LotsInit => LotsInv
<1> SUFFICES ASSUME LotsInit PROVE LotsInv
  OBVIOUS
<1>1. 1 \in LotStatuses /\ portal \in [LotIds -> LotStatuses]
  BY LotsAssumption DEF LotsInit, LotStatuses
<1> DEFINE first == [status |-> 1, actual |-> is_actual(1), history |-> 1]
<1>2. is_actual(1) \in BOOLEAN
  BY DEF is_actual
<1>3. first \in LotRow /\ first.status = 1 /\ first.history = 1 /\ first.actual = is_actual(1)
  BY <1>1, <1>2 DEF LotRow
<1>4. \A l \in LotIds : lot[l] \in {first, Absent}
  BY DEF LotsInit
<1>5. lot \in [LotIds -> LotRow \cup {Absent}]
  <2> HIDE DEF first
  <2>1. \E f \in [LotIds -> {first, Absent}] : lot = f
    <3> USE DEF first
    <3> QED BY DEF LotsInit
  <2> QED BY <2>1, <1>3
<1> HIDE DEF first
<1>6. RowsAgree
  BY <1>3, <1>4 DEF RowsAgree, SoundLot
<1>7. IdleWalk \in WalkRecord /\ IdleWalk.pc = "idle" /\ IdleWalk.got = Absent
  BY DEF IdleWalk, WalkRecord
<1>8. walk \in [Walkers -> WalkRecord] /\ \A w \in Walkers : walk[w].pc = "idle" /\ walk[w].got = Absent
  BY <1>7 DEF LotsInit
<1>9. stagedLots \in [Walkers -> [LotIds -> Change \cup {Absent}]]
      /\ \A w \in Walkers, l \in LotIds : stagedLots[w][l] = Absent
  BY DEF LotsInit
<1> QED
  BY <1>1, <1>5, <1>6, <1>8, <1>9 DEF LotsInv, LotsShape, Meets, StagedAgree, OneHolds


(* A walk takes a step, and no record that was there disappears.              *)
LEMMA WalkMoves ==
  ASSUME LotsShape, NEW w \in Walkers, NEW r \in WalkRecord, Meets(r),
         walk' = [walk EXCEPT ![w] = r],
         \A l \in LotIds : lot[l] # Absent => lot'[l] # Absent
  PROVE  walk' \in [Walkers -> WalkRecord] /\ \A v \in Walkers : Meets(walk[v])'
<1>1. walk' \in [Walkers -> WalkRecord]
  BY DEF LotsShape
<1>2. ASSUME NEW v \in Walkers PROVE Meets(walk[v])'
  <2>1. CASE v = w
    <3>1. walk'[v] = r
      BY <2>1 DEF LotsShape
    <3> QED BY <3>1 DEF Meets
  <2>2. CASE v # w
    <3>1. walk'[v] = walk[v] /\ Meets(walk[v])
      BY <2>2 DEF LotsShape
    <3> QED BY <3>1 DEF Meets
  <2> QED BY <2>1, <2>2
<1> QED BY <1>1, <1>2

(* Nothing that the records depend on changes.                                *)
LEMMA RowsStay ==
  ASSUME LotsInv, UNCHANGED <<lot, stagedLots, expired, overlapped>>,
         portal' \in [LotIds -> LotStatuses],
         walk' \in [Walkers -> WalkRecord], \A v \in Walkers : Meets(walk[v])'
  PROVE  LotsInv'
<1>1. LotsShape'
  BY DEF LotsInv, LotsShape
<1>2. RowsAgree' /\ StagedAgree' /\ OneHolds'
  BY DEF LotsInv, RowsAgree, StagedAgree, OneHolds, SoundLot
<1> QED BY <1>1, <1>2 DEF LotsInv

LEMMA WalkUntouched ==
  ASSUME LotsShape, UNCHANGED <<walk, lot>>
  PROVE  walk' \in [Walkers -> WalkRecord] /\ \A v \in Walkers : Meets(walk[v])'
  BY DEF LotsShape, Meets

LEMMA PortalMovesKeeps ==
  ASSUME LotsInv, NEW l \in LotIds, PortalMoves(l) PROVE LotsInv'
<1>1. portal' \in [LotIds -> LotStatuses]
  BY LotsAssumption DEF LotsInv, LotsShape, PortalMoves, LotStatuses
<1> QED BY <1>1, WalkUntouched, RowsStay DEF LotsInv, PortalMoves, store, aux

LEMMA DetailsKeep ==
  ASSUME LotsInv, (\E S \in SUBSET LotAnnos : Reconcile(S)) \/ \E a \in LotAnnos : SaveDetails(a) \/ DetailsAreLost(a)
  PROVE  LotsInv'
<1>1. UNCHANGED <<portal, lot, walk, stagedLots, expired, overlapped>>
  BY DEF Reconcile, SaveDetails, DetailsAreLost, store, aux
<1>2. portal' \in [LotIds -> LotStatuses]
  BY <1>1 DEF LotsInv, LotsShape
<1> QED BY <1>1, <1>2, WalkUntouched, RowsStay DEF LotsInv

LEMMA IdleWalkFits == IdleWalk \in WalkRecord /\ IdleWalk.pc = "idle" /\ IdleWalk.got = Absent
  BY DEF IdleWalk, WalkRecord

LEMMA WalkStartsKeeps ==
  ASSUME LotsInv, NEW w \in Walkers, NEW deep \in BOOLEAN, WalkStarts(w, deep) PROVE LotsInv'
<1> DEFINE r == [IdleWalk EXCEPT !.pc = "next", !.left = LotIds, !.deep = deep]
<1>1. r \in WalkRecord /\ r.pc = "next" /\ r.got = Absent
  BY DEF IdleWalk, WalkRecord
<1>2. walk' = [walk EXCEPT ![w] = r]
  BY DEF WalkStarts
<1> HIDE DEF r
<1>3. UNCHANGED <<portal, lot, stagedLots, expired, overlapped>>
  BY DEF WalkStarts, store
<1>4. portal' \in [LotIds -> LotStatuses] /\ LotsShape
  BY <1>3 DEF LotsInv, LotsShape
<1>5. Meets(r) /\ \A l \in LotIds : lot[l] # Absent => lot'[l] # Absent
  BY <1>1, <1>3 DEF Meets
<1>6. walk' \in [Walkers -> WalkRecord] /\ \A v \in Walkers : Meets(walk[v])'
  BY <1>1, <1>2, <1>4, <1>5, WalkMoves
<1> QED BY <1>3, <1>4, <1>6, RowsStay

LEMMA NextHitKeeps ==
  ASSUME LotsInv, NEW w \in Walkers, NEW l \in LotIds, NextHit(w, l) PROVE LotsInv'
<1> DEFINE s == walk[w]
           rest == s.left \ {l}
           seen == portal[l]
           r == [s EXCEPT !.pc = "load", !.left = rest, !.lot = l, !.hit = seen]
<1>1. s \in WalkRecord /\ seen \in LotStatuses /\ LotsShape
  BY DEF LotsInv, LotsShape
<1>2. rest \in SUBSET LotIds
  BY <1>1 DEF WalkRecord
<1>3. walk' = [walk EXCEPT ![w] = r]
  BY DEF NextHit
<1> HIDE DEF s, rest, seen
<1>4. r \in WalkRecord /\ r.pc = "load" /\ r.lot = l /\ r.hit = seen /\ r.got = s.got
  BY <1>1, <1>2 DEF WalkRecord
<1> HIDE DEF r
<1>5. s.got = Absent /\ Meets(r)
  <2>1. Meets(s) /\ s.pc = "next"
    BY <1>1 DEF LotsShape, NextHit, s
  <2> QED BY <2>1, <1>1, <1>4 DEF Meets
<1>6. UNCHANGED <<portal, lot, stagedLots, expired, overlapped>>
  BY DEF NextHit, store, aux
<1>7. portal' \in [LotIds -> LotStatuses] /\ \A m \in LotIds : lot[m] # Absent => lot'[m] # Absent
  BY <1>1, <1>6 DEF LotsShape
<1>8. walk' \in [Walkers -> WalkRecord] /\ \A v \in Walkers : Meets(walk[v])'
  BY <1>1, <1>3, <1>4, <1>5, <1>7, WalkMoves
<1> QED BY <1>6, <1>7, <1>8, RowsStay

(* The record is read, or read again after a conflict.                        *)
LEMMA ReadingKeeps ==
  ASSUME LotsInv, NEW w \in Walkers, LoadLot(w) \/ InsertConflicts(w) PROVE LotsInv'
<1> DEFINE s == walk[w]
           record == lot[walk[w].lot]
           r == [s EXCEPT !.pc = "flush", !.got = record]
<1>1. s \in WalkRecord /\ Meets(s) /\ LotsShape
  BY DEF LotsInv, LotsShape
<1>2. s.pc \in {"load", "flush"}
  BY DEF LoadLot, InsertConflicts
<1>3. s.lot \in LotIds /\ s.hit \in LotStatuses /\ record = lot[s.lot]
  BY <1>1, <1>2 DEF Meets
<1>4. record \in LotRow \cup {Absent}
  BY <1>1, <1>3 DEF LotsShape
<1>5. walk' = [walk EXCEPT ![w] = r]
  <2>1. CASE LoadLot(w)
    BY <2>1 DEF LoadLot
  <2>2. CASE InsertConflicts(w)
    <3>1. walk' = [walk EXCEPT ![w] = [s EXCEPT !.got = record]] /\ s.pc = "flush"
      BY <2>2 DEF InsertConflicts
    <3> HIDE DEF record, s
    <3>2. [s EXCEPT !.got = record] = r
      BY <1>1, <3>1 DEF WalkRecord
    <3> QED BY <3>1, <3>2
  <2> QED BY <2>1, <2>2
<1> HIDE DEF s, record
<1>6. /\ r \in WalkRecord /\ r.pc = "flush" /\ r.lot = s.lot /\ r.hit = s.hit /\ r.got = record
  BY <1>1, <1>3, <1>4 DEF WalkRecord
<1> HIDE DEF r
<1>7. Meets(r)
  BY <1>3, <1>6 DEF Meets
<1>8. UNCHANGED <<portal, lot, stagedLots, expired, overlapped>>
  BY DEF LoadLot, InsertConflicts, store, aux
<1>9. portal' \in [LotIds -> LotStatuses] /\ \A m \in LotIds : lot[m] # Absent => lot'[m] # Absent
  BY <1>1, <1>8 DEF LotsShape
<1>10. walk' \in [Walkers -> WalkRecord] /\ \A v \in Walkers : Meets(walk[v])'
  BY <1>1, <1>5, <1>6, <1>7, <1>9, WalkMoves
<1> QED BY <1>8, <1>9, <1>10, RowsStay

(* The end of a walk.                                                      *)
LEMMA HandingOverKeeps ==
  ASSUME LotsInv, NEW w \in Walkers, SendDetails(w) \/ LeaveDetailsOut(w) PROVE LotsInv'
<1>1. walk' = [walk EXCEPT ![w] = IdleWalk]
  BY DEF SendDetails, LeaveDetailsOut, Forgets
<1>2. UNCHANGED <<portal, lot, stagedLots, expired, overlapped>>
  BY DEF SendDetails, LeaveDetailsOut, Forgets, store, aux
<1>3. Meets(IdleWalk) /\ LotsShape
  BY IdleWalkFits DEF Meets, LotsInv
<1>4. portal' \in [LotIds -> LotStatuses] /\ \A m \in LotIds : lot[m] # Absent => lot'[m] # Absent
  BY <1>2, <1>3 DEF LotsShape
<1>5. walk' \in [Walkers -> WalkRecord] /\ \A v \in Walkers : Meets(walk[v])'
  BY <1>1, <1>3, <1>4, IdleWalkFits, WalkMoves
<1> QED BY <1>2, <1>4, <1>5, RowsStay

(* A walk that ends without its commit leaves nothing behind.              *)
LEMMA RollbackKeeps ==
  ASSUME LotsInv, NEW w \in Walkers, WalkIsCut(w) \/ DeadlockVictim(w) PROVE LotsInv'
<1>1. /\ walk' = [walk EXCEPT ![w] = IdleWalk]
      /\ stagedLots' = [stagedLots EXCEPT ![w] = [l \in LotIds |-> Absent]]
  BY DEF WalkIsCut, DeadlockVictim, Forgets, Rollback
<1>2. UNCHANGED <<portal, lot, expired, overlapped>>
  BY DEF WalkIsCut, DeadlockVictim, Forgets, store, aux
<1>3. Meets(IdleWalk) /\ LotsShape
  BY IdleWalkFits DEF Meets, LotsInv
<1>4. portal' \in [LotIds -> LotStatuses] /\ lot' \in [LotIds -> LotRow \cup {Absent}]
      /\ \A m \in LotIds : lot[m] # Absent => lot'[m] # Absent
  BY <1>2, <1>3 DEF LotsShape
<1>5. walk' \in [Walkers -> WalkRecord] /\ \A v \in Walkers : Meets(walk[v])'
  BY <1>1, <1>3, <1>4, IdleWalkFits, WalkMoves
<1>6. stagedLots' \in [Walkers -> [LotIds -> Change \cup {Absent}]]
  BY <1>1, <1>3 DEF LotsShape
<1>7. \A v \in Walkers, l \in LotIds :
        stagedLots'[v][l] # Absent => stagedLots'[v][l] = stagedLots[v][l]
  BY <1>1, <1>3 DEF LotsShape
<1>8. RowsAgree'
  BY <1>2 DEF LotsInv, RowsAgree, SoundLot
<1>9. StagedAgree'
  BY <1>2, <1>7 DEF LotsInv, StagedAgree, SoundLot
<1>10. OneHolds'
  BY <1>7 DEF LotsInv, OneHolds
<1> QED BY <1>4, <1>5, <1>6, <1>8, <1>9, <1>10 DEF LotsInv, LotsShape

(* A change is flushed to a record that nobody else holds.                    *)
LEMMA StagingKeeps ==
  ASSUME LotsInv, NEW w \in Walkers, NEW l \in LotIds, NEW c \in Change,
         stagedLots' = [stagedLots EXCEPT ![w][l] = c],
         \A v \in Walkers \ {w} : stagedLots[v][l] = Absent,
         UNCHANGED <<portal, lot, expired>>, overlapped \subseteq overlapped',
         Changed(lot[l], c) \in LotRow, Changed(lot[l], c).history = Changed(lot[l], c).status,
         l \notin expired \cup overlapped'
            => (Changed(lot[l], c).actual <=> is_actual(Changed(lot[l], c).status)),
         walk' \in [Walkers -> WalkRecord], \A v \in Walkers : Meets(walk[v])'
  PROVE  LotsInv'
<1>1. LotsShape
  BY DEF LotsInv
<1>2. stagedLots' \in [Walkers -> [LotIds -> Change \cup {Absent}]]
  BY <1>1 DEF LotsShape
<1>3. LotsShape'
  BY <1>1, <1>2 DEF LotsShape
<1>4. RowsAgree'
  BY DEF LotsInv, RowsAgree, SoundLot
<1>5. stagedLots'[w][l] = c
      /\ \A v \in Walkers, m \in LotIds : v # w \/ m # l => stagedLots'[v][m] = stagedLots[v][m]
  BY <1>1 DEF LotsShape
<1>6. StagedAgree'
  <2> SUFFICES ASSUME NEW v \in Walkers, NEW m \in LotIds, stagedLots'[v][m] # Absent
               PROVE  SoundLot(m, Changed(lot[m], stagedLots[v][m]))'
    BY DEF StagedAgree
  <2>1. CASE v = w /\ m = l
    BY <2>1, <1>5 DEF SoundLot, Changed, is_actual
  <2>2. CASE v # w \/ m # l
    <3>1. stagedLots'[v][m] = stagedLots[v][m] /\ SoundLot(m, Changed(lot[m], stagedLots[v][m]))
      BY <2>2, <1>5 DEF LotsInv, StagedAgree
    <3> QED BY <3>1 DEF SoundLot, Changed, is_actual
  <2> QED BY <2>1, <2>2
<1>7. OneHolds'
  BY <1>5 DEF LotsInv, OneHolds
<1> QED BY <1>3, <1>4, <1>6, <1>7 DEF LotsInv

(* A flush that waits for nobody finds its record free.                       *)
LEMMA FreeRow ==
  ASSUME NEW w \in Walkers, walk[w].pc = "flush", NEW l \in LotIds, l \in Needs(w),
         \A v \in Walkers : ~WaitsFor(w, v)
  PROVE  \A v \in Walkers \ {w} : stagedLots[v][l] = Absent
  BY DEF WaitsFor, Locked

LEMMA InsertLotKeeps ==
  ASSUME LotsInv, NEW w \in Walkers, InsertLot(w) PROVE LotsInv'
<1> DEFINE s == walk[w]
           l == s.lot
           h == s.hit
           c == [new |-> TRUE, status |-> h, actual |-> IF is_actual(h) THEN "on" ELSE "off",
                 noted |-> TRUE]
           more == s.new \cup {l}
           r == [s EXCEPT !.pc = "next", !.new = more, !.got = Absent]
<1>1. s \in WalkRecord /\ Meets(s) /\ LotsShape /\ s.pc = "flush"
  BY DEF LotsInv, LotsShape, InsertLot
<1>2. l \in LotIds /\ h \in LotStatuses
  BY <1>1 DEF Meets
<1>3. more \in SUBSET LotIds
  BY <1>1, <1>2 DEF WalkRecord
<1>4. walk' = [walk EXCEPT ![w] = r] /\ stagedLots' = [stagedLots EXCEPT ![w][l] = c]
  BY DEF InsertLot
<1>5. l \in Needs(w)
  BY DEF InsertLot, Needs
<1>6. \A v \in Walkers \ {w} : stagedLots[v][l] = Absent
  BY <1>1, <1>2, <1>5, FreeRow DEF InsertLot
<1>7. UNCHANGED <<portal, lot, expired, overlapped>>
  BY DEF InsertLot, store, aux
<1> HIDE DEF s, l, h, more
<1>8. r \in WalkRecord /\ r.pc = "next" /\ r.got = Absent
  BY <1>1, <1>3 DEF WalkRecord
<1>9. is_actual(h) \in BOOLEAN
  BY DEF is_actual
<1>10. c \in Change /\ c.new /\ c.status = h /\ (c.actual = "on" <=> is_actual(h))
  BY <1>2 DEF Change
<1>11. c # Absent
  BY <1>10, AbsentIsNoChange
<1> HIDE DEF r, c
<1>12. Changed(lot[l], c) = [status |-> h, actual |-> c.actual = "on", history |-> h]
  BY <1>10, <1>11 DEF Changed
<1>13. /\ Changed(lot[l], c) \in LotRow /\ Changed(lot[l], c).history = Changed(lot[l], c).status
       /\ (Changed(lot[l], c).actual <=> is_actual(Changed(lot[l], c).status))
  <2> DEFINE on == c.actual = "on"
  <2>1. on \in BOOLEAN /\ (on <=> is_actual(h))
    BY <1>10
  <2> HIDE DEF on
  <2>2. Changed(lot[l], c) = [status |-> h, actual |-> on, history |-> h]
    BY <1>12 DEF on
  <2> QED BY <1>2, <2>1, <2>2 DEF LotRow
<1>14. walk' \in [Walkers -> WalkRecord] /\ \A v \in Walkers : Meets(walk[v])'
  BY <1>1, <1>4, <1>7, <1>8, WalkMoves DEF Meets
<1> QED BY <1>2, <1>4, <1>6, <1>7, <1>10, <1>13, <1>14, StagingKeeps

(* What a walk writes to a record that is still the one it read.              *)
LEMMA CleanWrite ==
  \A r \in LotRow, h \in LotStatuses :
    r.history = r.status =>
      LET c == Attributes(h, r) IN
      Changed(r, c) = [status |-> h, actual |-> is_actual(h), history |-> h]
<1> SUFFICES ASSUME NEW r \in LotRow, NEW h \in LotStatuses, r.history = r.status
             PROVE  Changed(r, Attributes(h, r))
                      = [status |-> h, actual |-> is_actual(h), history |-> h]
  OBVIOUS
<1> DEFINE c == Attributes(h, r)
           act == ActualTo(h, r)
<1>1. is_actual(h) \in BOOLEAN /\ r.actual \in BOOLEAN /\ h # 0 /\ r.status # 0
  BY LotsAssumption DEF is_actual, LotRow, LotStatuses
<1>2. act \in {"same", "on", "off"} /\ (act = "same" <=> (is_actual(h) = r.actual))
      /\ (act = "on" => is_actual(h)) /\ (act = "off" => ~is_actual(h))
  BY <1>1 DEF ActualTo
<1>3. /\ c.new = FALSE /\ c.status = (IF h = r.status THEN 0 ELSE h)
      /\ c.actual = act /\ c.noted = (h # r.status)
  BY DEF Attributes
<1>4. c # Absent
  <2>1. c.new \in BOOLEAN /\ c.status \in LotStatuses \cup {0} /\ c.noted \in BOOLEAN
    BY <1>1, <1>3
  <2>2. c = [new |-> FALSE, status |-> IF h = r.status THEN 0 ELSE h, actual |-> act,
             noted |-> h # r.status]
    BY DEF Attributes
  <2> HIDE DEF c
  <2>3. c \in Change
    BY <1>2, <2>1, <2>2 DEF Change
  <2> QED BY <2>3, AbsentIsNoChange
<1> HIDE DEF c, act
<1>5. Changed(r, c) = [status  |-> IF c.status = 0 THEN r.status ELSE c.status,
                       actual  |-> IF c.actual = "same" THEN r.actual ELSE c.actual = "on",
                       history |-> IF c.noted THEN c.status ELSE r.history]
  BY <1>3, <1>4 DEF Changed
<1>6. (IF c.status = 0 THEN r.status ELSE c.status) = h
  BY <1>1, <1>3
<1>7. (IF c.noted THEN c.status ELSE r.history) = h
  BY <1>1, <1>3
<1>8. (IF c.actual = "same" THEN r.actual ELSE c.actual = "on") = is_actual(h)
  BY <1>1, <1>2, <1>3
<1> QED BY <1>5, <1>6, <1>7, <1>8 DEF c

(* Over a record that has changed, status and history are still of one hit.   *)
LEMMA OldWrite ==
  \A old, r \in LotRow, h \in LotStatuses :
    r.history = r.status =>
      LET c == Changed(r, Attributes(h, old)) IN c \in LotRow /\ c.history = c.status
<1> SUFFICES ASSUME NEW old \in LotRow, NEW r \in LotRow, NEW h \in LotStatuses,
                    r.history = r.status
             PROVE  LET c == Changed(r, Attributes(h, old)) IN c \in LotRow /\ c.history = c.status
  OBVIOUS
<1> DEFINE c == Attributes(h, old)
           act == ActualTo(h, old)
<1>1. h # 0 /\ r.status # 0 /\ r.status \in LotStatuses /\ r.actual \in BOOLEAN
  BY LotsAssumption DEF LotRow, LotStatuses
<1>2. act \in {"same", "on", "off"}
  BY DEF ActualTo
<1>3. /\ c.new = FALSE /\ c.status = (IF h = old.status THEN 0 ELSE h)
      /\ c.actual = act /\ c.noted = (h # old.status)
  BY DEF Attributes
<1>4. c \in Change
  <2>1. c.new \in BOOLEAN /\ c.status \in LotStatuses \cup {0} /\ c.noted \in BOOLEAN
    BY <1>1, <1>3
  <2>2. c = [new |-> FALSE, status |-> IF h = old.status THEN 0 ELSE h, actual |-> act,
             noted |-> h # old.status]
    BY DEF Attributes
  <2> HIDE DEF c
  <2> QED BY <1>2, <2>1, <2>2 DEF Change
<1> DEFINE st == IF c.status = 0 THEN r.status ELSE c.status
           on == IF c.actual = "same" THEN r.actual ELSE c.actual = "on"
           hi == IF c.noted THEN c.status ELSE r.history
<1>5. Changed(r, c) = [status |-> st, actual |-> on, history |-> hi]
  BY <1>3, <1>4, AbsentIsNoChange DEF Changed
<1>6. st \in LotStatuses /\ hi = st
  BY <1>1, <1>3
<1>7. on \in BOOLEAN
  BY <1>1
<1> HIDE DEF st, on, hi
<1>8. Changed(r, c) \in LotRow /\ Changed(r, c).history = Changed(r, c).status
  BY <1>5, <1>6, <1>7 DEF LotRow
<1> QED BY <1>8

LEMMA AttributesFit ==
  \A old \in LotRow, h \in LotStatuses : Attributes(h, old) \in Change
<1> SUFFICES ASSUME NEW old \in LotRow, NEW h \in LotStatuses PROVE Attributes(h, old) \in Change
  OBVIOUS
<1> DEFINE act == ActualTo(h, old)
           st == IF h = old.status THEN 0 ELSE h
           no == h # old.status
<1>1. act \in {"same", "on", "off"}
  BY DEF ActualTo
<1>2. st \in LotStatuses \cup {0} /\ no \in BOOLEAN
  OBVIOUS
<1>3. Attributes(h, old) = [new |-> FALSE, status |-> st, actual |-> act, noted |-> no]
  BY DEF Attributes
<1> HIDE DEF act, st, no
<1> QED BY <1>1, <1>2, <1>3 DEF Change

LEMMA UpdateLotKeeps ==
  ASSUME LotsInv, NEW w \in Walkers, UpdateLot(w) PROVE LotsInv'
<1> DEFINE s == walk[w]
           l == s.lot
           h == s.hit
           c == Attributes(h, s.got)
           more == IF c.noted THEN s.changed \cup {l} ELSE s.changed
           r == [s EXCEPT !.pc = "next", !.got = Absent, !.changed = more]
<1>1. s \in WalkRecord /\ Meets(s) /\ LotsShape /\ s.pc = "flush" /\ s.got # Absent
  BY DEF LotsInv, LotsShape, UpdateLot
<1>2. l \in LotIds /\ h \in LotStatuses /\ lot[l] # Absent
  BY <1>1 DEF Meets
<1>3. s.got \in LotRow
  BY <1>1 DEF WalkRecord
<1>4. more \in SUBSET LotIds
  BY <1>1, <1>2 DEF WalkRecord
<1>5. /\ walk' = [walk EXCEPT ![w] = r]
      /\ stagedLots' = IF c = Nothing THEN stagedLots ELSE [stagedLots EXCEPT ![w][l] = c]
      /\ overlapped' = IF c # Nothing /\ s.got # lot[l] THEN overlapped \cup {l} ELSE overlapped
  BY DEF UpdateLot
<1>6. UNCHANGED <<portal, lot, expired>>
  BY DEF UpdateLot, store
<1>7. SoundLot(l, lot[l])
  BY <1>2 DEF LotsInv, RowsAgree
<1>8. c # Nothing => l \in Needs(w)
  BY <1>1 DEF Needs
<1>9. \A v \in Walkers : ~WaitsFor(w, v)
  BY DEF UpdateLot
<1>10. c \in Change
  BY <1>2, <1>3, AttributesFit
<1> HIDE DEF more
<1>11. r \in WalkRecord /\ r.pc = "next" /\ r.got = Absent
  <2> HIDE DEF s, l
  <2> QED BY <1>1, <1>4 DEF WalkRecord
<1> HIDE DEF r
<1>12. walk' \in [Walkers -> WalkRecord] /\ \A v \in Walkers : Meets(walk[v])'
  BY <1>1, <1>5, <1>6, <1>11, WalkMoves DEF Meets
<1>13. CASE c = Nothing
  <2>1. UNCHANGED <<lot, stagedLots, expired, overlapped>>
    BY <1>5, <1>6, <1>13
  <2>2. portal' \in [LotIds -> LotStatuses]
    BY <1>1, <1>6 DEF LotsShape
  <2> QED BY <2>1, <2>2, <1>12, RowsStay
<1>14. CASE c # Nothing
  <2>1. stagedLots' = [stagedLots EXCEPT ![w][l] = c]
    BY <1>5, <1>14
  <2>2. \A v \in Walkers \ {w} : stagedLots[v][l] = Absent
    BY <1>1, <1>2, <1>8, <1>9, <1>14, FreeRow
  <2>3. lot[l] \in LotRow /\ lot[l].history = lot[l].status
    BY <1>7 DEF SoundLot
  <2>4. Changed(lot[l], c) \in LotRow /\ Changed(lot[l], c).history = Changed(lot[l], c).status
    BY <1>2, <1>3, <2>3, OldWrite
  <2>5. l \notin expired \cup overlapped'
          => (Changed(lot[l], c).actual <=> is_actual(Changed(lot[l], c).status))
    <3> SUFFICES ASSUME l \notin overlapped'
                 PROVE  Changed(lot[l], c).actual <=> is_actual(Changed(lot[l], c).status)
      OBVIOUS
    <3>1. s.got = lot[l]
      BY <1>5, <1>14
    <3>2. Changed(lot[l], c) = [status |-> h, actual |-> is_actual(h), history |-> h]
      BY <3>1, <1>2, <2>3, CleanWrite
    <3> HIDE DEF c
    <3> QED BY <3>2
  <2>6. overlapped \subseteq overlapped'
    BY <1>5
  <2> HIDE DEF s, l, h, c
  <2> QED BY <2>1, <2>2, <2>4, <2>5, <2>6, <1>2, <1>6, <1>10, <1>12, StagingKeeps
<1> QED BY <1>13, <1>14

LEMMA CommitKeeps ==
  ASSUME LotsInv, NEW w \in Walkers, CommitBatch(w) \/ WalkEnds(w) PROVE LotsInv'
<1>1. /\ lot' = [l \in LotIds |-> Changed(lot[l], stagedLots[w][l])]
      /\ stagedLots' = [stagedLots EXCEPT ![w] = [l \in LotIds |-> Absent]]
      /\ UNCHANGED <<portal, expired, overlapped>>
  BY DEF CommitBatch, WalkEnds, CommitWalk
<1>2. LotsShape
  BY DEF LotsInv
<1>3. \A l \in LotIds : stagedLots[w][l] = Absent => lot'[l] = lot[l]
  BY <1>1 DEF Changed
<1>4. \A l \in LotIds : stagedLots[w][l] # Absent => SoundLot(l, lot'[l]) /\ lot'[l] # Absent
  BY <1>1, AbsentIsNoRow DEF LotsInv, StagedAgree, SoundLot
<1>5. \A l \in LotIds : lot'[l] \in LotRow \cup {Absent} /\ (lot[l] # Absent => lot'[l] # Absent)
  BY <1>2, <1>3, <1>4 DEF LotsShape, SoundLot
<1>6. lot' \in [LotIds -> LotRow \cup {Absent}]
  BY <1>1, <1>5
<1>7. stagedLots' \in [Walkers -> [LotIds -> Change \cup {Absent}]]
  BY <1>1, <1>2 DEF LotsShape
<1>8. \A v \in Walkers, l \in LotIds :
        stagedLots'[v][l] # Absent => v # w /\ stagedLots'[v][l] = stagedLots[v][l]
  BY <1>1, <1>2 DEF LotsShape
<1>9. RowsAgree'
  <2> SUFFICES ASSUME NEW l \in LotIds, lot'[l] # Absent PROVE SoundLot(l, lot[l])'
    BY DEF RowsAgree
  <2>1. SoundLot(l, lot'[l])
    BY <1>3, <1>4 DEF LotsInv, RowsAgree
  <2> QED BY <2>1, <1>1 DEF SoundLot, is_actual
<1>10. StagedAgree'
  <2> SUFFICES ASSUME NEW v \in Walkers, NEW l \in LotIds, stagedLots'[v][l] # Absent
               PROVE  SoundLot(l, Changed(lot[l], stagedLots[v][l]))'
    BY DEF StagedAgree
  <2>1. v # w /\ stagedLots'[v][l] = stagedLots[v][l] /\ stagedLots[v][l] # Absent
    BY <1>8
  <2>2. lot'[l] = lot[l]
    BY <2>1, <1>3 DEF LotsInv, OneHolds
  <2>3. SoundLot(l, Changed(lot[l], stagedLots[v][l]))
    BY <2>1 DEF LotsInv, StagedAgree
  <2> QED BY <2>1, <2>2, <2>3, <1>1, SMTT(20) DEF SoundLot, Changed, is_actual
<1>11. OneHolds'
  BY <1>8 DEF LotsInv, OneHolds
<1>12. walk' \in [Walkers -> WalkRecord] /\ \A v \in Walkers : Meets(walk[v])'
  <2>1. CASE CommitBatch(w)
    <3>1. walk' = walk
      BY <2>1 DEF CommitBatch
    <3> QED BY <3>1, <1>2, <1>5 DEF LotsShape, Meets
  <2>2. CASE WalkEnds(w)
    <3> DEFINE s == walk[w]
               r == [s EXCEPT !.pc = "sending"]
    <3>1. s \in WalkRecord /\ Meets(s) /\ s.pc = "next" /\ walk' = [walk EXCEPT ![w] = r]
      BY <1>2, <2>2 DEF LotsShape, WalkEnds
    <3> HIDE DEF s
    <3>2. r \in WalkRecord /\ r.pc = "sending" /\ r.got = s.got
      BY <3>1 DEF WalkRecord
    <3> HIDE DEF r
    <3>3. Meets(r)
      BY <3>1, <3>2 DEF Meets
    <3> QED BY <3>1, <3>2, <3>3, <1>2, <1>5, WalkMoves
  <2> QED BY <2>1, <2>2
<1>13. LotsShape'
  BY <1>1, <1>2, <1>6, <1>7, <1>12 DEF LotsShape
<1> QED BY <1>9, <1>10, <1>11, <1>13 DEF LotsInv

LEMMA ExpireLotsKeeps ==
  ASSUME LotsInv, NEW over \in SUBSET LotIds, ExpireLots(over) PROVE LotsInv'
<1>1. /\ UNCHANGED <<portal, walk, stagedLots, overlapped>>
      /\ expired' = expired \cup over
      /\ lot' = [l \in LotIds |-> IF l \in over THEN [lot[l] EXCEPT !.actual = FALSE] ELSE lot[l]]
      /\ \A l \in over : lot[l] # Absent
      /\ \A v \in Walkers : over \cap Locked(v) = {}
  BY DEF ExpireLots
<1>2. LotsShape
  BY DEF LotsInv
<1>3. \A l \in over : SoundLot(l, lot[l])
  BY <1>1 DEF LotsInv, RowsAgree
<1>4. \A r \in LotRow : /\ [r EXCEPT !.actual = FALSE] \in LotRow
                        /\ [r EXCEPT !.actual = FALSE].status = r.status
                        /\ [r EXCEPT !.actual = FALSE].history = r.history
  BY DEF LotRow
<1>5. \A l \in over : lot'[l] \in LotRow /\ lot'[l].history = lot'[l].status
  <2> TAKE l \in over
  <2>1. lot[l] \in LotRow /\ lot[l].history = lot[l].status
    BY <1>3 DEF SoundLot
  <2>2. lot'[l] = [lot[l] EXCEPT !.actual = FALSE]
    BY <1>1
  <2> QED BY <2>1, <2>2, <1>4
<1>6. \A l \in LotIds \ over : lot'[l] = lot[l]
  BY <1>1
<1>7. \A v \in Walkers, l \in over : stagedLots[v][l] = Absent
  BY <1>1 DEF Locked
<1>8. lot' \in [LotIds -> LotRow \cup {Absent}]
  <2>1. \A l \in LotIds : lot'[l] \in LotRow \cup {Absent}
    BY <1>2, <1>5, <1>6 DEF LotsShape
  <2> QED BY <2>1, <1>1
<1>9. \A l \in LotIds : lot[l] # Absent => lot'[l] # Absent
  BY <1>5, <1>6, AbsentIsNoRow
<1>10. RowsAgree'
  <2> SUFFICES ASSUME NEW l \in LotIds, lot'[l] # Absent PROVE SoundLot(l, lot[l])'
    BY DEF RowsAgree
  <2>1. CASE l \in over
    BY <2>1, <1>1, <1>5 DEF SoundLot
  <2>2. CASE l \notin over
    <3>1. lot'[l] = lot[l] /\ SoundLot(l, lot[l])
      BY <2>2, <1>6 DEF LotsInv, RowsAgree
    <3> QED BY <3>1, <1>1 DEF SoundLot, is_actual
  <2> QED BY <2>1, <2>2
<1>11. StagedAgree'
  <2> SUFFICES ASSUME NEW v \in Walkers, NEW l \in LotIds, stagedLots'[v][l] # Absent
               PROVE  SoundLot(l, Changed(lot[l], stagedLots[v][l]))'
    BY DEF StagedAgree
  <2>1. stagedLots'[v][l] = stagedLots[v][l] /\ l \notin over
    BY <1>1, <1>7
  <2>2. lot'[l] = lot[l] /\ SoundLot(l, Changed(lot[l], stagedLots[v][l]))
    BY <2>1, <1>6 DEF LotsInv, StagedAgree
  <2> QED BY <2>1, <2>2, <1>1 DEF SoundLot, Changed, is_actual
<1>12. OneHolds'
  BY <1>1 DEF LotsInv, OneHolds
<1>13. \A v \in Walkers : Meets(walk[v])'
  BY <1>1, <1>2, <1>9 DEF LotsShape, Meets
<1>14. LotsShape'
  BY <1>1, <1>2, <1>8, <1>13 DEF LotsShape
<1> QED BY <1>10, <1>11, <1>12, <1>14 DEF LotsInv

LEMMA LotsStep == LotsInv /\ [LotsNext]_lotsVars => LotsInv'
<1> SUFFICES ASSUME LotsInv, [LotsNext]_lotsVars PROVE LotsInv'
  OBVIOUS
<1>1. CASE UNCHANGED lotsVars
  <2>1. UNCHANGED <<portal, lot, walk, stagedLots, expired, overlapped>>
    BY <1>1 DEF lotsVars
  <2>2. portal' \in [LotIds -> LotStatuses]
    BY <2>1 DEF LotsInv, LotsShape
  <2> QED BY <2>1, <2>2, WalkUntouched, RowsStay DEF LotsInv
<1>2. CASE \E l \in LotIds : PortalMoves(l)
  BY <1>2, PortalMovesKeeps
<1>3. CASE (\E S \in SUBSET LotAnnos : Reconcile(S)) \/ \E a \in LotAnnos : SaveDetails(a) \/ DetailsAreLost(a)
  BY <1>3, DetailsKeep
<1>4. CASE \E over \in SUBSET LotIds : ExpireLots(over)
  BY <1>4, ExpireLotsKeeps
<1>5. ASSUME NEW w \in Walkers,
             \/ \E deep \in BOOLEAN : WalkStarts(w, deep)
             \/ UpsertLot(w) \/ WalkEnding(w) \/ WalkIsCut(w)
      PROVE  LotsInv'
  BY <1>5, WalkStartsKeeps, NextHitKeeps, ReadingKeeps, InsertLotKeeps, UpdateLotKeeps,
     CommitKeeps, HandingOverKeeps, RollbackKeeps DEF UpsertLot, WalkEnding
<1> QED BY <1>1, <1>2, <1>3, <1>4, <1>5 DEF LotsNext

(* However walks overlap, the history of a lot ends with its status, and a  *)
(* lot counts as actual exactly in the statuses that are                    *)
(* (statuses.py:50-57), for any number of lots, statuses and walks; what    *)
(* was expired or written over an older read is excepted                    *)
(* (run_preset.py:184-203).                                                 *)
THEOREM LotsStayInStep == LotsSpec => []StatusesAgree
<1>1. LotsInv => StatusesAgree
  BY DEF LotsInv, RowsAgree, SoundLot, StatusesAgree
<1> QED BY <1>1, LotsInvInit, LotsStep, PTL DEF LotsSpec

(* What a walk has met that is new or has a new status.                    *)
Met(w) == walk[w].new \cup walk[w].changed

OwedShape ==
  /\ anno \in [LotAnnos -> {"none", "stub", "full"}]
  /\ details \subseteq LotAnnos /\ owes \subseteq LotIds /\ lost \subseteq LotIds
  /\ \A l \in LotIds : lot[l] # Absent => anno[AnnoOf[l]] # "none"

(* A walk remembers what it has flushed, and drops neither without the     *)
(* other.                                                                  *)
FlushedIsMet ==
  \A w \in Walkers :
    /\ walk[w].pc = "idle" => Met(w) = {}
    /\ \A l \in LotIds : stagedLots[w][l] # Absent =>
         /\ walk[w].pc \notin {"idle", "sending"}
         /\ stagedLots[w][l].noted => l \in Met(w)

(* The lots whose details are owed are with a message, a walk or nobody.   *)
OwedIsKnown ==
  \A l \in owes :
    /\ lot[l] # Absent
    /\ AnnoOf[l] \in details \/ l \in lost \/ \E w \in Walkers : l \in Met(w)

OwedInv == OwedShape /\ FlushedIsMet /\ OwedIsKnown

LEMMA OwedInvInit == LotsInit => OwedInv
<1> SUFFICES ASSUME LotsInit PROVE OwedInv
  OBVIOUS
<1>1. OwedShape
  BY DEF LotsInit, OwedShape, LotStatuses, Absent
<1>2. FlushedIsMet /\ OwedIsKnown
  BY DEF LotsInit, FlushedIsMet, OwedIsKnown, IdleWalk, Met
<1> QED BY <1>1, <1>2 DEF OwedInv

(* OwedIsKnown speaks of what a stub that lost its details is found by.    *)
LEMMA OwedIsFound == LotsInv /\ OwedInv => ChangeReachesDetails
<1> SUFFICES ASSUME LotsInv, OwedInv, NEW l \in owes
             PROVE  \/ AnnoOf[l] \in details \cup OrphanStubs
                    \/ \E w \in Walkers : l \in walk[w].new \cup walk[w].changed
                    \/ l \in lost /\ (anno[AnnoOf[l]] = "full" \/ ~lot[l].actual)
  BY DEF ChangeReachesDetails
<1>1. l \in LotIds /\ lot[l] # Absent /\ AnnoOf[l] \in LotAnnos /\ anno[AnnoOf[l]] \in {"stub", "full"}
  BY LotsAssumption DEF OwedInv, OwedShape, OwedIsKnown
<1>2. l \in lost => AnnoOf[l] \in OrphanStubs \/ anno[AnnoOf[l]] = "full" \/ ~lot[l].actual
  BY <1>1 DEF OrphanStubs
<1> QED BY <1>2 DEF OwedInv, OwedIsKnown, Met

(* Steps that leave the records, the messages and what is owed alone.         *)
LEMMA OwedStays ==
  ASSUME LotsInv, OwedInv, NEW w \in Walkers, UNCHANGED <<lot, anno, details, owes, lost>>,
         \A v \in Walkers \ {w} : walk'[v] = walk[v] /\ stagedLots'[v] = stagedLots[v],
         Met(w) \subseteq Met(w)', walk'[w].pc # "idle",
         \A l \in LotIds : stagedLots'[w][l] # Absent =>
           /\ walk'[w].pc # "sending"
           /\ stagedLots'[w][l].noted => l \in Met(w)'
  PROVE  OwedInv'
<1>1. OwedShape'
  BY DEF OwedInv, OwedShape
<1>2. FlushedIsMet'
  <2> SUFFICES ASSUME NEW v \in Walkers
               PROVE  /\ walk'[v].pc = "idle" => Met(v)' = {}
                      /\ \A l \in LotIds : stagedLots'[v][l] # Absent =>
                           /\ walk'[v].pc \notin {"idle", "sending"}
                           /\ stagedLots'[v][l].noted => l \in Met(v)'
    BY DEF FlushedIsMet, Met
  <2>1. CASE v = w
    BY <2>1 DEF Met
  <2>2. CASE v # w
    BY <2>2 DEF OwedInv, FlushedIsMet, Met
  <2> QED BY <2>1, <2>2
<1>3. \A v \in Walkers : Met(v) \subseteq walk'[v].new \cup walk'[v].changed
  BY DEF Met
<1>4. OwedIsKnown'
  BY <1>3 DEF OwedInv, OwedIsKnown, Met
<1> QED BY <1>1, <1>2, <1>4 DEF OwedInv

LEMMA OwedWhileWalking ==
  ASSUME LotsInv, OwedInv, NEW w \in Walkers,
         \/ \E deep \in BOOLEAN : WalkStarts(w, deep)
         \/ \E l \in LotIds : NextHit(w, l)
         \/ LoadLot(w) \/ InsertConflicts(w)
  PROVE  OwedInv'
<1>1. UNCHANGED <<lot, anno, details, owes, lost, stagedLots>>
  BY DEF WalkStarts, NextHit, LoadLot, InsertConflicts, store, aux
<1>2. walk[w] \in WalkRecord /\ walk \in [Walkers -> WalkRecord]
  BY DEF LotsInv, LotsShape
<1>3. \A v \in Walkers \ {w} : walk'[v] = walk[v]
  BY <1>2 DEF WalkStarts, NextHit, LoadLot, InsertConflicts
<1> DEFINE s == walk[w]
           Goes(r) == r.pc \in {"next", "load", "flush"} /\ r.new = s.new /\ r.changed = s.changed
<1>4. ASSUME ~ \E deep \in BOOLEAN : WalkStarts(w, deep)
      PROVE  Goes(walk'[w])
  <2>1. CASE \E l \in LotIds : NextHit(w, l)
    <3>1. PICK l \in LotIds : NextHit(w, l)
      BY <2>1
    <3> DEFINE rest == s.left \ {l}
               seen == portal[l]
    <3>2. walk'[w] = [s EXCEPT !.pc = "load", !.left = rest, !.lot = l, !.hit = seen]
      BY <1>2, <3>1 DEF NextHit
    <3> HIDE DEF s, rest, seen
    <3> QED BY <1>2, <3>2 DEF WalkRecord, s
  <2>2. CASE LoadLot(w)
    <3> DEFINE record == lot[walk[w].lot]
    <3>1. walk'[w] = [s EXCEPT !.pc = "flush", !.got = record]
      BY <1>2, <2>2 DEF LoadLot
    <3> HIDE DEF s, record
    <3> QED BY <1>2, <3>1 DEF WalkRecord, s
  <2>3. CASE InsertConflicts(w)
    <3> DEFINE record == lot[walk[w].lot]
    <3>1. walk'[w] = [s EXCEPT !.got = record] /\ s.pc = "flush"
      BY <1>2, <2>3 DEF InsertConflicts
    <3> HIDE DEF s, record
    <3> QED BY <1>2, <3>1 DEF WalkRecord, s
  <2> QED BY <1>4, <2>1, <2>2, <2>3
<1>7. CASE \E deep \in BOOLEAN : WalkStarts(w, deep)
  <2>1. PICK deep \in BOOLEAN : WalkStarts(w, deep)
    BY <1>7
  <2>2. walk'[w] = [IdleWalk EXCEPT !.pc = "next", !.left = LotIds, !.deep = deep] /\ Met(w) = {}
    BY <1>2, <2>1 DEF WalkStarts, OwedInv, FlushedIsMet
  <2>3. walk'[w].pc = "next"
    BY <2>2 DEF IdleWalk
  <2>4. \A l \in LotIds : stagedLots'[w][l] = Absent
    BY <1>1, <2>1 DEF WalkStarts, OwedInv, FlushedIsMet
  <2> QED BY <1>1, <1>3, <2>2, <2>3, <2>4, OwedStays
<1>8. CASE ~ \E deep \in BOOLEAN : WalkStarts(w, deep)
  <2>1. Goes(walk'[w])
    BY <1>4, <1>8
  <2>2. Met(w)' = Met(w)
    BY <2>1 DEF Met
  <2>3. \A l \in LotIds : stagedLots'[w][l] # Absent /\ stagedLots'[w][l].noted => l \in Met(w)'
    BY <1>1, <2>2 DEF OwedInv, FlushedIsMet
  <2> QED BY <1>1, <1>3, <2>1, <2>2, <2>3, OwedStays
<1> QED BY <1>7, <1>8

(* What a flush notes is remembered at once.                               *)
LEMMA OwedWhenFlushed ==
  ASSUME LotsInv, OwedInv, NEW w \in Walkers, InsertLot(w) \/ UpdateLot(w) PROVE OwedInv'
<1> DEFINE s == walk[w]
           l == s.lot
<1>1. UNCHANGED <<lot, anno, details, owes, lost>>
  BY DEF InsertLot, UpdateLot, store, aux
<1>2. s \in WalkRecord /\ walk \in [Walkers -> WalkRecord]
      /\ stagedLots \in [Walkers -> [LotIds -> Change \cup {Absent}]]
  BY DEF LotsInv, LotsShape
<1>3. s.pc = "flush"
  BY DEF InsertLot, UpdateLot
<1>4. l \in LotIds
  BY <1>3 DEF LotsInv, LotsShape, Meets
<1>5. /\ \A v \in Walkers \ {w} : walk'[v] = walk[v] /\ stagedLots'[v] = stagedLots[v]
      /\ \A m \in LotIds \ {l} : stagedLots'[w][m] = stagedLots[w][m]
  BY <1>2, <1>4 DEF InsertLot, UpdateLot
<1>6. CASE InsertLot(w)
  <2>1. walk'[w].pc = "next" /\ walk'[w].new = s.new \cup {l} /\ walk'[w].changed = s.changed
    BY <1>2, <1>6 DEF InsertLot, WalkRecord
  <2>2. Met(w) \subseteq Met(w)' /\ l \in Met(w)'
    BY <2>1 DEF Met
  <2>3. \A m \in LotIds : stagedLots'[w][m] # Absent /\ stagedLots'[w][m].noted => m \in Met(w)'
    BY <1>5, <2>2 DEF OwedInv, FlushedIsMet
  <2> QED BY <1>1, <1>5, <2>1, <2>2, <2>3, OwedStays
<1>7. CASE UpdateLot(w)
  <2> DEFINE c == Attributes(s.hit, s.got)
  <2>1. /\ walk'[w].pc = "next" /\ walk'[w].new = s.new
        /\ walk'[w].changed = IF c.noted THEN s.changed \cup {l} ELSE s.changed
    BY <1>2, <1>7 DEF UpdateLot, WalkRecord
  <2>2. Met(w) \subseteq Met(w)' /\ (c.noted => l \in Met(w)')
    BY <2>1 DEF Met
  <2>3. stagedLots'[w][l] = c \/ stagedLots'[w][l] = stagedLots[w][l]
    BY <1>2, <1>4, <1>7 DEF UpdateLot
  <2>4. \A m \in LotIds : stagedLots'[w][m] # Absent /\ stagedLots'[w][m].noted => m \in Met(w)'
    BY <1>5, <2>2, <2>3 DEF OwedInv, FlushedIsMet
  <2> QED BY <1>1, <1>5, <2>1, <2>2, <2>4, OwedStays
<1> QED BY <1>6, <1>7

(* A commit makes owed what is remembered, and gives every new lot a stub. *)
LEMMA OwedWhenCommitted ==
  ASSUME LotsInv, OwedInv, NEW w \in Walkers, CommitBatch(w) \/ WalkEnds(w) PROVE OwedInv'
<1> DEFINE s == walk[w]
           noted == {l \in LotIds : stagedLots[w][l] # Absent /\ stagedLots[w][l].noted}
<1>1. /\ lot' = [l \in LotIds |-> Changed(lot[l], stagedLots[w][l])]
      /\ anno' = [a \in LotAnnos |-> IF a \in Locked(w) THEN "stub" ELSE anno[a]]
      /\ owes' = owes \cup noted
      /\ stagedLots' = [stagedLots EXCEPT ![w] = [l \in LotIds |-> Absent]]
      /\ UNCHANGED <<details, lost>>
  BY DEF CommitBatch, WalkEnds, CommitWalk
<1>2. s \in WalkRecord /\ walk \in [Walkers -> WalkRecord]
      /\ stagedLots \in [Walkers -> [LotIds -> Change \cup {Absent}]]
  BY DEF LotsInv, LotsShape
<1>3. walk' = walk \/ walk' = [walk EXCEPT ![w] = [s EXCEPT !.pc = "sending"]]
  BY DEF CommitBatch, WalkEnds
<1>4. s.pc = "next"
  BY DEF CommitBatch, WalkEnds
<1>5. /\ \A v \in Walkers \ {w} : walk'[v] = walk[v]
      /\ walk'[w].pc \in {"next", "sending"} /\ walk'[w].new = s.new /\ walk'[w].changed = s.changed
  <2>1. walk'[w] = s \/ walk'[w] = [s EXCEPT !.pc = "sending"]
    BY <1>2, <1>3
  <2>2. \A v \in Walkers \ {w} : walk'[v] = walk[v]
    BY <1>2, <1>3
  <2> HIDE DEF s
  <2> QED BY <1>2, <1>4, <2>1, <2>2 DEF WalkRecord
<1>6. \A v \in Walkers : Met(v)' = Met(v) /\ (walk'[v].pc = "idle" <=> walk[v].pc = "idle")
  BY <1>4, <1>5 DEF Met
<1>7. \A l \in LotIds : stagedLots[w][l] = Absent => lot'[l] = lot[l]
  BY <1>1 DEF Changed
<1>8. \A l \in LotIds : stagedLots[w][l] # Absent => lot'[l] # Absent
  BY <1>1, AbsentIsNoRow DEF LotsInv, StagedAgree, SoundLot
<1>9. OwedShape'
  <2>1. anno' \in [LotAnnos -> {"none", "stub", "full"}]
    BY <1>1 DEF OwedInv, OwedShape
  <2>2. \A l \in LotIds : lot'[l] # Absent => anno'[AnnoOf[l]] # "none"
    <3> TAKE l \in LotIds
    <3>1. AnnoOf[l] \in LotAnnos
      BY LotsAssumption
    <3>2. CASE anno[AnnoOf[l]] = "none" /\ stagedLots[w][l] # Absent
      BY <3>1, <3>2, <1>1 DEF Locked
    <3>3. CASE anno[AnnoOf[l]] # "none"
      BY <3>1, <3>3, <1>1
    <3>4. CASE stagedLots[w][l] = Absent
      BY <3>1, <3>3, <3>4, <1>7 DEF OwedInv, OwedShape
    <3> QED BY <3>2, <3>3, <3>4
  <2> QED BY <1>1, <2>1, <2>2 DEF OwedInv, OwedShape
<1>10. FlushedIsMet'
  <2> SUFFICES ASSUME NEW v \in Walkers
               PROVE  /\ walk'[v].pc = "idle" => Met(v)' = {}
                      /\ \A l \in LotIds : stagedLots'[v][l] # Absent =>
                           /\ walk'[v].pc \notin {"idle", "sending"}
                           /\ stagedLots'[v][l].noted => l \in Met(v)'
    BY DEF FlushedIsMet, Met
  <2>1. CASE v = w
    BY <2>1, <1>1, <1>2, <1>5
  <2>2. CASE v # w
    BY <2>2, <1>1, <1>2, <1>5, <1>6 DEF OwedInv, FlushedIsMet
  <2> QED BY <2>1, <2>2
<1>11. OwedIsKnown'
  <2> SUFFICES ASSUME NEW l \in owes'
               PROVE  /\ lot'[l] # Absent
                      /\ AnnoOf[l] \in details' \/ l \in lost' \/ \E v \in Walkers : l \in Met(v)'
    BY DEF OwedIsKnown, Met
  <2>1. CASE l \in owes
    BY <2>1, <1>1, <1>6, <1>7, <1>8 DEF OwedInv, OwedIsKnown, OwedShape
  <2>2. CASE l \in noted
    BY <2>2, <1>6, <1>8 DEF OwedInv, FlushedIsMet
  <2> QED BY <1>1, <2>1, <2>2
<1> QED BY <1>9, <1>10, <1>11 DEF OwedInv

(* A walk that is over has handed on what it met, or lost it.              *)
LEMMA OwedWhenForgotten ==
  ASSUME LotsInv, OwedInv, NEW w \in Walkers,
         SendDetails(w) \/ LeaveDetailsOut(w) \/ WalkIsCut(w) \/ DeadlockVictim(w)
  PROVE  OwedInv'
<1>1. /\ walk' = [walk EXCEPT ![w] = IdleWalk]
      /\ UNCHANGED <<lot, anno, owes>>
      /\ stagedLots' = stagedLots \/ stagedLots' = [stagedLots EXCEPT ![w] = [l \in LotIds |-> Absent]]
  BY DEF SendDetails, LeaveDetailsOut, WalkIsCut, DeadlockVictim, Forgets, Rollback, store, aux
<1>2. walk \in [Walkers -> WalkRecord] /\ stagedLots \in [Walkers -> [LotIds -> Change \cup {Absent}]]
      /\ walk[w] \in WalkRecord
  BY DEF LotsInv, LotsShape
<1>3. \A l \in LotIds : stagedLots'[w][l] = Absent
  <2>1. CASE SendDetails(w) \/ LeaveDetailsOut(w)
    BY <2>1 DEF SendDetails, LeaveDetailsOut, Forgets, OwedInv, FlushedIsMet
  <2>2. CASE WalkIsCut(w) \/ DeadlockVictim(w)
    BY <1>2, <2>2 DEF WalkIsCut, DeadlockVictim, Rollback
  <2> QED BY <2>1, <2>2
<1>4. /\ \A v \in Walkers \ {w} : walk'[v] = walk[v] /\ stagedLots'[v] = stagedLots[v]
      /\ walk'[w] = IdleWalk
  BY <1>1, <1>2
<1>5. IdleWalk.new = {} /\ IdleWalk.changed = {}
  BY DEF IdleWalk
<1>6. FlushedIsMet'
  <2> SUFFICES ASSUME NEW v \in Walkers
               PROVE  /\ walk'[v].pc = "idle" => Met(v)' = {}
                      /\ \A l \in LotIds : stagedLots'[v][l] # Absent =>
                           /\ walk'[v].pc \notin {"idle", "sending"}
                           /\ stagedLots'[v][l].noted => l \in Met(v)'
    BY DEF FlushedIsMet, Met
  <2>1. CASE v = w
    BY <2>1, <1>3, <1>4, <1>5 DEF Met
  <2>2. CASE v # w
    BY <2>2, <1>4 DEF OwedInv, FlushedIsMet, Met
  <2> QED BY <2>1, <2>2
<1>7. \A l \in Met(w) : l \in LotIds /\ AnnoOf[l] \in LotAnnos
  BY <1>2, LotsAssumption DEF Met, WalkRecord
<1>8. /\ details \subseteq details' /\ details' \subseteq LotAnnos
      /\ lost \subseteq lost' /\ lost' \subseteq LotIds
      /\ \A l \in Met(w) : AnnoOf[l] \in details' \/ l \in lost'
  <2>1. CASE SendDetails(w)
    <3>1. details' = details \cup Targets(w) /\ lost' = lost
      BY <2>1 DEF SendDetails, aux
    <3>2. Targets(w) = {AnnoOf[l] : l \in Met(w)}
      BY DEF Targets, Met
    <3> QED BY <3>1, <3>2, <1>7 DEF OwedInv, OwedShape
  <2>2. CASE LeaveDetailsOut(w) \/ WalkIsCut(w) \/ DeadlockVictim(w)
    <3>1. details' = details /\ lost' = lost \cup Met(w)
      BY <2>2 DEF LeaveDetailsOut, WalkIsCut, DeadlockVictim, Forgets, Met
    <3> QED BY <3>1, <1>7 DEF OwedInv, OwedShape
  <2> QED BY <2>1, <2>2
<1>9. OwedShape'
  BY <1>1, <1>8 DEF OwedInv, OwedShape
<1>10. OwedIsKnown'
  <2> SUFFICES ASSUME NEW l \in owes
               PROVE  /\ lot'[l] # Absent
                      /\ AnnoOf[l] \in details' \/ l \in lost' \/ \E v \in Walkers : l \in Met(v)'
    BY <1>1 DEF OwedIsKnown, Met
  <2>1. \A v \in Walkers \ {w} : Met(v)' = Met(v)
    BY <1>4 DEF Met
  <2> QED BY <2>1, <1>1, <1>8 DEF OwedInv, OwedIsKnown
<1> QED BY <1>6, <1>9, <1>10 DEF OwedInv

(* Details, expiry and reconciliation.                                     *)
LEMMA OwedElsewhere ==
  ASSUME LotsInv, OwedInv,
         \/ \E l \in LotIds : PortalMoves(l)
         \/ \E a \in LotAnnos : SaveDetails(a) \/ DetailsAreLost(a)
         \/ \E S \in SUBSET LotAnnos : Reconcile(S)
         \/ \E over \in SUBSET LotIds : ExpireLots(over)
         \/ UNCHANGED lotsVars
  PROVE  OwedInv'
<1>1. UNCHANGED <<walk, stagedLots>>
  BY DEF PortalMoves, SaveDetails, DetailsAreLost, Reconcile, ExpireLots, lotsVars
<1>2. FlushedIsMet'
  BY <1>1 DEF OwedInv, FlushedIsMet, Met
<1>3. OwedShape /\ OwedIsKnown
  BY DEF OwedInv
<1>4. CASE (\E l \in LotIds : PortalMoves(l)) \/ UNCHANGED lotsVars
  <2>1. UNCHANGED <<lot, anno, details, owes, lost>>
    BY <1>4 DEF PortalMoves, store, aux, lotsVars
  <2> QED BY <1>1, <1>2, <1>3, <2>1 DEF OwedInv, OwedShape, OwedIsKnown, Met
<1>5. ASSUME NEW a \in LotAnnos, SaveDetails(a) PROVE OwedInv'
  <2>1. /\ lot' = lot /\ details' = details \ {a} /\ anno' = [anno EXCEPT ![a] = "full"]
        /\ owes' = {l \in owes : AnnoOf[l] # a} /\ lost' = {l \in lost : AnnoOf[l] # a}
    BY <1>5 DEF SaveDetails
  <2>2. OwedShape'
    BY <1>3, <2>1, LotsAssumption DEF OwedShape
  <2>3. OwedIsKnown'
    BY <1>1, <1>3, <2>1 DEF OwedIsKnown, Met
  <2> QED BY <1>2, <2>2, <2>3 DEF OwedInv
<1>6. ASSUME NEW a \in LotAnnos, DetailsAreLost(a) PROVE OwedInv'
  <2>1. /\ lot' = lot /\ anno' = anno /\ owes' = owes /\ details' = details \ {a}
        /\ lost' = lost \cup {l \in owes : AnnoOf[l] = a}
    BY <1>6 DEF DetailsAreLost, store
  <2>2. OwedShape'
    BY <1>3, <2>1 DEF OwedShape
  <2>3. OwedIsKnown'
    BY <1>1, <1>3, <2>1 DEF OwedIsKnown, Met
  <2> QED BY <1>2, <2>2, <2>3 DEF OwedInv
<1>7. ASSUME NEW S \in SUBSET LotAnnos, Reconcile(S) PROVE OwedInv'
  <2>1. /\ lot' = lot /\ anno' = anno /\ owes' = owes /\ lost' = lost
        /\ details' = details \cup S
    BY <1>7 DEF Reconcile, store, aux
  <2>3. OwedShape'
    BY <1>3, <2>1 DEF OwedShape
  <2>4. OwedIsKnown'
    BY <1>1, <1>3, <2>1 DEF OwedIsKnown, Met
  <2> QED BY <1>2, <2>3, <2>4 DEF OwedInv
<1>8. ASSUME NEW over \in SUBSET LotIds, ExpireLots(over) PROVE OwedInv'
  <2>1. /\ UNCHANGED <<anno, details, owes, lost>>
        /\ lot' = [l \in LotIds |-> IF l \in over THEN [lot[l] EXCEPT !.actual = FALSE] ELSE lot[l]]
        /\ \A l \in over : lot[l] # Absent
    BY <1>8 DEF ExpireLots
  <2>2. \A r \in LotRow : [r EXCEPT !.actual = FALSE] \in LotRow
    BY DEF LotRow
  <2>3. \A l \in over : lot'[l] # Absent
    <3> TAKE l \in over
    <3>1. lot[l] \in LotRow
      BY <2>1 DEF LotsInv, LotsShape
    <3>2. lot'[l] = [lot[l] EXCEPT !.actual = FALSE]
      BY <2>1
    <3> QED BY <3>1, <3>2, <2>2, AbsentIsNoRow
  <2>4. \A l \in LotIds \ over : lot'[l] = lot[l]
    BY <2>1
  <2>5. \A l \in LotIds : lot'[l] # Absent <=> lot[l] # Absent
    BY <2>1, <2>3, <2>4
  <2>6. OwedShape'
    BY <1>3, <2>1, <2>5 DEF OwedShape
  <2>7. OwedIsKnown'
    BY <1>1, <1>3, <2>1, <2>5 DEF OwedShape, OwedIsKnown, Met
  <2> QED BY <1>2, <2>6, <2>7 DEF OwedInv
<1> QED BY <1>4, <1>5, <1>6, <1>7, <1>8

LEMMA OwedStep == LotsInv /\ OwedInv /\ [LotsNext]_lotsVars => OwedInv'
<1> SUFFICES ASSUME LotsInv, OwedInv, [LotsNext]_lotsVars PROVE OwedInv'
  OBVIOUS
<1>1. ASSUME NEW w \in Walkers,
             \/ \E deep \in BOOLEAN : WalkStarts(w, deep)
             \/ UpsertLot(w) \/ WalkEnding(w) \/ WalkIsCut(w)
      PROVE  OwedInv'
  BY <1>1, OwedWhileWalking, OwedWhenFlushed, OwedWhenCommitted, OwedWhenForgotten
     DEF UpsertLot, WalkEnding
<1> QED BY <1>1, OwedElsewhere DEF LotsNext

(* A new lot or a changed status has its details fetched again              *)
(* (run_preset.py:499-502), or a walk or message that knew of it was lost;  *)
(* then the stub of an actual lot is one the reconciliation looks for       *)
(* (jobs/reconcile.py:3-10), for any number of lots, announcements and      *)
(* walks.                                                                   *)
THEOREM ChangesReachDetails == LotsSpec => []ChangeReachesDetails
<1>1. LotsInv /\ OwedInv /\ [LotsNext]_lotsVars => (LotsInv /\ OwedInv)'
  BY LotsStep, OwedStep
<1>2. LotsInit => LotsInv /\ OwedInv
  BY LotsInvInit, OwedInvInit
<1> QED BY <1>1, <1>2, OwedIsFound, PTL DEF LotsSpec

-----------------------------------------------------------------------------
(* The documents of an announcement.                                        *)

DocumentRow == [kept : BOOLEAN, path : BOOLEAN, sha : Urls \cup {"torn", "none"}, old : BOOLEAN]
Body == [url : Urls, sha : Urls \cup {"torn"}]
FetchRecord == [stage : {"idle", "saving", "streaming"}, todo : SUBSET Urls,
                url : Urls \cup {"none"}, inserted : SUBSET Urls, got : SUBSET Body]
PassRecord == [on : BOOLEAN, todo : SUBSET Urls, removed : SUBSET Urls]

DocumentsShape ==
  /\ docRow \in [Urls -> DocumentRow]
  /\ file \in [FileNames -> Urls \cup {"absent", "torn"}]
  /\ part \in [FileNames -> BOOLEAN]
  /\ fetch \in [Fetchers -> FetchRecord]
  /\ \A w \in Fetchers : fetch[w].stage = "streaming" => fetch[w].url \in Urls
  /\ pass \in PassRecord

(* A document that has its file name for itself. *)
OwnName(u) == \A v \in Urls \ {u} : NameOf[v] # NameOf[u]

(* Its file, what the sessions have got of it and its row are of one body. *)
OneBody(u) ==
  /\ file[NameOf[u]] \in {"absent", u}
  /\ \A w \in Fetchers : \A g \in fetch[w].got : g.url = u => g.sha = u
  /\ docRow[u].path => docRow[u].sha = u

BodiesAreWhole == \A u \in Urls : OwnName(u) /\ NameOf[u] \notin mixed => OneBody(u)

DocumentsInv == DocumentsShape /\ BodiesAreWhole

LEMMA NamesOfUrls == \A u \in Urls : NameOf[u] \in FileNames
  BY DEF FileNames

LEMMA DocumentsInvInit == DocumentsInit => DocumentsInv
  BY DocumentsAssumption, NamesOfUrls
     DEF DocumentsInit, DocumentsInv, DocumentsShape, BodiesAreWhole, OneBody, NoRow, NotFetching,
         NoPass, PassRecord, DocumentRow, FetchRecord, Body

(* A session that has dealt with u: what it has got of it is the file.     *)
LEMMA TakenKeeps ==
  ASSUME DocumentsShape, NEW w \in Fetchers, NEW u \in Urls, NEW result \in SUBSET Body
  PROVE  /\ Taken(w, u, result) \in FetchRecord
         /\ Taken(w, u, result).got = fetch[w].got \cup result
         /\ Taken(w, u, result).stage = "saving"
<1> DEFINE f == fetch[w]
<1>1. f \in FetchRecord
  BY DEF DocumentsShape
<1>2. /\ f.got \in SUBSET Body /\ f.todo \in SUBSET Urls /\ f.inserted \in SUBSET Urls
  BY <1>1 DEF FetchRecord
<1> DEFINE ins == IF docRow[u].kept THEN f.inserted ELSE f.inserted \cup {u}
           rest == f.todo \ {u}
           all == f.got \cup result
<1>3. Taken(w, u, result) = [f EXCEPT !.stage = "saving", !.url = "none", !.todo = rest,
                                      !.got = all, !.inserted = ins]
  BY DEF Taken
<1>4. ins \in SUBSET Urls /\ rest \in SUBSET Urls /\ all \in SUBSET Body
  BY <1>2
<1>5. all = fetch[w].got \cup result
  OBVIOUS
<1> HIDE DEF ins, rest, all, f
<1>6. Taken(w, u, result) \in FetchRecord
  BY <1>1, <1>3, <1>4 DEF FetchRecord
<1>7. Taken(w, u, result).got = all /\ Taken(w, u, result).stage = "saving"
  BY <1>1, <1>3 DEF FetchRecord
<1> QED BY <1>5, <1>6, <1>7

(* One session goes on, and adds to what it has got only bodies of their   *)
(* documents.                                                              *)
LEMMA SessionKeeps ==
  ASSUME DocumentsInv, NEW w \in Fetchers, NEW f \in FetchRecord,
         f.stage = "streaming" => f.url \in Urls,
         fetch' = [fetch EXCEPT ![w] = f],
         \A g \in f.got : \/ g \in fetch[w].got
                          \/ OwnName(g.url) /\ NameOf[g.url] \notin mixed' => g.sha = g.url,
         mixed \subseteq mixed', UNCHANGED <<docRow, pass>>,
         file' \in [FileNames -> Urls \cup {"absent", "torn"}],
         part' \in [FileNames -> BOOLEAN],
         \A u \in Urls : OwnName(u) /\ NameOf[u] \notin mixed'
                            => file'[NameOf[u]] \in {file[NameOf[u]], u}
  PROVE  DocumentsInv'
<1>1. DocumentsShape'
  BY DEF DocumentsInv, DocumentsShape
<1>2. ASSUME NEW u \in Urls, OwnName(u), NameOf[u] \notin mixed' PROVE OneBody(u)'
  <2>1. OneBody(u)
    BY <1>2 DEF DocumentsInv, BodiesAreWhole
  <2>2. file'[NameOf[u]] \in {"absent", u}
    BY <1>2, <2>1 DEF OneBody
  <2>3. ASSUME NEW v \in Fetchers, NEW g \in fetch'[v].got, g.url = u PROVE g.sha = u
    <3>1. CASE v = w
      BY <1>2, <2>1, <2>3, <3>1 DEF OneBody, DocumentsInv, DocumentsShape
    <3>2. CASE v # w
      BY <2>1, <2>3, <3>2 DEF OneBody, DocumentsInv, DocumentsShape
    <3> QED BY <3>1, <3>2
  <2> QED BY <2>1, <2>2, <2>3 DEF OneBody
<1> QED BY <1>1, <1>2 DEF DocumentsInv, BodiesAreWhole, OwnName

LEMMA IdleRecord == NotFetching \in FetchRecord /\ NotFetching.got = {} /\ NotFetching.stage = "idle"
  BY DEF NotFetching, FetchRecord

LEMMA FetchSteps ==
  ASSUME DocumentsInv, NEW w \in Fetchers,
         \/ FetchStarts(w) \/ StreamEnds(w) \/ StreamBreaks(w) \/ FetchFails(w)
         \/ \E u \in Urls : \/ SkipsDocument(w, u) \/ TakesFile(w, u)
                            \/ RequestFails(w, u) \/ StreamBegins(w, u)
  PROVE  DocumentsInv'
<1>1. fetch[w] \in FetchRecord /\ DocumentsShape
  BY DEF DocumentsInv, DocumentsShape
<1>2. CASE FetchStarts(w)
  <2> DEFINE f == [NotFetching EXCEPT !.stage = "saving", !.todo = Urls]
  <2>1. f \in FetchRecord /\ f.got = {} /\ f.stage = "saving"
    BY DEF NotFetching, FetchRecord
  <2>2. fetch' = [fetch EXCEPT ![w] = f]
    BY <1>2 DEF FetchStarts
  <2> HIDE DEF f
  <2> QED BY <1>1, <1>2, <2>1, <2>2, SessionKeeps DEF FetchStarts, DocumentsShape
<1>3. CASE StreamEnds(w)
  <2> DEFINE u == fetch[w].url  n == NameOf[u]
             result == IF part[n] THEN Got(u, u) ELSE {}
             f == Taken(w, u, result)
  <2>1. u \in Urls /\ n \in FileNames
    BY <1>1, <1>3, NamesOfUrls DEF StreamEnds, DocumentsShape
  <2>2. result \in SUBSET Body /\ \A g \in result : g.url = u /\ g.sha = u
    BY <2>1 DEF Got, Body
  <2>3. f \in FetchRecord /\ f.got = fetch[w].got \cup result /\ f.stage = "saving"
    BY <1>1, <2>1, <2>2, TakenKeeps
  <2>4. /\ fetch' = [fetch EXCEPT ![w] = f]
        /\ file' = IF part[n] THEN [file EXCEPT ![n] = IF n \in mixed THEN "torn" ELSE u] ELSE file
        /\ part' = [part EXCEPT ![n] = FALSE]
        /\ UNCHANGED <<docRow, mixed, pass>>
    BY <1>3 DEF StreamEnds
  <2>5. /\ file' \in [FileNames -> Urls \cup {"absent", "torn"}]
        /\ part' \in [FileNames -> BOOLEAN]
    BY <1>1, <2>1, <2>4 DEF DocumentsShape
  <2>6. ASSUME NEW v \in Urls, OwnName(v), NameOf[v] \notin mixed
        PROVE  file'[NameOf[v]] \in {file[NameOf[v]], v}
    <3>1. NameOf[v] = n => v = u
      BY <2>1, <2>6 DEF OwnName
    <3> QED BY <1>1, <2>1, <2>4, <2>6, <3>1, NamesOfUrls DEF DocumentsShape
  <2>7. \A g \in f.got : \/ g \in fetch[w].got
                         \/ OwnName(g.url) /\ NameOf[g.url] \notin mixed' => g.sha = g.url
    BY <2>2, <2>3
  <2>8. mixed' = mixed /\ UNCHANGED <<docRow, pass>> /\ fetch' = [fetch EXCEPT ![w] = f]
    BY <2>4
  <2> HIDE DEF f, result, n, u
  <2> QED BY <2>3, <2>5, <2>6, <2>7, <2>8, SessionKeeps
<1>4. CASE StreamBreaks(w)
  <2> DEFINE u == fetch[w].url
             f == Taken(w, u, {})
  <2>1. u \in Urls
    BY <1>1, <1>4 DEF StreamBreaks, DocumentsShape
  <2>2. f \in FetchRecord /\ f.got = fetch[w].got /\ f.stage = "saving"
    <3>1. {} \in SUBSET Body
      OBVIOUS
    <3>2. f \in FetchRecord /\ f.got = fetch[w].got \cup {} /\ f.stage = "saving"
      BY <1>1, <2>1, <3>1, TakenKeeps, ZenonT(40)
    <3> QED BY <3>2
  <2>3. fetch' = [fetch EXCEPT ![w] = f] /\ UNCHANGED <<docRow, file, mixed, pass>>
        /\ part' \in [FileNames -> BOOLEAN]
    BY <1>1, <1>4 DEF StreamBreaks, DocumentsShape
  <2> HIDE DEF f
  <2> QED BY <1>1, <2>2, <2>3, SessionKeeps DEF DocumentsShape
<1>5. CASE FetchFails(w)
  BY <1>1, <1>5, IdleRecord, SessionKeeps DEF FetchFails, DocumentsShape
<1>6. ASSUME NEW u \in Urls, SkipsDocument(w, u) PROVE DocumentsInv'
  <2> DEFINE f == [fetch[w] EXCEPT !.todo = fetch[w].todo \ {u}]
  <2>1. f \in FetchRecord /\ f.got = fetch[w].got /\ f.stage = fetch[w].stage
    BY <1>1 DEF FetchRecord
  <2>2. fetch' = [fetch EXCEPT ![w] = f] /\ f.stage # "streaming"
    BY <1>1, <1>6, <2>1 DEF SkipsDocument, DocumentsShape
  <2> HIDE DEF f
  <2> QED BY <1>1, <1>6, <2>1, <2>2, SessionKeeps DEF SkipsDocument, DocumentsShape
<1>7. ASSUME NEW u \in Urls, TakesFile(w, u) PROVE DocumentsInv'
  <2> DEFINE sha == file[NameOf[u]]
             f == Taken(w, u, Got(u, sha))
  <2>1. sha \in Urls \cup {"torn"}
    BY <1>1, <1>7, NamesOfUrls DEF TakesFile, DocumentsShape
  <2>2. Got(u, sha) \in SUBSET Body /\ \A g \in Got(u, sha) : g.url = u /\ g.sha = sha
    BY <2>1 DEF Got, Body
  <2>3. f \in FetchRecord /\ f.got = fetch[w].got \cup Got(u, sha) /\ f.stage = "saving"
    BY <1>1, <2>2, TakenKeeps
  <2>4. fetch' = [fetch EXCEPT ![w] = f] /\ UNCHANGED <<docRow, file, part, mixed, pass>>
    BY <1>7 DEF TakesFile
  <2>5. OwnName(u) /\ NameOf[u] \notin mixed => sha = u
    BY <2>1, <1>7 DEF TakesFile, DocumentsInv, BodiesAreWhole, OneBody
  <2> HIDE DEF f, sha
  <2> QED BY <1>1, <2>2, <2>3, <2>4, <2>5, SessionKeeps, ZenonT(40) DEF DocumentsShape
<1>8. ASSUME NEW u \in Urls, RequestFails(w, u) PROVE DocumentsInv'
  <2> DEFINE f == Taken(w, u, {})
  <2>1. f \in FetchRecord /\ f.got = fetch[w].got /\ f.stage = "saving"
    <3>1. {} \in SUBSET Body
      OBVIOUS
    <3>2. f \in FetchRecord /\ f.got = fetch[w].got \cup {} /\ f.stage = "saving"
      BY <1>1, <3>1, TakenKeeps, ZenonT(40)
    <3> QED BY <3>2
  <2>2. fetch' = [fetch EXCEPT ![w] = f] /\ UNCHANGED <<docRow, file, part, mixed, pass>>
    BY <1>8 DEF RequestFails
  <2> HIDE DEF f
  <2> QED BY <1>1, <2>1, <2>2, SessionKeeps DEF DocumentsShape
<1>9. ASSUME NEW u \in Urls, StreamBegins(w, u) PROVE DocumentsInv'
  <2> DEFINE f == [fetch[w] EXCEPT !.stage = "streaming", !.url = u]
  <2>1. f \in FetchRecord /\ f.got = fetch[w].got /\ f.url = u
    BY <1>1 DEF FetchRecord
  <2>2. fetch' = [fetch EXCEPT ![w] = f] /\ UNCHANGED <<docRow, file, pass>>
        /\ mixed \subseteq mixed' /\ part' \in [FileNames -> BOOLEAN]
    BY <1>1, <1>9 DEF StreamBegins, DocumentsShape
  <2> HIDE DEF f
  <2> QED BY <1>1, <2>1, <2>2, SessionKeeps DEF DocumentsShape
<1> QED BY <1>2, <1>3, <1>4, <1>5, <1>6, <1>7, <1>8, <1>9

(* The commit writes the hashes of the bodies the session has got.         *)
LEMMA FetchCommitsKeeps ==
  ASSUME DocumentsInv, NEW w \in Fetchers, FetchCommits(w) PROVE DocumentsInv'
<1> DEFINE Mine(u) == CHOOSE g \in fetch[w].got : g.url = u
           Has(u) == \E g \in fetch[w].got : g.url = u
           New(u) == IF Has(u)
                     THEN [kept |-> TRUE, path |-> TRUE, old |-> FALSE, sha |-> Mine(u).sha]
                     ELSE [docRow[u] EXCEPT !.kept = docRow[u].kept \/ u \in fetch[w].inserted]
<1>1. /\ docRow' = [u \in Urls |-> New(u)] /\ fetch' = [fetch EXCEPT ![w] = NotFetching]
      /\ UNCHANGED <<file, part, mixed, pass>>
  BY DEF FetchCommits
<1>2. fetch[w].got \subseteq Body
  BY DEF DocumentsInv, DocumentsShape, FetchRecord
<1>3. ASSUME NEW u \in Urls
      PROVE  /\ New(u) \in DocumentRow
             /\ OwnName(u) /\ NameOf[u] \notin mixed /\ New(u).path => New(u).sha = u
  <2>1. CASE Has(u)
    <3>1. Mine(u) \in fetch[w].got /\ Mine(u).url = u
      BY <2>1
    <3>2. Mine(u).sha \in Urls \cup {"torn"}
      BY <1>2, <3>1 DEF Body
    <3>3. OwnName(u) /\ NameOf[u] \notin mixed => Mine(u).sha = u
      BY <3>1 DEF DocumentsInv, BodiesAreWhole, OneBody
    <3> QED BY <2>1, <3>2, <3>3 DEF DocumentRow
  <2>2. CASE ~Has(u)
    <3> DEFINE k == docRow[u].kept \/ u \in fetch[w].inserted
    <3>1. New(u) = [docRow[u] EXCEPT !.kept = k] /\ k \in BOOLEAN
      BY <2>2
    <3>2. docRow[u] \in DocumentRow
      BY DEF DocumentsInv, DocumentsShape
    <3> HIDE DEF k, New
    <3>3. New(u) \in DocumentRow /\ New(u).path = docRow[u].path /\ New(u).sha = docRow[u].sha
      BY <3>1, <3>2 DEF DocumentRow
    <3> QED BY <3>3 DEF DocumentsInv, BodiesAreWhole, OneBody
  <2> QED BY <2>1, <2>2
<1>4. docRow' \in [Urls -> DocumentRow] /\ \A u \in Urls : docRow'[u] = New(u)
  BY <1>1, <1>3
<1> HIDE DEF New
<1>5. DocumentsShape'
  BY <1>1, <1>4, IdleRecord DEF DocumentsInv, DocumentsShape
<1>6. ASSUME NEW u \in Urls, OwnName(u), NameOf[u] \notin mixed PROVE OneBody(u)'
  <2>1. OneBody(u)
    BY <1>6 DEF DocumentsInv, BodiesAreWhole
  <2>2. docRow'[u].path => docRow'[u].sha = u
    BY <1>3, <1>4, <1>6
  <2>3. \A v \in Fetchers : fetch'[v].got \subseteq fetch[v].got
    BY <1>1, IdleRecord DEF DocumentsInv, DocumentsShape
  <2> QED BY <1>1, <2>1, <2>2, <2>3 DEF OneBody
<1> QED BY <1>1, <1>5, <1>6 DEF DocumentsInv, BodiesAreWhole, OwnName

LEMMA PassGoesOn ==
  \A x \in PassRecord, todo, removed \in SUBSET Urls :
    /\ [x EXCEPT !.todo = todo, !.removed = removed] \in PassRecord
    /\ [x EXCEPT !.todo = todo] \in PassRecord
  BY DEF PassRecord

LEMMA DocumentsInvStep == DocumentsInv /\ [DocumentsNext]_documentsVars => DocumentsInv'
<1> SUFFICES ASSUME DocumentsInv, [DocumentsNext]_documentsVars PROVE DocumentsInv'
  OBVIOUS
<1> USE DEF DocumentsInv, DocumentsShape, BodiesAreWhole, OneBody, OwnName
<1>1. CASE LotsChange \/ RetentionDies \/ UNCHANGED documentsVars
  <2>1. UNCHANGED <<docRow, file, part, fetch, mixed>>
    BY <1>1 DEF LotsChange, RetentionDies, documentsVars
  <2>2. pass' \in PassRecord
    <3>1. NoPass \in PassRecord
      BY DEF NoPass, PassRecord
    <3>2. pass' = pass \/ pass' = NoPass
      BY <1>1 DEF LotsChange, RetentionDies, documentsVars
    <3> QED BY <3>1, <3>2
  <2> QED BY <2>1, <2>2
<1>2. ASSUME NEW u \in Urls, Ages(u) PROVE DocumentsInv'
  <2> DEFINE r == [docRow[u] EXCEPT !.old = TRUE]
  <2>1. r \in DocumentRow /\ r.path = docRow[u].path /\ r.sha = docRow[u].sha
    <3> DEFINE d == docRow[u]
    <3>1. d \in DocumentRow /\ r = [d EXCEPT !.old = TRUE]
      OBVIOUS
    <3>2. \A e \in DocumentRow : LET x == [e EXCEPT !.old = TRUE]
                                IN  x \in DocumentRow /\ x.path = e.path /\ x.sha = e.sha
      BY DEF DocumentRow
    <3> QED BY <3>1, <3>2
  <2>2. docRow' = [docRow EXCEPT ![u] = r] /\ UNCHANGED <<file, part, fetch, mixed, pass>>
    BY <1>2 DEF Ages
  <2> HIDE DEF r
  <2> QED BY <2>1, <2>2
<1>3. ASSUME NEW u \in Urls, RetentionRemoves(u) PROVE DocumentsInv'
  <2>1. /\ file' \in [FileNames -> Urls \cup {"absent", "torn"}]
        /\ \A v \in Urls : file'[NameOf[v]] \in {file[NameOf[v]], "absent"}
        /\ UNCHANGED <<docRow, part, fetch, mixed>>
    BY <1>3, NamesOfUrls DEF RetentionRemoves
  <2>2. pass' \in PassRecord
    <3> DEFINE todo == pass.todo \ {u}
               removed == pass.removed \cup {u}
    <3>1. pass \in PassRecord /\ todo \in SUBSET Urls /\ removed \in SUBSET Urls
      BY DEF PassRecord
    <3>2. pass' \in {[pass EXCEPT !.todo = todo, !.removed = removed], [pass EXCEPT !.todo = todo]}
      BY <1>3 DEF RetentionRemoves
    <3> HIDE DEF todo, removed
    <3>3. /\ [pass EXCEPT !.todo = todo, !.removed = removed] \in PassRecord
          /\ [pass EXCEPT !.todo = todo] \in PassRecord
      BY <3>1, PassGoesOn, ZenonT(40)
    <3> QED BY <3>2, <3>3
  <2> QED BY <2>1, <2>2
<1>4. ASSUME NEW selected \in SUBSET Urls, RetentionReads(selected) PROVE DocumentsInv'
  BY <1>4 DEF RetentionReads, PassRecord
<1>5. CASE RetentionCommits
  <2> DEFINE New(u) == IF u \in pass.removed THEN [docRow[u] EXCEPT !.path = FALSE] ELSE docRow[u]
  <2>1. /\ docRow' = [u \in Urls |-> New(u)] /\ pass' = NoPass
        /\ UNCHANGED <<file, part, fetch, mixed>>
    BY <1>5 DEF RetentionCommits
  <2>2. ASSUME NEW u \in Urls
        PROVE  /\ New(u) \in DocumentRow /\ New(u).sha = docRow[u].sha
               /\ New(u).path => docRow[u].path
    <3>1. docRow[u] \in DocumentRow
      OBVIOUS
    <3>2. \A e \in DocumentRow : LET x == [e EXCEPT !.path = FALSE]
                                IN  x \in DocumentRow /\ ~x.path /\ x.sha = e.sha
      BY DEF DocumentRow
    <3> QED BY <3>1, <3>2
  <2> HIDE DEF New
  <2> QED BY <2>1, <2>2 DEF NoPass, PassRecord
<1> QED BY <1>1, <1>2, <1>3, <1>4, <1>5, FetchSteps, FetchCommitsKeeps DEF DocumentsNext

(* A row points to the whole body of its document as long as no other       *)
(* document shares its file name, whatever downloads, retries, deaths and   *)
(* retention passes do in between (scraper/documents.py), for any number of *)
(* documents and sessions.                                                  *)
THEOREM FilesStayWhole == DocumentsSpec => []WholeFiles
  <1>1. DocumentsInv => WholeFiles
    BY DEF DocumentsInv, BodiesAreWhole, OwnName, OneBody, WholeFiles
  <1> QED BY <1>1, DocumentsInvInit, DocumentsInvStep, PTL DEF DocumentsSpec

-----------------------------------------------------------------------------
(* The bids of an announcement.                                             *)

PollRecord == [at : {"idle", "next", "answered", "matched"}, left : Seq(BidAnnos),
               apps : [BidLots -> [Suppliers -> {"none", "applied", "won"}]],
               mine : SUBSET BidLots, open : SUBSET BidLots]

(* The transaction under way is about an announcement that takes no more   *)
(* applications, and so are the ones to come.                              *)
PollIsLate ==
  /\ \A i \in 1 .. Len(poll.left) : Deadline[poll.left[i]] < day
  /\ poll.at \in {"answered", "matched"} => poll.left # <<>>

(* What was asked of the portal is all there will ever be.                 *)
AnswerIsFinal ==
  poll.at \in {"answered", "matched"} =>
    \A l \in BidLots, s \in Suppliers :
      poll.apps[l][s] # "none" <=> AnnoOfLot[l] = Head(poll.left) /\ s \in portalBids[l]

(* No lot was passed over but those that came after the selection.         *)
OursAreMine ==
  poll.at = "matched" =>
    \A l \in BidLots \ raced :
      Present(l) /\ (\E s \in Suppliers : poll.apps[l][s] # "none") => l \in poll.mine

RowsAreBids == \A l \in BidLots, s \in Suppliers : bidRow[l][s] # "none" => s \in portalBids[l]

CountsAreFinal ==
  \A l \in BidLots : bidsCount[l] # -1 =>
    /\ Deadline[AnnoOfLot[l]] < day
    /\ l \notin raced => bidsCount[l] = Cardinality(portalBids[l])

BidsShape ==
  /\ day \in Nat /\ ours \in [BidLots -> Int]
  /\ portalBids \in [BidLots -> SUBSET Suppliers]
  /\ poll \in PollRecord

BidsInv == BidsShape /\ PollIsLate /\ AnswerIsFinal /\ OursAreMine /\ RowsAreBids /\ CountsAreFinal

LEMMA RestingFits ==
  /\ Resting \in PollRecord /\ Resting.at = "idle" /\ Resting.left = <<>>
  /\ \A x \in Seq(BidAnnos) : LET r == [Resting EXCEPT !.at = "next", !.left = x] IN
       r \in PollRecord /\ r.at = "next" /\ r.left = x
<1>1. NoRows \in [BidLots -> [Suppliers -> {"none", "applied", "won"}]]
  BY DEF NoRows
<1>2. Resting = [at |-> "idle", left |-> <<>>, apps |-> NoRows, mine |-> {}, open |-> {}]
  BY DEF Resting
<1>3. <<>> \in Seq(BidAnnos)
  OBVIOUS
<1>4. Resting \in PollRecord /\ Resting.at = "idle" /\ Resting.left = <<>>
  BY <1>1, <1>2, <1>3 DEF PollRecord
<1> QED BY <1>4 DEF PollRecord

LEMMA BidsInvInit == BidsInit => BidsInv
<1> SUFFICES ASSUME BidsInit PROVE BidsInv
  OBVIOUS
<1>1. BidsShape
  <2>1. ours \in [BidLots -> Int]
    BY DEF BidsInit
  <2> QED BY <2>1, RestingFits DEF BidsInit, BidsShape
<1>2. PollIsLate /\ AnswerIsFinal /\ OursAreMine
  <2>1. poll.at = "idle" /\ poll.left = <<>>
    BY RestingFits DEF BidsInit
  <2>2. Len(poll.left) = 0
    BY <2>1
  <2> QED BY <2>1, <2>2 DEF PollIsLate, AnswerIsFinal, OursAreMine
<1>3. RowsAreBids /\ CountsAreFinal
  BY DEF BidsInit, RowsAreBids, CountsAreFinal, NoRows
<1> QED BY <1>1, <1>2, <1>3 DEF BidsInv

(* The announcements of a queue are due.                                   *)
LEMMA QueueIsDue ==
  ASSUME NEW q \in Queues PROVE q \in Seq(BidAnnos) /\ \A i \in 1 .. Len(q) : Due(q[i])
<1> DEFINE S == {a \in BidAnnos : Due(a)}
<1>1. IsFiniteSet(S)
  BY BidsAssumption, FS_Subset
<1>2. Cardinality(S) \in Nat
  BY <1>1, FS_CardinalityType
<1>3. q \in [1 .. Cardinality(S) -> S]
  BY DEF Queues, SetToSeqs
<1> DEFINE n == Cardinality(S)
<1>4. n \in Nat /\ q \in [1 .. n -> BidAnnos] /\ \A i \in 1 .. n : Due(q[i])
  BY <1>2, <1>3
<1> HIDE DEF n
<1>5. q \in Seq(BidAnnos)
  BY <1>4, SeqDef
<1>6. Len(q) = n
  BY <1>4, <1>5
<1> QED BY <1>4, <1>5, <1>6

LEMMA StartPollKeeps == ASSUME BidsInv, StartPoll PROVE BidsInv'
<1>1. PICK q \in Queues :
        poll' = [Resting EXCEPT !.at = "next",
                    !.left = SubSeq(q, 1, IF Len(q) < PollLimit THEN Len(q) ELSE PollLimit)]
  BY DEF StartPoll
<1> DEFINE n == IF Len(q) < PollLimit THEN Len(q) ELSE PollLimit
           x == SubSeq(q, 1, n)
<1>2. q \in Seq(BidAnnos) /\ \A i \in 1 .. Len(q) : Due(q[i])
  BY QueueIsDue
<1>3. n \in 0 .. Len(q)
  BY <1>2, BidsAssumption
<1>4. x \in Seq(BidAnnos) /\ \A i \in 1 .. Len(x) : x[i] = q[i] /\ i \in 1 .. Len(q)
  BY <1>2, <1>3
<1>5. day \in Nat /\ UNCHANGED <<day, portalBids, ours, bidRow, bidsCount, raced>>
  BY DEF StartPoll, BidsInv, BidsShape
<1>6. \A i \in 1 .. Len(x) : Deadline[x[i]] < day
  <2> TAKE i \in 1 .. Len(x)
  <2>1. x[i] \in BidAnnos /\ Deadline[x[i]] < day - Grace
    <3>1. x[i] \in BidAnnos /\ Due(x[i])
      BY <1>2, <1>4
    <3> QED BY <3>1 DEF Due
  <2>2. Deadline[x[i]] \in Nat /\ Grace \in Nat
    BY <2>1, BidsAssumption
  <2>3. \A d, g, k \in Nat : d < k - g => d < k
    OBVIOUS
  <2> HIDE DEF x
  <2> QED BY <1>5, <2>1, <2>2, <2>3
<1> HIDE DEF n, x
<1>7. poll' \in PollRecord /\ poll'.at = "next" /\ poll'.left = x
  BY <1>1, <1>4, RestingFits DEF n, x
<1>8. BidsShape'
  BY <1>5, <1>7 DEF BidsInv, BidsShape
<1>9. PollIsLate' /\ AnswerIsFinal' /\ OursAreMine'
  BY <1>5, <1>6, <1>7 DEF PollIsLate, AnswerIsFinal, OursAreMine
<1> QED BY <1>5, <1>8, <1>9 DEF BidsInv, RowsAreBids, CountsAreFinal

(* A poll that leaves its announcement, or ends.                           *)
LEMMA PollLeaves ==
  ASSUME BidsInv, PollFails \/ PollBroken \/ EndPoll PROVE BidsInv'
<1>1. UNCHANGED <<day, portalBids, ours, bidRow, bidsCount, raced>>
  BY DEF PollFails, PollBroken, EndPoll
<1>2. poll \in PollRecord /\ poll.left \in Seq(BidAnnos)
  BY DEF BidsInv, BidsShape, PollRecord
<1> DEFINE x == Tail(poll.left)
<1>3. poll' = Resting \/ (poll' = [Resting EXCEPT !.at = "next", !.left = x] /\ poll.left # <<>>)
  BY DEF PollFails, PollBroken, EndPoll
<1>4. poll.left # <<>> => x \in Seq(BidAnnos) /\ \A i \in 1 .. Len(x) : Deadline[x[i]] < day
  <2> SUFFICES ASSUME poll.left # <<>> PROVE x \in Seq(BidAnnos) /\ \A i \in 1 .. Len(x) : Deadline[x[i]] < day
    OBVIOUS
  <2>1. x \in Seq(BidAnnos) /\ \A i \in 1 .. Len(x) : x[i] = poll.left[i + 1] /\ i + 1 \in 1 .. Len(poll.left)
    BY <1>2
  <2> QED BY <2>1 DEF BidsInv, PollIsLate
<1> HIDE DEF x
<1>5. /\ poll' \in PollRecord /\ poll'.at \in {"idle", "next"}
      /\ poll'.left = <<>> \/ (poll'.left = x /\ poll.left # <<>>)
  BY <1>3, <1>4, RestingFits, ZenonT(40)
<1>6. PollIsLate'
  <2>1. CASE poll'.left = <<>>
    BY <1>5, <2>1 DEF PollIsLate
  <2>2. CASE poll'.left = x /\ poll.left # <<>>
    BY <1>1, <1>4, <1>5, <2>2 DEF PollIsLate
  <2> QED BY <1>5, <2>1, <2>2
<1>7. AnswerIsFinal' /\ OursAreMine'
  BY <1>5 DEF AnswerIsFinal, OursAreMine
<1> QED BY <1>1, <1>5, <1>6, <1>7 DEF BidsInv, BidsShape, RowsAreBids, CountsAreFinal

LEMMA AnswerKeeps == ASSUME BidsInv, Answer PROVE BidsInv'
<1>1. UNCHANGED <<day, portalBids, ours, bidRow, bidsCount, raced>>
  BY DEF Answer
<1> DEFINE fresh == [l \in BidLots |-> [s \in Suppliers |->
                       IF AnnoOfLot[l] # Head(poll.left) \/ s \notin portalBids[l]
                       THEN "none" ELSE IF award[l].who = s THEN "won" ELSE "applied"]]
<1>2. poll \in PollRecord /\ poll.left # <<>> /\ poll' = [poll EXCEPT !.at = "answered", !.apps = fresh]
  BY DEF Answer, BidsInv, BidsShape
<1>3. fresh \in [BidLots -> [Suppliers -> {"none", "applied", "won"}]]
  OBVIOUS
<1>4. \A l \in BidLots, s \in Suppliers :
        fresh[l][s] # "none" <=> AnnoOfLot[l] = Head(poll.left) /\ s \in portalBids[l]
  OBVIOUS
<1> HIDE DEF fresh
<1>5. poll' \in PollRecord /\ poll'.at = "answered" /\ poll'.left = poll.left /\ poll'.apps = fresh
  BY <1>2, <1>3 DEF PollRecord
<1>6. BidsShape'
  BY <1>1, <1>5 DEF BidsInv, BidsShape
<1>7. PollIsLate' /\ OursAreMine'
  BY <1>1, <1>2, <1>5 DEF BidsInv, PollIsLate, OursAreMine
<1>8. AnswerIsFinal'
  BY <1>1, <1>4, <1>5 DEF AnswerIsFinal
<1> QED BY <1>1, <1>6, <1>7, <1>8 DEF BidsInv, RowsAreBids, CountsAreFinal

LEMMA SelectOursKeeps == ASSUME BidsInv, SelectOurs PROVE BidsInv'
<1>1. UNCHANGED <<day, portalBids, ours, bidRow, bidsCount, raced>>
  BY DEF SelectOurs
<1> DEFINE mine == {l \in BidLots : Present(l) /\ poll.apps[l] # NoRows[l]}
           opened == {l \in mine : winner[l] = NoOne}
<1>2. /\ poll \in PollRecord /\ poll.at = "answered"
      /\ poll' = [poll EXCEPT !.at = "matched", !.mine = mine, !.open = opened]
  BY DEF SelectOurs, BidsInv, BidsShape
<1>3. mine \in SUBSET BidLots /\ opened \in SUBSET BidLots
  OBVIOUS
<1>4. \A l \in BidLots : Present(l) /\ (\E s \in Suppliers : poll.apps[l][s] # "none") => l \in mine
  BY DEF NoRows
<1> HIDE DEF mine, opened
<1>5. /\ poll' \in PollRecord /\ poll'.at = "matched" /\ poll'.left = poll.left
      /\ poll'.apps = poll.apps /\ poll'.mine = mine
  BY <1>2, <1>3 DEF PollRecord
<1>6. BidsShape'
  BY <1>1, <1>5 DEF BidsInv, BidsShape
<1>7. PollIsLate' /\ AnswerIsFinal'
  BY <1>1, <1>2, <1>5 DEF BidsInv, PollIsLate, AnswerIsFinal
<1>8. OursAreMine'
  BY <1>1, <1>4, <1>5 DEF OursAreMine, Present
<1> QED BY <1>1, <1>6, <1>7, <1>8 DEF BidsInv, RowsAreBids, CountsAreFinal

(* The commit: rows and counts agree with the answer, which is final.      *)
LEMMA CommitPollKeeps == ASSUME BidsInv, CommitPoll PROVE BidsInv'
<1> DEFINE a == Head(poll.left)
           x == Tail(poll.left)
<1>1. UNCHANGED <<day, portalBids, ours, raced>> /\ poll.at = "matched"
      /\ bidRow' = Rows /\ bidsCount' = Counts(a)
      /\ poll' = [Resting EXCEPT !.at = "next", !.left = x]
  BY DEF CommitPoll
<1>2. poll \in PollRecord /\ poll.left \in Seq(BidAnnos) /\ poll.left # <<>>
  BY <1>1 DEF BidsInv, BidsShape, PollRecord, PollIsLate
<1>3. a \in BidAnnos /\ Deadline[a] < day
  <2>1. a = poll.left[1] /\ 1 \in 1 .. Len(poll.left)
    BY <1>2
  <2> QED BY <2>1, <1>2 DEF BidsInv, PollIsLate
<1>4. x \in Seq(BidAnnos) /\ \A i \in 1 .. Len(x) : Deadline[x[i]] < day
  <2>1. x \in Seq(BidAnnos) /\ \A i \in 1 .. Len(x) : x[i] = poll.left[i + 1] /\ i + 1 \in 1 .. Len(poll.left)
    BY <1>2
  <2> QED BY <2>1 DEF BidsInv, PollIsLate
<1>5. \A l \in BidLots, s \in Suppliers :
        poll.apps[l][s] # "none" <=> AnnoOfLot[l] = a /\ s \in portalBids[l]
  BY <1>1 DEF BidsInv, AnswerIsFinal
<1> HIDE DEF a, x
<1>6. poll' \in PollRecord /\ poll'.at = "next" /\ poll'.left = x
  BY <1>1, <1>4, RestingFits
<1>7. BidsShape'
  BY <1>1, <1>6 DEF BidsInv, BidsShape
<1>8. PollIsLate' /\ AnswerIsFinal' /\ OursAreMine'
  BY <1>1, <1>4, <1>6 DEF PollIsLate, AnswerIsFinal, OursAreMine
<1>9. \A l \in BidLots, s \in Suppliers :
        Rows[l][s] = IF l \in poll.mine /\ poll.apps[l][s] # "none" THEN poll.apps[l][s]
                     ELSE bidRow[l][s]
  BY DEF Rows
<1>10. \A l \in BidLots, s \in Suppliers : Rows[l][s] # "none" => s \in portalBids[l]
  BY <1>5, <1>9 DEF BidsInv, RowsAreBids
<1>11. RowsAreBids'
  BY <1>1, <1>10 DEF RowsAreBids
<1>12. ASSUME NEW l \in BidLots, AnnoOfLot[l] = a, Present(l), l \notin raced
       PROVE  {s \in Suppliers : Rows[l][s] # "none"} = portalBids[l]
  <2>1. portalBids[l] \subseteq Suppliers
    BY DEF BidsInv, BidsShape
  <2>2. \A s \in portalBids[l] : l \in poll.mine
    BY <1>1, <1>5, <1>12, <2>1 DEF BidsInv, OursAreMine
  <2>3. \A s \in portalBids[l] : Rows[l][s] # "none"
    BY <1>5, <1>9, <1>12, <2>1, <2>2
  <2> QED BY <1>10, <2>1, <2>3
<1>13. CountsAreFinal'
  <2> SUFFICES ASSUME NEW l \in BidLots, bidsCount'[l] # -1
               PROVE  /\ Deadline[AnnoOfLot[l]] < day
                      /\ l \notin raced => bidsCount'[l] = Cardinality(portalBids[l])
    BY <1>1 DEF CountsAreFinal
  <2>1. bidsCount'[l] = IF l \in LotsOfAnno(a) /\ Present(l)
                        THEN Cardinality({s \in Suppliers : Rows[l][s] # "none"})
                        ELSE bidsCount[l]
    BY <1>1 DEF Counts
  <2>2. CASE l \in LotsOfAnno(a) /\ Present(l)
    <3>1. AnnoOfLot[l] = a
      BY <2>2 DEF LotsOfAnno
    <3>2. Deadline[AnnoOfLot[l]] < day
      BY <1>3, <3>1
    <3>3. ASSUME l \notin raced PROVE bidsCount'[l] = Cardinality(portalBids[l])
      <4>1. {s \in Suppliers : Rows[l][s] # "none"} = portalBids[l]
        BY <1>12, <2>2, <3>1, <3>3
      <4> QED BY <2>1, <2>2, <4>1
    <3> QED BY <3>2, <3>3
  <2>3. CASE ~(l \in LotsOfAnno(a) /\ Present(l))
    BY <2>1, <2>3 DEF BidsInv, CountsAreFinal
  <2> QED BY <2>2, <2>3
<1> QED BY <1>7, <1>8, <1>11, <1>13 DEF BidsInv

(* The portal, the other writers and the days.                             *)
LEMMA OthersKeep ==
  ASSUME BidsInv,
         \/ NextDay
         \/ \E l \in BidLots : ListLot(l) \/ FillWinner(l)
         \/ \E l \in BidLots, s \in Suppliers : Apply(l, s) \/ Award(l, s)
         \/ UNCHANGED bidsVars
  PROVE  BidsInv'
<1>1. CASE UNCHANGED bidsVars \/ (\E l \in BidLots : FillWinner(l))
           \/ (\E l \in BidLots, s \in Suppliers : Award(l, s))
  <2>1. UNCHANGED <<day, portalBids, ours, bidRow, bidsCount, poll, raced>>
    BY <1>1 DEF bidsVars, FillWinner, Award
  <2>2. BidsShape' /\ PollIsLate' /\ AnswerIsFinal' /\ RowsAreBids' /\ CountsAreFinal'
    BY <2>1 DEF BidsInv, BidsShape, PollIsLate, AnswerIsFinal, RowsAreBids, CountsAreFinal
  <2>3. OursAreMine'
    BY <2>1 DEF BidsInv, OursAreMine, Present
  <2> QED BY <2>2, <2>3 DEF BidsInv
<1>2. CASE NextDay
  <2>1. day \in Nat /\ day' = day + 1 /\ UNCHANGED <<portalBids, ours, bidRow, bidsCount, poll, raced>>
    BY <1>2 DEF NextDay, BidsInv, BidsShape
  <2>2. \A a \in BidAnnos : Deadline[a] \in Nat
    BY BidsAssumption
  <2>3. \A a \in BidAnnos : Deadline[a] < day => Deadline[a] < day'
    BY <2>1, <2>2
  <2>4. BidsShape' /\ AnswerIsFinal' /\ RowsAreBids'
    BY <2>1 DEF BidsInv, BidsShape, AnswerIsFinal, RowsAreBids
  <2>5. OursAreMine'
    BY <2>1 DEF BidsInv, OursAreMine, Present
  <2>6. poll.left \in Seq(BidAnnos)
    BY DEF BidsInv, BidsShape, PollRecord
  <2>7. PollIsLate'
    BY <2>1, <2>3, <2>6 DEF BidsInv, PollIsLate
  <2>8. CountsAreFinal'
    BY <2>1, <2>3, BidsAssumption DEF BidsInv, CountsAreFinal
  <2> QED BY <2>4, <2>5, <2>7, <2>8 DEF BidsInv
<1>3. ASSUME NEW l \in BidLots, ListLot(l) PROVE BidsInv'
  <2>1. /\ UNCHANGED <<day, portalBids, bidRow, bidsCount, poll>>
        /\ ours' = [ours EXCEPT ![l] = day]
        /\ raced' = IF poll.at = "matched" THEN raced \cup {l} ELSE raced
    BY <1>3 DEF ListLot
  <2>2. BidsShape'
    BY <2>1 DEF BidsInv, BidsShape
  <2>3. PollIsLate' /\ AnswerIsFinal' /\ RowsAreBids'
    BY <2>1 DEF BidsInv, PollIsLate, AnswerIsFinal, RowsAreBids
  <2>4. raced \subseteq raced'
    BY <2>1
  <2>5. CountsAreFinal'
    BY <2>1, <2>4 DEF BidsInv, CountsAreFinal
  <2>6. \A m \in BidLots : m # l => ours'[m] = ours[m]
    BY <2>1 DEF BidsInv, BidsShape
  <2>7. OursAreMine'
    BY <2>1, <2>6 DEF BidsInv, OursAreMine, Present
  <2> QED BY <2>2, <2>3, <2>5, <2>7 DEF BidsInv
<1>4. ASSUME NEW l \in BidLots, NEW s \in Suppliers, Apply(l, s) PROVE BidsInv'
  <2>1. /\ UNCHANGED <<day, ours, bidRow, bidsCount, poll, raced>>
        /\ portalBids' = [portalBids EXCEPT ![l] = @ \cup {s}]
        /\ day < Deadline[AnnoOfLot[l]]
    BY <1>4 DEF Apply
  <2>2. BidsShape'
    BY <2>1 DEF BidsInv, BidsShape
  <2>3. PollIsLate'
    BY <2>1 DEF BidsInv, PollIsLate
  <2>4. OursAreMine'
    BY <2>1 DEF BidsInv, OursAreMine, Present
  <2>5. /\ \A m \in BidLots : m # l => portalBids'[m] = portalBids[m]
        /\ \A m \in BidLots : portalBids[m] \subseteq portalBids'[m]
    BY <2>1 DEF BidsInv, BidsShape
  <2>6. RowsAreBids'
    BY <2>1, <2>5 DEF BidsInv, RowsAreBids
  <2>7. day \in Nat /\ AnnoOfLot[l] \in BidAnnos /\ Deadline[AnnoOfLot[l]] \in Nat
    BY BidsAssumption DEF BidsInv, BidsShape
  <2>8. ~(Deadline[AnnoOfLot[l]] < day)
    BY <2>1, <2>7
  <2>9. CountsAreFinal'
    BY <2>1, <2>5, <2>8 DEF BidsInv, CountsAreFinal
  <2>10. poll.at \in {"answered", "matched"} => AnnoOfLot[l] # Head(poll.left)
    <3> SUFFICES ASSUME poll.at \in {"answered", "matched"} PROVE AnnoOfLot[l] # Head(poll.left)
      OBVIOUS
    <3>1. poll.left \in Seq(BidAnnos) /\ poll.left # <<>>
      BY DEF BidsInv, BidsShape, PollRecord, PollIsLate
    <3>2. Head(poll.left) = poll.left[1] /\ 1 \in 1 .. Len(poll.left)
      BY <3>1
    <3> QED BY <3>2, <2>8 DEF BidsInv, PollIsLate
  <2>11. AnswerIsFinal'
    BY <2>1, <2>5, <2>10 DEF BidsInv, AnswerIsFinal
  <2> QED BY <2>2, <2>3, <2>4, <2>6, <2>9, <2>11 DEF BidsInv
<1> QED BY <1>1, <1>2, <1>3, <1>4

(* The count of a polled lot is the number of its bids, zero included       *)
(* (jobs/bids.py), unless the lot came into the table between the selection *)
(* of our lots and the recount; for any number of lots, suppliers, polls    *)
(* and faults.                                                              *)
THEOREM CountsStayTrue == BidsSpec => []CountIsTrue
<1>1. BidsInv /\ [BidsNext]_bidsVars => BidsInv'
  BY StartPollKeeps, AnswerKeeps, SelectOursKeeps, CommitPollKeeps, PollLeaves, OthersKeep
     DEF BidsNext
<1>2. BidsInv => CountIsTrue
  <2>1. ~(-1 >= 0)
    OBVIOUS
  <2> QED BY <2>1 DEF BidsInv, CountsAreFinal, CountIsTrue
<1> QED BY <1>1, <1>2, BidsInvInit, PTL DEF BidsSpec

(* How long an award waits in the queue.                                   *)

(* When the award of a lot was there to be seen, and the lot to be told.   *)
AwardKnown(l) == IF ours[l] > award[l].since THEN ours[l] ELSE award[l].since
AwardStart(l) ==
  LET a == AnnoOfLot[l] IN
  IF AwardKnown(l) > Deadline[a] + Grace THEN AwardKnown(l) ELSE Deadline[a] + Grace

Awarded(l) == Present(l) /\ award[l].who # NoOne

(* Its announcement is due every day.                                      *)
Waits(l) ==
  /\ Awarded(l) /\ ~Won(l)
  /\ day > AwardStart(l) + Recheck /\ day < Deadline[AnnoOfLot[l]] + BidHorizon
DaysWaited(l) == day - (AwardStart(l) + Recheck + 1)

InLine == {poll.left[i] : i \in 1 .. Len(poll.left)}
Passed(l) == {x \in BidAnnos : syncedAt[x] > AwardStart(l)}
Turns(d) == PollLimit * d

AwardShape ==
  /\ pollErrors \in Nat /\ polledToday \in BOOLEAN /\ (polledToday => poll.at = "idle")
  /\ syncedAt \in [BidAnnos -> Int] /\ \A a \in BidAnnos : syncedAt[a] <= day
  /\ award \in [BidLots -> [who : Suppliers \cup {NoOne}, since : Nat]]
  /\ \A l \in BidLots : award[l].who # NoOne => award[l].who \in portalBids[l]

(* An answer tells the awards made before its day, and those already told. *)
AnswerKnows ==
  poll.at \in {"answered", "matched"} =>
    \A l \in BidLots, s \in Suppliers :
      /\ poll.apps[l][s] = "won" => award[l].who = s
      /\ (/\ AnnoOfLot[l] = Head(poll.left) /\ award[l].who = s
          /\ award[l].since < day \/ bidRow[l][s] = "won") => poll.apps[l][s] = "won"

OursWereSeen ==
  poll.at = "matched" =>
    \A l \in BidLots :
      (/\ Present(l) /\ ours[l] < day
       /\ \E s \in Suppliers : poll.apps[l][s] # "none") => l \in poll.mine

WonIsAwarded ==
  \A l \in BidLots, s \in Suppliers : bidRow[l][s] = "won" => award[l].who = s

SeenBefore ==
  \A l \in BidLots : Awarded(l) /\ ~Won(l) => syncedAt[AnnoOfLot[l]] <= AwardStart(l)

(* Whoever is polled while a lot waits goes behind it: each day another    *)
(* PollLimit announcements have passed, or the lot's own is in line.       *)
QueueMoves(l) ==
  /\ poll.at = "idle" /\ ~polledToday => Cardinality(Passed(l)) >= Turns(DaysWaited(l))
  /\ polledToday => Cardinality(Passed(l)) >= Turns(DaysWaited(l) + 1)
  /\ poll.at # "idle" =>
       \/ AnnoOfLot[l] \in InLine /\ Cardinality(Passed(l)) >= Turns(DaysWaited(l))
       \/ /\ AnnoOfLot[l] \notin InLine
          /\ Cardinality(Passed(l) \cup InLine) >= Turns(DaysWaited(l) + 1)

QueuesMove == pollErrors = 0 => \A l \in BidLots : Waits(l) => QueueMoves(l)

AwardInv ==
  AwardShape /\ AnswerKnows /\ OursWereSeen /\ WonIsAwarded /\ SeenBefore /\ QueuesMove

LEMMA TurnsAdd ==
  ASSUME NEW d \in Nat
  PROVE  Turns(d) \in Nat /\ Turns(d + 1) = Turns(d) + PollLimit /\ Turns(0) = 0
<1>1. PollLimit \in Nat  BY BidsAssumption
<1>2. \A n, k \in Nat : n * k \in Nat /\ n * (k + 1) = n * k + n /\ n * 0 = 0
  OBVIOUS
<1> QED BY <1>1, <1>2 DEF Turns

(* In QueueDays days everybody has had a turn.                             *)
LEMMA TurnsForAll ==
  ASSUME PollLimit # 0, NEW d \in Nat, d >= QueueDays
  PROVE  Turns(d) >= Cardinality(BidAnnos)
<1> DEFINE n == Cardinality(BidAnnos)
           q == (n + PollLimit - 1) \div PollLimit
<1>1. n \in Nat /\ PollLimit \in Nat /\ PollLimit > 0
  <2>1. n \in Nat  BY BidsAssumption, FS_CardinalityType
  <2>2. PollLimit \in Nat  BY BidsAssumption
  <2> QED BY <2>1, <2>2
<1>2. \A x, y \in Nat : y > 0 => x \div y \in Nat /\ y * (x \div y) + y > x
  OBVIOUS
<1>3. n + PollLimit - 1 \in Nat
  BY <1>1
<1>4. q \in Nat /\ PollLimit * q + PollLimit > n + PollLimit - 1
  <2> HIDE DEF n
  <2> QED BY <1>1, <1>2, <1>3
<1>5. d >= q
  BY DEF QueueDays
<1> HIDE DEF n, q
<1>6. PollLimit * q \in Nat /\ PollLimit * d \in Nat /\ PollLimit * q <= PollLimit * d
  <2>1. \A k, x, y \in Nat : x <= y => k * x \in Nat /\ k * y \in Nat /\ k * x <= k * y
    OBVIOUS
  <2> QED BY <1>1, <1>4, <1>5, <2>1
<1>7. PollLimit * d >= n
  BY <1>1, <1>4, <1>6
<1> QED BY <1>7 DEF Turns, n

LEMMA StartTypes ==
  ASSUME BidsShape, AwardShape, NEW l \in BidLots
  PROVE  /\ AwardStart(l) \in Int /\ ours[l] \in Int /\ award[l].since \in Nat
         /\ AwardStart(l) >= ours[l] /\ AwardStart(l) >= award[l].since
         /\ AnnoOfLot[l] \in BidAnnos /\ Deadline[AnnoOfLot[l]] \in Nat
         /\ AwardStart(l) >= Deadline[AnnoOfLot[l]] + Grace
         /\ {Grace, Recheck, BidHorizon, PollLimit} \subseteq Nat /\ day \in Nat
<1>1. /\ ours[l] \in Int /\ award[l].since \in Nat /\ day \in Nat
      /\ AnnoOfLot[l] \in BidAnnos /\ Deadline[AnnoOfLot[l]] \in Nat
      /\ Grace \in Nat /\ Recheck \in Nat /\ BidHorizon \in Nat /\ PollLimit \in Nat
  BY BidsAssumption DEF BidsShape, AwardShape
<1>2. AwardKnown(l) \in Int /\ AwardKnown(l) >= ours[l] /\ AwardKnown(l) >= award[l].since
  BY <1>1 DEF AwardKnown
<1> QED BY <1>1, <1>2 DEF AwardStart

StartsAreDays ==
  \A m \in BidLots : /\ AwardStart(m) \in Int /\ AwardStart(m) >= ours[m]
                     /\ AwardStart(m) >= award[m].since
                     /\ ours[m] \in Int /\ award[m].since \in Nat

LEMMA StartTypesAll == BidsShape /\ AwardShape => StartsAreDays
BY StartTypes DEF StartsAreDays

LEMMA WaitingTypes ==
  ASSUME BidsShape, AwardShape, SeenBefore, NEW l \in BidLots, Waits(l)
  PROVE  /\ DaysWaited(l) \in Nat /\ AwardStart(l) < day
         /\ syncedAt[AnnoOfLot[l]] <= AwardStart(l) /\ AnnoOfLot[l] \notin Passed(l)
         /\ award[l].since < day /\ ours[l] < day
<1>1. syncedAt[AnnoOfLot[l]] <= AwardStart(l) /\ syncedAt[AnnoOfLot[l]] \in Int
  BY StartTypes DEF Waits, SeenBefore, AwardShape
<1>2. DaysWaited(l) \in Nat /\ AwardStart(l) < day
  BY StartTypes DEF Waits, DaysWaited
<1>3. AnnoOfLot[l] \notin Passed(l)
  BY <1>1, StartTypes DEF Passed
<1>4. award[l].since < day /\ ours[l] < day
  BY <1>2, StartTypes
<1> QED BY <1>1, <1>2, <1>3, <1>4

LEMMA AnnosCounted ==
  ASSUME NEW S \in SUBSET BidAnnos
  PROVE  IsFiniteSet(S) /\ Cardinality(S) \in Nat /\ Cardinality(S) <= Cardinality(BidAnnos)
BY BidsAssumption, FS_Subset, FS_CardinalityType

LEMMA AwardInvInit == BidsInit => AwardInv
<1> SUFFICES ASSUME BidsInit PROVE AwardInv
  OBVIOUS
<1>1. poll.at = "idle"
  BY RestingFits DEF BidsInit
<1>2. AwardShape
  <2>1. award \in [BidLots -> [who : Suppliers \cup {NoOne}, since : Nat]]
        /\ \A l \in BidLots : award[l].who = NoOne
    BY DEF BidsInit
  <2>2. syncedAt \in [BidAnnos -> Int] /\ \A a \in BidAnnos : syncedAt[a] <= day
    BY DEF BidsInit
  <2>3. pollErrors \in Nat /\ polledToday = FALSE
    BY DEF BidsInit
  <2> QED BY <1>1, <2>1, <2>2, <2>3 DEF AwardShape
<1>3. \A l \in BidLots : ~Awarded(l)
  BY DEF BidsInit, Awarded
<1>4. WonIsAwarded
  BY DEF BidsInit, WonIsAwarded, NoRows
<1> QED
  BY <1>1, <1>2, <1>3, <1>4 DEF AwardInv, AnswerKnows, OursWereSeen, SeenBefore, QueuesMove, Waits

(* A waiting lot's announcement is due, so that it is in the line or       *)
(* behind PollLimit others that have not passed it.                        *)
LEMMA WaitingIsDue ==
  ASSUME BidsShape, AwardShape, SeenBefore, NEW l \in BidLots, Waits(l)
  PROVE  Due(AnnoOfLot[l])
<1> DEFINE a == AnnoOfLot[l]
<1>1. l \in LotsOfAnno(a) /\ Present(l) /\ ~Won(l)
  BY DEF LotsOfAnno, Waits, Awarded
<1>2. Deadline[a] < day - Grace /\ Deadline[a] > day - BidHorizon
  BY StartTypes DEF Waits
<1>3. syncedAt[a] < day - Recheck
  <2>1. syncedAt[a] \in Int /\ syncedAt[a] <= AwardStart(l)
    BY WaitingTypes, StartTypes DEF AwardShape
  <2> QED BY <2>1, StartTypes DEF Waits
<1> QED BY <1>1, <1>2, <1>3 DEF Due

LEMMA QueueIsWhole ==
  ASSUME NEW q \in Queues
  PROVE  /\ \A x \in BidAnnos : Due(x) => \E i \in 1 .. Len(q) : q[i] = x
         /\ \A i, j \in 1 .. Len(q) : i # j => q[i] # q[j]
         /\ \A i, j \in 1 .. Len(q) : i < j => Before(q[i], q[j])
<1> DEFINE S == {a \in BidAnnos : Due(a)}
           n == Cardinality(S)
<1>1. IsFiniteSet(S) /\ n \in Nat
  BY AnnosCounted
<1>2. q \in [1 .. n -> S] /\ \A i, j \in 1 .. n : i # j => q[i] # q[j]
  BY DEF Queues, SetToSeqs
<1>3. \A i, j \in DOMAIN q : i < j => Before(q[i], q[j])
  BY DEF Queues
<1>4. S \subseteq BidAnnos /\ \A x \in BidAnnos : Due(x) => x \in S
  OBVIOUS
<1> HIDE DEF S
<1>5. IsFiniteSet(1 .. n) /\ Cardinality(1 .. n) = n
  BY <1>1, FS_Interval
<1>6. \A x \in S : \E i \in 1 .. n : q[i] = x
  <2>1. q \in Injection(1 .. n, S)
    BY <1>2 DEF Injection, IsInjective
  <2>2. q \in Surjection(1 .. n, S)
    BY <1>1, <1>5, <2>1, FS_Injection
  <2> QED BY <2>2 DEF Surjection
<1> DEFINE m == n
<1>7. m \in Nat /\ q \in [1 .. m -> BidAnnos]
  BY <1>1, <1>2, <1>4
<1>8. q \in Seq(BidAnnos) /\ Len(q) = n
  <2> HIDE DEF m
  <2>1. q \in Seq(BidAnnos)  BY <1>7, SeqDef
  <2>2. Len(q) = m  BY <1>7, <2>1
  <2> QED BY <2>1, <2>2 DEF m
<1>9. DOMAIN q = 1 .. n
  BY <1>2
<1> HIDE DEF n, m
<1> QED BY <1>2, <1>3, <1>4, <1>6, <1>8, <1>9

(* What stays when the award, our table and its lots stay.                 *)
LEMMA StartStays ==
  ASSUME NEW l \in BidLots, award'[l] = award[l], ours'[l] = ours[l]
  PROVE  AwardStart(l)' = AwardStart(l) /\ (Awarded(l)' <=> Awarded(l))
BY DEF AwardStart, AwardKnown, Awarded, Present

LEMMA WaitsStay ==
  ASSUME NEW l \in BidLots, award'[l] = award[l], ours'[l] = ours[l], day' = day,
         Won(l) => Won(l)'
  PROVE  (Waits(l)' => Waits(l)) /\ DaysWaited(l)' = DaysWaited(l)
BY StartStays DEF Waits, DaysWaited

(* Steps that poll nobody and tell nothing.                                *)
LEMMA QuietAwards ==
  ASSUME BidsInv, AwardInv,
         UNCHANGED <<day, polledToday, award, ours, bidRow, syncedAt, pollErrors>>,
         poll'.left = poll.left, poll.at = "idle" <=> poll'.at = "idle",
         \A l \in BidLots : portalBids[l] \subseteq portalBids'[l]
  PROVE  AwardShape' /\ WonIsAwarded' /\ SeenBefore' /\ QueuesMove'
<1>1. AwardShape' /\ WonIsAwarded'
  BY DEF AwardInv, AwardShape, WonIsAwarded
<1>2. \A l \in BidLots : (Won(l)' <=> Won(l)) /\ Passed(l)' = Passed(l) /\ InLine' = InLine
  BY StartStays DEF Won, Passed, InLine
<1>3. SeenBefore'
  BY <1>2, StartStays DEF AwardInv, SeenBefore
<1>4. ASSUME pollErrors' = 0, NEW l \in BidLots, Waits(l)' PROVE QueueMoves(l)'
  <2>1. Waits(l) /\ DaysWaited(l)' = DaysWaited(l)
    BY <1>2, <1>4, WaitsStay
  <2>2. QueueMoves(l)
    BY <1>4, <2>1 DEF AwardInv, QueuesMove
  <2> QED BY <1>2, <2>1, <2>2 DEF QueueMoves, Turns
<1> QED BY <1>1, <1>3, <1>4 DEF QueuesMove

LEMMA AnswerAwards == ASSUME BidsInv, AwardInv, Answer PROVE AwardInv'
<1> DEFINE fresh == [l \in BidLots |-> [s \in Suppliers |->
                       IF AnnoOfLot[l] # Head(poll.left) \/ s \notin portalBids[l]
                       THEN "none" ELSE IF award[l].who = s THEN "won" ELSE "applied"]]
<1>1. /\ UNCHANGED <<day, polledToday, portalBids, award, ours, bidRow, syncedAt, pollErrors>>
      /\ poll \in PollRecord /\ poll.at = "next" /\ poll' = [poll EXCEPT !.at = "answered", !.apps = fresh]
  BY DEF Answer, BidsInv, BidsShape
<1>2. \A l \in BidLots, s \in Suppliers :
        /\ fresh[l][s] = "won" => award[l].who = s
        /\ AnnoOfLot[l] = Head(poll.left) /\ s \in portalBids[l] /\ award[l].who = s
             => fresh[l][s] = "won"
  OBVIOUS
<1> HIDE DEF fresh
<1>3. poll'.at = "answered" /\ poll'.left = poll.left /\ poll'.apps = fresh
  BY <1>1 DEF PollRecord
<1>4. AnswerKnows'
  <2>1. NoOne \notin Suppliers  BY BidsAssumption
  <2>2. \A l \in BidLots, s \in Suppliers : award[l].who = s => s \in portalBids[l]
    BY <2>1 DEF AwardInv, AwardShape
  <2> QED BY <1>1, <1>2, <1>3, <2>2 DEF AnswerKnows
<1>5. AwardShape' /\ WonIsAwarded' /\ SeenBefore' /\ QueuesMove'
  BY <1>1, <1>3, QuietAwards
<1>6. OursWereSeen'
  BY <1>3 DEF OursWereSeen
<1> QED BY <1>4, <1>5, <1>6 DEF AwardInv

LEMMA SelectOursAwards == ASSUME BidsInv, AwardInv, SelectOurs PROVE AwardInv'
<1> DEFINE mine == {l \in BidLots : Present(l) /\ poll.apps[l] # NoRows[l]}
           opened == {l \in mine : winner[l] = NoOne}
<1>1. /\ UNCHANGED <<day, polledToday, portalBids, award, ours, bidRow, syncedAt, pollErrors>>
      /\ poll \in PollRecord /\ poll.at = "answered"
      /\ poll' = [poll EXCEPT !.at = "matched", !.mine = mine, !.open = opened]
  BY DEF SelectOurs, BidsInv, BidsShape
<1>2. \A l \in BidLots : Present(l) /\ (\E s \in Suppliers : poll.apps[l][s] # "none") => l \in mine
  BY DEF NoRows
<1> HIDE DEF mine, opened
<1>3. /\ poll'.at = "matched" /\ poll'.left = poll.left /\ poll'.apps = poll.apps
      /\ poll'.mine = mine
  BY <1>1 DEF PollRecord
<1>4. AnswerKnows'
  BY <1>1, <1>3 DEF AwardInv, AnswerKnows
<1>5. OursWereSeen'
  BY <1>1, <1>2, <1>3 DEF OursWereSeen, Present
<1>6. AwardShape' /\ WonIsAwarded' /\ SeenBefore' /\ QueuesMove'
  BY <1>1, <1>3, QuietAwards
<1> QED BY <1>4, <1>5, <1>6 DEF AwardInv

(* The queue of the day: a waiting lot's announcement is taken, or         *)
(* PollLimit others are that have not passed it.                           *)
LEMMA StartPollAwards == ASSUME BidsInv, AwardInv, StartPoll PROVE AwardInv'
<1>1. PICK q \in Queues :
        poll' = [Resting EXCEPT !.at = "next",
                    !.left = SubSeq(q, 1, IF Len(q) < PollLimit THEN Len(q) ELSE PollLimit)]
  BY DEF StartPoll
<1> DEFINE n == IF Len(q) < PollLimit THEN Len(q) ELSE PollLimit
           x == SubSeq(q, 1, n)
<1>2. q \in Seq(BidAnnos) /\ \A i \in 1 .. Len(q) : Due(q[i])
  BY QueueIsDue
<1>3. n \in 0 .. Len(q)
  BY <1>2, BidsAssumption
<1>4. x \in Seq(BidAnnos) /\ Len(x) = n /\ \A i \in 1 .. n : x[i] = q[i] /\ i \in 1 .. Len(q)
  BY <1>2, <1>3
<1>5. /\ UNCHANGED <<day, polledToday, portalBids, award, ours, bidRow, syncedAt, pollErrors>>
      /\ poll.at = "idle" /\ polledToday = FALSE
  BY DEF StartPoll, AwardInv, AwardShape
<1> HIDE DEF x
<1>6. poll'.at = "next" /\ poll'.left = x
  BY <1>1, <1>4, RestingFits DEF x
<1> DEFINE R == {q[i] : i \in 1 .. n}
<1>7. InLine' = R
  BY <1>4, <1>6 DEF InLine
<1>8. AwardShape' /\ WonIsAwarded' /\ AnswerKnows' /\ OursWereSeen'
  BY <1>5, <1>6 DEF AwardInv, AwardShape, WonIsAwarded, AnswerKnows, OursWereSeen
<1>9. \A l \in BidLots : (Won(l)' <=> Won(l)) /\ Passed(l)' = Passed(l)
  BY <1>5, StartStays DEF Won, Passed
<1>10. SeenBefore'
  BY <1>5, <1>9, StartStays DEF AwardInv, SeenBefore
<1>11. n \in Nat /\ R \subseteq BidAnnos /\ IsFiniteSet(R) /\ Cardinality(R) = n
  <2>1. R \subseteq BidAnnos /\ n \in Nat
    BY <1>2, <1>3
  <2>2. IsFiniteSet(R)
    BY <2>1, AnnosCounted
  <2> DEFINE f == [i \in 1 .. n |-> q[i]]
  <2>3. \A i, j \in 1 .. n : i \in 1 .. Len(q) /\ (i # j => q[i] # q[j])
    BY <1>2, <1>3, QueueIsWhole
  <2> HIDE DEF n
  <2>4. f \in Bijection(1 .. n, R)
    BY <2>3 DEF Bijection, Injection, IsInjective, Surjection
  <2>5. IsFiniteSet(1 .. n) /\ Cardinality(1 .. n) = n
    BY <2>1, FS_Interval
  <2> HIDE DEF f, R
  <2>6. Cardinality(R) = Cardinality(1 .. n)
    <3>1. ExistsBijection(1 .. n, R)  BY <2>4 DEF ExistsBijection
    <3> QED BY <2>5, <3>1, FS_Bijection
  <2> QED BY <2>1, <2>2, <2>5, <2>6
<1>12. ASSUME pollErrors' = 0, NEW l \in BidLots, Waits(l)' PROVE QueueMoves(l)'
  <2>1. Waits(l) /\ DaysWaited(l)' = DaysWaited(l)
    BY <1>5, <1>9, <1>12, WaitsStay
  <2>2. Cardinality(Passed(l)) >= Turns(DaysWaited(l))
    BY <1>5, <1>12, <2>1 DEF AwardInv, QueuesMove, QueueMoves
  <2> DEFINE a == AnnoOfLot[l]
  <2>3. PICK k \in 1 .. Len(q) : q[k] = a
    <3>1. a \in BidAnnos /\ Due(a)
      BY <2>1, WaitingIsDue, StartTypes DEF BidsInv, AwardInv
    <3> QED BY <3>1, QueueIsWhole
  <2>4. CASE a \in R
    BY <1>5, <1>6, <1>7, <1>9, <2>1, <2>2, <2>4 DEF QueueMoves, Turns
  <2>5. CASE a \notin R
    <3>1. ~(k \in 1 .. n)
      BY <2>3, <2>5
    <3>2. n = PollLimit /\ k > n /\ k \in Nat
      BY <1>2, <1>3, <2>3, <3>1, BidsAssumption
    <3>3. \A i \in 1 .. n : syncedAt[q[i]] <= AwardStart(l)
      <4> TAKE i \in 1 .. n
      <4>1. i \in 1 .. Len(q) /\ i < k /\ q[i] \in BidAnnos
        BY <1>2, <1>3, <3>2
      <4>2. Before(q[i], a)
        BY <2>3, <4>1, QueueIsWhole
      <4>3. /\ syncedAt[a] \in Int /\ syncedAt[a] <= AwardStart(l) /\ AwardStart(l) \in Int
            /\ syncedAt[q[i]] \in Int
        BY <2>1, <4>1, WaitingTypes, StartTypes DEF BidsInv, AwardInv, AwardShape
      <4> QED BY <4>2, <4>3 DEF Before
    <3>4. R \cap Passed(l) = {}
      <4> SUFFICES ASSUME NEW y \in R, y \in Passed(l) PROVE FALSE
        OBVIOUS
      <4>1. y \in BidAnnos /\ syncedAt[y] > AwardStart(l) /\ syncedAt[y] <= AwardStart(l)
        BY <3>3 DEF Passed
      <4>2. syncedAt[y] \in Int /\ AwardStart(l) \in Int
        BY <4>1, StartTypes DEF BidsInv, AwardInv, AwardShape
      <4> QED BY <4>1, <4>2
    <3>5. Passed(l) \subseteq BidAnnos
      BY DEF Passed
    <3> HIDE DEF R, n
    <3>6. Cardinality(Passed(l) \cup R) = Cardinality(Passed(l)) + n
      <4>1. IsFiniteSet(Passed(l)) /\ Cardinality(Passed(l)) \in Nat
        BY <3>5, AnnosCounted
      <4>2. Passed(l) \cap R = {}  BY <3>4
      <4>3. Cardinality(Passed(l) \cap R) = 0  BY <4>2, FS_EmptySet
      <4>4. Cardinality(Passed(l) \cup R)
              = Cardinality(Passed(l)) + Cardinality(R) - Cardinality(Passed(l) \cap R)
        BY <1>11, <4>1, FS_Union
      <4> QED BY <1>11, <4>1, <4>3, <4>4
    <3>7. Cardinality(Passed(l)) \in Nat /\ DaysWaited(l) \in Nat
      BY <2>1, <3>5, AnnosCounted, WaitingTypes DEF BidsInv, AwardInv
    <3>8. Cardinality(Passed(l) \cup R) >= Turns(DaysWaited(l) + 1)
      <4>1. /\ Turns(DaysWaited(l)) \in Nat
            /\ Turns(DaysWaited(l) + 1) = Turns(DaysWaited(l)) + PollLimit
        BY <3>7, TurnsAdd
      <4>2. \A c, d, g, h \in Nat : c >= d /\ g = c + n /\ h = d + n => g >= h
        BY <1>11
      <4>3. Cardinality(Passed(l) \cup R) \in Nat /\ Turns(DaysWaited(l) + 1) \in Nat
        BY <1>11, <3>2, <3>6, <3>7, <4>1
      <4> QED BY <2>2, <3>2, <3>6, <3>7, <4>1, <4>2, <4>3
    <3> QED BY <1>5, <1>6, <1>7, <1>9, <2>1, <2>5, <3>8 DEF QueueMoves, Turns
  <2> QED BY <2>4, <2>5
<1>13. QueuesMove'
  BY <1>12 DEF QueuesMove
<1> QED BY <1>8, <1>10, <1>13 DEF AwardInv

(* A polled announcement has its awards told, but for those of the day;    *)
(* for everybody else it has passed.                                       *)
LEMMA CommitPollAwards == ASSUME BidsInv, AwardInv, CommitPoll PROVE AwardInv'
<1> DEFINE a == Head(poll.left)
           x == Tail(poll.left)
<1>1. /\ UNCHANGED <<day, polledToday, portalBids, award, ours, pollErrors>> /\ poll.at = "matched"
      /\ bidRow' = Rows /\ syncedAt' = [syncedAt EXCEPT ![a] = day]
      /\ poll' = [Resting EXCEPT !.at = "next", !.left = x]
  BY DEF CommitPoll
<1>2. poll \in PollRecord /\ poll.left \in Seq(BidAnnos) /\ poll.left # <<>>
  BY <1>1 DEF BidsInv, BidsShape, PollRecord, PollIsLate
<1>3. a = poll.left[1] /\ 1 \in 1 .. Len(poll.left) /\ a \in BidAnnos
  BY <1>2
<1>4. /\ x \in Seq(BidAnnos) /\ Len(x) = Len(poll.left) - 1 /\ Len(poll.left) \in Nat
      /\ \A i \in 1 .. Len(x) : x[i] = poll.left[i + 1] /\ i + 1 \in 1 .. Len(poll.left)
  BY <1>2
<1> DEFINE R == {x[i] : i \in 1 .. Len(x)}
<1>5. InLine = R \cup {a}
  <2>1. \A i \in 1 .. Len(poll.left) : i = 1 \/ (i - 1 \in 1 .. Len(x) /\ (i - 1) + 1 = i)
    BY <1>4
  <2>2. \A i \in 1 .. Len(poll.left) : poll.left[i] \in R \cup {a}
    <3> TAKE i \in 1 .. Len(poll.left)
    <3>1. CASE i = 1  BY <1>3, <3>1
    <3>2. CASE i - 1 \in 1 .. Len(x) /\ (i - 1) + 1 = i
      <4>1. x[i - 1] = poll.left[i]  BY <1>4, <3>2
      <4> QED BY <3>2, <4>1
    <3> QED BY <2>1, <3>1, <3>2
  <2>3. \A i \in 1 .. Len(x) : x[i] \in InLine
    BY <1>4 DEF InLine
  <2>4. a \in InLine
    BY <1>3 DEF InLine
  <2> QED BY <2>2, <2>3, <2>4 DEF InLine
<1> HIDE DEF a, x
<1>6. poll'.at = "next" /\ poll'.left = x
  BY <1>1, <1>4, RestingFits
<1>7. InLine' = R
  BY <1>6 DEF InLine
<1>8. AnswerKnows' /\ OursWereSeen'
  BY <1>6 DEF AnswerKnows, OursWereSeen
<1>9. \A b \in BidAnnos : syncedAt'[b] = IF b = a THEN day ELSE syncedAt[b]
  BY <1>1 DEF AwardInv, AwardShape
<1>10. AwardShape'
  <2>1. day \in Nat  BY DEF BidsInv, BidsShape
  <2>2. syncedAt' \in [BidAnnos -> Int] /\ \A b \in BidAnnos : syncedAt'[b] <= day
    <3>1. syncedAt \in [BidAnnos -> Int] /\ \A b \in BidAnnos : syncedAt[b] <= day
      BY DEF AwardInv, AwardShape
    <3>2. \A b \in BidAnnos : syncedAt'[b] <= day
      <4> TAKE b \in BidAnnos
      <4>1. CASE b = a  BY <1>9, <2>1, <4>1
      <4>2. CASE b # a  BY <1>9, <3>1, <4>2
      <4> QED BY <4>1, <4>2
    <3>3. syncedAt' = [b \in BidAnnos |-> IF b = a THEN day ELSE syncedAt[b]]
      <4>1. syncedAt' = [syncedAt EXCEPT ![a] = day]  BY <1>1
      <4> QED BY <3>1, <4>1
    <3>4. day \in Int  BY <2>1
    <3>5. syncedAt' \in [BidAnnos -> Int]
      BY <3>1, <3>3, <3>4
    <3> QED BY <3>2, <3>5
  <2>3. polledToday = FALSE  BY <1>1 DEF AwardInv, AwardShape
  <2> QED BY <1>1, <1>6, <2>2, <2>3 DEF AwardInv, AwardShape
<1>11. \A l \in BidLots, s \in Suppliers :
        Rows[l][s] = IF l \in poll.mine /\ poll.apps[l][s] # "none" THEN poll.apps[l][s]
                     ELSE bidRow[l][s]
  BY DEF Rows
<1>12. WonIsAwarded'
  BY <1>1, <1>11 DEF AwardInv, WonIsAwarded, AnswerKnows
<1>13. \A l \in BidLots, s \in Suppliers : poll.apps[l][s] # "none" => AnnoOfLot[l] = a
  BY <1>1 DEF BidsInv, AnswerIsFinal, a
<1>14. \A l \in BidLots : Won(l) => Won(l)'
  <2> SUFFICES ASSUME NEW l \in BidLots, Won(l) PROVE Won(l)'
    OBVIOUS
  <2>1. PICK s \in Suppliers : bidRow[l][s] = "won"
    BY DEF Won
  <2>2. award[l].who = s
    BY <2>1 DEF AwardInv, WonIsAwarded
  <2>3. poll.apps[l][s] # "none" => poll.apps[l][s] = "won"
    BY <1>1, <1>13, <2>1, <2>2 DEF AwardInv, AnswerKnows, a
  <2>4. Rows[l][s] = "won"
    BY <1>11, <2>1, <2>3
  <2> QED BY <1>1, <2>4 DEF Won
(* What was known before the day is told now.                              *)
<1>15. ASSUME NEW l \in BidLots, Awarded(l), AnnoOfLot[l] = a, award[l].since < day, ours[l] < day
       PROVE  Won(l)'
  <2> DEFINE s == award[l].who
  <2>1. s \in Suppliers
    BY <1>15 DEF AwardInv, AwardShape, Awarded
  <2>2. poll.apps[l][s] = "won"
    BY <1>1, <1>15, <2>1 DEF AwardInv, AnswerKnows, a
  <2>3. l \in poll.mine
    BY <1>1, <1>15, <2>1, <2>2 DEF AwardInv, OursWereSeen, Awarded
  <2>4. Rows[l][s] = "won"
    BY <1>11, <2>1, <2>2, <2>3
  <2> QED BY <1>1, <2>1, <2>4 DEF Won
<1>16. SeenBefore'
  <2> SUFFICES ASSUME NEW l \in BidLots, Awarded(l)', ~Won(l)'
               PROVE  syncedAt'[AnnoOfLot[l]] <= AwardStart(l)'
    BY DEF SeenBefore
  <2>1. Awarded(l) /\ AwardStart(l)' = AwardStart(l) /\ ~Won(l)
    BY <1>1, <1>14, StartStays
  <2>2. CASE AnnoOfLot[l] = a
    <3>1. ~(award[l].since < day /\ ours[l] < day)
      BY <1>15, <2>1, <2>2
    <3>2. day <= AwardStart(l)
      BY <3>1, StartTypes DEF BidsInv, AwardInv
    <3> QED BY <1>3, <1>9, <2>1, <2>2, <3>2
  <2>3. CASE AnnoOfLot[l] # a
    <3>1. AnnoOfLot[l] \in BidAnnos  BY BidsAssumption
    <3> QED BY <1>9, <2>1, <2>3, <3>1 DEF AwardInv, SeenBefore
  <2> QED BY <2>2, <2>3
<1>17. ASSUME pollErrors' = 0, NEW l \in BidLots, Waits(l)' PROVE QueueMoves(l)'
  <2>1. Waits(l) /\ DaysWaited(l)' = DaysWaited(l) /\ AwardStart(l)' = AwardStart(l)
    BY <1>1, <1>14, <1>17, WaitsStay, StartStays
  <2>2. /\ AwardStart(l) < day /\ award[l].since < day /\ ours[l] < day
        /\ AwardStart(l) \in Int /\ day \in Nat
    BY <2>1, WaitingTypes, StartTypes DEF BidsInv, AwardInv
  <2>3. AnnoOfLot[l] # a
    <3>1. ~Won(l)' /\ Awarded(l)
      BY <1>17, <2>1 DEF Waits
    <3> QED BY <1>15, <2>2, <3>1
  <2>4. Passed(l)' = Passed(l) \cup {a}
    BY <1>3, <1>9, <2>1, <2>2 DEF Passed
  <2>5. QueueMoves(l) /\ poll.at # "idle" /\ polledToday = FALSE
    BY <1>1, <1>17, <2>1 DEF AwardInv, QueuesMove, AwardShape
  <2>6. CASE AnnoOfLot[l] \in InLine /\ Cardinality(Passed(l)) >= Turns(DaysWaited(l))
    <3>1. AnnoOfLot[l] \in R
      BY <1>5, <2>3, <2>6
    <3>2. Cardinality(Passed(l) \cup {a}) >= Turns(DaysWaited(l))
      <4>1. Passed(l) \in SUBSET BidAnnos /\ Passed(l) \cup {a} \in SUBSET BidAnnos
        BY <1>3 DEF Passed
      <4>2. Cardinality(Passed(l)) <= Cardinality(Passed(l) \cup {a})
        BY <4>1, AnnosCounted, FS_Subset
      <4>3. Turns(DaysWaited(l)) \in Nat
        BY <2>1, WaitingTypes, TurnsAdd DEF BidsInv, AwardInv
      <4> QED BY <2>6, <4>1, <4>2, <4>3, AnnosCounted
    <3> QED BY <1>1, <1>6, <1>7, <2>1, <2>4, <2>5, <3>1, <3>2 DEF QueueMoves, Turns
  <2>7. CASE /\ AnnoOfLot[l] \notin InLine
             /\ Cardinality(Passed(l) \cup InLine) >= Turns(DaysWaited(l) + 1)
    <3>1. AnnoOfLot[l] \notin R /\ (Passed(l) \cup {a}) \cup R = Passed(l) \cup InLine
      BY <1>5, <2>7
    <3> QED BY <1>1, <1>6, <1>7, <2>1, <2>4, <2>5, <2>7, <3>1 DEF QueueMoves, Turns
  <2> QED BY <2>5, <2>6, <2>7 DEF QueueMoves
<1>18. QueuesMove'
  BY <1>17 DEF QueuesMove
<1> QED BY <1>8, <1>10, <1>12, <1>16, <1>18 DEF AwardInv

(* A poll that leaves its announcement, or ends.                           *)
LEMMA PollLeavesAwards ==
  ASSUME BidsInv, AwardInv, PollFails \/ PollBroken \/ EndPoll PROVE AwardInv'
<1>1. /\ UNCHANGED <<day, portalBids, award, ours, bidRow, syncedAt>>
      /\ \/ poll' = [Resting EXCEPT !.at = "next", !.left = Tail(poll.left)] /\ poll.left # <<>>
            /\ polledToday' = polledToday /\ poll.at = "next" /\ pollErrors' = pollErrors + 1
         \/ poll' = Resting /\ polledToday' = TRUE /\ pollErrors' = pollErrors + 1
         \/ poll' = Resting /\ polledToday' = TRUE /\ pollErrors' = pollErrors
            /\ poll.at = "next" /\ poll.left = <<>>
  BY DEF PollFails, PollBroken, EndPoll
<1>2. poll.left # <<>> => Tail(poll.left) \in Seq(BidAnnos)
  <2>1. poll.left \in Seq(BidAnnos)  BY DEF BidsInv, BidsShape, PollRecord
  <2> QED BY <2>1
<1>3. /\ poll'.at \in {"idle", "next"}
      /\ poll' = Resting => poll'.at = "idle"
  BY <1>1, <1>2, RestingFits, ZenonT(40)
<1>4. AnswerKnows' /\ OursWereSeen'
  BY <1>3 DEF AnswerKnows, OursWereSeen
<1>5. pollErrors \in Nat /\ pollErrors + 1 \in Nat /\ pollErrors + 1 # 0
  BY DEF AwardInv, AwardShape
<1>6. polledToday \in BOOLEAN /\ (polledToday => poll.at = "idle")
  BY DEF AwardInv, AwardShape
<1>7. polledToday' \in BOOLEAN /\ (polledToday' => poll'.at = "idle")
  <2>1. CASE polledToday' = polledToday /\ poll.at = "next"
    <3>1. polledToday = FALSE  BY <1>6, <2>1
    <3> QED BY <2>1, <3>1
  <2>2. CASE poll' = Resting /\ polledToday' = TRUE
    BY <1>3, <2>2
  <2> QED BY <1>1, <2>1, <2>2
<1>8. AwardShape' /\ WonIsAwarded'
  BY <1>1, <1>5, <1>7 DEF AwardInv, AwardShape, WonIsAwarded
<1>9. \A l \in BidLots : (Won(l)' <=> Won(l)) /\ Passed(l)' = Passed(l)
  BY <1>1, StartStays DEF Won, Passed
<1>10. SeenBefore'
  BY <1>1, <1>9, StartStays DEF AwardInv, SeenBefore
<1>11. ASSUME pollErrors' = 0, NEW l \in BidLots, Waits(l)' PROVE QueueMoves(l)'
  <2>1. Waits(l) /\ DaysWaited(l)' = DaysWaited(l)
    BY <1>1, <1>9, <1>11, WaitsStay
  <2>2. /\ poll' = Resting /\ polledToday' = TRUE /\ pollErrors = 0
        /\ poll.at = "next" /\ poll.left = <<>>
    BY <1>1, <1>5, <1>11
  <2>3. InLine = {}
    <3>1. Len(poll.left) = 0  BY <2>2
    <3> QED BY <3>1 DEF InLine
  <2>4. Cardinality(Passed(l) \cup InLine) >= Turns(DaysWaited(l) + 1)
    BY <2>1, <2>2, <2>3 DEF AwardInv, QueuesMove, QueueMoves
  <2>5. Passed(l) \cup InLine = Passed(l)
    BY <2>3
  <2> QED BY <1>3, <1>9, <2>1, <2>2, <2>4, <2>5 DEF QueueMoves, Turns
<1> QED BY <1>4, <1>8, <1>10, <1>11 DEF AwardInv, QueuesMove

LEMMA NextDayAwards == ASSUME BidsInv, AwardInv, NextDay PROVE AwardInv'
<1>1. /\ UNCHANGED <<portalBids, award, ours, bidRow, syncedAt, poll, pollErrors>>
      /\ polledToday = TRUE /\ polledToday' = FALSE /\ day' = day + 1 /\ day \in Nat
  BY DEF NextDay, BidsInv, BidsShape
<1>2. poll.at = "idle"
  BY <1>1 DEF AwardInv, AwardShape
<1>3. AnswerKnows' /\ OursWereSeen' /\ WonIsAwarded'
  BY <1>1, <1>2 DEF AwardInv, AnswerKnows, OursWereSeen, WonIsAwarded
<1>4. AwardShape'
  <2>1. \A a \in BidAnnos : syncedAt[a] <= day + 1
    BY <1>1 DEF AwardInv, AwardShape
  <2> QED BY <1>1, <2>1 DEF AwardInv, AwardShape
<1>5. \A l \in BidLots : (Won(l)' <=> Won(l)) /\ Passed(l)' = Passed(l) /\ AwardStart(l)' = AwardStart(l)
                         /\ (Awarded(l)' <=> Awarded(l))
  BY <1>1, StartStays DEF Won, Passed
<1>6. SeenBefore'
  BY <1>1, <1>5 DEF AwardInv, SeenBefore
<1>7. ASSUME pollErrors' = 0, NEW l \in BidLots, Waits(l)' PROVE QueueMoves(l)'
  <2>1. /\ Awarded(l) /\ ~Won(l)
        /\ day + 1 > AwardStart(l) + Recheck /\ day + 1 < Deadline[AnnoOfLot[l]] + BidHorizon
    BY <1>1, <1>5, <1>7 DEF Waits
  <2>2. DaysWaited(l)' = (day + 1) - (AwardStart(l) + Recheck + 1)
    BY <1>1, <1>5 DEF DaysWaited
  <2>3. AwardStart(l) \in Int /\ Recheck \in Nat /\ Deadline[AnnoOfLot[l]] \in Nat /\ BidHorizon \in Nat
    BY StartTypes DEF BidsInv, AwardInv
  <2>4. Cardinality(Passed(l)) >= Turns(DaysWaited(l)')
    <3>1. CASE day > AwardStart(l) + Recheck
      <4>1. Waits(l) /\ DaysWaited(l)' = DaysWaited(l) + 1
        BY <1>1, <2>1, <2>2, <2>3, <3>1 DEF Waits, DaysWaited
      <4> QED BY <1>1, <1>7, <4>1 DEF AwardInv, QueuesMove, QueueMoves
    <3>2. CASE ~(day > AwardStart(l) + Recheck)
      <4>1. DaysWaited(l)' = 0
        BY <1>1, <2>1, <2>2, <2>3, <3>2
      <4>2. Passed(l) \in SUBSET BidAnnos  BY DEF Passed
      <4> QED BY <4>1, <4>2, AnnosCounted, TurnsAdd
    <3> QED BY <3>1, <3>2
  <2>5. Passed(l)' = Passed(l) /\ poll'.at = "idle" /\ polledToday' = FALSE
    BY <1>1, <1>2, <1>5
  <2> QED BY <2>4, <2>5 DEF QueueMoves, Turns
<1> QED BY <1>3, <1>4, <1>6, <1>7 DEF AwardInv, QueuesMove

(* A lot or an award that comes today starts to wait later.                *)
LEMMA ArrivalsKeep ==
  ASSUME BidsInv, AwardInv, NEW l \in BidLots, ListLot(l) \/ \E s \in Suppliers : Award(l, s)
  PROVE  AwardInv'
<1>1. /\ UNCHANGED <<day, polledToday, portalBids, bidRow, syncedAt, poll, pollErrors>>
      /\ \A m \in BidLots \ {l} : award'[m] = award[m] /\ ours'[m] = ours[m]
      /\ ~Awarded(l) /\ (Awarded(l)' => ours'[l] >= day \/ award'[l].since >= day)
      /\ award' \in [BidLots -> [who : Suppliers \cup {NoOne}, since : Nat]] /\ ours' \in [BidLots -> Int]
      /\ award'[l].who # NoOne => award'[l].who \in portalBids[l]
      /\ award'[l] = award[l] \/ award[l].who = NoOne
      /\ ours'[l] = ours[l] \/ (~Present(l) /\ ours'[l] = day)
      /\ award'[l] = award[l] \/ award'[l].since = day
  <2>1. /\ award \in [BidLots -> [who : Suppliers \cup {NoOne}, since : Nat]]
        /\ ours \in [BidLots -> Int] /\ day \in Nat
        /\ award[l].who # NoOne => award[l].who \in portalBids[l]
    BY DEF BidsInv, BidsShape, AwardInv, AwardShape
  <2>2. CASE ListLot(l)
    BY <2>1, <2>2 DEF ListLot, Awarded, Present
  <2>3. CASE \E s \in Suppliers : Award(l, s)
    <3> PICK s \in Suppliers : Award(l, s)
      BY <2>3
    <3>1. /\ UNCHANGED <<day, polledToday, portalBids, bidRow, syncedAt, poll, pollErrors, ours>>
          /\ s \in portalBids[l] /\ award[l].who = NoOne
          /\ award' = [award EXCEPT ![l] = [who |-> s, since |-> day]]
      BY DEF Award
    <3>2. award'[l].who = s /\ award'[l].since = day
          /\ award' \in [BidLots -> [who : Suppliers \cup {NoOne}, since : Nat]]
          /\ \A m \in BidLots \ {l} : award'[m] = award[m]
      BY <2>1, <3>1
    <3>3. day >= day  BY <2>1
    <3> QED BY <2>1, <3>1, <3>2, <3>3 DEF Awarded
  <2> QED BY <2>2, <2>3
<1>2. AwardShape'
  BY <1>1 DEF AwardInv, AwardShape
<1>3. NoOne \notin Suppliers /\ day \in Nat
  BY BidsAssumption DEF BidsInv, BidsShape
<1>4. \A s \in Suppliers : award[l].who = s => award'[l] = award[l]
  BY <1>1, <1>3
<1>5. WonIsAwarded'
  BY <1>1, <1>4 DEF AwardInv, WonIsAwarded
<1>6. AnswerKnows'
  <2> SUFFICES ASSUME poll.at \in {"answered", "matched"}, NEW m \in BidLots, NEW s \in Suppliers
               PROVE  /\ poll.apps[m][s] = "won" => award'[m].who = s
                      /\ (/\ AnnoOfLot[m] = Head(poll.left) /\ award'[m].who = s
                          /\ award'[m].since < day \/ bidRow[m][s] = "won") => poll.apps[m][s] = "won"
    BY <1>1 DEF AnswerKnows
  <2>1. CASE award'[m] = award[m]
    BY <2>1 DEF AwardInv, AnswerKnows
  <2>2. CASE award'[m] # award[m]
    <3>1. m = l /\ award[l].who = NoOne /\ award'[l].since = day
      BY <1>1, <2>2
    <3>2. poll.apps[m][s] # "won" /\ bidRow[m][s] # "won"
      BY <1>3, <3>1 DEF AwardInv, AnswerKnows, WonIsAwarded
    <3>3. ~(award'[m].since < day)
      BY <1>3, <3>1
    <3> QED BY <3>2, <3>3
  <2> QED BY <2>1, <2>2
<1>7. OursWereSeen'
  <2>1. ASSUME NEW m \in BidLots, Present(m)', ours'[m] < day PROVE Present(m) /\ ours[m] < day
    <3>1. CASE ours'[m] = ours[m]
      BY <2>1, <3>1 DEF Present
    <3>2. CASE ours'[m] # ours[m]
      <4>1. ours'[m] = day  BY <1>1, <3>2
      <4> QED BY <1>3, <2>1, <4>1
    <3> QED BY <3>1, <3>2
  <2> QED BY <1>1, <2>1 DEF AwardInv, OursWereSeen
<1>8. \A m \in BidLots : Won(m)' <=> Won(m)
  BY <1>1 DEF Won
<1>9. Awarded(l)' => AwardStart(l)' >= day /\ AwardStart(l)' \in Int
  <2>1. BidsShape'
    BY OthersKeep DEF BidsInv
  <2>2. \A m \in BidLots : /\ AwardStart(m)' \in Int /\ AwardStart(m)' >= ours'[m]
                           /\ AwardStart(m)' >= award'[m].since
                           /\ ours'[m] \in Int /\ award'[m].since \in Nat
    <3>1. StartsAreDays'  BY <1>2, <2>1, StartTypesAll, PTL
    <3> QED BY <3>1 DEF StartsAreDays
  <2>3. /\ AwardStart(l)' \in Int /\ AwardStart(l)' >= ours'[l] /\ AwardStart(l)' >= award'[l].since
        /\ ours'[l] \in Int /\ award'[l].since \in Nat
    BY <2>2
  <2> QED BY <1>1, <1>3, <2>3
<1>10. SeenBefore'
  <2> SUFFICES ASSUME NEW m \in BidLots, Awarded(m)', ~Won(m)'
               PROVE  syncedAt'[AnnoOfLot[m]] <= AwardStart(m)'
    BY DEF SeenBefore
  <2>1. CASE m = l
    <3>1. AnnoOfLot[m] \in BidAnnos  BY BidsAssumption
    <3>2. syncedAt'[AnnoOfLot[m]] \in Int /\ syncedAt'[AnnoOfLot[m]] <= day
      BY <1>1, <3>1 DEF AwardInv, AwardShape
    <3> QED BY <1>3, <1>9, <2>1, <3>2
  <2>2. CASE m # l
    BY <1>1, <1>8, <2>2, StartStays DEF AwardInv, SeenBefore
  <2> QED BY <2>1, <2>2
<1>11. ASSUME pollErrors' = 0, NEW m \in BidLots, Waits(m)' PROVE QueueMoves(m)'
  <2>1. m # l
    <3> SUFFICES ASSUME m = l PROVE FALSE
      OBVIOUS
    <3>1. Awarded(l)' /\ day > AwardStart(l)' + Recheck
      BY <1>1, <1>11 DEF Waits
    <3>2. Recheck \in Nat  BY BidsAssumption
    <3> QED BY <1>3, <1>9, <3>1, <3>2
  <2>2. award'[m] = award[m] /\ ours'[m] = ours[m]
    BY <1>1, <2>1
  <2>3. Waits(m) /\ DaysWaited(m)' = DaysWaited(m) /\ AwardStart(m)' = AwardStart(m)
    BY <1>1, <1>8, <1>11, <2>2, WaitsStay, StartStays
  <2>4. Passed(m)' = Passed(m) /\ InLine' = InLine
    BY <1>1, <2>3 DEF Passed, InLine
  <2>5. QueueMoves(m)
    BY <1>1, <1>11, <2>3 DEF AwardInv, QueuesMove
  <2> QED BY <1>1, <2>3, <2>4, <2>5 DEF QueueMoves, Turns
<1> QED BY <1>2, <1>5, <1>6, <1>7, <1>10, <1>11 DEF AwardInv, QueuesMove

LEMMA StillAwards ==
  ASSUME BidsInv, AwardInv,
         \/ \E l \in BidLots : FillWinner(l)
         \/ \E l \in BidLots, s \in Suppliers : Apply(l, s)
         \/ UNCHANGED bidsVars
  PROVE  AwardInv'
<1>1. /\ UNCHANGED <<day, polledToday, award, ours, bidRow, syncedAt, poll, pollErrors>>
      /\ \A l \in BidLots : portalBids[l] \subseteq portalBids'[l]
  <2>1. CASE (\E l \in BidLots : FillWinner(l)) \/ UNCHANGED bidsVars
    BY <2>1 DEF FillWinner, bidsVars
  <2>2. CASE \E l \in BidLots, s \in Suppliers : Apply(l, s)
    BY <2>2 DEF Apply, BidsInv, BidsShape
  <2> QED BY <2>1, <2>2
<1>2. AwardShape' /\ WonIsAwarded' /\ SeenBefore' /\ QueuesMove'
  BY <1>1, QuietAwards
<1>3. AnswerKnows' /\ OursWereSeen'
  BY <1>1 DEF AwardInv, AnswerKnows, OursWereSeen, Present
<1> QED BY <1>2, <1>3 DEF AwardInv

(* With a run a day and no failed polls the award of a lot that is ours     *)
(* reaches the table within the recheck pause and the days the queue needs  *)
(* (bids.py:66-74), for any finite number of announcements, their deadlines *)
(* and any positive limit of a run.                                         *)
THEOREM AwardsComeThrough == ASSUME PollLimit # 0 PROVE BidsSpec => []AwardIsSeen
<1>1. BidsInv /\ [BidsNext]_bidsVars => BidsInv'
  BY StartPollKeeps, AnswerKeeps, SelectOursKeeps, CommitPollKeeps, PollLeaves, OthersKeep
     DEF BidsNext
<1>2. BidsInv /\ AwardInv /\ [BidsNext]_bidsVars => AwardInv'
  BY StartPollAwards, AnswerAwards, SelectOursAwards, CommitPollAwards, PollLeavesAwards,
     NextDayAwards, ArrivalsKeep, StillAwards DEF BidsNext
<1>3. BidsInv /\ AwardInv => AwardIsSeen
  <2> SUFFICES ASSUME BidsInv, AwardInv, pollErrors = 0, NEW l \in BidLots, Awarded(l), ~Won(l),
                      day > AwardStart(l) + Recheck + QueueDays,
                      day < Deadline[AnnoOfLot[l]] + BidHorizon
               PROVE  FALSE
    BY DEF AwardIsSeen, AwardStart, AwardKnown, Awarded
  <2> DEFINE a == AnnoOfLot[l]
             n == Cardinality(BidAnnos)
  <2>1. n \in Nat /\ QueueDays \in Nat
    <3>1. n \in Nat  BY AnnosCounted
    <3>2. PollLimit \in Nat /\ PollLimit > 0  BY BidsAssumption
    <3>3. n + PollLimit - 1 \in Nat
      <4> HIDE DEF n
      <4> QED BY <3>1, <3>2
    <3>4. \A x, y \in Nat : y > 0 => x \div y \in Nat  OBVIOUS
    <3> QED BY <3>1, <3>2, <3>3, <3>4 DEF QueueDays
  <2>2. Waits(l)
    BY <2>1, StartTypes DEF Waits, BidsInv, AwardInv
  <2>3. DaysWaited(l) \in Nat /\ a \notin Passed(l)
    BY <2>2, WaitingTypes DEF BidsInv, AwardInv
  <2>4. DaysWaited(l) >= QueueDays
    BY <2>1, StartTypes DEF DaysWaited, BidsInv, AwardInv
  <2>5. Turns(DaysWaited(l)) >= n /\ Turns(DaysWaited(l) + 1) >= n
    <3>1. DaysWaited(l) + 1 \in Nat /\ DaysWaited(l) + 1 >= QueueDays
      BY <2>1, <2>3, <2>4
    <3> QED BY <2>3, <2>4, <3>1, TurnsForAll
  <2>6. ASSUME NEW Q \in SUBSET BidAnnos, a \notin Q PROVE Cardinality(Q) \in Nat /\ Cardinality(Q) < n
    <3>1. a \in BidAnnos  BY BidsAssumption
    <3>2. Q # BidAnnos  BY <2>6, <3>1
    <3> QED BY <3>2, BidsAssumption, AnnosCounted, FS_Subset
  <2>7. Turns(DaysWaited(l)) \in Nat /\ Turns(DaysWaited(l) + 1) \in Nat
    <3>1. DaysWaited(l) + 1 \in Nat  BY <2>3
    <3> QED BY <2>3, <3>1, TurnsAdd
  <2>8. Passed(l) \in SUBSET BidAnnos /\ Passed(l) \cup InLine \in SUBSET BidAnnos
    <3>1. poll.left \in Seq(BidAnnos)  BY DEF BidsInv, BidsShape, PollRecord
    <3>2. \A i \in 1 .. Len(poll.left) : poll.left[i] \in BidAnnos  BY <3>1
    <3> QED BY <3>2 DEF Passed, InLine
  <2>9. /\ Cardinality(Passed(l)) \in Nat /\ Cardinality(Passed(l)) < n
        /\ a \notin InLine => /\ Cardinality(Passed(l) \cup InLine) \in Nat
                              /\ Cardinality(Passed(l) \cup InLine) < n
    BY <2>3, <2>6, <2>8
  <2>10. QueueMoves(l)
    BY <2>2 DEF AwardInv, QueuesMove
  <2>11. \/ Cardinality(Passed(l)) >= Turns(DaysWaited(l))
         \/ Cardinality(Passed(l)) >= Turns(DaysWaited(l) + 1)
         \/ a \notin InLine /\ Cardinality(Passed(l) \cup InLine) >= Turns(DaysWaited(l) + 1)
    BY <2>10 DEF QueueMoves, AwardInv, AwardShape
  <2> HIDE DEF n
  <2> QED BY <2>1, <2>5, <2>7, <2>9, <2>11
<1> QED BY <1>1, <1>2, <1>3, BidsInvInit, AwardInvInit, PTL DEF BidsSpec

-----------------------------------------------------------------------------
(* Matching of queries with lots.                                           *)

QueryRecord == [state : {"none", "live", "deleted"}, version : Nat, text : Nat,
                filter : Filters, active : BOOLEAN]
EditorRecord == [version : Nat, text : Nat, filter : Filters,
                 to : Filters, drops : SUBSET Lots]
RowRecord == [version : Nat, text : Nat, basis : Nat, stamp : Nat, matched : BOOLEAN]
JobRecord == [lot : Lots, left : Nat, version : Nat, text : Nat, basis : Nat,
              had : {"none", "row", "gone"}]

MatchShape ==
  /\ query \in QueryRecord
  /\ editor \in [Editors -> EditorRecord \cup {None}]
  /\ analyzed \in [Lots -> Nat] /\ fan \subseteq Lots /\ actual \subseteq Lots
  /\ row \in [Lots -> RowRecord \cup {None}]
  /\ queue \subseteq [lot : Lots, left : Nat]
  /\ work \in [Workers -> JobRecord \cup {None}]
  /\ edits \in Nat

(* What was read of the query, by an editor, a worker or the row it wrote, *)
(* is older than the query or is of its text.                              *)
OfVersion(r) ==
  query.state # "deleted" /\ ~crossed =>
    r.version <= query.version /\ (r.version = query.version => r.text = query.text)

VersionsTell ==
  /\ \A e \in Editors : editor[e] # None => OfVersion(editor[e])
  /\ \A w \in Workers : work[w] # None => OfVersion(work[w])
  /\ \A l \in Lots : row[l] # None => OfVersion(row[l])

(* A row was written after the last analysis from the last analysis, or    *)
(* before it.                                                              *)
StampsTell ==
  \A l \in Lots : row[l] # None =>
    /\ row[l].stamp <= analyzed[l]
    /\ row[l].stamp = analyzed[l] /\ l \notin overtaken => row[l].basis = analyzed[l]

RowsPass ==
  query.state # "deleted" =>
    \A l \in Lots : row[l] # None /\ l \notin overtaken => l \in Pass[query.filter]

(* What an edit will not drop passes the filter it changes to.             *)
DropsTell ==
  \A e \in Editors, l \in Lots :
    ChangesFilter(e) /\ row[l] # None /\ l \notin overtaken \cup editor[e].drops
      => l \in Pass[editor[e].to]

(* Wanted, whether the query is switched on or not.                        *)
Asked(l) == Live /\ analyzed[l] > 0 /\ l \in actual \cap Visible \cap Pass[query.filter]

NothingIsDropped ==
  \A l \in Lots : Asked(l) => UnderWay(l) \/ UpToDate(l) \/ l \in excuse \cup overtaken

MatchInv == MatchShape /\ VersionsTell /\ StampsTell /\ RowsPass /\ DropsTell /\ NothingIsDropped

LEMMA NoneIsNoRecord ==
  /\ \A r \in EditorRecord : r # None
  /\ \A r \in RowRecord : r # None
  /\ \A r \in JobRecord : r # None
  BY DEF EditorRecord, RowRecord, JobRecord, None

LEMMA MatchInvInit == MatchInit => MatchInv
<1> SUFFICES ASSUME MatchInit PROVE MatchInv
  OBVIOUS
<1>1. PICK f \in Filters : query = [state |-> "none", version |-> 1, text |-> 1, filter |-> f,
                                    active |-> TRUE]
  BY DEF MatchInit
<1>2. query \in QueryRecord /\ query.state = "none"
  BY <1>1 DEF QueryRecord
<1>3. MatchShape
  BY <1>2 DEF MatchInit, MatchShape
<1>4. VersionsTell /\ StampsTell /\ DropsTell
  BY DEF MatchInit, VersionsTell, StampsTell, DropsTell
<1>5. RowsPass /\ NothingIsDropped
  BY <1>2 DEF MatchInit, RowsPass, NothingIsDropped, Asked, Live
<1> QED BY <1>3, <1>4, <1>5 DEF MatchInv

(* A switch of the query that leaves version, text and filter alone.       *)
LEMMA QuerySwitched ==
  ASSUME MatchInv, QueryCreate \/ QueryToggle \/ QueryRematch PROVE MatchInv'
<1>1. UNCHANGED <<editor, actual, analyzed, fan, row, queue, work, overtaken, excuse, crossed>>
  BY DEF QueryCreate, QueryToggle, QueryRematch, lotVars, auxVars
<1>2. /\ query' \in QueryRecord /\ edits' \in Nat
      /\ query'.version = query.version /\ query'.text = query.text /\ query'.filter = query.filter
      /\ query'.state \in {query.state, "live"} /\ query.state # "deleted"
      /\ query'.state # query.state => owed'
      /\ owed => owed'
  <2>1. query \in QueryRecord /\ edits \in Nat
    BY DEF MatchInv, MatchShape
  <2>2. CASE QueryCreate
    BY <2>1, <2>2 DEF QueryCreate, QueryRecord, auxVars
  <2>3. CASE QueryToggle
    <3> DEFINE on == ~query.active
    <3>1. query' = [query EXCEPT !.active = on] /\ edits' = edits + 1 /\ owed' = owed /\ Live
      BY <2>3 DEF QueryToggle, ByUser
    <3>2. on \in BOOLEAN
      OBVIOUS
    <3> HIDE DEF on
    <3> QED BY <2>1, <3>1, <3>2 DEF QueryRecord, Live
  <2>4. CASE QueryRematch
    BY <2>1, <2>4 DEF QueryRematch, QueryRecord, ByUser, Live
  <2> QED BY <2>2, <2>3, <2>4
<1>3. MatchShape'
  BY <1>1, <1>2 DEF MatchInv, MatchShape
<1>4. VersionsTell'
  BY <1>1, <1>2 DEF MatchInv, VersionsTell, OfVersion
<1>5. StampsTell'
  BY <1>1 DEF MatchInv, StampsTell
<1>6. RowsPass' /\ DropsTell'
  BY <1>1, <1>2 DEF MatchInv, RowsPass, DropsTell, ChangesFilter
<1>7. NothingIsDropped'
  <2> SUFFICES ASSUME NEW l \in Lots, Asked(l)', ~UnderWay(l)'
               PROVE  UpToDate(l)' \/ l \in excuse \cup overtaken
    BY <1>1 DEF NothingIsDropped
  <2>1. ~owed' /\ Live /\ Asked(l) /\ ~UnderWay(l)
    BY <1>1, <1>2 DEF UnderWay, Asked, Live
  <2>2. UpToDate(l) \/ l \in excuse \cup overtaken
    BY <2>1 DEF MatchInv, NothingIsDropped
  <2> QED BY <2>2, <1>1, <1>2 DEF UpToDate
<1> QED BY <1>3, <1>4, <1>5, <1>6, <1>7 DEF MatchInv

(* What an editor holds comes from the query or is what it held.           *)
LEMMA EditsPass ==
  ASSUME MatchInv, NEW e \in Editors,
         EditRead(e) \/ EditEnds(e) \/ \E f \in Filters : EditDrops(e, f)
  PROVE  MatchInv'
<1>1. UNCHANGED <<query, owed, actual, analyzed, fan, row, queue, work, overtaken, excuse,
                  crossed, edits>>
  BY DEF EditRead, EditEnds, EditDrops, lotVars, auxVars
<1> DEFINE seen == [version |-> query.version, text |-> query.text, filter |-> query.filter,
                    to |-> query.filter, drops |-> {}]
           dropped(f) == [editor[e] EXCEPT !.to = f, !.drops = Stale(f)]
<1>2. query \in QueryRecord /\ editor \in [Editors -> EditorRecord \cup {None}]
  BY DEF MatchInv, MatchShape
<1>3. seen \in EditorRecord /\ seen.version = query.version /\ seen.text = query.text
      /\ seen.to = seen.filter
  BY <1>2 DEF QueryRecord, EditorRecord
<1>4. \/ editor' = [editor EXCEPT ![e] = seen] \/ editor' = [editor EXCEPT ![e] = None]
      \/ \E f \in Filters : EditDrops(e, f) /\ editor' = [editor EXCEPT ![e] = dropped(f)]
  <2>1. CASE EditRead(e) \/ EditEnds(e)
    BY <2>1 DEF EditRead, EditEnds
  <2>2. CASE \E f \in Filters : EditDrops(e, f)
    <3>1. PICK f \in Filters : EditDrops(e, f)
      BY <2>2
    <3>2. editor' = [editor EXCEPT ![e] = dropped(f)]
      BY <1>2, <3>1 DEF EditDrops
    <3> QED BY <3>1, <3>2
  <2> QED BY <2>1, <2>2
<1>5. \A f \in Filters : EditDrops(e, f) =>
        /\ dropped(f) \in EditorRecord /\ editor[e] # None
        /\ dropped(f).version = editor[e].version /\ dropped(f).text = editor[e].text
        /\ dropped(f).to = f /\ dropped(f).drops = Stale(f)
  <2> TAKE f \in Filters
  <2> HAVE EditDrops(e, f)
  <2>1. editor[e] \in EditorRecord /\ editor[e] # None /\ Stale(f) \in SUBSET Lots
    BY <1>2 DEF EditDrops, Stale
  <2> DEFINE gone == Stale(f)
  <2> HIDE DEF gone
  <2>2. \A read \in EditorRecord : LET d == [read EXCEPT !.to = f, !.drops = gone] IN
          /\ d \in EditorRecord /\ d.version = read.version /\ d.text = read.text
          /\ d.to = f /\ d.drops = gone
    BY <2>1 DEF EditorRecord, gone
  <2> QED BY <2>1, <2>2 DEF gone
<1> HIDE DEF seen, dropped
<1>6. /\ editor' \in [Editors -> EditorRecord \cup {None}]
      /\ \A x \in Editors : x # e => editor'[x] = editor[x]
      /\ \/ editor'[e] = None
         \/ editor'[e] = seen
         \/ \E f \in Filters : EditDrops(e, f) /\ editor'[e] = dropped(f)
  BY <1>2, <1>3, <1>4, <1>5
<1>7. MatchShape'
  BY <1>1, <1>6 DEF MatchInv, MatchShape
<1>8. VersionsTell'
  <2>1. OfVersion(seen)
    BY <1>2, <1>3 DEF OfVersion, QueryRecord
  <2>2. \A f \in Filters : EditDrops(e, f) => OfVersion(dropped(f))
    BY <1>5 DEF MatchInv, VersionsTell, OfVersion
  <2>3. \A x \in Editors : editor'[x] # None => OfVersion(editor'[x])
    BY <1>6, <2>1, <2>2 DEF MatchInv, VersionsTell
  <2> QED BY <2>3, <1>1 DEF MatchInv, VersionsTell, OfVersion
<1>9. DropsTell'
  <2> SUFFICES ASSUME NEW x \in Editors, NEW l \in Lots, ChangesFilter(x)', row[l] # None,
                      l \notin overtaken, l \notin editor'[x].drops
               PROVE  l \in Pass[editor'[x].to]
    BY <1>1 DEF DropsTell
  <2>1. CASE x # e
    BY <1>6, <2>1 DEF MatchInv, DropsTell, ChangesFilter
  <2>2. CASE x = e
    <3>1. PICK f \in Filters : EditDrops(e, f) /\ editor'[e] = dropped(f)
      BY <1>3, <1>6, <2>2 DEF ChangesFilter
    <3>2. editor'[e].to = f /\ editor'[e].drops = Stale(f)
      BY <1>5, <3>1
    <3>3. l \in Pass[f]
      BY <2>2, <3>2, MatchingAssumption DEF Stale
    <3> QED BY <2>2, <3>2, <3>3
  <2> QED BY <2>1, <2>2
<1>10. StampsTell' /\ RowsPass'
  BY <1>1 DEF MatchInv, StampsTell, RowsPass
<1>11. NothingIsDropped'
  BY <1>1 DEF MatchInv, NothingIsDropped, Asked, UnderWay, UpToDate, Live
<1> QED BY <1>7, <1>8, <1>9, <1>10, <1>11 DEF MatchInv

(* Rows that leave the table leave nothing behind but a warning to workers. *)
LEMMA DeleteLeaves ==
  ASSUME MatchShape, NEW lots \in SUBSET Lots, Delete(lots)
  PROVE  /\ row' \in [Lots -> RowRecord \cup {None}]
         /\ work' \in [Workers -> JobRecord \cup {None}]
         /\ overtaken' = overtaken \ lots
         /\ \A l \in Lots : row'[l] # None => row'[l] = row[l] /\ l \notin lots
         /\ \A w \in Workers : work'[w] # None =>
              /\ work[w] # None
              /\ work'[w].version = work[w].version /\ work'[w].text = work[w].text
<1>1. \A j \in JobRecord : LET g == [j EXCEPT !.had = "gone"] IN
        g \in JobRecord /\ g.version = j.version /\ g.text = j.text
  BY DEF JobRecord
<1>2. \A w \in Workers : work'[w] = work[w]
        \/ (work[w] # None /\ work'[w] = [work[w] EXCEPT !.had = "gone"])
  BY DEF Delete
<1>3. \A w \in Workers : work[w] \in JobRecord \cup {None}
  BY DEF MatchShape
<1>4. \A w \in Workers : work'[w] \in JobRecord \cup {None}
  BY <1>1, <1>2, <1>3
<1>5. \A w \in Workers : work'[w] # None =>
        work[w] # None /\ work'[w].version = work[w].version /\ work'[w].text = work[w].text
  BY <1>1, <1>2, <1>3
<1>6. work' = [w \in Workers |-> IF work[w] # None /\ work[w].lot \in lots /\ work[w].had = "row"
                THEN [work[w] EXCEPT !.had = "gone"] ELSE work[w]]
  BY DEF Delete
<1>7. work' \in [Workers -> JobRecord \cup {None}]
  BY <1>4, <1>6
<1>8. row' = [l \in Lots |-> IF l \in lots THEN None ELSE row[l]] /\ overtaken' = overtaken \ lots
  BY DEF Delete
<1>9. row' \in [Lots -> RowRecord \cup {None}]
  BY <1>8 DEF MatchShape
<1> QED BY <1>5, <1>7, <1>8, <1>9

(* The other editors: what was deleted is no longer theirs to delete.      *)
LEMMA OthersForget ==
  ASSUME MatchShape, NEW e \in Editors, NEW gone \in SUBSET Lots,
         editor' = [x \in Editors |-> IF x = e \/ editor[x] = None THEN None
                                      ELSE [editor[x] EXCEPT !.drops = @ \ gone]]
  PROVE  /\ editor' \in [Editors -> EditorRecord \cup {None}]
         /\ \A x \in Editors : editor'[x] # None =>
              /\ editor[x] # None
              /\ editor'[x].version = editor[x].version /\ editor'[x].text = editor[x].text
              /\ editor'[x].filter = editor[x].filter /\ editor'[x].to = editor[x].to
              /\ editor'[x].drops = editor[x].drops \ gone
<1>1. \A r \in EditorRecord : LET d == [r EXCEPT !.drops = @ \ gone] IN
        /\ d \in EditorRecord /\ d.version = r.version /\ d.text = r.text
        /\ d.filter = r.filter /\ d.to = r.to /\ d.drops = r.drops \ gone
  BY DEF EditorRecord
<1>2. \A x \in Editors : editor[x] \in EditorRecord \cup {None}
  BY DEF MatchShape
<1>3. \A x \in Editors : editor'[x] = None
        \/ (editor[x] # None /\ editor'[x] = [editor[x] EXCEPT !.drops = @ \ gone])
  OBVIOUS
<1>4. \A x \in Editors : editor'[x] \in EditorRecord \cup {None}
  BY <1>1, <1>2, <1>3
<1>5. editor' \in [Editors -> EditorRecord \cup {None}]
  BY <1>4
<1>6. ASSUME NEW x \in Editors, editor'[x] # None
      PROVE  /\ editor[x] # None
             /\ editor'[x].version = editor[x].version /\ editor'[x].text = editor[x].text
             /\ editor'[x].filter = editor[x].filter /\ editor'[x].to = editor[x].to
             /\ editor'[x].drops = editor[x].drops \ gone
  BY <1>1, <1>2, <1>3, <1>6
<1> QED BY <1>5, <1>6

(* An edit raises the version above all that was read, or crosses another. *)
LEMMA EditCommits ==
  ASSUME MatchInv, NEW e \in Editors, NEW newText \in BOOLEAN, EditCommit(e, newText)
  PROVE  MatchInv'
<1> DEFINE read == editor[e]
           newFilter == ChangesFilter(e)
           gone == read.drops
           tx == IF newText THEN edits' + 1 ELSE query.text
           vr == IF newText THEN read.version + 1 ELSE query.version
           fl == IF newFilter THEN read.to ELSE query.filter
<1>1. /\ Live /\ read # None /\ edits' = edits + 1 /\ owed' = TRUE
      /\ query' = [query EXCEPT !.text = tx, !.version = vr, !.filter = fl]
      /\ Delete(gone)
      /\ crossed' = (crossed \/ (newText /\ read.version # query.version))
      /\ editor' = [x \in Editors |-> IF x = e \/ editor[x] = None THEN None
                                      ELSE [editor[x] EXCEPT !.drops = @ \ gone]]
      /\ UNCHANGED <<actual, analyzed, fan, queue, excuse>>
  BY DEF EditCommit, ByUser, lotVars
<1>2. /\ query \in QueryRecord /\ editor \in [Editors -> EditorRecord \cup {None}]
      /\ read \in EditorRecord /\ edits \in Nat /\ MatchShape
  BY <1>1 DEF MatchInv, MatchShape
<1>3. tx \in Nat /\ vr \in Nat /\ fl \in Filters
  BY <1>1, <1>2 DEF QueryRecord, EditorRecord
<1>4. gone \in SUBSET Lots
  BY <1>2 DEF EditorRecord
<1>5. /\ row' \in [Lots -> RowRecord \cup {None}]
      /\ work' \in [Workers -> JobRecord \cup {None}]
      /\ overtaken' = overtaken \ gone
      /\ \A l \in Lots : row'[l] # None => row'[l] = row[l] /\ l \notin gone
      /\ \A w \in Workers : work'[w] # None =>
              /\ work[w] # None
              /\ work'[w].version = work[w].version /\ work'[w].text = work[w].text
  BY <1>1, <1>2, <1>4, DeleteLeaves
<1>6. newText /\ ~crossed' => vr = query.version + 1
  BY <1>1
<1>7. ~newText => tx = query.text /\ vr = query.version
  OBVIOUS
<1>8. crossed => crossed'
  BY <1>1
<1>9. \A l \in Lots : row'[l] # None /\ l \notin overtaken' => l \in Pass[fl] \/ fl = query.filter
  BY <1>5 DEF MatchInv, DropsTell
<1>10. /\ editor' \in [Editors -> EditorRecord \cup {None}]
       /\ \A x \in Editors : editor'[x] # None =>
            /\ editor[x] # None
            /\ editor'[x].version = editor[x].version /\ editor'[x].text = editor[x].text
            /\ editor'[x].filter = editor[x].filter /\ editor'[x].to = editor[x].to
            /\ editor'[x].drops = editor[x].drops \ gone
  <2>1. MatchShape /\ gone \in SUBSET Lots
    BY <1>2, <1>4
  <2>2. editor' = [x \in Editors |-> IF x = e \/ editor[x] = None THEN None
                                    ELSE [editor[x] EXCEPT !.drops = @ \ gone]]
    BY <1>1
  <2> HIDE DEF gone
  <2> QED BY <2>1, <2>2, OthersForget
<1> HIDE DEF tx, vr, fl, gone
<1>11. DropsTell'
  <2> SUFFICES ASSUME NEW x \in Editors, NEW l \in Lots, ChangesFilter(x)', row'[l] # None,
                      l \notin overtaken', l \notin editor'[x].drops
               PROVE  l \in Pass[editor'[x].to]
    BY DEF DropsTell
  <2>1. row[l] # None /\ l \notin gone /\ l \notin overtaken
    BY <1>5
  <2>2. ChangesFilter(x) /\ l \notin editor[x].drops /\ editor'[x].to = editor[x].to
    BY <1>10, <2>1 DEF ChangesFilter
  <2> QED BY <2>1, <2>2 DEF MatchInv, DropsTell
<1>12. /\ query' \in QueryRecord /\ query'.state = query.state
       /\ query'.version = vr /\ query'.text = tx /\ query'.filter = fl
  BY <1>1, <1>2, <1>3 DEF QueryRecord
<1>13. MatchShape'
  BY <1>1, <1>2, <1>5, <1>10, <1>12 DEF MatchShape
<1>14. VersionsTell'
  <2>1. ASSUME NEW r, r.version \in Nat, OfVersion(r)
        PROVE  query'.state # "deleted" /\ ~crossed' =>
                 r.version <= query'.version /\ (r.version = query'.version => r.text = query'.text)
    <3> SUFFICES ASSUME ~crossed', query'.state # "deleted"
                 PROVE  r.version <= vr /\ (r.version = vr => r.text = tx)
      BY <1>12
    <3>1. r.version <= query.version /\ (r.version = query.version => r.text = query.text)
      BY <2>1, <1>8, <1>12 DEF OfVersion
    <3>2. query.version \in Nat
      BY <1>2 DEF QueryRecord
    <3>3. CASE newText
      BY <2>1, <3>1, <3>2, <3>3, <1>6
    <3>4. CASE ~newText
      BY <3>1, <3>4, <1>7
    <3> QED BY <3>3, <3>4
  <2>2. \A x \in Editors : editor[x] # None => editor[x].version \in Nat /\ OfVersion(editor[x])
    BY <1>2 DEF MatchInv, VersionsTell, EditorRecord
  <2>3. \A l \in Lots : row[l] # None => row[l].version \in Nat /\ OfVersion(row[l])
    BY DEF MatchInv, VersionsTell, MatchShape, RowRecord
  <2>4. \A w \in Workers : work[w] # None => work[w].version \in Nat /\ OfVersion(work[w])
    BY DEF MatchInv, VersionsTell, MatchShape, JobRecord
  <2>5. \A x \in Editors : editor'[x] # None => OfVersion(editor[x])'
    <3> SUFFICES ASSUME NEW x \in Editors, editor'[x] # None PROVE OfVersion(editor[x])'
      OBVIOUS
    <3> DEFINE was == editor[x]
    <3>1. was.version \in Nat /\ OfVersion(was)
      BY <1>10, <2>2
    <3>2. query'.state # "deleted" /\ ~crossed' =>
            was.version <= query'.version /\ (was.version = query'.version => was.text = query'.text)
      <4> HIDE DEF was
      <4> QED BY <2>1, <3>1
    <3> QED BY <1>10, <3>2 DEF OfVersion
  <2>6. \A l \in Lots : row'[l] # None => OfVersion(row[l])'
    BY <2>1, <2>3, <1>5 DEF OfVersion
  <2>7. \A w \in Workers : work'[w] # None => OfVersion(work[w])'
    BY <2>1, <2>4, <1>5 DEF OfVersion
  <2> QED BY <2>5, <2>6, <2>7 DEF VersionsTell
<1>15. StampsTell'
  BY <1>1, <1>5 DEF MatchInv, StampsTell
<1>16. RowsPass'
  <2>1. query.state # "deleted"
    BY <1>1 DEF Live
  <2> QED BY <2>1, <1>5, <1>9, <1>12 DEF MatchInv, RowsPass
<1>17. NothingIsDropped'
  BY <1>1 DEF NothingIsDropped, UnderWay
<1> QED BY <1>11, <1>13, <1>14, <1>15, <1>16, <1>17 DEF MatchInv

LEMMA QueryDeletes == ASSUME MatchInv, QueryDelete PROVE MatchInv'
<1>1. /\ query' = Deleted /\ Delete(Lots)
      /\ UNCHANGED <<editor, actual, analyzed, fan, queue, edits, crossed>>
  BY DEF QueryDelete, lotVars
<1>2. /\ row' \in [Lots -> RowRecord \cup {None}]
      /\ work' \in [Workers -> JobRecord \cup {None}]
      /\ \A l \in Lots : row'[l] = None
  <2>1. Lots \in SUBSET Lots /\ MatchShape
    BY DEF MatchInv
  <2> QED BY <1>1, <2>1, DeleteLeaves
<1>3. query' \in QueryRecord /\ query'.state = "deleted"
  BY <1>1, MatchingAssumption DEF Deleted, QueryRecord
<1>4. MatchShape'
  BY <1>1, <1>2, <1>3 DEF MatchInv, MatchShape
<1>5. VersionsTell' /\ StampsTell' /\ RowsPass' /\ DropsTell'
  BY <1>2, <1>3 DEF VersionsTell, OfVersion, StampsTell, RowsPass, DropsTell
<1>6. NothingIsDropped'
  BY <1>3 DEF NothingIsDropped, Asked, Live
<1> QED BY <1>4, <1>5, <1>6 DEF MatchInv

(* Steps that touch only messages, work and what is excused: the rows and  *)
(* the query stay, and what becomes of a lot is shown lot by lot.          *)
LEMMA MessagesMove ==
  ASSUME MatchInv,
         UNCHANGED <<query, editor, analyzed, row, overtaken, crossed, edits>>,
         actual' \subseteq actual, fan' \subseteq Lots, queue' \subseteq [lot : Lots, left : Nat],
         work' \in [Workers -> JobRecord \cup {None}],
         \A w \in Workers : work'[w] # None =>
           work'[w] = work[w]
           \/ (work'[w].version = query.version /\ work'[w].text = query.text),
         excuse \subseteq excuse',
         \A l \in Lots : Asked(l) /\ UnderWay(l) /\ l \in actual' =>
           UnderWay(l)' \/ UpToDate(l) \/ l \in excuse'
  PROVE  MatchInv'
<1>1. MatchShape'
  BY DEF MatchInv, MatchShape
<1>2. VersionsTell'
  <2>1. query.version \in Nat
    BY DEF MatchInv, MatchShape, QueryRecord
  <2> QED BY <2>1 DEF MatchInv, VersionsTell, OfVersion
<1>3. StampsTell' /\ RowsPass' /\ DropsTell'
  BY DEF MatchInv, StampsTell, RowsPass, DropsTell, ChangesFilter
<1>4. NothingIsDropped'
  <2> SUFFICES ASSUME NEW l \in Lots, Asked(l)'
               PROVE  UnderWay(l)' \/ UpToDate(l)' \/ l \in excuse' \cup overtaken'
    BY DEF NothingIsDropped
  <2>1. Asked(l) /\ l \in actual'
    BY DEF Asked, Live
  <2>2. UpToDate(l)' <=> UpToDate(l)
    BY DEF UpToDate
  <2> QED BY <2>1, <2>2 DEF MatchInv, NothingIsDropped
<1> QED BY <1>1, <1>2, <1>3, <1>4 DEF MatchInv

LEMMA FreshFits == \A S \in SUBSET Lots : Fresh(S) \subseteq [lot : Lots, left : Nat]
  BY MatchingAssumption DEF Fresh

LEMMA BackfillKeeps == ASSUME MatchInv, Backfill \/ BackfillFails PROVE MatchInv'
<1>1. UNCHANGED <<query, editor, actual, analyzed, fan, row, work, overtaken, crossed, edits>>
  BY DEF Backfill, BackfillFails, lotVars
<1>2. Candidates \in SUBSET Lots
  BY MatchingAssumption DEF Candidates, NewestFacts, Selected
<1>3. queue \subseteq queue' /\ queue' \subseteq [lot : Lots, left : Nat]
  <2>1. queue \subseteq [lot : Lots, left : Nat]
    BY DEF MatchInv, MatchShape
  <2>2. CASE Backfill
    BY <1>2, <2>1, <2>2, FreshFits DEF Backfill
  <2>3. CASE BackfillFails
    <3>1. PICK sent \in SUBSET Candidates : queue' = queue \cup Fresh(sent)
      BY <2>3 DEF BackfillFails
    <3>2. sent \in SUBSET Lots
      BY <1>2
    <3> QED BY <2>1, <3>1, <3>2, FreshFits
  <2> QED BY <2>2, <2>3
<1>4. excuse \subseteq excuse'
  BY DEF Backfill, BackfillFails
<1>5. ASSUME NEW l \in Lots, Asked(l) PROVE UnderWay(l)' \/ l \in excuse'
  <2>1. CASE BackfillFails
    BY <2>1 DEF BackfillFails
  <2>2. CASE Backfill
    <3>1. l \in Selected /\ l \in Pass[query.filter]
      <4>1. query.filter \in Filters
        BY DEF MatchInv, MatchShape, QueryRecord
      <4> QED BY <1>5, <4>1, MatchingAssumption DEF Asked, Selected
    <3>2. CASE l \in NewestFacts(Selected)
      <4> DEFINE m == [lot |-> l, left |-> MatchRetries]
      <4>1. m \in queue' /\ m.lot = l
        BY <1>5, <2>2, <3>1, <3>2 DEF Backfill, Candidates, Fresh, Asked
      <4> QED BY <4>1 DEF UnderWay
    <3>3. CASE l \notin NewestFacts(Selected)
      BY <2>2, <3>1, <3>3 DEF Backfill
    <3> QED BY <3>2, <3>3
  <2> QED BY <2>1, <2>2
<1>6. fan \subseteq Lots /\ work \in [Workers -> JobRecord \cup {None}]
  BY DEF MatchInv, MatchShape
<1> QED BY <1>1, <1>3, <1>4, <1>5, <1>6, MessagesMove

LEMMA AnalyzeKeeps == ASSUME MatchInv, NEW l \in Lots, Analyze(l) PROVE MatchInv'
<1>1. /\ analyzed' = [analyzed EXCEPT ![l] = @ + 1] /\ fan' = fan \cup {l}
      /\ UNCHANGED <<query, editor, owed, actual, row, queue, work, overtaken, excuse, crossed, edits>>
  BY DEF Analyze, editorVars, auxVars
<1>2. analyzed \in [Lots -> Nat] /\ analyzed' \in [Lots -> Nat]
      /\ \A k \in Lots : k # l => analyzed'[k] = analyzed[k]
  BY <1>1 DEF MatchInv, MatchShape
<1>3. MatchShape'
  BY <1>1, <1>2 DEF MatchInv, MatchShape
<1>4. VersionsTell' /\ RowsPass' /\ DropsTell'
  BY <1>1 DEF MatchInv, VersionsTell, OfVersion, RowsPass, DropsTell, ChangesFilter
<1>5. StampsTell'
  <2> SUFFICES ASSUME NEW k \in Lots, row[k] # None
               PROVE  /\ row[k].stamp <= analyzed'[k]
                      /\ row[k].stamp = analyzed'[k] /\ k \notin overtaken
                           => row[k].basis = analyzed'[k]
    BY <1>1 DEF StampsTell
  <2>1. row[k].stamp \in Nat /\ row[k].stamp <= analyzed[k]
    BY DEF MatchInv, MatchShape, StampsTell, RowRecord
  <2>2. CASE k = l
    <3>1. analyzed'[k] = analyzed[k] + 1 /\ analyzed[k] \in Nat
      BY <1>1, <1>2, <2>2
    <3> QED BY <2>1, <3>1
  <2>3. CASE k # l
    BY <1>2, <2>3 DEF MatchInv, StampsTell
  <2> QED BY <2>2, <2>3
<1>6. NothingIsDropped'
  <2> SUFFICES ASSUME NEW k \in Lots, Asked(k)'
               PROVE  UnderWay(k)' \/ UpToDate(k)' \/ k \in excuse \cup overtaken
    BY <1>1 DEF NothingIsDropped
  <2>1. CASE k = l
    BY <1>1, <2>1 DEF UnderWay
  <2>2. CASE k # l
    <3>1. Asked(k)
      BY <1>1, <1>2, <2>2 DEF Asked, Live
    <3>2. UnderWay(k) => UnderWay(k)'
      BY <1>1 DEF UnderWay
    <3>3. UpToDate(k) => UpToDate(k)'
      BY <1>1, <1>2, <2>2 DEF UpToDate
    <3> QED BY <3>1, <3>2, <3>3 DEF MatchInv, NothingIsDropped
  <2> QED BY <2>1, <2>2
<1> QED BY <1>3, <1>4, <1>5, <1>6 DEF MatchInv

LEMMA FanOutKeeps ==
  ASSUME MatchInv, NEW l \in Lots, FanOut(l) \/ FanOutLost(l) \/ Expire(l) PROVE MatchInv'
<1>1. /\ UNCHANGED <<query, editor, owed, analyzed, row, work, overtaken, crossed, edits>>
      /\ actual' \subseteq actual /\ fan' \subseteq fan /\ fan \ {l} \subseteq fan'
      /\ excuse \subseteq excuse' /\ queue \subseteq queue'
  BY DEF FanOut, FanOutLost, Expire, editorVars, auxVars
<1>2. queue' \subseteq [lot : Lots, left : Nat]
  <2>1. queue \subseteq [lot : Lots, left : Nat]
    BY DEF MatchInv, MatchShape
  <2>2. queue' = queue \/ queue' = queue \cup Fresh({l})
    BY DEF FanOut, FanOutLost, Expire
  <2> QED BY <2>1, <2>2, FreshFits
<1>3. ASSUME NEW k \in Lots, Asked(k), UnderWay(k), k \in actual'
      PROVE  UnderWay(k)' \/ k \in excuse'
  <2>1. CASE k # l \/ Expire(l)
    <3>1. k \in fan => k \in fan'
      BY <1>1, <2>1 DEF Expire
    <3> QED BY <1>1, <1>3, <3>1 DEF UnderWay
  <2>2. CASE k = l /\ FanOutLost(l)
    BY <2>2 DEF FanOutLost
  <2>3. CASE k = l /\ FanOut(l)
    <3>1. CASE query.active
      <4> DEFINE m == [lot |-> l, left |-> MatchRetries]
      <4>1. m \in queue' /\ m.lot = l
        BY <1>3, <2>3, <3>1 DEF FanOut, Fresh, Asked
      <4> QED BY <2>3, <4>1 DEF UnderWay
    <3>2. CASE ~query.active
      BY <1>3, <2>3, <3>2 DEF FanOut, Asked
    <3> QED BY <3>1, <3>2
  <2> QED BY <2>1, <2>2, <2>3
<1>4. fan' \subseteq Lots /\ work \in [Workers -> JobRecord \cup {None}]
  BY <1>1 DEF MatchInv, MatchShape
<1> QED BY <1>1, <1>2, <1>3, <1>4, MessagesMove

LEMMA MatchSkipsKeeps == ASSUME MatchInv, NEW m \in queue, MatchSkips(m) PROVE MatchInv'
<1>1. /\ UNCHANGED <<query, editor, owed, actual, analyzed, fan, row, work, overtaken, crossed, edits>>
      /\ queue' = queue \ {m} /\ excuse \subseteq excuse'
  BY DEF MatchSkips, editorVars, lotVars
<1>2. ASSUME NEW l \in Lots, Asked(l), UnderWay(l)
      PROVE  UnderWay(l)' \/ UpToDate(l) \/ l \in excuse'
  <2>1. CASE m.lot = l
    BY <1>2, <2>1 DEF MatchSkips, Asked
  <2>2. CASE m.lot # l
    BY <1>1, <1>2, <2>2 DEF UnderWay
  <2> QED BY <2>1, <2>2
<1>3. fan \subseteq Lots /\ work \in [Workers -> JobRecord \cup {None}]
      /\ queue' \subseteq [lot : Lots, left : Nat]
  BY <1>1 DEF MatchInv, MatchShape
<1> QED BY <1>1, <1>2, <1>3, MessagesMove

LEMMA MatchStartsKeeps ==
  ASSUME MatchInv, NEW m \in queue, NEW w \in Workers, MatchStarts(w, m) PROVE MatchInv'
<1> DEFINE seen == analyzed[m.lot]
           had == IF row[m.lot] = None THEN "none" ELSE "row"
           j == [lot |-> m.lot, left |-> m.left, version |-> query.version,
                 text |-> query.text, basis |-> seen, had |-> had]
<1>1. /\ UNCHANGED <<query, editor, owed, actual, analyzed, fan, row, overtaken, excuse, crossed, edits>>
      /\ queue' = queue \ {m} /\ work' = [work EXCEPT ![w] = j] /\ work[w] = None
  BY DEF MatchStarts, editorVars, lotVars, auxVars
<1>2. m.lot \in Lots /\ m.left \in Nat /\ query \in QueryRecord
      /\ work \in [Workers -> JobRecord \cup {None}] /\ fan \subseteq Lots
      /\ queue' \subseteq [lot : Lots, left : Nat]
  BY <1>1 DEF MatchInv, MatchShape
<1>3. seen \in Nat /\ had \in {"none", "row", "gone"}
  BY <1>2 DEF MatchInv, MatchShape
<1> HIDE DEF seen, had
<1>4. j \in JobRecord /\ j.lot = m.lot /\ j.version = query.version /\ j.text = query.text
  BY <1>2, <1>3 DEF JobRecord, QueryRecord
<1> HIDE DEF j
<1>5. work' \in [Workers -> JobRecord \cup {None}]
      /\ work'[w] = j /\ \A v \in Workers : v # w => work'[v] = work[v]
  BY <1>1, <1>2, <1>4
<1>6. j # None
  BY <1>4, NoneIsNoRecord
<1>7. ASSUME NEW l \in Lots, Asked(l), UnderWay(l) PROVE UnderWay(l)'
  <2>1. CASE m.lot = l
    BY <1>4, <1>5, <1>6, <2>1 DEF UnderWay
  <2>2. CASE m.lot # l
    BY <1>1, <1>5, <1>7, <2>2 DEF UnderWay
  <2> QED BY <2>1, <2>2
<1>8. \A v \in Workers : work'[v] # None =>
        work'[v] = work[v] \/ (work'[v].version = query.version /\ work'[v].text = query.text)
  BY <1>4, <1>5
<1> QED BY <1>1, <1>2, <1>5, <1>7, <1>8, MessagesMove

(* A worker that ends without a row: a retry, a redelivery or an excuse.   *)
LEMMA MatchFailsKeeps ==
  ASSUME MatchInv, NEW w \in Workers, SaveConflicts(w) \/ LlmFails(w) \/ WorkerDies(w)
  PROVE  MatchInv'
<1> DEFINE j == work[w]
<1>1. /\ UNCHANGED <<query, editor, owed, actual, analyzed, fan, row, overtaken, crossed, edits>>
      /\ j # None /\ work' = [work EXCEPT ![w] = None]
      /\ excuse \subseteq excuse' /\ queue \subseteq queue'
  BY DEF SaveConflicts, LlmFails, WorkerDies, editorVars, lotVars
<1>2. /\ work \in [Workers -> JobRecord \cup {None}] /\ fan \subseteq Lots
      /\ j \in JobRecord /\ queue \subseteq [lot : Lots, left : Nat]
  BY <1>1 DEF MatchInv, MatchShape
<1>3. j.lot \in Lots /\ j.left \in Nat
  BY <1>2 DEF JobRecord
<1>4. queue' \subseteq [lot : Lots, left : Nat]
  <2>1. j.left > 0 => j.left - 1 \in Nat
    BY <1>3
  <2>2. queue' = queue \/ queue' = queue \cup {[lot |-> j.lot, left |-> j.left]}
        \/ (j.left > 0 /\ queue' = queue \cup {[lot |-> j.lot, left |-> j.left - 1]})
    BY DEF SaveConflicts, LlmFails, WorkerDies
  <2> QED BY <1>2, <1>3, <2>1, <2>2
<1>5. j.lot \in excuse' \/ \E m \in queue' : m.lot = j.lot
  <2>1. CASE j.lot \in excuse'
    BY <2>1
  <2>2. CASE j.lot \notin excuse'
    <3>1. \E n \in {j.left, j.left - 1} : [lot |-> j.lot, left |-> n] \in queue'
      BY <2>2 DEF SaveConflicts, LlmFails, WorkerDies
    <3>2. \A n : [lot |-> j.lot, left |-> n].lot = j.lot
      OBVIOUS
    <3> QED BY <3>1, <3>2
  <2> QED BY <2>1, <2>2
<1>6. work' \in [Workers -> JobRecord \cup {None}] /\ work'[w] = None
      /\ \A v \in Workers : v # w => work'[v] = work[v]
  BY <1>1, <1>2
<1>7. ASSUME NEW l \in Lots, Asked(l), UnderWay(l) PROVE UnderWay(l)' \/ l \in excuse'
  <2>1. CASE l = j.lot
    BY <1>5, <2>1 DEF UnderWay
  <2>2. CASE l # j.lot
    BY <1>1, <1>6, <1>7, <2>2 DEF UnderWay
  <2> QED BY <2>1, <2>2
<1>8. \A v \in Workers : work'[v] # None => work'[v] = work[v]
  BY <1>6
<1> QED BY <1>1, <1>2, <1>4, <1>6, <1>7, <1>8, MessagesMove

(* The row that is written says when and from what; if that is not the     *)
(* query and the analysis of now, the lot is overtaken.                    *)
LEMMA SaveMatchKeeps ==
  ASSUME MatchInv, NEW w \in Workers, NEW verdict \in BOOLEAN, SaveMatch(w, verdict)
  PROVE  MatchInv'
<1> DEFINE j == work[w]
           l == j.lot
           r == [version |-> j.version, text |-> j.text, basis |-> j.basis,
                 stamp |-> analyzed[l], matched |-> verdict]
           current == /\ j.version = query.version /\ j.basis = analyzed[l]
                      /\ l \in Pass[query.filter] /\ ~MissedByEdit(l)
<1>1. /\ UNCHANGED <<query, editor, owed, actual, analyzed, fan, queue, excuse, crossed, edits>>
      /\ j # None /\ work' = [work EXCEPT ![w] = None] /\ row' = [row EXCEPT ![l] = r]
      /\ overtaken' = IF current THEN overtaken \ {l} ELSE overtaken \cup {l}
  BY DEF SaveMatch, Written, editorVars, lotVars
<1>2. /\ work \in [Workers -> JobRecord \cup {None}] /\ j \in JobRecord
      /\ row \in [Lots -> RowRecord \cup {None}] /\ analyzed \in [Lots -> Nat]
  BY <1>1 DEF MatchInv, MatchShape
<1>3. l \in Lots /\ j.version \in Nat /\ j.text \in Nat /\ j.basis \in Nat /\ analyzed[l] \in Nat
  BY <1>2 DEF JobRecord
<1>4. OfVersion(j)
  BY <1>1 DEF MatchInv, VersionsTell
<1>5. /\ r \in RowRecord /\ r.version = j.version /\ r.text = j.text
      /\ r.basis = j.basis /\ r.stamp = analyzed[l]
  BY <1>3 DEF RowRecord
<1> HIDE DEF j, l, r
<1>6. /\ row' \in [Lots -> RowRecord \cup {None}] /\ row'[l] = r
      /\ \A k \in Lots : k # l => row'[k] = row[k]
  BY <1>1, <1>2, <1>3, <1>5
<1>7. /\ work' \in [Workers -> JobRecord \cup {None}] /\ work'[w] = None
      /\ \A v \in Workers : v # w => work'[v] = work[v]
  BY <1>1, <1>2
<1>8. \A k \in Lots : k # l => (k \in overtaken' <=> k \in overtaken)
  BY <1>1
<1>9. l \notin overtaken' => current
  BY <1>1
<1>10. MatchShape'
  BY <1>1, <1>6, <1>7 DEF MatchInv, MatchShape
<1>11. VersionsTell'
  <2>1. OfVersion(r)
    BY <1>4, <1>5 DEF OfVersion
  <2>2. \A k \in Lots : row'[k] # None => OfVersion(row'[k])
    BY <1>6, <2>1 DEF MatchInv, VersionsTell
  <2>3. \A v \in Workers : work'[v] # None => OfVersion(work'[v])
    BY <1>7 DEF MatchInv, VersionsTell
  <2> QED BY <1>1, <2>2, <2>3 DEF MatchInv, VersionsTell, OfVersion
<1>12. StampsTell'
  <2> SUFFICES ASSUME NEW k \in Lots, row'[k] # None
               PROVE  /\ row'[k].stamp <= analyzed[k]
                      /\ row'[k].stamp = analyzed[k] /\ k \notin overtaken'
                           => row'[k].basis = analyzed[k]
    BY <1>1 DEF StampsTell
  <2>1. CASE k = l
    BY <1>3, <1>5, <1>6, <1>9, <2>1
  <2>2. CASE k # l
    BY <1>6, <1>8, <2>2 DEF MatchInv, StampsTell
  <2> QED BY <2>1, <2>2
<1>13. RowsPass'
  <2> SUFFICES ASSUME query.state # "deleted", NEW k \in Lots, row'[k] # None, k \notin overtaken'
               PROVE  k \in Pass[query.filter]
    BY <1>1 DEF RowsPass
  <2>1. CASE k = l
    BY <1>9, <2>1
  <2>2. CASE k # l
    BY <1>6, <1>8, <2>2 DEF MatchInv, RowsPass
  <2> QED BY <2>1, <2>2
<1>15. DropsTell'
  <2> SUFFICES ASSUME NEW x \in Editors, NEW k \in Lots, ChangesFilter(x), row'[k] # None,
                      k \notin overtaken', k \notin editor[x].drops
               PROVE  k \in Pass[editor[x].to]
    BY <1>1 DEF DropsTell, ChangesFilter
  <2>1. CASE k = l
    BY <1>9, <2>1 DEF MissedByEdit
  <2>2. CASE k # l
    BY <1>6, <1>8, <2>2 DEF MatchInv, DropsTell
  <2> QED BY <2>1, <2>2
<1>14. NothingIsDropped'
  <2> SUFFICES ASSUME NEW k \in Lots, Asked(k)
               PROVE  UnderWay(k)' \/ UpToDate(k)' \/ k \in excuse \cup overtaken'
    BY <1>1 DEF NothingIsDropped, Asked, Live
  <2>1. CASE k = l
    <3>1. l \in overtaken' \/ (row'[l] = r /\ r.version = query.version)
      BY <1>5, <1>6, <1>9
    <3>2. r # None
      BY <1>5, NoneIsNoRecord
    <3>3. analyzed[l] >= analyzed[l]
      BY <1>3
    <3> QED BY <1>1, <1>5, <2>1, <3>1, <3>2, <3>3 DEF UpToDate
  <2>2. CASE k # l
    <3>1. UnderWay(k) => UnderWay(k)'
      BY <1>1, <1>7, <2>2 DEF UnderWay, l, j
    <3>2. UpToDate(k) => UpToDate(k)'
      BY <1>1, <1>6, <2>2 DEF UpToDate
    <3> QED BY <1>8, <2>2, <3>1, <3>2 DEF MatchInv, NothingIsDropped
  <2> QED BY <2>1, <2>2
<1> QED BY <1>10, <1>11, <1>12, <1>13, <1>14, <1>15 DEF MatchInv

LEMMA MatchStep == MatchInv /\ [MatchNext]_matchVars => MatchInv'
<1> SUFFICES ASSUME MatchInv, [MatchNext]_matchVars PROVE MatchInv'
  OBVIOUS
<1>1. CASE UNCHANGED matchVars
  BY <1>1 DEF matchVars, MatchInv, MatchShape, VersionsTell, OfVersion, StampsTell, RowsPass,
              NothingIsDropped, DropsTell, ChangesFilter, Asked, Live, UnderWay, UpToDate
<1>2. CASE MatchNext
  BY <1>2, QuerySwitched, EditsPass, EditCommits, QueryDeletes, BackfillKeeps, AnalyzeKeeps,
     FanOutKeeps, MatchSkipsKeeps, MatchStartsKeeps, SaveMatchKeeps, MatchFailsKeeps
     DEF MatchNext, Edit, MatchEnds
<1> QED BY <1>1, <1>2

(* Under the current version a row was computed from the current text       *)
(* unless two edits crossed, and one no older than the analysis from that   *)
(* analysis unless the lot was analysed while the model was asked           *)
(* (queue/matching.py), for any number of lots, editors and workers.        *)
LEMMA MarksStayTrue == MatchSpec => []MarksAreTrue
<1>1. MatchInv => MarksAreTrue
  <2> SUFFICES ASSUME MatchInv, NEW l \in Lots, Live, row[l] # None
               PROVE  /\ (row[l].version = query.version /\ ~crossed) => row[l].text = query.text
                      /\ (row[l].stamp = analyzed[l] /\ l \notin overtaken) => row[l].basis = analyzed[l]
    BY DEF MarksAreTrue
  <2>1. query.state # "deleted"
    BY DEF Live
  <2> QED BY <2>1 DEF MatchInv, VersionsTell, OfVersion, StampsTell
<1> QED BY <1>1, MatchInvInit, MatchStep, PTL DEF MatchSpec

(* After an edit of the pre-filter the page of the matches shows no lot     *)
(* that the filter excludes (web/app.py:1576-1579), but for one whose match *)
(* was computed while the query or the lot changed, or written while the    *)
(* edit dropped the others.                                                 *)
LEMMA FilterIsKept == MatchSpec => []NothingExcludedIsShown
<1>1. MatchInv => NothingExcludedIsShown
  <2> SUFFICES ASSUME MatchInv, NEW l \in Shown \ overtaken PROVE l \in Pass[query.filter]
    BY DEF NothingExcludedIsShown
  <2>1. Live /\ row[l] # None /\ l \in actual
    BY DEF Shown
  <2>2. actual \subseteq Lots
    BY DEF MatchInv, MatchShape
  <2> QED BY <2>1, <2>2 DEF MatchInv, RowsPass, Live
<1> QED BY <1>1, MatchInvInit, MatchStep, PTL DEF MatchSpec

(* A match that is shown is what it says and passes the pre-filter, but for *)
(* a query or a lot that changed under its task (queue/matching.py), for    *)
(* any number of lots, editors and workers.                                 *)
THEOREM MatchesStayTrue == MatchSpec => []MatchesAreTrue
<1>1. MarksAreTrue /\ NothingExcludedIsShown => MatchesAreTrue  BY DEF MatchesAreTrue
<1> QED BY <1>1, MarksStayTrue, FilterIsKept, PTL

(* When nothing is under way every analysed lot the query asks for has a    *)
(* row that its marks call up to date, unless a failure, a switched off     *)
(* query or the limit of a backfill excuses it, or an older task wrote      *)
(* last.                                                                    *)
THEOREM NothingStaysForgotten == MatchSpec => []NothingIsForgotten
<1>1. MatchInv => NothingIsForgotten
  BY DEF MatchInv, NothingIsDropped, NothingIsForgotten, Wanted, Asked
<1> QED BY <1>1, MatchInvInit, MatchStep, PTL DEF MatchSpec

-----------------------------------------------------------------------------
(* The analysis of lots.                                                    *)

(* What a page may say: it was said of the text, or of a text near to it;  *)
(* and of the text itself unless the record is a copy.                        *)
SoundBrief(r) ==
  r \in AnalysisRows /\ <<r.of, r.sha>> \in Near /\ (r.reused = NoLot => r.of = r.sha)

LEMMA FlushedFits ==
  \A b, new \in AnalysisRows : \A read : Flushed(b, read, new) \in AnalysisRows
  BY DEF Flushed, AnalysisRows

LEMMA FlushedOverRead ==
  \A b, new \in AnalysisRows : Flushed(b, b, new) = new
  BY DEF Flushed, AnalysisRows

LEMMA RowsFit ==
  \A v \in {"llm", "older", "rules", "__force__"}, s, o \in Texts, d \in Nat,
     b \in {"llm", "rules"}, r \in Briefed \cup {NoLot} :
       LET x == AnalysisRow(v, s, o, d, b, r) IN
       /\ x \in AnalysisRows /\ x.version = v /\ x.sha = s /\ x.of = o /\ x.reused = r
  BY DEF AnalysisRow, AnalysisRows

LEMMA ForceFits ==
  \A b \in AnalysisRows : LET x == [b EXCEPT !.version = "__force__"] IN
    /\ x \in AnalysisRows /\ x.sha = b.sha /\ x.of = b.of /\ x.reused = b.reused
  BY DEF AnalysisRows

RowTable == [Briefed -> AnalysisRows \cup {NoBrief}]
PaperTable == [Briefed -> Seq(Papers)]
CallRecord == [stage : {"reading", "asking"}, lot : Briefed, doc : Nat, text : Texts,
               hash : Texts \cup {NoHash}, read : AnalysisRows \cup {NoBrief}]
BatchRecord == [on : BOOLEAN, seen : RowTable, docs : PaperTable, todo : SUBSET Briefed,
                left : Int, marked : SUBSET Briefed, hashed : SUBSET Briefed, calls : Int,
                lot : Briefed \cup {NoLot}, stage : {"idle", "reading"}]

AnalysisShape ==
  /\ papers \in PaperTable /\ (\A l \in Briefed : Len(papers[l]) > 0) /\ brief \in RowTable /\ marred \subseteq Briefed
  /\ call \in [Callers -> CallRecord \cup {IdleCaller}]
  /\ batch \in BatchRecord
  /\ batch.stage = "reading" => batch.lot \in Briefed /\ batch.on

(* The rows of documents that a session has read are still there.             *)
PapersRemain ==
  /\ \A l \in Briefed : Len(batch.docs[l]) <= Len(papers[l])
  /\ batch.on => \A l \in Briefed : Len(batch.docs[l]) > 0

(* A record that a session has read is still there.                           *)
ReadRowsRemain ==
  /\ \A c \in Callers : call[c] # IdleCaller /\ call[c].read # NoBrief
                          => brief[call[c].lot] # NoBrief
  /\ \A l \in Briefed : batch.seen[l] # NoBrief => brief[l] # NoBrief
  /\ \A l \in batch.marked : brief[l] # NoBrief

BriefsAreSound == \A l \in Briefed \ marred : brief[l] # NoBrief => SoundBrief(brief[l])

AnalysisInv == AnalysisShape /\ PapersRemain /\ ReadRowsRemain /\ BriefsAreSound

(* What a flush, a download or a new document leaves of the rows.             *)
LEMMA ExceptFits ==
  \A s \in Seq(Papers), d \in Nat : \A r : (d \in DOMAIN s => r \in Papers) =>
    LET x == [s EXCEPT ![d] = r] IN x \in Seq(Papers) /\ Len(x) = Len(s)
<1> SUFFICES ASSUME NEW s \in Seq(Papers), NEW d \in Nat, NEW r, d \in DOMAIN s => r \in Papers
             PROVE  LET x == [s EXCEPT ![d] = r] IN x \in Seq(Papers) /\ Len(x) = Len(s)
  OBVIOUS
<1>1. DOMAIN s = 1..Len(s) /\ s \in [1..Len(s) -> Papers]
  OBVIOUS
<1>2. CASE d \in DOMAIN s
  BY <1>1, <1>2, ExceptSeq
<1>3. CASE d \notin DOMAIN s
  <2>1. [s EXCEPT ![d] = r] = s
    BY <1>1, <1>3
  <2> QED BY <2>1
<1> QED BY <1>2, <1>3

LEMMA HashFits ==
  \A s \in Seq(Papers), d \in Nat, hash \in Texts \cup {NoHash} :
    LET x == [s EXCEPT ![d].hash = hash] IN x \in Seq(Papers) /\ Len(x) = Len(s)
<1> SUFFICES ASSUME NEW s \in Seq(Papers), NEW d \in Nat, NEW hash \in Texts \cup {NoHash}
             PROVE  LET x == [s EXCEPT ![d].hash = hash] IN x \in Seq(Papers) /\ Len(x) = Len(s)
  OBVIOUS
<1> DEFINE p == s[d]
           r == [p EXCEPT !.hash = hash]
           x == [s EXCEPT ![d] = r]
<1>1. d \in DOMAIN s => p \in Papers
  OBVIOUS
<1> HIDE DEF p
<1>3. p \in Papers => r \in Papers
  BY DEF Papers
<1> HIDE DEF r
<1>2. x \in Seq(Papers) /\ Len(x) = Len(s)
  BY <1>1, <1>3, ExceptFits
<1> QED BY <1>2 DEF r, p

LEMMA DownloadFits ==
  \A s \in Seq(Papers), text \in Texts :
    LET x == [s EXCEPT ![Len(s)].text = text] IN x \in Seq(Papers) /\ Len(x) = Len(s)
<1> SUFFICES ASSUME NEW s \in Seq(Papers), NEW text \in Texts
             PROVE  LET x == [s EXCEPT ![Len(s)].text = text] IN x \in Seq(Papers) /\ Len(x) = Len(s)
  OBVIOUS
<1> DEFINE d == Len(s)
           p == s[d]
           r == [p EXCEPT !.text = text]
           x == [s EXCEPT ![d] = r]
<1>1. d \in Nat /\ (d \in DOMAIN s => p \in Papers)
  OBVIOUS
<1> HIDE DEF d, p
<1>3. p \in Papers => r \in Papers
  BY DEF Papers
<1> HIDE DEF r
<1>2. x \in Seq(Papers) /\ Len(x) = Len(s)
  BY <1>1, <1>3, ExceptFits
<1> QED BY <1>2 DEF r, p, d

LEMMA ArrivalFits ==
  \A s \in Seq(Papers), text \in Texts :
    LET x == Append(s, Paper(text, NoHash)) IN x \in Seq(Papers) /\ Len(x) = Len(s) + 1
  BY DEF Papers, Paper

LEMMA HashedFits ==
  \A table \in PaperTable, l \in Briefed, d \in Nat, text \in Texts :
    LET after == Hashed(table, l, d, text) IN
    after \in PaperTable /\ \A m \in Briefed : Len(after[m]) = Len(table[m])
<1> SUFFICES ASSUME NEW table \in PaperTable, NEW l \in Briefed, NEW d \in Nat, NEW text \in Texts
             PROVE  LET after == Hashed(table, l, d, text) IN
                    after \in PaperTable /\ \A m \in Briefed : Len(after[m]) = Len(table[m])
  OBVIOUS
<1> DEFINE s == table[l]
           x == [s EXCEPT ![d].hash = text]
           after == [table EXCEPT ![l] = x]
<1>1. s \in Seq(Papers)
  BY DEF PaperTable
<1>2. x \in Seq(Papers) /\ Len(x) = Len(s)
  BY <1>1, HashFits
<1>3. Hashed(table, l, d, text) = after
  BY DEF Hashed
<1> HIDE DEF x
<1>4. after \in PaperTable /\ \A m \in Briefed : Len(after[m]) = Len(table[m])
  BY <1>2 DEF PaperTable
<1> QED BY <1>3, <1>4

LEMMA IdleIsNoCall == \A r \in CallRecord : r # IdleCaller
  BY DEF CallRecord, IdleCaller

LEMMA NoBatchFits ==
  /\ NoBatch \in BatchRecord /\ NoBatch.stage = "idle" /\ ~NoBatch.on /\ NoBatch.marked = {}
  /\ \A l \in Briefed : NoBatch.seen[l] = NoBrief /\ Len(NoBatch.docs[l]) = 0
<1> DEFINE none == [l \in Briefed |-> NoBrief]
           nothing == [l \in Briefed |-> <<>>]
<1>1. none \in RowTable /\ \A l \in Briefed : none[l] = NoBrief
  BY DEF RowTable
<1>2. nothing \in PaperTable /\ \A l \in Briefed : Len(nothing[l]) = 0
  BY DEF PaperTable
<1>3. NoBatch = [on |-> FALSE, seen |-> none, docs |-> nothing, todo |-> {}, left |-> 0,
                 marked |-> {}, hashed |-> {}, calls |-> 0, lot |-> NoLot, stage |-> "idle"]
  BY DEF NoBatch
<1> HIDE DEF none, nothing
<1> QED BY <1>1, <1>2, <1>3 DEF BatchRecord

LEMMA AnalysisInvInit == AnalysisInit => AnalysisInv
<1> SUFFICES ASSUME AnalysisInit PROVE AnalysisInv
  OBVIOUS
<1>1. PICK text \in [Briefed -> Texts] : papers = [l \in Briefed |-> <<Paper(text[l], NoHash)>>]
  BY DEF AnalysisInit
<1>2. PICK known \in BOOLEAN :
        brief = [l \in Briefed |->
          IF known THEN AnalysisRow("older", papers[l][1].text, papers[l][1].text, 1, "llm", NoLot)
          ELSE NoBrief]
  BY DEF AnalysisInit
<1>3. marred = {} /\ batch = NoBatch /\ call = [c \in Callers |-> IdleCaller]
  BY DEF AnalysisInit
<1>4. \A l \in Briefed : /\ papers[l] \in Seq(Papers) /\ Len(papers[l]) = 1
                         /\ papers[l][1].text \in Texts
  BY <1>1 DEF Papers, Paper
<1>5. \A l \in Briefed :
        LET x == AnalysisRow("older", papers[l][1].text, papers[l][1].text, 1, "llm", NoLot) IN
        SoundBrief(x)
  BY <1>4, RowsFit, AnalysisAssumption DEF SoundBrief
<1>6. \A l \in Briefed : brief[l] = NoBrief \/ SoundBrief(brief[l])
  BY <1>2, <1>5
<1>7. brief \in RowTable
  BY <1>2, <1>6 DEF RowTable, SoundBrief
<1>8. papers \in PaperTable
  BY <1>1, <1>4 DEF PaperTable
<1>9. AnalysisShape
  BY <1>3, <1>4, <1>7, <1>8, NoBatchFits DEF AnalysisShape
<1>10. ReadRowsRemain /\ PapersRemain
  BY <1>3, <1>4, NoBatchFits DEF ReadRowsRemain, PapersRemain
<1>11. BriefsAreSound
  BY <1>6 DEF BriefsAreSound
<1> QED BY <1>9, <1>10, <1>11 DEF AnalysisInv

WrittenOver(base, l, read, new) ==
  [base EXCEPT ![l] = IF read = NoBrief THEN new ELSE Flushed(base[l], read, new)]
TornOver(base, stains, l, read, soiled) ==
  IF soiled \/ read # base[l] THEN stains \cup {l} ELSE stains \ {l}

(* A write keeps the table sound: what it mixes counts as marred.            *)
LEMMA WriteIsSound ==
  ASSUME NEW base \in RowTable, NEW stains \in SUBSET Briefed,
         \A m \in Briefed \ stains : base[m] # NoBrief => SoundBrief(base[m]),
         NEW l \in Briefed, NEW read \in AnalysisRows \cup {NoBrief},
         read = NoBrief <=> base[l] = NoBrief,
         NEW new \in AnalysisRows, NEW soiled \in BOOLEAN, soiled \/ SoundBrief(new)
  PROVE  LET after == WrittenOver(base, l, read, new)
             stained == TornOver(base, stains, l, read, soiled) IN
         /\ after \in RowTable /\ stained \in SUBSET Briefed
         /\ after[l] # NoBrief /\ \A m \in Briefed : base[m] # NoBrief => after[m] # NoBrief
         /\ \A m \in Briefed \ stained : after[m] # NoBrief => SoundBrief(after[m])
<1> DEFINE after == WrittenOver(base, l, read, new)
           stained == TornOver(base, stains, l, read, soiled)
           r == IF read = NoBrief THEN new ELSE Flushed(base[l], read, new)
<1>1. base[l] \in AnalysisRows \cup {NoBrief}
  BY DEF RowTable
<1>2. r \in AnalysisRows /\ r # NoBrief
  BY <1>1, FlushedFits, RowAssumption
<1>3. read = base[l] => r = new
  BY <1>1, FlushedOverRead
<1> HIDE DEF r
<1>4. after = [base EXCEPT ![l] = r]
  BY DEF r, WrittenOver
<1>5. after[l] = r /\ \A m \in Briefed : m # l => after[m] = base[m]
  BY <1>4 DEF RowTable
<1>6. after \in RowTable
  BY <1>2, <1>4 DEF RowTable
<1>7. /\ l \notin stained => read = base[l] /\ SoundBrief(new)
      /\ stained \in SUBSET Briefed /\ \A m \in stains : m # l => m \in stained
  BY DEF TornOver
<1> HIDE DEF after, stained
<1>8. \A m \in Briefed \ stained : after[m] # NoBrief => SoundBrief(after[m])
  BY <1>3, <1>5, <1>7
<1>9. /\ after \in RowTable /\ stained \in SUBSET Briefed
      /\ after[l] # NoBrief /\ \A m \in Briefed : base[m] # NoBrief => after[m] # NoBrief
      /\ \A m \in Briefed \ stained : after[m] # NoBrief => SoundBrief(after[m])
  BY <1>2, <1>5, <1>6, <1>7, <1>8
<1> QED BY <1>9 DEF after, stained


(* A copy of a sound record that was analysed on its own is near to its text, *)
(* when both simhashes are of the texts of today.                             *)
LEMMA CopyIsSound ==
  ASSUME AnalysisInv, NEW l \in Briefed, NEW sha \in Texts, NEW doc \in Nat, NEW hash,
         NEW table, NEW m \in Nearest(table, l, hash), table[m] = NoBrief \/ brief[m] # NoBrief,
         table[m].reused = brief[m].reused, table[m].doc = brief[m].doc
  PROVE  /\ m \in Briefed /\ brief[m] \in AnalysisRows
         /\ Copied(sha, doc, brief[m], m) \in AnalysisRows
         /\ m \notin marred /\ ~Outdated(m, hash, sha) => SoundBrief(Copied(sha, doc, brief[m], m))
<1>1. /\ m \in Briefed /\ brief[m] # NoBrief /\ brief[m].reused = NoLot
      /\ <<HashOf(m, brief[m]), hash>> \in Near
  BY DEF Nearest, Twins, HashOf
<1>2. brief[m] \in AnalysisRows
  BY <1>1 DEF AnalysisInv, AnalysisShape, RowTable
<1> DEFINE b == brief[m]
           x == AnalysisRow("llm", sha, b.of, doc, b.by, m)
<1>3. b.of \in Texts /\ b.by \in {"llm", "rules"}
  BY <1>2 DEF AnalysisRows
<1>4. x \in AnalysisRows /\ x.sha = sha /\ x.of = b.of /\ x.reused = m
  <2>1. "llm" \in {"llm", "older", "rules", "__force__"} /\ m \in Briefed \cup {NoLot}
    BY <1>1
  <2> HIDE DEF b
  <2> QED BY <1>3, <2>1, RowsFit
<1>5. m \notin marred => b.of = b.sha
  BY <1>1 DEF AnalysisInv, BriefsAreSound, SoundBrief
<1>6. m # NoLot
  BY <1>1, AnalysisAssumption
<1>7. ~Outdated(m, hash, sha) => <<b.sha, sha>> \in Near
  BY <1>1 DEF Outdated
<1>8. m \notin marred /\ ~Outdated(m, hash, sha) => SoundBrief(x)
  BY <1>4, <1>5, <1>6, <1>7 DEF SoundBrief
<1> QED BY <1>1, <1>2, <1>4, <1>8 DEF Copied

LEMMA OwnIsSound ==
  \A sha, text \in Texts, doc \in Nat :
    /\ ByRules(sha, doc, text) \in AnalysisRows /\ Answered(sha, doc, text) \in AnalysisRows
    /\ sha = text => SoundBrief(ByRules(sha, doc, text)) /\ SoundBrief(Answered(sha, doc, text))
  BY RowsFit, AnalysisAssumption DEF SoundBrief, ByRules, Answered

LEMMA QuietKeeps ==
  ASSUME AnalysisInv,
         \/ \E l \in Briefed, t \in Texts : NewDocument(l, t) \/ DownloadedAgain(l, t)
         \/ ChatAnswered \/ ChatEmpty \/ UNCHANGED analysisVars
  PROVE  AnalysisInv'
<1>1. UNCHANGED <<brief, call, batch, marred>>
  BY DEF NewDocument, DownloadedAgain, ChatAnswered, ChatEmpty, analysisVars
<1>2. papers \in PaperTable
  BY DEF AnalysisInv, AnalysisShape
<1>3. papers' \in PaperTable /\ \A l \in Briefed : Len(papers'[l]) >= Len(papers[l])
  <2>1. CASE ChatAnswered \/ ChatEmpty \/ UNCHANGED analysisVars
    BY <1>2, <2>1 DEF ChatAnswered, ChatEmpty, analysisVars, PaperTable
  <2>2. ASSUME NEW l \in Briefed, NEW t \in Texts, NewDocument(l, t) \/ DownloadedAgain(l, t)
        PROVE  papers' \in PaperTable /\ \A m \in Briefed : Len(papers'[m]) >= Len(papers[m])
    <3> DEFINE s == papers[l]
               x == IF NewDocument(l, t) THEN Append(s, Paper(t, NoHash))
                                         ELSE [s EXCEPT ![Len(s)].text = t]
    <3>1. s \in Seq(Papers)
      BY <1>2 DEF PaperTable
    <3>2. x \in Seq(Papers) /\ Len(x) >= Len(s)
      BY <3>1, ArrivalFits, DownloadFits
    <3>3. papers' = [papers EXCEPT ![l] = x]
      BY <2>2 DEF NewDocument, DownloadedAgain
    <3> HIDE DEF x
    <3> QED BY <1>2, <3>2, <3>3 DEF PaperTable
  <2> QED BY <2>1, <2>2
<1>4. AnalysisShape'
  <2>1. \A l \in Briefed : Len(papers[l]) \in Nat /\ Len(papers'[l]) \in Nat
    BY <1>2, <1>3 DEF PaperTable
  <2> QED BY <1>1, <1>3, <2>1 DEF AnalysisInv, AnalysisShape
<1>5. PapersRemain'
  <2>1. \A l \in Briefed : /\ Len(papers[l]) \in Nat /\ Len(papers'[l]) \in Nat
                           /\ Len(batch.docs[l]) \in Nat
    BY <1>2, <1>3 DEF PaperTable, AnalysisInv, AnalysisShape, BatchRecord
  <2> QED BY <1>1, <1>3, <2>1 DEF AnalysisInv, PapersRemain
<1> QED BY <1>1, <1>4, <1>5 DEF AnalysisInv, ReadRowsRemain, BriefsAreSound

LEMMA CallsKeep ==
  ASSUME AnalysisInv, NEW c \in Callers,
         \/ \E l \in Briefed : AnalysisStarts(c, l)
         \/ CallerAsks(c) \/ CallerAnswerUnfit(c) \/ CallerGivesUp(c)
  PROVE  AnalysisInv'
<1>1. UNCHANGED <<papers, brief, batch, marred>>
  BY DEF AnalysisStarts, CallerAsks, CallerAnswerUnfit, CallerGivesUp
<1>2. call \in [Callers -> CallRecord \cup {IdleCaller}] /\ AnalysisShape /\ ReadRowsRemain
  BY DEF AnalysisInv, AnalysisShape
<1>3. PICK r \in CallRecord \cup {IdleCaller} :
        /\ call' = [call EXCEPT ![c] = r]
        /\ r # IdleCaller /\ r.read # NoBrief => brief[r.lot] # NoBrief
  <2>1. CASE CallerAnswerUnfit(c) \/ CallerGivesUp(c)
    BY <2>1 DEF CallerAnswerUnfit, CallerGivesUp
  <2>2. ASSUME NEW l \in Briefed, AnalysisStarts(c, l)
        PROVE  \E r \in CallRecord \cup {IdleCaller} :
                 /\ call' = [call EXCEPT ![c] = r]
                 /\ r # IdleCaller /\ r.read # NoBrief => brief[r.lot] # NoBrief
    <3> DEFINE doc == Len(papers[l])
               text == papers[l][doc].text
               hash == papers[l][doc].hash
               record == brief[l]
               r == [stage |-> "reading", lot |-> l, doc |-> doc, text |-> text, hash |-> hash,
                     read |-> record]
    <3>1. doc \in Nat /\ text \in Texts /\ hash \in Texts \cup {NoHash}
          /\ record \in AnalysisRows \cup {NoBrief}
      <4>1. papers[l] \in Seq(Papers) /\ Len(papers[l]) > 0 /\ record \in AnalysisRows \cup {NoBrief}
        BY <1>2 DEF AnalysisShape, PaperTable, RowTable
      <4>2. papers[l][doc] \in Papers /\ doc \in Nat
        BY <4>1
      <4> QED BY <4>1, <4>2 DEF Papers
    <3>2. call' = [call EXCEPT ![c] = r]
      BY <2>2 DEF AnalysisStarts
    <3>3. r.read = brief[l] /\ r.lot = l
      OBVIOUS
    <3> HIDE DEF doc, text, hash, record
    <3>4. r \in CallRecord
      BY <3>1 DEF CallRecord
    <3> HIDE DEF r
    <3> QED BY <3>2, <3>3, <3>4
  <2>3. CASE CallerAsks(c)
    <3> DEFINE s == call[c]
               r == [s EXCEPT !.stage = "asking"]
    <3>1. s \in CallRecord /\ call' = [call EXCEPT ![c] = r]
      BY <1>2, <2>3 DEF CallerAsks, CallerReads, IdleCaller
    <3>2. s.read # NoBrief => brief[s.lot] # NoBrief
      BY <1>2, <3>1, IdleIsNoCall DEF ReadRowsRemain
    <3> HIDE DEF s
    <3>3. r \in CallRecord /\ r.read = s.read /\ r.lot = s.lot
      BY <3>1 DEF CallRecord
    <3> HIDE DEF r
    <3> QED BY <3>1, <3>2, <3>3
  <2> QED BY <2>1, <2>2, <2>3
<1>4. call' \in [Callers -> CallRecord \cup {IdleCaller}]
  BY <1>2, <1>3
<1>5. \A d \in Callers : call'[d] = call[d] \/ call'[d] = r
  BY <1>2, <1>3
<1>6. AnalysisShape'
  BY <1>1, <1>2, <1>4 DEF AnalysisShape
<1>7. ReadRowsRemain'
  BY <1>1, <1>2, <1>3, <1>5 DEF ReadRowsRemain
<1>8. BriefsAreSound' /\ PapersRemain'
  BY <1>1 DEF AnalysisInv, BriefsAreSound, PapersRemain
<1> QED BY <1>6, <1>7, <1>8 DEF AnalysisInv

LEMMA CallWrites ==
  ASSUME AnalysisInv, NEW c \in Callers, call[c].stage \in {"reading", "asking"},
         NEW new \in AnalysisRows, NEW soiled \in BOOLEAN, soiled \/ SoundBrief(new),
         Writes(call[c], new, soiled),
         call' = [call EXCEPT ![c] = IdleCaller], UNCHANGED batch
  PROVE  AnalysisInv'
<1> DEFINE k == call[c]
           l == call[c].lot
           read == call[c].read
<1>1. k \in CallRecord /\ AnalysisShape /\ ReadRowsRemain /\ PapersRemain
  BY DEF AnalysisInv, AnalysisShape, IdleCaller
<1>2. l \in Briefed /\ read \in AnalysisRows \cup {NoBrief}
  BY <1>1 DEF CallRecord
<1>3. read = NoBrief <=> brief[l] = NoBrief
  BY <1>1, IdleIsNoCall DEF ReadRowsRemain, Conflicts, Writes
<1>4. brief \in RowTable /\ marred \in SUBSET Briefed
      /\ \A m \in Briefed \ marred : brief[m] # NoBrief => SoundBrief(brief[m])
  BY DEF AnalysisInv, AnalysisShape, BriefsAreSound
<1>5. brief' = WrittenOver(brief, l, read, new) /\ marred' = TornOver(brief, marred, l, read, soiled)
  BY DEF Writes, WrittenOver, TornOver
<1>14. papers' \in PaperTable /\ \A m \in Briefed : Len(papers'[m]) = Len(papers[m])
  <2>1. papers \in PaperTable /\ k.doc \in Nat /\ k.text \in Texts /\ k.lot \in Briefed
    BY <1>1 DEF AnalysisShape, CallRecord
  <2>2. papers' = papers \/ papers' = Hashed(papers, k.lot, k.doc, k.text)
    BY DEF Writes
  <2> HIDE DEF k
  <2> QED BY <2>1, <2>2, HashedFits
<1> HIDE DEF k, l, read
<1>6. /\ brief' \in RowTable /\ marred' \in SUBSET Briefed
      /\ \A m \in Briefed : brief[m] # NoBrief => brief'[m] # NoBrief
      /\ \A m \in Briefed \ marred' : brief'[m] # NoBrief => SoundBrief(brief'[m])
  <2> DEFINE after == WrittenOver(brief, l, read, new)
             stained == TornOver(brief, marred, l, read, soiled)
  <2>1. /\ after \in RowTable /\ stained \in SUBSET Briefed
        /\ \A m \in Briefed : brief[m] # NoBrief => after[m] # NoBrief
        /\ \A m \in Briefed \ stained : after[m] # NoBrief => SoundBrief(after[m])
    BY <1>2, <1>3, <1>4, WriteIsSound
  <2> QED BY <1>5, <2>1
<1>7. call' \in [Callers -> CallRecord \cup {IdleCaller}]
      /\ \A d \in Callers : call'[d] = call[d] \/ call'[d] = IdleCaller
  BY <1>1 DEF AnalysisShape
<1>8. AnalysisShape' /\ PapersRemain'
  BY <1>1, <1>6, <1>7, <1>14 DEF AnalysisShape, PapersRemain
<1>9. ReadRowsRemain'
  <2>1. \A d \in Callers : call[d] # IdleCaller => call[d].lot \in Briefed
    BY <1>1 DEF AnalysisShape, CallRecord
  <2>2. batch.marked \subseteq Briefed
    BY <1>1 DEF AnalysisShape, BatchRecord
  <2> QED BY <1>1, <1>6, <1>7, <2>1, <2>2 DEF ReadRowsRemain
<1>10. BriefsAreSound'
  BY <1>6 DEF BriefsAreSound
<1> QED BY <1>8, <1>9, <1>10 DEF AnalysisInv

LEMMA CallersKeep ==
  ASSUME AnalysisInv, NEW c \in Callers,
         CallerCopies(c) \/ CallerTakesRules(c) \/ CallerAnswered(c)
  PROVE  AnalysisInv'
<1> DEFINE k == call[c]
<1>1. k.stage \in {"reading", "asking"} /\ call' = [call EXCEPT ![c] = IdleCaller]
      /\ UNCHANGED batch
  BY DEF CallerCopies, CallerTakesRules, CallerAnswered, CallerReads
<1>2. k.lot \in Briefed /\ k.text \in Texts /\ k.doc \in Nat
  <2>1. k \in CallRecord
    BY <1>1 DEF AnalysisInv, AnalysisShape, IdleCaller
  <2> QED BY <2>1 DEF CallRecord
<1>3. CASE CallerCopies(c)
  <2> DEFINE own == Own(k.hash, k.text)
  <2>1. PICK m \in Nearest(brief, k.lot, own) :
          Writes(k, Copied(k.text, k.doc, brief[m], m), m \in marred \/ Outdated(m, own, k.text))
    BY <1>3 DEF CallerCopies
  <2> DEFINE new == Copied(k.text, k.doc, brief[m], m)
             soiled == m \in marred \/ Outdated(m, own, k.text)
  <2>2. brief[m] # NoBrief
    BY <2>1 DEF Nearest, Twins
  <2>3. new \in AnalysisRows /\ (soiled \/ SoundBrief(new))
    BY <1>2, <2>1, <2>2, CopyIsSound
  <2>4. Writes(k, new, soiled) /\ soiled \in BOOLEAN
    BY <2>1 DEF Outdated
  <2> HIDE DEF new, soiled
  <2> QED BY <1>1, <2>3, <2>4, CallWrites
<1>4. CASE CallerTakesRules(c)
  <2> DEFINE new == ByRules(k.text, k.doc, k.text)
  <2>1. SoundBrief(new) /\ new \in AnalysisRows
    BY <1>2, OwnIsSound
  <2>2. Writes(k, new, FALSE)
    BY <1>4 DEF CallerTakesRules
  <2> HIDE DEF new
  <2> QED BY <1>1, <2>1, <2>2, CallWrites
<1>5. CASE CallerAnswered(c)
  <2> DEFINE new == Answered(k.text, k.doc, k.text)
  <2>1. SoundBrief(new) /\ new \in AnalysisRows
    BY <1>2, OwnIsSound
  <2>2. Writes(k, new, FALSE)
    BY <1>5 DEF CallerAnswered
  <2> HIDE DEF new
  <2> QED BY <1>1, <2>1, <2>2, CallWrites
<1> QED BY <1>3, <1>4, <1>5

(* The session of `reanalyze` moves on without writing a record.              *)
LEMMA BatchMoves ==
  ASSUME AnalysisInv, UNCHANGED <<papers, brief, call, marred>>, batch' \in BatchRecord,
         batch'.stage = "reading" => batch'.lot \in Briefed /\ batch'.on,
         batch'.on => \A l \in Briefed : Len(batch'.docs[l]) > 0,
         \A l \in Briefed : Len(batch'.docs[l]) <= Len(papers[l]),
         \A l \in Briefed : batch'.seen[l] # NoBrief => brief[l] # NoBrief,
         \A l \in batch'.marked : brief[l] # NoBrief
  PROVE  AnalysisInv'
<1>1. AnalysisShape'
  BY DEF AnalysisInv, AnalysisShape
<1>2. ReadRowsRemain' /\ PapersRemain'
  BY DEF AnalysisInv, ReadRowsRemain, PapersRemain
<1>3. BriefsAreSound'
  BY DEF AnalysisInv, BriefsAreSound
<1> QED BY <1>1, <1>2, <1>3 DEF AnalysisInv

LEMMA BatchFits ==
  ASSUME AnalysisInv
  PROVE  /\ batch \in BatchRecord /\ brief \in RowTable /\ papers \in PaperTable
         /\ \A l \in Briefed : batch.seen[l] # NoBrief => brief[l] # NoBrief
         /\ \A l \in batch.marked : l \in Briefed /\ brief[l] # NoBrief
         /\ \A l \in Briefed : Len(batch.docs[l]) <= Len(papers[l])
         /\ batch.on => \A l \in Briefed : Len(batch.docs[l]) > 0
         /\ batch.stage = "reading" => batch.lot \in Briefed /\ batch.on
  BY DEF AnalysisInv, AnalysisShape, ReadRowsRemain, PapersRemain, BatchRecord

LEMMA OwnFits == \A hash \in Texts \cup {NoHash}, text \in Texts : Own(hash, text) \in Texts
  BY DEF Own

(* The document the session reads: its row as of the start, its file as of now. *)
LEMMA BatchReadsPaper ==
  ASSUME AnalysisInv, batch.stage = "reading"
  PROVE  /\ batch.lot \in Briefed /\ BatchDoc \in Nat
         /\ BatchPaper.text \in Texts /\ BatchText \in Texts /\ BatchOwn \in Texts
<1> DEFINE l == batch.lot
           old == batch.docs[l]
           now == papers[l]
           d == Len(old)
<1>1. l \in Briefed /\ old \in Seq(Papers) /\ now \in Seq(Papers) /\ 0 < d /\ d <= Len(now)
  BY BatchFits DEF BatchRecord, PaperTable
<1>2. BatchDoc = d /\ BatchPaper = old[d] /\ BatchText = now[d].text
  BY DEF BatchDoc, BatchPaper, BatchText
<1> HIDE DEF old, now
<1>3. d \in Nat /\ old[d] \in Papers /\ now[d] \in Papers
  BY <1>1
<1>4. old[d].text \in Texts /\ old[d].hash \in Texts \cup {NoHash} /\ now[d].text \in Texts
  BY <1>3 DEF Papers
<1> HIDE DEF d
<1>5. BatchOwn = Own(old[d].hash, now[d].text)
  BY <1>2 DEF BatchOwn
<1> QED BY <1>1, <1>2, <1>3, <1>4, <1>5, OwnFits

(* What the commit publishes of the simhashes leaves rows of documents.       *)
LEMMA PublishedFits ==
  ASSUME AnalysisInv, batch.stage = "reading"
  PROVE  HashesPublished \in PaperTable
         /\ \A l \in Briefed : Len(HashesPublished[l]) = Len(papers[l])
<1>1. \A l \in Briefed : /\ HashesPublished[l] \in Seq(Papers)
                         /\ Len(HashesPublished[l]) = Len(papers[l])
  <2> SUFFICES ASSUME NEW l \in Briefed
               PROVE  /\ HashesPublished[l] \in Seq(Papers)
                      /\ Len(HashesPublished[l]) = Len(papers[l])
    OBVIOUS
  <2> DEFINE old == batch.docs[l]
             now == papers[l]
             d == Len(old)
             hash == IF l = batch.lot THEN BatchOwn ELSE old[d].hash
  <2>1. old \in Seq(Papers) /\ now \in Seq(Papers) /\ 0 < d
    BY BatchFits DEF BatchRecord, PaperTable
  <2>2. HashesPublished[l] = now \/ HashesPublished[l] = [now EXCEPT ![d].hash = hash]
    BY DEF HashesPublished
  <2>3. d \in Nat /\ hash \in Texts \cup {NoHash}
    <3> HIDE DEF old
    <3>1. d \in Nat /\ old[d] \in Papers
      BY <2>1
    <3> HIDE DEF d
    <3>2. old[d].hash \in Texts \cup {NoHash}
      BY <3>1 DEF Papers
    <3> QED BY <3>1, <3>2, BatchReadsPaper
  <2> HIDE DEF d, hash
  <2>4. LET x == [now EXCEPT ![d].hash = hash] IN x \in Seq(Papers) /\ Len(x) = Len(now)
    BY <2>1, <2>3, HashFits
  <2> QED BY <2>1, <2>2, <2>4
<1>2. DOMAIN HashesPublished = Briefed /\ HashesPublished = [l \in Briefed |-> HashesPublished[l]]
  BY DEF HashesPublished
<1> HIDE DEF HashesPublished
<1> QED BY <1>1, <1>2 DEF PaperTable

(* What single steps of the session leave of its record.                   *)
LEMMA BatchOpens ==
  ASSUME NEW b \in BatchRecord, NEW n \in Int
  PROVE  LET r == [b EXCEPT !.on = TRUE, !.left = n, !.todo = Briefed] IN
         r \in BatchRecord /\ r.on /\ r.lot = b.lot /\ r.stage = b.stage
  BY DEF BatchRecord

LEMMA BatchReadsDocs ==
  ASSUME NEW b \in BatchRecord, NEW docs \in PaperTable
  PROVE  LET r == [b EXCEPT !.calls = 0, !.docs = docs] IN
         r \in BatchRecord /\ r.on = b.on /\ r.lot = b.lot /\ r.stage = b.stage /\ r.docs = docs
<1> DEFINE r1 == [b EXCEPT !.calls = 0]
           r == [r1 EXCEPT !.docs = docs]
<1>1. r1 \in BatchRecord /\ r1.on = b.on /\ r1.lot = b.lot /\ r1.stage = b.stage
  BY DEF BatchRecord
<1> HIDE DEF r1
<1>2. r \in BatchRecord /\ r.on = r1.on /\ r.lot = r1.lot /\ r.stage = r1.stage /\ r.docs = docs
  BY <1>1 DEF BatchRecord
<1> QED BY <1>1, <1>2 DEF r1

LEMMA BatchRests ==
  ASSUME NEW b \in BatchRecord
  PROVE  LET r == [b EXCEPT !.calls = 0, !.marked = {}] IN
         r \in BatchRecord /\ r.stage = b.stage /\ r.seen = b.seen /\ r.docs = b.docs /\ r.marked = {}
<1> DEFINE r1 == [b EXCEPT !.calls = 0]
           r == [r1 EXCEPT !.marked = {}]
<1>1. r1 \in BatchRecord /\ r1.stage = b.stage /\ r1.seen = b.seen /\ r1.docs = b.docs
  BY DEF BatchRecord
<1> HIDE DEF r1
<1>2. r \in BatchRecord /\ r.stage = r1.stage /\ r.seen = r1.seen /\ r.docs = r1.docs /\ r.marked = {}
  BY <1>1 DEF BatchRecord
<1> QED BY <1>1, <1>2 DEF r1

LEMMA BatchCounts ==
  ASSUME NEW b \in BatchRecord, NEW l
  PROVE  LET r == [b EXCEPT !.hashed = {}, !.left = @ - 1, !.todo = @ \ {l}] IN
         /\ r \in BatchRecord /\ r.stage = b.stage /\ r.seen = b.seen
         /\ r.docs = b.docs /\ r.marked = b.marked
<1> DEFINE r0 == [b EXCEPT !.hashed = {}]
           r1 == [r0 EXCEPT !.left = @ - 1]
           r == [r1 EXCEPT !.todo = @ \ {l}]
<1>0. /\ r0 \in BatchRecord /\ r0.stage = b.stage /\ r0.seen = b.seen
      /\ r0.docs = b.docs /\ r0.marked = b.marked
  BY DEF BatchRecord
<1> HIDE DEF r0
<1>1. /\ r1 \in BatchRecord /\ r1.stage = r0.stage /\ r1.seen = r0.seen
      /\ r1.docs = r0.docs /\ r1.marked = r0.marked
  BY <1>0 DEF BatchRecord
<1> HIDE DEF r1
<1>2. /\ r \in BatchRecord /\ r.stage = r1.stage /\ r.seen = r1.seen
      /\ r.docs = r1.docs /\ r.marked = r1.marked
  BY <1>1 DEF BatchRecord
<1> QED BY <1>0, <1>1, <1>2 DEF r1, r0

LEMMA BatchKeeps ==
  ASSUME AnalysisInv,
         \/ \E l \in Briefed : BatchTakes(l)
         \/ BatchSkips \/ BatchUnanswered \/ BatchEnds
  PROVE  AnalysisInv'
<1>1. UNCHANGED <<papers, brief, call, marred>>
  BY DEF BatchTakes, BatchSkips, BatchUnanswered, BatchEnds
<1> DEFINE b == batch
<1>2. /\ b \in BatchRecord /\ papers \in PaperTable
      /\ \A l \in Briefed : b.seen[l] # NoBrief => brief[l] # NoBrief
      /\ \A l \in b.marked : brief[l] # NoBrief
      /\ \A l \in Briefed : Len(b.docs[l]) <= Len(papers[l])
      /\ b.on => \A l \in Briefed : Len(b.docs[l]) > 0
  BY BatchFits
<1>3. CASE BatchEnds
  <2>1. batch' = NoBatch
    BY <1>3 DEF BatchEnds
  <2>2. \A l \in Briefed : Len(papers[l]) >= 0
    BY <1>2 DEF PaperTable
  <2> QED BY <1>1, <2>1, <2>2, NoBatchFits, BatchMoves
<1>4. ASSUME NEW l \in Briefed, BatchTakes(l)
      PROVE  AnalysisInv'
  <2> DEFINE r == [b EXCEPT !.stage = "reading", !.lot = l]
  <2>1. batch' = r /\ b.on
    BY <1>4 DEF BatchTakes
  <2> HIDE DEF b
  <2>2. /\ r \in BatchRecord /\ r.lot = l /\ r.on = b.on /\ r.seen = b.seen
        /\ r.docs = b.docs /\ r.marked = b.marked
    BY <1>2 DEF BatchRecord
  <2> HIDE DEF r
  <2> QED BY <1>1, <1>2, <2>1, <2>2, BatchMoves
<1>5. CASE BatchSkips \/ BatchUnanswered
  <2> DEFINE r == [b EXCEPT !.stage = "idle", !.lot = NoLot, !.todo = @ \ {b.lot}]
             docs == Hashed(b.docs, b.lot, BatchDoc, BatchOwn)
             some == Flushing
  <2>0. b.stage = "reading"
    BY <1>5 DEF BatchSkips, BatchUnanswered, BatchMustAsk, BatchReads
  <2>1. /\ docs \in PaperTable /\ \A l \in Briefed : Len(docs[l]) = Len(b.docs[l])
        /\ some \in SUBSET Briefed
    <3>1. b.docs \in PaperTable /\ b.hashed \in SUBSET Briefed
      BY <1>2 DEF BatchRecord
    <3>2. b.lot \in Briefed /\ BatchDoc \in Nat /\ BatchOwn \in Texts
      BY <2>0, BatchReadsPaper
    <3> QED BY <3>1, <3>2, HashedFits DEF Flushing
  <2>2. PICK fit \in {0, 1} :
          \/ batch' = r
          \/ batch' = [b EXCEPT !.stage = "idle", !.lot = NoLot, !.todo = @ \ {b.lot},
                         !.calls = @ + fit, !.hashed = Flushing,
                         !.docs[b.lot][BatchDoc].hash = BatchOwn]
    BY <1>5 DEF BatchSkips, BatchUnanswered
  <2> HIDE DEF b, some
  <2>3. r \in BatchRecord /\ r.stage = "idle" /\ r.seen = b.seen /\ r.marked = b.marked
        /\ r.docs = b.docs /\ r.calls = b.calls /\ r.on = b.on
    BY <1>2 DEF BatchRecord
  <2> DEFINE n == b.calls + fit
             q1 == [r EXCEPT !.calls = n]
             q2 == [q1 EXCEPT !.hashed = some]
             q == [q2 EXCEPT !.docs = docs]
  <2>4. batch' = r \/ batch' = q
    BY <2>2, <2>3 DEF Hashed, some
  <2>5. n \in Int
    BY <1>2 DEF BatchRecord
  <2> HIDE DEF r, n, docs
  <2>6. /\ q \in BatchRecord /\ q.stage = r.stage /\ q.seen = r.seen /\ q.marked = r.marked
        /\ q.docs = docs /\ q.on = r.on
    <3>1. /\ q1 \in BatchRecord /\ q1.stage = r.stage /\ q1.seen = r.seen /\ q1.marked = r.marked
          /\ q1.on = r.on
      BY <2>3, <2>5 DEF BatchRecord
    <3> HIDE DEF q1
    <3>2. /\ q2 \in BatchRecord /\ q2.stage = q1.stage /\ q2.seen = q1.seen /\ q2.marked = q1.marked
          /\ q2.on = q1.on
      BY <2>1, <3>1 DEF BatchRecord
    <3> HIDE DEF q2
    <3>3. /\ q \in BatchRecord /\ q.stage = q2.stage /\ q.seen = q2.seen /\ q.marked = q2.marked
          /\ q.docs = docs /\ q.on = q2.on
      BY <2>1, <3>2 DEF BatchRecord
    <3> QED BY <3>1, <3>2, <3>3 DEF q1, q2
  <2> HIDE DEF q
  <2> QED BY <1>1, <1>2, <2>1, <2>3, <2>4, <2>6, BatchMoves
<1> QED BY <1>3, <1>4, <1>5

LEMMA BatchStartKeeps ==
  ASSUME AnalysisInv, NEW force \in BOOLEAN, BatchStarts(force)
  PROVE  AnalysisInv'
<1> DEFINE b == batch
           records == {l \in Briefed : brief[l] # NoBrief}
           marked == IF force THEN records ELSE {}
           seen == [l \in Briefed |-> IF force /\ l \in records
                       THEN [brief[l] EXCEPT !.version = "__force__"] ELSE brief[l]]
           r == [b EXCEPT !.on = TRUE, !.left = BatchLimit, !.todo = Briefed, !.calls = 0,
                          !.docs = papers, !.seen = seen, !.marked = marked]
<1>1. batch' = r /\ UNCHANGED <<papers, brief, call, marred>>
  BY DEF BatchStarts
<1>2. /\ b \in BatchRecord /\ (b.stage = "reading" => b.lot \in Briefed) /\ brief \in RowTable
      /\ papers \in PaperTable /\ \A l \in Briefed : Len(papers[l]) > 0 /\ Len(papers[l]) \in Nat
  <2>1. papers \in PaperTable /\ \A l \in Briefed : Len(papers[l]) > 0
    BY DEF AnalysisInv, AnalysisShape
  <2> QED BY <2>1, BatchFits DEF PaperTable
<1>3. \A l \in Briefed : /\ seen[l] \in AnalysisRows \cup {NoBrief}
                         /\ seen[l] # NoBrief => brief[l] # NoBrief
  BY <1>2, ForceFits DEF RowTable
<1>4. seen \in RowTable
  BY <1>3 DEF RowTable
<1>5. marked \subseteq Briefed /\ \A l \in marked : brief[l] # NoBrief
  OBVIOUS
<1> HIDE DEF b, seen, marked
<1>6. /\ r \in BatchRecord /\ r.on /\ r.stage = b.stage /\ r.lot = b.lot
      /\ r.docs = papers /\ r.seen = seen /\ r.marked = marked
  <2> DEFINE r1 == [b EXCEPT !.on = TRUE, !.left = BatchLimit, !.todo = Briefed]
             r0 == [r1 EXCEPT !.calls = 0, !.docs = papers]
             r2 == [r0 EXCEPT !.seen = seen]
  <2>1. r1 \in BatchRecord /\ r1.on /\ r1.lot = b.lot /\ r1.stage = b.stage
    <3>1. BatchLimit \in Int
      BY RowAssumption
    <3> QED BY <1>2, <3>1, BatchOpens
  <2>2. r = [r2 EXCEPT !.marked = marked]
    OBVIOUS
  <2> HIDE DEF r1, r
  <2>3. /\ r2 \in BatchRecord /\ r2.on = r1.on /\ r2.lot = r1.lot /\ r2.stage = r1.stage
        /\ r2.docs = papers /\ r2.seen = seen
    <3>1. /\ r0 \in BatchRecord /\ r0.on = r1.on /\ r0.lot = r1.lot /\ r0.stage = r1.stage
          /\ r0.docs = papers
      BY <1>2, <2>1, BatchReadsDocs
    <3> HIDE DEF r0
    <3> QED BY <1>4, <3>1 DEF BatchRecord
  <2> HIDE DEF r2
  <2>4. /\ r \in BatchRecord /\ r.on = r2.on /\ r.lot = r2.lot /\ r.stage = r2.stage
        /\ r.docs = r2.docs /\ r.seen = r2.seen /\ r.marked = marked
    BY <1>5, <2>2, <2>3 DEF BatchRecord
  <2> QED BY <2>1, <2>3, <2>4
<1> HIDE DEF r
<1> QED BY <1>1, <1>2, <1>3, <1>5, <1>6, BatchMoves

(* Its commit publishes the marks with the record, and keeps the table sound. *)
LEMMA BatchWriteKeeps ==
  ASSUME AnalysisInv, batch.stage = "reading", NEW new \in AnalysisRows,
         NEW soiled \in BOOLEAN, soiled \/ SoundBrief(new), NEW answers,
         BatchWrites(new, soiled, answers), UNCHANGED call
  PROVE  AnalysisInv'
<1> DEFINE b == batch
           l == batch.lot
           read == batch.seen[l]
           base == BatchTable
           d == BatchDoc
           own == BatchOwn
<1>1. /\ b \in BatchRecord /\ brief \in RowTable /\ l \in Briefed
      /\ \A m \in Briefed : b.seen[m] # NoBrief => brief[m] # NoBrief
      /\ \A m \in b.marked : brief[m] # NoBrief
      /\ \A m \in Briefed : Len(b.docs[m]) <= Len(papers[m])
      /\ b.on => \A m \in Briefed : Len(b.docs[m]) > 0
  BY BatchFits
<1>14. d \in Nat /\ own \in Texts
  BY BatchReadsPaper
<1>15. papers' \in PaperTable /\ \A m \in Briefed : Len(papers'[m]) = Len(papers[m])
  BY PublishedFits DEF BatchWrites
<1>2. \A m \in Briefed : b.seen[m] \in AnalysisRows \cup {NoBrief}
  BY <1>1 DEF BatchRecord, RowTable
<1>3. \A m \in Briefed : /\ base[m] \in AnalysisRows \cup {NoBrief}
                         /\ base[m] = NoBrief <=> brief[m] = NoBrief
                         /\ brief[m] # NoBrief /\ SoundBrief(brief[m]) => SoundBrief(base[m])
  <2> SUFFICES ASSUME NEW m \in Briefed
               PROVE  LET x == Marked(m) IN
                      /\ x \in AnalysisRows \cup {NoBrief}
                      /\ x = NoBrief <=> brief[m] = NoBrief
                      /\ brief[m] # NoBrief /\ SoundBrief(brief[m]) => SoundBrief(x)
    BY DEF BatchTable
  <2>1. brief[m] \in AnalysisRows \cup {NoBrief}
    BY <1>1 DEF RowTable
  <2>2. CASE m \in batch.marked
    <3>1. brief[m] \in AnalysisRows
      BY <1>1, <2>1, <2>2
    <3> DEFINE x == [brief[m] EXCEPT !.version = "__force__"]
    <3>2. /\ x \in AnalysisRows /\ x.sha = brief[m].sha /\ x.of = brief[m].of
          /\ x.reused = brief[m].reused /\ Marked(m) = x
      BY <2>2, <3>1, ForceFits DEF Marked
    <3> HIDE DEF x
    <3> QED BY <3>1, <3>2, RowAssumption DEF SoundBrief
  <2>3. CASE m \notin batch.marked
    BY <2>1, <2>3 DEF Marked
  <2> QED BY <2>2, <2>3
<1>4. base \in RowTable
  BY <1>3 DEF RowTable, BatchTable
<1>5. marred \in SUBSET Briefed
      /\ \A m \in Briefed \ marred : base[m] # NoBrief => SoundBrief(base[m])
  BY <1>3 DEF AnalysisInv, AnalysisShape, BriefsAreSound
<1>6. read \in AnalysisRows \cup {NoBrief} /\ (read = NoBrief <=> base[l] = NoBrief)
  BY <1>1, <1>2, <1>3 DEF BatchWrites, Conflicts
<1>7. brief' = WrittenOver(base, l, read, new) /\ marred' = TornOver(base, marred, l, read, soiled)
  BY DEF BatchWrites, WrittenOver, TornOver
<1> DEFINE r == [b EXCEPT !.stage = "idle", !.lot = NoLot, !.calls = 0, !.marked = {},
                          !.hashed = {}, !.left = @ - 1, !.todo = @ \ {l}, !.seen[l] = new,
                          !.docs[l][d].hash = own]
<1>8. batch' = r
  BY DEF BatchWrites
<1> HIDE DEF base, read, d, own
<1>9. /\ brief' \in RowTable /\ marred' \in SUBSET Briefed /\ brief'[l] # NoBrief
      /\ \A m \in Briefed : brief[m] # NoBrief => brief'[m] # NoBrief
      /\ \A m \in Briefed \ marred' : brief'[m] # NoBrief => SoundBrief(brief'[m])
  <2> DEFINE after == WrittenOver(base, l, read, new)
             stained == TornOver(base, marred, l, read, soiled)
  <2> HIDE DEF l
  <2>1. /\ after \in RowTable /\ stained \in SUBSET Briefed /\ after[l] # NoBrief
        /\ \A m \in Briefed : base[m] # NoBrief => after[m] # NoBrief
        /\ \A m \in Briefed \ stained : after[m] # NoBrief => SoundBrief(after[m])
    BY <1>1, <1>4, <1>5, <1>6, WriteIsSound, ZenonT(40)
  <2> QED BY <1>3, <1>7, <2>1
<1> HIDE DEF b, l
<1>10. /\ r \in BatchRecord /\ r.stage = "idle" /\ r.marked = {} /\ r.on = b.on
       /\ \A m \in Briefed : r.seen[m] = IF m = l THEN new ELSE b.seen[m]
       /\ \A m \in Briefed : Len(r.docs[m]) = Len(b.docs[m])
  <2> DEFINE seen == [b.seen EXCEPT ![l] = new]
             docs == Hashed(b.docs, l, d, own)
  <2>1. seen \in RowTable /\ \A m \in Briefed : seen[m] = IF m = l THEN new ELSE b.seen[m]
    BY <1>1 DEF BatchRecord, RowTable
  <2>9. docs \in PaperTable /\ \A m \in Briefed : Len(docs[m]) = Len(b.docs[m])
    <3>1. b.docs \in PaperTable
      BY <1>1 DEF BatchRecord
    <3> QED BY <1>1, <1>14, <3>1, HashedFits
  <2> DEFINE r1 == [b EXCEPT !.stage = "idle", !.lot = NoLot]
             r2 == [r1 EXCEPT !.calls = 0, !.marked = {}]
             r3 == [r2 EXCEPT !.hashed = {}, !.left = @ - 1, !.todo = @ \ {l}]
             r4 == [r3 EXCEPT !.seen = seen]
             r5 == [r4 EXCEPT !.docs = docs]
  <2>2. r = [r3 EXCEPT !.seen[l] = new, !.docs[l][d].hash = own]
    OBVIOUS
  <2>10. r.on = b.on
    BY <1>1 DEF BatchRecord
  <2> HIDE DEF r
  <2>3. r1 \in BatchRecord /\ r1.stage = "idle" /\ r1.seen = b.seen /\ r1.docs = b.docs
    BY <1>1 DEF BatchRecord
  <2> HIDE DEF r1
  <2>4. r2 \in BatchRecord /\ r2.stage = "idle" /\ r2.seen = r1.seen /\ r2.docs = r1.docs /\ r2.marked = {}
    BY <2>3, BatchRests
  <2> HIDE DEF r2
  <2>5. r3 \in BatchRecord /\ r3.stage = "idle" /\ r3.seen = r2.seen /\ r3.docs = r2.docs /\ r3.marked = {}
    BY <2>4, BatchCounts
  <2> HIDE DEF r3
  <2>6. r4 \in BatchRecord /\ r4.stage = "idle" /\ r4.marked = {} /\ r4.seen = seen /\ r4.docs = r3.docs
    <3> HIDE DEF seen
    <3> QED BY <2>1, <2>5 DEF BatchRecord
  <2>7. r = [r4 EXCEPT !.docs[l][d].hash = own]
    BY <2>2, <2>3, <2>4, <2>5
  <2> HIDE DEF r4, seen
  <2>8. r = r5
    BY <2>3, <2>4, <2>5, <2>6, <2>7 DEF Hashed
  <2> HIDE DEF docs
  <2>11. r5 \in BatchRecord /\ r5.stage = "idle" /\ r5.marked = {} /\ r5.seen = seen /\ r5.docs = docs
    BY <2>6, <2>9 DEF BatchRecord
  <2> QED BY <2>1, <2>8, <2>9, <2>10, <2>11
<1> HIDE DEF r
<1>11. AnalysisShape' /\ PapersRemain'
  BY <1>1, <1>8, <1>9, <1>10, <1>15 DEF AnalysisInv, AnalysisShape, PapersRemain
<1>12. ReadRowsRemain'
  <2>1. \A c \in Callers : call[c] # IdleCaller => call[c].lot \in Briefed
    BY DEF AnalysisInv, AnalysisShape, CallRecord
  <2> QED BY <1>1, <1>8, <1>9, <1>10, <2>1 DEF AnalysisInv, ReadRowsRemain
<1>13. BriefsAreSound'
  BY <1>9 DEF BriefsAreSound
<1> QED BY <1>11, <1>12, <1>13 DEF AnalysisInv

LEMMA BatchWritesKeep ==
  ASSUME AnalysisInv, BatchCopies \/ BatchTakesRules \/ BatchAnswered
  PROVE  AnalysisInv'
<1>1. batch.stage = "reading" /\ UNCHANGED call
  BY DEF BatchCopies, BatchTakesRules, BatchAnswered, BatchMustAsk, BatchReads
<1> DEFINE l == batch.lot
           doc == BatchDoc
           sha == BatchPaper.text
           text == BatchText
           own == BatchOwn
<1>2. l \in Briefed /\ doc \in Nat /\ sha \in Texts /\ text \in Texts
  BY <1>1, BatchReadsPaper
<1>3. CASE BatchCopies
  <2> DEFINE Known(m) == IF batch.seen[m] = NoBrief THEN brief[m] ELSE batch.seen[m]
  <2>1. PICK m \in Nearest(BatchTable, l, own) :
          BatchWrites(Copied(sha, doc, Known(m), m),
                      \/ m \in marred \/ Known(m) # brief[m]
                      \/ Outdated(m, own, sha), 0)
    BY <1>3 DEF BatchCopies
  <2> DEFINE known == Known(m)
             new == Copied(sha, doc, known, m)
             soiled == m \in marred \/ known # brief[m] \/ Outdated(m, own, sha)
  <2>8. m \in Briefed /\ BatchTable[m] # NoBrief /\ BatchTable[m].version = "llm"
    BY <2>1 DEF Nearest, Twins
  <2>9. BatchTable[m] = brief[m] \/ BatchTable[m] = [brief[m] EXCEPT !.version = "__force__"]
    BY <2>8 DEF BatchTable, Marked
  <2>10. brief[m] # NoBrief /\ brief[m] \in AnalysisRows
    BY <2>8, BatchFits DEF RowTable, BatchTable, Marked
  <2>11. BatchTable[m].reused = brief[m].reused /\ BatchTable[m].doc = brief[m].doc
    BY <2>9, <2>10 DEF AnalysisRows
  <2>2. /\ Copied(sha, doc, brief[m], m) \in AnalysisRows
        /\ m \notin marred /\ ~Outdated(m, own, sha) => SoundBrief(Copied(sha, doc, brief[m], m))
    BY <1>2, <2>1, <2>10, <2>11, CopyIsSound
  <2>3. known \in AnalysisRows
    BY <2>8, <2>10, BatchFits DEF BatchRecord, RowTable
  <2>4. BatchWrites(new, soiled, 0)
    BY <2>1
  <2> HIDE DEF known, sha, doc
  <2>5. new \in AnalysisRows
    <3>1. known.of \in Texts /\ known.by \in {"llm", "rules"}
      BY <2>3 DEF AnalysisRows
    <3>2. "llm" \in {"llm", "older", "rules", "__force__"} /\ m \in Briefed \cup {NoLot}
      BY <2>8
    <3> QED BY <1>2, <3>1, <3>2, RowsFit DEF Copied
  <2>6. soiled \/ SoundBrief(new)
    BY <2>2
  <2>7. soiled \in BOOLEAN
    BY DEF Outdated
  <2> HIDE DEF new, soiled
  <2> QED BY <1>1, <2>4, <2>5, <2>6, <2>7, BatchWriteKeeps
<1>4. CASE BatchTakesRules
  <2> DEFINE new == ByRules(sha, doc, text)
             soiled == text # sha
  <2>1. new \in AnalysisRows /\ (soiled \/ SoundBrief(new))
    BY <1>2, OwnIsSound
  <2>2. BatchWrites(new, soiled, 0) /\ soiled \in BOOLEAN
    BY <1>4 DEF BatchTakesRules
  <2> HIDE DEF new, soiled
  <2> QED BY <1>1, <2>1, <2>2, BatchWriteKeeps
<1>5. CASE BatchAnswered
  <2> DEFINE new == Answered(sha, doc, text)
             soiled == text # sha
  <2>1. new \in AnalysisRows /\ (soiled \/ SoundBrief(new))
    BY <1>2, OwnIsSound
  <2>2. BatchWrites(new, soiled, 1) /\ soiled \in BOOLEAN
    BY <1>5 DEF BatchAnswered
  <2> HIDE DEF new, soiled
  <2> QED BY <1>1, <2>1, <2>2, BatchWriteKeeps
<1> QED BY <1>3, <1>4, <1>5

LEMMA AnalysisInvStep == AnalysisInv /\ [AnalysisNext]_analysisVars => AnalysisInv'
<1> SUFFICES ASSUME AnalysisInv, [AnalysisNext]_analysisVars PROVE AnalysisInv'
  OBVIOUS
<1>1. CASE \/ \E l \in Briefed, t \in Texts : NewDocument(l, t) \/ DownloadedAgain(l, t)
           \/ ChatAnswered \/ ChatEmpty \/ UNCHANGED analysisVars
  BY <1>1, QuietKeeps
<1>2. ASSUME NEW c \in Callers,
             \/ \E l \in Briefed : AnalysisStarts(c, l)
             \/ CallerAsks(c) \/ CallerAnswerUnfit(c) \/ CallerGivesUp(c)
      PROVE  AnalysisInv'
  BY <1>2, CallsKeep
<1>3. ASSUME NEW c \in Callers, CallerCopies(c) \/ CallerTakesRules(c) \/ CallerAnswered(c)
      PROVE  AnalysisInv'
  BY <1>3, CallersKeep
<1>4. ASSUME NEW force \in BOOLEAN, BatchStarts(force)
      PROVE  AnalysisInv'
  BY <1>4, BatchStartKeeps
<1>5. CASE \/ \E l \in Briefed : BatchTakes(l)
           \/ BatchSkips \/ BatchUnanswered \/ BatchEnds
  BY <1>5, BatchKeeps
<1>6. CASE BatchCopies \/ BatchTakesRules \/ BatchAnswered
  BY <1>6, BatchWritesKeep
<1> QED BY <1>1, <1>2, <1>3, <1>4, <1>5, <1>6 DEF AnalysisNext

(* What a row says of its specification was said of that text or of one     *)
(* within the threshold of its simhash, copies included (llm.py,            *)
(* _find_simhash_twin), for any number of callers and texts; what was       *)
(* written over a row its writer had not read is excepted, and what was     *)
(* written by a simhash or a sha256 that a document downloaded again had    *)
(* before.                                                                  *)
THEOREM BriefsStayTrue == AnalysisSpec => []BriefsFitTheirTexts
<1>1. AnalysisInv => BriefsFitTheirTexts
  BY DEF AnalysisInv, BriefsAreSound, SoundBrief, BriefsFitTheirTexts
<1> QED BY <1>1, AnalysisInvInit, AnalysisInvStep, PTL DEF AnalysisSpec

-----------------------------------------------------------------------------
(* The pages about suppliers: sums over finite sets of lots and contracts.  *)

(* A set of numbers has a least element.                                   *)
LEMMA LeastExists ==
  ASSUME NEW S \in SUBSET Nat, S # {}
  PROVE  \E m \in S : \A k \in S : m <= k
  <1> DEFINE R == {p \in Nat \X Nat : p[1] < p[2]}
  <1>1. R = OpToRel(<, Nat)
    BY DEF OpToRel
  <1>2. PICK m \in S : \A k \in S : ~(<<k, m>> \in R)
    <2>1. IsWellFoundedOn(R, Nat)
      BY <1>1, NatLessThanWellFounded
    <2> HIDE DEF R
    <2> QED BY <2>1, WFMin
  <1>3. ASSUME NEW k \in S PROVE m <= k
    <2>1. k \in Nat /\ m \in Nat /\ ~(k < m)
      BY <1>2
    <2> QED BY <2>1
  <1> QED BY <1>3

(* Induction over the subsets of a finite set, for a set of them.          *)
LEMMA SubsetInduction ==
  ASSUME NEW S, IsFiniteSet(S), NEW P \in SUBSET (SUBSET S),
         \A D \in SUBSET S : (\A E \in SUBSET D : E # D => E \in P) => D \in P
  PROVE  P = SUBSET S
<1> SUFFICES ASSUME NEW C \in SUBSET S, C \notin P PROVE FALSE
  OBVIOUS
<1> DEFINE Sizes == {Cardinality(D) : D \in (SUBSET S) \ P}
<1>1. \A D \in SUBSET S : IsFiniteSet(D) /\ Cardinality(D) \in Nat
  BY FS_Subset, FS_CardinalityType
<1>2. PICK n \in Sizes : \A m \in Sizes : n <= m
  <2>1. Sizes \in SUBSET Nat /\ Sizes # {}  BY <1>1
  <2> HIDE DEF Sizes
  <2> QED BY <2>1, LeastExists
<1>3. PICK D \in (SUBSET S) \ P : n = Cardinality(D)
  BY <1>2
<1>4. PICK E \in SUBSET D : E # D /\ E \notin P
  BY <1>3
<1>5. IsFiniteSet(D) /\ Cardinality(E) <= Cardinality(D) /\ Cardinality(E) # Cardinality(D)
  BY <1>1, <1>3, <1>4, FS_Subset
<1>6. E \in (SUBSET S) \ P /\ Cardinality(E) \in Nat /\ Cardinality(D) \in Nat
  BY <1>1, <1>3, <1>4
<1>7. n <= Cardinality(E)
  BY <1>2, <1>6
<1> QED BY <1>3, <1>5, <1>6, <1>7

-----------------------------------------------------------------------------
(* Sums.  The library picks the elements of a set in an order of its own.  *)
Pick(s) == CHOOSE x \in s : TRUE
Adds(f, S, h) ==
  h = [s \in SUBSET S |-> IF s = {} THEN 0 ELSE f[Pick(s)] + h[s \ {Pick(s)}]]
SumOf(f, S) == MapThenSumSet(LAMBDA x : f[x], S)

LEMMA PickIsIn == ASSUME NEW s, s # {} PROVE Pick(s) \in s
BY DEF Pick

(* Two tables of partial sums agree where they sum the same.               *)
LEMMA AddsAgree ==
  \A S, f, g, h, k : \A T \in SUBSET S :
    IsFiniteSet(T) /\ Adds(f, S, h) /\ Adds(g, T, k) /\ (\A x \in T : f[x] = g[x])
      => \A s \in SUBSET T : h[s] = k[s]
<1> TAKE S, f, g, h, k
<1> TAKE T \in SUBSET S
<1> HAVE IsFiniteSet(T) /\ Adds(f, S, h) /\ Adds(g, T, k) /\ \A x \in T : f[x] = g[x]
<1> DEFINE P == {s \in SUBSET T : h[s] = k[s]}
<1>1. ASSUME NEW D \in SUBSET T, \A E \in SUBSET D : E # D => E \in P PROVE D \in P
  <2>0. h[D] = IF D = {} THEN 0 ELSE f[Pick(D)] + h[D \ {Pick(D)}]
    BY DEF Adds
  <2>1. k[D] = IF D = {} THEN 0 ELSE g[Pick(D)] + k[D \ {Pick(D)}]
    BY DEF Adds
  <2>2. CASE D = {}  BY <2>0, <2>1, <2>2
  <2>3. CASE D # {}
    <3>1. Pick(D) \in D  BY <2>3, PickIsIn
    <3>2. h[D \ {Pick(D)}] = k[D \ {Pick(D)}]  BY <1>1, <3>1
    <3>3. f[Pick(D)] = g[Pick(D)]  BY <3>1
    <3> QED BY <2>0, <2>1, <2>3, <3>2, <3>3
  <2> QED BY <2>2, <2>3
<1> HIDE DEF P
<1>2. P \in SUBSET (SUBSET T)  BY DEF P
<1>3. P = SUBSET T  BY <1>1, <1>2, SubsetInduction
<1> QED BY <1>3 DEF P

(* There is a table of partial sums.                                       *)
LEMMA AddsExists ==
  ASSUME NEW S, IsFiniteSet(S), NEW f
  PROVE  \E h : Adds(f, S, h)
<1> DEFINE P == {s \in SUBSET S : \E h : Adds(f, s, h)}
<1>1. ASSUME NEW D \in SUBSET S, \A E \in SUBSET D : E # D => E \in P PROVE D \in P
  <2>1. \A E \in SUBSET D : IsFiniteSet(E)  BY FS_Subset
  <2> DEFINE t(E) == CHOOSE h : Adds(f, E, h)
  <2>2. \A E \in SUBSET D : E # D => Adds(f, E, t(E))
    BY <1>1
  <2> HIDE DEF t
  <2>3. \A E, F \in SUBSET D : E # D /\ F \subseteq E => t(E)[F] = t(F)[F]
    <3> TAKE E, F \in SUBSET D
    <3> HAVE E # D /\ F \subseteq E
    <3>1. F # D  OBVIOUS
    <3>2. Adds(f, E, t(E)) /\ Adds(f, F, t(F)) /\ IsFiniteSet(F)
      BY <2>1, <2>2, <3>1
    <3> QED BY <3>2, AddsAgree
  <2> DEFINE h == [s \in SUBSET D |->
                     IF s = D THEN IF D = {} THEN 0 ELSE f[Pick(D)] + t(D \ {Pick(D)})[D \ {Pick(D)}]
                     ELSE t(s)[s]]
  <2>4. \A s \in SUBSET D : h[s] = IF s = {} THEN 0 ELSE f[Pick(s)] + h[s \ {Pick(s)}]
    <3> TAKE s \in SUBSET D
    <3>1. CASE s = {}
      <4>1. CASE s = D  BY <3>1, <4>1
      <4>2. CASE s # D
        <5>1. t(s)[s] = 0  BY <2>2, <3>1, <4>2 DEF Adds
        <5> QED BY <3>1, <4>2, <5>1
      <4> QED BY <4>1, <4>2
    <3>2. CASE s # {}
      <4> DEFINE r == s \ {Pick(s)}
      <4>1. r # D /\ r # s /\ r \in SUBSET D /\ r \subseteq s
        BY <3>2, PickIsIn
      <4>2. h[r] = t(r)[r]  BY <4>1
      <4>3. CASE s = D  BY <3>2, <4>2, <4>3
      <4>4. CASE s # D
        <5>1. t(s)[s] = f[Pick(s)] + t(s)[r]
          BY <2>2, <3>2, <4>4 DEF Adds
        <5>2. t(s)[r] = t(r)[r]  BY <2>3, <4>1, <4>4
        <5>3. h[s] = t(s)[s]  BY <4>4
        <5> HIDE DEF r, h
        <5>4. h[s] = f[Pick(s)] + h[r]  BY <4>2, <5>1, <5>2, <5>3
        <5> QED BY <3>2, <5>4 DEF r
      <4> QED BY <4>3, <4>4
    <3> QED BY <3>1, <3>2
  <2>5. h = [s \in SUBSET D |-> h[s]]  OBVIOUS
  <2> HIDE DEF h
  <2>6. Adds(f, D, h)
    BY <2>4, <2>5 DEF Adds
  <2> QED BY <2>6
<1> HIDE DEF P
<1>2. P \in SUBSET (SUBSET S)  BY DEF P
<1>3. P = SUBSET S  BY <1>1, <1>2, SubsetInduction
<1> QED BY <1>3 DEF P

(* What the library computes is the last entry of such a table.            *)
LEMMA SumIsLast ==
  ASSUME NEW S, IsFiniteSet(S), NEW f, NEW h, Adds(f, S, h)
  PROVE  SumOf(f, S) = h[S]
<1> DEFINE g == CHOOSE g : g = [s \in SUBSET S |->
                   IF s = {} THEN 0 ELSE f[CHOOSE x \in s : TRUE] + g[s \ {CHOOSE x \in s : TRUE}]]
<1>1. SumOf(f, S) = g[S]
  BY DEF SumOf, MapThenSumSet, MapThenFoldSet
<1>2. Adds(f, S, g)
  BY DEF Adds, Pick
<1> HIDE DEF g
<1>3. \A s \in SUBSET S : g[s] = h[s]
  <2>1. S \in SUBSET S  OBVIOUS
  <2> QED BY <1>2, <2>1, AddsAgree
<1> QED BY <1>1, <1>3

LEMMA SumsAgree ==
  ASSUME NEW S, IsFiniteSet(S), NEW f, NEW g, \A x \in S : f[x] = g[x]
  PROVE  SumOf(f, S) = SumOf(g, S)
<1>1. PICK h : Adds(f, S, h)  BY AddsExists
<1>2. PICK k : Adds(g, S, k)  BY AddsExists
<1>3. SumOf(f, S) = h[S] /\ SumOf(g, S) = k[S]
  BY <1>1, <1>2, SumIsLast
<1>4. S \in SUBSET S  OBVIOUS
<1>5. \A s \in SUBSET S : h[s] = k[s]
  BY <1>1, <1>2, <1>4, AddsAgree
<1> QED BY <1>3, <1>5

(* The sum of a set, one element taken out as the library picks it.        *)
LEMMA SumStep ==
  ASSUME NEW S, IsFiniteSet(S), NEW f
  PROVE  /\ S = {} => SumOf(f, S) = 0
         /\ S # {} => SumOf(f, S) = f[Pick(S)] + SumOf(f, S \ {Pick(S)})
<1>1. PICK h : Adds(f, S, h)  BY AddsExists
<1>2. SumOf(f, S) = h[S]  BY <1>1, SumIsLast
<1> DEFINE r == S \ {Pick(S)}
<1>3. IsFiniteSet(r) /\ r \in SUBSET S  BY FS_Subset
<1>4. PICK k : Adds(f, r, k)  BY <1>3, AddsExists
<1>5. SumOf(f, r) = k[r]  BY <1>3, <1>4, SumIsLast
<1>6. h[r] = k[r]
  <2>1. \A s \in SUBSET r : h[s] = k[s]
    <3> HIDE DEF r
    <3> QED BY <1>1, <1>3, <1>4, AddsAgree
  <2> QED BY <2>1
<1>7. h[S] = IF S = {} THEN 0 ELSE f[Pick(S)] + h[r]
  BY <1>1 DEF Adds
<1> QED BY <1>2, <1>5, <1>6, <1>7

(* Of natural numbers, in whatever order.                                  *)
LEMMA SumIsNat ==
  ASSUME NEW S, IsFiniteSet(S), NEW f, \A x \in S : f[x] \in Nat
  PROVE  SumOf(f, S) \in Nat
<1> DEFINE P == {s \in SUBSET S : SumOf(f, s) \in Nat}
<1>1. ASSUME NEW D \in SUBSET S, \A E \in SUBSET D : E # D => E \in P PROVE D \in P
  <2>1. IsFiniteSet(D)  BY FS_Subset
  <2>2. CASE D = {}
    <3>1. SumOf(f, D) = 0  BY <2>1, <2>2, SumStep
    <3> QED BY <3>1
  <2>3. CASE D # {}
    <3>1. Pick(D) \in D  BY <2>3, PickIsIn
    <3>2. SumOf(f, D \ {Pick(D)}) \in Nat  BY <1>1, <3>1
    <3>3. SumOf(f, D) = f[Pick(D)] + SumOf(f, D \ {Pick(D)})
      BY <2>1, <2>3, SumStep
    <3>4. f[Pick(D)] \in Nat  BY <3>1
    <3> QED BY <3>2, <3>3, <3>4
  <2> QED BY <2>2, <2>3
<1> HIDE DEF P
<1>2. P \in SUBSET (SUBSET S)  BY DEF P
<1>3. P = SUBSET S  BY <1>1, <1>2, SubsetInduction
<1> QED BY <1>3 DEF P

LEMMA SumTakesOut ==
  ASSUME NEW S, IsFiniteSet(S), NEW f, \A x \in S : f[x] \in Nat, NEW x \in S
  PROVE  SumOf(f, S) = f[x] + SumOf(f, S \ {x})
<1> DEFINE P == {s \in SUBSET S : \A y \in s : SumOf(f, s) = f[y] + SumOf(f, s \ {y})}
<1>1. ASSUME NEW D \in SUBSET S, \A E \in SUBSET D : E # D => E \in P,
             NEW y \in D
      PROVE  SumOf(f, D) = f[y] + SumOf(f, D \ {y})
  <2> DEFINE p == Pick(D)
             r == D \ {p}
             q == D \ {y}
             u == (D \ {p}) \ {y}
  <2>1. \A E \in SUBSET D : IsFiniteSet(E)  BY FS_Subset
  <2>2. p \in D /\ SumOf(f, D) = f[p] + SumOf(f, r)
    BY <2>1, SumStep, PickIsIn
  <2>3. CASE p = y  BY <2>2, <2>3
  <2>4. CASE p # y
    <3>1. r \in P /\ q \in P /\ y \in r /\ p \in q
      BY <1>1, <2>2, <2>4
    <3>2. r \ {y} = u /\ q \ {p} = u /\ u \in SUBSET D
      OBVIOUS
    <3>3. SumOf(f, r) = f[y] + SumOf(f, u)
      BY <3>1, <3>2
    <3>4. SumOf(f, q) = f[p] + SumOf(f, u)
      BY <3>1, <3>2
    <3>5. SumOf(f, u) \in Nat /\ f[p] \in Nat /\ f[y] \in Nat
      BY <2>1, <2>2, <3>2, SumIsNat
    <3> HIDE DEF r, q, u, p
    <3>6. SumOf(f, D) = f[y] + SumOf(f, q)
      BY <2>2, <3>3, <3>4, <3>5
    <3> QED BY <3>6 DEF q
  <2> QED BY <2>3, <2>4
<1>2. ASSUME NEW D \in SUBSET S, \A E \in SUBSET D : E # D => E \in P PROVE D \in P
  BY <1>1, <1>2
<1> HIDE DEF P
<1>3. P \in SUBSET (SUBSET S)  BY DEF P
<1>4. P = SUBSET S  BY <1>2, <1>3, SubsetInduction
<1> QED BY <1>4 DEF P

LEMMA SumOfUnion ==
  ASSUME NEW S, IsFiniteSet(S), NEW f, \A x \in S : f[x] \in Nat,
         NEW A \in SUBSET S, NEW B \in SUBSET S, A \cap B = {}
  PROVE  SumOf(f, A \cup B) = SumOf(f, A) + SumOf(f, B)
<1> DEFINE P == {s \in SUBSET B : SumOf(f, A \cup s) = SumOf(f, A) + SumOf(f, s)}
<1>1. \A E \in SUBSET S : IsFiniteSet(E) /\ SumOf(f, E) \in Nat
  <2> TAKE E \in SUBSET S
  <2>1. IsFiniteSet(E)  BY FS_Subset
  <2> QED BY <2>1, SumIsNat
<1>2. ASSUME NEW D \in SUBSET B, \A E \in SUBSET D : E # D => E \in P PROVE D \in P
  <2>1. CASE D = {}
    <3>1. A \cup D = A  BY <2>1
    <3>2. SumOf(f, D) = 0  BY <1>1, <2>1, SumStep
    <3>3. SumOf(f, A) \in Nat  BY <1>1
    <3> QED BY <3>1, <3>2, <3>3
  <2>2. CASE D # {}
    <3> PICK x \in D : TRUE  BY <2>2
    <3>1. SumOf(f, A \cup (D \ {x})) = SumOf(f, A) + SumOf(f, D \ {x})
      BY <1>2
    <3>2. (A \cup D) \ {x} = A \cup (D \ {x}) /\ A \cup D \in SUBSET S /\ x \in A \cup D
      OBVIOUS
    <3>3. SumOf(f, A \cup D) = f[x] + SumOf(f, (A \cup D) \ {x})
      <4>1. IsFiniteSet(A \cup D) /\ \A y \in A \cup D : f[y] \in Nat
        BY <1>1, <3>2
      <4> QED BY <3>2, <4>1, SumTakesOut
    <3>4. SumOf(f, D) = f[x] + SumOf(f, D \ {x})
      <4>1. IsFiniteSet(D) /\ \A y \in D : f[y] \in Nat  BY <1>1
      <4> QED BY <4>1, SumTakesOut
    <3>5. SumOf(f, A) \in Nat /\ SumOf(f, D \ {x}) \in Nat /\ f[x] \in Nat
      BY <1>1
    <3>6. SumOf(f, A \cup D) = SumOf(f, A) + SumOf(f, D)
      BY <3>1, <3>2, <3>3, <3>4, <3>5
    <3> QED BY <3>6
  <2> QED BY <2>1, <2>2
<1> HIDE DEF P
<1>3. P \in SUBSET (SUBSET B)  BY DEF P
<1>4. IsFiniteSet(B)  BY <1>1
<1>5. P = SUBSET B  BY <1>2, <1>3, <1>4, SubsetInduction
<1> QED BY <1>5 DEF P

LEMMA SumGrows ==
  ASSUME NEW S, IsFiniteSet(S), NEW f, \A x \in S : f[x] \in Nat, NEW A \in SUBSET S
  PROVE  SumOf(f, A) <= SumOf(f, S)
<1> DEFINE B == S \ A
<1>1. A \cup B = S /\ A \cap B = {} /\ B \in SUBSET S  OBVIOUS
<1>2. SumOf(f, A) \in Nat /\ SumOf(f, B) \in Nat
  <2>1. IsFiniteSet(A) /\ IsFiniteSet(B)  BY <1>1, FS_Subset
  <2> QED BY <2>1, SumIsNat
<1> HIDE DEF B
<1>3. SumOf(f, S) = SumOf(f, A) + SumOf(f, B)
  BY <1>1, SumOfUnion
<1> QED BY <1>2, <1>3

Group(S, c, k) == {x \in S : c[x] = k}

(* The sum over a set is the sum of the sums over its groups.              *)
LEMMA SumByGroups ==
  \A S, f, c, G, g :
    /\ IsFiniteSet(S) /\ \A x \in S : f[x] \in Nat
    /\ G = {c[x] : x \in S} /\ \A k \in G : g[k] = SumOf(f, Group(S, c, k))
    => SumOf(g, G) = SumOf(f, S)
<1> TAKE S, f, c, G, g
<1> HAVE /\ IsFiniteSet(S) /\ \A x \in S : f[x] \in Nat
         /\ G = {c[x] : x \in S} /\ \A k \in G : g[k] = SumOf(f, Group(S, c, k))
<1> DEFINE Of(E) == {x \in S : c[x] \in E}
           P == {E \in SUBSET G : SumOf(g, E) = SumOf(f, Of(E))}
<1>1. \A E \in SUBSET S : IsFiniteSet(E) /\ SumOf(f, E) \in Nat
  <2> TAKE E \in SUBSET S
  <2>1. IsFiniteSet(E)  BY FS_Subset
  <2> QED BY <2>1, SumIsNat
<1>2. IsFiniteSet(G)
  <2> DEFINE d == [x \in S |-> c[x]]
  <2>1. d \in Surjection(S, G)  BY DEF Surjection
  <2> QED BY <2>1, FS_Surjection
<1>3. \A E \in SUBSET G : IsFiniteSet(E) /\ \A k \in E : g[k] \in Nat
  <2> TAKE E \in SUBSET G
  <2>1. IsFiniteSet(E)  BY <1>2, FS_Subset
  <2> QED BY <1>1, <2>1 DEF Group
<1>4. ASSUME NEW D \in SUBSET G, \A E \in SUBSET D : E # D => E \in P PROVE D \in P
  <2>1. CASE D = {}
    <3>1. Of(D) = {}  BY <2>1
    <3>2. SumOf(f, Of(D)) = 0  BY <1>1, <3>1, SumStep
    <3>3. SumOf(g, D) = 0  BY <1>3, <2>1, SumStep
    <3> QED BY <3>2, <3>3
  <2>2. CASE D # {}
    <3> PICK k \in D : TRUE  BY <2>2
    <3> DEFINE X == Group(S, c, k)
               Y == Of(D \ {k})
    <3>1. SumOf(g, D \ {k}) = SumOf(f, Y)  BY <1>4
    <3>2. SumOf(g, D) = g[k] + SumOf(g, D \ {k})
      <4>1. IsFiniteSet(D) /\ \A y \in D : g[y] \in Nat  BY <1>3
      <4> QED BY <4>1, SumTakesOut
    <3>3. X \cup Y = Of(D) /\ X \cap Y = {} /\ X \in SUBSET S /\ Y \in SUBSET S
      BY DEF Group
    <3>4. g[k] = SumOf(f, X)  OBVIOUS
    <3> HIDE DEF X, Y, Of
    <3>5. SumOf(f, X \cup Y) = SumOf(f, X) + SumOf(f, Y)
      BY <3>3, SumOfUnion
    <3>6. SumOf(g, D) = SumOf(f, Of(D))
      BY <3>1, <3>2, <3>3, <3>4, <3>5
    <3> QED BY <3>6
  <2> QED BY <2>1, <2>2
<1>5. Of(G) = S  OBVIOUS
<1> HIDE DEF P
<1>6. P \in SUBSET (SUBSET G)  BY DEF P
<1>7. P = SUBSET G  BY <1>2, <1>4, <1>6, SubsetInduction
<1>8. G \in P  BY <1>7
<1> QED BY <1>5, <1>8 DEF P

LEMMA SumOfOnes ==
  ASSUME NEW S, IsFiniteSet(S), NEW f, \A x \in S : f[x] = 1
  PROVE  SumOf(f, S) = Cardinality(S)
<1> DEFINE P == {E \in SUBSET S : SumOf(f, E) = Cardinality(E)}
<1>1. ASSUME NEW D \in SUBSET S, \A E \in SUBSET D : E # D => E \in P PROVE D \in P
  <2>1. IsFiniteSet(D)  BY FS_Subset
  <2>2. CASE D = {}  BY <2>1, <2>2, SumStep, FS_EmptySet
  <2>3. CASE D # {}
    <3>1. Pick(D) \in D  BY <2>3, PickIsIn
    <3>2. SumOf(f, D \ {Pick(D)}) = Cardinality(D \ {Pick(D)})  BY <1>1, <3>1
    <3>3. SumOf(f, D) = f[Pick(D)] + SumOf(f, D \ {Pick(D)})
      BY <2>1, <2>3, SumStep
    <3>4. Cardinality(D \ {Pick(D)}) = Cardinality(D) - 1 /\ Cardinality(D) \in Nat
      BY <2>1, <3>1, FS_RemoveElement, FS_CardinalityType
    <3>5. f[Pick(D)] = 1  BY <3>1
    <3> QED BY <3>2, <3>3, <3>4, <3>5
  <2> QED BY <2>2, <2>3
<1> HIDE DEF P
<1>2. P \in SUBSET (SUBSET S)  BY DEF P
<1>3. P = SUBSET S  BY <1>1, <1>2, SubsetInduction
<1> QED BY <1>3 DEF P

AmountsSummed == [l \in Sold |-> Amount(l)]

LEMMA TotalIsSum ==
  ASSUME NEW S, IsFiniteSet(S), S \subseteq Sold, NEW f, \A x \in S : f[x] = Amount(x)
  PROVE  Total(S) = SumOf(f, S)
<1> DEFINE g == CHOOSE g : g = [s \in SUBSET S |->
                   IF s = {} THEN 0 ELSE Amount(CHOOSE x \in s : TRUE) + g[s \ {CHOOSE x \in s : TRUE}]]
<1>1. Total(S) = g[S]
  BY DEF Total, MapThenSumSet, MapThenFoldSet
<1>2. PICK h : Adds(f, S, h)  BY AddsExists
<1>3. [s \in SUBSET S |-> IF s = {} THEN 0 ELSE f[Pick(s)] + h[s \ {Pick(s)}]]
      = [s \in SUBSET S |-> IF s = {} THEN 0 ELSE Amount(Pick(s)) + h[s \ {Pick(s)}]]
  <2>1. \A s \in SUBSET S : s # {} => f[Pick(s)] = Amount(Pick(s))
    BY PickIsIn
  <2> QED BY <2>1
<1>4. h = [s \in SUBSET S |-> IF s = {} THEN 0 ELSE Amount(Pick(s)) + h[s \ {Pick(s)}]]
  <2> DEFINE ourSums == [s \in SUBSET S |-> IF s = {} THEN 0 ELSE f[Pick(s)] + h[s \ {Pick(s)}]]
             its == [s \in SUBSET S |-> IF s = {} THEN 0 ELSE Amount(Pick(s)) + h[s \ {Pick(s)}]]
  <2>1. h = ourSums  BY <1>2 DEF Adds
  <2>2. ourSums = its  BY <1>3
  <2> HIDE DEF ourSums, its
  <2>3. h = its  BY <2>1, <2>2
  <2> QED BY <2>3 DEF its
<1>5. g = [s \in SUBSET S |-> IF s = {} THEN 0 ELSE Amount(Pick(s)) + g[s \ {Pick(s)}]]
  <2>1. h = [s \in SUBSET S |-> IF s = {} THEN 0 ELSE Amount(CHOOSE x \in s : TRUE) + h[s \ {CHOOSE x \in s : TRUE}]]
    BY <1>4 DEF Pick
  <2>2. g = [s \in SUBSET S |-> IF s = {} THEN 0 ELSE Amount(CHOOSE x \in s : TRUE) + g[s \ {CHOOSE x \in s : TRUE}]]
    BY <2>1, ZenonT(40)
  <2> HIDE DEF g
  <2> QED BY <2>2 DEF Pick
<1> HIDE DEF g
<1>6. Adds(f, S, g)
  <2>1. \A s \in SUBSET S : s # {} => f[Pick(s)] = Amount(Pick(s))
    BY PickIsIn
  <2>2. [s \in SUBSET S |-> IF s = {} THEN 0 ELSE f[Pick(s)] + g[s \ {Pick(s)}]]
      = [s \in SUBSET S |-> IF s = {} THEN 0 ELSE Amount(Pick(s)) + g[s \ {Pick(s)}]]
    BY <2>1
  <2> QED BY <1>5, <2>2 DEF Adds
<1> QED BY <1>1, <1>6, SumIsLast

LEMMA WinsAreSummed ==
  ASSUME NEW S, IsFiniteSet(S), NEW d, NEW f, \A x \in S : f[x] = d[x].wins
  PROVE  MapThenSumSet(LAMBDA c : d[c].wins, S) = SumOf(f, S)
<1> DEFINE g == CHOOSE g : g = [s \in SUBSET S |->
                   IF s = {} THEN 0 ELSE d[CHOOSE x \in s : TRUE].wins + g[s \ {CHOOSE x \in s : TRUE}]]
<1>1. MapThenSumSet(LAMBDA c : d[c].wins, S) = g[S]
  BY DEF MapThenSumSet, MapThenFoldSet
<1>2. PICK h : Adds(f, S, h)  BY AddsExists
<1>3. [s \in SUBSET S |-> IF s = {} THEN 0 ELSE f[Pick(s)] + h[s \ {Pick(s)}]]
      = [s \in SUBSET S |-> IF s = {} THEN 0 ELSE d[Pick(s)].wins + h[s \ {Pick(s)}]]
  <2>1. \A s \in SUBSET S : s # {} => f[Pick(s)] = d[Pick(s)].wins
    BY PickIsIn
  <2> QED BY <2>1
<1>4. h = [s \in SUBSET S |-> IF s = {} THEN 0 ELSE d[Pick(s)].wins + h[s \ {Pick(s)}]]
  <2> DEFINE ourSums == [s \in SUBSET S |-> IF s = {} THEN 0 ELSE f[Pick(s)] + h[s \ {Pick(s)}]]
             its == [s \in SUBSET S |-> IF s = {} THEN 0 ELSE d[Pick(s)].wins + h[s \ {Pick(s)}]]
  <2>1. h = ourSums  BY <1>2 DEF Adds
  <2>2. ourSums = its  BY <1>3
  <2> HIDE DEF ourSums, its
  <2>3. h = its  BY <2>1, <2>2
  <2> QED BY <2>3 DEF its
<1>5. g = [s \in SUBSET S |-> IF s = {} THEN 0 ELSE d[Pick(s)].wins + g[s \ {Pick(s)}]]
  <2>1. h = [s \in SUBSET S |-> IF s = {} THEN 0 ELSE d[CHOOSE x \in s : TRUE].wins + h[s \ {CHOOSE x \in s : TRUE}]]
    BY <1>4 DEF Pick
  <2>2. g = [s \in SUBSET S |-> IF s = {} THEN 0 ELSE d[CHOOSE x \in s : TRUE].wins + g[s \ {CHOOSE x \in s : TRUE}]]
    BY <2>1, ZenonT(40)
  <2> HIDE DEF g
  <2> QED BY <2>2 DEF Pick
<1> HIDE DEF g
<1>6. Adds(f, S, g)
  <2>1. \A s \in SUBSET S : s # {} => f[Pick(s)] = d[Pick(s)].wins
    BY PickIsIn
  <2>2. [s \in SUBSET S |-> IF s = {} THEN 0 ELSE f[Pick(s)] + g[s \ {Pick(s)}]]
      = [s \in SUBSET S |-> IF s = {} THEN 0 ELSE d[Pick(s)].wins + g[s \ {Pick(s)}]]
    BY <2>1
  <2> QED BY <1>5, <2>2 DEF Adds
<1> QED BY <1>1, <1>6, SumIsLast

LEMMA TotalsAreSummed ==
  ASSUME NEW S, IsFiniteSet(S), NEW d, NEW f, \A x \in S : f[x] = d[x].total
  PROVE  MapThenSumSet(LAMBDA c : d[c].total, S) = SumOf(f, S)
<1> DEFINE g == CHOOSE g : g = [s \in SUBSET S |->
                   IF s = {} THEN 0 ELSE d[CHOOSE x \in s : TRUE].total + g[s \ {CHOOSE x \in s : TRUE}]]
<1>1. MapThenSumSet(LAMBDA c : d[c].total, S) = g[S]
  BY DEF MapThenSumSet, MapThenFoldSet
<1>2. PICK h : Adds(f, S, h)  BY AddsExists
<1>3. [s \in SUBSET S |-> IF s = {} THEN 0 ELSE f[Pick(s)] + h[s \ {Pick(s)}]]
      = [s \in SUBSET S |-> IF s = {} THEN 0 ELSE d[Pick(s)].total + h[s \ {Pick(s)}]]
  <2>1. \A s \in SUBSET S : s # {} => f[Pick(s)] = d[Pick(s)].total
    BY PickIsIn
  <2> QED BY <2>1
<1>4. h = [s \in SUBSET S |-> IF s = {} THEN 0 ELSE d[Pick(s)].total + h[s \ {Pick(s)}]]
  <2> DEFINE ourSums == [s \in SUBSET S |-> IF s = {} THEN 0 ELSE f[Pick(s)] + h[s \ {Pick(s)}]]
             its == [s \in SUBSET S |-> IF s = {} THEN 0 ELSE d[Pick(s)].total + h[s \ {Pick(s)}]]
  <2>1. h = ourSums  BY <1>2 DEF Adds
  <2>2. ourSums = its  BY <1>3
  <2> HIDE DEF ourSums, its
  <2>3. h = its  BY <2>1, <2>2
  <2> QED BY <2>3 DEF its
<1>5. g = [s \in SUBSET S |-> IF s = {} THEN 0 ELSE d[Pick(s)].total + g[s \ {Pick(s)}]]
  <2>1. h = [s \in SUBSET S |-> IF s = {} THEN 0 ELSE d[CHOOSE x \in s : TRUE].total + h[s \ {CHOOSE x \in s : TRUE}]]
    BY <1>4 DEF Pick
  <2>2. g = [s \in SUBSET S |-> IF s = {} THEN 0 ELSE d[CHOOSE x \in s : TRUE].total + g[s \ {CHOOSE x \in s : TRUE}]]
    BY <2>1, ZenonT(40)
  <2> HIDE DEF g
  <2> QED BY <2>2 DEF Pick
<1> HIDE DEF g
<1>6. Adds(f, S, g)
  <2>1. \A s \in SUBSET S : s # {} => f[Pick(s)] = d[Pick(s)].total
    BY PickIsIn
  <2>2. [s \in SUBSET S |-> IF s = {} THEN 0 ELSE f[Pick(s)] + g[s \ {Pick(s)}]]
      = [s \in SUBSET S |-> IF s = {} THEN 0 ELSE d[Pick(s)].total + g[s \ {Pick(s)}]]
    BY <2>1
  <2> QED BY <1>5, <2>2 DEF Adds
<1> QED BY <1>1, <1>6, SumIsLast

(* A finite set of numbers has a greatest one.                             *)
LEMMA GreatestExists ==
  ASSUME NEW S \in SUBSET Nat, IsFiniteSet(S), S # {}
  PROVE  \E m \in S : \A k \in S : k <= m
<1> DEFINE P == {D \in SUBSET S : D # {} => \E m \in D : \A k \in D : k <= m}
<1>1. ASSUME NEW D \in SUBSET S, \A E \in SUBSET D : E # D => E \in P PROVE D \in P
  <2> SUFFICES ASSUME D # {} PROVE \E m \in D : \A k \in D : k <= m
    OBVIOUS
  <2> PICK x \in D : TRUE  OBVIOUS
  <2>1. CASE D = {x}  BY <2>1
  <2>2. CASE D # {x}
    <3>1. PICK m \in D \ {x} : \A k \in D \ {x} : k <= m
      <4>1. D \ {x} \in P /\ D \ {x} # {}  BY <1>1, <2>2
      <4> QED BY <4>1
    <3>2. CASE x <= m  BY <3>1, <3>2
    <3>3. CASE ~(x <= m)
      <4>1. \A k \in D : k <= x
        <5> TAKE k \in D
        <5>1. k \in Nat /\ m \in Nat /\ x \in Nat  BY <3>1
        <5>2. CASE k = x  BY <5>1, <5>2
        <5>3. CASE k # x
          <6>1. k <= m  BY <3>1, <5>3
          <6> QED BY <3>3, <5>1, <6>1
        <5> QED BY <5>2, <5>3
      <4> QED BY <4>1
    <3> QED BY <3>2, <3>3
  <2> QED BY <2>1, <2>2
<1> HIDE DEF P
<1>2. P \in SUBSET (SUBSET S)  BY DEF P
<1>3. P = SUBSET S  BY <1>1, <1>2, SubsetInduction
<1>4. S \in P  BY <1>3
<1> QED BY <1>4 DEF P

LEMMA AmountsAreNat == \A l \in Sold : Amount(l) \in Nat
<1> TAKE l \in Sold
<1> DEFINE made == {m \in Numbers : contract[<<l, m>>] # "none"}
           sums == {Paid[n] : n \in made}
<1>1. Amount(l) = IF sums = {} THEN Plan[l] ELSE Max(sums)
  BY DEF Amount
<1>2. CASE sums = {}  BY <1>1, <1>2, SuppliersAssumption
<1>3. CASE sums # {}
  <2>1. sums \in SUBSET Nat /\ IsFiniteSet(made)
    <3>1. made \subseteq Numbers  OBVIOUS
    <3>2. IsFiniteSet(Numbers) /\ Paid \in [Numbers -> Nat]
      BY SuppliersAssumption
    <3>3. sums \in SUBSET Nat  BY <3>1, <3>2
    <3> HIDE DEF made
    <3>4. IsFiniteSet(made)  BY <3>1, <3>2, FS_Subset
    <3> QED BY <3>3, <3>4
  <2>2. IsFiniteSet(sums)
    <3> DEFINE p == [n \in made |-> Paid[n]]
    <3>1. p \in Surjection(made, sums)  BY DEF Surjection
    <3> HIDE DEF p, made, sums
    <3> QED BY <2>1, <3>1, FS_Surjection
  <2> HIDE DEF sums
  <2>3. \E m \in sums : \A k \in sums : k <= m
    BY <1>3, <2>1, <2>2, GreatestExists
  <2>4. Max(sums) \in sums
    <3>1. \E m \in sums : \A k \in sums : m >= k
      BY <2>1, <2>3
    <3> QED BY <3>1 DEF Max
  <2> QED BY <1>1, <1>3, <2>1, <2>4
<1> QED BY <1>2, <1>3

(* An organization that is called a supplier has something on its card, a   *)
(* line of the report opens a card with at least its wins and with the lots *)
(* of the bids it counts and no others, and the customers a card shows add  *)
(* up to its totals if none is cut, to no more otherwise (orgs.py,          *)
(* supplier_report.py, supplier_card.py), for any finite sets of lots,      *)
(* applications and contracts, several applications of a supplier for one   *)
(* lot included.                                                            *)
THEOREM SuppliersAgree == SuppliersSpec => []SupplierPagesAgree
<1>1. SupplierPagesAgree
  <2> SUFFICES ASSUME NEW s \in Bins
               PROVE  /\ s \in orgs => (Supplies(s) <=> WinLots(s) \cup CardBids(s) # {})
                      /\ s \in Reported =>
                           /\ CardFound(s)
                           /\ ReportWins(s) \subseteq WinLots(s)
                           /\ Total(ReportWins(s)) <= Total(WinLots(s))
                           /\ {LotOf[a] : a \in ReportBids(s)} = (WinLots(s) \cap CardBids(s)) \cup Losses(s)
                      /\ \A top \in ShownGroups(ByCustomer(s)) :
                           LET g == ByCustomer(s)
                               wins == MapThenSumSet(LAMBDA c : g[c].wins, top)
                               total == MapThenSumSet(LAMBDA c : g[c].total, top)
                           IN  /\ wins <= Cardinality(WinLots(s)) /\ total <= Total(WinLots(s))
                               /\ Cardinality(DOMAIN g) <= GroupRows =>
                                    wins = Cardinality(WinLots(s)) /\ total = Total(WinLots(s))
    BY DEF SupplierPagesAgree
  <2> DEFINE W == WinLots(s)
             R == ReportWins(s)
             f == AmountsSummed
             ones == [l \in Sold |-> 1]
             G == {CustomerOf[l] : l \in W}
             Of(c) == {l \in W : CustomerOf[l] = c}
             d == ByCustomer(s)
  <2>1. s \in orgs => (Supplies(s) <=> WinLots(s) \cup CardBids(s) # {})
    <3>1. \A a \in Applications : LotOf[a] \in Sold
      BY SuppliersAssumption
    <3>2. CardBids(s) # {} <=> \E a \in Applications : BidderOf[a] = s /\ bid[a] # "none"
      BY DEF CardBids
    <3>3. CardBids(s) = {} => \A l \in Sold, a \in Applications :
                                 ~(LotOf[a] = l /\ BidderOf[a] = s /\ bid[a] = "winner")
      BY <3>2
    <3> QED BY <3>2, <3>3 DEF Supplies, WinLots
  <2>2. s \in Reported => CardFound(s)
    BY DEF Reported, CardFound, ReportWins, ReportBids, WinLots, CardBids
  <2>3. R \in SUBSET W /\ W \in SUBSET Sold
    BY DEF ReportWins, WinLots
  <2>4. {LotOf[a] : a \in ReportBids(s)} = (WinLots(s) \cap CardBids(s)) \cup Losses(s)
    BY DEF ReportBids, CardBids, Losses
  <2>5. \A ls \in SUBSET Sold : IsFiniteSet(ls)
    BY SuppliersAssumption, FS_Subset
  <2>6. \A l \in Sold : f[l] = Amount(l) /\ f[l] \in Nat /\ ones[l] = 1 /\ ones[l] \in Nat
    BY AmountsAreNat DEF AmountsSummed
  <2>7. d = [c \in G |-> [wins |-> Cardinality(Of(c)), total |-> Total(Of(c)),
                          bids |-> Cardinality({l \in CardBids(s) : CustomerOf[l] = c})]]
    BY DEF ByCustomer
  <2>8. /\ DOMAIN d = G
        /\ \A c \in G : d[c].wins = Cardinality(Of(c)) /\ d[c].total = Total(Of(c))
    BY <2>7
  <2>9. \A c : Of(c) \in SUBSET Sold
    BY <2>3
  <2>10. IsFiniteSet(G)
    <3> DEFINE e == [l \in W |-> CustomerOf[l]]
    <3>1. e \in Surjection(W, G)  BY DEF Surjection
    <3>2. IsFiniteSet(W)  BY <2>3, <2>5
    <3> HIDE DEF W, G, e
    <3> QED BY <3>1, <3>2, FS_Surjection
  <2> HIDE DEF W, R, f, ones, d
  <2>11. \A ls \in SUBSET Sold : Total(ls) = SumOf(f, ls) /\ Cardinality(ls) = SumOf(ones, ls)
    <3> TAKE ls \in SUBSET Sold
    <3>1. IsFiniteSet(ls)  BY <2>5
    <3>2. \A l \in ls : f[l] = Amount(l) /\ ones[l] = 1  BY <2>6
    <3> QED BY <3>1, <3>2, TotalIsSum, SumOfOnes
  <2>12. Total(R) <= Total(W)
    <3>1. IsFiniteSet(W) /\ \A l \in W : f[l] \in Nat  BY <2>3, <2>5, <2>6
    <3>2. SumOf(f, R) <= SumOf(f, W)  BY <2>3, <3>1, SumGrows
    <3>3. R \in SUBSET Sold /\ W \in SUBSET Sold  BY <2>3
    <3> QED BY <2>11, <3>2, <3>3
  <2> DEFINE wins == [c \in G |-> Cardinality(Of(c))]
             totals == [c \in G |-> Total(Of(c))]
  <2>13. /\ \A c \in G : wins[c] = d[c].wins /\ wins[c] = SumOf(ones, Of(c))
         /\ \A c \in G : totals[c] = d[c].total /\ totals[c] = SumOf(f, Of(c))
    BY <2>8, <2>9, <2>11
  <2>14. /\ IsFiniteSet(W) /\ \A l \in W : f[l] \in Nat /\ ones[l] \in Nat
    BY <2>3, <2>5, <2>6
  <2> HIDE DEF wins, totals
  <2>15. SumOf(wins, G) = SumOf(ones, W) /\ SumOf(totals, G) = SumOf(f, W)
    <3>1. \A c \in G : /\ wins[c] = SumOf(ones, Group(W, CustomerOf, c))
                      /\ totals[c] = SumOf(f, Group(W, CustomerOf, c))
      <4>1. \A c : Of(c) = Group(W, CustomerOf, c)  BY DEF Group
      <4> QED BY <2>13, <4>1
    <3>2. G = {CustomerOf[l] : l \in W}  OBVIOUS
    <3> HIDE DEF G, Of
    <3>3. SumOf(wins, G) = SumOf(ones, W)
      BY <2>14, <3>1, <3>2, SumByGroups
    <3>4. SumOf(totals, G) = SumOf(f, W)
      BY <2>14, <3>1, <3>2, SumByGroups
    <3> QED BY <3>3, <3>4
  <2>16. SumOf(wins, G) = Cardinality(W) /\ SumOf(totals, G) = Total(W)
    BY <2>3, <2>11, <2>15
  <2>17. \A c \in G : wins[c] \in Nat /\ totals[c] \in Nat
    <3> TAKE c \in G
    <3>1. Of(c) \in SUBSET Sold
      BY <2>9
    <3>2. IsFiniteSet(Of(c)) /\ (\A l \in Of(c) : f[l] \in Nat /\ ones[l] \in Nat)
      BY <2>5, <2>6, <3>1
    <3> HIDE DEF Of
    <3> QED BY <2>13, <3>2, SumIsNat
  <2> HIDE DEF G, Of
  <2>18. ASSUME NEW top \in ShownGroups(d)
         PROVE  LET wonBy == MapThenSumSet(LAMBDA c : d[c].wins, top)
                    soldBy == MapThenSumSet(LAMBDA c : d[c].total, top)
                IN  /\ wonBy <= Cardinality(W) /\ soldBy <= Total(W)
                    /\ Cardinality(DOMAIN d) <= GroupRows => wonBy = Cardinality(W) /\ soldBy = Total(W)
    <3>1. top \in SUBSET G /\ (top # G => Cardinality(top) = GroupRows)
      BY <2>8, <2>18 DEF ShownGroups
    <3>2. IsFiniteSet(top) /\ Cardinality(top) <= Cardinality(G)
          /\ (Cardinality(G) = Cardinality(top) => G = top)
      BY <2>10, <3>1, FS_Subset
    <3>3. MapThenSumSet(LAMBDA c : d[c].wins, top) = SumOf(wins, top)
      <4>1. \A c \in top : wins[c] = d[c].wins
        BY <2>13, <3>1
      <4> QED BY <3>2, <4>1, WinsAreSummed
    <3>4. MapThenSumSet(LAMBDA c : d[c].total, top) = SumOf(totals, top)
      <4>1. \A c \in top : totals[c] = d[c].total
        BY <2>13, <3>1
      <4> QED BY <3>2, <4>1, TotalsAreSummed
    <3>5. SumOf(wins, top) <= SumOf(wins, G) /\ SumOf(totals, top) <= SumOf(totals, G)
      BY <2>10, <2>17, <3>1, SumGrows
    <3>6. Cardinality(G) <= GroupRows => top = G
      <4>1. Cardinality(G) \in Nat /\ Cardinality(top) \in Nat /\ GroupRows \in Nat
        BY <2>10, <3>2, FS_CardinalityType, SuppliersAssumption
      <4> QED BY <3>1, <3>2, <4>1
    <3> QED BY <2>8, <2>16, <3>3, <3>4, <3>5, <3>6
  <2> QED BY <2>1, <2>2, <2>3, <2>4, <2>12, <2>18 DEF W, R, d
<1> QED BY <1>1, PTL

-----------------------------------------------------------------------------
(* The pages of the plan: the months of a table that changes under them.    *)

PlanTypes ==
  /\ plan \in [PlanPoints -> PlanVersions \cup {NoPoint}]
  /\ today \in [year : Years, month : 1..LastMonth]

(* What a page under way has counted.                                      *)
Opened(f, s, mv) == [at |-> "opened", form |-> f, scope |-> s, moved |-> mv]
Counted(f, s, n, t, mv) ==
  [at |-> "counted", form |-> f, scope |-> s, n |-> n, sum |-> t, moved |-> mv]
CardView(bins, y, n, t, pn, pt, an, ta, mv) ==
  [at |-> "card", bins |-> bins, year |-> y, moved |-> mv, n |-> n, sum |-> t,
   planned |-> [n |-> pn, sum |-> pt], announced |-> [n |-> an, sum |-> ta]]

ViewIsOpened == \E f, s : \E mv \in BOOLEAN : view = Opened(f, s, mv)
ViewIsCounted ==
  \E f, s, n, t : \E mv \in BOOLEAN :
    /\ view = Counted(f, s, n, t, mv)
    /\ ~mv => n = Cardinality(PlanListed(f, s)) /\ t = PlanSum(PlanListed(f, s))
ViewIsCard ==
  \E bins, y, n, t, pn, pt, an, ta : \E mv \in BOOLEAN :
    /\ view = CardView(bins, y, n, t, pn, pt, an, ta, mv)
    /\ ~mv => n = Cardinality(CardPoints(bins, y)) /\ t = PlanSum(CardPoints(bins, y))
    /\ pn + an = n /\ pt + ta = t /\ an >= 0 /\ ta >= 0

(* A page that no commit has overtaken counted what the table holds now.   *)
PlanPagesInv ==
  /\ PlanTypes
  /\ \/ view = NoView
     \/ ViewIsOpened
     \/ ViewIsCounted
     \/ ViewIsCard
  /\ ShownAddsUp

LEMMA PlanAmountsAreNat ==
  PlanTypes => \A p \in Stored : PlanAmounts[p] \in Nat /\ plan[p] \in PlanRow
<1> HAVE PlanTypes
<1> TAKE p \in Stored
<1>1. plan[p] \in PlanRow
  BY PlanPagesAssumption DEF PlanTypes, Stored
<1>2. plan[p].amount \in Prices \cup {SqlNull}
  BY <1>1 DEF PlanRow
<1> QED BY <1>1, <1>2, PlanPagesAssumption DEF PlanAmounts

LEMMA PlanSumIsSum == \A f, S : SumOver(f, S) = SumOf(f, S)
BY DEF SumOver, SumOf

LEMMA PointsAreFinite ==
  \A ps \in SUBSET Stored : IsFiniteSet(ps)
<1> TAKE ps \in SUBSET Stored
<1>1. ps \subseteq PlanPoints  BY DEF Stored
<1> QED BY <1>1, PlanPagesAssumption, FS_Subset

(* The groups of the months partition the points.                          *)
LEMMA MonthsAddUp ==
  PlanTypes => \A ps \in SUBSET Stored : AddUp(Months(ps), Cardinality(ps), PlanSum(ps))
<1> HAVE PlanTypes
<1> TAKE ps \in SUBSET Stored
<1> DEFINE f == PlanAmounts
           ones == [p \in Stored |-> 1]
           c == [p \in Stored |-> plan[p].month]
           G == {plan[p].month : p \in ps}
           d == Months(ps)
           n == [m \in DOMAIN d |-> d[m].n]
           t == [m \in DOMAIN d |-> d[m].total]
           InMonth(m) == {p \in ps : plan[p].month = m}
<1>1. \A E \in SUBSET ps : IsFiniteSet(E) /\ E \in SUBSET Stored
  BY PointsAreFinite
<1>2. \A p \in ps : f[p] \in Nat /\ ones[p] = 1 /\ ones[p] \in Nat /\ c[p] = plan[p].month
  BY PlanAmountsAreNat
<1>3. DOMAIN d = G
  BY DEF Months
<1>4. \A m \in G : d[m].n = Cardinality(InMonth(m)) /\ d[m].total = SumOver(f, InMonth(m))
  BY DEF Months, PlanSum
<1> HIDE DEF d
<1>5. \A m \in G : n[m] = d[m].n /\ t[m] = d[m].total
  BY <1>3
<1>6. \A m : InMonth(m) = Group(ps, c, m)
  BY <1>2 DEF Group
<1>7. \A m : InMonth(m) \in SUBSET ps
  OBVIOUS
<1>8. G = {c[p] : p \in ps}
  BY <1>2
<1> HIDE DEF n, t, ones, c, f, G, InMonth
<1>9. \A E \in SUBSET ps : Cardinality(E) = SumOf(ones, E)
  <2> TAKE E \in SUBSET ps
  <2>1. IsFiniteSet(E) /\ \A p \in E : ones[p] = 1  BY <1>1, <1>2
  <2> QED BY <2>1, SumOfOnes
<1>10. \A m \in G : n[m] = SumOf(ones, Group(ps, c, m)) /\ t[m] = SumOf(f, Group(ps, c, m))
  <2> TAKE m \in G
  <2>1. Cardinality(InMonth(m)) = SumOf(ones, InMonth(m))  BY <1>7, <1>9
  <2>2. SumOver(f, InMonth(m)) = SumOf(f, InMonth(m))  BY PlanSumIsSum
  <2> QED BY <1>4, <1>5, <1>6, <2>1, <2>2
<1>11. IsFiniteSet(ps)  BY <1>1
<1>12. SumOf(n, G) = SumOf(ones, ps)
  BY <1>2, <1>8, <1>10, <1>11, SumByGroups
<1>13. SumOf(t, G) = SumOf(f, ps)
  BY <1>2, <1>8, <1>10, <1>11, SumByGroups
<1>14. SumOver(n, DOMAIN d) = Cardinality(ps) /\ SumOver(t, DOMAIN d) = PlanSum(ps)
  <2>1. Cardinality(ps) = SumOf(ones, ps)  BY <1>9
  <2>2. PlanSum(ps) = SumOf(f, ps)  BY PlanSumIsSum DEF PlanSum, f
  <2>3. SumOver(n, G) = SumOf(n, G) /\ SumOver(t, G) = SumOf(t, G)  BY PlanSumIsSum
  <2> QED BY <1>3, <1>12, <1>13, <2>1, <2>2, <2>3
<1> QED BY <1>14 DEF AddUp, n, t, d

(* What is planned is a part of the plan.                                  *)
LEMMA PlannedIsAPart ==
  PlanTypes =>
    \A bins, y :
      LET ps == CardPoints(bins, y)
          planned == CardPlanned(bins, y)
      IN  /\ Cardinality(ps) \in Nat /\ Cardinality(planned) \in Nat
          /\ PlanSum(ps) \in Nat /\ PlanSum(planned) \in Nat
          /\ Cardinality(planned) <= Cardinality(ps)
          /\ PlanSum(planned) <= PlanSum(ps)
<1> HAVE PlanTypes
<1> TAKE bins, y
<1> DEFINE ps == CardPoints(bins, y)
           planned == CardPlanned(bins, y)
<1>1. ps \in SUBSET Stored /\ planned \in SUBSET ps
  BY DEF CardPoints, CardPlanned
<1> HIDE DEF ps, planned
<1>2. IsFiniteSet(ps) /\ IsFiniteSet(planned)
  BY <1>1, PointsAreFinite
<1>3. \A p \in ps : PlanAmounts[p] \in Nat
  BY <1>1, PlanAmountsAreNat
<1>4. Cardinality(ps) \in Nat /\ Cardinality(planned) \in Nat
      /\ Cardinality(planned) <= Cardinality(ps)
  BY <1>1, <1>2, FS_CardinalityType, FS_Subset
<1>5. PlanSum(ps) = SumOf(PlanAmounts, ps) /\ PlanSum(planned) = SumOf(PlanAmounts, planned)
  BY PlanSumIsSum DEF PlanSum
<1>6. SumOf(PlanAmounts, planned) <= SumOf(PlanAmounts, ps)
  BY <1>1, <1>2, <1>3, SumGrows
<1>7. SumOf(PlanAmounts, ps) \in Nat
  BY <1>2, <1>3, SumIsNat
<1>8. SumOf(PlanAmounts, planned) \in Nat
  <2>1. \A p \in planned : PlanAmounts[p] \in Nat  BY <1>1, <1>3
  <2> QED BY <1>2, <2>1, SumIsNat
<1> QED BY <1>4, <1>5, <1>6, <1>7, <1>8 DEF ps, planned

LEMMA PlanPagesStart == PlanPagesInit => PlanPagesInv
<1> HAVE PlanPagesInit
<1>1. PlanTypes  BY DEF PlanPagesInit, PlanTypes
<1>2. ShownAddsUp  BY DEF PlanPagesInit, ShownAddsUp, NoView
<1>3. view = NoView  BY DEF PlanPagesInit
<1> QED BY <1>1, <1>2, <1>3 DEF PlanPagesInv

(* As long as the table does not change, neither do the figures.           *)
LEMMA ViewStays ==
  /\ view' = view /\ plan' = plan
  /\ view = NoView \/ ViewIsOpened \/ ViewIsCounted \/ ViewIsCard
  => (view = NoView \/ ViewIsOpened \/ ViewIsCounted \/ ViewIsCard)'
<1> HAVE /\ view' = view /\ plan' = plan
         /\ view = NoView \/ ViewIsOpened \/ ViewIsCounted \/ ViewIsCard
<1>1. Stored' = Stored /\ PlanAmounts' = PlanAmounts
  BY DEF Stored, PlanAmounts
<1>2. \A f, s : PlanListed(f, s)' = PlanListed(f, s)
  BY <1>1 DEF PlanListed
<1>3. \A bins, y : CardPoints(bins, y)' = CardPoints(bins, y)
  BY <1>1 DEF CardPoints
<1>4. CASE view = NoView  BY <1>4 DEF NoView
<1>5. CASE ViewIsOpened  BY <1>5 DEF ViewIsOpened
<1>6. CASE ViewIsCounted
  BY <1>1, <1>2, <1>6 DEF ViewIsCounted, PlanSum
<1>7. CASE ViewIsCard
  BY <1>1, <1>3, <1>7 DEF ViewIsCard, PlanSum
<1> QED BY <1>4, <1>5, <1>6, <1>7

LEMMA ShownStays == shown' = shown /\ ShownAddsUp => ShownAddsUp'
BY DEF ShownAddsUp

(* A commit marks the page that is under way and changes no figure of it.  *)
LEMMA MarkOpened ==
  \A a, f, s, mv, e :
    [[at |-> a, form |-> f, scope |-> s, moved |-> mv] EXCEPT !.moved = e]
      = [at |-> a, form |-> f, scope |-> s, moved |-> e]
BY SMT

LEMMA MarkCounted ==
  \A a, f, s, n, t, mv, e :
    [[at |-> a, form |-> f, scope |-> s, n |-> n, sum |-> t, moved |-> mv] EXCEPT !.moved = e]
      = [at |-> a, form |-> f, scope |-> s, n |-> n, sum |-> t, moved |-> e]
BY SMT

LEMMA MarkCard ==
  \A a, b, y, n, t, p, q, mv, e :
    [[at |-> a, bins |-> b, year |-> y, moved |-> mv, n |-> n, sum |-> t,
      planned |-> p, announced |-> q] EXCEPT !.moved = e]
      = [at |-> a, bins |-> b, year |-> y, moved |-> e, n |-> n, sum |-> t,
         planned |-> p, announced |-> q]
BY SMT

LEMMA MovedOpened == \A f, s, mv : Moved(Opened(f, s, mv)) = Opened(f, s, TRUE)
<1> TAKE f, s, mv
<1>1. Opened(f, s, mv).at # NoView.at  BY DEF Opened, NoView
<1>2. Opened(f, s, mv) # NoView  BY <1>1
<1>3. \A e : [Opened(f, s, mv) EXCEPT !.moved = e] = Opened(f, s, e)
  BY MarkOpened DEF Opened
<1> QED BY <1>2, <1>3 DEF Moved

LEMMA MovedCounted ==
  \A f, s, n, t, mv : Moved(Counted(f, s, n, t, mv)) = Counted(f, s, n, t, TRUE)
<1> TAKE f, s, n, t, mv
<1>1. Counted(f, s, n, t, mv).at # NoView.at  BY DEF Counted, NoView
<1>2. Counted(f, s, n, t, mv) # NoView  BY <1>1
<1>3. \A e : [Counted(f, s, n, t, mv) EXCEPT !.moved = e] = Counted(f, s, n, t, e)
  BY MarkCounted DEF Counted
<1> QED BY <1>2, <1>3 DEF Moved

LEMMA MovedCard ==
  \A bins, y, n, t, pn, pt, an, ta, mv :
    Moved(CardView(bins, y, n, t, pn, pt, an, ta, mv))
      = CardView(bins, y, n, t, pn, pt, an, ta, TRUE)
<1> TAKE bins, y, n, t, pn, pt, an, ta, mv
<1>1. CardView(bins, y, n, t, pn, pt, an, ta, mv).at # NoView.at
  BY DEF CardView, NoView
<1>2. CardView(bins, y, n, t, pn, pt, an, ta, mv) # NoView  BY <1>1
<1>3. \A e : [CardView(bins, y, n, t, pn, pt, an, ta, mv) EXCEPT !.moved = e]
               = CardView(bins, y, n, t, pn, pt, an, ta, e)
  BY MarkCard DEF CardView
<1> QED BY <1>2, <1>3 DEF Moved

LEMMA ArrivalKeepsPages ==
  ASSUME PlanPagesInv, NEW p \in PlanPoints, NEW r \in PlanVersions, PointArrives(p, r)
  PROVE  PlanPagesInv'
<1>1. PlanTypes'
  BY DEF PlanPagesInv, PlanTypes, PointArrives
<1>2. ShownAddsUp'
  BY ShownStays DEF PlanPagesInv, PointArrives
<1>3. CASE view = NoView
  <2>1. view' = NoView  BY <1>3 DEF PointArrives, Moved
  <2> QED BY <1>1, <1>2, <2>1 DEF PlanPagesInv, NoView
<1>4. CASE ViewIsOpened
  <2>1. PICK f, s : \E mv \in BOOLEAN : view = Opened(f, s, mv)  BY <1>4 DEF ViewIsOpened
  <2>2. view' = Opened(f, s, TRUE)  BY <2>1, MovedOpened DEF PointArrives
  <2>3. ViewIsOpened'  BY <2>2 DEF ViewIsOpened
  <2> QED BY <1>1, <1>2, <2>3 DEF PlanPagesInv
<1>5. CASE ViewIsCounted
  <2>1. PICK f, s, n, t : \E mv \in BOOLEAN : view = Counted(f, s, n, t, mv)
    BY <1>5 DEF ViewIsCounted
  <2>2. view' = Counted(f, s, n, t, TRUE)
    BY <2>1, MovedCounted DEF PointArrives
  <2>3. ViewIsCounted'  BY <2>2 DEF ViewIsCounted
  <2> QED BY <1>1, <1>2, <2>3 DEF PlanPagesInv
<1>6. CASE ViewIsCard
  <2>1. PICK bins, y, n, t, pn, pt, an, ta :
          /\ \E mv \in BOOLEAN : view = CardView(bins, y, n, t, pn, pt, an, ta, mv)
          /\ pn + an = n /\ pt + ta = t /\ an >= 0 /\ ta >= 0
    BY <1>6 DEF ViewIsCard
  <2>2. view' = CardView(bins, y, n, t, pn, pt, an, ta, TRUE)
    BY <2>1, MovedCard DEF PointArrives
  <2>3. ViewIsCard'  BY <2>1, <2>2 DEF ViewIsCard
  <2> QED BY <1>1, <1>2, <2>3 DEF PlanPagesInv
<1> QED BY <1>3, <1>4, <1>5, <1>6 DEF PlanPagesInv

LEMMA MonthKeepsPages == PlanPagesInv /\ MonthPasses => PlanPagesInv'
<1> HAVE PlanPagesInv /\ MonthPasses
<1>1. today' \in [year : Years, month : 1..LastMonth]
  <2>1. today \in [year : Years, month : 1..LastMonth] /\ LastMonth \in Nat \ {0}
    BY PlanPagesAssumption DEF PlanPagesInv, PlanTypes
  <2>2. CASE today.month < LastMonth /\ today' = [today EXCEPT !.month = @ + 1]
    <3>1. today.month + 1 \in 1..LastMonth  BY <2>1, <2>2
    <3> QED BY <2>1, <2>2, <3>1
  <2>3. CASE today.year + 1 \in Years /\ today' = [year |-> today.year + 1, month |-> 1]
    <3>1. 1 \in 1..LastMonth  BY <2>1
    <3> QED BY <2>3, <3>1
  <2> QED BY <2>2, <2>3 DEF MonthPasses
<1>2. PlanTypes'  BY <1>1 DEF PlanPagesInv, PlanTypes, MonthPasses
<1> QED BY <1>2, ViewStays, ShownStays DEF PlanPagesInv, MonthPasses

LEMMA OpeningKeepsPages ==
  ASSUME PlanPagesInv, NEW f \in PageForms, NEW s \in UserScopes, PageOpens(f, s)
  PROVE  PlanPagesInv'
<1>1. PlanTypes'  BY DEF PlanPagesInv, PlanTypes, PageOpens
<1>2. ShownAddsUp'  BY DEF PageOpens, ShownAddsUp, NoView
<1>3. ViewIsOpened'
  <2> DEFINE g == [f EXCEPT !.year = YearOf(f)]
  <2>1. view' = Opened(g, s, FALSE)  BY DEF PageOpens, Opened
  <2> HIDE DEF g
  <2> QED BY <2>1 DEF ViewIsOpened
<1> QED BY <1>1, <1>2, <1>3 DEF PlanPagesInv

LEMMA CountingKeepsPages == PlanPagesInv /\ PageCounts => PlanPagesInv'
<1> HAVE PlanPagesInv /\ PageCounts
<1>1. PlanTypes'  BY DEF PlanPagesInv, PlanTypes, PageCounts
<1>2. ShownAddsUp'  BY ShownStays DEF PlanPagesInv, PageCounts
<1>3. ViewIsCounted'
  <2> DEFINE f == view.form
             s == view.scope
             ps == PlanListed(f, s)
  <2>1. view' = Counted(f, s, Cardinality(ps), PlanSum(ps), FALSE)
    BY DEF PageCounts, Counted
  <2>2. \A g, u : PlanListed(g, u)' = PlanListed(g, u)
    BY DEF PageCounts, PlanListed, Stored
  <2>3. \A qs : PlanSum(qs)' = PlanSum(qs)
    BY DEF PageCounts, PlanSum, PlanAmounts, Stored
  <2> HIDE DEF f, s
  <2> QED BY <2>1, <2>2, <2>3 DEF ViewIsCounted
<1> QED BY <1>1, <1>2, <1>3 DEF PlanPagesInv

LEMMA PageKeepsPages == PlanPagesInv /\ PageShows => PlanPagesInv'
<1> HAVE PlanPagesInv /\ PageShows
<1>1. PlanTypes'  BY DEF PlanPagesInv, PlanTypes, PageShows
<1>2. view' = NoView  BY DEF PageShows
<1>3. ViewIsCounted
  BY DEF PlanPagesInv, PageShows, NoView, ViewIsOpened, Opened, ViewIsCard, CardView
<1>4. PICK f, s, n, t : \E mv \in BOOLEAN :
        /\ view = Counted(f, s, n, t, mv)
        /\ ~mv => n = Cardinality(PlanListed(f, s)) /\ t = PlanSum(PlanListed(f, s))
  BY <1>3 DEF ViewIsCounted
<1>5. PICK mv \in BOOLEAN :
        /\ view = Counted(f, s, n, t, mv)
        /\ ~mv => n = Cardinality(PlanListed(f, s)) /\ t = PlanSum(PlanListed(f, s))
  BY <1>4
<1>6. shown' = [at |-> "page", n |-> n, sum |-> t, moved |-> mv, months |-> Months(PlanListed(f, s))]
  BY <1>5 DEF PageShows, Counted
<1>7. ~mv => AddUp(Months(PlanListed(f, s)), n, t)
  <2>1. PlanListed(f, s) \in SUBSET Stored  BY DEF PlanListed
  <2> QED BY <1>5, <2>1, MonthsAddUp DEF PlanPagesInv
<1>8. ShownAddsUp'  BY <1>6, <1>7 DEF ShownAddsUp
<1> QED BY <1>1, <1>2, <1>8 DEF PlanPagesInv, NoView

LEMMA CardCountsKeepsPages ==
  ASSUME PlanPagesInv, NEW bins \in Cards, CardCounts(bins)
  PROVE  PlanPagesInv'
<1>1. PlanTypes'  BY DEF PlanPagesInv, PlanTypes, CardCounts
<1>2. ShownAddsUp'  BY DEF CardCounts, ShownAddsUp, NoView
<1>3. ViewIsCard'
  <2> DEFINE y == today.year
             ps == CardPoints(bins, y)
             planned == CardPlanned(bins, y)
             n == Cardinality(ps)
             t == PlanSum(ps)
             pn == Cardinality(planned)
             pt == PlanSum(planned)
  <2>1. view' = CardView(bins, y, n, t, pn, pt, n - pn, t - pt, FALSE)
    BY DEF CardCounts, CardView
  <2>2. n \in Nat /\ t \in Nat /\ pn \in Nat /\ pt \in Nat /\ pn <= n /\ pt <= t
    BY PlannedIsAPart DEF PlanPagesInv
  <2>5. /\ \A b, z : Cardinality(CardPoints(b, z))' = Cardinality(CardPoints(b, z))
        /\ \A b, z : PlanSum(CardPoints(b, z))' = PlanSum(CardPoints(b, z))
    BY DEF CardCounts, CardPoints, PlanSum, PlanAmounts, Stored
  <2>6. n = Cardinality(CardPoints(bins, y)) /\ t = PlanSum(CardPoints(bins, y))
    OBVIOUS
  <2> HIDE DEF y, ps, planned, n, t, pn, pt
  <2>7. pn + (n - pn) = n /\ pt + (t - pt) = t /\ n - pn >= 0 /\ t - pt >= 0
    BY <2>2
  <2>8. \E b, z, m, u, pm, pu, am, au : \E mv \in BOOLEAN :
          /\ view' = CardView(b, z, m, u, pm, pu, am, au, mv)
          /\ ~mv => m = Cardinality(CardPoints(b, z)) /\ u = PlanSum(CardPoints(b, z))
          /\ pm + am = m /\ pu + au = u /\ am >= 0 /\ au >= 0
    BY <2>1, <2>6, <2>7
  <2> QED BY <2>5, <2>8 DEF ViewIsCard
<1> QED BY <1>1, <1>2, <1>3 DEF PlanPagesInv

LEMMA CardKeepsPages == PlanPagesInv /\ CardShows => PlanPagesInv'
<1> HAVE PlanPagesInv /\ CardShows
<1>1. PlanTypes'  BY DEF PlanPagesInv, PlanTypes, CardShows
<1>2. view' = NoView  BY DEF CardShows
<1>3. ViewIsCard
  BY DEF PlanPagesInv, CardShows, NoView, ViewIsOpened, Opened, ViewIsCounted, Counted
<1>4. PICK bins, y, n, t, pn, pt, an, ta : \E mv \in BOOLEAN :
        /\ view = CardView(bins, y, n, t, pn, pt, an, ta, mv)
        /\ ~mv => n = Cardinality(CardPoints(bins, y)) /\ t = PlanSum(CardPoints(bins, y))
        /\ pn + an = n /\ pt + ta = t /\ an >= 0 /\ ta >= 0
  BY <1>3 DEF ViewIsCard
<1>5. PICK mv \in BOOLEAN :
        /\ view = CardView(bins, y, n, t, pn, pt, an, ta, mv)
        /\ ~mv => n = Cardinality(CardPoints(bins, y)) /\ t = PlanSum(CardPoints(bins, y))
  BY <1>4
<1>6. shown' = [at |-> "card", n |-> n, sum |-> t, moved |-> mv,
                planned |-> [n |-> pn, sum |-> pt], announced |-> [n |-> an, sum |-> ta],
                months |-> Months(CardPoints(bins, y))]
  BY <1>5 DEF CardShows, CardView
<1>7. ~mv => AddUp(Months(CardPoints(bins, y)), n, t)
  <2>1. CardPoints(bins, y) \in SUBSET Stored  BY DEF CardPoints
  <2> QED BY <1>5, <2>1, MonthsAddUp DEF PlanPagesInv
<1>8. ShownAddsUp'  BY <1>4, <1>6, <1>7 DEF ShownAddsUp
<1> QED BY <1>1, <1>2, <1>8 DEF PlanPagesInv, NoView

LEMMA PlanPagesInduction == PlanPagesInv /\ [PlanPagesNext]_planPagesVars => PlanPagesInv'
<1> HAVE PlanPagesInv /\ [PlanPagesNext]_planPagesVars
<1>1. CASE UNCHANGED planPagesVars
  <2>1. PlanTypes'  BY <1>1 DEF PlanPagesInv, PlanTypes, planPagesVars
  <2> QED BY <1>1, <2>1, ViewStays, ShownStays DEF PlanPagesInv, planPagesVars
<1> QED
  BY <1>1, ArrivalKeepsPages, MonthKeepsPages, OpeningKeepsPages, CountingKeepsPages,
     PageKeepsPages, CardCountsKeepsPages, CardKeepsPages DEF PlanPagesNext

LEMMA PlanPagesInvHolds == PlanPagesSpec => []PlanPagesInv
BY PlanPagesStart, PlanPagesInduction, PTL DEF PlanPagesSpec

(* The months of a page add up to its totals unless a commit came between   *)
(* the two statements, and the planned and the announced of a card are its  *)
(* total (plan_report.py:110-133, 197-257), for any finite set of points,   *)
(* any forms, scopes and cards.                                             *)
LEMMA PlanFiguresAddUp == PlanPagesSpec => []ShownAddsUp
<1>1. PlanPagesInv => ShownAddsUp  BY DEF PlanPagesInv
<1> QED BY <1>1, PlanPagesInvHolds, PTL

LEMMA DashboardIsItsPages ==
  ASSUME PlanTypes, NEW s \in UserScopes
  PROVE  Upcoming(s) =
           UNION {PlanListed([UpcomingForm EXCEPT !.month = m], s) : m \in UpcomingMonths}
<1>1. UpcomingMonths \subseteq 1..LastMonth
  BY PlanPagesAssumption DEF UpcomingMonths, PlanTypes
<1>2. \A m \in UpcomingMonths, p \in Stored :
        p \in PlanListed([UpcomingForm EXCEPT !.month = m], s) <=>
          p \in PlanListed(UpcomingForm, s) /\ plan[p].month = m
  <2> TAKE m \in UpcomingMonths, p \in Stored
  <2>1. m \in 1..LastMonth  BY <1>1
  <2> DEFINE f == [UpcomingForm EXCEPT !.month = m]
             g == UpcomingForm
  <2>2. /\ f.q = g.q /\ f.category = g.category /\ f.stage = g.stage /\ f.method = g.method
        /\ f.emarket = g.emarket /\ f.from = g.from /\ f.to = g.to /\ f.year = g.year
        /\ f.month = m /\ m # SqlNull /\ g.month = SqlNull
    <3>1. m # SqlNull  BY <2>1, PlanPagesAssumption
    <3> QED BY <3>1 DEF UpcomingForm, AnyForm
  <2> HIDE DEF f, g
  <2>3. PlanConditions(f, plan[p]) <=> PlanConditions(g, plan[p]) /\ plan[p].month = m
    BY <2>2 DEF PlanConditions
  <2>4. p \in PlanListed(f, s) <=> p \in PlanListed(g, s) /\ plan[p].month = m
    BY <2>3 DEF PlanListed
  <2> QED BY <2>4 DEF f, g
<1>3. \A f : PlanListed(f, s) \subseteq Stored  BY DEF PlanListed
<1> DEFINE pages == {PlanListed([UpcomingForm EXCEPT !.month = m], s) : m \in UpcomingMonths}
<1>4. Upcoming(s) = {p \in PlanListed(UpcomingForm, s) : plan[p].month \in UpcomingMonths}
  BY DEF Upcoming
<1>5. \A p : p \in UNION pages <=>
        \E m \in UpcomingMonths : p \in PlanListed([UpcomingForm EXCEPT !.month = m], s)
  OBVIOUS
<1>6. \A p : p \in UNION pages <=> p \in Upcoming(s)
  <2> TAKE p
  <2>1. p \in UNION pages => p \in Upcoming(s)
    <3> HAVE p \in UNION pages
    <3>1. PICK m \in UpcomingMonths : p \in PlanListed([UpcomingForm EXCEPT !.month = m], s)
      BY <1>5
    <3>2. p \in Stored  BY <1>3, <3>1
    <3> QED BY <1>2, <1>4, <3>1, <3>2
  <2>2. p \in Upcoming(s) => p \in UNION pages
    <3> HAVE p \in Upcoming(s)
    <3>1. p \in PlanListed(UpcomingForm, s) /\ plan[p].month \in UpcomingMonths  BY <1>4
    <3>2. p \in Stored  BY <1>3, <3>1
    <3>3. p \in PlanListed([UpcomingForm EXCEPT !.month = plan[p].month], s)
      BY <1>2, <3>1, <3>2
    <3> QED BY <1>5, <3>1, <3>3
  <2> QED BY <2>1, <2>2
<1> HIDE DEF pages
<1>7. UNION pages = Upcoming(s)  BY <1>6
<1> QED BY <1>7 DEF pages

LEMMA ScopesAgree ==
  ASSUME PlanTypes, NEW s \in UserScopes, NEW p \in Stored
  PROVE  PlanScopeSql(s, plan[p]) <=> PlanInScope(s, plan[p])
<1>1. /\ s.min \in Prices \cup {SqlNull}
      /\ plan[p].amount \in Prices \cup {SqlNull}
  <2>1. s \in PlanScopes  BY PlanPagesAssumption
  <2>2. plan[p] \in PlanRow  BY PlanAmountsAreNat
  <2> QED BY <2>1, <2>2 DEF PlanScopes, PlanRow
<1> DEFINE a == plan[p].amount
           m == s.min
<1>2. m \notin {SqlNull, 0} /\ a # SqlNull => (a >= m <=> ~(a < m))
  <2> SUFFICES ASSUME m \notin {SqlNull, 0}, a # SqlNull PROVE a >= m <=> ~(a < m)
    OBVIOUS
  <2>1. a \in Nat /\ m \in Nat  BY <1>1, PlanPagesAssumption
  <2> QED BY <2>1
<1> QED BY <1>2 DEF PlanScopeSql, PlanInScope

LEMMA CardIsItsPage ==
  ASSUME PlanTypes, NEW bins \in Cards, NEW y \in Years, NEW stage \in {"planned", "announced", "all"}
  PROVE  {p \in PlanListed([AnyForm EXCEPT !.stage = stage, !.emarket = TRUE, !.year = y],
                       NoScope) : plan[p].bin \in bins}
           = {p \in CardPoints(bins, y) : stage = "all" \/ plan[p].status = stage}
<1> DEFINE f == [AnyForm EXCEPT !.stage = stage, !.emarket = TRUE, !.year = y]
<1>1. /\ f.q = SqlNull /\ f.category = SqlNull /\ f.month = SqlNull /\ f.stage = stage
      /\ f.method = SqlNull /\ f.emarket = TRUE /\ f.from = SqlNull /\ f.to = SqlNull /\ f.year = y
  BY DEF AnyForm
<1>2. y # SqlNull /\ SqlNull # "other"
  BY PlanPagesAssumption
<1> HIDE DEF f
<1>3. \A r : PlanConditions(f, r) <=>
               r.active /\ r.year = y /\ (stage = "all" \/ r.status = stage)
  BY <1>1, <1>2 DEF PlanConditions
<1>4. \A r : PlanScopeSql(NoScope, r)
  BY DEF PlanScopeSql, NoScope
<1>5. \A p : p \in PlanListed(f, NoScope) <=>
        p \in Stored /\ plan[p].active /\ plan[p].year = y /\ (stage = "all" \/ plan[p].status = stage)
  BY <1>3, <1>4 DEF PlanListed
<1>6. {p \in PlanListed(f, NoScope) : plan[p].bin \in bins}
        = {p \in CardPoints(bins, y) : stage = "all" \/ plan[p].status = stage}
  BY <1>5 DEF CardPoints
<1> QED BY <1>6 DEF f

(* The dashboard, the card of an organization and the notifications select  *)
(* the points that the page of the plan lists (plan_report.py:64-99,        *)
(* scope.py:73-99), for all of them.                                        *)
LEMMA PlanReadersAgree == PlanPagesSpec => []PlanPagesAgree
<1>1. PlanTypes => PlanPagesAgree
  <2> HAVE PlanTypes
  <2>1. \A s \in UserScopes :
          /\ Upcoming(s) =
               UNION {PlanListed([UpcomingForm EXCEPT !.month = m], s) : m \in UpcomingMonths}
          /\ \A p \in Stored : PlanScopeSql(s, plan[p]) <=> PlanInScope(s, plan[p])
    BY DashboardIsItsPages, ScopesAgree
  <2>2. ASSUME NEW bins \in Cards, NEW y \in Years
        PROVE LET theirs(stage) ==
                    {p \in PlanListed([AnyForm EXCEPT !.stage = stage, !.emarket = TRUE, !.year = y],
                                  NoScope) : plan[p].bin \in bins}
              IN  /\ theirs("all") = CardPoints(bins, y)
                  /\ theirs("planned") = CardPlanned(bins, y)
                  /\ theirs("announced") =
                       {p \in CardPoints(bins, y) \ CardPlanned(bins, y) : plan[p].status # SqlNull}
    <3> DEFINE theirs(stage) ==
                 {p \in PlanListed([AnyForm EXCEPT !.stage = stage, !.emarket = TRUE, !.year = y],
                               NoScope) : plan[p].bin \in bins}
               of(stage) == {p \in CardPoints(bins, y) : stage = "all" \/ plan[p].status = stage}
    <3>1. \A stage \in {"planned", "announced", "all"} : theirs(stage) = of(stage)
      BY CardIsItsPage
    <3>2. of("all") = CardPoints(bins, y)  OBVIOUS
    <3>3. of("planned") = CardPlanned(bins, y)  BY DEF CardPlanned
    <3>4. of("announced") =
            {p \in CardPoints(bins, y) \ CardPlanned(bins, y) : plan[p].status # SqlNull}
      <4>1. \A p \in CardPoints(bins, y) : plan[p].status \in {"planned", "announced", SqlNull}
        <5>1. \A p \in Stored : plan[p] \in PlanRow  BY PlanAmountsAreNat
        <5> QED BY <5>1 DEF CardPoints, PlanRow
      <4>2. SqlNull \notin {"planned", "announced"}  BY PlanPagesAssumption
      <4> QED BY <4>1, <4>2 DEF CardPlanned
    <3> QED BY <3>1, <3>2, <3>3, <3>4
  <2> QED BY <2>1, <2>2 DEF PlanPagesAgree
<1>2. PlanPagesInv => PlanPagesAgree  BY <1>1 DEF PlanPagesInv
<1> QED BY <1>2, PlanPagesInvHolds, PTL

(* The pages of the plan show figures that fit each other and the points    *)
(* they list, whatever plans-sync commits and whatever is NULL, for any     *)
(* plan, forms, scopes and cards.                                           *)
THEOREM PlanPagesStayTrue == PlanPagesSpec => []PlanPagesFit
<1>1. ShownAddsUp /\ PlanPagesAgree => PlanPagesFit  BY DEF PlanPagesFit
<1> QED BY <1>1, PlanFiguresAddUp, PlanReadersAgree, PTL

-----------------------------------------------------------------------------
(* One final POST and an honest outcome.                                    *)

USE FinalPostAssumption

LEMMA PostTypeInit == PostInit => PostTypeOK
  BY DEF PostInit, PostTypeOK, Outcomes

LEMMA PostTypeStep == PostTypeOK /\ [PostNext]_postVars => PostTypeOK'
  <1> SUFFICES ASSUME PostTypeOK, [PostNext]_postVars PROVE PostTypeOK'
    OBVIOUS
  <1> USE DEF PostTypeOK, Outcomes, Answers, NoReply, Ends
  <1>1. CASE NotConnected
    BY <1>1 DEF NotConnected
  <1>2. CASE PostLeaves
    BY <1>2 DEF PostLeaves
  <1>3. CASE NoAnswer
    BY <1>3 DEF NoAnswer
  <1>4. CASE PostLost
    BY <1>4 DEF PostLost
  <1>5. CASE PostAnswered
    BY <1>5 DEF PostAnswered, Verdict
  <1>6. ASSUME NEW a \in Answers, PortalHandles(a) PROVE PostTypeOK'
    BY <1>6 DEF PortalHandles
  <1>7. CASE UNCHANGED postVars
    BY <1>7 DEF postVars
  <1> QED BY <1>1, <1>2, <1>3, <1>4, <1>5, <1>6, <1>7 DEF PostNext

(* The variables of a submission's last step keep their types.             *)
THEOREM PostTypes == PostSpec => []PostTypeOK
  BY PostTypeInit, PostTypeStep, PTL DEF PostSpec

-----------------------------------------------------------------------------
(* A client that may still connect has sent nothing and reported nothing.  *)
(* OnePost alone is not inductive: it would let a client with a POST       *)
(* behind it connect again.                                                *)
NothingHasLeft ==
  at = "connect" =>
    wire = 0 /\ outcome = "none" /\ handled = 0

(* The reply is to the POST that was handled.                              *)
AnswerIsHeard == handled = 0 <=> reply = NoReply

PostInv == NothingHasLeft /\ AnswerIsHeard /\ OnePost /\ FireIsHonest

LEMMA PostInvInit == PostInit => PostInv
  BY DEF PostInit, PostInv, NothingHasLeft, AnswerIsHeard, OnePost, FireIsHonest

LEMMA PostInvStep == PostTypeOK /\ PostInv /\ [PostNext]_postVars => PostInv'
  <1> SUFFICES ASSUME PostTypeOK, PostInv, [PostNext]_postVars PROVE PostInv'
    OBVIOUS
  <1> USE DEF PostTypeOK, PostInv, NothingHasLeft, AnswerIsHeard, OnePost, FireIsHonest, Outcomes,
              Ends
  <1>1. CASE NotConnected
    BY <1>1 DEF NotConnected
  <1>2. CASE PostLeaves
    BY <1>2 DEF PostLeaves
  <1>3. CASE NoAnswer
    BY <1>3 DEF NoAnswer
  <1>4. CASE PostLost
    BY <1>4 DEF PostLost
  <1>5. CASE PostAnswered
    <2>1. wire = 0 /\ handled = 1
      BY <1>5 DEF PostAnswered
    <2>2. reply \in Answers /\ reply.error \in BOOLEAN /\ reply.below \in BOOLEAN
      BY <1>5 DEF PostAnswered, Answers
    <2>3. UNCHANGED <<via, wire, handled, reply>> /\ at' = "done" /\ outcome' = Verdict(reply)
      BY <1>5 DEF PostAnswered
    <2> QED BY <2>1, <2>2, <2>3 DEF Verdict
  <1>6. ASSUME NEW a \in Answers, PortalHandles(a) PROVE PostInv'
    <2>1. wire = 1 /\ wire' = 0 /\ handled = 0 /\ handled' = 1 /\ reply' = a
      BY <1>6 DEF PortalHandles
    <2>2. a # NoReply
      <3>1. DOMAIN a = {"below", "error", "accepted"}
        BY DEF Answers
      <3>2. DOMAIN NoReply = {"below", "error", "accepted", "none"}
        BY DEF NoReply
      <3> QED BY <3>1, <3>2
    <2>3. at # "connect" /\ UNCHANGED <<via, at, outcome>>
      BY <1>6, <2>1 DEF PortalHandles
    <2>4. wire > 0
      BY <2>1
    <2> QED BY <2>1, <2>2, <2>3, <2>4
  <1>7. CASE UNCHANGED postVars
    BY <1>7 DEF postVars
  <1> QED BY <1>1, <1>2, <1>3, <1>4, <1>5, <1>6, <1>7 DEF PostNext

LEMMA PostInvariant == PostSpec => []PostInv
  BY PostTypeInit, PostTypeStep, PostInvInit, PostInvStep, PTL DEF PostSpec

(* However often fire() retries, the portal gets the final POST of a       *)
(* submission at most once (fire.py:96-103): only an attempt that has not  *)
(* connected is repeated.                                                  *)
THEOREM PostedOnce == PostSpec => []OnePost
  BY PostInvariant, PTL DEF PostInv

(* While its POST may still be handled, fire() calls the outcome UNKNOWN;  *)
(* FAILED and SUBMITTED repeat what the portal answered, whether or not    *)
(* the answer was true (fire.py:31-33,85-112), for any number of retries.  *)
THEOREM FireTellsWhatItHeard == PostSpec => []FireIsHonest
  BY PostInvariant, PTL DEF PostInv
=============================================================================
