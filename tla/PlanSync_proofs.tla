--------------------------- MODULE PlanSync_proofs ---------------------------
(* One writer of plan_points at a time, for any number of plan points, any *)
(* page size and any number of versions and failures: plan_points never    *)
(* goes back to an older version, the watermark is sound while nothing     *)
(* went wrong in a daily walk, and a backfill that is resumed loses        *)
(* nothing wherever it was cut.                                            *)
EXTENDS MCPlanSync, FiniteSetTheorems, WellFoundedInduction, TLAPS

USE PlanAssumption

-----------------------------------------------------------------------------
(* Greatest and least elements.                                            *)

LEMMA LeastExists ==
  ASSUME NEW S \in SUBSET Nat, S # {}
  PROVE  \E m \in S : \A k \in S : m <= k
  <1> DEFINE R == {p \in Nat \X Nat : p[1] < p[2]}
  <1>1. R = OpToRel(<, Nat)
    BY DEF OpToRel
  <1>2. IsWellFoundedOn(R, Nat)
    BY <1>1, NatLessThanWellFounded
  <1>3. PICK m \in S : \A k \in S : ~(<<k, m>> \in R)
    <2> HIDE DEF R
    <2> QED BY <1>2, WFMin
  <1>4. ASSUME NEW k \in S PROVE m <= k
    <2>1. k \in Nat /\ m \in Nat /\ <<k, m>> \in Nat \X Nat  OBVIOUS
    <2>2. ~(k < m)  BY <1>3, <2>1
    <2> QED BY <2>1, <2>2
  <1> QED BY <1>4

LEMMA MinIsLeast ==
  ASSUME NEW S \in SUBSET Nat, S # {}
  PROVE  Min(S) \in S /\ \A k \in S : Min(S) <= k
  BY LeastExists DEF Min

LEMMA MaxIsGreatest ==
  ASSUME NEW n \in Nat, NEW S \in SUBSET (0 .. n), S # {}
  PROVE  Max(S) \in S /\ \A k \in S : k <= Max(S)
  <1> DEFINE T == {n - k : k \in S}
  <1>1. \A k \in S : k \in Int /\ n - k \in Nat
    OBVIOUS
  <1>2. PICK m \in T : \A j \in T : m <= j
    <2>1. T \in SUBSET Nat  BY <1>1
    <2>2. T # {}  OBVIOUS
    <2> HIDE DEF T
    <2> QED BY <2>1, <2>2, LeastExists
  <1>3. PICK k \in S : m = n - k  OBVIOUS
  <1>4. ASSUME NEW j \in S PROVE k >= j
    <2>1. n - j \in T  OBVIOUS
    <2>2. n - k <= n - j  BY <1>2, <1>3, <2>1
    <2> QED BY <2>2, <1>1
  <1>5. \E x \in S : \A y \in S : x >= y  BY <1>4
  <1>6. Max(S) \in S /\ \A y \in S : Max(S) >= y  BY <1>5 DEF Max
  <1> QED BY <1>1, <1>6

(* The watermark is the greatest stored version.                           *)
LEMMA WatermarkIsGreatest ==
  ASSUME TypeOK
  PROVE  /\ Watermark \in 0 .. Len(source)
         /\ \A r \in Roots : stored[r] <= Watermark
         /\ \E r \in Roots : stored[r] = Watermark
  <1> DEFINE S == {stored[r] : r \in Roots}
  <1>1. MaxId \in Nat /\ S \in SUBSET (0 .. MaxId) /\ S # {}
    BY DEF TypeOK, PlanAssumption
  <1>2. Max(S) \in S /\ \A k \in S : k <= Max(S)
    <2> HIDE DEF S
    <2> QED BY <1>1, MaxIsGreatest
  <1>3. PICK q \in Roots : Max(S) = stored[q]  BY <1>2
  <1>4. stored[q] \in 0 .. Len(source)
    BY DEF TypeOK, PlanAssumption
  <1> QED BY <1>2, <1>3, <1>4 DEF Watermark

(* A page is a segment of the ids below the cursor that begins at the      *)
(* greatest of them, and is empty only if there are none.                  *)
LEMMA PageIsTopSegment ==
  ASSUME source \in Seq(Roots), NEW n \in Nat
  PROVE  /\ NextPage(n) \subseteq Below(n)
         /\ \A i \in NextPage(n), j \in Below(n) : j > i => j \in NextPage(n)
         /\ NextPage(n) = {} => Below(n) = {}
  <1> DEFINE Above(i) == {j \in Below(n) : j > i}
  <1>1. Below(n) \subseteq 1 .. Len(source) /\ Len(source) \in Nat /\ PageSize \in Nat \ {0}
    BY DEF Below, PlanAssumption
  <1>2. ASSUME NEW i \in Below(n)
        PROVE  IsFiniteSet(Above(i)) /\ Cardinality(Above(i)) \in Nat
    <2>1. IsFiniteSet(1 .. Len(source))  BY <1>1, FS_Interval
    <2>2. Above(i) \subseteq 1 .. Len(source)  BY <1>1
    <2>3. IsFiniteSet(Above(i))
      <3> HIDE DEF Above
      <3> QED BY <2>1, <2>2, FS_Subset
    <2> QED BY <2>3, FS_CardinalityType
  <1>3. ASSUME NEW i \in NextPage(n), NEW j \in Below(n), j > i PROVE j \in NextPage(n)
    <2>1. i \in Below(n) /\ Cardinality(Above(i)) < PageSize  BY DEF NextPage
    <2>2. Above(j) \subseteq Above(i)  BY <1>1, <2>1, <1>3
    <2>3. Cardinality(Above(j)) <= Cardinality(Above(i))
      <3>1. IsFiniteSet(Above(i))  BY <1>2, <2>1
      <3> HIDE DEF Above
      <3> QED BY <3>1, <2>2, FS_Subset
    <2>4. Cardinality(Above(j)) \in Nat /\ Cardinality(Above(i)) \in Nat  BY <1>2, <2>1
    <2>5. Cardinality(Above(j)) < PageSize
      <3> HIDE DEF Above
      <3> QED BY <2>1, <2>3, <2>4, <1>1
    <2> QED BY <2>5 DEF NextPage
  <1>4. ASSUME Below(n) # {} PROVE NextPage(n) # {}
    <2>1. Below(n) \in SUBSET (0 .. Len(source))  BY <1>1
    <2>2. Max(Below(n)) \in Below(n) /\ \A k \in Below(n) : k <= Max(Below(n))
      BY <2>1, <1>1, <1>4, MaxIsGreatest
    <2>3. Above(Max(Below(n))) = {}  BY <2>1, <2>2
    <2>4. Cardinality(Above(Max(Below(n)))) = 0  BY <2>3, FS_EmptySet
    <2> QED BY <2>2, <2>4, <1>1 DEF NextPage
  <1>5. NextPage(n) \subseteq Below(n)  BY DEF NextPage
  <1> QED BY <1>3, <1>4, <1>5

-----------------------------------------------------------------------------
(* What a session holds, for any set of writers.                           *)

Rows ==
  /\ source \in Seq(Roots) /\ Len(source) <= MaxId
  /\ stored \in [Roots -> 0 .. MaxId]
  /\ \A r \in Roots : stored[r] # 0 =>
       stored[r] <= Len(source) /\ source[stored[r]] = r

Walks ==
  /\ pc \in [Writers -> {"idle", "fetch", "page", "commit"}]
  /\ cursor \in [Writers -> Cursor]
  /\ page \in [Writers -> SUBSET Ids]

Sessions ==
  /\ staged \in [Writers -> [Roots -> 0 .. MaxId]]
  /\ inserts \in [Writers -> SUBSET Roots]
  /\ clash \in [Writers -> BOOLEAN]

Marks == failures \in 0 .. MaxFailures /\ trouble \subseteq Troubles

LEMMA TypeParts == TypeOK <=> Rows /\ Walks /\ Sessions /\ Marks
  BY DEF TypeOK, Rows, Walks, Sessions, Marks

PageOK(w) ==
  /\ page[w] \subseteq 1 .. Len(source)
  /\ pc[w] # "page" => page[w] = {}

StagedOK(w) ==
  \A r \in Roots : staged[w][r] # 0 =>
    staged[w][r] <= Len(source) /\ source[staged[w][r]] = r

FreshOK(w) ==
  pc[w] \in {"idle", "fetch"} =>
    staged[w] = NoneStaged /\ inserts[w] = {} /\ clash[w] = FALSE

SessionOK(w) == PageOK(w) /\ StagedOK(w) /\ FreshOK(w)

Base == Rows /\ Walks /\ Sessions /\ Marks /\ \A w \in Writers : SessionOK(w)

LEMMA BaseInit == Init => Base
  <1> SUFFICES ASSUME Init PROVE Base
    OBVIOUS
  <1>1. source \in Seq(Roots) /\ Len(source) = Published /\ DOMAIN source = 1 .. Published
    BY DEF Init, InitWith, PlanAssumption
  <1>2. ASSUME NEW r \in Roots
        PROVE  Newest(r) \in 0 .. Published /\ (Newest(r) # 0 => source[Newest(r)] = r)
    <2> DEFINE S == {0} \cup {i \in DOMAIN source : source[i] = r}
    <2>1. S \in SUBSET (0 .. Published) /\ S # {} /\ Published \in Nat
      BY <1>1 DEF PlanAssumption
    <2>2. Max(S) \in S
      <3> HIDE DEF S
      <3> QED BY <2>1, MaxIsGreatest
    <2> QED BY <2>1, <2>2 DEF Newest
  <1>3. stored \in [Roots -> 0 .. MaxId]
    BY <1>2 DEF Init, InitWith, PlanAssumption
  <1>4. \A r \in Roots : stored[r] # 0 => stored[r] <= Len(source) /\ source[stored[r]] = r
    BY <1>1, <1>2 DEF Init, InitWith, PlanAssumption
  <1>5. Rows
    BY <1>1, <1>3, <1>4 DEF Rows, PlanAssumption
  <1>6. Walks /\ Sessions /\ Marks
    BY DEF Init, InitWith, Walks, Sessions, Marks, PlanAssumption, Cursor, NoneStaged
  <1>7. \A w \in Writers : SessionOK(w)
    BY DEF Init, InitWith, SessionOK, PageOK, StagedOK, FreshOK, NoneStaged
  <1> QED BY <1>5, <1>6, <1>7 DEF Base

(* A walk begins at a resume point, or at the top.                         *)
LEMMA BackfillAfterInRange ==
  ASSUME Rows
  PROVE  BackfillAfter \in 1 .. MaxId + 1
  <1> DEFINE S == {MaxId + 1} \cup {stored[r] : r \in {q \in Roots : stored[q] # 0}}
  <1>1. \A k \in S : k \in 1 .. MaxId + 1  BY DEF Rows, PlanAssumption
  <1>2. S \in SUBSET Nat
    <2> HIDE DEF S
    <2> QED BY <1>1 DEF PlanAssumption
  <1>3. S # {}  OBVIOUS
  <1>4. Min(S) \in S
    <2> HIDE DEF S
    <2> QED BY <1>2, <1>3, MinIsLeast
  <1> QED BY <1>1, <1>4 DEF BackfillAfter

LEMMA BaseStep == Base /\ [Next]_vars => Base'
  <1> SUFFICES ASSUME Base, [Next]_vars PROVE Base'
    OBVIOUS
  <1>0. /\ Rows /\ Walks /\ Sessions /\ Marks
        /\ \A w \in Writers : PageOK(w) /\ StagedOK(w) /\ FreshOK(w)
    BY DEF Base, SessionOK
  <1>a. /\ Len(source) \in Nat /\ DOMAIN source = 1 .. Len(source)
        /\ \A i \in 1 .. Len(source) : source[i] \in Roots
    BY <1>0 DEF Rows
  <1>b. MaxId \in Nat /\ MaxId + 1 \in 1 .. MaxId + 1 /\ 0 \in 0 .. MaxId
    BY DEF PlanAssumption
  <1> USE DEF session
  <1>1. ASSUME NEW r \in Roots, Publish(r) PROVE Base'
    <2>1. /\ source' \in Seq(Roots) /\ Len(source') = Len(source) + 1
          /\ \A i \in 1 .. Len(source) : source'[i] = source[i]
      BY <1>1, <1>0 DEF Publish, Rows
    <2>2. Rows'  BY <1>0, <1>1, <1>a, <1>b, <2>1 DEF Publish, Rows
    <2>3. Walks' /\ Sessions' /\ Marks'
      BY <1>0, <1>1 DEF Publish, Walks, Sessions, Marks
    <2>4. ASSUME NEW w \in Writers PROVE SessionOK(w)'
      <3>1. PageOK(w)'  BY <1>0, <1>1, <1>a, <2>1 DEF Publish, PageOK
      <3>2. StagedOK(w)'
        BY <1>0, <1>1, <1>a, <1>b, <2>1 DEF Publish, StagedOK, Sessions
      <3>3. FreshOK(w)'  BY <1>0, <1>1 DEF Publish, FreshOK
      <3> QED BY <3>1, <3>2, <3>3 DEF SessionOK
    <2> QED BY <2>2, <2>3, <2>4 DEF Base
  <1>2. ASSUME NEW w \in Writers, NEW stop \in 0 .. MaxId, NEW after \in 1 .. MaxId + 1,
               Starts(w, stop, after)
        PROVE  Base'
    <2>1. [stop |-> stop, after |-> after, pages |-> 0, last |-> FALSE] \in Cursor
      BY DEF Cursor
    <2>2. Walks'  BY <1>0, <1>2, <2>1 DEF Starts, Walks
    <2>3. Rows' /\ Sessions' /\ Marks'
      BY <1>0, <1>2 DEF Starts, Rows, Sessions, Marks
    <2>4. \A u \in Writers : SessionOK(u)'
      BY <1>0, <1>2 DEF Starts, Walks, SessionOK, PageOK, StagedOK, FreshOK
    <2> QED BY <2>2, <2>3, <2>4 DEF Base
  <1>3. CASE DailyStart
    <2>1. Watermark \in 0 .. MaxId
      BY <1>0, <1>a, <1>b, WatermarkIsGreatest, TypeParts DEF Rows
    <2>2. "daily" \in Writers  BY <1>3 DEF DailyStart, Starts
    <2> QED BY <1>2, <1>3, <1>b, <2>1, <2>2 DEF DailyStart
  <1>4. CASE BackfillStart
    <2>1. "backfill" \in Writers  BY <1>4 DEF BackfillStart, Starts
    <2> QED BY <1>0, <1>2, <1>4, <1>b, <2>1, BackfillAfterInRange DEF BackfillStart
  <1>5. ASSUME NEW w \in Writers, Fetch(w) PROVE Base'
    <2> DEFINE new == NextPage(cursor[w].after)
    <2>1. cursor[w] \in Cursor /\ cursor[w].after \in 1 .. MaxId + 1
          /\ cursor[w].stop \in 0 .. MaxId /\ cursor[w].pages \in Nat
      BY <1>0 DEF Walks, Cursor
    <2>2. new \subseteq 1 .. Len(source)
      BY <1>0, <1>a, <1>b, <2>1, PageIsTopSegment DEF Below, Rows
    <2>3. new # {} => Min(new) \in 1 .. MaxId + 1
      <3> HIDE DEF new
      <3>1. new \in SUBSET Nat  BY <2>2, <1>a
      <3>2. new # {} => Min(new) \in new  BY <3>1, MinIsLeast
      <3>3. \A k \in new : k \in 1 .. MaxId + 1
        BY <1>0, <1>a, <1>b, <2>2 DEF Rows
      <3> QED BY <3>2, <3>3
    <2>4. /\ pc[w] = "fetch" /\ pc' = [pc EXCEPT ![w] = "page"]
          /\ page' = [page EXCEPT ![w] = new]
          /\ \E b \in BOOLEAN : cursor' = [cursor EXCEPT ![w] =
               [stop |-> cursor[w].stop,
                after |-> IF new = {} THEN cursor[w].after ELSE Min(new),
                pages |-> cursor[w].pages + 1, last |-> b]]
          /\ trouble' \in {trouble, trouble \cup {"capped"}}
          /\ UNCHANGED <<source, stored, session, failures>>
      BY <1>5 DEF Fetch
    <2> HIDE DEF new
    <2>5. cursor' \in [Writers -> Cursor]
      <3> PICK b \in BOOLEAN : cursor' = [cursor EXCEPT ![w] =
               [stop |-> cursor[w].stop,
                after |-> IF new = {} THEN cursor[w].after ELSE Min(new),
                pages |-> cursor[w].pages + 1, last |-> b]]
        BY <2>4
      <3> QED BY <1>0, <2>1, <2>3 DEF Walks, Cursor
    <2>6. new \subseteq Ids
      BY <1>0, <1>a, <1>b, <2>2 DEF Ids, Rows
    <2>7. Walks'  BY <1>0, <2>4, <2>5, <2>6 DEF Walks
    <2>8. Rows' /\ Sessions' /\ Marks'
      BY <1>0, <2>4 DEF Rows, Sessions, Marks, Troubles
    <2>9. ASSUME NEW u \in Writers PROVE SessionOK(u)'
      <3>1. PageOK(u)'  BY <1>0, <2>2, <2>4 DEF PageOK, Walks
      <3>2. StagedOK(u)'  BY <1>0, <2>4 DEF StagedOK
      <3>3. FreshOK(u)'  BY <1>0, <2>4 DEF FreshOK, Walks
      <3> QED BY <3>1, <3>2, <3>3 DEF SessionOK
    <2> QED BY <2>7, <2>8, <2>9 DEF Base
  <1>6. ASSUME NEW w \in Writers, Upsert(w) PROVE Base'
    <2> DEFINE i == Max(page[w])
    <2>1. pc[w] = "page" /\ page[w] # {}
          /\ UNCHANGED <<source, stored, pc, cursor, failures, trouble>>
          /\ page' = [page EXCEPT ![w] = @ \ {i}]
      BY <1>6 DEF Upsert, Handle
    <2>2. i \in page[w] /\ i \in 1 .. Len(source) /\ i \in 1 .. MaxId
      <3>1. page[w] \in SUBSET (0 .. MaxId)
        BY <1>0, <1>b DEF Walks, Ids
      <3>2. i \in page[w]  BY <1>b, <2>1, <3>1, MaxIsGreatest
      <3> QED BY <1>0, <3>2 DEF PageOK, Walks, Ids
    <2>3. staged' = staged \/ staged' = [staged EXCEPT ![w][source[i]] = i]
      BY <1>6 DEF Upsert
    <2>4. /\ inserts' = inserts \/ inserts' = [inserts EXCEPT ![w] = @ \cup {source[i]}]
          /\ clash' = clash \/ \E b \in BOOLEAN : clash' = [clash EXCEPT ![w] = b]
      <3>1. CASE UNCHANGED <<inserts, clash>>  BY <3>1
      <3>2. CASE /\ inserts' = [inserts EXCEPT ![w] = @ \cup {source[i]}]
                 /\ clash' = [clash EXCEPT ![w] = @ \/ source[i] \in inserts[w]]
        BY <1>0, <3>2 DEF Sessions
      <3> QED BY <1>6, <3>1, <3>2 DEF Upsert
    <2> HIDE DEF i
    <2>5. source[i] \in Roots  BY <2>2, <1>a
    <2>6. staged' \in [Writers -> [Roots -> 0 .. MaxId]]
      <3>1. i \in 0 .. MaxId  BY <2>2
      <3>2. [staged[w] EXCEPT ![source[i]] = i] \in [Roots -> 0 .. MaxId]
        BY <1>0, <3>1 DEF Sessions
      <3> QED BY <1>0, <2>3, <3>2 DEF Sessions
    <2>7. inserts' \in [Writers -> SUBSET Roots] /\ clash' \in [Writers -> BOOLEAN]
      BY <1>0, <2>4, <2>5 DEF Sessions
    <2>8. Sessions'  BY <2>6, <2>7 DEF Sessions
    <2>9. Rows' /\ Walks' /\ Marks'
      BY <1>0, <2>1 DEF Rows, Walks, Marks
    <2>10. ASSUME NEW u \in Writers PROVE SessionOK(u)'
      <3>1. PageOK(u)'  BY <1>0, <2>1 DEF PageOK, Walks
      <3>2. ASSUME NEW r \in Roots
            PROVE  staged'[u][r] = staged[u][r] \/ (staged'[u][r] = i /\ r = source[i])
        BY <1>0, <2>3, <2>5 DEF Sessions
      <3>3. StagedOK(u)'
        BY <1>0, <2>1, <2>2, <3>2 DEF StagedOK
      <3>4. FreshOK(u)'  BY <1>0, <2>1, <2>3, <2>4 DEF FreshOK, Sessions
      <3> QED BY <3>1, <3>3, <3>4 DEF SessionOK
    <2> QED BY <2>8, <2>9, <2>10 DEF Base
  <1>7. ASSUME NEW w \in Writers, ReachStop(w) PROVE Base'
    <2>1. /\ pc[w] = "page" /\ pc' = [pc EXCEPT ![w] = "commit"]
          /\ page' = [page EXCEPT ![w] = {}]
          /\ cursor' = [cursor EXCEPT ![w].last = @ \/ page[w] # {}]
          /\ UNCHANGED <<source, stored, session, failures, trouble>>
      BY <1>7 DEF ReachStop, PageEnds
    <2>2. cursor' \in [Writers -> Cursor]
      <3>1. cursor[w] \in Cursor  BY <1>0 DEF Walks
      <3>2. \A b \in BOOLEAN : [cursor[w] EXCEPT !.last = b] \in Cursor
        BY <3>1 DEF Cursor
      <3>3. (cursor[w].last \/ page[w] # {}) \in BOOLEAN  OBVIOUS
      <3> QED BY <1>0, <2>1, <3>2, <3>3 DEF Walks
    <2>3. Walks'  BY <1>0, <2>1, <2>2 DEF Walks
    <2>4. Rows' /\ Sessions' /\ Marks'  BY <1>0, <2>1 DEF Rows, Sessions, Marks
    <2>5. \A u \in Writers : SessionOK(u)'
      BY <1>0, <2>1 DEF Walks, SessionOK, PageOK, StagedOK, FreshOK
    <2> QED BY <2>3, <2>4, <2>5 DEF Base
  <1>8. ASSUME NEW w \in Writers, NewSession(w), pc' = [pc EXCEPT ![w] = pc'[w]],
               pc'[w] \in {"idle", "fetch"}, pc[w] # "page" \/ page' = [page EXCEPT ![w] = {}],
               page' = page \/ page' = [page EXCEPT ![w] = {}],
               UNCHANGED <<source, cursor>>
        PROVE  Walks' /\ Sessions' /\ \A u \in Writers : SessionOK(u)'
    <2>1. Walks'  BY <1>0, <1>8 DEF Walks
    <2>2. NoneStaged \in [Roots -> 0 .. MaxId]  BY <1>b DEF NoneStaged
    <2>3. Sessions'  BY <1>0, <1>8, <2>2 DEF NewSession, Sessions
    <2>4. ASSUME NEW u \in Writers PROVE SessionOK(u)'
      <3>1. CASE u = w
        <4>1. staged'[w] = NoneStaged /\ inserts'[w] = {} /\ clash'[w] = FALSE
          BY <1>0, <1>8 DEF NewSession, Sessions
        <4>2. page'[w] = {}  BY <1>0, <1>8 DEF PageOK, Walks
        <4> QED BY <3>1, <4>1, <4>2 DEF SessionOK, PageOK, StagedOK, FreshOK, NoneStaged
      <3>2. CASE u # w
        <4>1. /\ staged'[u] = staged[u] /\ inserts'[u] = inserts[u] /\ clash'[u] = clash[u]
              /\ page'[u] = page[u] /\ pc'[u] = pc[u] /\ source' = source
          BY <1>0, <1>8, <3>2 DEF NewSession, Sessions, Walks
        <4> QED BY <1>0, <4>1 DEF SessionOK, PageOK, StagedOK, FreshOK
      <3> QED BY <3>1, <3>2
    <2> QED BY <2>1, <2>3, <2>4
  <1>9. ASSUME NEW w \in Writers, Commit(w) PROVE Base'
    <2>1. /\ stored' \in [Roots -> 0 .. MaxId]
          /\ \A r \in Roots : stored'[r] # 0 =>
               stored'[r] <= Len(source) /\ source[stored'[r]] = r
      <3>1. CASE stored' = stored  BY <1>0, <3>1 DEF Rows
      <3>2. CASE stored' = [r \in Roots |-> IF staged[w][r] # 0 THEN staged[w][r] ELSE stored[r]]
        BY <1>0, <3>2 DEF Rows, Sessions, StagedOK
      <3> QED BY <1>9, <3>1, <3>2 DEF Commit
    <2>2. trouble' \in {trouble, trouble \cup {"rolledBack"}}  BY <1>9 DEF Commit
    <2>3. Rows' /\ Marks'
      BY <1>0, <1>9, <2>1, <2>2 DEF Commit, Rows, Marks, Troubles
    <2>4. Walks' /\ Sessions' /\ \A u \in Writers : SessionOK(u)'
      BY <1>0, <1>8, <1>9 DEF Commit, Walks
    <2> QED BY <2>3, <2>4 DEF Base
  <1>10. ASSUME NEW w \in Writers, WalkFails(w) PROVE Base'
    <2>1. Rows' /\ Marks'
      <3>1. Rows'  BY <1>0, <1>10 DEF WalkFails, Rows
      <3>2. failures' \in 0 .. MaxFailures
        BY <1>0, <1>10 DEF WalkFails, Marks, PlanAssumption
      <3>3. trouble' \subseteq Troubles
        BY <1>0, <1>10 DEF WalkFails, Marks, Troubles
      <3> QED BY <3>1, <3>2, <3>3 DEF Marks
    <2>2. Walks' /\ Sessions' /\ \A u \in Writers : SessionOK(u)'
      BY <1>0, <1>8, <1>10 DEF WalkFails, Walks
    <2> QED BY <2>1, <2>2 DEF Base
  <1>11. CASE UNCHANGED vars
    BY <1>0, <1>11 DEF vars, Base, Rows, Walks, Sessions, Marks, SessionOK, PageOK, StagedOK, FreshOK
  <1> QED BY <1>1, <1>3, <1>4, <1>5, <1>6, <1>7, <1>9, <1>10, <1>11 DEF Next

(* The type invariant, for the daily walk and the backfill together: a row *)
(* of plan_points always holds a published version of its own root.        *)
THEOREM TypeCorrect == Spec => []TypeOK
  <1>1. Base => TypeOK  BY TypeParts DEF Base
  <1> QED BY <1>1, BaseInit, BaseStep, PTL DEF Spec

-----------------------------------------------------------------------------
(* One writer at a time: what it staged is newer than the row, because the *)
(* row cannot have changed since it was read.                              *)

Single == \A u, w \in Writers : u = w

StagedIsNewer(w) ==
  /\ \A r \in Roots : staged[w][r] # 0 => staged[w][r] > stored[r]
  /\ \A r \in inserts[w] : stored[r] = 0

Newer == \A w \in Writers : StagedIsNewer(w)

(* What a commit leaves in a row is what was there, or something newer.    *)
LEMMA CommitIsNewer ==
  ASSUME NEW w \in Writers, Base, StagedIsNewer(w), Commit(w), NEW r \in Roots
  PROVE  /\ stored'[r] >= stored[r]
         /\ ~Conflict(w) => stored'[r] >= staged[w][r]
         /\ stored'[r] \in {stored[r], staged[w][r]}
  <1>1. stored[r] \in Nat /\ staged[w][r] \in Nat
    BY DEF Base, Rows, Sessions, PlanAssumption
  <1>2. staged[w][r] # 0 => staged[w][r] > stored[r]
    BY DEF StagedIsNewer
  <1>3. CASE Conflict(w)
    <2>1. stored' = stored  BY <1>3 DEF Commit
    <2> QED BY <1>1, <1>3, <2>1
  <1>4. CASE ~Conflict(w)
    <2>1. stored'[r] = IF staged[w][r] # 0 THEN staged[w][r] ELSE stored[r]
      BY <1>4 DEF Commit
    <2> QED BY <1>1, <1>2, <2>1
  <1> QED BY <1>3, <1>4

(* Nobody else walks.                                                      *)
Alone(u) == \A w \in Writers : w # u => pc[w] = "idle"

LEMMA NewerKept ==
  ASSUME NEW u \in Writers, Base, Alone(u), StagedIsNewer(u), [Next]_vars
  PROVE  StagedIsNewer(u)'
  <1> USE DEF session
  <1>0. StagedIsNewer(u)  OBVIOUS
  <1>a. ASSUME NEW w \in Writers,
               Fetch(w) \/ Upsert(w) \/ ReachStop(w) \/ Commit(w) \/ WalkFails(w)
        PROVE  w = u
    BY <1>a DEF Alone, Fetch, Upsert, Handle, ReachStop, PageEnds, Commit, WalkFails
  <1>1. CASE \E r \in Roots : Publish(r)
    BY <1>0, <1>1 DEF Publish, StagedIsNewer
  <1>2. CASE DailyStart \/ BackfillStart
    BY <1>0, <1>2 DEF DailyStart, BackfillStart, Starts, StagedIsNewer
  <1>3. CASE Fetch(u) \/ ReachStop(u)
    BY <1>0, <1>3 DEF Fetch, ReachStop, PageEnds, StagedIsNewer
  <1>4. CASE Upsert(u)
    <2> DEFINE i == Max(page[u])
               r == source[i]
    <2>1. i \in page[u] /\ i \in Nat /\ r \in Roots /\ stored' = stored
      <3>1. page[u] \in SUBSET (0 .. MaxId) /\ MaxId \in Nat /\ page[u] # {}
        BY <1>4 DEF Base, Walks, Ids, PlanAssumption, Upsert, Handle
      <3>2. i \in page[u]  BY <3>1, MaxIsGreatest
      <3>3. i \in 1 .. Len(source)  BY <3>2 DEF Base, SessionOK, PageOK
      <3> QED BY <1>4, <3>2, <3>3 DEF Base, Rows, Upsert, Handle
    <2>2. \A q \in Roots : stored[q] \in Nat /\ staged[u][q] \in Nat
      BY DEF Base, Rows, Sessions, PlanAssumption
    <2>3. Seen(u, r) >= stored[r] /\ (Seen(u, r) = 0 => stored[r] = 0)
      BY <1>0, <2>1, <2>2 DEF Seen, StagedIsNewer
    <2>4. staged' = staged \/ (Seen(u, r) < i /\ staged' = [staged EXCEPT ![u][r] = i])
      BY <1>4 DEF Upsert
    <2>5. inserts' = inserts \/ (Seen(u, r) = 0 /\ inserts' = [inserts EXCEPT ![u] = @ \cup {r}])
      BY <1>4 DEF Upsert
    <2> HIDE DEF i, r
    <2>6. Seen(u, r) \in Nat  BY <2>1, <2>2 DEF Seen
    <2>7. \A q \in Roots : staged'[u][q] # 0 => staged'[u][q] > stored'[q]
      <3>1. CASE staged' = staged  BY <1>0, <2>1, <3>1 DEF StagedIsNewer
      <3>2. CASE Seen(u, r) < i /\ staged' = [staged EXCEPT ![u][r] = i]
        <4>1. \A q \in Roots : staged'[u][q] = IF q = r THEN i ELSE staged[u][q]
          BY <2>1, <3>2 DEF Base, Sessions
        <4>2. i > stored[r]  BY <2>1, <2>2, <2>3, <2>6, <3>2
        <4> QED BY <1>0, <2>1, <4>1, <4>2 DEF StagedIsNewer
      <3> QED BY <2>4, <3>1, <3>2
    <2>8. \A q \in inserts'[u] : stored'[q] = 0
      BY <1>0, <2>1, <2>3, <2>5 DEF StagedIsNewer, Base, Sessions
    <2> QED BY <2>7, <2>8 DEF StagedIsNewer
  <1>5. CASE NewSession(u)
    BY <1>5 DEF NewSession, NoneStaged, StagedIsNewer, Base, Sessions
  <1>6. CASE UNCHANGED vars
    BY <1>0, <1>6 DEF vars, StagedIsNewer
  <1> QED BY <1>a, <1>1, <1>2, <1>3, <1>4, <1>5, <1>6 DEF Next, Commit, WalkFails

LEMMA NewerStep == Single /\ Base /\ Newer /\ [Next]_vars => Newer'
  <1> SUFFICES ASSUME Single, Base, Newer, [Next]_vars, NEW u \in Writers
               PROVE  StagedIsNewer(u)'
    BY DEF Newer
  <1>1. Alone(u) /\ StagedIsNewer(u)  BY DEF Single, Alone, Newer
  <1> QED BY <1>1, NewerKept

LEMMA NewerInit == Init => Newer
  BY DEF Init, InitWith, Newer, StagedIsNewer, NoneStaged

(* plans.py:168-169: while only one walk writes plan_points, an older      *)
(* version never replaces a newer one, whatever fails or is rolled back.   *)
THEOREM NeverGoesBack == ASSUME Single PROVE Spec => NeverOlder
  <1>1. Base /\ Newer /\ [Next]_vars => [\A r \in Roots : stored'[r] >= stored[r]]_vars
    <2> SUFFICES ASSUME Base, Newer, Next PROVE \A r \in Roots : stored'[r] >= stored[r]
      OBVIOUS
    <2>1. CASE \E w \in Writers : Commit(w)
      <3> PICK w \in Writers : Commit(w)  BY <2>1
      <3>1. StagedIsNewer(w)  BY DEF Newer
      <3> QED BY <3>1, CommitIsNewer
    <2>2. CASE UNCHANGED stored
      BY <2>2 DEF Base, Rows, PlanAssumption
    <2> QED BY <2>1, <2>2 DEF Next, Publish, DailyStart, BackfillStart, Starts, Fetch,
               Upsert, Handle, ReachStop, PageEnds, WalkFails
  <1>2. Base /\ Newer /\ [Next]_vars => (Base /\ Newer)'
    BY BaseStep, NewerStep
  <1>3. Init => Base /\ Newer
    BY BaseInit, NewerInit
  <1> QED BY <1>1, <1>2, <1>3, PTL DEF Spec, NeverOlder

-----------------------------------------------------------------------------
(* The watermark.                                                          *)

(* What a walk has dealt with, up to the version t that was the newest     *)
(* when its first page was fetched: everything from its cursor on is       *)
(* stored, staged or on the page at hand, and when no page is left there   *)
(* is nothing below the cursor but what the watermark covers.              *)
Dealt(w, i) ==
  i \in page[w] \/ Covered(i) \/ staged[w][source[i]] >= i \/ clash[w]

DealtUpTo(w, t) ==
  LET c == cursor[w] IN
  /\ \A r \in Roots : stored[r] <= t /\ staged[w][r] <= t
  /\ \A i \in page[w] : c.after <= i /\ i <= t
  /\ c.after = MaxId + 1 \/ c.after <= t + 1
  /\ c.stop <= t
  /\ \A i \in 1 .. c.stop : Covered(i)
  /\ \A i \in 1 .. t : i >= c.after => Dealt(w, i)
  /\ c.last => \A i \in 1 .. t : i < c.after => i <= c.stop

WalkSound(w) ==
  /\ pc[w] # "idle" => \E t \in 0 .. Len(source) : DealtUpTo(w, t)
  /\ pc[w] = "fetch" => ~cursor[w].last

Sound == trouble = {} => NoGap /\ \A w \in Writers : WalkSound(w)

LEMMA SoundInit == Init => Sound
  <1> SUFFICES ASSUME Init PROVE NoGap
    BY DEF Init, InitWith, Sound, WalkSound
  <1>1. Base /\ TypeOK  BY BaseInit, TypeParts DEF Base
  <1>2. /\ Watermark \in 0 .. Len(source) /\ \E r \in Roots : stored[r] = Watermark
        /\ Len(source) \in Nat /\ DOMAIN source = 1 .. Len(source)
        /\ \A i \in 1 .. Len(source) : source[i] \in Roots
    BY <1>1, WatermarkIsGreatest DEF Base, Rows
  <1> SUFFICES ASSUME NEW i \in 1 .. Watermark PROVE Covered(i)
    BY DEF NoGap
  <1>3. CASE Loaded
    <2> DEFINE S == {0} \cup {j \in DOMAIN source : source[j] = source[i]}
    <2>1. S \in SUBSET (0 .. Len(source)) /\ i \in S  BY <1>2
    <2>2. i <= Max(S)
      <3> HIDE DEF S
      <3> QED BY <1>2, <2>1, MaxIsGreatest
    <2>3. stored[source[i]] = Newest(source[i])
      BY <1>2, <1>3 DEF Init, InitWith
    <2>4. Max(S) \in Nat
      <3> HIDE DEF S
      <3>1. Max(S) \in S  BY <1>2, <2>1, MaxIsGreatest
      <3>2. \A k \in 0 .. Len(source) : k \in Nat  BY <1>2
      <3> HIDE <1>2
      <3> QED BY <2>1, <3>1, <3>2, Zenon
    <2>5. Max(S) = Newest(source[i])  BY DEF Newest
    <2> HIDE DEF S
    <2>6. Newest(source[i]) >= i  BY <1>2, <2>2, <2>4, <2>5
    <2> QED BY <2>3, <2>6 DEF Covered
  <1>4. CASE ~Loaded
    <2>1. \A r \in Roots : stored[r] = 0  BY <1>4 DEF Init, InitWith
    <2> QED BY <1>2, <2>1
  <1> QED BY <1>3, <1>4

(* Nothing a step does uncovers a version.                                 *)
LEMMA CoveredStays ==
  ASSUME Base, NEW i \in 1 .. Len(source), Covered(i), \A r \in Roots : stored'[r] >= stored[r],
         source'[i] = source[i], stored' \in [Roots -> Nat]
  PROVE  Covered(i)'
  <1>1. source[i] \in Roots /\ stored[source[i]] \in Nat /\ i \in Nat
    BY DEF Base, Rows, PlanAssumption
  <1> QED BY <1>1 DEF Covered

(* Types of what the walk of w is made of.                                 *)
LEMMA WalkTypes ==
  ASSUME Base, NEW w \in Writers
  PROVE  /\ Len(source) \in Nat /\ Len(source) <= MaxId /\ MaxId \in Nat
         /\ \A i \in 1 .. Len(source) : source[i] \in Roots
         /\ \A r \in Roots : /\ stored[r] \in Nat /\ stored[r] <= Len(source)
                            /\ staged[w][r] \in Nat /\ staged[w][r] <= Len(source)
         /\ cursor[w].after \in Nat /\ cursor[w].stop \in Nat
         /\ cursor[w].last \in BOOLEAN /\ clash[w] \in BOOLEAN
         /\ page[w] \subseteq 1 .. Len(source)
  <1>1. Len(source) \in Nat /\ Len(source) <= MaxId /\ MaxId \in Nat
        /\ \A i \in 1 .. Len(source) : source[i] \in Roots
    BY DEF Base, Rows, PlanAssumption
  <1>2. ASSUME NEW r \in Roots
        PROVE  /\ stored[r] \in Nat /\ stored[r] <= Len(source)
               /\ staged[w][r] \in Nat /\ staged[w][r] <= Len(source)
    <2>1. stored[r] \in 0 .. MaxId /\ staged[w][r] \in 0 .. MaxId
      BY DEF Base, Rows, Sessions
    <2>2. (stored[r] # 0 => stored[r] <= Len(source))
          /\ (staged[w][r] # 0 => staged[w][r] <= Len(source))
      BY DEF Base, Rows, SessionOK, StagedOK
    <2> QED BY <1>1, <2>1, <2>2
  <1>3. cursor[w] \in Cursor /\ clash[w] \in BOOLEAN
    BY DEF Base, Walks, Sessions
  <1>4. cursor[w].after \in Nat /\ cursor[w].stop \in Nat /\ cursor[w].last \in BOOLEAN
    BY <1>1, <1>3 DEF Cursor
  <1>5. page[w] \subseteq 1 .. Len(source)
    BY DEF Base, SessionOK, PageOK
  <1> QED BY <1>1, <1>2, <1>3, <1>4, <1>5

(* Published versions change nothing that has been dealt with.             *)
LEMMA DealtPublish ==
  ASSUME Base, NEW q \in Roots, Publish(q), NEW w \in Writers,
         NEW t \in 0 .. Len(source), DealtUpTo(w, t)
  PROVE  t \in 0 .. Len(source') /\ DealtUpTo(w, t)'
  <1> USE DEF session
  <1>1. /\ Len(source) \in Nat /\ Len(source') = Len(source) + 1
        /\ \A i \in 1 .. Len(source) : source'[i] = source[i]
    BY DEF Publish, Base, Rows
  <1>2. \A i \in 1 .. t : Covered(i)' <=> Covered(i)
    BY <1>1 DEF Publish, Covered
  <1>3. \A i \in 1 .. t : Dealt(w, i)' <=> Dealt(w, i)
    BY <1>1, <1>2 DEF Publish, Dealt
  <1>4. cursor[w].stop \in Nat /\ cursor' = cursor /\ page' = page
    BY WalkTypes DEF Publish
  <1>5. \A i \in 1 .. cursor[w].stop : i \in 1 .. t
    BY <1>4 DEF DealtUpTo
  <1> QED BY <1>1, <1>2, <1>3, <1>4, <1>5 DEF Publish, DealtUpTo

LEMMA SoundPublish ==
  ASSUME Base, Sound, NEW q \in Roots, Publish(q)
  PROVE  Sound'
  <1> USE DEF session
  <1>1. SUFFICES ASSUME trouble = {}
                 PROVE  NoGap' /\ \A w \in Writers : WalkSound(w)'
    BY DEF Publish, Sound
  <1>2. /\ Len(source) \in Nat /\ Len(source') = Len(source) + 1
        /\ \A i \in 1 .. Len(source) : source'[i] = source[i]
    BY DEF Publish, Base, Rows
  <1>3. NoGap'
    <2>1. Watermark \in 0 .. Len(source)
      BY WatermarkIsGreatest, TypeParts DEF Base
    <2>2. Watermark' = Watermark  BY DEF Publish, Watermark
    <2>3. NoGap  BY <1>1 DEF Sound
    <2> QED BY <1>2, <2>1, <2>2, <2>3 DEF Publish, NoGap, Covered
  <1>4. ASSUME NEW w \in Writers PROVE WalkSound(w)'
    <2>1. WalkSound(w)  BY <1>1 DEF Sound
    <2> QED BY <2>1, DealtPublish DEF Publish, WalkSound
  <1> QED BY <1>3, <1>4

(* A walk begins where nothing it will not fetch is missing.               *)
LEMMA SoundStart ==
  ASSUME Single, Base, Sound, NEW w \in Writers, NEW stop \in Nat, NEW after \in Nat,
         Starts(w, stop, after), stop <= Watermark,
         after = MaxId + 1 \/ after <= Watermark + 1
  PROVE  Sound'
  <1> USE DEF session
  <1>1. SUFFICES ASSUME trouble = {}
                 PROVE  NoGap' /\ \A u \in Writers : WalkSound(u)'
    BY DEF Starts, Sound
  <1>2. \A u \in Writers : u = w  BY DEF Single
  <1>3. pc[w] = "idle" /\ pc'[w] = "fetch"
    BY DEF Starts, Base, Walks
  <1>4. \A i \in 1 .. Watermark : Covered(i)
    BY <1>1, <1>2, <1>3 DEF Sound, NoGap
  <1>5. NoGap'  BY <1>3 DEF NoGap
  <1>6. /\ Watermark \in 0 .. Len(source)
        /\ \A r \in Roots : stored[r] <= Watermark
    BY WatermarkIsGreatest, TypeParts DEF Base
  <1>7. /\ page[w] = {} /\ \A r \in Roots : staged[w][r] = 0
    BY <1>3 DEF Base, SessionOK, PageOK, FreshOK, NoneStaged
  <1>8. /\ cursor'[w].stop = stop /\ cursor'[w].after = after /\ cursor'[w].last = FALSE
    BY DEF Starts, Base, Walks
  <1>9. ASSUME NEW t \in 0 .. Len(source), t = Watermark
        PROVE  DealtUpTo(w, t)'
    <2>1. \A i \in 1 .. t : Covered(i)' /\ Dealt(w, i)'
      BY <1>4, <1>9 DEF Starts, Covered, Dealt
    <2>2. \A r \in Roots : stored'[r] <= t /\ staged'[w][r] <= t
      BY <1>6, <1>7, <1>9 DEF Starts
    <2>3. page'[w] = {}  BY <1>7 DEF Starts
    <2>4. after = MaxId + 1 \/ after <= t + 1  BY <1>9
    <2>5. stop <= t /\ \A i \in 1 .. stop : i \in 1 .. t  BY <1>9
    <2> HIDE <1>9
    <2> QED BY <1>8, <2>1, <2>2, <2>3, <2>4, <2>5 DEF DealtUpTo
  <1>10. WalkSound(w)'
    <2>1. source' = source  BY DEF Starts
    <2> QED BY <1>3, <1>6, <1>8, <1>9, <2>1 DEF WalkSound
  <1> QED BY <1>2, <1>5, <1>10

LEMMA DealtFetch ==
  ASSUME Base, NEW w \in Writers, Fetch(w), w # "daily" \/ "capped" \notin trouble',
         NEW s \in 0 .. Len(source), DealtUpTo(w, s)
  PROVE  \E t \in 0 .. Len(source) : DealtUpTo(w, t)'
  <1> USE DEF session
  <1> DEFINE c == cursor[w]
             new == NextPage(c.after)
             rest == Below(c.after) \ new
             cut == w = "daily" /\ c.pages + 1 >= MaxPages
  <1>3. /\ pc[w] = "fetch" /\ pc'[w] = "page" /\ page'[w] = new
        /\ cursor'[w] = [stop |-> c.stop,
                        after |-> IF new = {} THEN c.after ELSE Min(new),
                        pages |-> c.pages + 1, last |-> rest = {} \/ cut]
        /\ UNCHANGED <<source, stored, staged, inserts, clash>>
        /\ cut => ~(\E i \in rest : i > c.stop)
    BY DEF Fetch, Base, Walks
  <1>4. /\ Len(source) \in Nat /\ Len(source) <= MaxId /\ MaxId \in Nat
        /\ c.after \in Nat /\ c.stop \in Nat
        /\ \A r \in Roots : /\ stored[r] \in Nat /\ stored[r] <= Len(source)
                           /\ staged[w][r] = 0 /\ staged[w][r] <= Len(source)
        /\ page[w] = {} /\ clash[w] = FALSE
    <2>1. /\ page[w] = {} /\ clash[w] = FALSE /\ \A r \in Roots : staged[w][r] = 0
      <3>1. pc[w] = "fetch"  BY <1>3
      <3>2. PageOK(w) /\ FreshOK(w)  BY DEF Base, SessionOK
      <3>3. page[w] = {}  BY <3>1, <3>2 DEF PageOK
      <3>4. clash[w] = FALSE /\ staged[w] = NoneStaged  BY <3>1, <3>2 DEF FreshOK
      <3> QED BY <3>3, <3>4 DEF NoneStaged
    <2> QED BY <2>1, WalkTypes
  <1>5. /\ new \subseteq Below(c.after)
        /\ \A i \in new, j \in Below(c.after) : j > i => j \in new
        /\ new = {} => Below(c.after) = {}
    BY <1>4, PageIsTopSegment DEF Base, Rows
  <1>6. \A i : i \in Below(c.after) <=> i \in 1 .. Len(source) /\ i < c.after
    BY DEF Below, Base, Rows
  <1>7. new # {} => Min(new) \in new /\ \A k \in new : Min(new) <= k
    <2>1. new \in SUBSET Nat  BY <1>4, <1>5, <1>6
    <2> HIDE DEF new
    <2> QED BY <2>1, MinIsLeast
  <1> HIDE DEF new
  <1>8. /\ cursor'[w].stop = c.stop
        /\ cursor'[w].after = IF new = {} THEN c.after ELSE Min(new)
        /\ cursor'[w].last = (rest = {} \/ cut)
    <2> HIDE DEF rest, cut
    <2> QED BY <1>3
  <1>9. \A i \in 1 .. Len(source) : i >= cursor'[w].after /\ i < c.after => i \in new
    <2> SUFFICES ASSUME NEW i \in 1 .. Len(source), i >= cursor'[w].after, i < c.after
                 PROVE  i \in new
      OBVIOUS
    <2>1. i \in Below(c.after)  BY <1>6
    <2>2. new # {}  BY <1>5, <2>1
    <2>3. Min(new) \in Nat /\ Min(new) \in new /\ i >= Min(new)
      BY <1>4, <1>5, <1>6, <1>7, <1>8, <2>2
    <2>4. CASE i = Min(new)  BY <2>3, <2>4
    <2>5. CASE i > Min(new)  BY <1>5, <2>1, <2>3, <2>5
    <2> QED BY <1>4, <2>3, <2>4, <2>5
  <1>10. cursor'[w].last => \A i \in 1 .. Len(source) : i < cursor'[w].after => i <= c.stop
    <2> SUFFICES ASSUME cursor'[w].last, NEW i \in 1 .. Len(source), i < cursor'[w].after
                 PROVE  i <= c.stop
      OBVIOUS
    <2>1. i < c.after /\ i \notin new
      BY <1>4, <1>5, <1>6, <1>7, <1>8
    <2>2. i \in rest  BY <1>6, <2>1
    <2>3. cut  BY <1>8, <2>2
    <2> QED BY <1>3, <1>4, <2>2, <2>3
  <1>12. DealtUpTo(w, s)  OBVIOUS
  <1>13. PICK t \in 0 .. Len(source) :
           /\ \A r \in Roots : stored[r] <= t
           /\ c.stop <= t
           /\ c.after = MaxId + 1 => t = Len(source)
           /\ c.after # MaxId + 1 => c.after <= t + 1
           /\ \A i \in 1 .. t : i >= c.after => Covered(i)
    <2>1. CASE c.after = MaxId + 1
      BY <1>4, <1>12, <2>1 DEF DealtUpTo
    <2>2. CASE c.after # MaxId + 1
      <3>1. \A i \in 1 .. s : i >= c.after => Covered(i)
        <4> SUFFICES ASSUME NEW i \in 1 .. s, i >= c.after PROVE Covered(i)
          OBVIOUS
        <4>0. i \in 1 .. Len(source)  BY <1>4
        <4>1. source[i] \in Roots  BY <4>0, WalkTypes
        <4>2. Dealt(w, i)  BY <1>12 DEF DealtUpTo
        <4> QED BY <1>4, <4>1, <4>2 DEF Dealt
      <3> QED BY <1>12, <2>2, <3>1 DEF DealtUpTo
    <2> QED BY <2>1, <2>2
  <1>14. \A i : Covered(i)' <=> Covered(i)  BY <1>3 DEF Covered
  <1>15. DealtUpTo(w, t)'
    <2>1. \A r \in Roots : stored'[r] <= t /\ staged'[w][r] <= t
      BY <1>3, <1>4, <1>13
    <2>2. \A i \in page'[w] : cursor'[w].after <= i /\ i <= t
      <3> SUFFICES ASSUME NEW i \in new PROVE cursor'[w].after <= i /\ i <= t
        BY <1>3
      <3>1. i \in 1 .. Len(source) /\ i < c.after  BY <1>5, <1>6
      <3>2. cursor'[w].after <= i  BY <1>7, <1>8
      <3>3. i <= t  BY <1>4, <1>13, <3>1
      <3> QED BY <3>2, <3>3
    <2>3. cursor'[w].after = MaxId + 1 \/ cursor'[w].after <= t + 1
      <3>1. CASE new = {}  BY <1>8, <1>13, <3>1
      <3>2. CASE new # {}
        <4>1. Min(new) \in new  BY <1>7, <3>2
        <4>2. Min(new) <= t /\ Min(new) \in Nat
          BY <1>3, <1>4, <1>5, <1>6, <2>2, <4>1
        <4> QED BY <1>8, <3>2, <4>2
      <3> QED BY <3>1, <3>2
    <2>4. cursor'[w].stop <= t /\ \A i \in 1 .. cursor'[w].stop : Covered(i)'
      BY <1>8, <1>12, <1>13, <1>14 DEF DealtUpTo
    <2>5. \A i \in 1 .. t : i >= cursor'[w].after => Dealt(w, i)'
      <3> SUFFICES ASSUME NEW i \in 1 .. t, i >= cursor'[w].after PROVE Dealt(w, i)'
        OBVIOUS
      <3>1. i \in 1 .. Len(source)  BY <1>4
      <3>2. CASE i < c.after  BY <1>3, <1>9, <3>1, <3>2 DEF Dealt
      <3>3. CASE i >= c.after  BY <1>13, <1>14, <3>3 DEF Dealt
      <3> QED BY <1>4, <3>2, <3>3
    <2>6. cursor'[w].last => \A i \in 1 .. t : i < cursor'[w].after => i <= cursor'[w].stop
      BY <1>4, <1>8, <1>10
    <2> QED BY <2>1, <2>2, <2>3, <2>4, <2>5, <2>6 DEF DealtUpTo
  <1> QED BY <1>15

LEMMA SoundFetch ==
  ASSUME Single, Base, Sound, NEW w \in Writers, Fetch(w)
  PROVE  Sound'
  <1>1. SUFFICES ASSUME trouble = {}, trouble' = {}
                 PROVE  NoGap' /\ \A u \in Writers : WalkSound(u)'
    BY DEF Fetch, Sound
  <1>2. \A u \in Writers : u = w  BY DEF Single
  <1>3. pc[w] = "fetch" /\ pc'[w] = "page" /\ source' = source
    BY DEF Fetch, Base, Walks
  <1>4. PICK s \in 0 .. Len(source) : DealtUpTo(w, s)
    BY <1>1, <1>3 DEF Sound, WalkSound
  <1>5. \E t \in 0 .. Len(source) : DealtUpTo(w, t)'
    BY <1>1, <1>4, DealtFetch
  <1>6. WalkSound(w)'  BY <1>3, <1>5 DEF WalkSound
  <1>7. NoGap'  BY <1>3 DEF NoGap
  <1> QED BY <1>2, <1>6, <1>7

LEMMA DealtUpsert ==
  ASSUME Base, NEW w \in Writers, StagedIsNewer(w), Upsert(w),
         NEW t \in 0 .. Len(source), DealtUpTo(w, t)
  PROVE  DealtUpTo(w, t)'
  <1> USE DEF session
  <1> DEFINE i == Max(page[w])
             r == source[i]
  <1>3. /\ pc[w] = "page" /\ page[w] # {}
        /\ UNCHANGED <<source, stored, pc, cursor, failures, trouble>>
        /\ page' = [page EXCEPT ![w] = @ \ {i}]
        /\ IF Seen(w, r) < i THEN staged' = [staged EXCEPT ![w][r] = i] ELSE UNCHANGED staged
        /\ IF Seen(w, r) = 0
             THEN clash' = [clash EXCEPT ![w] = @ \/ r \in inserts[w]]
             ELSE UNCHANGED clash
    BY DEF Upsert, Handle
  <1>4. i \in page[w] /\ i \in 1 .. Len(source) /\ r \in Roots
    <2>1. page[w] \in SUBSET (0 .. Len(source)) /\ Len(source) \in Nat
      BY WalkTypes
    <2>2. i \in page[w]  BY <1>3, <2>1, MaxIsGreatest
    <2> QED BY <2>2, WalkTypes
  <1>5. page'[w] = page[w] \ {i}  BY <1>3 DEF Base, Walks
  <1>6. \A q \in Roots : staged'[w][q] = IF q = r /\ Seen(w, r) < i THEN i ELSE staged[w][q]
    BY <1>3, <1>4 DEF Base, Sessions
  <1>7. clash'[w] = (clash[w] \/ (Seen(w, r) = 0 /\ r \in inserts[w]))
    BY <1>3 DEF Base, Sessions
  <1>8. Seen(w, r) = IF r \in inserts[w] \/ staged[w][r] = 0 THEN stored[r] ELSE staged[w][r]
    BY DEF Seen
  <1>9. r \in inserts[w] => stored[r] = 0
    BY DEF StagedIsNewer
  <1> HIDE DEF i, r
  <1>10. r = source[i]  BY DEF r
  <1>11. ASSUME NEW j \in 1 .. Len(source), Dealt(w, j) PROVE Dealt(w, j)'
    <2>0. source[j] \in Roots /\ j \in Nat /\ i \in Nat /\ stored[source[j]] \in Nat
          /\ staged[w][source[j]] \in Nat /\ stored[r] \in Nat /\ staged[w][r] \in Nat
          /\ source' = source /\ stored' = stored
      BY <1>3, <1>4, WalkTypes
    <2>1. CASE j = i
      <3>1. Covered(j) \/ staged'[w][r] >= j
        BY <1>6, <1>8, <1>10, <2>0, <2>1, <1>4 DEF Covered
      <3> QED BY <1>10, <2>0, <2>1, <3>1 DEF Dealt, Covered
    <2>2. CASE j # i /\ j \in page[w]
      BY <1>5, <2>2 DEF Dealt
    <2>3. CASE Covered(j)  BY <2>0, <2>3 DEF Dealt, Covered
    <2>4. CASE clash[w]  BY <1>7, <2>4 DEF Dealt
    <2>5. CASE staged[w][source[j]] >= j
      <3>1. staged'[w][source[j]] >= j \/ clash'[w]
        <4>1. CASE source[j] # r \/ ~(Seen(w, r) < i)  BY <1>6, <2>0, <2>5, <4>1
        <4>2. CASE source[j] = r /\ Seen(w, r) < i /\ r \notin inserts[w]
          BY <1>6, <1>8, <2>0, <2>5, <4>2
        <4>3. CASE r \in inserts[w]  BY <1>7, <1>8, <1>9, <4>3
        <4> QED BY <4>1, <4>2, <4>3
      <3> QED BY <2>0, <3>1 DEF Dealt
    <2> QED BY <1>11, <2>1, <2>2, <2>3, <2>4, <2>5 DEF Dealt
  <1>13. DealtUpTo(w, t)  OBVIOUS
  <1>14. DealtUpTo(w, t)'
    <2>1. \A q \in Roots : stored'[q] <= t /\ staged'[w][q] <= t
      BY <1>3, <1>4, <1>6, <1>13 DEF DealtUpTo
    <2>2. \A k \in page'[w] : cursor[w].after <= k /\ k <= t
      BY <1>5, <1>13 DEF DealtUpTo
    <2>3. \A k \in 1 .. t : k >= cursor[w].after => Dealt(w, k)'
      BY <1>11, <1>13, WalkTypes DEF DealtUpTo
    <2>4. \A k : Covered(k)' <=> Covered(k)  BY <1>3 DEF Covered
    <2>5. cursor' = cursor  BY <1>3
    <2> QED BY <1>13, <2>1, <2>2, <2>3, <2>4, <2>5 DEF DealtUpTo
  <1> QED BY <1>14

LEMMA SoundUpsert ==
  ASSUME Single, Base, Newer, Sound, NEW w \in Writers, Upsert(w)
  PROVE  Sound'
  <1>1. SUFFICES ASSUME trouble = {}
                 PROVE  NoGap' /\ \A u \in Writers : WalkSound(u)'
    BY DEF Upsert, Handle, Sound
  <1>2. \A u \in Writers : u = w  BY DEF Single
  <1>3. pc[w] = "page" /\ UNCHANGED <<source, pc, cursor>>
    BY DEF Upsert, Handle
  <1>4. PICK t \in 0 .. Len(source) : DealtUpTo(w, t)
    BY <1>1, <1>3 DEF Sound, WalkSound
  <1>5. DealtUpTo(w, t)'  BY <1>4, DealtUpsert DEF Newer
  <1>6. WalkSound(w)'  BY <1>3, <1>5 DEF WalkSound
  <1>7. NoGap'  BY <1>3 DEF NoGap
  <1> QED BY <1>2, <1>6, <1>7

LEMMA DealtReachStop ==
  ASSUME Base, NEW w \in Writers, ReachStop(w),
         NEW t \in 0 .. Len(source), DealtUpTo(w, t)
  PROVE  DealtUpTo(w, t)'
  <1> USE DEF session
  <1> DEFINE c == cursor[w]
  <1>3. /\ pc[w] = "page" /\ pc'[w] = "commit" /\ page'[w] = {}
        /\ cursor'[w].stop = c.stop /\ cursor'[w].after = c.after
        /\ cursor'[w].last = (c.last \/ page[w] # {})
        /\ UNCHANGED <<source, stored, staged, clash>>
    BY DEF ReachStop, PageEnds, Base, Walks, Cursor
  <1>4. DealtUpTo(w, t)  OBVIOUS
  <1>5. \A k \in page[w] : k \in Nat /\ k <= c.stop /\ c.after <= k
    <2>1. page[w] \in SUBSET (0 .. Len(source)) /\ Len(source) \in Nat
      BY WalkTypes
    <2>2. page[w] # {} => /\ Max(page[w]) \in page[w]
                           /\ \A k \in page[w] : k <= Max(page[w])
      BY <2>1, MaxIsGreatest
    <2>3. \A k \in page[w] : c.after <= k  BY <1>4 DEF DealtUpTo
    <2>4. page[w] # {} => Max(page[w]) <= c.stop  BY DEF ReachStop
    <2>5. c.stop \in Nat  BY WalkTypes
    <2> QED BY <2>1, <2>2, <2>3, <2>4, <2>5
  <1>6. \A k : Covered(k)' <=> Covered(k)  BY <1>3 DEF Covered
  <1>7. \A k \in 1 .. t : k >= c.after => Dealt(w, k)'
    <2> SUFFICES ASSUME NEW k \in 1 .. t, k >= c.after PROVE Dealt(w, k)'
      OBVIOUS
    <2>1. Dealt(w, k)  BY <1>4 DEF DealtUpTo
    <2>2. CASE k \in page[w]
      <3>1. k \in 1 .. c.stop  BY <1>5, <2>2, WalkTypes
      <3> QED BY <1>4, <1>6, <3>1 DEF DealtUpTo, Dealt
    <2>3. CASE k \notin page[w]  BY <1>3, <1>6, <2>1, <2>3 DEF Dealt
    <2> QED BY <2>2, <2>3
  <1>8. cursor'[w].last => \A k \in 1 .. t : k < c.after => k <= c.stop
    <2>1. CASE page[w] = {}  BY <1>3, <1>4, <2>1 DEF DealtUpTo
    <2>2. CASE page[w] # {}  BY <1>5, <2>2, WalkTypes
    <2> QED BY <2>1, <2>2
  <1>9. DealtUpTo(w, t)'
    BY <1>3, <1>4, <1>6, <1>7, <1>8 DEF DealtUpTo
  <1> QED BY <1>9

LEMMA SoundReachStop ==
  ASSUME Single, Base, Sound, NEW w \in Writers, ReachStop(w)
  PROVE  Sound'
  <1>1. SUFFICES ASSUME trouble = {}
                 PROVE  NoGap' /\ \A u \in Writers : WalkSound(u)'
    BY DEF ReachStop, PageEnds, Sound
  <1>2. \A u \in Writers : u = w  BY DEF Single
  <1>3. pc[w] = "page" /\ pc'[w] = "commit" /\ source' = source
    BY DEF ReachStop, PageEnds, Base, Walks
  <1>4. PICK t \in 0 .. Len(source) : DealtUpTo(w, t)
    BY <1>1, <1>3 DEF Sound, WalkSound
  <1>5. DealtUpTo(w, t)'  BY <1>4, DealtReachStop
  <1>6. WalkSound(w)'  BY <1>3, <1>5 DEF WalkSound
  <1>7. NoGap'  BY <1>3 DEF NoGap
  <1> QED BY <1>2, <1>6, <1>7

LEMMA DealtCommit ==
  ASSUME Base, NEW w \in Writers, StagedIsNewer(w), Commit(w), ~Conflict(w),
         NEW t \in 0 .. Len(source), DealtUpTo(w, t)
  PROVE  /\ DealtUpTo(w, t)'
         /\ \A r \in Roots : stored'[r] \in Nat /\ stored'[r] <= t
         /\ \A k \in 1 .. t : k >= cursor[w].after => Covered(k)'
         /\ \A k \in 1 .. cursor[w].stop : Covered(k)'
  <1> USE DEF session
  <1>3. ~Conflict(w)  OBVIOUS
  <1> DEFINE c == cursor[w]
  <1>4. /\ pc[w] = "commit"
        /\ UNCHANGED <<source, cursor, page>>
        /\ page[w] = {} /\ clash[w] = FALSE
        /\ \A r \in Roots : staged'[w][r] = 0
    BY <1>3 DEF Commit, Conflict, NewSession, NoneStaged, Base, Walks, Sessions, SessionOK, PageOK
  <1>5. DealtUpTo(w, t)  OBVIOUS
  <1>6. \A r \in Roots : /\ stored'[r] >= stored[r] /\ stored'[r] >= staged[w][r]
                        /\ stored'[r] \in {stored[r], staged[w][r]}
    BY <1>3, CommitIsNewer
  <1>7. \A r \in Roots : stored'[r] \in Nat /\ stored'[r] <= t
    BY <1>5, <1>6, WalkTypes DEF DealtUpTo
  <1>8. ASSUME NEW k \in 1 .. t, Dealt(w, k) PROVE Covered(k)'
    <2>1. k \in Nat /\ source[k] \in Roots /\ source' = source
      BY <1>4, WalkTypes
    <2>2. stored[source[k]] \in Nat /\ staged[w][source[k]] \in Nat
      BY <2>1, WalkTypes
    <2>3. stored[source[k]] >= k \/ staged[w][source[k]] >= k
      BY <1>4, <1>8 DEF Dealt, Covered
    <2>4. stored'[source[k]] >= k  BY <1>6, <1>7, <2>1, <2>2, <2>3
    <2> QED BY <2>1, <2>4 DEF Covered
  <1>9. c.stop \in Nat /\ c.after \in Nat /\ c.last \in BOOLEAN  BY WalkTypes
  <1>10. \A k \in 1 .. t : k >= c.after => Covered(k)'
    BY <1>5, <1>8 DEF DealtUpTo
  <1>11. \A k \in 1 .. c.stop : Covered(k)'
    <2> SUFFICES ASSUME NEW k \in 1 .. c.stop PROVE Covered(k)'
      OBVIOUS
    <2>1. k \in 1 .. t  BY <1>5, <1>9 DEF DealtUpTo
    <2>2. Dealt(w, k)  BY <1>5 DEF DealtUpTo, Dealt
    <2> QED BY <1>8, <2>1, <2>2
  <1>12. DealtUpTo(w, t)'
    <2>1. \A r \in Roots : stored'[r] <= t /\ staged'[w][r] <= t
      BY <1>4, <1>7
    <2>2. \A k \in 1 .. t : k >= c.after => Dealt(w, k)'
      BY <1>10 DEF Dealt
    <2> QED BY <1>4, <1>5, <1>11, <2>1, <2>2 DEF DealtUpTo
  <1> QED BY <1>7, <1>10, <1>11, <1>12

LEMMA SoundCommit ==
  ASSUME Single, Base, Newer, Sound, NEW w \in Writers, Commit(w)
  PROVE  Sound'
  <1> USE DEF session
  <1>1. SUFFICES ASSUME trouble' = {}
                 PROVE  NoGap' /\ \A u \in Writers : WalkSound(u)'
    BY DEF Sound
  <1>2. \A u \in Writers : u = w  BY DEF Single
  <1>3. trouble = {} /\ ~Conflict(w)
    BY <1>1 DEF Commit
  <1> DEFINE c == cursor[w]
  <1>4. /\ pc[w] = "commit" /\ pc'[w] = IF c.last THEN "idle" ELSE "fetch"
        /\ UNCHANGED <<source, cursor>>
    BY DEF Commit, Base, Walks
  <1>5. PICK t \in 0 .. Len(source) : DealtUpTo(w, t)
    BY <1>3, <1>4 DEF Sound, WalkSound
  <1>6. /\ DealtUpTo(w, t)'
        /\ \A r \in Roots : stored'[r] \in Nat /\ stored'[r] <= t
        /\ \A k \in 1 .. t : k >= c.after => Covered(k)'
        /\ \A k \in 1 .. c.stop : Covered(k)'
    BY <1>3, <1>5, DealtCommit DEF Newer
  <1>9. c.stop \in Nat /\ c.after \in Nat /\ c.last \in BOOLEAN  BY WalkTypes
  <1>13. WalkSound(w)'
    BY <1>4, <1>6 DEF WalkSound
  <1>14. ASSUME c.last PROVE NoGap'
    <2> DEFINE S == {stored'[r] : r \in Roots}
    <2>1. S \in SUBSET (0 .. t) /\ S # {} /\ t \in Nat
      BY <1>6, WalkTypes DEF PlanAssumption
    <2>2. Watermark' = Max(S)  BY DEF Watermark
    <2>3. Watermark' \in Nat /\ Watermark' <= t
      <3> HIDE DEF S
      <3>1. Max(S) \in S  BY <2>1, MaxIsGreatest
      <3>2. Max(S) \in 0 .. t  BY <2>1, <3>1, Zenon
      <3> QED BY <2>1, <2>2, <3>2
    <2>4. ASSUME NEW k \in 1 .. Watermark' PROVE Covered(k)'
      <3>1. k \in 1 .. t /\ k \in Nat  BY <2>3
      <3>2. CASE k >= c.after  BY <1>6, <3>1, <3>2
      <3>3. CASE k < c.after
        <4>1. k <= c.stop  BY <1>5, <1>14, <3>1, <3>3 DEF DealtUpTo
        <4> QED BY <1>6, <1>9, <3>1, <4>1
      <3> QED BY <1>9, <3>1, <3>2, <3>3
    <2> QED BY <2>4 DEF NoGap
  <1>15. ASSUME ~c.last PROVE NoGap'  BY <1>4, <1>15 DEF NoGap
  <1> QED BY <1>2, <1>9, <1>13, <1>14, <1>15

LEMMA SoundStep == Single /\ Base /\ Newer /\ Sound /\ [Next]_vars => Sound'
  <1> SUFFICES ASSUME Single, Base, Newer, Sound, [Next]_vars PROVE Sound'
    OBVIOUS
  <1>1. CASE \E r \in Roots : Publish(r)
    BY <1>1, SoundPublish
  <1>2. Watermark \in Nat /\ MaxId + 1 \in Nat /\ 0 \in Nat
    BY WatermarkIsGreatest, TypeParts DEF Base, Rows, PlanAssumption
  <1>3. CASE DailyStart
    <2>1. "daily" \in Writers  BY <1>3 DEF DailyStart, Starts
    <2> QED BY <1>2, <1>3, <2>1, SoundStart DEF DailyStart
  <1>4. CASE BackfillStart
    <2>1. "backfill" \in Writers  BY <1>4 DEF BackfillStart, Starts
    <2>2. BackfillAfter \in Nat /\ (BackfillAfter = MaxId + 1 \/ BackfillAfter <= Watermark)
      <3> DEFINE S == {MaxId + 1} \cup {stored[r] : r \in {q \in Roots : stored[q] # 0}}
      <3>1. \A k \in S : k \in Nat /\ (k = MaxId + 1 \/ k <= Watermark)
        BY <1>2, WatermarkIsGreatest, TypeParts DEF Base, Rows
      <3>2. S # {}  OBVIOUS
      <3>3. Min(S) = BackfillAfter  BY DEF BackfillAfter
      <3>4. Min(S) \in S
        <4> HIDE DEF S
        <4>1. S \in SUBSET Nat  BY <3>1
        <4> QED BY <3>2, <4>1, MinIsLeast
      <3> QED BY <3>1, <3>3, <3>4
    <2>3. BackfillAfter = MaxId + 1 \/ BackfillAfter <= Watermark + 1
      BY <1>2, <2>2
    <2>4. 0 <= Watermark  BY <1>2
    <2> QED BY <1>2, <1>4, <2>1, <2>2, <2>3, <2>4, SoundStart DEF BackfillStart
  <1>5. CASE \E w \in Writers : WalkFails(w)
    BY <1>5 DEF WalkFails, Sound
  <1>6. CASE UNCHANGED vars
    BY <1>6 DEF vars, session, Sound, NoGap, Watermark, Covered, WalkSound, DealtUpTo, Dealt
  <1> QED BY <1>1, <1>3, <1>4, <1>5, <1>6, SoundFetch, SoundUpsert, SoundReachStop, SoundCommit
          DEF Next

(* plans.py:241-243: while only one walk at a time runs, the watermark is  *)
(* sound as long as no walk was cut short, capped or partly rolled back,   *)
(* however many versions are published meanwhile.                          *)
THEOREM WatermarkIsSound == ASSUME Single PROVE Spec => []CleanWalkLeavesNoGap
  <1> DEFINE I == Base /\ Newer /\ Sound
  <1>1. Init => I
    BY BaseInit, NewerInit, SoundInit
  <1>2. I /\ [Next]_vars => I'
    BY BaseStep, NewerStep, SoundStep
  <1>3. I => CleanWalkLeavesNoGap
    BY DEF Sound, CleanWalkLeavesNoGap
  <1> QED BY <1>1, <1>2, <1>3, PTL DEF Spec

-----------------------------------------------------------------------------
(* The resume point of the backfill.                                       *)

(* A resumed walk goes down from the oldest stored version, so that        *)
(* whatever it has stored or staged lies at its cursor or above.           *)
GoesDown(w) ==
  /\ cursor[w].stop = 0
  /\ \A r \in Roots : /\ stored[r] # 0 => cursor[w].after <= stored[r]
                      /\ staged[w][r] # 0 => cursor[w].after <= staged[w][r]

Resumable(w) ==
  "rolledBack" \notin trouble =>
    /\ ResumePointIsSound
    /\ pc[w] # "idle" => GoesDown(w) /\ \E t \in 0 .. Len(source) : DealtUpTo(w, t)

(* The resume point is the least stored version, or above all of them.     *)
LEMMA ResumePointIsLeast ==
  ASSUME Rows
  PROVE  /\ BackfillAfter \in Nat
         /\ \A r \in Roots : stored[r] # 0 => BackfillAfter <= stored[r]
         /\ BackfillAfter = MaxId + 1 \/ \E r \in Roots : BackfillAfter = stored[r]
  <1> DEFINE S == {MaxId + 1} \cup {stored[r] : r \in {q \in Roots : stored[q] # 0}}
  <1>1. S \in SUBSET Nat /\ S # {}
    BY DEF Rows, PlanAssumption
  <1>2. Min(S) \in S /\ \A k \in S : Min(S) <= k
    <2> HIDE DEF S
    <2> QED BY <1>1, MinIsLeast
  <1>3. Min(S) = BackfillAfter  BY DEF BackfillAfter
  <1>4. \A r \in Roots : stored[r] # 0 => stored[r] \in S
    OBVIOUS
  <1>5. \A k \in S : k = MaxId + 1 \/ \E r \in Roots : k = stored[r]
    OBVIOUS
  <1> HIDE DEF S
  <1> QED BY <1>1, <1>2, <1>3, <1>4, <1>5

(* Rows that do not change keep the resume point sound.                    *)
LEMMA ResumePointStays ==
  ASSUME Base, ResumePointIsSound, "rolledBack" \notin trouble, stored' = stored,
         \A i \in 1 .. Len(source) : source'[i] = source[i]
  PROVE  ResumePointIsSound'
  <1>1. Watermark' = Watermark /\ BackfillAfter' = BackfillAfter
    BY DEF Watermark, BackfillAfter
  <1>2. Watermark \in 0 .. Len(source) /\ Len(source) \in Nat
    <2>1. Watermark \in 0 .. Len(source)  BY WatermarkIsGreatest, TypeParts DEF Base
    <2>2. Len(source) \in Nat  BY DEF Base, Rows
    <2> QED BY <2>1, <2>2
  <1>3. BackfillAfter \in Nat /\ BackfillAfter >= 1
    <2>1. BackfillAfter \in 1 .. MaxId + 1 /\ MaxId \in Nat
      BY BackfillAfterInRange DEF Base, PlanAssumption
    <2> QED BY <2>1
  <1>4. \A i \in BackfillAfter .. Watermark : Covered(i)
    BY DEF ResumePointIsSound
  <1>5. \A i \in BackfillAfter .. Watermark : i \in 1 .. Len(source)
    BY <1>2, <1>3
  <1>6. \A i \in BackfillAfter .. Watermark : Covered(i)'
    BY <1>4, <1>5 DEF Covered
  <1> QED BY <1>1, <1>6 DEF ResumePointIsSound

(* A step that stores nothing and sets the walk forth.                     *)
LEMMA ResumableStart ==
  ASSUME Base, NEW w \in Writers, Resumable(w), Starts(w, 0, BackfillAfter)
  PROVE  Resumable(w)'
  <1> USE DEF session
  <1> SUFFICES ASSUME "rolledBack" \notin trouble
               PROVE  /\ ResumePointIsSound' /\ GoesDown(w)'
                      /\ \E t \in 0 .. Len(source) : DealtUpTo(w, t)'
    BY DEF Resumable, Starts
  <1>1. ResumePointIsSound /\ pc[w] = "idle" /\ stored' = stored /\ source' = source
    BY DEF Resumable, Starts
  <1>2. ResumePointIsSound'
    BY <1>1, ResumePointStays
  <1>3. page[w] = {} /\ \A r \in Roots : staged[w][r] = 0
    BY <1>1 DEF Base, SessionOK, PageOK, FreshOK, NoneStaged
  <1>4. /\ cursor'[w].stop = 0 /\ cursor'[w].after = BackfillAfter /\ cursor'[w].last = FALSE
        /\ page'[w] = {} /\ \A r \in Roots : staged'[w][r] = 0
    BY <1>3 DEF Starts, Base, Walks
  <1>5. Rows  BY DEF Base
  <1>6. GoesDown(w)'
    BY <1>1, <1>4, <1>5, ResumePointIsLeast DEF GoesDown
  <1>7. /\ Watermark \in 0 .. Len(source) /\ Len(source) \in Nat
        /\ \A r \in Roots : stored[r] \in Nat /\ stored[r] <= Watermark
    <2>1. /\ Watermark \in 0 .. Len(source)
          /\ \A r \in Roots : stored[r] <= Watermark
      BY WatermarkIsGreatest, TypeParts DEF Base
    <2> QED BY <2>1, WalkTypes
  <1>8. /\ BackfillAfter \in Nat /\ Watermark \in Nat
        /\ BackfillAfter = MaxId + 1 \/ BackfillAfter <= Watermark
    BY <1>5, <1>7, ResumePointIsLeast
  <1>9. \A i \in BackfillAfter .. Watermark : Covered(i)'
    BY <1>1 DEF ResumePointIsSound, Covered
  <1>10. ASSUME NEW t \in 0 .. Len(source), t = Watermark PROVE DealtUpTo(w, t)'
    <2>1. ASSUME NEW i \in 1 .. t, i >= BackfillAfter PROVE Dealt(w, i)'
      <3>1. i \in BackfillAfter .. Watermark  BY <1>8, <1>10, <2>1
      <3> QED BY <1>9, <3>1 DEF Dealt
    <2>2. \A r \in Roots : stored'[r] <= t /\ staged'[w][r] <= t
      BY <1>1, <1>4, <1>7, <1>8, <1>10
    <2>3. BackfillAfter = MaxId + 1 \/ BackfillAfter <= t + 1
      BY <1>8, <1>10
    <2>4. 0 <= t /\ \A i \in 1 .. 0 : FALSE
      BY <1>8, <1>10
    <2> HIDE <1>10
    <2> QED BY <1>4, <2>1, <2>2, <2>3, <2>4 DEF DealtUpTo
  <1> QED BY <1>2, <1>6, <1>7, <1>10

LEMMA ResumableFetch ==
  ASSUME Base, NEW w \in Writers, w = "backfill", Resumable(w), Fetch(w)
  PROVE  Resumable(w)'
  <1> USE DEF session
  <1>1. /\ pc[w] = "fetch" /\ UNCHANGED <<source, stored, staged>>
        /\ cursor'[w].stop = cursor[w].stop
        /\ cursor'[w].after = IF NextPage(cursor[w].after) = {} THEN cursor[w].after
                              ELSE Min(NextPage(cursor[w].after))
        /\ "rolledBack" \in trouble' <=> "rolledBack" \in trouble
    BY DEF Fetch, Base, Walks
  <1> SUFFICES ASSUME "rolledBack" \notin trouble
               PROVE  /\ ResumePointIsSound' /\ GoesDown(w)'
                      /\ \E t \in 0 .. Len(source) : DealtUpTo(w, t)'
    BY <1>1 DEF Resumable
  <1>2. PICK s \in 0 .. Len(source) : ResumePointIsSound /\ GoesDown(w) /\ DealtUpTo(w, s)
    BY <1>1 DEF Resumable
  <1>3. \E t \in 0 .. Len(source) : DealtUpTo(w, t)'
    BY <1>2, DealtFetch
  <1>4. ResumePointIsSound'
    BY <1>1, <1>2, ResumePointStays
  <1> DEFINE new == NextPage(cursor[w].after)
  <1>5. new \subseteq Below(cursor[w].after) /\ cursor[w].after \in Nat
        /\ Below(cursor[w].after) \subseteq 1 .. Len(source) /\ Len(source) \in Nat
    <2>1. source \in Seq(Roots) /\ cursor[w].after \in Nat /\ Len(source) \in Nat
      BY WalkTypes DEF Base, Rows
    <2>2. Below(cursor[w].after) \subseteq 1 .. Len(source)
      BY <2>1 DEF Below
    <2> QED BY <2>1, <2>2, PageIsTopSegment
  <1>6. new # {} => Min(new) \in new
    <2> HIDE DEF new
    <2>1. new \in SUBSET (1 .. Len(source)) /\ 1 .. Len(source) \subseteq Nat  BY <1>5
    <2>2. new \in SUBSET Nat  BY <2>1
    <2> QED BY <2>2, MinIsLeast
  <1>7. cursor'[w].after \in Nat /\ cursor'[w].after <= cursor[w].after
    <2>1. \A i \in Below(cursor[w].after) : i \in Nat /\ i < cursor[w].after
      <3>1. \A i \in 1 .. Len(source) : i \in Nat  BY <1>5
      <3>2. \A i \in Below(cursor[w].after) : i < cursor[w].after  BY DEF Below
      <3> QED BY <1>5, <3>1, <3>2
    <2>2. CASE new = {}  BY <1>1, <1>5, <2>2
    <2>3. CASE new # {}
      <3>1. Min(new) \in Below(cursor[w].after)  BY <1>5, <1>6, <2>3
      <3>2. cursor'[w].after = Min(new)  BY <1>1, <2>3
      <3> HIDE DEF new
      <3> QED BY <1>5, <2>1, <3>1, <3>2
    <2> QED BY <2>2, <2>3
  <1>8. \A r \in Roots : stored[r] \in Nat /\ staged[w][r] \in Nat
    BY WalkTypes
  <1>9. GoesDown(w)'
    BY <1>1, <1>2, <1>5, <1>7, <1>8 DEF GoesDown
  <1> QED BY <1>3, <1>4, <1>9

LEMMA ResumableUpsert ==
  ASSUME Base, NEW w \in Writers, StagedIsNewer(w), Resumable(w), Upsert(w)
  PROVE  Resumable(w)'
  <1> USE DEF session
  <1> DEFINE i == Max(page[w])
  <1>1. /\ pc[w] = "page" /\ page[w] # {}
        /\ UNCHANGED <<source, stored, pc, cursor, trouble>>
        /\ staged' = staged \/ staged' = [staged EXCEPT ![w][source[i]] = i]
    BY DEF Upsert, Handle
  <1>r. PICK r : r = source[i]  OBVIOUS
  <1> SUFFICES ASSUME "rolledBack" \notin trouble
               PROVE  /\ ResumePointIsSound' /\ GoesDown(w)'
                      /\ \E t \in 0 .. Len(source) : DealtUpTo(w, t)'
    BY <1>1 DEF Resumable
  <1>2. PICK t \in 0 .. Len(source) : ResumePointIsSound /\ GoesDown(w) /\ DealtUpTo(w, t)
    BY <1>1 DEF Resumable
  <1>3. DealtUpTo(w, t)'
    BY <1>2, DealtUpsert
  <1>4. ResumePointIsSound'
    BY <1>1, <1>2, ResumePointStays
  <1>5. i \in page[w] /\ source[i] \in Roots
    <2>1. page[w] \in SUBSET (0 .. Len(source)) /\ Len(source) \in Nat
      BY WalkTypes
    <2>2. i \in page[w]  BY <1>1, <2>1, MaxIsGreatest
    <2> QED BY <2>2, WalkTypes
  <1>6. cursor[w].after <= i
    BY <1>2, <1>5 DEF DealtUpTo
  <1> HIDE DEF i
  <1>7. \A q \in Roots : staged'[w][q] = staged[w][q] \/ staged'[w][q] = i
    <2>1. r \in Roots /\ (staged' = staged \/ staged' = [staged EXCEPT ![w][r] = i])
      BY <1>1, <1>5, <1>r
    <2>2. staged \in [Writers -> [Roots -> 0 .. MaxId]]
      BY DEF Base, Sessions
    <2>3. CASE staged' = staged  BY <2>3
    <2>4. CASE staged' = [staged EXCEPT ![w][r] = i]
      <3>1. \A q \in Roots : staged'[w][q] = IF q = r THEN i ELSE staged[w][q]
        BY <2>1, <2>2, <2>4
      <3> QED BY <3>1
    <2> QED BY <2>1, <2>3, <2>4
  <1>8. GoesDown(w)'
    BY <1>1, <1>2, <1>6, <1>7 DEF GoesDown
  <1> QED BY <1>3, <1>4, <1>8

LEMMA ResumableReachStop ==
  ASSUME Base, NEW w \in Writers, Resumable(w), ReachStop(w)
  PROVE  Resumable(w)'
  <1> USE DEF session
  <1>1. /\ pc[w] = "page" /\ UNCHANGED <<source, stored, staged, trouble>>
        /\ cursor'[w].stop = cursor[w].stop /\ cursor'[w].after = cursor[w].after
    BY DEF ReachStop, PageEnds, Base, Walks, Cursor
  <1> SUFFICES ASSUME "rolledBack" \notin trouble
               PROVE  /\ ResumePointIsSound' /\ GoesDown(w)'
                      /\ \E t \in 0 .. Len(source) : DealtUpTo(w, t)'
    BY <1>1 DEF Resumable
  <1>2. PICK t \in 0 .. Len(source) : ResumePointIsSound /\ GoesDown(w) /\ DealtUpTo(w, t)
    BY <1>1 DEF Resumable
  <1>3. DealtUpTo(w, t)'
    BY <1>2, DealtReachStop
  <1>4. ResumePointIsSound'
    BY <1>1, <1>2, ResumePointStays
  <1>5. GoesDown(w)'
    BY <1>1, <1>2 DEF GoesDown
  <1> QED BY <1>3, <1>4, <1>5

(* A page is committed as a whole, and with it the cursor becomes the      *)
(* resume point, or stays above it.                                        *)
LEMMA ResumableCommit ==
  ASSUME Base, NEW w \in Writers, StagedIsNewer(w), Resumable(w), Commit(w)
  PROVE  Resumable(w)'
  <1> USE DEF session
  <1> DEFINE c == cursor[w]
  <1>1. /\ pc[w] = "commit" /\ UNCHANGED <<source, cursor>>
        /\ \A r \in Roots : staged'[w][r] = 0
        /\ Conflict(w) => "rolledBack" \in trouble'
        /\ ~Conflict(w) => trouble' = trouble
    BY DEF Commit, NewSession, NoneStaged, Base, Walks, Sessions
  <1> SUFFICES ASSUME "rolledBack" \notin trouble'
               PROVE  /\ ResumePointIsSound' /\ GoesDown(w)'
                      /\ \E t \in 0 .. Len(source) : DealtUpTo(w, t)'
    BY <1>1 DEF Resumable
  <1>2. ~Conflict(w) /\ "rolledBack" \notin trouble
    BY <1>1
  <1>3. PICK t \in 0 .. Len(source) : GoesDown(w) /\ DealtUpTo(w, t)
    BY <1>1, <1>2 DEF Resumable
  <1>4. /\ DealtUpTo(w, t)'
        /\ \A r \in Roots : stored'[r] \in Nat /\ stored'[r] <= t
        /\ \A k \in 1 .. t : k >= c.after => Covered(k)'
    BY <1>2, <1>3, DealtCommit
  <1>5. \A r \in Roots : stored'[r] \in {stored[r], staged[w][r]}
    BY CommitIsNewer
  <1>6. \A r \in Roots : stored'[r] # 0 => c.after <= stored'[r]
    BY <1>3, <1>5 DEF GoesDown
  <1>7. GoesDown(w)'
    BY <1>1, <1>3, <1>6 DEF GoesDown
  <1>8. Base'
    <2>1. [Next]_vars  BY DEF Next
    <2> QED BY <2>1, BaseStep
  <1>9. Watermark' \in Nat /\ (\E r \in Roots : stored'[r] = Watermark')
    <2>1. TypeOK'
      <3>1. (Rows /\ Walks /\ Sessions /\ Marks)'  BY <1>8 DEF Base
      <3> QED BY <3>1, TypeParts, PTL
    <2>2. (/\ Watermark \in 0 .. Len(source)
           /\ \A r \in Roots : stored[r] <= Watermark
           /\ \E r \in Roots : stored[r] = Watermark)'
      BY <2>1, WatermarkIsGreatest, PTL
    <2> QED BY <2>2
  <1>10. (/\ BackfillAfter \in Nat
          /\ \A r \in Roots : stored[r] # 0 => BackfillAfter <= stored[r]
          /\ BackfillAfter = MaxId + 1 \/ \E r \in Roots : BackfillAfter = stored[r])'
    <2>1. Rows'  BY <1>8 DEF Base
    <2> QED BY <2>1, ResumePointIsLeast, PTL
  <1>11. c.after \in Nat /\ Len(source) \in Nat /\ Len(source) <= MaxId /\ MaxId \in Nat
         /\ c.after \in 1 .. MaxId + 1
    BY WalkTypes DEF Base, Walks, Cursor
  <1>12. ASSUME NEW k \in BackfillAfter' .. Watermark' PROVE Covered(k)'
    <2>1. k <= t /\ k \in Int /\ BackfillAfter' <= k
      BY <1>4, <1>9, <1>10, <1>12
    <2>2. PICK r \in Roots : BackfillAfter' = stored'[r]
      <3>1. t <= MaxId  BY <1>11
      <3>2. BackfillAfter' # MaxId + 1  BY <1>10, <1>11, <2>1, <3>1
      <3> QED BY <1>10, <3>2
    <2>3. CASE stored'[r] # 0
      <3>1. c.after <= k  BY <1>6, <1>10, <1>11, <2>1, <2>2, <2>3
      <3>2. k \in 1 .. t  BY <1>11, <2>1, <3>1
      <3> QED BY <1>4, <3>1, <3>2
    <2>4. CASE stored'[r] = 0
      <3>1. (BackfillAfter \in 1 .. MaxId + 1)'
        <4>1. Rows'  BY <1>8 DEF Base
        <4> QED BY <4>1, BackfillAfterInRange, PTL
      <3> QED BY <1>11, <2>2, <2>4, <3>1
    <2> QED BY <2>3, <2>4
  <1>13. ResumePointIsSound'
    BY <1>12 DEF ResumePointIsSound
  <1> QED BY <1>1, <1>4, <1>7, <1>13

(* The behaviours in which only the backfill walks.                        *)
BackfillInv ==
  who = "backfill" =>
    /\ Base /\ Alone("backfill")
    /\ "rolledBack" \notin trouble => ResumePointIsSound
    /\ "backfill" \in Writers => StagedIsNewer("backfill") /\ Resumable("backfill")

LEMMA BackfillInit == SingleInit => BackfillInv
  <1> SUFFICES ASSUME InitWith(MaxId - 1, FALSE) PROVE /\ Base /\ Alone("backfill") /\ ResumePointIsSound
                                       /\ \A w \in Writers : StagedIsNewer(w) /\ Resumable(w)
    BY DEF SingleInit, BackfillInv
  <1>1. /\ source \in [1 .. MaxId - 1 -> Roots] /\ stored = [r \in Roots |-> 0]
        /\ pc = [w \in Writers |-> "idle"]
        /\ cursor = [w \in Writers |-> [stop |-> 0, after |-> 1, pages |-> 0, last |-> FALSE]]
        /\ page = [w \in Writers |-> {}]
        /\ staged = [w \in Writers |-> NoneStaged]
        /\ inserts = [w \in Writers |-> {}]
        /\ clash = [w \in Writers |-> FALSE]
        /\ failures = 0 /\ trouble = {}
    BY DEF InitWith, NoneStaged
  <1>2. MaxId - 1 \in Nat /\ MaxId \in Nat  BY DEF PlanAssumption
  <1>3. source \in Seq(Roots) /\ Len(source) = MaxId - 1
    BY <1>1, <1>2
  <1>4. Rows
    BY <1>1, <1>2, <1>3 DEF Rows
  <1>5. Walks /\ Sessions /\ Marks
    BY <1>1, <1>2 DEF Walks, Sessions, Marks, PlanAssumption, Cursor, NoneStaged
  <1>6. \A w \in Writers : SessionOK(w)
    BY <1>1 DEF SessionOK, PageOK, StagedOK, FreshOK, NoneStaged
  <1>7. Base  BY <1>4, <1>5, <1>6 DEF Base
  <1>8. Alone("backfill")  BY <1>1 DEF Alone
  <1>9. ResumePointIsSound
    <2>1. Watermark = 0
      BY <1>1, <1>7, WatermarkIsGreatest, TypeParts DEF Base
    <2>2. BackfillAfter \in 1 .. MaxId + 1  BY <1>4, BackfillAfterInRange
    <2> QED BY <1>2, <2>1, <2>2 DEF ResumePointIsSound
  <1>10. \A w \in Writers : StagedIsNewer(w) /\ Resumable(w)
    BY <1>1, <1>9 DEF StagedIsNewer, Resumable, NoneStaged
  <1> QED BY <1>7, <1>8, <1>9, <1>10

LEMMA BackfillStep ==
  ASSUME NoResume = FALSE, BackfillInv, [SingleNext]_<<vars, who>>
  PROVE  BackfillInv'
  <1> USE DEF session
  <1> SUFFICES ASSUME who = "backfill", Next,
                      \A w \in Writers \ {"backfill"} : pc'[w] = "idle"
               PROVE  /\ Base' /\ Alone("backfill")'
                      /\ ("rolledBack" \notin trouble => ResumePointIsSound)'
                      /\ "backfill" \in Writers =>
                           StagedIsNewer("backfill")' /\ Resumable("backfill")'
    <2>1. CASE UNCHANGED <<vars, who>>
      <3>1. UNCHANGED vars /\ who' = who  BY <2>1
      <3>2. Base => Base'  BY <3>1, BaseStep
      <3>3. ResumePointIsSound => ResumePointIsSound'
        BY <3>1 DEF vars, ResumePointIsSound, BackfillAfter, Watermark, Covered
      <3>4. Alone("backfill") => Alone("backfill")'
        BY <3>1 DEF vars, Alone
      <3>5. StagedIsNewer("backfill") => StagedIsNewer("backfill")'
        BY <3>1 DEF vars, StagedIsNewer
      <3>6. \A t : DealtUpTo("backfill", t) => DealtUpTo("backfill", t)'
        BY <3>1 DEF vars, DealtUpTo, Dealt, Covered
      <3>7. GoesDown("backfill") => GoesDown("backfill")'
        BY <3>1 DEF vars, GoesDown
      <3>8. UNCHANGED <<source, trouble, pc>>  BY <3>1 DEF vars
      <3>9. Resumable("backfill") => Resumable("backfill")'
        BY <3>3, <3>6, <3>7, <3>8 DEF Resumable
      <3> QED BY <3>1, <3>2, <3>3, <3>4, <3>5, <3>8, <3>9 DEF BackfillInv
    <2>2. CASE SingleNext
      BY <2>2 DEF SingleNext, BackfillInv
    <2> QED BY <2>1, <2>2
  <1>1. Base /\ Alone("backfill") /\ ("rolledBack" \notin trouble => ResumePointIsSound)
    BY DEF BackfillInv
  <1>2. Base' /\ Alone("backfill")'
    BY <1>1, BaseStep DEF Alone
  <1>3. ASSUME NEW w \in Writers,
               Fetch(w) \/ Upsert(w) \/ ReachStop(w) \/ Commit(w) \/ WalkFails(w)
        PROVE  w = "backfill"
    BY <1>1, <1>3 DEF Alone, Fetch, Upsert, Handle, ReachStop, PageEnds, Commit, WalkFails
  <1>4. ~DailyStart
    BY DEF DailyStart, Starts, Base, Walks, BackfillInv
  <1>5. CASE "backfill" \in Writers
    <2> DEFINE b == "backfill"
    <2>1. StagedIsNewer(b) /\ Resumable(b)  BY <1>5 DEF BackfillInv
    <2>2. StagedIsNewer(b)'  BY <1>1, <1>5, <2>1, NewerKept
    <2>3. Resumable(b)'
      <3>1. CASE \E r \in Roots : Publish(r)
        <4> PICK r \in Roots : Publish(r)  BY <3>1
        <4>1. \A i \in 1 .. Len(source) : source'[i] = source[i]
          BY <1>1 DEF Publish, Base, Rows
        <4>2. UNCHANGED <<stored, pc, cursor, staged, trouble>>
          BY DEF Publish
        <4>3. "rolledBack" \notin trouble => ResumePointIsSound'
          BY <1>1, <4>1, <4>2, ResumePointStays
        <4>4. "rolledBack" \notin trouble /\ pc[b] # "idle" =>
                GoesDown(b)' /\ \E t \in 0 .. Len(source') : DealtUpTo(b, t)'
          BY <1>1, <1>5, <2>1, <4>2, DealtPublish DEF Resumable, GoesDown
        <4> QED BY <4>2, <4>3, <4>4 DEF Resumable
      <3>2. CASE BackfillStart
        BY <1>1, <1>5, <2>1, <3>2, ResumableStart DEF BackfillStart
      <3>3. CASE Fetch(b)  BY <1>1, <1>5, <2>1, <3>3, ResumableFetch
      <3>4. CASE Upsert(b)  BY <1>1, <1>5, <2>1, <3>4, ResumableUpsert
      <3>5. CASE ReachStop(b)  BY <1>1, <1>5, <2>1, <3>5, ResumableReachStop
      <3>6. CASE Commit(b)  BY <1>1, <1>5, <2>1, <3>6, ResumableCommit
      <3>7. CASE WalkFails(b)
        <4>1. /\ pc'[b] = "idle" /\ UNCHANGED <<source, stored>>
              /\ "rolledBack" \in trouble' <=> "rolledBack" \in trouble
          BY <1>1, <1>5, <3>7 DEF WalkFails, Base, Walks
        <4>2. "rolledBack" \notin trouble => ResumePointIsSound'
          BY <1>1, <4>1, ResumePointStays
        <4> QED BY <4>1, <4>2 DEF Resumable
      <3> QED BY <1>3, <1>4, <3>1, <3>2, <3>3, <3>4, <3>5, <3>6, <3>7 DEF Next
    <2> QED BY <1>2, <2>2, <2>3 DEF Resumable
  <1>6. CASE "backfill" \notin Writers
    <2>1. CASE \E r \in Roots : Publish(r)
      <3> PICK r \in Roots : Publish(r)  BY <2>1
      <3>1. \A i \in 1 .. Len(source) : source'[i] = source[i]
        BY <1>1 DEF Publish, Base, Rows
      <3>2. UNCHANGED <<stored, trouble>>  BY DEF Publish
      <3>3. ("rolledBack" \notin trouble => ResumePointIsSound)'
        BY <1>1, <3>1, <3>2, ResumePointStays
      <3> QED BY <1>2, <1>6, <3>3
    <2>2. ~BackfillStart  BY <1>6 DEF BackfillStart, Starts
    <2> QED BY <1>3, <1>4, <1>6, <2>1, <2>2 DEF Next
  <1> QED BY <1>5, <1>6

(* plans.py:280-285: a backfill that is only ever resumed loses nothing    *)
(* above its resume point, wherever it was cut before, for any number of   *)
(* points, versions and failures and any page size.                        *)
THEOREM ResumeLosesNothing ==
  ASSUME NoResume = FALSE PROVE SingleSpec => []BackfillIsResumable
  <1>1. BackfillInv => BackfillIsResumable
    BY DEF BackfillInv, BackfillIsResumable, ResumePointIsSound
  <1>2. BackfillInv /\ [SingleNext]_<<vars, who>> => BackfillInv'
    BY BackfillStep
  <1> QED BY <1>1, <1>2, BackfillInit, PTL DEF SingleSpec
=============================================================================
