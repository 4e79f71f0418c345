-------------------------- MODULE SyncWindow_proofs ---------------------------
(* The window of the next synchronisation begins before everything an       *)
(* earlier one may have missed, for every margin, ceiling and page size.    *)
EXTENDS SyncWindow, FiniteSetTheorems, WellFoundedInduction, TLAPS

USE SyncWindowAssumption

-----------------------------------------------------------------------------
(* Greatest and least elements.                                            *)

LEMMA LeastExists ==
  ASSUME NEW S \in SUBSET Nat, S # {}
  PROVE  \E m \in S : \A k \in S : m <= k
  <1> DEFINE R == {p \in Nat \X Nat : p[1] < p[2]}
  <1>1. R = OpToRel(<, Nat)
    BY DEF OpToRel
  <1>2. IsWellFoundedOn(R, Nat)
    BY <1>1, NatLessThanWellFounded
  <1>3. PICK m \in S : \A k \in S : ~(<<k, m>> \in R)
    <2> HIDE DEF R
    <2> QED BY <1>2, WFMin
  <1>4. ASSUME NEW k \in S PROVE m <= k
    <2>1. k \in Nat /\ m \in Nat /\ <<k, m>> \in Nat \X Nat  OBVIOUS
    <2>2. ~(k < m)  BY <1>3, <2>1
    <2> QED BY <2>1, <2>2
  <1> QED BY <1>4

LEMMA MinIsLeast ==
  ASSUME NEW S \in SUBSET Nat, S # {}
  PROVE  Min(S) \in S /\ \A k \in S : Min(S) <= k
  BY LeastExists DEF Min

LEMMA MaxIsGreatest ==
  ASSUME NEW n \in Nat, NEW S \in SUBSET (0 .. n), S # {}
  PROVE  Max(S) \in S /\ \A k \in S : k <= Max(S)
  <1> DEFINE T == {n - k : k \in S}
  <1>1. \A k \in S : k \in Int /\ n - k \in Nat
    OBVIOUS
  <1>2. PICK m \in T : \A j \in T : m <= j
    <2>1. T \in SUBSET Nat  BY <1>1
    <2>2. T # {}  OBVIOUS
    <2> HIDE DEF T
    <2> QED BY <2>1, <2>2, LeastExists
  <1>3. PICK k \in S : m = n - k  OBVIOUS
  <1>4. ASSUME NEW j \in S PROVE k >= j
    <2>1. n - j \in T  OBVIOUS
    <2>2. n - k <= n - j  BY <1>2, <1>3, <2>1
    <2> QED BY <2>2, <1>1
  <1>5. \E x \in S : \A y \in S : x >= y  BY <1>4
  <1>6. Max(S) \in S /\ \A y \in S : Max(S) >= y  BY <1>5 DEF Max
  <1> QED BY <1>1, <1>6

LEMMA MaxOfTwo ==
  ASSUME NEW n \in Nat, NEW a \in 0 .. n, NEW b \in 0 .. n
  PROVE  Max({a, b}) \in 0 .. n /\ a <= Max({a, b}) /\ b <= Max({a, b})
  <1> DEFINE S == {a, b}
  <1>1. S \in SUBSET (0 .. n) /\ S # {} /\ a \in S /\ b \in S
    OBVIOUS
  <1>2. Max(S) \in S /\ \A k \in S : k <= Max(S)
    <2> HIDE DEF S
    <2> QED BY <1>1, MaxIsGreatest
  <1> QED BY <1>1, <1>2

-----------------------------------------------------------------------------
(* The rows of scrape_runs.                                                *)

(* The row of the walk: when it was inserted, and that it is live.         *)
WalkRow ==
  pc = "walking" => \E r \in runs : /\ r.id = run /\ r.state = "open"
                                    /\ window.to <= r.started /\ r.started <= window.to + Stale
                                    /\ now <= r.progress + Stale

(* What lies behind the cursor is stored, but for the changes that the     *)
(* source dates back to the end of the window.                             *)
BehindTheCursor ==
  pc = "walking" =>
    \A c \in Contracts : c <= after /\ window.from <= changed[c] /\ changed[c] + Skew < window.to
                           => stored[c] = changed[c]

WalkInv ==
  /\ TypeOK
  /\ Start <= now /\ \A r \in runs : Start <= r.started
  /\ pc = "asked" => /\ now <= window.to + Stale
                     /\ 0 < MaxRuns /\ \A r \in runs : r.id < MaxRuns
  /\ WalkRow
  /\ BehindTheCursor

LEMMA WalkInvInit == Init => WalkInv
  <1> SUFFICES ASSUME Init PROVE WalkInv
    OBVIOUS
  <1>1. TypeOK
    <2>1. now \in Time /\ 0 \in Time
      BY DEF Init, Time
    <2>2. /\ changed \in [Contracts -> Time] /\ stored \in [Contracts -> Time]
          /\ \A c \in Contracts : stored[c] <= changed[c] /\ changed[c] <= now
      BY <2>1 DEF Init
    <2>3. window \in Windows /\ window.from = 0 /\ window.to = 0
      BY <2>1 DEF Init, NoWindow, Windows
    <2>4. /\ run = 0 /\ after = 0 /\ faults = 0
          /\ 0 \in 0 .. MaxRuns /\ 0 \in 0 .. N /\ 0 \in 0 .. MaxFaults
          /\ lost \in Time /\ skipped \in Time /\ pc = "idle" /\ runs = {}
      BY <2>1 DEF Init
    <2>6. masked \in BOOLEAN
      BY DEF Init
    <2>5. 0 <= now
      BY <2>1 DEF Time
    <2> QED BY <2>1, <2>2, <2>3, <2>4, <2>5, <2>6 DEF TypeOK
  <1> QED BY <1>1 DEF Init, WalkInv, WalkRow, BehindTheCursor

(* An id names one row.                                                    *)
LEMMA RowOfId ==
  ASSUME TypeOK, NEW r \in runs PROVE Row(r.id) = r
  BY DEF TypeOK, Row

(* A row is rewritten in place.                                            *)
LEMMA RewrittenRow ==
  ASSUME TypeOK, NEW r \in runs, NEW x \in Runs, x.id = r.id,
         x.started <= x.progress, x.progress <= now
  PROVE  /\ WithRow(x) \subseteq Runs
         /\ \A q \in WithRow(x) : q = x \/ (q \in runs /\ q.id # r.id)
         /\ x \in WithRow(x)
         /\ \A q \in runs : q.id # r.id => q \in WithRow(x)
         /\ \A q \in WithRow(x) : q.started <= q.progress /\ q.progress <= now
         /\ \A q, p \in WithRow(x) : q.id = p.id => q = p
  BY DEF TypeOK, WithRow

LEMMA ClosedRow ==
  ASSUME TypeOK, NEW r \in runs, NEW s \in {"ok", "failed"}
  PROVE  \E x \in Runs : /\ CloseRow(r.id, s) = WithRow(x)
                         /\ x.id = r.id /\ x.started = r.started /\ x.progress = r.progress
                         /\ x.state = s
  <1> DEFINE x == [r EXCEPT !.state = s]
  <1>1. x \in Runs /\ x.id = r.id /\ x.started = r.started /\ x.progress = r.progress /\ x.state = s
    BY DEF TypeOK, Runs
  <1>2. CloseRow(r.id, s) = WithRow(x)
    BY RowOfId DEF CloseRow
  <1> QED BY <1>1, <1>2

(* A new row has an id no row has.                                         *)
LEMMA NewId ==
  ASSUME TypeOK
  PROVE  /\ NextId \in Nat \ {0} /\ \A r \in runs : r.id < NextId
         /\ NextId = 1 \/ \E r \in runs : NextId = r.id + 1
  <1> DEFINE S == {0} \cup {r.id : r \in runs}
  <1>1. MaxRuns \in Nat /\ S \in SUBSET (0 .. MaxRuns) /\ S # {}
    BY DEF TypeOK, Runs
  <1>2. \A r \in runs : r.id \in S
    OBVIOUS
  <1>3. Max(S) \in S /\ \A k \in S : k <= Max(S)
    <2> HIDE DEF S
    <2> QED BY <1>1, MaxIsGreatest
  <1>4. Max(S) \in Nat
    <2> HIDE DEF S
    <2>1. Max(S) \in 0 .. MaxRuns
      BY <1>1, <1>3
    <2> QED BY <2>1
  <1>5. NextId = 1 + Max(S) /\ (Max(S) = 0 \/ \E r \in runs : Max(S) = r.id)
    BY <1>3 DEF NextId
  <1> HIDE DEF S
  <1>6. \A r \in runs : r.id \in Nat
    BY DEF TypeOK, Runs
  <1> QED BY <1>2, <1>3, <1>4, <1>5, <1>6

LEMMA AddedRow ==
  ASSUME TypeOK, NEW x \in Runs, x.id = NextId, x.started <= x.progress, x.progress <= now
  PROVE  /\ runs \cup {x} \subseteq Runs
         /\ \A q \in runs \cup {x} : q.started <= q.progress /\ q.progress <= now
         /\ \A q, p \in runs \cup {x} : q.id = p.id => q = p
  <1>1. \A r \in runs : r.id # NextId
    <2> TAKE r \in runs
    <2>1. r.id \in Nat
      BY DEF TypeOK, Runs
    <2> QED BY <2>1, NewId
  <1> QED BY <1>1 DEF TypeOK

LEMMA NewRowOf ==
  ASSUME TypeOK, NextId <= MaxRuns
  PROVE  /\ NewRow \in Runs /\ NewRow.id = NextId /\ NewRow.started = now /\ NewRow.progress = now
         /\ NewRow.state = "open"
         /\ [NewRow EXCEPT !.state = "ok"] \in Runs
         /\ [NewRow EXCEPT !.state = "ok"].id = NextId
         /\ [NewRow EXCEPT !.state = "ok"].started = now
         /\ [NewRow EXCEPT !.state = "ok"].progress = now
         /\ [NewRow EXCEPT !.state = "ok"].state = "ok"
  <1>1. NewRow \in Runs /\ NewRow.id = NextId /\ NewRow.started = now /\ NewRow.progress = now
        /\ NewRow.state = "open"
    BY NewId DEF TypeOK, NewRow, Runs
  <1> QED BY <1>1 DEF Runs

-----------------------------------------------------------------------------
(* The window and the pages.                                               *)

LEMMA LastSuccessIs ==
  ASSUME TypeOK, Successes # {}
  PROVE  /\ LastSuccess \in Time
         /\ \E r \in Successes : LastSuccess = r.started
         /\ \A r \in Successes : r.started <= LastSuccess
  <1> DEFINE S == {r.started : r \in Successes}
  <1>1. MaxTime \in Nat /\ S \in SUBSET (0 .. MaxTime) /\ S # {}
    BY DEF TypeOK, Runs, Time, Successes
  <1>2. Max(S) \in S /\ \A k \in S : k <= Max(S)
    <2> HIDE DEF S
    <2> QED BY <1>1, MaxIsGreatest
  <1> QED BY <1>1, <1>2 DEF LastSuccess, Time

(* A window lies in the time, and begins at the margin before a success,   *)
(* or at zero, unless it is the first one or the ceiling cut it.           *)
LEMMA WindowAskedByHand ==
  ASSUME TypeOK, NEW d \in Days, AskByHand(d)
  PROVE  window' \in Windows /\ window'.from <= now /\ window'.to = now /\ window'.byHand
  BY DEF TypeOK, Time, AskByHand, Windows

LEMMA WindowAsked ==
  ASSUME TypeOK, Start <= now, \A r \in runs : Start <= r.started
  PROVE  /\ SyncWindowAt(now) \in Windows
         /\ SyncWindowAt(now).from <= now /\ SyncWindowAt(now).to = now
         /\ ~SyncWindowAt(now).byHand
         /\ \/ SyncWindowAt(now).clamped \/ Successes = {}
            \/ SyncWindowAt(now).from = 0
            \/ \E r \in Successes : SyncWindowAt(now).from + Margin <= r.started
  <1>1. now \in 0 .. MaxTime
    BY DEF TypeOK, Time
  <1>2. CASE Successes = {}
    BY <1>1, <1>2 DEF SyncWindowAt, Window, Windows, Time
  <1>3. CASE Successes # {}
    <2>1. PICK r \in Successes : LastSuccess = r.started
      BY <1>3, LastSuccessIs
    <2>2. r.started \in Nat /\ Start <= r.started /\ r.started <= now
      BY DEF TypeOK, Successes, Runs, Time
    <2> QED BY <1>1, <1>3, <2>1, <2>2 DEF SyncWindowAt, Window, Windows, NextFrom, Time
  <1> QED BY <1>2, <1>3

(* A page is a segment of what is to come that begins at the first of it.  *)
LEMMA PageIsASegment ==
  ASSUME TypeOK
  PROVE  /\ NextPage \subseteq ToCome
         /\ \A m \in NextPage, c \in ToCome : c <= m => c \in NextPage
         /\ ToCome # {} => NextPage # {}
  <1> DEFINE Lower(c) == {d \in ToCome : d < c}
  <1>1. ToCome \subseteq 1 .. N /\ ToCome \subseteq Nat
    BY DEF ToCome, Contracts
  <1>2. IsFiniteSet(ToCome)
    <2>1. IsFiniteSet(1 .. N)
      BY FS_Interval
    <2> QED BY <1>1, <2>1, FS_Subset
  <1>3. ASSUME NEW c \in ToCome PROVE IsFiniteSet(Lower(c)) /\ Cardinality(Lower(c)) \in Nat
    BY <1>2, FS_Subset, FS_CardinalityType
  <1>4. ASSUME NEW m \in NextPage, NEW c \in ToCome, c <= m PROVE c \in NextPage
    <2>1. m \in ToCome /\ Cardinality(Lower(m)) < PageSize
      BY DEF NextPage
    <2>2. Lower(c) \subseteq Lower(m)
      <3> SUFFICES ASSUME NEW d \in ToCome, d < c PROVE d < m
        OBVIOUS
      <3>1. d \in Nat /\ c \in Nat /\ m \in Nat
        BY <1>1, <2>1
      <3> QED BY <1>4, <3>1
    <2>3. Cardinality(Lower(c)) <= Cardinality(Lower(m))
      BY <1>3, <2>1, <2>2, FS_Subset
    <2>4. Cardinality(Lower(c)) < PageSize
      <3> HIDE DEF Lower
      <3> QED BY <1>3, <2>1, <2>3
    <2> QED BY <2>4 DEF NextPage
  <1>5. ASSUME ToCome # {} PROVE NextPage # {}
    <2>1. PICK m \in ToCome : \A k \in ToCome : m <= k
      BY <1>1, <1>5, LeastExists
    <2>2. Lower(m) = {}
      <3> SUFFICES ASSUME NEW d \in ToCome, d < m PROVE FALSE
        OBVIOUS
      <3>1. d \in Nat /\ m \in Nat /\ m <= d
        BY <1>1, <2>1
      <3> QED BY <3>1
    <2>3. Cardinality(Lower(m)) = 0
      BY <2>2, FS_EmptySet
    <2> QED BY <2>3 DEF NextPage
  <1> QED BY <1>4, <1>5 DEF NextPage

LEMMA PageBrings ==
  ASSUME TypeOK, ToCome # {}
  PROVE  /\ Max(NextPage) \in Contracts /\ Max(NextPage) \in ToCome
         /\ \A c \in Contracts : c <= Max(NextPage) /\ InWindow(c) => c <= after \/ c \in NextPage
  <1>1. N \in Nat /\ NextPage \in SUBSET (0 .. N) /\ NextPage # {}
    BY PageIsASegment DEF ToCome, Contracts
  <1>2. Max(NextPage) \in NextPage
    BY <1>1, MaxIsGreatest
  <1>3. Max(NextPage) \in ToCome
    BY <1>2, PageIsASegment
  <1>4. ASSUME NEW c \in Contracts, c <= Max(NextPage), InWindow(c), ~(c <= after)
        PROVE c \in NextPage
    <2>1. c \in ToCome
      BY <1>4 DEF ToCome, Contracts, TypeOK
    <2> QED BY <1>2, <1>4, <2>1, PageIsASegment
  <1> QED BY <1>3, <1>4 DEF ToCome

-----------------------------------------------------------------------------
(* The walk.                                                               *)

LEMMA TickKeeps ==
  ASSUME WalkInv, Tick PROVE WalkInv'
  <1> USE DEF Tick, WalkInv, TypeOK, Time, Windows
  <1>1. now' \in Time /\ now \in Nat /\ now' = now + 1
    OBVIOUS
  <1>2. /\ \A c \in Contracts : stored[c] <= changed[c] /\ changed[c] <= now'
        /\ \A r \in runs : r.started <= r.progress /\ r.progress <= now'
    BY <1>1 DEF Runs
  <1>3. window.from <= window.to /\ window.to <= now' /\ Start <= now'
    BY <1>1
  <1>4. TypeOK'
    BY <1>1, <1>2, <1>3
  <1>5. pc = "asked" => now' <= window.to + Stale
    BY <1>1
  <1>6. WalkRow'
    <2> SUFFICES ASSUME pc = "walking" PROVE WalkRow'
      BY DEF WalkRow
    <2>1. PICK r \in runs : /\ r.id = run /\ r.state = "open"
                            /\ window.to <= r.started /\ r.started <= window.to + Stale
      BY DEF WalkRow
    <2>2. Row(run) = r
      BY <2>1, RowOfId
    <2>3. r.progress \in Nat /\ now < r.progress + Stale
      BY <2>2 DEF Runs
    <2> QED BY <1>1, <2>1, <2>3 DEF WalkRow
  <1> QED BY <1>3, <1>4, <1>5, <1>6 DEF BehindTheCursor

LEMMA ChangeKeeps ==
  ASSUME WalkInv, NEW c \in Contracts, Change(c) PROVE WalkInv'
  <1>1. PICK t \in Time : /\ t <= now /\ now <= t + Skew /\ t > changed[c]
                          /\ changed' = [changed EXCEPT ![c] = t]
    BY DEF Change
  <1>2. now \in Nat /\ t \in Nat /\ window.to \in Nat /\ window.to <= now
    BY <1>1 DEF WalkInv, TypeOK, Time, Windows
  <1>3. /\ changed' \in [Contracts -> Time]
        /\ \A d \in Contracts : stored[d] <= changed'[d] /\ changed'[d] <= now
    <2>1. \A d \in Contracts : stored[d] \in Nat /\ changed[d] \in Nat /\ stored[d] <= changed[d]
                                /\ changed[d] <= now
      BY DEF WalkInv, TypeOK, Time
    <2> QED BY <1>1, <1>2, <2>1 DEF WalkInv, TypeOK
  <1>4. TypeOK'
    BY <1>3 DEF WalkInv, TypeOK, Change
  <1>5. BehindTheCursor'
    <2> SUFFICES ASSUME pc = "walking", NEW d \in Contracts, d <= after,
                        window.from <= changed'[d], changed'[d] + Skew < window.to
                 PROVE  stored[d] = changed'[d]
      BY DEF Change, BehindTheCursor
    <2>1. d # c
      BY <1>1, <1>2 DEF WalkInv, TypeOK
    <2>2. changed'[d] = changed[d]
      BY <1>1, <2>1 DEF WalkInv, TypeOK
    <2> QED BY <2>2 DEF WalkInv, BehindTheCursor
  <1> QED BY <1>4, <1>5 DEF WalkInv, WalkRow, Change

(* A row is closed; nothing else of the walk depends on it.                *)
LEMMA ClosingKeeps ==
  ASSUME WalkInv, NEW r \in runs, NEW s \in {"ok", "failed"}, runs' = CloseRow(r.id, s),
         UNCHANGED <<now, changed, stored>>
  PROVE  /\ runs' \subseteq Runs
         /\ \A q \in runs' : q.started <= q.progress /\ q.progress <= now'
         /\ \A q, p \in runs' : q.id = p.id => q = p
         /\ \A q \in runs' : Start <= q.started
         /\ \A q \in runs : q.id # r.id => q \in runs'
         /\ \A q \in runs' : \/ q \in runs /\ q.id # r.id
                             \/ q.id = r.id /\ q.state = s /\ q.started = r.started
  <1>1. TypeOK
    BY DEF WalkInv
  <1>2. PICK x \in Runs : /\ runs' = WithRow(x)
                          /\ x.id = r.id /\ x.started = r.started /\ x.progress = r.progress
                          /\ x.state = s
    BY <1>1, ClosedRow
  <1>3. x.started <= x.progress /\ x.progress <= now /\ Start <= x.started
    BY <1>1, <1>2 DEF WalkInv, TypeOK
  <1> QED BY <1>1, <1>2, <1>3, RewrittenRow DEF WalkInv

LEMMA ReapKeeps ==
  ASSUME WalkInv, NEW r \in runs, Reap(r) PROVE WalkInv'
  <1>1. runs' = CloseRow(r.id, "ok") /\ UNCHANGED <<now, changed, stored, pc, run, window, after>>
    BY DEF Reap
  <1>2. WalkRow'
    <2> SUFFICES ASSUME pc = "walking" PROVE WalkRow'
      BY <1>1 DEF WalkRow
    <2>1. PICK q \in runs : /\ q.id = run /\ q.state = "open"
                            /\ window.to <= q.started /\ q.started <= window.to + Stale
                            /\ now <= q.progress + Stale
      BY DEF WalkInv, WalkRow
    <2>2. q # r
      BY <2>1 DEF Reap, Live
    <2>3. q.id # r.id
      BY <2>2 DEF WalkInv, TypeOK
    <2> QED BY <1>1, <2>1, <2>3, ClosingKeeps DEF WalkRow
  <1>3. TypeOK'
    BY <1>1, <1>2, ClosingKeeps DEF WalkInv, TypeOK, Reap, WalkRow
  <1> QED BY <1>1, <1>2, <1>3, ClosingKeeps DEF WalkInv, BehindTheCursor

(* A window that ends now is asked for.                                    *)
LEMMA AskingKeeps ==
  ASSUME WalkInv, MayAsk, pc' = "asked", window' \in Windows, window'.from <= now, window'.to = now,
         lost' \in Time, UNCHANGED <<now, changed, stored, runs, run, after, faults, skipped, masked>>
  PROVE  WalkInv'
  <1>1. window'.from <= window'.to /\ window'.to <= now'
    BY DEF WalkInv, TypeOK, Time
  <1>2. pc' \in {"idle", "asked", "walking"} /\ pc' # "walking"
    OBVIOUS
  <1>3. TypeOK'
    BY <1>1, <1>2 DEF WalkInv, TypeOK
  <1>4. now \in Nat
    BY DEF WalkInv, TypeOK, Time
  <1>5. 0 < MaxRuns /\ \A r \in runs : r.id < MaxRuns
    <2>1. MaxRuns \in Nat /\ NextId <= MaxRuns /\ \A r \in runs : r.id \in Nat
      BY DEF WalkInv, TypeOK, Runs, MayAsk
    <2> QED BY <2>1, NewId DEF WalkInv
  <1> QED BY <1>3, <1>4, <1>5 DEF WalkInv, WalkRow, BehindTheCursor

LEMMA AskKeeps ==
  ASSUME WalkInv, Ask PROVE WalkInv'
  <1>1. window' = SyncWindowAt(now) /\ window' \in Windows /\ window'.from <= now /\ window'.to = now
    BY WindowAsked DEF WalkInv, Ask
  <1>2. lost' \in Time
    <2>1. MaxTime \in Nat /\ lost \in 0 .. MaxTime /\ window'.from \in 0 .. MaxTime
      BY <1>1 DEF WalkInv, TypeOK, Time, Windows
    <2>2. lost' = Max({lost, window'.from}) \/ lost' = lost
      BY DEF Ask
    <2> QED BY <2>1, <2>2, MaxOfTwo DEF Time
  <1> QED BY <1>1, <1>2, AskingKeeps DEF Ask

LEMMA AskByHandKeeps ==
  ASSUME WalkInv, NEW d \in Days, AskByHand(d) PROVE WalkInv'
  <1>1. lost' \in Time
    BY DEF WalkInv, TypeOK, AskByHand
  <1> QED BY <1>1, AskingKeeps, WindowAskedByHand DEF WalkInv, AskByHand

LEMMA InsertKeeps ==
  ASSUME WalkInv, Insert PROVE WalkInv'
  <1>0. NextId <= MaxRuns
    <2>1. MaxRuns \in Nat /\ \A r \in runs : r.id \in Nat /\ r.id < MaxRuns
      BY DEF WalkInv, TypeOK, Runs, Insert
    <2> QED BY <2>1, NewId DEF WalkInv, Insert
  <1>1. NewRow \in Runs /\ NewRow.id = NextId /\ NewRow.started = now /\ NewRow.progress = now
        /\ NewRow.state = "open"
    BY <1>0, NewRowOf DEF WalkInv
  <1>2. now \in Nat /\ window.to \in Nat /\ window.to <= now /\ now <= window.to + Stale
    BY DEF WalkInv, TypeOK, Time, Windows, Insert
  <1>3. TypeOK /\ NewRow.started <= NewRow.progress /\ NewRow.progress <= now
    BY <1>1, <1>2 DEF WalkInv
  <1> HIDE DEF NewRow
  <1>4. /\ runs' \subseteq Runs
        /\ \A q \in runs' : q.started <= q.progress /\ q.progress <= now
        /\ \A q, p \in runs' : q.id = p.id => q = p
    BY <1>1, <1>3, AddedRow DEF Insert
  <1>5. WalkRow'
    BY <1>1, <1>2 DEF Insert, WalkRow
  <1>6. NextId \in 0 .. MaxRuns
    BY <1>0, <1>3, NewId
  <1>7. TypeOK'
    BY <1>3, <1>4, <1>5, <1>6 DEF TypeOK, Insert, WalkRow
  <1>8. BehindTheCursor'
    <2>1. after' = 0 /\ \A c \in Contracts : ~(c <= 0)
      BY DEF Insert, Contracts
    <2> QED BY <2>1 DEF BehindTheCursor
  <1> QED BY <1>1, <1>2, <1>5, <1>7, <1>8 DEF WalkInv, Insert

LEMMA PageKeeps ==
  ASSUME WalkInv, Page PROVE WalkInv'
  <1>1. /\ TypeOK /\ pc = "walking" /\ ToCome # {} /\ runs' = WithRow([Row(run) EXCEPT !.progress = now])
        /\ stored' = [c \in Contracts |-> IF c \in NextPage THEN changed[c] ELSE stored[c]]
        /\ after' = Max(NextPage)
        /\ UNCHANGED <<now, changed, pc, run, window, faults, lost, skipped, masked>>
    BY DEF Page, WalkInv
  <1>2. PICK r \in runs : /\ r.id = run /\ r.state = "open"
                          /\ window.to <= r.started /\ r.started <= window.to + Stale
    BY <1>1 DEF WalkInv, WalkRow
  <1>3. Row(run) = r
    BY <1>1, <1>2, RowOfId
  <1> DEFINE x == [r EXCEPT !.progress = now]
  <1>4. x \in Runs /\ x.id = r.id /\ x.started = r.started /\ x.progress = now /\ x.state = "open"
    BY <1>1, <1>2 DEF TypeOK, Runs
  <1>5. now \in Nat /\ r.started \in Nat /\ r.progress \in Nat /\ r.started <= now
    BY <1>1 DEF TypeOK, Runs, Time
  <1>6. runs' = WithRow(x) /\ x.started <= x.progress /\ x.progress <= now
    BY <1>1, <1>3, <1>4, <1>5
  <1> HIDE DEF x
  <1>7. /\ runs' \subseteq Runs
        /\ \A q \in runs' : q.started <= q.progress /\ q.progress <= now
        /\ \A q, p \in runs' : q.id = p.id => q = p
        /\ \A q \in runs' : Start <= q.started
        /\ x \in runs'
    BY <1>1, <1>4, <1>6, RewrittenRow DEF WalkInv
  <1>8. WalkRow'
    BY <1>1, <1>2, <1>4, <1>5, <1>7 DEF WalkRow
  <1>9. stored' \in [Contracts -> Time] /\ \A c \in Contracts : stored'[c] <= changed[c]
    <2>1. \A c \in Contracts : changed[c] \in Nat
      BY <1>1 DEF TypeOK, Time
    <2> QED BY <1>1, <2>1 DEF TypeOK
  <1>10. after' \in 0 .. N
    BY <1>1, PageBrings DEF Contracts
  <1>11. TypeOK'
    BY <1>1, <1>7, <1>8, <1>9, <1>10 DEF TypeOK, WalkRow
  <1>12. BehindTheCursor'
    <2> SUFFICES ASSUME NEW c \in Contracts, c <= Max(NextPage),
                        window.from <= changed[c], changed[c] + Skew < window.to
                 PROVE  stored'[c] = changed[c]
      BY <1>1 DEF BehindTheCursor
    <2>1. InWindow(c)
      BY <1>1 DEF InWindow, TypeOK, Time, Windows
    <2>2. c <= after \/ c \in NextPage
      BY <1>1, <2>1, PageBrings
    <2> QED BY <1>1, <2>2 DEF WalkInv, BehindTheCursor
  <1> QED BY <1>1, <1>7, <1>8, <1>11, <1>12 DEF WalkInv

LEMMA CloseKeeps ==
  ASSUME WalkInv, NEW s \in {"ok", "failed"}, Close(s),
         faults' \in 0 .. MaxFaults, masked' \in BOOLEAN, skipped' \in Time
  PROVE  WalkInv'
  <1>1. PICK r \in runs : r.id = run
    BY DEF WalkInv, WalkRow, Close
  <1>2. /\ runs' = CloseRow(r.id, s) /\ pc' = "idle" /\ run' = 0 /\ window' = NoWindow /\ after' = 0
        /\ UNCHANGED <<now, changed, stored, lost>>
    BY <1>1 DEF Close, Leaves
  <1>3. window' \in Windows /\ window'.from <= window'.to
        /\ window'.to <= now
    BY <1>2 DEF NoWindow, Windows, WalkInv, TypeOK, Time
  <1>4. run' \in 0 .. MaxRuns /\ after' \in 0 .. N
    BY <1>2
  <1>5. TypeOK'
    BY <1>2, <1>3, <1>4, ClosingKeeps DEF WalkInv, TypeOK
  <1> QED BY <1>2, <1>5, ClosingKeeps DEF WalkInv, WalkRow, BehindTheCursor

LEMMA DiesKeeps ==
  ASSUME WalkInv, Dies PROVE WalkInv'
  <1>1. /\ pc' = "idle" /\ run' = 0 /\ window' = NoWindow /\ after' = 0
        /\ UNCHANGED <<now, changed, stored, runs, lost, skipped, masked>> /\ faults' \in 0 .. MaxFaults
    BY DEF Dies, Leaves, Fault, WalkInv, TypeOK
  <1>3. window' \in Windows /\ window'.from <= window'.to
        /\ window'.to <= now
    BY <1>1 DEF NoWindow, Windows, WalkInv, TypeOK, Time
  <1>4. run' \in 0 .. MaxRuns /\ after' \in 0 .. N
    BY <1>1
  <1>5. TypeOK'
    BY <1>1, <1>3, <1>4 DEF WalkInv, TypeOK
  <1> QED BY <1>1, <1>5 DEF WalkInv, WalkRow, BehindTheCursor

LEMMA YieldingDuplicateKeeps ==
  ASSUME WalkInv, YieldingDuplicate PROVE WalkInv'
  <1> DEFINE x == [NewRow EXCEPT !.state = "ok"]
  <1>1. TypeOK /\ x \in Runs /\ x.id = NextId /\ x.started = now /\ x.progress = now
    BY NewRowOf DEF WalkInv, YieldingDuplicate
  <1>2. runs' = runs \cup {x} /\ now \in Nat /\ x.started <= x.progress /\ x.progress <= now
    BY <1>1 DEF TypeOK, Time, YieldingDuplicate
  <1> HIDE DEF x
  <1>3. /\ runs' \subseteq Runs
        /\ \A q \in runs' : q.started <= q.progress /\ q.progress <= now
        /\ \A q, p \in runs' : q.id = p.id => q = p
    BY <1>1, <1>2, AddedRow
  <1>4. WalkRow'
    BY <1>2 DEF WalkInv, WalkRow, YieldingDuplicate
  <1>5. faults' \in 0 .. MaxFaults
    BY <1>1 DEF YieldingDuplicate, Fault, TypeOK
  <1>6. TypeOK'
    BY <1>1, <1>3, <1>4, <1>5 DEF TypeOK, YieldingDuplicate, WalkRow
  <1>7. \A q \in runs' : Start <= q.started
    BY <1>1, <1>2 DEF WalkInv
  <1> QED BY <1>4, <1>6, <1>7 DEF WalkInv, BehindTheCursor, YieldingDuplicate

LEMMA WalkInvStep ==
  ASSUME WalkInv, [Next]_vars PROVE WalkInv'
  <1>1. TypeOK
    BY DEF WalkInv
  <1>2. CASE Done
    <2>1. faults' \in 0 .. MaxFaults /\ masked' \in BOOLEAN
      BY <1>1, <1>2 DEF Done, TypeOK
    <2>2. skipped' \in Time
      <3>1. MaxTime \in Nat /\ skipped \in 0 .. MaxTime /\ window.from \in 0 .. MaxTime
        BY <1>1 DEF TypeOK, Time, Windows
      <3>2. skipped' = Max({skipped, window.from}) \/ skipped' = skipped
        BY <1>2 DEF Done
      <3> QED BY <3>1, <3>2, MaxOfTwo DEF Time
    <2> QED BY <1>2, <2>1, <2>2, CloseKeeps DEF Done
  <1>3. CASE OwsFails
    <2>1. faults' \in 0 .. MaxFaults /\ masked' \in BOOLEAN /\ skipped' \in Time
      BY <1>1, <1>3 DEF OwsFails, TypeOK, Fault
    <2> QED BY <1>3, <2>1, CloseKeeps DEF OwsFails
  <1>4. CASE OtherFails
    <2>1. faults' \in 0 .. MaxFaults
      BY <1>1, <1>4 DEF OtherFails, TypeOK, Fault
    <2>2. masked' \in BOOLEAN /\ skipped' \in Time
      BY <1>1, <1>4 DEF OtherFails, TypeOK
    <2> QED BY <1>4, <2>1, <2>2, CloseKeeps DEF OtherFails
  <1>5. CASE UNCHANGED vars
    BY <1>5 DEF vars, WalkInv, TypeOK, WalkRow, BehindTheCursor
  <1> QED BY <1>2, <1>3, <1>4, <1>5, TickKeeps, ChangeKeeps, ReapKeeps, AskKeeps,
             AskByHandKeeps, InsertKeeps,
             PageKeeps, DiesKeeps, YieldingDuplicateKeeps DEF Next

(* The variables of the window and its walk keep their types; a window lies *)
(* between time zero and the ceiling.                                       *)
THEOREM TypeCorrect == Spec => []TypeOK
  <1>1. WalkInv => TypeOK
    BY DEF WalkInv
  <1> QED BY <1>1, WalkInvInit, WalkInvStep, PTL DEF Spec

(* When nothing is to come, what was in the window is stored.              *)
LEMMA WindowIsStored ==
  ASSUME WalkInv, pc = "walking", ToCome = {}, NEW c \in Contracts,
         window.from <= changed[c], changed[c] + Skew < window.to
  PROVE  stored[c] = changed[c]
  <1>1. c \in Nat /\ after \in Nat /\ changed[c] \in Nat /\ window.to \in Nat
    BY DEF WalkInv, TypeOK, Contracts, Time, Windows
  <1>2. InWindow(c)
    BY <1>1 DEF InWindow
  <1>3. c <= after
    BY <1>1, <1>2 DEF ToCome
  <1> QED BY <1>3 DEF WalkInv, BehindTheCursor

(* A walk that comes to the end of the source without a fault has brought   *)
(* every contract that was in its window and still is, whatever changed     *)
(* under its pages (incremental.py:3-4), for every page size.               *)
THEOREM WalkBringsItsWindow == Spec => WalkIsComplete
  <1> DEFINE Complete ==
        pc = "walking" /\ pc' = "idle" /\ faults' = faults =>
          \A c \in Contracts : window.from <= changed[c] /\ changed[c] + Skew < window.to
                                 => stored[c] = changed[c]
  <1>1. ASSUME WalkInv, [Next]_vars PROVE Complete
    <2> SUFFICES ASSUME pc = "walking", pc' = "idle", faults' = faults, ~Done PROVE FALSE
      BY <1>1, WindowIsStored DEF Done, Close
    <2>1. faults \in Nat
      BY <1>1 DEF WalkInv, TypeOK
    <2> QED BY <1>1, <2>1 DEF Next, vars, Tick, Change, Reap, Ask, AskByHand, Insert, Page, OwsFails, OtherFails,
                              Dies, YieldingDuplicate, Fault
  <1>2. Spec => [][Complete]_vars
    BY <1>1, WalkInvInit, WalkInvStep, PTL DEF Spec
  <1> QED BY <1>2 DEF WalkIsComplete

-----------------------------------------------------------------------------
(* The window of the next run.                                             *)

(* The margin absorbs the clock of the source and the time between the end *)
(* of a window and the start of its run.                                   *)
MarginIsEnough == Skew + Stale <= Margin

(* A change from before the margin of a success is stored, unless it was   *)
(* given up or leapt over.                                                 *)
Due(c) == lost <= changed[c] /\ skipped <= changed[c]

Kept ==
  \A r \in Successes, c \in Contracts :
    Due(c) /\ changed[c] + Margin < r.started => stored[c] = changed[c]

(* What lies before the window was given up, or is before such a margin;   *)
(* a window by hand is judged when its run is closed.                      *)
WindowBegins ==
  pc # "idle" => \/ window.byHand
                 \/ window.from <= lost \/ window.from = 0
                 \/ \E r \in Successes : window.from + Margin <= r.started

WindowInv == WalkInv /\ (~masked => Kept /\ WindowBegins)

(* A failed close and a death add no success.                              *)
LEMMA NoSuccessIsAdded ==
  ASSUME WindowInv, ~masked, ~masked', UNCHANGED <<changed, stored, lost, skipped>>, Successes' = Successes,
         pc' = "idle" \/ UNCHANGED <<pc, window>> \/ (pc # "idle" /\ UNCHANGED window)
  PROVE  Kept' /\ WindowBegins'
  BY DEF WindowInv, Kept, Due, WindowBegins

LEMMA WindowInvStep ==
  ASSUME MarginIsEnough, WindowInv, [Next]_vars PROVE WindowInv'
  <1>1. WalkInv' /\ TypeOK
    BY WalkInvStep DEF WindowInv, WalkInv
  <1> SUFFICES ASSUME ~masked' PROVE Kept' /\ WindowBegins'
    BY <1>1 DEF WindowInv
  <1>2. ~masked
    BY DEF Next, vars, Tick, Change, Reap, Ask, AskByHand, Insert, Page, Done, Close, OwsFails, OtherFails, Dies,
           YieldingDuplicate
  <1>3. now \in Nat /\ lost \in Nat /\ skipped \in Nat /\ \A c \in Contracts : changed[c] \in Nat
    BY <1>1 DEF TypeOK, Time
  <1>4. \A r \in runs : r.started \in Nat /\ r.started <= now
    <2> TAKE r \in runs
    <2>1. r.started \in Nat /\ r.progress \in Nat /\ r.started <= r.progress /\ r.progress <= now
      BY <1>1 DEF TypeOK, Runs, Time
    <2> QED BY <1>3, <2>1
  <1>5. CASE Tick \/ UNCHANGED vars
    BY <1>2, <1>5, NoSuccessIsAdded DEF Tick, vars, Successes
  <1>6. ASSUME NEW c \in Contracts, Change(c) PROVE Kept' /\ WindowBegins'
    <2>0. PICK t \in Time : now <= t + Skew /\ changed' = [changed EXCEPT ![c] = t]
      BY <1>6 DEF Change
    <2>1. t \in Nat /\ now <= t + Skew /\ changed' = [changed EXCEPT ![c] = t]
      BY <2>0 DEF Time
    <2>2. ASSUME NEW r \in Successes, t + Margin < r.started PROVE FALSE
      BY <1>3, <1>4, <2>1, <2>2 DEF Successes, MarginIsEnough
    <2> QED BY <1>2, <1>6, <2>1, <2>2 DEF Change, Kept, Due, WindowBegins, WindowInv, Successes, WalkInv, TypeOK
  <1>7. CASE Ask
    <2>1. Kept'
      <3>1. MaxTime \in Nat /\ lost \in 0 .. MaxTime /\ window'.from \in 0 .. MaxTime
        BY <1>1 DEF WalkInv, TypeOK, Time, Windows
      <3>2. lost' = Max({lost, window'.from}) \/ lost' = lost
        BY <1>7 DEF Ask
      <3>3. lost <= lost' /\ lost' \in Nat
        BY <3>1, <3>2, MaxOfTwo
      <3> QED BY <1>2, <1>3, <1>7, <3>3 DEF Ask, Kept, Due, Successes, WindowInv
    <2>2. WindowBegins'
      <3>1. CASE window'.clamped \/ Successes = {}
        <4>1. MaxTime \in Nat /\ lost \in 0 .. MaxTime /\ window'.from \in 0 .. MaxTime
          BY <1>1 DEF WalkInv, TypeOK, Time, Windows
        <4>2. window'.from <= lost'
          BY <1>7, <3>1, <4>1, MaxOfTwo DEF Ask
        <4> QED BY <4>2 DEF WindowBegins
      <3>2. CASE ~(window'.clamped \/ Successes = {})
        <4>1. window' = SyncWindowAt(now) /\ Successes' = Successes
          BY <1>7 DEF Ask, Successes
        <4>2. \/ window'.from = 0
              \/ \E r \in Successes : window'.from + Margin <= r.started
          BY <3>2, <4>1, WindowAsked DEF WindowInv, WalkInv
        <4> QED BY <4>1, <4>2 DEF WindowBegins
      <3> QED BY <3>1, <3>2
    <2> QED BY <2>1, <2>2
  <1>15. ASSUME NEW d \in Days, AskByHand(d) PROVE Kept' /\ WindowBegins'
    <2>1. window'.byHand
      BY <1>1, <1>15, WindowAskedByHand
    <2> QED BY <1>2, <1>15, <2>1 DEF AskByHand, Kept, Due, WindowBegins, WindowInv, Successes
  <1>8. CASE Insert
    <2>1. Successes' = Successes
      BY <1>8 DEF Insert, NewRow, Successes
    <2> QED BY <1>2, <1>8, <2>1, NoSuccessIsAdded DEF Insert
  <1>9. CASE Page
    <2>1. PICK r \in runs : r.id = run /\ r.state = "open"
      BY <1>9 DEF WindowInv, WalkInv, WalkRow, Page
    <2>2. Row(run) = r
      BY <1>1, <2>1, RowOfId
    <2>3. [r EXCEPT !.progress = now].state = "open" /\ [r EXCEPT !.progress = now].id = r.id
      BY <1>1, <2>1 DEF TypeOK, Runs
    <2>4. runs' = WithRow([r EXCEPT !.progress = now])
      BY <1>9, <2>2 DEF Page
    <2>5. Successes' = Successes
      BY <1>1, <2>1, <2>3, <2>4 DEF Successes, WithRow, TypeOK
    <2>6. \A c \in Contracts : stored[c] = changed[c] => stored'[c] = changed[c]
      BY <1>9 DEF Page
    <2> QED BY <1>2, <1>9, <2>5, <2>6 DEF Page, Kept, Due, WindowBegins, WindowInv
  <1>10. ASSUME NEW s \in {"ok", "failed"}, Close(s)
         PROVE  \E r \in runs, x \in Runs :
                  /\ r.id = run /\ r.state = "open"
                  /\ r.started <= window.to + Stale
                  /\ runs' = WithRow(x) /\ x.id = r.id /\ x.started = r.started /\ x.state = s
    <2>1. PICK r \in runs : r.id = run /\ r.state = "open" /\ r.started <= window.to + Stale
      BY <1>10 DEF WindowInv, WalkInv, WalkRow, Close
    <2>2. runs' = CloseRow(r.id, s)
      BY <1>10, <2>1 DEF Close
    <2> QED BY <1>1, <2>1, <2>2, ClosedRow
  <1>11. CASE OwsFails
    <2>1. Close("failed")
      BY <1>11 DEF OwsFails
    <2>2. Successes' = Successes
      BY <1>1, <1>10, <2>1 DEF Successes, WithRow, TypeOK
    <2> QED BY <1>2, <1>11, <2>1, <2>2, NoSuccessIsAdded DEF Close, Leaves, OwsFails
  <1>12. CASE Done
    <2>1. Close("ok") /\ ToCome = {} /\ pc = "walking"
      BY <1>12 DEF Done, Close
    <2>2. PICK r \in runs, x \in Runs :
                  /\ r.id = run /\ r.state = "open"
                  /\ r.started <= window.to + Stale
                  /\ runs' = WithRow(x) /\ x.id = r.id /\ x.started = r.started /\ x.state = "ok"
      BY <1>10, <2>1
    <2>3. Successes' = Successes \cup {x}
      BY <1>1, <2>2 DEF Successes, WithRow, TypeOK
    <2>4. skipped <= skipped' /\ skipped' \in Nat /\ (Leaps => window.from <= skipped')
      <3>1. MaxTime \in Nat /\ skipped \in 0 .. MaxTime /\ window.from \in 0 .. MaxTime
        BY <1>1 DEF TypeOK, Time, Windows
      <3>2. \/ skipped' = Max({skipped, window.from})
            \/ skipped' = skipped /\ ~Leaps
        BY <1>12 DEF Done
      <3> QED BY <3>1, <3>2, MaxOfTwo
    <2>5. \A c \in Contracts : Due(c)' => Due(c) /\ skipped' <= changed[c]
      BY <1>3, <2>1, <2>4 DEF Due, Close
    <2>6. ASSUME NEW c \in Contracts, Due(c), skipped' <= changed[c], changed[c] + Margin < x.started
          PROVE  stored[c] = changed[c]
      <3>1. /\ window.to \in Nat /\ window.from \in Nat /\ changed[c] \in Nat /\ x.started \in Nat
            /\ x.started <= window.to + Stale
        BY <1>1, <1>3, <1>4, <2>2 DEF TypeOK, Time, Windows
      <3>2. CASE window.from <= changed[c]
        <4>1. changed[c] + Skew < window.to
          BY <2>6, <3>1 DEF MarginIsEnough
        <4> QED BY <2>1, <3>2, <4>1, WindowIsStored DEF WindowInv
      <3>3. CASE ~(window.from <= changed[c])
        <4>1. ~(window.from <= lost) /\ window.from # 0 /\ ~Leaps
          BY <1>3, <2>4, <2>6, <3>1, <3>3 DEF Due
        <4>2. PICK q \in Successes : window.from + Margin <= q.started
          <5>1. CASE window.byHand
            <6>1. Successes # {} /\ ~(window.from > NextFrom)
              BY <4>1, <5>1 DEF Leaps
            <6>2. PICK q \in Successes : LastSuccess = q.started
              BY <1>1, <6>1, LastSuccessIs
            <6>3. q.started \in Nat
              BY <1>4 DEF Successes
            <6>4. window.from + Margin <= q.started
              BY <3>1, <4>1, <6>1, <6>2, <6>3 DEF NextFrom
            <6> QED BY <6>4
          <5>2. CASE ~window.byHand
            BY <1>2, <2>1, <4>1, <5>2 DEF WindowInv, WindowBegins
          <5> QED BY <5>1, <5>2
        <4>3. q.started \in Nat
          BY <1>4 DEF Successes
        <4>4. changed[c] + Margin < q.started
          BY <3>1, <3>3, <4>2, <4>3
        <4> QED BY <1>2, <2>6, <4>4 DEF WindowInv, Kept
      <3> QED BY <3>2, <3>3
    <2>7. pc' = "idle" /\ UNCHANGED <<changed, stored, lost>>
      BY <2>1 DEF Close, Leaves
    <2>8. WindowBegins'
      BY <2>7 DEF WindowBegins
    <2>9. ASSUME NEW r_ \in Successes', NEW c \in Contracts, Due(c)', changed'[c] + Margin < r_.started
          PROVE  stored'[c] = changed'[c]
      <3>1. Due(c) /\ skipped' <= changed[c] /\ changed[c] + Margin < r_.started
        BY <2>5, <2>7, <2>9
      <3>2. CASE r_ = x
        BY <2>6, <2>7, <3>1, <3>2
      <3>3. CASE r_ \in Successes
        BY <1>2, <2>7, <3>1, <3>3 DEF WindowInv, Kept
      <3> QED BY <2>3, <2>9, <3>2, <3>3
    <2> QED BY <2>8, <2>9 DEF Kept
  <1>13. CASE Dies
    <2>1. Successes' = Successes
      BY <1>13 DEF Dies, Successes
    <2> QED BY <1>2, <1>13, <2>1, NoSuccessIsAdded DEF Dies, Leaves
  <1>14. ~OtherFails /\ ~YieldingDuplicate /\ \A r \in runs : ~Reap(r)
    BY DEF OtherFails, YieldingDuplicate, Reap
  <1> QED BY <1>5, <1>6, <1>7, <1>8, <1>9, <1>11, <1>12, <1>13, <1>14, <1>15 DEF Next

LEMMA NothingKeptFallsBehind ==
  ASSUME WindowInv PROVE CountedFailuresLoseNothing
  <1> SUFFICES ASSUME ~masked, Successes # {}, NEW c \in Contracts,
                      lost <= changed[c], changed[c] < NextFrom, skipped <= changed[c]
               PROVE  stored[c] = changed[c]
    BY DEF CountedFailuresLoseNothing, Behind
  <1>1. PICK r \in Successes : LastSuccess = r.started
    BY LastSuccessIs DEF WindowInv, WalkInv
  <1>2. r.started \in Nat /\ changed[c] \in Nat
    BY DEF WindowInv, WalkInv, TypeOK, Runs, Time, Successes
  <1>3. changed[c] + Margin < r.started
    BY <1>1, <1>2 DEF NextFrom
  <1> QED BY <1>3 DEF WindowInv, Kept, Due

(* A change that no later window will ask for is in the table, as long as   *)
(* only failures of OWS end a run (incremental.py:3-4, actors.py:238-239)   *)
(* and unless a success by hand leapt over it (actors.py:250-253), for any  *)
(* number of runs, contracts and faults and any days_back, provided that    *)
(* the margin absorbs the clock of the source and the start of the run.     *)
THEOREM NothingCountedIsLost == MarginIsEnough /\ Spec => []CountedFailuresLoseNothing
  <1> SUFFICES ASSUME MarginIsEnough PROVE Spec => []CountedFailuresLoseNothing
    OBVIOUS
  <1>1. Init => WindowInv
    <2> SUFFICES ASSUME Init PROVE WindowInv
      OBVIOUS
    <2>1. Kept /\ WindowBegins
      BY DEF Init, Kept, WindowBegins, Successes
    <2> QED BY <2>1, WalkInvInit DEF WindowInv
  <1>2. WindowInv /\ [Next]_vars => WindowInv'
    BY WindowInvStep
  <1> QED BY <1>1, <1>2, NothingKeptFallsBehind, PTL DEF Spec
=============================================================================
