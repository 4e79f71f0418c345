------------------------------ MODULE PlanSync ------------------------------
(***************************************************************************)
(* The procurement plan: the OWS source, where an edit of a plan point is  *)
(* a new version with a greater id and the same root, and the writers that *)
(* copy it into plan_points (jobs/plans.py): the daily incremental walk of *)
(* plans_sync_actor, which stops at its watermark max(point_id), and the   *)
(* backfill of "cli plans-sync --full", which does not.  Both walk the ids *)
(* downwards, page by page, and commit page by page.                       *)
(***************************************************************************)
EXTENDS Naturals, Sequences, FiniteSetsExt

CONSTANTS
  Roots,      \* plan points
  Writers,    \* who runs: a subset of {"daily", "backfill"}
  NoResume,   \* whether the backfill is also run with --no-resume
  Published,  \* versions the source has at the start
  Loaded,     \* whether plan_points holds them
  MaxId,      \* bound: versions the source publishes
  PageSize,   \* items of a page, and of a commit (200 in the code)
  MaxPages,   \* INCREMENTAL_MAX_PAGES
  MaxFailures \* bound: walks cut short by OwsApiError or by a death

ASSUME PlanAssumption ==
  /\ Roots # {}
  /\ Writers \subseteq {"daily", "backfill"}
  /\ NoResume \in BOOLEAN /\ Loaded \in BOOLEAN
  /\ MaxId \in Nat \ {0}
  /\ Published \in 0 .. MaxId
  /\ PageSize \in Nat \ {0}
  /\ MaxPages \in Nat \ {0}
  /\ MaxFailures \in Nat

VARIABLES
  source,   \* the root of version i is source[i]
  stored,   \* PlanPoint.point_id by root_id, 0: no row
  pc,       \* where the walk of each writer is
  cursor,   \* the walk: stop_at_id, the ids still to be fetched, pages so far
  page,     \* items of the page not yet seen
  staged,   \* the session: versions to be written by the next commit, 0: none
  inserts,  \* the session: the staged versions that are new rows
  clash,    \* the session: a row was added twice
  failures, \* walks cut short so far
  trouble   \* auxiliary: what went wrong so far in some walk

session == <<staged, inserts, clash>>
vars == <<source, stored, pc, cursor, page, session, failures, trouble>>

Ids == 1 .. MaxId

Troubles == {"cut", "capped", "rolledBack"}

(* Ids below "after" are still to be fetched; last: no page follows.       *)
Cursor == [stop : 0 .. MaxId, after : 1 .. MaxId + 1, pages : Nat, last : BOOLEAN]

TypeOK ==
  /\ source \in Seq(Roots) /\ Len(source) <= MaxId
  /\ stored \in [Roots -> 0 .. MaxId]
  /\ \A r \in Roots : stored[r] # 0 =>
       stored[r] <= Len(source) /\ source[stored[r]] = r
  /\ pc \in [Writers -> {"idle", "fetch", "page", "commit"}]
  /\ cursor \in [Writers -> Cursor]
  /\ page \in [Writers -> SUBSET Ids]
  /\ staged \in [Writers -> [Roots -> 0 .. MaxId]]
  /\ inserts \in [Writers -> SUBSET Roots]
  /\ clash \in [Writers -> BOOLEAN]
  /\ failures \in 0 .. MaxFailures
  /\ trouble \subseteq Troubles

Newest(r) == Max({0} \cup {i \in DOMAIN source : source[i] = r})

NoneStaged == [r \in Roots |-> 0]

(* The source has n versions, and the plan is loaded as far as it is       *)
(* published, or not at all.                                               *)
InitWith(n, loaded) ==
  /\ source \in [1 .. n -> Roots]
  /\ stored = [r \in Roots |-> IF loaded THEN Newest(r) ELSE 0]
  /\ pc = [w \in Writers |-> "idle"]
  /\ cursor = [w \in Writers |-> [stop |-> 0, after |-> 1, pages |-> 0, last |-> FALSE]]
  /\ page = [w \in Writers |-> {}]
  /\ staged = [w \in Writers |-> NoneStaged]
  /\ inserts = [w \in Writers |-> {}]
  /\ clash = [w \in Writers |-> FALSE]
  /\ failures = 0
  /\ trouble = {}

Init == InitWith(Published, Loaded)

-----------------------------------------------------------------------------
(* External: the customer adds a point to the plan, or edits one.          *)
Publish(r) ==
  /\ Len(source) < MaxId
  /\ source' = Append(source, r)
  /\ UNCHANGED <<stored, pc, cursor, page, session, failures, trouble>>

(* plan_watermark: max(point_id).                                          *)
Watermark == Max({stored[r] : r \in Roots})

(* backfill_after: min(point_id), the top of the source when the table is  *)
(* empty.                                                                  *)
BackfillAfter == Min({MaxId + 1} \cup {stored[r] : r \in {q \in Roots : stored[q] # 0}})

Starts(w, stop, after) ==
  /\ w \in Writers
  /\ pc[w] = "idle"
  /\ pc' = [pc EXCEPT ![w] = "fetch"]
  /\ cursor' = [cursor EXCEPT ![w] =
                  [stop |-> stop, after |-> after, pages |-> 0, last |-> FALSE]]
  /\ UNCHANGED <<source, stored, page, session, failures, trouble>>

(* plans_sync_actor: a second one leaves (_skip_duplicate).                *)
DailyStart == Starts("daily", Watermark, MaxId + 1)

(* --resume, or --no-resume from the top.                                  *)
BackfillStart ==
  \E after \in {BackfillAfter, MaxId + 1} :
    /\ after = BackfillAfter \/ NoResume
    /\ Starts("backfill", 0, after)

Below(n) == {i \in DOMAIN source : i < n}

(* Mutant: the cursor is taken for the first item of the next page.        *)
NextPageSkips(n) ==
  {i \in Below(n) : Cardinality({j \in Below(n) : j > i}) \in 1 .. PageSize}

(* The first page of iter_graphql below the cursor.                        *)
NextPage(n) ==
  {i \in Below(n) : Cardinality({j \in Below(n) : j > i}) < PageSize}

(* The next page of iter_graphql.  It is the last if nothing is below it,  *)
(* or if the cap is reached (the backfill has none).                       *)
Fetch(w) ==
  LET c    == cursor[w]
      new  == NextPage(c.after)
      rest == Below(c.after) \ new
      cut  == w = "daily" /\ c.pages + 1 >= MaxPages
  IN
  /\ pc[w] = "fetch"
  /\ pc' = [pc EXCEPT ![w] = "page"]
  /\ page' = [page EXCEPT ![w] = new]
  /\ cursor' = [cursor EXCEPT ![w] =
                  [stop  |-> c.stop,
                   after |-> IF new = {} THEN c.after ELSE Min(new),
                   pages |-> c.pages + 1,
                   last  |-> rest = {} \/ cut]]
  /\ trouble' = IF cut /\ \E i \in rest : i > c.stop
                   THEN trouble \cup {"capped"} ELSE trouble
  /\ UNCHANGED <<source, stored, session, failures>>

(* session.get sees the row as it is in the database, or as this session   *)
(* changed it; it does not see a row this session only added.              *)
Seen(w, r) ==
  IF r \in inserts[w] \/ staged[w][r] = 0 THEN stored[r] ELSE staged[w][r]

Handle(w, i) ==
  /\ pc[w] = "page"
  /\ page[w] # {}
  /\ i > cursor[w].stop
  /\ page' = [page EXCEPT ![w] = @ \ {i}]
  /\ UNCHANGED <<source, stored, pc, cursor, failures, trouble>>

(* Mutant: a version is taken although a newer one is stored.              *)
UpsertAnyVersion(w) ==
  LET i == Max(page[w]) IN
  /\ Handle(w, i)
  /\ staged' = [staged EXCEPT ![w][source[i]] = i]
  /\ UNCHANGED <<inserts, clash>>

(* upsert_plan_point for the next item of the page.                        *)
Upsert(w) ==
  LET i == Max(page[w])
      r == source[i]
  IN
  /\ Handle(w, i)
  /\ IF Seen(w, r) < i
       THEN staged' = [staged EXCEPT ![w][r] = i]
       ELSE UNCHANGED staged
  /\ IF Seen(w, r) = 0
       THEN /\ inserts' = [inserts EXCEPT ![w] = @ \cup {r}]
            /\ clash' = [clash EXCEPT ![w] = @ \/ r \in inserts[w]]
       ELSE UNCHANGED <<inserts, clash>>

PageEnds(w) ==
  /\ pc[w] = "page"
  /\ pc' = [pc EXCEPT ![w] = "commit"]
  /\ page' = [page EXCEPT ![w] = {}]
  /\ cursor' = [cursor EXCEPT ![w].last = @ \/ page[w] # {}]
  /\ UNCHANGED <<source, stored, session, failures, trouble>>

(* Mutant: the walk stops one item above the watermark.                    *)
ReachStopEarly(w) ==
  /\ page[w] # {} => Max(page[w]) <= cursor[w].stop + 1
  /\ PageEnds(w)

(* The page is finished, or an item not newer than the watermark ends the  *)
(* walk.                                                                   *)
ReachStop(w) ==
  /\ page[w] # {} => Max(page[w]) <= cursor[w].stop
  /\ PageEnds(w)

(* An inserted root_id is in the table already, or is inserted twice.      *)
Conflict(w) ==
  \/ clash[w]
  \/ \E r \in inserts[w] : stored[r] # 0

NewSession(w) ==
  /\ staged' = [staged EXCEPT ![w] = NoneStaged]
  /\ inserts' = [inserts EXCEPT ![w] = {}]
  /\ clash' = [clash EXCEPT ![w] = FALSE]

(* _commit: an IntegrityError rolls the page back and the walk goes on; an *)
(* update writes the staged version whatever the row holds by now.         *)
Commit(w) ==
  /\ pc[w] = "commit"
  /\ IF Conflict(w)
       THEN /\ trouble' = trouble \cup {"rolledBack"}
            /\ UNCHANGED stored
       ELSE /\ stored' = [r \in Roots |-> IF staged[w][r] # 0 THEN staged[w][r]
                                                              ELSE stored[r]]
            /\ UNCHANGED trouble
  /\ pc' = [pc EXCEPT ![w] = IF cursor[w].last THEN "idle" ELSE "fetch"]
  /\ NewSession(w)
  /\ UNCHANGED <<source, cursor, page, failures>>

(* OwsApiError after its retries, or a death of the process: what was not  *)
(* committed is lost.                                                      *)
WalkFails(w) ==
  /\ pc[w] # "idle"
  /\ failures < MaxFailures
  /\ failures' = failures + 1
  /\ trouble' = trouble \cup {"cut"}
  /\ pc' = [pc EXCEPT ![w] = "idle"]
  /\ page' = [page EXCEPT ![w] = {}]
  /\ NewSession(w)
  /\ UNCHANGED <<source, stored, cursor>>

Next == \/ \E r \in Roots : Publish(r)
        \/ DailyStart \/ BackfillStart
        \/ \E w \in Writers : Fetch(w) \/ Upsert(w) \/ ReachStop(w) \/ Commit(w)
                              \/ WalkFails(w)

Spec == Init /\ [][Next]_vars

-----------------------------------------------------------------------------
(* Properties.                                                             *)

(* plan_points holds version i of the source, or a newer one of its root.  *)
Covered(i) == stored[source[i]] >= i

(* Between two walks everything up to the watermark is in the table: no    *)
(* daily walk will fetch it again (plans.py:241-243).                      *)
NoGap ==
  (\A w \in Writers : pc[w] = "idle") => \A i \in 1 .. Watermark : Covered(i)

(* The watermark is sound as long as no walk is cut short, capped or       *)
(* partly rolled back, although the newest page is committed first and     *)
(* versions are published under the walk.                                  *)
CleanWalkLeavesNoGap == trouble = {} => NoGap

(* A backfill that is only ever resumed needs nothing above its resume     *)
(* point, wherever it was cut before (plans.py:280-285): cutting it loses  *)
(* nothing, unless a page was rolled back.                                 *)
ResumePointIsSound ==
  "rolledBack" \notin trouble => \A i \in BackfillAfter .. Watermark : Covered(i)

(* plans.py:168-169: an older version never replaces a newer one.          *)
NeverOlder == [][\A r \in Roots : stored'[r] >= stored[r]]_vars
=============================================================================
