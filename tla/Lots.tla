-------------------------------- MODULE Lots --------------------------------
(***************************************************************************)
(* The lots of the portal and the rows about them: walks over a listing    *)
(* (listing_actor, scan_actor, ingest_actor and their synchronous forms    *)
(* all call _upsert_lot_from_listing), which overlap on the same lots; the *)
(* details of an announcement; the hourly expiry and reconciliation.       *)
(*                                                                         *)
(* A walk writes through one database session: what it flushed is locked,  *)
(* and unseen by the others, until it commits, and it commits after every  *)
(* 100 hits.  The lots here are a few of many, so a commit may come after  *)
(* any of them.  PostgreSQL resolves a cycle of waiting sessions by        *)
(* failing one of them.                                                    *)
(***************************************************************************)
EXTENDS Integers, FiniteSets

CONSTANTS
  LotIds,    \* lots of the portal
  LotAnnos,  \* announcements
  AnnoOf,    \* the announcement of a lot
  Stages,    \* statuses 1 .. Stages, in the order a lot goes through them
  ActualStatuses, \* ACTUAL_STATUSES: some of them, in between ones that are not
  Walkers,   \* threads that walk a listing
  StubLimit, \* DEFAULT_LIMIT of the reconciliation (200)
  MaxWalks,  \* bound: walks
  MaxLosses  \* bound: cut walks, lost and failed messages

ASSUME LotsAssumption ==
  /\ AnnoOf \in [LotIds -> LotAnnos]
  /\ LotIds \cap LotAnnos = {}
  /\ Stages \in Nat \ {0} /\ ActualStatuses \subseteq 1 .. Stages
  /\ MaxWalks \in Nat /\ MaxLosses \in Nat /\ StubLimit \in Nat

VARIABLES
  portal,    \* the status of each lot on the portal
  lot,       \* rows of lots, with the last row of lot_status_history
  anno,      \* rows of announcements: a stub has an id and a url only
  walk,      \* the walks
  stagedLots,    \* changes each walk has flushed and not committed
  details,   \* announcements with a detail_actor message under way
  owes,      \* auxiliary: lots changed since their details were saved
  lost,      \* auxiliary: of these, the ones whose targets were lost
  expired,   \* auxiliary: lots that were expired before their status changed
  overlapped, \* auxiliary: lots written to by a walk that had read an older row
  walks,     \* walks so far
  losses     \* losses so far

store == <<lot, anno>>
aux   == <<owes, lost, expired, overlapped, walks, losses>>
lotsVars == <<portal, lot, anno, walk, stagedLots, details, owes, lost, expired,
              overlapped, walks, losses>>

Absent == [absent |-> TRUE]
LotStatuses == 1 .. Stages
is_actual(s) == s \in ActualStatuses

(* Lot: status_code, is_actual, and the status of its newest history row.  *)
LotRow == [status : LotStatuses, actual : BOOLEAN, history : LotStatuses]
(* What a flush has written: a whole row, or the changed attributes.       *)
Change == [new : BOOLEAN, status : LotStatuses \cup {0}, actual : {"same", "on", "off"},
           noted : BOOLEAN]
IdleWalk == [pc |-> "idle", left |-> {}, lot |-> Absent, hit |-> 0, got |-> Absent,
         new |-> {}, changed |-> {}, deep |-> TRUE]

(* Some lots are known, with their details, some are not.                  *)
LotsInit ==
  /\ portal = [l \in LotIds |-> 1]
  /\ \E known \in SUBSET LotAnnos :
       /\ lot = [l \in LotIds |-> IF AnnoOf[l] \in known
                    THEN [status |-> 1, actual |-> is_actual(1), history |-> 1]
                    ELSE Absent]
       /\ anno = [a \in LotAnnos |-> IF a \in known THEN "full" ELSE "none"]
  /\ walk = [w \in Walkers |-> IdleWalk]
  /\ stagedLots = [w \in Walkers |-> [l \in LotIds |-> Absent]]
  /\ details = {}
  /\ owes = {} /\ lost = {} /\ expired = {} /\ overlapped = {}
  /\ walks = 0 /\ losses = 0

Loss == losses < MaxLosses /\ losses' = losses + 1

-----------------------------------------------------------------------------
(* The portal: external.                                                   *)
PortalMoves(l) ==
  /\ portal[l] < Stages
  /\ portal' = [portal EXCEPT ![l] = @ + 1]
  /\ UNCHANGED <<store, walk, stagedLots, details, aux>>

-----------------------------------------------------------------------------
(* A walk over a listing.                                                  *)

(* deep: a listing-only scan leaves the details out.                       *)
WalkStarts(w, deep) ==
  /\ walk[w].pc = "idle" /\ walks < MaxWalks
  /\ walks' = walks + 1
  /\ walk' = [walk EXCEPT ![w] = [IdleWalk EXCEPT !.pc = "next", !.left = LotIds,
                                               !.deep = deep]]
  /\ UNCHANGED <<portal, store, stagedLots, details, owes, lost, expired,
                 overlapped, losses>>

(* The next hit of a page.                                                 *)
NextHit(w, l) ==
  /\ walk[w].pc = "next" /\ l \in walk[w].left
  /\ walk' = [walk EXCEPT ![w].pc = "load", ![w].left = @ \ {l},
                          ![w].lot = l, ![w].hit = portal[l]]
  /\ UNCHANGED <<portal, store, stagedLots, details, aux>>

(* session.get(Lot, hit.lot_id).                                           *)
LoadLot(w) ==
  /\ walk[w].pc = "load"
  /\ walk' = [walk EXCEPT ![w].pc = "flush", ![w].got = lot[walk[w].lot]]
  /\ UNCHANGED <<portal, store, stagedLots, details, aux>>

(* Rows that a session has locked: what it changed and what it inserted.   *)
Locked(w) ==
  {l \in LotIds : stagedLots[w][l] # Absent}
  \cup {a \in LotAnnos : anno[a] = "none" /\
                      \E l \in LotIds : AnnoOf[l] = a /\ stagedLots[w][l] # Absent}

ActualTo(hit, got) == IF is_actual(hit) = got.actual THEN "same"
                      ELSE IF is_actual(hit) THEN "on" ELSE "off"

\* Mutant: the status is written whether it differs or not.
AttributesAll(hit, got) ==
  [new |-> FALSE, status |-> hit, actual |-> ActualTo(hit, got), noted |-> hit # got.status]

(* Only attributes that differ from what was read are written; a change of *)
(* status is noted in the history.                                         *)
Attributes(hit, got) ==
  [new    |-> FALSE, status |-> IF hit = got.status THEN 0 ELSE hit,
   actual |-> ActualTo(hit, got), noted |-> hit # got.status]

Nothing == [new |-> FALSE, status |-> 0, actual |-> "same", noted |-> FALSE]

(* The rows the flush of a walk has to lock.                               *)
Needs(w) ==
  LET l == walk[w].lot IN
  IF walk[w].got = Absent
  THEN {l} \cup (IF anno[AnnoOf[l]] = "none" THEN {AnnoOf[l]} ELSE {})
  ELSE IF Attributes(walk[w].hit, walk[w].got) = Nothing THEN {} ELSE {l}

WaitsFor(w, v) == walk[w].pc = "flush" /\ v # w /\ Needs(w) \cap Locked(v) # {}

(* _get_or_insert_lot: the row is inserted, with a stub if the             *)
(* announcement has none; on_new, and a first row of history.              *)
InsertLot(w) ==
  LET l == walk[w].lot IN
  /\ walk[w].pc = "flush" /\ walk[w].got = Absent
  /\ lot[l] = Absent /\ \A v \in Walkers : ~WaitsFor(w, v)
  /\ stagedLots' = [stagedLots EXCEPT ![w][l] =
                  [new |-> TRUE, status |-> walk[w].hit,
                   actual |-> IF is_actual(walk[w].hit) THEN "on" ELSE "off",
                   noted |-> TRUE]]
  /\ walk' = [walk EXCEPT ![w].pc = "next", ![w].new = @ \cup {l},
                          ![w].got = Absent]
  /\ UNCHANGED <<portal, store, details, aux>>

(* IntegrityError: somebody has committed the lot; it is updated instead.  *)
InsertConflicts(w) ==
  /\ walk[w].pc = "flush" /\ walk[w].got = Absent /\ lot[walk[w].lot] # Absent
  /\ walk' = [walk EXCEPT ![w].got = lot[walk[w].lot]]
  /\ UNCHANGED <<portal, store, stagedLots, details, aux>>

(* ... or changed, and remembered for the details if its status changed.   *)
UpdateLot(w) ==
  LET l == walk[w].lot
      c == Attributes(walk[w].hit, walk[w].got)
  IN
  /\ walk[w].pc = "flush" /\ walk[w].got # Absent
  /\ \A v \in Walkers : ~WaitsFor(w, v)
  /\ stagedLots' = IF c = Nothing THEN stagedLots ELSE [stagedLots EXCEPT ![w][l] = c]
  /\ walk' = [walk EXCEPT ![w].pc = "next", ![w].got = Absent,
                ![w].changed = IF c.noted THEN @ \cup {l} ELSE @]
  /\ overlapped' = IF c # Nothing /\ walk[w].got # lot[l] THEN overlapped \cup {l}
                   ELSE overlapped
  /\ UNCHANGED <<portal, store, details, owes, lost, expired, walks, losses>>

(* The row after the commit of a change.                                   *)
Changed(r, c) ==
  IF c = Absent THEN r
  ELSE IF c.new THEN [status |-> c.status, actual |-> c.actual = "on",
                      history |-> c.status]
  ELSE [status  |-> IF c.status = 0 THEN r.status ELSE c.status,
        actual  |-> IF c.actual = "same" THEN r.actual ELSE c.actual = "on",
        history |-> IF c.noted THEN c.status ELSE r.history]

CommitWalk(w) ==
  /\ lot' = [l \in LotIds |-> Changed(lot[l], stagedLots[w][l])]
  /\ anno' = [a \in LotAnnos |-> IF a \in Locked(w) THEN "stub" ELSE anno[a]]
  /\ owes' = owes \cup {l \in LotIds : stagedLots[w][l] # Absent /\ stagedLots[w][l].noted}
  /\ stagedLots' = [stagedLots EXCEPT ![w] = [l \in LotIds |-> Absent]]

(* 100 hits since the last commit.                                         *)
CommitBatch(w) ==
  /\ walk[w].pc = "next" /\ Locked(w) # {}
  /\ CommitWalk(w)
  /\ UNCHANGED <<portal, walk, details, lost, expired, overlapped, walks, losses>>

WalkEnds(w) ==
  /\ walk[w].pc = "next" /\ walk[w].left = {}
  /\ CommitWalk(w)
  /\ walk' = [walk EXCEPT ![w].pc = "sending"]
  /\ UNCHANGED <<portal, details, lost, expired, overlapped, walks, losses>>

Targets(w) == {AnnoOf[l] : l \in walk[w].new \cup walk[w].changed}

Forgets(w) ==
  /\ lost' = lost \cup walk[w].new \cup walk[w].changed
  /\ walk' = [walk EXCEPT ![w] = IdleWalk]

SendDetails(w) ==
  /\ walk[w].pc = "sending" /\ walk[w].deep
  /\ details' = details \cup Targets(w)
  /\ walk' = [walk EXCEPT ![w] = IdleWalk]
  /\ UNCHANGED <<portal, store, stagedLots, aux>>

(* A listing-only scan is over.                                            *)
LeaveDetailsOut(w) ==
  /\ walk[w].pc = "sending" /\ ~walk[w].deep
  /\ Forgets(w)
  /\ UNCHANGED <<portal, store, stagedLots, details, owes, expired, overlapped,
                 walks, losses>>

Rollback(w) == stagedLots' = [stagedLots EXCEPT ![w] = [l \in LotIds |-> Absent]]

(* An error of the portal, an interrupt or a death: what was committed     *)
(* stays, and the next walk finds nothing new in it.                       *)
WalkIsCut(w) ==
  /\ walk[w].pc # "idle" /\ Loss
  /\ Rollback(w) /\ Forgets(w)
  /\ UNCHANGED <<portal, store, details, owes, expired, overlapped, walks>>

(* PostgreSQL fails a session of a cycle; execute_search and the actors    *)
(* treat that as any other error.                                          *)
DeadlockVictim(w) ==
  /\ \E v \in Walkers : WaitsFor(w, v) /\ WaitsFor(v, w)
  /\ Rollback(w) /\ Forgets(w)
  /\ UNCHANGED <<portal, store, details, owes, expired, overlapped, walks, losses>>

-----------------------------------------------------------------------------
(* Details, expiry, reconciliation.                                        *)

(* detail_actor to its commit: _save_announcement fills in the stub.       *)
SaveDetails(a) ==
  /\ a \in details
  /\ details' = details \ {a}
  /\ anno' = [anno EXCEPT ![a] = "full"]
  /\ owes' = {l \in owes : AnnoOf[l] # a}
  /\ lost' = {l \in lost : AnnoOf[l] # a}
  /\ UNCHANGED <<portal, lot, walk, stagedLots, expired, overlapped, walks, losses>>

(* The last retry failed, or the message was lost.                         *)
DetailsAreLost(a) ==
  /\ a \in details /\ Loss
  /\ details' = details \ {a}
  /\ lost' = lost \cup {l \in owes : AnnoOf[l] = a}
  /\ UNCHANGED <<portal, store, walk, stagedLots, owes, expired, overlapped, walks>>

(* expire_actual_lots: one UPDATE of the lots of the announcements whose   *)
(* application_end, known from the details, has passed.                    *)
ExpireLots(over) ==
  /\ over # {} /\ \A w \in Walkers : over \cap Locked(w) = {}
  /\ \A l \in over : lot[l] # Absent /\ lot[l].actual /\ anno[AnnoOf[l]] = "full"
  /\ lot' = [l \in LotIds |-> IF l \in over THEN [lot[l] EXCEPT !.actual = FALSE]
                              ELSE lot[l]]
  /\ expired' = expired \cup over
  /\ UNCHANGED <<portal, anno, walk, stagedLots, details, owes, lost, overlapped,
                 walks, losses>>

\* Mutant: lots that are not actual any more are looked for.
ClosedStubs == {a \in LotAnnos : anno[a] = "stub" /\
                 \E l \in LotIds : AnnoOf[l] = a /\ lot[l] # Absent /\ ~lot[l].actual}

(* What find_orphan_stub_annos looks for ...                               *)
OrphanStubs == {a \in LotAnnos : anno[a] = "stub" /\
                 \E l \in LotIds : AnnoOf[l] = a /\ lot[l] # Absent /\ lot[l].actual}

(* ... and what it may return: in no order, and no more than its limit.    *)
Found(S) ==
  /\ S \subseteq OrphanStubs
  /\ IF S = OrphanStubs THEN Cardinality(S) <= StubLimit ELSE Cardinality(S) = StubLimit

Reconcile(S) ==
  /\ Found(S) /\ ~(S \subseteq details)
  /\ details' = details \cup S
  /\ UNCHANGED <<portal, store, walk, stagedLots, aux>>

-----------------------------------------------------------------------------

UpsertLot(w) == (\E l \in LotIds : NextHit(w, l)) \/ LoadLot(w) \/ InsertLot(w)
             \/ InsertConflicts(w) \/ UpdateLot(w) \/ CommitBatch(w)
WalkEnding(w) == WalkEnds(w) \/ SendDetails(w) \/ LeaveDetailsOut(w) \/ DeadlockVictim(w)

LotsNext ==
  \/ \E l \in LotIds : PortalMoves(l)
  \/ \E a \in LotAnnos : SaveDetails(a) \/ DetailsAreLost(a)
  \/ \E w \in Walkers : \/ \E deep \in BOOLEAN : WalkStarts(w, deep)
                        \/ UpsertLot(w) \/ WalkEnding(w) \/ WalkIsCut(w)
  \/ \E S \in SUBSET LotAnnos : Reconcile(S)
  \/ \E over \in SUBSET LotIds : ExpireLots(over)

LotsSpec == LotsInit /\ [][LotsNext]_lotsVars

-----------------------------------------------------------------------------
(* Properties.                                                             *)

LotsTypeOK ==
  /\ portal \in [LotIds -> LotStatuses]
  /\ lot \in [LotIds -> LotRow \cup {Absent}]
  /\ anno \in [LotAnnos -> {"none", "stub", "full"}]
  /\ stagedLots \in [Walkers -> [LotIds -> Change \cup {Absent}]]
  /\ details \subseteq LotAnnos
  /\ owes \subseteq LotIds /\ lost \subseteq LotIds /\ expired \subseteq LotIds
  /\ overlapped \subseteq LotIds

(* The status of a lot is the one its history ends with, however walks     *)
(* overlap: a walk that read an older status writes both or neither.  And  *)
(* a lot is shown as actual exactly in the statuses that are, unless it    *)
(* was expired, or a walk wrote over a row that had changed since it was   *)
(* read: of status and is_actual it wrote only what differed from its own. *)
StatusesAgree ==
  \A l \in LotIds : lot[l] # Absent =>
    /\ lot[l].history = lot[l].status
    /\ l \notin expired \cup overlapped => (lot[l].actual <=> is_actual(lot[l].status))

(* What statuses.py:51-54 promises of every row, expired and overlapped    *)
(* ones too: is_actual only where an application can still be handed in    *)
(* (run_preset.py:189-192 writes the two columns independently).           *)
ActualMeansOpen ==
  \A l \in LotIds : lot[l] # Absent /\ lot[l].actual => is_actual(lot[l].status)

(* After a new lot or a change of status the details are fetched again     *)
(* (run_preset.py:499-502), unless the walk or the message was lost; and   *)
(* even then, if it is the stub of an actual lot, which the reconciliation *)
(* looks for (jobs/reconcile.py:3-10): not that its turn comes, as a pass  *)
(* takes any 200 of them (reconcile.py:24,27-37).                          *)
ChangeReachesDetails ==
  \A l \in owes :
    \/ AnnoOf[l] \in details \cup OrphanStubs
    \/ \E w \in Walkers : l \in walk[w].new \cup walk[w].changed
    \/ l \in lost /\ (anno[AnnoOf[l]] = "full" \/ ~lot[l].actual)

=============================================================================
