------------------------------ MODULE Matching ------------------------------
(***************************************************************************)
(* One query of a user and the lots it is matched with: the editor of the  *)
(* web application, the backfill over the lots in the database, the        *)
(* fan-out of a lot that has just been analysed, and match_actor, which    *)
(* reads query, row and analysis, asks the LLM for up to a minute, and     *)
(* writes.  Queries share no rows, so one query stands for all of them.    *)
(*                                                                         *)
(* Lots are numbers in the order of first_seen.  A pre-filter is a name:   *)
(* Pass gives the lots lot_passes_prefilter accepts, Sql the larger set    *)
(* its WHERE clause selects.  The text of a query is the number of the     *)
(* edit that wrote it.                                                     *)
(***************************************************************************)
EXTENDS Integers, FiniteSets

CONSTANTS
  Lots,        \* lots, numbered in the order of first_seen
  Visible,     \* the lots the owner of the query sees (scope.py)
  Filters,     \* names of pre-filters
  NoFilter,    \* the query has no pre-filter
  Sql, Pass,   \* the lots a filter selects in SQL and accepts in Python
  Limit,       \* DEFAULT_LIMIT of a backfill
  Editors,     \* requests of the web application that may run at once
  Workers,     \* threads that run match_actor
  MatchRetries, \* max_retries of match_actor
  MaxEdits,    \* bound: edits, toggles and rematches by users
  MaxAnalyses, \* bound: analyses of a lot
  MatchFaults  \* bound: failures of the LLM, the broker and the workers

ASSUME MatchingAssumption ==
  /\ Lots \subseteq Nat /\ IsFiniteSet(Lots) /\ Visible \subseteq Lots
  /\ NoFilter \in Filters
  /\ Sql \in [Filters -> SUBSET Lots] /\ Pass \in [Filters -> SUBSET Lots]
  /\ Sql[NoFilter] = Lots /\ Pass[NoFilter] = Lots
  /\ \A f \in Filters : Pass[f] \subseteq Sql[f]
  /\ Limit \in Nat /\ MatchRetries \in Nat /\ MaxEdits \in Nat
  /\ MaxAnalyses \in Nat /\ MatchFaults \in Nat

VARIABLES
  query,     \* the row of user_queries
  editor,    \* the query as each editing request has read it
  owed,      \* a request has committed and not yet called _trigger_backfill
  actual,    \* lots with is_actual
  analyzed,  \* how often a lot was analysed; analyzed_at is that moment
  fan,       \* lots analysed and committed, before enqueue_matches_for_lot
  row,       \* user_lot_matches of the query
  queue,     \* messages of match_actor
  work,      \* the message a worker handles, with what it has read
  overtaken, \* auxiliary: lots whose row was written from an old snapshot
  excuse,    \* auxiliary: lots whose match was given up or cut off
  crossed,   \* auxiliary: an edit was based on a text that had changed
  edits,     \* auxiliary: number of edits so far
  matchFaults \* auxiliary: number of faults so far

editorVars == <<query, editor, owed>>
lotVars    == <<actual, analyzed, fan>>
auxVars    == <<overtaken, excuse, crossed, edits, matchFaults>>
matchVars == <<query, editor, owed, actual, analyzed, fan, row, queue, work,
          overtaken, excuse, crossed, edits, matchFaults>>

None == [none |-> TRUE]
Versions == 1 .. MaxEdits + 1
Query == [state : {"none", "live", "deleted"}, version : Versions,
          text : Versions, filter : Filters, active : BOOLEAN]
(* to: the filter it changes to; drops: the matches it has deleted for it. *)
Request == [version : Versions, text : Versions, filter : Filters,
            to : Filters, drops : SUBSET Lots]
Row   == [version : Versions, text : Versions, basis : 0 .. MaxAnalyses,
          stamp : 0 .. MaxAnalyses, matched : BOOLEAN]
Message == [lot : Lots, left : 0 .. MatchRetries]
Job   == [lot : Lots, left : 0 .. MatchRetries, version : Versions,
          text : Versions, basis : 0 .. MaxAnalyses, had : {"none", "row", "gone"}]

MatchTypeOK ==
  /\ query \in Query
  /\ editor \in [Editors -> Request \cup {None}]
  /\ owed \in BOOLEAN
  /\ actual \subseteq Lots
  /\ analyzed \in [Lots -> 0 .. MaxAnalyses]
  /\ fan \subseteq Lots
  /\ row \in [Lots -> Row \cup {None}]
  /\ queue \subseteq Message
  /\ work \in [Workers -> Job \cup {None}]
  /\ overtaken \subseteq Lots /\ excuse \subseteq Lots
  /\ crossed \in BOOLEAN
  /\ edits \in 0 .. MaxEdits
  /\ matchFaults \in 0 .. MatchFaults

Live == query.state = "live"

Deleted == [state |-> "deleted", version |-> 1, text |-> 1, filter |-> NoFilter,
            active |-> FALSE]

MatchInit ==
  /\ \E f \in Filters :
       query = [state |-> "none", version |-> 1, text |-> 1, filter |-> f,
                active |-> TRUE]
  /\ editor = [e \in Editors |-> None]
  /\ owed = FALSE
  /\ actual = Lots
  /\ analyzed = [l \in Lots |-> 0]
  /\ fan = {}
  /\ row = [l \in Lots |-> None]
  /\ queue = {}
  /\ work = [w \in Workers |-> None]
  /\ overtaken = {} /\ excuse = {} /\ crossed = FALSE
  /\ edits = 0 /\ matchFaults = 0

ByUser == edits < MaxEdits /\ edits' = edits + 1

Fault == matchFaults < MatchFaults /\ matchFaults' = matchFaults + 1

-----------------------------------------------------------------------------
(* The web application.                                                    *)

(* POST /queries.                                                          *)
QueryCreate ==
  /\ query.state = "none"
  /\ query' = [query EXCEPT !.state = "live"]
  /\ owed' = TRUE
  /\ UNCHANGED <<editor, lotVars, row, queue, work, auxVars>>

(* POST /queries/{id}/edit: _owned_query loads the row.                    *)
EditRead(e) ==
  /\ Live /\ editor[e] = None
  /\ editor' = [editor EXCEPT ![e] =
                  [version |-> query.version, text |-> query.text,
                   filter |-> query.filter, to |-> query.filter, drops |-> {}]]
  /\ UNCHANGED <<query, owed, lotVars, row, queue, work, auxVars>>

(* Rows that leave the table: a worker that holds one will not find it.    *)
Delete(lots) ==
  /\ row' = [l \in Lots |-> IF l \in lots THEN None ELSE row[l]]
  /\ work' = [w \in Workers |->
                IF work[w] # None /\ work[w].lot \in lots /\ work[w].had = "row"
                THEN [work[w] EXCEPT !.had = "gone"] ELSE work[w]]
  /\ overtaken' = overtaken \ lots

\* Mutant: the narrowed filter leaves the old matches.
StaleKept(f) == {}

(* _drop_stale_matches: what the new filter no longer passes.              *)
Stale(f) == IF f = NoFilter THEN {}
            ELSE {l \in Lots : row[l] # None /\ l \notin Pass[f]}

ChangesFilter(e) == editor[e] # None /\ editor[e].to # editor[e].filter

(* The matches are selected and deleted; nobody sees it before the commit, *)
(* and a match that is inserted meanwhile is not among them.               *)
EditDrops(e, f) ==
  /\ editor[e] # None /\ ~ChangesFilter(e) /\ f # editor[e].filter
  /\ editor' = [editor EXCEPT ![e].to = f, ![e].drops = Stale(f)]
  /\ UNCHANGED <<query, owed, lotVars, row, queue, work, auxVars>>

(* ... and commits: only changed attributes are written, the version is    *)
(* the one it read plus one.                                               *)
EditCommit(e, newText) ==
  LET read == editor[e] IN
  /\ Live /\ read # None
  /\ newText \/ ChangesFilter(e)
  /\ ByUser
  /\ query' = [query EXCEPT
                 !.text    = IF newText THEN edits' + 1 ELSE @,
                 !.version = IF newText THEN read.version + 1 ELSE @,
                 !.filter  = IF ChangesFilter(e) THEN read.to ELSE @]
  /\ Delete(read.drops)
  /\ crossed' = (crossed \/ (newText /\ read.version # query.version))
  /\ editor' = [x \in Editors |->
                  IF x = e \/ editor[x] = None THEN None
                  ELSE [editor[x] EXCEPT !.drops = @ \ read.drops]]
  /\ owed' = TRUE
  /\ UNCHANGED <<lotVars, queue, excuse, matchFaults>>

(* The form was submitted unchanged, the query is gone (404), or the       *)
(* request fails and what it deleted is rolled back.                       *)
EditEnds(e) ==
  /\ editor[e] # None
  /\ editor' = [editor EXCEPT ![e] = None]
  /\ UNCHANGED <<query, owed, lotVars, row, queue, work, auxVars>>

(* POST /queries/{id}/toggle.  A query switched on again gets no backfill. *)
QueryToggle ==
  /\ Live
  /\ query' = [query EXCEPT !.active = ~@]
  /\ ByUser
  /\ UNCHANGED <<editor, owed, lotVars, row, queue, work, overtaken, excuse,
                 crossed, matchFaults>>

(* POST /queries/{id}/delete; the matches go with the query.               *)
QueryDelete ==
  /\ Live
  /\ query' = Deleted
  /\ Delete(Lots)
  /\ UNCHANGED <<editor, owed, lotVars, queue, excuse, crossed, edits, matchFaults>>

(* POST /queries/{id}/rematch.                                             *)
QueryRematch ==
  /\ Live
  /\ owed' = TRUE
  /\ ByUser
  /\ UNCHANGED <<query, editor, lotVars, row, queue, work, overtaken, excuse,
                 crossed, matchFaults>>

(* GET /matched: no row is left out for its version.                       *)
Shown == {l \in actual : Live /\ query.active /\ row[l] # None /\ row[l].matched}

-----------------------------------------------------------------------------
(* Backfill: backfill_query reads the query again, active or not.          *)

NewestFacts(S) == {l \in S : Cardinality({k \in S : k > l}) < Limit}

(* The limit cuts what SQL selects; Python filters what is left.           *)
Selected   == actual \cap Visible \cap Sql[query.filter]

\* Mutant: lots that have a match are left out.
UnmatchedCandidates ==
  {l \in NewestFacts(Selected) \cap Pass[query.filter] : row[l] = None}

Candidates == NewestFacts(Selected) \cap Pass[query.filter]

Fresh(lots) == {[lot |-> l, left |-> MatchRetries] : l \in lots}

Backfill ==
  /\ owed
  /\ owed' = FALSE
  /\ queue' = IF Live THEN queue \cup Fresh(Candidates) ELSE queue
  /\ excuse' = excuse \cup (Selected \ NewestFacts(Selected))
  /\ UNCHANGED <<query, editor, lotVars, row, work, overtaken, crossed, edits, matchFaults>>

(* _trigger_backfill swallows whatever the broker raises after some sends. *)
BackfillFails ==
  /\ owed /\ Live /\ Fault
  /\ owed' = FALSE
  /\ \E sent \in SUBSET Candidates : queue' = queue \cup Fresh(sent)
  /\ excuse' = excuse \cup Lots
  /\ UNCHANGED <<query, editor, lotVars, row, work, overtaken, crossed, edits>>

-----------------------------------------------------------------------------
(* Lots: an analysis is committed, then its matches are enqueued.          *)

Analyze(l) ==
  /\ analyzed[l] < MaxAnalyses /\ l \notin fan
  /\ analyzed' = [analyzed EXCEPT ![l] = @ + 1]
  /\ fan' = fan \cup {l}
  /\ UNCHANGED <<editorVars, actual, row, queue, work, auxVars>>

(* enqueue_matches_for_lot.                                                *)
FanOut(l) ==
  /\ l \in fan
  /\ fan' = fan \ {l}
  /\ queue' = IF Live /\ query.active /\ l \in Visible \cap Pass[query.filter]
              THEN queue \cup Fresh({l}) ELSE queue
  /\ excuse' = IF Live /\ ~query.active THEN excuse \cup {l} ELSE excuse
  /\ UNCHANGED <<editorVars, actual, analyzed, row, work, overtaken, crossed,
                 edits, matchFaults>>

(* The worker dies in between; analyze_actor, delivered again, finds the   *)
(* analysis up to date and enqueues nothing.                               *)
FanOutLost(l) ==
  /\ l \in fan /\ Fault
  /\ fan' = fan \ {l}
  /\ excuse' = excuse \cup {l}
  /\ UNCHANGED <<editorVars, actual, analyzed, row, queue, work, overtaken,
                 crossed, edits>>

(* expire_actor takes a lot from the list of actual ones.                  *)
Expire(l) ==
  /\ l \in actual
  /\ actual' = actual \ {l}
  /\ UNCHANGED <<editorVars, analyzed, fan, row, queue, work, auxVars>>

-----------------------------------------------------------------------------
(* match_actor.                                                            *)

(* The row is there, for this text and no older than the analysis.         *)
UpToDate(l) ==
  /\ row[l] # None
  /\ row[l].version = query.version
  /\ row[l].stamp >= analyzed[l]

(* Nothing to do, or not any more.                                         *)
MatchSkips(m) ==
  /\ m \in queue
  /\ \/ ~Live
     \/ ~query.active
     \/ m.lot \notin Pass[query.filter]
     \/ UpToDate(m.lot)
  /\ queue' = queue \ {m}
  /\ excuse' = IF Live /\ ~query.active THEN excuse \cup {m.lot} ELSE excuse
  /\ UNCHANGED <<editorVars, lotVars, row, work, overtaken, crossed, edits, matchFaults>>

MatchStarts(w, m) ==
  /\ m \in queue /\ work[w] = None
  /\ Live /\ query.active /\ m.lot \in Pass[query.filter]
  /\ ~UpToDate(m.lot)
  /\ queue' = queue \ {m}
  /\ work' = [work EXCEPT ![w] =
                [lot |-> m.lot, left |-> m.left, version |-> query.version,
                 text |-> query.text, basis |-> analyzed[m.lot],
                 had |-> IF row[m.lot] = None THEN "none" ELSE "row"]]
  /\ UNCHANGED <<editorVars, lotVars, row, auxVars>>

(* UPDATE by id, or INSERT under uq_match_query_lot and the foreign key.   *)
CanWrite(j) == Live /\ (j.had = "row" \/ (j.had = "none" /\ row[j.lot] = None))

\* Mutant: the version is read again when the match is written.
WrittenUnderNewVersion(j, verdict) ==
  [version |-> query.version, text |-> j.text, basis |-> j.basis,
   stamp |-> analyzed[j.lot], matched |-> verdict]

(* The row as match_and_save fills it: verdict, the version read at the    *)
(* start, the time of now.                                                 *)
Written(j, verdict) ==
  [version |-> j.version, text |-> j.text, basis |-> j.basis,
   stamp |-> analyzed[j.lot], matched |-> verdict]

(* An edit that has selected what it drops will not drop this lot.         *)
MissedByEdit(l) == \E e \in Editors : ChangesFilter(e) /\ l \notin Pass[editor[e].to]

(* The LLM has answered.                                                   *)
SaveMatch(w, verdict) ==
  LET j == work[w] IN
  /\ j # None /\ CanWrite(j)
  /\ row' = [row EXCEPT ![j.lot] = Written(j, verdict)]
  /\ overtaken' = IF /\ j.version = query.version
                     /\ j.basis = analyzed[j.lot]
                     /\ j.lot \in Pass[query.filter] /\ ~MissedByEdit(j.lot)
                  THEN overtaken \ {j.lot} ELSE overtaken \cup {j.lot}
  /\ work' = [work EXCEPT ![w] = None]
  /\ UNCHANGED <<editorVars, lotVars, queue, excuse, crossed, edits, matchFaults>>

(* The flush fails: the row was inserted or deleted meanwhile.  The broken *)
(* session makes the attempt raise; dramatiq repeats it while it may.      *)
SaveConflicts(w) ==
  LET j == work[w] IN
  /\ j # None /\ ~CanWrite(j)
  /\ work' = [work EXCEPT ![w] = None]
  /\ queue' = IF j.left > 0 THEN queue \cup {[lot |-> j.lot, left |-> j.left - 1]}
              ELSE queue
  /\ excuse' = IF j.left > 0 THEN excuse ELSE excuse \cup {j.lot}
  /\ UNCHANGED <<editorVars, lotVars, row, overtaken, crossed, edits, matchFaults>>

(* _call_llm gives up; match_and_save reports no match and raises nothing. *)
LlmFails(w) ==
  /\ work[w] # None /\ Fault
  /\ excuse' = excuse \cup {work[w].lot}
  /\ work' = [work EXCEPT ![w] = None]
  /\ UNCHANGED <<editorVars, lotVars, row, queue, overtaken, crossed, edits>>

(* The process dies; its message is delivered again.                       *)
WorkerDies(w) ==
  /\ work[w] # None /\ Fault
  /\ queue' = queue \cup {[lot |-> work[w].lot, left |-> work[w].left]}
  /\ work' = [work EXCEPT ![w] = None]
  /\ UNCHANGED <<editorVars, lotVars, row, overtaken, excuse, crossed, edits>>

-----------------------------------------------------------------------------

Edit(e) ==
  \/ EditRead(e) \/ EditEnds(e)
  \/ \E f \in Filters : EditDrops(e, f)
  \/ \E newText \in BOOLEAN : EditCommit(e, newText)

MatchEnds(w) == (\E v \in BOOLEAN : SaveMatch(w, v)) \/ SaveConflicts(w) \/ LlmFails(w)

MatchNext ==
  \/ QueryCreate \/ QueryToggle \/ QueryDelete \/ QueryRematch
  \/ \E e \in Editors : Edit(e)
  \/ Backfill \/ BackfillFails
  \/ \E l \in Lots : Analyze(l) \/ FanOut(l) \/ FanOutLost(l) \/ Expire(l)
  \/ \E m \in queue : MatchSkips(m) \/ \E w \in Workers : MatchStarts(w, m)
  \/ \E w \in Workers : MatchEnds(w) \/ WorkerDies(w)

MatchSpec == MatchInit /\ [][MatchNext]_matchVars

-----------------------------------------------------------------------------
(* Properties.                                                             *)

(* After an edit of the pre-filter, /matched shows no lot that the filter  *)
(* excludes (web/app.py:1576-1579), but for one whose match was computed   *)
(* while the query or the lot changed, or written between the moment the   *)
(* edit looked for what to drop and its commit (web/app.py:1583-1594,1699).*)
NothingExcludedIsShown == \A l \in Shown \ overtaken : l \in Pass[query.filter]

(* What a row says of itself is true: under the current version it was     *)
(* computed from the current text, unless two edits crossed; and unless    *)
(* the lot was analysed while the LLM was asked, a row no older than the   *)
(* analysis was computed from it.  match_actor skips what these marks call *)
(* up to date, so a false one would never be repaired.                     *)
MarksAreTrue ==
  \A l \in Lots : (Live /\ row[l] # None) =>
    /\ (row[l].version = query.version /\ ~crossed) => row[l].text = query.text
    /\ (row[l].stamp = analyzed[l] /\ l \notin overtaken) => row[l].basis = analyzed[l]

\* A match that is shown is what it says and passes the pre-filter.
MatchesAreTrue == MarksAreTrue /\ NothingExcludedIsShown

(* When nothing is under way, every analysed lot the query asks for has a  *)
(* row that its marks call up to date, whatever the order of creation,     *)
(* edits, analyses and tasks: unless a failure, a switched off query or    *)
(* the limit of a backfill excuses it, or an older task wrote last         *)
(* (queue/matching.py); MarksAreTrue says what such a row is worth.        *)
Wanted(l) == Live /\ query.active /\ analyzed[l] > 0
             /\ l \in actual \cap Visible \cap Pass[query.filter]

UnderWay(l) == \/ owed \/ l \in fan
               \/ \E m \in queue : m.lot = l
               \/ \E w \in Workers : work[w] # None /\ work[w].lot = l

NothingIsForgotten ==
  \A l \in Lots : Wanted(l) =>
    UnderWay(l) \/ UpToDate(l) \/ l \in excuse \cup overtaken

(* The module of the table says that matches of an older version of the    *)
(* query are ignored (db/models.py:626-627); GET /matched shows them.      *)
OldMatchesAreIgnored == \A l \in Shown : row[l].version = query.version

=============================================================================
