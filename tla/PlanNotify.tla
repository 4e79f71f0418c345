----------------------------- MODULE PlanNotify -----------------------------
(***************************************************************************)
(* Messages about new points of the annual plan (jobs/plan_notify.py),     *)
(* which plan_notify_actor sends after a synchronisation of the plan.  A   *)
(* pass takes the queries one by one: it selects in SQL the largest new    *)
(* points nobody has recorded for the query, asks the Python predicate,    *)
(* sends, and commits the rows of the query together.  The queue has       *)
(* several workers, so that two passes may overlap.                        *)
(***************************************************************************)
EXTENDS Naturals, FiniteSets

CONSTANTS
  PlanQueries,   \* active queries with a pre-filter
  Points,        \* points of the plan, by decreasing amount: numbers
  Worded,        \* <<query, point>> pairs whose keywords fit: Python knows, SQL does not
  Passes,        \* deliveries of plan_notify_actor
  NoQuery,
  PointLimit,    \* DEFAULT_LIMIT
  MaxToggles     \* bound: changes of the users' toggle

ASSUME PlanNotifyAssumption ==
  /\ Points \subseteq Nat
  /\ Worded \subseteq PlanQueries \X Points
  /\ NoQuery \notin PlanQueries
  /\ IsFiniteSet(Passes)
  /\ PointLimit \in Nat \ {0} /\ MaxToggles \in Nat

VARIABLES
  open,       \* points created within MAX_AGE_DAYS and not yet announced
  toggled,    \* queries whose owner has notify_plan on
  recorded,   \* rows of plan_notifications
  passing,    \* pass -> its session
  sends,      \* <<query, point>> -> messages sent
  toggles,    \* changes of the toggle so far
  interrupts     \* passes that died with rows unwritten or began beside another (ghost)

planNotifyVars == <<open, toggled, recorded, passing, sends, toggles, interrupts>>

PointPairs == PlanQueries \X Points
Waiting == [stage |-> "waiting", left |-> PlanQueries, query |-> NoQuery,
            todo |-> {}, pending |-> {}]

PlanNotifyTypeOK ==
  /\ open \subseteq Points /\ toggled \subseteq PlanQueries /\ recorded \subseteq PointPairs
  /\ \A n \in Passes : /\ passing[n].stage \in {"waiting", "working", "over"}
                       /\ passing[n].todo \subseteq open \cup Points
                       /\ passing[n].pending \subseteq PointPairs
  /\ sends \in [PointPairs -> Nat]
  /\ toggles \in 0..MaxToggles /\ interrupts \in Nat

PlanNotifyInit ==
  /\ open = {} /\ toggled = PlanQueries /\ recorded = {}
  /\ passing = [n \in Passes |-> Waiting]
  /\ sends = [p \in PointPairs |-> 0]
  /\ toggles = 0 /\ interrupts = 0

-----------------------------------------------------------------------------
\* The synchronisation brings a point; three days pass, or it is announced.
PointOpens(p) ==
  /\ p \notin open
  /\ open' = open \cup {p}
  /\ UNCHANGED <<toggled, recorded, passing, sends, toggles, interrupts>>

PointCloses(p) ==
  /\ p \in open
  /\ open' = open \ {p}
  /\ UNCHANGED <<toggled, recorded, passing, sends, toggles, interrupts>>

Toggles(q) ==
  /\ toggles < MaxToggles
  /\ toggled' = IF q \in toggled THEN toggled \ {q} ELSE toggled \cup {q}
  /\ toggles' = toggles + 1
  /\ UNCHANGED <<open, recorded, passing, sends, interrupts>>

-----------------------------------------------------------------------------
PassStarts(n) ==
  /\ passing[n].stage = "waiting"
  /\ passing' = [passing EXCEPT ![n].stage = "working"]
  /\ interrupts' = IF \E m \in Passes : passing[m].stage = "working"
                     THEN interrupts + 1 ELSE interrupts
  /\ UNCHANGED <<open, toggled, recorded, sends, toggles>>

First(S) == {p \in S : Cardinality({x \in S : x < p}) < PointLimit}

\* What the SQL of the pre-filter and of the scope lets through; the keywords are
\* not in it.
Unrecorded(q) == {p \in open : <<q, p>> \notin recorded}
Deliverable(q, p) == <<q, p>> \in Worded

\* Mutant of Candidates: the rows already there are not excluded.
CandidatesAgain(q) == First(open)

\* ORDER BY amount DESC LIMIT, before the keywords are looked at.
Candidates(q) == First(Unrecorded(q))

\* A query whose owner has the toggle off is passed over, and nothing recorded.
TakesQuery(n, q) ==
  /\ passing[n].stage = "working" /\ passing[n].query = NoQuery /\ q \in passing[n].left
  /\ passing' = [passing EXCEPT ![n].left = @ \ {q},
                   ![n].query = IF q \in toggled THEN q ELSE NoQuery,
                   ![n].todo = IF q \in toggled THEN Candidates(q) ELSE {}]
  /\ UNCHANGED <<open, toggled, recorded, sends, toggles, interrupts>>

\* A message, sent or refused by Telegram: its row is added either way.  A point
\* the predicate turns down gets neither.
Tells(n, p) ==
  LET q == passing[n].query
  IN  /\ p \in passing[n].todo
      /\ IF Deliverable(q, p)
           THEN \E sent \in {0, 1} :
                  /\ passing' = [passing EXCEPT ![n].todo = @ \ {p}, ![n].pending = @ \cup {<<q, p>>}]
                  /\ sends' = [sends EXCEPT ![<<q, p>>] = @ + sent]
           ELSE /\ passing' = [passing EXCEPT ![n].todo = @ \ {p}]
                /\ UNCHANGED sends
      /\ UNCHANGED <<open, toggled, recorded, toggles, interrupts>>

QueryCommits(n) ==
  /\ passing[n].query # NoQuery /\ passing[n].todo = {}
  /\ passing[n].pending \cap recorded = {}
  /\ recorded' = recorded \cup passing[n].pending
  /\ passing' = [passing EXCEPT ![n].query = NoQuery, ![n].pending = {}]
  /\ UNCHANGED <<open, toggled, sends, toggles, interrupts>>

PassEnds(n) ==
  /\ passing[n].stage = "working" /\ passing[n].query = NoQuery /\ passing[n].left = {}
  /\ passing' = [passing EXCEPT ![n].stage = "over"]
  /\ UNCHANGED <<open, toggled, recorded, sends, toggles, interrupts>>

\* A row another pass has written (uq_plan_notif), an error, the time limit or a
\* kill; without a retry.
PassFails(n) ==
  /\ passing[n].stage = "working"
  /\ interrupts' = IF passing[n].pending # {} THEN interrupts + 1 ELSE interrupts
  /\ passing' = [passing EXCEPT ![n] = [Waiting EXCEPT !.stage = "over"]]
  /\ UNCHANGED <<open, toggled, recorded, sends, toggles>>

PlanNotifyNext ==
  \/ \E p \in Points : PointOpens(p) \/ PointCloses(p)
  \/ \E q \in PlanQueries : Toggles(q)
  \/ \E n \in Passes :
       \/ PassStarts(n) \/ QueryCommits(n) \/ PassEnds(n) \/ PassFails(n)
       \/ \E q \in PlanQueries : TakesQuery(n, q)
       \/ \E p \in Points : Tells(n, p)

PlanNotifySpec == PlanNotifyInit /\ [][PlanNotifyNext]_planNotifyVars

-----------------------------------------------------------------------------
\* A point is told to a query once, however often it comes and goes, the toggle
\* changes or Telegram refuses; a second message takes a pass that died before
\* its commit or ran beside another (plan_notify.py, actor without retries).
PointIsToldOnce == \A pair \in PointPairs : sends[pair] <= 1 + interrupts
=============================================================================
