------------------------------ MODULE PlanPages ------------------------------
(***************************************************************************)
(* What the web application says of the annual plan (jobs/plan_report.py): *)
(* the page /plans with its totals and its breakdown by month, the plan on *)
(* the card of an organization and in its report, and "expected by plan"   *)
(* on the dashboard.  A page asks PostgreSQL several times and a commit of *)
(* plans-sync may come between two answers.  SQL is three-valued: a        *)
(* comparison with NULL loses the row.                                     *)
(***************************************************************************)
EXTENDS Integers, FiniteSets, FiniteSetsExt

CONSTANTS
  PlanPoints,  \* points of the plan, by root_id
  Buyers,      \* BINs of customers
  Words,       \* what the texts of a point can be searched for
  Categories,
  Years, Prices,
  LastMonth,   \* December
  PastYear,    \* refMonthsId 99, "last year"
  SqlNull,     \* NULL
  PlanVersions, \* rows that plans-sync may bring
  PageForms,   \* what /plans may be asked for
  UserScopes,  \* scopes of users
  Cards,       \* BINs of an organization and of its duplicates
  NoPoint

\* Columns of plan_points; kato is filtered as category is.  status tells whether
\* status_id is one of PLANNED_STATUSES.
PlanRow ==
  [year : Years \cup {SqlNull}, bin : Buyers \cup {SqlNull}, words : SUBSET Words,
   category : Categories \cup {SqlNull}, amount : Prices \cup {SqlNull},
   month : 1..LastMonth \cup {PastYear, SqlNull},
   method : {"tender", "emarket", SqlNull}, status : {"planned", "announced", SqlNull},
   active : BOOLEAN]

PlanFilters ==
  [q : Words \cup Buyers \cup {SqlNull}, category : Categories \cup {"other", SqlNull},
   month : 1..LastMonth \cup {PastYear, SqlNull}, stage : {"planned", "announced", "all"},
   method : {"tender", "emarket", SqlNull}, emarket : BOOLEAN,
   from : Prices \cup {SqlNull}, to : Prices \cup {SqlNull}, year : Years \cup {SqlNull}]

PlanScopes == [categories : SUBSET Categories, min : Prices \cup {SqlNull}]

ASSUME PlanPagesAssumption ==
  /\ IsFiniteSet(PlanPoints)
  /\ Prices \subseteq Nat /\ Years \subseteq Int /\ LastMonth \in Nat \ {0}
  /\ PastYear \notin 1..LastMonth
  /\ SqlNull \notin Int \cup Buyers \cup Words \cup Categories \cup {"tender", "emarket"}
  /\ SqlNull \notin {"planned", "announced", "other"} /\ "other" \notin Categories
  /\ Buyers \cap Words = {}
  /\ PlanVersions \subseteq PlanRow /\ NoPoint \notin PlanVersions
  /\ PageForms \subseteq PlanFilters /\ UserScopes \subseteq PlanScopes
  /\ Cards \subseteq SUBSET Buyers

VARIABLES
  plan,        \* point -> row of plan_points, or NoPoint
  today,       \* [year, month] of the clock
  view,        \* the page being put together
  shown        \* figures of the page on the screen, until the next is asked for

planPagesVars == <<plan, today, view, shown>>

NoView == [at |-> "none"]
NoScope == [categories |-> {}, min |-> SqlNull]

Stored == {p \in PlanPoints : plan[p] # NoPoint}

SumOver(f, S) == MapThenSumSet(LAMBDA x : f[x], S)
\* Of amounts SQL sums those that are not NULL; coalesce makes a number of it.
PlanAmounts == [p \in Stored |-> IF plan[p].amount = SqlNull THEN 0 ELSE plan[p].amount]
PlanSum(ps) == SumOver(PlanAmounts, ps)

\* Mutant of PlanConditions: points taken out of the plan stay on the page.
PlanConditionsRetired(f, r) ==
  /\ f.year # SqlNull => r.year = f.year
  /\ f.stage # "all" => r.status = f.stage
  /\ f.category = "other" => r.category = SqlNull
  /\ f.category \notin {"other", SqlNull} => r.category = f.category
  /\ f.month # SqlNull => r.month = f.month
  /\ f.method # SqlNull => r.method = f.method
  /\ f.method = SqlNull /\ ~f.emarket => r.method \notin {"emarket", SqlNull}
  /\ f.from # SqlNull => r.amount # SqlNull /\ r.amount >= f.from
  /\ f.to # SqlNull => r.amount # SqlNull /\ r.amount <= f.to
  /\ f.q # SqlNull => f.q \in r.words

(* plan_conditions: the search looks into the texts and the code, which    *)
(* hold no BIN; `!=` and NOT IN lose the rows without a value.             *)
PlanConditions(f, r) ==
  /\ r.active
  /\ f.year # SqlNull => r.year = f.year
  /\ f.stage # "all" => r.status = f.stage
  /\ f.category = "other" => r.category = SqlNull
  /\ f.category \notin {"other", SqlNull} => r.category = f.category
  /\ f.month # SqlNull => r.month = f.month
  /\ f.method # SqlNull => r.method = f.method
  /\ f.method = SqlNull /\ ~f.emarket => r.method \notin {"emarket", SqlNull}
  /\ f.from # SqlNull => r.amount # SqlNull /\ r.amount >= f.from
  /\ f.to # SqlNull => r.amount # SqlNull /\ r.amount <= f.to
  /\ f.q # SqlNull => f.q \in r.words

\* plan_scope_conditions_of in SQL and plan_in_scope_of, which the notifications
\* ask about a point.
PlanScopeSql(s, r) ==
  /\ s.categories # {} => r.category \in s.categories
  /\ s.min \notin {SqlNull, 0} => r.amount # SqlNull /\ r.amount >= s.min

PlanInScope(s, r) ==
  ~ \/ s.categories # {} /\ r.category \notin s.categories
    \/ s.min \notin {SqlNull, 0} /\ (r.amount = SqlNull \/ r.amount < s.min)

PlanListed(f, s) == {p \in Stored : PlanConditions(f, plan[p]) /\ PlanScopeSql(s, plan[p])}

\* Mutant of Months: points without a month are left out.
MonthsNamed(ps) ==
  [m \in {plan[p].month : p \in ps} \ {SqlNull} |->
     LET due == {p \in ps : plan[p].month = m}
     IN  [n |-> Cardinality(due), total |-> PlanSum(due)]]

(* GROUP BY month; NULL is a group                                         *)
Months(ps) ==
  [m \in {plan[p].month : p \in ps} |->
     LET due == {p \in ps : plan[p].month = m}
     IN  [n |-> Cardinality(due), total |-> PlanSum(due)]]

\* The plan of an organization: every method, no scope.
CardPoints(bins, y) ==
  {p \in Stored : plan[p].active /\ plan[p].bin \in bins /\ plan[p].year = y}
CardPlanned(bins, y) == {p \in CardPoints(bins, y) : plan[p].status = "planned"}

AnyForm == [q |-> SqlNull, category |-> SqlNull, month |-> SqlNull, stage |-> "all",
            method |-> SqlNull, emarket |-> FALSE, from |-> SqlNull, to |-> SqlNull,
            year |-> SqlNull]

\* upcoming_summary
UpcomingForm == [AnyForm EXCEPT !.stage = "planned", !.year = today.year]
UpcomingMonths ==
  IF today.month = LastMonth THEN {today.month} ELSE {today.month, today.month + 1}
Upcoming(s) == {p \in PlanListed(UpcomingForm, s) : plan[p].month \in UpcomingMonths}

-----------------------------------------------------------------------------
PlanPagesInit ==
  /\ plan = [p \in PlanPoints |-> NoPoint]
  /\ today \in [year : Years, month : 1..LastMonth]
  /\ view = NoView /\ shown = NoView

Moved(w) == IF w = NoView THEN w ELSE [w EXCEPT !.moved = TRUE]

\* plans-sync commits a version of a point.
PointArrives(p, r) ==
  /\ plan[p] # r
  /\ plan' = [plan EXCEPT ![p] = r]
  /\ view' = Moved(view)
  /\ UNCHANGED <<today, shown>>

MonthPasses ==
  /\ \/ today.month < LastMonth /\ today' = [today EXCEPT !.month = @ + 1]
     \/ /\ today.month = LastMonth /\ today.year + 1 \in Years
        /\ today' = [year |-> today.year + 1, month |-> 1]
  /\ UNCHANGED <<plan, view, shown>>

\* plan_years: without a year the page takes the newest there is.
YearOf(f) ==
  LET years == {plan[p].year : p \in Stored} \ {SqlNull}
  IN  IF f.year # SqlNull THEN f.year ELSE IF years = {} THEN today.year ELSE Max(years)

PageOpens(f, s) ==
  /\ view = NoView
  /\ view' = [at |-> "opened", form |-> [f EXCEPT !.year = YearOf(f)], scope |-> s,
              moved |-> FALSE]
  /\ shown' = NoView
  /\ UNCHANGED <<plan, today>>

\* plan_totals, in one statement.
PageCounts ==
  /\ view.at = "opened"
  /\ LET ps == PlanListed(view.form, view.scope)
     IN  view' = [at |-> "counted", form |-> view.form, scope |-> view.scope,
                  n |-> Cardinality(ps), sum |-> PlanSum(ps), moved |-> FALSE]
  /\ UNCHANGED <<plan, today, shown>>

\* by_month, in another.
PageShows ==
  /\ view.at = "counted"
  /\ shown' = [at |-> "page", n |-> view.n, sum |-> view.sum, moved |-> view.moved,
               months |-> Months(PlanListed(view.form, view.scope))]
  /\ view' = NoView
  /\ UNCHANGED <<plan, today>>

\* org_plan_summary: four figures in one statement; the announced are what is left.
CardCounts(bins) ==
  /\ view = NoView
  /\ LET ps == CardPoints(bins, today.year)
         planned == CardPlanned(bins, today.year)
     IN  view' = [at |-> "card", bins |-> bins, year |-> today.year, moved |-> FALSE,
                  n |-> Cardinality(ps), sum |-> PlanSum(ps),
                  planned |-> [n |-> Cardinality(planned), sum |-> PlanSum(planned)],
                  announced |-> [n |-> Cardinality(ps) - Cardinality(planned),
                                 sum |-> PlanSum(ps) - PlanSum(planned)]]
  /\ shown' = NoView
  /\ UNCHANGED <<plan, today>>

CardShows ==
  /\ view.at = "card"
  /\ shown' = [at |-> "card", n |-> view.n, sum |-> view.sum, moved |-> view.moved,
               planned |-> view.planned, announced |-> view.announced,
               months |-> Months(CardPoints(view.bins, view.year))]
  /\ view' = NoView
  /\ UNCHANGED <<plan, today>>

PlanPagesNext ==
  \/ \E p \in PlanPoints, r \in PlanVersions : PointArrives(p, r)
  \/ MonthPasses
  \/ \E f \in PageForms, s \in UserScopes : PageOpens(f, s)
  \/ PageCounts \/ PageShows
  \/ \E bins \in Cards : CardCounts(bins)
  \/ CardShows

PlanPagesSpec == PlanPagesInit /\ [][PlanPagesNext]_planPagesVars

-----------------------------------------------------------------------------
AddUp(months, n, sum) ==
  /\ SumOver([m \in DOMAIN months |-> months[m].n], DOMAIN months) = n
  /\ SumOver([m \in DOMAIN months |-> months[m].total], DOMAIN months) = sum

\* The months of a page add up to its totals unless plans-sync committed between
\* the two statements; whatever it committed, the planned and the announced of a
\* card are its total and neither is negative (plan_report.py:110-133, 197-257).
ShownAddsUp ==
  /\ shown # NoView /\ ~shown.moved => AddUp(shown.months, shown.n, shown.sum)
  /\ shown.at = "card" =>
       /\ shown.planned.n + shown.announced.n = shown.n
       /\ shown.planned.sum + shown.announced.sum = shown.sum
       /\ shown.announced.n >= 0 /\ shown.announced.sum >= 0

\* Four readers select the same points: the dashboard what the pages of its months
\* list, the card of an organization what the page lists of its BINs when it hides
\* neither a stage nor the e-market, and a notification takes what the page of its
\* user takes.  A point without a status is on the card and in neither stage
\* (plan_report.py:64-99, 174-194, 197-257; scope.py:73-99).
PlanPagesAgree ==
  /\ \A s \in UserScopes :
       /\ Upcoming(s) =
            UNION {PlanListed([UpcomingForm EXCEPT !.month = m], s) : m \in UpcomingMonths}
       /\ \A p \in Stored : PlanScopeSql(s, plan[p]) <=> PlanInScope(s, plan[p])
  /\ \A bins \in Cards, y \in Years :
       LET theirs(stage) ==
             {p \in PlanListed([AnyForm EXCEPT !.stage = stage, !.emarket = TRUE, !.year = y],
                           NoScope) : plan[p].bin \in bins}
       IN  /\ theirs("all") = CardPoints(bins, y)
           /\ theirs("planned") = CardPlanned(bins, y)
           /\ theirs("announced") =
                {p \in CardPoints(bins, y) \ CardPlanned(bins, y) : plan[p].status # SqlNull}

\* What the pages of the plan tell: their figures fit, and so do they.
PlanPagesFit == ShownAddsUp /\ PlanPagesAgree

\* organization.html:150-153: the button "all points of the plan" of a card leads
\* to the list of the points the card counts, but for those of the e-market.
LinkForm(b, y) == [AnyForm EXCEPT !.q = b, !.year = y]
LinkListsThePlan ==
  \A b \in Buyers, y \in Years :
    {p \in CardPoints({b}, y) : plan[p].method = "tender"}
      \subseteq PlanListed(LinkForm(b, y), NoScope)

\* upcoming_summary's docstring: points not announced yet of the current month and
\* of the next, in the scope of the user.
NextMonth ==
  IF today.month = LastMonth THEN [year |-> today.year + 1, month |-> 1]
  ELSE [year |-> today.year, month |-> today.month + 1]
UpcomingHasNextMonth ==
  \A s \in UserScopes :
    PlanListed([AnyForm EXCEPT !.stage = "planned", !.year = NextMonth.year,
                           !.month = NextMonth.month], s) \subseteq Upcoming(s)
=============================================================================
