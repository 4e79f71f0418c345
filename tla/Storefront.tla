----------------------------- MODULE Storefront -----------------------------
(***************************************************************************)
(* What a client sees.  The same scope is written twice: as SQL conditions *)
(* for the lists and in Python for the page of one lot, the matcher and    *)
(* the watchlist (scope.py); so is the pre-filter of a query               *)
(* (prefilter.py), whose SQL may only be wider.  Attributes of a lot are   *)
(* NULL until details arrive, a comparison with NULL is neither true nor   *)
(* false in SQL and is an ordinary value in Python.  One lot, one client   *)
(* and one query of his stand for all: every definition is about one of    *)
(* each.                                                                   *)
(***************************************************************************)
EXTENDS Naturals

CONSTANTS
  Regions, Verticals, Codes,   \* values of kato, category and the head of enstru_code
  Amounts,                     \* amounts of lots and bounds of filters, above zero
  ScopeForms, FilterForms,     \* what the forms of a user and of a query are sent with
  Null                         \* NULL in SQL, None in Python

VARIABLES
  lotCols,     \* the lot's columns; word: its texts hold a keyword of the query
  client,  \* the user's scope; admin and active
  watched,   \* the query's compiled_filters and active
  match,   \* the row of user_lot_matches: "none", "matched" or "rejected"
  starred  \* lots.is_starred, shared by all users

storefrontVars == <<lotCols, client, watched, match, starred>>

LotRecords == [kato : Regions \cup {Null}, category : Verticals \cup {Null},
               amount : Amounts \cup {Null}, code : Codes \cup {Null},
               word : BOOLEAN, actual : BOOLEAN]
Clients == [admin : BOOLEAN, active : BOOLEAN, regions : SUBSET Regions,
            categories : SUBSET Verticals, min : Amounts \cup {Null}]
ClientFilters == [categories : SUBSET Verticals, codes : SUBSET Codes,
            keywords : BOOLEAN, max : Amounts \cup {Null}]

ASSUME StorefrontAssumption ==
  /\ Null \notin Regions \cup Verticals \cup Codes
  /\ Amounts \subseteq Nat \ {0}
  /\ ScopeForms \subseteq Clients /\ FilterForms \subseteq ClientFilters

AnyLot == [categories |-> {}, codes |-> {}, keywords |-> FALSE, max |-> Null]

\* user_scope: an administrator, like a user without restrictions, sees all.
Everything == [regions |-> {}, categories |-> {}, min |-> Null]
Scope(u) == IF u.admin THEN Everything
            ELSE [regions |-> u.regions, categories |-> u.categories, min |-> u.min]

-----------------------------------------------------------------------------
(* The conditions of a WHERE, in the logic of SQL *)
Truth(b) == IF b THEN "true" ELSE "false"
SqlIn(x, S) == IF x = Null THEN "unknown" ELSE Truth(x \in S)
SqlAtLeast(x, n) == IF x = Null THEN "unknown" ELSE Truth(x >= n)
SqlAtMost(x, n) == IF x = Null THEN "unknown" ELSE Truth(x <= n)
Holds(conds) == \A c \in conds : c = "true"

SqlScope(s, l) ==
  {SqlIn(l.kato, r) : r \in {s.regions} \ {{}}}
    \cup {SqlIn(l.category, r) : r \in {s.categories} \ {{}}}
    \cup {SqlAtLeast(l.amount, n) : n \in {s.min} \ {Null}}

SqlFilter(f, l) ==
  {SqlIn(l.category, r) : r \in {f.categories} \ {{}}}
    \cup {SqlIn(l.code, r) : r \in {f.codes} \ {{}}}
    \cup {SqlAtMost(l.amount, n) : n \in {f.max} \ {Null}}

(* The same in Python *)
InScope(s, l) ==
  /\ s.regions # {} => l.kato \in s.regions
  /\ s.categories # {} => l.category \in s.categories
  /\ s.min # Null => l.amount # Null /\ l.amount >= s.min

\* Mutant of Passes: a lot without an amount is below every maximum.
PassesUnpriced(f, l) ==
  /\ f.categories # {} => l.category \in f.categories
  /\ f.codes # {} => l.code \in f.codes
  /\ f.keywords => l.word
  /\ f.max # Null => l.amount = Null \/ l.amount <= f.max

Passes(f, l) ==
  /\ f.categories # {} => l.category \in f.categories
  /\ f.codes # {} => l.code \in f.codes
  /\ f.keywords => l.word
  /\ f.max # Null => l.amount # Null /\ l.amount <= f.max

-----------------------------------------------------------------------------
(* The pages *)
Listed == Holds(SqlScope(Scope(client), lotCols))
OnActual == Listed /\ lotCols.actual
OnPast == Listed /\ ~lotCols.actual
OnStarred == Listed /\ starred
OnMatched == watched.active /\ match = "matched" /\ lotCols.actual
CardOpens == InScope(Scope(client), lotCols)
NavCounts == [actual |-> OnActual, past |-> OnPast, starred |-> OnStarred,
              matched |-> OnMatched]

(* The watchlist: the verticals of subscribers, and the pre-filters of their queries *)
ByVertical == client.active /\ client.categories # {}
ByQuery ==
  /\ watched.active /\ watched.filter # AnyLot /\ client.active
  /\ InScope(Scope(client), lotCols) /\ Passes(watched.filter, lotCols)

ShouldAnalyze ==
  \/ ByVertical /\ lotCols.category \in client.categories
  \/ ByQuery

WatchlistConditions ==
  \/ ByVertical /\ Holds({SqlIn(lotCols.category, client.categories)})
  \/ /\ watched.active /\ watched.filter # AnyLot /\ client.active
     /\ Holds(SqlScope(Scope(client), lotCols) \cup SqlFilter(watched.filter, lotCols))

\* Candidates of the matcher: in the scope of the owner and past the pre-filter.
Matchable == watched.active /\ lotCols.actual /\ CardOpens /\ Passes(watched.filter, lotCols)

-----------------------------------------------------------------------------
StorefrontInit ==
  /\ lotCols = [kato |-> Null, category |-> Null, amount |-> Null, code |-> Null,
            word |-> FALSE, actual |-> TRUE]
  /\ client = [admin |-> FALSE, active |-> TRUE, regions |-> {}, categories |-> {}, min |-> Null]
  /\ watched = [active |-> TRUE, filter |-> AnyLot]
  /\ match = "none"
  /\ starred = FALSE

\* A walk of the listing, or details, write what the portal says.
ListingWrites(kato, amount, word, onSale) ==
  /\ lotCols' = [lotCols EXCEPT !.kato = kato, !.amount = amount, !.word = word, !.actual = onSale]
  /\ UNCHANGED <<client, watched, match, starred>>

\* The code may come with the details only, and with it the vertical; a vertical
\* once given stays.
DetailsWrite(code, category) ==
  /\ lotCols' = [lotCols EXCEPT !.code = code,
                        !.category = IF lotCols.category = Null THEN category ELSE @]
  /\ UNCHANGED <<client, watched, match, starred>>

\* The administrator saves the form of the user; nothing is done about matches.
ScopeSaved(u) ==
  /\ client' = u
  /\ UNCHANGED <<lotCols, watched, match, starred>>

\* A query edited is a new version: what is not a candidate any more is dropped,
\* the rest is computed again.
QuerySaved(f, active) ==
  /\ watched' = [active |-> active, filter |-> f]
  /\ match' = "none"
  /\ UNCHANGED <<lotCols, client, starred>>

Matched(answer) ==
  /\ Matchable
  /\ match' = answer
  /\ UNCHANGED <<lotCols, client, watched, starred>>

Star ==
  /\ CardOpens
  /\ starred' = ~starred
  /\ UNCHANGED <<lotCols, client, watched, match>>

StorefrontNext ==
  \/ \E k \in Regions \cup {Null}, a \in Amounts \cup {Null}, w, x \in BOOLEAN :
       ListingWrites(k, a, w, x)
  \/ \E c \in Codes, v \in Verticals \cup {Null} : DetailsWrite(c, v)
  \/ \E u \in ScopeForms : ScopeSaved(u)
  \/ \E f \in FilterForms, active \in BOOLEAN : QuerySaved(f, active)
  \/ \E answer \in {"matched", "rejected"} : Matched(answer)
  \/ Star

StorefrontSpec == StorefrontInit /\ [][StorefrontNext]_storefrontVars

-----------------------------------------------------------------------------
StorefrontTypeOK ==
  /\ lotCols \in LotRecords /\ client \in Clients
  /\ watched \in [active : BOOLEAN, filter : ClientFilters]
  /\ match \in {"none", "matched", "rejected"} /\ starred \in BOOLEAN

\* A list and the page of a lot are two programs for one rule: the lot is listed
\* exactly when its page opens, whatever is NULL; and the SQL that selects
\* candidates for the watchlist loses none that the Python predicate would take, so
\* that reanalyze and the catch-up miss no lot (scope.py, prefilter.py, watchlist.py).
ListsAgreeWithPages ==
  /\ Listed <=> CardOpens
  /\ Passes(watched.filter, lotCols) => Holds(SqlFilter(watched.filter, lotCols))
  /\ ShouldAnalyze => WatchlistConditions

\* The docstring of scope.py: a user sees only lots in his scope.  The page of the
\* matches asks for none, and a scope saved later drops no match.
OnlyLotsInScopeAreShown == OnActual \/ OnPast \/ OnStarred \/ OnMatched => CardOpens
=============================================================================
