------------------------------ MODULE Suppliers ------------------------------
(***************************************************************************)
(* Who won what.  Three synchronisations write it in an order nobody       *)
(* fixes - bids after the deadline, contracts weeks later, details at any  *)
(* time - and four readers put it together each in its own way: the role   *)
(* "supplier" of an organization (orgs.py), the report of the suppliers    *)
(* (jobs/supplier_report.py), the card of one of them                      *)
(* (jobs/supplier_card.py) and the selection of those whose contacts are   *)
(* to be asked for (jobs/supplier_contacts.py).                            *)
(***************************************************************************)
EXTENDS Naturals, FiniteSets, FiniteSetsExt

CONSTANTS
  Sold,          \* lots
  Bins,          \* BINs of suppliers
  Applications,  \* rows "application x lot" of the portal (TrdAppLots.id)
  LotOf,         \* application -> the lot; several of a lot may be of one supplier
  BidderOf,      \* application -> BIN of the supplier
  Numbers,       \* numbers of contracts of a lot
  WinStatuses,      \* statuses of a bid besides "winner"
  Unbinned,      \* no BIN: the lot has no winner, the contract no supplier
  CustomerOf,    \* lot -> the organization that buys
  Plan,          \* lot -> planned amount
  Paid,          \* number -> amount of the contract
  GroupRows,     \* groups a card shows (GROUP_ROWS)
  MaxNames,      \* bound: times the details name a winner
  MaxRuns        \* bound: runs of contacts-sync

ASSUME SuppliersAssumption ==
  /\ Unbinned \notin Bins
  /\ IsFiniteSet(Sold) /\ IsFiniteSet(Numbers)
  /\ Plan \in [Sold -> Nat] /\ Paid \in [Numbers -> Nat]
  /\ DOMAIN CustomerOf = Sold /\ GroupRows \in Nat
  /\ LotOf \in [Applications -> Sold] /\ BidderOf \in [Applications -> Bins]
  /\ "winner" \notin WinStatuses

VARIABLES
  lotWinner,     \* lot -> lots.winner_bin
  bid,        \* application -> status of its row of lot_bids, "none" without one
  contract,   \* <<lot, number>> -> supplier of the row of contracts, or "none"
  orgs,       \* BINs with a row in organizations
  stamped,    \* those with contacts_synced_at within the refresh period
  contacts,   \* the run of contacts-sync: what it still has to poll
  named,      \* times the details named a winner
  runs        \* runs of contacts-sync so far

suppliersVars == <<lotWinner, bid, contract, orgs, stamped, contacts, named, runs>>

\* todo: organizations still to be polled; born: rows the run has inserted and
\* not committed; ghosts: objects of rows that a rollback took back.
NotRunning == [on |-> FALSE, todo |-> {}, born |-> {}, ghosts |-> {}]

SuppliersInit ==
  /\ lotWinner = [l \in Sold |-> Unbinned]
  /\ bid = [a \in Applications |-> "none"]
  /\ contract = [p \in Sold \X Numbers |-> "none"]
  /\ orgs = {} /\ stamped = {}
  /\ contacts = NotRunning
  /\ named = 0 /\ runs = 0

Keep(l, s) == IF lotWinner[l] = Unbinned THEN s ELSE lotWinner[l]

\* A row inserted and not committed makes whoever needs the same BIN wait.

\* upsert_bid, keyed by the row of the portal, and apply_winner_from_bid.
BidArrives(a, status) ==
  LET l == LotOf[a]  s == BidderOf[a]
  IN  /\ s \notin contacts.born
      /\ bid[a] # status
      /\ bid' = [bid EXCEPT ![a] = status]
      /\ lotWinner' = [lotWinner EXCEPT ![l] = IF status = "winner" THEN Keep(l, s) ELSE @]
      /\ orgs' = orgs \cup {s}
      /\ UNCHANGED <<contract, stamped, contacts, named, runs>>

\* upsert_contract_from_api and apply_winner_from_contract: a repeated number
\* takes the supplier it comes with.
ContractArrives(l, n, s) ==
  /\ s \notin contacts.born
  /\ contract[<<l, n>>] # s
  /\ contract' = [contract EXCEPT ![<<l, n>>] = s]
  /\ lotWinner' = [lotWinner EXCEPT ![l] = Keep(l, s)]
  /\ orgs' = orgs \cup {s}
  /\ UNCHANGED <<bid, stamped, contacts, named, runs>>

\* Details overwrite the winner and make no organization.
DetailsNameWinner(l, s) ==
  /\ named < MaxNames /\ lotWinner[l] # s
  /\ lotWinner' = [lotWinner EXCEPT ![l] = s]
  /\ named' = named + 1
  /\ UNCHANGED <<bid, contract, orgs, stamped, contacts, runs>>

-----------------------------------------------------------------------------
(* orgs.supplier_condition: by BIN among winners and bidders, by key among contracts *)
Supplies(s) ==
  /\ s \in orgs
  /\ \/ \E l \in Sold : lotWinner[l] = s
     \/ \E a \in Applications : BidderOf[a] = s /\ bid[a] # "none"
     \/ \E l \in Sold, n \in Numbers : contract[<<l, n>>] = s

\* A contract's amount before the plan's; of several contracts the largest.
Amount(l) ==
  LET sums == {Paid[n] : n \in {m \in Numbers : contract[<<l, m>>] # "none"}}
  IN  IF sums = {} THEN Plan[l] ELSE Max(sums)
Total(ls) == MapThenSumSet(Amount, ls)

(* The report: it counts lots by winner_bin and rows of lot_bids by supplier_bin *)
ReportWins(s) == {l \in Sold : lotWinner[l] = s}
ReportBids(s) == {a \in Applications : BidderOf[a] = s /\ bid[a] # "none"}
Reported == {s \in Bins : ReportWins(s) \cup ReportBids(s) # {}}

\* Mutant of WinLots: contracts are forgotten.
WinLotsByBin(s) ==
  {l \in Sold : \/ lotWinner[l] = s
                \/ \E a \in Applications : LotOf[a] = l /\ BidderOf[a] = s /\ bid[a] = "winner"}

(* The card: win_lot_ids, and the losses it leaves *)
WinLots(s) ==
  {l \in Sold : \/ lotWinner[l] = s
                \/ \E a \in Applications : LotOf[a] = l /\ BidderOf[a] = s /\ bid[a] = "winner"
                \/ s \in orgs /\ \E n \in Numbers : contract[<<l, n>>] = s}

(* my_bids is keyed by the lot: two rows of one lot are one bid of the card *)
CardBids(s) == {LotOf[a] : a \in {b \in Applications : BidderOf[b] = s /\ bid[b] # "none"}}
Losses(s) == CardBids(s) \ WinLots(s)
ByCustomer(s) ==
  [c \in {CustomerOf[l] : l \in WinLots(s)} |->
     LET won == {l \in WinLots(s) : CustomerOf[l] = c}
     IN  [wins |-> Cardinality(won), total |-> Total(won),
          bids |-> Cardinality({l \in CardBids(s) : CustomerOf[l] = c})]]
\* The groups shown: the first group_rows by wins and then by total, in any order
\* where both are equal.
Ahead(g, c, d) == g[c].wins > g[d].wins \/ (g[c].wins = g[d].wins /\ g[c].total >= g[d].total)
ShownGroups(g) ==
  {cs \in SUBSET DOMAIN g :
     /\ Cardinality(cs) <= GroupRows
     /\ cs # DOMAIN g => Cardinality(cs) = GroupRows
     /\ \A c \in cs, d \in DOMAIN g \ cs : Ahead(g, c, d)}
CardFound(s) == WinLots(s) # {} \/ CardBids(s) # {} \/ s \in orgs

-----------------------------------------------------------------------------
\* orgs_to_sync: rows are made for suppliers without one, and those not asked
\* about within the refresh period are listed.
ContactsStarts ==
  /\ ~contacts.on /\ runs < MaxRuns /\ Reported \ stamped # {}
  /\ contacts' = [on |-> TRUE, todo |-> Reported \ stamped,
                  born |-> Reported \ orgs, ghosts |-> {}]
  /\ runs' = runs + 1
  /\ UNCHANGED <<lotWinner, bid, contract, orgs, stamped, named>>

\* An answer, or the answer that there is no such subject: the stamp is committed
\* with everything the session still holds.  The object of a row taken back by a
\* rollback is in no session.
ContactAnswers(s) ==
  /\ s \in contacts.todo
  /\ orgs' = orgs \cup contacts.born
  /\ stamped' = IF s \in contacts.ghosts THEN stamped ELSE stamped \cup {s}
  /\ contacts' = [contacts EXCEPT !.todo = @ \ {s}, !.born = {}]
  /\ UNCHANGED <<lotWinner, bid, contract, named, runs>>

\* One organization does not break the pass, but its rollback takes back every row
\* the run has inserted and not committed.
ContactFails(s) ==
  /\ s \in contacts.todo
  /\ contacts' = [contacts EXCEPT !.todo = @ \ {s}, !.born = {}, !.ghosts = @ \cup contacts.born]
  /\ UNCHANGED <<lotWinner, bid, contract, orgs, stamped, named, runs>>

\* The end of the run, or its death: what is not committed is gone.
ContactsEnd ==
  /\ contacts.on
  /\ contacts' = NotRunning
  /\ UNCHANGED <<lotWinner, bid, contract, orgs, stamped, named, runs>>

SuppliersNext ==
  \/ \E a \in Applications, status \in WinStatuses \cup {"winner"} : BidArrives(a, status)
  \/ \E l \in Sold, s \in Bins :
       \/ \E n \in Numbers : ContractArrives(l, n, s)
       \/ DetailsNameWinner(l, s)
  \/ ContactsStarts \/ ContactsEnd
  \/ \E s \in Bins : ContactAnswers(s) \/ ContactFails(s)

SuppliersSpec == SuppliersInit /\ [][SuppliersNext]_suppliersVars

-----------------------------------------------------------------------------
SuppliersTypeOK ==
  /\ lotWinner \in [Sold -> Bins \cup {Unbinned}]
  /\ bid \in [Applications -> WinStatuses \cup {"winner", "none"}]
  /\ contract \in [Sold \X Numbers -> Bins \cup {"none"}]
  /\ stamped \subseteq orgs /\ orgs \subseteq Bins
  /\ contacts.born \cap orgs = {}

\* The pages about suppliers tell one story of the same rows, in whatever order
\* bids, contracts and details have written them: an organization the role filter
\* calls a supplier has something on its card and the other way round; every line
\* of the report opens a card that has at least the wins the line counts, and every
\* row of a bid the report counts is on that card as a won or as a lost lot, and
\* nothing else is - the report counts the rows and the card the lots, so that the
\* two numbers differ where a supplier has several rows for one lot; the customers
\* a card shows add up to its totals when they are all shown, and to no more than
\* them when the list is cut at group_rows
\* (orgs.py, supplier_report.py, supplier_card.py, web/app.py supplier_detail).
SupplierPagesAgree ==
  \A s \in Bins :
    /\ s \in orgs => (Supplies(s) <=> WinLots(s) \cup CardBids(s) # {})
    /\ s \in Reported =>
         /\ CardFound(s)
         /\ ReportWins(s) \subseteq WinLots(s)
         /\ Total(ReportWins(s)) <= Total(WinLots(s))
         /\ {LotOf[a] : a \in ReportBids(s)} = (WinLots(s) \cap CardBids(s)) \cup Losses(s)
    /\ \A top \in ShownGroups(ByCustomer(s)) :
         LET g == ByCustomer(s)
             wins == MapThenSumSet(LAMBDA c : g[c].wins, top)
             total == MapThenSumSet(LAMBDA c : g[c].total, top)
         IN  /\ wins <= Cardinality(WinLots(s)) /\ total <= Total(WinLots(s))
             /\ Cardinality(DOMAIN g) <= GroupRows =>
                  wins = Cardinality(WinLots(s)) /\ total = Total(WinLots(s))
=============================================================================
