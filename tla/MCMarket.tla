------------------------------ MODULE MCMarket -------------------------------
(* What becomes of runs, lots, their documents, bids and contracts, one      *)
(* component per behaviour, as in MCServices.                               *)
EXTENDS MCDetailFanout, Lots, Matching, Bids, Analysis, Suppliers, Storefront,
        Documents, FinalPost

VARIABLE component  \* the one that moves in this behaviour

Components == {"fanout", "lots", "matching", "bids", "analysis",
               "suppliers", "storefront", "documents", "post"}

First(S) == CHOOSE x \in S : TRUE

(* Idle walkers are alike, and so are idle workers: when all of them are    *)
(* idle, it is the first that moves.                                        *)
WalkersInOrder ==
  (\A w \in Walkers : walk[w] = IdleWalk)
    => \A w \in Walkers \ {First(Walkers)} : walk'[w] = IdleWalk

WorkersInOrder ==
  (\A w \in Workers : work[w] = None)
    => \A w \in Workers \ {First(Workers)} : work'[w] = None

(* Bounds: the status of one lot changes; a listing-only scan, if any, is   *)
(* the walk that begins first.                                              *)
LotsBound ==
  /\ \E l \in LotIds : portal'[l] = 1
  /\ \A w \in Walkers \ {First(Walkers)} : walk'[w].deep

(* Bounds: the older of the lots stays actual and is analysed first; a       *)
(* request to edit is open only while the bound on edits leaves it a commit. *)
MatchBound ==
  /\ 1 \in actual' /\ analyzed'[2] <= analyzed'[1]
  /\ edits' = MaxEdits => \A e \in Editors : editor'[e] = None

(* Bound: no attempt of a run grows older; fanout_faults lets them.          *)
FanoutBound == age' = age

(* Bound: not both the button and `reanalyze` in a behaviour.               *)
AnalysisBound == batches' = 0 \/ \A b \in Buttons : call'[b] = IdleCaller

(* Two lots whose specifications are alike (MCNear).                       *)
MCTexts == [l \in Briefed |-> IF l = "l1" THEN "t1" ELSE "t2"]

(* The component of the behaviour starts in any of its initial states, the *)
(* others in one.                                                          *)
MarketInit ==
  /\ component \in Components
  /\ Init
  /\ LotsInit
  /\ \A a \in LotAnnos : anno[a] = IF a = First(LotAnnos) THEN "full" ELSE "none"
  /\ MatchInit
  /\ component # "matching" => query.filter = NoFilter
  /\ BidsInit
  /\ component # "bids" => ours = [l \in BidLots |-> 0]
  /\ AnalysisInit /\ (\A l \in Briefed : papers[l][1].text = MCTexts[l])
  /\ component # "analysis" => \A l \in Briefed : brief[l] = NoBrief
  /\ SuppliersInit
  /\ StorefrontInit
  /\ DocumentsInit
  /\ PostInit
  /\ component # "post" => via = "fire"

MarketVars ==
  <<vars, lotsVars, matchVars, bidsVars, analysisVars,
  suppliersVars, storefrontVars, documentsVars, postVars,
  component>>

(* A step of the component leaves the others alone.                        *)
MarketNext ==
  \/ /\ component = "fanout"
     /\ Next /\ FanoutBound
     /\ UNCHANGED <<lotsVars, matchVars, bidsVars, analysisVars,
                     suppliersVars, storefrontVars, documentsVars,
                     postVars, component>>
  \/ /\ component = "lots"
     /\ LotsNext /\ WalkersInOrder /\ LotsBound
     /\ UNCHANGED <<vars, matchVars, bidsVars, analysisVars,
                     suppliersVars, storefrontVars, documentsVars,
                     postVars, component>>
  \/ /\ component = "matching"
     /\ MatchNext /\ WorkersInOrder /\ MatchBound
     /\ UNCHANGED <<vars, lotsVars, bidsVars, analysisVars, suppliersVars,
                     storefrontVars, documentsVars, postVars, component>>
  \/ /\ component = "bids"
     /\ BidsNext
     /\ UNCHANGED <<vars, lotsVars, matchVars, analysisVars,
                     suppliersVars, storefrontVars, documentsVars,
                     postVars, component>>
  \/ /\ component = "analysis"
     /\ AnalysisNext /\ AnalysisBound
     /\ UNCHANGED <<vars, lotsVars, matchVars, bidsVars, suppliersVars,
                     storefrontVars, documentsVars, postVars, component>>
  \/ /\ component = "suppliers"
     /\ SuppliersNext
     /\ UNCHANGED <<vars, lotsVars, matchVars, bidsVars, analysisVars,
                     storefrontVars, documentsVars, postVars, component>>
  \/ /\ component = "storefront"
     /\ StorefrontNext
     /\ UNCHANGED <<vars, lotsVars, matchVars, bidsVars, analysisVars,
                     suppliersVars, documentsVars, postVars, component>>
  \/ /\ component = "documents"
     /\ DocumentsNext
     /\ UNCHANGED <<vars, lotsVars, matchVars, bidsVars, analysisVars,
                     suppliersVars, storefrontVars, postVars, component>>
  \/ /\ component = "post"
     /\ PostNext
     /\ UNCHANGED <<vars, lotsVars, matchVars, bidsVars, analysisVars,
                     suppliersVars, storefrontVars, documentsVars,
                     component>>

MarketSpec == MarketInit /\ [][MarketNext]_MarketVars

-----------------------------------------------------------------------------
(* Values of the constants, named as in the cfg.                           *)
MCAnnoOf == CHOOSE f \in [LotIds -> LotAnnos] : \A a \in LotAnnos : \E l \in LotIds : f[l] = a

MCPass == [f \in Filters |-> IF f = NoFilter THEN Lots ELSE {1}]
MCSql  == [f \in Filters |-> Lots]

MCAnnoOfLot == [l \in BidLots |-> IF l = "l1" THEN "a1" ELSE "a2"]
MCDeadline  == [a \in BidAnnos |-> 1]

(* t2 is like the other two, which are unlike each other.                  *)
MCNear == {p \in Texts \X Texts : p[1] = p[2] \/ "t2" \in {p[1], p[2]}}

MCLotOf == [a \in Applications |-> IF a = "a3" THEN "l2" ELSE "l1"]
(* Two rows of one supplier for one lot, and a rival's for another.          *)
MCBidderOf == [a \in Applications |-> IF a = "a3" THEN "b2" ELSE "b1"]
MCCustomerOf == [l \in Sold |-> IF l = "l1" THEN "c1" ELSE "c2"]
MCPlan == [l \in Sold |-> 5]
MCPaid == [n \in Numbers |-> 2 * n]

User(admin, active, regions, categories, min) ==
  [admin |-> admin, active |-> active, regions |-> regions,
   categories |-> categories, min |-> min]
MCScopes == {User(FALSE, TRUE, {}, {}, Null), User(FALSE, TRUE, {"k1"}, {}, Null),
             User(FALSE, TRUE, {}, {"it"}, Null), User(FALSE, TRUE, {"k1"}, {"it"}, 2),
             User(TRUE, TRUE, {"k1"}, {"it"}, 2), User(FALSE, FALSE, {}, {"it"}, Null)}

Filter(categories, codes, keywords, max) ==
  [categories |-> categories, codes |-> codes, keywords |-> keywords, max |-> max]
MCFilters == {AnyLot, Filter({"med"}, {}, FALSE, Null), Filter({}, {"26"}, FALSE, 1),
              Filter({}, {}, TRUE, Null), Filter({"it"}, {"26"}, TRUE, 1)}

MCNameOf == [u \in Urls |-> IF u = "u3" THEN "n2" ELSE "n1"]
=============================================================================
