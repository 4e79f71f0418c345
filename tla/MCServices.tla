----------------------------- MODULE MCServices ------------------------------
(* What the workers and the web process do around the data, one component   *)
(* per behaviour: the components of this module share no state, so that     *)
(* interleaving them shows nothing a component alone does not show.         *)
EXTENDS MCPlanSync, Crawl, Listing, Notices, Watch, Alerts,
        AdhocRuns, Access, Registry, PlanPages

VARIABLE component  \* the one that moves in this behaviour

Components == {"plans", "crawl", "listing", "notify", "planNotify", "watch",
               "alerts", "adhoc", "access", "registry", "pages"}

(* The plan of the behaviours that are not about it.                       *)
MCSource == [i \in 1 .. Published |-> CHOOSE r \in Roots : TRUE]

(* Bound: one of the sessions runs a single transaction.                   *)
RegistryBound == \E s \in Sessions : txns'[s] <= 1

(* The component of the behaviour starts in any of its initial states, the *)
(* others in one.                                                          *)
ServicesInit ==
  /\ component \in Components
  /\ SingleInit
  /\ component # "plans" => who = "daily" /\ source = MCSource
  /\ CrawlInit
  /\ ListingInit
  /\ NotifyInit
  /\ PlanNotifyInit
  /\ WatchInit
  /\ AlertsInit
  /\ AdhocInit
  /\ AccessInit
  /\ component # "access" => accounts[CHOOSE u \in Accounts : TRUE] # Missing
  /\ RegistryInit
  /\ PlanPagesInit
  /\ component # "pages" => today = [year |-> 1, month |-> 1]

ServicesVars ==
  <<vars, who, crawlVars, listingVars, notifyVars, planNotifyVars,
  watchVars, alertsVars, adhocVars, accessVars, registryVars,
  planPagesVars, component>>

(* A step of the component leaves the others alone.                        *)
ServicesNext ==
  \/ /\ component = "plans"
     /\ SingleNext
     /\ UNCHANGED <<crawlVars, listingVars, notifyVars, planNotifyVars,
                     watchVars, alertsVars, adhocVars, accessVars,
                     registryVars, planPagesVars, component>>
  \/ /\ component = "crawl"
     /\ CrawlNext
     /\ UNCHANGED <<vars, who, listingVars, notifyVars, planNotifyVars,
                     watchVars, alertsVars, adhocVars, accessVars,
                     registryVars, planPagesVars, component>>
  \/ /\ component = "listing"
     /\ ListingNext
     /\ UNCHANGED <<vars, who, crawlVars, notifyVars, planNotifyVars,
                     watchVars, alertsVars, adhocVars, accessVars,
                     registryVars, planPagesVars, component>>
  \/ /\ component = "notify"
     /\ NotifyNext
     /\ UNCHANGED <<vars, who, crawlVars, listingVars, planNotifyVars,
                     watchVars, alertsVars, adhocVars, accessVars,
                     registryVars, planPagesVars, component>>
  \/ /\ component = "planNotify"
     /\ PlanNotifyNext
     /\ UNCHANGED <<vars, who, crawlVars, listingVars, notifyVars,
                     watchVars, alertsVars, adhocVars, accessVars,
                     registryVars, planPagesVars, component>>
  \/ /\ component = "watch"
     /\ WatchNext
     /\ UNCHANGED <<vars, who, crawlVars, listingVars, notifyVars,
                     planNotifyVars, alertsVars, adhocVars, accessVars,
                     registryVars, planPagesVars, component>>
  \/ /\ component = "alerts"
     /\ AlertsNext
     /\ UNCHANGED <<vars, who, crawlVars, listingVars, notifyVars,
                     planNotifyVars, watchVars, adhocVars, accessVars,
                     registryVars, planPagesVars, component>>
  \/ /\ component = "adhoc"
     /\ AdhocNext
     /\ UNCHANGED <<vars, who, crawlVars, listingVars, notifyVars,
                     planNotifyVars, watchVars, alertsVars, accessVars,
                     registryVars, planPagesVars, component>>
  \/ /\ component = "access"
     /\ AccessNext
     /\ UNCHANGED <<vars, who, crawlVars, listingVars, notifyVars,
                     planNotifyVars, watchVars, alertsVars, adhocVars,
                     registryVars, planPagesVars, component>>
  \/ /\ component = "registry"
     /\ RegistryNext /\ RegistryBound
     /\ UNCHANGED <<vars, who, crawlVars, listingVars, notifyVars,
                     planNotifyVars, watchVars, alertsVars, adhocVars,
                     accessVars, planPagesVars, component>>
  \/ /\ component = "pages"
     /\ PlanPagesNext
     /\ UNCHANGED <<vars, who, crawlVars, listingVars, notifyVars,
                     planNotifyVars, watchVars, alertsVars, adhocVars,
                     accessVars, registryVars, component>>

ServicesSpec == ServicesInit /\ [][ServicesNext]_ServicesVars

-----------------------------------------------------------------------------
(* Values of the constants, named as in the cfg.                           *)
MCWorded == {<<"q1", 1>>, <<"q1", 2>>, <<"q2", 2>>}

MCProcessOf == [r \in Readers |-> "worker"]

Fact(bin, name) == [bin |-> bin, name |-> name]

MCFacts == {Fact("b1", "n1"), Fact(NoBin, "n1"), Fact("b1", "n2"), Fact("b2", NoName)}

PlanPoint(year, bin, month, method, status, amount) ==
  [year |-> year, bin |-> bin, words |-> {"it"}, category |-> "it", amount |-> amount,
   month |-> month, method |-> method, status |-> status, active |-> TRUE]

(* A point of the current month, one announced, one of next January, and    *)
(* points without a status, a method, a month, an amount, or not in force.  *)
MCPlanVersions ==
  {PlanPoint(1, "b1", 1, "tender", "planned", 2), PlanPoint(1, "b1", 2, "tender", "announced", 3),
   PlanPoint(2, "b1", 1, "tender", "planned", 3), PlanPoint(1, "b1", 2, "emarket", SqlNull, 2),
   PlanPoint(1, "b2", SqlNull, SqlNull, "planned", SqlNull),
   [PlanPoint(1, "b1", 1, "tender", "planned", 3)
      EXCEPT !.active = FALSE, !.category = SqlNull]}

MCPageForms ==
  {AnyForm, [AnyForm EXCEPT !.stage = "announced", !.emarket = TRUE, !.year = 1],
   [AnyForm EXCEPT !.stage = "planned", !.month = 1, !.method = "tender",
                   !.category = "it", !.to = 2],
   [AnyForm EXCEPT !.q = "it", !.category = "other", !.from = 3, !.emarket = TRUE]}

MCUserScopes == {NoScope, [categories |-> {"it"}, min |-> 3]}
MCCards == {{"b1"}, {"b1", "b2"}}
=============================================================================
