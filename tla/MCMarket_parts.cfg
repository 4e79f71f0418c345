SPECIFICATION MarketSpec
CONSTANTS
  \* a run and its counter
  Annos = {x1, x2, x3}
  MaxRetries = 1
  ListingRetries = 1
  SameRun = FALSE
  Faults <- CountedFaults
  MaxFaults = 0
  TimeLimit = 1
  StaleAfter = 2
  NoKey = NoKey
  \* walks over the listing, and details
  LotIds = {l1, l2}
  LotAnnos = {a1, a2}
  AnnoOf <- MCAnnoOf
  Stages = 2
  ActualStatuses = {1}
  Walkers = {v1, v2}
  StubLimit = 1
  MaxWalks = 2
  MaxLosses = 1
  \* queries and their matches
  Lots = {1, 2}
  Visible = {1, 2}
  Filters = {"none", "narrow"}
  NoFilter = "none"
  Sql <- MCSql
  Pass <- MCPass
  Limit = 1
  Editors = {e1}
  Workers = {w1, w2}
  MatchRetries = 1
  MaxEdits = 1
  MaxAnalyses = 1
  MatchFaults = 1
  \* bids and awards
  BidAnnos = {"a1", "a2"}
  BidLots = {"l1", "l2"}
  AnnoOfLot <- MCAnnoOfLot
  Deadline <- MCDeadline
  Suppliers = {s1}
  Grace = 1
  Recheck = 0
  BidHorizon = 6
  PollLimit = 1
  LastDay = 5
  MaxPollErrors = 1
  NoOne = NoOne
  \* analyses of lots
  Briefed = {"l1", "l2"}
  Texts = {"t1", "t2", "t3"}
  Near <- MCNear
  Certain = {"t3"}
  Actors = {"actor"}
  Buttons = {"button"}
  NoLot = NoLot
  NoBrief = NoBrief
  NoHash = NoHash
  BatchLimit = 1
  MaxTexts = 1
  MaxAnswers = 2
  MaxUnfit = 1
  MaxBatches = 1
  \* pages about suppliers
  Sold = {"l1", "l2"}
  Bins = {"b1", "b2"}
  Applications = {"a1", "a2", "a3"}
  LotOf <- MCLotOf
  BidderOf <- MCBidderOf
  GroupRows = 1
  Numbers = {1}
  WinStatuses = {"second"}
  Unbinned = Unbinned
  CustomerOf <- MCCustomerOf
  Plan <- MCPlan
  Paid <- MCPaid
  MaxNames = 1
  MaxRuns = 1
  \* lists and pages of a client
  Regions = {"k1"}
  Verticals = {"it", "med"}
  Codes = {"26"}
  Amounts = {1, 2}
  Null = Null
  ScopeForms <- MCScopes
  FilterForms <- MCFilters
  \* downloads
  Urls = {"u1", "u2", "u3"}
  NameOf <- MCNameOf
  Fetchers = {"d1", "d2"}
  RetentionLimit = 1
  MaxFetches = 2
  MaxPasses = 1
  \* the final POST
  Retries = 1
INVARIANTS
  CleanRunIsComplete
  StatusesAgree
  ChangeReachesDetails
  MatchesAreTrue
  NothingIsForgotten
  CountIsTrue
  AwardIsSeen
  BriefsFitTheirTexts
  SupplierPagesAgree
  ListsAgreeWithPages
  WholeFiles
  OnePost
PROPERTIES
  ProgressForward
  ImplementsBarrier
CHECK_DEADLOCK FALSE
