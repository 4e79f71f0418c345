SPECIFICATION ServicesSpec
CONSTANTS
  \* the walks over the plan
  Roots = {r1, r2, r3}
  Writers = {"daily", "backfill"}
  NoResume = FALSE
  Published = 2
  Loaded = TRUE
  MaxId = 6
  PageSize = 2
  MaxPages = 2
  MaxFailures = 2
  \* the slot
  Clients = {c1, c2, c3}
  Delay = 2
  Timeout = 2
  Spare = 1
  MaxStay = 5
  Attempts = 2
  MaxRequests = 1
  \* listings and their pages
  Walkers = {v1, v2}
  MaxLot = 3
  OnPortal = {1, 2}
  Limit = 1
  PerPage = 1
  PageCap = 2
  CacheTtl = 1
  LockTtl = 1
  Patience = 1
  MaxFlight = 1
  ListingTime = 1
  \* messages about matches
  Pairs = {p1}
  Notifiers = {n1, n2}
  Rounds = {a1, a2}
  MatchRetries = 1
  MaxRetries = 1
  MaxMishaps = 1
  MaxClicks = 1
  NoPair = NoPair
  \* messages about plan points
  PlanQueries = {"q1", "q2"}
  Points = {1, 2}
  Worded <- MCWorded
  Passes = {s1, s2}
  NoQuery = NoQuery
  PointLimit = 1
  MaxToggles = 1
  \* rules of the watch list
  Processes = {"web", "worker"}
  Readers = {k1, k2}
  ProcessOf <- MCProcessOf
  Ttl = 2
  MaxBuild = 1
  MaxRuleEdits = 1
  WatchTime = 3
  \* alerts
  Codes = {deg, red, llm}
  Degraded = deg
  RedisDown = red
  Cooldown = 2
  Window = 1
  DegradedTtl = 1
  Threshold = 2
  MaxFallbacks = 3
  AlertTime = 3
  \* the button "scan"
  RunIds = {1, 2, 3}
  Requests = {q1, q2}
  StaleAfter = 1
  RunRetries = 1
  AdhocTime = 2
  \* accounts and roles
  Accounts = {u1, u2}
  Roles = {role}
  Tabs = {tab}
  Forms = {f1, f2}
  NoAccount = NoAccount
  NoRole = NoRole
  MaxForms = 5
  \* the registry of organisations
  Sessions = {x1, x2}
  Facts <- MCFacts
  NoBin = NoBin
  NoName = NoName
  MaxRows = 4
  MaxFacts = 2
  MaxTxns = 2
  \* pages of the plan
  PlanPoints = {p2, p3}
  Buyers = {"b1", "b2"}
  Words = {"it"}
  Categories = {"it"}
  Years = {1, 2}
  Prices = {2, 3}
  LastMonth = 2
  PastYear = 99
  SqlNull = SqlNull
  NoPoint = NoPoint
  PlanVersions <- MCPlanVersions
  PageForms <- MCPageForms
  UserScopes <- MCUserScopes
  Cards <- MCCards
INVARIANTS
  CleanWalkLeavesNoGap
  BackfillIsResumable
  FinishedWalkMissesNothing
  NothingIsSentTwice
  NothingStaysUnsaid
  RulesAreRecent
  OneRunAtATime
  AccessIsKept
  AttributionIsRight
  PlanPagesFit
PROPERTIES
  NeverOlder
  CrawlDelayKept
  SilenceIsEarned
CHECK_DEADLOCK FALSE
