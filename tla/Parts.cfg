INIT MCInit
NEXT MCNext
CONSTANTS
  MaxPages = 4
  Concurrency = 2
  MaxBytes = 4
  ByteShare = 2
  MaxDocuments = 3
  MaxUrls = 2
  PolitenessDelay = 1
  MaxRobotsDelay = 2
  CrawlDelays = {0, 3}
  WallClock = 2
  JobTimeout = 4
  MaxLate = 1
  MaxBody = 3
  MaxListed = 2
  Traits <- MCTraits
  Priorities = {9}
  Lastmods = {1, 3}
  Undefined = Undefined
  OutOfRange = 0
  Limit = 2
  MaxCandidates = 3
  Letters = {"a", "b"}
  Agents = {"*", "us", "them"}
  Token = "us"
  Paths = {"p"}
  Delays = {1, 2}
  MAX_RULES = 2
  MaxLines = 5
  MaxPattern = 4
  MaxTarget = 4
  Names = {"site", "www_site", "other"}
  Site <- MCSite
  Literals <- MCLiterals
  Addresses <- MCAddresses
  Ports = {"default", "other"}
  AllowedPorts = {"default"}
  MAX_REDIRECTS = 2
  Statuses = {200, 404, 403, 503}
  MaxAnswers = 2
  UrlTraits <- MCUrlTraits
  BodyTraits <- MCBodyTraits
  Sentence <- MCSentence
  PageKinds <- MCPageKinds
  Weights <- MCWeights
  MAX_MAIN_BODY_LINKS = 2
  OTHER_SECTION = 98
  BOILERPLATE_MIN_PAGES = 3
  MIN_SECTION_SIZE = 2
  MAX_PAGE_TEXT = 3
  MAX_FULL_TEXT = 9
  NOTICE_RESERVE = 2
  HEADER = 1
  Undeclared = Undeclared
  MaxFetched = 4
  DiffPages <- MCDiffPages
  Escapes <- MCEscapes
  Unknown = Unknown
  MaxPerRun = 2
  RunIds = {0, 1, 2}
  PageLimit = 1
  Step = 2
  BucketCount = 2
  Sizes = {1}
  NoRun = NoRun
  MaxInstant = 4
  OwnSites = {s1, s2}
  TriggerRequests = {q1, q2}
  ConcurrencyLimit = 1
  DailyLimit = 2
  Day = 2
  MaxLag = 0
  MaxScheduled = 1
  KeyIds = {k1, k2}
  Bearers = {b1, b2}
  RefetchInterval = 2
  RankedPages = 3
  RankedUrls = {"u1", "u2"}
  InFlight = 2
  Users = {u1, u2}
  WebsiteIds = {1, 2}
  WebsiteCalls = {c1, c2}
  SubmittedUrls <- MCSubmittedUrls
  Callers = {t1, t2}
  TokenTtl = 2
  TokenLife = 4
  MaxExchange = 1
  MaxUse = 1
  MaxTokens = 2
CONSTRAINT AskedOnce
CHECK_DEADLOCK FALSE
INVARIANTS
  LimitsHonest EveryUrlAccounted
  SelectionReconciles OrderIndependent
  GreedyMatch RulesOfOurGroups
  RequestsGoPublic PageIsTheSites
  IndexStable PagesAccounted MainBodyFilled
  UnchangedIsQuiet ChangeIsSeen
  WalkComplete StatsAddUp
  LimitsKept
  NoStampede
  OutcomeHonest
  CreateHonest
  NeverPresentedExpired
PROPERTIES StartsApart CachedNotRejected
