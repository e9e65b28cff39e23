SPECIFICATION LocalSpec
CONSTANTS
  BuyIn = 3
  SmallBlind = 1
  BigBlind = 2
  MaxActions = 2
  NoDecision = NoDecision
  Clouds = {"Openai"}
  Withdrawals = {2}
  CoveredRevisions = {1}
  Keys = {"k1"}
  Drafts <- MCDrafts
  InitialSettings <- MCInitial
  MaxRequests = 1
  MaxSolvers = 1
  MaxDeals = 2
  MaxCash = 1
  Never = Never
  Nobody = Nobody
  NoEvent = NoEvent
  Nil = Nil
  Closed = Closed
  Null = Null
  NoOffer = NoOffer
  Installed = 2
  ReleaseLists <- MCReleases
  MaxInstalls = 2
  MaxTurns = 2
  Polls = 1
  NoKey = NoKey
  Unasked = Unasked
  Overhead = 1
  MaxOutput = 2
  TestOutput = 1
  RequestLimit = 2
  Computers <- MCComputers
  Bodies = {2, 9}
  BodyLimit = 8
  ProviderReplies <- MCReplies
  MaxEdits = 3
  MaxDecisions = 1
  SetLength = 2
  MaxReplays = 2
  MaxRecords = 3
  MaxSets = 1
  Combos <- MCCombos
  ActionCount = 2
  MaxThreads = 3
  Seated = {"s0", "s1"}
  Strangers = {"guest"}
  Lineups <- MCLineups
  AtTerminal = {"s1"}
  ConnectionLimit = 2
  BufferCapacity = 2
  ExitAfterHand = TRUE
  HandsWanted = 2
  LastRevision = 1
  MaxLinks = 3
  MaxDrops = 1
  SeatNames <- MCSeatNames
  QuickStack = 1
  UpdateBuffer = 2
  MaxEvents = 2
  MaxWarnings = 2
  MaxPracticeHands = 3
  Entrants = {"p1", "p2", "p3"}
  TournamentConfigs <- MCCups
  StartingStack = 2
  Elapsed = {1, 5}
INVARIANTS
  ReviewsBelong
  BooksBalance
  HeadsUpSound
  PracticeAddsUp
  ExecutableSurvives
  ReviewKeepsResults
  StandingsExact
  HeardAndToldTruly
  DealtAsPlanned
  JudgedAsPlayed
  ShownIsSelected
  SeatsServed
  CloudWithinTerms
  WindowLetGo
CHECK_DEADLOCK FALSE
