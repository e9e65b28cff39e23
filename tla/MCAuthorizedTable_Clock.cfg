\* The clock is fair; one session, two decisions, one command identity.
SPECIFICATION FairSpec
CONSTANTS
  ClientIds = {a}
  ServerIds <- MCServerIds
  MalformedIds = {}
  Versions = {"v4"}
  Tables = {"this"}
  HandStates <- MCHandStates
  InitialHand = "first"
  Refused = "refused"
  Payloads <- MCPayloads
  ApplyCommand <- MCApply
  AdvanceHand <- MCAdvance
  MaxRecorded = 2
  MaxRevision = 2
  Null = Null
  Sessions = {p}
  Seats = {1, 2, 3}
  Dealt = {1, 2}
  Spectator = Spectator
  Unbound = Unbound
  Nobody = 0
  Actions <- MCActs
  SeatOf <- MCSeatOf
  ToAct <- MCToAct
  CanCheck = {"first"}
  CheckOf <- MCCheckOf
  FoldOf <- MCFoldOf
  TimeoutId <- MCTimeoutId
  TimeoutTicks = 2
  WarningTicks = 1
  BufferCapacity = 1
  MaxLate = 0
  MaxStream = 0
INVARIANTS
  ClockNotExtended
  HistoryComplete
PROPERTIES
  NoEarlyTimeout
  TurnEnds
  ImplementsAuthority
CHECK_DEADLOCK FALSE
