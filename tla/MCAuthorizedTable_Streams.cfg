\* Two sessions that compete for seat 1 or watch, the short hand.
SPECIFICATION Spec
VIEW WithoutReply
SYMMETRY SessionSymmetry
CONSTANTS
  ClientIds = {a}
  ServerIds <- MCServerIds
  MalformedIds = {}
  Versions = {"v4"}
  Tables = {"this"}
  HandStates <- MCShortStates
  InitialHand = "first"
  Refused = "refused"
  Payloads <- MCShortPayloads
  ApplyCommand <- MCShortApply
  AdvanceHand <- MCShortAdvance
  MaxRecorded = 2
  MaxRevision = 1
  Null = Null
  Sessions = {p, q}
  Seats = {1, 2}
  Dealt = {1}
  Spectator = Spectator
  Unbound = Unbound
  Nobody = 0
  Actions = {"check1"}
  SeatOf <- MCShortSeatOf
  ToAct <- MCShortToAct
  CanCheck = {"first"}
  CheckOf <- MCShortDefault
  FoldOf <- MCShortDefault
  TimeoutId <- MCTimeoutId
  TimeoutTicks = 2
  WarningTicks = 1
  BufferCapacity = 2
  MaxLate = 1
  MaxStream = 2
INVARIANTS
  SubscriberIsCurrent
CHECK_DEADLOCK FALSE
