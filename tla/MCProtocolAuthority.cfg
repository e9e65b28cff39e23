\* Two client identities, one server identity, a malformed one, two hands.
SPECIFICATION Spec
CONSTANTS
  ClientIds = {a, b}
  ServerIds = {srv}
  MalformedIds = {bad}
  Versions = {"v3", "v4"}
  Tables = {"this", "other"}
  HandStates <- MCHandStates
  InitialHand = "first"
  Refused = "refused"
  Payloads <- MCPayloads
  ApplyCommand <- MCApply
  AdvanceHand <- MCAdvance
  MaxRecorded = 2
  MaxRevision = 2
  MaxHands = 2
  Null = Null
INVARIANTS
  AppliedOnce
  RetryNeverContradicts
  DecidedOnWhatWasSeen
PROPERTIES
  ImplementsCommandLog
CHECK_DEADLOCK FALSE
