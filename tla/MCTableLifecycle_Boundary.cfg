\* A full ring of three, entered with join and join_with_entry.
SPECIFICATION Spec
CONSTANTS
  TableSize = 3
  Players = {p1, p2, p3}
  BuyIns = {1}
  Droppable = {}
  Bookers = {}
  MissedBlinds = {}
  ChipCap = 3
  HandCap = 2
  Vacant = Vacant
  NoHand = NoHand
SYMMETRY PlayerSymmetry
INVARIANTS
  HandRosterIntact
PROPERTIES
  ChipsMoveOnlyWithSeats
CHECK_DEADLOCK FALSE
