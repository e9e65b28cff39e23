\* Two seats, three players, every operation.
SPECIFICATION FairSpec
CONSTANTS
  TableSize = 2
  Players = {p1, p2, p3}
  BuyIns = {1, 2}
  Droppable = {p1, p2, p3}
  Bookers = {p1, p2, p3}
  MissedBlinds = {"OwesSmallBlind", "OwesBigBlind"}
  ChipCap = 3
  HandCap = 2
  Vacant = Vacant
  NoHand = NoHand
PROPERTIES
  LeaveHappens
CHECK_DEADLOCK FALSE
