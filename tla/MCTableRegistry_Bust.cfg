\* Three seats and one player who loses the last chip.
SPECIFICATION RegistrySpec
CONSTANTS
  Sessions = {s1, s2, s3}
  TableConfigs <- WideRing
  MaxTables = 1
  WaitCap = 2
  HistoryCap = 2
  SeatRequests = {AnySeat, 0}
  Leavers = {}
  EarlyLeaves = FALSE
  TickTimes = {0, 1}
  TableCap = 1
  PlayerCap = 3
  HandCap = 2
  NoTour = NoTour
  AnySeat = AnySeat
  NoFile = NoFile
SYMMETRY SessionSymmetry
INVARIANTS
  SweepSucceeds
CHECK_DEADLOCK FALSE
