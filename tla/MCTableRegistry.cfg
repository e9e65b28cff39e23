\* Three sessions at a ring table and a tournament, with crashes and restarts.
SPECIFICATION RegistrySpec
CONSTANTS
  Sessions = {s1, s2, s3}
  TableConfigs <- RingAndTournament
  MaxTables = 2
  WaitCap = 2
  HistoryCap = 2
  SeatRequests = {AnySeat, 0}
  Leavers = {s1, s2, s3}
  EarlyLeaves = FALSE
  TickTimes = {0, 1}
  TableCap = 2
  PlayerCap = 3
  HandCap = 2
  NoTour = NoTour
  AnySeat = AnySeat
  NoFile = NoFile
SYMMETRY SessionSymmetry
INVARIANTS
  RoutesMatchSeats
  StandingsMatchStacks
PROPERTIES
  NoOvertaking
CHECK_DEADLOCK FALSE
