\* Two hands of two revisions, a buffer of two updates.
SPECIFICATION RemoteFairSpec
CONSTANTS
  Null = Null
  BufferCapacity = 2
  MaxRevision = 2
  MaxStream = 1
  MaxHands = 2
  MaxDrops = 1
  MaxSnapshots = 1
  MaxCommands = 2
INVARIANTS
  CaughtUp
PROPERTIES
  CommandDecided
CHECK_DEADLOCK FALSE
