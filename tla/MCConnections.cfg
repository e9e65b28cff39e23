\* Two clients, two workers, a ring of three seats or a tournament of two, restarts.
SPECIFICATION NetworkSpec
CONSTANTS
  Clients = {k1, k2}
  Workers = {w1, w2}
  SeatCount = 3
  Entrants = 2
  MaxGuests = 3
  MaxTokens = 2
  MaxHands = 2
  VaultCapacity = 2
  NoFile = NoFile
SYMMETRY NetworkSymmetry
INVARIANTS
  CleanupIsExact
  CredentialsSingleUse
CHECK_DEADLOCK FALSE
