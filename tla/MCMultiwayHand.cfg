\* Up to four seats with uneven stacks, some returning with blind debts, at
\* ring-game blinds and at a tournament level whose ante exhausts stacks.
SPECIFICATION MCSpec
CONSTANTS
  TableSize = 4
  StackChoices = {1, 3, 5}
  Buttons = {0}
  BlindLevels <- AllBlinds
  Debts = {"Clear", "OwesBoth"}
  Strengths = {1, 2}
  Showers = {1}
INVARIANTS
  AwardsEarned
  PoliciesStayLegal
  ViewsHonest
  FullRaiseReopens
  NoEarlyExposure
PROPERTIES
  HandAdvances
CHECK_DEADLOCK FALSE
