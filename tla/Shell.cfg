SPECIFICATION ShellSpec
CONSTANTS
  MaxName = 3
  StackCount = 4
INVARIANT EscLeadsHome
CHECK_DEADLOCK FALSE
