SPECIFICATION FairSpec
CONSTANTS
  q1 = q1
  MaxTurns = 2
  Ask = {q1}
  MaxBuffered = 1
  MaxPending = 1
  Budgets <- MCBudgets
  MaxDeaths = 1
CHECK_DEADLOCK FALSE
INVARIANTS
  OwnActivity
  ApprovalsOfActiveTurn
PROPERTIES
  ImplementsTurnStream
  TurnsEnd
  InterruptsAreHeard
