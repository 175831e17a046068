SPECIFICATION FairSpec
CONSTANTS
  Messages = 2
  Class <- MCClass
  Nearby <- MCNearby
  Imported = "claude"
  Other = "hermes"
  Replacing = {"hermes"}
  Budgets <- MCBudgets
CHECK_DEADLOCK FALSE
INVARIANTS
  LedgerNamesOneEventEach
  CursorsCoverWhatWasGiven
PROPERTIES
  RefreshReportsTheTruth
  EachMessageShownOnce
