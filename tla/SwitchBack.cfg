SPECIFICATION Spec
CONSTANTS
  Messages = 3
  Class <- MCClass
  Nearby <- MCNearby
  Imported = "claude"
  Other = "codex"
  Replacing = {}
  Budgets <- MCFaultless
CHECK_DEADLOCK FALSE
INVARIANTS
  CursorsFollowAcceptance
