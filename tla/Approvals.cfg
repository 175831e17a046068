SPECIFICATION FairSpec
CONSTANTS
  a1 = a1
  a2 = a2
  a3 = a3
  claudeTurn = claudeTurn
  otherTurn = otherTurn
  Approval = {a1, a2, a3}
  Turn = {claudeTurn, otherTurn}
  TurnOf <- MCTurnOf
  Bridged = {claudeTurn}
  Deniable <- MCDeniable
  MaxCrashes = 1
CHECK_DEADLOCK FALSE
INVARIANTS
  AllowedOnlyByDecision
  OneOutcomePerApproval
  OutcomesReachTheLog
PROPERTIES
  ImplementsConsent
  ProviderHearsOneAnswer
  ApprovalsSettle
