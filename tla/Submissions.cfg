SPECIFICATION Spec
CONSTANTS
  r1 = r1
  r2 = r2
  r3 = r3
  r4 = r4
  c1 = c1
  c2 = c2
  p1 = p1
  p2 = p2
  m1 = m1
  b1 = b1
  b2 = b2
  s1 = s1
  claude = claude
  codex = codex
  Request = {r1, r2, r3}
  Conversation = {c1}
  Project = {p1}
  Provider = {codex}
  Switch = {}
  Message = {m1}
  Body = {b1, b2}
  ConvOf <- MCConvOf
  MessageOf <- MCMessageOf
  BodyOf <- MCBodyOf
  ProjectOf <- MCProjectOf
  SwitchConv <- MCSwitchConv
  Overlap <- MCOverlap
  None = None
  MaxCrashes = 1
CHECK_DEADLOCK FALSE
INVARIANTS
  RowsFollowTheLog
  AnswersComeFromTheRecord
  TurnsReadInOrder
  ActiveTurnsNameTheTurnInFlight
  CompletedTurnsHoldNoLease
