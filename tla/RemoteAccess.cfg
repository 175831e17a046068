SPECIFICATION FairSpec
CONSTANTS
  p1 = p1
  p2 = p2
  q1 = q1
  q2 = q2
  Phone = {p1}
  NoPhone = NoPhone
  Mac = Mac
  Request = {q1}
  MaxRoutes = 2
  MaxStarts = 2
  MaxFailures = 1
  MaxRepairs = 1
CHECK_DEADLOCK FALSE
INVARIANTS
  PendingMeansWithdrawn
  PairingHasItsCredential
  ActiveMeansPaired
  AcceptedOnce
PROPERTIES
  ForgottenOnlyWhenRetired
  NothingAfterFarewell
  RemovalCompletes
