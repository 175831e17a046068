SPECIFICATION FairSpec
CONSTANTS
  h1 = h1
  h2 = h2
  d1 = d1
  d2 = d2
  home = home
  elsewhere = elsewhere
  e1 = e1
  e2 = e2
  e3 = e3
  i1 = i1
  i2 = i2
  HostSocket = {h1, h2}
  DeviceSocket = {d1, d2}
  None = None
  Route = {home, elsewhere}
  Home = home
  Delete = {e1, e2, e3}
  DeleteOf <- MCDeleteOf
  MaxQueued = 1
  MaxTracked = 2
  MaxRelayStarts = 2
  Rpc = {i1, i2}
  Budgets <- MCBudgets
CHECK_DEADLOCK FALSE
INVARIANTS
  RolesAreHeldByPeers
  OneRegistrationPerTicket
  RetiredForGood
  PeersAreTold
PROPERTIES
  ImplementsRemoteCall
  ConnectorLetsGo
  RolesAreFreed
