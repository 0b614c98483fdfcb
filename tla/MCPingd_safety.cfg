\* Two hosts, one client, a wall clock that steps, calls that may fail.
SPECIFICATION Spec
CONSTANTS
  h1 = h1
  h2 = h2
  ConfHosts <- TwoHosts
  IPs = {a1, a2}
  Noise = {a1}
  Clients = {c1}
  Period = 1
  Backlog = 1
  RxCap = 1
  SockCap = 1
  Offsets = {3, 9}
  MaxTime = 3
  MayFail = TRUE
  NoIP = NoIP
  NoClient = NoClient
INVARIANTS NoSweepOverslept Inv
PROPERTIES SweepSpacing ServiceImplemented
CHECK_DEADLOCK FALSE
