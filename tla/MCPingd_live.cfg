\* Liveness: two hosts, one client that may or may not read, a wall clock
\* that steps, a raw socket with other traffic.
SPECIFICATION FairDaemonSpec
CONSTANTS
  h1 = h1
  h2 = h2
  ConfHosts <- TwoHosts
  IPs = {a1, a2}
  Noise = {a1}
  Clients = {c1}
  Period = 1
  Backlog = 1
  RxCap = 1
  SockCap = 1
  Offsets = {3, 4}
  MaxTime = 3
  MayFail = FALSE
  NoIP = NoIP
  NoClient = NoClient
PROPERTIES RegularSweeps EveryClientServed
CHECK_DEADLOCK FALSE
