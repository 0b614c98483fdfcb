\* One host, lost replies, clocks that differ; the span crosses the sign bit
\* of the int the ages are narrowed to.
SPECIFICATION Spec
CONSTANTS
  h1 = h1
  h2 = h2
  HostSeq <- OneHost
  Clients = {c1}
  NoReport = NoReport
  TicksPerSecond = 2
  Period = 1
  Late = 1
  RTT = 1
  MaxLoss = 1
  Latency = 1
  Delay = 1
  MaxWait = 2
  Skews <- BothWays
  TimeoutLen = 6
  IntHalf = 16
  Start = 24
  MaxTime = 41
INVARIANTS AliveIsUp DeadIsDown
PROPERTIES ServiceImplemented
CHECK_DEADLOCK FALSE
