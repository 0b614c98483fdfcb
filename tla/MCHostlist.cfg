SPECIFICATION FairSpec
CONSTANTS
  Hosts <- MCHosts
  Strings <- MCStrings
  Iters = {i1}
  Base = 4
  MaxRange = 3
  MaxHosts = 4
  Null = Null
INVARIANTS WellFormed OrderKept RangedRoundTrip QueriesAgree
PROPERTIES HostlistImplemented LoopsEnd
