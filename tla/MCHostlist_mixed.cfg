SPECIFICATION FairSpec
CONSTANTS
  Hosts <- MCHosts
  Strings <- MixedStrings
  Iters = {i1}
  Base = 4
  MaxRange = 3
  MaxHosts = 5
  Null = Null
INVARIANT AssertionsHold
