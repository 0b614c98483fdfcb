\* Two handles sharing the modules, any cluster list, several servers.
SPECIFICATION FairSpec
CONSTANTS
  n1 = n1
  n2 = n2
  n3 = n3
  long = long
  s1 = s1
  s2 = s2
  Handles = {h1, h2}
  Names = {n1}
  Short <- ShortNames
  Backends = {"pingd", "cerebro"}
  Listers = {"default", "hostsfile", "genders"}
  HostTags <- Tags
  Targets <- TwoServers
  HostsFiles <- AnyFile
  MayEdit = TRUE
  MayTruncate = TRUE
  MayPassNull = TRUE
  MayList = FALSE
  NoFile = NoFile
  NoList = NoList
  NoHandle = NoHandle
INVARIANTS LtdlBalanced NothingLeftBehind
PROPERTIES LoadEnds
