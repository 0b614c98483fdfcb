\* One handle, two servers, three nodes: a hosts file or genders database with
\* two of them, or no cluster list module.  The process may crash over a list it kept.
SPECIFICATION Spec
CONSTANTS
  n1 = n1
  n2 = n2
  n3 = n3
  long = long
  s1 = s1
  s2 = s2
  Handles = {h1}
  Names = {n1, n2, n3, long}
  Short <- ShortNames
  Backends = {"pingd", "ganglia", "cerebro"}
  Listers = {"default", "hostsfile", "genders"}
  HostTags <- Tags
  Targets <- Failover
  HostsFiles <- TwoNodes
  MayEdit = FALSE
  MayTruncate = FALSE
  MayPassNull = FALSE
  MayList = TRUE
  NoFile = NoFile
  NoList = NoList
  NoHandle = NoHandle
INVARIANTS ExactlyTheCluster ListedIsKnown
CHECK_DEADLOCK FALSE
