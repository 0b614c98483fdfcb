\* Five sets of modules, eighteen lists of options and five ways to name two nodes;
\* any snapshots in up to four polls of the log.
SPECIFICATION Spec
CONSTANTS
  n1 = n1
  n2 = n2
  Nodes = {n1, n2}
  Dirs <- MCDirs
  CommandLines <- MCCommandLines
  GetLists <- MCGetLists
  Conversions <- MCConversions
  Builtin <- MCBuiltin
  OwnLongs <- MCOwnLongs
  OptionsLen = 14
  LongOptionsLen = 10
  MaxPolls = 4
  Null = Null
INVARIANTS ExactAnswer LogReplays ModulesHeld
CHECK_DEADLOCK FALSE
