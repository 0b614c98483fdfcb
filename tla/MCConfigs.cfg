\* Written files for every caller, arbitrary ones of short lines for pingd.
SPECIFICATION Spec
CONSTANTS
  Size = 3
  Tables <- MCTables
  Files <- MCFiles
  Number <- MCNumber
  Decimals = {"1.5"}
  TrueWords = {"yes"}
  FalseWords = {"no"}
  Upper <- MCUpper
  INT_MOD = 64
  CONFFILE_MAX_LINELEN = 40
  CONFFILE_MAX_OPTIONNAMELEN = 4
  CONFFILE_MAX_ARGS = 3
  CONFFILE_MAX_ARGLEN = 5
  Builds = {"debug", "ndebug"}
  Argvs <- MCArgvs
  Installs <- MCInstalls
  HostsTexts <- MCHostsTexts
  GendersDbs <- MCGendersDbs
  Foreign <- MCForeign
  NoHosts = NoHosts
  Ranges <- MCRanges
  Quads <- MCQuads
  Defaults <- MCDefaults
  PORT_MAX = 20
  MAXHOSTNAMELEN = 4
  HOSTSFILE_PARSE_BUFLEN = 10
  Arguments <- MCArguments
  Directories <- MCDirectories
  Unloadable = {"backend_ganglia"}
  Lacks <- MCLacks
  ConfigModules <- MCConfigModules
  BackendDefaults <- MCBackendDefaults
  NoName = NoName
  HOSTNAMES_MAX = 2
  NODEUPDOWN_MAXHOSTNAMELEN = 2
INVARIANTS ReadAsWritten Configured
