\* Seven ways to name the libraries, each with five advices; two sessions,
\* both builds.  Documents of at most two declarations and other features of
\* the DTD, content models of six tokens, content of two tags and references.
SPECIFICATION BundledSpec
CONSTANTS
  Null = Null
  Self = Self
  Readable <- MCReadable
  Loadable <- MCLoadable
  Preloaded <- MCPreloaded
  LoaderModule <- MCLoaderModule
  La <- MCLa
  EnvPath <- MCEnvPath
  ObjDir <- MCObjDir
  Builds = {TRUE, FALSE}
  Requests <- MCRequests
  Pinned <- MCPinned
  Dirs = {"d2"}
  MaxPath = 1
  Symbols <- MCSymbols
  MaxOpens = 3
  MaxSessions = 2
  MaxRef = 4
  PrologTokens <- MCPrologTokens
  Words <- MCWords
  ContentTokens <- MCContentTokens
  Text <- MCText
  Malformed = {"bad"}
  Predefined = {"lt"}
  ContentModels <- MCContentModels
  ModelPrefixes <- MCModelPrefixes
  GROUP_SIZE = 2
  MaxFeatures = 2
  MaxAtts = 1
  MaxLevel = 2
  MaxModel = 6
  MaxWord = 9
  MaxCalls = 2
  None = None
INVARIANTS RefCounts ModelsConform HandlersTold
PROPERTIES ExitCloses FirstBinds
CHECK_DEADLOCK FALSE
