-------------------------- MODULE NodeupdownConfig --------------------------
(***************************************************************************)
(* The beginning of nodeupdown_load_data: the configuration file (parsed   *)
(* by Conffile), the search for the three modules, and the port, timeout   *)
(* and servers that come of the argument, the file, the config module and  *)
(* the backend, in this order.  What else these steps do, and how they     *)
(* fail, is in the module Nodeupdown, which goes on from there.            *)
(***************************************************************************)
EXTENDS Conffile

CONSTANTS
  Arguments,      \* arguments of the load: [hostname, port, timeout_len, module]
  Directories,    \* module files of the build and the module directory
  Unloadable,     \* files that are no module, or lack its structure
  Lacks,          \* the functions the structures of the others lack
  ConfigModules,  \* what the load_config of a config module may set
  BackendDefaults,\* of each backend file: port, timeout_len, preferred, hostname
  NoName,         \* NULL for a string
  HOSTNAMES_MAX, NODEUPDOWN_MAXHOSTNAMELEN

VARIABLES
  arg,          \* the arguments
  directory,    \* what is installed
  loaded,       \* the files of the three modules; NoName: none or the default
  fileconf,     \* conffile_config
  moduleconf,   \* module_config
  setting,      \* port, timeout_len and servers, once decided
  errnum        \* the handle's

nvars == <<arg, directory, loaded, fileconf, moduleconf, setting, errnum>>

IsLibrary == caller = "libnodeupdown"

(* A struct nodeupdown_config after memset. *)
NoConfig == [hostnames |-> <<>>, port |-> 0, timeout_len |-> 0, flags |-> {}]

LoadInit ==
  /\ arg \in ForCaller("libnodeupdown", Arguments)
  /\ directory \in ForCaller("libnodeupdown", Directories)
  /\ loaded = [backend |-> NoName, clusterlist |-> NoName, config |-> NoName]
  /\ fileconf = NoConfig /\ moduleconf = NoConfig
  /\ setting = [port |-> 0, timeout_len |-> 0, servers |-> <<>>]
  /\ errnum = "success"

Continue(next) ==
  /\ pc' = next
  /\ UNCHANGED <<caller, cf, unread, linebuf, counts, data, written, delivered>>

LoadFails(e) ==
  /\ errnum' = e
  /\ Continue("unloaded")
  /\ UNCHANGED <<arg, directory, loaded, fileconf, moduleconf, setting>>

(* _read_conffile *)
ReadConffile ==
  /\ IsLibrary /\ pc = "load"
  /\ \E found \in Files["libnodeupdown"] : Setup(found)
  /\ UNCHANGED nvars

(* _cb_hostnames *)
CbHostnames ==
  /\ IsLibrary /\ pc = "callback"
  /\ options[data.option].name = <<"hostnames">>
  /\ IF \/ Len(data.value) > HOSTNAMES_MAX
        \/ \E h \in ToSet(data.value) : Len(h) > NODEUPDOWN_MAXHOSTNAMELEN
     THEN ReturnError("success") /\ UNCHANGED nvars
     ELSE /\ fileconf' = [fileconf EXCEPT !.hostnames = data.value,
                                          !.flags = @ \cup {"hostnames"}]
          /\ Return
          /\ UNCHANGED <<arg, directory, loaded, moduleconf, setting, errnum>>

(* conffile_int; the flags are the counts. *)
CbSetting ==
  /\ IsLibrary /\ pc = "callback"
  /\ \E s \in {"port", "timeout_len"} :
       /\ options[data.option].name = <<s>>
       /\ fileconf' = [fileconf EXCEPT ![s] = data.value[1], !.flags = @ \cup {s}]
  /\ Return
  /\ UNCHANGED <<arg, directory, loaded, moduleconf, setting, errnum>>

ReadConffileEnd ==
  /\ IsLibrary /\ pc \in {"parsed", "failed"}
  /\ IF pc = "parsed" \/ cf.errnum = "exist"
     THEN Continue("find_backend") /\ UNCHANGED nvars
     ELSE LoadFails(IF cf.errnum \in ParseErrs THEN "conf_parse" ELSE "conf_internal")
-----------------------------------------------------------------------------
(***************************************************************************)
(* _find_module: the first file of the list that loads, from the build     *)
(* directory, then from the module directory; otherwise any file of the    *)
(* module directory with the signature, in the order of readdir.           *)
(***************************************************************************)
BackendFiles == DOMAIN BackendDefaults
ClusterlistFiles == {"clusterlist_gendersllnl", "clusterlist_genders",
                     "clusterlist_hostsfile", "clusterlist_other"}
ConfigFiles == DOMAIN ConfigModules

BackendCallback(file) ==
  Lacks[file] \cap {"name", "default_hostname", "default_port",
                    "default_timeout_len", "preferred_clusterlist_module",
                    "setup", "cleanup", "get_updown_data"} = {}
ClusterlistCallback(file) ==
  Lacks[file] \cap {"name", "setup", "cleanup", "get_numnodes",
                    "is_node_in_cluster", "get_nodename",
                    "compare_to_clusterlist"} = {}
ConfigCallback(file) ==
  Lacks[file] \cap {"name", "setup", "cleanup", "load_config"} = {}

Callback(file) ==
  CASE file \in BackendFiles -> BackendCallback(file)
    [] file \in ClusterlistFiles -> ClusterlistCallback(file)
    [] OTHER -> ConfigCallback(file)

Loads(dir, file) ==
  file \in directory[dir] /\ file \notin Unloadable /\ Callback(file)

FirstOf(dir, list) ==
  LET ks == {k \in DOMAIN list : Loads(dir, list[k])}
  IN  IF ks = {} THEN NoName ELSE list[Min(ks)]

FindModule(list, signature) ==
  IF FirstOf("builddir", list) # NoName THEN {FirstOf("builddir", list)}
  ELSE IF FirstOf("moduledir", list) # NoName THEN {FirstOf("moduledir", list)}
  ELSE LET any == {f \in directory["moduledir"] \cap signature : Loads("moduledir", f)}
       IN  IF any = {} THEN {NoName} ELSE any

backend_modules == <<"backend_cerebro", "backend_ganglia", "backend_pingd">>
clusterlist_modules == <<"clusterlist_gendersllnl", "clusterlist_genders",
                         "clusterlist_hostsfile">>
config_modules == <<"config_chaos">>

BackendModuleLoad ==
  /\ IsLibrary /\ pc = "find_backend"
  /\ \E file \in FindModule(IF arg.module = NoName THEN backend_modules
                            ELSE <<arg.module>>, BackendFiles) :
       \/ /\ file = NoName
          /\ LoadFails("backend")
       \/ /\ file # NoName
          /\ loaded' = [loaded EXCEPT !.backend = file]
          /\ Continue("find_clusterlist")
          /\ UNCHANGED <<arg, directory, fileconf, moduleconf, setting, errnum>>

(* A clusterlist module the backend prefers must be there, otherwise the   *)
(* built-in one will do. *)
ClusterlistModuleLoad ==
  /\ IsLibrary /\ pc = "find_clusterlist"
  /\ LET preferred == BackendDefaults[loaded.backend].clusterlist
     IN  \E file \in FindModule(IF preferred = NoName THEN clusterlist_modules
                                ELSE <<preferred>>, ClusterlistFiles) :
           \/ /\ file = NoName /\ preferred # NoName
              /\ LoadFails("clusterlist")
           \/ /\ file # NoName \/ preferred = NoName
              /\ loaded' = [loaded EXCEPT !.clusterlist = file]
              /\ Continue("find_config")
              /\ UNCHANGED <<arg, directory, fileconf, moduleconf, setting, errnum>>

(* config_module_load, _setup and _load_config; the built-in module sets   *)
(* nothing. *)
ConfigModuleLoad ==
  /\ IsLibrary /\ pc = "find_config"
  /\ \E file \in FindModule(config_modules, ConfigFiles) :
       \/ /\ loaded' = [loaded EXCEPT !.config = file]
          /\ IF file = NoName THEN UNCHANGED moduleconf
             ELSE moduleconf' \in ConfigModules[file]
          /\ Continue("port")
          /\ UNCHANGED <<arg, directory, fileconf, setting, errnum>>
       \/ file # NoName /\ LoadFails("config")
-----------------------------------------------------------------------------
(***************************************************************************)
(* The port and the timeout: the first of the four sources that gives one, *)
(* and no further when that one is wrong.                                  *)
(***************************************************************************)
Source_ModuleFirst(s) ==                                       \* mutant
  IF arg[s] > 0 THEN "argument"
  ELSE IF s \in moduleconf.flags THEN "module"
  ELSE IF s \in fileconf.flags THEN "file" ELSE "backend"
Source(s) ==
  IF arg[s] > 0 THEN "argument"
  ELSE IF s \in fileconf.flags THEN "file"
  ELSE IF s \in moduleconf.flags THEN "module" ELSE "backend"

(* backend_module_default_port, _default_timeout_len, _default_hostname    *)
BackendDefault(s) == BackendDefaults[loaded.backend][s]

ValueFrom(source, s) ==
  CASE source = "argument" -> arg[s]
    [] source = "file" -> fileconf[s]
    [] source = "module" -> moduleconf[s]
    [] source = "backend" -> BackendDefault(s)

(* A backend may have no timeout of its own, 0; it must have a port. *)
Wrong(source, s) ==
  IF source = "backend" /\ s = "timeout_len" THEN ValueFrom(source, s) < 0
  ELSE ValueFrom(source, s) <= 0

WrongErrnum(source) ==
  CASE source = "file" -> "conf_input"
    [] source = "module" -> "config"
    [] source = "backend" -> "backend"

Decide(s, next) ==
  IF Wrong(Source(s), s) THEN LoadFails(WrongErrnum(Source(s)))
  ELSE /\ setting' = [setting EXCEPT ![s] = ValueFrom(Source(s), s)]
       /\ Continue(next)
       /\ UNCHANGED <<arg, directory, loaded, fileconf, moduleconf, errnum>>

DecidePort == IsLibrary /\ pc = "port" /\ Decide("port", "timeout")
DecideTimeout == IsLibrary /\ pc = "timeout" /\ Decide("timeout_len", "servers")

(* The servers to try; empty names are passed over, and no name left is    *)
(* the error of a connection.  The backend's default is this machine, if   *)
(* it has a name. *)
Servers ==
  IF arg.hostname # NoName THEN <<arg.hostname>>
  ELSE LET names == IF "hostnames" \in fileconf.flags THEN fileconf.hostnames
                    ELSE moduleconf.hostnames
       IN  IF "hostnames" \in fileconf.flags \cup moduleconf.flags
           THEN SelectSeq(names, LAMBDA h : h # <<>>)
           ELSE <<BackendDefault("hostname")>>

DecideServers ==
  /\ IsLibrary /\ pc = "servers"
  /\ IF Servers = <<>> THEN LoadFails("connect")
     ELSE \/ /\ setting' = [setting EXCEPT !.servers = Servers]
             /\ Continue("connect")
             /\ UNCHANGED <<arg, directory, loaded, fileconf, moduleconf, errnum>>
          \/ /\ arg.hostname = NoName
             /\ "hostnames" \notin fileconf.flags \cup moduleconf.flags
             /\ LoadFails("internal")                    \* gethostname

LibraryStep ==
  \/ ReadConffile \/ CbHostnames \/ CbSetting \/ ReadConffileEnd
  \/ BackendModuleLoad \/ ClusterlistModuleLoad \/ ConfigModuleLoad
  \/ DecidePort \/ DecideTimeout \/ DecideServers
-----------------------------------------------------------------------------
(* What was written in the file for an option, as a sequence of at most    *)
(* one entry. *)
WrittenFor(s) == SelectSeq(written, LAMBDA e : SameName(e.name, <<s>>))

(* A load that comes as far as the connection has a port and a timeout the *)
(* caller asked for, or else the administrator wrote in the file, or else  *)
(* the site's config module, or else the backend; and it has a server.     *)
LoadConfigured ==
  IsLibrary /\ pc = "connect" =>
    /\ setting.servers # <<>>
    /\ \A s \in {"port", "timeout_len"} :
         /\ arg[s] > 0 => setting[s] = arg[s]
         /\ arg[s] <= 0 /\ WrittenFor(s) # <<>> =>
              setting[s] = IntVal(WrittenFor(s)[1].args[1]) /\ setting[s] > 0
         /\ arg[s] <= 0 /\ written # <<>> /\ WrittenFor(s) = <<>>
              /\ s \in moduleconf.flags => setting[s] = moduleconf[s]
    /\ arg.hostname = NoName /\ WrittenFor("hostnames") # <<>> =>
         ToSet(setting.servers) \subseteq ToSet(WrittenFor("hostnames")[1].args)
    /\ setting.port > 0
=============================================================================
