-------------------------------- MODULE Ltdl --------------------------------
(***************************************************************************)
(* libltdl (libltdl/): the library through which whatsup and libnodeupdown *)
(* load their modules.  One call of the library is one step: it runs on    *)
(* the client's thread and calls itself for the libraries a module needs.  *)
(*                                                                         *)
(* A file is [dir, base, ext]; dir is Null when the name has no directory. *)
(* A handle is known by its file: tryall_dlopen gives an open file's       *)
(* handle again instead of opening the file twice.                         *)
(***************************************************************************)
EXTENDS Naturals, SequencesExt, FiniteSets

CONSTANTS
  Null, Self,      \* no value; the file name NULL: the program itself
  Readable,        \* the files with a directory that can be opened for reading
  Loadable,        \* the files dlopen() accepts
  Preloaded,       \* the archives linked into the program with some symbol
  LoaderModule,    \* the preloaded archive of the dlopen loader
  La,              \* what each readable .la file says
  EnvPath,         \* the directories of LTDL_LIBRARY_PATH, of the system path...
  ObjDir,          \* the directory of a module that is not installed
  Builds,          \* whether LTDL_DLOPEN_DEPLIBS is defined
  Requests,        \* what a client opens, each with its advice or Null
  Pinned,          \* the files it makes resident
  Dirs, MaxPath,   \* the directories it adds to a path of at most MaxPath
  Symbols,         \* the symbols of a file
  MaxOpens, MaxSessions, \* opens held at a time, calls of lt_dlinit
  MaxRef           \* the users a resident dependency may seem to have

ASSUME LtdlAssumption ==
  /\ Builds \subseteq BOOLEAN
  /\ LoaderModule \in Preloaded
  /\ {MaxOpens, MaxSessions, MaxPath, MaxRef} \subseteq Nat

VARIABLES
  lib,      \* the static data of the library and the handles it points to
  opens,    \* how often the client holds each file
  mapped,   \* how often each file has been module_open()ed and not closed
  sessions  \* how often the library has been started

vars == <<lib, opens, mapped, sessions>>

Files == Readable \cup Loadable \cup Preloaded \cup {Self}

(* The library's data: "lib" with the maps it keeps of the system. *)
Count(f) == [g \in Files |-> IF g = f THEN 1 ELSE 0]
Plus(c, d) == [g \in Files |-> c[g] + d[g]]
Minus(c, d) == [g \in Files |-> c[g] - d[g]]

ListOf(s) == Range(s.handles)

(* The only message the library looks for is FILE_NOT_FOUND: all others,   *)
(* and none, are "other".                                                  *)
Error(s, e) == [s EXCEPT !.err = e]

-----------------------------------------------------------------------------
(* The loaders, newest first. *)

AddLoader(s, name) == [s EXCEPT !.loaders = <<name>> \o @]
HasLoader(s, name) == name \in Range(s.loaders)
InUse(s, name) == \E f \in ListOf(s) : s.h[f].loader = name

CanOpen(s, loader, f) ==
  IF loader = "lt_preopen" THEN s.symlists /\ f \in Preloaded
                           ELSE f \in Loadable \cup {Self}

(* A loader that cannot open the file says so in its own way. *)
LoaderError(s, loader) ==
  IF loader = "lt_preopen" /\ s.symlists THEN "FILE_NOT_FOUND" ELSE "other"

-----------------------------------------------------------------------------
(* Opening one file with the first of "loaders" that takes it; the handle  *)
(* that is open under that name is given again, whatever the advice is.    *)

Opened(s, f) == [ok |-> TRUE, key |-> f, s |-> s]
Failed(s) == [ok |-> FALSE, key |-> Null, s |-> s]

Reuse_Uncounted(s, f) == Opened(s, f)                              \* mutant
Reuse(s, f) == Opened([s EXCEPT !.h[f].ref = @ + 1], f)

Register(s, f, loader, advise, deps) ==
  [s EXCEPT !.handles = <<f>> \o @,
            !.mapped = Plus(@, Count(f)),
            !.h = [g \in DOMAIN @ \cup {f} |->
                     IF g # f THEN @[g]
                     ELSE [ref |-> 1, loader |-> loader, deps |-> deps,
                           resident |-> IF advise = Null THEN f = Self
                                                         ELSE advise.resident]]]

Tryall(s, f, advise, deps, loaders) ==
  IF f \in ListOf(s) THEN Reuse(s, f)
  ELSE LET able == SelectSeq(loaders, LAMBDA l : CanOpen(s, l, f))
       IN IF able # <<>> THEN Opened(Register(s, f, able[1], advise, deps), f)
          ELSE Failed(IF loaders = <<>> THEN s
                      ELSE Error(s, LoaderError(s, Last(loaders))))

(* The first of a sequence of attempts that succeeds. *)
FirstOf(s, attempts, advise, deps) ==
  FoldLeft(LAMBDA r, a : IF r.ok THEN r ELSE Tryall(r.s, a.file, advise, deps, a.loaders),
           Failed(s), attempts)

(* The directories searched, in order. *)
SearchPath(s) == s.path \o EnvPath
InDirs(s, f) == LET at == SelectSeq([n \in DOMAIN SearchPath(s) |-> [f EXCEPT !.dir = SearchPath(s)[n]]],
                                    LAMBDA g : g \in Readable)
                IN IF at = <<>> THEN Null ELSE at[1]

(* A module that is not a libtool archive: the first readable file of the  *)
(* search path decides, otherwise the name as it was given.                *)
FindHandle(s, f, advise) ==
  LET found == IF f.dir = Null THEN InDirs(s, f) ELSE Null
  IN Tryall(s, IF found = Null THEN f ELSE found, advise, <<>>, s.loaders)

(* A libtool archive: the preloaded old library, then the installed one,   *)
(* the one not installed yet, and the one beside the archive.              *)
FindModule(s, dir, la, advise, deps) ==
  LET Try(file, loaders) == <<[file |-> file, loaders |-> loaders]>>
      In(d) == [la.dlname EXCEPT !.dir = d]
      preopen == IF HasLoader(s, "lt_preopen") THEN <<"lt_preopen">> ELSE s.loaders
  IN FirstOf(s, (IF la.old # Null THEN Try(la.old, preopen) ELSE <<>>)
                \o (IF la.dlname = Null THEN <<>>
                    ELSE (IF la.installed /\ la.libdir # Null THEN Try(In(la.libdir), s.loaders) ELSE <<>>)
                         \o (IF la.installed THEN <<>> ELSE Try(In(ObjDir[dir]), s.loaders))
                         \o Try(In(dir), s.loaders)),
             advise, deps)

-----------------------------------------------------------------------------
(* Closing: the last user of a handle that is not resident unmaps it and   *)
(* closes what it depends on.  A handle that is gone is touched when "ub"  *)
(* is set.                                                                 *)

RECURSIVE Close(_, _)
UnloadDeplibs(s, deps) ==
  FoldLeft(LAMBDA t, d : IF d \notin DOMAIN t.h THEN [t EXCEPT !.ub = TRUE]
                         ELSE IF t.h[d].resident THEN t ELSE Close(t, d),
           s, deps)

Unlink(s, f) ==
  [s EXCEPT !.handles = SelectSeq(@, LAMBDA g : g # f),
            !.mapped = Minus(@, Count(f)),
            !.h = [g \in DOMAIN @ \ {f} |-> @[g]]]

Close(s, f) ==
  IF f \notin ListOf(s) THEN Error(s, "other")
  ELSE LET t == [s EXCEPT !.h[f].ref = @ - 1]
       IN IF t.h[f].resident THEN Error(t, "other")
          ELSE IF t.h[f].ref > 0 THEN t
          ELSE UnloadDeplibs(Unlink(t, f), t.h[f].deps)

-----------------------------------------------------------------------------
(* lt_dlopen and its kin. *)

ExtAdvice == [ext |-> TRUE, resident |-> FALSE, preload |-> FALSE, local |-> FALSE, global |-> FALSE]
HasExt(name) == name.ext \in {".la", ".so"}

RECURSIVE OpenAdvise(_, _, _)

(* The libraries an archive needs, last first; those that do not open are  *)
(* skipped.  The search path gets back its value, if it had one.           *)
LoadDeplibs(s, la) ==
  LET Collect(deps, o) == [s |-> o.s, deps |-> IF o.ok THEN Append(deps, o.key) ELSE deps]
      Load(r, name) == Collect(r.deps, OpenAdvise(r.s, name, ExtAdvice))
  IN IF ~s.deplibs THEN [s |-> s, deps |-> <<>>]
     ELSE [FoldLeft(Load, [s |-> [s EXCEPT !.path = @ \o la.dirs], deps |-> <<>>], Reverse(la.deplibs))
             EXCEPT !.s.path = IF s.path = <<>> THEN @ ELSE s.path]

(* The dependencies are kept only by a module that was not open before.    *)
KeepDeps(found, load) ==
  IF ~found.ok \/ found.key \in ListOf(load.s)
  THEN [found EXCEPT !.s = UnloadDeplibs(@, load.deps)]
  ELSE found

OpenArchive(s, f, advise) ==
  LET file == IF f.dir = Null THEN InDirs(s, f) ELSE IF f \in Readable THEN f ELSE Null
      Find(load) == KeepDeps(FindModule(load.s, file.dir, La[file], advise, load.deps), load)
  IN IF file = Null THEN Failed(Error(s, "FILE_NOT_FOUND"))
     ELSE IF ~La[file].parses THEN Failed(s)
     ELSE Find(LoadDeplibs(s, La[file]))

(* A name without a directory may be that of a preloaded module. *)
TryPreloaded(s, f, advise) ==
  IF f.dir = Null /\ HasLoader(s, "lt_preopen")
  THEN Tryall(s, [f EXCEPT !.ext = ".a"], advise, <<>>, <<"lt_preopen">>)
  ELSE Failed(s)

TryOpen(s, f, advise) ==
  LET Late(early) ==
        IF early.ok \/ (advise # Null /\ advise.preload) THEN early
        ELSE IF f.ext = ".la" THEN OpenArchive(early.s, f, advise)
                              ELSE FindHandle(early.s, f, advise)
      WithError(r) ==                          \* the error there was before
        IF r.ok THEN [r EXCEPT !.s.err = s.err] ELSE r
  IN IF f = Self THEN Tryall(s, Self, advise, <<>>, s.loaders)
     ELSE WithError(Late(TryPreloaded(s, f, advise)))

(* With the advice to try extensions, a file that was found ends the search *)
(* if the error is another than that no file was found; when only preloaded *)
(* modules are asked for, it goes on without an error.                      *)
OpenAdvise(s, f, advise) ==
  LET exact == f = Self \/ advise = Null \/ ~advise.ext \/ HasExt(f)
      names == IF exact THEN <<f>> ELSE <<[f EXCEPT !.ext = ".la"], [f EXCEPT !.ext = ".so"]>>
      Judge(r) == r @@ [over |-> exact \/ r.ok \/ (~advise.preload /\ r.s.err # "FILE_NOT_FOUND")]
      Try(r, name) == IF r.over THEN r
                      ELSE Judge(TryOpen([r.s EXCEPT !.err = s.err], name, advise))
      Ended(r) == IF r.over THEN r ELSE Failed(Error(r.s, "FILE_NOT_FOUND"))
  IN IF advise # Null /\ advise.local /\ advise.global THEN Failed(Error(s, "other"))
     ELSE Ended(FoldLeft(Try, [s |-> s, over |-> FALSE], names))

-----------------------------------------------------------------------------
(* Starting and stopping the library. *)

(* The loaders linked in are modules themselves, opened by the loader of   *)
(* preloaded modules.                                                      *)
PreloadOpen(s) == OpenAdvise(s, LoaderModule, Null).s

Start(s) ==
  LET blank == [s EXCEPT !.initialized = 1, !.handles = <<>>, !.h = <<>>, !.path = <<>>]
      preopen == [AddLoader(blank, "lt_preopen") EXCEPT !.symlists = TRUE]
  IN AddLoader(PreloadOpen(preopen), "lt_dlopen")

First(s) == IF s.handles = <<>> THEN Null ELSE s.handles[1]
After(s, f) == LET n == SelectInSeq(s.handles, LAMBDA g : g = f)
               IN IF n = Len(s.handles) THEN Null ELSE s.handles[n + 1]

(* One pass over the handles with at most "level" users; a pass whose next *)
(* handle has been closed with another one begins again.                   *)
RECURSIVE CloseLevel(_, _, _)
CloseLevel(s, cur, level) ==
  IF cur = Null \/ s.ub THEN s
  ELSE IF s.h[cur].resident \/ s.h[cur].ref > level THEN CloseLevel(s, After(s, cur), level)
  ELSE LET next == After(s, cur)
           t == Close(s, cur)
       IN CloseLevel(t, IF next = Null \/ next \in ListOf(t) THEN next ELSE First(t), level)

CloseFrom_Once(s, level) == CloseLevel(s, First(s), level)         \* mutant
RECURSIVE CloseFrom(_, _)
CloseFrom(s, level) ==
  IF s.ub \/ \A f \in ListOf(s) : s.h[f].resident THEN s
  ELSE CloseFrom(CloseLevel(s, First(s), level), level + 1)

SkipResident(s) ==
  LET kept == {n \in DOMAIN s.handles : ~s.h[s.handles[n]].resident}
  IN [s EXCEPT !.handles = IF kept = {} THEN <<>> ELSE SubSeq(@, Min(kept), Len(@))]

DropLoader(s, name) ==
  IF ~HasLoader(s, name) THEN s
  ELSE [s EXCEPT !.loaders = RemoveFirst(@, name), !.symlists = @ /\ name # "lt_preopen"]

(* Every loader without an open module goes, with its table; a loader that *)
(* is listed twice is looked at again when its table is gone.              *)
RemoveLoaders(s) ==
  LET Visit(r, name) ==
        IF name \in r.gone THEN [r EXCEPT !.s.ub = TRUE]
        ELSE IF InUse(r.s, name) THEN r
        ELSE [s |-> DropLoader(r.s, name), gone |-> r.gone \cup {name}]
  IN FoldLeft(Visit, [s |-> s, gone |-> {}], s.loaders).s

Stop(s) ==
  LET closed == CloseFrom(SkipResident([s EXCEPT !.initialized = 0]), 1)
  IN IF closed.ub THEN closed
     ELSE [RemoveLoaders(Error(closed, "other")) EXCEPT !.path = <<>>]

-----------------------------------------------------------------------------
Init ==
  /\ \E b \in Builds :
       lib = [initialized |-> 0, handles |-> <<>>, h |-> <<>>, path |-> <<>>, loaders |-> <<>>,
              symlists |-> FALSE, err |-> "other", ub |-> FALSE, deplibs |-> b]
  /\ opens = [f \in Files |-> 0]
  /\ mapped = [f \in Files |-> 0]
  /\ sessions = 0

(* The library's data with the system's map, and what a step makes of them. *)
Whole == lib @@ [mapped |-> mapped]
Becomes(whole) ==
  \E s \in {whole} :
    /\ lib' = [x \in DOMAIN lib |-> s[x]]
    /\ mapped' = s.mapped

Running == lib.initialized > 0 /\ ~lib.ub

lt_dlinit ==
  /\ ~lib.ub
  /\ sessions < MaxSessions
  /\ sessions' = sessions + 1
  /\ IF lib.initialized = 0 THEN Becomes(Start(Whole))
     ELSE /\ lib' = [lib EXCEPT !.initialized = @ + 1]
          /\ UNCHANGED mapped
  /\ UNCHANGED opens

(* The handles a client still has after the last lt_dlexit are not its own *)
(* any more.                                                               *)
lt_dlexit ==
  /\ Running
  /\ IF lib.initialized = 1
     THEN Becomes(Stop(Whole)) /\ opens' = [f \in Files |-> 0]
     ELSE /\ lib' = [lib EXCEPT !.initialized = @ - 1]
          /\ UNCHANGED <<opens, mapped>>
  /\ UNCHANGED sessions

Held == FoldFunction(LAMBDA a, b : a + b, 0, opens)

lt_dlopenadvise(name, advise) ==
  /\ Running
  /\ Held < MaxOpens
  /\ \A f \in ListOf(lib) : lib.h[f].ref < MaxRef
  /\ \E r \in {OpenAdvise(Whole, name, advise)} :
        /\ Becomes(r.s)
        /\ opens' = IF r.ok THEN [opens EXCEPT ![r.key] = @ + 1] ELSE opens
  /\ UNCHANGED sessions

lt_dlclose(f) ==
  /\ Running
  /\ opens[f] > 0
  /\ Becomes(Close(Whole, f))
  /\ opens' = [opens EXCEPT ![f] = @ - 1]
  /\ UNCHANGED sessions

lt_dlmakeresident(f) ==
  /\ Running
  /\ opens[f] > 0
  /\ lib' = [lib EXCEPT !.h[f].resident = TRUE]
  /\ UNCHANGED <<opens, mapped, sessions>>

(* The symbol under the module's own name, and then the plain one. *)
lt_dlsym(f, symbol) ==
  /\ Running
  /\ opens[f] > 0
  /\ LET own == [of |-> f, name |-> symbol]
         plain == [of |-> Null, name |-> symbol]
         has == IF f \in DOMAIN Symbols THEN Symbols[f] ELSE {}
     IN lib' = IF {own, plain} \cap has = {} THEN Error(lib, "other") ELSE lib
  /\ UNCHANGED <<opens, mapped, sessions>>

(* The search path: set, appended to, and inserted into before its nth     *)
(* directory.                                                              *)
lt_dlsetsearchpath(path) ==
  /\ Running
  /\ lib' = [lib EXCEPT !.path = path]
  /\ UNCHANGED <<opens, mapped, sessions>>

lt_dlinsertsearchdir(before, dir) ==
  /\ Running
  /\ Len(lib.path) < MaxPath
  /\ lib' = IF before = 0 THEN [lib EXCEPT !.path = Append(@, dir)]
            ELSE IF before \in 1..Len(lib.path)
                 THEN [lib EXCEPT !.path = InsertAt(@, before, dir)]
                 ELSE Error(lib, "other")
  /\ UNCHANGED <<opens, mapped, sessions>>

lt_dlerror ==
  /\ Running
  /\ lib' = Error(lib, "other")
  /\ UNCHANGED <<opens, mapped, sessions>>

Next ==
  \/ lt_dlinit
  \/ lt_dlexit
  \/ \E r \in Requests : lt_dlopenadvise(r[1], r[2])
  \/ \E f \in Files : lt_dlclose(f)
  \/ \E f \in Pinned : lt_dlmakeresident(f)
  \/ \E f \in Files \ {Self}, x \in {"info", "none"} : lt_dlsym(f, x)
  \/ \E d \in Dirs : lt_dlsetsearchpath(<<d>>) \/ \E n \in 0..MaxPath : lt_dlinsertsearchdir(n, d)
  \/ lt_dlerror

Spec == Init /\ [][Next]_vars

-----------------------------------------------------------------------------
(* Properties. *)

Dependents(f) ==
  Cardinality(UNION {{<<g, n>> : n \in {n \in DOMAIN lib.h[g].deps : lib.h[g].deps[n] = f}}
                       : g \in ListOf(lib)})
StartUp(f) == IF f = LoaderModule THEN 1 ELSE 0

(* ref_count is what decides when a module is unmapped: while a handle can *)
(* be closed it is the number of its users, the clients of lt_dlopen, the  *)
(* open modules that loaded it as a dependency and lt_dlinit; a handle     *)
(* without users is gone, a listed one is mapped, and what a module        *)
(* depends on is still there.  This holds over failed loads, modules that  *)
(* were open already and closes in any order.                              *)
RefCounts ==
  ~lib.ub => \A f \in ListOf(lib) :
    LET users == opens[f] + Dependents(f) + StartUp(f)
    IN /\ IF lib.h[f].resident THEN lib.h[f].ref >= opens[f] + Dependents(f)
                               ELSE lib.h[f].ref = users /\ users > 0
       /\ mapped[f] > 0
       /\ lib.initialized > 0 => Range(lib.h[f].deps) \subseteq ListOf(lib)

(* The last lt_dlexit unmaps every module that is not resident, each once  *)
(* and however often it is open or needed, and takes away every loader     *)
(* that no resident module uses.  It touches a handle or a loader that is  *)
(* gone only if a module with dependencies is open more than once, or if   *)
(* loaders were left behind by an earlier session; nothing else does.      *)
SharedModule == \E f \in ListOf(lib) : lib.h[f].deps # <<>> /\ lib.h[f].ref > 1
LeftBehind == Len(lib.loaders) # Cardinality(Range(lib.loaders))
Closed(f) == f \in ListOf(lib) /\ ~lib.h[f].resident
ExitCloses ==
  [][/\ lib'.ub => lib'.initialized = 0 /\ (SharedModule \/ LeftBehind)
     /\ lib.initialized = 1 /\ lib'.initialized = 0 /\ ~lib'.ub =>
          /\ \A f \in Files : mapped'[f] = mapped[f] - IF Closed(f) THEN 1 ELSE 0
          /\ \A l \in Range(lib'.loaders) :
                \E f \in ListOf(lib) : lib.h[f].resident /\ lib.h[f].loader = l]_vars
=============================================================================
