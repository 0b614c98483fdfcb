# Whatsup in TLA+

Whatsup tells which nodes of a cluster are up.  A daemon, `pingd`, pings the
nodes and serves the time it last heard of each; a library, `libnodeupdown`,
reads such data through one of several backends, compares it with a list of the
nodes the cluster should have, and answers queries; the tool `whatsup` prints
the answers.  Below them are containers and parsers of their own (`libcommon`)
and two bundled libraries, `libltdl` and `libexpat`.  This directory holds a
TLA+ model of all of these, the TLC configurations that check it, and theorems
TLAPS has proved.

Run `tlc -config MCPingd_safety.cfg MCPingd` for a check, and
`tlapm PingdProofs.tla` for the proofs of a module.  `PROJECT.json` lists the
components, the runs, the lines every definition models, the hazards and the
theorems.

## The system

| component | state it keeps | operations | hard because |
|---|---|---|---|
| pingd main loop (`pingd/pingd_loop.c`) | nodes with their last stamp, index by address, `pingd_next_send`, two sockets | set up, sweep, poll, receive a packet, serve a client | one thread, blocking calls, three clocks (monotonic, wall, the client's), a network that loses and delays, clients that stall or reset |
| pingd start-up, configuration, cluster lists (`pingd.c`, `pingd_config.c`, `pingd_clusterlist_*.c`) | `conf` | options, conf file, modules, fork | four sources of a setting; modules that fail midway |
| `libnodeupdown` handle (`nodeupdown.c`, `nodeupdown_devel.c`) | `load_state`, up and down hostlists, last-up times, `numnodes` | create, destroy, load, query, lists | a load has some fifteen steps, each of which may fail; one cleanup undoes them all |
| module loader (`nodeupdown_module.c`) | static pointers to the modules of the process, libltdl references | search, load, set up, clean up, unload | process-wide, handles are not |
| pingd backend (`nodeupdown_backend_pingd.c`, `nodeupdown_backend_connect_util.c`) | none | connect with a timeout, read lines, judge each stamp | clock of one machine against the stamps of another; integer widths |
| ganglia and cerebro backends | a static cerebro handle | XML or RPC into `add_up_node`/`add_down_node`/`add_last_up_time` | callbacks into a handle that may refuse them |
| cluster list modules (`hostsfile`, `genders`, `default`) | static list or database | set up, clean up, membership, compare, count | static and shared; missing and unreadable files |
| library configuration (`nodeupdown_config_default.c`, the head of `nodeupdown_load_data`) | | conf file, config module, defaults of the backend | which source wins |
| `libcommon/list.c` | linked list, tail pointer, chain of iterators | insert and remove anywhere, iterate, sort, delete_all | every change repairs every iterator |
| `libcommon/hash.c` | chained tables, one free list for all of them | insert, remove, find, delete_if, destroy | chains and free list share the next pointers |
| `libcommon/hostlist.c` | ranges of host names, a count, iterators | push, pop, shift, delete, sort, uniq, print | ranges that split, join and overlap; padded numbers |
| `libcommon/conffile.c` | option table, the line being read | parse, callbacks | four passes over a line, each with its own notion of an escape |
| `libcommon/timeval.c` | none | add, subtract, convert to milliseconds | rounding, carry, width |
| `whatsup` (`whatsup.c`, `whatsup_options_cerebro_monitor.c`) | options modules, lists it prints; in log mode those of the last poll | load modules, parse, answer, log | modules rejected at five places; the poll before |
| `libltdl` | handles with reference counts, loaders, search path | start, exit, open, close, symbols | one handle for all who open a file; dependencies |
| `libexpat` | role of the next token, DTD, tags, open entities | parse a buffer, call the handlers | entities parsed by a nested call on the same stacks |
| Perl bindings, `whatsdown`, build system | | | wrappers or generated |

How they interact:

* pingd and the cluster: ICMP echo requests once per `ping_period`; replies are
  read from a raw socket that receives every ICMP packet of the host.
* pingd and its clients: one TCP connection per question, answered with one line
  per node, ended by closing it.  There is no length, no checksum, no end mark.
* the backend and the handle: callbacks `nodeupdown_add_up_node`,
  `nodeupdown_add_down_node` and `nodeupdown_add_last_up_time`, the first two of
  which ask the cluster list module whether the node belongs to the cluster;
  after the last line the module adds what is missing as down
  (`compare_to_clusterlist`).
* handles of one process: the static module pointers, the static list of the
  hostsfile or genders module, the handle of the cerebro backend, and libltdl's
  count of references.
* the programs and their configuration: `conffile_parse` calls back into
  `pingd_config.c` and `nodeupdown_config_default.c` for each entry.
* pingd and `libcommon`: `list` for the nodes, `hash` for the index,
  `timeval` for the schedule, `hostlist` for the configured hosts.
* `whatsup`, `libnodeupdown` and `pingd` open their modules with `libltdl`; the
  ganglia backend reads its server's answer with `libexpat`.

What makes each of them correct, in one line each: pingd sweeps regularly,
answers every client, and an answer is one snapshot of stamps nobody invented;
a verdict of the library is right about a node that has been up, or down, for
long enough; a load ends, loads all or nothing, and leaves nothing behind; the
lists and the queries of a handle agree; a program goes on with the values its
administrator wrote; `whatsup` says of the nodes it was asked for what one load
said, and its log replays; the list keeps its iterators valid, the hash its
nodes, the hostlist its names; the sleep of the loop neither spins nor
oversleeps; a module stays mapped as long as it has users; the handlers of the
parser are told what the document says.

## The modules

| module | models | composes or refines |
|---|---|---|
| `Pingd` | `pingd_loop.c`, every system call a step; the kernel's queues, the network and the clients around it | implements `PingdService` |
| `PingdService` | what a client may rely on: stamps and snapshots | |
| `UpDown` | pingd, the network and the library's verdict, with the time each takes | composes `PingdService` (which it implements) with `nodeupdown_backend_pingd.c` |
| `Nodeupdown` | handles, `nodeupdown_load_data` step by step, the three backends, the three cluster lists, what the process shares | |
| `Conffile` | the parser of configuration files | |
| `PingdConfig` | pingd from its command line to its loop | extends `Conffile` |
| `NodeupdownConfig` | the head of a load: file, modules, port, timeout, servers | extends `Conffile`; ends where `Nodeupdown` goes on |
| `Configs` | all callers of the parser | composes the three |
| `Whatsup` | the command | uses a load of `Nodeupdown` as one step |
| `Timeval` | `timeval.c` and the sleep `pingd_loop` makes of it | refines the arithmetic `Pingd` does on ticks |
| `List`, `ListAbs` | `list.c` on pointers; a sequence with cursors | `List` implements `ListAbs` |
| `Hash`, `HashAbs` | `hash.c` on pointers; maps | `Hash` implements `HashAbs` |
| `Containers` | | composes `List` and `Hash` |
| `Hostlist`, `HostlistAbs` | `hostlist.c` on ranges; a sequence of names | `Hostlist` implements `HostlistAbs` |
| `Ltdl` | `libltdl` | |
| `Expat` | the prolog, content and epilog of `libexpat` | |
| `Bundled` | | extends `Ltdl` and `Expat`; a behaviour is about one of them |
| `MC...` | values of the constants for TLC | |
| `PingdProofs`, `UpDownProofs`, `TimevalProofs`, `NodeupdownProofs`, `WhatsupProofs`, `HashProofs`, `ExpatProofs` | theorems about the module they are named for, and their proofs | extend it |
| `ContainersProofs` | theorems about `List` and `Containers` | extends `Containers`, and instantiates `HashProofs` |

An operator whose name ends in a suffix and whose line is marked `mutant`
(`SweepDueByWall`, `Recent_Late`) is not used by the model: it is the definition
after it with a plausible bug, kept to show that the properties notice it.

### Pingd

`pc` says where the thread is: `setup`, `top` of the loop, `send` (a sweep, one
`sendto` a step), `poll` and `polling` (about to call poll, and in it), `recv`,
`accept`, `write` (one line of a response a step), `exited`.  Between any two
steps the clocks advance, the wall clock is set, packets arrive or are lost, and
clients connect, read and leave.  `idx` is the iterator of the loop in progress.
The model keeps what the code does about failure: every `ERR_EXIT` is the action
`Exit`, a write that fails with `EPIPE` ends the response, one that fails with
anything else ends the daemon.  A connection knows whether the client left with
data unread (`reset`, so the next write fails with `ECONNRESET`) or not (`left`,
so one write succeeds and the next fails with `EPIPE`).

Three variables are history: `sweeps` and `sweepEnd`, the number of sweeps and
when the last one ended, and `awake`, the time since then that the thread did
not sleep in `poll`.  poll counts its timeout from its own start (`deadline`),
not from the reading of the clock that the timeout was computed from, so what
passes in between delays the sweep: `NoSweepOverslept` is the bound that remains.

Abstracted: an ICMP packet is its source address, since the code looks at
nothing else; a send buffer counts lines; time is counted in ticks (`Timeval` is
about the microseconds).

### UpDown

The three parties of a verdict.  `Sweep`, `ReceivePing` and `Answer` are the
daemon's; `Connect` and `ReadClock` are the client's, in the order of
`nodeupdown_backend_pingd.c`: it connects (`:160`) and then reads its clock
(`:167`), and the daemon may take its snapshot (`Answer`) before, between or
after, as soon as the connection is made.  The loop over the lines compares the
two whenever it runs (`Verdict`). The conditions of `Tick` are deadlines: the
daemon is at most `Late` behind its schedule, a reply is stamped within `RTT`.
`Pingd` shows where the first comes from (`RegularSweeps`, `NoSweepOverslept`).
Nothing in the code bounds the time between snapshot and clock, either way, so
`MaxWait` bounds it for TLC only, and the properties are about clients whose
snapshot is at most `Latency` after the clock was read and whose clock was read
at most `Delay` after the snapshot; the run has clients beyond both.  `taken`,
`wasUp` and `wasDown` are history: when the snapshot was taken and which hosts
had been up or down for long enough then. `replies[h]` remembers when each
reply's request was sent, so replies overtake each other and the next sweep.
`ToInt` is the narrowing of the unsigned difference to the `int` that `abs`
takes.  The wall clock of the daemon is not stepped in this module: no verdict
can be right across such a step.

`Gap`, how long a stamp of a host that is up may stay the latest one, is
`(MaxLoss + 1) * (Period + 1 + Late) + RTT`.  `TimeoutAssumption` asks that it
and `Delay` fit in the timeout less the second lost by comparing whole seconds,
on either side of the skew.  With the default period of 15 s and timeout of 60 s
this admits the loss of two replies in a row and not of three.

### Nodeupdown

`nodeupdown_load_data` is a sequence of steps (`LtDlInit`, `LoadBackend`,
`LoadClusterlist`, `SetupClusterlist`, `LoadConfig`, `Connect`, one step for
each line, `HOST` element or metric, `ReadEOF`, `Compare`), each of which may go
to `Fail`, which is the whole of `cleanup` with `_free_handle_data`.  Node lists
are multisets, as `hostlist` is used there; names come in a long and a short
form, and the code's own choice of which one it looks up where is kept.  Whether
a server's line says up or down is a free choice here: `UpDown` is about that. A
HOST element of ganglia is the list of the values of its attributes, because the
handler takes the time by its place: the third value, or the fourth when `atol`
makes nothing of the third; an element with too few of them fails the load.  The
cerebro backend has a static handle of its own, which its cleanup destroys
without forgetting it: the step that then uses it ends in `UseAfterFree`.

### Conffile, PingdConfig, NodeupdownConfig, Configs

A line is a sequence of symbols: the four characters the parser knows and words,
which no pass takes apart.  `ReadLine`, `ParseLine` and the callback are steps,
so that a callback that fails stops the parse where the code does.  What a
callback does is an action of its caller (`CbHost`, `CbInt`, `CbHostnames`,
`CbSetting`).  `written` is history: the entries a file was written with, in one
of three layouts, against which `ReadAsWritten` compares what was delivered.

`PingdConfig` goes on with the checks of `config_setup`, the search for a module
that gives hosts and the start of the loop; `NodeupdownConfig` with the search
for the three modules and the decision of port, timeout and servers.  What the
steps of a load do to the shared state is in `Nodeupdown`.

### Whatsup

`pc` follows `main`: the modules of the directories one by one, the command line
with their options, the nodes named, then an answer (`LoadData`, `GetNodes`,
`Printed`), the log (`OpenLog`, `FirstPoll`, `LogChanges`, `Sleep`) or the
monitor of a module. `snapshot` is what the load gave, `out` what is printed,
`told` what a reader of the log knows.  `lists` holds the two buffers as the
options module left them: a conversion is a function on nodes, which may give
two the same name, and the module may list such a name once or twice
(`Buffers`); count, list and exit value are all computed from the buffer, as in
the code, so `by` and `merged` say how it came about.  A get function may name a
node twice, and `whatsup` does not make these unique (`NodesOfModules`).  Every
`err_exit` between the load and the output is `GetFails` or `OutputFails`.  The
tables of getopt are `watch`, the letters each module got, and `longs`, the
letters with a long name; `OptionsLen` counts letters, not the colons behind
them.

### Timeval

The loop of `pingd_loop` with the time in microseconds and every conversion of
`timeval.c` as it is written: carry, borrow, division and rounding, the unsigned
result, the `int` poll takes.  Units and widths are constants, so that TLC can
try all values of a small world.

### List, Hash, Containers

A cell is the address of a `next` pointer, so `tail`, `prev`, `pp`, `ppPrev` and
`ppPos` of `list.c` are cells and `next` is a function on cells.  Calls that
loop under the mutex (`list_sort`, `list_delete_all`) are several steps; the
refinement mapping shows the list before the call until they are done.
`list_push`, `list_enqueue` and `list_dequeue` are copies of `list_prepend`,
`list_append` and `list_pop`; `list_delete` is `list_remove` and the caller's
function.  `last`, `seen` and `owed` are history, kept for the iterators in
`Watched` only.

In `Hash` too a cell holds a pointer: a slot, a node's `next`, or the head of
the free list, which all hashes share.  A key is a string and
`hash_key_string` is computed on it, so that keys fall into the slots they do.
`hash_delete_if` and `hash_destroy` walk all slots and give back their nodes one
by one.  They hold the mutex of their hash, and `hash_free_lock` only while
they give a node back, so a loop is several steps (`FreeNext`, `KeepNext`,
`NextSlot`, `Return`, at `i` and `pp` of that hash) and calls and loops of other
hashes come in between, taking and filling the free list.  `hash_destroy` keeps
`p` in a local; the model keeps it in the slot, which nobody reads any more.  The
refinement mapping lets a loop take effect when it is called: a node it has
yet to free (`Doomed`) is not in the map and its item is deleted already.
The two share nothing; `Containers` runs one or the other (`used`), which keeps
the state space the sum of the two.

### Hostlist

The array of ranges with `lo`, `hi` and `width`, in a base and with a longest
range small enough for TLC (`Base` 4, so that 3 and 4 are `3` and `10`).
`hostlist_sort` and `hostlist_uniq` are sequences of steps, because their loops
change ranges in place and begin again.  A host name is a prefix and a suffix,
the number and the zeros in front of it.

### Ltdl, Expat, Bundled

`Ltdl`: one call is one step.  `Tryall` goes through the loaders, `FindHandle`
and `InDirs` through the directories, `LoadDeplibs` and `UnloadDeplibs` through
what an archive needs, each with the reference counts it changes; the library
calls itself for dependencies, which the model unfolds because archives do not
need themselves.  `Stop` is `lt_dlexit` with its three loops, and `ub` records
that it read a handle or a loader already freed.  Both builds, with and without
`LTDL_DLOPEN_DEPLIBS`, are initial states.

`Expat`: the handlers of `xmlrole.c` are a table from a handler and a token to
the next handler and a role, `DoProlog` does what the role says, `DoContent` and
`DoEntity` take a token of the document and of the innermost open entity.  A
token is whole, since the bytes of a partial one wait for the next buffer, and a
literal is opaque but for the tags and references it holds as the value of an
entity.  `model`, `calls` and `told` are history.  External entities and
parameter entities are not read by this program (`paramEntityParsing` stays
`NEVER`), so the handlers for external subsets and conditional sections are
never entered and left out.

## The runs

Bounds are chosen so that each interesting case happens at least twice; every
run ends in seconds to four minutes and has between 10^4 and 10^7
states.

| run | checks | bounds, and why they are enough |
|---|---|---|
| `pingd_safety` | `NoSweepOverslept`, `Inv`, `SweepSpacing`, `ServiceImplemented` | two hosts and two addresses (duplicates and a machine answering for another), one client that may leave at any line, a queue of one packet (full and empty), calls that fail at any point, a wall clock that steps between two offsets, time for two sweeps |
| `pingd_live` | `RegularSweeps`, `EveryClientServed` | two hosts and one line of buffer, so that a client that does not read blocks the response; the client reads or does not; another sender on the raw socket, which may be readable at every poll; a wall clock that steps by one; three ticks, which is two sweeps |
| `updown_verdict` | `AliveIsUp`, `DeadIsDown`, `ServiceImplemented` | one host (hosts do not influence each other), one loss, one tick of everything and a clock read up to two ticks before or after the snapshot (one is within the premises, two are not), skew both ways, a 5-bit int whose sign bit the clock crosses |
| `nodeupdown_cluster` | `ExactlyTheCluster`, `ListedIsKnown` | one handle; one server, or two of which the first may break off midway; three nodes, one with a long name; with two of them in the hosts file or genders database some are known, unknown, unreported; without cluster list module all are known; each of the three backends |
| `nodeupdown_shared` | `LtdlBalanced`, `NothingLeftBehind`, `LoadEnds` | two handles, up to two servers, hosts file, genders database or no module, file edited or missing, every step failing |
| `conf` | `ReadAsWritten`, `Configured` | a written file for every option and every layout, files of arbitrary lines of three symbols, command lines, directories with good and bad modules, an int of 6 bits |
| `whatsup` | `ExactAnswer`, `LogReplays`, `ModulesHeld` | two nodes, which a module may name twice, swap or make one; every option alone and in pairs, some by their long names; five sets of modules with every way to be rejected, and room for one long option of a module; four polls (a node may leave the lists, stay away and come back) |
| `timeval_sleep` | `NoEarlyWake`, `NoOversleep`, `PollEnds` | three microseconds a millisecond, two milliseconds a second, every period up to the largest int (7), every clock value over three periods |
| `containers` | `WellFormed`, `NodesAccounted`, `ListImplemented`, `Traverses`, `RemovesNoOther`, `CallsEnd`, `HashImplemented` | a list of three nodes (first, middle, last; two of them equal, one greater), two iterators, the traversals of one recorded; two hashes of two slots, two keys that collide, two items and memory for two nodes, so that the free list runs out and is filled again while a loop of each hash is under way (a second chunk is covered by the proof) |
| `hostlist` | `WellFormed`, `OrderKept`, `RangedRoundTrip`, `QueriesAgree`, `HostlistImplemented`, `LoopsEnd` | two prefixes, numbers on both sides of the change from one digit to two, plain and padded, a range longer than `MAX_RANGE`, one iterator |
| `hostlist_mixed` | `AssertionsHold` **violated** | three names, two of them ranges across the change of digits and one padded |
| `bundled` | `RefCounts`, `ExitCloses`, `ModelsConform`, `HandlersTold`, `FirstBinds` | `Ltdl`: five libraries in two directories, one with a dependency that is found only through it and one that is missing, seven ways to name them, two sessions. `Expat`: two declarations or other features of the prolog in any order (a second of the same name), content models of two levels and six tokens against all models of nine, a connector array that starts at two places so that it grows, entities whose text opens, closes, nests and refers to itself, two tags and references |

`CHECK_DEADLOCK FALSE` stands where the system may stop: the model's clock or
number of calls has reached its bound, or the program has exited.

### What the violation shows

`hostlist_mixed`: the order `hostrange_cmp` gives to ranges is by number if
their widths are equivalent and by width otherwise, which is no order when
`[9-10]` meets `09`.  `hostlist_sort` of `n[9-10],n[9-10],n09` fails an assertion
of `hostrange_intersect`; while the names are padded alike (`OrderKept`) it does
not, and the list is sorted.

### Other disagreements

Met while modelling, contained in the modules, and not given a run.

*pingd*
* The response is written with blocking writes by the only thread: a client that
  connects and does not read stops the sweeps, which `man/pingd.8.in:35` promises
  without condition.  `RegularSweeps` says that nothing else does: after each
  sweep there is another, or the daemon ended, or it is blocked for ever by one
  client (`BlockedBy`).
* Only `EPIPE` is taken as the client's doing; a client that leaves with part of
  the response unread causes `ECONNRESET`, and the daemon exits though it ignores
  `SIGPIPE` (`pingd_loop.c:227`, `:445`).
* `pingd.conf` documents the system's default for a
  `ping_socket_receive_buffer` "set to <= 0", but a negative one is refused.
* A missing hosts file ends the daemon in the module's setup, so that the modules
  after it are never tried; hosts kept from a module of which one name was
  refused stay; a module that gives no node ends the search.
* The hosts file module shortens a dotted quad at its first dot; the `host`
  entry of the configuration file does not.

*libnodeupdown*
* A refused second load frees the data of the first (`nodeupdown.c:347`,
  against `nodeupdown_load_data.3`), and a load of no handle dereferences it
  (`LoadNull`).
* A server that fails midway leaves its nodes behind for the next one to
  contradict: a node is up and down at once (`nodeupdown.c:506`); with cerebro
  the second server's time for such a node is refused as a duplicate, and the
  load never succeeds.  `handle[h].mixed` is history and says that this happened to
  a handle; `ExactlyTheCluster` asks of such a handle the nodes of the cluster,
  and of all others that each is in one list.
* The client connects before it reads its clock
  (`nodeupdown_backend_pingd.c:160`, `:167`).  One that is delayed in between for
  longer than the timeout leaves room finds the stamps of live nodes too old and
  reports them down; hence the premise `Delay` of `AliveIsUp`.
* Handles share the cluster list of the process: the second load of one makes
  the queries of another answer for the new list (`ListedIsKnown` is checked with
  one handle); the genders module's second setup loses the first database.
* The cleanup of the cerebro backend destroys its static handle and keeps the
  pointer (`UseAfterFree`).
* The last-up time of a node is kept under the name the server reported, not
  shortened, and also for nodes outside the cluster.
* A node list is cleared and destroyed by the size the handle has now, not the
  one it was made with (`NodelistOverrun`).
* With the hosts file missing or empty every node is accepted and none is counted, so that
  lists made for it have no entries.
* A read error in the hosts file passes for its end (`MayTruncate`); the end of a
  pingd connection passes for the end of the response, whatever the daemon
  meant.
* Asking for a backend that is not installed loads any other file of the
  directory that has the signature of a backend.

*whatsup*
* `monitor_option_exists` counts a module whose setup then fails; if no other was
  loaded, `main` resets an iterator it never created (`EnterMonitor`).
* `whatsup -` with nothing on standard input reports the whole cluster; the log
  ignores the nodes named; nodes from a module are not made unique, so that one
  it names twice counts twice.
* `loptions_len` is 16 for a table of 17 (`whatsup.c:521`): the first long option
  of a module takes the place of `--log-poll` (`man/whatsup.1.in:124`), which is
  then an error.  The cerebro monitor module has one, so it is enough to install
  it (`LongStart`).

*libcommon* * `list_remove` removes nothing if the node after the last item
returned was removed by other means before (hence `RemovesNoOther` and not
"removes the last item", as `list.h` has it); `list_sort` leaves the iterators
of a list of one item where they are (`list_sort_short`), where `list.h` says
that all are reset. * `hash_key_string` forgets all but the last seven
characters, which costs time only. * `hostlist_uniq` leaves duplicates between
names padded differently; `hostlist_sort` and `hostlist_uniq` of a list of at
most one range do not reset iterators; `hostlist_pop` leaves iterators on what
it took; an iterator made on an empty list points at nothing after a push;
`hostlist_remove` of a range of one host keeps the depth of the iterator; a
range longer than `MAX_RANGE` is printed in a form that is not read back.
`hostset_insert` joins a range with one neighbour only and counts duplicates
twice when it joins with the one before, so a hostset may hold a name twice and
count wrongly; `hostlist_pop_range` and `hostlist_shift_range` lose track of
joined ranges. No program of the repository uses these functions, and they are
not modelled. * In a configuration file, an escaped backslash at the end of a
line is taken for a continuation; `""` is the number 0; a number beyond an `int`
is truncated; a parse that fails leaves the options before the error applied.

*libltdl*
* `lt_dlopenext` goes on to `.so` when a `.la` file was found and not loaded, and
  reports "file not found"; `lt_dlopen(NULL)` with an advice makes the program
  itself closable; `load_deplibs` may leave the `-L` directories of an archive in
  the search path; a resident dependency is not given back, so its count only
  grows; residency is ignored for a module already open.
* `lt_dlexit` uses a freed dependency if a module with dependencies is open more
  than once, and a freed loader in a later session if a resident module kept one:
  the two cases `ExitCloses` excepts.  `lt_dlhandle_map` never advances.

*libexpat*
* After a reference to a parameter entity, the DTD is incomplete and the name of
  a parameter entity no longer sets `declEntity` (there is no `else` at
  `xmlparse.c:2525`): its value is written into the entity declared before it.
  `FirstBinds` is therefore about complete DTDs.

### Fairness

`FairDaemonSpec` of `Pingd`: the daemon's thread is scheduled (weak fairness of
its step) and the clock advances.  Nothing is assumed about the network, about
clients connecting, reading or leaving, or about the wall clock.  That clients
read what is sent to them (`ClientFairness`) is a premise of
`EveryClientServed`, which says so itself, and of nothing else.  Weak fairness
is enough since a step of the thread, once possible, stays possible until it is
taken: it alone takes packets and connections from their queues.

`FairSpec` of `Nodeupdown`: the thread in the library runs, and a server that
accepted a connection goes on to send or close; the library has no timeout on
reads (`fd_read_line`), so without this a load need not end.

`ContainersSpec` and `FairSpec` of `Hostlist`: the thread inside a loop runs, of
`Hash` the thread inside the loop of each table, which nobody else can stop,
since nobody holds `hash_free_lock` for longer than a step.  Nothing is assumed
about the other modules.

## What is proved

| theorem | property | for every |
|---|---|---|
| `PingdProofs!TypeCorrect` | `TypeOK` | set of hosts, addresses, clients, queue bound |
| `PingdProofs!NeverOversleeps` | `NoSweepOverslept` | period, clock and wall clock behaviour |
| `PingdProofs!SweepsSpaced` | `SweepSpacing` | the same |
| `PingdProofs!ServesSnapshots` | `Inv` | the same |
| `PingdProofs!PingdImplementsService` | `ServiceImplemented` | the same |
| `UpDownProofs!UpIsReportedUp` | `AliveIsUp` | period, timeout, delays, loss and skew that `TimeoutAssumption` and `EpochAssumption` admit |
| `UpDownProofs!DownIsReportedDown` | `DeadIsDown` | the same |
| `UpDownProofs!TimedDaemonServes` | `ServiceImplemented` | the same |
| `TimevalProofs!SleepIsExact` | `NoEarlyWake`, `NoOversleep`, `PollEnds` | unit, width, period and delay |
| `TimevalProofs!SleepIsShort`, `SleepEnds` | `NoOversleep`, `PollEnds` | each on its own |
| `NodeupdownProofs!Accounted` | `IInv` | number of handles, set of backends, cluster lists, servers and files |
| `NodeupdownProofs!ReferencesBalanced` | `LtdlBalanced` | the same |
| `NodeupdownProofs!LastOneCleansUp` | `NothingLeftBehind` | the same |
| `NodeupdownProofs!LoadedIsExact` | `ExactlyTheCluster` | the same, if `Steady` |
| `NodeupdownProofs!QueriesMatch` | `Answers`, a part of `ListedIsKnown` | the same, if `Steady` |
| `NodeupdownProofs!ListsAreMatched` | `ListedIsKnown` | the same, if `Steady` and `Populated` |
| `WhatsupProofs!LogTellsAll` | `LogReplays` | set of nodes, number of polls |
| `WhatsupProofs!ModulesAreHeld` | `ModulesHeld` | directory of modules, command line |
| `WhatsupProofs!AnswersAreExact` | `ExactAnswer` | cluster, directory of modules, command line, lists and conversions a module may give |
| `ContainersProofs!ListIsWellFormed` | `WellFormed` | number of nodes and iterators, order of keys |
| `ContainersProofs!RemovesLastReturned` | `RemovesNoOther` | the same |
| `ContainersProofs!TraversalsAreComplete` | `Traverses` | the same |
| `ContainersProofs!ListImplementsSequence` | `ListImplemented` | the same |
| `ContainersProofs!ListApart` | | `Containers` implements `List`'s `Spec` |
| `ContainersProofs!ListsAreKept` | the first three about lists | in the specification TLC runs |
| `ContainersProofs!ListsAreSequences` | `ListImplemented` | in the specification TLC runs |
| `HashProofs!NodesAreAccounted` | `NodesAccounted` | number of hashes, slots, items, chunks and their size; finite set of keys |
| `HashProofs!HashImplementsMaps` | `Implemented` | the same |
| `ContainersProofs!HashesApart` | | `Containers` implements `Hash`'s `Spec` |
| `ContainersProofs!NodesAreKept`, `HashesAreMaps` | `NodesAccounted`, `HashImplemented` | in the specification TLC runs |
| `ExpatProofs!HandlersAreTold` | `HandlersTold` | set of tokens, text of literals, length and depth of documents, number of entities |
| `ExpatProofs!FirstDeclarationBinds` | `FirstBinds` | the same |
| `ExpatProofs!ConnectorsStayInside` | `ConnectorsInside`, a part of `ModelsConform` | the same, and first size of `groupConnector` |

The proofs assume what the `ASSUME`s of the modules say, and `Steady` and
`Populated` where the theorem says so; TLC evaluates the former on every run.

*Pingd.*  `TypeOK` is not inductive: a line of a response is well typed only if
its host has been resolved, and the index by address is a function only if
addresses are distinct, so it is proved together with `Resolved` (`Typed`).
`NoSweepOverslept` needs more than itself too: `next_send` is exactly a period
after the end of the last sweep, which is also what `SweepSpacing` rests on; the
timeout reaches from the reading of the clock to `next_send`, and that reading
is no older than `awake`; so `deadline` is past `next_send` by no more than
`awake`, and the clock past `deadline` only by what has been counted since.
`Scheduled` says these, place by place in the loop.  `Serving` says that the
part of a response written so far is the beginning of the report of the moment:
no step between two lines changes a stamp, because the loop does nothing else
until the connection is closed.  In the proof it is split in three (`Thread`,
`Waiting`, `ReportIsSnapshot`): clients in the queue have been sent nothing, and
a client is in it once. `Stamped` says that every stamp is 0 or the time of a
reply this daemon made of an echo.  With both, `PingdImplementsService` goes
through the actions of `Pingd`: `ReceivePing` is `Stamp` or, for an address of
no host, a stutter; a packet on its way and an address just resolved are `Hear`;
closing a connection that is still open after the last line is `Answer`, with
the snapshot `Serving` gives; exits and failed calls are `Die`, which may leave
a client the beginning of that snapshot; the clocks are `Time`; all other steps
are stutters.

*UpDown.*  A host that was up at the snapshot is reported up because its stamp
was fresh then, and the client's clock is not far away.  That is a statement
about the past, so the invariant carries it forward: at any moment the last
request a host had to answer (`LastAnswered`: the last sweep less a round for
each reply lost since) has either been answered (`stamps`), or is being answered
(`replies`), or is older than the host (`since`): `Answered`. The reply on its
way has a deadline (`Timely`); `Fresh` turns both into an age of the stamp for
every moment before which nothing is on the wire any more. `Reported` keeps that
age with the report, for as long as the client takes to read its clock: the
stamps in it are measured from `taken`. `RecentLemma` then goes from ticks to
whole seconds, over the skew and through the narrowing of the difference.
`DownIsReportedDown` is simpler: nothing is heard of a host for longer than a
reply takes (`DeadSilent`), and a stamp of 0 is never recent by
`EpochAssumption`.  That the daemon in it is one the service allows
(`TimedDaemonServes`) makes the verdicts statements about pingd.

*Timeval.*  `SubLemma`, `AddLemma` and `CalcLemma` state what the helpers
compute on microseconds; `Scheduled` bounds the time to the next sweep by the
period, which is what keeps the unsigned sum from wrapping and the `int` from
being negative.

*Nodeupdown.*  Neither `LtdlBalanced` nor `NothingLeftBehind` is inductive: they
say nothing of the handle in the middle of a load, and the load can fail after
each step.  `Custody` says whose the references are: of the handle being loaded
from its second step on, and otherwise only of loaded handles, all others being
as `_initialize_handle` leaves them.  `Shared` says that what is static in the
process is there because of a module that is.  `FreeLemma` takes both
through `_free_handle_data`, once for `nodeupdown_destroy`, for the reload of a
handle and for every failure.

`ExactlyTheCluster` is carried through a load by `Exactness`: until it reads, a
handle has nothing (`Unread`); while it reads, it has each name once, and only
names the cluster list takes (`Collected`); `Compare` adds the nodes nobody
spoke of.  A server that breaks off leaves its nodes in the lists, where the next
one may contradict it: then the handle is `mixed`, no name need be there once,
and all the rest is carried on.  The cluster list is static and may have been set
up by another handle, so `Listing` relates it to the file.  This holds under
`Steady`: the hosts file or genders database is not edited and not read in part.
Both are needed: after an edit a loaded handle knows the cluster that was, and a
read error of the hosts file passes for its end.  The run `nodeupdown_cluster`
has the same restriction.

`ListsAreMatched` adds what the size of a list has to do with its contents
(`Sized`): the size is the length of the cluster list, which may name a node
twice, or without cluster list the sum of the two lists, and only the last step
of a load changes either (`LoadedBefore`).  `hostlist_count` is a fold of the
library; `SumExists` shows, by the least number of names it could fail for, that
the recursive function which defines the fold exists, and `SumBounds`, for the
smallest set it could fail for (`SubsetInduction`), that the sum is no less than
any of its terms and, if each is at most one, no more than the names that have
one.  `Populated` leaves out a hosts file that is missing or empty: with
`HostsFiles` of one empty file TLC finds `ListedIsKnown` violated.

*Whatsup.*  `LogReplays` speaks of the moment after a poll; `Replayable` says of
every other moment that whoever read the log knows the lists kept from the last
poll, and `LinesReplay` that the lines of a poll bring the reader from these to
the new ones: a node is written when it is in a list and was not in the same
list before, and one that has left both keeps its last line.  `ModulesHeld` is
proved from `Listed` (files in the list were read, each once, and no letter is
taken before all modules are loaded), `Accounted` (what is set up is in the list
and nothing else is open; letters have one owner) and `Printing`, which lets the
list be taken down after the output only.  `Answering` follows one answer from
the nodes named to the output.  `PushedLemma` says what `_get_input_nodes` makes
of a list of names, repeated or not, by the least place at which it would be
wrong; `UniqueLemma` and `OnceLemma` that nodes of the command line are counted
once; `BufferLemma` that a conversion, merged or not, keeps the names and
numbers of what it converts.  `NamesAssumption` says of the modules no more than
that what they list and convert are nodes.

*List, Containers.*  The invariant says that the pointers hold a sequence `s`
(`Linked`), and where in it everything stands.  An iterator is a cursor `(k, a)`:
its `prev` is cell `k`, and it goes on after cell `a`, which is `k`, or `k + 1`
when it has just returned that node.  `LinkIns` and `LinkDel` say what the
assignments of `list_node_create` and `list_node_destroy` make of the sequence,
`CreateCursor` and `DestroyCursor` that their repair of each iterator takes a
cursor to a cursor: their assertions are the cases of that proof.  `Told` adds,
for a watched iterator, that it has returned exactly what it owes before its
cursor; an insertion or removal anywhere keeps that, which is why a traversal
misses and repeats nothing.  `list_sort` repairs the tail and resets the
iterators after its loop only, so the invariant exempts them meanwhile (the
mutex is held); each of its moves, three assignments, is shown to be a removal
followed by an insertion (`MoveStep`).  `ListApart` shows that the steps of the
hashes leave all that alone.

For `ListImplementsSequence` the cursor `(k, a)` becomes ListAbs's: before item
`a + 1`, and with an item to remove when `a` is `k + 1` (`PlaceLemma`).  Calls
that insert or remove one node or move one iterator are then steps of the same
name.  The two loops are one step of `ListAbs`, taken at their end, and their
other steps stutter, so `RInv` adds what a loop has done so far to the list it
was entered with (`before`).  In `list_delete_all` (`Deleting`) an ascending `q`
gives the place each item left had then: those are all places from the current
one on, and the ones before it whose item does not match; an iterator is before
the items it was before then (`Follows`), and keeps its last item only if that
one and the one after it are left.  In `list_sort` (`Sorting`) a permutation `p`
gives the old places; the first `c` items are in order, equal ones by old place,
and the others have not been moved.  `StaysLemma` and `MovesLemma` are the two
branches of its body: item `c + 1` goes in front of the first greater one, and as
all in front of that are no greater, and were there before it, the sort is
stable.  At the end `q` and `p` are the functions that `ListAbs` asks for
(`DeleteAbs`, `SortAbs`), and the number of places `q` has before an iterator is
its new place.

*Hash.*  `NodesAccounted` speaks of what the code finds when it follows the
pointers, and so is not inductive.  `Inv` says that there is a function `S` from
the heads (the slots and `hash_free_list`) to sequences of nodes that `link`
strings together (`Chains`): no node is in two of them, and together they are
all nodes allocated.  Whatever hash.c does to the pointers moves one node from a
place in one sequence to the front of another (`Moved`): `MoveLemma` shows that
the three assignments do that and leave all other cells alone, `NewChunkLemma`
that a new chunk becomes a free list of its own.  The rest of the invariant is
said for each table: its sequences hold the keys that belong to the slot, one
node for a key (`Keyed`); the count is their length, except while the table is
destroyed (`Counted`); and a loop has behind it, in the slots before `i` and in
front of `pp`, no node it should free (`Stands`).  A call on another table moves
none of the nodes of this one, so its cell `pp` still is where it was
(`OthersLemma`): this is what the lock order of hash.c is for, and it is the
point at which `FreeNode_Late` fails.  `WalkLemma` and `ChainLemma` go from the
sequences to the recursive functions of the model: a chain without duplicates is
no longer than there are nodes, so that `Chain` ends where `S` does.  For
`HashImplementsMaps` each action is taken to the map of the keys and items in
the sequences (`ChangeLemma` for the one table it changes): a node that a loop
frees was deleted when the loop was called (`FreeNextView`), and by its end none
is left (`ReturnStep`).  `ContainersProofs` instantiates `Hash` a second time,
with its theorems, and shows operator by operator that both instances say the
same.

*Expat.*  `MovesLemma` reads off the table of `xmlrole.c` which roles lead into
and out of the handlers in which a variable matters; everything said of the
prolog rests on it.  `PrologInv` has four parts.  `GroupInv`: in the handlers of
a content model the level is inside `groupConnector`, because only a group that
opens raises it, and then the array has been grown.  `EntityInv` and `Binding`:
an entity is what `Unbound` made of it and what was written into its fields, and
in the handlers between the name of a declaration and its value, `declEntity`
is null or points to an entity that has neither value nor notation, before its
identifiers none of those either.  So the first declaration cannot be changed
(`EntityStep`), and it is where `IfNew_Any` fails.  `Binding` is lost with
`complete`, as `FirstBinds` is.  `AttInv`: of the defaults of an element, one
that comes after another of the same attribute has no value, which is what
`defineAttribute` searches its list for (`DefineLemma`).

`ElementsNest` says nothing of the stack the code looks at.  `NestInv` does:
the calls without an end are `tagStack` (`Nested`), an open entity was opened
inside an element, when the stack was as high as its `start`, and the starts
ascend (`Framed`); and an empty stack means that no element has begun or that
the only one is over (`Phase`).  Each token is one or two calls
(`StartedLemma`, `EndedLemma`).  An end tag could take off a tag that was there
when an entity was opened; the comparison with `startTagLevel` forbids it for the
innermost entity, and as the starts ascend for all (`EndTagNest`): without it
`Framed` is lost, and the mutant of `HandlersTold` is that.  The epilogue is
reached from outside all entities, since each has a tag on the stack.

`AttributesOnce` is inductive together with the marks being clear between tags
(`Told`).  `Part` follows `appAtts` through the loop over the defaults: the
attributes of the tag in front, no name twice, behind them only defaults, and
every default so far that has a value under some name.  With `AttInv`,
`FirstLemma` shows that the default with a value is the one first declared.  The
recursive functions of the model (`Unended`, `appAtts`) exist by the least
length they could fail for (`CountedExists`, `BuiltExists`).

`DocumentsAssumption` says what a document is: literals of a prolog have a text,
which is a sequence of tokens, and `None` is no name.  `GroupAssumption` says
that `groupConnector` starts with more than one element, since index 0 is not
used.  The theorems are about `XSpec`, the parser alone: `Bundled` takes its
steps as they are, but beside `Ltdl`, whose recursive operators the prover does
not accept.

Only model-checked, and why:

* the liveness properties (`RegularSweeps`, `EveryClientServed`, `LoadEnds`,
  `LoopsEnd`, `CallsEnd`): the prover has no support for fairness and `ENABLED`;
* everything about `Hostlist`, `Conffile`, `PingdConfig` and
  `NodeupdownConfig`: ranges and lines are computed by folds or by
  recursion on the data, and `HostlistImplemented` maps the ranges to names by
  such a fold;
* `Ltdl` and so `BundledSpec`: dependencies are followed by recursive operators,
  which the prover does not accept;
* of `ModelsConform`, that content models are those of the recommendation: they
  are enumerated for the run, by recursion over their groups.

## What is not modelled

* the text of outputs and messages, the string forms of node lists and error
  numbers, and the logging and debug functions;
* running out of memory, in every module;
* the external libraries libgenders and libcerebro, except for what the code
  makes of their answers;
* of `hostlist.c` the functions no program uses (`hostset_*`, `pop_range`,
  `shift_range`, `next_range`), suffixes after brackets and prefixes that end in
  a digit;
* of `libltdl` caller data, `lt_dlforeachfile`, the iteration over handles and
  the loaders of other systems; archives that need themselves, over which the
  library recurses without end;
* of `libexpat` the tokenizer and encodings (pure functions of the bytes),
  namespaces, external entities and conditional sections, which the ganglia
  backend does not enable, and the values of attributes;
* threads: `pingd` and `whatsup` have one, and the library none; `list.c` and
  `hash.c` hold their mutex during each call;
* the Perl bindings and `whatsdown`, one call of the library each, and the build
  system.

`PROJECT.json` says of every component what is left out of it.

## Plan

The system is modelled as far as the plan of the survey went.  What is left is
proof, in this order:

1. `HostlistImplemented`, by an index of the names of a list that is not a fold;
   the parts that sort and parse stay with TLC.
2. `PingdConfig` and `NodeupdownConfig`: the sources of a setting.
