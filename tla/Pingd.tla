------------------------------- MODULE Pingd -------------------------------
(***************************************************************************)
(* The pingd daemon (src/pingd/pingd_loop.c): one thread that sweeps ICMP  *)
(* echo requests over the configured hosts once per ping_period, stamps    *)
(* every host that answers, and serves the stamps to the clients that      *)
(* connect.  Each system call after which the outside world can change is  *)
(* a step of its own: the clock, the network and the clients interleave    *)
(* with every one of them.                                                 *)
(*                                                                         *)
(* The kernel is modelled as the code uses it: the receive queue of the    *)
(* raw socket, the backlog of the listening socket, and one TCP connection *)
(* per client with a send buffer counted in lines.                         *)
(***************************************************************************)
EXTENDS Integers, Sequences, FiniteSets

CONSTANTS
  ConfHosts,      \* conf.hosts, in order, after hostlist_uniq
  IPs,            \* the addresses gethostbyname can return
  Noise,          \* those whose machine also sends other ICMP packets
  Clients,        \* the processes that may connect to the server port
  Period,         \* conf.ping_period, in clock ticks
  Backlog,        \* PINGD_SERVER_BACKLOG
  RxCap,          \* packets the raw socket's receive buffer holds
  SockCap,        \* lines a connection buffers before a write blocks
  Offsets,        \* wall clock minus monotonic clock: values it may step to
  MaxTime,        \* bound on the monotonic clock
  MayFail,        \* whether a system call of the daemon may fail
  NoIP,           \* the address of a host not resolved yet
  NoClient        \* cur while no client is being served

Hosts == {ConfHosts[i] : i \in 1..Len(ConfHosts)}

ASSUME HostsAssumption ==
  /\ ConfHosts \in Seq(Hosts) /\ ConfHosts # <<>>
  /\ \A i, j \in 1..Len(ConfHosts) : ConfHosts[i] = ConfHosts[j] => i = j
ASSUME BoundsAssumption ==
  /\ Period \in Nat \ {0}
  /\ Backlog \in Nat \ {0}
  /\ RxCap \in Nat \ {0}
  /\ SockCap \in Nat \ {0}
  /\ MaxTime \in Nat
  /\ Offsets \subseteq Nat \ {0} /\ Offsets # {}
  /\ Noise \subseteq IPs /\ MayFail \in BOOLEAN
  /\ NoIP \notin IPs /\ NoClient \notin Clients

VARIABLES
  pc,             \* where the daemon's thread is
  idx,            \* position of the list iterator of the current loop
  addr,           \* info->destaddr; inverted, it is nodes_index
  last_received,  \* info->last_received, 0 for never
  now,            \* the local now of pingd_loop
  next_send,      \* pingd_next_send
  timeout_ms,     \* the timeout passed to poll
  deadline,       \* when the poll in progress gives up
  revents,        \* descriptors poll reported readable and not yet handled
  cur,            \* the client being served (rhost_fd)
  mono,           \* CLOCK_MONOTONIC
  offset,         \* gettimeofday minus CLOCK_MONOTONIC
  pings,          \* addresses with an echo request or its reply on the wire
  rxq,            \* source addresses of the packets queued on ping_fd
  backlog,        \* clients queued on server_fd
  conn,           \* state of each client's connection
  sent,           \* lines written to each client
  got,            \* how many of them the client has read
  sweeps,         \* history: sweeps completed
  sweepEnd,       \* history: monotonic time at which the last sweep ended
  awake,          \* history: time since then that was not slept in poll
  answered        \* history: addresses that ever sent us a packet

daemon == <<pc, idx, addr, last_received, now, next_send, timeout_ms,
            deadline, revents, cur>>
clock == <<mono, offset>>
net == <<pings, rxq>>
tcp == <<backlog, conn, sent, got>>
history == <<sweeps, sweepEnd, awake, answered>>
vars == <<daemon, clock, net, tcp, history>>

Running == pc # "exited"
Wall == mono + offset
TimevalSub(a, b) == IF a > b THEN a - b ELSE 0                 \* timeval_sub

Lines == Hosts \X Nat

(***************************************************************************)
(* Connection states.  none: not connected yet.  open: the client is       *)
(* there.  left: the client closed with nothing unread, so the next write  *)
(* succeeds and the one after it fails with EPIPE (broken).  reset: the    *)
(* client closed with data unread, so the next write fails with            *)
(* ECONNRESET.  served: the daemon closed it; the client reads what is     *)
(* buffered and then end of file.  aborted: the daemon ended before it     *)
(* accepted the connection; the client's read fails.  done: the daemon      *)
(* closed it after the client had.                                         *)
(***************************************************************************)
ConnStates == {"none", "open", "left", "broken", "reset", "served", "aborted",
               "done"}

Init ==
  /\ pc = "setup" /\ idx = 1
  /\ addr = [h \in Hosts |-> NoIP]
  /\ last_received = [h \in Hosts |-> 0]
  /\ now = 0 /\ next_send = 0 /\ timeout_ms = 0 /\ deadline = 0
  /\ revents = {} /\ cur = NoClient
  /\ mono = 1 /\ offset \in Offsets
  /\ pings = {} /\ rxq = <<>>
  /\ backlog = <<>>
  /\ conn = [c \in Clients |-> "none"]
  /\ sent = [c \in Clients |-> <<>>]
  /\ got = [c \in Clients |-> 0]
  /\ sweeps = 0 /\ sweepEnd = 0 /\ awake = 0 /\ answered = {}

(***************************************************************************)
(* ERR_EXIT: the process ends and the kernel closes its descriptors.  The  *)
(* client being served sees end of file after what it was sent, the        *)
(* clients still in the backlog are reset.                                 *)
(***************************************************************************)
Exit ==
  /\ pc' = "exited"
  /\ conn' = [c \in Clients |-> IF conn[c] # "open" THEN conn[c]
                                ELSE IF c = cur THEN "served" ELSE "aborted"]
  /\ backlog' = <<>>
  /\ UNCHANGED <<idx, addr, last_received, now, next_send, timeout_ms,
                 deadline, revents, cur, sent, got, clock, net, history>>

(* _nodes_setup, one host of conf.hosts per step: resolve the name, refuse *)
(* an address another host already has, index the host by its address.     *)
ResolveHost ==
  /\ pc = "setup" /\ idx <= Len(ConfHosts)
  /\ \E ip \in IPs :
       IF \E h \in Hosts : addr[h] = ip
         THEN Exit                                    \* Duplicate host ip
         ELSE /\ addr' = [addr EXCEPT ![ConfHosts[idx]] = ip]
              /\ idx' = idx + 1
              /\ UNCHANGED <<pc, last_received, now, next_send, timeout_ms,
                             deadline, revents, cur, clock, net, tcp, history>>

SetupDone ==
  /\ pc = "setup" /\ idx > Len(ConfHosts)
  /\ pc' = "top" /\ idx' = 1
  /\ UNCHANGED <<addr, last_received, now, next_send, timeout_ms,
                 deadline, revents, cur, clock, net, tcp, history>>

(* The head of the while loop: read the clock, start a sweep if it is      *)
(* strictly past pingd_next_send, otherwise compute the poll timeout.      *)
SweepDueByWall == Wall > next_send                             \* mutant
SweepDue == mono > next_send

PollTimeout_Period == Period                                   \* mutant
PollTimeout == TimevalSub(next_send, mono)

Top ==
  /\ pc = "top"
  /\ now' = mono
  /\ IF SweepDue
       THEN pc' = "send" /\ UNCHANGED timeout_ms
       ELSE pc' = "poll" /\ timeout_ms' = PollTimeout
  /\ UNCHANGED <<idx, addr, last_received, next_send, deadline, revents, cur,
                 clock, net, tcp, history>>

(* One iteration of _pingd_send_pings. *)
SendPing ==
  /\ pc = "send" /\ idx <= Len(ConfHosts)
  /\ pings' = pings \cup {addr[ConfHosts[idx]]}
  /\ idx' = idx + 1
  /\ UNCHANGED <<pc, addr, last_received, now, next_send, timeout_ms, deadline,
                 revents, cur, clock, rxq, tcp, history>>

(* After the sweep: read the clock again and schedule the next sweep one   *)
(* ping_period from then.                                                  *)
NextSend == mono + Period

Rearm ==
  /\ pc = "send" /\ idx > Len(ConfHosts)
  /\ now' = mono
  /\ next_send' = NextSend
  /\ timeout_ms' = TimevalSub(NextSend, mono)
  /\ pc' = "poll" /\ idx' = 1
  /\ sweeps' = sweeps + 1 /\ sweepEnd' = mono /\ awake' = 0
  /\ UNCHANGED <<addr, last_received, deadline, revents, cur, clock, net,
                 tcp, answered>>

(* poll(pfds, 2, timeout_ms): the call, and its return.  The clock of the  *)
(* model stops at MaxTime: a timeout that runs beyond it expires there.    *)
PollCall ==
  /\ pc = "poll"
  /\ pc' = "polling"
  /\ deadline' = mono + timeout_ms
  /\ UNCHANGED <<idx, addr, last_received, now, next_send, timeout_ms, revents,
                 cur, clock, net, tcp, history>>

Readable == {fd \in {"ping", "server"} :
               \/ fd = "ping" /\ rxq # <<>>
               \/ fd = "server" /\ backlog # <<>>}

Dispatch_AnyEvent(fds) == IF fds # {} THEN "recv" ELSE "top"   \* mutant
Dispatch(fds) ==
  IF "ping" \in fds THEN "recv"
  ELSE IF "server" \in fds THEN "accept" ELSE "top"

PollReturn ==
  /\ pc = "polling"
  /\ Readable # {} \/ mono >= deadline \/ mono = MaxTime
  /\ revents' = Readable
  /\ pc' = Dispatch(Readable)
  /\ now' = 0 /\ timeout_ms' = 0 /\ deadline' = 0      \* dead from here on
  /\ UNCHANGED <<idx, addr, last_received, next_send, cur, clock, net, tcp,
                 history>>

(* _receive_ping: whatever ICMP packet is at the head of the queue stamps  *)
(* the host indexed by its source address with the time of day it is READ; *)
(* a source not in nodes_index is ignored.                                 *)
Indexed(ip) == {h \in Hosts : addr[h] = ip}

AfterReceive_Skip == "top"                                     \* mutant
AfterReceive == IF "server" \in revents THEN "accept" ELSE "top"

ReceivePing ==
  /\ pc = "recv" /\ rxq # <<>>
  /\ rxq' = Tail(rxq)
  /\ last_received' = [h \in Hosts |->
                         IF h \in Indexed(Head(rxq)) THEN Wall
                         ELSE last_received[h]]
  /\ revents' = revents \ {"ping"}
  /\ pc' = AfterReceive
  /\ UNCHANGED <<idx, addr, now, next_send, timeout_ms, deadline, cur, clock,
                 pings, tcp, history>>

(* _send_ping_data: accept, *)
Accept ==
  /\ pc = "accept" /\ backlog # <<>>
  /\ cur' = Head(backlog) /\ backlog' = Tail(backlog)
  /\ revents' = revents \ {"server"}
  /\ pc' = "write"
  /\ UNCHANGED <<idx, addr, last_received, now, next_send, timeout_ms, deadline,
                 clock, net, conn, sent, got, history>>

Line(i) == <<ConfHosts[i], last_received[ConfHosts[i]]>>
Written_Heard(i) == IF Line(i)[2] = 0 THEN <<>> ELSE <<Line(i)>>  \* mutant
Written(i) == <<Line(i)>>

(* ... then one line per host.  The write blocks while the connection's    *)
(* buffer is full, *)
Sendable(c) ==
  \/ conn[c] = "open" /\ Len(sent[c]) - got[c] < SockCap
  \/ conn[c] = "left"

WriteLine ==
  /\ pc = "write" /\ idx <= Len(ConfHosts)
  /\ Sendable(cur)
  /\ sent' = [sent EXCEPT ![cur] = @ \o Written(idx)]
  /\ conn' = [conn EXCEPT ![cur] = IF @ = "left" THEN "broken" ELSE @]
  /\ idx' = idx + 1
  /\ UNCHANGED <<pc, addr, last_received, now, next_send, timeout_ms, deadline,
                 revents, cur, clock, net, backlog, got, history>>

(* ... a write that fails with EPIPE ends the response, one that fails     *)
(* with anything else ends the daemon, *)
WriteReset ==
  /\ pc = "write" /\ idx <= Len(ConfHosts) /\ conn[cur] = "reset"
  /\ Exit

(* ... and the connection is closed at the end of the list or after EPIPE. *)
Responded_Early == idx >= Len(ConfHosts) \/ conn[cur] = "broken"  \* mutant
Responded == idx > Len(ConfHosts) \/ conn[cur] = "broken"

CloseConn ==
  /\ pc = "write" /\ Responded
  /\ conn' = [conn EXCEPT ![cur] = IF @ = "open" THEN "served" ELSE "done"]
  /\ cur' = NoClient
  /\ pc' = "top" /\ idx' = 1
  /\ UNCHANGED <<addr, last_received, now, next_send, timeout_ms, deadline,
                 revents, clock, net, backlog, sent, got, history>>

(* Any other system call that fails: gethostbyname, sendto, poll,          *)
(* recvfrom, accept and write all go to ERR_EXIT.                          *)
CallFails ==
  /\ MayFail
  /\ \/ pc \in {"setup", "send"} /\ idx <= Len(ConfHosts)
     \/ pc \in {"polling", "recv", "accept"}
     \/ pc = "write" /\ idx <= Len(ConfHosts) /\ conn[cur] = "open"
  /\ Exit

DaemonStep ==
  \/ ResolveHost \/ SetupDone \/ Top \/ SendPing \/ Rearm \/ PollCall
  \/ PollReturn \/ ReceivePing \/ Accept \/ WriteLine \/ WriteReset \/ CloseConn

-----------------------------------------------------------------------------
(* The clocks.  Both advance together; the wall clock may also be set.  The *)
(* thread is asleep while poll has neither an event nor its timeout; all   *)
(* other time, scheduling delays included, counts as awake.                *)
Asleep == pc = "polling" /\ Readable = {} /\ mono < deadline

Tick ==
  /\ mono < MaxTime /\ mono' = mono + 1
  /\ awake' = IF Asleep THEN awake ELSE awake + 1
  /\ UNCHANGED <<daemon, offset, net, tcp, sweeps, sweepEnd, answered>>

SetWallClock ==
  /\ offset' \in Offsets \ {offset}
  /\ UNCHANGED <<daemon, mono, net, tcp, history>>

(* The network and the machines behind the addresses.  A packet that finds *)
(* the receive buffer full is dropped by the kernel.                       *)
Deliver(ip) ==
  /\ rxq' = IF Len(rxq) < RxCap THEN Append(rxq, ip) ELSE rxq
  /\ answered' = answered \cup {ip}

AnswerPing(ip) ==
  /\ ip \in pings
  /\ pings' = pings \ {ip}
  /\ Deliver(ip)
  /\ UNCHANGED <<daemon, clock, tcp, sweeps, sweepEnd, awake>>

LosePing(ip) ==
  /\ ip \in pings
  /\ pings' = pings \ {ip}
  /\ UNCHANGED <<daemon, clock, rxq, tcp, history>>

(* Any other ICMP packet: an echo request to us, an unreachable notice.    *)
OtherPacket(ip) ==
  /\ ip \in Noise /\ Len(rxq) < RxCap
  /\ Deliver(ip)
  /\ UNCHANGED <<daemon, clock, pings, tcp, sweeps, sweepEnd,
                 awake>>

(* The clients.  A connection is established by the kernel as soon as      *)
(* there is room in the backlog; the daemon accepts it later.              *)
ClientConnect(c) ==
  /\ Running /\ conn[c] = "none" /\ Len(backlog) < Backlog
  /\ conn' = [conn EXCEPT ![c] = "open"]
  /\ backlog' = Append(backlog, c)
  /\ UNCHANGED <<daemon, clock, net, sent, got, history>>

ClientRead(c) ==
  /\ conn[c] \in {"open", "served"} /\ got[c] < Len(sent[c])
  /\ got' = [got EXCEPT ![c] = @ + 1]
  /\ UNCHANGED <<daemon, clock, net, backlog, conn, sent, history>>

(* The client gives up before the end of the response: what it does after  *)
(* end of file is of no consequence.                                       *)
ClientClose(c) ==
  /\ conn[c] = "open"
  /\ conn' = [conn EXCEPT ![c] = IF got[c] < Len(sent[c]) THEN "reset"
                                 ELSE "left"]
  /\ UNCHANGED <<daemon, clock, net, backlog, sent, got, history>>

Environment ==
  \/ Tick \/ SetWallClock
  \/ \E ip \in IPs : AnswerPing(ip) \/ LosePing(ip) \/ OtherPacket(ip)
  \/ \E c \in Clients : ClientConnect(c) \/ ClientRead(c) \/ ClientClose(c)

Next == DaemonStep \/ CallFails \/ Environment

Spec == Init /\ [][Next]_vars

(* The kernel schedules the daemon and time passes; the network and the    *)
(* clients owe nothing.  ClientFairness is a premise of what is promised   *)
(* to clients that read.                                                   *)
DaemonFairness == WF_vars(DaemonStep) /\ WF_vars(Tick)
ClientFairness == \A c \in Clients : WF_vars(ClientRead(c))
FairDaemonSpec == Spec /\ DaemonFairness
-----------------------------------------------------------------------------
TypeOK ==
  /\ pc \in {"setup", "top", "send", "poll", "polling", "recv", "accept",
             "write", "exited"}
  /\ idx \in 1..Len(ConfHosts) + 1
  /\ addr \in [Hosts -> IPs \cup {NoIP}]
  /\ last_received \in [Hosts -> Nat]
  /\ now \in Nat /\ next_send \in Nat /\ timeout_ms \in Nat /\ deadline \in Nat
  /\ revents \subseteq {"ping", "server"}
  /\ cur \in Clients \cup {NoClient}
  /\ mono \in Nat /\ offset \in Offsets
  /\ pings \subseteq IPs /\ rxq \in Seq(IPs)
  /\ backlog \in Seq(Clients)
  /\ conn \in [Clients -> ConnStates]
  /\ sent \in [Clients -> Seq(Lines)]
  /\ got \in [Clients -> Nat]
  /\ sweeps \in Nat /\ sweepEnd \in Nat /\ awake \in Nat
  /\ answered \subseteq IPs

(* The daemon never reads a descriptor poll did not find readable: both    *)
(* recvfrom and accept are blocking calls, and either would stop the       *)
(* sweeps if the queue poll saw were empty by the time of the call.        *)
NoBlindSyscall ==
  /\ pc = "recv" => rxq # <<>>
  /\ pc = "accept" => backlog # <<>>

(* No sweep is overslept: however often packets and clients wake the loop  *)
(* up before a sweep is due, and although the clock goes on between the    *)
(* reading the timeout is computed from and poll, which counts it from its *)
(* own start, a sweep is overdue by no more than the time since the last   *)
(* one that the thread did not sleep.                                      *)
NoSweepOverslept ==
  sweeps > 0 /\ Running => mono <= sweepEnd + Period + awake

(* A response is one snapshot: what has been written to the client being   *)
(* served is a prefix of the hosts, in order, with the stamps they have    *)
(* now, although packets arrive while the response is written.             *)
ReportIsSnapshot ==
  pc = "write" =>
    /\ Len(sent[cur]) = idx - 1
    /\ \A i \in 1..Len(sent[cur]) : sent[cur][i] = Line(i)

(* A stamp in a response belongs to a machine that did send a packet: a    *)
(* host is never stamped for another one's reply.                          *)
NoPhantomStamp ==
  \A c \in Clients : \A i \in 1..Len(sent[c]) :
    sent[c][i][2] # 0 => addr[sent[c][i][1]] \in answered

(* Two sweeps are more than ping_period apart, measured on the monotonic   *)
(* clock from the end of one to the start of the next.                     *)
SweepSpacing ==
  [][pc = "top" /\ pc' = "send" /\ sweeps > 0 => mono > sweepEnd + Period]_vars

(* Pings are sent out regularly: after every sweep there is another one,   *)
(* however the wall clock is set and whatever is readable, as long as the  *)
(* clock has not reached the bound of the model.  One thing alone stops    *)
(* them: a client whose response blocks for ever because it neither reads  *)
(* nor goes away.                                                          *)
BlockedBy(c) ==
  /\ pc = "write" /\ cur = c /\ idx <= Len(ConfHosts)
  /\ conn[c] = "open" /\ ~Sendable(c)
RegularSweeps ==
  \A n \in 0..MaxTime :
    (sweeps = n /\ next_send < MaxTime) ~>
      (sweeps > n \/ ~Running \/ \E c \in Clients : []BlockedBy(c))

(* If the clients read what they are sent, one that connects and stays is  *)
(* served, although the raw socket may be readable at every poll.          *)
EveryClientServed ==
  ClientFairness => \A c \in Clients : conn[c] = "open" ~> conn[c] # "open"

(* Seen from outside, the daemon's many steps are those of PingdService: a *)
(* response built line by line, between packets, ticks and wall clock      *)
(* steps, shows the stamps of one moment; only a daemon that dies while it *)
(* responds leaves a shorter one.                                          *)
Heard == {h \in Hosts : addr[h] \in answered}
Report == [c \in Clients |-> IF conn[c] = "served" THEN sent[c] ELSE NoClient]
Service == INSTANCE PingdService WITH
  HostSeq <- ConfHosts, Clients <- Clients, NoReport <- NoClient,
  running <- Running, wall <- Wall, stamps <- last_received,
  heard <- Heard, report <- Report
ServiceImplemented == Service!Spec

-----------------------------------------------------------------------------
(* The inductive invariant.  Setup resolves the hosts in order and is over *)
(* when every host has an address of its own. *)
Resolved ==
  /\ \A i \in 1..Len(ConfHosts) :
       \/ addr[ConfHosts[i]] \in IPs
       \/ pc = "setup" /\ i >= idx
       \/ pc = "exited"
  /\ \A g, h \in Hosts : addr[g] = addr[h] /\ addr[g] # NoIP => g = h
  /\ pc = "setup" =>
       \A i \in 1..Len(ConfHosts) : i >= idx => addr[ConfHosts[i]] = NoIP

(* The next sweep is due one period after the last one ended, which is     *)
(* never further away than a period.  Between the reading of the clock and *)
(* poll the thread is awake, so poll gives up no later after the sweep is  *)
(* due than the thread was awake.                                          *)
Scheduled ==
  /\ next_send <= mono + Period
  /\ sweeps > 0 => next_send = sweepEnd + Period
  /\ pc = "poll" => now + timeout_ms = next_send /\ mono - now <= awake
  /\ pc = "polling" => deadline <= next_send + awake
  /\ NoSweepOverslept

(* A client is in the backlog once, nothing was sent to it there, and the  *)
(* client being served has left it.                                        *)
Serving ==
  /\ pc \notin {"write", "exited"} => cur = NoClient
  /\ pc = "write" => cur \in Clients /\ conn[cur] \notin {"none", "served"}
  /\ pc \in {"top", "poll", "polling", "recv", "accept"} => idx = 1
  /\ pc = "recv" /\ "server" \in revents => backlog # <<>>
  /\ \A i \in 1..Len(backlog) :
       /\ conn[backlog[i]] \notin {"none", "served"}
       /\ sent[backlog[i]] = <<>>
       /\ pc = "write" => cur # backlog[i]
       /\ \A j \in 1..Len(backlog) : backlog[i] = backlog[j] => i = j
  /\ \A c \in Clients : conn[c] = "none" => sent[c] = <<>>
  /\ NoBlindSyscall
  /\ ReportIsSnapshot

(* A stamp, wherever it is, comes from a packet. *)
Stamped ==
  /\ \A h \in Hosts : last_received[h] # 0 => addr[h] \in answered
  /\ \A i \in 1..Len(rxq) : rxq[i] \in answered
  /\ pc = "setup" => /\ \A h \in Hosts : last_received[h] = 0
                     /\ \A c \in Clients : sent[c] = <<>>
  /\ NoPhantomStamp

Inv == TypeOK /\ Resolved /\ Scheduled /\ Serving /\ Stamped
=============================================================================
