------------------------------- MODULE UpDown -------------------------------
(***************************************************************************)
(* Is a node that is up reported up, and one that is down reported down?   *)
(* The answer is made by three parties: pingd sweeps and stamps            *)
(* (pingd_loop.c), the network delays and loses, and libnodeupdown         *)
(* compares the stamps with a clock of its own                             *)
(* (nodeupdown_backend_pingd.c).  This module composes them with the time  *)
(* each of them takes.  Time is counted in ticks, stamps travel in whole   *)
(* seconds.                                                                *)
(*                                                                         *)
(* The daemon is the one of PingdService (see ServiceImplemented) with     *)
(* bounds on how late it may be, which Pingd justifies as long as the      *)
(* clients read what they asked for.                                       *)
(***************************************************************************)
EXTENDS Integers, Sequences, FiniteSets

CONSTANTS
  HostSeq, Clients, NoReport,  \* as in PingdService
  TicksPerSecond,
  Period,         \* conf.ping_period
  Late,           \* how long the daemon may be busy when a sweep is due
  RTT,            \* ticks within which a reply is back and stamped
  MaxLoss,        \* replies of one host lost in a row, at most
  Latency,        \* how long after the client's gettimeofday the snapshot
  Delay,          \* ... and how long before it, for a verdict to count
  Skews,          \* client's clock minus the daemon's
  TimeoutLen,     \* timeout_len, in seconds
  IntHalf,        \* 2^31: the width of the int given to abs
  MaxWait,        \* bound: the snapshot and the client's clock are this near
  Start, MaxTime  \* bound: the span of daemon time explored

HostSet == {HostSeq[i] : i \in 1..Len(HostSeq)}

VARIABLES
  wall,           \* the daemon's clock
  skew,           \* the client's clock is this much ahead
  next_send,      \* pingd_next_send
  alive, since,   \* whether each host answers, and since when
  replies,        \* replies on the wire: when their request was sent
  missed,         \* replies of each host lost in a row
  stamps,         \* info->last_received
  connected,      \* clients whose connection is established
  tv,             \* client's clock when it was read; 0 if it was not
  report,         \* what the daemon wrote to it
  taken,          \* history: the daemon's clock at the client's snapshot
  wasUp,          \* history: hosts that were up for long enough then
  wasDown         \* history: hosts that were down for long enough then

daemon == <<next_send, stamps>>
network == <<alive, since, replies, missed>>
client == <<connected, tv, report, taken, wasUp, wasDown>>
vars == <<wall, skew, daemon, network, client>>

Sec(t) == t \div TicksPerSecond
Abs(x) == IF x < 0 THEN -x ELSE x

(* The longest a stamp of a host that is up may stay the latest one.       *)
Gap == (MaxLoss + 1) * (Period + 1 + Late) + RTT

ASSUME TimesAssumption ==
  /\ {TicksPerSecond, Period, TimeoutLen, IntHalf, Start} \subseteq Nat \ {0}
  /\ {Late, RTT, MaxLoss, Latency, Delay, MaxWait, MaxTime} \subseteq Nat
  /\ Skews \subseteq Int /\ Skews # {}
(* The timeout leaves room for the losses, a client that reads its clock   *)
(* late, the skew, and the second lost by comparing whole seconds.         *)
ASSUME TimeoutAssumption == \A s \in Skews :
  /\ Gap + Delay + s <= (TimeoutLen - 1) * TicksPerSecond
  /\ Latency - s <= (TimeoutLen - 1) * TicksPerSecond
(* It is later than timeout_len seconds after the epoch, and 2^32 seconds  *)
(* after it are more than timeout_len away: a stamp of 0 is never recent.  *)
ASSUME EpochAssumption ==
  /\ Start + TicksPerSecond <= MaxTime + 1 /\ TimeoutLen <= IntHalf
  /\ \A s \in Skews : /\ Start + s >= TimeoutLen * TicksPerSecond
                      /\ Sec(MaxTime + s) + TimeoutLen <= 2 * IntHalf

NotRead == 0

Init ==
  /\ wall \in Start..Start + TicksPerSecond - 1 /\ skew \in Skews
  /\ next_send = 0 /\ stamps = [h \in HostSet |-> 0]
  /\ alive \in [HostSet -> BOOLEAN] /\ since = [h \in HostSet |-> wall]
  /\ replies = [h \in HostSet |-> {}] /\ missed = [h \in HostSet |-> 0]
  /\ connected = {}
  /\ tv = [c \in Clients |-> NotRead]
  /\ report = [c \in Clients |-> NoReport]
  /\ taken = [c \in Clients |-> 0]
  /\ wasUp = [c \in Clients |-> {}] /\ wasDown = [c \in Clients |-> {}]

(* When the client read its clock, by the clock of the daemon.             *)
ReadAt(c) == tv[c] - skew

(* Nothing that has a deadline is left undone when time passes; the first  *)
(* sweep is due when the daemon starts.  Nothing in the code bounds the    *)
(* time between the client's clock and the snapshot, whichever is first:   *)
(* MaxWait does for TLC.                                                   *)
Tick ==
  /\ wall < MaxTime
  /\ wall < next_send + 1 + Late
  /\ \A h \in HostSet : \A t \in replies[h] : wall < t + RTT
  /\ \A c \in Clients :
       /\ tv[c] # NotRead /\ report[c] = NoReport => wall < ReadAt(c) + MaxWait
       /\ tv[c] = NotRead /\ report[c] # NoReport => wall < taken[c] + MaxWait
  /\ wall' = wall + 1
  /\ UNCHANGED <<skew, daemon, network, client>>

(* pingd_loop: a sweep is due once the clock is past pingd_next_send, and  *)
(* the next one a period after it is done.                                 *)
SweepDue == wall > next_send
NextSend == wall + Period

Sweep ==
  /\ SweepDue
  /\ next_send' = NextSend
  /\ \E lost \in SUBSET {h \in HostSet : alive[h] /\ missed[h] < MaxLoss} :
       /\ replies' = [h \in HostSet |-> IF alive[h] /\ h \notin lost
                                        THEN replies[h] \cup {wall} ELSE replies[h]]
       /\ missed' = [h \in HostSet |-> IF h \in lost THEN missed[h] + 1 ELSE 0]
  /\ UNCHANGED <<wall, skew, stamps, alive, since, client>>

(* _receive_ping                                                           *)
ReceivePing(h) ==
  /\ \E t \in replies[h] : replies' = [replies EXCEPT ![h] = @ \ {t}]
  /\ stamps' = [stamps EXCEPT ![h] = wall]
  /\ UNCHANGED <<wall, skew, next_send, alive, since, missed, client>>

(* A node goes down or comes back. *)
Toggle(h) ==
  /\ alive' = [alive EXCEPT ![h] = ~@]
  /\ since' = [since EXCEPT ![h] = wall]
  /\ missed' = [missed EXCEPT ![h] = 0]
  /\ UNCHANGED <<wall, skew, daemon, replies, client>>

(* pingd_backend_get_updown_data: connect, *)
Connect(c) ==
  /\ c \notin connected
  /\ connected' = connected \cup {c}
  /\ UNCHANGED <<wall, skew, daemon, network, tv, report, taken,
                 wasUp, wasDown>>

(* ... then gettimeofday, when the daemon may have accepted the connection *)
(* and written its response already, *)
ReadClock(c) ==
  /\ c \in connected /\ tv[c] = NotRead
  /\ tv' = [tv EXCEPT ![c] = wall + skew]
  /\ UNCHANGED <<wall, skew, daemon, network, connected, report, taken,
                 wasUp, wasDown>>

(* abs(localtime - tv.tv_sec) < timeout_len: the difference is narrowed to *)
(* an int first.                                                           *)
ToInt(x) == ((x + IntHalf) % (2 * IntHalf)) - IntHalf
Recent_Unsigned(sec, now) ==                                   \* mutant
  sec <= now /\ now - sec < TimeoutLen
Recent_Late(sec, now) == Abs(ToInt(sec - now)) <= TimeoutLen   \* mutant
Recent(sec, now) == Abs(ToInt(sec - now)) < TimeoutLen

Snapshot_Now ==                                                \* mutant
  [i \in 1..Len(HostSeq) |-> <<HostSeq[i], wall>>]
Snapshot == [i \in 1..Len(HostSeq) |-> <<HostSeq[i], stamps[HostSeq[i]]>>]

(* The hosts that a snapshot taken now is to show as up and as down: those *)
(* that answer for longer than a stamp stays the latest one, and those     *)
(* that did not for the timeout and the time their last reply took.        *)
UpForLong == {h \in HostSet : alive[h] /\ wall - since[h] > Gap}
DownForLong ==
  {h \in HostSet :
     ~alive[h] /\ wall - since[h]
                    >= RTT + Latency + TimeoutLen * TicksPerSecond - skew}

(* _send_ping_data, the snapshot that Pingd shows it to be.                *)
Answer(c) ==
  /\ c \in connected /\ report[c] = NoReport
  /\ report' = [report EXCEPT ![c] = Snapshot]
  /\ taken' = [taken EXCEPT ![c] = wall]
  /\ wasUp' = [wasUp EXCEPT ![c] = UpForLong]
  /\ wasDown' = [wasDown EXCEPT ![c] = DownForLong]
  /\ UNCHANGED <<wall, skew, daemon, network, connected, tv>>

(* ... and the loop over the lines, once the client has both: the nodes it *)
(* adds as up follow from what the daemon wrote and the clock it read,     *)
(* whenever the loop runs.                                                 *)
HasBoth(c) == tv[c] # NotRead /\ report[c] # NoReport
Verdict(c) ==
  {HostSeq[i] : i \in {j \in 1..Len(HostSeq) :
                         Recent(Sec(report[c][j][2]), Sec(tv[c]))}}

Next ==
  \/ Tick \/ Sweep
  \/ \E h \in HostSet : ReceivePing(h) \/ Toggle(h)
  \/ \E c \in Clients : Connect(c) \/ ReadClock(c) \/ Answer(c)

Spec == Init /\ [][Next]_vars
-----------------------------------------------------------------------------
TypeOK ==
  /\ wall \in Nat /\ skew \in Skews /\ next_send \in 0..wall + Period
  /\ alive \in [HostSet -> BOOLEAN] /\ since \in [HostSet -> 0..wall]
  /\ replies \in [HostSet -> SUBSET (0..wall)] /\ missed \in [HostSet -> 0..MaxLoss]
  /\ stamps \in [HostSet -> 0..wall]
  /\ connected \subseteq Clients /\ tv \in [Clients -> Int]
  /\ DOMAIN report = Clients
  /\ taken \in [Clients -> 0..wall]
  /\ wasUp \in [Clients -> SUBSET HostSet]
  /\ wasDown \in [Clients -> SUBSET HostSet]

(* A host that was up for long enough at the snapshot is reported up,      *)
(* although replies are lost, the clocks differ and the client reads its   *)
(* own when the snapshot has been taken or is still to be taken.  How much *)
(* later or earlier is not bounded by the code: it is a premise.           *)
AliveIsUp ==
  \A c \in Clients :
    /\ HasBoth(c)
    /\ taken[c] <= ReadAt(c) + Latency /\ ReadAt(c) <= taken[c] + Delay
    => wasUp[c] \subseteq Verdict(c)

(* A host that was down at the snapshot for the timeout, and the time its  *)
(* last reply and the client took, is reported down, whether it was ever   *)
(* up or not and however late the client read its clock.                   *)
DeadIsDown ==
  \A c \in Clients :
    HasBoth(c) /\ taken[c] <= ReadAt(c) + Latency
    => wasDown[c] \cap Verdict(c) = {}

heard == {h \in HostSet : replies[h] # {} \/ stamps[h] # 0}

(* The timed daemon is still the one of PingdService.                      *)
Service == INSTANCE PingdService WITH running <- TRUE
ServiceImplemented == Service!Spec
=============================================================================
