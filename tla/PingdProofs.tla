---------------------------- MODULE PingdProofs ----------------------------
(***************************************************************************)
(* Theorems about pingd_loop.c for every number of hosts, addresses,       *)
(* clients and clock values.                                               *)
(***************************************************************************)
EXTENDS Pingd, TLAPS

(* The hosts of the configuration are those of its sequence. *)
LEMMA HostsLemma ==
  /\ Len(ConfHosts) \in Nat \ {0}
  /\ \A i \in 1..Len(ConfHosts) : ConfHosts[i] \in Hosts
  BY HostsAssumption DEF Hosts

(* A line of a response is one of Lines. *)
LEMMA LineType ==
  ASSUME TypeOK, NEW i \in 1..Len(ConfHosts)
  PROVE  Line(i) \in Lines
  BY HostsLemma DEF TypeOK, Line, Lines

Typed == TypeOK /\ Resolved

(* The first state is typed,                                               *)
LEMMA TypeInit == Init => Typed
  BY HostsLemma, BoundsAssumption DEF Init, Typed, TypeOK, Resolved, ConnStates

(* an exit of the daemon keeps it so,                                      *)
LEMMA ExitType == Typed /\ Exit => Typed'
  BY BoundsAssumption DEF Typed, TypeOK, Resolved, Exit, ConnStates, clock, net,
                          history

(* and so does every step.                                                 *)
LEMMA TypeStep == Typed /\ [Next]_vars => Typed'
<1> SUFFICES ASSUME Typed, [Next]_vars PROVE Typed'
  OBVIOUS
<1> USE HostsLemma, BoundsAssumption
<1> USE DEF clock, net, tcp, history
<1>1. CASE ResolveHost
  <2> PICK ip \in IPs :
         IF \E h \in Hosts : addr[h] = ip THEN Exit
         ELSE /\ addr' = [addr EXCEPT ![ConfHosts[idx]] = ip]
              /\ idx' = idx + 1
              /\ UNCHANGED <<pc, last_received, now, next_send, timeout_ms,
                             deadline, revents, cur, clock, net, tcp, history>>
    BY <1>1 DEF ResolveHost
  <2>1. CASE \E h \in Hosts : addr[h] = ip
    BY <2>1, ExitType DEF Typed
  <2>2. CASE ~\E h \in Hosts : addr[h] = ip
    <3>1. /\ pc = "setup" /\ idx \in 1..Len(ConfHosts)
          /\ addr' = [addr EXCEPT ![ConfHosts[idx]] = ip]
          /\ idx' = idx + 1
          /\ UNCHANGED <<pc, last_received, now, next_send, timeout_ms,
                         deadline, revents, cur, clock, net, tcp, history>>
      BY <1>1, <2>2 DEF ResolveHost, Typed, TypeOK
    <3>2. TypeOK'
      BY <3>1 DEF Typed, TypeOK
    <3>3. ASSUME NEW i \in 1..Len(ConfHosts)
          PROVE  addr'[ConfHosts[i]] \in IPs \/ i >= idx'
      BY <3>1 DEF Typed, TypeOK, Resolved
    <3>4. ASSUME NEW g \in Hosts, NEW h \in Hosts,
                 addr'[g] = addr'[h], addr'[g] # NoIP
          PROVE  g = h
      BY <2>2, <3>1, <3>4 DEF Typed, TypeOK, Resolved
    <3>5. ASSUME NEW i \in 1..Len(ConfHosts), i >= idx'
          PROVE  addr'[ConfHosts[i]] = NoIP
      <4>1. i >= idx /\ i # idx
        BY <3>1, <3>5
      <4>2. ConfHosts[i] # ConfHosts[idx]
        BY <3>1, <4>1, HostsAssumption
      <4> QED
        BY <3>1, <4>1, <4>2 DEF Typed, TypeOK, Resolved
    <3> QED
      BY <3>1, <3>2, <3>3, <3>4, <3>5 DEF Typed, Resolved
  <2> QED
    BY <2>1, <2>2
<1>2. CASE SetupDone
  BY <1>2 DEF SetupDone, Typed, TypeOK, Resolved
<1>3. CASE Top
  BY <1>3 DEF Top, Typed, TypeOK, Resolved, PollTimeout, TimevalSub
<1>4. CASE SendPing
  BY <1>4 DEF SendPing, Typed, TypeOK, Resolved
<1>5. CASE Rearm
  BY <1>5 DEF Rearm, Typed, TypeOK, Resolved, TimevalSub, NextSend
<1>6. CASE PollCall
  BY <1>6 DEF PollCall, Typed, TypeOK, Resolved
<1>7. CASE PollReturn
  BY <1>7 DEF PollReturn, Typed, TypeOK, Resolved, Dispatch, Readable
<1>8. CASE ReceivePing
  BY <1>8 DEF ReceivePing, Typed, TypeOK, Resolved, AfterReceive, Wall
<1>9. CASE Accept
  BY <1>9 DEF Accept, Typed, TypeOK, Resolved
<1>10. CASE WriteLine
  <2>1. sent' \in [Clients -> Seq(Lines)]
    <3>1. Line(idx) \in Lines
      BY <1>10, LineType DEF WriteLine, Typed, TypeOK
    <3>2. ASSUME NEW c \in Clients PROVE sent[c] \o <<Line(idx)>> \in Seq(Lines)
      BY <3>1 DEF Typed, TypeOK
    <3> QED
      BY <1>10, <3>2 DEF WriteLine, Typed, TypeOK, Written
  <2>2. conn' \in [Clients -> ConnStates]
    BY <1>10 DEF WriteLine, Typed, TypeOK, ConnStates
  <2> QED
    BY <1>10, <2>1, <2>2 DEF WriteLine, Typed, TypeOK, Resolved
<1>11. CASE WriteReset
  BY <1>11, ExitType DEF WriteReset, Typed
<1>12. CASE CloseConn
  <2>1. conn' \in [Clients -> ConnStates]
    BY <1>12 DEF CloseConn, Typed, TypeOK, ConnStates
  <2> QED
    BY <1>12, <2>1 DEF CloseConn, Typed, TypeOK, Resolved
<1>13. CASE CallFails
  BY <1>13, ExitType DEF CallFails, Typed
<1>14. CASE Tick
  BY <1>14 DEF Tick, Typed, TypeOK, Resolved, daemon
<1>15. CASE SetWallClock
  BY <1>15 DEF SetWallClock, Typed, TypeOK, Resolved, daemon
<1>16. ASSUME NEW ip \in IPs, AnswerPing(ip) PROVE Typed'
  BY <1>16 DEF AnswerPing, Deliver, Typed, TypeOK, Resolved, daemon
<1>17. ASSUME NEW ip \in IPs, LosePing(ip) PROVE Typed'
  BY <1>17 DEF LosePing, Typed, TypeOK, Resolved, daemon
<1>18. ASSUME NEW ip \in IPs, OtherPacket(ip) PROVE Typed'
  BY <1>18 DEF OtherPacket, Deliver, Typed, TypeOK, Resolved, daemon
<1>19. ASSUME NEW c \in Clients, ClientConnect(c) PROVE Typed'
  BY <1>19 DEF ClientConnect, Typed, TypeOK, Resolved, ConnStates, daemon
<1>20. ASSUME NEW c \in Clients, ClientRead(c) PROVE Typed'
  BY <1>20 DEF ClientRead, Typed, TypeOK, Resolved, daemon
<1>21. ASSUME NEW c \in Clients, ClientClose(c) PROVE Typed'
  BY <1>21 DEF ClientClose, Typed, TypeOK, Resolved, ConnStates, daemon
<1>22. CASE UNCHANGED vars
  BY <1>22 DEF vars, daemon, Typed, TypeOK, Resolved
<1> QED
  BY <1>1, <1>2, <1>3, <1>4, <1>5, <1>6, <1>7, <1>8, <1>9, <1>10, <1>11, <1>12,
     <1>13, <1>14, <1>15, <1>16, <1>17, <1>18, <1>19, <1>20, <1>21, <1>22
     DEF Next, DaemonStep, Environment

(* The daemon's variables keep their types: the iterator never runs off    *)
(* the host list and no time becomes negative, whatever the clocks, the    *)
(* network and the clients do.                                             *)
THEOREM TypeCorrect == Spec => []TypeOK
  <1>1. Typed => TypeOK
  BY DEF Typed
<1> QED
  BY TypeInit, TypeStep, <1>1, PTL DEF Spec
-----------------------------------------------------------------------------
(* What the world around the daemon may do to the state the invariants are *)
(* about: the daemon's own variables are not touched, *)
LEMMA EnvironmentFrame ==
  ASSUME TypeOK, Environment \/ UNCHANGED vars
  PROVE  /\ UNCHANGED <<pc, idx, addr, last_received, now, next_send,
                        timeout_ms, deadline, revents, cur, sent, sweeps,
                        sweepEnd>>
         /\ mono' \in Nat /\ mono' >= mono
  BY DEF TypeOK, Environment, Tick, SetWallClock, AnswerPing, LosePing,
         OtherPacket, ClientConnect, ClientRead, ClientClose, Deliver, vars,
         daemon, clock, net, tcp, history

(* ... packets are queued behind those already there, *)
LEMMA EnvironmentPackets ==
  ASSUME Environment \/ UNCHANGED vars
  PROVE  /\ answered \subseteq answered'
         /\ rxq' = rxq \/ \E ip \in answered' : rxq' = Append(rxq, ip)
<1>1. CASE \E ip \in IPs : Deliver(ip)
  <2> PICK ip \in IPs : Deliver(ip)
    BY <1>1
  <2>1. ip \in answered' /\ answered \subseteq answered'
    BY DEF Deliver
  <2>2. rxq' = rxq \/ rxq' = Append(rxq, ip)
    BY DEF Deliver
  <2> QED
    BY <2>1, <2>2
<1>2. CASE UNCHANGED <<rxq, answered>>
  BY <1>2
<1>3. \/ \E ip \in IPs : Deliver(ip)
      \/ UNCHANGED <<rxq, answered>>
  BY DEF Environment, Tick, SetWallClock, AnswerPing, LosePing, OtherPacket,
         ClientConnect, ClientRead, ClientClose, vars, net, history
<1> QED
  BY <1>1, <1>2, <1>3

(* ... and a connection is opened once and left once. *)
LEMMA EnvironmentClients ==
  ASSUME Environment \/ UNCHANGED vars
  PROVE  \/ UNCHANGED <<backlog, conn>>
         \/ \E c \in Clients : /\ conn[c] = "none"
                               /\ conn' = [conn EXCEPT ![c] = "open"]
                               /\ backlog' = Append(backlog, c)
         \/ /\ UNCHANGED backlog
            /\ \E c \in Clients, s \in {"reset", "left"} :
                 conn[c] = "open" /\ conn' = [conn EXCEPT ![c] = s]
<1>1. \/ UNCHANGED <<backlog, conn>>
      \/ \E c \in Clients : ClientConnect(c) \/ ClientClose(c)
  BY DEF Environment, Tick, SetWallClock, AnswerPing, LosePing, OtherPacket,
         ClientRead, vars, tcp
<1>2. ASSUME NEW c \in Clients, ClientConnect(c)
      PROVE  /\ conn[c] = "none"
             /\ conn' = [conn EXCEPT ![c] = "open"]
             /\ backlog' = Append(backlog, c)
  BY <1>2 DEF ClientConnect
<1>3. ASSUME NEW c \in Clients, ClientClose(c)
      PROVE  /\ UNCHANGED backlog
             /\ \E s \in {"reset", "left"} :
                  conn[c] = "open" /\ conn' = [conn EXCEPT ![c] = s]
  BY <1>3 DEF ClientClose
<1> QED
  BY <1>1, <1>2, <1>3

(* A step of the daemon, or one of its surroundings.                       *)
LEMMA StepCases ==
  ASSUME [Next]_vars
  PROVE  DaemonStep \/ Exit \/ Environment \/ UNCHANGED vars
  BY DEF Next, CallFails

-----------------------------------------------------------------------------
(* Of the history of the schedule only the clock's tick changes a part,    *)
(* and it counts itself unless the thread is asleep in poll.               *)
LEMMA EnvironmentSchedule ==
  ASSUME TypeOK, Environment \/ UNCHANGED vars
  PROVE  \/ mono' = mono /\ awake' = awake
         \/ /\ mono' = mono + 1
            /\ \/ awake' = awake + 1
               \/ awake' = awake /\ pc = "polling" /\ mono < deadline
<1>1. CASE Tick
  BY <1>1 DEF Tick, Asleep
<1> QED
  BY <1>1 DEF Environment, SetWallClock, AnswerPing, LosePing, OtherPacket,
              ClientConnect, ClientRead, ClientClose, Deliver, vars, clock,
              history

(* A time that is at most a period ahead stays so as the clock advances.   *)
LEMMA LaterStill ==
  ASSUME NEW t \in Nat, NEW a \in Nat, NEW b \in Nat, NEW p \in Nat,
         t <= a + p, a <= b
  PROVE  t <= b + p
  OBVIOUS

(* The schedule is right at the start                                      *)
LEMMA ScheduledInit == Init => Scheduled
  BY BoundsAssumption DEF Init, Scheduled, NoSweepOverslept

(* and every step keeps it right.                                          *)
LEMMA ScheduledStep == TypeOK /\ Scheduled /\ [Next]_vars => Scheduled'
<1> SUFFICES ASSUME TypeOK, Scheduled, [Next]_vars PROVE Scheduled'
  OBVIOUS
<1> USE BoundsAssumption
<1> USE DEF clock, net, tcp, history, Running, NoSweepOverslept
<1>1. CASE Top
  BY <1>1 DEF Top, Scheduled, TypeOK, PollTimeout, TimevalSub, SweepDue
<1>2. CASE Rearm
  BY <1>2 DEF Rearm, Scheduled, TypeOK, TimevalSub, NextSend
<1>3. CASE PollCall
  <2>1. /\ deadline' = mono + timeout_ms /\ pc' = "polling"
        /\ now + timeout_ms = next_send /\ mono - now <= awake
        /\ UNCHANGED <<next_send, mono, sweeps, sweepEnd, awake>>
    BY <1>3 DEF PollCall, Scheduled
  <2>2. deadline' <= next_send + awake
    BY <2>1 DEF TypeOK
  <2> QED
    BY <1>3, <2>1, <2>2 DEF PollCall, Scheduled
<1>4. CASE PollReturn
  BY <1>4 DEF PollReturn, Dispatch, Scheduled
<1>5. CASE ResolveHost
  BY <1>5 DEF ResolveHost, Exit, Scheduled
<1>6. CASE SetupDone \/ SendPing
  BY <1>6 DEF SetupDone, SendPing, Scheduled
<1>7. CASE ReceivePing \/ Accept
  BY <1>7 DEF ReceivePing, AfterReceive, Accept, Scheduled
<1>8. CASE WriteLine \/ CloseConn
  BY <1>8 DEF WriteLine, CloseConn, Scheduled
<1>9. CASE Exit
  BY <1>9 DEF Exit, Scheduled
<1>10. CASE Environment \/ UNCHANGED vars
  <2>1. /\ UNCHANGED <<pc, now, next_send, timeout_ms, deadline, sweeps,
                       sweepEnd>>
        /\ mono' \in Nat /\ mono' >= mono
    BY <1>10, EnvironmentFrame
  <2>2. next_send' <= mono' + Period
    BY <2>1, LaterStill DEF Scheduled, TypeOK
  <2>3. \/ mono' = mono /\ awake' = awake
        \/ mono' = mono + 1 /\ awake' = awake + 1
        \/ /\ mono' = mono + 1 /\ awake' = awake
           /\ pc = "polling" /\ mono < deadline
    BY <1>10, EnvironmentSchedule
  <2>4. sweeps > 0 => next_send = sweepEnd + Period
    BY DEF Scheduled
  <2>5. CASE mono' = mono /\ awake' = awake
    BY <2>1, <2>2, <2>5 DEF Scheduled
  <2>6. CASE mono' = mono + 1 /\ awake' = awake + 1
    BY <2>1, <2>2, <2>6 DEF Scheduled, TypeOK
  <2>7. CASE /\ mono' = mono + 1 /\ awake' = awake
             /\ pc = "polling" /\ mono < deadline
    <3>1. mono + 1 <= next_send + awake
      BY <2>7 DEF Scheduled, TypeOK
    <3> QED
      BY <2>1, <2>2, <2>4, <2>7, <3>1 DEF Scheduled
  <2> QED
    BY <2>3, <2>5, <2>6, <2>7
<1> QED
  BY <1>1, <1>2, <1>3, <1>4, <1>5, <1>6, <1>7, <1>8, <1>9, <1>10, StepCases
     DEF DaemonStep, WriteReset

(* However the daemon is woken in between and whatever the wall clock is   *)
(* set to, a sweep is overdue by no more than the time since the last one  *)
(* in which the thread did not sleep in poll.                              *)
THEOREM NeverOversleeps == Spec => []NoSweepOverslept
<1>1. Typed => TypeOK
  BY DEF Typed
<1>2. Scheduled => NoSweepOverslept
  BY DEF Scheduled
<1> QED
  BY TypeInit, TypeStep, ScheduledInit, ScheduledStep, <1>1, <1>2, PTL DEF Spec

(* Two sweeps are more than ping_period apart on the monotonic clock.      *)
THEOREM SweepsSpaced == Spec => SweepSpacing
<1>1. Typed => TypeOK
  BY DEF Typed
<1>2. ASSUME TypeOK, Scheduled, [Next]_vars
      PROVE  [pc = "top" /\ pc' = "send" /\ sweeps > 0
                => mono > sweepEnd + Period]_vars
  <2>1. CASE Top
    BY <1>2, <2>1 DEF Top, Scheduled, SweepDue
  <2>2. CASE Environment \/ UNCHANGED vars
    BY <1>2, <2>2, EnvironmentFrame
  <2>3. CASE pc # "top" \/ Exit
    BY <2>3 DEF Exit
  <2> QED
    BY <1>2, <2>1, <2>2, <2>3, StepCases
       DEF DaemonStep, ResolveHost, SetupDone, SendPing, Rearm, PollCall,
           PollReturn, ReceivePing, Accept, WriteLine, WriteReset, CloseConn
<1> QED
  BY TypeInit, TypeStep, ScheduledInit, ScheduledStep, <1>1, <1>2, PTL
     DEF Spec, SweepSpacing

-----------------------------------------------------------------------------
(* Serving, in parts: where the thread is while there is a client, what    *)
(* waits in the backlog, and the response.                                 *)
Thread ==
  /\ pc \notin {"write", "exited"} => cur = NoClient
  /\ pc = "write" => cur \in Clients /\ conn[cur] \notin {"none", "served"}
  /\ pc \in {"top", "poll", "polling", "recv", "accept"} => idx = 1
  /\ pc = "recv" /\ "server" \in revents => backlog # <<>>
  /\ NoBlindSyscall
Waiting ==
  /\ \A i \in 1..Len(backlog) :
       /\ conn[backlog[i]] \notin {"none", "served"}
       /\ sent[backlog[i]] = <<>>
       /\ pc = "write" => cur # backlog[i]
       /\ \A j \in 1..Len(backlog) : backlog[i] = backlog[j] => i = j
  /\ \A c \in Clients : conn[c] = "none" => sent[c] = <<>>

LEMMA ServingParts == Serving <=> Thread /\ Waiting /\ ReportIsSnapshot
  BY DEF Serving, Thread, Waiting

LEMMA ThreadStep == TypeOK /\ Thread /\ Waiting /\ [Next]_vars => Thread'
<1> SUFFICES ASSUME TypeOK, Thread, Waiting, [Next]_vars PROVE Thread'
  OBVIOUS
<1> USE BoundsAssumption
<1> USE DEF clock, net, tcp, history, Thread, NoBlindSyscall
<1>1. CASE ResolveHost
  BY <1>1 DEF ResolveHost, Exit
<1>2. CASE SetupDone
  BY <1>2 DEF SetupDone
<1>3. CASE Top
  BY <1>3 DEF Top
<1>4. CASE SendPing
  BY <1>4 DEF SendPing
<1>5. CASE Rearm
  BY <1>5 DEF Rearm
<1>6. CASE PollCall
  BY <1>6 DEF PollCall
<1>7. CASE PollReturn
  BY <1>7 DEF PollReturn, Dispatch, Readable
<1>8. CASE ReceivePing
  BY <1>8 DEF ReceivePing, AfterReceive
<1>9. CASE Accept
  <2>1. /\ backlog # <<>> /\ cur' = backlog[1] /\ pc' = "write" /\ conn' = conn
    BY <1>9 DEF Accept
  <2>2. 1 \in 1..Len(backlog) /\ backlog[1] \in Clients
    BY <2>1 DEF TypeOK
  <2>3. conn[backlog[1]] \notin {"none", "served"}
    BY <2>2 DEF Waiting
  <2> QED
    BY <2>1, <2>2, <2>3
<1>10. CASE WriteLine
  BY <1>10 DEF WriteLine, TypeOK
<1>11. CASE Exit
  BY <1>11 DEF Exit
<1>12. CASE CloseConn
  BY <1>12 DEF CloseConn
<1>13. CASE Environment \/ UNCHANGED vars
  <2>1. UNCHANGED <<pc, idx, cur, revents>>
    BY <1>13, EnvironmentFrame
  <2>2. rxq # <<>> => rxq' # <<>>
    BY <1>13, EnvironmentPackets DEF TypeOK
  <2>3. backlog # <<>> => backlog' # <<>>
    BY <1>13, EnvironmentClients DEF TypeOK
  <2>4. ASSUME NEW c \in Clients, conn[c] \notin {"none", "served"}
        PROVE  conn'[c] \notin {"none", "served"}
    BY <1>13, <2>4, EnvironmentClients DEF TypeOK
  <2> QED
    BY <2>1, <2>2, <2>3, <2>4
<1> QED
  BY <1>1, <1>2, <1>3, <1>4, <1>5, <1>6, <1>7, <1>8, <1>9, <1>10, <1>11, <1>12,
     <1>13, StepCases DEF DaemonStep, WriteReset

(* What the operations of the kernel's queues and of a client's response   *)
(* do, index by index. *)
LEMMA AppendLemma ==
  ASSUME NEW S, NEW s \in Seq(S), NEW e \in S
  PROVE  /\ Append(s, e) \in Seq(S) /\ Len(Append(s, e)) = Len(s) + 1
         /\ \A i \in 1..Len(s) : Append(s, e)[i] = s[i]
         /\ Append(s, e)[Len(s) + 1] = e
  OBVIOUS

LEMMA AddLemma ==
  ASSUME NEW S, NEW s \in Seq(S), NEW e \in S
  PROVE  /\ s \o <<e>> \in Seq(S) /\ Len(s \o <<e>>) = Len(s) + 1
         /\ \A i \in 1..Len(s) : (s \o <<e>>)[i] = s[i]
         /\ (s \o <<e>>)[Len(s) + 1] = e
  OBVIOUS

LEMMA TailLemma ==
  ASSUME NEW S, NEW s \in Seq(S), s # <<>>
  PROVE  /\ Tail(s) \in Seq(S) /\ Len(Tail(s)) = Len(s) - 1 /\ Len(s) \in Nat \ {0}
         /\ Head(s) = s[1] /\ s[1] \in S
         /\ \A i \in 1..Len(Tail(s)) : i + 1 \in 1..Len(s) /\ Tail(s)[i] = s[i + 1]
  OBVIOUS

LEMMA WaitingStep == TypeOK /\ Thread /\ Waiting /\ [Next]_vars => Waiting'
<1> SUFFICES ASSUME TypeOK, Thread, Waiting, [Next]_vars PROVE Waiting'
  OBVIOUS
<1> USE BoundsAssumption
<1> USE DEF clock, net, tcp, history
<1>1. CASE Exit
  BY <1>1 DEF Exit, Waiting, TypeOK
<1>2. CASE /\ UNCHANGED <<backlog, conn, sent>>
           /\ pc' = "write" => pc = "write" /\ UNCHANGED cur
  BY <1>2 DEF Waiting
<1>3. CASE Accept
  <2>1. /\ backlog # <<>> /\ cur' = Head(backlog) /\ backlog' = Tail(backlog)
        /\ pc' = "write" /\ UNCHANGED <<conn, sent>>
    BY <1>3 DEF Accept
  <2>2. /\ cur' = backlog[1] /\ 1 \in 1..Len(backlog) /\ Len(backlog') \in Nat
        /\ \A i \in 1..Len(backlog') : i + 1 \in 1..Len(backlog) /\ backlog'[i] = backlog[i + 1]
    BY <2>1, TailLemma DEF TypeOK
  <2>3. ASSUME NEW i \in 1..Len(backlog')
        PROVE  /\ conn'[backlog'[i]] \notin {"none", "served"}
               /\ sent'[backlog'[i]] = <<>>
               /\ cur' # backlog'[i]
    <3>1. i + 1 \in 1..Len(backlog) /\ backlog'[i] = backlog[i + 1] /\ i + 1 # 1
      BY <2>2
    <3> QED
      BY <2>1, <2>2, <3>1 DEF Waiting
  <2>4. ASSUME NEW i \in 1..Len(backlog'), NEW j \in 1..Len(backlog'), backlog'[i] = backlog'[j]
        PROVE  i = j
    <3>1. i + 1 \in 1..Len(backlog) /\ j + 1 \in 1..Len(backlog) /\ backlog[i + 1] = backlog[j + 1]
      BY <2>2, <2>4
    <3>2. i + 1 = j + 1
      BY <3>1 DEF Waiting
    <3> QED
      BY <3>2
  <2>5. \A c \in Clients : conn'[c] = "none" => sent'[c] = <<>>
    BY <2>1 DEF Waiting
  <2> QED
    BY <2>3, <2>4, <2>5 DEF Waiting
<1>4. CASE WriteLine
  <2>1. /\ pc = "write" /\ UNCHANGED <<pc, cur, backlog>> /\ cur \in Clients
        /\ \A c \in Clients \ {cur} : sent'[c] = sent[c] /\ conn'[c] = conn[c]
        /\ conn'[cur] \notin {"none", "served"}
    BY <1>4 DEF WriteLine, Thread, TypeOK
  <2>2. \A i \in 1..Len(backlog) : backlog[i] \in Clients \ {cur}
    <3>1. \A i \in 1..Len(backlog) : backlog[i] \in Clients
      BY DEF TypeOK
    <3> QED
      BY <2>1, <3>1 DEF Waiting
  <2> QED
    BY <2>1, <2>2 DEF Waiting
<1>5. CASE CloseConn
  <2>1. /\ pc = "write" /\ pc' = "top" /\ UNCHANGED <<sent, backlog>> /\ cur \in Clients
        /\ \A c \in Clients \ {cur} : conn'[c] = conn[c]
        /\ conn'[cur] # "none"
    BY <1>5 DEF CloseConn, Thread, TypeOK
  <2>2. \A i \in 1..Len(backlog) : backlog[i] \in Clients \ {cur}
    <3>1. \A i \in 1..Len(backlog) : backlog[i] \in Clients
      BY DEF TypeOK
    <3> QED
      BY <2>1, <3>1 DEF Waiting
  <2> QED
    BY <2>1, <2>2 DEF Waiting
<1>6. CASE Environment \/ UNCHANGED vars
  <2>1. UNCHANGED <<pc, cur, sent>>
    BY <1>6, EnvironmentFrame
  <2>2. ASSUME NEW c \in Clients, conn[c] = "none", conn' = [conn EXCEPT ![c] = "open"],
               backlog' = Append(backlog, c)
        PROVE  Waiting'
    <3>0. /\ Len(backlog') = Len(backlog) + 1 /\ Len(backlog) \in Nat
          /\ backlog'[Len(backlog) + 1] = c
          /\ \A i \in 1..Len(backlog) : backlog'[i] = backlog[i]
      BY <2>2, AppendLemma DEF TypeOK
    <3>1. /\ Len(backlog') = Len(backlog) + 1 /\ backlog'[Len(backlog) + 1] = c
          /\ \A i \in 1..Len(backlog) : backlog'[i] = backlog[i] /\ backlog[i] # c
          /\ \A i \in 1..Len(backlog') : i \in 1..Len(backlog) \/ i = Len(backlog) + 1
      BY <2>2, <3>0 DEF Waiting
    <3>2. /\ conn'[c] = "open" /\ \A d \in Clients \ {c} : conn'[d] = conn[d]
          /\ sent[c] = <<>> /\ (pc = "write" => cur # c)
      BY <2>2 DEF Waiting, Thread, TypeOK
    <3>3. \A i \in 1..Len(backlog) : backlog[i] \in Clients \ {c}
      BY <3>1 DEF TypeOK
    <3>4. ASSUME NEW i \in 1..Len(backlog')
          PROVE  /\ conn'[backlog'[i]] \notin {"none", "served"}
                 /\ sent'[backlog'[i]] = <<>>
                 /\ pc' = "write" => cur' # backlog'[i]
      BY <2>1, <3>1, <3>2, <3>3 DEF Waiting
    <3>5. ASSUME NEW i \in 1..Len(backlog'), NEW j \in 1..Len(backlog'), backlog'[i] = backlog'[j]
          PROVE  i = j
      BY <3>1, <3>5 DEF Waiting
    <3>6. \A d \in Clients : conn'[d] = "none" => sent'[d] = <<>>
      BY <2>1, <3>2 DEF Waiting
    <3> QED
      BY <3>4, <3>5, <3>6 DEF Waiting
  <2>3. ASSUME UNCHANGED backlog,
               NEW c \in Clients, NEW x \in {"reset", "left"},
               conn[c] = "open", conn' = [conn EXCEPT ![c] = x]
        PROVE  Waiting'
    <3>1. /\ conn'[c] \notin {"none", "served"}
          /\ \A d \in Clients \ {c} : conn'[d] = conn[d]
      BY <2>3 DEF TypeOK
    <3>2. \A i \in 1..Len(backlog) : backlog[i] \in Clients
      BY DEF TypeOK
    <3>3. \A i \in 1..Len(backlog) : conn'[backlog[i]] \notin {"none", "served"}
      BY <3>1, <3>2 DEF Waiting
    <3>4. \A d \in Clients : conn'[d] = "none" => sent[d] = <<>>
      BY <3>1 DEF Waiting
    <3> QED
      BY <2>1, <2>3, <3>3, <3>4 DEF Waiting
  <2>4. CASE UNCHANGED <<backlog, conn>>
    BY <2>1, <2>4 DEF Waiting
  <2> QED
    BY <1>6, <2>2, <2>3, <2>4, EnvironmentClients
<1>7. ASSUME DaemonStep, ~Exit, ~Accept, ~WriteLine, ~CloseConn
      PROVE  /\ UNCHANGED <<backlog, conn, sent>>
             /\ pc' = "write" => pc = "write" /\ UNCHANGED cur
  BY <1>7 DEF DaemonStep, ResolveHost, SetupDone, Top, SendPing, Rearm, PollCall,
              PollReturn, Dispatch, ReceivePing, AfterReceive, WriteReset
<1> QED
  BY <1>1, <1>2, <1>3, <1>4, <1>5, <1>6, <1>7, StepCases

(* The response grows by the next host's line; the stamps it shows do not  *)
(* change while it is written. *)
LEMMA SnapshotStep ==
  TypeOK /\ Thread /\ Waiting /\ ReportIsSnapshot /\ [Next]_vars => ReportIsSnapshot'
<1> SUFFICES ASSUME TypeOK, Thread, Waiting, ReportIsSnapshot, [Next]_vars, pc' = "write"
             PROVE  /\ Len(sent'[cur']) = idx' - 1
                    /\ \A i \in 1..Len(sent'[cur']) : sent'[cur'][i] = Line(i)'
  BY DEF ReportIsSnapshot
<1> USE DEF clock, net, tcp, history
<1>1. CASE Accept
  <2>1. /\ backlog # <<>> /\ cur' = backlog[1] /\ UNCHANGED <<idx, sent>> /\ idx = 1
    BY <1>1 DEF Accept, Thread, TypeOK
  <2>2. 1 \in 1..Len(backlog)
    BY <2>1 DEF TypeOK
  <2> QED
    BY <2>1, <2>2 DEF Waiting
<1>2. CASE WriteLine
  <2>1. /\ pc = "write" /\ cur \in Clients /\ cur' = cur /\ idx' = idx + 1
        /\ sent'[cur] = sent[cur] \o <<Line(idx)>> /\ UNCHANGED last_received
        /\ idx \in 1..Len(ConfHosts)
    BY <1>2 DEF WriteLine, Written, Thread, TypeOK
  <2>2. Len(sent[cur]) = idx - 1 /\ \A i \in 1..Len(sent[cur]) : sent[cur][i] = Line(i)
    BY <2>1 DEF ReportIsSnapshot
  <2>3. sent[cur] \in Seq(Lines) /\ Line(idx) \in Lines
    BY <2>1, LineType DEF TypeOK
  <2>4. /\ Len(sent'[cur]) = idx /\ sent'[cur][idx] = Line(idx)
        /\ \A i \in 1..idx - 1 : sent'[cur][i] = sent[cur][i]
    BY <2>1, <2>2, <2>3, AddLemma
  <2>5. \A i \in 1..idx : Line(i)' = Line(i)
    BY <2>1 DEF Line
  <2>6. ASSUME NEW i \in 1..idx PROVE sent'[cur][i] = Line(i)'
    <3>1. CASE i = idx
      BY <2>4, <2>5, <3>1
    <3>2. CASE i \in 1..idx - 1
      BY <2>2, <2>4, <2>5, <3>2
    <3>3. i = idx \/ i \in 1..idx - 1
      BY <2>1, HostsLemma
    <3> QED
      BY <3>1, <3>2, <3>3
  <2>7. Len(sent'[cur]) = idx' - 1
    BY <2>1, <2>4
  <2> QED
    BY <2>1, <2>4, <2>6, <2>7
<1>3. CASE Environment \/ UNCHANGED vars
  <2>1. UNCHANGED <<pc, idx, cur, sent, last_received>>
    BY <1>3, EnvironmentFrame
  <2> QED
    BY <2>1 DEF ReportIsSnapshot, Line
<1>4. ~Exit
  BY DEF Exit
<1>5. ASSUME DaemonStep PROVE Accept \/ WriteLine
  BY <1>4, <1>5 DEF DaemonStep, ResolveHost, SetupDone, Top, SendPing, Rearm,
     PollCall, PollReturn, Dispatch, ReceivePing, AfterReceive, WriteReset, CloseConn
<1> QED
  BY <1>1, <1>2, <1>3, <1>4, <1>5, StepCases

(* A stamp stands for a packet: the queue holds packets of machines that   *)
(* sent one, a host is stamped for a packet of its own address, and a      *)
(* response copies stamps. *)
LEMMA StampedStep == Typed /\ Thread /\ Stamped /\ [Next]_vars => Stamped'
<1> SUFFICES ASSUME Typed, Thread, Stamped, [Next]_vars PROVE Stamped'
  OBVIOUS
<1> USE DEF clock, net, tcp, history
<1> DEFINE
      KnownIf(h, t) == t # 0 => addr[h] \in answered
<1>0. TypeOK
  BY DEF Typed
<1>1. CASE UNCHANGED <<addr, last_received, rxq, sent, answered>> /\ (pc' = "setup" => pc = "setup")
  BY <1>1 DEF Stamped, NoPhantomStamp
<1>2. CASE ResolveHost
  <2>1. CASE Exit
    BY <2>1 DEF Exit, Stamped, NoPhantomStamp
  <2>2. CASE ~Exit
    <3>1. pc = "setup" /\ UNCHANGED <<pc, last_received, rxq, sent, answered>>
      BY <1>2, <2>2 DEF ResolveHost
    <3> QED
      BY <3>1 DEF Stamped, NoPhantomStamp
  <2> QED
    BY <2>1, <2>2
<1>3. CASE ReceivePing
  <2>1. /\ rxq # <<>> /\ rxq' = Tail(rxq) /\ UNCHANGED <<addr, sent, answered>> /\ pc' # "setup"
        /\ last_received' = [h \in Hosts |-> IF addr[h] = Head(rxq) THEN Wall ELSE last_received[h]]
    BY <1>3 DEF ReceivePing, Indexed, AfterReceive
  <2>2. /\ Head(rxq) = rxq[1] /\ 1 \in 1..Len(rxq)
        /\ \A i \in 1..Len(rxq') : i + 1 \in 1..Len(rxq) /\ rxq'[i] = rxq[i + 1]
    BY <1>0, <2>1, TailLemma DEF TypeOK
  <2>3. Head(rxq) \in answered /\ \A i \in 1..Len(rxq') : rxq'[i] \in answered
    BY <2>2 DEF Stamped
  <2>4. \A h \in Hosts : last_received'[h] # 0 => addr[h] \in answered
    BY <2>1, <2>3 DEF Stamped
  <2> QED
    BY <2>1, <2>3, <2>4 DEF Stamped, NoPhantomStamp
<1>4. CASE WriteLine
  <2>1. /\ pc = "write" /\ UNCHANGED <<pc, addr, last_received, rxq, answered>> /\ cur \in Clients
        /\ sent' = [sent EXCEPT ![cur] = @ \o <<Line(idx)>>]
        /\ idx \in 1..Len(ConfHosts)
    BY <1>0, <1>4 DEF WriteLine, Written, Thread, TypeOK
  <2>2. sent[cur] \in Seq(Lines) /\ Line(idx) \in Lines
    BY <1>0, <2>1, LineType DEF TypeOK
  <2>3. KnownIf(Line(idx)[1], Line(idx)[2])
    BY <2>1, HostsLemma DEF Stamped, Line
  <2>4. ASSUME NEW i \in 1..Len(sent'[cur])
        PROVE  KnownIf(sent'[cur][i][1], sent'[cur][i][2])
    <3>1. /\ sent'[cur] = sent[cur] \o <<Line(idx)>> /\ Len(sent[cur]) \in Nat
          /\ Len(sent'[cur]) = Len(sent[cur]) + 1
      BY <1>0, <2>1, <2>2, AddLemma DEF TypeOK
    <3>2. CASE i = Len(sent[cur]) + 1
      BY <2>2, <2>3, <3>1, <3>2, AddLemma
    <3>3. CASE i \in 1..Len(sent[cur])
      BY <2>1, <2>2, <3>1, <3>3, AddLemma DEF Stamped, NoPhantomStamp
    <3> QED
      BY <3>1, <3>2, <3>3
  <2>5. ASSUME NEW c \in Clients \ {cur} PROVE sent'[c] = sent[c]
    BY <1>0, <2>1 DEF TypeOK
  <2> QED
    BY <2>1, <2>4, <2>5 DEF Stamped, NoPhantomStamp
<1>5. CASE Environment \/ UNCHANGED vars
  <2>1. UNCHANGED <<pc, addr, last_received, sent>> /\ answered \subseteq answered'
    BY <1>0, <1>5, EnvironmentFrame, EnvironmentPackets
  <2>2. \A i \in 1..Len(rxq') : rxq'[i] \in answered'
    <3>1. CASE rxq' = rxq
      BY <2>1, <3>1 DEF Stamped
    <3>2. ASSUME NEW ip \in answered', rxq' = Append(rxq, ip)
          PROVE  \A i \in 1..Len(rxq') : rxq'[i] \in answered'
      <4>1. ip \in IPs
        BY <3>2, TypeStep DEF Typed, TypeOK
      <4>2. \A i \in 1..Len(rxq') : i \in 1..Len(rxq) \/ i = Len(rxq) + 1
        BY <1>0, <3>2, <4>1, AppendLemma DEF TypeOK
      <4> QED
        BY <1>0, <2>1, <3>2, <4>1, <4>2, AppendLemma DEF TypeOK, Stamped
    <3> QED
      BY <1>5, <3>1, <3>2, EnvironmentPackets
  <2> QED
    BY <2>1, <2>2 DEF Stamped, NoPhantomStamp
<1>6. ASSUME DaemonStep \/ Exit, ~ResolveHost, ~ReceivePing, ~WriteLine
      PROVE  /\ UNCHANGED <<addr, last_received, rxq, sent, answered>>
             /\ pc' = "setup" => pc = "setup"
  BY <1>6 DEF DaemonStep, Exit, SetupDone, Top, SendPing, Rearm, PollCall,
              PollReturn, Dispatch, Accept, WriteReset, CloseConn
<1> QED
  BY <1>1, <1>2, <1>3, <1>4, <1>5, <1>6, StepCases

(* All of it, at the start                                                 *)
LEMMA InvInit == Init => Inv
<1> SUFFICES ASSUME Init PROVE Inv
  OBVIOUS
<1>1. Serving
  BY DEF Init, Serving, NoBlindSyscall, ReportIsSnapshot
<1>2. Stamped
  BY DEF Init, Stamped, NoPhantomStamp
<1> QED
  BY <1>1, <1>2, TypeInit, ScheduledInit DEF Typed, Inv

(* and in every step.                                                      *)
LEMMA InvStep == Inv /\ [Next]_vars => Inv'
<1> SUFFICES ASSUME Inv, [Next]_vars PROVE Inv'
  OBVIOUS
<1>1. Typed /\ TypeOK /\ Thread /\ Waiting /\ ReportIsSnapshot
  BY ServingParts DEF Inv, Typed
<1>2. Serving'
  BY <1>1, ThreadStep, WaitingStep, SnapshotStep, ServingParts, PTL
<1> QED
  BY <1>1, <1>2, TypeStep, ScheduledStep, StampedStep DEF Inv, Typed

(* The daemon never blocks in a call it did not poll for, what it has      *)
(* written to a client is a prefix of one snapshot, and every stamp it     *)
(* ever sent out is of a machine that did send a packet.                   *)
THEOREM ServesSnapshots == Spec => []Inv
  BY InvInit, InvStep, PTL DEF Spec
-----------------------------------------------------------------------------
(* The daemon implements PingdService.  Every step is one of the service,  *)
(* seen through Heard and Report, or none.                                 *)
LEMMA SameHosts == Service!HostSet = Hosts
  BY DEF Service!HostSet, Hosts

LEMMA ServiceStutter ==
  ASSUME (pc = "exited") <=> (pc' = "exited"),
         UNCHANGED <<mono, offset, last_received, Heard, Report>>
  PROVE  UNCHANGED Service!vars
  BY DEF Service!vars, Running, Wall

(* A host is heard of when its machine sends a packet, or when it gets an  *)
(* address that packets came from already. *)
LEMMA ServiceHear ==
  ASSUME (pc = "exited") <=> (pc' = "exited"), Heard \subseteq Heard',
         UNCHANGED <<mono, offset, last_received, Report>>
  PROVE  Service!Hear
<1>1. Heard' \in SUBSET Hosts
  BY DEF Heard
<1> QED
  BY <1>1, SameHosts DEF Service!Hear, Running, Wall

(* The daemon that dies leaves the client it was serving with a proper     *)
(* part of the snapshot. *)
LEMMA ServiceDie ==
  ASSUME Inv, Exit, pc # "exited", pc = "write" => idx <= Len(ConfHosts)
  PROVE  Service!Die
<1> USE DEF clock, net, tcp, history
<1>1. /\ pc' = "exited" /\ UNCHANGED <<mono, offset, addr, answered, last_received, sent>>
      /\ conn' = [c \in Clients |-> IF conn[c] # "open" THEN conn[c]
                                    ELSE IF c = cur THEN "served" ELSE "aborted"]
  BY DEF Exit
<1>2. Running /\ Running' = FALSE /\ UNCHANGED <<Wall, Heard, last_received>>
  BY <1>1 DEF Running, Wall, Heard
<1>3. CASE pc = "write" /\ conn[cur] = "open"
  <2>1. /\ cur \in Clients /\ Len(sent[cur]) = idx - 1 /\ sent[cur] \in Seq(Lines)
        /\ \A i \in 1..Len(sent[cur]) : sent[cur][i] = Line(i)
        /\ idx \in 1..Len(ConfHosts)
    BY <1>3 DEF Inv, Serving, ReportIsSnapshot, TypeOK
  <2>2. sent[cur] = SubSeq(Service!Snapshot, 1, idx - 1)
    <3>1. Service!Snapshot = [i \in 1..Len(ConfHosts) |-> Line(i)]
      BY DEF Service!Snapshot, Line
    <3> QED
      BY <2>1, <3>1, HostsLemma
  <2>3. Report' = [Report EXCEPT ![cur] = sent[cur]]
    BY <1>1, <1>3, <2>1 DEF Report
  <2>4. Report[cur] = NoClient
    BY <1>3, <2>1 DEF Report
  <2>5. idx - 1 \in 0..Len(ConfHosts) - 1
    BY <2>1, HostsLemma
  <2>6. \E c \in Clients : \E n \in 0..Len(ConfHosts) - 1 :
          /\ Report[c] = NoClient
          /\ Report' = [Report EXCEPT ![c] = SubSeq(Service!Snapshot, 1, n)]
    BY <2>1, <2>2, <2>3, <2>4, <2>5
  <2> QED
    BY <1>2, <2>6 DEF Service!Die
<1>4. CASE ~(pc = "write" /\ conn[cur] = "open")
  <2>1. \A c \in Clients : conn[c] = "open" => c # cur
    BY <1>4, BoundsAssumption DEF Inv, Serving
  <2>2. Report' = Report
    BY <1>1, <2>1 DEF Report
  <2> QED
    BY <1>2, <2>2 DEF Service!Die
<1> QED
  BY <1>3, <1>4

(* Every step of the daemon and its world is one of the service or none.   *)
LEMMA ServiceStep == Inv /\ Inv' /\ [Next]_vars => [Service!Next]_(Service!vars)
<1> SUFFICES ASSUME Inv, Inv', [Next]_vars PROVE [Service!Next]_(Service!vars)
  OBVIOUS
<1> USE DEF clock, net, tcp, history
<1>1. CASE ResolveHost
  <2>0. pc = "setup" /\ idx \in 1..Len(ConfHosts)
    BY <1>1, HostsLemma DEF ResolveHost, Inv, TypeOK
  <2>1. CASE Exit
    BY <2>0, <2>1, ServiceDie DEF Service!Next
  <2>2. CASE ~Exit
    <3>1. /\ UNCHANGED <<pc, mono, offset, last_received, answered, conn, sent>>
          /\ \A h \in Hosts \ {ConfHosts[idx]} : addr'[h] = addr[h]
      BY <1>1, <2>0, <2>2 DEF ResolveHost, Inv, TypeOK
    <3>2. addr[ConfHosts[idx]] \notin answered
      <4>1. addr[ConfHosts[idx]] = NoIP
        BY <2>0 DEF Inv, Resolved
      <4> QED
        BY <4>1, BoundsAssumption DEF Inv, TypeOK
    <3>3. Heard \subseteq Heard'
      BY <3>1, <3>2 DEF Heard
    <3>4. UNCHANGED Report
      BY <3>1 DEF Report
    <3> QED
      BY <3>1, <3>3, <3>4, ServiceHear DEF Service!Next
  <2> QED
    BY <2>1, <2>2
<1>2. CASE ReceivePing
  <2>1. /\ pc = "recv" /\ pc' # "exited" /\ rxq # <<>>
        /\ UNCHANGED <<mono, offset, addr, answered, conn, sent>>
        /\ last_received' = [h \in Hosts |-> IF addr[h] = Head(rxq) THEN Wall ELSE last_received[h]]
    BY <1>2 DEF ReceivePing, Indexed, AfterReceive
  <2>2. UNCHANGED <<Heard, Report>>
    BY <2>1 DEF Heard, Report
  <2>3. CASE \A h \in Hosts : addr[h] # Head(rxq)
    <3>1. last_received' = last_received
      BY <2>1, <2>3 DEF Inv, TypeOK
    <3> QED
      BY <2>1, <2>2, <3>1, ServiceStutter
  <2>4. ASSUME NEW h \in Hosts, addr[h] = Head(rxq) PROVE Service!Next
    <3>1. Head(rxq) \in answered /\ Head(rxq) \in IPs
      <4>1. Head(rxq) = rxq[1] /\ 1 \in 1..Len(rxq) /\ rxq[1] \in IPs
        BY <2>1, TailLemma DEF Inv, TypeOK
      <4> QED
        BY <4>1 DEF Inv, Stamped
    <3>2. \A g \in Hosts : addr[g] = Head(rxq) <=> g = h
      BY <2>4, <3>1, BoundsAssumption DEF Inv, Resolved
    <3>3. last_received' = [last_received EXCEPT ![h] = Wall]
      BY <2>1, <3>2 DEF Inv, TypeOK
    <3>4. h \in Heard
      BY <2>4, <3>1 DEF Heard
    <3>5. Service!Stamp(h)
      BY <2>1, <2>2, <3>3, <3>4 DEF Service!Stamp, Running, Wall
    <3> QED
      BY <3>5, SameHosts DEF Service!Next
  <2> QED
    BY <2>3, <2>4
<1>3. CASE WriteLine
  <2>1. /\ pc = "write" /\ UNCHANGED <<pc, mono, offset, addr, answered, last_received>>
        /\ cur \in Clients /\ conn[cur] # "served" /\ conn'[cur] # "served"
        /\ \A c \in Clients \ {cur} : conn'[c] = conn[c] /\ sent'[c] = sent[c]
    BY <1>3 DEF WriteLine, Inv, Serving, TypeOK
  <2>2. UNCHANGED <<Heard, Report>>
    BY <2>1 DEF Heard, Report
  <2> QED
    BY <2>1, <2>2, ServiceStutter
<1>4. CASE WriteReset
  BY <1>4, ServiceDie DEF WriteReset, Service!Next
<1>5. CASE CloseConn
  <2>1. /\ pc = "write" /\ pc' = "top" /\ Responded
        /\ UNCHANGED <<mono, offset, addr, answered, last_received, sent>>
        /\ cur \in Clients /\ conn[cur] # "served"
        /\ conn' = [conn EXCEPT ![cur] = IF @ = "open" THEN "served" ELSE "done"]
    BY <1>5 DEF CloseConn, Inv, Serving
  <2>2. UNCHANGED Heard
    BY <2>1 DEF Heard
  <2>3. CASE conn[cur] # "open"
    <3>1. UNCHANGED Report
      BY <2>1, <2>3 DEF Report, Inv, TypeOK
    <3> QED
      BY <2>1, <2>2, <3>1, ServiceStutter
  <2>4. CASE conn[cur] = "open"
    <3>1. Report[cur] = NoClient /\ Report' = [Report EXCEPT ![cur] = sent[cur]]
      BY <2>1, <2>4 DEF Report, Inv, TypeOK
    <3>2. /\ idx = Len(ConfHosts) + 1 /\ Len(sent[cur]) = Len(ConfHosts)
          /\ sent[cur] \in Seq(Lines)
          /\ \A i \in 1..Len(sent[cur]) : sent[cur][i] = Line(i)
      <4>1. pc = "write" /\ cur \in Clients /\ idx = Len(ConfHosts) + 1 /\ conn[cur] = "open"
        <5>1. idx \in 1..Len(ConfHosts) + 1 /\ Len(ConfHosts) \in Nat
          BY HostsLemma DEF Inv, TypeOK
        <5>2. idx > Len(ConfHosts)
          BY <2>1, <2>4 DEF Responded
        <5> QED
          BY <2>1, <2>4, <5>1, <5>2
      <4>2. sent[cur] \in Seq(Lines)
        BY <4>1 DEF Inv, TypeOK
      <4> QED
        BY <4>1, <4>2, HostsLemma DEF Inv, Serving, ReportIsSnapshot
    <3>3. sent[cur] = Service!Snapshot
      <4>1. Service!Snapshot = [i \in 1..Len(ConfHosts) |-> Line(i)]
        BY DEF Service!Snapshot, Line
      <4> QED
        BY <3>2, <4>1, HostsLemma
    <3>4. Service!Answer(cur)
      BY <2>1, <2>2, <3>1, <3>3 DEF Service!Answer, Running, Wall
    <3>5. cur \in Clients
      BY <2>1
    <3>6. Service!Next
      BY <3>4, <3>5 DEF Service!Next
    <3> QED
      BY <3>6
  <2> QED
    BY <2>3, <2>4
<1>6. CASE CallFails
  <2>1. Exit /\ pc # "exited" /\ (pc = "write" => idx <= Len(ConfHosts))
    BY <1>6 DEF CallFails
  <2> QED
    BY <2>1, ServiceDie DEF Service!Next
<1>7. CASE Tick \/ SetWallClock
  <2>1. UNCHANGED <<pc, addr, answered, last_received, conn, sent>>
    BY <1>7 DEF Tick, SetWallClock, daemon
  <2>2. mono' \in Nat /\ offset' \in Nat
    BY BoundsAssumption DEF Inv, TypeOK
  <2>3. Wall' \in Nat
    <3>1. ASSUME NEW m \in Nat, NEW o \in Nat PROVE m + o \in Nat
      OBVIOUS
    <3> QED
      BY <2>2, <3>1 DEF Wall
  <2>4. UNCHANGED <<Heard, Report>>
    BY <2>1 DEF Heard, Report
  <2>5. Service!Time
    BY <2>1, <2>3, <2>4 DEF Service!Time, Running
  <2> QED
    BY <2>5 DEF Service!Next
<1>8. ASSUME NEW ip \in IPs, AnswerPing(ip) \/ OtherPacket(ip) PROVE Service!Next
  <2>1. UNCHANGED <<pc, mono, offset, addr, last_received, conn, sent>> /\ answered \subseteq answered'
    BY <1>8 DEF AnswerPing, OtherPacket, Deliver, daemon
  <2>2. Heard \subseteq Heard' /\ UNCHANGED Report
    BY <2>1 DEF Heard, Report
  <2> QED
    BY <2>1, <2>2, ServiceHear DEF Service!Next
<1>9. ASSUME NEW ip \in IPs, LosePing(ip) PROVE UNCHANGED Service!vars
  <2>1. UNCHANGED <<pc, mono, offset, addr, answered, last_received, conn, sent>>
    BY <1>9 DEF LosePing, daemon
  <2>2. UNCHANGED <<Heard, Report>>
    BY <2>1 DEF Heard, Report
  <2> QED
    BY <2>1, <2>2, ServiceStutter
<1>10. ASSUME NEW c \in Clients, ClientConnect(c) \/ ClientRead(c) \/ ClientClose(c)
       PROVE  UNCHANGED Service!vars
  <2>1. /\ UNCHANGED <<pc, mono, offset, addr, answered, last_received, sent>>
        /\ \A d \in Clients : conn'[d] = "served" <=> conn[d] = "served"
    BY <1>10 DEF ClientConnect, ClientRead, ClientClose, daemon, Inv, TypeOK
  <2>2. UNCHANGED <<Heard, Report>>
    BY <2>1 DEF Heard, Report
  <2> QED
    BY <2>1, <2>2, ServiceStutter
<1>11. CASE SetupDone \/ Top \/ SendPing \/ Rearm \/ PollCall \/ PollReturn \/ Accept \/ UNCHANGED vars
  <2>1. /\ (pc = "exited") <=> (pc' = "exited")
        /\ UNCHANGED <<mono, offset, addr, answered, last_received, conn, sent>>
    BY <1>11 DEF SetupDone, Top, SendPing, Rearm, PollCall, PollReturn, Dispatch, Accept,
                 vars, daemon
  <2>2. UNCHANGED <<Heard, Report>>
    BY <2>1 DEF Heard, Report
  <2> QED
    BY <2>1, <2>2, ServiceStutter
<1> QED
  BY <1>1, <1>2, <1>3, <1>4, <1>5, <1>6, <1>7, <1>8, <1>9, <1>10, <1>11
     DEF Next, DaemonStep, Environment

LEMMA ServiceInit == Init => Service!Init
<1> SUFFICES ASSUME Init PROVE Service!Init
  OBVIOUS
<1>1. Wall \in Nat
  BY BoundsAssumption DEF Init, Wall
<1>2. Heard = {}
  BY DEF Init, Heard
<1>3. Report = [c \in Clients |-> NoClient]
  BY DEF Init, Report
<1> QED
  BY <1>1, <1>2, <1>3, SameHosts DEF Init, Service!Init, Running

(* A client that reads to the end of file has the stamps of all hosts at   *)
(* one moment, or a proper part of them from a daemon that died: pingd,    *)
(* with its packets, ticks and clients in between, implements the service. *)
THEOREM PingdImplementsService == Spec => ServiceImplemented
  BY InvInit, InvStep, ServiceInit, ServiceStep, PTL
     DEF Spec, ServiceImplemented, Service!Spec

=============================================================================
