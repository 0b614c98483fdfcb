--------------------------- MODULE UpDownProofs ----------------------------
(* The verdicts of UpDown are right for every period, timeout, delay, loss *)
(* and skew that TimeoutAssumption and EpochAssumption admit.              *)
EXTENDS UpDown, TLAPS

Round == Period + 1 + Late          \* the longest two sweeps are apart
Drought == (MaxLoss + 1) * Round    \* ... two sweeps a host that is up answers
Timeout == TimeoutLen * TicksPerSecond      \* timeout_len, in ticks,
Window == (TimeoutLen - 1) * TicksPerSecond \* ... and a second less

(* What the assumptions say of each constant.                              *)
LEMMA Constants ==
  /\ TicksPerSecond \in Nat \ {0} /\ Period \in Nat \ {0}
  /\ TimeoutLen \in Nat \ {0} /\ IntHalf \in Nat \ {0} /\ Start \in Nat \ {0}
  /\ Late \in Nat /\ RTT \in Nat /\ MaxLoss \in Nat /\ Latency \in Nat
  /\ Delay \in Nat /\ MaxWait \in Nat /\ MaxTime \in Nat /\ Skews \subseteq Int
  /\ Round \in Nat /\ Drought \in Nat /\ Gap = Drought + RTT
  /\ Timeout \in Nat /\ Window \in Nat
  /\ NotRead = 0
<1>1. Round \in Nat
  BY TimesAssumption DEF Round
<1>2. Drought \in Nat
  BY <1>1, TimesAssumption DEF Drought
<1>3. Timeout \in Nat
  BY TimesAssumption DEF Timeout
<1>4. Window \in Nat
  <2>1. TimeoutLen - 1 \in Nat /\ TicksPerSecond \in Nat
    BY TimesAssumption
  <2> QED BY <2>1 DEF Window
<1> QED BY <1>1, <1>2, <1>3, <1>4, TimesAssumption DEF Gap, Drought, Round, NotRead

(* Seconds of two times that are n seconds apart, or at most n. *)
LEMMA SecLemma ==
  ASSUME NEW x \in Int, NEW y \in Int, NEW n \in Int
  PROVE  /\ Sec(x) \in Int /\ Sec(y) \in Int
         /\ x - y >= n * TicksPerSecond => Sec(x) - Sec(y) >= n
         /\ x - y <= n * TicksPerSecond => Sec(x) - Sec(y) <= n
<1> DEFINE D == TicksPerSecond
           p == x \div D
           q == y \div D
<1>1. D \in Nat \ {0}
  BY Constants
<1>2. p \in Int /\ p * D <= x /\ x < p * D + D
  BY <1>1
<1>3. q \in Int /\ q * D <= y /\ y < q * D + D
  BY <1>1
<1>4. Sec(x) = p /\ Sec(y) = q
  BY DEF Sec
<1> HIDE DEF p, q
<1>5. ASSUME x - y >= n * D PROVE p - q >= n
  <2>1. SUFFICES ASSUME p <= q + n - 1 PROVE FALSE
    BY <1>2, <1>3
  <2>2. p * D <= (q + n - 1) * D
    BY <1>1, <1>2, <1>3, <2>1
  <2>3. (q + n - 1) * D = q * D + n * D - D
    BY <1>1, <1>3
  <2> QED BY <1>1, <1>2, <1>3, <1>5, <2>2, <2>3
<1>6. ASSUME x - y <= n * D PROVE p - q <= n
  <2>1. SUFFICES ASSUME p >= q + n + 1 PROVE FALSE
    BY <1>2, <1>3
  <2>2. p * D >= (q + n + 1) * D
    BY <1>1, <1>2, <1>3, <2>1
  <2>3. (q + n + 1) * D = q * D + n * D + D
    BY <1>1, <1>3
  <2> QED BY <1>1, <1>2, <1>3, <1>6, <2>2, <2>3
<1> QED BY <1>2, <1>3, <1>4, <1>5, <1>6

(* The age given to abs survives the narrowing to an int. *)
LEMMA RecentLemma ==
  ASSUME NEW s \in Nat, NEW now \in Int
  PROVE  /\ now - s < TimeoutLen /\ s - now < TimeoutLen => Recent(s, now)
         /\ now - s >= TimeoutLen /\ now + TimeoutLen <= 2 * IntHalf
              => ~Recent(s, now)
<1>1. /\ TimeoutLen \in Nat \ {0} /\ IntHalf \in Nat \ {0} /\ TimeoutLen <= IntHalf
  BY Constants, EpochAssumption
<1>2. ASSUME NEW x \in Int, x >= -IntHalf, x < IntHalf
      PROVE  ToInt(x) = x
  <2>1. (x + IntHalf) % (2 * IntHalf) = x + IntHalf
    BY <1>1, <1>2
  <2> QED BY <1>1, <2>1 DEF ToInt
<1>3. ASSUME NEW x \in Int, x < -IntHalf, x >= -(2 * IntHalf)
      PROVE  ToInt(x) = x + 2 * IntHalf
  <2>1. (x + IntHalf) % (2 * IntHalf) = x + IntHalf + 2 * IntHalf
    BY <1>1, <1>3
  <2> QED BY <1>1, <2>1 DEF ToInt
<1>4. ASSUME now - s < TimeoutLen, s - now < TimeoutLen
      PROVE  Recent(s, now)
  BY <1>1, <1>2, <1>4 DEF Recent, Abs
<1>5. ASSUME now - s >= TimeoutLen, now + TimeoutLen <= 2 * IntHalf
      PROVE  ~Recent(s, now)
  <2>1. CASE s - now >= -IntHalf
    BY <1>1, <1>2, <1>5, <2>1 DEF Recent, Abs
  <2>2. CASE s - now < -IntHalf
    BY <1>1, <1>3, <1>5, <2>2 DEF Recent, Abs
  <2> QED BY <1>1, <2>1, <2>2
<1> QED BY <1>4, <1>5

(* Two times that are near enough, or too far apart, to the client. *)
LEMMA NearLemma ==
  ASSUME NEW s \in Nat, NEW now \in Int, now - s <= Window, s - now <= Window
  PROVE  Recent(Sec(s), Sec(now))
<1>1. Sec(s) \in Nat
  BY Constants DEF Sec
<1>2. TimeoutLen \in Int
  BY Constants
<1> DEFINE n == TimeoutLen - 1
<1>3. n \in Int /\ now - s <= n * TicksPerSecond /\ s - now <= n * TicksPerSecond
  BY <1>2 DEF Window
<1>4. n = TimeoutLen - 1
  OBVIOUS
<1> HIDE DEF n
<1>5. Sec(now) \in Int /\ Sec(now) - Sec(s) <= n
  BY <1>3, SecLemma
<1>6. Sec(s) - Sec(now) <= n
  BY <1>3, SecLemma
<1>7. Sec(now) - Sec(s) < TimeoutLen /\ Sec(s) - Sec(now) < TimeoutLen
  BY <1>1, <1>2, <1>4, <1>5, <1>6
<1> QED BY <1>1, <1>5, <1>7, RecentLemma

LEMMA FarLemma ==
  ASSUME NEW s \in Nat, NEW now \in Int, NEW end \in Int, now <= end,
         now - s >= Timeout, Sec(end) + TimeoutLen <= 2 * IntHalf
  PROVE  ~Recent(Sec(s), Sec(now))
<1>0. TimeoutLen \in Int /\ IntHalf \in Int /\ TicksPerSecond \in Int
  BY Constants
<1>1. Sec(s) \in Nat
  BY Constants DEF Sec
<1>2. Sec(now) \in Int /\ Sec(now) - Sec(s) >= TimeoutLen
  BY <1>0, SecLemma DEF Timeout
<1>3. Sec(end) \in Int /\ Sec(now) <= Sec(end)
  <2> DEFINE n == 0
  <2>1. n \in Int /\ now - end <= n * TicksPerSecond
    BY <1>0
  <2>2. n = 0
    OBVIOUS
  <2> HIDE DEF n
  <2>3. Sec(end) \in Int /\ Sec(now) - Sec(end) <= n
    BY <2>1, SecLemma
  <2> QED BY <1>2, <2>2, <2>3
<1>4. Sec(now) + TimeoutLen <= 2 * IntHalf
  BY <1>0, <1>2, <1>3
<1> QED BY <1>1, <1>2, <1>4, RecentLemma
-----------------------------------------------------------------------------
(* What the deadlines give: the first sweep comes at once, the others in   *)
(* time; replies do not wait longer than they may, and no clock is read    *)
(* from the future.                                                        *)
Timely ==
  /\ wall <= MaxTime
  /\ \/ wall <= next_send + 1 + Late
     \/ \A h \in HostSet : since[h] = wall
  /\ \A h \in HostSet : \A t \in replies[h] : wall <= t + RTT
  /\ \A c \in Clients : tv[c] # NotRead => tv[c] <= wall + skew

(* Nothing is heard of a host longer than a round trip after it went down. *)
DeadSilent ==
  \A h \in HostSet : ~alive[h] =>
    /\ \A t \in replies[h] : t <= since[h]
    /\ stamps[h] <= since[h] + RTT

(* When the last sweep that a host had to answer was, at the earliest.     *)
LastAnswered(h) == next_send - Period - missed[h] * Round

Answered ==
  \A h \in HostSet : alive[h] =>
    \/ since[h] >= LastAnswered(h)
    \/ stamps[h] >= LastAnswered(h)
    \/ \E t \in replies[h] : t >= LastAnswered(h)

(* A host that is up and has nothing on the wire from before x was heard   *)
(* of not long before x.                                                   *)
Fresh ==
  \A h \in HostSet : alive[h] =>
    \A x \in Int : x <= wall /\ (\A t \in replies[h] : t >= x) =>
      stamps[h] >= x - Drought \/ since[h] >= x - Drought

(* A report is what the daemon knew when it was taken: of a host that had  *)
(* been up for long enough a stamp not older than Gap, of one that had     *)
(* been down a stamp from before.                                          *)
DeadStamp(t) == t - Latency - TimeoutLen * TicksPerSecond + skew
Reported ==
  \A c \in Clients : report[c] # NoReport =>
    \A i \in 1..Len(HostSeq) :
      /\ report[c][i][2] \in 0..taken[c]
      /\ HostSeq[i] \in wasUp[c] => report[c][i][2] >= taken[c] - Gap
      /\ HostSeq[i] \in wasDown[c] => report[c][i][2] <= DeadStamp(taken[c])

IInv == TypeOK /\ Timely /\ DeadSilent /\ Answered /\ Fresh /\ Reported

(* The first states satisfy the invariant.                                 *)
LEMMA InitIInv == Init => IInv
<1> SUFFICES ASSUME Init PROVE IInv
  OBVIOUS
<1>1. /\ wall \in Nat /\ Start <= wall /\ wall <= Start + TicksPerSecond - 1
      /\ skew \in Skews
  BY Constants DEF Init
<1>2. TypeOK
  BY <1>1, Constants DEF Init, TypeOK
<1>3. Timely
  BY <1>1, Constants, EpochAssumption DEF Init, Timely
<1>4. DeadSilent
  BY <1>1, Constants DEF Init, DeadSilent
<1>5. Answered
  <2> SUFFICES ASSUME NEW h \in HostSet PROVE since[h] >= LastAnswered(h)
    BY DEF Answered
  <2>1. missed[h] = 0 /\ since[h] = wall /\ next_send = 0
    BY DEF Init
  <2>2. LastAnswered(h) = 0 - Period
    BY <2>1, Constants DEF LastAnswered
  <2> QED BY <1>1, <2>1, <2>2, Constants
<1>6. Fresh
  BY <1>1, Constants DEF Init, Fresh
<1>7. Reported
  BY DEF Init, Reported
<1> QED BY <1>2, <1>3, <1>4, <1>5, <1>6, <1>7 DEF IInv

(* Every step keeps the types,                                             *)
LEMMA TypeStep == TypeOK /\ [Next]_vars => TypeOK'
<1> SUFFICES ASSUME TypeOK, [Next]_vars PROVE TypeOK'
  OBVIOUS
<1> USE Constants
<1>1. CASE Tick
  BY <1>1 DEF Tick, TypeOK, daemon, network, client
<1>2. CASE Sweep
  <2>1. PICK lost \in SUBSET {h \in HostSet : alive[h] /\ missed[h] < MaxLoss} :
          /\ replies' = [h \in HostSet |-> IF alive[h] /\ h \notin lost
                                           THEN replies[h] \cup {wall} ELSE replies[h]]
          /\ missed' = [h \in HostSet |-> IF h \in lost THEN missed[h] + 1 ELSE 0]
    BY <1>2 DEF Sweep
  <2>2. missed' \in [HostSet -> 0..MaxLoss]
    BY <2>1 DEF TypeOK
  <2>3. replies' \in [HostSet -> SUBSET (0..wall)]
    BY <2>1 DEF TypeOK
  <2> QED BY <1>2, <2>2, <2>3 DEF Sweep, NextSend, TypeOK, client
<1>3. ASSUME NEW h \in HostSet, ReceivePing(h) PROVE TypeOK'
  BY <1>3 DEF ReceivePing, TypeOK, client
<1>4. ASSUME NEW h \in HostSet, Toggle(h) PROVE TypeOK'
  BY <1>4 DEF Toggle, TypeOK, daemon, client
<1>5. ASSUME NEW c \in Clients, Connect(c) \/ ReadClock(c) PROVE TypeOK'
  BY <1>5 DEF Connect, ReadClock, TypeOK, daemon, network
<1>6. ASSUME NEW c \in Clients, Answer(c) PROVE TypeOK'
  <2>1. UpForLong \subseteq HostSet /\ DownForLong \subseteq HostSet
    BY DEF UpForLong, DownForLong
  <2>2. /\ UNCHANGED <<wall, skew, daemon, network, connected, tv>>
        /\ taken' = [taken EXCEPT ![c] = wall]
        /\ wasUp' = [wasUp EXCEPT ![c] = UpForLong]
        /\ wasDown' = [wasDown EXCEPT ![c] = DownForLong]
        /\ DOMAIN report' = DOMAIN report
    BY <1>6 DEF Answer
  <2> HIDE DEF UpForLong, DownForLong
  <2> QED BY <2>1, <2>2 DEF TypeOK, daemon, network
<1>7. CASE UNCHANGED vars
  BY <1>7 DEF vars, TypeOK, daemon, network, client
<1> QED BY <1>1, <1>2, <1>3, <1>4, <1>5, <1>6, <1>7 DEF Next

(* leaves no deadline behind,                                              *)
LEMMA TimelyStep == IInv /\ [Next]_vars => Timely'
<1> SUFFICES ASSUME IInv, [Next]_vars PROVE Timely'
  OBVIOUS
<1> USE Constants
<1>0. TypeOK /\ Timely
  BY DEF IInv
<1>1. CASE Tick
  <2>1. \A c \in Clients : tv[c] # NotRead => tv[c] <= wall' + skew
    BY <1>0, <1>1 DEF Tick, TypeOK, Timely
  <2> QED BY <1>0, <1>1, <2>1 DEF Tick, TypeOK, Timely, daemon, network, client
<1>2. CASE Sweep
  <2>1. \A h \in HostSet : replies'[h] \subseteq replies[h] \cup {wall}
    BY <1>2 DEF Sweep
  <2>2. wall' <= next_send' + 1 + Late
    BY <1>0, <1>2 DEF Sweep, NextSend, TypeOK
  <2>3. \A h \in HostSet : \A t \in replies'[h] : wall' <= t + RTT
    BY <1>0, <1>2, <2>1 DEF Sweep, TypeOK, Timely
  <2> QED BY <1>0, <1>2, <2>2, <2>3 DEF Sweep, Timely, client
<1>3. ASSUME NEW h \in HostSet, ReceivePing(h) PROVE Timely'
  BY <1>0, <1>3 DEF ReceivePing, TypeOK, Timely, client
<1>4. ASSUME NEW h \in HostSet, Toggle(h) PROVE Timely'
  BY <1>0, <1>4 DEF Toggle, TypeOK, Timely, daemon, client
<1>5. ASSUME NEW c \in Clients, ReadClock(c) PROVE Timely'
  <2>1. \A d \in Clients : tv'[d] # NotRead => tv'[d] <= wall + skew
    BY <1>0, <1>5 DEF ReadClock, TypeOK, Timely
  <2> QED BY <1>0, <1>5, <2>1 DEF ReadClock, Timely, daemon, network
<1>6. ASSUME NEW c \in Clients, Connect(c) \/ Answer(c) PROVE Timely'
  BY <1>0, <1>6 DEF Connect, Answer, Timely, daemon, network
<1>7. CASE UNCHANGED vars
  BY <1>0, <1>7 DEF vars, Timely, daemon, network, client
<1> QED BY <1>1, <1>2, <1>3, <1>4, <1>5, <1>6, <1>7 DEF Next

(* hears nothing of a host that is down for longer than a reply takes,     *)
LEMMA DeadStep == IInv /\ [Next]_vars => DeadSilent'
<1> SUFFICES ASSUME IInv, [Next]_vars PROVE DeadSilent'
  OBVIOUS
<1> USE Constants
<1>0. TypeOK /\ Timely /\ DeadSilent
  BY DEF IInv
<1>1. CASE Tick
  BY <1>0, <1>1 DEF Tick, DeadSilent, daemon, network
<1>2. CASE Sweep
  BY <1>0, <1>2 DEF Sweep, DeadSilent
<1>3. ASSUME NEW h \in HostSet, ReceivePing(h) PROVE DeadSilent'
  <2> SUFFICES ASSUME NEW g \in HostSet, ~alive'[g]
               PROVE  /\ \A t \in replies'[g] : t <= since'[g]
                      /\ stamps'[g] <= since'[g] + RTT
    BY DEF DeadSilent
  <2>1. CASE g = h
    <3>1. PICK t \in replies[h] : replies' = [replies EXCEPT ![h] = @ \ {t}]
      BY <1>3 DEF ReceivePing
    <3>2. t \in Nat /\ since[h] \in Nat /\ wall \in Nat
      BY <1>0 DEF TypeOK
    <3>3. t <= since[h] /\ wall <= t + RTT
      BY <1>0, <1>3, <2>1 DEF ReceivePing, DeadSilent, Timely
    <3>4. wall <= since[h] + RTT
      BY <3>2, <3>3
    <3> QED BY <1>0, <1>3, <2>1, <3>1, <3>4 DEF ReceivePing, TypeOK, DeadSilent
  <2>2. CASE g # h
    BY <1>0, <1>3, <2>2 DEF ReceivePing, TypeOK, DeadSilent
  <2> QED BY <2>1, <2>2
<1>4. ASSUME NEW h \in HostSet, Toggle(h) PROVE DeadSilent'
  <2> SUFFICES ASSUME NEW g \in HostSet, ~alive'[g]
               PROVE  /\ \A t \in replies'[g] : t <= since'[g]
                      /\ stamps'[g] <= since'[g] + RTT
    BY DEF DeadSilent
  <2>1. CASE g = h
    <3>1. stamps[h] \in 0..wall /\ replies[h] \subseteq 0..wall /\ wall \in Nat
      BY <1>0 DEF TypeOK
    <3>2. since'[h] = wall /\ replies' = replies /\ stamps' = stamps
      BY <1>0, <1>4 DEF Toggle, TypeOK, daemon
    <3> QED BY <2>1, <3>1, <3>2
  <2>2. CASE g # h
    BY <1>0, <1>4, <2>2 DEF Toggle, TypeOK, DeadSilent, daemon
  <2> QED BY <2>1, <2>2
<1>5. ASSUME NEW c \in Clients, Connect(c) \/ ReadClock(c) \/ Answer(c) PROVE DeadSilent'
  BY <1>0, <1>5 DEF Connect, ReadClock, Answer, DeadSilent, daemon, network
<1>7. CASE UNCHANGED vars
  BY <1>0, <1>7 DEF vars, DeadSilent, daemon, network
<1> QED BY <1>1, <1>2, <1>3, <1>4, <1>5, <1>7 DEF Next

(* One reply more lost is one round more of patience.                      *)
LEMMA RoundsLemma ==
  ASSUME NEW k \in 0..MaxLoss
  PROVE  /\ k * Round \in Nat /\ (k + 1) * Round = k * Round + Round
         /\ k * Round + Round <= Drought
<1>1. Round \in Nat /\ MaxLoss \in Nat /\ Drought = (MaxLoss + 1) * Round
  BY Constants DEF Drought
<1>2. k * Round \in Nat /\ (k + 1) * Round = k * Round + Round
  BY <1>1
<1>3. (k + 1) * Round <= (MaxLoss + 1) * Round
  BY <1>1
<1> QED BY <1>1, <1>2, <1>3

(* answers a host that is up within Gap or has the reply on its way,       *)
LEMMA AnsweredStep == IInv /\ [Next]_vars => Answered'
<1> SUFFICES ASSUME IInv, [Next]_vars PROVE Answered'
  OBVIOUS
<1> USE Constants
<1>0. TypeOK /\ Timely /\ Answered
  BY DEF IInv
<1>a. /\ wall \in Nat /\ next_send \in Nat /\ next_send <= wall + Period
      /\ \A h \in HostSet : /\ missed[h] \in 0..MaxLoss /\ since[h] \in 0..wall
                            /\ stamps[h] \in 0..wall /\ replies[h] \subseteq 0..wall
                            /\ missed[h] * Round \in Nat
                            /\ LastAnswered(h) \in Int
  BY <1>0, RoundsLemma DEF TypeOK, LastAnswered
<1> SUFFICES ASSUME NEW g \in HostSet, alive'[g]
             PROVE  \/ since'[g] >= LastAnswered(g)'
                    \/ stamps'[g] >= LastAnswered(g)'
                    \/ \E t \in replies'[g] : t >= LastAnswered(g)'
  BY DEF Answered
<1>1. CASE Tick
  BY <1>0, <1>1 DEF Tick, Answered, LastAnswered, daemon, network
<1>2. CASE Sweep
  <2>1. PICK lost \in SUBSET {h \in HostSet : alive[h] /\ missed[h] < MaxLoss} :
          /\ replies' = [h \in HostSet |-> IF alive[h] /\ h \notin lost
                                           THEN replies[h] \cup {wall} ELSE replies[h]]
          /\ missed' = [h \in HostSet |-> IF h \in lost THEN missed[h] + 1 ELSE 0]
    BY <1>2 DEF Sweep
  <2>2. /\ next_send' = wall + Period /\ alive[g]
        /\ since' = since /\ stamps' = stamps
    BY <1>2 DEF Sweep, NextSend
  <2>3. CASE g \notin lost
    <3>1. missed'[g] = 0 /\ wall \in replies'[g]
      BY <2>1, <2>2, <2>3
    <3>2. LastAnswered(g)' = wall
      BY <1>a, <2>2, <3>1 DEF LastAnswered
    <3> QED BY <1>a, <3>1, <3>2
  <2>4. CASE g \in lost
    <3>1. missed'[g] = missed[g] + 1 /\ replies'[g] = replies[g]
      BY <2>1, <2>4
    <3>2. LastAnswered(g)' = wall - missed[g] * Round - Round
      BY <1>a, <2>2, <3>1, RoundsLemma DEF LastAnswered
    <3>3. CASE wall <= next_send + 1 + Late
      <4>1. LastAnswered(g)' <= LastAnswered(g)
        BY <1>a, <3>2, <3>3 DEF LastAnswered, Round
      <4>2. \/ since[g] >= LastAnswered(g) \/ stamps[g] >= LastAnswered(g)
            \/ \E t \in replies[g] : t >= LastAnswered(g)
        BY <1>0, <2>2 DEF Answered
      <4>3. LastAnswered(g)' \in Int
        BY <1>a, <3>2
      <4> DEFINE l == LastAnswered(g)
                 m == LastAnswered(g)'
      <4>4. l \in Int /\ m \in Int /\ m <= l
        BY <1>a, <4>1, <4>3
      <4> HIDE DEF l, m
      <4>5. \/ since[g] >= m \/ stamps[g] >= m \/ \E t \in replies[g] : t >= m
        <5>1. \/ since[g] >= l \/ stamps[g] >= l \/ \E t \in replies[g] : t >= l
          BY <4>2 DEF l
        <5> QED BY <1>a, <4>4, <5>1
      <4> QED BY <2>2, <3>1, <4>5 DEF m
    <3>4. CASE \A h \in HostSet : since[h] = wall
      BY <1>a, <2>2, <3>2, <3>4
    <3> QED BY <1>0, <3>3, <3>4 DEF Timely
  <2> QED BY <2>3, <2>4
<1>3. ASSUME NEW h \in HostSet, ReceivePing(h)
      PROVE  \/ since'[g] >= LastAnswered(g)' \/ stamps'[g] >= LastAnswered(g)'
             \/ \E t \in replies'[g] : t >= LastAnswered(g)'
  <2>1. LastAnswered(g)' = LastAnswered(g) /\ since' = since /\ alive' = alive
    BY <1>3 DEF ReceivePing, LastAnswered
  <2>2. CASE g = h
    <3>1. stamps'[g] = wall
      BY <1>0, <1>3, <2>2 DEF ReceivePing, TypeOK
    <3>2. LastAnswered(g) <= wall
      BY <1>a DEF LastAnswered
    <3> QED BY <2>1, <3>1, <3>2
  <2>3. CASE g # h
    BY <1>0, <1>3, <2>1, <2>3 DEF ReceivePing, TypeOK, Answered
  <2> QED BY <2>2, <2>3
<1>4. ASSUME NEW h \in HostSet, Toggle(h)
      PROVE  \/ since'[g] >= LastAnswered(g)' \/ stamps'[g] >= LastAnswered(g)'
             \/ \E t \in replies'[g] : t >= LastAnswered(g)'
  <2>1. CASE g = h
    <3>1. since'[g] = wall /\ missed'[g] = 0 /\ next_send' = next_send
      BY <1>0, <1>4, <2>1 DEF Toggle, TypeOK, daemon
    <3>2. LastAnswered(g)' = next_send - Period
      BY <1>a, <3>1 DEF LastAnswered
    <3> QED BY <1>a, <3>1, <3>2
  <2>2. CASE g # h
    <3>1. LastAnswered(g)' = LastAnswered(g)
      BY <1>0, <1>4, <2>2 DEF Toggle, TypeOK, LastAnswered, daemon
    <3> QED BY <1>0, <1>4, <2>2, <3>1 DEF Toggle, TypeOK, Answered, daemon
  <2> QED BY <2>1, <2>2
<1>5. ASSUME NEW c \in Clients, Connect(c) \/ ReadClock(c) \/ Answer(c)
      PROVE  \/ since'[g] >= LastAnswered(g)' \/ stamps'[g] >= LastAnswered(g)'
             \/ \E t \in replies'[g] : t >= LastAnswered(g)'
  BY <1>0, <1>5 DEF Connect, ReadClock, Answer, Answered, LastAnswered, daemon, network
<1>7. CASE UNCHANGED vars
  BY <1>0, <1>7 DEF vars, Answered, LastAnswered, daemon, network
<1> QED BY <1>1, <1>2, <1>3, <1>4, <1>5, <1>7 DEF Next

(* and keeps the stamp of a host that is up that fresh.                    *)
LEMMA FreshStep == IInv /\ [Next]_vars => Fresh'
<1> SUFFICES ASSUME IInv, [Next]_vars PROVE Fresh'
  OBVIOUS
<1> USE Constants
<1>0. TypeOK /\ Timely /\ Answered /\ Fresh
  BY DEF IInv
<1>a. /\ wall \in Nat /\ next_send \in Nat /\ next_send <= wall + Period
      /\ \A h \in HostSet : /\ missed[h] \in 0..MaxLoss /\ since[h] \in 0..wall
                            /\ stamps[h] \in 0..wall /\ replies[h] \subseteq 0..wall
  BY <1>0 DEF TypeOK
<1> SUFFICES ASSUME NEW g \in HostSet, alive'[g], NEW x \in Int,
                    x <= wall', \A t \in replies'[g] : t >= x
             PROVE  stamps'[g] >= x - Drought \/ since'[g] >= x - Drought
  BY DEF Fresh
<1>1. CASE Tick
  <2>1. /\ wall' = wall + 1 /\ alive' = alive /\ replies' = replies
        /\ stamps' = stamps /\ since' = since /\ wall < next_send + 1 + Late
    BY <1>1 DEF Tick, daemon, network
  <2>2. CASE x <= wall
    BY <1>0, <2>1, <2>2 DEF Fresh
  <2>3. CASE x = wall + 1
    <3>1. replies[g] = {}
      BY <1>a, <2>1, <2>3
    <3>2. since[g] >= LastAnswered(g) \/ stamps[g] >= LastAnswered(g)
      BY <1>0, <2>1, <3>1 DEF Answered
    <3>3. missed[g] * Round \in Nat /\ missed[g] * Round + Round <= Drought
      BY <1>a, RoundsLemma
    <3>4. LastAnswered(g) \in Int /\ LastAnswered(g) >= x - Drought
      BY <1>a, <2>1, <2>3, <3>3 DEF LastAnswered, Round
    <3> QED BY <1>a, <2>1, <3>2, <3>4
  <2> QED BY <1>a, <2>1, <2>2, <2>3
<1>2. CASE Sweep
  <2>1. replies[g] \subseteq replies'[g] /\ wall' = wall /\ alive' = alive
        /\ stamps' = stamps /\ since' = since
    BY <1>2 DEF Sweep
  <2> QED BY <1>0, <2>1 DEF Fresh
<1>3. ASSUME NEW h \in HostSet, ReceivePing(h)
      PROVE  stamps'[g] >= x - Drought \/ since'[g] >= x - Drought
  <2>1. wall' = wall /\ alive' = alive /\ since' = since
    BY <1>3 DEF ReceivePing
  <2>2. CASE g = h
    <3>1. stamps'[g] = wall
      BY <1>0, <1>3, <2>2 DEF ReceivePing, TypeOK
    <3> QED BY <1>a, <2>1, <3>1
  <2>3. CASE g # h
    BY <1>0, <1>3, <2>1, <2>3 DEF ReceivePing, TypeOK, Fresh
  <2> QED BY <2>2, <2>3
<1>4. ASSUME NEW h \in HostSet, Toggle(h)
      PROVE  stamps'[g] >= x - Drought \/ since'[g] >= x - Drought
  <2>1. wall' = wall /\ stamps' = stamps /\ replies' = replies
    BY <1>4 DEF Toggle, daemon
  <2>2. CASE g = h
    <3>1. since'[g] = wall
      BY <1>0, <1>4, <2>2 DEF Toggle, TypeOK
    <3> QED BY <1>a, <2>1, <3>1
  <2>3. CASE g # h
    BY <1>0, <1>4, <2>1, <2>3 DEF Toggle, TypeOK, Fresh
  <2> QED BY <2>2, <2>3
<1>5. ASSUME NEW c \in Clients, Connect(c) \/ ReadClock(c) \/ Answer(c)
      PROVE  stamps'[g] >= x - Drought \/ since'[g] >= x - Drought
  BY <1>0, <1>5 DEF Connect, ReadClock, Answer, Fresh, daemon, network
<1>7. CASE UNCHANGED vars
  BY <1>0, <1>7 DEF vars, Fresh, daemon, network
<1> QED BY <1>1, <1>2, <1>3, <1>4, <1>5, <1>7 DEF Next

(* A report is taken with all that in it and does not change.              *)
LEMMA ReportedStep == IInv /\ [Next]_vars => Reported'
<1> SUFFICES ASSUME IInv, [Next]_vars PROVE Reported'
  OBVIOUS
<1>0. TypeOK /\ Timely /\ DeadSilent /\ Fresh /\ Reported
  BY DEF IInv
<1>1. ASSUME NEW c \in Clients, Answer(c) PROVE Reported'
  <2>1. /\ report' = [report EXCEPT ![c] = Snapshot]
        /\ taken' = [taken EXCEPT ![c] = wall]
        /\ wasUp' = [wasUp EXCEPT ![c] = UpForLong]
        /\ wasDown' = [wasDown EXCEPT ![c] = DownForLong]
        /\ skew' = skew
    BY <1>1 DEF Answer
  <2>2. /\ report'[c] = Snapshot /\ taken'[c] = wall
        /\ wasUp'[c] = UpForLong /\ wasDown'[c] = DownForLong
        /\ \A d \in Clients \ {c} :
             /\ report'[d] = report[d] /\ taken'[d] = taken[d]
             /\ wasUp'[d] = wasUp[d] /\ wasDown'[d] = wasDown[d]
    BY <2>1 DEF TypeOK, IInv
  <2>3. ASSUME NEW i \in 1..Len(HostSeq)
        PROVE  /\ Snapshot[i][2] \in 0..wall
               /\ HostSeq[i] \in UpForLong => Snapshot[i][2] >= wall - Gap
               /\ HostSeq[i] \in DownForLong => Snapshot[i][2] <= DeadStamp(wall)
    <3> DEFINE h == HostSeq[i]
    <3>1. Snapshot[i][2] = stamps[h] /\ h \in HostSet
      BY DEF Snapshot, HostSet
    <3>2. /\ wall \in Nat /\ since[h] \in 0..wall /\ stamps[h] \in 0..wall
          /\ replies[h] \subseteq 0..wall /\ skew \in Int
          /\ RTT \in Nat /\ Latency \in Nat /\ Drought \in Nat /\ Gap = Drought + RTT
          /\ Timeout \in Int
      BY <1>0, <3>1, Constants DEF TypeOK
    <3> HIDE DEF h
    <3>3. ASSUME h \in UpForLong PROVE stamps[h] >= wall - Gap
      <4>1. alive[h] /\ wall - since[h] > Gap
        BY <3>3 DEF UpForLong
      <4>2. \A t \in replies[h] : t >= wall - RTT
        BY <1>0, <3>1, <3>2 DEF Timely
      <4>3. stamps[h] >= wall - RTT - Drought \/ since[h] >= wall - RTT - Drought
        BY <1>0, <3>1, <3>2, <4>1, <4>2 DEF Fresh
      <4> QED BY <3>2, <4>1, <4>3
    <3>4. ASSUME h \in DownForLong PROVE stamps[h] <= DeadStamp(wall)
      <4>1. ~alive[h] /\ wall - since[h] >= RTT + Latency + Timeout - skew
        BY <3>4 DEF DownForLong, Timeout
      <4>2. stamps[h] <= since[h] + RTT
        BY <1>0, <3>1, <4>1 DEF DeadSilent
      <4> DEFINE dead == DeadStamp(wall)
      <4>3. dead = wall - Latency - Timeout + skew
        BY <3>2 DEF DeadStamp, Timeout
      <4> HIDE DEF dead
      <4>4. stamps[h] <= dead
        BY <3>2, <4>1, <4>2, <4>3
      <4> QED BY <4>4 DEF dead
    <3> QED BY <3>1, <3>2, <3>3, <3>4 DEF h
  <2> HIDE DEF Snapshot, UpForLong, DownForLong
  <2>4. ASSUME NEW d \in Clients, report'[d] # NoReport, NEW i \in 1..Len(HostSeq)
        PROVE  /\ report'[d][i][2] \in 0..taken'[d]
               /\ HostSeq[i] \in wasUp'[d] => report'[d][i][2] >= taken'[d] - Gap
               /\ HostSeq[i] \in wasDown'[d] => report'[d][i][2] <= DeadStamp(taken'[d])
    <3>1. CASE d = c
      BY <2>2, <2>3, <3>1
    <3>2. CASE d # c
      BY <1>0, <2>2, <2>4, <3>2 DEF Reported
    <3> QED BY <3>1, <3>2
  <2> QED BY <2>1, <2>4 DEF Reported, DeadStamp
<1>2. CASE UNCHANGED <<report, taken, wasUp, wasDown, skew>>
  BY <1>0, <1>2 DEF Reported, DeadStamp
<1>3. (\E c \in Clients : Answer(c)) \/ UNCHANGED <<report, taken, wasUp, wasDown, skew>>
  BY DEF Next, Tick, Sweep, ReceivePing, Toggle, Connect, ReadClock, vars, client
<1> QED BY <1>1, <1>2, <1>3

(* So the invariant holds in every state.                                  *)
LEMMA Invariance == Spec => []IInv
<1>1. IInv /\ [Next]_vars => IInv'
  BY TypeStep, TimelyStep, DeadStep, AnsweredStep, FreshStep, ReportedStep DEF IInv
<1> QED BY InitIInv, <1>1, PTL DEF Spec
-----------------------------------------------------------------------------
(* A host that has been up for long enough is reported up: for every       *)
(* period, delay, loss and skew the timeout leaves room for.               *)
THEOREM UpIsReportedUp == Spec => []AliveIsUp
<1>1. ASSUME IInv, NEW c \in Clients, HasBoth(c), NEW h \in wasUp[c],
             taken[c] <= ReadAt(c) + Latency, ReadAt(c) <= taken[c] + Delay
      PROVE  h \in Verdict(c)
  <2>0. TypeOK /\ Reported
    BY <1>1 DEF IInv
  <2>1. taken[c] \in Nat /\ tv[c] \in Int /\ skew \in Skews /\ skew \in Int /\ h \in HostSet
    BY <1>1, <2>0, Constants DEF TypeOK
  <2>2. PICK i \in 1..Len(HostSeq) : h = HostSeq[i]
    BY <2>1 DEF HostSet
  <2> DEFINE s == report[c][i][2]
             now == tv[c]
  <2>3. s \in 0..taken[c] /\ s >= taken[c] - Gap
    BY <1>1, <2>0, <2>2 DEF Reported, HasBoth
  <2>4. Gap + Delay + skew <= Window /\ Latency - skew <= Window
    BY <2>1, TimeoutAssumption DEF Window
  <2>5. taken[c] <= now - skew + Latency /\ now - skew <= taken[c] + Delay
    BY <1>1 DEF ReadAt
  <2>6. /\ Gap \in Int /\ Delay \in Int /\ Latency \in Int
        /\ Window \in Int
    BY Constants
  <2>7. now \in Int /\ s \in Nat
    BY <2>1, <2>3
  <2> HIDE DEF s, now
  <2>8. now - s <= Window /\ s - now <= Window
    BY <2>1, <2>3, <2>4, <2>5, <2>6, <2>7
  <2>9. Recent(Sec(s), Sec(now))
    BY <2>7, <2>8, NearLemma
  <2> QED BY <2>2, <2>9 DEF Verdict, s, now
<1>2. IInv => AliveIsUp
  BY <1>1 DEF AliveIsUp
<1> QED BY Invariance, <1>2, PTL

(* A host that has been down for long enough is reported down.             *)
THEOREM DownIsReportedDown == Spec => []DeadIsDown
<1>1. ASSUME IInv, NEW c \in Clients, HasBoth(c), taken[c] <= ReadAt(c) + Latency,
             NEW h \in wasDown[c], h \in Verdict(c)
      PROVE  FALSE
  <2>0. TypeOK /\ Reported /\ Timely
    BY <1>1 DEF IInv
  <2>1. /\ taken[c] \in Nat /\ tv[c] \in Int /\ skew \in Skews /\ skew \in Int
        /\ wall \in Nat
    BY <1>1, <2>0, Constants DEF TypeOK
  <2>2. PICK i \in 1..Len(HostSeq) :
          h = HostSeq[i] /\ Recent(Sec(report[c][i][2]), Sec(tv[c]))
    BY <1>1 DEF Verdict
  <2> DEFINE s == report[c][i][2]
             now == tv[c]
             end == MaxTime + skew
  <2>3. s \in 0..taken[c] /\ s <= taken[c] - Latency - Timeout + skew
    BY <1>1, <2>0, <2>2 DEF Reported, HasBoth, DeadStamp, Timeout
  <2>4. taken[c] <= now - skew + Latency
    BY <1>1 DEF ReadAt
  <2>5. /\ Latency \in Int /\ MaxTime \in Int /\ Timeout \in Int
    BY Constants
  <2>6. end \in Int /\ now <= end
    BY <1>1, <2>0, <2>1, <2>5 DEF HasBoth, Timely
  <2>7. Sec(end) + TimeoutLen <= 2 * IntHalf
    BY <2>1, EpochAssumption
  <2>8. now \in Int /\ s \in Nat
    BY <2>1, <2>3
  <2> HIDE DEF s, now, end
  <2>9. now - s >= Timeout
    BY <2>1, <2>3, <2>4, <2>5, <2>8
  <2>10. ~Recent(Sec(s), Sec(now))
    BY <2>6, <2>7, <2>8, <2>9, FarLemma
  <2> QED BY <2>2, <2>10 DEF s, now
<1>2. IInv => DeadIsDown
  BY <1>1 DEF DeadIsDown
<1> QED BY Invariance, <1>2, PTL
-----------------------------------------------------------------------------
(* The daemon of this module, with its schedule, its network and its       *)
(* clients' verdicts, is the one of PingdService.  No stamp is 0, because  *)
(* the clock never is, so a host that was heard of once stays so. *)
LEMMA ClockRuns == Spec => [](wall > 0)
<1>1. Init => wall > 0
  BY Constants DEF Init
<1>2. TypeOK /\ wall > 0 /\ [Next]_vars => (wall > 0)'
  BY DEF TypeOK, Next, Tick, Sweep, ReceivePing, Toggle, Connect, ReadClock, Answer, vars
<1>3. IInv => TypeOK
  BY DEF IInv
<1> QED BY Invariance, <1>1, <1>2, <1>3, PTL DEF Spec

LEMMA ServiceInit == Init => Service!Init
<1> SUFFICES ASSUME Init PROVE Service!Init
  OBVIOUS
<1>1. wall \in Nat
  BY Constants DEF Init
<1>2. heard = {}
  BY DEF Init, heard
<1>3. Service!HostSet = HostSet
  BY DEF Service!HostSet, HostSet
<1> QED BY <1>1, <1>2, <1>3 DEF Init, Service!Init

LEMMA ServiceStep == TypeOK /\ wall > 0 /\ [Next]_vars => [Service!Next]_(Service!vars)
<1> SUFFICES ASSUME TypeOK, wall > 0, [Next]_vars PROVE [Service!Next]_(Service!vars)
  OBVIOUS
<1>0. Service!HostSet = HostSet
  BY DEF Service!HostSet, HostSet
<1>1. CASE Tick
  <2>1. /\ wall' \in Nat /\ UNCHANGED <<stamps, report, replies>>
    BY <1>1 DEF Tick, TypeOK, daemon, client, network
  <2>2. UNCHANGED heard
    BY <2>1 DEF heard
  <2>3. Service!Time
    BY <2>1, <2>2 DEF Service!Time
  <2> QED BY <2>3 DEF Service!Next
<1>2. CASE Sweep
  <2>1. UNCHANGED <<wall, stamps, report>> /\ \A h \in HostSet : replies[h] \subseteq replies'[h]
    BY <1>2 DEF Sweep, TypeOK, client
  <2>2. heard \subseteq heard' /\ heard' \in SUBSET HostSet
    BY <2>1 DEF heard
  <2>3. Service!Hear
    BY <1>0, <2>1, <2>2 DEF Service!Hear
  <2> QED BY <2>3 DEF Service!Next
<1>3. ASSUME NEW h \in HostSet, ReceivePing(h) PROVE Service!Next
  <2>1. /\ UNCHANGED <<wall, report>> /\ replies[h] # {}
        /\ stamps' = [stamps EXCEPT ![h] = wall]
        /\ \A g \in HostSet \ {h} : replies'[g] = replies[g]
    BY <1>3 DEF ReceivePing, TypeOK, client
  <2>2. /\ stamps'[h] # 0 /\ \A g \in HostSet \ {h} : stamps'[g] = stamps[g]
    BY <2>1 DEF TypeOK
  <2>3. heard' = heard /\ h \in heard
    BY <2>1, <2>2 DEF heard
  <2>4. Service!Stamp(h)
    BY <2>1, <2>3 DEF Service!Stamp
  <2> QED BY <1>0, <2>4 DEF Service!Next
<1>4. ASSUME NEW c \in Clients, Answer(c) PROVE Service!Next
  <2>1. /\ UNCHANGED <<wall, stamps, replies>> /\ report[c] = NoReport
        /\ report' = [report EXCEPT ![c] = Snapshot]
    BY <1>4 DEF Answer, daemon, network
  <2>2. heard' = heard /\ Snapshot = Service!Snapshot
    BY <2>1 DEF heard, Snapshot, Service!Snapshot
  <2>3. Service!Answer(c)
    BY <2>1, <2>2 DEF Service!Answer
  <2> QED BY <2>3 DEF Service!Next
<1>5. CASE \/ \E h \in HostSet : Toggle(h)
           \/ \E c \in Clients : Connect(c) \/ ReadClock(c)
           \/ UNCHANGED vars
  <2>1. UNCHANGED <<wall, stamps, report, replies>>
    BY <1>5 DEF Toggle, Connect, ReadClock, vars, daemon, network, client
  <2>2. UNCHANGED heard
    BY <2>1 DEF heard
  <2> QED BY <2>1, <2>2 DEF Service!vars
<1> QED BY <1>1, <1>2, <1>3, <1>4, <1>5 DEF Next

(* So what the verdicts are drawn from is what pingd is proved to serve.   *)
THEOREM TimedDaemonServes == Spec => ServiceImplemented
<1>1. IInv => TypeOK
  BY DEF IInv
<1> QED BY Invariance, ClockRuns, ServiceInit, ServiceStep, <1>1, PTL
        DEF Spec, ServiceImplemented, Service!Spec
=============================================================================
