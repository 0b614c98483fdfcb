--------------------------- MODULE TimevalProofs ---------------------------
(* What the operators of timeval.c compute, for all timevals. *)
EXTENDS Timeval, TLAPS

(* A timeval stands for a number of microseconds.                          *)
LEMMA MicrosNat ==
  ASSUME NEW a \in Timevals
  PROVE  Micros(a) \in Nat /\ MicrosecondsInSecond \in Nat \ {0}
<1>1. MicrosecondsInSecond \in Nat \ {0}
  BY UnitsAssumption DEF MicrosecondsInSecond
<1> QED BY <1>1, UnitsAssumption DEF Micros, Timevals

(* timeval_add adds.                                                       *)
LEMMA AddLemma ==
  ASSUME NEW a \in Timevals, NEW b \in Timevals
  PROVE  /\ timeval_add(a, b) \in Timevals
         /\ Micros(timeval_add(a, b)) = Micros(a) + Micros(b)
<1> DEFINE S == MicrosecondsInSecond
<1>1. S \in Nat \ {0}
  BY UnitsAssumption DEF MicrosecondsInSecond
<1>2. /\ a.tv_sec \in Nat /\ b.tv_sec \in Nat
      /\ a.tv_usec \in 0..S - 1 /\ b.tv_usec \in 0..S - 1
  BY DEF Timevals
<1>3. /\ (a.tv_sec + b.tv_sec) * S = a.tv_sec * S + b.tv_sec * S
      /\ (a.tv_sec + b.tv_sec + 1) * S = a.tv_sec * S + b.tv_sec * S + S
  BY <1>1, <1>2
<1> QED BY <1>1, <1>2, <1>3 DEF timeval_add, Carry, Timevals, Micros

(* timeval_sub subtracts, down to nothing.                                 *)
LEMMA SubLemma ==
  ASSUME NEW a \in Timevals, NEW b \in Timevals
  PROVE  /\ timeval_sub(a, b) \in Timevals
         /\ timeval_gt(a, b) => Micros(a) > Micros(b)
         /\ ~timeval_gt(a, b) => Micros(a) <= Micros(b)
         /\ Micros(timeval_sub(a, b)) =
              IF timeval_gt(a, b) THEN Micros(a) - Micros(b) ELSE 0
<1> DEFINE S == MicrosecondsInSecond
<1>1. S \in Nat \ {0}
  BY UnitsAssumption DEF MicrosecondsInSecond
<1>2. /\ a.tv_sec \in Nat /\ b.tv_sec \in Nat
      /\ a.tv_usec \in 0..S - 1 /\ b.tv_usec \in 0..S - 1
  BY DEF Timevals
<1>3. /\ (a.tv_sec - b.tv_sec) * S = a.tv_sec * S - b.tv_sec * S
      /\ (a.tv_sec - b.tv_sec - 1) * S = a.tv_sec * S - b.tv_sec * S - S
  BY <1>1, <1>2
<1>4. a.tv_sec > b.tv_sec => a.tv_sec * S >= b.tv_sec * S + S
  BY <1>1, <1>2
<1>5. b.tv_sec > a.tv_sec => b.tv_sec * S >= a.tv_sec * S + S
  BY <1>1, <1>2
<1>6. timeval_gt(a, b) => Micros(a) > Micros(b)
  BY <1>1, <1>2, <1>4 DEF timeval_gt, Micros
<1>7. ~timeval_gt(a, b) => Micros(a) <= Micros(b)
  BY <1>1, <1>2, <1>5 DEF timeval_gt, Micros
<1>8. CASE ~timeval_gt(a, b)
  BY <1>1, <1>7, <1>8 DEF timeval_sub, Cleared, Timevals, Micros
<1>9. CASE timeval_gt(a, b)
  <2>1. a.tv_usec < b.tv_usec => a.tv_sec > b.tv_sec
    BY <1>1, <1>2, <1>9 DEF timeval_gt
  <2>2. timeval_sub(a, b) \in Timevals
    BY <1>1, <1>2, <1>9, <2>1 DEF timeval_sub, timeval_gt, Timevals
  <2>3. Micros(timeval_sub(a, b)) = Micros(a) - Micros(b)
    BY <1>1, <1>2, <1>3, <1>9 DEF timeval_sub, Micros
  <2> QED BY <1>6, <1>9, <2>2, <2>3
<1> QED BY <1>8, <1>9

(* timeval_millisecond_init keeps the value.                               *)
LEMMA InitLemma ==
  ASSUME NEW ms \in Nat
  PROVE  /\ timeval_millisecond_init(ms) \in Timevals
         /\ Micros(timeval_millisecond_init(ms)) = ms * MicrosecondsInMillisecond
<1> DEFINE U == MicrosecondsInMillisecond
           M == MillisecondsInSecond
           q == ms \div M
           r == ms % M
<1>1. U \in Nat \ {0} /\ M \in Nat \ {0} /\ MicrosecondsInSecond = U * M
  BY UnitsAssumption DEF MicrosecondsInSecond
<1>2. q \in Nat /\ r \in 0..M - 1 /\ ms = q * M + r
  BY <1>1
<1>3. r * U \in 0..U * M - 1
  <2>1. (M - r) * U >= U
    BY <1>1, <1>2
  <2> QED BY <1>1, <1>2, <2>1
<1>4. q * (U * M) + r * U = ms * U
  BY <1>1, <1>2
<1> HIDE DEF q, r
<1> QED BY <1>1, <1>2, <1>3, <1>4 DEF timeval_millisecond_init, Timevals, Micros, q, r

(* The clock is a proper timeval.                                          *)
LEMMA FromMicrosLemma ==
  ASSUME NEW us \in Nat
  PROVE  FromMicros(us) \in Timevals /\ Micros(FromMicros(us)) = us
<1> DEFINE S == MicrosecondsInSecond
           q == us \div S
           r == us % S
<1>1. S \in Nat \ {0}
  BY UnitsAssumption DEF MicrosecondsInSecond
<1>2. q \in Nat /\ r \in 0..S - 1 /\ us = q * S + r
  BY <1>1
<1> HIDE DEF q, r
<1> QED BY <1>1, <1>2 DEF FromMicros, Timevals, Micros, q, r

(* timeval_millisecond_calc rounds up to the next millisecond; its 32 bits *)
(* suffice for every period poll can wait.                                 *)
LEMMA CalcLemma ==
  ASSUME NEW a \in Timevals,
         Micros(a) <= IntMax * MicrosecondsInMillisecond
  PROVE  /\ timeval_millisecond_calc(a) \in 0..IntMax
         /\ timeval_millisecond_calc(a) * MicrosecondsInMillisecond >= Micros(a)
         /\ timeval_millisecond_calc(a) * MicrosecondsInMillisecond
              < Micros(a) + MicrosecondsInMillisecond
<1> DEFINE U == MicrosecondsInMillisecond
           M == MillisecondsInSecond
           q == a.tv_usec \div U
           r == a.tv_usec % U
           t == a.tv_sec * M + q + RoundUp(a.tv_usec)
<1>1. /\ U \in Nat \ {0} /\ M \in Nat \ {0} /\ IntMax \in Nat
      /\ MicrosecondsInSecond = U * M
  BY UnitsAssumption, PeriodsAssumption DEF MicrosecondsInSecond
<1>2. a.tv_sec \in Nat /\ a.tv_usec \in Nat
  BY <1>1 DEF Timevals
<1>3. q \in Nat /\ r \in 0..U - 1 /\ a.tv_usec = q * U + r
  BY <1>1, <1>2
<1>4. RoundUp(a.tv_usec) = IF r # 0 THEN 1 ELSE 0
  BY DEF RoundUp
<1> HIDE DEF q, r
<1>5. t \in Nat
  <2>1. a.tv_sec * M \in Nat
    BY <1>1, <1>2
  <2>2. RoundUp(a.tv_usec) \in {0, 1}
    BY <1>4
  <2> QED BY <1>3, <2>1, <2>2
<1>6. t * U = a.tv_sec * (U * M) + q * U + (IF r # 0 THEN U ELSE 0)
  BY <1>1, <1>2, <1>3, <1>4
<1>7. t * U >= Micros(a) /\ t * U < Micros(a) + U
  BY <1>1, <1>2, <1>3, <1>6 DEF Micros
<1>8. t <= IntMax
  <2>1. SUFFICES ASSUME t >= IntMax + 1 PROVE FALSE
    BY <1>1, <1>5
  <2>2. t * U >= (IntMax + 1) * U
    BY <1>1, <1>5, <2>1
  <2>3. (IntMax + 1) * U = IntMax * U + U
    BY <1>1
  <2>4. Micros(a) \in Nat
    BY MicrosNat
  <2> HIDE DEF t
  <2> QED BY <1>1, <1>5, <1>7, <2>2, <2>3, <2>4
<1>9. timeval_millisecond_calc(a) = t
  <2>1. timeval_millisecond_calc(a) = t % (2 * (IntMax + 1))
    BY DEF timeval_millisecond_calc, q
  <2> HIDE DEF t
  <2> QED BY <1>1, <1>5, <1>8, <2>1
<1> HIDE DEF t
<1> QED BY <1>1, <1>5, <1>7, <1>8, <1>9
-----------------------------------------------------------------------------
(* Where the loop is relative to its schedule.  The sweep is never more    *)
(* than a period away; the clock read for the sleep is current.            *)
Scheduled ==
  /\ TypeOK
  /\ Due <= clock + ping_period * MicrosecondsInMillisecond
  /\ pc \in {"arm", "poll"} => Due <= Micros(now) + ping_period * MicrosecondsInMillisecond
  /\ pc \in {"arm", "poll"} => Micros(now) <= began
  /\ pc = "arm" => began = clock

IInv == Scheduled /\ NoEarlyWake /\ NoOversleep /\ PollEnds

(* A time that is at most x ahead stays so as the clock advances.          *)
LEMMA LaterStill ==
  ASSUME NEW d \in Nat, NEW t \in Nat, NEW u \in Nat, NEW x \in Nat,
         d <= t + x, t <= u
  PROVE  d <= u + x
OBVIOUS

(* The timeout given to poll.                                              *)
LEMMA ArmLemma ==
  ASSUME Scheduled, pc = "arm"
  PROVE  LET ms == timeval_millisecond_calc(timeval_sub(pingd_next_send, now))
         IN  /\ ms \in 0..ping_period
             /\ Micros(now) + ms * MicrosecondsInMillisecond >= Due
             /\ ms > 0 => Micros(now) + ms * MicrosecondsInMillisecond
                            < Due + MicrosecondsInMillisecond
<1> DEFINE U == MicrosecondsInMillisecond
           left == timeval_sub(pingd_next_send, now)
           ms == timeval_millisecond_calc(left)
<1>1. /\ now \in Timevals /\ pingd_next_send \in Timevals
      /\ ping_period \in 1..IntMax /\ IntMax \in Nat /\ U \in Nat \ {0}
      /\ Due <= Micros(now) + ping_period * U
  BY UnitsAssumption, PeriodsAssumption DEF Scheduled, TypeOK
<1>2. Micros(now) \in Nat /\ Due \in Nat
  BY <1>1, MicrosNat DEF Due
<1>3. /\ left \in Timevals
      /\ Micros(left) = IF Due > Micros(now) THEN Due - Micros(now) ELSE 0
  BY <1>1, <1>2, SubLemma DEF Due
<1>4. ping_period * U \in Nat /\ ping_period * U <= IntMax * U
  BY <1>1
<1>5. Micros(left) <= ping_period * U /\ Micros(left) <= IntMax * U
  BY <1>1, <1>2, <1>3, <1>4
<1>6. ms \in 0..IntMax /\ ms * U >= Micros(left) /\ ms * U < Micros(left) + U
  BY <1>3, <1>5, CalcLemma
<1> HIDE DEF left, ms
<1>7. ms <= ping_period
  <2>1. SUFFICES ASSUME ms >= ping_period + 1 PROVE FALSE
    BY <1>1, <1>6
  <2>2. ms * U >= (ping_period + 1) * U
    BY <1>1, <1>6, <2>1
  <2>3. (ping_period + 1) * U = ping_period * U + U
    BY <1>1
  <2> QED BY <1>1, <1>3, <1>4, <1>5, <1>6, <2>2, <2>3, MicrosNat
<1>8. ms > 0 => Due > Micros(now)
  <2>1. SUFFICES ASSUME ms >= 1, ~(Due > Micros(now)) PROVE FALSE
    BY <1>6
  <2>2. ms * U >= U
    BY <1>1, <1>6, <2>1
  <2> QED BY <1>1, <1>2, <1>3, <1>6, <2>1, <2>2
<1> QED BY <1>1, <1>2, <1>3, <1>6, <1>7, <1>8 DEF left, ms

(* The sleep of the loop is exact to the millisecond, for every period an  *)
(* int can hold: it never ends before the sweep is due, poll is never      *)
(* asked to wait for ever.                                                 *)
THEOREM SleepIsExact == Spec => [](NoEarlyWake /\ NoOversleep /\ PollEnds)
<1>1. Init => IInv
  <2> SUFFICES ASSUME Init PROVE IInv
    OBVIOUS
  <2>1. MicrosecondsInSecond \in Nat \ {0} /\ MicrosecondsInMillisecond \in Nat \ {0}
    BY UnitsAssumption DEF MicrosecondsInSecond
  <2>2. clock \in Nat /\ ping_period \in 1..IntMax /\ IntMax \in Nat
    BY <2>1, PeriodsAssumption DEF Init
  <2>3. Cleared \in Timevals /\ Micros(Cleared) = 0
    BY <2>1 DEF Cleared, Timevals, Micros
  <2>4. TypeOK
    BY <2>1, <2>2, <2>3, FromMicrosLemma DEF Init, TypeOK
  <2>5. ping_period * MicrosecondsInMillisecond \in Nat
    BY <2>1, <2>2
  <2> QED BY <2>2, <2>3, <2>4, <2>5
       DEF Init, IInv, Scheduled, Due, NoEarlyWake, NoOversleep, PollEnds
<1>2. IInv /\ [Next]_vars => IInv'
  <2> SUFFICES ASSUME IInv, [Next]_vars PROVE IInv'
    OBVIOUS
  <2>0. /\ TypeOK /\ clock \in Nat /\ began \in Nat
        /\ ping_period \in 1..IntMax /\ IntMax \in Nat
        /\ MicrosecondsInMillisecond \in Nat \ {0}
    BY UnitsAssumption, PeriodsAssumption DEF IInv, Scheduled, TypeOK
  <2> DEFINE span == ping_period * MicrosecondsInMillisecond
  <2>a. Micros(now) \in Nat /\ Due \in Nat /\ span \in Nat
    BY <2>0, MicrosNat DEF TypeOK, Due
  <2>b. /\ Due <= clock + span
        /\ pc \in {"arm", "poll"} => Due <= Micros(now) + span
        /\ pc \in {"arm", "poll"} => Micros(now) <= began
        /\ pc = "arm" => began = clock
    BY DEF IInv, Scheduled
  <2>1. CASE Tick
    <3>1. TypeOK'
      BY <2>0, <2>1 DEF Tick, TypeOK
    <3>2. Due' = Due /\ Micros(now)' = Micros(now) /\ span' = span
          /\ WakeTime' = WakeTime /\ pc' = pc /\ pc # "arm" /\ began' = began
      BY <2>1 DEF Tick, Due, WakeTime, Micros
    <3>3. clock' = clock + 1
      BY <2>1 DEF Tick
    <3>4. Due <= clock + 1 + span
      BY <2>0, <2>a, <2>b, LaterStill
    <3>5. Scheduled'
      BY <2>b, <3>1, <3>2, <3>3, <3>4 DEF Scheduled
    <3> QED BY <2>1, <3>2, <3>5 DEF Tick, IInv, NoEarlyWake, NoOversleep, PollEnds
  <2>2. CASE Top
    <3>1. TypeOK'
      BY <2>0, <2>2, FromMicrosLemma DEF Top, TypeOK
    <3>2. Micros(now)' = clock
      BY <2>0, <2>2, FromMicrosLemma DEF Top, Micros
    <3>3. Due' = Due
      BY <2>2 DEF Top, Due
    <3>4. Scheduled'
      BY <2>0, <2>2, <3>1, <3>2, <3>3 DEF Top, IInv, Scheduled
    <3> QED BY <2>2, <3>4 DEF Top, IInv, NoEarlyWake, NoOversleep, PollEnds
  <2>3. CASE Swept
    <3> DEFINE n == FromMicros(clock)
               p == timeval_millisecond_init(ping_period)
    <3>1. n \in Timevals /\ Micros(n) = clock
      BY <2>0, FromMicrosLemma
    <3>2. p \in Timevals /\ Micros(p) = ping_period * MicrosecondsInMillisecond
      BY <2>0, InitLemma
    <3>3. now' = n /\ pingd_next_send' = timeval_add(n, p)
      BY <2>3 DEF Swept, timeval_add_ms
    <3> HIDE DEF n, p
    <3>4. /\ pingd_next_send' \in Timevals
          /\ Micros(pingd_next_send') = clock + ping_period * MicrosecondsInMillisecond
      BY <3>1, <3>2, <3>3, AddLemma
    <3>5. Due' = clock + ping_period * MicrosecondsInMillisecond /\ Micros(now)' = clock
      BY <3>1, <3>3, <3>4 DEF Due, Micros
    <3>6. TypeOK'
      BY <2>0, <2>3, <3>1, <3>3, <3>4 DEF Swept, TypeOK
    <3>7. Scheduled'
      BY <2>0, <2>3, <3>5, <3>6 DEF Swept, Scheduled
    <3> QED BY <2>3, <3>7 DEF Swept, IInv, NoEarlyWake, NoOversleep, PollEnds
  <2>4. CASE Arm
    <3> DEFINE ms == timeval_millisecond_calc(timeval_sub(pingd_next_send, now))
    <3>1. /\ ms \in 0..ping_period
          /\ Micros(now) + ms * MicrosecondsInMillisecond >= Due
          /\ ms > 0 => Micros(now) + ms * MicrosecondsInMillisecond
                         < Due + MicrosecondsInMillisecond
      BY <2>4, ArmLemma DEF Arm, IInv
    <3>2. timeout_ms' = ms /\ clock' \in clock..clock + MaxDelay /\ began' = clock'
      BY <2>4 DEF Arm
    <3> HIDE DEF ms
    <3>3. Due' = Due /\ Micros(now)' = Micros(now) /\ ping_period' = ping_period
      BY <2>4 DEF Arm, Due, Micros
    <3>4. Micros(now) \in Nat /\ Due \in Nat /\ ms * MicrosecondsInMillisecond \in Nat
          /\ ping_period * MicrosecondsInMillisecond \in Nat
      BY <2>0, <3>1, MicrosNat DEF TypeOK, Due
    <3>5. TypeOK'
      BY <2>0, <2>4, <3>1, <3>2, UnitsAssumption DEF Arm, TypeOK
    <3>6. Micros(now) <= clock /\ Due <= clock + ping_period * MicrosecondsInMillisecond
          /\ Due <= Micros(now) + ping_period * MicrosecondsInMillisecond
      BY <2>0, <2>4 DEF Arm, IInv, Scheduled
    <3>a. clock' \in Nat /\ clock <= clock'
      BY <2>0, <3>2, UnitsAssumption
    <3>b. Due <= clock' + span /\ Micros(now) <= clock'
      <4> DEFINE x == span
                 m == Micros(now)
      <4>1. x \in Nat /\ m \in Nat /\ Due \in Nat
        BY <2>a
      <4>2. Due <= clock + x /\ m <= clock
        BY <3>6
      <4> HIDE DEF x, m
      <4>3. Due <= clock' + x
        BY <2>0, <3>a, <4>1, <4>2, LaterStill
      <4>4. m <= clock'
        BY <2>0, <3>a, <4>1, <4>2
      <4> QED BY <4>3, <4>4 DEF x, m
    <3>c. pc' = "poll"
      BY <2>4 DEF Arm
    <3>7. Scheduled'
      BY <2>a, <3>2, <3>3, <3>5, <3>6, <3>b, <3>c DEF Scheduled
    <3>d. WakeTime' = clock' + ms * MicrosecondsInMillisecond
      BY <3>2 DEF WakeTime
    <3>8. WakeTime' >= Due'
      BY <2>a, <3>1, <3>3, <3>4, <3>a, <3>b, <3>d
    <3> QED BY <2>0, <3>1, <3>2, <3>3, <3>7, <3>8, <3>c
            DEF IInv, NoEarlyWake, NoOversleep, PollEnds
  <2>5. CASE Wake
    <3>0. clock' \in Nat /\ clock <= clock' /\ began' = clock' /\ pc' = "top"
      BY <2>0, <2>5, UnitsAssumption DEF Wake
    <3>1. TypeOK'
      BY <2>0, <2>5, <3>0 DEF Wake, TypeOK
    <3>2. Due' = Due /\ span' = span
      BY <2>5 DEF Wake, Due, Micros
    <3>3. Due <= clock' + span
      <4> DEFINE x == span
      <4>1. x \in Nat /\ Due \in Nat /\ Due <= clock + x
        BY <2>a, <2>b
      <4> HIDE DEF x
      <4>2. Due <= clock' + x
        BY <2>0, <3>0, <4>1, LaterStill
      <4> QED BY <4>2 DEF x
    <3>4. Scheduled'
      BY <3>0, <3>1, <3>2, <3>3 DEF Scheduled
    <3> QED BY <3>0, <3>4 DEF IInv, NoEarlyWake, NoOversleep, PollEnds
  <2>6. CASE UNCHANGED vars
    BY <2>6 DEF vars, IInv, Scheduled, TypeOK, Due, WakeTime, NoEarlyWake,
                NoOversleep, PollEnds
  <2> QED BY <2>1, <2>2, <2>3, <2>4, <2>5, <2>6 DEF Next
<1>3. IInv => NoEarlyWake /\ NoOversleep /\ PollEnds
  BY DEF IInv
<1> QED BY <1>1, <1>2, <1>3, PTL DEF Spec

(* The sleep costs less than a millisecond more than what was left of the  *)
(* period when the clock was read.                                         *)
THEOREM SleepIsShort == Spec => []NoOversleep
  BY SleepIsExact, PTL

(* poll is never asked to wait longer than the period, nor for ever.       *)
THEOREM SleepEnds == Spec => []PollEnds
  BY SleepIsExact, PTL
=============================================================================
