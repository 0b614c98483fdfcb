------------------------------ MODULE Timeval ------------------------------
(***************************************************************************)
(* libcommon/timeval.c and the sleep pingd_loop makes of it: the period is *)
(* an int of milliseconds, the clock a timeval of microseconds, the        *)
(* remaining time a difference of timevals converted back to milliseconds  *)
(* and given to poll as an int.                                            *)
(***************************************************************************)
EXTENDS Integers

CONSTANTS
  MicrosecondsInMillisecond,   \* 1000
  MillisecondsInSecond,        \* 1000
  IntMax,                      \* 2^31 - 1: poll's timeout is an int
  Periods,                     \* values conf.ping_period may have
  MaxDelay,                    \* microseconds a sweep, the serving of a client
                               \* or the wait for the processor may take
  MaxClock                     \* bound on the clock, in microseconds

MicrosecondsInSecond == MicrosecondsInMillisecond * MillisecondsInSecond

ASSUME UnitsAssumption ==
  /\ {MicrosecondsInMillisecond, MillisecondsInSecond} \subseteq Nat \ {0}
  /\ {MaxDelay, MaxClock} \subseteq Nat
(* pingd_config.c refuses a period below 1. *)
ASSUME PeriodsAssumption == IntMax \in Nat /\ Periods \subseteq 1..IntMax

Timevals == [tv_sec : Nat, tv_usec : 0..MicrosecondsInSecond - 1]
Cleared == [tv_sec |-> 0, tv_usec |-> 0]
Micros(a) == a.tv_sec * MicrosecondsInSecond + a.tv_usec
FromMicros(us) == [tv_sec |-> us \div MicrosecondsInSecond,
                   tv_usec |-> us % MicrosecondsInSecond]

timeval_gt(a, b) ==
  \/ a.tv_sec > b.tv_sec
  \/ a.tv_sec = b.tv_sec /\ a.tv_usec > b.tv_usec

Carry(us) == us >= MicrosecondsInSecond

timeval_add(a, b) ==
  LET sec == a.tv_sec + b.tv_sec
      usec == a.tv_usec + b.tv_usec
  IN  IF Carry(usec)
      THEN [tv_sec |-> sec + 1, tv_usec |-> usec - MicrosecondsInSecond]
      ELSE [tv_sec |-> sec, tv_usec |-> usec]

timeval_sub(a, b) ==
  LET sec == a.tv_sec - b.tv_sec
      usec == a.tv_usec - b.tv_usec
  IN  IF ~timeval_gt(a, b) THEN Cleared
      ELSE IF usec < 0
      THEN [tv_sec |-> sec - 1, tv_usec |-> usec + MicrosecondsInSecond]
      ELSE [tv_sec |-> sec, tv_usec |-> usec]

timeval_millisecond_init(ms) ==
  [tv_sec |-> ms \div MillisecondsInSecond,
   tv_usec |-> (ms % MillisecondsInSecond) * MicrosecondsInMillisecond]

timeval_add_ms(a, ms) == timeval_add(a, timeval_millisecond_init(ms))

(* "Must round up.  Otherwise time will always disappear."                 *)
RoundUp_Never(us) == 0                                         \* mutant
RoundUp_Always(us) == 1                                        \* mutant
RoundUp(us) == IF us % MicrosecondsInMillisecond # 0 THEN 1 ELSE 0

(* The sum is an unsigned int. *)
timeval_millisecond_calc(a) ==
  (a.tv_sec * MillisecondsInSecond
    + a.tv_usec \div MicrosecondsInMillisecond + RoundUp(a.tv_usec))
  % (2 * (IntMax + 1))
-----------------------------------------------------------------------------
VARIABLES
  pc,               \* top, sweep, arm, poll
  clock,            \* CLOCK_MONOTONIC, in microseconds
  began,            \* when the step in progress began
  ping_period,      \* conf.ping_period
  now,              \* the local now of pingd_loop
  pingd_next_send,
  timeout_ms        \* the timeout given to poll

vars == <<pc, clock, began, ping_period, now, pingd_next_send, timeout_ms>>

Init ==
  /\ pc = "top" /\ clock \in 1..MicrosecondsInSecond /\ began = clock
  /\ ping_period \in Periods
  /\ now = FromMicros(clock) /\ pingd_next_send = Cleared /\ timeout_ms = 0

(* Time passes while pings are sent, and while poll waits: the kernel      *)
(* returns from poll as soon as the timeout is over.                       *)
Tick ==
  /\ \/ pc = "sweep" /\ clock < began + MaxDelay
     \/ pc = "poll" /\ clock < began + timeout_ms * MicrosecondsInMillisecond
  /\ clock < MaxClock
  /\ clock' = clock + 1
  /\ UNCHANGED <<pc, began, ping_period, now, pingd_next_send, timeout_ms>>

Top ==
  /\ pc = "top"
  /\ now' = FromMicros(clock)
  /\ pc' = IF timeval_gt(now', pingd_next_send) THEN "sweep" ELSE "arm"
  /\ began' = clock
  /\ UNCHANGED <<clock, ping_period, pingd_next_send, timeout_ms>>

Swept ==
  /\ pc = "sweep"
  /\ now' = FromMicros(clock)
  /\ pingd_next_send' = timeval_add_ms(now', ping_period)
  /\ pc' = "arm" /\ began' = clock
  /\ UNCHANGED <<clock, ping_period, timeout_ms>>

(* The thread may lose the processor between reading the clock and poll.   *)
Arm ==
  /\ pc = "arm"
  /\ timeout_ms' = timeval_millisecond_calc(timeval_sub(pingd_next_send, now))
  /\ clock' \in clock..clock + MaxDelay /\ clock' <= MaxClock
  /\ began' = clock'
  /\ pc' = "poll"
  /\ UNCHANGED <<ping_period, now, pingd_next_send>>

(* poll returns for an event, which is served, or because the timeout is   *)
(* over; at least a microsecond has passed when the loop is at its top.    *)
Wake ==
  /\ pc = "poll"
  /\ clock' \in clock + 1..clock + 1 + MaxDelay /\ clock' <= MaxClock
  /\ pc' = "top" /\ began' = clock'
  /\ UNCHANGED <<ping_period, now, pingd_next_send, timeout_ms>>

Next == Tick \/ Top \/ Swept \/ Arm \/ Wake

Spec == Init /\ [][Next]_vars
-----------------------------------------------------------------------------
TypeOK ==
  /\ pc \in {"top", "sweep", "arm", "poll"}
  /\ clock \in Nat /\ began \in Nat /\ ping_period \in Periods
  /\ now \in Timevals /\ pingd_next_send \in Timevals
  /\ timeout_ms \in Nat

Due == Micros(pingd_next_send)
WakeTime == began + timeout_ms * MicrosecondsInMillisecond

(* The sleep is never cut short by the conversion: a poll that times out   *)
(* ends when the sweep is due and not before, so the loop does not spin    *)
(* over the last millisecond.                                              *)
NoEarlyWake == pc = "poll" => WakeTime >= Due

(* ... and it costs less than a millisecond: poll is asked for less than   *)
(* one more than what remained when the clock was read.                    *)
NoOversleep ==
  pc = "poll" /\ timeout_ms > 0 =>
    Micros(now) + timeout_ms * MicrosecondsInMillisecond
      < Due + MicrosecondsInMillisecond

(* poll is never asked to wait for ever, which a negative timeout means:   *)
(* the timeout is at most the period, whatever the period.                 *)
PollEnds == pc = "poll" => timeout_ms <= ping_period
=============================================================================
