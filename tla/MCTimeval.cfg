\* Every period up to the largest int, here 7 ms, over three or more periods.
SPECIFICATION Spec
CONSTANTS
  MicrosecondsInMillisecond = 3
  MillisecondsInSecond = 2
  IntMax = 7
  Periods <- AllPeriods
  MaxDelay = 4
  MaxClock = 80
INVARIANTS NoEarlyWake NoOversleep PollEnds
CHECK_DEADLOCK FALSE
