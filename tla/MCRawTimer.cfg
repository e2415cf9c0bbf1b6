SPECIFICATION FairSpec
CONSTANTS
  Timers = {x, y}
  Callers = {a}
  TimerTask = TimerTask
  NoTask = NoTask
  TICKS = 4
  RAW_TIMER_RATE = 2
  SemLimit = 1
  Inits = {1, 3}
  Reschedules = {0, 2}
INVARIANTS
  ListHoldsActive
  NoneOverdue
PROPERTIES
  PassUndisturbed
  OnlyStoppedTimersStart
  ActiveTimersExpire
