SPECIFICATION SpecRacing
CONSTANTS
  Timers = {x, y}
  Callers = {a, b}
  TimerTask = TimerTask
  NoTask = NoTask
  TICKS = 4
  RAW_TIMER_RATE = 1
  SemLimit = 1
  Inits = {1, 3}
  Reschedules = {0, 2}
PROPERTIES
  OnlyStoppedTimersStart
