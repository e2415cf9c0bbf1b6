CONSTANTS
  idle = idle
  tick = tick
  a = a
  b = b
  Tasks <- MCTasks
  Idle = idle
  TickTask = tick
  NoTask = NoTask
  PRIO_MAX = 3
  InitPrio <- MCInitPrio
  NewPrios = {0, 1}
  PolicyTasks = {}
  INT_NESTED_LEVEL = 2
  LockLimit = 2
  TimeTotal = 1
SPECIFICATION Spec
INVARIANTS
  TypeOK
  RunQueueConsistent
  SwitchTarget
  RunningIsHighest
  LockedTaskStays
PROPERTIES
  NoSwitchWhileLocked
