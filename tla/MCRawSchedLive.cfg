CONSTANTS
  idle = idle
  tick = tick
  a = a
  b = b
  Tasks <- MCTasksNoTick
  Idle = idle
  TickTask = a
  NoTask = NoTask
  PRIO_MAX = 3
  InitPrio <- MCInitPrioNoTick
  NewPrios = {}
  PolicyTasks <- MCPolicyTasks
  INT_NESTED_LEVEL = 2
  LockLimit = 1
  TimeTotal = 1
SPECIFICATION LiveSpec
PROPERTIES
  HighestEventuallyRuns
