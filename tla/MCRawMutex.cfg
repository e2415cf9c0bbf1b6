SPECIFICATION Spec
CONSTANTS
  a = a
  b = b
  c = c
  mu = mu
  nu = nu
  Tasks = {a, b, c}
  Objects = {mu, nu}
  NoObj = NoObj
  NoTask = NoTask
  FifoObjects = {}
  PRIO_MAX = 4
  Policy <- MCInherit
  Ceiling <- MCCeiling
  InitPrio <- MCInitPrio
  RECURSION_LEVELS = 3
  TICKS = 2
  COUNT_LIMIT = 2
  COUNT_MOD = 4
  NestLimit = 1
  Timeouts = {1, 2}
  Delays = {}
  NewPrios = {0, 3}
  SuspendTasks = {}
  AbortTasks = {}
  ChangeTasks = {b, c}
  DeleteTasks = {}
  DeleteMutexes = {}
INVARIANTS
  WaitListSorted
  PriorityExact
  NoSystemError
