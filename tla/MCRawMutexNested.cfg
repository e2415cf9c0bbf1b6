SPECIFICATION Spec
CONSTANTS
  a = a
  b = b
  c = c
  mu = mu
  nu = nu
  Tasks = {a, b, c}
  Objects = {mu, nu}
  NoObj = NoObj
  NoTask = NoTask
  FifoObjects = {}
  PRIO_MAX = 4
  Policy <- MCInherit
  Ceiling <- MCCeiling
  InitPrio <- MCInitPrio
  RECURSION_LEVELS = 3
  TICKS = 2
  COUNT_LIMIT = 2
  COUNT_MOD = 4
  NestLimit = 2
  Timeouts = {2}
  Delays = {}
  NewPrios = {}
  SuspendTasks = {}
  AbortTasks = {}
  ChangeTasks = {}
  DeleteTasks = {b}
  DeleteMutexes = {}
PROPERTIES
  NewOwnerStartsAtOne
