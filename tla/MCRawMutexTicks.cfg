SPECIFICATION Spec
CONSTANTS
  a = a
  b = b
  c = c
  mu = mu
  nu = nu
  Tasks = {a, b, c}
  Objects = {mu}
  NoObj = NoObj
  NoTask = NoTask
  FifoObjects = {}
  PRIO_MAX = 4
  Policy <- MCInherit
  Ceiling <- MCCeiling
  InitPrio <- MCInitPrio
  RECURSION_LEVELS = 3
  TICKS = 4
  COUNT_LIMIT = 2
  COUNT_MOD = 4
  NestLimit = 2
  Timeouts = {2, 3, 4}
  Delays = {1}
  NewPrios = {}
  SuspendTasks = {b}
  AbortTasks = {b}
  ChangeTasks = {}
  DeleteTasks = {}
  DeleteMutexes = {}
INVARIANTS
  StateMatchesLists
  TickListSorted
  AnswerMatchesOwner
