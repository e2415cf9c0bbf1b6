SPECIFICATION Spec
CONSTANTS
  t1 = t1
  t2 = t2
  m1 = m1
  m2 = m2
  f1 = f1
  f2 = f2
  s1 = s1
  q1 = q1
  z1 = z1
  x1 = x1
  e1 = e1
  Tasks = {t1, t2}
  Objects = {s1, q1, z1, x1, e1}
  Sems = {s1}
  Queues = {q1}
  SizeQueues = {z1}
  Buffers = {x1}
  Events = {e1}
  NoObj = NoObj
  FifoObjects = {}
  PRIO_MAX = 3
  InitPrio <- MCInitPrio
  MaxObjects = 1
  TICKS = 2
  COUNT_LIMIT = 2
  COUNT_MOD = 4
  Timeouts = {1, 2}
  Delays = {1}
  NewPrios = {0, 2}
  SuspendTasks = {t1}
  AbortTasks = {t1}
  ChangeTasks = {t2}
  DeleteTasks = {t2}
  COUNT_MAX = 2
  InitCounts = {1}
  Messages = {m1, m2}
  NoMsg = NoMsg
  size = 2
  queue_msg_size = 2
  bufsz = 10
  HEADERSZ = 2
  MsgSize <- MCMsgSize
  Flags = {f1, f2}
  Requests <- MCRequests
INVARIANTS WaitersWait NoEntryLost EventsNotMissed
PROPERTIES SemIsSemaphore QueuesAreMailboxes ServedTogether
CHECK_DEADLOCK FALSE
VIEW MCView
