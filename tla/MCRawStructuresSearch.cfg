SPECIFICATION Spec
CONSTANTS
  LOG_WORD = 5
  LOG_BYTE = 3
  PRIO_MAX = 62
  MaxBits = 2
  BlockCount = 4
  Remainder = TRUE
  Junk = Junk
  user1 = user1
  user2 = user2
  ByteTasks = {user1, user2}
  NoOwner = NoOwner
  POOL = 25
  HEADER = 2
  BLOCK_MIN = 5
  MemSizes = {4, 8}
  HEAP_TOTAL = 84
  HeapStarts = {0, 2, 52}
  RegionSizes = {50}
  HeapWants = {0, 3, 12, 40}
  PAGE_SIZE = 96
  DESCRIPTOR = 12
  PageEnds = {300, 600, 700, 720}
  PageRequests = {1, 2, 3}
  MallocWants = {0, 10, 24, 56}
  MAX_LOG2_SLI = 1
  TlsfPool = 24
  TlsfWants = {0, 9, 20}
  ZoneParts <- TwoZones
  ReservedParts <- OneReserved
  FRAMES_PER_CONF = 8
  FrameOrders = {0, 1}
  MaxReferences = 2
  SlabFrames = {1, 2, 3, 4}
  PAGE_SIZE_SLAB = 32
  SLAB_MAG_SIZE = 1
  MallocSize = 16
  FIFO_SIZE = 2
  FIFO_INDEX = 4
  FifoBytes = {1, 2}
  FifoTasks = {user1, user2}
  NoTask = NoTask
  SerialBlocks = {1, 2}
  SERIAL_BLOCK = 2
  SerialLens = {3}
  BYTE_MOD = 2
  RbNodes = {1, 2, 3, 4, 5, 6, 7, 8}
  StmStates = {1, 2, 3, 4, 5, 6, 7, 8, 9}
  hsm_top = 0
  Father <- StateFather
  InitTran <- StateInit
  QuietStates = {2, 4, 9}
  GuardedStates = {3, 5}
  STM_MAX_NEST_DEPTH = 6
  tidy = tidy
  busy = busy
  soon = soon
  late = late
  Threads = {tidy, busy}
  etimer_process = etimer_process
  Etimers = {soon, late}
  Casts <- FourCasts
  PROCESS_NONE = PROCESS_NONE
  NUMEVENTS = 2
  POLL_LIMIT = 2
  CLOCK_MAX = 2
  IdleObjects = {0, 8}
  IdleEnd <- RingEnds
  IdleEvents = {1, 2}
  TIMEOUT_SIG = 3
  NoSig = 0
  TickMax = 2
  hero = hero
  chorus = chorus
  sender = sender
  parcel = parcel
  letter = letter
  alarm = alarm
  notice = notice
  timer_task = timer_task
  Actors = {hero, chorus}
  Publishers = {sender}
  PoolEvents = {parcel, letter}
  StaticEvents = {alarm, notice}
  TimeEvents = {alarm}
  ActiveSignals = {1}
  StaticSig <- OneSignal
  ACTIVE_LEN = 2
  Troupes <- ThreeTroupes
  NoActor = NoActor
  NoActiveEvent = NoActiveEvent
  WorkMsgs = 3
  WorkQueues = {1, 2}
  WorkLen = 1
  Schedulers = {1, 2}
  Works = {1, 2}
  Sessions <- ThreeSessions
  CmdNames <- Names
  Prompt <- Hash
  HIST_MAX = 3
  CONFIG_SYS_MAXARGS = 2
  CMDV_MAX = 4
  CONFIG_SYS_CBSIZE = 5
  Repeatable <- RepeatableNames
  Listing <- HelpName
  MaxArgs <- Words
  Letters <- Alphabet
  LineChars <- TypedChars
  LineMax = 4
  TlsfAreas <- OneArea
  Parts = {"bytes"}
INVARIANTS
  SearchAtBlock
CHECK_DEADLOCK FALSE
