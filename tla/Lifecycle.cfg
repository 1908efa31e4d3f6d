SPECIFICATION Spec
CONSTANTS
  MAX_THREADS_NUM = 5
  NUM_PRIORITY = 2
  QUANTUM = 1
  INIT_PRIORITY = 1
  INFINIT_TIME = 9
  UserQueues = {}
  NULL = NULL
  Calls = {"thread_create", "thread_resume", "thread_join", "thread_detach", "thread_exit", "thread_yield"}
  Priorities = {0, 1}
  Delays = {}
  Timeouts = {}
  JoinTimeouts = {9}
INVARIANTS RunQueueCoherent NodeOwnership ReclaimedAreQuiet NoLostJoin
PROPERTY ServesInOrder
