SPECIFICATION Spec
CONSTANTS
  MAX_THREADS_NUM = 5
  NUM_PRIORITY = 3
  QUANTUM = 1
  INIT_PRIORITY = 1
  INFINIT_TIME = 9
  UserQueues = {}
  NULL = NULL
  Calls = {"thread_create", "thread_resume", "thread_set_priority"}
  Priorities = {1, 2}
  Delays = {}
  Timeouts = {}
  JoinTimeouts = {9}
INVARIANT QueuedAreReady
