SPECIFICATION Spec
CONSTANTS
  MAX_THREADS_NUM = 4
  NUM_PRIORITY = 3
  QUANTUM = 2
  INIT_PRIORITY = 1
  INFINIT_TIME = 9
  UserQueues = {}
  NULL = NULL
  Calls = {"thread_create", "thread_resume", "thread_detach", "thread_exit", "thread_yield", "thread_sleep", "thread_set_priority", "thread_detach_and_resume", "detach_dead", "printf"}
  Priorities = {0, 2}
  Delays = {1}
  Timeouts = {}
  JoinTimeouts = {9}
INVARIANTS TypeOK SchedulerCoherent
