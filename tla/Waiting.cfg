SPECIFICATION Spec
CONSTANTS
  MAX_THREADS_NUM = 5
  NUM_PRIORITY = 2
  QUANTUM = 1
  INIT_PRIORITY = 1
  INFINIT_TIME = 9
  UserQueues = {Queue}
  NULL = NULL
  Calls = {"thread_create", "thread_resume", "thread_sleep", "wait_queue_block", "wait_queue_wake_one", "wait_queue_wake_all", "wait_queue_destroy"}
  Priorities = {1}
  Delays = {0, 2}
  Timeouts = {0, 1, 9}
  JoinTimeouts = {9}
INVARIANTS WaitQueueCoherent TimersCoherent WorkConserving
PROPERTY ResultStable
