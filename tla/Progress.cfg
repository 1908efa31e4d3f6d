SPECIFICATION FairSpec
CONSTANTS
  MAX_THREADS_NUM = 4
  NUM_PRIORITY = 2
  QUANTUM = 1
  INIT_PRIORITY = 1
  INFINIT_TIME = 9
  UserQueues = {Queue}
  NULL = NULL
  Calls = {"thread_create", "thread_resume", "thread_join", "thread_exit", "thread_sleep", "wait_queue_block", "wait_queue_wake_one"}
  Priorities = {1}
  Delays = {0, 2}
  Timeouts = {1, 9}
  JoinTimeouts = {9}
PROPERTIES EveryoneRuns JoinReturns SleepEnds
