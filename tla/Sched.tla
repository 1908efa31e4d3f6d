-------------------------------- MODULE Sched --------------------------------
(***************************************************************************)
(* The state of the chinix kernel and the scheduling core of               *)
(* kernel/thread.c: run queues, thread_resched, thread_yield,              *)
(* thread_set_priority and the preemption counter.                         *)
(*                                                                         *)
(* The machine has one CPU and THREAD_LOCK disables interrupts, so a code  *)
(* section between THREAD_LOCK and THREAD_UNLOCK is one step, or a forced  *)
(* sequence of steps during which nothing else is enabled.  pc[t] says     *)
(* where thread t is (or will be when it is switched in):                  *)
(*   "user"       client code, outside the kernel                          *)
(*   "get_free"   in get_free_thread_node, the free list seen non-empty    *)
(*   "init_node"  in thread_create, owning the node arg[t]                 *)
(*   "yield"      about to call thread_yield                               *)
(*   "print"      about to call printf                                     *)
(*   "printf"     in printf, between thread_preempt_disable and _enable    *)
(*   "start"      never run: its frame returns to initial_thread_func      *)
(*   "wait"       after thread_resched in wait_queue_block                 *)
(*   "join"       the same, called by thread_join(arg[t])                  *)
(*   "wake_all"   in the loop of wait_queue_wake_all, arguments in wake    *)
(*   "none"       dead, or not a thread                                    *)
(***************************************************************************)
EXTENDS Integers, FiniteSets, Lists

CONSTANTS
  MAX_THREADS_NUM,  \* length of g_threads
  NUM_PRIORITY,     \* number of run queues
  QUANTUM,          \* ticks given by thread_resched
  INIT_PRIORITY,    \* priority of the init thread
  INFINIT_TIME,     \* the timeout that never expires
  UserQueues,       \* wait queues owned by clients
  NULL,
  Calls,            \* kernel functions the clients of this instance call
  Priorities,       \* arguments of thread_create
  Delays,           \* arguments of thread_sleep
  Timeouts,         \* arguments of wait_queue_block
  JoinTimeouts      \* arguments of thread_join

IDLE_THREAD_ID == 0
MAX_THREAD_ID == MAX_THREADS_NUM - 1
IDLE_PRIORITY == 0
HIGHEST_PRIORITY == NUM_PRIORITY - 1

(* Node MAX_THREAD_ID is never put on the free list, so it is not a thread.*)
Threads == 0 .. MAX_THREAD_ID - 1
Levels == 0 .. NUM_PRIORITY - 1

(* The exit_wait_queue of thread t is named t. *)
WaitQueues == Threads \cup UserQueues

(* enum errno *)
NO_ERR == 0
ERR_THREAD_DETACHED == 5
ERR_TIMED_OUT == 7
ERR_OBJECT_DESTORYED == 8

ASSUME SizeAssumption ==
  /\ MAX_THREADS_NUM \in Nat /\ MAX_THREADS_NUM >= 3
  /\ NUM_PRIORITY \in Nat /\ NUM_PRIORITY >= 2
  /\ QUANTUM \in Nat \ {0}
  /\ INIT_PRIORITY \in Levels
ASSUME ArgumentAssumption ==
  /\ Priorities \subseteq Levels
  /\ Delays \subseteq Nat /\ Timeouts \subseteq Nat
  /\ JoinTimeouts \subseteq Nat /\ INFINIT_TIME \in Nat \ {0}
ASSUME QueueAssumption ==
  /\ UserQueues \cap Threads = {}
  /\ NULL \notin WaitQueues

VARIABLES
  state, priority, remaining_quantum,          \* fields of g_threads[t]
  detached,                                    \* those with THREAD_FLAG_DETACHED
  blocking_wait_queue, wait_queue_block_ret,
  g_thread_free_list, thread_list,
  run_queue, run_queue_bitmap, current_thread,
  thread_preempt_lock, thread_lock,
  wait_list, wait_count,                       \* the fields of wait_queue_t
  timer_queue, due, callback,                  \* timers; due is sched_time - now
  pc, arg, wake,
  irq,      \* "none", or what timer_tick will return to the interrupt handler
  halted    \* the CPU is in exception_die

schedVars == <<state, run_queue, run_queue_bitmap, remaining_quantum, current_thread>>
nodeVars == <<detached, g_thread_free_list, thread_list>>
waitVars == <<wait_list, wait_count, blocking_wait_queue, wait_queue_block_ret>>
timerVars == <<timer_queue, due, callback>>
ctlVars == <<pc, thread_lock>>
vars == <<schedVars, nodeVars, waitVars, timerVars, ctlVars, priority,
          thread_preempt_lock, arg, wake, irq, halted>>

NoWake == [q |-> IDLE_THREAD_ID, error |-> NO_ERR, reschedule |-> FALSE,
           woken |-> FALSE, next |-> "none"]

-----------------------------------------------------------------------------
(* Where a thread runs with interrupts enabled. *)
IntsOn == {"user", "get_free", "init_node", "yield", "print", "printf"}
arch_ints_enabled == ~halted /\ irq = "none" /\ pc[current_thread] \in IntsOn

(* Client code of the current thread may call kernel function f.  The idle *)
(* thread makes no calls.                                                  *)
Client(f) ==
  /\ ~halted /\ irq = "none"
  /\ current_thread # IDLE_THREAD_ID
  /\ pc[current_thread] = "user"
  /\ f \in Calls

(* Run queues and bitmap, changed together. *)
RunQueue == [q |-> run_queue, bits |-> run_queue_bitmap]

insert_in_run_queue_head(r, t, p) ==
  [q |-> [r.q EXCEPT ![p] = list_add_head(@, t)], bits |-> r.bits \cup {p}]

insert_in_run_queue_tail(r, t, p) ==
  [q |-> [r.q EXCEPT ![p] = list_add_tail(@, t)], bits |-> r.bits \cup {p}]

(* The scan goes up from bit 0; a set bit over an empty queue gives idle.  *)
get_new_thread(r) ==
  IF r.bits # {} /\ ~list_is_empty(r.q[Min(r.bits)])
  THEN Head(r.q[Min(r.bits)])
  ELSE IDLE_THREAD_ID

(* Mutant: the bit of an emptied queue is not cleared. *)
QueuesAfterPick_keep_bit(r) ==
  IF r.bits # {} /\ ~list_is_empty(r.q[Min(r.bits)])
  THEN LET rest == list_remove_head(r.q[Min(r.bits)])
       IN  [q |-> [r.q EXCEPT ![Min(r.bits)] = rest],
            bits |-> r.bits]
  ELSE r

(* The queues once get_new_thread has unlinked the thread it returns. *)
QueuesAfterPick(r) ==
  IF r.bits # {} /\ ~list_is_empty(r.q[Min(r.bits)])
  THEN LET rest == list_remove_head(r.q[Min(r.bits)])
       IN  [q |-> [r.q EXCEPT ![Min(r.bits)] = rest],
            bits |-> IF list_is_empty(rest) THEN r.bits \ {Min(r.bits)} ELSE r.bits]
  ELSE r

(* thread_resched with the states st, queues r, quanta rem and             *)
(* continuations k its caller has left, and thread_lock = lk.  A thread    *)
(* switched in where it runs with interrupts on has done THREAD_UNLOCK.    *)
thread_resched(st, r, rem, k, lk) ==
  LET new == get_new_thread(r) IN
  /\ state' = [st EXCEPT ![new] = "RUNNING"]
  /\ run_queue' = QueuesAfterPick(r).q
  /\ run_queue_bitmap' = QueuesAfterPick(r).bits
  /\ remaining_quantum' = IF new # current_thread /\ rem[new] <= 0
                          THEN [rem EXCEPT ![new] = QUANTUM]
                          ELSE rem
  /\ current_thread' = new
  /\ pc' = k
  /\ thread_lock' = IF k[new] \in IntsOn THEN 0 ELSE lk

thread_is_idle(t) == t = IDLE_THREAD_ID

(* The states once thread c has given up the CPU, still wanting it. *)
StatesOnSwitch(c) == [state EXCEPT ![c] = "READY"]

(* The current thread, made READY, goes to its queue unless it is idle. *)
thread_preempt(rem) ==
  LET c == current_thread IN
  thread_resched(
    StatesOnSwitch(c),
    IF thread_is_idle(c) THEN RunQueue
    ELSE IF rem[c] > 0 THEN insert_in_run_queue_head(RunQueue, c, priority[c])
    ELSE insert_in_run_queue_tail(RunQueue, c, priority[c]),
    rem, pc, 1)

-----------------------------------------------------------------------------
(* Called by a client, by thread_resume and by thread_become_idle, which   *)
(* goes on to a printf.                                                    *)
thread_yield ==
  LET c == current_thread IN
  /\ arch_ints_enabled
  /\ \/ pc[c] = "yield"
     \/ Client("thread_yield")
  /\ thread_resched(
       StatesOnSwitch(c),
       IF thread_is_idle(c) THEN RunQueue
       ELSE insert_in_run_queue_tail(RunQueue, c, priority[c]),
       [remaining_quantum EXCEPT ![c] = 0],
       [pc EXCEPT ![c] = IF c = IDLE_THREAD_ID THEN "print" ELSE "user"], 1)
  /\ UNCHANGED <<nodeVars, waitVars, timerVars, priority, thread_preempt_lock,
                 arg, wake, irq, halted>>

(* A priority other than that of the idle thread. *)
Clamp(prio) == IF prio <= IDLE_PRIORITY THEN IDLE_PRIORITY + 1
               ELSE IF prio > HIGHEST_PRIORITY THEN HIGHEST_PRIORITY ELSE prio

(* Mutant: the caller is queued before its priority is changed. *)
thread_set_priority_late(prio) ==
  LET c == current_thread
      p == Clamp(prio)
  IN
  /\ Client("thread_set_priority")
  /\ priority' = [priority EXCEPT ![c] = p]
  /\ thread_resched(state, insert_in_run_queue_head(RunQueue, c, priority[c]),
                    remaining_quantum, pc, 1)
  /\ UNCHANGED <<nodeVars, waitVars, timerVars, thread_preempt_lock,
                 arg, wake, irq, halted>>

(* Clamps the argument, queues the caller, which is still RUNNING, and     *)
(* reschedules.                                                            *)
thread_set_priority(prio) ==
  LET c == current_thread
      p == Clamp(prio)
  IN
  /\ Client("thread_set_priority")
  /\ priority' = [priority EXCEPT ![c] = p]
  /\ thread_resched(state, insert_in_run_queue_head(RunQueue, c, p),
                    remaining_quantum, pc, 1)
  /\ UNCHANGED <<nodeVars, waitVars, timerVars, thread_preempt_lock,
                 arg, wake, irq, halted>>

(* First run of a thread: initial_thread_func. *)
initial_thread_func ==
  /\ ~halted /\ irq = "none" /\ pc[current_thread] = "start"
  /\ pc' = [pc EXCEPT ![current_thread] = "user"]
  /\ thread_lock' = 0
  /\ UNCHANGED <<schedVars, nodeVars, waitVars, timerVars, priority,
                 thread_preempt_lock, arg, wake, irq, halted>>

(* Mutant: a flag where there is a counter. *)
thread_preempt_disable_flag ==
  /\ arch_ints_enabled
  /\ \/ pc[current_thread] = "print"
     \/ Client("printf")
  /\ thread_preempt_lock' = 1
  /\ pc' = [pc EXCEPT ![current_thread] = "printf"]
  /\ UNCHANGED <<schedVars, nodeVars, waitVars, timerVars, thread_lock,
                 priority, arg, wake, irq, halted>>

(* printf of a client or of the kernel disables preemption first ... *)
thread_preempt_disable ==
  /\ arch_ints_enabled
  /\ \/ pc[current_thread] = "print"
     \/ Client("printf")
  /\ thread_preempt_lock' = thread_preempt_lock + 1
  /\ pc' = [pc EXCEPT ![current_thread] = "printf"]
  /\ UNCHANGED <<schedVars, nodeVars, waitVars, timerVars, thread_lock,
                 priority, arg, wake, irq, halted>>

(* ... and enables it when the text is out. *)
thread_preempt_enable ==
  /\ arch_ints_enabled
  /\ pc[current_thread] = "printf"
  /\ thread_preempt_lock' = IF thread_preempt_lock > 0
                            THEN thread_preempt_lock - 1
                            ELSE thread_preempt_lock
  /\ pc' = [pc EXCEPT ![current_thread] = "user"]
  /\ UNCHANGED <<schedVars, nodeVars, waitVars, timerVars, thread_lock,
                 priority, arg, wake, irq, halted>>
=============================================================================
