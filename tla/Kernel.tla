-------------------------------- MODULE Kernel --------------------------------
(***************************************************************************)
(* The whole kernel: the threads of module Thread and the timer interrupt  *)
(* (os_timer_tick, timer_tick, thread_timer_tick, x64_exception_handler)   *)
(* on one CPU, from the moment start_kernel's thread becomes the idle      *)
(* thread and enables interrupts.                                          *)
(*                                                                         *)
(* The interrupt handler runs with interrupts disabled.  It is a forced    *)
(* sequence of steps: one for the clock, one for each timer that fires,    *)
(* one for the return.  irq holds what timer_tick has to return so far.    *)
(***************************************************************************)
EXTENDS Thread

(* The PIT interrupt advances the clock.  What matters of a timer is how   *)
(* far away it is, and 0 stands for any time that is not in the future.    *)
Advance == due' = [t \in Threads |-> IF due[t] > 0 THEN due[t] - 1 ELSE 0]

(* The period of platform_set_periodic_timer is over: timer_tick is called.*)
os_timer_tick ==
  /\ arch_ints_enabled
  /\ Advance
  /\ irq' = "INT_NO_RESCHEDULE"
  /\ UNCHANGED <<schedVars, nodeVars, waitVars, timer_queue, callback, ctlVars,
                 priority, thread_preempt_lock, arg, wake, halted>>

(* It is not: the handler returns INT_NO_RESCHEDULE. *)
os_timer_tick_early ==
  /\ arch_ints_enabled
  /\ Advance
  /\ UNCHANGED <<schedVars, nodeVars, waitVars, timer_queue, callback, ctlVars,
                 priority, thread_preempt_lock, arg, wake, irq, halted>>

(* The loop of timer_tick has come to a timer that is due. *)
Due(handler) ==
  /\ ~halted /\ irq # "none"
  /\ ~list_is_empty(timer_queue) /\ due[Head(timer_queue)] <= 0
  /\ callback[Head(timer_queue)] = handler
  /\ timer_queue' = list_remove_head(timer_queue)

(* Mutant: does not ask for a reschedule. *)
thread_sleep_handler_mild ==
  LET t == Head(timer_queue)
      r == insert_in_run_queue_head(RunQueue, t, priority[t])
  IN
  /\ Due("thread_sleep_handler")
  /\ callback' = [callback EXCEPT ![t] = "none"]
  /\ state' = [state EXCEPT ![t] = "READY"]
  /\ run_queue' = r.q /\ run_queue_bitmap' = r.bits
  /\ thread_lock' = 0
  /\ UNCHANGED irq
  /\ UNCHANGED <<remaining_quantum, current_thread, nodeVars, waitVars, due, pc,
                 priority, thread_preempt_lock, arg, wake, halted>>

thread_sleep_handler ==
  LET t == Head(timer_queue)
      r == insert_in_run_queue_head(RunQueue, t, priority[t])
  IN
  /\ Due("thread_sleep_handler")
  /\ callback' = [callback EXCEPT ![t] = "none"]
  /\ state' = [state EXCEPT ![t] = "READY"]
  /\ run_queue' = r.q /\ run_queue_bitmap' = r.bits
  /\ thread_lock' = 0
  /\ irq' = "INT_RESCHEDULE"
  /\ UNCHANGED <<remaining_quantum, current_thread, nodeVars, waitVars, due, pc,
                 priority, thread_preempt_lock, arg, wake, halted>>

(* Mutant: any thread is thought to be blocked. *)
StillBlocked_any(t) == TRUE

StillBlocked(t) == state[t] = "BLOCKED"

(* A thread that has been woken already, but has not run yet to cancel its *)
(* timer, is left alone.                                                   *)
wait_queue_timeout_handler ==
  LET t == Head(timer_queue) IN
  /\ Due("wait_queue_timeout_handler")
  /\ IF StillBlocked(t)
     THEN thread_unblock_from_wait_queue(t, ERR_TIMED_OUT) /\ irq' = "INT_RESCHEDULE"
     ELSE UNCHANGED <<state, run_queue, run_queue_bitmap, waitVars, irq>>
  /\ UNCHANGED <<remaining_quantum, current_thread, nodeVars, due, callback,
                 ctlVars, priority, thread_preempt_lock, arg, wake, halted>>

(* Mutant: the end of the quantum has no effect. *)
thread_timer_tick_never(rem) == FALSE

(* Whether thread_timer_tick, having counted, wants the CPU back. *)
thread_timer_tick(rem) == rem[current_thread] <= 0 /\ thread_preempt_lock = 0

(* No timer is due any more: thread_timer_tick, and thread_preempt if one  *)
(* of them asked for it.  The code only compares the quantum with 0, so it *)
(* stops at 0 here.                                                        *)
timer_tick_return ==
  LET c == current_thread
      rem == [remaining_quantum EXCEPT ![c] = IF @ > 0 THEN @ - 1 ELSE 0]
  IN
  /\ ~halted /\ irq # "none"
  /\ ~list_is_empty(timer_queue) => due[Head(timer_queue)] > 0
  /\ IF irq = "INT_RESCHEDULE" \/ thread_timer_tick(rem)
     THEN thread_preempt(rem)
     ELSE /\ remaining_quantum' = rem
          /\ UNCHANGED <<state, run_queue, run_queue_bitmap, current_thread, ctlVars>>
  /\ irq' = "none"
  /\ UNCHANGED <<nodeVars, waitVars, timerVars, priority, thread_preempt_lock,
                 arg, wake, halted>>

exception_die == halted /\ UNCHANGED vars

-----------------------------------------------------------------------------
(* Mutant: the last index of g_threads is used too. *)
FreeListAtInit_all == [i \in 1 .. MAX_THREAD_ID - 1 |-> i + 1]

(* thread_init_early lists 1 .. MAX_THREAD_ID - 1, of which thread_create  *)
(* has taken the first for the init thread.                                *)
FreeListAtInit == [i \in 1 .. MAX_THREAD_ID - 2 |-> i + 1]

(* After start_kernel has created, detached and resumed the init thread.   *)
INIT_THREAD_ID == IDLE_THREAD_ID + 1

Init ==
  /\ state = [t \in Threads |-> CASE t = IDLE_THREAD_ID -> "RUNNING"
                                  [] t = INIT_THREAD_ID -> "READY"
                                  [] OTHER -> "SUSPENDED"]
  /\ priority = [t \in Threads |-> IF t = INIT_THREAD_ID THEN INIT_PRIORITY
                                   ELSE IDLE_PRIORITY]
  /\ remaining_quantum = [t \in Threads |-> 0]
  /\ detached = {IDLE_THREAD_ID, INIT_THREAD_ID}
  /\ blocking_wait_queue = [t \in Threads |-> NULL]
  /\ wait_queue_block_ret = [t \in Threads |-> NO_ERR]
  /\ g_thread_free_list = FreeListAtInit
  /\ thread_list = <<IDLE_THREAD_ID, INIT_THREAD_ID>>
  /\ run_queue = [p \in Levels |-> IF p = INIT_PRIORITY THEN <<INIT_THREAD_ID>>
                                   ELSE << >>]
  /\ run_queue_bitmap = {INIT_PRIORITY}
  /\ current_thread = IDLE_THREAD_ID
  /\ thread_preempt_lock = 0 /\ thread_lock = 0
  /\ wait_list = [q \in WaitQueues |-> << >>]
  /\ wait_count = [q \in WaitQueues |-> 0]
  /\ timer_queue = << >>
  /\ due = [t \in Threads |-> 0]
  /\ callback = [t \in Threads |-> "none"]
  /\ pc = [t \in Threads |-> CASE t = IDLE_THREAD_ID -> "yield"
                               [] t = INIT_THREAD_ID -> "start"
                               [] OTHER -> "none"]
  /\ arg = [t \in Threads |-> IDLE_THREAD_ID]
  /\ wake = NoWake
  /\ irq = "none"
  /\ halted = FALSE

ThreadStep ==
  \/ thread_yield \/ initial_thread_func
  \/ thread_preempt_disable \/ thread_preempt_enable
  \/ \E p \in -1 .. NUM_PRIORITY : thread_set_priority(p)
  \/ \E p \in Priorities : thread_create_publish(p)
  \/ thread_create \/ get_free_thread_node
  \/ \E t \in Threads : \/ thread_resume(t) \/ thread_detach(t)
                        \/ thread_detach_and_resume(t)
  \/ \E t \in Threads, d \in JoinTimeouts : thread_join(t, d)
  \/ thread_join_return \/ thread_detach_return
  \/ thread_exit \/ thread_exit_resched
  \/ \E d \in Delays : thread_sleep(d)
  \/ \E q \in UserQueues, d \in Timeouts : wait_queue_block(q, d)
  \/ wait_queue_block_return
  \/ \E q \in UserQueues, b \in BOOLEAN :
        \/ wait_queue_wake_one(q, b, NO_ERR) \/ wait_queue_wake_all(q, b, NO_ERR)
        \/ wait_queue_destroy(q, b)
  \/ wake_all_next \/ wait_queue_wake_all_return

TimerInterrupt ==
  \/ thread_sleep_handler \/ wait_queue_timeout_handler \/ timer_tick_return

Next == ThreadStep \/ os_timer_tick \/ os_timer_tick_early \/ TimerInterrupt
        \/ exception_die

Spec == Init /\ [][Next]_vars

(* The CPU runs: the interrupt handler ends, and a thread that is current  *)
(* again and again inside a kernel function gets on with it (client code   *)
(* may loop for ever).  The PIC keeps a timer interrupt pending while      *)
(* interrupts are off, and every so many of them end a timer period.       *)
FairSpec ==
  /\ Spec
  /\ WF_vars(TimerInterrupt)
  /\ SF_vars(os_timer_tick)
  /\ \A t \in Threads :
        SF_vars(current_thread = t /\ pc[t] # "user" /\ ThreadStep)

-----------------------------------------------------------------------------
States == {"SUSPENDED", "READY", "RUNNING", "BLOCKED", "SLEEPING", "DEATH"}
Handlers == {"none", "thread_sleep_handler", "wait_queue_timeout_handler"}
Labels == IntsOn \cup {"start", "wait", "join", "wake_all", "none"}
Errors == {NO_ERR, ERR_THREAD_DETACHED, ERR_TIMED_OUT, ERR_OBJECT_DESTORYED}

RunQueues == [q : [Levels -> Seq(Threads)], bits : SUBSET Levels]
Wakes == [q : WaitQueues, error : Errors, reschedule : BOOLEAN, woken : BOOLEAN,
          next : {"none", "user", "detach", "exit"}]

SchedTypeOK ==
  /\ state \in [Threads -> States]
  /\ RunQueue \in RunQueues
  /\ remaining_quantum \in [Threads -> 0 .. QUANTUM]
  /\ current_thread \in Threads
NodeTypeOK ==
  /\ detached \subseteq Threads
  /\ g_thread_free_list \in Seq(Threads) /\ thread_list \in Seq(Threads)
WaitTypeOK ==
  /\ wait_list \in [WaitQueues -> Seq(Threads)]
  /\ wait_count \in [WaitQueues -> Int]
  /\ blocking_wait_queue \in [Threads -> WaitQueues \cup {NULL}]
  /\ wait_queue_block_ret \in [Threads -> Errors]
TimerTypeOK ==
  /\ timer_queue \in Seq(Threads)
  /\ due \in [Threads -> Nat]
  /\ callback \in [Threads -> Handlers]
CtlTypeOK ==
  /\ pc \in [Threads -> Labels]
  /\ thread_lock \in {0, 1}
RestTypeOK ==
  /\ priority \in [Threads -> Levels]
  /\ thread_preempt_lock \in Nat
  /\ arg \in [Threads -> Threads]
CpuTypeOK ==
  /\ wake \in Wakes
  /\ irq \in {"none", "INT_NO_RESCHEDULE", "INT_RESCHEDULE"}
  /\ halted \in BOOLEAN

(* Every variable holds a value of its C type, within the bounds its users *)
(* rely on: priorities and set bits are indices of run_queue, an id in a   *)
(* queue is that of a node that can be a thread.                           *)
TypeOK ==
  /\ SchedTypeOK /\ NodeTypeOK /\ WaitTypeOK /\ TimerTypeOK /\ CtlTypeOK /\ RestTypeOK
  /\ CpuTypeOK

-----------------------------------------------------------------------------
(* The bitmap of get_new_thread has a bit for each queue that is not empty *)
(* and no other, so the scan finds a thread whenever there is one and its  *)
(* assertion !list_is_empty(&run_queue[q]) holds.                          *)
BitmapExact ==
  run_queue_bitmap = {p \in Levels : ~list_is_empty(run_queue[p])}

(* A thread is in one place of one run queue, that of its priority, just   *)
(* when it waits for the CPU: no wakeup, yield or preemption loses it or   *)
(* queues it twice.  Waiting is READY, or RUNNING for one that             *)
(* thread_set_priority has queued.                                         *)
Waiting(t) == state[t] = "READY" \/ (state[t] = "RUNNING" /\ t # current_thread)

Queued ==
  \A p \in Levels :
     /\ IsInjective(run_queue[p])
     /\ Range(run_queue[p]) =
           {t \in Threads \ {IDLE_THREAD_ID} : Waiting(t) /\ priority[t] = p}

(* While interrupts are on, RUNNING is the state of the current thread and *)
(* of no other: the assertions of thread_yield, thread_exit, thread_sleep  *)
(* and wait_queue_block on their caller's state, and the one of            *)
(* insert_in_run_queue_head that what it queues is READY.                  *)
OneRunning ==
  arch_ints_enabled => {t \in Threads : state[t] = "RUNNING"} = {current_thread}

(* The run queues and the states of the threads agree at every moment at   *)
(* which an interrupt may come (thread.c:113-133, 178-207, 225-267).       *)
RunQueueCoherent == Queued /\ OneRunning

(* The idle thread spins only when nobody waits for the CPU: whatever      *)
(* makes a thread READY while it runs also makes it give way.              *)
WorkConserving ==
  arch_ints_enabled /\ current_thread = IDLE_THREAD_ID
                    /\ pc[IDLE_THREAD_ID] # "yield"
     => \A t \in Threads \ {IDLE_THREAD_ID} : ~Waiting(t)

(* The global counter of thread_preempt_disable counts the threads inside  *)
(* printf, wherever they have been switched out.                           *)
PreemptLockCounts ==
  thread_preempt_lock = Cardinality({t \in Threads : pc[t] = "printf"})

(* What is left of the scheduler's order when a thread changes its own     *)
(* priority, is switched out inside printf or misuses thread_detach: the   *)
(* queues hold who waits, under the priority each has now, though          *)
(* thread_set_priority queues its caller as it is (thread.c:280-301), and  *)
(* the bitmap tells which of them are empty.                               *)
SchedulerCoherent == Queued /\ BitmapExact /\ PreemptLockCounts

(* Whichever call, handler or interrupt gives the CPU away (all end in     *)
(* thread_resched, thread.c:246), it goes where Dispatcher promises: those *)
(* ahead of a thread are the ones before it in the queue of its priority.  *)
Ahead ==
  [t \in {u \in Threads \ {IDLE_THREAD_ID} : Waiting(u)} |->
      Before(run_queue[priority[t]], t)]

Order == INSTANCE Dispatcher
         WITH Idle <- IDLE_THREAD_ID, running <- current_thread,
              ahead <- Ahead, level <- priority

ServesInOrder == Order!Spec

(* A wait queue's count is the length of its list, and a thread is in the  *)
(* list just when it is BLOCKED there: neither a wakeup, nor a timeout,    *)
(* nor both leave a thread half removed.                                   *)
WaitQueueCoherent ==
  \A q \in WaitQueues :
     /\ wait_count[q] = Len(wait_list[q])
     /\ IsInjective(wait_list[q])
     /\ Range(wait_list[q]) = {t \in Threads : state[t] = "BLOCKED"
                                               /\ blocking_wait_queue[t] = q}

(* timer_queue is in order of time, and a timer is in it only while the    *)
(* stack frame it lives in does: that of the thread_sleep of a SLEEPING    *)
(* thread, or that of a wait_queue_block that has not returned.  Nobody    *)
(* sleeps, or waits with a timeout, without one.                           *)
Armed(t) == list_in_list(timer_queue, t)

TimersCoherent ==
  /\ IsInjective(timer_queue)
  /\ \A i, j \in DOMAIN timer_queue :
        i < j => due[timer_queue[i]] <= due[timer_queue[j]]
  /\ \A t \in Threads :
        /\ Armed(t) => \/ state[t] = "SLEEPING"
                       \/ pc[t] \in {"wait", "join"}
        /\ state[t] = "SLEEPING" =>
              Armed(t) /\ callback[t] = "thread_sleep_handler"
        /\ state[t] = "BLOCKED" /\ callback[t] = "wait_queue_timeout_handler"
              => Armed(t)

(* Whoever wakes a waiter first decides what its wait returns: a timeout   *)
(* that comes between the wakeup and the waiter's next run, when its timer *)
(* is still armed, does not overwrite the result.                          *)
ResultStable ==
  [][\A t \in Threads :
        pc[t] \in {"wait", "join"} /\ state[t] # "BLOCKED"
          => wait_queue_block_ret'[t] = wait_queue_block_ret[t]]_vars

(* Each node is in one place: on the free list, on thread_list, or in the  *)
(* hands of one thread_create.  None is lost, none is handed out twice,    *)
(* though the free list is looked at before the lock is taken.             *)
InHand(t) == {u \in Threads : pc[u] = "init_node" /\ arg[u] = t}

NodeOwnership ==
  /\ IsInjective(g_thread_free_list \o thread_list)
  /\ \A t \in Threads :
        Cardinality(InHand(t)) =
          IF list_in_list(g_thread_free_list, t) \/ list_in_list(thread_list, t)
          THEN 0 ELSE 1

(* A node on the free list or in the hands of thread_create is that of a   *)
(* thread that is over (or never was): it is not the current one and no    *)
(* list or timer refers to it.  thread_join asserts as much of the thread  *)
(* it reclaims.                                                            *)
ReclaimedAreQuiet ==
  \A t \in Threads : ~list_in_list(thread_list, t) =>
     /\ state[t] \in {"SUSPENDED", "DEATH"}
     /\ t # current_thread /\ pc[t] = "none" /\ ~Armed(t)

(* Nobody waits for a thread that is over: once thread_exit has switched   *)
(* away, the exit queue is empty and will stay so.                         *)
NoLostJoin ==
  \A t \in Threads : state[t] = "DEATH" /\ pc[t] = "none"
                        => list_is_empty(wait_list[t])

(* No kernel function turns a valid thread id into one that                *)
(* thread_id_to_ptr's assertion rejects.                                   *)
IdsStayValid == ~halted

(* insert_in_run_queue_head asserts that the thread it queues is READY. *)
QueuedAreReady ==
  \A p \in Levels : \A t \in Range(run_queue[p]) : state[t] = "READY"

(* While a thread runs, no thread of a higher priority waits for the CPU,  *)
(* thread.h numbering priorities from LOWEST_PRIORITY, 0, up to            *)
(* HIGHEST_PRIORITY.  It is stated for clients that only create, resume    *)
(* and yield, so that whoever makes a thread READY yields at once.         *)
HighestRuns ==
  arch_ints_enabled /\ pc[current_thread] # "yield" =>
     \A t \in Threads \ {IDLE_THREAD_ID} :
        Waiting(t) => priority[t] <= priority[current_thread]

-----------------------------------------------------------------------------
(* With one priority, a READY thread gets the CPU: the quantum takes it    *)
(* from a thread that never calls the kernel.  A tick inside printf does   *)
(* not preempt and is not remembered, so threads that print for ever are   *)
(* excepted.                                                               *)
PrintsForEver == []<>(thread_preempt_lock > 0)

EveryoneRuns ==
  \A t \in Threads \ {IDLE_THREAD_ID} :
     (state[t] = "READY" ~> state[t] = "RUNNING") \/ PrintsForEver

(* With the same exception, the joiner of a thread that exits comes back   *)
(* from thread_join.                                                       *)
JoinReturns ==
  \A t \in Threads :
     (pc[t] = "join" /\ state[arg[t]] = "DEATH" ~> pc[t] # "join") \/ PrintsForEver

(* A sleeping thread wakes up, and a wait with a timeout ends. *)
SleepEnds ==
  \A t \in Threads :
     state[t] = "SLEEPING" \/ (state[t] = "BLOCKED" /\ Armed(t))
       ~> state[t] \in {"READY", "RUNNING"}
=============================================================================
