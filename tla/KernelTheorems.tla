---------------------------- MODULE KernelTheorems ----------------------------
(***************************************************************************)
(* What follows from the inductive invariant: the properties of Kernel,    *)
(* for every size of the kernel's tables and every set of calls.           *)
(***************************************************************************)
EXTENDS CoherenceProofs

(* Clients that do not change their own priority, which queues them while  *)
(* they are RUNNING (the run SetPriority).                                 *)
KeepsPriority == "thread_set_priority" \notin Calls

(* In every reachable state the variables of the kernel fit together, as   *)
(* long as nobody detaches a thread that is being joined and joins have no *)
(* timeout.                                                                *)
THEOREM CoherentAlways ==
  ASSUME Disciplined
  PROVE  Spec => []Coherent
BY InitCoherent, NextCoherent, PTL DEF Spec

-----------------------------------------------------------------------------
(* The run queues hold who waits for the CPU, each thread once and under   *)
(* the priority it has now, the bitmap tells which of them are empty, and  *)
(* the preemption counter counts the threads in printf: also while one of  *)
(* them is switched out, and also when thread_set_priority queues its      *)
(* caller as it is (thread.c:280-301).                                     *)
THEOREM SchedulerStaysCoherent ==
  ASSUME Disciplined
  PROVE  Spec => []SchedulerCoherent
<1>1. Coherent => SchedulerCoherent
  BY DEF Coherent, CpuFits, SchedulerCoherent
<1> QED BY <1>1, CoherentAlways, PTL

(* Whoever gives up the CPU, in a call, at the end of its quantum or after *)
(* a wakeup by the timer, it goes to the thread that Dispatcher names: of  *)
(* the most urgent level the one that has waited there longest             *)
(* (thread_resched, thread.c:246, and the queues, thread.c:99-215).        *)
THEOREM ServedInOrder ==
  ASSUME Disciplined
  PROVE  Spec => ServesInOrder
<1>1. Init => Order!Init
  BY InitOrder
<1>2. Coherent /\ [Next]_vars => [Order!Next]_<<current_thread, Ahead, priority>>
  BY NextCpu DEF OrderStep
<1> QED BY <1>1, <1>2, CoherentAlways, PTL DEF Spec, ServesInOrder, Order!Spec, Order!vars

(* A thread that waits for the CPU is not overtaken: nobody who comes to   *)
(* its level later, by a yield, a wakeup, a preemption or a change of      *)
(* priority, gets ahead of it (the queues of thread.c:113-133, which only  *)
(* grow at their end).                                                     *)
THEOREM NobodyOvertakes ==
  ASSUME Disciplined
  PROVE  Spec => [][\A t \in InLine \cap InLine' : Ahead'[t] \subseteq Ahead[t]]_vars
<1> DEFINE Kept == \A t \in InLine \cap InLine' : Ahead'[t] \subseteq Ahead[t]
           Extends(a) == InLine \subseteq DOMAIN a /\ \A t \in InLine : a[t] = Ahead[t]
<1>1. DOMAIN Ahead = InLine /\ DOMAIN Ahead' = InLine'
  <2>1. DOMAIN Ahead' = InLine'
    BY DEF Ahead, InLine
  <2> QED BY <2>1, AheadIs
<1>2. Extends(Ahead)
  BY <1>1
<1>3. ASSUME NEW a, Extends(a), NEW t, t \notin InLine, NEW l
      PROVE  Extends(Order!Join(a, t, l))
  BY <1>3 DEF Order!Join
<1>4. ASSUME NEW a, Extends(a), NEW l, Order!Dispatch(a, l) PROVE Kept
  BY <1>1, <1>4 DEF Order!Dispatch, Order!Drop
<1>5. ASSUME Extends(Ahead') PROVE Kept
  BY <1>5
<1> HIDE DEF Kept, Extends
<1>6. ASSUME OrderStep PROVE Kept
  <2>1. CASE UNCHANGED Ahead
    BY <1>2, <1>5, <2>1
  <2>2. ASSUME NEW t \in Threads, Order!Wait(t) PROVE Kept
    <3>1. t \notin InLine /\ Ahead' = Order!Join(Ahead, t, priority)
      BY <1>1, <2>2 DEF Order!Wait
    <3>2. Extends(Order!Join(Ahead, t, priority))
      BY <1>2, <1>3, <3>1
    <3> QED BY <1>5, <3>1, <3>2
  <2>3. CASE Order!Yield
    <3> DEFINE a == Order!Join(Ahead, current_thread, priority)
    <3>1. current_thread \notin InLine
      BY <1>1, <2>3 DEF Order!Yield
    <3>2. Extends(a)
      BY <1>2, <1>3, <3>1
    <3>3. Order!Dispatch(Ahead, priority) \/ Order!Dispatch(a, priority)
      BY <2>3 DEF Order!Yield
    <3> HIDE DEF a
    <3> QED BY <1>2, <1>4, <3>2, <3>3
  <2>4. ASSUME NEW t \in Threads, Order!WakeAndYield(t) PROVE Kept
    <3> DEFINE a == Order!Join(Ahead, current_thread, priority)
               b == Order!Join(a, t, priority)
    <3>1. /\ current_thread \notin InLine /\ t \notin InLine
          /\ Order!Dispatch(b, priority)
      BY <1>1, <2>4 DEF Order!WakeAndYield
    <3>2. Extends(a)
      BY <1>2, <1>3, <3>1
    <3> HIDE DEF a
    <3>3. Extends(b)
      BY <1>3, <3>1, <3>2
    <3> HIDE DEF b
    <3> QED BY <1>4, <3>1, <3>3
  <2>5. CASE Order!Leave
    BY <1>2, <1>4, <2>5 DEF Order!Leave
  <2>6. ASSUME NEW p \in Levels, Order!SetLevel(p) PROVE Kept
    <3> DEFINE l == [priority EXCEPT ![current_thread] = p]
               a == Order!Join(Ahead, current_thread, l)
    <3>1. current_thread \notin InLine /\ Order!Dispatch(a, l)
      BY <1>1, <2>6 DEF Order!SetLevel
    <3> HIDE DEF l
    <3>2. Extends(a)
      BY <1>2, <1>3, <3>1
    <3> HIDE DEF a
    <3> QED BY <1>4, <3>1, <3>2
  <2>7. ASSUME NEW t \in Threads, NEW p \in Levels, Order!Begin(t, p) PROVE Kept
    BY <2>1, <2>7 DEF Order!Begin
  <2> QED BY <1>6, <2>1, <2>2, <2>3, <2>4, <2>5, <2>6, <2>7 DEF OrderStep, Order!Next
<1>7. Coherent /\ [Next]_vars => [Kept]_vars
  BY <1>6, NextCpu
<1> QED BY <1>7, CoherentAlways, PTL DEF Spec, Kept

(* A wait queue's count is the length of its list, and the list holds each *)
(* thread that is BLOCKED there once: at every step of a wakeup or timeout *)
(* (wait_queue.c), also inside the loop of wait_queue_wake_all.            *)
THEOREM WaitQueuesStayCoherent ==
  ASSUME Disciplined
  PROVE  Spec => []WaitQueueCoherent
<1>1. Coherent => WaitQueueCoherent
  BY DEF Coherent
<1> QED BY <1>1, CoherentAlways, PTL

(* timer_queue is in order of time, and no timer outlives the stack frame  *)
(* of the thread_sleep or wait_queue_block it belongs to (timer.c).        *)
THEOREM TimersStayCoherent ==
  ASSUME Disciplined
  PROVE  Spec => []TimersCoherent
<1>1. Coherent => TimersCoherent
  <2> SUFFICES ASSUME Coherent PROVE TimersCoherent
    OBVIOUS
  <2>1. TimersListed /\ TimersFit /\ callback \in [Threads -> Handlers]
    BY Facts DEF IInv, TypeOK, TimerTypeOK
  <2>2. \A t \in Threads : Armed(t) => state[t] = "SLEEPING" \/ pc[t] = "wait"
    BY <2>1 DEF TimersFit, Handlers
  <2> QED BY <2>1, <2>2 DEF TimersCoherent, TimersListed, Sorted, TimersFit
<1> QED BY <1>1, CoherentAlways, PTL

(* When the idle thread runs with interrupts on, past its thread_yield,    *)
(* nobody else is READY: a wakeup by the timer makes it give way, a wakeup *)
(* by a thread happens while that thread runs (timer.c, thread.c:303-320). *)
THEOREM WorkIsConserved ==
  ASSUME Disciplined
  PROVE  Spec => []WorkConserving
<1>1. Coherent => WorkConserving
  BY DEF Coherent, CpuFits, IdleSpins, WorkConserving, arch_ints_enabled
<1> QED BY <1>1, CoherentAlways, PTL

(* While interrupts are on the current thread and no other is RUNNING, and *)
(* the run queues hold who is READY: what the assertions of thread_yield,  *)
(* thread_exit, thread_sleep and wait_queue_block ask of their caller.     *)
THEOREM RunQueuesStayCoherent ==
  ASSUME Disciplined, KeepsPriority
  PROVE  Spec => []RunQueueCoherent
<1>1. Coherent => RunQueueCoherent
  <2> SUFFICES ASSUME Coherent PROVE RunQueueCoherent
    OBVIOUS
  <2>1. arch_ints_enabled => state[current_thread] = "RUNNING"
    BY Facts DEF arch_ints_enabled, CurrentRuns, IntsOn
  <2>2. \A t \in Threads : state[t] = "RUNNING" => t = current_thread
    BY Facts DEF OnlyCurrentRuns, KeepsPriority
  <2> QED BY <2>1, <2>2, Facts DEF RunQueueCoherent, OneRunning
<1> QED BY <1>1, CoherentAlways, PTL

(* Every queued thread is READY, the assertion of insert_in_run_queue_head *)
(* (thread.c:113-133), when nobody calls thread_set_priority.              *)
THEOREM QueuedStayReady ==
  ASSUME Disciplined, KeepsPriority
  PROVE  Spec => []QueuedAreReady
<1>1. Coherent => QueuedAreReady
  <2> SUFFICES ASSUME Coherent PROVE QueuedAreReady
    OBVIOUS
  <2>1. \A t \in Threads : state[t] = "RUNNING" => t = current_thread
    BY Facts DEF OnlyCurrentRuns, KeepsPriority
  <2> QED BY <2>1, Facts DEF QueuedAreReady, Queued, Waiting
<1> QED BY <1>1, CoherentAlways, PTL

-----------------------------------------------------------------------------
(* Whoever holds a node that is not on thread_list may fill or reuse it:   *)
(* no run queue, wait queue or timer refers to it, and it does not run.    *)
(* This is what free_thread_node and the assertions of thread_join rely on *)
(* (thread.c).                                                             *)
THEOREM ReclaimedStayQuiet ==
  ASSUME Disciplined
  PROVE  Spec => []ReclaimedAreQuiet
<1>1. Coherent => ReclaimedAreQuiet
  <2> SUFFICES ASSUME Coherent, NEW t \in Threads, ~Listed(t)
               PROVE  /\ state[t] \in {"SUSPENDED", "DEATH"}
                      /\ t # current_thread /\ pc[t] = "none" /\ ~Armed(t)
    BY DEF ReclaimedAreQuiet, Listed
  <2>1. pc[t] = "none"
    BY Facts DEF NodesFit
  <2>2. state[t] \in {"SUSPENDED", "DEATH"}
    BY <2>1, Facts DEF PlacesFit
  <2>3. t # current_thread
    BY <2>1, <2>2, Facts DEF CurrentRuns
  <2>4. ~Armed(t)
    BY <2>1, <2>2, NoTimer
  <2> QED BY <2>1, <2>2, <2>3, <2>4
<1> QED BY <1>1, CoherentAlways, PTL

(* When a thread is over its exit queue is empty: thread_exit woke its     *)
(* joiner first, and thread_join sees DEATH and does not wait any more.    *)
THEOREM NoJoinIsLost ==
  ASSUME Disciplined
  PROVE  Spec => []NoLostJoin
<1>1. Coherent => NoLostJoin
  <2> SUFFICES ASSUME Coherent, NEW t \in Threads, pc[t] = "none"
               PROVE  list_is_empty(wait_list[t])
    BY DEF NoLostJoin
  <2>1. t \in WaitQueues /\ wait_list[t] \in Seq(Threads)
    BY Facts DEF IInv, TypeOK, WaitTypeOK, WaitQueues
  <2>2. ASSUME NEW u \in Threads, state[u] = "BLOCKED", blocking_wait_queue[u] = t
        PROVE  FALSE
    BY <2>2, WaiterAt, Facts DEF WaitersFit
  <2>3. Range(wait_list[t]) = {}
    BY <2>1, <2>2, Facts DEF WaitQueueCoherent
  <2>4. wait_list[t] # << >> => Head(wait_list[t]) \in Range(wait_list[t])
    BY <2>1, RemoveHead DEF list_is_empty, list_in_list
  <2> QED BY <2>3, <2>4 DEF list_is_empty
<1> QED BY <1>1, CoherentAlways, PTL

(* Two lists without a common element, each without repetitions, have no   *)
(* repetition together.                                                    *)
LEMMA ConcatInjective ==
  ASSUME NEW S, NEW s \in Seq(S), NEW r \in Seq(S), IsInjective(s), IsInjective(r),
         \A x \in S : ~(list_in_list(s, x) /\ list_in_list(r, x))
  PROVE  IsInjective(s \o r)
<1> DEFINE a == s \o r
<1>1. /\ a \in Seq(S) /\ DOMAIN a = 1 .. Len(s) + Len(r)
      /\ Len(s) \in Nat /\ Len(r) \in Nat
      /\ DOMAIN s = 1 .. Len(s) /\ DOMAIN r = 1 .. Len(r)
      /\ \A i \in 1 .. Len(s) + Len(r) : a[i] = IF i <= Len(s) THEN s[i] ELSE r[i - Len(s)]
  BY ConcatProperties, LenProperties
<1> HIDE DEF a
<1>2. ASSUME NEW i \in 1 .. Len(s), NEW j \in 1 .. Len(r)
      PROVE  s[i] # r[j]
  <2>1. s[i] \in S /\ list_in_list(s, s[i]) /\ list_in_list(r, r[j])
    BY <1>1, ElementOfSeq DEF list_in_list, Range
  <2> QED BY <2>1
<1>3. ASSUME NEW i \in DOMAIN a, NEW j \in DOMAIN a, a[i] = a[j]
      PROVE  i = j
  <2>1. CASE i <= Len(s) /\ j <= Len(s)
    <3>1. i \in DOMAIN s /\ j \in DOMAIN s /\ s[i] = s[j]
      BY <1>1, <1>3, <2>1
    <3> QED BY <3>1 DEF IsInjective
  <2>2. CASE i > Len(s) /\ j > Len(s)
    <3>1. i - Len(s) \in DOMAIN r /\ j - Len(s) \in DOMAIN r /\ r[i - Len(s)] = r[j - Len(s)]
      BY <1>1, <1>3, <2>2
    <3>2. i - Len(s) = j - Len(s)
      BY <3>1 DEF IsInjective
    <3> QED BY <1>1, <3>2
  <2>3. CASE i <= Len(s) /\ j > Len(s)
    <3>1. i \in 1 .. Len(s) /\ j - Len(s) \in 1 .. Len(r) /\ s[i] = r[j - Len(s)]
      BY <1>1, <1>3, <2>3
    <3> QED BY <1>2, <3>1
  <2>4. CASE i > Len(s) /\ j <= Len(s)
    <3>1. j \in 1 .. Len(s) /\ i - Len(s) \in 1 .. Len(r) /\ s[j] = r[i - Len(s)]
      BY <1>1, <1>3, <2>4
    <3> QED BY <1>2, <3>1
  <2> QED BY <1>1, <2>1, <2>2, <2>3, <2>4
<1> QED BY <1>3 DEF IsInjective, a

(* A node is on the free list, on thread_list or with one thread_create:   *)
(* get_free_thread_node looks at the free list before it takes the lock,   *)
(* and still hands out each node once (thread.c:60-84).                    *)
THEOREM NodesStayOwned ==
  ASSUME Disciplined
  PROVE  Spec => []NodeOwnership
<1>1. Coherent => NodeOwnership
  <2> SUFFICES ASSUME Coherent PROVE NodeOwnership
    OBVIOUS
  <2>1. g_thread_free_list \in Seq(Threads) /\ thread_list \in Seq(Threads) /\ NodesFit
    BY Facts DEF IInv, TypeOK, NodeTypeOK
  <2>2. IsInjective(g_thread_free_list \o thread_list)
    BY <2>1, ConcatInjective DEF NodesFit, Free, Listed
  <2>3. ASSUME NEW t \in Threads, Free(t) \/ Listed(t)
        PROVE  Cardinality(InHand(t)) = 0
    <3>1. InHand(t) = {}
      BY <2>1, <2>3 DEF InHand, NodesFit
    <3> QED BY <3>1, FS_EmptySet
  <2>4. ASSUME NEW t \in Threads, ~(Free(t) \/ Listed(t))
        PROVE  Cardinality(InHand(t)) = 1
    <3>1. PICK u \in Threads : pc[u] = "init_node" /\ arg[u] = t
      BY <2>1, <2>4 DEF NodesFit
    <3>2. InHand(t) = {u}
      BY <2>1, <3>1 DEF InHand, NodesFit
    <3> QED BY <3>2, FS_Singleton
  <2> QED BY <2>2, <2>3, <2>4 DEF NodeOwnership, Free, Listed
<1> QED BY <1>1, CoherentAlways, PTL

-----------------------------------------------------------------------------
(* Nobody but who blocks, wakes or times out thread t, or reuses a node,   *)
(* writes its wait_queue_block_ret.                                        *)
LEMMA ResultKept ==
  ASSUME Coherent, Disciplined, [Next]_vars, NEW t \in Threads,
         pc[t] \in {"wait", "join"}, state[t] # "BLOCKED"
  PROVE  wait_queue_block_ret'[t] = wait_queue_block_ret[t]
<1> DEFINE c == current_thread
           ret == wait_queue_block_ret
<1> USE Facts
<1>1. ret \in [Threads -> Errors]
  BY DEF IInv, TypeOK, WaitTypeOK
<1>2. CASE UNCHANGED ret
  BY <1>2
<1>3. ASSUME NEW u \in Threads, NEW e, u # t, ret' = [ret EXCEPT ![u] = e]
      PROVE  ret'[t] = ret[t]
  BY <1>1, <1>3
<1>4. ASSUME NEW q, NEW d, NEW k, Block(q, d, k), pc[c] = "user"
      PROVE  ret'[t] = ret[t]
  BY <1>3, <1>4 DEF Block
<1>5. ASSUME NEW q, NEW u \in Threads, NEW e, Release(q, u, e), state[u] = "BLOCKED"
      PROVE  ret'[t] = ret[t]
  BY <1>3, <1>5 DEF Release
<1>6. ASSUME NEW q \in UserQueues, NEW d \in Timeouts, wait_queue_block(q, d)
      PROVE  ret'[t] = ret[t]
  BY <1>2, <1>4, <1>6 DEF wait_queue_block, waitVars, Client
<1>7. ASSUME NEW u \in Threads, NEW d \in JoinTimeouts, thread_join(u, d)
      PROVE  ret'[t] = ret[t]
  BY <1>2, <1>4, <1>7 DEF thread_join, waitVars, Client
<1>8. ASSUME NEW p \in Priorities, thread_create_publish(p)
      PROVE  ret'[t] = ret[t]
  <2>1. pc[c] = "init_node" /\ ret' = [ret EXCEPT ![arg[c]] = NO_ERR] /\ arg[c] \in Threads
    BY <1>8 DEF thread_create_publish, InitNode
  <2>2. pc[arg[c]] = "none"
    BY <2>1 DEF NodesFit
  <2> QED BY <1>3, <2>1, <2>2
<1>9. ASSUME NEW q \in UserQueues, NEW b \in BOOLEAN, wait_queue_wake_one(q, b, NO_ERR)
      PROVE  ret'[t] = ret[t]
  <2>1. ~list_is_empty(wait_list[q]) /\ Release(q, Head(wait_list[q]), NO_ERR)
    BY ONLY <1>9 DEF wait_queue_wake_one
  <2>2. Head(wait_list[q]) \in Threads /\ state[Head(wait_list[q])] = "BLOCKED"
    BY <2>1, FirstIsBlocked, ConstantFacts
  <2> QED BY <1>5, <2>1, <2>2
<1>10. CASE wake_all_next
  <2>1. wake.q \in WaitQueues
    BY DEF IInv, TypeOK, CpuTypeOK, Wakes
  <2> QED BY <1>5, <1>10, <2>1, FirstIsBlocked DEF wake_all_next
<1>11. CASE wait_queue_timeout_handler
  <2>1. Head(timer_queue) \in Threads
    BY <1>11, RemoveHead DEF wait_queue_timeout_handler, Due, IInv, TypeOK, TimerTypeOK
  <2>2. CASE StillBlocked(Head(timer_queue))
    BY <1>5, <1>11, <2>1, <2>2 DEF wait_queue_timeout_handler, StillBlocked,
       thread_unblock_from_wait_queue
  <2> QED BY <1>2, <1>11, <2>2 DEF wait_queue_timeout_handler, waitVars
<1>12. CASE \/ thread_yield \/ initial_thread_func
            \/ thread_preempt_disable \/ thread_preempt_enable
            \/ \E p \in -1 .. NUM_PRIORITY : thread_set_priority(p)
            \/ thread_create \/ get_free_thread_node
            \/ \E u \in Threads : \/ thread_resume(u) \/ thread_detach_and_resume(u)
            \/ thread_join_return \/ thread_detach_return
            \/ thread_exit_resched
            \/ \E d \in Delays : thread_sleep(d)
            \/ wait_queue_block_return \/ wait_queue_wake_all_return
  BY ONLY <1>2, <1>12 DEF waitVars, thread_yield, initial_thread_func, thread_preempt_disable,
     thread_preempt_enable, thread_set_priority, thread_create, get_free_thread_node,
     thread_resume, thread_detach_and_resume, thread_join_return, thread_detach_return,
     thread_exit_resched, thread_sleep, wait_queue_block_return, wait_queue_wake_all_return
<1>13. CASE \/ thread_exit
            \/ \E u \in Threads : thread_detach(u)
            \/ \E q \in UserQueues, b \in BOOLEAN :
                  wait_queue_wake_all(q, b, NO_ERR) \/ wait_queue_destroy(q, b)
  BY ONLY <1>2, <1>13 DEF waitVars, thread_exit, thread_detach, wait_queue_wake_all,
     wait_queue_destroy, WakeAll, WakeJoiners
<1>14. CASE \/ os_timer_tick \/ os_timer_tick_early
            \/ thread_sleep_handler \/ timer_tick_return
            \/ exception_die \/ UNCHANGED vars
  BY ONLY <1>2, <1>14 DEF waitVars, vars, os_timer_tick, os_timer_tick_early,
     thread_sleep_handler, timer_tick_return, exception_die
<1>15. CASE ThreadStep
  BY ONLY <1>6, <1>7, <1>8, <1>9, <1>10, <1>12, <1>13, <1>15 DEF ThreadStep
<1>16. CASE TimerInterrupt
  BY ONLY <1>11, <1>14, <1>16 DEF TimerInterrupt
<1> QED BY ONLY <1>14, <1>15, <1>16, [Next]_vars DEF Next

(* What a wait returns is decided by who ends it first: no later timeout   *)
(* or wakeup overwrites wait_queue_block_ret between the moment a waiter   *)
(* is woken and its return (wait_queue.c, its timer being armed still).    *)
THEOREM ResultStaysStable ==
  ASSUME Disciplined
  PROVE  Spec => ResultStable
<1>1. Coherent /\ [Next]_vars =>
        [\A t \in Threads :
           pc[t] \in {"wait", "join"} /\ state[t] # "BLOCKED"
             => wait_queue_block_ret'[t] = wait_queue_block_ret[t]]_vars
  BY ResultKept
<1> QED BY <1>1, CoherentAlways, PTL DEF Spec, ResultStable

-----------------------------------------------------------------------------
(* Clients that avoid the two calls whose code takes a node's address for  *)
(* an id: thread_detach of a dead thread, and thread_detach_and_resume.    *)
PassesIds == {"detach_dead", "thread_detach_and_resume"} \cap Calls = {}

(* A thread that is being detached does not end before thread_detach has   *)
(* looked at its state for the second time.                                *)
DetachSafe ==
  /\ ~halted
  /\ pc[current_thread] = "wake_all" /\ wake.next = "detach"
       => state[arg[current_thread]] # "DEATH"

LEMMA NextSafe ==
  ASSUME Coherent, Disciplined, PassesIds, DetachSafe, [Next]_vars
  PROVE  DetachSafe'
<1> DEFINE c == current_thread
<1> USE Facts
<1>0. /\ Coherent' /\ c' \in Threads /\ pc' \in [Threads -> Labels]
      /\ state' \in [Threads -> States]
  <2>1. Coherent'
    BY NextCoherent
  <2> QED BY <2>1 DEF Coherent, TypeOK, SchedTypeOK, CtlTypeOK
<1>1. ASSUME NEW u \in Threads, thread_detach(u) PROVE DetachSafe'
  <2>1. /\ state[u] # "DEATH" /\ state[c] = "RUNNING" /\ ~halted'
        /\ arg' = [arg EXCEPT ![c] = u] /\ c' = c
        /\ state' = [state EXCEPT ![c] = state[c]]
    BY <1>1, ClientRuns DEF thread_detach, WakeAll, PassesIds, Client
  <2> QED BY <2>1 DEF DetachSafe
<1>2. CASE thread_detach_return
  <2>1. pc[c] = "wake_all" /\ wake.next = "detach" /\ state[arg[c]] # "DEATH"
    BY <1>2 DEF thread_detach_return, WakeAllDone, InWakeAll, DetachSafe
  <2>2. ~halted' /\ pc'[c'] = "user"
    BY <1>2, <2>1 DEF thread_detach_return, WakeAllDone, InWakeAll, schedVars
  <2> QED BY <2>2 DEF DetachSafe
<1>3. CASE wake_all_next
  <2>1. /\ wake.q \in WaitQueues /\ ~list_is_empty(wait_list[wake.q])
        /\ state' = [state EXCEPT ![Head(wait_list[wake.q])] = "READY"]
        /\ c' = c /\ UNCHANGED <<pc, arg, halted>>
    BY <1>3 DEF wake_all_next, IInv, TypeOK, CpuTypeOK, Wakes, ctlVars
  <2>2. wake' = [wake EXCEPT !.woken = TRUE] /\ wake \in Wakes
    BY <1>3 DEF wake_all_next, IInv, TypeOK, CpuTypeOK
  <2>3. wake'.next = wake.next
    BY <2>2 DEF Wakes
  <2> QED BY <2>1, <2>3 DEF DetachSafe
<1>4. ASSUME NEW u \in Threads, thread_detach_and_resume(u) PROVE DetachSafe'
  BY <1>4 DEF thread_detach_and_resume, Client, PassesIds
<1>5. ASSUME ~halted', wake'.next # "detach" PROVE DetachSafe'
  BY <1>5 DEF DetachSafe
<1>6. ASSUME UNCHANGED halted, NEW u \in Threads, NEW v \in Threads, NEW l, NEW m,
             pc[c] # "wake_all" \/ u = c, l # "wake_all", m # "wake_all",
             \/ pc' = [pc EXCEPT ![u] = l]
             \/ pc' = [pc EXCEPT ![v] = m, ![u] = l]
      PROVE  DetachSafe'
  <2>1. \A w \in Threads : pc[w] = "wake_all" => w = c
    BY DEF PlacesFit
  <2>2. \A w \in Threads : pc'[w] # "wake_all"
    BY <1>6, <2>1
  <2> QED BY <1>0, <1>6, <2>2 DEF DetachSafe
<1>7. ASSUME UNCHANGED <<halted, pc>>, pc[c] # "wake_all"
      PROVE  DetachSafe'
  <2>1. \A w \in Threads : pc[w] # "wake_all"
    BY <1>7 DEF PlacesFit
  <2> QED BY <1>0, <1>7, <2>1 DEF DetachSafe
<1> HIDE DEF c
<1>8. CASE thread_yield \/ initial_thread_func \/ thread_preempt_disable \/ thread_preempt_enable
  <2>1. PICK l \in {"print", "user", "printf"} :
          UNCHANGED halted /\ pc' = [pc EXCEPT ![c] = l] /\ pc[c] # "wake_all"
    BY ONLY <1>8 DEF thread_yield, initial_thread_func, thread_preempt_disable,
       thread_preempt_enable, thread_resched, arch_ints_enabled, IntsOn, Client, c
  <2> QED BY <1>6, <2>1 DEF c
<1>9. CASE thread_create \/ get_free_thread_node \/ \E u \in Threads : thread_resume(u)
  <2>1. UNCHANGED halted /\ pc[c] # "wake_all" /\ \/ UNCHANGED pc
                                                  \/ \E l \in {"print", "get_free", "init_node", "yield"} : pc' = [pc EXCEPT ![c] = l]
    BY ONLY <1>9 DEF thread_create, get_free_thread_node, thread_resume, arch_ints_enabled,
       IntsOn, Client, c
  <2> QED BY <1>6, <1>7, <2>1 DEF c
<1>10. ASSUME NEW p \in Priorities, thread_create_publish(p) PROVE DetachSafe'
  <2>1. /\ UNCHANGED halted /\ pc' = [pc EXCEPT ![arg[c]] = "start", ![c] = "print"]
        /\ pc[c] # "wake_all"
    BY ONLY <1>10 DEF thread_create_publish, c
  <2> QED BY <1>6, <2>1 DEF c
<1>11. CASE \/ \E p \in -1 .. NUM_PRIORITY : thread_set_priority(p)
            \/ \E d \in Delays : thread_sleep(d)
            \/ \E q \in UserQueues, b \in BOOLEAN : wait_queue_wake_one(q, b, NO_ERR)
  <2>1. CASE \E p \in -1 .. NUM_PRIORITY : thread_set_priority(p)
    <3>1. UNCHANGED <<halted, pc>> /\ pc[c] = "user"
      BY ONLY <2>1 DEF thread_set_priority, thread_resched, ctlVars, Client, c
    <3> QED BY <1>7, <3>1
  <2>2. CASE \E d \in Delays : thread_sleep(d)
    <3>1. UNCHANGED <<halted, pc>> /\ pc[c] = "user"
      BY ONLY <2>2 DEF thread_sleep, thread_resched, ctlVars, Client, c
    <3> QED BY <1>7, <3>1
  <2>3. CASE \E q \in UserQueues, b \in BOOLEAN : wait_queue_wake_one(q, b, NO_ERR)
    <3>1. UNCHANGED <<halted, pc>> /\ pc[c] = "user"
      BY ONLY <2>3 DEF wait_queue_wake_one, thread_resched, ctlVars, Client, c
    <3> QED BY <1>7, <3>1
  <2> QED BY <1>11, <2>1, <2>2, <2>3
<1>12. CASE \/ \E q \in UserQueues, d \in Timeouts : wait_queue_block(q, d)
            \/ \E u \in Threads, d \in JoinTimeouts : thread_join(u, d)
  <2>1. UNCHANGED halted /\ pc[c] = "user"
        /\ (UNCHANGED pc \/ \E l \in {"wait", "join"} : pc' = [pc EXCEPT ![c] = l])
    BY ONLY <1>12 DEF wait_queue_block, thread_join, Block, thread_resched, ctlVars, Client, c
  <2> QED BY <1>6, <1>7, <2>1 DEF c
<1>13. CASE \/ thread_join_return \/ wait_queue_block_return
            \/ wait_queue_wake_all_return \/ thread_exit_resched
  <2>1. UNCHANGED halted /\ \E l \in {"user", "none"} : pc' = [pc EXCEPT ![c] = l]
    BY ONLY <1>13 DEF thread_join_return, wait_queue_block_return,
       wait_queue_wake_all_return, thread_exit_resched, thread_resched, c
  <2> QED BY <1>6, <2>1 DEF c
<1>14. CASE thread_exit
  <2>1. CASE c \in detached
    <3>1. UNCHANGED halted /\ pc[c] = "user" /\ pc' = [pc EXCEPT ![c] = "none"]
      BY ONLY <1>14, <2>1 DEF thread_exit, thread_resched, Client, c
    <3> QED BY <1>6, <3>1 DEF c
  <2>2. CASE c \notin detached
    <3>1. ~halted' /\ wake'.next = "exit"
      BY ONLY <1>14, <2>2 DEF thread_exit, WakeJoiners, WakeAll, Client, c
    <3> QED BY <1>5, <3>1
  <2> QED BY <2>1, <2>2
<1>15. CASE \E q \in UserQueues, b \in BOOLEAN :
              wait_queue_wake_all(q, b, NO_ERR) \/ wait_queue_destroy(q, b)
  <2>1. ~halted' /\ wake'.next = "user"
    BY ONLY <1>15 DEF wait_queue_wake_all, wait_queue_destroy, WakeAll, Client
  <2> QED BY <1>5, <2>1
<1>16. CASE os_timer_tick \/ os_timer_tick_early \/ TimerInterrupt
  <2>1. UNCHANGED <<halted, pc>>
    BY ONLY <1>16 DEF os_timer_tick, os_timer_tick_early, TimerInterrupt, thread_sleep_handler,
       wait_queue_timeout_handler, timer_tick_return, thread_preempt, thread_resched, ctlVars, Due
  <2>2. irq # "none" \/ pc[c] \in IntsOn
    BY ONLY <1>16 DEF os_timer_tick, os_timer_tick_early, TimerInterrupt, thread_sleep_handler,
       wait_queue_timeout_handler, timer_tick_return, Due, arch_ints_enabled, c
  <2>3. pc[c] # "wake_all"
    BY <2>2 DEF CurrentRuns, IntsOn, c
  <2> QED BY <1>7, <2>1, <2>3
<1>17. CASE exception_die \/ UNCHANGED vars
  BY ONLY <1>17, DetachSafe DEF exception_die, vars, ctlVars, schedVars, DetachSafe
<1>18. CASE ThreadStep
  BY ONLY <1>1, <1>2, <1>3, <1>4, <1>8, <1>9, <1>10, <1>11, <1>12, <1>13, <1>14, <1>15, <1>18
     DEF ThreadStep
<1> QED BY ONLY <1>16, <1>17, <1>18, [Next]_vars DEF Next

(* thread_id_to_ptr never rejects an id the kernel passes to itself, and   *)
(* no node's address is used as one: what the run DetachDead shows happens *)
(* through the two calls that PassesIds excludes, and through no other.    *)
THEOREM IdsAlwaysValid ==
  ASSUME Disciplined, PassesIds
  PROVE  Spec => []IdsStayValid
<1>1. Init => DetachSafe
  BY ConstantFacts DEF Init, DetachSafe, NoWake
<1>2. Coherent /\ DetachSafe /\ [Next]_vars => DetachSafe'
  BY NextSafe
<1>3. DetachSafe => IdsStayValid
  BY DEF DetachSafe, IdsStayValid
<1> QED BY <1>1, <1>2, <1>3, CoherentAlways, PTL DEF Spec
=============================================================================
