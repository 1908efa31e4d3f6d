----------------------------- MODULE KernelProofs -----------------------------
(***************************************************************************)
(* Theorems about Kernel, for every size of the kernel's tables and every  *)
(* set of calls its clients make.                                          *)
(***************************************************************************)
EXTENDS Kernel, ListLemmas

Exact(r) == r.bits = {p \in Levels : ~list_is_empty(r.q[p])}

(* The constants as the proofs use them: table sizes, ids and labels. *)
LEMMA ConstantFacts ==
  /\ Levels \subseteq Nat /\ Threads \subseteq Nat
  /\ IDLE_THREAD_ID \in Threads /\ INIT_THREAD_ID \in Threads
  /\ IDLE_PRIORITY \in Levels /\ IDLE_PRIORITY + 1 \in Levels
  /\ HIGHEST_PRIORITY \in Levels
  /\ Threads \subseteq WaitQueues /\ UserQueues \subseteq WaitQueues
BY SizeAssumption DEF Levels, Threads, IDLE_THREAD_ID, INIT_THREAD_ID, IDLE_PRIORITY,
   HIGHEST_PRIORITY, WaitQueues, MAX_THREAD_ID

(* Queueing a thread keeps the bitmap in step with the queues. *)
LEMMA InsertHead ==
  ASSUME NEW r \in RunQueues, NEW t \in Threads, NEW p \in Levels
  PROVE  /\ insert_in_run_queue_head(r, t, p) \in RunQueues
         /\ Exact(r) => Exact(insert_in_run_queue_head(r, t, p))
<1>1. r.q[p] \in Seq(Threads)
  BY DEF RunQueues
<1>2. /\ list_add_head(r.q[p], t) \in Seq(Threads)
      /\ ~list_is_empty(list_add_head(r.q[p], t))
  BY <1>1, AddHeadType
<1> QED BY <1>2 DEF RunQueues, Exact, insert_in_run_queue_head

(* The same at the other end. *)
LEMMA InsertTail ==
  ASSUME NEW r \in RunQueues, NEW t \in Threads, NEW p \in Levels
  PROVE  /\ insert_in_run_queue_tail(r, t, p) \in RunQueues
         /\ Exact(r) => Exact(insert_in_run_queue_tail(r, t, p))
<1>1. r.q[p] \in Seq(Threads)
  BY DEF RunQueues
<1>2. /\ list_add_tail(r.q[p], t) \in Seq(Threads)
      /\ ~list_is_empty(list_add_tail(r.q[p], t))
  BY <1>1, AddTailType
<1> QED BY <1>2 DEF RunQueues, Exact, insert_in_run_queue_tail

(* get_new_thread returns a thread and keeps the bitmap in step. *)
LEMMA Pick ==
  ASSUME NEW r \in RunQueues
  PROVE  /\ get_new_thread(r) \in Threads
         /\ QueuesAfterPick(r) \in RunQueues
         /\ Exact(r) => Exact(QueuesAfterPick(r))
<1> DEFINE m == Min(r.bits)
<1>1. CASE r.bits # {} /\ ~list_is_empty(r.q[m])
  <2>1. r.bits \in SUBSET Nat /\ r.bits \subseteq Levels
    BY ConstantFacts DEF RunQueues
  <2>2. m \in r.bits /\ m \in Levels
    BY <1>1, <2>1, MinIsLeast
  <2>3. r.q[m] \in Seq(Threads)
    BY <2>2 DEF RunQueues
  <2>4. Head(r.q[m]) \in Threads /\ list_remove_head(r.q[m]) \in Seq(Threads)
    BY <1>1, <2>3, RemoveHeadType
  <2> HIDE DEF m
  <2>5. /\ get_new_thread(r) = Head(r.q[m])
        /\ QueuesAfterPick(r) =
             [q |-> [r.q EXCEPT ![m] = list_remove_head(r.q[m])],
              bits |-> IF list_is_empty(list_remove_head(r.q[m]))
                       THEN r.bits \ {m} ELSE r.bits]
    BY <1>1 DEF get_new_thread, QueuesAfterPick, m
  <2> QED BY <2>2, <2>4, <2>5 DEF RunQueues, Exact
<1>2. CASE ~(r.bits # {} /\ ~list_is_empty(r.q[m]))
  BY <1>2, ConstantFacts DEF get_new_thread, QueuesAfterPick
<1> QED BY <1>1, <1>2

(* What thread_resched leaves behind. *)
LEMMA Resched ==
  ASSUME NEW st \in [Threads -> States], NEW r \in RunQueues,
         NEW rem \in [Threads -> 0 .. QUANTUM], NEW k \in [Threads -> Labels],
         NEW lk \in {0, 1}, current_thread \in Threads,
         thread_resched(st, r, rem, k, lk)
  PROVE  /\ SchedTypeOK' /\ CtlTypeOK'
         /\ Exact(r) => BitmapExact'
<1> DEFINE new == get_new_thread(r)
<1>1. new \in Threads /\ QueuesAfterPick(r) \in RunQueues
  BY Pick
<1>2. RunQueue' = QueuesAfterPick(r)
  BY <1>1 DEF RunQueue, thread_resched, RunQueues
<1>3. QUANTUM \in 0 .. QUANTUM
  BY SizeAssumption
<1>4. SchedTypeOK'
  BY <1>1, <1>2, <1>3 DEF SchedTypeOK, thread_resched, States
<1>5. CtlTypeOK'
  BY DEF CtlTypeOK, thread_resched
<1>6. Exact(r) => BitmapExact'
  BY <1>2, Pick DEF RunQueue, Exact, BitmapExact
<1> QED BY <1>4, <1>5, <1>6

-----------------------------------------------------------------------------
IInv == TypeOK /\ BitmapExact

(* The part of IInv that the scheduling variables make up. *)
SchedOK == SchedTypeOK /\ BitmapExact

(* A step that leaves a group of variables alone keeps its type. *)
LEMMA Frames ==
  /\ SchedOK /\ UNCHANGED schedVars => SchedOK'
  /\ NodeTypeOK /\ UNCHANGED nodeVars => NodeTypeOK'
  /\ WaitTypeOK /\ UNCHANGED waitVars => WaitTypeOK'
  /\ TimerTypeOK /\ UNCHANGED timerVars => TimerTypeOK'
  /\ CtlTypeOK /\ UNCHANGED ctlVars => CtlTypeOK'
  /\ RestTypeOK /\ UNCHANGED <<priority, thread_preempt_lock, arg>> => RestTypeOK'
  /\ CpuTypeOK /\ UNCHANGED <<wake, irq, halted>> => CpuTypeOK'
<1>1. SchedOK /\ UNCHANGED schedVars => SchedOK'
  BY DEF SchedOK, SchedTypeOK, RunQueue, BitmapExact, schedVars
<1>2. NodeTypeOK /\ UNCHANGED nodeVars => NodeTypeOK'
  BY DEF NodeTypeOK, nodeVars
<1>3. WaitTypeOK /\ UNCHANGED waitVars => WaitTypeOK'
  BY DEF WaitTypeOK, waitVars
<1>4. TimerTypeOK /\ UNCHANGED timerVars => TimerTypeOK'
  BY DEF TimerTypeOK, timerVars
<1>5. CtlTypeOK /\ UNCHANGED ctlVars => CtlTypeOK'
  BY DEF CtlTypeOK, ctlVars
<1>6. RestTypeOK /\ UNCHANGED <<priority, thread_preempt_lock, arg>> => RestTypeOK'
  BY DEF RestTypeOK
<1>7. CpuTypeOK /\ UNCHANGED <<wake, irq, halted>> => CpuTypeOK'
  BY Zenon DEF CpuTypeOK
<1> QED BY <1>1, <1>2, <1>3, <1>4, <1>5, <1>6, <1>7

(* What IInv says of the current thread and the queues. *)
LEMMA Current ==
  ASSUME IInv
  PROVE  /\ current_thread \in Threads
         /\ priority[current_thread] \in Levels
         /\ RunQueue \in RunQueues /\ Exact(RunQueue)
         /\ state \in [Threads -> States] /\ pc \in [Threads -> Labels]
         /\ priority \in [Threads -> Levels]
         /\ remaining_quantum \in [Threads -> 0 .. QUANTUM]
BY DEF IInv, TypeOK, SchedTypeOK, RestTypeOK, CtlTypeOK, BitmapExact, Exact, RunQueue

(* thread_resched called with queues in step, by whoever it is. *)
LEMMA ReschedOK ==
  ASSUME IInv, NEW st \in [Threads -> States], NEW r \in RunQueues, Exact(r),
         NEW rem \in [Threads -> 0 .. QUANTUM], NEW k \in [Threads -> Labels],
         NEW lk \in {0, 1}, thread_resched(st, r, rem, k, lk)
  PROVE  SchedOK' /\ CtlTypeOK'
BY Current, Resched DEF SchedOK

(* Thread t becomes READY and is queued; the caller runs on. *)
LEMMA EnqueueOK ==
  ASSUME IInv, NEW t \in Threads, NEW st \in [Threads -> States],
         state' = st,
         run_queue' = insert_in_run_queue_head(RunQueue, t, priority[t]).q,
         run_queue_bitmap' = insert_in_run_queue_head(RunQueue, t, priority[t]).bits,
         UNCHANGED <<remaining_quantum, current_thread>>
  PROVE  SchedOK'
<1> DEFINE r == insert_in_run_queue_head(RunQueue, t, priority[t])
<1>1. r \in RunQueues /\ Exact(r)
  BY Current, InsertHead
<1>2. RunQueue' = r
  BY <1>1 DEF RunQueue, RunQueues
<1>3. BitmapExact'
  BY <1>1, <1>2 DEF RunQueue, Exact, BitmapExact
<1> QED BY <1>1, <1>2, <1>3, Current DEF SchedOK, SchedTypeOK

-----------------------------------------------------------------------------
(* The actions of module Sched. *)
LEMMA SchedSteps ==
  ASSUME IInv,
         \/ thread_yield \/ initial_thread_func
         \/ thread_preempt_disable \/ thread_preempt_enable
         \/ \E p \in -1 .. NUM_PRIORITY : thread_set_priority(p)
  PROVE  IInv'
<1> DEFINE c == current_thread
<1> USE Current, ConstantFacts
<1>a. IInv <=> SchedOK /\ NodeTypeOK /\ WaitTypeOK /\ TimerTypeOK /\ CtlTypeOK /\ RestTypeOK /\ CpuTypeOK
  BY DEF IInv, TypeOK, SchedOK
<1>b. IInv' <=> (SchedOK /\ NodeTypeOK /\ WaitTypeOK /\ TimerTypeOK /\ CtlTypeOK /\ RestTypeOK /\ CpuTypeOK)'
  BY DEF IInv, TypeOK, SchedOK
<1>1. CASE thread_yield
  <2>1. NodeTypeOK' /\ WaitTypeOK' /\ TimerTypeOK' /\ RestTypeOK' /\ CpuTypeOK'
    BY <1>1, <1>a, Frames DEF thread_yield
  <2> DEFINE r == IF thread_is_idle(c) THEN RunQueue
                  ELSE insert_in_run_queue_tail(RunQueue, c, priority[c])
             st == StatesOnSwitch(c)
             rem == [remaining_quantum EXCEPT ![c] = 0]
             k == [pc EXCEPT ![c] = IF c = IDLE_THREAD_ID THEN "print" ELSE "user"]
  <2>2. r \in RunQueues /\ Exact(r)
    BY InsertTail
  <2>3. st \in [Threads -> States]
    BY DEF StatesOnSwitch, States
  <2>4. rem \in [Threads -> 0 .. QUANTUM] /\ k \in [Threads -> Labels]
    BY SizeAssumption DEF Labels, IntsOn
  <2>5. thread_resched(st, r, rem, k, 1)
    BY <1>1 DEF thread_yield
  <2> HIDE DEF st, r, rem, k
  <2>6. SchedOK' /\ CtlTypeOK'
    BY <2>2, <2>3, <2>4, <2>5, ReschedOK
  <2> QED BY <2>1, <2>6, <1>b
<1>2. CASE initial_thread_func
  <2>1. SchedOK' /\ NodeTypeOK' /\ WaitTypeOK' /\ TimerTypeOK' /\ RestTypeOK' /\ CpuTypeOK'
    BY <1>2, <1>a, Frames DEF initial_thread_func
  <2>2. CtlTypeOK'
    BY <1>2 DEF initial_thread_func, CtlTypeOK, Labels, IntsOn
  <2> QED BY <2>1, <2>2, <1>b
<1>3. CASE thread_preempt_disable
  <2>1. SchedOK' /\ NodeTypeOK' /\ WaitTypeOK' /\ TimerTypeOK' /\ CpuTypeOK'
    BY <1>3, <1>a, Frames DEF thread_preempt_disable
  <2>2. CtlTypeOK'
    BY <1>3, <1>a DEF thread_preempt_disable, CtlTypeOK, Labels, IntsOn
  <2>3. RestTypeOK'
    <3>1. thread_preempt_lock \in Nat
      BY <1>a DEF RestTypeOK
    <3>2. thread_preempt_lock' \in Nat
      BY ONLY <1>3, <3>1, SMT DEF thread_preempt_disable
    <3> QED BY <1>3, <1>a, <3>2 DEF thread_preempt_disable, RestTypeOK
  <2> QED BY <2>1, <2>2, <2>3, <1>b
<1>4. CASE thread_preempt_enable
  <2>1. SchedOK' /\ NodeTypeOK' /\ WaitTypeOK' /\ TimerTypeOK' /\ CpuTypeOK'
    BY <1>4, <1>a, Frames DEF thread_preempt_enable
  <2>2. CtlTypeOK'
    BY <1>4, <1>a DEF thread_preempt_enable, CtlTypeOK, Labels, IntsOn
  <2>3. RestTypeOK'
    <3>1. thread_preempt_lock \in Nat
      BY <1>a DEF RestTypeOK
    <3>2. thread_preempt_lock' \in Nat
      BY ONLY <1>4, <3>1, SMT DEF thread_preempt_enable
    <3> QED BY <1>4, <1>a, <3>2 DEF thread_preempt_enable, RestTypeOK
  <2> QED BY <2>1, <2>2, <2>3, <1>b
<1>5. ASSUME NEW prio \in -1 .. NUM_PRIORITY, thread_set_priority(prio) PROVE IInv'
  <2> DEFINE p == Clamp(prio)
             r == insert_in_run_queue_head(RunQueue, c, p)
  <2>1. p \in Levels
    BY SizeAssumption DEF Clamp, Levels, IDLE_PRIORITY, HIGHEST_PRIORITY
  <2>2. NodeTypeOK' /\ WaitTypeOK' /\ TimerTypeOK' /\ CpuTypeOK'
    BY <1>5, <1>a, Frames DEF thread_set_priority
  <2>3. RestTypeOK'
    BY <1>5, <1>a, <2>1 DEF thread_set_priority, RestTypeOK
  <2>4. r \in RunQueues /\ Exact(r)
    BY <2>1, InsertHead
  <2>5. thread_resched(state, r, remaining_quantum, pc, 1)
    BY <1>5 DEF thread_set_priority
  <2>6. SchedOK' /\ CtlTypeOK'
    BY <2>4, <2>5, ReschedOK
  <2> QED BY <2>2, <2>3, <2>6, <1>b
<1> QED BY <1>1, <1>2, <1>3, <1>4, <1>5

-----------------------------------------------------------------------------
(* IInv in the parts that the steps below prove one by one. *)
LEMMA Parts ==
  /\ IInv => /\ SchedOK /\ NodeTypeOK /\ WaitTypeOK /\ TimerTypeOK /\ CtlTypeOK
             /\ RestTypeOK /\ CpuTypeOK
  /\ SchedOK' /\ NodeTypeOK' /\ WaitTypeOK' /\ TimerTypeOK' /\ CtlTypeOK'
       /\ RestTypeOK' /\ CpuTypeOK' => IInv'
BY DEF IInv, TypeOK, SchedOK

(* timer_set_oneshot puts a timer in its place. *)
LEMMA SetOneshotOK ==
  ASSUME TimerTypeOK, NEW t \in Threads, NEW delay \in Nat, NEW handler \in Handlers,
         timer_set_oneshot(t, delay, handler)
  PROVE  TimerTypeOK'
<1> DEFINE d == IF delay = 0 THEN 1 ELSE delay
           later == {i \in DOMAIN timer_queue : due[timer_queue[i]] > d}
<1>1. d \in Nat
  OBVIOUS
<1>2. timer_queue \in Seq(Threads)
  BY DEF TimerTypeOK
<1>3. insert_timer_in_queue(t, d) \in Seq(Threads)
  <2>1. CASE later = {}
    BY <1>2, <2>1, AddTailType DEF insert_timer_in_queue
  <2>2. CASE later # {}
    <3>1. later \in SUBSET Nat /\ later \subseteq DOMAIN timer_queue
      BY <1>2, LenProperties
    <3>2. Min(later) \in DOMAIN timer_queue
      BY <2>2, <3>1, MinIsLeast
    <3>3. list_add_before(timer_queue, Min(later), t) \in Seq(Threads)
      BY <1>2, <3>2, AddBeforeType
    <3> QED BY <2>2, <3>3 DEF insert_timer_in_queue
  <2> QED BY <2>1, <2>2
<1>4. timer_queue' = insert_timer_in_queue(t, d)
  BY DEF timer_set_oneshot
<1> HIDE DEF d
<1>5. due' = [due EXCEPT ![t] = d] /\ callback' = [callback EXCEPT ![t] = handler]
  BY DEF timer_set_oneshot, d
<1> QED BY <1>1, <1>3, <1>4, <1>5 DEF TimerTypeOK

(* Whether or not a timer was set, it is gone when the wait returns. *)
LEMMA UnblockedOK ==
  ASSUME IInv, Unblocked
  PROVE  TimerTypeOK'
<1>1. TimerTypeOK /\ current_thread \in Threads
  BY Parts, Current
<1>2. CASE UNCHANGED timerVars
  BY <1>1, <1>2, Frames
<1>3. CASE timer_cancel(current_thread)
  <2>1. list_delete(timer_queue, current_thread) \in Seq(Threads)
    BY <1>1, DeleteType DEF TimerTypeOK
  <2> QED BY <1>1, <1>3, <2>1 DEF timer_cancel, TimerTypeOK, Handlers
<1> QED BY <1>2, <1>3 DEF Unblocked

(* wait_queue_block up to the context switch. *)
LEMMA BlockOK ==
  ASSUME IInv, NEW q \in WaitQueues, NEW timeout \in Nat, NEW k \in Labels,
         Block(q, timeout, k)
  PROVE  SchedOK' /\ CtlTypeOK' /\ WaitTypeOK' /\ TimerTypeOK'
<1> DEFINE c == current_thread
<1>1. c \in Threads /\ WaitTypeOK /\ TimerTypeOK
  BY Parts, Current
<1>2. SchedOK' /\ CtlTypeOK'
  <2>1. [state EXCEPT ![c] = "BLOCKED"] \in [Threads -> States]
    BY Current DEF States
  <2>2. [pc EXCEPT ![c] = k] \in [Threads -> Labels]
    BY Current
  <2>3. thread_resched([state EXCEPT ![c] = "BLOCKED"], RunQueue, remaining_quantum,
                       [pc EXCEPT ![c] = k], 1)
    BY DEF Block
  <2> QED BY <2>1, <2>2, <2>3, Current, ReschedOK
<1>3. WaitTypeOK'
  <2>1. wait_list[q] \in Seq(Threads)
    BY <1>1 DEF WaitTypeOK
  <2>2. list_add_tail(wait_list[q], c) \in Seq(Threads)
    BY <1>1, <2>1, AddTailType
  <2> QED BY <1>1, <2>2 DEF Block, WaitTypeOK, Errors
<1>4. TimerTypeOK'
  <2>1. CASE UNCHANGED timerVars
    BY <1>1, <2>1, Frames
  <2>2. CASE timer_set_oneshot(c, timeout, "wait_queue_timeout_handler")
    BY <1>1, <2>2, SetOneshotOK DEF Handlers
  <2> QED BY <2>1, <2>2 DEF Block
<1> QED BY <1>2, <1>3, <1>4

(* A thread leaves the list of a wait queue. *)
LEMMA ReleaseOK ==
  ASSUME IInv, NEW q, NEW t \in Threads, NEW error \in Errors,
         Release(q, t, error), wait_list' \in [WaitQueues -> Seq(Threads)]
  PROVE  WaitTypeOK'
<1>1. WaitTypeOK
  BY Parts
<1>2. wait_count' \in [WaitQueues -> Int]
  <2>1. wait_count \in [WaitQueues -> Int]
    BY <1>1 DEF WaitTypeOK
  <2>2. wait_count' = [wait_count EXCEPT ![q] = @ - 1]
    BY DEF Release
  <2>3. CASE q \in WaitQueues
    BY ONLY <2>1, <2>2, <2>3
  <2>4. CASE q \notin WaitQueues
    BY ONLY <2>1, <2>2, <2>4
  <2> QED BY <2>3, <2>4
<1> QED BY <1>1, <1>2 DEF Release, WaitTypeOK

(* The first thread of a wait queue, and the list without it. *)
LEMMA FirstWaiter ==
  ASSUME IInv, NEW q \in WaitQueues, ~list_is_empty(wait_list[q])
  PROVE  /\ Head(wait_list[q]) \in Threads
         /\ [wait_list EXCEPT ![q] = list_remove_head(@)] \in [WaitQueues -> Seq(Threads)]
<1>1. wait_list \in [WaitQueues -> Seq(Threads)]
  BY Parts DEF WaitTypeOK
<1>2. Head(wait_list[q]) \in Threads /\ list_remove_head(wait_list[q]) \in Seq(Threads)
  BY <1>1, RemoveHeadType
<1> QED BY <1>1, <1>2

(* The entry of wait_queue_wake_all. *)
LEMMA WakeAllOK ==
  ASSUME IInv, NEW q \in WaitQueues, NEW reschedule \in BOOLEAN, NEW error \in Errors,
         NEW st \in States, NEW next \in {"user", "detach", "exit"},
         WakeAll(q, reschedule, error, st, next)
  PROVE  SchedOK' /\ CtlTypeOK' /\ WaitTypeOK' /\ wake' \in Wakes
<1> DEFINE c == current_thread
<1>1. c \in Threads /\ SchedOK /\ CtlTypeOK /\ WaitTypeOK
  BY Parts, Current
<1>2. SchedOK'
  <2>1. state' \in [Threads -> States]
    BY Current DEF WakeAll, States
  <2>2. CASE reschedule /\ wait_count[q] > 0
    BY <1>1, <2>1, <2>2, EnqueueOK DEF WakeAll
  <2>3. CASE ~(reschedule /\ wait_count[q] > 0)
    <3>1. UNCHANGED <<run_queue, run_queue_bitmap, remaining_quantum, current_thread>>
      BY <2>3 DEF WakeAll, RunQueue
    <3> QED BY <1>1, <2>1, <3>1 DEF SchedOK, SchedTypeOK, RunQueue, BitmapExact
  <2> QED BY <2>2, <2>3
<1>3. CtlTypeOK'
  BY <1>1 DEF WakeAll, CtlTypeOK, Labels
<1>4. WaitTypeOK'
  BY <1>1, Frames DEF WakeAll
<1>5. wake' \in Wakes
  BY DEF WakeAll, Wakes
<1> QED BY <1>2, <1>3, <1>4, <1>5

(* The value of wake outside wait_queue_wake_all. *)
LEMMA NoWakeType == NoWake \in Wakes
BY ConstantFacts DEF NoWake, Wakes, Errors

(* The actions of module WaitQueue by which a thread waits. *)
LEMMA BlockSteps ==
  ASSUME IInv,
         \/ \E q \in UserQueues, d \in Timeouts : wait_queue_block(q, d)
         \/ wait_queue_block_return
  PROVE  IInv'
<1>1. ASSUME NEW q \in UserQueues, NEW d \in Timeouts, wait_queue_block(q, d)
      PROVE  IInv'
  <2>1. NodeTypeOK' /\ RestTypeOK' /\ CpuTypeOK'
    BY <1>1, Parts, Frames DEF wait_queue_block
  <2>2. CASE d = 0
    <3>1. SchedOK' /\ CtlTypeOK' /\ WaitTypeOK' /\ TimerTypeOK'
      BY <1>1, <2>2, Parts, Frames DEF wait_queue_block
    <3> QED BY <2>1, <3>1, Parts
  <2>3. CASE d # 0
    <3>1. q \in WaitQueues /\ d \in Nat /\ "wait" \in Labels
      BY ConstantFacts, ArgumentAssumption DEF Labels
    <3>2. Block(q, d, "wait")
      BY <1>1, <2>3 DEF wait_queue_block
    <3>3. SchedOK' /\ CtlTypeOK' /\ WaitTypeOK' /\ TimerTypeOK'
      BY <3>1, <3>2, BlockOK
    <3> QED BY <2>1, <3>3, Parts
  <2> QED BY <2>2, <2>3
<1>2. CASE wait_queue_block_return
  <2>1. SchedOK' /\ NodeTypeOK' /\ WaitTypeOK' /\ RestTypeOK' /\ CpuTypeOK'
    BY <1>2, Parts, Frames DEF wait_queue_block_return
  <2>2. TimerTypeOK'
    BY <1>2, UnblockedOK DEF wait_queue_block_return
  <2>3. CtlTypeOK'
    BY <1>2, Parts DEF wait_queue_block_return, CtlTypeOK, Labels, IntsOn
  <2> QED BY <2>1, <2>2, <2>3, Parts
<1> QED BY <1>1, <1>2

(* wait_queue_wake_one. *)
LEMMA WakeOneStep ==
  ASSUME IInv, NEW q \in UserQueues, NEW b \in BOOLEAN,
         wait_queue_wake_one(q, b, NO_ERR)
  PROVE  IInv'
<1> DEFINE c == current_thread
           t == Head(wait_list[q])
           r0 == IF b THEN insert_in_run_queue_head(RunQueue, c, priority[c])
                 ELSE RunQueue
           r == insert_in_run_queue_head(r0, t, priority[t])
<1>1. NodeTypeOK' /\ TimerTypeOK' /\ RestTypeOK' /\ CpuTypeOK'
  BY Parts, Frames DEF wait_queue_wake_one
<1>2. /\ t \in Threads
      /\ [wait_list EXCEPT ![q] = list_remove_head(@)] \in [WaitQueues -> Seq(Threads)]
  BY FirstWaiter, ConstantFacts DEF wait_queue_wake_one
<1>3. WaitTypeOK'
  BY <1>2, ReleaseOK DEF wait_queue_wake_one, Errors
<1>4. c \in Threads /\ priority[t] \in Levels /\ priority[c] \in Levels
  BY <1>2, Current
<1>5. r0 \in RunQueues /\ Exact(r0)
  BY <1>4, Current, InsertHead
<1>6. r \in RunQueues /\ Exact(r)
  <2> HIDE DEF r0, t
  <2> QED BY <1>2, <1>4, <1>5, InsertHead
<1>7. SchedOK' /\ CtlTypeOK'
  <2>1. CASE b
    <3>1. [state EXCEPT ![t] = "READY", ![c] = "READY"] \in [Threads -> States]
      BY Current DEF States
    <3>2. thread_resched([state EXCEPT ![t] = "READY", ![c] = "READY"], r,
                         remaining_quantum, pc, 1)
      BY <2>1 DEF wait_queue_wake_one
    <3> QED
      <4> HIDE DEF r, t, c
      <4> QED BY <1>6, <3>1, <3>2, Current, ReschedOK
  <2>2. CASE ~b
    <3>1. [state EXCEPT ![t] = "READY"] \in [Threads -> States]
      BY Current DEF States
    <3>2. /\ state' = [state EXCEPT ![t] = "READY"]
          /\ run_queue' = insert_in_run_queue_head(RunQueue, t, priority[t]).q
          /\ run_queue_bitmap' = insert_in_run_queue_head(RunQueue, t, priority[t]).bits
          /\ UNCHANGED <<remaining_quantum, current_thread, ctlVars>>
      BY <2>2 DEF wait_queue_wake_one
    <3>3. SchedOK'
      <4> HIDE DEF t
      <4> QED BY <1>2, <3>1, <3>2, EnqueueOK
    <3>4. CtlTypeOK'
      BY <3>2, Parts, Frames
    <3> QED BY <3>3, <3>4
  <2> QED BY <2>1, <2>2
<1> QED BY <1>1, <1>3, <1>7, Parts

(* The calls that start the loop of wait_queue_wake_all, and the loop. *)
LEMMA WakeAllSteps ==
  ASSUME IInv,
         \/ \E q \in UserQueues, b \in BOOLEAN :
               wait_queue_wake_all(q, b, NO_ERR) \/ wait_queue_destroy(q, b)
         \/ wake_all_next \/ wait_queue_wake_all_return
  PROVE  IInv'
<1> DEFINE c == current_thread
<1>0. c \in Threads /\ state[c] \in States
  BY Current
<1>1. ASSUME NEW q \in UserQueues, NEW b \in BOOLEAN,
             wait_queue_wake_all(q, b, NO_ERR) \/ wait_queue_destroy(q, b)
      PROVE  IInv'
  <2>1. NodeTypeOK' /\ TimerTypeOK' /\ RestTypeOK'
    BY <1>1, Parts, Frames DEF wait_queue_wake_all, wait_queue_destroy
  <2>2. PICK e \in Errors : WakeAll(q, b, e, state[c], "user")
    BY <1>1 DEF wait_queue_wake_all, wait_queue_destroy, Errors
  <2>3. SchedOK' /\ CtlTypeOK' /\ WaitTypeOK' /\ wake' \in Wakes
    BY <1>0, <2>2, ConstantFacts, WakeAllOK
  <2>4. UNCHANGED <<irq, halted>>
    BY <1>1 DEF wait_queue_wake_all, wait_queue_destroy
  <2>5. CpuTypeOK'
    BY <2>3, <2>4, Parts, Zenon DEF CpuTypeOK
  <2> QED BY <2>1, <2>3, <2>5, Parts
<1>2. CASE wake_all_next
  <2> DEFINE q == wake.q
             t == Head(wait_list[q])
  <2>1. NodeTypeOK' /\ TimerTypeOK' /\ CtlTypeOK' /\ RestTypeOK'
    BY <1>2, Parts, Frames DEF wake_all_next
  <2>2. q \in WaitQueues /\ wake.error \in Errors /\ wake \in Wakes
    BY Parts DEF CpuTypeOK, Wakes
  <2>3. /\ t \in Threads
        /\ [wait_list EXCEPT ![q] = list_remove_head(@)] \in [WaitQueues -> Seq(Threads)]
    BY <1>2, <2>2, FirstWaiter DEF wake_all_next
  <2>4. WaitTypeOK'
    BY <1>2, <2>2, <2>3, ReleaseOK DEF wake_all_next
  <2>5. [state EXCEPT ![t] = "READY"] \in [Threads -> States]
    BY Current DEF States
  <2>6. SchedOK'
    BY <1>2, <2>3, <2>5, EnqueueOK DEF wake_all_next
  <2>7. wake' \in Wakes
    BY <1>2, <2>2 DEF wake_all_next, Wakes
  <2>8. CpuTypeOK'
    BY <1>2, <2>7, Parts DEF wake_all_next, CpuTypeOK
  <2> QED BY <2>1, <2>4, <2>6, <2>8, Parts
<1>3. CASE wait_queue_wake_all_return
  <2> DEFINE k == [pc EXCEPT ![c] = "user"]
  <2>1. NodeTypeOK' /\ WaitTypeOK' /\ TimerTypeOK' /\ RestTypeOK'
    BY <1>3, Parts, Frames DEF wait_queue_wake_all_return
  <2>2. CpuTypeOK'
    BY <1>3, Parts, NoWakeType DEF wait_queue_wake_all_return, WakeAllDone, CpuTypeOK
  <2>3. k \in [Threads -> Labels]
    BY Current DEF Labels, IntsOn
  <2>4. CASE thread_resched(state, RunQueue, remaining_quantum, k, 1)
    <3>1. SchedOK' /\ CtlTypeOK'
      BY <2>3, <2>4, Current, ReschedOK
    <3> QED BY <2>1, <2>2, <3>1, Parts
  <2>5. CASE pc' = k /\ thread_lock' = 0 /\ UNCHANGED schedVars
    <3>1. SchedOK' /\ CtlTypeOK'
      BY <2>3, <2>5, Parts, Frames DEF CtlTypeOK
    <3> QED BY <2>1, <2>2, <3>1, Parts
  <2> QED BY <1>3, <2>4, <2>5 DEF wait_queue_wake_all_return
<1> QED BY <1>1, <1>2, <1>3

-----------------------------------------------------------------------------
(* thread_create and thread_resume. *)
LEMMA CreateSteps ==
  ASSUME IInv,
         \/ thread_create \/ get_free_thread_node
         \/ \E p \in Priorities : thread_create_publish(p)
         \/ \E t \in Threads : thread_resume(t)
  PROVE  IInv'
<1> DEFINE c == current_thread
<1>0. c \in Threads /\ pc \in [Threads -> Labels] /\ state \in [Threads -> States]
  BY Current
<1>1. CASE thread_create
  <2>1. /\ SchedOK' /\ NodeTypeOK' /\ WaitTypeOK' /\ TimerTypeOK' /\ RestTypeOK'
        /\ CpuTypeOK'
    BY <1>1, Parts, Frames DEF thread_create
  <2>2. CtlTypeOK'
    BY <1>1, Parts DEF thread_create, CtlTypeOK, Labels, IntsOn
  <2> QED BY <2>1, <2>2, Parts
<1>2. CASE get_free_thread_node
  <2>1. SchedOK' /\ WaitTypeOK' /\ TimerTypeOK' /\ CpuTypeOK'
    BY <1>2, Parts, Frames DEF get_free_thread_node
  <2>2. CtlTypeOK'
    BY <1>2, Parts DEF get_free_thread_node, CtlTypeOK, Labels, IntsOn
  <2>3. CASE list_is_empty(g_thread_free_list)
    <3>1. UNCHANGED <<nodeVars, priority, thread_preempt_lock, arg>>
      BY <1>2, <2>3 DEF get_free_thread_node, nodeVars
    <3>2. NodeTypeOK' /\ RestTypeOK'
      BY <3>1, Parts, Frames
    <3> QED BY <2>1, <2>2, <3>2, Parts
  <2>4. CASE ~list_is_empty(g_thread_free_list)
    <3>1. /\ Head(g_thread_free_list) \in Threads
          /\ list_remove_head(g_thread_free_list) \in Seq(Threads)
      BY <2>4, Parts, RemoveHeadType DEF NodeTypeOK
    <3>2. NodeTypeOK'
      BY <1>2, <2>4, <3>1, Parts DEF get_free_thread_node, NodeTypeOK
    <3>3. RestTypeOK'
      BY <1>2, <2>4, <3>1, Parts DEF get_free_thread_node, RestTypeOK
    <3> QED BY <2>1, <2>2, <3>2, <3>3, Parts
  <2> QED BY <2>3, <2>4
<1>3. ASSUME NEW prio \in Priorities, thread_create_publish(prio) PROVE IInv'
  <2>0. prio \in Levels /\ arg[c] \in Threads /\ arg[c] \in WaitQueues
    BY <1>0, Parts, ArgumentAssumption, ConstantFacts DEF RestTypeOK
  <2>1. TimerTypeOK' /\ CpuTypeOK'
    BY <1>3, Parts, Frames DEF thread_create_publish
  <2>2. SchedOK'
    BY <1>3, <2>0, Parts, SizeAssumption
    DEF thread_create_publish, InitNode, SchedOK, SchedTypeOK, RunQueue, BitmapExact, States
  <2>3. NodeTypeOK'
    <3>1. list_add_tail(thread_list, arg[c]) \in Seq(Threads)
      BY <2>0, Parts, AddTailType DEF NodeTypeOK
    <3> QED BY <1>3, <3>1, Parts DEF thread_create_publish, InitNode, NodeTypeOK
  <2>4. WaitTypeOK'
    BY <1>3, <2>0, Parts DEF thread_create_publish, InitNode, WaitTypeOK, Errors
  <2>5. CtlTypeOK'
    BY <1>3, Parts DEF thread_create_publish, CtlTypeOK, Labels, IntsOn
  <2>6. RestTypeOK'
    BY <1>3, <2>0, Parts, ConstantFacts DEF thread_create_publish, InitNode, RestTypeOK
  <2> QED BY <2>1, <2>2, <2>3, <2>4, <2>5, <2>6, Parts
<1>4. ASSUME NEW t \in Threads, thread_resume(t) PROVE IInv'
  <2>1. NodeTypeOK' /\ WaitTypeOK' /\ TimerTypeOK' /\ RestTypeOK' /\ CpuTypeOK'
    BY <1>4, Parts, Frames DEF thread_resume
  <2>2. CtlTypeOK'
    BY <1>4, Parts DEF thread_resume, CtlTypeOK, Labels, IntsOn
  <2>3. CASE Resumable(t)
    <3>1. [state EXCEPT ![t] = "READY"] \in [Threads -> States]
      BY <1>0 DEF States
    <3>2. SchedOK'
      BY <1>4, <2>3, <3>1, EnqueueOK DEF thread_resume
    <3> QED BY <2>1, <2>2, <3>2, Parts
  <2>4. CASE ~Resumable(t)
    <3>1. SchedOK'
      BY <1>4, <2>4, Parts, Frames DEF thread_resume, schedVars
    <3> QED BY <2>1, <2>2, <3>1, Parts
  <2> QED BY <2>3, <2>4
<1> QED BY <1>1, <1>2, <1>3, <1>4

(* A node goes from thread_list to the free list. *)
LEMMA FreeOK ==
  ASSUME IInv, NEW t \in Threads, free_thread_node(t)
  PROVE  NodeTypeOK'
<1>1. NodeTypeOK
  BY Parts
<1>2. /\ list_delete(thread_list, t) \in Seq(Threads)
      /\ list_add_tail(g_thread_free_list, t) \in Seq(Threads)
  BY <1>1, DeleteType, AddTailType DEF NodeTypeOK
<1> QED BY <1>1, <1>2 DEF free_thread_node, NodeTypeOK

(* thread_join. *)
LEMMA JoinSteps ==
  ASSUME IInv,
         \/ \E t \in Threads, d \in JoinTimeouts : thread_join(t, d)
         \/ thread_join_return
  PROVE  IInv'
<1> DEFINE c == current_thread
<1>0. c \in Threads /\ arg[c] \in Threads
  BY Current, Parts DEF RestTypeOK
<1>1. ASSUME NEW t \in Threads, NEW d \in JoinTimeouts, thread_join(t, d) PROVE IInv'
  <2>0. CpuTypeOK'
    BY <1>1, Parts, Frames DEF thread_join
  <2>1. CASE UNCHANGED <<schedVars, nodeVars, waitVars, timerVars, ctlVars, arg>>
    <3>1. /\ SchedOK' /\ NodeTypeOK' /\ WaitTypeOK' /\ TimerTypeOK' /\ CtlTypeOK'
          /\ RestTypeOK'
      BY <1>1, <2>1, Parts, Frames DEF thread_join
    <3> QED BY <2>0, <3>1, Parts
  <2>2. CASE /\ free_thread_node(t)
             /\ UNCHANGED <<schedVars, waitVars, timerVars, ctlVars, arg>>
    <3>1. SchedOK' /\ WaitTypeOK' /\ TimerTypeOK' /\ CtlTypeOK' /\ RestTypeOK'
      BY <1>1, <2>2, Parts, Frames DEF thread_join
    <3>2. NodeTypeOK'
      BY <2>2, FreeOK
    <3> QED BY <2>0, <3>1, <3>2, Parts
  <2>3. CASE arg' = [arg EXCEPT ![c] = t] /\ Block(t, d, "join") /\ UNCHANGED nodeVars
    <3>1. t \in WaitQueues /\ d \in Nat /\ "join" \in Labels
      BY ConstantFacts, ArgumentAssumption DEF Labels
    <3>2. SchedOK' /\ CtlTypeOK' /\ WaitTypeOK' /\ TimerTypeOK'
      BY <2>3, <3>1, BlockOK
    <3>3. RestTypeOK'
      BY <1>1, <2>3, Parts DEF thread_join, RestTypeOK
    <3>4. NodeTypeOK'
      BY <2>3, Parts, Frames
    <3> QED BY <2>0, <3>2, <3>3, <3>4, Parts
  <2> QED BY <1>1, <2>1, <2>2, <2>3 DEF thread_join
<1>2. CASE thread_join_return
  <2>1. SchedOK' /\ WaitTypeOK' /\ CpuTypeOK'
    BY <1>2, Parts, Frames DEF thread_join_return
  <2>2. NodeTypeOK'
    <3>1. UNCHANGED nodeVars \/ free_thread_node(arg[c])
      BY <1>2 DEF thread_join_return
    <3> QED BY <1>0, <3>1, Parts, Frames, FreeOK
  <2>3. TimerTypeOK'
    BY <1>2, UnblockedOK DEF thread_join_return
  <2>4. CtlTypeOK'
    BY <1>2, Parts DEF thread_join_return, CtlTypeOK, Labels, IntsOn
  <2>5. RestTypeOK'
    BY <1>2, Parts, ConstantFacts DEF thread_join_return, RestTypeOK
  <2> QED BY <2>1, <2>2, <2>3, <2>4, <2>5, Parts
<1> QED BY <1>1, <1>2

(* thread_detach, thread_detach_and_resume. *)
LEMMA DetachSteps ==
  ASSUME IInv,
         \/ \E t \in Threads : thread_detach(t) \/ thread_detach_and_resume(t)
         \/ thread_detach_return
  PROVE  IInv'
<1> DEFINE c == current_thread
<1>0. c \in Threads /\ arg[c] \in Threads /\ state[c] \in States
  BY Current, Parts DEF RestTypeOK
<1>1. ASSUME NEW t \in Threads, thread_detach(t) PROVE IInv'
  <2>1. NodeTypeOK' /\ TimerTypeOK'
    BY <1>1, Parts, Frames DEF thread_detach
  <2>2. WakeAll(t, FALSE, ERR_THREAD_DETACHED, state[c], "detach")
    BY <1>1 DEF thread_detach
  <2>3. SchedOK' /\ CtlTypeOK' /\ WaitTypeOK' /\ wake' \in Wakes
    BY <1>0, <2>2, ConstantFacts, WakeAllOK DEF Errors
  <2>4. RestTypeOK'
    BY <1>1, Parts DEF thread_detach, RestTypeOK
  <2>5. CpuTypeOK'
    BY <1>1, <2>3, Parts DEF thread_detach, CpuTypeOK
  <2> QED BY <2>1, <2>3, <2>4, <2>5, Parts
<1>2. ASSUME NEW t \in Threads, thread_detach_and_resume(t) PROVE IInv'
  <2>1. SchedOK' /\ NodeTypeOK' /\ WaitTypeOK' /\ TimerTypeOK' /\ RestTypeOK'
    BY <1>2, Parts, Frames DEF thread_detach_and_resume
  <2>2. CtlTypeOK'
    BY <1>2, Parts DEF thread_detach_and_resume, CtlTypeOK
  <2>3. CpuTypeOK'
    BY <1>2, Parts DEF thread_detach_and_resume, CpuTypeOK
  <2> QED BY <2>1, <2>2, <2>3, Parts
<1>3. CASE thread_detach_return
  <2>1. SchedOK' /\ WaitTypeOK' /\ TimerTypeOK'
    BY <1>3, Parts, Frames DEF thread_detach_return
  <2>2. NodeTypeOK'
    BY <1>0, <1>3, Parts DEF thread_detach_return, NodeTypeOK
  <2>3. CtlTypeOK'
    BY <1>3, Parts DEF thread_detach_return, CtlTypeOK, Labels, IntsOn
  <2>4. RestTypeOK'
    BY <1>3, Parts, ConstantFacts DEF thread_detach_return, RestTypeOK
  <2>5. wake' \in Wakes /\ irq' = irq /\ (halted' = TRUE \/ halted' = halted)
    BY <1>3, NoWakeType DEF thread_detach_return, WakeAllDone
  <2>6. CpuTypeOK'
    BY <2>5, Parts, Zenon DEF CpuTypeOK
  <2> QED BY <2>1, <2>2, <2>3, <2>4, <2>6, Parts
<1> QED BY <1>1, <1>2, <1>3

(* thread_exit and thread_sleep. *)
LEMMA ExitSteps ==
  ASSUME IInv,
         \/ thread_exit \/ thread_exit_resched
         \/ \E d \in Delays : thread_sleep(d)
  PROVE  IInv'
<1> DEFINE c == current_thread
<1>0. c \in Threads /\ pc \in [Threads -> Labels] /\ state \in [Threads -> States]
  BY Current
<1>1. [pc EXCEPT ![c] = "none"] \in [Threads -> Labels]
  BY <1>0 DEF Labels
<1>2. CASE thread_exit
  <2>1. TimerTypeOK' /\ RestTypeOK' /\ UNCHANGED <<irq, halted>>
    BY <1>2, Parts, Frames DEF thread_exit
  <2>2. CASE c \in detached
    <3>1. [state EXCEPT ![c] = "DEATH"] \in [Threads -> States]
      BY <1>0 DEF States
    <3>2. thread_resched([state EXCEPT ![c] = "DEATH"], RunQueue, remaining_quantum,
                         [pc EXCEPT ![c] = "none"], 0)
      BY <1>2, <2>2 DEF thread_exit
    <3>3. SchedOK' /\ CtlTypeOK'
      BY <1>1, <3>1, <3>2, Current, ReschedOK
    <3>4. NodeTypeOK'
      BY <1>0, <1>2, <2>2, FreeOK DEF thread_exit
    <3>5. WaitTypeOK' /\ CpuTypeOK'
      BY <1>2, <2>1, <2>2, Parts, Frames DEF thread_exit
    <3> QED BY <2>1, <3>3, <3>4, <3>5, Parts
  <2>3. CASE c \notin detached
    <3>1. WakeAll(c, FALSE, NO_ERR, "DEATH", "exit") /\ UNCHANGED nodeVars
      BY <1>2, <2>3 DEF thread_exit, WakeJoiners
    <3>2. SchedOK' /\ CtlTypeOK' /\ WaitTypeOK' /\ wake' \in Wakes
      BY <1>0, <3>1, ConstantFacts, WakeAllOK DEF Errors, States
    <3>3. CpuTypeOK'
      BY <2>1, <3>2, Parts, Zenon DEF CpuTypeOK
    <3>4. NodeTypeOK'
      BY <3>1, Parts, Frames
    <3> QED BY <2>1, <3>2, <3>3, <3>4, Parts
  <2> QED BY <2>2, <2>3
<1>3. CASE thread_exit_resched
  <2>1. NodeTypeOK' /\ WaitTypeOK' /\ TimerTypeOK' /\ RestTypeOK'
    BY <1>3, Parts, Frames DEF thread_exit_resched
  <2>2. SchedOK' /\ CtlTypeOK'
    BY <1>1, <1>3, Current, ReschedOK DEF thread_exit_resched
  <2>3. CpuTypeOK'
    BY <1>3, Parts, NoWakeType DEF thread_exit_resched, WakeAllDone, CpuTypeOK
  <2> QED BY <2>1, <2>2, <2>3, Parts
<1>4. ASSUME NEW d \in Delays, thread_sleep(d) PROVE IInv'
  <2>1. NodeTypeOK' /\ WaitTypeOK' /\ RestTypeOK' /\ CpuTypeOK'
    BY <1>4, Parts, Frames DEF thread_sleep
  <2>2. TimerTypeOK'
    BY <1>0, <1>4, Parts, ArgumentAssumption, SetOneshotOK DEF thread_sleep, Handlers
  <2>3. [state EXCEPT ![c] = "SLEEPING"] \in [Threads -> States]
    BY <1>0 DEF States
  <2>4. SchedOK' /\ CtlTypeOK'
    BY <1>4, <2>3, Current, ReschedOK DEF thread_sleep
  <2> QED BY <2>1, <2>2, <2>4, Parts
<1> QED BY <1>2, <1>3, <1>4

-----------------------------------------------------------------------------
(* The timer interrupt. *)
LEMMA TimerSteps ==
  ASSUME IInv, os_timer_tick \/ os_timer_tick_early \/ TimerInterrupt
  PROVE  IInv'
<1> DEFINE c == current_thread
           t == Head(timer_queue)
<1>0. c \in Threads /\ pc \in [Threads -> Labels] /\ state \in [Threads -> States]
  BY Current
<1>1. CASE os_timer_tick \/ os_timer_tick_early
  <2>1. SchedOK' /\ NodeTypeOK' /\ WaitTypeOK' /\ CtlTypeOK' /\ RestTypeOK'
    BY <1>1, Parts, Frames DEF os_timer_tick, os_timer_tick_early
  <2>2. TimerTypeOK'
    <3>1. Advance /\ UNCHANGED <<timer_queue, callback>>
      BY <1>1 DEF os_timer_tick, os_timer_tick_early
    <3> QED BY <3>1, Parts DEF Advance, TimerTypeOK
  <2>3. /\ UNCHANGED <<wake, halted>>
        /\ irq' = "INT_NO_RESCHEDULE" \/ irq' = irq
    BY <1>1 DEF os_timer_tick, os_timer_tick_early
  <2>4. CpuTypeOK'
    BY <2>3, Parts, Zenon DEF CpuTypeOK
  <2> QED BY <2>1, <2>2, <2>4, Parts
<1>2. ASSUME NEW h, Due(h)
      PROVE  t \in Threads /\ timer_queue' \in Seq(Threads)
  BY <1>2, Parts, RemoveHeadType DEF Due, TimerTypeOK
<1>3. CASE thread_sleep_handler
  <2>1. NodeTypeOK' /\ WaitTypeOK' /\ RestTypeOK'
    BY <1>3, Parts, Frames DEF thread_sleep_handler
  <2>2. t \in Threads /\ timer_queue' \in Seq(Threads)
    BY <1>2, <1>3 DEF thread_sleep_handler
  <2>3. TimerTypeOK'
    BY <1>3, <2>2, Parts DEF thread_sleep_handler, TimerTypeOK, Handlers
  <2>4. [state EXCEPT ![t] = "READY"] \in [Threads -> States]
    BY <1>0 DEF States
  <2>5. SchedOK'
    BY <1>3, <2>2, <2>4, EnqueueOK DEF thread_sleep_handler
  <2>6. CtlTypeOK'
    BY <1>3, Parts DEF thread_sleep_handler, CtlTypeOK
  <2>7. CpuTypeOK'
    BY <1>3, Parts DEF thread_sleep_handler, CpuTypeOK
  <2> QED BY <2>1, <2>3, <2>5, <2>6, <2>7, Parts
<1>4. CASE wait_queue_timeout_handler
  <2>1. NodeTypeOK' /\ CtlTypeOK' /\ RestTypeOK'
    BY <1>4, Parts, Frames DEF wait_queue_timeout_handler
  <2>2. t \in Threads /\ timer_queue' \in Seq(Threads)
    BY <1>2, <1>4 DEF wait_queue_timeout_handler
  <2>3. TimerTypeOK'
    BY <1>4, <2>2, Parts DEF wait_queue_timeout_handler, TimerTypeOK
  <2>4. /\ UNCHANGED <<wake, halted>>
        /\ irq' = "INT_RESCHEDULE" \/ irq' = irq
    BY <1>4 DEF wait_queue_timeout_handler
  <2>5. CpuTypeOK'
    BY <2>4, Parts, Zenon DEF CpuTypeOK
  <2>6. CASE StillBlocked(t)
    <3> DEFINE q == blocking_wait_queue[t]
    <3>1. /\ thread_unblock_from_wait_queue(t, ERR_TIMED_OUT)
          /\ UNCHANGED <<remaining_quantum, current_thread>>
      BY <1>4, <2>6 DEF wait_queue_timeout_handler
    <3>2. [state EXCEPT ![t] = "READY"] \in [Threads -> States]
      BY <1>0 DEF States
    <3>3. SchedOK'
      BY <2>2, <3>1, <3>2, EnqueueOK DEF thread_unblock_from_wait_queue
    <3>4. wait_list' \in [WaitQueues -> Seq(Threads)]
      <4>1. wait_list \in [WaitQueues -> Seq(Threads)]
        BY Parts DEF WaitTypeOK
      <4>2. wait_list' = [wait_list EXCEPT ![q] = list_delete(wait_list[q], t)]
        BY <3>1 DEF thread_unblock_from_wait_queue
      <4>3. CASE q \in WaitQueues
        <5>1. list_delete(wait_list[q], t) \in Seq(Threads)
          BY <4>1, <4>3, DeleteType
        <5> QED BY <4>1, <4>2, <5>1
      <4>4. CASE q \notin WaitQueues
        BY ONLY <4>1, <4>2, <4>4
      <4> QED BY <4>3, <4>4
    <3>5. WaitTypeOK'
      BY <2>2, <3>1, <3>4, ReleaseOK DEF thread_unblock_from_wait_queue, Errors
    <3> QED BY <2>1, <2>3, <2>5, <3>3, <3>5, Parts
  <2>7. CASE ~StillBlocked(t)
    <3>1. UNCHANGED <<schedVars, waitVars>>
      BY <1>4, <2>7 DEF wait_queue_timeout_handler, schedVars
    <3>2. SchedOK' /\ WaitTypeOK'
      BY <3>1, Parts, Frames
    <3> QED BY <2>1, <2>3, <2>5, <3>2, Parts
  <2> QED BY <2>6, <2>7
<1>5. CASE timer_tick_return
  <2> DEFINE rem == [remaining_quantum EXCEPT ![c] = IF @ > 0 THEN @ - 1 ELSE 0]
  <2>1. NodeTypeOK' /\ WaitTypeOK' /\ TimerTypeOK' /\ RestTypeOK'
    BY <1>5, Parts, Frames DEF timer_tick_return
  <2>2. CpuTypeOK'
    BY <1>5, Parts DEF timer_tick_return, CpuTypeOK
  <2>3. rem \in [Threads -> 0 .. QUANTUM]
    <3>1. remaining_quantum[c] \in 0 .. QUANTUM
      BY Current
    <3>2. (IF remaining_quantum[c] > 0 THEN remaining_quantum[c] - 1 ELSE 0) \in 0 .. QUANTUM
      BY <3>1, SizeAssumption
    <3> QED BY <3>2, Current
  <2>4. thread_preempt(rem)
          \/ (/\ remaining_quantum' = rem
              /\ UNCHANGED <<state, run_queue, run_queue_bitmap, current_thread, ctlVars>>)
    BY <1>5 DEF timer_tick_return
  <2> HIDE DEF rem
  <2>5. CASE thread_preempt(rem)
    <3> DEFINE r == IF thread_is_idle(c) THEN RunQueue
                    ELSE IF rem[c] > 0 THEN insert_in_run_queue_head(RunQueue, c, priority[c])
                    ELSE insert_in_run_queue_tail(RunQueue, c, priority[c])
    <3>1. r \in RunQueues /\ Exact(r)
      BY Current, InsertHead, InsertTail
    <3>2. StatesOnSwitch(c) \in [Threads -> States]
      BY <1>0 DEF StatesOnSwitch, States
    <3>3. thread_resched(StatesOnSwitch(c), r, rem, pc, 1)
      BY <2>5 DEF thread_preempt
    <3>4. SchedOK' /\ CtlTypeOK'
      <4> HIDE DEF r
      <4> QED BY <1>0, <2>3, <3>1, <3>2, <3>3, ReschedOK
    <3> QED BY <2>1, <2>2, <3>4, Parts
  <2>6. CASE /\ remaining_quantum' = rem
             /\ UNCHANGED <<state, run_queue, run_queue_bitmap, current_thread, ctlVars>>
    <3>1. SchedOK'
      BY <2>3, <2>6, Parts DEF SchedOK, SchedTypeOK, RunQueue, BitmapExact
    <3>2. CtlTypeOK'
      BY <2>6, Parts, Frames
    <3> QED BY <2>1, <2>2, <3>1, <3>2, Parts
  <2> QED BY <2>4, <2>5, <2>6
<1> QED BY <1>1, <1>3, <1>4, <1>5 DEF TimerInterrupt

-----------------------------------------------------------------------------
(* start_kernel leaves the tables well formed. *)
LEMMA InitOK == Init => IInv
<1> SUFFICES ASSUME Init PROVE IInv
  OBVIOUS
<1>1. SchedTypeOK
  <2>1. <<INIT_THREAD_ID>> \in Seq(Threads) /\ << >> \in Seq(Threads)
    BY ConstantFacts
  <2>2. RunQueue \in RunQueues
    BY <2>1, SizeAssumption DEF Init, RunQueue, RunQueues
  <2> QED BY <2>2, ConstantFacts, SizeAssumption DEF Init, SchedTypeOK, States
<1>2. BitmapExact
  BY SizeAssumption DEF Init, BitmapExact, list_is_empty
<1>3. NodeTypeOK
  <2>1. FreeListAtInit \in Seq(Threads)
    BY SizeAssumption DEF FreeListAtInit, Threads, MAX_THREAD_ID
  <2>2. <<IDLE_THREAD_ID, INIT_THREAD_ID>> \in Seq(Threads)
    BY ConstantFacts
  <2> QED BY <2>1, <2>2, ConstantFacts DEF Init, NodeTypeOK
<1>4. WaitTypeOK
  BY DEF Init, WaitTypeOK, Errors
<1>5. TimerTypeOK
  BY DEF Init, TimerTypeOK, Handlers
<1>6. CtlTypeOK
  BY DEF Init, CtlTypeOK, Labels, IntsOn
<1>7. RestTypeOK
  BY ConstantFacts, SizeAssumption DEF Init, RestTypeOK
<1>8. CpuTypeOK
  BY NoWakeType DEF Init, CpuTypeOK
<1> QED BY <1>1, <1>2, <1>3, <1>4, <1>5, <1>6, <1>7, <1>8 DEF IInv, TypeOK

(* Every step of the kernel, of its clients and of the timer keeps IInv. *)
LEMMA NextOK == IInv /\ [Next]_vars => IInv'
<1> SUFFICES ASSUME IInv, [Next]_vars PROVE IInv'
  OBVIOUS
<1>1. CASE UNCHANGED vars
  <2>1. /\ UNCHANGED <<schedVars, nodeVars, waitVars, timerVars, ctlVars>>
        /\ UNCHANGED <<priority, thread_preempt_lock, arg>>
        /\ UNCHANGED <<wake, irq, halted>>
    BY <1>1 DEF vars
  <2> QED BY <2>1, Parts, Frames
<1>2. CASE ThreadStep
  BY <1>2, SchedSteps, CreateSteps, DetachSteps, JoinSteps, ExitSteps, BlockSteps,
     WakeOneStep, WakeAllSteps DEF ThreadStep
<1>3. CASE os_timer_tick \/ os_timer_tick_early \/ TimerInterrupt
  BY <1>3, TimerSteps
<1>4. CASE exception_die
  BY <1>1, <1>4 DEF exception_die
<1> QED BY <1>1, <1>2, <1>3, <1>4 DEF Next

(* The kernel's variables keep their types, whatever the clients call:     *)
(* every index taken from a queue, a list or the bitmap is a valid one.    *)
THEOREM TypeCorrect == Spec => []TypeOK
<1>1. IInv => TypeOK
  BY DEF IInv
<1> QED BY InitOK, NextOK, <1>1, PTL DEF Spec

(* get_new_thread's bitmap is exact, whatever the clients call: the        *)
(* assertion that a queue whose bit is set is not empty never fails.       *)
THEOREM BitmapCorrect == Spec => []BitmapExact
<1>1. IInv => BitmapExact
  BY DEF IInv
<1> QED BY InitOK, NextOK, <1>1, PTL DEF Spec
=============================================================================
