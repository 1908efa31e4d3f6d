------------------------------ MODULE StepProofs ------------------------------
(***************************************************************************)
(* What the steps of the kernel do to the threads, their nodes, the wait   *)
(* queues and the timers, with the choice of the next thread left out:     *)
(* thread_resched only moves threads between READY and RUNNING.            *)
(***************************************************************************)
EXTENDS QueueProofs

(* The states are now st, but for who has the CPU among those that want it.*)
Becomes(st) ==
  \A t \in Threads : state'[t] = st[t] \/ (state'[t] \in Live /\ st[t] \in Live)

(* Whoever is in the queues r wants the CPU. *)
AllLive(r, st) == \A p \in Levels : \A t \in Range(r.q[p]) : st[t] \in Live

(* A thread inside printf is counted, and no other. *)
Counts ==
  \/ /\ UNCHANGED thread_preempt_lock
     /\ \A t \in Threads : pc'[t] = "printf" <=> pc[t] = "printf"
  \/ /\ thread_preempt_lock' = thread_preempt_lock + 1
     /\ \E t \in Threads : /\ pc[t] # "printf" /\ pc'[t] = "printf"
                           /\ \A u \in Threads \ {t} : pc'[u] = pc[u]
  \/ /\ thread_preempt_lock' = IF thread_preempt_lock > 0 THEN thread_preempt_lock - 1
                               ELSE thread_preempt_lock
     /\ \E t \in Threads : /\ pc[t] = "printf" /\ pc'[t] # "printf"
                           /\ \A u \in Threads \ {t} : pc'[u] = pc[u]

LEMMA QueuesLive ==
  ASSUME Coherent, NEW st, \A t \in InLine : st[t] \in Live
  PROVE  AllLive(RunQueue, st)
<1>1. Holds(RunQueue.q, InLine, priority)
  BY Facts, QueuedHolds
<1> QED BY <1>1 DEF Holds, AllLive

LEMMA InsertLive ==
  ASSUME NEW r \in RunQueues, NEW st, AllLive(r, st), NEW t \in Threads, st[t] \in Live,
         NEW p \in Levels
  PROVE  /\ AllLive(insert_in_run_queue_head(r, t, p), st)
         /\ AllLive(insert_in_run_queue_tail(r, t, p), st)
<1> DEFINE a == list_add_tail(r.q[p], t)
           q == [r.q EXCEPT ![p] = a]
<1>1. r.q \in [Levels -> Seq(Threads)]
  BY DEF RunQueues
<1>2. Range(a) = Range(r.q[p]) \cup {t}
  BY <1>1, AddTail
<1> HIDE DEF a
<1>3. \A l \in Levels : \A u \in Range(q[l]) : st[u] \in Live
  BY <1>1, <1>2 DEF AllLive
<1>4. /\ insert_in_run_queue_head(r, t, p).q = q
      /\ insert_in_run_queue_tail(r, t, p).q = q
  BY DEF insert_in_run_queue_head, insert_in_run_queue_tail, a, list_add_head, list_add_tail
<1> HIDE DEF q
<1> QED BY <1>3, <1>4 DEF AllLive

(* thread_resched gives the CPU to one of those that want it. *)
LEMMA ReschedLive ==
  ASSUME NEW st \in [Threads -> States], NEW r \in RunQueues, Exact(r),
         NEW rem, NEW k, NEW lk, thread_resched(st, r, rem, k, lk),
         AllLive(r, st), st[IDLE_THREAD_ID] \in Live
  PROVE  Becomes(st) /\ pc' = k /\ current_thread' \in Threads
<1> DEFINE m == Min(r.bits)
           new == get_new_thread(r)
<1>1. new \in Threads /\ st[new] \in Live
  <2>1. CASE r.bits # {}
    <3>1. r.bits \in SUBSET Nat /\ r.bits \subseteq Levels
      BY ConstantFacts DEF RunQueues
    <3>2. m \in r.bits /\ m \in Levels
      BY <2>1, <3>1, MinIsLeast
    <3> HIDE DEF m
    <3>3. r.q[m] \in Seq(Threads) /\ ~list_is_empty(r.q[m])
      BY <3>2 DEF RunQueues, Exact
    <3>4. Head(r.q[m]) \in Threads /\ Head(r.q[m]) \in Range(r.q[m])
      <4>1. Head(r.q[m]) \in Threads /\ list_in_list(r.q[m], Head(r.q[m]))
        BY <3>3, RemoveHead
      <4> QED BY <4>1 DEF list_in_list
    <3>5. new = Head(r.q[m])
      BY <2>1, <3>3 DEF get_new_thread, m
    <3> HIDE DEF new
    <3> QED BY <3>2, <3>4, <3>5 DEF AllLive
  <2>2. CASE r.bits = {}
    BY <2>2, ConstantFacts DEF get_new_thread
  <2> QED BY <2>1, <2>2
<1>2. state' = [st EXCEPT ![new] = "RUNNING"] /\ current_thread' = new /\ pc' = k
  BY DEF thread_resched
<1> HIDE DEF new
<1> QED BY <1>1, <1>2 DEF Becomes, Live

-----------------------------------------------------------------------------
(* Steps that move the current thread on in its code, give the CPU to      *)
(* another thread or advance the clock.                                    *)
Plain == {"user", "get_free", "yield", "print", "printf"}

Walks ==
  /\ Becomes(state) /\ state[current_thread] \in Live
  /\ \A t \in Threads :
        /\ pc'[t] # "wake_all"
        /\ pc'[t] # pc[t] => /\ t = current_thread /\ pc'[t] \in Plain
                             /\ pc[t] \in Plain \cup {"start", "wake_all"}
  /\ UNCHANGED <<nodeVars, waitVars, timer_queue, callback, arg>>
  /\ UNCHANGED due \/ Advance

(* The current thread calls a function that waits: it is in state s now.   *)
Stops(s, l) ==
  /\ Becomes([state EXCEPT ![current_thread] = s])
  /\ state[current_thread] = "RUNNING" /\ pc[current_thread] = "user"
  /\ pc' = [pc EXCEPT ![current_thread] = l]

(* It enters wait_queue_wake_all, and is in state s but for the queueing.  *)
WakesAll(next, s) ==
  /\ Becomes([state EXCEPT ![current_thread] = s])
  /\ state[current_thread] = "RUNNING" /\ pc[current_thread] = "user"
  /\ pc' = [pc EXCEPT ![current_thread] = "wake_all"]
  /\ UNCHANGED <<nodeVars, waitVars, timerVars, current_thread>>
  /\ wake'.next = next /\ (next # "user" => ~wake'.reschedule)

(* Thread t, taken from the wait queue q it is blocked on, is READY. *)
Wakes1(q, t) ==
  /\ Becomes([state EXCEPT ![t] = "READY"])
  /\ t \in Threads /\ state[t] = "BLOCKED" /\ q \in WaitQueues /\ blocking_wait_queue[t] = q
  /\ \/ pc[t] = "wait"
     \/ /\ pc[t] = "join" /\ arg[t] = current_thread
        /\ state[current_thread] = "DEATH" /\ pc[current_thread] = "wake_all"
  /\ wait_count' = [wait_count EXCEPT ![q] = @ - 1]
  /\ blocking_wait_queue' = [blocking_wait_queue EXCEPT ![t] = NULL]
  /\ \E l \in Seq(Threads) :
        /\ wait_list' = [wait_list EXCEPT ![q] = l]
        /\ Len(l) = Len(wait_list[q]) - 1 /\ IsInjective(l)
        /\ Range(l) = Range(wait_list[q]) \ {t}
  /\ UNCHANGED <<nodeVars, callback, due, pc, arg>>

-----------------------------------------------------------------------------
(* A call of thread_resched with the run queues as they are. *)
LEMMA LeaveLive ==
  ASSUME Coherent, NEW st \in [Threads -> States],
         \A t \in InLine : st[t] = state[t], st[IDLE_THREAD_ID] \in Live,
         NEW rem, NEW k, NEW lk, thread_resched(st, RunQueue, rem, k, lk)
  PROVE  Becomes(st) /\ pc' = k /\ current_thread' \in Threads
<1>1. AllLive(RunQueue, st)
  BY QueuesLive DEF InLine, Waiting, Live
<1> QED BY <1>1, Facts, ReschedLive

(* A call of it by a thread that goes to a queue first. *)
LEMMA RequeueLive ==
  ASSUME Coherent, state[current_thread] = "RUNNING", NEW p \in Levels,
         NEW st \in [Threads -> States], st[current_thread] \in Live,
         \A t \in Threads : t # current_thread => st[t] = state[t],
         NEW r, \/ r = insert_in_run_queue_head(RunQueue, current_thread, p)
                \/ r = insert_in_run_queue_tail(RunQueue, current_thread, p)
                \/ r = RunQueue,
         NEW rem, NEW k, NEW lk, thread_resched(st, r, rem, k, lk)
  PROVE  Becomes(state) /\ pc' = k /\ current_thread' \in Threads
<1>1. AllLive(RunQueue, st)
  BY Facts, QueuesLive DEF InLine, Waiting, Live
<1>2. r \in RunQueues /\ Exact(r) /\ AllLive(r, st)
  BY <1>1, Facts, InsertHead, InsertTail, InsertLive
<1>3. st[IDLE_THREAD_ID] \in Live
  BY Facts DEF IdleStays
<1>4. Becomes(st) /\ pc' = k /\ current_thread' \in Threads
  BY <1>2, <1>3, ReschedLive
<1> QED BY <1>4 DEF Becomes, Live

(* thread_yield, thread_set_priority and the end of the timer interrupt. *)
LEMMA YieldWalks ==
  ASSUME Coherent,
         \/ thread_yield \/ timer_tick_return
         \/ \E p \in -1 .. NUM_PRIORITY : thread_set_priority(p)
  PROVE  Walks /\ Counts
<1> DEFINE c == current_thread
<1> USE Facts
<1>0. ASSUME pc[c] # "wake_all"
      PROVE  state[c] = "RUNNING" /\ \A t \in Threads : pc[t] # "wake_all"
  BY <1>0, Running
<1>1. CASE thread_yield
  <2> DEFINE r == IF thread_is_idle(c) THEN RunQueue
                  ELSE insert_in_run_queue_tail(RunQueue, c, priority[c])
             st == StatesOnSwitch(c)
             rem == [remaining_quantum EXCEPT ![c] = 0]
             k == [pc EXCEPT ![c] = IF c = IDLE_THREAD_ID THEN "print" ELSE "user"]
  <2>1. /\ thread_resched(st, r, rem, k, 1) /\ pc[c] \in {"yield", "user"}
        /\ UNCHANGED <<nodeVars, waitVars, timerVars, thread_preempt_lock, arg>>
    BY <1>1 DEF thread_yield, Client
  <2>2. st = [state EXCEPT ![c] = "READY"] /\ st \in [Threads -> States]
    BY DEF StatesOnSwitch, States
  <2>3. st[c] \in Live /\ \A t \in Threads : t # c => st[t] = state[t]
    BY <2>2 DEF Live
  <2> DEFINE p == priority[c]
  <2>4. p \in Levels /\ (r = RunQueue \/ r = insert_in_run_queue_tail(RunQueue, c, p))
    OBVIOUS
  <2> HIDE DEF st, rem, r, p
  <2>5. Becomes(state) /\ pc' = k
    <3> HIDE DEF k
    <3>1. state[current_thread] = "RUNNING" /\ thread_resched(st, r, rem, k, 1)
      BY <1>0, <2>1
    <3> QED BY ONLY Coherent, <2>2, <2>3, <2>4, <3>1, RequeueLive
  <2>6. \A t \in Threads :
           \/ pc'[t] # "wake_all" /\ pc'[t] # "printf" /\ pc[t] # "printf"
           \/ pc'[t] = pc[t] /\ pc[t] # "wake_all"
    BY <1>0, <2>1, <2>5
  <2>7. \A t \in Threads : pc'[t] # pc[t] => t = c /\ pc'[t] \in {"print", "user"}
    BY <2>5
  <2>8. state[c] = "RUNNING"
    BY <1>0, <2>1
  <2>9. Counts
    BY <2>1, <2>6 DEF Counts
  <2> QED BY <2>1, <2>5, <2>6, <2>7, <2>8, <2>9 DEF Walks, timerVars, Plain, Live
<1>2. ASSUME NEW prio \in -1 .. NUM_PRIORITY, thread_set_priority(prio) PROVE Walks /\ Counts
  <2> DEFINE p == Clamp(prio)
             r == insert_in_run_queue_head(RunQueue, c, p)
  <2>0. p \in Levels
    BY SizeAssumption DEF Clamp, Levels, IDLE_PRIORITY, HIGHEST_PRIORITY
  <2>1. /\ thread_resched(state, r, remaining_quantum, pc, 1) /\ pc[c] = "user"
        /\ UNCHANGED <<nodeVars, waitVars, timerVars, thread_preempt_lock, arg>>
    BY <1>2 DEF thread_set_priority, Client
  <2>2. state[c] = "RUNNING" /\ state[c] \in Live
    BY <1>0, <2>1 DEF Live
  <2> HIDE DEF p
  <2>3. Becomes(state) /\ pc' = pc
    BY <2>0, <2>1, <2>2, RequeueLive
  <2> QED BY <1>0, <2>1, <2>2, <2>3 DEF Walks, Counts, timerVars
<1>3. CASE timer_tick_return
  <2> DEFINE rem == [remaining_quantum EXCEPT ![c] = IF @ > 0 THEN @ - 1 ELSE 0]
  <2>1. /\ irq # "none"
        /\ \/ thread_preempt(rem)
           \/ UNCHANGED <<state, pc>>
        /\ UNCHANGED <<nodeVars, waitVars, timerVars, thread_preempt_lock, arg>>
    BY <1>3 DEF timer_tick_return, schedVars, ctlVars
  <2>2. state[c] = "RUNNING" /\ state[c] \in Live /\ \A t \in Threads : pc[t] # "wake_all"
    BY <1>0, <2>1 DEF CurrentRuns, IntsOn, Live
  <2>3. CASE thread_preempt(rem)
    <3> DEFINE r == IF thread_is_idle(c) THEN RunQueue
                    ELSE IF rem[c] > 0 THEN insert_in_run_queue_head(RunQueue, c, priority[c])
                    ELSE insert_in_run_queue_tail(RunQueue, c, priority[c])
               st == StatesOnSwitch(c)
    <3>1. thread_resched(st, r, rem, pc, 1)
      BY <2>3 DEF thread_preempt
    <3>2. st = [state EXCEPT ![c] = "READY"] /\ st \in [Threads -> States]
      BY DEF StatesOnSwitch, States
    <3>3. st[c] \in Live /\ \A t \in Threads : t # c => st[t] = state[t]
      BY <3>2 DEF Live
    <3> DEFINE p == priority[c]
    <3>4. p \in Levels
      OBVIOUS
    <3>5. \/ r = insert_in_run_queue_head(RunQueue, c, p)
          \/ r = insert_in_run_queue_tail(RunQueue, c, p)
          \/ r = RunQueue
      OBVIOUS
    <3> HIDE DEF st, rem, r, p
    <3>6. Becomes(state) /\ pc' = pc
      BY ONLY Coherent, <2>2, <3>1, <3>2, <3>3, <3>4, <3>5, RequeueLive
    <3> QED BY <2>1, <2>2, <3>6 DEF Walks, Counts, timerVars
  <2>4. CASE UNCHANGED <<state, pc>>
    BY <2>1, <2>2, <2>4 DEF Walks, Counts, Becomes, timerVars
  <2> QED BY <2>1, <2>3, <2>4
<1> QED BY <1>1, <1>2, <1>3

(* The other steps of this kind. *)
LEMMA MoveWalks ==
  ASSUME Coherent,
         \/ initial_thread_func \/ thread_preempt_disable \/ thread_preempt_enable
         \/ thread_create
         \/ get_free_thread_node /\ list_is_empty(g_thread_free_list)
         \/ \E t \in Threads : \/ thread_detach_and_resume(t)
                               \/ thread_resume(t) /\ ~Resumable(t)
         \/ os_timer_tick \/ os_timer_tick_early
  PROVE  Walks /\ Counts
<1> DEFINE c == current_thread
<1> USE Facts
<1>1. /\ UNCHANGED <<state, nodeVars, waitVars, timer_queue, callback, arg>>
      /\ UNCHANGED due \/ Advance
      /\ pc[c] # "wake_all"
      /\ \/ UNCHANGED pc /\ UNCHANGED thread_preempt_lock
         \/ /\ pc[c] \in Plain \cup {"start"}
            /\ \E l \in Plain : /\ pc' = [pc EXCEPT ![c] = l]
                                /\ \/ l # "printf" /\ pc[c] # "printf"
                                      /\ UNCHANGED thread_preempt_lock
                                   \/ l = "printf" /\ pc[c] # "printf"
                                      /\ thread_preempt_lock' = thread_preempt_lock + 1
                                   \/ l # "printf" /\ pc[c] = "printf"
                                      /\ thread_preempt_lock' =
                                           IF thread_preempt_lock > 0
                                           THEN thread_preempt_lock - 1
                                           ELSE thread_preempt_lock
  <2>1. CASE initial_thread_func
    BY <2>1 DEF initial_thread_func, schedVars, timerVars, Plain
  <2>2. CASE thread_preempt_disable
    BY <2>2 DEF thread_preempt_disable, Client, schedVars, timerVars, Plain
  <2>3. CASE thread_preempt_enable
    BY <2>3 DEF thread_preempt_enable, schedVars, timerVars, Plain
  <2>4. CASE thread_create
    BY <2>4 DEF thread_create, Client, schedVars, timerVars, Plain
  <2>5. CASE get_free_thread_node /\ list_is_empty(g_thread_free_list)
    BY <2>5 DEF get_free_thread_node, schedVars, timerVars, nodeVars, Plain
  <2>6. ASSUME NEW t \in Threads, thread_detach_and_resume(t)
        PROVE  /\ UNCHANGED <<state, nodeVars, waitVars, timer_queue, callback, arg, due, pc>>
               /\ pc[c] # "wake_all" /\ UNCHANGED thread_preempt_lock
    BY <2>6 DEF thread_detach_and_resume, Client, schedVars, timerVars
  <2>7. ASSUME NEW t \in Threads, thread_resume(t), ~Resumable(t)
        PROVE  /\ UNCHANGED <<state, nodeVars, waitVars, timer_queue, callback, arg, due, pc>>
               /\ pc[c] # "wake_all" /\ UNCHANGED thread_preempt_lock
    BY <2>7 DEF thread_resume, Client, timerVars
  <2>8. CASE os_timer_tick \/ os_timer_tick_early
    BY <2>8 DEF os_timer_tick, os_timer_tick_early, arch_ints_enabled, IntsOn, schedVars, ctlVars
  <2> QED BY <2>1, <2>2, <2>3, <2>4, <2>5, <2>6, <2>7, <2>8
<1>2. state[c] = "RUNNING" /\ \A t \in Threads : pc[t] # "wake_all"
  BY <1>1, Running
<1>3. \A t \in Threads : /\ pc'[t] # "wake_all"
                         /\ pc'[t] # pc[t] => /\ t = c /\ pc'[t] \in Plain
                                              /\ pc[t] \in Plain \cup {"start", "wake_all"}
  BY <1>1, <1>2 DEF Plain
<1>4. Counts
  BY <1>1 DEF Counts
<1> QED BY <1>1, <1>2, <1>3, <1>4 DEF Walks, Becomes, Live

(* A client's call that changes nothing. *)
LEMMA NothingWalks ==
  ASSUME Coherent, NEW f, Client(f),
         UNCHANGED <<schedVars, nodeVars, waitVars, timerVars, ctlVars, arg,
                     thread_preempt_lock>>
  PROVE  Walks /\ Counts
<1>1. state[current_thread] = "RUNNING" /\ \A t \in Threads : pc[t] # "wake_all"
  BY ClientRuns
<1>2. UNCHANGED <<state, pc, timer_queue, callback, due>>
  BY DEF schedVars, timerVars, ctlVars
<1> QED BY <1>1, <1>2 DEF Walks, Becomes, Counts, Live

(* The end of wait_queue_wake_all, when a client called it. *)
LEMMA WakeAllReturnWalks ==
  ASSUME Coherent, wait_queue_wake_all_return
  PROVE  Walks /\ Counts
<1> DEFINE c == current_thread
           k == [pc EXCEPT ![c] = "user"]
<1>1. /\ InWakeAll /\ wake.next = "user"
      /\ UNCHANGED <<nodeVars, waitVars, timerVars, thread_preempt_lock, arg>>
      /\ \/ thread_resched(state, RunQueue, remaining_quantum, k, 1)
         \/ UNCHANGED state /\ pc' = k
  BY DEF wait_queue_wake_all_return, WakeAllDone, schedVars
<1>2. pc[c] = "wake_all" /\ state[c] \in Live
  BY <1>1, Facts DEF InWakeAll, CurrentRuns, Live
<1>3. Becomes(state) /\ pc' = k
  <2>1. state \in [Threads -> States] /\ state[IDLE_THREAD_ID] \in Live
    BY Facts DEF IdleStays
  <2> HIDE DEF k
  <2>2. CASE thread_resched(state, RunQueue, remaining_quantum, k, 1)
    BY ONLY Coherent, <2>1, <2>2, LeaveLive
  <2> QED BY <1>1, <2>2 DEF Becomes
<1>4. \A t \in Threads : /\ pc'[t] # "wake_all"
                         /\ pc'[t] # pc[t] => t = c /\ pc'[t] = "user"
                         /\ pc'[t] = "printf" <=> pc[t] = "printf"
  BY <1>2, <1>3, Facts DEF PlacesFit
<1>5. Counts
  BY <1>1, <1>4 DEF Counts
<1> QED BY <1>1, <1>2, <1>3, <1>4, <1>5 DEF Walks, Plain, timerVars

-----------------------------------------------------------------------------
(* The calls that wait or end the caller. *)
LEMMA StopSteps ==
  ASSUME Coherent, NEW f, Client(f), NEW s \in States, NEW l, NEW k,
         k = [pc EXCEPT ![current_thread] = l], NEW lk,
         thread_resched([state EXCEPT ![current_thread] = s], RunQueue,
                        remaining_quantum, k, lk)
  PROVE  /\ Stops(s, l)
         /\ l # "printf" /\ UNCHANGED thread_preempt_lock => Counts
<1> DEFINE c == current_thread
           st == [state EXCEPT ![c] = s]
<1>1. /\ c \in Threads \ {IDLE_THREAD_ID} /\ pc[c] = "user" /\ state[c] = "RUNNING"
      /\ c \notin InLine /\ state[IDLE_THREAD_ID] = "READY"
  BY ClientRuns
<1>2. /\ st \in [Threads -> States] /\ st[IDLE_THREAD_ID] \in Live
      /\ \A t \in InLine : st[t] = state[t]
  BY <1>1, Facts DEF Live, InLine
<1>3. Becomes(st) /\ pc' = k
  <2> HIDE DEF st
  <2>1. thread_resched(st, RunQueue, remaining_quantum, k, lk)
    BY DEF st
  <2> QED BY ONLY Coherent, <1>2, <2>1, LeaveLive
<1>4. l # "printf" => \A t \in Threads : pc'[t] = "printf" <=> pc[t] = "printf"
  BY <1>1, <1>3, Facts
<1> QED BY <1>1, <1>3, <1>4 DEF Stops, Counts

LEMMA ExitReschedStep ==
  ASSUME Coherent, thread_exit_resched
  PROVE  /\ Becomes(state) /\ state[current_thread] = "DEATH"
         /\ pc[current_thread] = "wake_all" /\ list_is_empty(wait_list[current_thread])
         /\ pc' = [pc EXCEPT ![current_thread] = "none"]
         /\ UNCHANGED <<nodeVars, waitVars, timerVars, arg>> /\ Counts
<1> DEFINE c == current_thread
           k == [pc EXCEPT ![c] = "none"]
<1>1. /\ thread_resched(state, RunQueue, remaining_quantum, k, 1)
      /\ pc[c] = "wake_all" /\ wake.next = "exit" /\ list_is_empty(wait_list[wake.q])
      /\ UNCHANGED <<nodeVars, waitVars, timerVars, arg, thread_preempt_lock>>
  BY DEF thread_exit_resched, WakeAllDone, InWakeAll
<1>2. state[c] = "DEATH" /\ wake.q = c
  BY <1>1, Facts DEF CurrentRuns, WakeFits, MustYield
<1>3. Becomes(state) /\ pc' = k
  <2>1. state \in [Threads -> States] /\ state[IDLE_THREAD_ID] \in Live
    BY Facts DEF IdleStays
  <2> HIDE DEF k
  <2> QED BY ONLY Coherent, <1>1, <2>1, LeaveLive
<1>4. \A t \in Threads : pc'[t] = "printf" <=> pc[t] = "printf"
  BY <1>1, <1>3, Facts
<1>5. Counts
  BY <1>1, <1>4 DEF Counts
<1> QED BY <1>1, <1>2, <1>3, <1>5

(* The calls that enter wait_queue_wake_all. *)
LEMMA WakeAllSteps1 ==
  ASSUME Coherent, NEW f, Client(f), NEW q, NEW b \in BOOLEAN, NEW e, NEW s, NEW next,
         s = "DEATH" => ~b, s # "DEATH" => s \in Live, next # "user" => ~b,
         WakeAll(q, b, e, s, next), UNCHANGED <<nodeVars, timerVars>>
  PROVE  /\ WakesAll(next, s) /\ wake'.q = q
         /\ UNCHANGED thread_preempt_lock => Counts
<1> DEFINE c == current_thread
           queued == b /\ wait_count[q] > 0
<1>1. /\ c \in Threads /\ pc[c] = "user" /\ state[c] = "RUNNING"
  BY ClientRuns
<1>2. /\ state' = [state EXCEPT ![c] = IF queued THEN "READY" ELSE s]
      /\ pc' = [pc EXCEPT ![c] = "wake_all"]
      /\ UNCHANGED <<current_thread, waitVars>>
      /\ wake'.next = next /\ wake'.reschedule = b /\ wake'.q = q
  BY DEF WakeAll
<1>3. Becomes([state EXCEPT ![c] = s])
  BY <1>1, <1>2 DEF Becomes, Live
<1>4. \A t \in Threads : pc'[t] = "printf" <=> pc[t] = "printf"
  BY <1>1, <1>2, Facts
<1> QED BY <1>1, <1>2, <1>3, <1>4 DEF WakesAll, Counts

-----------------------------------------------------------------------------
(* What Release and the removal from the list have in common. *)
LEMMA Taken ==
  ASSUME Coherent, NEW q \in WaitQueues, NEW t \in Threads, NEW e, NEW l,
         list_in_list(wait_list[q], t),
         \/ t = Head(wait_list[q]) /\ l = list_remove_head(wait_list[q])
         \/ l = list_delete(wait_list[q], t),
         wait_list' = [wait_list EXCEPT ![q] = l]
  PROVE  \E m \in Seq(Threads) :
            /\ wait_list' = [wait_list EXCEPT ![q] = m]
            /\ Len(m) = Len(wait_list[q]) - 1 /\ IsInjective(m)
            /\ Range(m) = Range(wait_list[q]) \ {t}
<1> DEFINE w == wait_list[q]
<1>1. w \in Seq(Threads) /\ IsInjective(w)
  BY Facts DEF IInv, TypeOK, WaitTypeOK, WaitQueueCoherent
<1>2. ~list_is_empty(w)
  BY DEF list_in_list, list_is_empty, Range
<1> HIDE DEF w
<1>3. l \in Seq(Threads) /\ Len(l) = Len(w) - 1 /\ IsInjective(l) /\ Range(l) = Range(w) \ {t}
  <2>1. CASE t = Head(w) /\ l = list_remove_head(w)
    BY <1>1, <1>2, <2>1, RemoveHead
  <2>2. CASE l = list_delete(w, t)
    BY <1>1, <2>2, Delete DEF w
  <2> QED BY <2>1, <2>2 DEF w
<1> QED BY <1>3 DEF w

(* The waiters of a client's queue are in wait_queue_block, those of a     *)
(* thread in thread_join. *)
LEMMA WaiterAt ==
  ASSUME Coherent, NEW t \in Threads, state[t] = "BLOCKED"
  PROVE  /\ blocking_wait_queue[t] \in UserQueues => pc[t] = "wait"
         /\ blocking_wait_queue[t] \in Threads => pc[t] = "join" /\ arg[t] = blocking_wait_queue[t]
<1>1. pc[t] \in {"wait", "join"} /\ arg[t] \in Threads
  BY Facts DEF PlacesFit
<1> QED BY <1>1, Facts, QueueAssumption DEF WaitersFit

LEMMA WakeOneStep1 ==
  ASSUME Coherent, NEW q \in UserQueues, NEW b \in BOOLEAN,
         wait_queue_wake_one(q, b, NO_ERR)
  PROVE  /\ \E t \in Threads : Wakes1(q, t)
         /\ pc[current_thread] = "user" /\ UNCHANGED timer_queue /\ Counts
<1> DEFINE c == current_thread
           t == Head(wait_list[q])
           w == list_remove_head(wait_list[q])
           r0 == IF b THEN insert_in_run_queue_head(RunQueue, c, priority[c])
                 ELSE RunQueue
           r == insert_in_run_queue_head(r0, t, priority[t])
           st == [state EXCEPT ![t] = "READY", ![c] = "READY"]
<1>1. /\ Client("wait_queue_wake_one") /\ ~list_is_empty(wait_list[q])
      /\ UNCHANGED <<nodeVars, timerVars, thread_preempt_lock, arg>>
      /\ wait_list' = [wait_list EXCEPT ![q] = w]
      /\ wait_count' = [wait_count EXCEPT ![q] = @ - 1]
      /\ blocking_wait_queue' = [blocking_wait_queue EXCEPT ![t] = NULL]
      /\ IF b THEN thread_resched(st, r, remaining_quantum, pc, 1)
         ELSE state' = [state EXCEPT ![t] = "READY"] /\ UNCHANGED pc
  BY DEF wait_queue_wake_one, Release, ctlVars
<1>2. /\ c \in Threads \ {IDLE_THREAD_ID} /\ pc[c] = "user" /\ state[c] = "RUNNING"
      /\ state[IDLE_THREAD_ID] = "READY" /\ c \notin InLine
  BY <1>1, ClientRuns
<1>3. q \in WaitQueues /\ wait_list[q] \in Seq(Threads)
  BY ConstantFacts, Facts DEF IInv, TypeOK, WaitTypeOK
<1>4. /\ t \in Threads /\ list_in_list(wait_list[q], t)
      /\ state[t] = "BLOCKED" /\ blocking_wait_queue[t] = q /\ t # c
  BY <1>1, <1>3, RemoveHead, FirstIsBlocked
<1>5. pc[t] = "wait"
  BY <1>4, WaiterAt
<1>6. Becomes([state EXCEPT ![t] = "READY"]) /\ pc' = pc
  <2>1. CASE b
    <3>1. /\ st \in [Threads -> States] /\ st[IDLE_THREAD_ID] \in Live
          /\ st[c] \in Live /\ st[t] \in Live
      BY <1>2, <1>4, Facts DEF States, Live
    <3>2. \A u \in InLine : st[u] \in Live
      BY <1>2, <1>4, Facts DEF InLine, Waiting, Live
    <3>3. priority[c] \in Levels /\ priority[t] \in Levels
      BY <1>2, <1>4, Facts
    <3>4. r0 = insert_in_run_queue_head(RunQueue, c, priority[c])
      BY <2>1
    <3>5. thread_resched(st, r, remaining_quantum, pc, 1)
      BY <1>1, <2>1
    <3> HIDE DEF st, r0
    <3>6. AllLive(RunQueue, st)
      BY <3>2, QueuesLive
    <3>7. r0 \in RunQueues /\ Exact(r0) /\ AllLive(r0, st)
      BY <1>2, <3>1, <3>3, <3>4, <3>6, Facts, InsertHead, InsertLive
    <3> HIDE DEF t
    <3>8. r \in RunQueues /\ Exact(r) /\ AllLive(r, st)
      BY <1>4, <3>1, <3>3, <3>7, InsertHead, InsertLive
    <3> HIDE DEF r
    <3>9. Becomes(st) /\ pc' = pc
      BY <3>1, <3>5, <3>8, ReschedLive
    <3> QED BY <1>2, <1>4, <3>9, Facts DEF Becomes, Live, st
  <2>2. CASE ~b
    BY <1>1, <2>2 DEF Becomes
  <2> QED BY <2>1, <2>2
<1>7. \E m \in Seq(Threads) :
         /\ wait_list' = [wait_list EXCEPT ![q] = m]
         /\ Len(m) = Len(wait_list[q]) - 1 /\ IsInjective(m)
         /\ Range(m) = Range(wait_list[q]) \ {t}
  <2> HIDE DEF t, w
  <2>1. t = Head(wait_list[q]) /\ w = list_remove_head(wait_list[q])
    BY DEF t, w
  <2> QED BY <1>1, <1>3, <1>4, <2>1, Taken
<1>8. UNCHANGED <<callback, due, timer_queue>>
  BY <1>1 DEF timerVars
<1> HIDE DEF t
<1>9. Wakes1(q, t)
  BY <1>1, <1>3, <1>4, <1>5, <1>6, <1>7, <1>8 DEF Wakes1
<1>10. Counts
  BY <1>1, <1>6 DEF Counts
<1> QED BY <1>2, <1>4, <1>8, <1>9, <1>10

LEMMA WakeNextStep ==
  ASSUME Coherent, wake_all_next
  PROVE  /\ \E q \in WaitQueues, t \in Threads : Wakes1(q, t)
         /\ pc[current_thread] = "wake_all" /\ UNCHANGED <<timer_queue, current_thread>>
         /\ wake'.q = wake.q /\ wake'.next = wake.next /\ wake'.reschedule = wake.reschedule
         /\ Counts
<1> DEFINE c == current_thread
           q == wake.q
           t == Head(wait_list[q])
           w == list_remove_head(wait_list[q])
<1>1. /\ pc[c] = "wake_all" /\ ~list_is_empty(wait_list[q])
      /\ UNCHANGED <<nodeVars, timerVars, thread_preempt_lock, arg, pc, current_thread>>
      /\ wait_list' = [wait_list EXCEPT ![q] = w]
      /\ wait_count' = [wait_count EXCEPT ![q] = @ - 1]
      /\ blocking_wait_queue' = [blocking_wait_queue EXCEPT ![t] = NULL]
      /\ state' = [state EXCEPT ![t] = "READY"]
      /\ wake' = [wake EXCEPT !.woken = TRUE]
  BY DEF wake_all_next, Release, ctlVars, InWakeAll
<1>2. q \in WaitQueues /\ wait_list[q] \in Seq(Threads) /\ wake \in Wakes
  BY Facts DEF IInv, TypeOK, WaitTypeOK, CpuTypeOK, Wakes
<1>3. wake'.q = wake.q /\ wake'.next = wake.next /\ wake'.reschedule = wake.reschedule
  BY <1>1, <1>2 DEF Wakes
<1> HIDE DEF q
<1>4. /\ t \in Threads /\ list_in_list(wait_list[q], t)
      /\ state[t] = "BLOCKED" /\ blocking_wait_queue[t] = q /\ t # c
  BY <1>1, <1>2, RemoveHead, FirstIsBlocked
<1>5. \/ pc[t] = "wait"
      \/ pc[t] = "join" /\ arg[t] = c /\ state[c] = "DEATH"
  <2>0. /\ wake.next \in {"user", "detach", "exit"}
        /\ wake.next = "user" => q \in UserQueues
        /\ wake.next # "user" => ~wake.reschedule
        /\ wake.next = "exit" => q = c
        /\ wake.next = "detach" => q \in Threads /\ ~Joined(q)
    BY <1>1, Facts DEF WakeFits, q
  <2>1. CASE wake.next = "user"
    BY <1>4, <2>0, <2>1, WaiterAt
  <2>2. CASE wake.next = "detach"
    <3>1. pc[t] = "join" /\ arg[t] = q
      BY <1>4, <2>0, <2>2, WaiterAt
    <3> QED BY <1>4, <2>0, <2>2, <3>1 DEF Joined
  <2>3. CASE wake.next = "exit"
    <3>1. pc[t] = "join" /\ arg[t] = c
      BY <1>4, <2>0, <2>3, WaiterAt, Facts
    <3>2. state[c] = "DEATH"
      BY <1>1, <2>0, <2>3, Facts DEF CurrentRuns, MustYield
    <3> QED BY <3>1, <3>2
  <2> QED BY <2>0, <2>1, <2>2, <2>3
<1>6. Becomes([state EXCEPT ![t] = "READY"])
  BY <1>1 DEF Becomes
<1>7. \E m \in Seq(Threads) :
         /\ wait_list' = [wait_list EXCEPT ![q] = m]
         /\ Len(m) = Len(wait_list[q]) - 1 /\ IsInjective(m)
         /\ Range(m) = Range(wait_list[q]) \ {t}
  <2>1. t = Head(wait_list[q]) /\ w = list_remove_head(wait_list[q])
    OBVIOUS
  <2> HIDE DEF t, w
  <2> QED BY <1>1, <1>2, <1>4, <2>1, Taken
<1>8. UNCHANGED <<callback, due, timer_queue>>
  BY <1>1 DEF timerVars
<1> HIDE DEF t
<1>9. Wakes1(q, t)
  BY <1>1, <1>2, <1>4, <1>5, <1>6, <1>7, <1>8 DEF Wakes1
<1>10. Counts
  BY <1>1 DEF Counts
<1> QED BY <1>1, <1>2, <1>3, <1>4, <1>8, <1>9, <1>10

(* The timeout of a thread that is BLOCKED takes it from its queue. *)
LEMMA TimeoutStep ==
  ASSUME Coherent, wait_queue_timeout_handler
  PROVE  LET t == Head(timer_queue) IN
         /\ t \in Threads /\ pc[t] = "wait" /\ state[current_thread] = "RUNNING"
         /\ callback[t] = "wait_queue_timeout_handler"
         /\ pc[current_thread] \in IntsOn /\ UNCHANGED current_thread
         /\ timer_queue' = list_remove_head(timer_queue) /\ ~list_is_empty(timer_queue)
         /\ IF state[t] = "BLOCKED" THEN \E q \in WaitQueues : Wakes1(q, t)
            ELSE UNCHANGED <<state, nodeVars, waitVars, callback, due, pc, arg>>
         /\ Counts
<1> DEFINE c == current_thread
           t == Head(timer_queue)
           q == blocking_wait_queue[t]
           w == list_delete(wait_list[q], t)
<1>1. /\ Due("wait_queue_timeout_handler")
      /\ UNCHANGED <<nodeVars, due, callback, pc, arg, current_thread, thread_preempt_lock>>
  BY DEF wait_queue_timeout_handler, ctlVars
<1>2. /\ t \in Threads /\ callback[t] = "wait_queue_timeout_handler" /\ state[c] = "RUNNING"
      /\ pc[c] \in IntsOn
      /\ timer_queue' = list_remove_head(timer_queue) /\ ~list_is_empty(timer_queue)
  BY <1>1, FirstTimer
<1>3. pc[t] = "wait"
  BY <1>2, Facts DEF TimersFit
<1>4. ASSUME state[t] = "BLOCKED" PROVE \E p \in WaitQueues : Wakes1(p, t)
  <2>1. /\ wait_list' = [wait_list EXCEPT ![q] = w]
        /\ wait_count' = [wait_count EXCEPT ![q] = @ - 1]
        /\ blocking_wait_queue' = [blocking_wait_queue EXCEPT ![t] = NULL]
        /\ state' = [state EXCEPT ![t] = "READY"]
    BY <1>4 DEF wait_queue_timeout_handler, StillBlocked, thread_unblock_from_wait_queue, Release
  <2>2. q \in WaitQueues
    BY <1>2, <1>3, <1>4, Facts, ConstantFacts DEF WaitersFit
  <2>3. list_in_list(wait_list[q], t)
    BY <1>2, <1>4, <2>2, Facts DEF WaitQueueCoherent, list_in_list
  <2>4. w = list_delete(wait_list[q], t) /\ blocking_wait_queue[t] = q
    OBVIOUS
  <2>5. Becomes([state EXCEPT ![t] = "READY"])
    BY <2>1 DEF Becomes
  <2> HIDE DEF t, q, w
  <2>6. \E m \in Seq(Threads) :
           /\ wait_list' = [wait_list EXCEPT ![q] = m]
           /\ Len(m) = Len(wait_list[q]) - 1 /\ IsInjective(m)
           /\ Range(m) = Range(wait_list[q]) \ {t}
    BY <1>2, <2>1, <2>2, <2>3, <2>4, Taken
  <2>7. Wakes1(q, t)
    BY <1>1, <1>2, <1>3, <1>4, <2>1, <2>2, <2>4, <2>5, <2>6 DEF Wakes1, t
  <2> QED BY <2>2, <2>7
<1>5. ASSUME state[t] # "BLOCKED"
      PROVE  UNCHANGED <<state, nodeVars, waitVars, callback, due, pc, arg>>
  BY <1>1, <1>5 DEF wait_queue_timeout_handler, StillBlocked
<1>6. Counts
  BY <1>1 DEF Counts
<1> HIDE DEF t, q
<1>7. IF state[t] = "BLOCKED" THEN \E p \in WaitQueues : Wakes1(p, t)
      ELSE UNCHANGED <<state, nodeVars, waitVars, callback, due, pc, arg>>
  BY <1>1, <1>4, <1>5
<1> QED BY <1>1, <1>2, <1>3, <1>6, <1>7 DEF t
=============================================================================
