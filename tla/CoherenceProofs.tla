--------------------------- MODULE CoherenceProofs ---------------------------
(***************************************************************************)
(* Every step of a kernel with disciplined clients keeps the threads, the  *)
(* nodes, the wait queues and the timers in order, and so Coherent is an   *)
(* inductive invariant.                                                    *)
(***************************************************************************)
EXTENDS StepProofs, FiniteSetTheorems

(* Coherent without the types, the CPU and the counter. *)
Fits == ThreadsFit /\ WaitQueueCoherent /\ TimersListed /\ TimersFit

(* The wait queues and who is BLOCKED on them stay as they are. *)
LEMMA WaitStay ==
  ASSUME Coherent, UNCHANGED waitVars,
         \A t \in Threads : state'[t] = "BLOCKED" <=> state[t] = "BLOCKED"
  PROVE  WaitQueueCoherent'
<1>1. UNCHANGED <<wait_list, wait_count, blocking_wait_queue>>
  BY DEF waitVars
<1> QED BY <1>1, Facts DEF WaitQueueCoherent

(* The clock does not change the order of the timers. *)
LEMMA TimersStay ==
  ASSUME Coherent, UNCHANGED timer_queue, UNCHANGED due \/ Advance
  PROVE  TimersListed' /\ \A t \in Threads : Armed(t)' <=> Armed(t)
<1>1. TimersListed /\ timer_queue \in Seq(Threads) /\ due \in [Threads -> Nat]
  BY Facts DEF IInv, TypeOK, TimerTypeOK
<1>2. \A i \in DOMAIN timer_queue : timer_queue[i] \in Threads
  BY <1>1, LenProperties, ElementOfSeq
<1>3. CASE Advance
  BY <1>1, <1>2, <1>3 DEF TimersListed, Sorted, Advance, Armed
<1>4. CASE UNCHANGED due
  BY <1>1, <1>4 DEF TimersListed, Sorted, Armed
<1> QED BY <1>3, <1>4

LEMMA WalksFit ==
  ASSUME Coherent, Walks, current_thread' \in Threads
  PROVE  Fits'
<1> DEFINE c == current_thread
<1> USE Facts
<1>1. /\ \A t \in Threads : state'[t] = state[t] \/ (state'[t] \in Live /\ state[t] \in Live)
      /\ state[c] \in Live
      /\ \A t \in Threads :
            /\ pc'[t] # "wake_all"
            /\ pc'[t] # pc[t] => /\ t = c /\ pc'[t] \in Plain
                                 /\ pc[t] \in Plain \cup {"start", "wake_all"}
      /\ UNCHANGED <<detached, g_thread_free_list, thread_list, blocking_wait_queue,
                     callback, arg, timer_queue>>
      /\ UNCHANGED waitVars /\ (UNCHANGED due \/ Advance)
  BY DEF Walks, Becomes, nodeVars, waitVars
<1>2. PlacesFit'
  BY <1>1 DEF PlacesFit, Exiting, Live, Plain
<1>3. WakeFits'
  BY <1>1, Facts DEF WakeFits, PlacesFit
<1>4. WaitersFit'
  BY <1>1 DEF WaitersFit, Handle, Live, Plain
<1>5. NodesFit'
  BY <1>1 DEF NodesFit, Free, Listed, Live, Plain
<1>6. WaitQueueCoherent'
  BY <1>1, WaitStay DEF Live
<1>7. TimersListed' /\ \A t \in Threads : Armed(t)' <=> Armed(t)
  BY <1>1, TimersStay
<1>8. TimersFit'
  BY <1>1, <1>7 DEF TimersFit, Live, Plain
<1> QED BY <1>2, <1>3, <1>4, <1>5, <1>6, <1>7, <1>8 DEF Fits, ThreadsFit

(* A thread that is BLOCKED on the queue of a thread joins it. *)
LEMMA NobodyWaits ==
  ASSUME Coherent, NEW a \in Threads, ~Listed(a)
  PROVE  \A u \in Threads : ~(state[u] = "BLOCKED" /\ blocking_wait_queue[u] = a)
BY WaiterAt, Facts DEF WaitersFit, Handle, Listed

(* get_free_thread_node takes a node that nobody else has. *)
LEMMA FetchFits ==
  ASSUME Coherent, get_free_thread_node, ~list_is_empty(g_thread_free_list)
  PROVE  Fits' /\ Counts
<1> DEFINE c == current_thread
           a == Head(g_thread_free_list)
<1> USE Facts
<1>1. /\ pc[c] = "get_free" /\ pc' = [pc EXCEPT ![c] = "init_node"]
      /\ arg' = [arg EXCEPT ![c] = a]
      /\ g_thread_free_list' = list_remove_head(g_thread_free_list)
      /\ UNCHANGED <<state, current_thread, detached, thread_list, blocking_wait_queue,
                     callback, timer_queue, due, thread_preempt_lock>>
      /\ UNCHANGED waitVars
  BY DEF get_free_thread_node, schedVars, timerVars, waitVars
<1>2. /\ a \in Threads /\ Free(a) /\ IsInjective(g_thread_free_list)'
      /\ \A t \in Threads : Free(t)' <=> Free(t) /\ t # a
  <2>1. g_thread_free_list \in Seq(Threads) /\ IsInjective(g_thread_free_list)
    BY DEF IInv, TypeOK, NodeTypeOK, NodesFit
  <2>2. /\ a \in Threads /\ list_in_list(g_thread_free_list, a)
        /\ IsInjective(list_remove_head(g_thread_free_list))
        /\ Range(list_remove_head(g_thread_free_list)) = Range(g_thread_free_list) \ {a}
    BY <2>1, RemoveHead
  <2> QED BY <1>1, <2>2 DEF Free, list_in_list
<1> HIDE DEF a
<1>3. ~Listed(a) /\ \A v \in Threads : pc[v] = "init_node" => arg[v] # a
  BY <1>2 DEF NodesFit
<1>4. PlacesFit'
  BY <1>1 DEF PlacesFit, Exiting
<1>5. WakeFits'
  BY <1>1 DEF WakeFits
<1>6. WaitersFit'
  BY <1>1 DEF WaitersFit, Handle
<1>7. NodesFit'
  <2>1. ASSUME NEW t \in Threads
        PROVE  /\ ~(Free(t)' /\ Listed(t)')
               /\ ~Free(t)' /\ ~Listed(t)' => \E u \in Threads : pc'[u] = "init_node" /\ arg'[u] = t
               /\ ~Listed(t)' => pc'[t] = "none"
               /\ Listed(t)' /\ pc'[t] = "none" => state'[t] = "DEATH"
    <3>1. Listed(t)' <=> Listed(t)
      BY <1>1 DEF Listed
    <3>2. ~Listed(t) => t # c
      BY <1>1 DEF NodesFit
    <3>3. ASSUME NEW u \in Threads, pc[u] = "init_node", arg[u] = t
          PROVE  pc'[u] = "init_node" /\ arg'[u] = t
      BY <1>1, <3>3
    <3> QED BY <1>1, <1>2, <3>1, <3>2, <3>3 DEF NodesFit
  <2>2. ASSUME NEW u \in Threads, pc'[u] = "init_node"
        PROVE  /\ ~Free(arg[u])' /\ ~Listed(arg[u])'
               /\ \A v \in Threads : pc'[v] = "init_node" /\ arg'[v] = arg'[u] => v = u
    <3>1. CASE u = c
      BY <1>1, <1>2, <1>3, <2>2, <3>1 DEF Free, Listed, list_in_list
    <3>2. CASE u # c
      <4>1. pc[u] = "init_node" /\ arg'[u] = arg[u] /\ arg[u] # a
        BY <1>1, <1>3, <2>2, <3>2
      <4>2. ~Free(arg[u]) /\ ~Listed(arg[u])
        BY <4>1 DEF NodesFit
      <4>3. ~Free(arg[u])' /\ ~Listed(arg[u])'
        BY <1>1, <1>2, <4>1, <4>2 DEF Free, Listed, list_in_list
      <4> QED BY <1>1, <1>3, <2>2, <4>1, <4>3 DEF NodesFit
    <3> QED BY <3>1, <3>2
  <2>3. IsInjective(thread_list)'
    BY <1>1 DEF NodesFit
  <2> QED BY <1>2, <2>1, <2>2, <2>3 DEF NodesFit
<1>8. WaitQueueCoherent'
  BY <1>1, WaitStay
<1>9. TimersListed' /\ TimersFit'
  BY <1>1, TimersStay DEF TimersFit
<1>10. Counts
  BY <1>1 DEF Counts
<1> QED BY <1>4, <1>5, <1>6, <1>7, <1>8, <1>9, <1>10 DEF Fits, ThreadsFit

(* thread_create makes a thread of a node that nobody refers to. *)
LEMMA PublishFits ==
  ASSUME Coherent, NEW p \in Priorities, thread_create_publish(p)
  PROVE  Fits' /\ Counts
<1> DEFINE c == current_thread
           a == arg[c]
<1> USE Facts
<1>1. /\ pc[c] = "init_node" /\ pc' = [pc EXCEPT ![a] = "start", ![c] = "print"]
      /\ arg' = [arg EXCEPT ![c] = IDLE_THREAD_ID]
      /\ state' = [state EXCEPT ![a] = "SUSPENDED"]
      /\ detached' = detached \ {a}
      /\ blocking_wait_queue' = [blocking_wait_queue EXCEPT ![a] = NULL]
      /\ wait_list' = [wait_list EXCEPT ![a] = << >>]
      /\ wait_count' = [wait_count EXCEPT ![a] = 0]
      /\ thread_list' = list_add_tail(thread_list, a)
      /\ UNCHANGED <<current_thread, g_thread_free_list, callback, timer_queue, due,
                     thread_preempt_lock>>
  BY DEF thread_create_publish, InitNode, timerVars
<1>2. /\ a \in Threads /\ ~Free(a) /\ ~Listed(a) /\ pc[a] = "none" /\ a # c
      /\ state[a] \in {"SUSPENDED", "DEATH"} /\ c \in Threads
      /\ \A v \in Threads : pc[v] = "init_node" /\ arg[v] = a => v = c
  BY <1>1 DEF NodesFit, PlacesFit
<1>3. IsInjective(thread_list)' /\ \A t \in Threads : Listed(t)' <=> Listed(t) \/ t = a
  <2>1. /\ thread_list \in Seq(Threads) /\ IsInjective(thread_list)
        /\ ~list_in_list(thread_list, a)
    BY <1>2 DEF IInv, TypeOK, NodeTypeOK, NodesFit, Listed
  <2>2. /\ IsInjective(list_add_tail(thread_list, a))
        /\ Range(list_add_tail(thread_list, a)) = Range(thread_list) \cup {a}
    BY <1>2, <2>1, AddTail, AddTailDistinct
  <2> QED BY <1>1, <2>2 DEF Listed, list_in_list
<1>4. \A t \in Threads : Free(t)' <=> Free(t)
  BY <1>1 DEF Free
<1>5. \A u \in Threads : ~(state[u] = "BLOCKED" /\ blocking_wait_queue[u] = a)
  BY <1>2, NobodyWaits
<1> HIDE DEF a
<1>6. PlacesFit'
  BY <1>1, <1>2 DEF PlacesFit, Exiting
<1>7. WakeFits'
  BY <1>1, <1>2 DEF WakeFits
<1>8. WaitersFit'
  <2>1. ASSUME NEW u \in Threads, pc[u] = "join"
        PROVE  arg[u] # a /\ arg'[u] = arg[u] /\ u # a /\ u # c /\ Handle(arg[u])'
    <3>1. arg[u] # IDLE_THREAD_ID /\ Listed(arg[u]) /\ arg[u] \in Threads
      BY <2>1 DEF WaitersFit, Handle, Listed
    <3>2. arg'[u] = arg[u]
      BY <1>1, <1>2, <2>1
    <3> QED BY <1>1, <1>2, <1>3, <2>1, <3>1, <3>2 DEF Handle, Listed
  <2>2. \A u \in Threads : pc'[u] \in {"wait", "join"} => pc[u] = pc'[u] /\ u # a
    BY <1>1, <1>2
  <2> QED BY <1>1, <1>2, <2>1, <2>2 DEF WaitersFit
<1>9. NodesFit'
  <2>1. ASSUME NEW t \in Threads
        PROVE  /\ ~(Free(t)' /\ Listed(t)')
               /\ ~Free(t)' /\ ~Listed(t)' => \E u \in Threads : pc'[u] = "init_node" /\ arg'[u] = t
               /\ ~Listed(t)' => pc'[t] = "none"
               /\ Listed(t)' /\ pc'[t] = "none" => state'[t] = "DEATH"
    <3>1. ~Listed(t) => t # c
      BY <1>1 DEF NodesFit
    <3>2. ASSUME NEW u \in Threads, pc[u] = "init_node", arg[u] = t, t # a
          PROVE  pc'[u] = "init_node" /\ arg'[u] = t
      BY <1>1, <1>2, <3>2 DEF a
    <3> QED BY <1>1, <1>2, <1>3, <1>4, <3>1, <3>2 DEF NodesFit
  <2>2. ASSUME NEW u \in Threads, pc'[u] = "init_node"
        PROVE  /\ ~Free(arg[u])' /\ ~Listed(arg[u])'
               /\ \A v \in Threads : pc'[v] = "init_node" /\ arg'[v] = arg'[u] => v = u
    <3>1. pc[u] = "init_node" /\ u # c /\ arg'[u] = arg[u] /\ arg[u] # a /\ arg[u] \in Threads
      BY <1>1, <1>2, <2>2
    <3>2. ~Free(arg[u]) /\ ~Listed(arg[u])
      BY <3>1 DEF NodesFit
    <3>3. ~Free(arg[u])' /\ ~Listed(arg[u])'
      BY <1>1, <1>3, <3>1, <3>2 DEF Free, Listed
    <3>4. \A v \in Threads : pc'[v] = "init_node" => pc[v] = "init_node" /\ arg'[v] = arg[v]
      BY <1>1, <1>2
    <3> QED BY <2>2, <3>1, <3>3, <3>4 DEF NodesFit
  <2>3. IsInjective(g_thread_free_list)'
    BY <1>1 DEF NodesFit
  <2> QED BY <1>3, <2>1, <2>2, <2>3 DEF NodesFit
<1>10. WaitQueueCoherent'
  <2>1. a \in WaitQueues
    BY <1>2, ConstantFacts
  <2>2. /\ wait_list \in [WaitQueues -> Seq(Threads)] /\ wait_count \in [WaitQueues -> Int]
        /\ blocking_wait_queue \in [Threads -> WaitQueues \cup {NULL}]
    BY DEF IInv, TypeOK, WaitTypeOK
  <2>3. IsInjective(<< >>) /\ Range(<< >>) = {} /\ Len(<< >>) = 0
    BY DEF IsInjective, Range
  <2>4. ASSUME NEW q \in WaitQueues
        PROVE  {t \in Threads : state'[t] = "BLOCKED" /\ blocking_wait_queue'[t] = q}
                 = IF q = a THEN {}
                   ELSE {t \in Threads : state[t] = "BLOCKED" /\ blocking_wait_queue[t] = q}
    BY <1>1, <1>2, <1>5, <2>2
  <2>5. ASSUME NEW q \in WaitQueues
        PROVE  /\ wait_count'[q] = Len(wait_list'[q]) /\ IsInjective(wait_list'[q])
               /\ Range(wait_list'[q]) = {t \in Threads : state'[t] = "BLOCKED"
                                                         /\ blocking_wait_queue'[t] = q}
    <3>1. CASE q = a
      BY <1>1, <2>1, <2>2, <2>3, <2>4, <3>1
    <3>2. CASE q # a
      BY <1>1, <2>2, <2>4, <3>2 DEF WaitQueueCoherent
    <3> QED BY <3>1, <3>2
  <2> QED BY <2>5 DEF WaitQueueCoherent
<1>11. TimersListed' /\ TimersFit'
  <2>1. TimersListed' /\ \A t \in Threads : Armed(t)' <=> Armed(t)
    BY <1>1, TimersStay
  <2>2. callback[a] = "none" /\ callback[c] # "wait_queue_timeout_handler"
    BY <1>1, <1>2 DEF TimersFit, IInv, TypeOK, TimerTypeOK, Handlers
  <2> QED BY <1>1, <1>2, <2>1, <2>2 DEF TimersFit
<1>12. Counts
  <2>1. \A t \in Threads : pc'[t] = "printf" <=> pc[t] = "printf"
    BY <1>1, <1>2
  <2> QED BY <1>1, <2>1 DEF Counts
<1> QED BY <1>6, <1>7, <1>8, <1>9, <1>10, <1>11, <1>12 DEF Fits, ThreadsFit

(* thread_resume starts a thread that has never run. *)
LEMMA ResumeFits ==
  ASSUME Coherent, NEW t \in Threads, thread_resume(t), Resumable(t)
  PROVE  Fits' /\ Counts
<1> DEFINE c == current_thread
<1> USE Facts
<1>1. /\ Client("thread_resume") /\ Handle(t) /\ state[t] = "SUSPENDED"
      /\ state' = [state EXCEPT ![t] = "READY"] /\ pc' = [pc EXCEPT ![c] = "yield"]
      /\ UNCHANGED <<current_thread, detached, g_thread_free_list, thread_list,
                     blocking_wait_queue, callback, timer_queue, due, arg,
                     thread_preempt_lock>>
      /\ UNCHANGED waitVars
  BY DEF thread_resume, Resumable, nodeVars, timerVars, waitVars
<1>2. pc[c] = "user" /\ state[c] = "RUNNING" /\ t # c
  BY <1>1, ClientRuns
<1>3. pc[t] = "start"
  BY <1>1 DEF PlacesFit, NodesFit, Handle, Listed
<1>4. PlacesFit'
  BY <1>1, <1>2, <1>3 DEF PlacesFit, Exiting
<1>5. WakeFits'
  BY <1>1, <1>2 DEF WakeFits
<1>6. WaitersFit'
  BY <1>1, <1>2, <1>3 DEF WaitersFit, Handle
<1>7. NodesFit'
  BY <1>1, <1>2, <1>3 DEF NodesFit, Free, Listed
<1>8. WaitQueueCoherent'
  BY <1>1, WaitStay
<1>9. TimersListed' /\ \A u \in Threads : Armed(u)' <=> Armed(u)
  BY <1>1, TimersStay
<1>10. TimersFit'
  BY <1>1, <1>2, <1>3, <1>9 DEF TimersFit
<1>11. Counts
  BY <1>1, <1>2 DEF Counts
<1> QED BY <1>4, <1>5, <1>6, <1>7, <1>8, <1>9, <1>10, <1>11 DEF Fits, ThreadsFit

-----------------------------------------------------------------------------
(* The timers: timer_set_oneshot and timer_cancel keep them in order. *)
LEMMA SetTimer ==
  ASSUME Coherent, NEW t \in Threads, ~Armed(t), NEW delay \in Nat, NEW h,
         timer_set_oneshot(t, delay, h)
  PROVE  TimersListed' /\ \A u \in Threads : Armed(u)' <=> Armed(u) \/ u = t
<1> DEFINE d == IF delay = 0 THEN 1 ELSE delay
           later == {i \in DOMAIN timer_queue : due[timer_queue[i]] > d}
           k == Min(later)
<1>1. /\ timer_queue \in Seq(Threads) /\ due \in [Threads -> Nat] /\ d \in Nat
      /\ IsInjective(timer_queue) /\ OrderedBy(timer_queue, due)
      /\ ~list_in_list(timer_queue, t)
  BY Facts DEF IInv, TypeOK, TimerTypeOK, TimersListed, Sorted, OrderedBy, Armed
<1>2. DOMAIN timer_queue = 1 .. Len(timer_queue) /\ Len(timer_queue) \in Nat
  BY <1>1, LenProperties
<1>3. \A i \in DOMAIN timer_queue : timer_queue[i] \in Threads /\ due[timer_queue[i]] \in Nat
  BY <1>1, <1>2, ElementOfSeq
<1>4. /\ timer_queue' = IF later = {} THEN list_add_tail(timer_queue, t)
                        ELSE list_add_before(timer_queue, k, t)
      /\ due' = [due EXCEPT ![t] = d]
  BY DEF timer_set_oneshot, insert_timer_in_queue
<1>5. later \in SUBSET Nat
  BY <1>2
<1>6. later # {} => k \in later /\ \A i \in later : k <= i
  <2> HIDE DEF later
  <2> QED BY <1>5, MinIsLeast
<1> HIDE DEF d, k
<1>7. /\ IsInjective(timer_queue') /\ OrderedBy(timer_queue', due')
      /\ Range(timer_queue') = Range(timer_queue) \cup {t}
  <2>1. CASE later = {}
    <3>1. \A i \in DOMAIN timer_queue : due[timer_queue[i]] <= d
      BY <1>1, <1>3, <2>1
    <3>2. timer_queue' = list_add_tail(timer_queue, t)
      BY <1>4, <2>1
    <3> HIDE DEF later
    <3>3. OrderedBy(list_add_tail(timer_queue, t), [due EXCEPT ![t] = d])
      BY ONLY <1>1, <3>1, t \in Threads, AddTailOrdered
    <3>4. /\ IsInjective(list_add_tail(timer_queue, t))
          /\ Range(list_add_tail(timer_queue, t)) = Range(timer_queue) \cup {t}
      BY <1>1, AddTail, AddTailDistinct
    <3> QED BY <1>4, <3>2, <3>3, <3>4
  <2>2. CASE later # {}
    <3>1. /\ k \in 1 .. Len(timer_queue) /\ due[timer_queue[k]] > d
          /\ \A i \in DOMAIN timer_queue : i < k => due[timer_queue[i]] <= d
      <4>1. k \in later /\ k \in 1 .. Len(timer_queue) /\ due[timer_queue[k]] > d
        BY <1>2, <1>6, <2>2
      <4>2. ASSUME NEW i \in DOMAIN timer_queue, i < k PROVE due[timer_queue[i]] <= d
        <5>1. i \notin later
          <6>1. i \in later => k <= i
            BY <1>6, <2>2
          <6> HIDE DEF later
          <6> QED BY <1>2, <4>1, <4>2, <6>1
        <5> QED BY <1>1, <1>3, <5>1
      <4> QED BY <4>1, <4>2
    <3>2. timer_queue' = list_add_before(timer_queue, k, t)
      BY <1>4, <2>2
    <3> HIDE DEF later
    <3>3. OrderedBy(list_add_before(timer_queue, k, t), [due EXCEPT ![t] = d])
      BY ONLY <1>1, <3>1, t \in Threads, AddBeforeOrdered
    <3>4. /\ IsInjective(list_add_before(timer_queue, k, t))
          /\ Range(list_add_before(timer_queue, k, t)) = Range(timer_queue) \cup {t}
      BY ONLY <1>1, <3>1, t \in Threads, AddBefore
    <3> QED BY <1>4, <3>2, <3>3, <3>4
  <2> QED BY <2>1, <2>2
<1> QED BY <1>7 DEF TimersListed, Sorted, OrderedBy, Armed, list_in_list

(* Without one of its elements the queue is in order for a clock that      *)
(* differs on that element only. *)
LEMMA CancelTimer ==
  ASSUME Coherent, NEW t \in Threads, timer_cancel(t)
  PROVE  TimersListed' /\ \A u \in Threads : Armed(u)' <=> Armed(u) /\ u # t
<1>1. /\ timer_queue \in Seq(Threads) /\ due \in [Threads -> Nat]
      /\ IsInjective(timer_queue) /\ OrderedBy(timer_queue, due)
  BY Facts DEF IInv, TypeOK, TimerTypeOK, TimersListed, Sorted, OrderedBy
<1>2. timer_queue' = list_delete(timer_queue, t) /\ due' = [due EXCEPT ![t] = 0]
  BY DEF timer_cancel
<1>3. /\ timer_queue' \in Seq(Threads) /\ IsInjective(timer_queue')
      /\ OrderedBy(timer_queue', due) /\ Range(timer_queue') = Range(timer_queue) \ {t}
  <2>1. CASE list_in_list(timer_queue, t)
    BY <1>1, <1>2, <2>1, Delete
  <2>2. CASE ~list_in_list(timer_queue, t)
    BY <1>1, <1>2, <2>2 DEF list_delete, list_in_list
  <2> QED BY <2>1, <2>2
<1>4. \A i \in DOMAIN timer_queue' : timer_queue'[i] \in Threads /\ timer_queue'[i] # t
  <2>1. \A i \in DOMAIN timer_queue' : timer_queue'[i] \in Range(timer_queue')
    BY DEF Range
  <2> QED BY <1>3, <2>1, LenProperties, ElementOfSeq
<1>5. Sorted'
  BY <1>1, <1>2, <1>3, <1>4 DEF Sorted, OrderedBy
<1> QED BY <1>3, <1>5 DEF TimersListed, Armed, list_in_list

(* The timer that fires leaves the queue. *)
LEMMA FireTimer ==
  ASSUME Coherent, ~list_is_empty(timer_queue), UNCHANGED due,
         timer_queue' = list_remove_head(timer_queue)
  PROVE  TimersListed' /\ \A u \in Threads : Armed(u)' <=> Armed(u) /\ u # Head(timer_queue)
<1>1. /\ timer_queue \in Seq(Threads) /\ due \in [Threads -> Nat]
      /\ IsInjective(timer_queue) /\ Sorted
  BY Facts DEF IInv, TypeOK, TimerTypeOK, TimersListed
<1>2. /\ timer_queue' \in Seq(Threads) /\ Len(timer_queue') = Len(timer_queue) - 1
      /\ \A i \in 1 .. Len(timer_queue') : timer_queue'[i] = timer_queue[i + 1]
      /\ IsInjective(timer_queue')
      /\ Range(timer_queue') = Range(timer_queue) \ {Head(timer_queue)}
  BY <1>1, RemoveHead
<1>3. /\ DOMAIN timer_queue = 1 .. Len(timer_queue) /\ Len(timer_queue) \in Nat
      /\ DOMAIN timer_queue' = 1 .. Len(timer_queue')
  BY <1>1, <1>2, LenProperties
<1>4. Sorted'
  <2>1. ASSUME NEW i \in DOMAIN timer_queue', NEW j \in DOMAIN timer_queue', i < j
        PROVE  due[timer_queue'[i]] <= due[timer_queue'[j]]
    <3>1. i + 1 \in DOMAIN timer_queue /\ j + 1 \in DOMAIN timer_queue /\ i + 1 < j + 1
      BY <1>2, <1>3, <2>1
    <3> QED BY <1>1, <1>2, <1>3, <3>1 DEF Sorted
  <2> QED BY <2>1 DEF Sorted
<1> QED BY <1>2, <1>4 DEF TimersListed, Armed, list_in_list

(* A thread that runs client code or is dead has no timer. *)
LEMMA NoTimer ==
  ASSUME Coherent, NEW t \in Threads, pc[t] # "wait", state[t] # "SLEEPING"
  PROVE  callback[t] = "none" /\ ~Armed(t)
BY Facts DEF TimersFit, IInv, TypeOK, TimerTypeOK, Handlers

-----------------------------------------------------------------------------
(* A caller that gives up the CPU was referred to by no list. *)
LEMMA StopsFacts ==
  ASSUME Coherent, NEW s, NEW l, Stops(s, l), current_thread' \in Threads
  PROVE  LET c == current_thread IN
         /\ c \in Threads /\ pc[c] = "user" /\ state[c] = "RUNNING" /\ Listed(c)
         /\ callback[c] = "none" /\ ~Armed(c)
         /\ state'[c] = s \/ (state'[c] \in Live /\ s \in Live)
         /\ pc'[c] = l
         /\ \A t \in Threads : t # c => /\ pc'[t] = pc[t] /\ pc[t] # "wake_all"
                                        /\ \/ state'[t] = state[t]
                                           \/ state'[t] \in Live /\ state[t] \in Live
<1>1. /\ current_thread \in Threads /\ pc[current_thread] = "user"
      /\ state[current_thread] = "RUNNING"
  BY Facts DEF Stops
<1>2. Listed(current_thread)
  BY <1>1, Facts DEF NodesFit
<1>3. callback[current_thread] = "none" /\ ~Armed(current_thread)
  BY <1>1, NoTimer
<1>4. \A t \in Threads : pc[t] # "wake_all"
  BY <1>1, Running
<1> QED BY <1>1, <1>2, <1>3, <1>4, Facts DEF Stops, Becomes

(* thread_sleep. *)
LEMMA SleepFits ==
  ASSUME Coherent, NEW d \in Delays, thread_sleep(d), current_thread' \in Threads
  PROVE  Fits' /\ Counts
<1> DEFINE c == current_thread
<1> USE Facts
<1>1. /\ Client("thread_sleep") /\ timer_set_oneshot(c, d, "thread_sleep_handler")
      /\ thread_resched([state EXCEPT ![c] = "SLEEPING"], RunQueue, remaining_quantum, pc, 1)
      /\ UNCHANGED <<detached, g_thread_free_list, thread_list, blocking_wait_queue, arg,
                     thread_preempt_lock>>
      /\ UNCHANGED waitVars
  BY DEF thread_sleep, nodeVars, waitVars
<1>2. Stops("SLEEPING", "user") /\ Counts
  <2>1. pc = [pc EXCEPT ![c] = "user"] /\ "SLEEPING" \in States
    BY <1>1, ClientRuns DEF States
  <2> QED BY ONLY Coherent, <1>1, <2>1, StopSteps
<1>3. /\ pc[c] = "user" /\ state[c] = "RUNNING" /\ callback[c] = "none" /\ ~Armed(c)
      /\ state'[c] = "SLEEPING" /\ pc'[c] = "user"
      /\ \A t \in Threads : t # c => /\ pc'[t] = pc[t] /\ pc[t] # "wake_all"
                                     /\ \/ state'[t] = state[t]
                                        \/ state'[t] \in Live /\ state[t] \in Live
  BY <1>2, StopsFacts DEF Live
<1>4. TimersListed' /\ \A u \in Threads : Armed(u)' <=> Armed(u) \/ u = c
  BY <1>1, <1>3, SetTimer, ArgumentAssumption
<1>5. callback' = [callback EXCEPT ![c] = "thread_sleep_handler"]
  BY <1>1 DEF timer_set_oneshot
<1>6. callback \in [Threads -> Handlers]
  BY DEF IInv, TypeOK, TimerTypeOK
<1>7. TimersFit'
  BY <1>3, <1>4, <1>5, <1>6 DEF TimersFit, Live
<1>8. PlacesFit'
  BY <1>3 DEF PlacesFit, Exiting, Live
<1>9. WakeFits'
  BY <1>3 DEF WakeFits
<1>10. WaitersFit'
  BY <1>1, <1>3, <1>5, <1>6 DEF WaitersFit, Handle, Live
<1>11. NodesFit'
  BY <1>1, <1>3 DEF NodesFit, Free, Listed, Live
<1>12. WaitQueueCoherent'
  BY <1>1, <1>3, WaitStay DEF Live
<1> QED BY <1>2, <1>4, <1>7, <1>8, <1>9, <1>10, <1>11, <1>12 DEF Fits, ThreadsFit

(* wait_queue_block, and thread_join of a thread that is not over. *)
LEMMA BlockFits ==
  ASSUME Coherent, current_thread' \in Threads, NEW f, Client(f),
         NEW q \in WaitQueues, NEW d \in Nat \ {0}, NEW l \in {"wait", "join"},
         Block(q, d, l), UNCHANGED <<nodeVars, thread_preempt_lock>>,
         l = "wait" => q \in UserQueues /\ UNCHANGED arg,
         l = "join" => /\ Handle(q) /\ q \in Threads /\ q # current_thread /\ ~Joined(q)
                       /\ q \notin detached /\ state[q] # "DEATH" /\ d = INFINIT_TIME
                       /\ arg' = [arg EXCEPT ![current_thread] = q]
  PROVE  Fits' /\ Counts
<1> DEFINE c == current_thread
           a == list_add_tail(wait_list[q], c)
           k == [pc EXCEPT ![c] = l]
           st == [state EXCEPT ![c] = "BLOCKED"]
<1> USE Facts
<1>1. /\ thread_resched(st, RunQueue, remaining_quantum, k, 1)
      /\ wait_list' = [wait_list EXCEPT ![q] = a]
      /\ wait_count' = [wait_count EXCEPT ![q] = @ + 1]
      /\ blocking_wait_queue' = [blocking_wait_queue EXCEPT ![c] = q]
      /\ \/ d = INFINIT_TIME /\ UNCHANGED timerVars
         \/ d # INFINIT_TIME /\ timer_set_oneshot(c, d, "wait_queue_timeout_handler")
      /\ UNCHANGED <<detached, g_thread_free_list, thread_list>>
  BY DEF Block, nodeVars
<1>2. Stops("BLOCKED", l) /\ Counts
  <2>1. k = [pc EXCEPT ![c] = l] /\ "BLOCKED" \in States /\ l # "printf"
    BY DEF States
  <2> HIDE DEF k
  <2> QED BY ONLY Coherent, Client(f), UNCHANGED <<nodeVars, thread_preempt_lock>>,
             <1>1, <2>1, StopSteps
<1>3. /\ c \in Threads /\ pc[c] = "user" /\ state[c] = "RUNNING" /\ Listed(c)
      /\ callback[c] = "none" /\ ~Armed(c)
      /\ state'[c] = "BLOCKED" /\ pc'[c] = l
      /\ \A t \in Threads : t # c => /\ pc'[t] = pc[t] /\ pc[t] # "wake_all"
                                     /\ \/ state'[t] = state[t]
                                        \/ state'[t] \in Live /\ state[t] \in Live
  BY <1>2, StopsFacts DEF Live
<1> HIDE DEF k, st
<1>4. /\ TimersListed'
      /\ \A u \in Threads : Armed(u)' <=> Armed(u) \/ (u = c /\ d # INFINIT_TIME)
      /\ callback' = IF d = INFINIT_TIME THEN callback
                     ELSE [callback EXCEPT ![c] = "wait_queue_timeout_handler"]
  <2>1. CASE d = INFINIT_TIME
    BY <1>1, <2>1, TimersStay DEF timerVars
  <2>2. CASE d # INFINIT_TIME
    <3>1. timer_set_oneshot(c, d, "wait_queue_timeout_handler")
      BY <1>1, <2>2
    <3>2. TimersListed' /\ \A u \in Threads : Armed(u)' <=> Armed(u) \/ u = c
      BY <1>3, <3>1, SetTimer
    <3> QED BY <2>2, <3>1, <3>2 DEF timer_set_oneshot
  <2> QED BY <2>1, <2>2
<1>5. callback \in [Threads -> Handlers]
  BY DEF IInv, TypeOK, TimerTypeOK
<1>6. l = "join" => d = INFINIT_TIME
  OBVIOUS
<1>7. TimersFit'
  BY <1>3, <1>4, <1>5, <1>6 DEF TimersFit, Live
<1>8. PlacesFit'
  BY <1>3 DEF PlacesFit, Exiting, Live
<1>9. WakeFits'
  BY <1>3 DEF WakeFits
<1>10. WaitersFit'
  <2>1. blocking_wait_queue \in [Threads -> WaitQueues \cup {NULL}]
    BY DEF IInv, TypeOK, WaitTypeOK
  <2>2. ASSUME NEW u \in Threads, pc'[u] = "wait", state'[u] = "BLOCKED"
        PROVE  blocking_wait_queue'[u] \in UserQueues
    BY <1>1, <1>3, <2>1, <2>2 DEF WaitersFit, Live
  <2>3. ASSUME NEW u \in Threads, pc'[u] = "join"
        PROVE  /\ Handle(arg[u])' /\ arg'[u] # u /\ arg'[u] \notin detached'
               /\ callback'[u] = "none"
               /\ IF state'[u] = "BLOCKED"
                  THEN blocking_wait_queue'[u] = arg'[u] /\ pc'[arg'[u]] # "none"
                  ELSE state'[arg'[u]] = "DEATH"
    <3>1. CASE u = c
      <4>1. l = "join" /\ arg'[c] = q /\ Handle(q) /\ q # c /\ q \notin detached
        BY <1>3, <2>3, <3>1
      <4>2. pc[q] # "none"
        BY <4>1 DEF NodesFit, Handle, Listed
      <4> QED BY <1>1, <1>3, <1>4, <2>1, <3>1, <4>1, <4>2 DEF Handle
    <3>2. CASE u # c
      <4>1. pc[u] = "join" /\ arg'[u] = arg[u] /\ arg[u] \in Threads
        BY <1>3, <2>3, <3>2
      <4>2. /\ Handle(arg[u]) /\ arg[u] # u /\ arg[u] \notin detached
            /\ callback[u] = "none"
            /\ IF state[u] = "BLOCKED"
               THEN blocking_wait_queue[u] = arg[u] /\ pc[arg[u]] # "none"
               ELSE state[arg[u]] = "DEATH"
        BY <4>1 DEF WaitersFit
      <4> QED BY <1>1, <1>3, <1>4, <1>5, <2>1, <3>2, <4>1, <4>2 DEF Handle, Live
    <3> QED BY <3>1, <3>2
  <2>4. ASSUME NEW u \in Threads, NEW v \in Threads, pc'[u] = "join", pc'[v] = "join",
               arg'[v] = arg'[u]
        PROVE  v = u
    <3>1. \A w \in Threads : pc'[w] = "join" /\ w # c => pc[w] = "join" /\ arg'[w] = arg[w]
      BY <1>3
    <3>2. pc'[c] = "join" => arg'[c] = q /\ ~Joined(q)
      BY <1>3
    <3> QED BY <2>4, <3>1, <3>2 DEF WaitersFit, Joined
  <2> QED BY <2>2, <2>3, <2>4 DEF WaitersFit
<1>11. NodesFit'
  <2>1. \A t \in Threads : pc'[t] \in {"init_node", "none"} \/ pc[t] \in {"init_node", "none"}
                             => pc'[t] = pc[t] /\ arg'[t] = arg[t]
    BY <1>3
  <2> QED BY <1>1, <1>3, <2>1 DEF NodesFit, Free, Listed, Live
<1>12. WaitQueueCoherent'
  <2>1. /\ wait_list \in [WaitQueues -> Seq(Threads)] /\ wait_count \in [WaitQueues -> Int]
        /\ blocking_wait_queue \in [Threads -> WaitQueues \cup {NULL}]
    BY DEF IInv, TypeOK, WaitTypeOK
  <2>2. /\ ~list_in_list(wait_list[q], c)
        /\ IsInjective(wait_list[q]) /\ wait_count[q] = Len(wait_list[q])
    BY <1>3 DEF WaitQueueCoherent, list_in_list
  <2>3. Len(a) = Len(wait_list[q]) + 1 /\ Range(a) = Range(wait_list[q]) \cup {c} /\ IsInjective(a)
    <3>1. /\ wait_list[q] \in Seq(Threads) /\ c \in Threads
          /\ IsInjective(wait_list[q]) /\ ~list_in_list(wait_list[q], c)
      BY <1>3, <2>1, <2>2
    <3> QED BY ONLY <3>1, AddTail, AddTailDistinct
  <2> HIDE DEF a
  <2>4. ASSUME NEW p \in WaitQueues
        PROVE  {t \in Threads : state'[t] = "BLOCKED" /\ blocking_wait_queue'[t] = p}
                 = {t \in Threads : state[t] = "BLOCKED" /\ blocking_wait_queue[t] = p}
                   \cup (IF p = q THEN {c} ELSE {})
    BY <1>1, <1>3, <2>1 DEF Live
  <2>5. ASSUME NEW p \in WaitQueues
        PROVE  /\ wait_count'[p] = Len(wait_list'[p]) /\ IsInjective(wait_list'[p])
               /\ Range(wait_list'[p]) = {t \in Threads : state'[t] = "BLOCKED"
                                                         /\ blocking_wait_queue'[t] = p}
    <3>1. CASE p = q
      BY <1>1, <2>1, <2>2, <2>3, <2>4, <3>1 DEF WaitQueueCoherent
    <3>2. CASE p # q
      BY <1>1, <2>1, <2>4, <3>2 DEF WaitQueueCoherent
    <3> QED BY <3>1, <3>2
  <2> QED BY <2>5 DEF WaitQueueCoherent
<1> QED BY <1>2, <1>4, <1>7, <1>8, <1>9, <1>10, <1>11, <1>12 DEF Fits, ThreadsFit

(* thread_exit of a detached thread. *)
LEMMA ExitFits ==
  ASSUME Coherent, thread_exit, current_thread \in detached, current_thread' \in Threads
  PROVE  Fits' /\ Counts
<1> DEFINE c == current_thread
           k == [pc EXCEPT ![c] = "none"]
<1> USE Facts
<1>1. /\ Client("thread_exit") /\ free_thread_node(c)
      /\ thread_resched([state EXCEPT ![c] = "DEATH"], RunQueue, remaining_quantum, k, 0)
      /\ UNCHANGED <<detached, blocking_wait_queue, callback, timer_queue, due, arg,
                     thread_preempt_lock>>
      /\ UNCHANGED waitVars
  BY DEF thread_exit, free_thread_node, timerVars, waitVars
<1>2. Stops("DEATH", "none") /\ Counts
  <2>1. k = [pc EXCEPT ![c] = "none"] /\ "DEATH" \in States /\ "none" # "printf"
    BY DEF States
  <2>2. thread_resched([state EXCEPT ![c] = "DEATH"], RunQueue, remaining_quantum, k, 0)
    BY <1>1
  <2> HIDE DEF k
  <2> QED BY ONLY Coherent, <1>1, <2>1, <2>2, StopSteps
<1>3. /\ c \in Threads /\ pc[c] = "user" /\ state[c] = "RUNNING" /\ Listed(c)
      /\ callback[c] = "none" /\ ~Armed(c)
      /\ state'[c] = "DEATH" /\ pc'[c] = "none"
      /\ \A t \in Threads : t # c => /\ pc'[t] = pc[t] /\ pc[t] # "wake_all"
                                     /\ \/ state'[t] = state[t]
                                        \/ state'[t] \in Live /\ state[t] \in Live
  BY <1>2, StopsFacts DEF Live
<1>4. /\ \A u \in Threads : (Listed(u)' <=> Listed(u) /\ u # c) /\ (Free(u)' <=> Free(u) \/ u = c)
      /\ IsInjective(g_thread_free_list)' /\ IsInjective(thread_list)'
  BY <1>1, <1>3, FreedNode
<1>5. PlacesFit'
  BY <1>3 DEF PlacesFit, Exiting, Live
<1>6. WakeFits'
  BY <1>3 DEF WakeFits
<1>7. WaitersFit'
  <2>1. ASSUME NEW u \in Threads, pc[u] = "join"
        PROVE  arg[u] # c /\ arg[u] \in Threads /\ Handle(arg[u])'
    <3>1. arg[u] # IDLE_THREAD_ID /\ Listed(arg[u]) /\ arg[u] \in Threads /\ arg[u] # c
      BY <2>1 DEF WaitersFit, Handle, Listed
    <3> QED BY <1>1, <1>4, <3>1 DEF Handle, Listed
  <2>2. \A u \in Threads : pc'[u] \in {"wait", "join"} => pc[u] = pc'[u] /\ u # c
    BY <1>3
  <2> QED BY <1>1, <1>3, <2>1, <2>2 DEF WaitersFit, Live
<1>8. NodesFit'
  <2>1. ASSUME NEW t \in Threads
        PROVE  /\ ~(Free(t)' /\ Listed(t)')
               /\ ~Free(t)' /\ ~Listed(t)' => \E u \in Threads : pc'[u] = "init_node" /\ arg'[u] = t
               /\ ~Listed(t)' => pc'[t] = "none"
               /\ Listed(t)' /\ pc'[t] = "none" => state'[t] = "DEATH"
    <3>1. \A u \in Threads : pc[u] = "init_node" => pc'[u] = "init_node" /\ arg'[u] = arg[u]
      BY <1>1, <1>3
    <3> QED BY <1>3, <1>4, <3>1 DEF NodesFit, Live
  <2>2. ASSUME NEW u \in Threads, pc'[u] = "init_node"
        PROVE  /\ ~Free(arg[u])' /\ ~Listed(arg[u])'
               /\ \A v \in Threads : pc'[v] = "init_node" /\ arg'[v] = arg'[u] => v = u
    <3>1. /\ pc[u] = "init_node" /\ u # c /\ arg'[u] = arg[u] /\ arg[u] \in Threads
          /\ \A v \in Threads : pc'[v] = "init_node" => pc[v] = "init_node"
      BY <1>1, <1>3, <2>2
    <3>2. ~Free(arg[u]) /\ ~Listed(arg[u]) /\ arg[u] # c
      BY <1>3, <3>1 DEF NodesFit
    <3>3. ~Free(arg[u])' /\ ~Listed(arg[u])'
      BY <1>1, <1>4, <3>1, <3>2 DEF Free, Listed
    <3> QED BY <1>1, <3>1, <3>3 DEF NodesFit
  <2> QED BY <1>4, <2>1, <2>2 DEF NodesFit
<1>9. WaitQueueCoherent'
  BY <1>1, <1>3, WaitStay DEF Live
<1>10. TimersListed' /\ \A u \in Threads : Armed(u)' <=> Armed(u)
  BY <1>1, TimersStay
<1>11. TimersFit'
  BY <1>1, <1>3, <1>10 DEF TimersFit, Live
<1> QED BY <1>2, <1>5, <1>6, <1>7, <1>8, <1>9, <1>10, <1>11 DEF Fits, ThreadsFit

-----------------------------------------------------------------------------
(* The entry of wait_queue_wake_all, from a client, from thread_detach or  *)
(* from thread_exit. *)
LEMMA WakesAllFit ==
  ASSUME Coherent, NEW next \in {"user", "detach", "exit"}, NEW s, NEW q, wake'.q = q,
         WakesAll(next, s), s = IF next = "exit" THEN "DEATH" ELSE "RUNNING",
         next = "user" => q \in UserQueues /\ UNCHANGED arg,
         next = "detach" => /\ q \in Threads /\ Handle(q) /\ ~Joined(q)
                            /\ arg' = [arg EXCEPT ![current_thread] = q],
         next = "exit" => /\ q = current_thread /\ current_thread \notin detached
                          /\ UNCHANGED arg
  PROVE  Fits'
<1> DEFINE c == current_thread
<1> USE Facts
<1>1. /\ UNCHANGED <<detached, g_thread_free_list, thread_list, blocking_wait_queue,
                     callback, timer_queue, due, current_thread>>
      /\ UNCHANGED waitVars
      /\ wake'.next = next /\ (next # "user" => ~wake'.reschedule)
  BY DEF WakesAll, nodeVars, waitVars, timerVars
<1>2. /\ c \in Threads /\ pc[c] = "user" /\ state[c] = "RUNNING"
      /\ pc'[c] = "wake_all" /\ (state'[c] = s \/ (state'[c] \in Live /\ s \in Live))
  BY DEF WakesAll, Becomes
<1>3. \A t \in Threads : t # c => /\ pc'[t] = pc[t] /\ pc[t] # "wake_all" /\ arg'[t] = arg[t]
                                  /\ \/ state'[t] = state[t]
                                     \/ state'[t] \in Live /\ state[t] \in Live
  BY <1>2, Running DEF WakesAll, Becomes
<1>4. Listed(c) /\ callback[c] = "none" /\ ~Armed(c)
  BY <1>2, NoTimer DEF NodesFit
<1>5. PlacesFit'
  BY <1>1, <1>2, <1>3 DEF PlacesFit, Exiting, Live
<1>6. WakeFits'
  <2>1. next = "detach" => arg'[c] = q /\ Handle(q)'
    BY <1>1, <1>2 DEF Handle
  <2>2. next = "detach" => ~Joined(q)'
    <3>1. \A u \in Threads : pc'[u] = "join" => pc[u] = "join" /\ arg'[u] = arg[u]
      BY <1>2, <1>3
    <3> QED BY <3>1 DEF Joined
  <2>3. Handle(wake.q)' = Handle(q)' /\ Joined(wake.q)' = Joined(q)'
    BY DEF Handle, Joined
  <2> QED BY <1>1, <2>1, <2>2, <2>3 DEF WakeFits
<1>7. WaitersFit'
  <2>1. \A u \in Threads : pc'[u] \in {"wait", "join"} => pc[u] = pc'[u] /\ arg'[u] = arg[u] /\ u # c
    BY <1>2, <1>3
  <2>2. ASSUME NEW u \in Threads, pc[u] = "join"
        PROVE  /\ Handle(arg[u])' /\ arg'[u] # u /\ arg'[u] \notin detached'
               /\ callback'[u] = "none"
               /\ IF state'[u] = "BLOCKED"
                  THEN blocking_wait_queue'[u] = arg'[u] /\ pc'[arg'[u]] # "none"
                  ELSE state'[arg'[u]] = "DEATH"
    <3>1. /\ Handle(arg[u]) /\ arg[u] # u /\ arg[u] \notin detached
          /\ callback[u] = "none"
          /\ IF state[u] = "BLOCKED"
             THEN blocking_wait_queue[u] = arg[u] /\ pc[arg[u]] # "none"
             ELSE state[arg[u]] = "DEATH"
      BY <2>2 DEF WaitersFit
    <3>2. u # c /\ arg[u] \in Threads /\ arg'[u] = arg[u]
      BY <1>2, <1>3, <2>2
    <3> QED BY <1>1, <1>2, <1>3, <3>1, <3>2 DEF Handle, Live
  <2> QED BY <1>1, <1>3, <2>1, <2>2 DEF WaitersFit, Live
<1>8. NodesFit'
  <2>1. \A t \in Threads : pc'[t] \in {"init_node", "none"} \/ pc[t] \in {"init_node", "none"}
                             => pc'[t] = pc[t] /\ arg'[t] = arg[t] /\ t # c
    BY <1>2, <1>3
  <2> QED BY <1>1, <1>2, <1>3, <1>4, <2>1 DEF NodesFit, Free, Listed, Live
<1>9. WaitQueueCoherent'
  <2>1. state'[c] # "BLOCKED"
    BY <1>2 DEF Live
  <2> QED BY <1>1, <1>2, <1>3, <2>1, WaitStay DEF Live
<1>10. TimersListed' /\ \A u \in Threads : Armed(u)' <=> Armed(u)
  BY <1>1, TimersStay
<1>11. TimersFit'
  <2>1. state'[c] # "SLEEPING" /\ state'[c] # "BLOCKED"
    BY <1>2 DEF Live
  <2> QED BY <1>1, <1>2, <1>3, <1>4, <1>10, <2>1 DEF TimersFit, Live
<1> QED BY <1>5, <1>6, <1>7, <1>8, <1>9, <1>10, <1>11 DEF Fits, ThreadsFit

(* A thread that is over is reclaimed by thread_join, at once or when the  *)
(* joiner comes back from its wait. *)
LEMMA ReclaimFits ==
  ASSUME Coherent, NEW t \in Threads, Listed(t), state[t] = "DEATH", t # current_thread,
         t # IDLE_THREAD_ID, free_thread_node(t),
         pc[current_thread] \in {"user", "join"},
         \A u \in Threads : pc[u] = "join" /\ u # current_thread => arg[u] # t,
         pc' = [pc EXCEPT ![current_thread] = "user"],
         \A u \in Threads : u # current_thread => arg'[u] = arg[u],
         UNCHANGED <<state, current_thread, waitVars, timerVars>>
  PROVE  Fits'
<1> DEFINE c == current_thread
<1> USE Facts
<1>1. /\ UNCHANGED <<state, current_thread, detached, blocking_wait_queue, callback,
                     timer_queue, due>>
      /\ c \in Threads /\ state[c] = "RUNNING" /\ \A u \in Threads : pc[u] # "wake_all"
  BY Running DEF free_thread_node, waitVars, timerVars
<1>2. /\ \A u \in Threads : (Listed(u)' <=> Listed(u) /\ u # t) /\ (Free(u)' <=> Free(u) \/ u = t)
      /\ IsInjective(g_thread_free_list)' /\ IsInjective(thread_list)'
  BY FreedNode
<1>3. pc[t] = "none"
  BY <1>1 DEF PlacesFit, Exiting
<1>4. PlacesFit'
  BY <1>1 DEF PlacesFit, Exiting
<1>5. WakeFits'
  BY <1>1 DEF WakeFits
<1>6. WaitersFit'
  <2>1. ASSUME NEW u \in Threads, pc'[u] = "join"
        PROVE  pc[u] = "join" /\ u # c /\ arg'[u] = arg[u] /\ Handle(arg[u])' /\ arg[u] # t
    <3>1. pc[u] = "join" /\ u # c /\ arg'[u] = arg[u] /\ arg[u] # t
      BY <1>1, <2>1
    <3>2. arg[u] # IDLE_THREAD_ID /\ Listed(arg[u]) /\ arg[u] \in Threads
      BY <3>1 DEF WaitersFit, Handle, Listed
    <3> QED BY <1>2, <3>1, <3>2 DEF Handle, Listed
  <2>2. \A u \in Threads : pc'[u] = "wait" => pc[u] = "wait"
    BY <1>1
  <2> QED BY <1>1, <2>1, <2>2 DEF WaitersFit
<1>7. NodesFit'
  <2>0. \A u \in Threads : u # c => pc'[u] = pc[u] /\ arg'[u] = arg[u]
    OBVIOUS
  <2>1. ASSUME NEW v \in Threads
        PROVE  /\ ~(Free(v)' /\ Listed(v)')
               /\ ~Free(v)' /\ ~Listed(v)' => \E u \in Threads : pc'[u] = "init_node" /\ arg'[u] = v
               /\ ~Listed(v)' => pc'[v] = "none"
               /\ Listed(v)' /\ pc'[v] = "none" => state'[v] = "DEATH"
    <3>1. \A u \in Threads : pc[u] = "init_node" => pc'[u] = "init_node" /\ arg'[u] = arg[u]
      BY <1>1, <2>0
    <3>2. ~Listed(v) => v # c
      BY DEF NodesFit
    <3> QED BY <1>1, <1>2, <1>3, <2>0, <3>1, <3>2 DEF NodesFit
  <2>2. ASSUME NEW u \in Threads, pc'[u] = "init_node"
        PROVE  /\ ~Free(arg[u])' /\ ~Listed(arg[u])'
               /\ \A v \in Threads : pc'[v] = "init_node" /\ arg'[v] = arg'[u] => v = u
    <3>1. /\ pc[u] = "init_node" /\ u # c /\ arg'[u] = arg[u] /\ arg[u] \in Threads
          /\ \A v \in Threads : pc'[v] = "init_node" => pc[v] = "init_node" /\ arg'[v] = arg[v]
      BY <1>1, <2>0, <2>2
    <3>2. ~Free(arg[u]) /\ ~Listed(arg[u]) /\ arg[u] # t
      BY <1>3, <3>1 DEF NodesFit
    <3>3. ~Free(arg[u])' /\ ~Listed(arg[u])'
      BY <1>2, <3>1, <3>2 DEF Free, Listed
    <3> QED BY <2>2, <3>1, <3>3 DEF NodesFit
  <2> QED BY <1>2, <2>1, <2>2 DEF NodesFit
<1>8. WaitQueueCoherent'
  BY <1>1, WaitStay
<1>9. TimersListed' /\ \A u \in Threads : Armed(u)' <=> Armed(u)
  BY <1>1, TimersStay
<1>10. TimersFit'
  BY <1>1, <1>9 DEF TimersFit
<1> QED BY <1>4, <1>5, <1>6, <1>7, <1>8, <1>9, <1>10 DEF Fits, ThreadsFit

(* What free_thread_node is called for after a join: a dead thread. *)
LEMMA JoinReturnFits ==
  ASSUME Coherent, thread_join_return
  PROVE  Fits' /\ Counts
<1> DEFINE c == current_thread
           t == arg[c]
<1> USE Facts
<1>1. /\ pc[c] = "join" /\ Unblocked
      /\ pc' = [pc EXCEPT ![c] = "user"] /\ arg' = [arg EXCEPT ![c] = IDLE_THREAD_ID]
      /\ wait_queue_block_ret[c] < 0 \/ free_thread_node(t)
      /\ UNCHANGED <<state, current_thread, waitVars, thread_preempt_lock>>
  BY DEF thread_join_return, schedVars
<1>2. c \in Threads /\ state[c] = "RUNNING"
  BY <1>1, Running
<1>3. /\ t \in Threads /\ Listed(t) /\ t # IDLE_THREAD_ID /\ t # c /\ callback[c] = "none"
      /\ state[t] = "DEATH" /\ \A u \in Threads : pc[u] = "join" /\ u # c => arg[u] # t
  BY <1>1, <1>2 DEF WaitersFit, Handle, Listed
<1>4. free_thread_node(t)
  <2>1. wait_queue_block_ret[c] \in Errors
    BY <1>2 DEF IInv, TypeOK, WaitTypeOK
  <2>2. \A e \in Errors : ~(e < 0)
    BY DEF Errors, NO_ERR, ERR_THREAD_DETACHED, ERR_TIMED_OUT, ERR_OBJECT_DESTORYED
  <2> QED BY <1>1, <2>1, <2>2
<1>5. UNCHANGED timerVars
  BY <1>1, <1>3 DEF Unblocked
<1> HIDE DEF t
<1>6. Fits'
  BY <1>1, <1>3, <1>4, <1>5, ReclaimFits
<1>7. Counts
  BY <1>1 DEF Counts
<1> QED BY <1>6, <1>7

(* thread_join of a thread: it is detached, over, or waited for. *)
LEMMA JoinFits ==
  ASSUME Coherent, Disciplined, current_thread' \in Threads,
         NEW t \in Threads, NEW d \in JoinTimeouts, thread_join(t, d)
  PROVE  Fits' /\ Counts
<1> DEFINE c == current_thread
<1> USE Facts
<1>1. /\ Client("thread_join") /\ Handle(t) /\ t # c /\ ~Joined(t)
      /\ UNCHANGED thread_preempt_lock
  BY DEF thread_join
<1>2. pc[c] = "user" /\ c \in Threads /\ \A u \in Threads : pc[u] # "wake_all"
  BY <1>1, ClientRuns
<1>3. d = INFINIT_TIME /\ d \in Nat \ {0}
  BY ArgumentAssumption DEF Disciplined
<1>4. CASE UNCHANGED <<schedVars, nodeVars, waitVars, timerVars, ctlVars, arg>>
  BY <1>1, <1>4, NothingWalks, WalksFit
<1>5. CASE /\ NoNeedToWait(t, d) /\ free_thread_node(t)
           /\ UNCHANGED <<schedVars, waitVars, timerVars, ctlVars, arg>>
  <2>1. state[t] = "DEATH" /\ Listed(t) /\ t # IDLE_THREAD_ID
    BY <1>1, <1>3, <1>5 DEF NoNeedToWait, Handle, Listed
  <2>2. /\ UNCHANGED <<state, current_thread, waitVars, timerVars, pc, arg>>
        /\ pc' = [pc EXCEPT ![c] = "user"]
    BY <1>2, <1>5 DEF schedVars, ctlVars
  <2>3. \A u \in Threads : pc[u] = "join" /\ u # c => arg[u] # t
    BY <1>1 DEF Joined
  <2>4. Fits'
    BY <1>1, <1>2, <1>5, <2>1, <2>2, <2>3, ReclaimFits
  <2>5. Counts
    BY <1>1, <2>2 DEF Counts
  <2> QED BY <2>4, <2>5
<1>6. CASE /\ t \notin detached /\ ~NoNeedToWait(t, d) /\ arg' = [arg EXCEPT ![c] = t]
           /\ Block(t, d, "join") /\ UNCHANGED nodeVars
  <2>1. state[t] # "DEATH" /\ t \in WaitQueues
    BY <1>6, ConstantFacts DEF NoNeedToWait
  <2> QED BY ONLY Coherent, current_thread' \in Threads, t \in Threads,
             <1>1, <1>3, <1>6, <2>1, BlockFits
<1> QED BY <1>4, <1>5, <1>6 DEF thread_join

(* wait_queue_block. *)
LEMMA WaitFits ==
  ASSUME Coherent, current_thread' \in Threads,
         NEW q \in UserQueues, NEW d \in Timeouts, wait_queue_block(q, d)
  PROVE  Fits' /\ Counts
<1>1. /\ Client("wait_queue_block")
      /\ UNCHANGED <<nodeVars, thread_preempt_lock>> /\ UNCHANGED arg
  BY DEF wait_queue_block
<1>2. CASE d = 0
  <2>1. UNCHANGED <<schedVars, nodeVars, waitVars, timerVars, ctlVars, arg,
                    thread_preempt_lock>>
    BY <1>2 DEF wait_queue_block
  <2> QED BY <1>1, <2>1, NothingWalks, WalksFit
<1>3. CASE d # 0
  <2>1. Block(q, d, "wait") /\ q \in WaitQueues /\ d \in Nat \ {0}
    BY <1>3, ConstantFacts, ArgumentAssumption DEF wait_queue_block
  <2> QED BY ONLY Coherent, current_thread' \in Threads, q \in UserQueues,
             <1>1, <2>1, BlockFits
<1> QED BY <1>2, <1>3

(* The end of wait_queue_block. *)
LEMMA WaitReturnFits ==
  ASSUME Coherent, wait_queue_block_return
  PROVE  Fits' /\ Counts
<1> DEFINE c == current_thread
<1> USE Facts
<1>1. /\ pc[c] = "wait" /\ Unblocked /\ pc' = [pc EXCEPT ![c] = "user"]
      /\ UNCHANGED <<state, current_thread, detached, g_thread_free_list, thread_list,
                     blocking_wait_queue, arg, thread_preempt_lock>>
      /\ UNCHANGED waitVars
  BY DEF wait_queue_block_return, schedVars, nodeVars, waitVars
<1>2. c \in Threads /\ state[c] = "RUNNING" /\ \A t \in Threads : pc[t] # "wake_all"
  BY <1>1, Running
<1>3. callback \in [Threads -> Handlers]
  BY DEF IInv, TypeOK, TimerTypeOK
<1>4. /\ TimersListed' /\ \A u \in Threads : Armed(u)' <=> Armed(u) /\ u # c
      /\ callback' = [callback EXCEPT ![c] = "none"]
  <2>1. CASE callback[c] = "wait_queue_timeout_handler"
    <3>1. timer_cancel(c)
      BY <1>1, <2>1 DEF Unblocked
    <3> QED BY <1>2, <3>1, CancelTimer DEF timer_cancel
  <2>2. CASE callback[c] # "wait_queue_timeout_handler"
    <3>1. UNCHANGED <<timer_queue, due, callback>>
      BY <1>1, <2>2 DEF Unblocked, timerVars
    <3>2. callback[c] = "none" /\ ~Armed(c)
      BY <1>2, <1>3, <2>2 DEF TimersFit, Handlers
    <3> QED BY <1>3, <3>1, <3>2, TimersStay
  <2> QED BY <2>1, <2>2
<1>5. PlacesFit'
  BY <1>1, <1>2 DEF PlacesFit, Exiting
<1>6. WakeFits'
  BY <1>1, <1>2 DEF WakeFits
<1>7. WaitersFit'
  BY <1>1, <1>2, <1>3, <1>4 DEF WaitersFit, Handle
<1>8. NodesFit'
  BY <1>1, <1>2 DEF NodesFit, Free, Listed
<1>9. WaitQueueCoherent'
  BY <1>1, WaitStay
<1>10. TimersFit'
  BY <1>1, <1>2, <1>3, <1>4 DEF TimersFit
<1>11. Counts
  BY <1>1 DEF Counts
<1> QED BY <1>4, <1>5, <1>6, <1>7, <1>8, <1>9, <1>10, <1>11 DEF Fits, ThreadsFit

(* thread_detach marks a thread that nobody joins. *)
LEMMA DetachReturnFits ==
  ASSUME Coherent, thread_detach_return
  PROVE  Fits' /\ Counts
<1> DEFINE c == current_thread
           t == arg[c]
<1> USE Facts
<1>1. /\ pc[c] = "wake_all" /\ wake.next = "detach"
      /\ pc' = [pc EXCEPT ![c] = "user"] /\ arg' = [arg EXCEPT ![c] = IDLE_THREAD_ID]
      /\ detached' \subseteq detached \cup {t}
      /\ UNCHANGED <<state, current_thread, g_thread_free_list, thread_list,
                     blocking_wait_queue, callback, timer_queue, due, thread_preempt_lock>>
      /\ UNCHANGED waitVars
  BY DEF thread_detach_return, WakeAllDone, InWakeAll, schedVars, timerVars, waitVars
<1>2. /\ state[c] = "RUNNING" /\ c \in Threads
      /\ \A u \in Threads : u # c => pc[u] # "wake_all"
      /\ \A u \in Threads : pc[u] = "join" => arg[u] # t
  <2>1. ~Joined(t)
    BY <1>1 DEF WakeFits
  <2> QED BY <1>1, <2>1 DEF CurrentRuns, WakeFits, MustYield, PlacesFit, Joined
<1> HIDE DEF t
<1>3. PlacesFit'
  BY <1>1, <1>2 DEF PlacesFit, Exiting
<1>4. WakeFits'
  BY <1>1, <1>2 DEF WakeFits
<1>5. WaitersFit'
  BY <1>1, <1>2 DEF WaitersFit, Handle
<1>6. NodesFit'
  BY <1>1, <1>2 DEF NodesFit, Free, Listed
<1>7. WaitQueueCoherent'
  BY <1>1, WaitStay
<1>8. TimersListed' /\ \A u \in Threads : Armed(u)' <=> Armed(u)
  BY <1>1, TimersStay
<1>9. TimersFit'
  BY <1>1, <1>2, <1>8 DEF TimersFit
<1>10. Counts
  BY <1>1 DEF Counts
<1> QED BY <1>3, <1>4, <1>5, <1>6, <1>7, <1>8, <1>9, <1>10 DEF Fits, ThreadsFit

(* thread_exit switches away when it has woken its joiner. *)
LEMMA ExitReschedFits ==
  ASSUME Coherent, thread_exit_resched, current_thread' \in Threads
  PROVE  Fits' /\ Counts
<1> DEFINE c == current_thread
<1> USE Facts
<1>1. /\ \A t \in Threads : state'[t] = state[t] \/ (state'[t] \in Live /\ state[t] \in Live)
      /\ state[c] = "DEATH" /\ pc[c] = "wake_all" /\ list_is_empty(wait_list[c])
      /\ pc' = [pc EXCEPT ![c] = "none"]
      /\ UNCHANGED <<detached, g_thread_free_list, thread_list, blocking_wait_queue,
                     callback, timer_queue, due, arg>>
      /\ UNCHANGED waitVars /\ Counts
  BY ExitReschedStep DEF Becomes, nodeVars, waitVars, timerVars
<1>2. /\ c \in Threads /\ state'[c] = "DEATH" /\ Listed(c)
      /\ \A u \in Threads : u # c => pc[u] # "wake_all"
  BY <1>1 DEF PlacesFit, NodesFit, Live
<1>3. \A u \in Threads : ~(state[u] = "BLOCKED" /\ blocking_wait_queue[u] = c)
  <2>1. c \in WaitQueues /\ Range(<< >>) = {}
    BY <1>2, ConstantFacts DEF Range
  <2> QED BY <1>1, <2>1 DEF WaitQueueCoherent, list_is_empty
<1>4. PlacesFit'
  BY <1>1, <1>2 DEF PlacesFit, Exiting, Live
<1>5. WakeFits'
  BY <1>1, <1>2 DEF WakeFits
<1>6. WaitersFit'
  <2>1. ASSUME NEW u \in Threads, pc[u] = "join"
        PROVE  /\ Handle(arg[u])' /\ arg'[u] # u /\ arg'[u] \notin detached'
               /\ callback'[u] = "none"
               /\ IF state'[u] = "BLOCKED"
                  THEN blocking_wait_queue'[u] = arg'[u] /\ pc'[arg'[u]] # "none"
                  ELSE state'[arg'[u]] = "DEATH"
    <3>1. /\ Handle(arg[u]) /\ arg[u] # u /\ arg[u] \notin detached
          /\ callback[u] = "none"
          /\ IF state[u] = "BLOCKED"
             THEN blocking_wait_queue[u] = arg[u] /\ pc[arg[u]] # "none"
             ELSE state[arg[u]] = "DEATH"
      BY <2>1 DEF WaitersFit
    <3>2. arg[u] \in Threads /\ arg'[u] = arg[u]
      BY <1>1
    <3> QED BY <1>1, <1>2, <1>3, <3>1, <3>2 DEF Handle, Live
  <2>2. \A u \in Threads : pc'[u] \in {"wait", "join"} => pc[u] = pc'[u]
    BY <1>1
  <2> QED BY <1>1, <2>1, <2>2 DEF WaitersFit, Live
<1>7. NodesFit'
  BY <1>1, <1>2 DEF NodesFit, Free, Listed, Live
<1>8. WaitQueueCoherent'
  BY <1>1, WaitStay DEF Live
<1>9. TimersListed' /\ \A u \in Threads : Armed(u)' <=> Armed(u)
  BY <1>1, TimersStay
<1>10. TimersFit'
  BY <1>1, <1>2, <1>9 DEF TimersFit, Live
<1> QED BY <1>1, <1>4, <1>5, <1>6, <1>7, <1>8, <1>9, <1>10 DEF Fits, ThreadsFit

-----------------------------------------------------------------------------
(* A thread is taken from the wait queue it is blocked on, by a wakeup or  *)
(* by its timeout. *)
LEMMA WakesFit ==
  ASSUME Coherent, current_thread' \in Threads,
         NEW q \in WaitQueues, NEW t \in Threads, Wakes1(q, t),
         \/ \A u \in Threads : pc[u] # "wake_all"
         \/ /\ UNCHANGED current_thread /\ wake'.next = wake.next
            /\ wake'.q = wake.q /\ wake'.reschedule = wake.reschedule,
         \/ UNCHANGED timer_queue
         \/ /\ timer_queue' = list_remove_head(timer_queue)
            /\ ~list_is_empty(timer_queue) /\ t = Head(timer_queue) /\ pc[t] = "wait"
  PROVE  Fits'
<1> DEFINE c == current_thread
<1> USE Facts
<1>1. /\ UNCHANGED <<detached, g_thread_free_list, thread_list, callback, due, pc, arg>>
      /\ wait_count' = [wait_count EXCEPT ![q] = @ - 1]
      /\ blocking_wait_queue' = [blocking_wait_queue EXCEPT ![t] = NULL]
      /\ state[t] = "BLOCKED" /\ blocking_wait_queue[t] = q
      /\ \/ pc[t] = "wait"
         \/ /\ pc[t] = "join" /\ arg[t] = c /\ state[c] = "DEATH" /\ pc[c] = "wake_all"
  BY DEF Wakes1, nodeVars
<1>2. /\ state'[t] \in Live
      /\ \A u \in Threads : u # t => \/ state'[u] = state[u]
                                     \/ state'[u] \in Live /\ state[u] \in Live
  BY DEF Wakes1, Becomes, Live
<1>3. PlacesFit'
  BY <1>1, <1>2 DEF PlacesFit, Exiting, Live
<1>4. WakeFits'
  <2>1. CASE \A u \in Threads : pc[u] # "wake_all"
    BY <1>1, <2>1 DEF WakeFits
  <2>2. CASE /\ UNCHANGED current_thread /\ wake'.next = wake.next
             /\ wake'.q = wake.q /\ wake'.reschedule = wake.reschedule
    <3>1. Handle(wake.q)' = Handle(wake.q) /\ Joined(wake.q)' = Joined(wake.q)
      BY <1>1, <2>2 DEF Handle, Joined
    <3> QED BY <1>1, <2>2, <3>1 DEF WakeFits
  <2> QED BY <2>1, <2>2
<1>5. WaitersFit'
  <2>1. blocking_wait_queue \in [Threads -> WaitQueues \cup {NULL}] /\ c # t
    BY <1>1 DEF IInv, TypeOK, WaitTypeOK, CurrentRuns
  <2>2. ASSUME NEW u \in Threads, pc[u] = "join"
        PROVE  /\ Handle(arg[u])' /\ arg'[u] # u /\ arg'[u] \notin detached'
               /\ callback'[u] = "none"
               /\ IF state'[u] = "BLOCKED"
                  THEN blocking_wait_queue'[u] = arg'[u] /\ pc'[arg'[u]] # "none"
                  ELSE state'[arg'[u]] = "DEATH"
    <3>1. /\ Handle(arg[u]) /\ arg[u] # u /\ arg[u] \notin detached
          /\ callback[u] = "none"
          /\ IF state[u] = "BLOCKED"
             THEN blocking_wait_queue[u] = arg[u] /\ pc[arg[u]] # "none"
             ELSE state[arg[u]] = "DEATH"
      BY <2>2 DEF WaitersFit
    <3>2. arg[u] \in Threads /\ state'[arg[u]] = "DEATH" <=> state[arg[u]] = "DEATH"
      BY <1>1, <1>2 DEF Live
    <3>3. CASE u = t
      BY <1>1, <1>2, <2>1, <2>2, <3>1, <3>2, <3>3 DEF Handle, Live
    <3>4. CASE u # t
      BY <1>1, <1>2, <2>1, <3>1, <3>2, <3>4 DEF Handle, Live
    <3> QED BY <3>3, <3>4
  <2> QED BY <1>1, <1>2, <2>1, <2>2 DEF WaitersFit, Live
<1>6. NodesFit'
  <2>1. pc[t] # "none"
    BY <1>1
  <2> QED BY <1>1, <1>2, <2>1 DEF NodesFit, Free, Listed, Live
<1>7. WaitQueueCoherent'
  <2>1. /\ wait_list \in [WaitQueues -> Seq(Threads)] /\ wait_count \in [WaitQueues -> Int]
        /\ blocking_wait_queue \in [Threads -> WaitQueues \cup {NULL}]
    BY DEF IInv, TypeOK, WaitTypeOK
  <2>2. PICK l \in Seq(Threads) :
           /\ wait_list' = [wait_list EXCEPT ![q] = l]
           /\ Len(l) = Len(wait_list[q]) - 1 /\ IsInjective(l)
           /\ Range(l) = Range(wait_list[q]) \ {t}
    BY DEF Wakes1
  <2>3. ASSUME NEW p \in WaitQueues
        PROVE  {u \in Threads : state'[u] = "BLOCKED" /\ blocking_wait_queue'[u] = p}
                 = {u \in Threads : state[u] = "BLOCKED" /\ blocking_wait_queue[u] = p}
                   \ (IF p = q THEN {t} ELSE {})
    BY <1>1, <1>2, <2>1 DEF Live
  <2>4. ASSUME NEW p \in WaitQueues
        PROVE  /\ wait_count'[p] = Len(wait_list'[p]) /\ IsInjective(wait_list'[p])
               /\ Range(wait_list'[p]) = {u \in Threads : state'[u] = "BLOCKED"
                                                         /\ blocking_wait_queue'[u] = p}
    <3>1. CASE p = q
      BY <1>1, <2>1, <2>2, <2>3, <3>1 DEF WaitQueueCoherent
    <3>2. CASE p # q
      BY <1>1, <2>1, <2>2, <2>3, <3>2 DEF WaitQueueCoherent
    <3> QED BY <3>1, <3>2
  <2> QED BY <2>4 DEF WaitQueueCoherent
<1>8. CASE UNCHANGED timer_queue
  <2>1. TimersListed' /\ \A u \in Threads : Armed(u)' <=> Armed(u)
    BY <1>1, <1>8, TimersStay
  <2>2. TimersFit'
    BY <1>1, <1>2, <2>1 DEF TimersFit, Live
  <2> QED BY <1>3, <1>4, <1>5, <1>6, <1>7, <2>1, <2>2 DEF Fits, ThreadsFit
<1>9. CASE /\ timer_queue' = list_remove_head(timer_queue)
           /\ ~list_is_empty(timer_queue) /\ t = Head(timer_queue)
  <2>1. TimersListed' /\ \A u \in Threads : Armed(u)' <=> Armed(u) /\ u # t
    BY <1>1, <1>9, FireTimer
  <2>2. TimersFit'
    BY <1>1, <1>2, <2>1 DEF TimersFit, Live
  <2> QED BY <1>3, <1>4, <1>5, <1>6, <1>7, <2>1, <2>2 DEF Fits, ThreadsFit
<1> QED BY <1>8, <1>9

(* The two timer handlers. *)
LEMMA HandlersFit ==
  ASSUME Coherent, current_thread' \in Threads,
         thread_sleep_handler \/ wait_queue_timeout_handler
  PROVE  Fits' /\ Counts
<1> DEFINE c == current_thread
           t == Head(timer_queue)
<1> USE Facts
<1>1. CASE thread_sleep_handler
  <2>1. /\ Due("thread_sleep_handler")
        /\ callback' = [callback EXCEPT ![t] = "none"]
        /\ state' = [state EXCEPT ![t] = "READY"]
        /\ UNCHANGED <<current_thread, detached, g_thread_free_list, thread_list,
                       blocking_wait_queue, due, pc, arg, thread_preempt_lock>>
        /\ UNCHANGED waitVars
    BY <1>1 DEF thread_sleep_handler, nodeVars, waitVars, ctlVars
  <2>2. /\ t \in Threads /\ callback[t] = "thread_sleep_handler" /\ pc[c] \in IntsOn
        /\ timer_queue' = list_remove_head(timer_queue) /\ ~list_is_empty(timer_queue)
    BY <2>1, FirstTimer
  <2>3. state[t] = "SLEEPING" /\ pc[t] = "user" /\ \A u \in Threads : pc[u] # "wake_all"
    BY <2>2, Running DEF TimersFit, PlacesFit, IntsOn
  <2>4. TimersListed' /\ \A u \in Threads : Armed(u)' <=> Armed(u) /\ u # t
    BY <2>1, <2>2, FireTimer
  <2> HIDE DEF t
  <2>5. callback \in [Threads -> Handlers]
    BY DEF IInv, TypeOK, TimerTypeOK
  <2>6. PlacesFit'
    BY <2>1, <2>2, <2>3 DEF PlacesFit, Exiting
  <2>7. WakeFits'
    BY <2>1, <2>3 DEF WakeFits
  <2>8. WaitersFit'
    BY <2>1, <2>2, <2>3, <2>5 DEF WaitersFit, Handle
  <2>9. NodesFit'
    BY <2>1, <2>2, <2>3 DEF NodesFit, Free, Listed
  <2>10. WaitQueueCoherent'
    BY <2>1, <2>2, <2>3, WaitStay
  <2>11. TimersFit'
    BY <2>1, <2>2, <2>3, <2>4, <2>5 DEF TimersFit
  <2>12. Counts
    BY <2>1 DEF Counts
  <2> QED BY <2>4, <2>6, <2>7, <2>8, <2>9, <2>10, <2>11, <2>12 DEF Fits, ThreadsFit
<1>2. CASE wait_queue_timeout_handler
  <2>1. /\ t \in Threads /\ pc[t] = "wait" /\ state[c] = "RUNNING"
        /\ callback[t] = "wait_queue_timeout_handler"
        /\ pc[c] \in IntsOn /\ UNCHANGED current_thread
        /\ timer_queue' = list_remove_head(timer_queue) /\ ~list_is_empty(timer_queue)
        /\ IF state[t] = "BLOCKED" THEN \E q \in WaitQueues : Wakes1(q, t)
           ELSE UNCHANGED <<state, nodeVars, waitVars, callback, due, pc, arg>>
        /\ Counts
    BY <1>2, TimeoutStep
  <2>2. \A u \in Threads : pc[u] # "wake_all"
    BY <2>1, Running DEF IntsOn
  <2>3. CASE state[t] = "BLOCKED"
    BY <2>1, <2>2, <2>3, WakesFit
  <2>4. CASE state[t] # "BLOCKED"
    <3>1. /\ UNCHANGED <<state, detached, g_thread_free_list, thread_list,
                         blocking_wait_queue, callback, due, pc, arg, current_thread>>
          /\ UNCHANGED waitVars
      BY <2>1, <2>4 DEF nodeVars, waitVars
    <3>2. TimersListed' /\ \A u \in Threads : Armed(u)' <=> Armed(u) /\ u # t
      BY <2>1, <3>1, FireTimer
    <3> HIDE DEF t
    <3>3. TimersFit'
      BY <2>1, <2>4, <3>1, <3>2 DEF TimersFit
    <3>4. PlacesFit' /\ WakeFits' /\ WaitersFit' /\ NodesFit'
      BY <2>2, <3>1 DEF PlacesFit, Exiting, WakeFits, WaitersFit, Handle, NodesFit, Free, Listed
    <3>5. WaitQueueCoherent'
      BY <3>1, WaitStay
    <3> QED BY <2>1, <3>2, <3>3, <3>4, <3>5 DEF Fits, ThreadsFit
  <2> QED BY <2>3, <2>4
<1> QED BY <1>1, <1>2

-----------------------------------------------------------------------------
(* Every step of the kernel keeps Fits. *)
LEMMA NextFits ==
  ASSUME Coherent, Disciplined, [Next]_vars, current_thread' \in Threads
  PROVE  Fits' /\ Counts
<1> DEFINE c == current_thread
<1>1. CASE \/ thread_yield \/ timer_tick_return
           \/ \E p \in -1 .. NUM_PRIORITY : thread_set_priority(p)
  BY <1>1, YieldWalks, WalksFit
<1>2. CASE \/ initial_thread_func \/ thread_preempt_disable \/ thread_preempt_enable
           \/ thread_create
           \/ \E t \in Threads : thread_detach_and_resume(t)
           \/ os_timer_tick \/ os_timer_tick_early
  BY <1>2, MoveWalks, WalksFit
<1>3. CASE get_free_thread_node
  BY <1>3, MoveWalks, WalksFit, FetchFits
<1>4. ASSUME NEW t \in Threads, thread_resume(t) PROVE Fits' /\ Counts
  BY <1>4, MoveWalks, WalksFit, ResumeFits
<1>5. CASE wait_queue_wake_all_return
  BY <1>5, WakeAllReturnWalks, WalksFit
<1>6. CASE \/ \E p \in Priorities : thread_create_publish(p)
           \/ \E d \in Delays : thread_sleep(d)
           \/ \E q \in UserQueues, d \in Timeouts : wait_queue_block(q, d)
           \/ \E t \in Threads, d \in JoinTimeouts : thread_join(t, d)
  BY <1>6, PublishFits, SleepFits, WaitFits, JoinFits
<1>7. CASE thread_join_return \/ wait_queue_block_return \/ thread_detach_return
           \/ thread_exit_resched \/ thread_sleep_handler \/ wait_queue_timeout_handler
  BY <1>7, JoinReturnFits, WaitReturnFits, DetachReturnFits, ExitReschedFits, HandlersFit
<1>8. CASE thread_exit
  <2>1. CASE c \in detached
    BY <1>8, <2>1, ExitFits
  <2>2. CASE c \notin detached
    <3>1. /\ Client("thread_exit") /\ WakeAll(c, FALSE, NO_ERR, "DEATH", "exit")
          /\ UNCHANGED <<nodeVars, timerVars>> /\ UNCHANGED <<arg, thread_preempt_lock>>
      BY <1>8, <2>2 DEF thread_exit, WakeJoiners
    <3>2. WakesAll("exit", "DEATH") /\ wake'.q = c /\ Counts
      BY <3>1, WakeAllSteps1
    <3>3. Fits'
      BY <2>2, <3>1, <3>2, WakesAllFit
    <3> QED BY <3>2, <3>3
  <2> QED BY <2>1, <2>2
<1>9. ASSUME NEW t \in Threads, thread_detach(t) PROVE Fits' /\ Counts
  <2>1. /\ Client("thread_detach") /\ Handle(t) /\ ~Joined(t)
        /\ WakeAll(t, FALSE, ERR_THREAD_DETACHED, state[c], "detach")
        /\ arg' = [arg EXCEPT ![c] = t]
        /\ UNCHANGED <<nodeVars, timerVars>> /\ UNCHANGED thread_preempt_lock
    BY <1>9 DEF thread_detach, Disciplined
  <2>2. WakeAll(t, FALSE, ERR_THREAD_DETACHED, "RUNNING", "detach")
    BY <2>1, ClientRuns
  <2>3. WakesAll("detach", "RUNNING") /\ wake'.q = t /\ Counts
    BY <2>1, <2>2, WakeAllSteps1 DEF Live
  <2>4. Fits'
    BY <2>1, <2>3, WakesAllFit
  <2> QED BY <2>3, <2>4
<1>10. ASSUME NEW q \in UserQueues, NEW b \in BOOLEAN,
              wait_queue_wake_all(q, b, NO_ERR) \/ wait_queue_destroy(q, b)
       PROVE  Fits' /\ Counts
  <2>1. PICK f, e : Client(f) /\ WakeAll(q, b, e, state[c], "user")
    BY <1>10 DEF wait_queue_wake_all, wait_queue_destroy
  <2>2. /\ UNCHANGED <<nodeVars, timerVars>> /\ UNCHANGED <<arg, thread_preempt_lock>>
        /\ WakeAll(q, b, e, "RUNNING", "user")
    BY <1>10, <2>1, ClientRuns DEF wait_queue_wake_all, wait_queue_destroy
  <2>3. WakesAll("user", "RUNNING") /\ wake'.q = q /\ Counts
    BY <2>1, <2>2, WakeAllSteps1 DEF Live
  <2>4. Fits'
    BY <2>2, <2>3, WakesAllFit
  <2> QED BY <2>3, <2>4
<1>11. ASSUME NEW q \in UserQueues, NEW b \in BOOLEAN, wait_queue_wake_one(q, b, NO_ERR)
       PROVE  Fits' /\ Counts
  <2>1. PICK t \in Threads : Wakes1(q, t)
    BY <1>11, WakeOneStep1
  <2>2. q \in WaitQueues /\ UNCHANGED timer_queue /\ Counts /\ pc[c] = "user"
    BY <1>11, WakeOneStep1, ConstantFacts
  <2>3. \A u \in Threads : pc[u] # "wake_all"
    BY <2>2, Running
  <2> QED BY <2>1, <2>2, <2>3, WakesFit
<1>12. CASE wake_all_next
  BY <1>12, WakeNextStep, WakesFit
<1>13. CASE UNCHANGED vars
  <2>1. /\ UNCHANGED <<state, pc, arg, current_thread, detached, g_thread_free_list,
                       thread_list, blocking_wait_queue, callback, timer_queue, due,
                       thread_preempt_lock, wake>>
        /\ UNCHANGED waitVars
    BY <1>13 DEF vars, schedVars, ctlVars, nodeVars, waitVars, timerVars
  <2>2. PlacesFit' /\ WakeFits' /\ WaitersFit' /\ NodesFit'
    BY <2>1, Facts DEF PlacesFit, Exiting, WakeFits, Joined, WaitersFit, Handle, NodesFit,
       Free, Listed
  <2>3. WaitQueueCoherent' /\ TimersListed' /\ TimersFit'
    BY <2>1, Facts, WaitStay, TimersStay DEF TimersFit
  <2>4. Counts
    BY <2>1 DEF Counts
  <2> QED BY <2>2, <2>3, <2>4 DEF Fits, ThreadsFit
<1>14. CASE exception_die
  BY <1>13, <1>14 DEF exception_die
<1> QED BY <1>1, <1>2, <1>3, <1>4, <1>5, <1>6, <1>7, <1>8, <1>9, <1>10, <1>11, <1>12,
        <1>13, <1>14 DEF Next, ThreadStep, TimerInterrupt

(* thread_preempt_lock counts the threads inside printf. *)
LEMMA CountsKept ==
  ASSUME Coherent, Counts
  PROVE  PreemptLockCounts'
<1> DEFINE Inside == {t \in Threads : pc[t] = "printf"}
           Inside1 == {t \in Threads : pc'[t] = "printf"}
<1>1. IsFiniteSet(Threads)
  <2>1. IsFiniteSet(0 .. MAX_THREAD_ID - 1)
    BY FS_Interval, SizeAssumption DEF MAX_THREAD_ID
  <2> QED BY <2>1 DEF Threads
<1>2. IsFiniteSet(Inside) /\ IsFiniteSet(Inside1)
  BY <1>1, FS_Subset
<1>3. Cardinality(Inside) \in Nat /\ thread_preempt_lock = Cardinality(Inside)
  BY <1>2, FS_CardinalityType, Facts DEF PreemptLockCounts
<1>4. CASE /\ UNCHANGED thread_preempt_lock
           /\ \A t \in Threads : pc'[t] = "printf" <=> pc[t] = "printf"
  <2>1. Inside1 = Inside
    BY <1>4
  <2> QED BY <1>3, <1>4, <2>1 DEF PreemptLockCounts
<1>5. ASSUME NEW t \in Threads, pc[t] # "printf", pc'[t] = "printf",
             \A u \in Threads \ {t} : pc'[u] = pc[u],
             thread_preempt_lock' = thread_preempt_lock + 1
      PROVE  PreemptLockCounts'
  <2>1. Inside1 = Inside \cup {t} /\ t \notin Inside
    BY <1>5
  <2>2. Cardinality(Inside1) = Cardinality(Inside) + 1
    <3> HIDE DEF Inside, Inside1
    <3> QED BY <1>2, <2>1, FS_AddElement
  <2> QED BY <1>3, <1>5, <2>2 DEF PreemptLockCounts
<1>6. ASSUME NEW t \in Threads, pc[t] = "printf", pc'[t] # "printf",
             \A u \in Threads \ {t} : pc'[u] = pc[u],
             thread_preempt_lock' = IF thread_preempt_lock > 0 THEN thread_preempt_lock - 1
                                    ELSE thread_preempt_lock
      PROVE  PreemptLockCounts'
  <2>1. Inside1 = Inside \ {t} /\ t \in Inside
    BY <1>6
  <2>2. Cardinality(Inside1) = Cardinality(Inside) - 1 /\ Cardinality(Inside1) \in Nat
    <3> HIDE DEF Inside, Inside1
    <3> QED BY <1>2, <2>1, FS_RemoveElement, FS_CardinalityType
  <2> QED BY <1>3, <1>6, <2>2 DEF PreemptLockCounts
<1> QED BY <1>4, <1>5, <1>6 DEF Counts

(* Coherent is inductive. *)
LEMMA NextCoherent == Coherent /\ Disciplined /\ [Next]_vars => Coherent'
<1> SUFFICES ASSUME Coherent, Disciplined, [Next]_vars PROVE Coherent'
  OBVIOUS
<1>1. IInv'
  BY Facts, NextOK
<1>2. current_thread' \in Threads
  BY <1>1 DEF IInv, TypeOK, SchedTypeOK
<1>3. Fits' /\ Counts
  BY <1>2, NextFits
<1>4. CpuFits' /\ PreemptLockCounts'
  BY <1>3, NextCpu, CountsKept
<1> QED BY <1>1, <1>3, <1>4 DEF Coherent, IInv, Fits

-----------------------------------------------------------------------------
(* start_kernel leaves the kernel in order. *)
LEMMA InitCoherent == Init => Coherent
<1> SUFFICES ASSUME Init PROVE Coherent
  OBVIOUS
<1> DEFINE listed == <<IDLE_THREAD_ID, INIT_THREAD_ID>>
<1>1. /\ INIT_THREAD_ID \in Threads /\ INIT_THREAD_ID # IDLE_THREAD_ID
      /\ IDLE_THREAD_ID \in Threads /\ INIT_THREAD_ID = 1 /\ IDLE_THREAD_ID = 0
  BY ConstantFacts DEF INIT_THREAD_ID, IDLE_THREAD_ID
<1>2. IInv /\ CpuFits
  BY InitOK, InitCpu
<1>3. /\ \A t \in Threads : Free(t) <=> t \notin {IDLE_THREAD_ID, INIT_THREAD_ID}
      /\ IsInjective(g_thread_free_list)
  <2>1. g_thread_free_list = [i \in 1 .. MAX_THREAD_ID - 2 |-> i + 1]
    BY DEF Init, FreeListAtInit
  <2>2. Range(g_thread_free_list) = 2 .. MAX_THREAD_ID - 1
    <3>1. \A t \in 2 .. MAX_THREAD_ID - 1 : t - 1 \in 1 .. MAX_THREAD_ID - 2 /\ (t - 1) + 1 = t
      BY SizeAssumption DEF MAX_THREAD_ID
    <3>2. \A i \in 1 .. MAX_THREAD_ID - 2 : i + 1 \in 2 .. MAX_THREAD_ID - 1
      BY SizeAssumption DEF MAX_THREAD_ID
    <3> QED BY <2>1, <3>1, <3>2 DEF Range
  <2>3. IsInjective(g_thread_free_list)
    BY <2>1 DEF IsInjective
  <2> QED BY <1>1, <2>2, <2>3, SizeAssumption DEF Free, list_in_list, Threads, MAX_THREAD_ID
<1>4. /\ \A t \in Threads : Listed(t) <=> t \in {IDLE_THREAD_ID, INIT_THREAD_ID}
      /\ IsInjective(thread_list)
  <2>1. Range(listed) = {IDLE_THREAD_ID, INIT_THREAD_ID} /\ IsInjective(listed)
    BY <1>1 DEF Range, IsInjective
  <2> QED BY <2>1 DEF Init, Listed, list_in_list
<1>5. PlacesFit
  BY <1>1 DEF Init, PlacesFit, Exiting
<1>6. WakeFits
  BY <1>1 DEF Init, WakeFits
<1>7. WaitersFit
  BY <1>1 DEF Init, WaitersFit
<1>8. NodesFit
  BY <1>1, <1>3, <1>4 DEF Init, NodesFit
<1>9. IsInjective(<< >>) /\ Range(<< >>) = {} /\ Len(<< >>) = 0 /\ DOMAIN << >> = {}
  BY DEF IsInjective, Range
<1>10. WaitQueueCoherent
  BY <1>1, <1>9 DEF Init, WaitQueueCoherent
<1>11. TimersListed /\ TimersFit
  BY <1>1, <1>9 DEF Init, TimersListed, Sorted, TimersFit, Armed, list_in_list
<1>12. PreemptLockCounts
  <2>1. {t \in Threads : pc[t] = "printf"} = {}
    BY DEF Init
  <2> QED BY <2>1, FS_EmptySet DEF Init, PreemptLockCounts
<1> QED BY <1>2, <1>5, <1>6, <1>7, <1>8, <1>10, <1>11, <1>12 DEF Coherent, IInv, ThreadsFit
=============================================================================
