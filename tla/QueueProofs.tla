----------------------------- MODULE QueueProofs -----------------------------
(***************************************************************************)
(* The run queues hold exactly the threads that wait for the CPU, in the   *)
(* order in which they get it: what the queue operations and               *)
(* thread_resched do to these facts, that every step of the kernel keeps   *)
(* the part CpuFits of the inductive invariant, and that it is a step of   *)
(* Dispatcher.                                                             *)
(***************************************************************************)
EXTENDS KernelInvariant, KernelProofs

(* The queues q hold the threads of W, each once and under its priority. *)
Holds(q, W, pr) ==
  \A p \in Levels : IsInjective(q[p]) /\ Range(q[p]) = {t \in W : pr[t] = p}

(* Who has the CPU or waits for it in the states st, but for the idle thread. *)
Wanted(st) == {t \in Threads \ {IDLE_THREAD_ID} : st[t] \in Live}

(* Who waits for it now. *)
InLine == {t \in Threads \ {IDLE_THREAD_ID} : Waiting(t)}

LEMMA QueuedHolds == Queued <=> Holds(run_queue, InLine, priority)
BY DEF Queued, Holds, InLine

(* Of each thread of W: those before it in the queue of its priority. *)
Lines(q, W, pr) == [t \in W |-> Before(q[pr[t]], t)]

LEMMA AheadIs == Ahead = Lines(run_queue, InLine, priority) /\ DOMAIN Ahead = InLine
BY DEF Ahead, Lines, InLine

(* A step as Dispatcher allows it. *)
OrderStep == [Order!Next]_<<current_thread, Ahead, priority>>

(* Queueing a thread that was in no queue. *)
LEMMA InsertHolds ==
  ASSUME NEW r \in RunQueues, NEW pr \in [Threads -> Levels], NEW W \in SUBSET Threads,
         NEW t \in Threads, t \notin W, Holds(r.q, W, pr)
  PROVE  /\ Holds(insert_in_run_queue_head(r, t, pr[t]).q, W \cup {t}, pr)
         /\ Holds(insert_in_run_queue_tail(r, t, pr[t]).q, W \cup {t}, pr)
<1> DEFINE p == pr[t]
           a == list_add_tail(r.q[p], t)
           q == [r.q EXCEPT ![p] = a]
<1>1. p \in Levels /\ r.q \in [Levels -> Seq(Threads)]
  BY DEF RunQueues
<1>2. IsInjective(r.q[p]) /\ Range(r.q[p]) = {u \in W : pr[u] = p}
  BY <1>1 DEF Holds
<1>3. ~list_in_list(r.q[p], t)
  BY <1>2 DEF list_in_list
<1>4. IsInjective(a) /\ Range(a) = Range(r.q[p]) \cup {t}
  <2> DEFINE s == r.q[p]
  <2>1. s \in Seq(Threads) /\ IsInjective(s) /\ ~list_in_list(s, t)
    BY <1>1, <1>2, <1>3
  <2> HIDE DEF s
  <2>2. IsInjective(list_add_tail(s, t))
    BY <2>1, AddTailDistinct
  <2>3. Range(list_add_tail(s, t)) = Range(s) \cup {t}
    BY <2>1, AddTail
  <2> QED BY <2>2, <2>3 DEF s
<1> HIDE DEF a
<1>5. Holds(q, W \cup {t}, pr)
  <2>1. ASSUME NEW l \in Levels
        PROVE  IsInjective(q[l]) /\ Range(q[l]) = {u \in W \cup {t} : pr[u] = l}
    <3>1. CASE l = p
      BY <1>1, <1>2, <1>4, <3>1
    <3>2. CASE l # p
      BY <1>1, <3>2 DEF Holds
    <3> QED BY <3>1, <3>2
  <2> HIDE DEF q
  <2> QED BY <2>1 DEF Holds
<1>6. /\ insert_in_run_queue_head(r, t, pr[t]).q = q
      /\ insert_in_run_queue_tail(r, t, pr[t]).q = q
  BY DEF insert_in_run_queue_head, insert_in_run_queue_tail, a, list_add_head, list_add_tail
<1> QED BY <1>5, <1>6

(* It comes after those of its priority. *)
LEMMA InsertLines ==
  ASSUME NEW r \in RunQueues, NEW pr \in [Threads -> Levels], NEW W \in SUBSET Threads,
         NEW t \in Threads, t \notin W, Holds(r.q, W, pr)
  PROVE  /\ Lines(insert_in_run_queue_head(r, t, pr[t]).q, W \cup {t}, pr)
              = Order!Join(Lines(r.q, W, pr), t, pr)
         /\ Lines(insert_in_run_queue_tail(r, t, pr[t]).q, W \cup {t}, pr)
              = Order!Join(Lines(r.q, W, pr), t, pr)
<1> DEFINE p == pr[t]
           s == r.q[p]
           a == list_add_tail(s, t)
           q == [r.q EXCEPT ![p] = a]
           new == Lines(q, W \cup {t}, pr)
           old == Lines(r.q, W, pr)
<1>1. p \in Levels /\ r.q \in [Levels -> Seq(Threads)] /\ s \in Seq(Threads)
  BY DEF RunQueues
<1>2. Range(s) = {u \in W : pr[u] = p} /\ ~list_in_list(s, t)
  BY <1>1 DEF Holds, list_in_list
<1>3. Before(a, t) = Range(s) /\ \A u \in Range(s) : Before(a, u) = Before(s, u)
  <2> HIDE DEF s
  <2> QED BY <1>1, <1>2, BeforeAddTail
<1>4. q[p] = a /\ \A l \in Levels \ {p} : q[l] = r.q[l]
  BY <1>1
<1> HIDE DEF a, q
<1>5. new[t] = {v \in W : pr[v] = pr[t]}
  BY <1>2, <1>3, <1>4 DEF Lines
<1>6. ASSUME NEW u \in W PROVE new[u] = old[u] /\ u # t
  <2>1. pr[u] \in Levels /\ new[u] = Before(q[pr[u]], u) /\ old[u] = Before(r.q[pr[u]], u)
    BY DEF Lines
  <2>2. CASE pr[u] = p
    BY <1>2, <1>3, <1>4, <2>1, <2>2
  <2>3. CASE pr[u] # p
    BY <1>4, <2>1, <2>3
  <2> QED BY <2>2, <2>3
<1>7. new = [u \in W \cup {t} |-> new[u]] /\ DOMAIN old = W
  BY DEF Lines
<1> HIDE DEF new, old, p
<1>8. new = Order!Join(old, t, pr)
  BY <1>5, <1>6, <1>7 DEF Order!Join
<1>9. /\ insert_in_run_queue_head(r, t, pr[t]).q = q
      /\ insert_in_run_queue_tail(r, t, pr[t]).q = q
  BY DEF insert_in_run_queue_head, insert_in_run_queue_tail, a, q, p, list_add_head,
     list_add_tail
<1> QED BY <1>8, <1>9 DEF new, old

(* The thread get_new_thread takes is one of those queued; it is the idle  *)
(* thread only when there are none.                                        *)
LEMMA PickHolds ==
  ASSUME NEW r \in RunQueues, Exact(r), NEW pr \in [Threads -> Levels],
         NEW W \in SUBSET (Threads \ {IDLE_THREAD_ID}), Holds(r.q, W, pr)
  PROVE  LET new == get_new_thread(r) IN
         /\ new \in Threads
         /\ new = IDLE_THREAD_ID => W = {}
         /\ new # IDLE_THREAD_ID => new \in W
         /\ Holds(QueuesAfterPick(r).q, W \ {new}, pr)
<1> DEFINE m == Min(r.bits)
           new == get_new_thread(r)
<1>1. CASE r.bits # {}
  <2>1. r.bits \in SUBSET Nat /\ r.bits \subseteq Levels
    BY ConstantFacts DEF RunQueues
  <2>2. m \in r.bits /\ m \in Levels
    BY <1>1, <2>1, MinIsLeast
  <2> HIDE DEF m
  <2>3. r.q \in [Levels -> Seq(Threads)] /\ ~list_is_empty(r.q[m])
    BY <2>2 DEF RunQueues, Exact
  <2> DEFINE b == list_remove_head(r.q[m])
             q == [r.q EXCEPT ![m] = b]
  <2>4. new = Head(r.q[m]) /\ QueuesAfterPick(r).q = q
    <3>1. /\ get_new_thread(r) = Head(r.q[m])
          /\ QueuesAfterPick(r) =
               [q |-> [r.q EXCEPT ![m] = list_remove_head(r.q[m])],
                bits |-> IF list_is_empty(list_remove_head(r.q[m]))
                         THEN r.bits \ {m} ELSE r.bits]
      BY <1>1, <2>3 DEF get_new_thread, QueuesAfterPick, m
    <3> QED BY <3>1
  <2>5. IsInjective(r.q[m]) /\ Range(r.q[m]) = {u \in W : pr[u] = m}
    BY <2>2 DEF Holds
  <2>6. IsInjective(b) /\ Range(b) = Range(r.q[m]) \ {new} /\ list_in_list(r.q[m], new)
    <3>1. r.q[m] \in Seq(Threads) /\ ~list_is_empty(r.q[m]) /\ IsInjective(r.q[m])
      BY <2>2, <2>3, <2>5
    <3>2. /\ IsInjective(b) /\ Range(b) = Range(r.q[m]) \ {Head(r.q[m])}
          /\ list_in_list(r.q[m], Head(r.q[m]))
      BY <3>1, RemoveHead
    <3> QED BY <2>4, <3>2
  <2>7. new \in W /\ pr[new] = m
    BY <2>5, <2>6 DEF list_in_list
  <2> HIDE DEF b, new
  <2>8. Holds(q, W \ {new}, pr)
    <3>1. ASSUME NEW l \in Levels
          PROVE  IsInjective(q[l]) /\ Range(q[l]) = {u \in W \ {new} : pr[u] = l}
      <4>1. CASE l = m
        BY <2>2, <2>3, <2>5, <2>6, <4>1
      <4>2. CASE l # m
        BY <2>2, <2>3, <2>7, <4>2 DEF Holds
      <4> QED BY <4>1, <4>2
    <3> HIDE DEF q
    <3> QED BY <3>1 DEF Holds
  <2> QED BY <2>4, <2>7, <2>8 DEF new
<1>2. CASE r.bits = {}
  <2>1. new = IDLE_THREAD_ID /\ QueuesAfterPick(r) = r
    BY <1>2 DEF get_new_thread, QueuesAfterPick
  <2>2. ASSUME NEW t \in W PROVE FALSE
    <3>1. pr[t] \in Levels
      OBVIOUS
    <3>2. r.q[pr[t]] = << >>
      BY <1>2, <3>1 DEF Exact, list_is_empty
    <3>3. t \in Range(r.q[pr[t]])
      BY <3>1 DEF Holds
    <3> QED BY <3>2, <3>3 DEF Range
  <2>3. W = {} /\ W \ {new} = W
    BY <2>2
  <2> HIDE DEF new
  <2> QED BY <2>1, <2>3, ConstantFacts DEF new
<1> QED BY <1>1, <1>2

(* It is the first in order, and the others keep theirs. *)
LEMMA PickLines ==
  ASSUME NEW r \in RunQueues, Exact(r), NEW pr \in [Threads -> Levels],
         NEW W \in SUBSET (Threads \ {IDLE_THREAD_ID}), Holds(r.q, W, pr)
  PROVE  LET new == get_new_thread(r)
             a == Lines(r.q, W, pr)
         IN
         /\ new \in IF W = {} THEN {IDLE_THREAD_ID} ELSE Order!First(a, pr)
         /\ Lines(QueuesAfterPick(r).q, W \ {new}, pr) = Order!Drop(a, new)
<1> DEFINE m == Min(r.bits)
           new == get_new_thread(r)
           old == Lines(r.q, W, pr)
<1>0. DOMAIN old = W /\ \A u \in W : old[u] = Before(r.q[pr[u]], u)
  BY DEF Lines
<1>1. CASE r.bits # {}
  <2>1. r.bits \in SUBSET Nat /\ r.bits \subseteq Levels
    BY ConstantFacts DEF RunQueues
  <2>2. m \in r.bits /\ m \in Levels /\ \A l \in r.bits : m <= l
    BY <1>1, <2>1, MinIsLeast
  <2> HIDE DEF m
  <2> DEFINE s == r.q[m]
             b == list_remove_head(s)
             q == [r.q EXCEPT ![m] = b]
  <2>3. r.q \in [Levels -> Seq(Threads)] /\ s \in Seq(Threads) /\ ~list_is_empty(s)
    BY <2>2 DEF RunQueues, Exact
  <2>4. new = Head(s) /\ QueuesAfterPick(r).q = q
    <3>1. /\ get_new_thread(r) = Head(s)
          /\ QueuesAfterPick(r) =
               [q |-> [r.q EXCEPT ![m] = list_remove_head(s)],
                bits |-> IF list_is_empty(list_remove_head(s))
                         THEN r.bits \ {m} ELSE r.bits]
      BY <1>1, <2>3 DEF get_new_thread, QueuesAfterPick, m
    <3> QED BY <3>1
  <2>5. IsInjective(s) /\ Range(s) = {u \in W : pr[u] = m}
    BY <2>2 DEF Holds
  <2>6. /\ Before(s, new) = {} /\ new \in Range(s)
        /\ \A u \in Range(s) \ {new} : Before(b, u) = Before(s, u) \ {new}
    <3>1. new = Head(s)
      BY <2>4
    <3> HIDE DEF s, new
    <3>2. list_in_list(s, Head(s))
      BY <2>3, RemoveHead
    <3> QED BY <2>3, <2>5, <3>1, <3>2, BeforeRemoveHead DEF list_in_list
  <2>7. new \in W /\ pr[new] = m /\ q[m] = b /\ \A l \in Levels \ {m} : q[l] = r.q[l]
    BY <2>2, <2>3, <2>5, <2>6
  <2> HIDE DEF b, new, q
  <2>8. ASSUME NEW u \in W PROVE pr[u] \in r.bits /\ u \in Range(r.q[pr[u]])
    <3>1. pr[u] \in Levels
      OBVIOUS
    <3>2. u \in Range(r.q[pr[u]])
      BY <3>1 DEF Holds
    <3>3. r.q[pr[u]] # << >>
      BY <3>2 DEF Range
    <3> QED BY <3>1, <3>2, <3>3 DEF Exact, list_is_empty
  <2>9. new \in Order!First(old, pr)
    <3>1. old[new] = {}
      BY <1>0, <2>6, <2>7
    <3>2. \A u \in W : pr[new] <= pr[u]
      BY <2>2, <2>7, <2>8
    <3> HIDE DEF old
    <3> QED BY <1>0, <2>7, <3>1, <3>2 DEF Order!First
  <2>10. ASSUME NEW u \in W \ {new}
         PROVE  Before(q[pr[u]], u) = old[u] \ {new}
    <3>1. pr[u] \in Levels /\ old[u] = Before(r.q[pr[u]], u) /\ u \in Range(r.q[pr[u]])
      BY <1>0, <2>8
    <3>2. CASE pr[u] = m
      BY <2>6, <2>7, <3>1, <3>2
    <3>3. CASE pr[u] # m
      <4>1. new \notin Range(r.q[pr[u]])
        BY <2>7, <3>1, <3>3 DEF Holds
      <4>2. new \notin Before(r.q[pr[u]], u)
        BY <4>1 DEF Before, Range
      <4> QED BY <2>7, <3>1, <3>3, <4>2
    <3> QED BY <3>2, <3>3
  <2>11. Lines(q, W \ {new}, pr) = Order!Drop(old, new)
    <3> HIDE DEF old
    <3> QED BY <1>0, <2>10 DEF Lines, Order!Drop
  <2> QED BY <2>4, <2>7, <2>9, <2>11 DEF new
<1>2. CASE r.bits = {}
  <2>1. new = IDLE_THREAD_ID /\ QueuesAfterPick(r) = r /\ W = {}
    BY <1>2, PickHolds DEF get_new_thread, QueuesAfterPick
  <2> HIDE DEF new
  <2>2. Lines(r.q, W \ {new}, pr) = Order!Drop(old, new)
    BY <2>1 DEF Lines, Order!Drop
  <2> QED BY <2>1, <2>2 DEF new
<1> QED BY <1>1, <1>2

-----------------------------------------------------------------------------
(* The parts of Coherent, and what they say of the current thread. *)
LEMMA Facts ==
  ASSUME Coherent
  PROVE  /\ IInv /\ Queued /\ IdleSpins /\ OnlyCurrentRuns /\ CurrentRuns /\ IdleStays
         /\ PlacesFit /\ WakeFits /\ WaitersFit /\ NodesFit
         /\ WaitQueueCoherent /\ TimersListed /\ TimersFit /\ PreemptLockCounts
         /\ current_thread \in Threads /\ IDLE_THREAD_ID \in Threads
         /\ state \in [Threads -> States] /\ pc \in [Threads -> Labels]
         /\ priority \in [Threads -> Levels] /\ arg \in [Threads -> Threads]
         /\ RunQueue \in RunQueues /\ Exact(RunQueue) /\ RunQueue.q = run_queue
         /\ remaining_quantum \in [Threads -> 0 .. QUANTUM]
<1>1. IInv
  BY DEF Coherent, IInv
<1>2. arg \in [Threads -> Threads]
  BY <1>1 DEF IInv, TypeOK, RestTypeOK
<1>3. RunQueue.q = run_queue
  BY DEF RunQueue
<1> QED BY <1>1, <1>2, <1>3, Current, ConstantFacts DEF Coherent, CpuFits, ThreadsFit

(* A thread outside wait_queue_wake_all that runs is RUNNING and in no     *)
(* queue, and nobody is in that loop.                                      *)
LEMMA Running ==
  ASSUME Coherent, pc[current_thread] # "wake_all"
  PROVE  /\ state[current_thread] = "RUNNING" /\ current_thread \notin InLine
         /\ \A t \in Threads : pc[t] # "wake_all"
BY Facts DEF CurrentRuns, PlacesFit, InLine, Waiting

(* A client's call is made by a running thread that is not the idle one.   *)
LEMMA ClientRuns ==
  ASSUME Coherent, NEW f, Client(f)
  PROVE  /\ current_thread \in Threads \ {IDLE_THREAD_ID} /\ f \in Calls
         /\ pc[current_thread] = "user" /\ state[current_thread] = "RUNNING"
         /\ irq = "none" /\ ~halted /\ state[IDLE_THREAD_ID] = "READY"
         /\ current_thread \notin InLine
         /\ \A t \in Threads : pc[t] # "wake_all"
BY Facts, Running DEF Client, IdleStays

(* Who wants the CPU when the current thread's state is changed. *)
LEMMA WantedIs ==
  ASSUME Coherent, NEW st \in [Threads -> States],
         \A t \in Threads : t # current_thread => st[t] = state[t]
  PROVE  Wanted(st) = (InLine \ {current_thread})
                      \cup (IF st[current_thread] \in Live
                            THEN {current_thread} \ {IDLE_THREAD_ID} ELSE {})
BY Facts DEF Wanted, InLine, Waiting, Live

(* A caller that is running joins those that wait. *)
LEMMA WantedOnSwitch ==
  ASSUME Coherent, current_thread \notin InLine
  PROVE  LET c == current_thread IN
         Wanted([state EXCEPT ![c] = "READY"]) = InLine \cup ({c} \ {IDLE_THREAD_ID})
<1> DEFINE c == current_thread
           st == [state EXCEPT ![c] = "READY"]
<1>1. /\ st \in [Threads -> States] /\ st[c] \in Live
      /\ \A t \in Threads : t # c => st[t] = state[t]
  BY Facts DEF States, Live
<1> HIDE DEF st
<1>2. Wanted(st) = (InLine \ {c}) \cup (IF st[c] \in Live THEN {c} \ {IDLE_THREAD_ID} ELSE {})
  BY <1>1, WantedIs
<1>3. Wanted(st) = InLine \cup ({c} \ {IDLE_THREAD_ID})
  BY <1>1, <1>2
<1> QED BY <1>3 DEF st

(* What a call of thread_resched that finds the run queues in order does:  *)
(* the CPU goes to the first thread that wants it, and to the idle thread  *)
(* only when there is none.                                                *)
LEMMA Switch ==
  ASSUME Coherent, NEW st \in [Threads -> States], NEW r \in RunQueues, Exact(r),
         NEW rem, NEW k \in [Threads -> Labels], NEW lk,
         thread_resched(st, r, rem, k, lk),
         NEW pr \in [Threads -> Levels], priority' = pr, Holds(r.q, Wanted(st), pr)
  PROVE  \E new \in Threads :
            /\ new = IDLE_THREAD_ID => Wanted(st) = {}
            /\ new # IDLE_THREAD_ID => new \in Wanted(st)
            /\ state' = [st EXCEPT ![new] = "RUNNING"]
            /\ current_thread' = new /\ pc' = k /\ Queued'
            /\ Order!Dispatch(Lines(r.q, Wanted(st), pr), pr)
<1> DEFINE new == get_new_thread(r)
           a == Lines(r.q, Wanted(st), pr)
<1>1. Wanted(st) \in SUBSET (Threads \ {IDLE_THREAD_ID})
  BY DEF Wanted
<1>2. /\ new \in Threads /\ (new = IDLE_THREAD_ID => Wanted(st) = {})
      /\ new # IDLE_THREAD_ID => new \in Wanted(st)
      /\ Holds(QueuesAfterPick(r).q, Wanted(st) \ {new}, pr)
  BY <1>1, PickHolds
<1>a. /\ new \in IF Wanted(st) = {} THEN {IDLE_THREAD_ID} ELSE Order!First(a, pr)
      /\ Lines(QueuesAfterPick(r).q, Wanted(st) \ {new}, pr) = Order!Drop(a, new)
  BY <1>1, PickLines
<1>3. /\ state' = [st EXCEPT ![new] = "RUNNING"]
      /\ current_thread' = new /\ pc' = k /\ run_queue' = QueuesAfterPick(r).q
  BY DEF thread_resched
<1> HIDE DEF new
<1>4. InLine' = Wanted(st) \ {new}
  BY <1>2, <1>3 DEF InLine, Waiting, Wanted, Live
<1>5. Queued'
  <2>1. Holds(run_queue', InLine', priority')
    BY <1>2, <1>3, <1>4
  <2> QED BY <2>1 DEF Queued, Holds, InLine
<1>6. Ahead' = Order!Drop(a, new)
  <2>1. Ahead' = Lines(run_queue', InLine', priority')
    BY DEF Ahead, Lines, InLine
  <2> HIDE DEF a
  <2> QED BY <1>3, <1>4, <1>a, <2>1
<1>7. DOMAIN a = Wanted(st)
  BY DEF Lines
<1> HIDE DEF a
<1>8. Order!Dispatch(a, pr)
  BY <1>3, <1>a, <1>6, <1>7 DEF Order!Dispatch
<1> QED BY <1>2, <1>3, <1>5, <1>8 DEF a

(* What the CPU invariant needs of a step that ends in thread_resched. *)
LEMMA SwitchCpu ==
  ASSUME Coherent, NEW st \in [Threads -> States], NEW r \in RunQueues, Exact(r),
         NEW rem, NEW k \in [Threads -> Labels], NEW lk,
         thread_resched(st, r, rem, k, lk),
         NEW pr \in [Threads -> Levels], priority' = pr, Holds(r.q, Wanted(st), pr),
         st[IDLE_THREAD_ID] = "READY", irq' = "none",
         k[IDLE_THREAD_ID] \in {"yield", "print", "printf", "user"},
         \A t \in Threads : k[t] # "wake_all",
         Listed(IDLE_THREAD_ID)',
         "thread_set_priority" \notin Calls => \A t \in Threads : st[t] # "RUNNING"
  PROVE  CpuFits' /\ Order!Dispatch(Lines(r.q, Wanted(st), pr), pr)
<1>1. PICK new \in Threads :
        /\ new = IDLE_THREAD_ID => Wanted(st) = {}
        /\ new # IDLE_THREAD_ID => new \in Wanted(st)
        /\ state' = [st EXCEPT ![new] = "RUNNING"]
        /\ current_thread' = new /\ pc' = k /\ Queued'
        /\ Order!Dispatch(Lines(r.q, Wanted(st), pr), pr)
  BY Switch
<1>2. CurrentRuns'
  BY <1>1 DEF CurrentRuns
<1>3. IdleStays'
  BY <1>1, ConstantFacts DEF IdleStays, Live
<1>4. IdleSpins'
  BY <1>1 DEF IdleSpins, Waiting, Wanted, Live
<1>5. OnlyCurrentRuns'
  BY <1>1 DEF OnlyCurrentRuns
<1> QED BY <1>1, <1>2, <1>3, <1>4, <1>5 DEF CpuFits

(* Steps that Dispatcher allows, from what they do to Ahead. *)
LEMMA OrderStays ==
  ASSUME UNCHANGED <<state, run_queue, current_thread, priority>>
  PROVE  OrderStep
BY DEF OrderStep, Ahead, Waiting

LEMMA Enqueue ==
  ASSUME Coherent, NEW t \in Threads, t # IDLE_THREAD_ID, t \notin InLine
  PROVE  /\ Lines(insert_in_run_queue_head(RunQueue, t, priority[t]).q, InLine \cup {t}, priority)
              = Order!Join(Ahead, t, priority)
         /\ Lines(insert_in_run_queue_tail(RunQueue, t, priority[t]).q, InLine \cup {t}, priority)
              = Order!Join(Ahead, t, priority)
<1>1. /\ InLine \in SUBSET Threads /\ Holds(RunQueue.q, InLine, priority)
      /\ Ahead = Lines(RunQueue.q, InLine, priority)
  BY Facts, QueuedHolds, AheadIs DEF InLine
<1> QED BY <1>1, Facts, InsertLines

LEMMA OrderWaits ==
  ASSUME Coherent, NEW t \in Threads, t # IDLE_THREAD_ID, t \notin InLine,
         InLine' = InLine \cup {t},
         run_queue' = insert_in_run_queue_head(RunQueue, t, priority[t]).q,
         UNCHANGED <<current_thread, priority>>
  PROVE  OrderStep
<1>1. Ahead' = Lines(run_queue', InLine', priority')
  BY DEF Ahead, Lines, InLine
<1>2. Ahead' = Order!Join(Ahead, t, priority)
  BY <1>1, Enqueue
<1>3. Order!Wait(t)
  BY <1>2, AheadIs DEF Order!Wait
<1> QED BY <1>3 DEF OrderStep, Order!Next

LEMMA OrderYields ==
  ASSUME Coherent, current_thread \notin InLine, UNCHANGED priority, NEW a,
         a = IF current_thread = IDLE_THREAD_ID THEN Ahead
             ELSE Order!Join(Ahead, current_thread, priority),
         Order!Dispatch(a, priority)
  PROVE  OrderStep
<1>1. Order!Yield
  BY AheadIs DEF Order!Yield
<1> QED BY <1>1 DEF OrderStep, Order!Next

LEMMA OrderLeaves ==
  ASSUME current_thread # IDLE_THREAD_ID, UNCHANGED priority,
         Order!Dispatch(Lines(RunQueue.q, InLine, priority), priority)
  PROVE  OrderStep
<1>1. Ahead = Lines(RunQueue.q, InLine, priority)
  BY AheadIs DEF RunQueue
<1>2. Order!Leave
  BY <1>1 DEF Order!Leave
<1> QED BY <1>2 DEF OrderStep, Order!Next

(* What the invariant needs of a step that leaves the queues and the       *)
(* states alone.                                                           *)
LEMMA StayCpu ==
  ASSUME Coherent, UNCHANGED <<state, run_queue, current_thread, priority>>,
         state[current_thread] = "RUNNING", pc'[current_thread] # "wake_all",
         irq' # "none" => pc'[current_thread] \in IntsOn,
         pc'[IDLE_THREAD_ID] \in {"yield", "print", "printf", "user"},
         Listed(IDLE_THREAD_ID)',
         current_thread = IDLE_THREAD_ID
           => (pc[IDLE_THREAD_ID] = "yield" => pc'[IDLE_THREAD_ID] = "yield")
              /\ (irq = "INT_RESCHEDULE" => irq' = "INT_RESCHEDULE")
  PROVE  CpuFits' /\ OrderStep
<1>1. CurrentRuns'
  BY DEF CurrentRuns
<1>2. IdleStays'
  BY Facts DEF IdleStays
<1>3. IdleSpins'
  BY Facts DEF IdleSpins, Waiting
<1>4. OnlyCurrentRuns'
  BY Facts DEF OnlyCurrentRuns
<1>5. Queued'
  BY Facts DEF Queued, Waiting
<1>6. OrderStep
  BY OrderStays
<1> QED BY <1>1, <1>2, <1>3, <1>4, <1>5, <1>6 DEF CpuFits

(* What it needs of a step that makes a thread READY and queues it. *)
LEMMA WakeCpu ==
  ASSUME Coherent, NEW t \in Threads, state[t] \notin Live, t # current_thread,
         state' = [state EXCEPT ![t] = "READY"],
         run_queue' = insert_in_run_queue_head(RunQueue, t, priority[t]).q,
         UNCHANGED <<current_thread, priority, thread_list>>,
         CurrentRuns', pc'[IDLE_THREAD_ID] = pc[IDLE_THREAD_ID],
         current_thread = IDLE_THREAD_ID => irq' = "INT_RESCHEDULE"
  PROVE  CpuFits' /\ OrderStep
<1>1. t # IDLE_THREAD_ID /\ t \notin InLine /\ state[IDLE_THREAD_ID] \in Live
  BY Facts DEF IdleStays, InLine, Waiting, Live
<1>2. IdleStays'
  BY <1>1, Facts DEF IdleStays, Live, Listed
<1>3. IdleSpins'
  BY <1>1, Facts DEF IdleSpins, Waiting
<1>4. OnlyCurrentRuns'
  BY Facts DEF OnlyCurrentRuns
<1>5. InLine' = InLine \cup {t}
  BY <1>1, Facts DEF InLine, Waiting, Live
<1>6. Holds(run_queue', InLine \cup {t}, priority)
  <2>1. InLine \in SUBSET Threads /\ Holds(RunQueue.q, InLine, priority)
    BY Facts, QueuedHolds DEF InLine
  <2> QED BY <1>1, <2>1, Facts, InsertHolds
<1>7. Queued'
  BY <1>5, <1>6 DEF Queued, Holds, InLine
<1>8. OrderStep
  BY <1>1, <1>5, OrderWaits
<1> QED BY <1>2, <1>3, <1>4, <1>7, <1>8 DEF CpuFits

(* The thread that wait_queue_wake_one or _all takes is BLOCKED there. *)
LEMMA FirstIsBlocked ==
  ASSUME Coherent, NEW q \in WaitQueues, ~list_is_empty(wait_list[q])
  PROVE  LET t == Head(wait_list[q]) IN
         /\ t \in Threads /\ state[t] = "BLOCKED" /\ blocking_wait_queue[t] = q
         /\ state[t] \notin Live /\ t # current_thread
<1> DEFINE t == Head(wait_list[q])
<1>1. wait_list[q] \in Seq(Threads)
  BY Facts DEF IInv, TypeOK, WaitTypeOK
<1>2. t \in Threads /\ list_in_list(wait_list[q], t)
  BY <1>1, RemoveHead
<1>3. state[t] = "BLOCKED" /\ blocking_wait_queue[t] = q
  BY <1>2, Facts DEF WaitQueueCoherent, list_in_list
<1>4. state[current_thread] # "BLOCKED"
  BY Facts DEF CurrentRuns
<1> HIDE DEF t
<1> QED BY <1>2, <1>3, <1>4 DEF Live, t

-----------------------------------------------------------------------------
(* The calls that give up the CPU at once: thread_yield and                *)
(* thread_set_priority.                                                    *)
LEMMA YieldCpu ==
  ASSUME Coherent, thread_yield \/ \E p \in -1 .. NUM_PRIORITY : thread_set_priority(p)
  PROVE  CpuFits' /\ OrderStep
<1> DEFINE c == current_thread
<1> USE Facts
<1>1. CASE thread_yield
  <2> DEFINE r == IF thread_is_idle(c) THEN RunQueue
                  ELSE insert_in_run_queue_tail(RunQueue, c, priority[c])
             st == StatesOnSwitch(c)
             rem == [remaining_quantum EXCEPT ![c] = 0]
             k == [pc EXCEPT ![c] = IF c = IDLE_THREAD_ID THEN "print" ELSE "user"]
  <2>1. thread_resched(st, r, rem, k, 1) /\ irq' = "none" /\ pc[c] # "wake_all"
    BY <1>1 DEF thread_yield, arch_ints_enabled, IntsOn
  <2>2. st = [state EXCEPT ![c] = "READY"] /\ st \in [Threads -> States]
    BY DEF StatesOnSwitch, States
  <2>3. Wanted(st) = InLine \cup ({c} \ {IDLE_THREAD_ID}) /\ c \notin InLine
    <3>1. c \notin InLine
      BY <2>1, Running
    <3> QED BY <2>2, <3>1, WantedOnSwitch
  <2>4. Holds(r.q, Wanted(st), priority) /\ r \in RunQueues /\ Exact(r)
    <3>1. InLine \in SUBSET Threads /\ Holds(RunQueue.q, InLine, priority)
      BY QueuedHolds DEF InLine
    <3>2. CASE c = IDLE_THREAD_ID
      BY <2>3, <3>1, <3>2 DEF thread_is_idle
    <3>3. CASE c # IDLE_THREAD_ID
      <4>1. r = insert_in_run_queue_tail(RunQueue, c, priority[c]) /\ Wanted(st) = InLine \cup {c}
        BY <2>3, <3>3 DEF thread_is_idle
      <4> HIDE DEF r, st
      <4> QED BY <2>3, <3>1, <4>1, InsertHolds, InsertTail
    <3> QED BY <3>2, <3>3
  <2>5. UNCHANGED priority /\ Listed(IDLE_THREAD_ID)'
    BY <1>1 DEF thread_yield, nodeVars, IdleStays, Listed
  <2>6. k \in [Threads -> Labels]
    BY DEF Labels, IntsOn
  <2>7. /\ st[IDLE_THREAD_ID] = "READY"
        /\ k[IDLE_THREAD_ID] \in {"yield", "print", "printf", "user"}
        /\ \A t \in Threads : k[t] # "wake_all"
    BY <2>1, <2>2, Running DEF IdleStays
  <2>8. "thread_set_priority" \notin Calls => \A t \in Threads : st[t] # "RUNNING"
    BY <2>2 DEF OnlyCurrentRuns
  <2>9. Lines(r.q, Wanted(st), priority)
          = IF c = IDLE_THREAD_ID THEN Ahead ELSE Order!Join(Ahead, c, priority)
    <3>1. CASE c = IDLE_THREAD_ID
      <4>1. r = RunQueue /\ Wanted(st) = InLine
        BY <2>3, <3>1 DEF thread_is_idle
      <4> HIDE DEF r, st
      <4> QED BY <3>1, <4>1, AheadIs
    <3>2. CASE c # IDLE_THREAD_ID
      <4>1. r = insert_in_run_queue_tail(RunQueue, c, priority[c]) /\ Wanted(st) = InLine \cup {c}
        BY <2>3, <3>2 DEF thread_is_idle
      <4> HIDE DEF r, st
      <4> QED BY <2>3, <3>2, <4>1, Enqueue
    <3> QED BY <3>1, <3>2
  <2> HIDE DEF st, r, rem, k
  <2>10. CpuFits' /\ Order!Dispatch(Lines(r.q, Wanted(st), priority), priority)
    BY <2>1, <2>2, <2>4, <2>5, <2>6, <2>7, <2>8, SwitchCpu
  <2>11. OrderStep
    BY <2>3, <2>5, <2>9, <2>10, OrderYields
  <2> QED BY <2>10, <2>11
<1>2. ASSUME NEW prio \in -1 .. NUM_PRIORITY, thread_set_priority(prio)
      PROVE  CpuFits' /\ OrderStep
  <2> DEFINE p == Clamp(prio)
             r == insert_in_run_queue_head(RunQueue, c, p)
             pr == [priority EXCEPT ![c] = p]
  <2>0. p \in Levels
    BY SizeAssumption DEF Clamp, Levels, IDLE_PRIORITY, HIGHEST_PRIORITY
  <2>1. /\ Client("thread_set_priority") /\ priority' = pr /\ irq' = irq
        /\ thread_resched(state, r, remaining_quantum, pc, 1)
        /\ UNCHANGED thread_list
    BY <1>2 DEF thread_set_priority, nodeVars
  <2>2. /\ c # IDLE_THREAD_ID /\ irq = "none" /\ state[c] = "RUNNING" /\ c \notin InLine
        /\ state[IDLE_THREAD_ID] = "READY" /\ \A t \in Threads : pc[t] # "wake_all"
        /\ "thread_set_priority" \in Calls
    BY <2>1, ClientRuns
  <2>3. Wanted(state) = InLine \cup {c}
    BY <2>2, WantedIs DEF Live
  <2>4. Holds(RunQueue.q, InLine, pr)
    <3>1. Holds(RunQueue.q, InLine, priority)
      BY QueuedHolds
    <3> QED BY <2>2, <3>1 DEF Holds, InLine
  <2>5. pr \in [Threads -> Levels] /\ pr[c] = p
    BY <2>0
  <2>6. r \in RunQueues /\ Exact(r) /\ Holds(r.q, InLine \cup {c}, pr)
    <3>1. InLine \in SUBSET Threads
      BY DEF InLine
    <3> HIDE DEF pr, p
    <3> QED BY <2>0, <2>2, <2>4, <2>5, <3>1, InsertHead, InsertHolds
  <2>7. pc[IDLE_THREAD_ID] \in {"yield", "print", "printf", "user"} /\ Listed(IDLE_THREAD_ID)'
    BY <2>1 DEF IdleStays, Listed
  <2>8. Lines(r.q, InLine \cup {c}, pr) = Order!Join(Ahead, c, pr)
    <3>1. InLine \in SUBSET Threads
      BY DEF InLine
    <3>2. Lines(RunQueue.q, InLine, pr) = Ahead
      BY <2>2 DEF Lines, Ahead, InLine
    <3> HIDE DEF pr, p
    <3> QED BY <2>2, <2>4, <2>5, <3>1, <3>2, InsertLines
  <2>9. /\ c \notin DOMAIN Ahead /\ c # IDLE_THREAD_ID /\ p \in Levels
        /\ priority' = [priority EXCEPT ![c] = p]
    BY <2>0, <2>1, <2>2, AheadIs
  <2> HIDE DEF pr, r
  <2>10. CpuFits' /\ Order!Dispatch(Lines(r.q, Wanted(state), pr), pr)
    BY <2>1, <2>2, <2>3, <2>5, <2>6, <2>7, SwitchCpu
  <2>11. Order!Dispatch(Order!Join(Ahead, c, pr), pr)
    BY <2>3, <2>8, <2>10
  <2> HIDE DEF p
  <2>12. Order!SetLevel(p)
    BY <2>9, <2>11 DEF Order!SetLevel, pr
  <2>13. OrderStep
    BY <2>9, <2>12 DEF OrderStep, Order!Next
  <2> QED BY <2>10, <2>13
<1> QED BY <1>1, <1>2

-----------------------------------------------------------------------------
(* What free_thread_node does to the two node lists. *)
LEMMA FreedNode ==
  ASSUME Coherent, NEW t \in Threads, Listed(t), free_thread_node(t)
  PROVE  /\ \A u \in Threads : /\ Listed(u)' <=> Listed(u) /\ u # t
                               /\ Free(u)' <=> Free(u) \/ u = t
         /\ IsInjective(g_thread_free_list)' /\ IsInjective(thread_list)'
<1>1. /\ thread_list \in Seq(Threads) /\ g_thread_free_list \in Seq(Threads)
      /\ IsInjective(thread_list) /\ IsInjective(g_thread_free_list)
      /\ list_in_list(thread_list, t) /\ ~list_in_list(g_thread_free_list, t)
  BY Facts DEF NodesFit, IInv, TypeOK, NodeTypeOK, Listed, Free
<1>2. /\ IsInjective(list_delete(thread_list, t))
      /\ Range(list_delete(thread_list, t)) = Range(thread_list) \ {t}
  BY <1>1, Delete
<1>3. /\ IsInjective(list_add_tail(g_thread_free_list, t))
      /\ Range(list_add_tail(g_thread_free_list, t)) = Range(g_thread_free_list) \cup {t}
  BY <1>1, AddTail, AddTailDistinct
<1> QED BY <1>2, <1>3 DEF free_thread_node, Listed, Free, list_in_list

(* The caller gives up the CPU and does not want it back. *)
LEMMA GiveUpCpu ==
  ASSUME Coherent, current_thread # IDLE_THREAD_ID, state[current_thread] # "READY",
         NEW st \in [Threads -> States],
         \A t \in Threads : t # current_thread => st[t] = state[t],
         st[current_thread] \notin Live,
         NEW k \in [Threads -> Labels], k[current_thread] # "wake_all",
         \A t \in Threads : t # current_thread => k[t] = pc[t],
         NEW rem, NEW lk, thread_resched(st, RunQueue, rem, k, lk),
         UNCHANGED priority, irq' = "none", Listed(IDLE_THREAD_ID)'
  PROVE  CpuFits' /\ OrderStep
<1>1. Wanted(st) = InLine
  <2>1. current_thread \notin InLine
    BY DEF InLine, Waiting
  <2> QED BY <2>1, WantedIs
<1>2. Holds(RunQueue.q, Wanted(st), priority)
  BY <1>1, Facts, QueuedHolds
<1>3. /\ st[IDLE_THREAD_ID] = "READY" /\ \A t \in Threads : k[t] # "wake_all"
      /\ k[IDLE_THREAD_ID] \in {"yield", "print", "printf", "user"}
  BY Facts DEF IdleStays, PlacesFit
<1>4. "thread_set_priority" \notin Calls => \A t \in Threads : st[t] # "RUNNING"
  BY Facts DEF OnlyCurrentRuns, Live
<1>5. CpuFits' /\ Order!Dispatch(Lines(RunQueue.q, Wanted(st), priority), priority)
  BY <1>2, <1>3, <1>4, Facts, SwitchCpu
<1>6. OrderStep
  BY <1>1, <1>5, OrderLeaves
<1> QED BY <1>5, <1>6

(* thread_join, thread_exit, thread_sleep and wait_queue_block. *)
LEMMA WaitCpu ==
  ASSUME Coherent,
         \/ \E t \in Threads, d \in JoinTimeouts : thread_join(t, d)
         \/ thread_exit /\ current_thread \in detached
         \/ thread_exit_resched
         \/ \E d \in Delays : thread_sleep(d)
         \/ \E q \in UserQueues, d \in Timeouts : wait_queue_block(q, d)
  PROVE  CpuFits' /\ OrderStep
<1> DEFINE c == current_thread
<1> USE Facts
<1>0. ASSUME NEW f, Client(f), irq' = irq
      PROVE  /\ c # IDLE_THREAD_ID /\ state[c] = "RUNNING" /\ irq' = "none" /\ pc[c] = "user"
             /\ pc[IDLE_THREAD_ID] \in {"yield", "print", "printf", "user"}
             /\ \A t \in Threads : pc[t] # "wake_all"
  BY <1>0, ClientRuns DEF IdleStays
<1>1. ASSUME NEW q, NEW d, NEW l \in {"wait", "join"}, Block(q, d, l), NEW f, Client(f),
             UNCHANGED <<priority, nodeVars, irq>>
      PROVE  CpuFits' /\ OrderStep
  <2> DEFINE st == [state EXCEPT ![c] = "BLOCKED"]
             k == [pc EXCEPT ![c] = l]
  <2>1. thread_resched(st, RunQueue, remaining_quantum, k, 1)
    BY <1>1 DEF Block
  <2>2. st \in [Threads -> States] /\ k \in [Threads -> Labels]
    BY <1>1 DEF States, Labels
  <2>3. Listed(IDLE_THREAD_ID)'
    BY <1>1 DEF IdleStays, Listed, nodeVars
  <2>4. st[c] \notin Live /\ k[c] # "wake_all" /\ \A t \in Threads : t # c => st[t] = state[t] /\ k[t] = pc[t]
    BY DEF Live
  <2> HIDE DEF st, k
  <2> QED BY <1>0, <1>1, <2>1, <2>2, <2>3, <2>4, GiveUpCpu
<1>2. ASSUME NEW f, Client(f), UNCHANGED <<state, run_queue, current_thread, priority, pc, irq>>,
             Listed(IDLE_THREAD_ID)'
      PROVE  CpuFits' /\ OrderStep
  BY <1>0, <1>2, StayCpu
<1>3. ASSUME NEW t \in Threads, NEW d \in JoinTimeouts, thread_join(t, d)
      PROVE  CpuFits' /\ OrderStep
  <2>1. Client("thread_join") /\ UNCHANGED <<priority, irq>> /\ Listed(t) /\ t # IDLE_THREAD_ID
    BY <1>3 DEF thread_join, Handle, Listed
  <2>2. CASE UNCHANGED <<schedVars, nodeVars, waitVars, timerVars, ctlVars, arg>>
    BY <1>2, <2>1, <2>2 DEF schedVars, nodeVars, ctlVars, IdleStays, Listed
  <2>3. CASE free_thread_node(t) /\ UNCHANGED <<schedVars, waitVars, timerVars, ctlVars, arg>>
    <3>1. Listed(IDLE_THREAD_ID)'
      BY <2>1, <2>3, FreedNode DEF IdleStays
    <3> QED BY <1>2, <2>1, <2>3, <3>1 DEF schedVars, ctlVars
  <2>4. CASE Block(t, d, "join") /\ UNCHANGED nodeVars
    BY <1>1, <2>1, <2>4
  <2> QED BY <1>3, <2>2, <2>3, <2>4 DEF thread_join
<1>4. ASSUME NEW q \in UserQueues, NEW d \in Timeouts, wait_queue_block(q, d)
      PROVE  CpuFits' /\ OrderStep
  <2>1. Client("wait_queue_block") /\ UNCHANGED <<priority, irq, nodeVars>>
    BY <1>4 DEF wait_queue_block
  <2>2. CASE d = 0
    BY <1>2, <1>4, <2>1, <2>2 DEF wait_queue_block, schedVars, nodeVars, ctlVars, IdleStays, Listed
  <2>3. CASE d # 0
    BY <1>1, <1>4, <2>1, <2>3 DEF wait_queue_block
  <2> QED BY <2>2, <2>3
<1>5. CASE thread_exit /\ c \in detached
  <2> DEFINE st == [state EXCEPT ![c] = "DEATH"]
             k == [pc EXCEPT ![c] = "none"]
  <2>1. /\ Client("thread_exit") /\ UNCHANGED <<priority, irq>> /\ free_thread_node(c)
        /\ thread_resched(st, RunQueue, remaining_quantum, k, 0)
    BY <1>5 DEF thread_exit
  <2>2. st \in [Threads -> States] /\ k \in [Threads -> Labels]
    BY DEF States, Labels
  <2>3. st[c] \notin Live /\ k[c] # "wake_all" /\ \A t \in Threads : t # c => st[t] = state[t] /\ k[t] = pc[t]
    BY DEF Live
  <2>4. Listed(c)
    BY <1>0, <2>1 DEF NodesFit
  <2>5. Listed(IDLE_THREAD_ID)'
    BY <1>0, <2>1, <2>4, FreedNode DEF IdleStays
  <2> HIDE DEF st, k
  <2> QED BY <1>0, <2>1, <2>2, <2>3, <2>5, GiveUpCpu
<1>6. CASE thread_exit_resched
  <2> DEFINE k == [pc EXCEPT ![c] = "none"]
  <2>1. /\ WakeAllDone("exit") /\ UNCHANGED <<priority, irq, nodeVars>>
        /\ thread_resched(state, RunQueue, remaining_quantum, k, 1)
    BY <1>6 DEF thread_exit_resched
  <2>2. /\ pc[c] = "wake_all" /\ irq = "none" /\ wake.next = "exit" /\ c # IDLE_THREAD_ID
    BY <2>1 DEF WakeAllDone, InWakeAll, IdleStays
  <2>3. state[c] = "DEATH"
    BY <2>2 DEF CurrentRuns, WakeFits, MustYield
  <2>4. k \in [Threads -> Labels] /\ k[c] # "wake_all" /\ \A t \in Threads : t # c => k[t] = pc[t]
    BY DEF Labels
  <2>5. Listed(IDLE_THREAD_ID)'
    BY <2>1 DEF IdleStays, Listed, nodeVars
  <2> HIDE DEF k
  <2> QED BY <2>1, <2>2, <2>3, <2>4, <2>5, GiveUpCpu DEF Live
<1>7. ASSUME NEW d \in Delays, thread_sleep(d)
      PROVE  CpuFits' /\ OrderStep
  <2> DEFINE st == [state EXCEPT ![c] = "SLEEPING"]
  <2>1. /\ Client("thread_sleep") /\ UNCHANGED <<priority, irq, nodeVars>>
        /\ thread_resched(st, RunQueue, remaining_quantum, pc, 1)
    BY <1>7 DEF thread_sleep
  <2>2. /\ st \in [Threads -> States] /\ st[c] \notin Live
        /\ \A t \in Threads : t # c => st[t] = state[t]
    BY DEF States, Live
  <2>3. Listed(IDLE_THREAD_ID)'
    BY <2>1 DEF IdleStays, Listed, nodeVars
  <2> HIDE DEF st
  <2> QED BY <1>0, <2>1, <2>2, <2>3, GiveUpCpu
<1> QED BY <1>3, <1>4, <1>5, <1>6, <1>7

-----------------------------------------------------------------------------
(* wait_queue_wake_one. *)
LEMMA WakeOneCpu ==
  ASSUME Coherent, NEW q \in UserQueues, NEW b \in BOOLEAN,
         wait_queue_wake_one(q, b, NO_ERR)
  PROVE  CpuFits' /\ OrderStep
<1> DEFINE c == current_thread
           t == Head(wait_list[q])
           r0 == IF b THEN insert_in_run_queue_head(RunQueue, c, priority[c])
                 ELSE RunQueue
           r == insert_in_run_queue_head(r0, t, priority[t])
           st == [state EXCEPT ![t] = "READY", ![c] = "READY"]
<1> USE Facts
<1>1. /\ Client("wait_queue_wake_one") /\ ~list_is_empty(wait_list[q])
      /\ UNCHANGED <<priority, irq, nodeVars>>
  BY DEF wait_queue_wake_one
<1>2. /\ c # IDLE_THREAD_ID /\ state[c] = "RUNNING" /\ irq = "none" /\ pc[c] = "user"
      /\ c \notin InLine /\ \A u \in Threads : pc[u] # "wake_all"
      /\ state[IDLE_THREAD_ID] = "READY"
  BY <1>1, ClientRuns
<1>3. /\ t \in Threads /\ state[t] = "BLOCKED" /\ t # c /\ state[t] \notin Live
  BY <1>1, ConstantFacts, FirstIsBlocked
<1>4. t # IDLE_THREAD_ID /\ t \notin InLine
  BY <1>3 DEF IdleStays, InLine, Waiting
<1>5. CASE b
  <2>1. thread_resched(st, r, remaining_quantum, pc, 1)
    BY <1>5 DEF wait_queue_wake_one
  <2>2. st \in [Threads -> States] /\ st[IDLE_THREAD_ID] = "READY"
    BY <1>2, <1>3, <1>4 DEF States
  <2>3. Wanted(st) = (InLine \cup {c}) \cup {t}
    BY <1>2, <1>3, <1>4 DEF Wanted, InLine, Waiting, Live
  <2>4. r0 \in RunQueues /\ Exact(r0) /\ Holds(r0.q, InLine \cup {c}, priority)
    <3>1. InLine \in SUBSET Threads /\ Holds(RunQueue.q, InLine, priority)
      BY QueuedHolds DEF InLine
    <3>2. r0 = insert_in_run_queue_head(RunQueue, c, priority[c])
      BY <1>5
    <3> HIDE DEF r0
    <3> QED BY <1>2, <3>1, <3>2, InsertHead, InsertHolds
  <2>5. r \in RunQueues /\ Exact(r) /\ Holds(r.q, (InLine \cup {c}) \cup {t}, priority)
    <3>1. InLine \cup {c} \in SUBSET Threads /\ t \notin InLine \cup {c}
      BY <1>3, <1>4 DEF InLine
    <3>2. priority[t] \in Levels
      BY <1>3
    <3> HIDE DEF r0, t
    <3> QED BY <1>3, <2>4, <3>1, <3>2, InsertHead, InsertHolds
  <2>6. /\ pc[IDLE_THREAD_ID] \in {"yield", "print", "printf", "user"}
        /\ Listed(IDLE_THREAD_ID)'
    BY <1>1 DEF IdleStays, Listed, nodeVars
  <2>7. "thread_set_priority" \notin Calls => \A u \in Threads : st[u] # "RUNNING"
    BY <1>3 DEF OnlyCurrentRuns
  <2>8. Lines(r.q, Wanted(st), priority)
          = Order!Join(Order!Join(Ahead, c, priority), t, priority)
    <3>1. r0 = insert_in_run_queue_head(RunQueue, c, priority[c])
      BY <1>5
    <3>2. Lines(r0.q, InLine \cup {c}, priority) = Order!Join(Ahead, c, priority)
      BY <1>2, <3>1, Enqueue
    <3>3. /\ InLine \cup {c} \in SUBSET Threads /\ t \notin InLine \cup {c}
          /\ Wanted(st) = (InLine \cup {c}) \cup {t}
      BY <1>3, <1>4, <2>3 DEF InLine
    <3>4. t \in Threads /\ r = insert_in_run_queue_head(r0, t, priority[t])
      BY <1>3
    <3> HIDE DEF r0, r, t, st
    <3>5. Lines(r.q, (InLine \cup {c}) \cup {t}, priority)
            = Order!Join(Lines(r0.q, InLine \cup {c}, priority), t, priority)
      BY ONLY priority \in [Threads -> Levels], <2>4, <3>3, <3>4, InsertLines
    <3> QED BY <3>2, <3>3, <3>5
  <2> HIDE DEF st, r, t
  <2>9. CpuFits' /\ Order!Dispatch(Lines(r.q, Wanted(st), priority), priority)
    BY <1>1, <1>2, <2>1, <2>2, <2>3, <2>5, <2>6, <2>7, SwitchCpu
  <2>10. Order!WakeAndYield(t)
    BY <1>1, <1>2, <1>3, <1>4, <2>8, <2>9, AheadIs DEF Order!WakeAndYield
  <2>11. OrderStep
    BY <1>3, <2>10 DEF OrderStep, Order!Next
  <2> QED BY <2>9, <2>11
<1>6. CASE ~b
  <2>1. /\ state' = [state EXCEPT ![t] = "READY"]
        /\ run_queue' = insert_in_run_queue_head(RunQueue, t, priority[t]).q
        /\ UNCHANGED <<current_thread, priority, thread_list, pc, irq>>
    BY <1>1, <1>6 DEF wait_queue_wake_one, nodeVars, ctlVars
  <2>2. CurrentRuns'
    BY <1>2, <1>3, <2>1 DEF CurrentRuns
  <2> HIDE DEF t
  <2> QED BY <1>2, <1>3, <2>1, <2>2, WakeCpu
<1> QED BY <1>5, <1>6

(* The calls that enter wait_queue_wake_all. *)
LEMMA WakeAllCpu ==
  ASSUME Coherent, NEW q \in WaitQueues, NEW b \in BOOLEAN, NEW e, NEW s, NEW next,
         NEW f, Client(f), WakeAll(q, b, e, s, next),
         s = IF next = "exit" THEN "DEATH" ELSE "RUNNING", next = "exit" => ~b,
         UNCHANGED <<priority, irq, thread_list>>
  PROVE  CpuFits' /\ OrderStep
<1> DEFINE c == current_thread
           queued == b /\ wait_count[q] > 0
<1> USE Facts
<1>1. /\ c \in Threads \ {IDLE_THREAD_ID} /\ state[c] = "RUNNING" /\ irq = "none"
      /\ pc[c] = "user" /\ c \notin InLine /\ state[IDLE_THREAD_ID] = "READY"
  BY ClientRuns
<1>2. /\ state' = [state EXCEPT ![c] = IF queued THEN "READY" ELSE s]
      /\ pc' = [pc EXCEPT ![c] = "wake_all"] /\ current_thread' = c /\ wait_list' = wait_list
      /\ wake' = [q |-> q, error |-> e, reschedule |-> b, woken |-> FALSE, next |-> next]
      /\ run_queue' = IF queued
                      THEN insert_in_run_queue_head(RunQueue, c, priority[c]).q
                      ELSE run_queue
  BY DEF WakeAll, waitVars
<1>3. queued <=> b /\ ~list_is_empty(wait_list[q])
  <2>1. wait_list[q] \in Seq(Threads) /\ wait_count[q] = Len(wait_list[q])
    BY DEF WaitQueueCoherent, IInv, TypeOK, WaitTypeOK
  <2>2. Len(wait_list[q]) > 0 <=> ~list_is_empty(wait_list[q])
    BY <2>1, EmptySeq DEF list_is_empty
  <2> QED BY <2>1, <2>2
<1> HIDE DEF queued
<1>4. CurrentRuns'
  BY <1>1, <1>2, <1>3 DEF CurrentRuns, MustYield
<1>5. IdleStays'
  BY <1>1, <1>2 DEF IdleStays, Listed, Live
<1>6. IdleSpins'
  BY <1>1, <1>2 DEF IdleSpins
<1>7. OnlyCurrentRuns'
  BY <1>1, <1>2 DEF OnlyCurrentRuns
<1>8. Queued'
  <2>1. InLine \in SUBSET Threads /\ Holds(RunQueue.q, InLine, priority)
    BY QueuedHolds DEF InLine
  <2>2. CASE queued
    <3>1. InLine' = InLine \cup {c}
      BY <1>1, <1>2, <2>2 DEF InLine, Waiting
    <3>2. Holds(run_queue', InLine \cup {c}, priority)
      BY <1>1, <1>2, <2>1, <2>2, InsertHolds
    <3> QED BY <3>1, <3>2 DEF Queued, Holds, InLine
  <2>3. CASE ~queued
    <3>1. InLine' = InLine
      BY <1>1, <1>2, <2>3 DEF InLine, Waiting
    <3> QED BY <1>2, <2>1, <2>3, <3>1 DEF Queued, Holds, InLine
  <2> QED BY <2>2, <2>3
<1>9. OrderStep
  <2>1. CASE queued
    <3>1. InLine' = InLine \cup {c}
      BY <1>1, <1>2, <2>1 DEF InLine, Waiting
    <3> QED BY <1>1, <1>2, <2>1, <3>1, OrderWaits
  <2>2. CASE ~queued
    <3>1. InLine' = InLine /\ UNCHANGED <<run_queue, current_thread, priority>>
      BY <1>1, <1>2, <2>2 DEF InLine, Waiting
    <3>2. Ahead' = Ahead
      BY <3>1 DEF Ahead, InLine
    <3> QED BY <3>1, <3>2 DEF OrderStep
  <2> QED BY <2>1, <2>2
<1> QED BY <1>4, <1>5, <1>6, <1>7, <1>8, <1>9 DEF CpuFits

(* The loop of wait_queue_wake_all and what follows it. *)
LEMMA WakeLoopCpu ==
  ASSUME Coherent, wake_all_next \/ wait_queue_wake_all_return \/ thread_detach_return
  PROVE  CpuFits' /\ OrderStep
<1> DEFINE c == current_thread
<1> USE Facts
<1>0. ASSUME InWakeAll
      PROVE  c # IDLE_THREAD_ID /\ irq = "none" /\ pc[c] = "wake_all"
  BY <1>0 DEF InWakeAll, IdleStays
<1>1. CASE wake_all_next
  <2> DEFINE t == Head(wait_list[wake.q])
  <2>1. /\ InWakeAll /\ ~list_is_empty(wait_list[wake.q])
        /\ state' = [state EXCEPT ![t] = "READY"]
        /\ run_queue' = insert_in_run_queue_head(RunQueue, t, priority[t]).q
        /\ wake' = [wake EXCEPT !.woken = TRUE]
        /\ UNCHANGED <<current_thread, priority, thread_list, pc, irq>>
    BY <1>1 DEF wake_all_next, nodeVars, ctlVars
  <2>2. wake.q \in WaitQueues /\ wake \in Wakes
    BY DEF IInv, TypeOK, CpuTypeOK, Wakes
  <2>3. t \in Threads /\ state[t] \notin Live /\ t # c
    BY <2>1, <2>2, FirstIsBlocked
  <2> HIDE DEF t
  <2>4. CurrentRuns'
    <3>1. /\ wake'.woken /\ wake'.reschedule = wake.reschedule /\ wake'.next = wake.next
      BY <2>1, <2>2 DEF Wakes
    <3>2. state'[c] = state[c] /\ pc'[c] = "wake_all" /\ irq' = "none"
      BY <1>0, <2>1, <2>3
    <3> QED BY <1>0, <2>1, <3>1, <3>2 DEF CurrentRuns, MustYield
  <2> QED BY <1>0, <2>1, <2>3, <2>4, WakeCpu
<1>2. CASE wait_queue_wake_all_return
  <2> DEFINE k == [pc EXCEPT ![c] = "user"]
  <2>1. /\ WakeAllDone("user") /\ UNCHANGED <<priority, irq, nodeVars>>
        /\ IF wake.woken /\ wake.reschedule
           THEN thread_resched(state, RunQueue, remaining_quantum, k, 1)
           ELSE pc' = k /\ UNCHANGED schedVars
    BY <1>2 DEF wait_queue_wake_all_return
  <2>2. /\ InWakeAll /\ list_is_empty(wait_list[wake.q]) /\ wake.next = "user"
        /\ c # IDLE_THREAD_ID /\ irq' = "none"
    BY <1>0, <2>1 DEF WakeAllDone
  <2>3. Listed(IDLE_THREAD_ID)'
    BY <2>1 DEF IdleStays, Listed, nodeVars
  <2>4. /\ k \in [Threads -> Labels] /\ k[c] = "user"
        /\ k[IDLE_THREAD_ID] = pc[IDLE_THREAD_ID]
        /\ \A t \in Threads : k[t] # "wake_all"
    BY <2>2 DEF Labels, IntsOn, PlacesFit
  <2>5. CASE wake.woken /\ wake.reschedule
    <3>1. state[c] = "READY"
      BY <1>0, <2>2, <2>5 DEF CurrentRuns, MustYield
    <3>2. Wanted(state) = InLine
      <4>1. c \in InLine
        BY <2>2, <3>1 DEF InLine, Waiting
      <4> QED BY <2>2, <3>1, <4>1, WantedIs DEF Live
    <3>3. Holds(RunQueue.q, Wanted(state), priority)
      BY <3>2, QueuedHolds
    <3>4. "thread_set_priority" \notin Calls => \A t \in Threads : state[t] # "RUNNING"
      BY <3>1 DEF OnlyCurrentRuns
    <3>5. /\ state[IDLE_THREAD_ID] = "READY"
          /\ k[IDLE_THREAD_ID] \in {"yield", "print", "printf", "user"}
      BY <2>2, <2>4 DEF IdleStays
    <3> HIDE DEF k
    <3>6. CpuFits' /\ Order!Dispatch(Lines(RunQueue.q, Wanted(state), priority), priority)
      BY <2>1, <2>2, <2>3, <2>4, <2>5, <3>3, <3>4, <3>5, SwitchCpu
    <3>7. OrderStep
      BY <2>1, <2>2, <3>2, <3>6, OrderLeaves
    <3> QED BY <3>6, <3>7
  <2>6. CASE ~(wake.woken /\ wake.reschedule)
    <3>1. state[c] = "RUNNING"
      BY <1>0, <2>2, <2>6 DEF CurrentRuns, MustYield
    <3>2. k[IDLE_THREAD_ID] \in {"yield", "print", "printf", "user"}
      BY <2>4 DEF IdleStays
    <3>3. pc' = k /\ UNCHANGED <<state, run_queue, current_thread>>
      BY <2>1, <2>6 DEF schedVars
    <3> HIDE DEF k
    <3> QED BY <2>1, <2>2, <2>3, <2>4, <3>1, <3>2, <3>3, StayCpu
  <2> QED BY <2>5, <2>6
<1>3. CASE thread_detach_return
  <2>1. /\ WakeAllDone("detach") /\ pc' = [pc EXCEPT ![c] = "user"]
        /\ UNCHANGED <<state, run_queue, current_thread, priority, irq, thread_list>>
    BY <1>3 DEF thread_detach_return, schedVars
  <2>2. c # IDLE_THREAD_ID /\ irq = "none" /\ pc[c] = "wake_all"
        /\ wake.next = "detach" /\ list_is_empty(wait_list[wake.q])
    BY <1>0, <2>1 DEF WakeAllDone
  <2>3. state[c] = "RUNNING"
    BY <2>2 DEF CurrentRuns, WakeFits, MustYield
  <2>4. pc'[c] = "user" /\ pc'[IDLE_THREAD_ID] \in {"yield", "print", "printf", "user"}
        /\ Listed(IDLE_THREAD_ID)'
    BY <2>1, <2>2 DEF IdleStays, Listed
  <2> QED BY <2>1, <2>2, <2>3, <2>4, StayCpu
<1> QED BY <1>1, <1>2, <1>3

-----------------------------------------------------------------------------
(* Steps of the current thread that move it on in its code. *)
LEMMA MoveCpu ==
  ASSUME Coherent,
         \/ initial_thread_func \/ thread_preempt_disable \/ thread_preempt_enable
         \/ thread_create \/ get_free_thread_node
         \/ thread_join_return \/ wait_queue_block_return
         \/ \E t \in Threads : thread_detach_and_resume(t)
  PROVE  CpuFits' /\ OrderStep
<1> DEFINE c == current_thread
<1> USE Facts
<1>1. /\ UNCHANGED <<state, run_queue, current_thread, priority, irq>>
      /\ irq = "none" /\ pc[c] # "wake_all" /\ pc[c] # "none"
      /\ \E l \in Labels \ {"wake_all"} : pc' = [pc EXCEPT ![c] = l]
      /\ c = IDLE_THREAD_ID => /\ pc[c] # "yield"
                               /\ pc'[c] \in {"yield", "print", "printf", "user"}
  <2>1. CASE initial_thread_func
    BY <2>1 DEF initial_thread_func, schedVars, Labels, IntsOn, IdleStays
  <2>2. CASE thread_preempt_disable
    BY <2>2 DEF thread_preempt_disable, arch_ints_enabled, Client, schedVars, Labels, IntsOn
  <2>3. CASE thread_preempt_enable
    BY <2>3 DEF thread_preempt_enable, arch_ints_enabled, schedVars, Labels, IntsOn
  <2>4. CASE thread_create
    BY <2>4 DEF thread_create, Client, schedVars, Labels, IntsOn
  <2>5. CASE get_free_thread_node
    BY <2>5 DEF get_free_thread_node, arch_ints_enabled, schedVars, Labels, IntsOn, IdleStays
  <2>6. CASE thread_join_return
    BY <2>6 DEF thread_join_return, schedVars, Labels, IntsOn, IdleStays
  <2>7. CASE wait_queue_block_return
    BY <2>7 DEF wait_queue_block_return, schedVars, Labels, IntsOn, IdleStays
  <2>8. ASSUME NEW t \in Threads, thread_detach_and_resume(t)
        PROVE  /\ UNCHANGED <<state, run_queue, current_thread, priority, irq>>
               /\ irq = "none" /\ pc[c] = "user" /\ pc' = pc /\ c # IDLE_THREAD_ID
    BY <2>8 DEF thread_detach_and_resume, Client, schedVars
  <2>9. ASSUME NEW t \in Threads, thread_detach_and_resume(t)
        PROVE  \E l \in Labels \ {"wake_all"} : pc' = [pc EXCEPT ![c] = l]
    <3>1. pc' = [pc EXCEPT ![c] = "user"] /\ "user" \in Labels
      BY <2>8, <2>9 DEF Labels, IntsOn
    <3> QED BY <3>1
  <2> QED BY <2>1, <2>2, <2>3, <2>4, <2>5, <2>6, <2>7, <2>8, <2>9
<1>2. Listed(IDLE_THREAD_ID)'
  <2>1. CASE thread_join_return /\ ~UNCHANGED nodeVars
    <3>1. pc[c] = "join" /\ free_thread_node(arg[c])
      BY <2>1 DEF thread_join_return
    <3>2. arg[c] \in Threads /\ Listed(arg[c]) /\ arg[c] # IDLE_THREAD_ID
      BY <3>1 DEF WaitersFit, Handle, Listed
    <3> QED BY <3>1, <3>2, FreedNode DEF IdleStays
  <2>2. CASE UNCHANGED thread_list
    BY <2>2 DEF IdleStays, Listed
  <2> QED BY <2>1, <2>2 DEF initial_thread_func, thread_preempt_disable, thread_preempt_enable,
          thread_create, get_free_thread_node, wait_queue_block_return,
          thread_detach_and_resume, nodeVars
<1>3. /\ state[c] = "RUNNING" /\ pc'[c] # "wake_all"
      /\ pc'[IDLE_THREAD_ID] \in {"yield", "print", "printf", "user"}
      /\ c = IDLE_THREAD_ID => pc[IDLE_THREAD_ID] # "yield"
  BY <1>1, Running DEF IdleStays
<1> QED BY <1>1, <1>2, <1>3, StayCpu

(* thread_create_publish and thread_resume. *)
LEMMA CreateCpu ==
  ASSUME Coherent,
         \/ \E p \in Priorities : thread_create_publish(p)
         \/ \E t \in Threads : thread_resume(t)
  PROVE  CpuFits' /\ OrderStep
<1> DEFINE c == current_thread
<1> USE Facts
<1>1. ASSUME NEW p \in Priorities, thread_create_publish(p)
      PROVE  CpuFits' /\ OrderStep
  <2> DEFINE a == arg[c]
  <2>1. /\ pc[c] = "init_node" /\ irq = "none"
        /\ state' = [state EXCEPT ![a] = "SUSPENDED"]
        /\ priority' = [priority EXCEPT ![a] = p]
        /\ thread_list' = list_add_tail(thread_list, a)
        /\ pc' = [pc EXCEPT ![a] = "start", ![c] = "print"]
        /\ UNCHANGED <<run_queue, current_thread, irq>>
    BY <1>1 DEF thread_create_publish, InitNode, arch_ints_enabled
  <2>2. a \in Threads /\ ~Listed(a) /\ pc[a] = "none" /\ state[a] \in {"SUSPENDED", "DEATH"}
    BY <2>1 DEF NodesFit, PlacesFit
  <2>3. a # c /\ a # IDLE_THREAD_ID /\ c # IDLE_THREAD_ID /\ state[c] = "RUNNING"
    BY <2>1, <2>2, Running DEF IdleStays
  <2>4. Listed(IDLE_THREAD_ID)'
    <3>1. thread_list \in Seq(Threads)
      BY DEF IInv, TypeOK, NodeTypeOK
    <3>2. Range(list_add_tail(thread_list, a)) = Range(thread_list) \cup {a}
      BY <2>2, <3>1, AddTail
    <3> QED BY <2>1, <3>2 DEF IdleStays, Listed, list_in_list
  <2> HIDE DEF a
  <2>5. CurrentRuns'
    BY <2>1, <2>3 DEF CurrentRuns
  <2>6. IdleStays'
    BY <2>1, <2>2, <2>3, <2>4 DEF IdleStays
  <2>7. InLine' = InLine /\ a \notin InLine
    BY <2>1, <2>2 DEF InLine, Waiting
  <2>8. IdleSpins'
    BY <2>1, <2>3 DEF IdleSpins
  <2>9. OnlyCurrentRuns'
    BY <2>1 DEF OnlyCurrentRuns
  <2>10. Queued'
    <3>1. \A t \in InLine : priority'[t] = priority[t]
      BY <2>1, <2>7 DEF InLine
    <3>2. Holds(run_queue, InLine, priority)
      BY QueuedHolds
    <3> QED BY <2>1, <2>7, <3>1, <3>2 DEF Queued, Holds, InLine
  <2>11. Ahead' = Ahead
    BY <2>1, <2>7 DEF Ahead, InLine
  <2>12. Order!Begin(a, p)
    BY <2>1, <2>3, <2>7, <2>11, AheadIs DEF Order!Begin
  <2>13. OrderStep
    BY <2>2, <2>12, ArgumentAssumption DEF OrderStep, Order!Next
  <2> QED BY <2>5, <2>6, <2>8, <2>9, <2>10, <2>13 DEF CpuFits
<1>2. ASSUME NEW t \in Threads, thread_resume(t)
      PROVE  CpuFits' /\ OrderStep
  <2>1. /\ Client("thread_resume") /\ UNCHANGED <<current_thread, priority, irq, thread_list>>
    BY <1>2 DEF thread_resume, nodeVars
  <2>2. /\ c # IDLE_THREAD_ID /\ state[c] = "RUNNING" /\ irq = "none" /\ pc[c] = "user"
        /\ pc[IDLE_THREAD_ID] \in {"yield", "print", "printf", "user"}
        /\ Listed(IDLE_THREAD_ID)'
    BY <2>1, ClientRuns DEF IdleStays, Listed
  <2>3. CASE Resumable(t)
    <3>1. /\ state' = [state EXCEPT ![t] = "READY"]
          /\ run_queue' = insert_in_run_queue_head(RunQueue, t, priority[t]).q
          /\ pc' = [pc EXCEPT ![c] = "yield"]
      BY <1>2, <2>3 DEF thread_resume
    <3>2. state[t] \notin Live /\ t # c
      BY <2>2, <2>3 DEF Resumable, Live
    <3>3. CurrentRuns' /\ pc'[IDLE_THREAD_ID] = pc[IDLE_THREAD_ID]
      BY <2>1, <2>2, <3>1, <3>2 DEF CurrentRuns
    <3> QED BY <2>1, <2>2, <3>1, <3>2, <3>3, WakeCpu
  <2>4. CASE ~Resumable(t)
    BY <1>2, <2>1, <2>2, <2>4, StayCpu DEF thread_resume
  <2> QED BY <2>3, <2>4
<1> QED BY <1>1, <1>2

-----------------------------------------------------------------------------
(* The timer whose handler runs is that of a thread armed for it. *)
LEMMA FirstTimer ==
  ASSUME Coherent, NEW h, Due(h)
  PROVE  LET t == Head(timer_queue) IN
         /\ t \in Threads /\ callback[t] = h /\ Armed(t)
         /\ irq # "none" /\ pc[current_thread] \in IntsOn /\ state[current_thread] = "RUNNING"
         /\ timer_queue' = list_remove_head(timer_queue) /\ ~list_is_empty(timer_queue)
<1>1. timer_queue \in Seq(Threads) /\ ~list_is_empty(timer_queue)
  BY Facts DEF Due, IInv, TypeOK, TimerTypeOK
<1>2. Head(timer_queue) \in Threads /\ list_in_list(timer_queue, Head(timer_queue))
  BY <1>1, RemoveHead
<1>3. irq # "none" /\ pc[current_thread] \in IntsOn /\ state[current_thread] = "RUNNING"
  BY Facts DEF Due, CurrentRuns, IntsOn
<1> QED BY <1>1, <1>2, <1>3 DEF Due, Armed

(* The timer interrupt. *)
LEMMA TimerCpu ==
  ASSUME Coherent, os_timer_tick \/ os_timer_tick_early \/ TimerInterrupt
  PROVE  CpuFits' /\ OrderStep
<1> DEFINE c == current_thread
           t == Head(timer_queue)
<1> USE Facts
<1>1. CASE os_timer_tick \/ os_timer_tick_early
  <2>1. /\ arch_ints_enabled
        /\ UNCHANGED <<state, run_queue, current_thread, priority, pc, thread_list>>
    BY <1>1 DEF os_timer_tick, os_timer_tick_early, schedVars, ctlVars, nodeVars
  <2>2. irq = "none" /\ pc[c] \in IntsOn /\ pc[c] # "wake_all"
    BY <2>1 DEF arch_ints_enabled, IntsOn
  <2>3. /\ state[c] = "RUNNING" /\ Listed(IDLE_THREAD_ID)'
        /\ pc'[IDLE_THREAD_ID] \in {"yield", "print", "printf", "user"}
    BY <2>1, <2>2, Running DEF IdleStays, Listed
  <2> QED BY <2>1, <2>2, <2>3, StayCpu
<1>2. ASSUME NEW h, Due(h), state[t] \notin Live, t # c,
             state' = [state EXCEPT ![t] = "READY"],
             run_queue' = insert_in_run_queue_head(RunQueue, t, priority[t]).q,
             UNCHANGED <<current_thread, priority, thread_list, pc>>, irq' = "INT_RESCHEDULE"
      PROVE  CpuFits' /\ OrderStep
  <2>1. t \in Threads /\ pc[c] \in IntsOn /\ state[c] = "RUNNING"
    BY <1>2, FirstTimer
  <2>2. CurrentRuns'
    BY <1>2, <2>1 DEF CurrentRuns, IntsOn
  <2> HIDE DEF t
  <2> QED BY <1>2, <2>1, <2>2, WakeCpu
<1>3. CASE thread_sleep_handler
  <2>1. /\ Due("thread_sleep_handler") /\ irq' = "INT_RESCHEDULE"
        /\ state' = [state EXCEPT ![t] = "READY"]
        /\ run_queue' = insert_in_run_queue_head(RunQueue, t, priority[t]).q
        /\ UNCHANGED <<current_thread, priority, thread_list, pc>>
    BY <1>3 DEF thread_sleep_handler, nodeVars
  <2>2. t \in Threads /\ callback[t] = "thread_sleep_handler" /\ state[c] = "RUNNING"
    BY <2>1, FirstTimer
  <2>3. state[t] = "SLEEPING"
    BY <2>2 DEF TimersFit
  <2>4. state[t] \notin Live /\ t # c
    BY <2>2, <2>3 DEF Live
  <2> QED BY <1>2, <2>1, <2>4
<1>4. CASE wait_queue_timeout_handler
  <2>1. Due("wait_queue_timeout_handler") /\ UNCHANGED <<current_thread, priority, thread_list, pc>>
    BY <1>4 DEF wait_queue_timeout_handler, nodeVars, ctlVars
  <2>2. /\ t \in Threads /\ state[c] = "RUNNING" /\ pc[c] \in IntsOn
    BY <2>1, FirstTimer
  <2>3. CASE StillBlocked(t)
    <3>1. /\ state' = [state EXCEPT ![t] = "READY"] /\ irq' = "INT_RESCHEDULE"
          /\ run_queue' = insert_in_run_queue_head(RunQueue, t, priority[t]).q
      BY <1>4, <2>3 DEF wait_queue_timeout_handler, thread_unblock_from_wait_queue
    <3>2. state[t] \notin Live /\ t # c
      BY <2>2, <2>3 DEF StillBlocked, Live
    <3> QED BY <1>2, <2>1, <3>1, <3>2
  <2>4. CASE ~StillBlocked(t)
    <3>1. UNCHANGED <<state, run_queue, irq>>
      BY <1>4, <2>4 DEF wait_queue_timeout_handler
    <3>2. /\ Listed(IDLE_THREAD_ID)' /\ pc[c] # "wake_all"
          /\ pc'[IDLE_THREAD_ID] \in {"yield", "print", "printf", "user"}
      BY <2>1, <2>2 DEF IdleStays, Listed, IntsOn
    <3> HIDE DEF t
    <3> QED BY <2>1, <2>2, <3>1, <3>2, StayCpu
  <2> QED BY <2>3, <2>4
<1>5. CASE timer_tick_return
  <2> DEFINE rem == [remaining_quantum EXCEPT ![c] = IF @ > 0 THEN @ - 1 ELSE 0]
  <2>1. /\ irq # "none" /\ irq' = "none" /\ UNCHANGED <<priority, thread_list>>
        /\ \/ thread_preempt(rem)
           \/ irq # "INT_RESCHEDULE" /\ UNCHANGED <<state, run_queue, current_thread, pc>>
    BY <1>5 DEF timer_tick_return, nodeVars, ctlVars
  <2>2. /\ pc[c] \in IntsOn /\ pc[c] # "wake_all"
        /\ pc[IDLE_THREAD_ID] \in {"yield", "print", "printf", "user"}
    BY <2>1 DEF CurrentRuns, IntsOn, IdleStays
  <2>3. state[c] = "RUNNING" /\ c \notin InLine /\ \A u \in Threads : pc[u] # "wake_all"
    BY <2>2, Running
  <2>4. Listed(IDLE_THREAD_ID)'
    BY <2>1 DEF IdleStays, Listed
  <2>5. CASE thread_preempt(rem)
    <3> DEFINE r == IF thread_is_idle(c) THEN RunQueue
                    ELSE IF rem[c] > 0 THEN insert_in_run_queue_head(RunQueue, c, priority[c])
                    ELSE insert_in_run_queue_tail(RunQueue, c, priority[c])
               st == StatesOnSwitch(c)
    <3>1. thread_resched(st, r, rem, pc, 1)
      <4> HIDE DEF rem
      <4> QED BY ONLY <2>5 DEF thread_preempt
    <3>2. st = [state EXCEPT ![c] = "READY"] /\ st \in [Threads -> States]
      BY DEF StatesOnSwitch, States
    <3>3. Wanted(st) = InLine \cup ({c} \ {IDLE_THREAD_ID})
      BY <2>3, <3>2, WantedOnSwitch
    <3>4. Holds(r.q, Wanted(st), priority) /\ r \in RunQueues /\ Exact(r)
      <4>1. InLine \in SUBSET Threads /\ Holds(RunQueue.q, InLine, priority)
        BY QueuedHolds DEF InLine
      <4>2. CASE c = IDLE_THREAD_ID
        BY <3>3, <4>1, <4>2 DEF thread_is_idle
      <4>3. CASE c # IDLE_THREAD_ID
        <5>1. /\ \/ r = insert_in_run_queue_head(RunQueue, c, priority[c])
                 \/ r = insert_in_run_queue_tail(RunQueue, c, priority[c])
              /\ Wanted(st) = InLine \cup {c}
          BY <3>3, <4>3 DEF thread_is_idle
        <5> HIDE DEF r, st
        <5> QED BY <2>3, <4>1, <5>1, InsertHolds, InsertHead, InsertTail
      <4> QED BY <4>2, <4>3
    <3>5. st[IDLE_THREAD_ID] = "READY"
      BY <3>2 DEF IdleStays
    <3>6. "thread_set_priority" \notin Calls => \A u \in Threads : st[u] # "RUNNING"
      BY <3>2 DEF OnlyCurrentRuns
    <3>7. Lines(r.q, Wanted(st), priority)
            = IF c = IDLE_THREAD_ID THEN Ahead ELSE Order!Join(Ahead, c, priority)
      <4>1. CASE c = IDLE_THREAD_ID
        <5>1. r = RunQueue /\ Wanted(st) = InLine
          BY <3>3, <4>1 DEF thread_is_idle
        <5> HIDE DEF r, st
        <5> QED BY <4>1, <5>1, AheadIs
      <4>2. CASE c # IDLE_THREAD_ID
        <5>1. /\ \/ r = insert_in_run_queue_head(RunQueue, c, priority[c])
                 \/ r = insert_in_run_queue_tail(RunQueue, c, priority[c])
              /\ Wanted(st) = InLine \cup {c}
          BY <3>3, <4>2 DEF thread_is_idle
        <5> HIDE DEF r, st
        <5> QED BY <2>3, <4>2, <5>1, Enqueue
      <4> QED BY <4>1, <4>2
    <3>8. UNCHANGED priority /\ pc \in [Threads -> Labels]
      BY <2>1
    <3>9. /\ st \in [Threads -> States] /\ irq' = "none" /\ Listed(IDLE_THREAD_ID)'
          /\ pc[IDLE_THREAD_ID] \in {"yield", "print", "printf", "user"}
          /\ \A u \in Threads : pc[u] # "wake_all"
      BY <2>1, <2>2, <2>3, <2>4, <3>2
    <3> HIDE DEF st, r, rem, t
    <3>10. CpuFits' /\ Order!Dispatch(Lines(r.q, Wanted(st), priority), priority)
      BY ONLY Coherent, priority \in [Threads -> Levels], <3>1, <3>4, <3>5, <3>6, <3>8, <3>9,
         SwitchCpu
    <3>11. OrderStep
      BY <2>3, <3>7, <3>8, <3>10, OrderYields
    <3> QED BY <3>10, <3>11
  <2>6. CASE irq # "INT_RESCHEDULE" /\ UNCHANGED <<state, run_queue, current_thread, pc>>
    BY <2>1, <2>2, <2>3, <2>4, <2>6, StayCpu
  <2> QED BY <2>1, <2>5, <2>6
<1> QED BY <1>1, <1>3, <1>4, <1>5 DEF TimerInterrupt

-----------------------------------------------------------------------------
(* start_kernel leaves the CPU to the idle thread, which is about to yield. *)
LEMMA InitCpu == Init => CpuFits
<1> SUFFICES ASSUME Init PROVE CpuFits
  OBVIOUS
<1>1. INIT_THREAD_ID \in Threads /\ INIT_THREAD_ID # IDLE_THREAD_ID /\ IDLE_THREAD_ID \in Threads
  BY ConstantFacts DEF INIT_THREAD_ID, IDLE_THREAD_ID
<1>2. CurrentRuns /\ IdleSpins /\ OnlyCurrentRuns
  BY <1>1 DEF Init, CurrentRuns, IdleSpins, OnlyCurrentRuns
<1>3. IdleStays
  <2>1. list_in_list(<<IDLE_THREAD_ID, INIT_THREAD_ID>>, IDLE_THREAD_ID)
    BY DEF list_in_list, Range
  <2> QED BY <1>1, <2>1 DEF Init, IdleStays, Live, Listed
<1>4. Queued
  <2>1. {t \in Threads \ {IDLE_THREAD_ID} : Waiting(t)} = {INIT_THREAD_ID}
    BY <1>1 DEF Init, Waiting
  <2>2. /\ IsInjective(<<INIT_THREAD_ID>>) /\ Range(<<INIT_THREAD_ID>>) = {INIT_THREAD_ID}
        /\ IsInjective(<< >>) /\ Range(<< >>) = {}
    BY DEF IsInjective, Range
  <2>3. ASSUME NEW p \in Levels
        PROVE  /\ IsInjective(run_queue[p])
               /\ Range(run_queue[p]) = {t \in Threads \ {IDLE_THREAD_ID} :
                                           Waiting(t) /\ priority[t] = p}
    <3>1. priority[INIT_THREAD_ID] = INIT_PRIORITY
      BY <1>1 DEF Init
    <3>2. {t \in Threads \ {IDLE_THREAD_ID} : Waiting(t) /\ priority[t] = p}
            = IF p = INIT_PRIORITY THEN {INIT_THREAD_ID} ELSE {}
      BY <2>1, <3>1
    <3>3. run_queue[p] = IF p = INIT_PRIORITY THEN <<INIT_THREAD_ID>> ELSE << >>
      BY DEF Init
    <3> QED BY <2>2, <3>2, <3>3
  <2> QED BY <2>3 DEF Queued
<1> QED BY <1>2, <1>3, <1>4 DEF CpuFits

(* The init thread is first in line. *)
LEMMA InitOrder == Init => Order!Init
<1> SUFFICES ASSUME Init PROVE Order!Init
  OBVIOUS
<1>1. INIT_THREAD_ID \in Threads \ {IDLE_THREAD_ID}
  BY ConstantFacts DEF INIT_THREAD_ID, IDLE_THREAD_ID
<1>2. /\ current_thread = IDLE_THREAD_ID
      /\ run_queue = [p \in Levels |-> IF p = INIT_PRIORITY THEN <<INIT_THREAD_ID>> ELSE << >>]
      /\ InLine = {INIT_THREAD_ID} /\ priority[INIT_THREAD_ID] = INIT_PRIORITY
      /\ INIT_PRIORITY \in Levels
  BY <1>1, SizeAssumption DEF Init, InLine, Waiting
<1>3. Before(<<INIT_THREAD_ID>>, INIT_THREAD_ID) = {}
  BY DEF Before
<1>4. Ahead = [u \in {INIT_THREAD_ID} |-> {}]
  BY <1>2, <1>3, AheadIs DEF Lines
<1>5. priority \in [Threads -> Levels]
  BY InitOK DEF IInv, TypeOK, RestTypeOK
<1> QED BY <1>1, <1>2, <1>4, <1>5 DEF Order!Init

(* Every step keeps CpuFits and the order, when the rest of Coherent holds *)
(* before it.                                                              *)
LEMMA NextCpu ==
  ASSUME Coherent, [Next]_vars
  PROVE  CpuFits' /\ OrderStep
<1> DEFINE c == current_thread
<1> USE Facts
<1>1. CASE ThreadStep
  <2>1. ASSUME NEW q \in UserQueues, NEW b \in BOOLEAN,
               wait_queue_wake_all(q, b, NO_ERR) \/ wait_queue_destroy(q, b)
        PROVE  CpuFits' /\ OrderStep
    <3>1. PICK f, e : Client(f) /\ WakeAll(q, b, e, state[c], "user")
      BY <2>1 DEF wait_queue_wake_all, wait_queue_destroy
    <3>2. UNCHANGED <<priority, irq, thread_list>>
      BY <2>1 DEF wait_queue_wake_all, wait_queue_destroy, nodeVars
    <3>3. q \in WaitQueues /\ state[c] = "RUNNING"
      BY <3>1, ConstantFacts, ClientRuns
    <3> QED BY <3>1, <3>2, <3>3, WakeAllCpu
  <2>2. ASSUME NEW t \in Threads, thread_detach(t)
        PROVE  CpuFits' /\ OrderStep
    <3>1. /\ Client("thread_detach") /\ UNCHANGED <<priority, irq, thread_list>>
          /\ WakeAll(t, FALSE, ERR_THREAD_DETACHED, state[c], "detach")
      BY <2>2 DEF thread_detach, nodeVars
    <3>2. t \in WaitQueues /\ state[c] = "RUNNING"
      BY <3>1, ConstantFacts, ClientRuns
    <3> QED BY <3>1, <3>2, WakeAllCpu
  <2>3. CASE thread_exit /\ c \notin detached
    <3>1. /\ Client("thread_exit") /\ UNCHANGED <<priority, irq, thread_list>>
          /\ WakeAll(c, FALSE, NO_ERR, "DEATH", "exit")
      BY <2>3 DEF thread_exit, WakeJoiners, nodeVars
    <3>2. c \in WaitQueues
      BY ConstantFacts
    <3> QED BY <3>1, <3>2, WakeAllCpu
  <2> QED BY <1>1, <2>1, <2>2, <2>3, YieldCpu, WaitCpu, WakeOneCpu, WakeLoopCpu, MoveCpu,
             CreateCpu DEF ThreadStep
<1>2. CASE os_timer_tick \/ os_timer_tick_early \/ TimerInterrupt
  BY <1>2, TimerCpu
<1>3. CASE UNCHANGED vars
  <2>1. UNCHANGED <<state, run_queue, current_thread, priority, pc, irq, wake, wait_list,
                    thread_list>>
    BY <1>3 DEF vars, schedVars, ctlVars, waitVars, nodeVars
  <2>2. CurrentRuns'
    BY <2>1 DEF CurrentRuns, MustYield
  <2>3. IdleStays' /\ IdleSpins' /\ OnlyCurrentRuns' /\ Queued'
    BY <2>1 DEF IdleStays, IdleSpins, OnlyCurrentRuns, Queued, Waiting, Listed
  <2>4. OrderStep
    BY <2>1, OrderStays
  <2> QED BY <2>2, <2>3, <2>4 DEF CpuFits
<1>4. CASE exception_die
  BY <1>3, <1>4 DEF exception_die
<1> QED BY <1>1, <1>2, <1>3, <1>4 DEF Next
=============================================================================
