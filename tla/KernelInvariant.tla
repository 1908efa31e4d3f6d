---------------------------- MODULE KernelInvariant ----------------------------
(***************************************************************************)
(* What relates the variables of Kernel to each other at every step, also  *)
(* where the properties of Kernel say nothing: inside the interrupt        *)
(* handler and in the middle of wait_queue_wake_all.  Coherent is the      *)
(* inductive invariant from which those properties follow.                 *)
(***************************************************************************)
EXTENDS Kernel

(* Clients that respect the ids thread_join and thread_detach work on: the *)
(* target of a join is detached by nobody, and joins have no timeout.      *)
(* What happens otherwise is shown by the runs JoinTimeout and DetachDead. *)
Disciplined == "detach_joined" \notin Calls /\ JoinTimeouts \subseteq {INFINIT_TIME}

(* States of a thread that has the CPU or waits for it. *)
Live == {"READY", "RUNNING"}

Free(t) == list_in_list(g_thread_free_list, t)
Listed(t) == list_in_list(thread_list, t)

(* Thread t is in the loop of thread_exit that wakes its joiner. *)
Exiting(t) == pc[t] = "wake_all" /\ wake.next = "exit"

-----------------------------------------------------------------------------
(* Which states go with which places in the code. *)
PlacesFit ==
  \A t \in Threads :
     /\ pc[t] = "none" => state[t] \in {"SUSPENDED", "DEATH"}
     /\ state[t] = "SUSPENDED" => pc[t] \in {"none", "start"}
     /\ state[t] = "DEATH" => pc[t] = "none" \/ Exiting(t)
     /\ state[t] = "BLOCKED" => pc[t] \in {"wait", "join"}
     /\ state[t] = "SLEEPING" => pc[t] = "user"
     /\ pc[t] = "wake_all" => t = current_thread

(* The current thread is RUNNING, except that wait_queue_wake_all makes it *)
(* READY, and thread_exit DEATH, before the switch.  The timer interrupts  *)
(* only code that has interrupts on.                                       *)
MustYield == wake.reschedule /\ (wake.woken \/ ~list_is_empty(wait_list[wake.q]))

CurrentRuns ==
  /\ state[current_thread] =
       IF pc[current_thread] # "wake_all" THEN "RUNNING"
       ELSE IF MustYield THEN "READY"
       ELSE IF wake.next = "exit" THEN "DEATH" ELSE "RUNNING"
  /\ irq # "none" => pc[current_thread] \in IntsOn

(* The idle thread neither waits nor ends, and is never queued. *)
IdleStays ==
  /\ pc[IDLE_THREAD_ID] \in {"yield", "print", "printf", "user"}
  /\ state[IDLE_THREAD_ID] \in Live
  /\ IDLE_THREAD_ID # current_thread => state[IDLE_THREAD_ID] = "READY"
  /\ Listed(IDLE_THREAD_ID)

(* Which queue wait_queue_wake_all is waking, by who called it. *)
WakeFits ==
  pc[current_thread] = "wake_all" =>
     /\ wake.next \in {"user", "detach", "exit"}
     /\ wake.next = "user" => wake.q \in UserQueues
     /\ wake.next # "user" => ~wake.reschedule
     /\ wake.next = "exit" => wake.q = current_thread
     /\ wake.next = "detach" => /\ wake.q = arg[current_thread]
                                /\ Handle(wake.q) /\ ~Joined(wake.q)

(* A waiter waits on a client's queue; a joiner on that of a thread whose  *)
(* node nobody else can reclaim, and is woken by its end only.             *)
WaitersFit ==
  \A u \in Threads :
     /\ pc[u] = "wait" /\ state[u] = "BLOCKED" => blocking_wait_queue[u] \in UserQueues
     /\ pc[u] = "join" =>
          /\ Handle(arg[u]) /\ arg[u] # u /\ arg[u] \notin detached
          /\ callback[u] = "none"
          /\ \A v \in Threads : pc[v] = "join" /\ arg[v] = arg[u] => v = u
          /\ IF state[u] = "BLOCKED"
             THEN blocking_wait_queue[u] = arg[u] /\ pc[arg[u]] # "none"
             ELSE state[arg[u]] = "DEATH"

(* Where the nodes are, and that only listed ones are threads. *)
NodesFit ==
  /\ IsInjective(g_thread_free_list) /\ IsInjective(thread_list)
  /\ \A t \in Threads :
        /\ ~(Free(t) /\ Listed(t))
        /\ ~Free(t) /\ ~Listed(t) => \E u \in Threads : pc[u] = "init_node" /\ arg[u] = t
        /\ ~Listed(t) => pc[t] = "none"
        /\ Listed(t) /\ pc[t] = "none" => state[t] = "DEATH"
  /\ \A u \in Threads : pc[u] = "init_node" =>
        /\ ~Free(arg[u]) /\ ~Listed(arg[u])
        /\ \A v \in Threads : pc[v] = "init_node" /\ arg[v] = arg[u] => v = u

(* A timer is armed until it fires or its owner cancels it. *)
Sorted ==
  \A i, j \in DOMAIN timer_queue :
     i < j => due[timer_queue[i]] <= due[timer_queue[j]]

TimersFit ==
  \A t \in Threads :
     /\ Armed(t) => callback[t] # "none"
     /\ callback[t] = "wait_queue_timeout_handler" => pc[t] = "wait"
     /\ callback[t] = "thread_sleep_handler" <=> state[t] = "SLEEPING"
     /\ state[t] = "SLEEPING" => Armed(t)
     /\ state[t] = "BLOCKED" /\ callback[t] = "wait_queue_timeout_handler" => Armed(t)

(* WorkConserving also holds inside the interrupt handler, until something *)
(* asks for the reschedule at its end.                                     *)
IdleSpins ==
  current_thread = IDLE_THREAD_ID /\ pc[IDLE_THREAD_ID] # "yield"
                                  /\ irq # "INT_RESCHEDULE"
   => \A t \in Threads \ {IDLE_THREAD_ID} : ~Waiting(t)

(* Only thread_set_priority leaves a thread RUNNING that it queues. *)
OnlyCurrentRuns ==
  "thread_set_priority" \notin Calls =>
     \A t \in Threads : state[t] = "RUNNING" => t = current_thread

-----------------------------------------------------------------------------
(* The timers in order, each in the queue once. *)
TimersListed == IsInjective(timer_queue) /\ Sorted

(* The threads and what they wait for. *)
ThreadsFit == PlacesFit /\ WakeFits /\ WaitersFit /\ NodesFit

(* The CPU and the run queues. *)
CpuFits == CurrentRuns /\ IdleStays /\ Queued /\ IdleSpins /\ OnlyCurrentRuns

(* A thread is at one place: what its state, its place in the code, the    *)
(* queues, the timers and the nodes say of it agree at every step of       *)
(* thread.c, wait_queue.c and the timer interrupt.                         *)
Coherent ==
  /\ TypeOK /\ BitmapExact
  /\ CpuFits /\ ThreadsFit
  /\ WaitQueueCoherent /\ TimersListed /\ TimersFit
  /\ PreemptLockCounts
=============================================================================
