-------------------------------- MODULE Thread --------------------------------
(***************************************************************************)
(* The life of a thread in kernel/thread.c: thread_create, thread_resume,  *)
(* thread_join, thread_detach, thread_exit and thread_sleep.               *)
(*                                                                         *)
(* A thread id is usable by a client while its node is on thread_list and  *)
(* it is not the idle thread's.  The kernel leaves three duties to its     *)
(* clients, which the guards state: thread_resume is not called for a dead *)
(* thread (its assertion), a thread has one joiner, and nobody joins       *)
(* itself.  Two uses of thread_detach that the code does not survive have  *)
(* names of their own in Calls: "detach_joined", of a thread somebody is   *)
(* joining, and "detach_dead", of a thread that has exited.                *)
(***************************************************************************)
EXTENDS WaitQueue

Handle(t) == t # IDLE_THREAD_ID /\ list_in_list(thread_list, t)
Joined(t) == \E u \in Threads : pc[u] = "join" /\ arg[u] = t

(* The fields of node t once init_thread_strcut and thread_create have     *)
(* filled it; its node goes to thread_list.                                *)
InitNode(t, prio) ==
  /\ state' = [state EXCEPT ![t] = "SUSPENDED"]
  /\ priority' = [priority EXCEPT ![t] = prio]
  /\ remaining_quantum' = [remaining_quantum EXCEPT ![t] = 0]
  /\ detached' = detached \ {t}
  /\ blocking_wait_queue' = [blocking_wait_queue EXCEPT ![t] = NULL]
  /\ wait_queue_block_ret' = [wait_queue_block_ret EXCEPT ![t] = NO_ERR]
  /\ wait_list' = [wait_list EXCEPT ![t] = << >>]
  /\ wait_count' = [wait_count EXCEPT ![t] = 0]
  /\ thread_list' = list_add_tail(thread_list, t)

(* thread_create: get_free_thread_node looks at the free list before it    *)
(* takes the lock.                                                         *)
thread_create ==
  LET c == current_thread IN
  /\ Client("thread_create")
  /\ pc' = [pc EXCEPT ![c] = IF list_is_empty(g_thread_free_list)
                             THEN "print" ELSE "get_free"]
  /\ UNCHANGED <<schedVars, nodeVars, waitVars, timerVars, thread_lock, priority,
                 thread_preempt_lock, arg, wake, irq, halted>>

(* The locked part.  list_remove_head gives NULL on a list emptied in the  *)
(* meantime, and so does container_of, the node being the first field.     *)
get_free_thread_node ==
  LET c == current_thread IN
  /\ arch_ints_enabled /\ pc[c] = "get_free"
  /\ IF list_is_empty(g_thread_free_list)
     THEN /\ pc' = [pc EXCEPT ![c] = "print"]
          /\ UNCHANGED <<g_thread_free_list, arg>>
     ELSE /\ pc' = [pc EXCEPT ![c] = "init_node"]
          /\ arg' = [arg EXCEPT ![c] = Head(g_thread_free_list)]
          /\ g_thread_free_list' = list_remove_head(g_thread_free_list)
  /\ UNCHANGED <<schedVars, detached, thread_list, waitVars, timerVars,
                 thread_lock, priority, thread_preempt_lock, wake, irq, halted>>

(* The node is private until it is on thread_list, so one step fills and   *)
(* publishes it.  The printf that follows is that of label "print".        *)
thread_create_publish(prio) ==
  LET c == current_thread IN
  /\ arch_ints_enabled /\ pc[c] = "init_node"
  /\ InitNode(arg[c], prio)
  /\ pc' = [pc EXCEPT ![arg[c]] = "start", ![c] = "print"]
  /\ arg' = [arg EXCEPT ![c] = IDLE_THREAD_ID]
  /\ UNCHANGED <<run_queue, run_queue_bitmap, current_thread, g_thread_free_list,
                 timerVars, thread_lock, thread_preempt_lock, wake, irq, halted>>

(* Mutant: a thread that is queued already may be resumed. *)
Resumable_queued(t) == state[t] \in {"SUSPENDED", "READY"}

Resumable(t) == state[t] = "SUSPENDED"

(* Interrupts are on in the caller, so a resumed thread makes it yield.    *)
thread_resume(t) ==
  LET r == insert_in_run_queue_head(RunQueue, t, priority[t]) IN
  /\ Client("thread_resume") /\ Handle(t) /\ state[t] # "DEATH"
  /\ IF Resumable(t)
     THEN /\ state' = [state EXCEPT ![t] = "READY"]
          /\ run_queue' = r.q /\ run_queue_bitmap' = r.bits
          /\ pc' = [pc EXCEPT ![current_thread] = "yield"]
     ELSE UNCHANGED <<state, run_queue, run_queue_bitmap, pc>>
  /\ UNCHANGED <<remaining_quantum, current_thread, nodeVars, waitVars, timerVars,
                 thread_lock, priority, thread_preempt_lock, arg, wake, irq, halted>>

-----------------------------------------------------------------------------
(* Mutant: the node stays on thread_list. *)
free_thread_node_linked(t) ==
  /\ UNCHANGED thread_list
  /\ g_thread_free_list' = list_add_tail(g_thread_free_list, t)
  /\ UNCHANGED detached

(* list_delete and free_thread_node, whose THREAD_UNLOCK clears the lock.  *)
free_thread_node(t) ==
  /\ thread_list' = list_delete(thread_list, t)
  /\ g_thread_free_list' = list_add_tail(g_thread_free_list, t)
  /\ UNCHANGED detached

(* Mutant: a thread that has been resumed counts as dead. *)
NoNeedToWait_resumed(t, timeout) == state[t] # "SUSPENDED" \/ timeout = 0

NoNeedToWait(t, timeout) == state[t] = "DEATH" \/ timeout = 0

(* thread_join: returns at once if t is detached; reclaims t if it is dead *)
(* or the timeout is 0, for which wait_queue_block returns ERR_TIMED_OUT,  *)
(* a positive number; else waits for it.                                   *)
thread_join(t, timeout) ==
  LET c == current_thread IN
  /\ Client("thread_join") /\ Handle(t) /\ t # c /\ ~Joined(t)
  /\ \/ /\ t \in detached
        /\ UNCHANGED <<schedVars, nodeVars, waitVars, timerVars, ctlVars, arg>>
     \/ /\ t \notin detached
        /\ NoNeedToWait(t, timeout)
        /\ free_thread_node(t)
        /\ UNCHANGED <<schedVars, waitVars, timerVars, ctlVars, arg>>
     \/ /\ t \notin detached
        /\ ~NoNeedToWait(t, timeout)
        /\ arg' = [arg EXCEPT ![c] = t]
        /\ Block(t, timeout, "join")
        /\ UNCHANGED nodeVars
  /\ UNCHANGED <<priority, thread_preempt_lock, wake, irq, halted>>

(* After the wait: an error below 0 is returned, else arg[c] is reclaimed. *)
thread_join_return ==
  LET c == current_thread IN
  /\ ~halted /\ irq = "none" /\ pc[c] = "join"
  /\ Unblocked
  /\ IF wait_queue_block_ret[c] < 0 THEN UNCHANGED nodeVars
     ELSE free_thread_node(arg[c])
  /\ pc' = [pc EXCEPT ![c] = "user"]
  /\ arg' = [arg EXCEPT ![c] = IDLE_THREAD_ID]
  /\ thread_lock' = 0
  /\ UNCHANGED <<schedVars, waitVars, priority, thread_preempt_lock,
                 wake, irq, halted>>

-----------------------------------------------------------------------------
(* thread_detach wakes the joiners of t ... *)
thread_detach(t) ==
  /\ Client("thread_detach") /\ Handle(t)
  /\ Joined(t) => "detach_joined" \in Calls
  /\ state[t] = "DEATH" => "detach_dead" \in Calls
  /\ WakeAll(t, FALSE, ERR_THREAD_DETACHED, state[current_thread], "detach")
  /\ arg' = [arg EXCEPT ![current_thread] = t]
  /\ UNCHANGED <<nodeVars, timerVars, priority, thread_preempt_lock, irq, halted>>

(* ... and marks it.  For a dead thread it calls thread_join with the      *)
(* node's address for an id: &g_threads[id] is then far outside the mapped *)
(* memory, and the page fault ends in exception_die.                       *)
thread_detach_return ==
  LET c == current_thread
      t == arg[c]
  IN
  /\ WakeAllDone("detach")
  /\ arg' = [arg EXCEPT ![c] = IDLE_THREAD_ID]
  /\ pc' = [pc EXCEPT ![c] = "user"]
  /\ IF state[t] = "DEATH"
     THEN detached' = detached \ {t} /\ halted' = TRUE /\ UNCHANGED thread_lock
     ELSE detached' = detached \cup {t} /\ thread_lock' = 0 /\ UNCHANGED halted
  /\ UNCHANGED <<schedVars, g_thread_free_list, thread_list, waitVars, timerVars,
                 priority, thread_preempt_lock, irq>>

(* Passes the node's address to thread_detach for an id, with the same end.*)
thread_detach_and_resume(t) ==
  /\ Client("thread_detach_and_resume") /\ Handle(t)
  /\ halted' = TRUE
  /\ thread_lock' = 1
  /\ UNCHANGED <<schedVars, nodeVars, waitVars, timerVars, pc, priority,
                 thread_preempt_lock, arg, wake, irq>>

(* Mutant: wakes the joiners of another thread. *)
WakeJoiners_other == WakeAll(IDLE_THREAD_ID, FALSE, NO_ERR, "DEATH", "exit")

WakeJoiners == WakeAll(current_thread, FALSE, NO_ERR, "DEATH", "exit")

(* A detached thread frees its own node, which drops the lock, and         *)
(* switches away; the other kind wakes its joiner first.                   *)
thread_exit ==
  LET c == current_thread IN
  /\ Client("thread_exit")
  /\ IF c \in detached
     THEN /\ free_thread_node(c)
          /\ thread_resched([state EXCEPT ![c] = "DEATH"], RunQueue,
                            remaining_quantum, [pc EXCEPT ![c] = "none"], 0)
          /\ UNCHANGED <<waitVars, wake>>
     ELSE WakeJoiners /\ UNCHANGED nodeVars
  /\ UNCHANGED <<timerVars, priority, thread_preempt_lock, arg, irq, halted>>

thread_exit_resched ==
  /\ WakeAllDone("exit")
  /\ thread_resched(state, RunQueue, remaining_quantum,
                    [pc EXCEPT ![current_thread] = "none"], 1)
  /\ UNCHANGED <<nodeVars, waitVars, timerVars, priority, thread_preempt_lock,
                 arg, irq, halted>>

thread_sleep(delay) ==
  LET c == current_thread IN
  /\ Client("thread_sleep")
  /\ timer_set_oneshot(c, delay, "thread_sleep_handler")
  /\ thread_resched([state EXCEPT ![c] = "SLEEPING"], RunQueue,
                    remaining_quantum, pc, 1)
  /\ UNCHANGED <<nodeVars, waitVars, priority, thread_preempt_lock,
                 arg, wake, irq, halted>>
=============================================================================
