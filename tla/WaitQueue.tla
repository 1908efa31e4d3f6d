------------------------------ MODULE WaitQueue ------------------------------
(***************************************************************************)
(* kernel/wait_queue.c, and the part of kernel/timer.c it and thread_sleep *)
(* rest on.  A thread has at most one timer, on its own stack, so timers   *)
(* are named by their thread.                                              *)
(*                                                                         *)
(* The functions of wait_queue.c run inside the THREAD_LOCK section of     *)
(* their caller: a client that calls one takes the lock around the call.   *)
(* wait_queue_wake_all is a loop, one step per thread, during which only   *)
(* the caller is enabled; its arguments are in wake.                       *)
(***************************************************************************)
EXTENDS Sched

(* Before the first entry with a later time, else last. *)
insert_timer_in_queue(t, d) ==
  LET later == {i \in DOMAIN timer_queue : due[timer_queue[i]] > d}
  IN  IF later = {} THEN list_add_tail(timer_queue, t)
      ELSE list_add_before(timer_queue, Min(later), t)

timer_set_oneshot(t, delay, handler) ==
  LET d == IF delay = 0 THEN 1 ELSE delay IN
  /\ timer_queue' = insert_timer_in_queue(t, d)
  /\ due' = [due EXCEPT ![t] = d]
  /\ callback' = [callback EXCEPT ![t] = handler]

(* Mutant: the first timer is taken off, whose ever it is. *)
timer_cancel_head(t) ==
  /\ timer_queue' = IF list_is_empty(timer_queue) THEN timer_queue
                    ELSE list_remove_head(timer_queue)
  /\ due' = [due EXCEPT ![t] = 0]
  /\ callback' = [callback EXCEPT ![t] = "none"]

timer_cancel(t) ==
  /\ timer_queue' = list_delete(timer_queue, t)
  /\ due' = [due EXCEPT ![t] = 0]
  /\ callback' = [callback EXCEPT ![t] = "none"]

-----------------------------------------------------------------------------
(* wait_queue_block up to the context switch, for a timeout other than 0;  *)
(* the caller goes on at label k.                                          *)
Block(q, timeout, k) ==
  LET c == current_thread IN
  /\ wait_list' = [wait_list EXCEPT ![q] = list_add_tail(@, c)]
  /\ wait_count' = [wait_count EXCEPT ![q] = @ + 1]
  /\ blocking_wait_queue' = [blocking_wait_queue EXCEPT ![c] = q]
  /\ wait_queue_block_ret' = [wait_queue_block_ret EXCEPT ![c] = NO_ERR]
  /\ IF timeout = INFINIT_TIME THEN UNCHANGED timerVars
     ELSE timer_set_oneshot(c, timeout, "wait_queue_timeout_handler")
  /\ thread_resched([state EXCEPT ![c] = "BLOCKED"], RunQueue,
                    remaining_quantum, [pc EXCEPT ![c] = k], 1)

(* Mutant: the timer is not cancelled. *)
Unblocked_armed ==
  UNCHANGED timerVars

(* The thread is running again: it cancels its timer, if it set one. *)
Unblocked ==
  IF callback[current_thread] = "wait_queue_timeout_handler"
  THEN timer_cancel(current_thread)
  ELSE UNCHANGED timerVars

(* A timeout of 0 returns ERR_TIMED_OUT before anything is changed. *)
wait_queue_block(q, timeout) ==
  /\ Client("wait_queue_block")
  /\ IF timeout = 0 THEN UNCHANGED <<schedVars, waitVars, timerVars, ctlVars>>
     ELSE Block(q, timeout, "wait")
  /\ UNCHANGED <<nodeVars, priority, thread_preempt_lock, arg, wake, irq, halted>>

wait_queue_block_return ==
  /\ ~halted /\ irq = "none" /\ pc[current_thread] = "wait"
  /\ Unblocked
  /\ pc' = [pc EXCEPT ![current_thread] = "user"]
  /\ thread_lock' = 0
  /\ UNCHANGED <<schedVars, nodeVars, waitVars, priority, thread_preempt_lock,
                 arg, wake, irq, halted>>

(* The wait queue's side of waking thread t, blocked on q. *)
Release(q, t, error) ==
  /\ wait_count' = [wait_count EXCEPT ![q] = @ - 1]
  /\ blocking_wait_queue' = [blocking_wait_queue EXCEPT ![t] = NULL]
  /\ wait_queue_block_ret' = [wait_queue_block_ret EXCEPT ![t] = error]

(* On an empty queue wait_queue_wake_one returns 0 and changes nothing. *)
wait_queue_wake_one(q, reschedule, error) ==
  LET c == current_thread
      t == Head(wait_list[q])
      r == insert_in_run_queue_head(
             IF reschedule THEN insert_in_run_queue_head(RunQueue, c, priority[c])
             ELSE RunQueue, t, priority[t])
  IN
  /\ Client("wait_queue_wake_one")
  /\ ~list_is_empty(wait_list[q])
  /\ wait_list' = [wait_list EXCEPT ![q] = list_remove_head(@)]
  /\ Release(q, t, error)
  /\ IF reschedule
     THEN thread_resched([state EXCEPT ![t] = "READY", ![c] = "READY"], r,
                         remaining_quantum, pc, 1)
     ELSE /\ state' = [state EXCEPT ![t] = "READY"]
          /\ run_queue' = r.q /\ run_queue_bitmap' = r.bits
          /\ UNCHANGED <<remaining_quantum, current_thread, ctlVars>>
  /\ UNCHANGED <<nodeVars, timerVars, priority, thread_preempt_lock,
                 arg, wake, irq, halted>>

-----------------------------------------------------------------------------
(* The entry of wait_queue_wake_all, with the caller's state set to st;    *)
(* next says what follows the loop.                                        *)
WakeAll(q, reschedule, error, st, next) ==
  LET c == current_thread
      queued == reschedule /\ wait_count[q] > 0
      r == IF queued THEN insert_in_run_queue_head(RunQueue, c, priority[c])
           ELSE RunQueue
  IN
  /\ state' = [state EXCEPT ![c] = IF queued THEN "READY" ELSE st]
  /\ run_queue' = r.q /\ run_queue_bitmap' = r.bits
  /\ pc' = [pc EXCEPT ![c] = "wake_all"]
  /\ thread_lock' = 1
  /\ wake' = [q |-> q, error |-> error, reschedule |-> reschedule,
              woken |-> FALSE, next |-> next]
  /\ UNCHANGED <<remaining_quantum, current_thread, waitVars>>

wait_queue_wake_all(q, reschedule, error) ==
  /\ Client("wait_queue_wake_all")
  /\ WakeAll(q, reschedule, error, state[current_thread], "user")
  /\ UNCHANGED <<nodeVars, timerVars, priority, thread_preempt_lock, arg,
                 irq, halted>>

wait_queue_destroy(q, reschedule) ==
  /\ Client("wait_queue_destroy")
  /\ WakeAll(q, reschedule, ERR_OBJECT_DESTORYED, state[current_thread], "user")
  /\ UNCHANGED <<nodeVars, timerVars, priority, thread_preempt_lock, arg,
                 irq, halted>>

InWakeAll == ~halted /\ irq = "none" /\ pc[current_thread] = "wake_all"

(* One turn of the loop. *)
wake_all_next ==
  LET q == wake.q
      t == Head(wait_list[q])
      r == insert_in_run_queue_head(RunQueue, t, priority[t])
  IN
  /\ InWakeAll /\ ~list_is_empty(wait_list[q])
  /\ wait_list' = [wait_list EXCEPT ![q] = list_remove_head(@)]
  /\ Release(q, t, wake.error)
  /\ state' = [state EXCEPT ![t] = "READY"]
  /\ run_queue' = r.q /\ run_queue_bitmap' = r.bits
  /\ wake' = [wake EXCEPT !.woken = TRUE]
  /\ UNCHANGED <<remaining_quantum, current_thread, nodeVars, timerVars, ctlVars,
                 priority, thread_preempt_lock, arg, irq, halted>>

(* The loop is over; next is who called it. *)
WakeAllDone(next) ==
  /\ InWakeAll /\ list_is_empty(wait_list[wake.q]) /\ wake.next = next
  /\ wake' = NoWake

wait_queue_wake_all_return ==
  LET k == [pc EXCEPT ![current_thread] = "user"] IN
  /\ WakeAllDone("user")
  /\ IF wake.woken /\ wake.reschedule
     THEN thread_resched(state, RunQueue, remaining_quantum, k, 1)
     ELSE pc' = k /\ thread_lock' = 0 /\ UNCHANGED schedVars
  /\ UNCHANGED <<nodeVars, waitVars, timerVars, priority, thread_preempt_lock,
                 arg, irq, halted>>

-----------------------------------------------------------------------------
(* Mutant: the thread is not unlinked. *)
thread_unblock_linked(t, error) ==
  LET q == blocking_wait_queue[t]
      r == insert_in_run_queue_head(RunQueue, t, priority[t])
  IN
  /\ UNCHANGED wait_list
  /\ Release(q, t, error)
  /\ state' = [state EXCEPT ![t] = "READY"]
  /\ run_queue' = r.q /\ run_queue_bitmap' = r.bits

(* thread_unblock_from_wait_queue, for a BLOCKED thread. *)
thread_unblock_from_wait_queue(t, error) ==
  LET q == blocking_wait_queue[t]
      r == insert_in_run_queue_head(RunQueue, t, priority[t])
  IN
  /\ wait_list' = [wait_list EXCEPT ![q] = list_delete(@, t)]
  /\ Release(q, t, error)
  /\ state' = [state EXCEPT ![t] = "READY"]
  /\ run_queue' = r.q /\ run_queue_bitmap' = r.bits

=============================================================================
