-------------------------------- MODULE Timer --------------------------------
(* The software timers (kernel/timer.c) on the clock of the PIT               *)
(* (driver/timer/platform_timer.c).  The clock counts units, One to the       *)
(* millisecond, where the code has a 32.32 fixed-point number.                *)
(*                                                                            *)
(* timer_tick runs in the interrupt handler: stage says where its loop is.    *)
EXTENDS PtrList, Integers

CONSTANTS
  Timers,     \* the timer_t objects of the callers
  Delays,     \* delays and periods they ask for, in milliseconds
  One,        \* units of the clock in a millisecond
  MaxClock    \* bound: the clock stops here, long before its 32 bits wrap

\* The head is no timer, and NULL is no node.
ASSUME NodeAssumption == Head_ \notin Timers /\ NULL \notin Timers \cup {Head_}

\* Delays are of type time_t, so that one is the longest.
ASSUME TimeAssumption ==
  /\ Delays \subseteq Nat /\ \E d \in Delays : \A e \in Delays : e <= d
  /\ One \in Nat \ {0} /\ MaxClock \in Nat

VARIABLES
  heap,                 \* timer_queue and the nodes of the timers
  timer,                \* sched_time, periodic_time and whether callback is set
  timer_current_time,
  next_trigger_time,
  fired,                \* how often the callback of platform_timer.c was called
  stage,                \* "out", "loop", "callback", "after" or "done"
  running,              \* the timer taken off the queue
  periodic,             \* its local variable of that name
  ret                   \* what the handler returns

clockVars == <<timer_current_time, next_trigger_time, fired>>
tickVars  == <<stage, running, periodic, ret>>
timerVars == <<heap, timer, clockVars, tickVars>>

------------------------------------------------------------------------------
(* The clock *)

\* the divisor the PIT gets for a frequency: a count of its 1193182 Hz input
PitCount(frequency) ==
  IF frequency <= 18 THEN 65535
  ELSE IF frequency >= 1193182 THEN 1
  ELSE LET c == 35795464 \div frequency
               + (IF 35795464 % frequency >= 35795464 \div 2 THEN 1 ELSE 0)
       IN  (c \div 3) + (IF (c \div 3) % 3 >= 1 THEN 1 ELSE 0)

\* set_pit_frequency(1000): what an interrupt adds to the clock
timer_delta_time == (1000 * PitCount(1000) * One) \div 1193182

\* platform_set_periodic_timer(timer_tick, NULL, 10)
next_trigger_delta == 10 * One

current_time(units) == units \div One

now == current_time(timer_current_time)

------------------------------------------------------------------------------
(* The queue *)

\* what the walk along the queue meets: its head and the timers in it
Entries(h) == {e \in DOMAIN h.next : list_in_list(h, e)}

\* The loop of insert_timer_in_queue: the first entry with a later time, else the end.
FirstLater(h, tm, t) ==
  LET from[e \in Entries(h)] ==
        IF e = Head_ \/ tm[e].sched_time > tm[t].sched_time THEN e ELSE from[h.next[e]]
  IN  from[h.next[Head_]]

\* Mutant: does not look for the place of the timer.
insert_timer_at_tail(h, tm, t) == list_add_tail(h, t)

insert_timer_in_queue(h, tm, t) == list_add_before(h, FirstLater(h, tm, t), t)

timer_set(t, delay, period) ==
  /\ ~list_in_list(heap, t)
  /\ timer' = [timer EXCEPT ![t] =
                 [sched_time |-> now + delay, periodic_time |-> period, callback |-> TRUE]]
  /\ heap' = insert_timer_in_queue(heap, timer', t)

timer_set_oneshot(t, delay) == timer_set(t, IF delay = 0 THEN 1 ELSE delay, 0)

timer_set_periodic(t, period) ==
  \E p \in {IF period = 0 THEN 1 ELSE period} : timer_set(t, p, p)

timer_cancel(t) ==
  /\ heap' = IF list_in_list(heap, t) THEN list_delete(heap, t) ELSE heap
  /\ timer' = [timer EXCEPT ![t].periodic_time = 0, ![t].callback = FALSE]

TimerCall(timers) ==
  \E t \in timers :
    \/ \E ms \in Delays : timer_set_oneshot(t, ms) \/ timer_set_periodic(t, ms)
    \/ timer_cancel(t)

------------------------------------------------------------------------------
(* The interrupt *)

TimerInit ==
  /\ heap = list_initialize(Timers)
  /\ timer = [t \in Timers |-> [sched_time |-> 0, periodic_time |-> 0, callback |-> FALSE]]
  /\ timer_current_time = 0 /\ next_trigger_time = next_trigger_delta /\ fired = 0
  /\ stage = "out" /\ running = NULL /\ periodic = FALSE /\ ret = "INT_NO_RESCHEDULE"

\* Mutant: the next period begins when this tick came.
NextTriggerLate(time) == time + next_trigger_delta

\* delta, the lateness of this tick, is taken off the next period
NextTrigger(time) == time + next_trigger_delta - (time - next_trigger_time)

os_timer_tick ==
  /\ stage = "out"
  /\ timer_current_time + timer_delta_time <= MaxClock
  /\ timer_current_time' = timer_current_time + timer_delta_time
  /\ ret' = "INT_NO_RESCHEDULE"
  /\ IF timer_current_time' >= next_trigger_time
     THEN /\ next_trigger_time' = NextTrigger(timer_current_time')
          /\ fired' = fired + 1
          /\ stage' = "loop"
     ELSE stage' = "done" /\ UNCHANGED <<next_trigger_time, fired>>
  /\ UNCHANGED <<heap, timer, running, periodic>>

HeadIsDue == \E t \in {list_peek_head(heap)} : t # NULL /\ ~(now < timer[t].sched_time)

\* timer_tick takes the first timer off the queue if it is due, ...
timer_tick_take ==
  /\ stage = "loop" /\ HeadIsDue
  /\ running' = list_peek_head(heap)
  /\ heap' = list_delete(heap, running')
  /\ periodic' = (timer[running'].periodic_time > 0)
  /\ stage' = "callback"
  /\ UNCHANGED <<timer, clockVars, ret>>

\* ... calls it: it may set or cancel one of timers, its own perhaps, ...
callback(timers) ==
  /\ stage = "callback"
  /\ timer[running].callback
  /\ TimerCall(timers) \/ UNCHANGED <<heap, timer>>
  /\ ret' \in {ret, "INT_RESCHEDULE"}
  /\ stage' = "after"
  /\ UNCHANGED <<clockVars, running, periodic>>

\* ... and puts it back if it is periodic and the callback left that to the loop.
timer_tick_again ==
  /\ stage = "after"
  /\ IF periodic /\ ~list_in_list(heap, running) /\ timer[running].periodic_time > 0
     THEN /\ timer' = [timer EXCEPT ![running].sched_time = now + timer[running].periodic_time]
          /\ heap' = insert_timer_in_queue(heap, timer', running)
     ELSE UNCHANGED <<heap, timer>>
  /\ stage' = "loop" /\ running' = NULL /\ periodic' = FALSE
  /\ UNCHANGED <<clockVars, ret>>

\* Nothing more is due: thread_timer_tick has the last word on the result.
timer_tick_end(thread_timer_tick) ==
  /\ stage = "loop" /\ ~HeadIsDue
  /\ stage' = "done"
  /\ ret' = IF thread_timer_tick = "INT_RESCHEDULE" THEN thread_timer_tick ELSE ret
  /\ UNCHANGED <<heap, timer, clockVars, running, periodic>>
==============================================================================
