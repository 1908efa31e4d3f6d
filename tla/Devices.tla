------------------------------- MODULE Devices -------------------------------
(* The drivers under the kernel at work together: the PIT interrupts through  *)
(* the interrupt controllers, timer_tick runs the timers, and threads print   *)
(* on the console in the meantime.  What the threads do is one of a few jobs, *)
(* so that the jobs' states add up instead of multiplying.                    *)
(*                                                                            *)
(* The scheduler is reduced to what matters here: a tick may switch threads.  *)
EXTENDS Timer, Pic, Printf, Console

CONSTANTS
  Jobs,        \* a subset of {"format", "lines", "timers", "print"}
  Formats,     \* directives formatted in job "format"
  Writers,     \* the threads of job "print"
  Messages,    \* what they give to printf
  Sleepers,    \* the timers of sleeping threads in job "print", a subset of Timers
  Sleeps,      \* and how long they sleep, a subset of Delays
  MaxMessages  \* bound: how much is printed

\* NULL stands for no vector in in_irq.
ASSUME NoVectorAssumption == NULL \notin Vectors
ASSUME SleepAssumption == Sleepers \subseteq Timers /\ Sleeps \subseteq Delays

VARIABLES
  job,
  item,                 \* "format": the last directive
  in_irq,               \* the vector whose handler runs, or NULL
  current_thread,
  thread_preempt_lock,
  output,               \* of each writer: what console_put_str has left to do
  cursor,               \* of each writer: the cursor console_putc has read, or NULL
  inside,               \* the writers inside printf
  said,                 \* what has been printed since the start, in order
  messages,             \* how many messages that was
  woken,                \* a timer asked for a reschedule while a thread was inside printf
  plain,                \* nothing printed moves the cursor but characters and line ends
  wanted                \* the vectors unmasked and not masked since

threadVars == <<current_thread, thread_preempt_lock, output, cursor, inside, said, messages, plain>>
vars == <<timerVars, picVars, consoleVars, threadVars, job, item, in_irq, woken, wanted>>

NoItem == [text |-> << >>]

\* start_kernel up to thread_become_idle: the PIT is the one line that is open.
Init ==
  /\ TimerInit
  /\ mask = [c \in 1..2 |-> IF c = 1 THEN Lines \ {INT_PIT[2]} ELSE Lines]
  /\ irqMask = mask /\ isr = [c \in 1..2 |-> {}]
  /\ wanted = {INT_PIT} /\ in_irq = NULL
  /\ console_init
  /\ job \in Jobs /\ item = NoItem
  /\ current_thread \in Writers /\ thread_preempt_lock = 0
  /\ output = [w \in Writers |-> << >>] /\ cursor = [w \in Writers |-> NULL]
  /\ inside = {} /\ said = << >> /\ messages = 0 /\ woken = FALSE /\ plain = TRUE

Thread(j) == job = j /\ in_irq = NULL

------------------------------------------------------------------------------
(* Threads *)

FormatItem ==
  /\ Thread("format")
  /\ item' \in IF item = NoItem THEN Formats ELSE {NoItem}
  /\ UNCHANGED <<timerVars, picVars, consoleVars, threadVars, job, in_irq, woken, wanted>>

TimerCalls ==
  /\ Thread("timers") /\ TimerCall(Timers)
  /\ UNCHANGED <<clockVars, tickVars, picVars, consoleVars, threadVars, job, item, in_irq, woken, wanted>>

LineCalls ==
  /\ Thread("lines")
  /\ \/ \E v \in Vectors \cup {Invalid} :
          mask_interrupt(v) /\ wanted' = wanted \ {v}
     \/ \E v \in Vectors \cup {Invalid} :
          unmask_interrupt(v) /\ wanted' = wanted \cup ({v} \ {Invalid})
     \/ mask_all_interrupt /\ wanted' = {}
  /\ UNCHANGED <<timerVars, consoleVars, threadVars, job, item, in_irq, woken>>

\* printf: thread_preempt_disable, then _printf_driver with console_put_str
printf(m) ==
  /\ Thread("print") /\ current_thread \notin inside /\ messages < MaxMessages
  /\ inside' = inside \cup {current_thread}
  /\ thread_preempt_lock' = thread_preempt_lock + 1
  /\ \E text \in {_printf_driver(m)} :
       /\ output' = [output EXCEPT ![current_thread] = console_put_str(text)]
       /\ said' = said \o text
       /\ plain' = (plain /\ {"\t", "BS"} \cap ToSet(text) = {})
  /\ messages' = messages + 1
  /\ UNCHANGED <<timerVars, picVars, consoleVars, current_thread, cursor, job, item, in_irq, woken, wanted>>

\* console_putc takes the cursor ...
console_putc_read ==
  /\ Thread("print") /\ output[current_thread] # << >> /\ cursor[current_thread] = NULL
  /\ cursor' = [cursor EXCEPT ![current_thread] = cs]
  /\ UNCHANGED <<timerVars, picVars, consoleVars, current_thread, thread_preempt_lock, output,
                 inside, said, messages, plain, job, item, in_irq, woken, wanted>>

\* ... and stores the character and the cursor; uart_putc sends the character.
console_putc_write ==
  /\ Thread("print") /\ cursor[current_thread] # NULL
  /\ \E c \in {Head(output[current_thread])}, at \in {cursor[current_thread]} :
       /\ \E r \in {console_putc(fb, c[1], at.x, at.y)} :
            fb' = r.fb /\ cs' = [x |-> r.x, y |-> r.y]
       /\ uart' = IF c[2] THEN Append(uart, c[1]) ELSE uart
  /\ output' = [output EXCEPT ![current_thread] = Tail(@)]
  /\ cursor' = [cursor EXCEPT ![current_thread] = NULL]
  /\ UNCHANGED <<timerVars, picVars, current_thread, thread_preempt_lock,
                 inside, said, messages, plain, job, item, in_irq, woken, wanted>>

\* thread_preempt_enable at the end of printf
printf_return ==
  /\ Thread("print") /\ current_thread \in inside /\ output[current_thread] = << >>
  /\ inside' = inside \ {current_thread}
  /\ thread_preempt_lock' = IF thread_preempt_lock > 0 THEN thread_preempt_lock - 1 ELSE 0
  /\ UNCHANGED <<timerVars, picVars, consoleVars, current_thread, output, cursor, said, messages,
                 plain, job, item, in_irq, woken, wanted>>

\* some thread sleeps, with a timer that asks for a reschedule when it wakes it
Sleep ==
  /\ Thread("print") /\ current_thread \notin inside
  /\ \E t \in Sleepers : timer_cancel(t) \/ \E ms \in Sleeps : timer_set_oneshot(t, ms)
  /\ UNCHANGED <<clockVars, tickVars, picVars, consoleVars, threadVars, job, item, in_irq, woken, wanted>>

------------------------------------------------------------------------------
(* The interrupt *)

\* platform_irq: the handler of the PIT is os_timer_tick, the other lines have none.
Interrupt(v) ==
  /\ job # "format" /\ in_irq = NULL /\ Deliverable(v)
  /\ in_irq' = v /\ isr' = InService(v)
  /\ IF v = INT_PIT THEN os_timer_tick
     ELSE /\ job = "lines" /\ stage' = "done" /\ ret' = "INT_NO_RESCHEDULE"
          /\ UNCHANGED <<heap, timer, clockVars, running, periodic>>
  /\ UNCHANGED <<mask, irqMask, consoleVars, threadVars, job, item, woken, wanted>>

\* Mutant: no regard to thread_preempt_lock.
thread_timer_tick_any == {"INT_NO_RESCHEDULE", "INT_RESCHEDULE"}

\* The quantum may be used up.
thread_timer_tick ==
  {"INT_NO_RESCHEDULE"} \cup (IF thread_preempt_lock = 0 THEN {"INT_RESCHEDULE"} ELSE {})

TimerTick ==
  /\ \/ /\ timer_tick_take \/ timer_tick_again \/ \E r \in thread_timer_tick : timer_tick_end(r)
        /\ UNCHANGED woken
     \/ /\ callback(IF job = "print" THEN {} ELSE Timers)
        /\ woken' = (woken \/ (ret' = "INT_RESCHEDULE" /\ thread_preempt_lock > 0))
  /\ UNCHANGED <<picVars, consoleVars, threadVars, job, item, in_irq, wanted>>

\* issue_eoi, then x64_exception_handler: thread_preempt if the handler asked for it
InterruptReturn ==
  /\ stage = "done" /\ in_irq # NULL
  /\ issue_eoi(in_irq) /\ in_irq' = NULL
  /\ stage' = "out" /\ ret' = "INT_NO_RESCHEDULE"
  /\ current_thread' \in IF job = "print" /\ ret = "INT_RESCHEDULE" THEN Writers
                         ELSE {current_thread}
  /\ UNCHANGED <<heap, timer, clockVars, running, periodic, mask, irqMask, consoleVars,
                 thread_preempt_lock, output, cursor, inside, said, messages, plain, job, item, woken, wanted>>

Next ==
  \/ FormatItem \/ TimerCalls \/ LineCalls
  \/ \E m \in Messages : printf(m)
  \/ console_putc_read \/ console_putc_write \/ printf_return \/ Sleep
  \/ \E v \in Vectors : Interrupt(v)
  \/ TimerTick \/ InterruptReturn

Spec == Init /\ [][Next]_vars

------------------------------------------------------------------------------
Service == INSTANCE TimerService WITH
  Off <- 0, None <- NULL, MaxDelay <- Max(Delays \cup {1}), clock <- now, rings <- running,
  Late <- ((next_trigger_delta + timer_delta_time) \div One) - 1,
  due <- [t \in Timers |-> IF list_in_list(heap, t) THEN timer[t].sched_time ELSE 0]

\* The queue of linked nodes, its ordered insertion and the loop that calls back into it are
\* the timers of TimerService: in order, never early, never later than one period and one
\* tick, whatever a callback does to its own timer or another one (timer.c:104-123).
TimersKeepPromise == Service!Spec

\* Every period of platform_set_periodic_timer brings one call of timer_tick, at most one
\* tick late, and the lateness does not add up (platform_timer.c:58-61).
KeepsPace ==
  stage = "out" =>
    /\ fired * next_trigger_delta <= timer_current_time
    /\ timer_current_time < (fired + 1) * next_trigger_delta + timer_delta_time

\* Outside the handler a line that was unmasked, and not masked since, gets through to the
\* CPU: nothing is left in service, and the cascade line is open for the lines of the second
\* controller (interrupt.c:89-116).  With all lines of the second open the code closes the
\* cascade line (interrupt.c:96), which is the exception made here.
WantedGetThrough ==
  in_irq = NULL =>
    \A v \in wanted : Deliverable(v) \/ (v[1] = 2 /\ mask[2] = {})

\* When nobody prints, the window shows the end of what was printed, whole messages in the
\* order of their printf calls, and the serial line got all of it: a tick does not switch
\* threads in the middle of a message (stdio.h:7-12, thread.c:568), and console_putc wraps,
\* feeds and scrolls right.  A timer that wakes a thread may switch all the same
\* (thread.c:510, timer.c:110), and that is the exception, as are tabs and backspaces.
ScreenShowsEnd ==
  job = "print" /\ inside = {} /\ ~woken /\ plain => ShowsEndOf(said) /\ uart = said

\* A directive prints the number its argument has in the type it names, with the sign, the
\* padding and the width it asks for (printf.c:174-219, 263-296).
PrintfExact == job = "format" /\ "conv" \in DOMAIN item /\ Regular(item) => Meant(item, Printed(item))
==============================================================================
