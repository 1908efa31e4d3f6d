# A TLA+ development of chinix

chinix is a small preemptive kernel for one x86-64 CPU, configured by a copy of
the kconfig tools. This directory holds TLA+ models of the kernel's core
(threads, scheduling, wait queues), of its drivers (timers, interrupt
controllers, console, printf) and of the configuration tools (expressions,
menus, symbol values, configuration files, `conf` and `mconf`), the TLC
configurations that check them on small instances, and theorems about the
kernel, the timers and the interrupt controllers, whose proofs TLAPS checks.

Asserts (`debug_assert`) are compiled out in the default configuration
(`CONFIG_DEBUG_ASSERT` is off), so the models never stop at one: what they claim
is stated as properties instead.

## The system

| part | state | operations | how it meets the others |
|---|---|---|---|
| scheduler (`kernel/thread.c`) | `run_queue[]`, `run_queue_bitmap`, `_current_thread`, per-thread `state`, `priority`, `remaining_quantum`; `thread_preempt_lock` | `get_new_thread`, `thread_resched`, `thread_yield`, `thread_preempt`, `thread_set_priority`, `thread_preempt_disable/enable` | everybody who blocks, wakes or ends a thread calls `thread_resched` with the lock held |
| thread life cycle (`kernel/thread.c`) | `g_threads`, `g_thread_free_list`, `thread_list`, flags, `exit_wait_queue` | `thread_create`, `resume`, `join`, `detach`, `detach_and_resume`, `exit`, `sleep` | join and exit meet in the exit wait queue; sleep sets a timer |
| wait queues (`kernel/wait_queue.c`) | list and count, the waiter's `blocking_wait_queue`, `wait_queue_block_ret` | `block`, `wake_one`, `wake_all`, `destroy`, timeout handler | a timeout is a timer on the waiter's stack |
| timers (`kernel/timer.c`) | `timer_queue`, ordered by time | `timer_set_oneshot`, `timer_set_periodic`, `timer_cancel`, `timer_tick` | callbacks run in the interrupt handler and change threads and timers |
| platform timer (`driver/timer`) | 32.32 fixed-point clock, next trigger | `os_timer_tick`, `set_pit_frequency` | calls `timer_tick` once per period |
| interrupt path (`arch/x64/exception.c`, `driver/interrupt`) | handler table, PIC masks and their copies | `x64_exception_handler`, `platform_irq`, mask and unmask, end of interrupt | calls `thread_preempt` when a handler asks for it |
| lists (`include/list.h`) | `prev`, `next` | add, delete, remove | every queue above |
| console, printf (`driver/console`, `driver/uart`, `libc`) | cursor, frame buffer | `console_putc`, `console_put_str`, `_printf_driver` | `printf` holds the quantum's preemption off |
| start (`init/main.c`, `boot/`) | | `start_kernel`, `init_run`, `app_run` | creates the first threads |
| kconfig: expressions (`kconfig/expr.c`) | expression trees, rewritten in place | evaluation, `expr_transform`, `expr_eliminate_dups`, `expr_trans_compare`, ... | dependencies of every entry and symbol |
| kconfig: menus (`menu.c`, `zconf.y`) | the tree of entries, properties | `menu_add_*`, `menu_finalize`, the search for recursion | built once, read by every front end |
| kconfig: symbols (`symbol.c`) | value, visibility, flags and defaults of every symbol; `sym_change_count` | `sym_calc_value`, `sym_set_*_value`, `sym_clear_all_valid` | values are cached until cleared |
| kconfig: files (`confdata.c`) | `.config`, `.config.old`, `auto.conf`, `autoconf.h`, `tristate.conf`, `include/config/` | `conf_read`, `conf_write`, `conf_write_autoconf`, `conf_write_defconfig`, `conf_set_all_new_symbols` | make compares their times |
| kconfig: `conf`, `mconf` | the walk, the open menus | a mode each; keys | one process at a time on the same files |
| other front ends, lexer | | | not modelled |

What is hard here. In the kernel a thread can be preempted at any instruction
that runs with interrupts on; timers on the stack of a blocked thread are
reached by the interrupt handler; a timeout races the wakeup it guards against;
a node is freed and reused while others hold its id; a callback changes the
queue it was taken from; a wakeup switches threads where a tick does not. In the
tools values are cached and calculate each other, trees are rewritten in place
through two pointers, and files are replaced one after the other by processes
that can be killed or fail in between. `PROJECT.json` lists these hazards at
their lines.

What makes each part correct:

* scheduler: a thread waits in exactly one queue, that of its priority, exactly
  when it wants the CPU; the bitmap tells the truth; the CPU goes to whoever of
  the first level has waited longest, and to the idle thread only when nobody
  else can have it; the highest priority runs; nobody starves among equals;
* life cycle: each node is in one place; a free node is nobody's; joiners are
  woken; ids stay ids;
* wait queues: count, list and thread states agree; the first wakeup decides the
  result of a wait;
* timers: a timer that is set rings, in order, not early and not more than a
  period and a tick late; none outlives its stack frame; every sleep ends;
* interrupts: a line that was unmasked gets through whenever nothing is handled;
* console: the window shows the end of what was printed, message by message;
* printf: a directive prints the number its argument has in its type;
* expressions: rewriting keeps the meaning; tests of equality and dependence are
  right when they say yes;
* menus: nothing is lost, hidden or shown without its dependencies;
* symbols: what is cached is what calculating again gives; a choice has one
  value; numbers lie in their ranges;
* files: a complete configuration survives; `auto.conf` is never newer than what
  it stands for; what is written reads back; no rebuild is missed; no change is
  dropped without a question.

## Modules

Arrows are EXTENDS.

* kernel: `Lists` <- `Sched` <- `WaitQueue` <- `Thread` <- `Kernel` <-
  `KernelInvariant` <- `MCKernel`; `Kernel` instantiates `Dispatcher`;
* proofs about it: `ListLemmas` <- `KernelProofs` <- `QueueProofs` <- `StepProofs`
  <- `CoherenceProofs` <- `KernelTheorems`;
* drivers: `PtrList` <- `Timer`; `Timer`, `Pic`, `Printf`, `Console` <- `Devices`
  <- `MCDevices`; `Devices` instantiates `TimerService`;
* proofs about them: `Timer` <- `TimerProofs`; `Devices`, `TimerProofs` <-
  `DevicesTheorems`;
* kconfig: `KExpr` <- `ExprRewrite` <- `MCExpr`; `KExpr` <- `KMenu` <- `MenuTree`
  <- `MCMenu`; `KMenu` <- `KSymbol` <- `KConfData` <- `ConfSession` <-
  `ConfTool`, `MConf` <- `Configure` <- `MCConfigure`.

An MC module only gives values to constants. Recursive operators are used in the
kconfig modules, which are model-checked only; the kernel and driver modules,
about which theorems are proved, have none and use recursive functions where the
code loops. An operator named as the mutant of
another is a plausible bug; nothing uses it but the `mutants` of `PROJECT.json`.

### Kernel

All variables are declared in `Sched`, since the components share one C
structure, `thread_t`, and every one of them reschedules.

* **Lists** - the operations of `include/list.h` on sequences. `list_add_head`
  appends at the tail, because that is what its body does. `list_delete` of a
  node that is not in the list leaves the list alone; in the code it would
  write through stale pointers, and the coherence invariants show that it does
  not happen.
* **Sched** - state, run queues, `thread_resched` and its direct callers.
  `thread_resched(st, r, rem, k, lk)` takes the states, queues, quanta and
  continuations its caller has left and completes the step.
* **WaitQueue** - `wait_queue.c` and the one-shot timers it uses.
* **Thread** - `thread_create` ... `thread_sleep`.
* **Kernel** - the timer interrupt, `Init` (the state `start_kernel` leaves when
  `thread_become_idle` enables interrupts), `Next`, the fairness and the
  properties.
* **Dispatcher** - who gets the CPU, without queues, bitmap, quanta or thread
  states: the abstract specification of the scheduler. `Kernel!ServesInOrder` is
  the refinement. `running` is `current_thread`, `level` is `priority`, and
  `ahead`, whose domain is the threads that wait, maps each of them to those of
  its level that have waited for longer: in the code, those before it in its run
  queue (`Ahead`). `Yield`, `Leave`, `WakeAndYield` and `SetLevel` are the ways a
  call or the end of an interrupt comes to `thread_resched`, with the caller
  queued behind the others first, or not. Queueing "at the head" is behind the
  others, too, because of what `list_add_head` does.
* **KernelInvariant** - `Coherent`, the inductive invariant of the proofs. It can be
  added to the INVARIANTS of any kernel run; with lifecycle, waiting and quantum
  TLC finds it true (in up to twice the time).

A variable has the name of the field or global it stands for. A thread is named
by its index in `g_threads`; index `MAX_THREAD_ID` is never put on the free list
and is no thread. `detached` is the set of threads with `THREAD_FLAG_DETACHED`;
the exit queue of thread *t* is wait queue *t*. `run_queue_bitmap` is the set of
its one bits. Three variables model control: `pc[t]` is where thread *t* is or
where it will go on when switched in, `arg[t]` the id a function in progress is
about, `wake` the locals of a `wait_queue_wake_all` in progress. `irq` says
whether the timer interrupt is being handled and what `timer_tick` is going to
return, `halted` that the CPU is in `exception_die`.

Times are relative: `due[t]` is `sched_time - now`, and 0 stands for every time
that is not in the future. The code only asks whether a time has come and which
of two comes first. `timer_tick` fires everything that is due before it returns,
but the clock also advances on PIT interrupts at which no period ends
(`os_timer_tick_early`), so between two calls of `timer_tick` any number of
timers can fall due, at any of the distances the arguments allow. Two timers
that are both overdue keep the order of the queue; the queue is not inserted
into before what is overdue, a new timer being at least 1 away.
`remaining_quantum` stops at 0, the code only comparing it with 0. `callback[t]`
goes back to "none" when a sleep timer fires: the timer's stack frame is about to
be left, and nothing reads it again.

Grain of atomicity: one CPU, and `THREAD_LOCK` disables interrupts: a locked
section is one step, or, where it has a loop or a context switch in it, a
sequence of steps during which nothing else is enabled (`arch_ints_enabled` is
false). Everything else is preemptible between the steps: between the look at
the free list and the locked removal in `get_free_thread_node`; between taking a
node and publishing it; between `thread_resume`'s unlock and its
`thread_yield`; inside `printf`. An interrupt handler is one step for the clock,
one per timer that fires and one for the return. A thread that blocks stops at
the label after `thread_resched` ("wait", "join") and goes on from there when it
is current again, which is when it cancels its timer: a timer may fire after the
wakeup and before that.

`Calls` is the set of kernel functions the clients of an instance call; any
thread but the idle one may call any of them at any time, with any argument from
the constants. Guards state the duties the kernel leaves to its clients: no
`thread_resume` of a dead thread (asserted), one joiner for a thread, no join of
oneself, only ids of threads on `thread_list`. Two further uses that the code
does not survive, `thread_detach` of a dead thread and of a thread being joined,
have names of their own in `Calls`, so that a run chooses whether to include
them.

### Drivers

* **PtrList** - `include/list.h` on `prev` and `next` fields, for `timer_queue`.
  The insertion functions of the code all have the same body.
* **Timer** - `kernel/timer.c` on the clock of `driver/timer/platform_timer.c`.
  The clock counts units of `1/One` ms where the code has a 32.32 fixed-point
  number; the divisor of the PIT, the increment per tick and the period with its
  correction are computed as in the code. `timer_tick` is taken apart at the
  callback (`stage`): a callback may set and cancel timers, its own too, before
  the loop looks at `running` again.
* **TimerService** - what the timers promise, without a queue: the abstract
  specification. `Devices!TimersKeepPromise` is the refinement. `due` is
  `sched_time` of the timers that are in the list, `rings` the timer whose
  callback runs; no timer waits longer than one period of `timer_tick` and one
  tick of the PIT (`Late`).
* **Pic** - the two 8259s (external: mask register, in-service register) and
  `driver/interrupt/interrupt.c`, with `irq_mask` as the cached copy. A vector is
  a pair of controller and line.
* **Printf** - `next_format`, `_printf_driver` and the two conversions of
  `libc/printf.c` on sequences of characters, with integers of a few bits (the
  type an argument is read as and the width it is cut to are those of the flags),
  and `Meant`, the reference.
* **Console** - `console.c` on a linear frame buffer, with the cells beside the
  window, and the serial line of `uart.c`.
* **Devices** - all of these under one interrupt. `Init` picks one `job` for the
  threads: printing, timers, interrupt lines, or formatting. The clock and the
  timer interrupt run in the first three; the jobs share no state beside them,
  so their states add up instead of multiplying. Of the scheduler it has that
  the return from an interrupt may switch threads, when the handler asked for
  it. `console_putc` is two steps, since a switch may fall between them.

### Kconfig

An expression is a tuple `<<"AND", left, right>>`, `<<"EQUAL", symbol, constant>>`
and so on; where the code rewrites a tree through `ep1` and `ep2`, the model
passes the whole tree and a path for each of the two.

* **KExpr** - every function of `expr.c` that changes or evaluates an expression,
  and `expr_print` up to layout. Copying and freeing are left out: a tree is a
  value.
* **ExprRewrite** - one expression under `expr_transform` and the loop of
  `expr_eliminate_dups`, one pass a step; holds the reference semantics and the
  properties of `KExpr`.
* **KMenu** - the parser's actions (`zconf.y`), `menu.c` and the search for
  recursion of `symbol.c`. The record `d` is the tree: `d.menus`, `d.props`,
  `d.syms`, entries and properties named by their order of creation.
* **MenuTree** - reads a file statement by statement, finalizes and searches;
  holds the properties of `KMenu`.
* **KSymbol** - `sym_calc_value` and the setters. The record `S` is what a
  process knows of its symbols; every function of the code that calculates on
  the way returns the `S` it leaves, so that the order of evaluation, with its
  early returns, is that of the code.
* **KConfData** - lines of files: reading, writing, escaping, the minimal
  configuration, `auto.conf`, the defaults of the seed modes and the random
  choice.
* **ConfSession** - a process and the files. Every `fopen` with its writes, every
  `rename` and every touch is a step; between two of them the process may be
  killed, and a call may fail, as far as the instance allows (`Faults`). A failing
  `fprintf` or `fclose` (a full disk) is not modelled: the code tests neither, and
  would put the cut file in place.
  `Upgrade` replaces the Kconfig files between two processes.
* **ConfTool** - `conf.c`: the modes, the walk (`conf`, `check_conf`,
  `conf_choice`, `conf_string`) as a list of calls still to be made, an answer
  a step.
* **MConf** - `mconf.c`: what a menu lists, and what each key does. `child_count` is
  never reset (`mconf.c:278`): once an entry was counted, an empty menu stays open;
  only a first menu that lists nothing is left at once.
* **Configure** - composes them and states the properties.

A process starts with fresh symbols and the files, as the tools do. What make
sees is in two parts of `fs`: `touched`, the symbols whose file under
`include/config` is newer than `auto.conf`, and `done`, that `auto.conf` is newer
than what it depends on.

## Runs

| run | instance | checks |
|---|---|---|
| lifecycle | 4 usable nodes (idle, init, two more), 2 levels, quantum 1; create, resume, join, detach, exit, yield | `RunQueueCoherent`, `NodeOwnership`, `ReclaimedAreQuiet`, `NoLostJoin`, `ServesInOrder` |
| waiting | the same, one client wait queue, sleeps of 0 and 2, timeouts of 0, 1 and never; block, wake one, wake all, destroy, sleep | `WaitQueueCoherent`, `TimersCoherent`, `WorkConserving`, `ResultStable` |
| quantum | 3 usable nodes, 3 levels, quantum 2; set_priority, printf, sleep and detach of dead threads too | `TypeOK`, `SchedulerCoherent` |
| progress | 3 usable nodes, one priority; create, resume, join, exit, sleep, block, wake one; `FairSpec` | `EveryoneRuns`, `JoinReturns`, `SleepEnds` |
| expr | one boolean and one tristate symbol; every leaf (symbols, constants, comparisons) and its negation against every leaf, and three operators over symbols and their negations | `MeaningKept`, `AnswersSound`, `PrintParses`, `SideRewritingsMean`, `DupsShrinks` |
| menu | some hundreds of Kconfig files over three symbols and a choice: conditions of each kind, wrapped into nothing, `if`, menu, choice; chains and nested lists; two selects of one symbol, by symbols with dependencies; every order of the symbols for the search | `TreeIntact`, `DependenciesInherited`, `SelectsCollected`, `NothingHidden`, `RecursionFound` |
| configure | 14 Kconfig files, this repository's among them, most with a later version that adds or removes symbols or changes a range; two processes one after the other, two keys in each `mconf`; menus and `silentoldconfig` on nine of them, with kills and failing calls on four; the other modes of `conf` on five, with failing calls on three | `CacheFresh`, `ChoiceExactlyOne`, `ValuesFit`, `ConfigKept`, `AutoConfMarksCompletion`, `TruthfulChange`, `NoNewLeft`, `TouchedCoversChange`, `SaveLoadStable`, `DefconfigRoundTrip`, `RandEnds` |
| devices | 3 timers, delays 0 and 12 ms on a clock of whole milliseconds up to 45; 3 lines on each controller; integers of 2, 3, 5 and 7 bits; a window of 3 x 2 with tabs of 2; 2 writers, 2 messages | `KeepsPace`, `WantedGetThrough`, `ScreenShowsEnd`, `PrintfExact`, `TimersKeepPromise` |

These pass. Deadlock is checked in the kernel and device runs: with the idle
thread and the timer interrupt the kernel never stops (`exception_die` is a
loop), and the device run goes on formatting, masking and printing. The kconfig
runs may stop: a file has been read, an expression that is no junction has been
transformed, `MaxRuns` processes have run.

Why the bounds are enough to meet the interesting cases:

* kernel: three threads beside idle let one be preempted between two steps of an
  operation while two others race on what it left (two creators and the last
  node; a joiner, the joined thread and a third one; a waiter, its waker and a
  timer of another thread). The free list runs empty and nodes are reused. A
  quantum of 1 preempts at every tick; run quantum has 2, so that a thread is
  also preempted with some of it left and goes to the other insertion function.
  Delays 0 and 2 and timeouts 0 and 1 put a new timer before, behind and at the
  time of an old one.
* devices: three timers let a callback change a timer before, behind or equal to
  one that waits. The PIT count of the code gives ticks of 9 ms on this clock, so
  that a delay of 12 ms ends between two ticks and one of 0 before the first, and
  45 ms are five ticks. Three lines with the cascade among them suffice for a line
  above and one below it. A window of six cells scrolls within one message, and
  7-bit arguments exercise every cut to 5, 3 and 2 bits, sign bits included.
* expressions: joins look at two operands and absorptions at a third, each once
  at the top and once below an operator of the other kind.
* menus: three entries are a parent, a child and what comes between or behind.
* configure: two processes are one to leave files in a state and one to find it:
  a kill, an upgrade, a different mode or key fall between them. `Starts` has what
  longer histories leave: no `.config`, one from before a symbol was added, one
  with a complete build. Beside the files that resemble this repository's there are
  a choice of which a value is selected, boolean and tristate; a range whose upper
  end is a number that can be set, also below the lower end; a default that is
  limited by its dependency; and a version in which a string, a number and a
  boolean are gone and nothing is left to list. Two keys let a save fail and be
  tried again, or a value be changed and saved. Calls fail and processes are killed
  where files are what matters: in a first configuration with this repository's
  choice (kills, `fopen`, Ctrl-C), over a complete build whose symbols then go away
  (kills, `rename`, missing files), and in `conf` (`fopen`, `rename` and the
  overwriting of a named file).

Four runs check a claim of the code about itself, an assertion or a definition,
that the code does not keep; each is a finding in `PROJECT.json`:

| run | claim | what happens |
|---|---|---|
| join_timeout | `thread.c:416`: a thread that is reclaimed is dead | errors of `wait_queue_block` are positive, `thread_join` tests `err < 0`, so a timeout frees a live thread; `thread_detach` of a thread being joined does the same |
| detach_dead | `thread.c:40`: ids are in range | `thread_detach` passes a pointer to `thread_join`; `thread_detach_and_resume` passes one to `thread_detach` |
| set_priority | `thread.c:115`: what is queued is READY | `thread_set_priority` queues a RUNNING thread; `SchedulerCoherent` shows that the queues and their bitmap stay right nonetheless |
| priority_order | `thread.h:62-63`: 0 is the lowest priority | the scan starts at bit 0, so 0 is served first; scanning from the other end makes `HighestRuns` hold |

In the runs lifecycle and progress the clients avoid the misuses above
(`JoinTimeouts` holds only `INFINIT_TIME`, no "detach_joined" or "detach_dead").

Properties with an exception name it. `ScreenShowsEnd` leaves out messages during
which a timer wakes a thread: `thread_do_block_timeout` asks for a reschedule, and
`x64_exception_handler` calls `thread_preempt`, which does not look at
`thread_preempt_lock` (`thread.c:510`, `exception.c:95`), so two messages can tear.
`MeaningKept` after the second pass of `expr_eliminate_dups` holds for values y
and n and expressions without `m`: the identities in the comments at `expr.c:583`
and `expr.c:598` are none for `m`. `WantedGetThrough` excepts lines of the second
controller while all of them are open (`interrupt.c:96` closes the cascade line
then). Of the kconfig properties:

* `TruthfulChange` excepts four cases (`Miscounted`), each until a step that puts it
  right. A file to load is not there: the count is reset before the file is tried
  (`confdata.c:418`), and `mconf.c:964` goes on. A second `rename` has failed in
  `conf_write`: the symbols have lost `SYMBOL_WRITE` (`confdata.c:805`, `830`), and
  saving again, as the dialog invites (`mconf.c:938-944`), writes a file without
  lines and resets the count. A text is typed that a read has dropped, for being out
  of range, and has left in `def[S_DEF_USER].val`: `sym_set_string_value` takes it for
  the old one and calculates nothing (`symbol.c:677`). A tristate choice was set to y
  while a visible value of it has none from the user: `sym_calc_choice` takes the
  setting away again (`symbol.c:297`), so that the choice is y until everything is
  calculated anew, and m then (`Wavering`).
* `CacheFresh` excepts the last two.
* `SaveLoadStable` excepts the save after the failed `rename`, and a configuration in
  which the range of a number has its lower end above the upper one: no number is in
  it, and each reading drops it (`confdata.c:463`). `ValuesFit` says nothing of such a
  range either. `SaveLoadStable` also looks past the lines of choice values that
  cannot be seen: `SYMBOL_WRITE`, once given to them, is taken away only by a write.
* `ValuesFit` bounds a default by the dependencies alone, as the code does: a
  default needs no prompt.
* `TouchedCoversChange` excepts a string that the new Kconfig file does not have. Read
  from `auto.conf`, such a symbol is `S_OTHER`; a bare value makes it a string, a
  quoted one leaves the type (`confdata.c:153-190`), and `for_all_symbols`
  (`expr.h:88`) passes over it: what includes its file is not built again.

Each of these cases occurs in the run, where the property is violated without its
exception; only the typed text of `TruthfulChange` takes three keys, one more than
`MaxKeys` allows.

Seen on the way, without a run, since no line of the repository says otherwise or
nothing depends on it:

* `thread.c:579` wants `thread_lock` held, and the timeout handler
  (`wait_queue.c:31`) does not take it; on one CPU, with interrupts off, that is
  harmless, as the comment there says.
* The PIT is asked for 1000 Hz and runs at about 100 (`platform_timer.c:76`:
  `INTERNAL_FREQ_3X` is ten times too large). The clock's increment is computed from
  the same count, so that time is right and only coarse.
* The clock wraps after 2^32 ms, and what is then in the queue waits for the next
  wrap.
* `mask_interrupt` on the first controller writes the bit alone
  (`interrupt.c:69`) and opens the other lines; nothing calls it.
* `printf` drops the sign of a left-adjusted number, shows a sign for `%+u`, skips a
  `.` and takes the precision for the width, and puts `0x` in front of the padding.
  `Regular` says which directives `PrintfExact` is about.
* A tab near the right edge and a backspace at column 0 leave the window
  (`console.c:131`); `plain` excepts texts with them from `ScreenShowsEnd`.

## Fairness

`FairSpec` assumes that an interrupt handler that has begun goes on (weak
fairness); that timer interrupts that end a period keep coming whenever
interrupts are enabled again and again (strong fairness: the PIC keeps a request
pending while interrupts are off); and that a thread that is current again and
again inside a kernel function gets on with it (strong fairness, per thread: the
timer interrupt takes the CPU away in between). Nothing is assumed of client
code: a thread in "user" may loop for ever. `EveryoneRuns` and `JoinReturns`
except behaviours in which some thread is inside `printf` again and again: a tick
that finds `thread_preempt_lock` set does not preempt, and is not made up for when
the lock is released, so threads that print all the time can keep the CPU.

The loops of the tools need no fairness to be shown to end: `DupsShrinks` and
`RandEnds` are action properties, each round decreasing or increasing a number
that is bounded. That an interrupt line gets through (`WantedGetThrough`) is stated
as "nothing in the controllers stands in its way".

## Proofs

### Kernel

For every number of threads, priorities and wait queues, every quantum and every
set of arguments (`SizeAssumption`, `ArgumentAssumption` and `QueueAssumption` of
`Sched`) it is proved:

| theorem | says that always | of clients |
|---|---|---|
| `TypeCorrect`, `BitmapCorrect` | `TypeOK`, `BitmapExact` | all |
| `CoherentAlways` | `Coherent`, the inductive invariant | disciplined |
| `SchedulerStaysCoherent` | `SchedulerCoherent` | disciplined |
| `ServedInOrder` | `ServesInOrder`, the refinement of `Dispatcher` | disciplined |
| `NobodyOvertakes` | those ahead of a waiting thread only become fewer | disciplined |
| `WaitQueuesStayCoherent` | `WaitQueueCoherent` | disciplined |
| `TimersStayCoherent` | `TimersCoherent` | disciplined |
| `WorkIsConserved` | `WorkConserving` | disciplined |
| `ReclaimedStayQuiet` | `ReclaimedAreQuiet` | disciplined |
| `NoJoinIsLost` | `NoLostJoin` | disciplined |
| `NodesStayOwned` | `NodeOwnership` | disciplined |
| `ResultStaysStable` | `ResultStable`, an action property | disciplined |
| `RunQueuesStayCoherent`, `QueuedStayReady` | `RunQueueCoherent`, `QueuedAreReady` | disciplined, without `thread_set_priority` |
| `IdsAlwaysValid` | `IdsStayValid` | disciplined, passing ids |

`Disciplined` is a condition on the constants `Calls` and `JoinTimeouts`: nobody
detaches a thread that is being joined, and joins have no timeout. Otherwise a
joiner that is woken too early reclaims the node of a live thread, as the run
join_timeout shows, and nothing in the kernel is safe from then on. Everything
else stays in: `thread_set_priority`, detaching dead threads, ids that are none.
`KeepsPriority` (two theorems) and `PassesIds` (one) exclude exactly the calls for
which the runs set_priority and detach_dead show the claim false. The
parameters of the runs lifecycle, waiting, quantum and progress satisfy `Disciplined`.

`TypeOK` and `BitmapExact` are inductive together, but not each alone:
`get_new_thread` indexes the queues by a bit and takes the head of one, whose
type needs the queue to be non-empty and the bit to be a level; and that the
emptied queue's bit is the one cleared needs queues of the right type.

The other properties are not inductive, alone or together. Whether a thread may be
queued depends on where its code is; whether its node may be freed depends on
who joins it; whether its timer may fire depends on what it waits for; and all of
them are looked at by the properties only while interrupts are on. `Coherent` says
these things at every step, inside the handler and inside the loop of
`wait_queue_wake_all` too, by part:

* `CurrentRuns`, `IdleStays`, `Queued`, `IdleSpins`, `OnlyCurrentRuns`: the current
  thread, and who is in the run queues, each in that of its present priority;
* `PlacesFit`, `WakeFits`, `WaitersFit`, `NodesFit`: which state goes with which
  place in the code; which queue a `wait_queue_wake_all` in progress is about; that
  a joined thread has one joiner, is not detached and keeps its node until that
  joiner is back; where every node is;
* `WaitQueueCoherent`, `TimersListed`, `TimersFit`: the wait queues, the order of
  the timers, and for each thread why it has a timer or none;
* `PreemptLockCounts`.

The argument:

1. `ListLemmas`: what each list operation does to the members of a list, to their
   order and to their being different; no list operation is opened elsewhere.
2. `KernelProofs`: queueing a thread and picking one take well-typed, exact run
   queues to such; `ReschedOK`: so does `thread_resched`; one lemma per group of
   actions; `TypeCorrect` and `BitmapCorrect`.
3. `QueueProofs`: the same steps keep `CpuFits`. `Switch` is about
   `thread_resched` for any caller; `GiveUpCpu`, `YieldCpu`, `WakeCpu`, `StayCpu`
   and so on are the ways an action uses it. The same lemmas show that each
   action is a step of `Dispatcher` or none (`OrderStep`).
4. `StepProofs`: what an action can do to the rest is one of a few kinds: a thread
   walks on from one place to another, stops (blocks, sleeps, ends), is woken, or a
   loop of `wait_queue_wake_all` wakes a first waiter. Each action of the code
   is shown to be of its kind once.
5. `CoherenceProofs`: each kind keeps the remaining parts of `Coherent`
   (`WalksFit`, `BlockFits`, `WakesFit`, `ReclaimFits`, `FireTimer`, ...), then
   `InitCoherent` and `NextCoherent`.
6. `KernelTheorems`: each property from `Coherent`, and the temporal step.

The refinement needs of `Coherent` that the queues hold who waits, each once and
under its present priority, that the bitmap is exact, and that the caller of
`thread_resched` is in no queue except where `wait_queue_wake_all` has put it
there before. `InsertLines` and `PickLines` turn the two queue operations into
`Join`, `First` and `Drop` of `Dispatcher` on the function `Ahead`; from there on
no queue is looked at. A wakeup without a switch is `Wait`; a step in which
`thread_yield` or `thread_preempt` gets the CPU back is a step of `Dispatcher` that
changes nothing. `NobodyOvertakes` then follows from `Dispatcher` alone. It is about
one level: that a busy level before it can keep a thread waiting for ever is
what priorities mean, and that a thread does run in the end when there is one
level is `EveryoneRuns`, which needs fairness.

`ResultStable` is an action property and needs, beside `Coherent`, that each action
that writes `wait_queue_block_ret` finds the thread BLOCKED or current
(`ResultKept`).

### Drivers

For every set of timers and of delays with a longest one, every resolution of the
clock, any number of lines on each controller and every `MaxClock`
(`NodeAssumption` and `TimeAssumption` of `Timer`, `CascadeIsLine` of `Pic`,
`NoVectorAssumption` and `SleepAssumption` of `Devices`) it is proved:

| theorem | says |
|---|---|
| `TimersImplementService` | `Spec => TimersKeepPromise`: the refinement of `TimerService` |
| `PaceIsKept` | always `KeepsPace` |
| `LinesGetThrough` | always `WantedGetThrough` |
| `MessagesStayUncut` | always `MessagesUncut`: until a timer has asked for a reschedule in the middle of a message, the only writer inside `printf` is the running thread and the cursor it has read is still the cursor |
| `CursorKeepsItsRow` | always `RowInWindow`: the row of the cursor, and of each copy a writer has read, is in the window, also when messages cut into each other |

The last two are for any number of writers, any messages and every size of the
window (`WindowIsThere` of `Console`).

The inductive invariant of the first three is `DriversFit`, in three parts that depend
on each other:

* `TimersFit`. `ClockFits`: the next trigger is the end of period `fired + 1` on the
  dot, and the clock is inside that period. `QueueFits`: the nodes form one ring
  whose order is that of time. `StageFits`: `running` is a timer just while its
  callback is due to run or has run, and outside `timer_tick` nothing waits that
  was due when the last period ended, from which the bound on lateness follows.
* `IrqFits`: a handler runs if and only if its line is in service, and no other line
  is: that is what lets a tick begin only outside the last one.
* `MasksFit`: the copies of the masks are true, unmasked lines are open, and the
  cascade line is open while the second controller has an open and a closed line.

The argument for the timers goes from pointers to promises. `Ring(h, n, q)` says that
the nodes of the sequence `q`, and they alone, are linked in both directions;
`AddBeforeRing` and `DeleteRing` show that linking and unlinking a node takes a ring
to the ring of the sequence with it or without it. `FirstLaterIs` shows that the
walk of `insert_timer_in_queue`, a recursive function along `next`, stops at the
first later entry; it needs the function to exist, which it does because the ring
is finite, and goes by the least counterexample, counted from the end. So the queue stays in
order (`InsertQueue`, `DeleteQueue`). From there on only `Due` is spoken of, when
each timer rings or 0, which is `due` of `TimerService`: each operation and each
stage of the loop is a step of `TimersStep`, and each of these one of the service
(`ServiceStep`) or none.

For the writers it is `WritersFit`, beside `DriversFit`: the two properties
themselves; `WritersInside`, by which `thread_preempt_lock` is the number of writers
inside `printf` and nobody else has anything left to write; and `AsksFit`, by which
the result of a handler is set nowhere but in one, and asks for a reschedule with a
writer inside only if a timer did. The cardinality is needed: that the lock is not
0 while someone is inside does not survive a `printf_return` on its own.

TLC has checked the parts of `DriversFit` and of `WritersFit` on the instance of the
run devices, with rings of at most as many nodes as there are timers.

### Only model-checked

* Everything about liveness (`EveryoneRuns`, `JoinReturns`, `SleepEnds`): fairness and
  ENABLED are out of the prover's reach.
* `ScreenShowsEnd` and `PrintfExact`: what the console shows and what digits a number
  has are defined by recursion over sequences and numbers, which would need
  induction over data. Proved of `ScreenShowsEnd` is the part about interleavings,
  `MessagesStayUncut`.
* All properties of kconfig, whose modules define recursive operators over trees and
  sequences, about which the installed provers can say nothing.

## Not modelled

Kernel: `thread_block` and `thread_unblock` (nothing calls them), thread names,
exit codes, stacks and register contents, `register_int_handler`, boot code,
`mmu.c` and the wrappers of instructions; the wrap of the clock. `thread_create` is
only called with priorities in range. `%n`, `libc/string.c` and
`console_display_str` are left out.

Kconfig: `gconf`, `qconf`, `nconf` and the drawing code of `lxdialog`, toolkit
callbacks whose calls into the core are those of `MConf`; the lexer, `util.c` and
the extraction of texts; expansion of strings and the environment in `symbol.c`;
help, search and `single_menu_mode` of `mconf`.

## Plan

1. The column of the cursor in a log without tabs and backspaces: it needs to know what
   characters `FlattenSeq` returns, which no theorem of the library says.
2. The rest of `Disciplined`: which of the properties survive a join with a timeout
   whose thread does not run.
3. The shipped client of `init/main.c` composed with `Kernel`, and the console of
   `Devices` below it, in one instance.
4. `libc/string.c` as functions against reference definitions.
5. Search and help of `mconf`, string expansion and the environment.
