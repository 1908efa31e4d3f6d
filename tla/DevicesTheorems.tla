--------------------------- MODULE DevicesTheorems ---------------------------
(***************************************************************************)
(* Theorems about module Devices, for every set of timers and delays,      *)
(* every resolution of the clock and any number of interrupt lines: the    *)
(* timers keep the promise of module TimerService, timer_tick is called    *)
(* once a period, a line that was unmasked gets through, and for any       *)
(* number of writers and any messages none is cut by a tick.               *)
(***************************************************************************)
EXTENDS Devices, TimerProofs, FiniteSetTheorems

(***************************************************************************)
(* The interrupt controllers                                               *)
(***************************************************************************)

(* A handler runs exactly when a line is in service, and no other is.      *)
IrqFits ==
  /\ in_irq \in Vectors \cup {NULL} /\ (in_irq = NULL <=> stage = "out")
  /\ in_irq = NULL => isr = [c \in 1..2 |-> {}]
  /\ in_irq \in Vectors =>
       isr = IF in_irq[1] = 1 THEN [c \in 1..2 |-> IF c = 1 THEN {in_irq[2]} ELSE {}]
             ELSE [c \in 1..2 |-> IF c = 1 THEN {Cascade} ELSE {in_irq[2]}]

(* The copies are true, what was unmasked is open, and so is the cascade   *)
(* line as long as the second controller has an open and a closed line.    *)
MasksFit ==
  /\ mask \in [1..2 -> SUBSET Lines] /\ irqMask = mask
  /\ wanted \subseteq Vectors /\ \A v \in wanted : v[2] \notin mask[v[1]]
  /\ mask[2] # {} /\ mask[2] # Lines => Cascade \notin mask[1]

LEMMA VectorFacts ==
  /\ NULL \notin Vectors /\ INT_PIT \in Vectors /\ Invalid \notin Vectors
  /\ \A v \in Vectors : /\ v = <<v[1], v[2]>> /\ v[2] \in Lines
                        /\ (v[1] = 1 /\ v[2] # Cascade) \/ v[1] = 2
BY NoVectorAssumption, CascadeIsLine DEF Vectors, Lines, INT_PIT, Invalid

(* A register and its copy are written alike. *)
Both(m) == [mask |-> m, irqMask |-> m]

LEMMA WriteIs ==
  ASSUME NEW m, NEW c, NEW lines
  PROVE  Write(Both(m), c, lines) = Both([m EXCEPT ![c] = lines])
<1> DEFINE new == [m EXCEPT ![c] = lines]
<1>1. Write(Both(m), c, lines) = [i \in {"mask", "irqMask"} |-> new]
  BY DEF Write, Both
<1> HIDE DEF new
<1>2. Both(new) = [i \in {"mask", "irqMask"} |-> new]
  BY DEF Both
<1> QED BY ONLY <1>1, <1>2 DEF new

(* What interrupt_enable writes to the masks. *)
LEMMA EnableIs ==
  ASSUME MasksFit, NEW v \in Vectors \cup {Invalid}, NEW e \in BOOLEAN, interrupt_enable(v, e)
  PROVE  /\ mask' \in [1..2 -> SUBSET Lines] /\ irqMask' = mask' /\ isr' = isr
         /\ mask'[2] # {} /\ mask'[2] # Lines => Cascade \notin mask'[1]
         /\ e /\ v \in Vectors => v[2] \notin mask'[v[1]]
         /\ \A w \in Vectors \ {v} : w[2] \notin mask[w[1]] => w[2] \notin mask'[w[1]]
         /\ e => \A w \in Vectors : w[2] \notin mask[w[1]] => w[2] \notin mask'[w[1]]
<1>1. mask \in [1..2 -> SUBSET Lines] /\ irqMask = mask /\ isr' = isr
  BY DEF MasksFit, interrupt_enable
<1> DEFINE p == Both(mask)
<1>2. /\ \A w \in Vectors : /\ w = <<w[1], w[2]>> /\ w[2] \in Lines
                            /\ (w[1] = 1 /\ w[2] # Cascade) \/ w[1] = 2
      /\ Cascade \in Lines
  BY VectorFacts, CascadeIsLine DEF Lines
<1>3. mask[2] # {} /\ mask[2] # Lines => Cascade \notin mask[1]
  BY DEF MasksFit
<1>4. CASE v \in Vectors /\ v[1] = 1
  <2> DEFINE b == v[2]
             q == First(p, b, e)
  <2>1. mask' = q.mask /\ irqMask' = q.irqMask
    BY <1>1, <1>4 DEF interrupt_enable, Both
  <2>2. PICK m : /\ q = Both(m)
                 /\ \/ e /\ b \in mask[1] /\ m = [mask EXCEPT ![1] = mask[1] \ {b}]
                    \/ ~e /\ b \notin mask[1] /\ m = [mask EXCEPT ![1] = {b}]
                    \/ (e <=> b \notin mask[1]) /\ m = mask
    <3>1. p.mask = mask /\ p.irqMask = mask
      BY DEF Both
    <3>2. CASE e /\ b \in mask[1]
      <4>1. q = Write(p, 1, mask[1] \ {b})
        BY <3>1, <3>2 DEF First, Open
      <4> QED BY <3>2, <4>1, WriteIs
    <3>3. CASE ~e /\ b \notin mask[1]
      <4>1. q = Write(p, 1, {b})
        BY <3>1, <3>3 DEF First
      <4> QED BY <3>3, <4>1, WriteIs
    <3>4. CASE e <=> b \notin mask[1]
      <4>1. q = p
        BY <3>1, <3>4 DEF First
      <4> QED BY <3>4, <4>1
    <3> QED BY <3>2, <3>3, <3>4
  <2>3. mask' = m /\ irqMask' = m
    BY <2>1, <2>2 DEF Both
  <2>4. b \in Lines /\ b # Cascade /\ \A w \in Vectors : w # v /\ w[1] = 1 => w[2] # b
    BY <1>2, <1>4
  <2> HIDE DEF b, q
  <2>5. /\ mask' \in [1..2 -> SUBSET Lines] /\ mask'[2] = mask[2]
        /\ Cascade \notin mask[1] => Cascade \notin mask'[1]
        /\ e => b \notin mask'[1] /\ mask'[1] \subseteq mask[1]
        /\ \A l \in Lines : l # b /\ l \notin mask[1] => l \notin mask'[1]
    BY <1>1, <2>2, <2>3, <2>4
  <2> QED BY <1>1, <1>2, <1>3, <1>4, <2>3, <2>4, <2>5 DEF b
<1>5. CASE v \in Vectors /\ v[1] = 2
  <2> DEFINE b == v[2]
             r == Second(p, b, e)
             q == CascadeFollows(r)
  <2>1. mask' = q.mask /\ irqMask' = q.irqMask
    BY <1>1, <1>5 DEF interrupt_enable, Both
  <2>2. b \in Lines /\ \A w \in Vectors : w # v /\ w[1] = 2 => w[2] # b
    BY <1>2, <1>5
  <2> HIDE DEF b
  <2>3. PICK m : /\ r = Both(m)
                 /\ \/ e /\ b \in mask[2] /\ m = [mask EXCEPT ![2] = mask[2] \ {b}]
                    \/ ~e /\ b \notin mask[2] /\ m = [mask EXCEPT ![2] = mask[2] \cup {b}]
                    \/ (e <=> b \notin mask[2]) /\ m = mask
    <3>1. p.mask = mask /\ p.irqMask = mask
      BY DEF Both
    <3>2. CASE e /\ b \in mask[2]
      <4>1. r = Write(p, 2, mask[2] \ {b})
        BY <3>1, <3>2 DEF Second, Open
      <4> QED BY <3>2, <4>1, WriteIs
    <3>3. CASE ~e /\ b \notin mask[2]
      <4>1. r = Write(p, 2, mask[2] \cup {b})
        BY <3>1, <3>3 DEF Second, Close
      <4> QED BY <3>3, <4>1, WriteIs
    <3>4. CASE e <=> b \notin mask[2]
      <4>1. r = p
        BY <3>1, <3>4 DEF Second
      <4> QED BY <3>4, <4>1
    <3> QED BY <3>2, <3>3, <3>4
  <2>4. /\ m \in [1..2 -> SUBSET Lines] /\ m[1] = mask[1]
        /\ e => b \notin m[2] /\ m[2] \subseteq mask[2]
        /\ \A l \in Lines : l # b /\ l \notin mask[2] => l \notin m[2]
    BY <1>1, <2>2, <2>3
  <2>5. PICK n : /\ q = Both(n)
                 /\ \/ m[2] # Lines /\ Cascade \in m[1] /\ n = [m EXCEPT ![1] = m[1] \ {Cascade}]
                    \/ m[2] = {} /\ n = [m EXCEPT ![1] = m[1] \cup {Cascade}]
                    \/ (m[2] = {} \/ m[2] = Lines \/ Cascade \notin m[1]) /\ n = m
    <3>1. r.mask = m /\ r.irqMask = m
      BY <2>3 DEF Both
    <3> HIDE DEF r
    <3>2. CASE m[2] # Lines /\ Cascade \in m[1]
      <4>1. q = Write(r, 1, m[1] \ {Cascade})
        BY <3>1, <3>2 DEF CascadeFollows, Open
      <4> QED BY <2>3, <3>2, <4>1, WriteIs
    <3>3. CASE ~(m[2] # Lines /\ Cascade \in m[1]) /\ m[2] = {} /\ Cascade \notin m[1]
      <4>1. q = Write(r, 1, m[1] \cup {Cascade})
        BY <3>1, <3>3 DEF CascadeFollows, Close
      <4> QED BY <2>3, <3>3, <4>1, WriteIs
    <3>4. CASE ~(m[2] # Lines /\ Cascade \in m[1]) /\ ~(m[2] = {} /\ Cascade \notin m[1])
      <4>1. q = r
        BY <3>1, <3>4 DEF CascadeFollows
      <4> QED BY <2>3, <3>4, <4>1
    <3> QED BY <3>2, <3>3, <3>4
  <2>6. mask' = n /\ irqMask' = n
    BY <2>1, <2>5 DEF Both
  <2> HIDE DEF q, r
  <2>7. /\ mask' \in [1..2 -> SUBSET Lines] /\ mask'[2] = m[2]
        /\ \A l \in Lines : l # Cascade /\ l \notin m[1] => l \notin mask'[1]
        /\ m[2] # {} /\ m[2] # Lines => Cascade \notin mask'[1]
    BY <1>2, <2>4, <2>5, <2>6
  <2> QED BY <1>1, <1>2, <1>5, <2>2, <2>4, <2>6, <2>7 DEF b
<1>6. CASE v = Invalid
  <2>1. mask' = mask /\ irqMask' = irqMask
    BY <1>6 DEF interrupt_enable, Invalid
  <2> QED BY <1>1, <1>3, <1>6, <2>1, VectorFacts
<1> QED BY <1>2, <1>4, <1>5, <1>6

(* The handler of a vector begins, and ends what it began. *)
LEMMA InServiceIs ==
  ASSUME NEW v \in Vectors, isr = [c \in 1..2 |-> {}]
  PROVE  InService(v) = IF v[1] = 1 THEN [c \in 1..2 |-> IF c = 1 THEN {v[2]} ELSE {}]
                        ELSE [c \in 1..2 |-> IF c = 1 THEN {Cascade} ELSE {v[2]}]
<1>1. 1 \in 1..2 /\ 2 \in 1..2 /\ isr[1] = {} /\ isr[2] = {} /\ DOMAIN isr = 1..2
  OBVIOUS
<1>2. CASE v[1] = 1
  BY <1>1, <1>2 DEF InService
<1>3. CASE v[1] # 1
  <2> DEFINE a == isr[1] \cup {Cascade}
             b == isr[2] \cup {v[2]}
  <2>1. InService(v) = [isr EXCEPT ![1] = a, ![2] = b]
    BY <1>3 DEF InService
  <2>2. a = {Cascade} /\ b = {v[2]}
    BY <1>1
  <2> HIDE DEF a, b
  <2>3. [isr EXCEPT ![1] = a, ![2] = b] = [c \in 1..2 |-> IF c = 1 THEN a ELSE b]
    BY <1>1
  <2> QED BY ONLY <1>3, <2>1, <2>2, <2>3
<1> QED BY <1>2, <1>3

LEMMA EoiIs ==
  ASSUME NEW v \in Vectors, issue_eoi(v),
         isr = IF v[1] = 1 THEN [c \in 1..2 |-> IF c = 1 THEN {v[2]} ELSE {}]
               ELSE [c \in 1..2 |-> IF c = 1 THEN {Cascade} ELSE {v[2]}]
  PROVE  isr' = [c \in 1..2 |-> {}]
<1>1. v[2] \in Nat /\ Cascade \in Nat
  BY VectorFacts, CascadeIsLine DEF Lines
<1>2. \A l \in Nat : Ended({l}) = {}
  BY DEF Ended
<1>3. Ended({}) = {}
  BY DEF Ended
<1>4. CASE v[1] = 1
  BY <1>1, <1>2, <1>4 DEF issue_eoi
<1>5. CASE v[1] # 1
  <2>1. isr' = [c \in 1..2 |-> Ended(isr[c])]
    BY <1>5 DEF issue_eoi
  <2>2. isr[1] = {Cascade} /\ isr[2] = {v[2]}
    BY <1>5
  <2> QED BY <1>1, <1>2, <2>1, <2>2
<1> QED BY <1>4, <1>5

-----------------------------------------------------------------------------
(***************************************************************************)
(* The steps                                                               *)
(***************************************************************************)

(* What a step may do to the timers, seen from outside, ... *)
TimersStep ==
  \/ UNCHANGED <<Due, running, now>>
  \/ /\ UNCHANGED <<running, now>> /\ \E t \in Timers : Sets(t) \/ Clears(t)
  \/ /\ now' = now /\ running = NULL /\ running' \in Timers /\ Clears(running')
     /\ Due[running'] # 0 /\ Due[running'] <= now
     /\ \A u \in Timers : Due[u] # 0 => Due[running'] <= Due[u]
  \/ /\ now' = now /\ running \in Timers /\ running' = NULL /\ (Due' = Due \/ Sets(running))
  \/ /\ running = NULL /\ UNCHANGED <<Due, running>> /\ now' > now
     /\ \A t \in Timers : Due[t] # 0 => now' - Due[t] <= Lateness

(* ... and to the interrupt controllers. *)
IrqSame == UNCHANGED <<mask, isr, irqMask, in_irq, wanted>>

LEMMA IrqStays ==
  ASSUME IrqFits, MasksFit, IrqSame, stage # "out", stage' # "out"
  PROVE  IrqFits' /\ MasksFit'
BY DEF IrqFits, MasksFit, IrqSame

LEMMA AllStays ==
  ASSUME TimersFit, IrqFits, MasksFit, IrqSame, UNCHANGED timerVars
  PROVE  TimersFit' /\ IrqFits' /\ MasksFit' /\ TimersStep
<1>1. /\ UNCHANGED <<heap, timer, timer_current_time, next_trigger_time, fired, running>>
      /\ stage' = stage
  BY DEF timerVars, clockVars, tickVars
<1>2. TimersFit' /\ UNCHANGED <<now, Due, running>>
  BY ONLY <1>1, TimersFit, OtherFits
<1>3. IrqFits' /\ MasksFit'
  BY <1>1 DEF IrqFits, MasksFit, IrqSame
<1> QED BY <1>2, <1>3 DEF TimersStep

LEMMA InitFits ==
  ASSUME Init
  PROVE  TimersFit /\ IrqFits /\ MasksFit
<1>1. TimersFit
  BY TimersInit DEF Init
<1>2. IrqFits
  BY NoVectorAssumption DEF Init, TimerInit, IrqFits
<1>3. MasksFit
  BY VectorFacts DEF Init, MasksFit, INT_PIT
<1> QED BY <1>1, <1>2, <1>3

LEMMA ThreadsFit ==
  ASSUME TimersFit, IrqFits, MasksFit, TimerCalls \/ Sleep
  PROVE  TimersFit' /\ IrqFits' /\ MasksFit' /\ TimersStep
<1>1. IrqSame /\ UNCHANGED <<clockVars, tickVars>>
  BY DEF TimerCalls, Sleep, IrqSame, picVars
<1>2. TimersFit' /\ \E t \in Timers : Sets(t) \/ Clears(t)
  <2>1. CASE TimerCalls
    <3>1. TimerCall(Timers) /\ Timers \in SUBSET Timers
      BY <2>1 DEF TimerCalls
    <3> QED BY ONLY <1>1, <3>1, TimersFit, CallFits
  <2>2. CASE Sleep
    <3>1. PICK t \in Sleepers : timer_cancel(t) \/ \E ms \in Sleeps : timer_set_oneshot(t, ms)
      BY <2>2 DEF Sleep
    <3>2. TimerCall(Timers) /\ Timers \in SUBSET Timers
      BY <3>1, SleepAssumption DEF TimerCall
    <3> QED BY ONLY <1>1, <3>2, TimersFit, CallFits
  <2> QED BY <2>1, <2>2
<1>3. UNCHANGED <<stage, running, now>>
  BY <1>1 DEF clockVars, tickVars, now, current_time
<1>4. IrqFits' /\ MasksFit'
  BY <1>1, <1>3 DEF IrqFits, MasksFit, IrqSame
<1> QED BY <1>2, <1>3, <1>4 DEF TimersStep

LEMMA LinesFit ==
  ASSUME TimersFit, IrqFits, MasksFit, LineCalls
  PROVE  TimersFit' /\ IrqFits' /\ MasksFit' /\ TimersStep
<1>1. /\ UNCHANGED <<heap, timer, timer_current_time, next_trigger_time, fired, running>>
      /\ stage' = stage /\ in_irq' = in_irq
  BY DEF LineCalls, timerVars, clockVars, tickVars
<1>2. TimersFit' /\ UNCHANGED <<now, Due, running>>
  BY ONLY <1>1, TimersFit, OtherFits
<1>3. wanted \subseteq Vectors /\ \A v \in wanted : v[2] \notin mask[v[1]]
  BY DEF MasksFit
<1>4. isr' = isr /\ MasksFit'
  <2>1. ASSUME NEW v \in Vectors \cup {Invalid}, mask_interrupt(v), wanted' = wanted \ {v}
        PROVE  isr' = isr /\ MasksFit'
    <3>1. interrupt_enable(v, FALSE)
      BY <2>1 DEF mask_interrupt
    <3>2. /\ mask' \in [1..2 -> SUBSET Lines] /\ irqMask' = mask' /\ isr' = isr
          /\ mask'[2] # {} /\ mask'[2] # Lines => Cascade \notin mask'[1]
          /\ \A w \in Vectors \ {v} : w[2] \notin mask[w[1]] => w[2] \notin mask'[w[1]]
      BY ONLY <2>1, <3>1, MasksFit, EnableIs
    <3> QED BY <1>3, <2>1, <3>2 DEF MasksFit
  <2>2. ASSUME NEW v \in Vectors \cup {Invalid}, unmask_interrupt(v),
               wanted' = wanted \cup ({v} \ {Invalid})
        PROVE  isr' = isr /\ MasksFit'
    <3>1. interrupt_enable(v, TRUE)
      BY <2>2 DEF unmask_interrupt
    <3>2. /\ mask' \in [1..2 -> SUBSET Lines] /\ irqMask' = mask' /\ isr' = isr
          /\ mask'[2] # {} /\ mask'[2] # Lines => Cascade \notin mask'[1]
          /\ v \in Vectors => v[2] \notin mask'[v[1]]
          /\ \A w \in Vectors : w[2] \notin mask[w[1]] => w[2] \notin mask'[w[1]]
      BY ONLY <2>2, <3>1, MasksFit, EnableIs
    <3> QED BY <1>3, <2>2, <3>2 DEF MasksFit
  <2>3. CASE mask_all_interrupt /\ wanted' = {}
    BY <2>3 DEF mask_all_interrupt, MasksFit
  <2> QED BY <2>1, <2>2, <2>3 DEF LineCalls
<1>5. IrqFits'
  BY <1>1, <1>4 DEF IrqFits
<1> QED BY <1>2, <1>4, <1>5 DEF TimersStep

LEMMA InterruptFits ==
  ASSUME TimersFit, IrqFits, MasksFit, NEW v \in Vectors, Interrupt(v)
  PROVE  TimersFit' /\ IrqFits' /\ MasksFit' /\ TimersStep
<1>1. in_irq = NULL /\ in_irq' = v /\ isr' = InService(v) /\ UNCHANGED <<mask, irqMask, wanted>>
  BY DEF Interrupt
<1>2. stage = "out" /\ isr = [c \in 1..2 |-> {}]
  BY <1>1 DEF IrqFits
<1>3. MasksFit'
  BY <1>1 DEF MasksFit
<1>4. stage' # "out" /\ TimersFit' /\ TimersStep
  <2>1. CASE v = INT_PIT
    <3>1. os_timer_tick
      BY <2>1 DEF Interrupt
    <3>2. stage' # "out"
      BY <3>1 DEF os_timer_tick
    <3>3. /\ TimersFit' /\ running = NULL /\ UNCHANGED <<Due, running>> /\ now' > now
          /\ \A t \in Timers : Due[t] # 0 => now' - Due[t] <= Lateness
      BY ONLY <3>1, TimersFit, TickFits
    <3> QED BY <3>2, <3>3 DEF TimersStep
  <2>2. CASE v # INT_PIT
    <3>1. /\ UNCHANGED <<heap, timer, timer_current_time, next_trigger_time, fired, running>>
          /\ stage' = "done"
      BY <2>2 DEF Interrupt, clockVars
    <3>2. TimersFit' /\ UNCHANGED <<now, Due, running>>
      BY ONLY <1>2, <3>1, TimersFit, OtherFits
    <3> QED BY <3>1, <3>2 DEF TimersStep
  <2> QED BY <2>1, <2>2
<1>5. IrqFits'
  <2>1. in_irq' \in Vectors /\ in_irq' # NULL
    BY <1>1, VectorFacts
  <2>2. isr' = IF in_irq'[1] = 1 THEN [c \in 1..2 |-> IF c = 1 THEN {in_irq'[2]} ELSE {}]
               ELSE [c \in 1..2 |-> IF c = 1 THEN {Cascade} ELSE {in_irq'[2]}]
    BY <1>1, <1>2, InServiceIs
  <2> QED BY <1>4, <2>1, <2>2 DEF IrqFits
<1> QED BY <1>3, <1>4, <1>5

LEMMA TickRunsFits ==
  ASSUME TimersFit, IrqFits, MasksFit, TimerTick
  PROVE  TimersFit' /\ IrqFits' /\ MasksFit' /\ TimersStep
<1>1. IrqSame
  BY DEF TimerTick, IrqSame, picVars
<1>2. CASE timer_tick_take
  <2>1. stage # "out" /\ stage' # "out"
    BY <1>2 DEF timer_tick_take
  <2>2. /\ TimersFit' /\ now' = now /\ running = NULL
        /\ running' \in Timers /\ Clears(running')
        /\ Due[running'] # 0 /\ Due[running'] <= now
        /\ \A u \in Timers : Due[u] # 0 => Due[running'] <= Due[u]
    BY ONLY <1>2, TimersFit, TakeFits
  <2>3. TimersStep
    BY ONLY <2>2 DEF TimersStep
  <2> QED BY <1>1, <2>1, <2>2, <2>3, IrqStays
<1>3. CASE timer_tick_again
  <2>1. stage # "out" /\ stage' # "out"
    BY <1>3 DEF timer_tick_again
  <2>2. /\ TimersFit' /\ now' = now /\ running \in Timers /\ running' = NULL
        /\ Due' = Due \/ Sets(running)
    BY ONLY <1>3, TimersFit, AgainFits
  <2>3. TimersStep
    BY ONLY <2>2 DEF TimersStep
  <2> QED BY <1>1, <2>1, <2>2, <2>3, IrqStays
<1>4. ASSUME NEW r \in thread_timer_tick, timer_tick_end(r)
      PROVE  TimersFit' /\ IrqFits' /\ MasksFit' /\ TimersStep
  <2>1. stage # "out" /\ stage' # "out"
    BY <1>4 DEF timer_tick_end
  <2>2. TimersFit' /\ UNCHANGED <<now, Due, running>>
    BY ONLY <1>4, TimersFit, EndFits
  <2>3. TimersStep
    BY ONLY <2>2 DEF TimersStep
  <2> QED BY <1>1, <2>1, <2>2, <2>3, IrqStays
<1>5. ASSUME NEW S \in SUBSET Timers, callback(S)
      PROVE  TimersFit' /\ IrqFits' /\ MasksFit' /\ TimersStep
  <2>1. stage # "out" /\ stage' # "out"
    BY <1>5 DEF callback
  <2>2. /\ TimersFit' /\ UNCHANGED <<now, running>>
        /\ Due' = Due \/ \E t \in Timers : Sets(t) \/ Clears(t)
    BY ONLY <1>5, TimersFit, CallbackFits
  <2>3. TimersStep
    BY ONLY <2>2 DEF TimersStep
  <2> QED BY <1>1, <2>1, <2>2, <2>3, IrqStays
<1> QED BY <1>2, <1>3, <1>4, <1>5 DEF TimerTick

LEMMA ReturnFits ==
  ASSUME TimersFit, IrqFits, MasksFit, InterruptReturn
  PROVE  TimersFit' /\ IrqFits' /\ MasksFit' /\ TimersStep
<1>1. /\ stage = "done" /\ in_irq # NULL /\ issue_eoi(in_irq) /\ in_irq' = NULL /\ stage' = "out"
      /\ UNCHANGED <<heap, timer, timer_current_time, next_trigger_time, fired, running>>
      /\ UNCHANGED <<mask, irqMask, wanted>>
  BY DEF InterruptReturn, clockVars
<1>2. TimersFit' /\ UNCHANGED <<now, Due, running>>
  BY ONLY <1>1, TimersFit, OtherFits
<1>3. MasksFit'
  BY <1>1 DEF MasksFit
<1>4. IrqFits'
  <2>1. /\ in_irq \in Vectors
        /\ isr = IF in_irq[1] = 1 THEN [c \in 1..2 |-> IF c = 1 THEN {in_irq[2]} ELSE {}]
                 ELSE [c \in 1..2 |-> IF c = 1 THEN {Cascade} ELSE {in_irq[2]}]
    BY <1>1 DEF IrqFits
  <2>2. isr' = [c \in 1..2 |-> {}]
    BY ONLY <1>1, <2>1, EoiIs
  <2> QED BY <1>1, <2>2, VectorFacts DEF IrqFits
<1> QED BY <1>2, <1>3, <1>4 DEF TimersStep

DriversFit == TimersFit /\ IrqFits /\ MasksFit

LEMMA StepFits ==
  ASSUME DriversFit, [Next]_vars
  PROVE  DriversFit' /\ TimersStep
<1>1. TimersFit /\ IrqFits /\ MasksFit
  BY DEF DriversFit
<1> SUFFICES TimersFit' /\ IrqFits' /\ MasksFit' /\ TimersStep
  BY DEF DriversFit
<1>2. CASE \/ FormatItem \/ (\E m \in Messages : printf(m))
           \/ console_putc_read \/ console_putc_write \/ printf_return \/ UNCHANGED vars
  <2>1. IrqSame /\ UNCHANGED timerVars
    BY <1>2 DEF FormatItem, printf, console_putc_read, console_putc_write, printf_return, vars,
                IrqSame, picVars
  <2> QED BY <1>1, <2>1, AllStays
<1>3. CASE TimerCalls \/ Sleep
  BY <1>1, <1>3, ThreadsFit
<1>4. CASE LineCalls
  BY <1>1, <1>4, LinesFit
<1>5. CASE \E v \in Vectors : Interrupt(v)
  BY <1>1, <1>5, InterruptFits
<1>6. CASE TimerTick
  BY <1>1, <1>6, TickRunsFits
<1>7. CASE InterruptReturn
  BY <1>1, <1>7, ReturnFits
<1> QED BY <1>2, <1>3, <1>4, <1>5, <1>6, <1>7 DEF Next

LEMMA DriversAlwaysFit == Spec => []DriversFit
<1>1. Init => DriversFit
  BY InitFits DEF DriversFit
<1>2. DriversFit /\ [Next]_vars => DriversFit'
  BY StepFits
<1> QED BY <1>1, <1>2, PTL DEF Spec

-----------------------------------------------------------------------------
(***************************************************************************)
(* The theorems                                                            *)
(***************************************************************************)

(* timer_tick is called once a period, at most one tick late, and the      *)
(* lateness does not add up (platform_timer.c:58-61).                      *)
THEOREM PaceIsKept == Spec => []KeepsPace
<1>1. DriversFit => KeepsPace
  <2> SUFFICES ASSUME DriversFit PROVE KeepsPace
    OBVIOUS
  <2>1. /\ timer_current_time \in Nat /\ fired \in Nat /\ fired * next_trigger_delta <= timer_current_time
        /\ timer_current_time < (fired + 1) * next_trigger_delta
    BY DEF DriversFit, TimersFit, ClockFits
  <2>2. timer_delta_time \in Nat /\ (fired + 1) * next_trigger_delta \in Nat
    BY <2>1, DeltaFits, PeriodIs, TimeAssumption DEF next_trigger_delta
  <2> HIDE DEF timer_delta_time, next_trigger_delta
  <2> QED BY <2>1, <2>2 DEF KeepsPace
<1> QED BY <1>1, DriversAlwaysFit, PTL

(* While nothing is handled, a line that was unmasked, and not masked      *)
(* since, gets through to the CPU (interrupt.c:89-116).                    *)
THEOREM LinesGetThrough == Spec => []WantedGetThrough
<1>1. DriversFit => WantedGetThrough
  <2> SUFFICES ASSUME DriversFit, in_irq = NULL, NEW v \in wanted
               PROVE  Deliverable(v) \/ (v[1] = 2 /\ mask[2] = {})
    BY DEF WantedGetThrough
  <2>1. /\ isr[1] = {} /\ isr[2] = {} /\ v \in Vectors /\ v[2] \notin mask[v[1]]
        /\ mask[2] # {} /\ mask[2] # Lines => Cascade \notin mask[1]
    BY DEF DriversFit, IrqFits, MasksFit
  <2>2. v[2] \in Lines /\ (v[1] = 1 \/ v[1] = 2)
    BY <2>1, VectorFacts
  <2> QED BY <2>1, <2>2 DEF Deliverable, Passes
<1> QED BY <1>1, DriversAlwaysFit, PTL

(* The longest delay. *)
LEMMA WaitsFit == \A k \in Waits : k \in 1 .. Max(Delays \cup {1})
<1> DEFINE S == Delays \cup {1}
<1>1. S \subseteq Nat /\ \E m \in S : \A k \in S : m >= k
  <2>1. PICK d \in Delays : \A e \in Delays : e <= d
    BY TimeAssumption
  <2>2. Delays \subseteq Nat
    BY TimeAssumption
  <2>3. CASE d >= 1
    BY <2>1, <2>2, <2>3
  <2>4. CASE ~(d >= 1)
    <3>1. \A k \in S : 1 >= k
      BY <2>1, <2>2, <2>4
    <3> QED BY <2>2, <3>1
  <2> QED BY <2>3, <2>4
<1>2. Max(S) \in S /\ \A k \in S : Max(S) >= k
  <2> HIDE DEF S
  <2> QED BY <1>1 DEF Max
<1> QED BY <1>1, <1>2 DEF Waits

(* What a step does to the timers is a step of TimerService, or none. *)
LEMMA ServiceStep ==
  ASSUME TimersStep
  PROVE  Service!Next \/ UNCHANGED <<Due, running, now>>
<1>1. CASE UNCHANGED <<running, now>> /\ \E t \in Timers : Sets(t) \/ Clears(t)
  <2>1. PICK t \in Timers : Sets(t) \/ Clears(t)
    BY <1>1
  <2>2. CASE Sets(t)
    <3>1. Service!Arm(t)
      BY <1>1, <2>2, WaitsFit DEF Service!Arm, Service!Armed, Service!Armings, Sets, Due
    <3> QED BY <3>1 DEF Service!Next
  <2>3. CASE Clears(t) /\ Due[t] # 0
    <3>1. Service!Disarm(t)
      BY <1>1, <2>3 DEF Service!Disarm, Service!Armed, Clears, Due
    <3> QED BY <3>1 DEF Service!Next
  <2>4. CASE Clears(t) /\ Due[t] = 0
    BY <1>1, <2>4 DEF Clears, Due
  <2> QED BY <2>1, <2>2, <2>3, <2>4
<1>2. CASE /\ now' = now /\ running = NULL /\ running' \in Timers /\ Clears(running')
           /\ Due[running'] # 0 /\ Due[running'] <= now
           /\ \A u \in Timers : Due[u] # 0 => Due[running'] <= Due[u]
  <2>1. PICK t \in Timers : t = running'
    BY <1>2
  <2>2. Service!Ring(t)
    BY <1>2, <2>1 DEF Service!Ring, Service!Armed, Clears, Due
  <2> QED BY <2>2 DEF Service!Next
<1>3. CASE /\ now' = now /\ running \in Timers /\ running' = NULL
           /\ Due' = Due \/ Sets(running)
  <2>1. PICK t \in Timers : t = running
    BY <1>3
  <2>2. Service!Stop(t)
    BY <1>3, <2>1, WaitsFit DEF Service!Stop, Service!Armed, Service!Armings, Sets, Due
  <2> QED BY <2>2 DEF Service!Next
<1>4. CASE /\ running = NULL /\ UNCHANGED <<Due, running>> /\ now' > now
           /\ \A t \in Timers : Due[t] # 0 => now' - Due[t] <= Lateness
  <2>1. Service!Advance
    BY <1>4 DEF Service!Advance, Service!Armed, Lateness, Due
  <2> QED BY <2>1 DEF Service!Next
<1> QED BY <1>1, <1>2, <1>3, <1>4 DEF TimersStep

(* The linked queue, its ordered insertion and the loop that calls back    *)
(* into it implement the timers of TimerService (timer.c:104-123).         *)
THEOREM TimersImplementService == Spec => TimersKeepPromise
<1>1. Init => Service!Init
  <2> SUFFICES ASSUME Init PROVE Service!Init
    OBVIOUS
  <2>1. Due = [t \in Timers |-> 0] /\ running = NULL /\ now = 0
    BY TimersInit DEF Init
  <2> QED BY <2>1 DEF Service!Init, Due
<1>2. DriversFit /\ [Next]_vars => [Service!Next]_<<Due, running, now>>
  BY StepFits, ServiceStep
<1> QED BY <1>1, <1>2, DriversAlwaysFit, PTL DEF Spec, TimersKeepPromise, Service!Spec, Due

-----------------------------------------------------------------------------
(***************************************************************************)
(* The writers                                                             *)
(***************************************************************************)

(* Until a timer has asked for a reschedule in the middle of a message,    *)
(* the one writer inside printf is the running thread, and the cursor it   *)
(* has read is the cursor still: no other thread's character comes between *)
(* two of a message, or between the two halves of console_putc.            *)
MessagesUncut ==
  ~woken => /\ inside \subseteq {current_thread}
            /\ \A w \in Writers : cursor[w] # NULL => w \in inside /\ cursor[w] = cs

(* The row of the cursor, and of every copy a writer has, is one of the    *)
(* window: console_putc scrolls instead of leaving it at the bottom.       *)
RowInWindow ==
  cs.y \in 0 .. y2 /\ \A w \in Writers : cursor[w] # NULL => cursor[w].y \in 0 .. y2

(* Writing goes on inside printf only, and thread_preempt_lock counts the  *)
(* writers inside.                                                         *)
WritersInside ==
  /\ inside \subseteq Writers /\ IsFiniteSet(inside) /\ thread_preempt_lock = Cardinality(inside)
  /\ current_thread \in Writers /\ cursor = [w \in Writers |-> cursor[w]]
  /\ output = [w \in Writers |-> output[w]]
  /\ \A w \in Writers : /\ output[w] # << >> => w \in inside
                        /\ cursor[w] # NULL => output[w] # << >>

(* Only the handler asks for a reschedule, and while a writer is inside    *)
(* printf only a timer that is to be blamed for it.                        *)
AsksFit ==
  /\ in_irq = NULL => ret = "INT_NO_RESCHEDULE"
  /\ ret = "INT_RESCHEDULE" /\ inside # {} => woken

WritersFit == MessagesUncut /\ RowInWindow /\ WritersInside /\ AsksFit

LEMMA WindowFits == y2 \in Nat /\ 0 \in 0 .. y2
BY WindowIsThere DEF y2

(* What console_putc does to a cursor in the window leaves it in a row of  *)
(* the window.                                                             *)
LEMMA PutcKeepsRow ==
  ASSUME NEW b, NEW c, NEW x, NEW y \in 0 .. y2
  PROVE  console_putc(b, c, x, y).y \in 0 .. y2
<1>1. \A d, u : NewLine(d, u, y).y \in 0 .. y2
  BY WindowFits DEF NewLine
<1> QED BY <1>1 DEF console_putc

LEMMA WritersInit ==
  ASSUME Init
  PROVE  WritersFit
<1>1. inside = {} /\ cs = [x |-> 0, y |-> 0] /\ ret = "INT_NO_RESCHEDULE"
      /\ output = [w \in Writers |-> << >>] /\ cursor = [w \in Writers |-> NULL]
      /\ current_thread \in Writers /\ thread_preempt_lock = 0
  BY DEF Init, console_init, TimerInit
<1>2. WritersInside
  BY <1>1, FS_EmptySet DEF WritersInside
<1> QED BY <1>1, <1>2, WindowFits DEF WritersFit, MessagesUncut, RowInWindow, AsksFit

(* A step that neither prints nor switches threads, and asks for no        *)
(* reschedule.                                                             *)
LEMMA WritersStay ==
  ASSUME WritersFit, UNCHANGED <<consoleVars, threadVars, woken>>,
         ret' = "INT_NO_RESCHEDULE" \/ UNCHANGED <<ret, in_irq>>
  PROVE  WritersFit'
<1>1. UNCHANGED <<cs, current_thread, thread_preempt_lock, output, cursor, inside, woken>>
  BY DEF consoleVars, threadVars
<1>2. MessagesUncut' /\ RowInWindow' /\ WritersInside'
  BY ONLY <1>1, WritersFit DEF WritersFit, MessagesUncut, RowInWindow, WritersInside
<1>3. AsksFit'
  BY <1>1 DEF WritersFit, AsksFit
<1> QED BY <1>2, <1>3 DEF WritersFit

LEMMA PrintfWrites ==
  ASSUME WritersFit, NEW m \in Messages, printf(m)
  PROVE  WritersFit'
<1> DEFINE w == current_thread
<1>1. /\ w \notin inside /\ inside' = inside \cup {w}
      /\ thread_preempt_lock' = thread_preempt_lock + 1
      /\ UNCHANGED <<cs, current_thread, cursor, ret, in_irq, woken>>
      /\ in_irq = NULL
  BY DEF printf, consoleVars, timerVars, tickVars, Thread
<1>2. PICK text : output' = [output EXCEPT ![w] = text]
  BY DEF printf
<1>3. WritersInside'
  <2>1. IsFiniteSet(inside') /\ thread_preempt_lock' = Cardinality(inside')
    BY <1>1, FS_AddElement DEF WritersFit, WritersInside
  <2>2. /\ inside' \subseteq Writers /\ current_thread' \in Writers
        /\ cursor' = [v \in Writers |-> cursor'[v]] /\ output' = [v \in Writers |-> output'[v]]
    BY <1>1, <1>2 DEF WritersFit, WritersInside
  <2>3. ASSUME NEW v \in Writers
        PROVE  /\ output'[v] # << >> => v \in inside'
               /\ cursor'[v] # NULL => output'[v] # << >>
    <3>1. cursor[w] = NULL
      BY <1>1 DEF WritersFit, WritersInside
    <3>2. CASE v = w
      BY <1>1, <3>1, <3>2
    <3>3. CASE v # w
      <4>1. output'[v] = output[v]
        BY <1>2, <3>3 DEF WritersFit, WritersInside
      <4> QED BY <1>1, <4>1 DEF WritersFit, WritersInside
    <3> QED BY <3>2, <3>3
  <2> QED BY <2>1, <2>2, <2>3 DEF WritersInside
<1>4. MessagesUncut' /\ RowInWindow' /\ AsksFit'
  BY <1>1 DEF WritersFit, MessagesUncut, RowInWindow, AsksFit
<1> QED BY <1>3, <1>4 DEF WritersFit

LEMMA ReadWrites ==
  ASSUME WritersFit, console_putc_read
  PROVE  WritersFit'
<1> DEFINE w == current_thread
<1>1. /\ output[w] # << >> /\ cursor' = [cursor EXCEPT ![w] = cs] /\ w \in Writers
      /\ UNCHANGED <<cs, current_thread, thread_preempt_lock, output, inside, ret, in_irq, woken>>
  BY DEF console_putc_read, consoleVars, timerVars, tickVars, WritersFit, WritersInside
<1>2. cursor'[w] = cs /\ \A v \in Writers : v # w => cursor'[v] = cursor[v]
  BY <1>1 DEF WritersFit, WritersInside
<1>3. WritersInside'
  BY <1>1, <1>2 DEF WritersFit, WritersInside
<1>4. MessagesUncut'
  BY <1>1, <1>2 DEF WritersFit, MessagesUncut, WritersInside
<1>5. RowInWindow'
  BY <1>1, <1>2 DEF WritersFit, RowInWindow
<1>6. AsksFit'
  BY <1>1 DEF WritersFit, AsksFit
<1> QED BY <1>3, <1>4, <1>5, <1>6 DEF WritersFit

LEMMA WriteWrites ==
  ASSUME WritersFit, console_putc_write
  PROVE  WritersFit'
<1> DEFINE w == current_thread
<1>1. /\ cursor[w] # NULL /\ cursor' = [cursor EXCEPT ![w] = NULL] /\ w \in Writers
      /\ output' = [output EXCEPT ![w] = Tail(@)]
      /\ UNCHANGED <<current_thread, thread_preempt_lock, inside, ret, in_irq, woken>>
  BY DEF console_putc_write, timerVars, tickVars, WritersFit, WritersInside
<1>2. PICK c : \E r \in {console_putc(fb, c[1], cursor[w].x, cursor[w].y)} :
                  cs' = [x |-> r.x, y |-> r.y]
  BY Zenon DEF console_putc_write
<1>3. cursor'[w] = NULL /\ \A v \in Writers : v # w => cursor'[v] = cursor[v] /\ output'[v] = output[v]
  BY <1>1 DEF WritersFit, WritersInside
<1>4. cs'.y \in 0 .. y2
  <2>1. cursor[w].y \in 0 .. y2
    BY <1>1 DEF WritersFit, RowInWindow
  <2>2. cs'.y = console_putc(fb, c[1], cursor[w].x, cursor[w].y).y
    BY <1>2
  <2> QED BY ONLY <2>1, <2>2, PutcKeepsRow
<1>5. WritersInside'
  <2>1. w \in inside
    BY <1>1 DEF WritersFit, WritersInside
  <2>2. ASSUME NEW v \in Writers
        PROVE  /\ output'[v] # << >> => v \in inside'
               /\ cursor'[v] # NULL => output'[v] # << >>
    BY <1>1, <1>3, <2>1 DEF WritersFit, WritersInside
  <2> QED BY <1>1, <2>2 DEF WritersFit, WritersInside
<1>6. MessagesUncut'
  BY <1>1, <1>3 DEF WritersFit, MessagesUncut
<1>7. RowInWindow'
  BY <1>3, <1>4 DEF WritersFit, RowInWindow
<1>8. AsksFit'
  BY <1>1 DEF WritersFit, AsksFit
<1> QED BY <1>5, <1>6, <1>7, <1>8 DEF WritersFit

LEMMA ReturnWrites ==
  ASSUME WritersFit, printf_return
  PROVE  WritersFit'
<1> DEFINE w == current_thread
<1>1. /\ w \in inside /\ output[w] = << >> /\ inside' = inside \ {w}
      /\ thread_preempt_lock' = IF thread_preempt_lock > 0 THEN thread_preempt_lock - 1 ELSE 0
      /\ UNCHANGED <<cs, current_thread, output, cursor, ret, in_irq, woken>>
  BY DEF printf_return, consoleVars, timerVars, tickVars
<1>2. w \in Writers /\ cursor[w] = NULL
  BY <1>1 DEF WritersFit, WritersInside
<1>3. WritersInside'
  <2>1. IsFiniteSet(inside') /\ Cardinality(inside') = Cardinality(inside) - 1
    BY <1>1, FS_RemoveElement DEF WritersFit, WritersInside
  <2>2. Cardinality(inside) \in Nat /\ Cardinality(inside) # 0
    BY <1>1, FS_EmptySet, FS_CardinalityType DEF WritersFit, WritersInside
  <2>3. thread_preempt_lock' = Cardinality(inside')
    BY <1>1, <2>1, <2>2 DEF WritersFit, WritersInside
  <2> QED BY <1>1, <2>1, <2>3 DEF WritersFit, WritersInside
<1>4. MessagesUncut' /\ RowInWindow' /\ AsksFit'
  BY <1>1, <1>2 DEF WritersFit, MessagesUncut, RowInWindow, AsksFit
<1> QED BY <1>3, <1>4 DEF WritersFit

(* The lock is taken when a writer is inside, so that the quantum switches *)
(* nobody then.                                                            *)
LEMMA LockMeansInside ==
  ASSUME WritersInside
  PROVE  /\ thread_preempt_lock = 0 <=> inside = {}
         /\ thread_preempt_lock > 0 <=> inside # {}
<1>1. thread_preempt_lock \in Nat
  BY FS_CardinalityType DEF WritersInside
<1>2. thread_preempt_lock = 0 <=> inside = {}
  BY FS_EmptySet DEF WritersInside
<1> QED BY <1>1, <1>2

LEMMA TickWrites ==
  ASSUME WritersFit, IrqFits, TimerTick
  PROVE  WritersFit'
<1>1. /\ UNCHANGED <<cs, current_thread, thread_preempt_lock, output, cursor, inside, in_irq>>
      /\ woken => woken'
  <2>1. UNCHANGED <<consoleVars, threadVars, in_irq>>
    BY DEF TimerTick
  <2>2. woken => woken'
    BY Zenon DEF TimerTick
  <2> QED BY <2>1, <2>2 DEF consoleVars, threadVars
<1>2. in_irq' # NULL
  BY <1>1 DEF TimerTick, timer_tick_take, timer_tick_again, timer_tick_end, callback, IrqFits
<1>3. MessagesUncut' /\ RowInWindow' /\ WritersInside'
  BY ONLY <1>1, WritersFit DEF WritersFit, MessagesUncut, RowInWindow, WritersInside
<1>4. ret' = "INT_RESCHEDULE" /\ inside' # {} => woken'
  <2> SUFFICES ASSUME ret' = "INT_RESCHEDULE", inside # {} PROVE woken'
    BY <1>1
  <2>1. thread_preempt_lock > 0 /\ thread_preempt_lock # 0
    BY LockMeansInside DEF WritersFit
  <2>2. CASE ret' = ret
    BY <1>1, <2>2 DEF WritersFit, AsksFit
  <2>3. CASE timer_tick_take \/ timer_tick_again
    BY <2>2, <2>3 DEF timer_tick_take, timer_tick_again
  <2>4. ASSUME NEW r \in thread_timer_tick, timer_tick_end(r) PROVE woken'
    BY <2>1, <2>2, <2>4 DEF thread_timer_tick, timer_tick_end
  <2>5. CASE woken' = (woken \/ (ret' = "INT_RESCHEDULE" /\ thread_preempt_lock > 0))
    BY <2>1, <2>5
  <2> QED BY <2>3, <2>4, <2>5 DEF TimerTick
<1> QED BY <1>2, <1>3, <1>4 DEF WritersFit, AsksFit

LEMMA SwitchWrites ==
  ASSUME WritersFit, InterruptReturn
  PROVE  WritersFit'
<1>1. /\ ret' = "INT_NO_RESCHEDULE"
      /\ UNCHANGED <<cs, thread_preempt_lock, output, cursor, inside, woken>>
      /\ current_thread' = current_thread
           \/ (ret = "INT_RESCHEDULE" /\ current_thread' \in Writers)
  BY DEF InterruptReturn, consoleVars
<1>2. current_thread' # current_thread => woken \/ inside = {}
  BY <1>1 DEF WritersFit, AsksFit
<1>3. MessagesUncut' /\ RowInWindow' /\ WritersInside'
  BY ONLY <1>1, <1>2, WritersFit DEF WritersFit, MessagesUncut, RowInWindow, WritersInside
<1>4. AsksFit'
  BY <1>1 DEF AsksFit
<1> QED BY <1>3, <1>4 DEF WritersFit

LEMMA StepWrites ==
  ASSUME WritersFit, IrqFits, [Next]_vars
  PROVE  WritersFit'
<1>1. CASE FormatItem \/ TimerCalls \/ LineCalls \/ Sleep \/ UNCHANGED vars
  <2>1. UNCHANGED <<consoleVars, threadVars, woken, ret, in_irq>>
    BY <1>1 DEF FormatItem, TimerCalls, LineCalls, Sleep, vars, timerVars, tickVars
  <2> QED BY <2>1, WritersStay
<1>2. CASE \E m \in Messages : printf(m)
  BY <1>2, PrintfWrites
<1>3. CASE console_putc_read
  BY <1>3, ReadWrites
<1>4. CASE console_putc_write
  BY <1>4, WriteWrites
<1>5. CASE printf_return
  BY <1>5, ReturnWrites
<1>6. ASSUME NEW v \in Vectors, Interrupt(v) PROVE WritersFit'
  <2>1. UNCHANGED <<consoleVars, threadVars, woken>> /\ ret' = "INT_NO_RESCHEDULE"
    BY <1>6 DEF Interrupt, os_timer_tick
  <2> QED BY <2>1, WritersStay
<1>7. CASE TimerTick
  BY <1>7, TickWrites
<1>8. CASE InterruptReturn
  BY <1>8, SwitchWrites
<1> QED BY <1>1, <1>2, <1>3, <1>4, <1>5, <1>6, <1>7, <1>8 DEF Next

LEMMA WritersAlwaysFit == Spec => []WritersFit
<1>1. Init => WritersFit
  BY WritersInit
<1>2. WritersFit /\ DriversFit /\ [Next]_vars => WritersFit'
  BY StepWrites DEF DriversFit
<1> QED BY <1>1, <1>2, DriversAlwaysFit, PTL DEF Spec

(* No tick switches threads in the middle of a message, nor between the    *)
(* halves of console_putc (stdio.h:7-12, thread.c:568): the exception is a *)
(* timer that wakes a thread meanwhile (thread.c:510, timer.c:110).        *)
THEOREM MessagesStayUncut == Spec => []MessagesUncut
BY WritersAlwaysFit, PTL DEF WritersFit

(* Whatever is printed, and torn or not, the cursor is in a row of the     *)
(* window (console.c:121-172).                                             *)
THEOREM CursorKeepsItsRow == Spec => []RowInWindow
BY WritersAlwaysFit, PTL DEF WritersFit
==============================================================================
