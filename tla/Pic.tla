--------------------------------- MODULE Pic ---------------------------------
(* The two 8259 interrupt controllers and interrupt.c, which programs them.   *)
(* Controller 1 is first, controller 2 hangs on line Cascade of the first.  A *)
(* vector is a controller and one of its lines.  The registers are sets of    *)
(* lines: mask the lines the controller holds back, isr those in service.     *)
EXTENDS Naturals, FiniteSets

CONSTANTS Width, Cascade   \* lines per controller, and INT_PIC2 - PIC1_BASE

\* Line 0 is the PIT's.
ASSUME CascadeIsLine == Width \in Nat /\ Cascade \in 1..(Width - 1)

VARIABLES
  mask, isr,   \* the registers of the hardware
  irqMask      \* the copies of mask the code keeps

picVars == <<mask, isr, irqMask>>

Lines == 0..(Width - 1)

INT_PIT == <<1, 0>>

\* the vectors with a device, and one that is no vector of the controllers
Vectors == {v \in {1, 2} \X Lines : v[1] = 1 => v[2] # Cascade}
Invalid == <<0, 0>>

\* A register is read, changed, written and read again.
Write(p, c, lines) == [p EXCEPT !.mask[c] = lines, !.irqMask[c] = lines]

Open(p, c, bit)  == Write(p, c, p.mask[c] \ {bit})
Close(p, c, bit) == Write(p, c, p.mask[c] \cup {bit})

First(p, bit, enable) ==
  IF enable /\ bit \in p.irqMask[1] THEN Open(p, 1, bit)
  ELSE IF ~enable /\ bit \notin p.irqMask[1] THEN Write(p, 1, {bit})
  ELSE p

Second(p, bit, enable) ==
  IF enable /\ bit \in p.irqMask[2] THEN Open(p, 2, bit)
  ELSE IF ~enable /\ bit \notin p.irqMask[2] THEN Close(p, 2, bit)
  ELSE p

CascadeFollows(p) ==
  IF p.irqMask[2] # Lines /\ Cascade \in p.irqMask[1] THEN Open(p, 1, Cascade)
  ELSE IF p.irqMask[2] = {} /\ Cascade \notin p.irqMask[1] THEN Close(p, 1, Cascade)
  ELSE p

interrupt_enable(vector, enable) ==
  LET p == [mask |-> mask, irqMask |-> irqMask]
      q == CASE vector[1] = 1 -> First(p, vector[2], enable)
             [] vector[1] = 2 -> CascadeFollows(Second(p, vector[2], enable))
             [] OTHER -> p
  IN  mask' = q.mask /\ irqMask' = q.irqMask /\ UNCHANGED isr

mask_interrupt(vector) == interrupt_enable(vector, FALSE)

unmask_interrupt(vector) == interrupt_enable(vector, TRUE)

mask_all_interrupt ==
  /\ mask' = [c \in 1..2 |-> Lines] /\ irqMask' = mask'
  /\ UNCHANGED isr

\* The controller passes a line on that is not held back while no line before it, or itself,
\* is in service; the lines of the second come through the cascade line of the first.
Passes(c, l) == l \notin mask[c] /\ \A s \in isr[c] : l < s

Deliverable(v) ==
  IF v[1] = 1 THEN Passes(1, v[2]) ELSE Passes(2, v[2]) /\ Passes(1, Cascade)

\* the lines in service while v is handled
InService(v) ==
  IF v[1] = 1 THEN [isr EXCEPT ![1] = @ \cup {v[2]}]
  ELSE [isr EXCEPT ![1] = @ \cup {Cascade}, ![2] = @ \cup {v[2]}]

\* Ends the interrupt of highest priority.
Ended(lines) == {l \in lines : \E s \in lines : s < l}

\* Mutant: the second controller's interrupts are not ended at the first.
issue_eoi_one(v) == isr' = [isr EXCEPT ![v[1]] = Ended(@)]

issue_eoi(v) ==
  isr' = IF v[1] = 1 THEN [isr EXCEPT ![1] = Ended(@)]
         ELSE [c \in 1..2 |-> Ended(isr[c])]

==============================================================================
