----------------------------- MODULE TimerService -----------------------------
(* What kernel/timer.h promises its callers: a timer that is set rings once it *)
(* is due, never before, the one that is due first rings first, one at a time, *)
(* and none waits longer than Late milliseconds.  Who is rung may set or       *)
(* cancel timers; a periodic one is set again when its ringing is over.        *)
EXTENDS Integers

CONSTANTS Timers, Off, None, MaxDelay, Late

VARIABLES
  due,    \* of each timer: when it rings, or Off
  rings,  \* the timer that rings, or None
  clock

Armed == {t \in Timers : due[t] # Off}

Init == due = [t \in Timers |-> Off] /\ rings = None /\ clock = 0

Armings(t) == {[due EXCEPT ![t] = clock + k] : k \in 1..MaxDelay}

Arm(t) == t \notin Armed /\ due' \in Armings(t) /\ UNCHANGED <<rings, clock>>

Disarm(t) == t \in Armed /\ due' = [due EXCEPT ![t] = Off] /\ UNCHANGED <<rings, clock>>

Ring(t) ==
  /\ rings = None /\ rings' = t
  /\ t \in Armed /\ due[t] <= clock
  /\ \A u \in Armed : due[t] <= due[u]
  /\ due' = [due EXCEPT ![t] = Off]
  /\ UNCHANGED clock

Stop(t) ==
  /\ rings = t /\ rings' = None
  /\ due' = due \/ (t \notin Armed /\ due' \in Armings(t))
  /\ UNCHANGED clock

Advance ==
  /\ rings = None /\ clock' > clock
  /\ \A t \in Armed : clock' - due[t] <= Late
  /\ UNCHANGED <<due, rings>>

Next == Advance \/ \E t \in Timers : Arm(t) \/ Disarm(t) \/ Ring(t) \/ Stop(t)

Spec == Init /\ [][Next]_<<due, rings, clock>>
=============================================================================
