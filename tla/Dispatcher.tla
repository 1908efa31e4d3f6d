------------------------------ MODULE Dispatcher ------------------------------
(***************************************************************************)
(* What the threads of the kernel may rely on when they compete for the    *)
(* CPU.  Each has a level; one runs, or the idle thread does; some wait.   *)
(* Whenever the CPU changes hands it goes to the waiting thread of the     *)
(* lowest level number, among those of one level to the one that has       *)
(* waited longest, and to the idle thread only when nobody waits.  Nobody  *)
(* but the running thread gives up its turn, or changes its level.         *)
(***************************************************************************)
EXTENDS Integers

CONSTANTS Threads, Levels, Idle

VARIABLES
  running,  \* the thread that has the CPU
  ahead,    \* of each waiting thread: those that wait on its level for longer
  level

vars == <<running, ahead, level>>

(* The waiting threads and their turns when t has come to wait, too ... *)
Join(a, t, l) ==
  [u \in DOMAIN a \cup {t} |-> IF u = t THEN {v \in DOMAIN a : l[v] = l[t]} ELSE a[u]]

(* ... and when t waits no more. *)
Drop(a, t) == [u \in DOMAIN a \ {t} |-> a[u] \ {t}]

(* Whose turn it is. *)
First(a, l) == {t \in DOMAIN a : a[t] = {} /\ \A u \in DOMAIN a : l[t] <= l[u]}

Dispatch(a, l) ==
  /\ running' \in IF DOMAIN a = {} THEN {Idle} ELSE First(a, l)
  /\ ahead' = Drop(a, running')

-----------------------------------------------------------------------------
Init ==
  /\ running = Idle
  /\ \E t \in Threads \ {Idle} : ahead = [u \in {t} |-> {}]
  /\ level \in [Threads -> Levels]

(* A thread comes to wait: one that has been woken, or the running one,    *)
(* which will give way.                                                    *)
Wait(t) ==
  /\ t \notin DOMAIN ahead /\ t # Idle
  /\ ahead' = Join(ahead, t, level)
  /\ UNCHANGED <<running, level>>

(* The running thread gives way and waits behind those of its level. *)
Yield ==
  /\ running \notin DOMAIN ahead
  /\ Dispatch(IF running = Idle THEN ahead ELSE Join(ahead, running, level), level)
  /\ UNCHANGED level

(* It gives way to one it wakes, or to others. *)
WakeAndYield(t) ==
  /\ running # Idle /\ running \notin DOMAIN ahead
  /\ t \notin DOMAIN ahead \cup {running, Idle}
  /\ Dispatch(Join(Join(ahead, running, level), t, level), level)
  /\ UNCHANGED level

(* It leaves the CPU, and waits only if it does so already. *)
Leave ==
  /\ running # Idle
  /\ Dispatch(ahead, level)
  /\ UNCHANGED level

(* It takes another level, and its place there. *)
SetLevel(p) ==
  LET l == [level EXCEPT ![running] = p] IN
  /\ running # Idle /\ running \notin DOMAIN ahead
  /\ level' = l
  /\ Dispatch(Join(ahead, running, l), l)

(* A thread that begins is given its level. *)
Begin(t, p) ==
  /\ t \notin DOMAIN ahead \cup {running, Idle}
  /\ level' = [level EXCEPT ![t] = p]
  /\ UNCHANGED <<running, ahead>>

Next ==
  \/ Yield \/ Leave
  \/ \E t \in Threads : Wait(t) \/ WakeAndYield(t)
  \/ \E p \in Levels : SetLevel(p) \/ \E t \in Threads : Begin(t, p)

Spec == Init /\ [][Next]_vars
=============================================================================
