------------------------------ MODULE TimerProofs ------------------------------
(***************************************************************************)
(* The timers of module Timer: the linked nodes of timer_queue form one    *)
(* ring in order of time, and what each step of the timers and of the      *)
(* clock does to them.                                                     *)
(***************************************************************************)
EXTENDS Timer, WellFoundedInduction, TLAPS

(* A set of numbers that is not empty has a first one. *)
LEMMA FirstExists ==
  ASSUME NEW S \in SUBSET Nat, S # {}
  PROVE  \E x \in S : \A y \in S : x <= y
<1>1. PICK x \in S : \A y \in S : ~(<<y, x>> \in OpToRel(<, Nat))
  BY NatLessThanWellFounded, WFMin
<1>2. ASSUME NEW y \in S PROVE x <= y
  <2>1. y < x => <<y, x>> \in OpToRel(<, Nat)
    BY Zenon DEF OpToRel
  <2>2. ~(y < x)
    BY <1>1, <2>1, Zenon
  <2> QED BY <2>2, SMT
<1> QED BY <1>2

-----------------------------------------------------------------------------
(* Entry i of a queue of n timers q, the head standing before the first    *)
(* and behind the last one.                                                *)
At(n, q, i) == IF i \in 1 .. n THEN q[i] ELSE Head_

Nodes == Timers \cup {Head_}

(* The nodes of the timers q, and they alone, are linked in that order. *)
Ring(h, n, q) ==
  /\ n \in Nat /\ q \in [1 .. n -> Timers]
  /\ \A i, j \in 1 .. n : q[i] = q[j] => i = j
  /\ h.next \in [Nodes -> Nodes \cup {NULL}] /\ h.prev \in [Nodes -> Nodes \cup {NULL}]
  /\ \A i \in 0 .. n : /\ h.next[At(n, q, i)] = At(n, q, i + 1)
                       /\ h.prev[At(n, q, i + 1)] = At(n, q, i)
  /\ \A t \in Timers : (\A i \in 1 .. n : q[i] # t) => h.next[t] = NULL /\ h.prev[t] = NULL

(* Who is in the list, and where its first entry is. *)
LEMMA RingFacts ==
  ASSUME NEW h, NEW n, NEW q, Ring(h, n, q)
  PROVE  /\ \A t \in Timers : list_in_list(h, t) <=> \E i \in 1 .. n : q[i] = t
         /\ list_in_list(h, Head_)
         /\ \A e \in Nodes : list_in_list(h, e) <=> \E i \in 1 .. n + 1 : At(n, q, i) = e
         /\ h.next[Head_] = At(n, q, 1) /\ h.prev[Head_] = At(n, q, n)
         /\ list_peek_head(h) = IF n = 0 THEN NULL ELSE q[1]
<1>1. \A i \in 0 .. n : At(n, q, i + 1) \in Nodes /\ At(n, q, i + 1) # NULL
  BY NodeAssumption DEF Ring, At, Nodes
<1>2. ASSUME NEW t \in Timers, NEW i \in 1 .. n, q[i] = t PROVE list_in_list(h, t)
  <2>1. i \in 0 .. n /\ At(n, q, i) = t
    BY <1>2 DEF At, Ring
  <2>2. h.next[t] = At(n, q, i + 1)
    BY <2>1 DEF Ring
  <2> QED BY <1>1, <2>1, <2>2 DEF list_in_list
<1>3. \A t \in Timers : list_in_list(h, t) <=> \E i \in 1 .. n : q[i] = t
  BY <1>2 DEF Ring, list_in_list
<1>4. At(n, q, 0) = Head_ /\ At(n, q, n + 1) = Head_ /\ 0 \in 0 .. n /\ n \in 0 .. n
  BY DEF Ring, At
<1>5. h.next[Head_] = At(n, q, 1) /\ h.prev[Head_] = At(n, q, n)
  <2>1. h.next[At(n, q, 0)] = At(n, q, 0 + 1) /\ h.prev[At(n, q, n + 1)] = At(n, q, n)
    BY <1>4 DEF Ring
  <2> QED BY <1>4, <2>1
<1>6. list_in_list(h, Head_)
  <2>1. At(n, q, 0 + 1) # NULL
    BY <1>1, <1>4
  <2> QED BY <1>5, <2>1 DEF list_in_list
<1>7. list_peek_head(h) = IF n = 0 THEN NULL ELSE q[1]
  <2>1. CASE n = 0
    BY <1>5, <2>1 DEF list_peek_head, At
  <2>2. CASE n # 0
    <3>1. 1 \in 1 .. n /\ q[1] \in Timers
      BY <2>2 DEF Ring
    <3>2. At(n, q, 1) = q[1] /\ q[1] # Head_
      BY <3>1, NodeAssumption DEF At
    <3> QED BY <1>5, <2>2, <3>2 DEF list_peek_head
  <2> QED BY <2>1, <2>2
<1>8. ASSUME NEW e \in Nodes
      PROVE  list_in_list(h, e) <=> \E i \in 1 .. n + 1 : At(n, q, i) = e
  <2>1. n + 1 \in 1 .. n + 1 /\ n \in Nat
    BY DEF Ring
  <2>2. CASE e = Head_
    BY <1>4, <1>6, <2>1, <2>2
  <2>3. CASE e # Head_
    <3>1. e \in Timers
      BY <2>3 DEF Nodes
    <3>2. \A i \in 1 .. n + 1 : At(n, q, i) = e <=> i \in 1 .. n /\ q[i] = e
      BY <2>3 DEF At
    <3> QED BY <1>3, <2>1, <3>1, <3>2
  <2> QED BY <2>2, <2>3
<1> QED BY <1>3, <1>5, <1>6, <1>7, <1>8

-----------------------------------------------------------------------------
(* The timers q with t before entry k, and without entry k. *)
Plus(n, q, k, t) == [i \in 1 .. n + 1 |-> IF i < k THEN q[i] ELSE IF i = k THEN t ELSE q[i - 1]]
Minus(n, q, k) == [i \in 1 .. n - 1 |-> IF i < k THEN q[i] ELSE q[i + 1]]

(* list_add_before links a timer that is not in the list before entry k. *)
LEMMA AddBeforeRing ==
  ASSUME NEW h, NEW n, NEW q, Ring(h, n, q), NEW k \in 1 .. n + 1, NEW t \in Timers,
         ~list_in_list(h, t)
  PROVE  Ring(list_add_before(h, At(n, q, k), t), n + 1, Plus(n, q, k, t))
<1> DEFINE pos == At(n, q, k)
           p == At(n, q, k - 1)
           g == list_add_before(h, pos, t)
           r == Plus(n, q, k, t)
<1>1. /\ n \in Nat /\ q \in [1 .. n -> Timers] /\ k \in 1 .. n + 1 /\ k - 1 \in 0 .. n
      /\ \A i, j \in 1 .. n : q[i] = q[j] => i = j
      /\ \A i \in 1 .. n : q[i] # t
  <2>1. \A i \in 1 .. n : q[i] # t
    BY RingFacts
  <2> QED BY <2>1 DEF Ring
<1>2. Head_ \notin Timers /\ t # Head_ /\ t \in Nodes /\ Head_ \in Nodes
  BY NodeAssumption DEF Nodes
<1>3. \A i \in 0 .. n + 1 : At(n, q, i) \in Nodes /\ At(n, q, i) # t
  BY <1>1, <1>2 DEF At, Nodes
<1>4. h.prev[pos] = p /\ pos \in Nodes /\ p \in Nodes /\ pos # t /\ p # t
  <2>1. h.prev[At(n, q, (k - 1) + 1)] = At(n, q, k - 1)
    BY <1>1 DEF Ring
  <2> QED BY <1>1, <1>3, <2>1
<1>5. /\ g.prev = [h.prev EXCEPT ![t] = p, ![pos] = t]
      /\ g.next = [[h.next EXCEPT ![t] = pos] EXCEPT ![p] = t]
  BY <1>4 DEF list_add_before
<1>6. r \in [1 .. n + 1 -> Timers]
  BY <1>1 DEF Plus
<1>7. \A i, j \in 1 .. n + 1 : r[i] = r[j] => i = j
  <2>1. SUFFICES ASSUME NEW i \in 1 .. n + 1, NEW j \in 1 .. n + 1, i < j, r[i] = r[j] PROVE FALSE
    BY <1>1
  <2>2. i \in Int /\ j \in Int /\ k \in Int /\ n \in Int
    BY <1>1
  <2>3. CASE j < k
    BY <1>1, <2>1, <2>2, <2>3 DEF Plus
  <2>4. CASE j = k
    BY <1>1, <2>1, <2>2, <2>4 DEF Plus
  <2>5. CASE i < k /\ j > k
    BY <1>1, <2>1, <2>2, <2>5 DEF Plus
  <2>6. CASE i = k
    BY <1>1, <2>1, <2>2, <2>6 DEF Plus
  <2>7. CASE i > k
    BY <1>1, <2>1, <2>2, <2>7 DEF Plus
  <2> QED BY <2>2, <2>1, <2>3, <2>4, <2>5, <2>6, <2>7
<1>8. \A i \in 0 .. n + 2 :
         At(n + 1, r, i) = IF i < k THEN At(n, q, i) ELSE IF i = k THEN t ELSE At(n, q, i - 1)
  BY <1>1 DEF At, Plus
<1>10. \A i, j \in 0 .. n : At(n, q, i) = At(n, q, j) => i = j
  BY <1>1, <1>2 DEF At
<1>11. \A i, j \in 1 .. n + 1 : At(n, q, i) = At(n, q, j) => i = j
  BY <1>1, <1>2 DEF At
<1> HIDE DEF p, pos, g, r
<1>9. g.next \in [Nodes -> Nodes \cup {NULL}] /\ g.prev \in [Nodes -> Nodes \cup {NULL}]
  <2>1. h.next \in [Nodes -> Nodes \cup {NULL}] /\ h.prev \in [Nodes -> Nodes \cup {NULL}]
    BY DEF Ring
  <2>2. [h.next EXCEPT ![t] = pos] \in [Nodes -> Nodes \cup {NULL}]
    BY <1>4, <2>1
  <2>3. [[h.next EXCEPT ![t] = pos] EXCEPT ![p] = t] \in [Nodes -> Nodes \cup {NULL}]
    BY <1>2, <2>2
  <2>4. [h.prev EXCEPT ![t] = p, ![pos] = t] \in [Nodes -> Nodes \cup {NULL}]
    BY <1>2, <1>4, <2>1
  <2> QED BY <1>5, <2>3, <2>4
<1>12. \A e \in Nodes : /\ g.next[e] = IF e = p THEN t ELSE IF e = t THEN pos ELSE h.next[e]
                        /\ g.prev[e] = IF e = pos THEN t ELSE IF e = t THEN p ELSE h.prev[e]
  BY <1>2, <1>4, <1>5 DEF Ring
<1>13. ASSUME NEW i \in 0 .. n + 1
       PROVE  g.next[At(n + 1, r, i)] = At(n + 1, r, i + 1)
  <2>1. i + 1 \in 0 .. n + 2 /\ i \in 0 .. n + 2 /\ i \in Int /\ k \in Int /\ n \in Int
    BY <1>1
  <2>2. CASE i < k - 1
    <3>1. i \in 0 .. n /\ At(n + 1, r, i) = At(n, q, i) /\ At(n + 1, r, i + 1) = At(n, q, i + 1)
      BY <1>1, <1>8, <2>1, <2>2
    <3>2. At(n, q, i) # p /\ At(n, q, i) # t /\ At(n, q, i) \in Nodes
      BY <1>1, <1>3, <1>10, <2>1, <2>2, <3>1 DEF p
    <3>3. h.next[At(n, q, i)] = At(n, q, i + 1)
      BY <3>1 DEF Ring
    <3> QED BY <1>12, <3>1, <3>2, <3>3
  <2>3. CASE i = k - 1
    <3>1. At(n + 1, r, i) = p /\ At(n + 1, r, i + 1) = t
      BY <1>1, <1>8, <2>1, <2>3 DEF p
    <3> QED BY <1>4, <1>12, <3>1
  <2>4. CASE i = k
    <3>1. At(n + 1, r, i) = t /\ At(n + 1, r, i + 1) = pos
      BY <1>1, <1>8, <2>1, <2>4 DEF pos
    <3> QED BY <1>2, <1>4, <1>12, <3>1
  <2>5. CASE i > k
    <3>1. /\ i - 1 \in 0 .. n /\ At(n + 1, r, i) = At(n, q, i - 1)
          /\ At(n + 1, r, i + 1) = At(n, q, (i - 1) + 1)
      BY <1>1, <1>8, <2>1, <2>5
    <3>2. At(n, q, i - 1) # p /\ At(n, q, i - 1) # t /\ At(n, q, i - 1) \in Nodes
      BY <1>1, <1>3, <1>10, <2>1, <2>5, <3>1 DEF p
    <3>3. h.next[At(n, q, i - 1)] = At(n, q, (i - 1) + 1)
      BY <3>1 DEF Ring
    <3> QED BY <1>12, <3>1, <3>2, <3>3
  <2> QED BY <2>1, <2>2, <2>3, <2>4, <2>5
<1>14. ASSUME NEW i \in 0 .. n + 1
       PROVE  g.prev[At(n + 1, r, i + 1)] = At(n + 1, r, i)
  <2>1. i + 1 \in 0 .. n + 2 /\ i \in 0 .. n + 2 /\ i \in Int /\ k \in Int /\ n \in Int
    BY <1>1
  <2>2. CASE i < k - 1
    <3>1. i \in 0 .. n /\ At(n + 1, r, i) = At(n, q, i) /\ At(n + 1, r, i + 1) = At(n, q, i + 1)
      BY <1>1, <1>8, <2>1, <2>2
    <3>2. At(n, q, i + 1) # pos /\ At(n, q, i + 1) # t /\ At(n, q, i + 1) \in Nodes
      BY <1>1, <1>3, <1>11, <2>1, <2>2, <3>1 DEF pos
    <3>3. h.prev[At(n, q, i + 1)] = At(n, q, i)
      BY <3>1 DEF Ring
    <3> QED BY <1>12, <3>1, <3>2, <3>3
  <2>3. CASE i = k - 1
    <3>1. At(n + 1, r, i) = p /\ At(n + 1, r, i + 1) = t
      BY <1>1, <1>8, <2>1, <2>3 DEF p
    <3> QED BY <1>2, <1>4, <1>12, <3>1
  <2>4. CASE i = k
    <3>1. At(n + 1, r, i) = t /\ At(n + 1, r, i + 1) = pos
      BY <1>1, <1>8, <2>1, <2>4 DEF pos
    <3> QED BY <1>4, <1>12, <3>1
  <2>5. CASE i > k
    <3>1. /\ i - 1 \in 0 .. n /\ i \in 1 .. n + 1 /\ At(n + 1, r, i) = At(n, q, i - 1)
          /\ At(n + 1, r, i + 1) = At(n, q, i)
      BY <1>1, <1>8, <2>1, <2>5
    <3>2. At(n, q, i) # pos /\ At(n, q, i) # t /\ At(n, q, i) \in Nodes
      BY <1>1, <1>3, <1>11, <2>1, <2>5, <3>1 DEF pos
    <3>3. h.prev[At(n, q, (i - 1) + 1)] = At(n, q, i - 1)
      BY <3>1 DEF Ring
    <3> QED BY <1>12, <2>1, <3>1, <3>2, <3>3
  <2> QED BY <2>1, <2>2, <2>3, <2>4, <2>5
<1>15. ASSUME NEW u \in Timers, \A i \in 1 .. n + 1 : r[i] # u
       PROVE  g.next[u] = NULL /\ g.prev[u] = NULL
  <2>1. u # t /\ \A i \in 1 .. n : q[i] # u
    <3>1. k \in 1 .. n + 1 /\ r[k] = t
      BY <1>1 DEF r, Plus
    <3>2. ASSUME NEW i \in 1 .. n, q[i] = u PROVE FALSE
      <4>1. CASE i < k
        BY <1>1, <1>15, <3>2, <4>1 DEF r, Plus
      <4>2. CASE i >= k
        <5>1. i + 1 \in 1 .. n + 1 /\ r[i + 1] = q[i]
          BY <1>1, <4>2 DEF r, Plus
        <5> QED BY <1>15, <3>2, <5>1
      <4> QED BY <1>1, <4>1, <4>2
    <3> QED BY <1>15, <3>1, <3>2
  <2>2. u \in Nodes /\ u # p /\ u # pos
    BY <1>1, <1>2, <2>1 DEF Nodes, p, pos, At
  <2>3. h.next[u] = NULL /\ h.prev[u] = NULL
    BY <2>1 DEF Ring
  <2> QED BY <1>12, <2>1, <2>2, <2>3
<1>16. n + 1 \in Nat
  BY <1>1
<1>17. Ring(g, n + 1, r)
  BY <1>6, <1>7, <1>9, <1>13, <1>14, <1>15, <1>16 DEF Ring
<1> QED BY <1>17 DEF g, r, pos

(* list_delete unlinks entry k. *)
LEMMA DeleteRing ==
  ASSUME NEW h, NEW n, NEW q, Ring(h, n, q), NEW k \in 1 .. n
  PROVE  Ring(list_delete(h, q[k]), n - 1, Minus(n, q, k))
<1> DEFINE t == q[k]
           e == At(n, q, k + 1)
           p == At(n, q, k - 1)
           g == list_delete(h, t)
           r == Minus(n, q, k)
<1>1. /\ n \in Nat /\ q \in [1 .. n -> Timers] /\ k \in 1 .. n /\ k - 1 \in 0 .. n
      /\ \A i, j \in 1 .. n : q[i] = q[j] => i = j
  BY DEF Ring
<1>2. Head_ \notin Timers /\ t # Head_ /\ t \in Timers /\ t \in Nodes /\ Head_ \in Nodes
  BY <1>1, NodeAssumption DEF Nodes
<1>3. \A i \in 0 .. n + 1 : At(n, q, i) \in Nodes /\ (At(n, q, i) = t <=> i = k)
  BY <1>1, <1>2 DEF At, Nodes
<1>4. h.prev[t] = p /\ h.next[t] = e /\ e \in Nodes /\ p \in Nodes /\ e # t /\ p # t
  <2>1. h.prev[At(n, q, (k - 1) + 1)] = At(n, q, k - 1) /\ h.next[At(n, q, k)] = At(n, q, k + 1)
    BY <1>1 DEF Ring
  <2>2. At(n, q, k) = t
    BY <1>1 DEF At
  <2> QED BY <1>1, <1>3, <2>1, <2>2
<1>5. /\ g.prev = [[h.prev EXCEPT ![e] = p] EXCEPT ![t] = NULL]
      /\ g.next = [[h.next EXCEPT ![p] = e] EXCEPT ![t] = NULL]
  BY <1>4 DEF list_delete
<1>6. r \in [1 .. n - 1 -> Timers]
  BY <1>1 DEF Minus
<1>7. \A i, j \in 1 .. n - 1 : r[i] = r[j] => i = j
  <2>1. SUFFICES ASSUME NEW i \in 1 .. n - 1, NEW j \in 1 .. n - 1, r[i] = r[j] PROVE i = j
    OBVIOUS
  <2>2. i \in 1 .. n /\ j \in 1 .. n /\ i + 1 \in 1 .. n /\ j + 1 \in 1 .. n /\ k \in Int
    BY <1>1
  <2>3. CASE i < k /\ j < k
    BY <1>1, <2>1, <2>2, <2>3 DEF Minus
  <2>4. CASE i < k /\ ~(j < k)
    BY <1>1, <2>1, <2>2, <2>4 DEF Minus
  <2>5. CASE ~(i < k) /\ j < k
    BY <1>1, <2>1, <2>2, <2>5 DEF Minus
  <2>6. CASE ~(i < k) /\ ~(j < k)
    <3>1. q[i + 1] = q[j + 1]
      BY <1>1, <2>1, <2>2, <2>6 DEF Minus
    <3> QED BY <1>1, <2>2, <3>1
  <2> QED BY <2>3, <2>4, <2>5, <2>6
<1>8. \A i \in 0 .. n :
         At(n - 1, r, i) = IF i < k THEN At(n, q, i) ELSE At(n, q, i + 1)
  BY <1>1 DEF At, Minus
<1>10. \A i, j \in 0 .. n : At(n, q, i) = At(n, q, j) => i = j
  BY <1>1, <1>2 DEF At
<1>11. \A i, j \in 1 .. n + 1 : At(n, q, i) = At(n, q, j) => i = j
  BY <1>1, <1>2 DEF At
<1> HIDE DEF p, e, g, r, t
<1>9. g.next \in [Nodes -> Nodes \cup {NULL}] /\ g.prev \in [Nodes -> Nodes \cup {NULL}]
  <2>1. h.next \in [Nodes -> Nodes \cup {NULL}] /\ h.prev \in [Nodes -> Nodes \cup {NULL}]
    BY DEF Ring
  <2>2. /\ [h.next EXCEPT ![p] = e] \in [Nodes -> Nodes \cup {NULL}]
        /\ [h.prev EXCEPT ![e] = p] \in [Nodes -> Nodes \cup {NULL}]
    BY <1>4, <2>1
  <2>3. [[h.next EXCEPT ![p] = e] EXCEPT ![t] = NULL] \in [Nodes -> Nodes \cup {NULL}]
    BY <2>2
  <2>4. [[h.prev EXCEPT ![e] = p] EXCEPT ![t] = NULL] \in [Nodes -> Nodes \cup {NULL}]
    BY <2>2
  <2> QED BY <1>5, <2>3, <2>4
<1>12. \A u \in Nodes : /\ g.next[u] = IF u = t THEN NULL ELSE IF u = p THEN e ELSE h.next[u]
                        /\ g.prev[u] = IF u = t THEN NULL ELSE IF u = e THEN p ELSE h.prev[u]
  BY <1>2, <1>4, <1>5 DEF Ring
<1>13. ASSUME NEW i \in 0 .. n - 1
       PROVE  /\ g.next[At(n - 1, r, i)] = At(n - 1, r, i + 1)
              /\ g.prev[At(n - 1, r, i + 1)] = At(n - 1, r, i)
  <2>1. i + 1 \in 0 .. n /\ i \in 0 .. n /\ i \in Int /\ k \in Int /\ n \in Int
    BY <1>1
  <2>2. CASE i < k - 1
    <3>1. /\ At(n - 1, r, i) = At(n, q, i) /\ At(n - 1, r, i + 1) = At(n, q, i + 1)
          /\ i + 1 \in 1 .. n + 1 /\ k + 1 \in 1 .. n + 1 /\ k - 1 \in 0 .. n /\ k # i /\ k # i + 1
      BY <1>1, <1>8, <2>1, <2>2
    <3>2. At(n, q, i) # p /\ At(n, q, i + 1) # e
      BY <1>10, <1>11, <2>1, <2>2, <3>1 DEF p, e
    <3>3. h.next[At(n, q, i)] = At(n, q, i + 1) /\ h.prev[At(n, q, i + 1)] = At(n, q, i)
      BY <2>1 DEF Ring
    <3>4. /\ At(n, q, i) \in Nodes /\ At(n, q, i) # t
          /\ At(n, q, i + 1) \in Nodes /\ At(n, q, i + 1) # t
      BY <1>3, <2>1, <3>1
    <3> QED BY <1>12, <3>1, <3>2, <3>3, <3>4
  <2>3. CASE i = k - 1
    <3>1. At(n - 1, r, i) = p /\ At(n - 1, r, i + 1) = e
      <4>1. i < k /\ ~(i + 1 < k) /\ (i + 1) + 1 = k + 1
        BY <2>1, <2>3
      <4> QED BY <1>8, <2>1, <2>3, <4>1 DEF p, e
    <3> QED BY <1>4, <1>12, <3>1
  <2>4. CASE i >= k
    <3>1. /\ At(n - 1, r, i) = At(n, q, i + 1) /\ At(n - 1, r, i + 1) = At(n, q, (i + 1) + 1)
          /\ (i + 1) + 1 \in 1 .. n + 1 /\ k + 1 \in 1 .. n + 1 /\ k - 1 \in 0 .. n
          /\ k # i + 1 /\ k # (i + 1) + 1
      BY <1>1, <1>8, <2>1, <2>4
    <3>2. At(n, q, i + 1) # p /\ At(n, q, (i + 1) + 1) # e
      BY <1>10, <1>11, <2>1, <2>4, <3>1 DEF p, e
    <3>3. /\ h.next[At(n, q, i + 1)] = At(n, q, (i + 1) + 1)
          /\ h.prev[At(n, q, (i + 1) + 1)] = At(n, q, i + 1)
      BY <2>1 DEF Ring
    <3>4. /\ At(n, q, i + 1) \in Nodes /\ At(n, q, i + 1) # t
          /\ At(n, q, (i + 1) + 1) \in Nodes /\ At(n, q, (i + 1) + 1) # t
      BY <1>3, <2>1, <3>1
    <3> QED BY <1>12, <3>1, <3>2, <3>3, <3>4
  <2> QED BY <2>1, <2>2, <2>3, <2>4
<1>15. ASSUME NEW u \in Timers, \A i \in 1 .. n - 1 : r[i] # u
       PROVE  g.next[u] = NULL /\ g.prev[u] = NULL
  <2>1. CASE u = t
    BY <1>2, <1>12, <2>1
  <2>2. CASE u # t
    <3>1. \A i \in 1 .. n : q[i] # u
      <4>1. SUFFICES ASSUME NEW i \in 1 .. n, q[i] = u PROVE FALSE
        OBVIOUS
      <4>2. i # k
        BY <2>2, <4>1 DEF t
      <4>3. CASE i < k
        BY <1>1, <1>15, <4>1, <4>3 DEF r, Minus
      <4>4. CASE i > k
        <5>1. i - 1 \in 1 .. n - 1 /\ r[i - 1] = q[i]
          BY <1>1, <4>4 DEF r, Minus
        <5> QED BY <1>15, <4>1, <5>1
      <4> QED BY <1>1, <4>2, <4>3, <4>4
    <3>2. u \in Nodes /\ u # p /\ u # e
      BY <1>1, <1>2, <3>1 DEF Nodes, p, e, At
    <3>3. h.next[u] = NULL /\ h.prev[u] = NULL
      BY <3>1 DEF Ring
    <3> QED BY <1>12, <2>2, <3>2, <3>3
  <2> QED BY <2>1, <2>2
<1>16. n - 1 \in Nat
  BY <1>1
<1>17. Ring(g, n - 1, r)
  BY <1>6, <1>7, <1>9, <1>13, <1>15, <1>16 DEF Ring
<1> QED BY <1>17 DEF g, r, t

(* list_initialize makes a ring of the head alone. *)
LEMMA InitRing == \A q \in [1 .. 0 -> Timers] : Ring(list_initialize(Timers), 0, q)
<1> SUFFICES ASSUME NEW q \in [1 .. 0 -> Timers] PROVE Ring(list_initialize(Timers), 0, q)
  OBVIOUS
<1>1. At(0, q, 0) = Head_ /\ At(0, q, 1) = Head_
  BY DEF At
<1> QED BY <1>1, NodeAssumption DEF Ring, list_initialize, Nodes

-----------------------------------------------------------------------------
(* Where the loop of insert_timer_in_queue stops for timer t. *)
Stops(n, q, tm, t, i) == i = n + 1 \/ tm[q[i]].sched_time > tm[t].sched_time

(* The first such entry from the i-th on. *)
Stop(n, q, tm, t, i) ==
  CHOOSE j \in i .. n + 1 :
     Stops(n, q, tm, t, j) /\ \A l \in i .. n + 1 : Stops(n, q, tm, t, l) => j <= l

LEMMA StopExists ==
  ASSUME NEW n \in Nat, NEW q, NEW tm, NEW t, NEW i \in 1 .. n + 1
  PROVE  LET j == Stop(n, q, tm, t, i) IN
         /\ j \in i .. n + 1 /\ Stops(n, q, tm, t, j)
         /\ \A l \in i .. n + 1 : Stops(n, q, tm, t, l) => j <= l
<1> DEFINE S == {j \in i .. n + 1 : Stops(n, q, tm, t, j)}
<1>1. S \in SUBSET Nat /\ n + 1 \in S
  BY DEF Stops
<1>2. \E x \in S : \A y \in S : x <= y
  <2> HIDE DEF S
  <2> QED BY <1>1, FirstExists
<1> QED BY <1>2, Zenon DEF Stop

(* One turn of the loop. *)
LEMMA StopNext ==
  ASSUME NEW n \in Nat, NEW q, NEW tm, NEW t, NEW i \in 1 .. n + 1
  PROVE  Stop(n, q, tm, t, i) = IF Stops(n, q, tm, t, i) THEN i ELSE Stop(n, q, tm, t, i + 1)
<1> DEFINE j == Stop(n, q, tm, t, i)
           k == Stop(n, q, tm, t, i + 1)
<1>1. /\ j \in i .. n + 1 /\ Stops(n, q, tm, t, j)
      /\ \A l \in i .. n + 1 : Stops(n, q, tm, t, l) => j <= l
  BY StopExists
<1>2. CASE Stops(n, q, tm, t, i)
  <2>1. i \in i .. n + 1
    OBVIOUS
  <2>2. j <= i
    BY <1>1, <1>2, <2>1
  <2> HIDE DEF j
  <2>3. j = i
    BY <1>1, <2>2
  <2> QED BY <1>2, <2>3 DEF j
<1>3. CASE ~Stops(n, q, tm, t, i)
  <2>1. i # n + 1 /\ i + 1 \in 1 .. n + 1
    BY <1>3 DEF Stops
  <2>2. /\ k \in i + 1 .. n + 1 /\ Stops(n, q, tm, t, k)
        /\ \A l \in i + 1 .. n + 1 : Stops(n, q, tm, t, l) => k <= l
    BY <2>1, StopExists
  <2>3. j # i
    BY <1>1, <1>3
  <2> HIDE DEF j, k
  <2>4. j \in i + 1 .. n + 1 /\ k \in i .. n + 1
    BY <1>1, <2>2, <2>3
  <2>5. j <= k /\ k <= j
    BY <1>1, <2>2, <2>4
  <2>6. j = k
    BY <1>1, <2>2, <2>5
  <2> QED BY <1>3, <2>6 DEF j, k
<1> QED BY <1>2, <1>3

(* The loop goes from entry to entry and stops at the first later timer, or at the head. *)
LEMMA FirstLaterIs ==
  ASSUME NEW h, NEW n, NEW q, Ring(h, n, q), NEW tm, NEW t
  PROVE  FirstLater(h, tm, t) = At(n, q, Stop(n, q, tm, t, 1))
<1> DEFINE E == Entries(h)
           later(e) == e = Head_ \/ tm[e].sched_time > tm[t].sched_time
           stop(i) == Stop(n, q, tm, t, i)
           isLoop(f) == f = [e \in E |-> IF later(e) THEN e ELSE f[h.next[e]]]
           place(e) == CHOOSE i \in 1 .. n + 1 : At(n, q, i) = e
           f0 == [e \in E |-> At(n, q, stop(place(e)))]
<1>1. /\ n \in Nat /\ q \in [1 .. n -> Timers] /\ Head_ \notin Timers
      /\ \A i, j \in 1 .. n : q[i] = q[j] => i = j
      /\ DOMAIN h.next = Nodes
  BY NodeAssumption DEF Ring
<1>2. \A e : e \in E <=> \E i \in 1 .. n + 1 : At(n, q, i) = e
  <2>1. \A e \in Nodes : list_in_list(h, e) <=> \E i \in 1 .. n + 1 : At(n, q, i) = e
    BY RingFacts
  <2>2. \A i \in 1 .. n + 1 : At(n, q, i) \in Nodes
    BY <1>1 DEF At, Nodes
  <2> QED BY <1>1, <2>1, <2>2 DEF Entries
<1>3. \A i, j \in 1 .. n + 1 : At(n, q, i) = At(n, q, j) => i = j
  BY <1>1 DEF At
<1>4. \A i \in 1 .. n + 1 : later(At(n, q, i)) <=> Stops(n, q, tm, t, i)
  BY <1>1 DEF At, Stops
<1>5. \A i \in 1 .. n : h.next[At(n, q, i)] = At(n, q, i + 1) /\ i + 1 \in 1 .. n + 1
  BY <1>1 DEF Ring
<1>6. \A i \in 1 .. n + 1 :
         stop(i) = IF Stops(n, q, tm, t, i) THEN i ELSE stop(i + 1)
  BY <1>1, StopNext
<1>7. \A i \in 1 .. n + 1 : place(At(n, q, i)) = i
  BY <1>3
<1>8. \A i \in 1 .. n + 1 : ~Stops(n, q, tm, t, i) => i \in 1 .. n
  BY <1>1 DEF Stops
<1> HIDE DEF E, place, stop, later
<1>9. isLoop(f0)
  <2>1. ASSUME NEW e \in E
        PROVE  f0[e] = IF later(e) THEN e ELSE f0[h.next[e]]
    <3>1. PICK i \in 1 .. n + 1 : At(n, q, i) = e
      BY <1>2
    <3>2. f0[e] = At(n, q, stop(i))
      BY <1>7, <3>1
    <3>3. CASE later(e)
      BY <1>4, <1>6, <3>1, <3>2, <3>3
    <3>4. CASE ~later(e)
      <4>1. i \in 1 .. n /\ stop(i) = stop(i + 1)
        BY <1>4, <1>6, <1>8, <3>1, <3>4
      <4>2. h.next[e] = At(n, q, i + 1) /\ i + 1 \in 1 .. n + 1 /\ h.next[e] \in E
        BY <1>2, <1>5, <3>1, <4>1
      <4>3. f0[h.next[e]] = At(n, q, stop(i + 1))
        BY <1>7, <4>2
      <4> QED BY <3>2, <3>4, <4>1, <4>3
    <3> QED BY <3>3, <3>4
  <2> QED BY <2>1
<1> DEFINE f == CHOOSE g : isLoop(g)
<1>10. isLoop(f)
  BY <1>9
<1>11. FirstLater(h, tm, t) = f[h.next[Head_]]
  BY DEF FirstLater, E, later
<1> HIDE DEF f, f0
<1>12. \A i \in 1 .. n + 1 : f[At(n, q, i)] = At(n, q, stop(i))
  <2> DEFINE wrong == {m \in 0 .. n : f[At(n, q, n + 1 - m)] # At(n, q, stop(n + 1 - m))}
  <2>1. ASSUME wrong # {} PROVE FALSE
    <3>1. PICK m \in wrong : \A l \in wrong : m <= l
      <4>1. wrong \in SUBSET Nat
        OBVIOUS
      <4> HIDE DEF wrong
      <4> QED BY <2>1, <4>1, FirstExists
    <3> DEFINE i == n + 1 - m
    <3>2. i \in 1 .. n + 1 /\ f[At(n, q, i)] # At(n, q, stop(i)) /\ m \in 0 .. n
      BY <1>1, <3>1
    <3>3. f[At(n, q, i)] = IF later(At(n, q, i)) THEN At(n, q, i) ELSE f[h.next[At(n, q, i)]]
      BY <1>2, <1>10, <3>2
    <3>4. CASE Stops(n, q, tm, t, i)
      BY <1>4, <1>6, <3>2, <3>3, <3>4
    <3>5. CASE ~Stops(n, q, tm, t, i)
      <4>1. i \in 1 .. n
        BY <1>8, <3>2, <3>5
      <4>2. m - 1 \in 0 .. n /\ n + 1 - (m - 1) = i + 1 /\ ~(m <= m - 1)
        BY <1>1, <3>2, <4>1
      <4>3. f[At(n, q, i + 1)] = At(n, q, stop(i + 1))
        BY <3>1, <4>2
      <4> HIDE DEF i
      <4> QED BY <1>4, <1>5, <1>6, <3>2, <3>3, <3>5, <4>1, <4>3
    <3> QED BY <3>4, <3>5
  <2>2. ASSUME NEW i \in 1 .. n + 1 PROVE f[At(n, q, i)] = At(n, q, stop(i))
    <3>1. n + 1 - i \in 0 .. n /\ n + 1 - (n + 1 - i) = i
      BY <1>1
    <3> QED BY <2>1, <3>1
  <2> QED BY <2>2
<1>13. h.next[Head_] = At(n, q, 1) /\ 1 \in 1 .. n + 1
  BY <1>1, RingFacts
<1> QED BY <1>11, <1>12, <1>13 DEF stop

-----------------------------------------------------------------------------
(* The timers in the list, in order of time. *)
Sorted(n, q, tm) ==
  \A i, j \in 1 .. n : i < j => tm[q[i]].sched_time <= tm[q[j]].sched_time

Queue(h, tm) == \E n, q : Ring(h, n, q) /\ Sorted(n, q, tm)

TimerRecords == [sched_time : Nat, periodic_time : Delays \cup {0, 1}, callback : BOOLEAN]

(* insert_timer_in_queue keeps the queue in order. *)
LEMMA InsertQueue ==
  ASSUME NEW h, NEW tm \in [Timers -> TimerRecords], NEW t \in Timers, NEW new \in TimerRecords,
         Queue(h, tm), ~list_in_list(h, t)
  PROVE  LET tn == [tm EXCEPT ![t] = new]
             g  == insert_timer_in_queue(h, tn, t)
         IN  /\ Queue(g, tn)
             /\ \A u \in Timers : list_in_list(g, u) <=> list_in_list(h, u) \/ u = t
<1> DEFINE tn == [tm EXCEPT ![t] = new]
<1>1. PICK n, q : Ring(h, n, q) /\ Sorted(n, q, tm)
  BY DEF Queue
<1>2. /\ n \in Nat /\ q \in [1 .. n -> Timers] /\ \A i \in 1 .. n : q[i] # t
  <2>1. \A i \in 1 .. n : q[i] # t
    BY <1>1, RingFacts
  <2> QED BY <1>1, <2>1 DEF Ring
<1>3. /\ tn \in [Timers -> TimerRecords] /\ tn[t] = new
      /\ \A i \in 1 .. n : tn[q[i]] = tm[q[i]]
  BY <1>2
<1> HIDE DEF tn
<1> DEFINE k == Stop(n, q, tn, t, 1)
           g == list_add_before(h, At(n, q, k), t)
           r == Plus(n, q, k, t)
<1>4. /\ k \in 1 .. n + 1
      /\ k # n + 1 => tn[q[k]].sched_time > tn[t].sched_time
      /\ \A l \in 1 .. n : l < k => ~(tn[q[l]].sched_time > tn[t].sched_time)
  <2>1. 1 \in 1 .. n + 1
    BY <1>2
  <2>2. /\ k \in 1 .. n + 1 /\ Stops(n, q, tn, t, k)
        /\ \A l \in 1 .. n + 1 : Stops(n, q, tn, t, l) => k <= l
    BY <1>2, <2>1, StopExists
  <2> HIDE DEF k
  <2> QED BY <1>2, <2>2 DEF Stops
<1>5. insert_timer_in_queue(h, tn, t) = g
  BY <1>1, FirstLaterIs DEF insert_timer_in_queue
<1> HIDE DEF k
<1>6. Ring(g, n + 1, r)
  BY <1>1, <1>4, AddBeforeRing
<1>7. \A i \in 1 .. n + 1 : r[i] = IF i < k THEN q[i] ELSE IF i = k THEN t ELSE q[i - 1]
  BY DEF Plus
<1> HIDE DEF g, r
<1>8. Sorted(n + 1, r, tn)
  <2> DEFINE at(i) == tn[r[i]].sched_time
             old(i) == tn[q[i]].sched_time
             d == tn[t].sched_time
  <2>1. \A i \in 1 .. n : old(i) \in Nat
    BY <1>2, <1>3 DEF TimerRecords
  <2>2. d \in Nat
    BY <1>3 DEF TimerRecords
  <2>3. \A i, j \in 1 .. n : i < j => old(i) <= old(j)
    BY <1>1, <1>3 DEF Sorted
  <2>4. \A i \in 1 .. n + 1 : at(i) = IF i < k THEN old(i) ELSE IF i = k THEN d ELSE old(i - 1)
    BY <1>7
  <2>5. (k # n + 1 => old(k) > d) /\ \A l \in 1 .. n : l < k => ~(old(l) > d)
    BY <1>4
  <2> HIDE DEF at, old, d
  <2>6. \A l \in 1 .. n : IF l < k THEN old(l) <= d ELSE d <= old(l)
    <3>1. ASSUME NEW l \in 1 .. n, ~(l < k) PROVE d <= old(l)
      <4>1. k \in 1 .. n /\ (l = k \/ k < l)
        BY <1>2, <1>4, <3>1
      <4>2. old(k) <= old(l) /\ old(k) > d
        BY <1>2, <2>1, <2>3, <2>5, <4>1
      <4> QED BY <2>1, <2>2, <4>1, <4>2
    <3> QED BY <2>1, <2>2, <2>5, <3>1
  <2>7. ASSUME NEW i \in 1 .. n + 1, NEW j \in 1 .. n + 1, i < j
        PROVE  at(i) <= at(j)
    <3>1. CASE j < k
      BY <1>2, <1>4, <2>3, <2>4, <2>7, <3>1
    <3>2. CASE j = k
      BY <1>2, <1>4, <2>4, <2>6, <2>7, <3>2
    <3>3. CASE j > k /\ i < k
      BY <1>2, <1>4, <2>3, <2>4, <2>7, <3>3, <2>1, <2>2, <2>6
    <3>4. CASE j > k /\ i = k
      BY <1>2, <1>4, <2>4, <2>6, <2>7, <3>4
    <3>5. CASE j > k /\ i > k
      BY <1>2, <1>4, <2>3, <2>4, <2>7, <3>5
    <3> QED BY <1>2, <1>4, <3>1, <3>2, <3>3, <3>4, <3>5
  <2> QED BY <2>7 DEF Sorted, at
<1>9. \A u \in Timers : list_in_list(g, u) <=> list_in_list(h, u) \/ u = t
  <2>1. /\ \A u \in Timers : list_in_list(g, u) <=> \E i \in 1 .. n + 1 : r[i] = u
        /\ \A u \in Timers : list_in_list(h, u) <=> \E i \in 1 .. n : q[i] = u
    BY <1>1, <1>6, RingFacts
  <2>2. r[k] = t
    BY <1>4, <1>7
  <2>3. ASSUME NEW i \in 1 .. n PROVE \E j \in 1 .. n + 1 : r[j] = q[i]
    <3>1. CASE i < k
      BY <1>2, <1>7, <3>1
    <3>2. CASE ~(i < k)
      <4>1. i + 1 \in 1 .. n + 1 /\ r[i + 1] = q[i]
        BY <1>2, <1>4, <1>7, <3>2
      <4> QED BY <4>1
    <3> QED BY <3>1, <3>2
  <2>4. ASSUME NEW i \in 1 .. n + 1 PROVE r[i] = t \/ \E j \in 1 .. n : r[i] = q[j]
    <3>1. CASE i < k
      <4>1. i \in 1 .. n /\ r[i] = q[i]
        BY <1>2, <1>4, <1>7, <3>1
      <4> QED BY <4>1
    <3>2. CASE i > k
      <4>1. i - 1 \in 1 .. n /\ r[i] = q[i - 1]
        BY <1>2, <1>4, <1>7, <3>2
      <4> QED BY <4>1
    <3> QED BY <1>4, <2>2, <3>1, <3>2
  <2> QED BY <1>4, <2>1, <2>2, <2>3, <2>4
<1> QED BY <1>5, <1>6, <1>8, <1>9 DEF Queue, tn

(* list_delete keeps it in order, whatever becomes of the timer taken off. *)
LEMMA DeleteQueue ==
  ASSUME NEW h, NEW tm, NEW tn, NEW t \in Timers, Queue(h, tm), list_in_list(h, t),
         \A u \in Timers \ {t} : tn[u].sched_time = tm[u].sched_time
  PROVE  LET g == list_delete(h, t) IN
         /\ Queue(g, tn)
         /\ \A u \in Timers : list_in_list(g, u) <=> list_in_list(h, u) /\ u # t
<1>1. PICK n, q : Ring(h, n, q) /\ Sorted(n, q, tm)
  BY DEF Queue
<1>2. /\ n \in Nat /\ q \in [1 .. n -> Timers]
      /\ \A i, j \in 1 .. n : q[i] = q[j] => i = j
  BY <1>1 DEF Ring
<1>3. PICK k \in 1 .. n : q[k] = t
  BY <1>1, RingFacts
<1> DEFINE g == list_delete(h, t)
           r == Minus(n, q, k)
<1>4. Ring(g, n - 1, r)
  BY <1>1, <1>3, DeleteRing
<1>5. \A i \in 1 .. n - 1 : r[i] = IF i < k THEN q[i] ELSE q[i + 1]
  BY DEF Minus
<1> HIDE DEF g, r
<1>6. Sorted(n - 1, r, tn)
  <2>1. \A i \in 1 .. n : i # k => tn[q[i]].sched_time = tm[q[i]].sched_time
    BY <1>2, <1>3
  <2>2. ASSUME NEW i \in 1 .. n - 1, NEW j \in 1 .. n - 1, i < j
        PROVE  tn[r[i]].sched_time <= tn[r[j]].sched_time
    <3> DEFINE a == IF i < k THEN i ELSE i + 1
               b == IF j < k THEN j ELSE j + 1
    <3>1. a \in 1 .. n /\ b \in 1 .. n /\ a < b /\ a # k /\ b # k /\ r[i] = q[a] /\ r[j] = q[b]
      BY <1>2, <1>5, <2>2
    <3> HIDE DEF a, b
    <3>2. tm[q[a]].sched_time <= tm[q[b]].sched_time
      BY <1>1, <3>1 DEF Sorted
    <3> QED BY <2>1, <3>1, <3>2
  <2> QED BY <2>2 DEF Sorted
<1>7. \A u \in Timers : list_in_list(g, u) <=> list_in_list(h, u) /\ u # t
  <2>1. /\ \A u \in Timers : list_in_list(g, u) <=> \E i \in 1 .. n - 1 : r[i] = u
        /\ \A u \in Timers : list_in_list(h, u) <=> \E i \in 1 .. n : q[i] = u
    BY <1>1, <1>4, RingFacts
  <2>2. ASSUME NEW i \in 1 .. n - 1 PROVE r[i] # t /\ \E j \in 1 .. n : r[i] = q[j]
    <3>1. /\ i < k => i \in 1 .. n /\ i # k /\ r[i] = q[i]
          /\ ~(i < k) => i + 1 \in 1 .. n /\ i + 1 # k /\ r[i] = q[i + 1]
      BY <1>2, <1>5
    <3> QED BY <1>2, <1>3, <3>1
  <2>3. ASSUME NEW i \in 1 .. n, i # k PROVE \E j \in 1 .. n - 1 : r[j] = q[i]
    <3>1. CASE i < k
      BY <1>2, <1>5, <3>1
    <3>2. CASE i > k
      <4>1. i - 1 \in 1 .. n - 1 /\ r[i - 1] = q[i]
        BY <1>2, <1>5, <3>2
      <4> QED BY <4>1
    <3> QED BY <1>2, <2>3, <3>1, <3>2
  <2> QED BY <1>3, <2>1, <2>2, <2>3
<1> QED BY <1>4, <1>6, <1>7 DEF Queue, g

(* The first entry is due first. *)
LEMMA HeadQueue ==
  ASSUME NEW h, NEW tm \in [Timers -> TimerRecords], Queue(h, tm)
  PROVE  /\ list_peek_head(h) = NULL => \A u \in Timers : ~list_in_list(h, u)
         /\ list_peek_head(h) # NULL =>
              /\ list_peek_head(h) \in Timers /\ list_in_list(h, list_peek_head(h))
              /\ \A u \in Timers : list_in_list(h, u)
                   => tm[list_peek_head(h)].sched_time <= tm[u].sched_time
<1>1. PICK n, q : Ring(h, n, q) /\ Sorted(n, q, tm)
  BY DEF Queue
<1>2. n \in Nat /\ q \in [1 .. n -> Timers]
  BY <1>1 DEF Ring
<1>3. /\ \A u \in Timers : list_in_list(h, u) <=> \E i \in 1 .. n : q[i] = u
      /\ list_peek_head(h) = IF n = 0 THEN NULL ELSE q[1]
  BY <1>1, RingFacts
<1>4. CASE n = 0
  BY <1>3, <1>4
<1>5. CASE n # 0
  <2>1. 1 \in 1 .. n /\ q[1] \in Timers /\ q[1] # NULL
    BY <1>2, <1>5, NodeAssumption
  <2>2. \A i \in 1 .. n : tm[q[1]].sched_time <= tm[q[i]].sched_time
    <3>1. SUFFICES ASSUME NEW i \in 1 .. n PROVE tm[q[1]].sched_time <= tm[q[i]].sched_time
      OBVIOUS
    <3>2. CASE i = 1
      <4>1. tm[q[1]].sched_time \in Nat
        BY <2>1 DEF TimerRecords
      <4> QED BY <3>2, <4>1
    <3>3. CASE i # 1
      BY <1>1, <1>2, <2>1, <3>3 DEF Sorted
    <3> QED BY <3>2, <3>3
  <2> QED BY <1>3, <1>5, <2>1, <2>2
<1> QED BY <1>4, <1>5

(* The order does not depend on anything else in the timers. *)
LEMMA SameQueue ==
  ASSUME NEW h, NEW tm, NEW tn, Queue(h, tm),
         \A u \in Timers : tn[u].sched_time = tm[u].sched_time
  PROVE  Queue(h, tn)
<1>1. PICK n, q : Ring(h, n, q) /\ Sorted(n, q, tm)
  BY DEF Queue
<1>2. q \in [1 .. n -> Timers]
  BY <1>1 DEF Ring
<1>3. Sorted(n, q, tn)
  BY <1>1, <1>2 DEF Sorted
<1> QED BY <1>1, <1>3 DEF Queue

-----------------------------------------------------------------------------
(* The queue in order, of timers that are due after the clock's first      *)
(* millisecond; and what is left of it when the nodes are forgotten: when  *)
(* a timer rings, or 0.                                                    *)
QueueFits ==
  /\ timer \in [Timers -> TimerRecords] /\ Queue(heap, timer)
  /\ \A t \in Timers : list_in_list(heap, t) => timer[t].sched_time >= 1

Due == [t \in Timers |-> IF list_in_list(heap, t) THEN timer[t].sched_time ELSE 0]

(* what a timer may be set to *)
Waits == (Delays \cup {1}) \ {0}

Sets(t) == Due[t] = 0 /\ \E k \in Waits : Due' = [Due EXCEPT ![t] = now + k]

Clears(t) == Due' = [Due EXCEPT ![t] = 0]

LEMMA DueFits ==
  ASSUME QueueFits
  PROVE  \A t \in Timers : /\ Due[t] \in Nat
                           /\ Due[t] # 0 <=> list_in_list(heap, t)
                           /\ Due[t] # 0 => Due[t] = timer[t].sched_time
BY DEF QueueFits, Due, TimerRecords

(* timer_set: one more timer in the queue. *)
LEMMA SetStep ==
  ASSUME QueueFits, now \in Nat, NEW t \in Timers, NEW delay \in Waits,
         NEW period \in Delays \cup {0, 1}, timer_set(t, delay, period)
  PROVE  QueueFits' /\ Sets(t)
<1> DEFINE new == [sched_time |-> now + delay, periodic_time |-> period, callback |-> TRUE]
           tn  == [timer EXCEPT ![t] = new]
           g   == insert_timer_in_queue(heap, tn, t)
<1>1. delay \in Nat \ {0}
  BY TimeAssumption DEF Waits
<1>2. new \in TimerRecords /\ new.sched_time = now + delay /\ now + delay >= 1
  BY <1>1 DEF TimerRecords
<1>3. timer \in [Timers -> TimerRecords] /\ Queue(heap, timer) /\ ~list_in_list(heap, t)
  BY DEF QueueFits, timer_set
<1>4. timer' = tn /\ heap' = g
  BY DEF timer_set
<1> HIDE DEF new
<1>5. /\ Queue(g, tn)
      /\ \A u \in Timers : list_in_list(g, u) <=> list_in_list(heap, u) \/ u = t
  BY ONLY <1>2, <1>3, t \in Timers, InsertQueue
<1>6. tn \in [Timers -> TimerRecords] /\ tn[t] = new /\ \A u \in Timers \ {t} : tn[u] = timer[u]
  BY <1>2, <1>3
<1> HIDE DEF tn, g
<1>7. QueueFits'
  <2>1. timer' \in [Timers -> TimerRecords] /\ Queue(heap', timer')
    BY ONLY <1>4, <1>5, <1>6
  <2>2. \A u \in Timers : list_in_list(heap', u) => timer'[u].sched_time >= 1
    BY ONLY <1>2, <1>4, <1>5, <1>6, QueueFits DEF QueueFits
  <2> QED BY <2>1, <2>2 DEF QueueFits
<1>8. Due' = [Due EXCEPT ![t] = now + delay]
  <2>1. Due' = [u \in Timers |-> IF list_in_list(g, u) THEN tn[u].sched_time ELSE 0]
    BY <1>4 DEF Due
  <2> QED BY <1>2, <1>5, <1>6, <2>1 DEF Due
<1> QED BY <1>3, <1>7, <1>8 DEF Sets, Due

(* timer_cancel: one timer less, if it was in the queue. *)
LEMMA CancelStep ==
  ASSUME QueueFits, NEW t \in Timers, timer_cancel(t)
  PROVE  QueueFits' /\ Clears(t)
<1>1. timer \in [Timers -> TimerRecords] /\ Queue(heap, timer)
  BY DEF QueueFits
<1>2. timer' = [timer EXCEPT ![t].periodic_time = 0, ![t].callback = FALSE]
  BY DEF timer_cancel
<1>3. /\ timer' \in [Timers -> TimerRecords]
      /\ \A u \in Timers : timer'[u].sched_time = timer[u].sched_time
  BY <1>1, <1>2 DEF TimerRecords
<1>4. /\ Queue(heap', timer')
      /\ \A u \in Timers : list_in_list(heap', u) <=> list_in_list(heap, u) /\ u # t
  <2>1. CASE list_in_list(heap, t)
    <3>1. heap' = list_delete(heap, t)
      BY <2>1 DEF timer_cancel
    <3> QED BY ONLY <1>1, <1>3, <2>1, <3>1, t \in Timers, DeleteQueue
  <2>2. CASE ~list_in_list(heap, t)
    <3>1. heap' = heap
      BY <2>2 DEF timer_cancel
    <3>2. Queue(heap, timer')
      BY ONLY <1>1, <1>3, SameQueue
    <3> QED BY <2>2, <3>1, <3>2
  <2> QED BY <2>1, <2>2
<1>5. \A u \in Timers : list_in_list(heap', u) => timer'[u].sched_time >= 1
  BY ONLY <1>3, <1>4, QueueFits DEF QueueFits
<1>6. QueueFits'
  BY <1>3, <1>4, <1>5 DEF QueueFits
<1>7. Due' = [Due EXCEPT ![t] = 0]
  <2>1. Due' = [u \in Timers |-> IF list_in_list(heap', u) THEN timer'[u].sched_time ELSE 0]
    BY DEF Due
  <2> QED BY <1>3, <1>4, <2>1 DEF Due
<1> QED BY <1>6, <1>7 DEF Clears

(* A call from a thread or a callback changes one timer. *)
LEMMA CallStep ==
  ASSUME QueueFits, now \in Nat, NEW S \in SUBSET Timers, TimerCall(S)
  PROVE  QueueFits' /\ \E t \in Timers : Sets(t) \/ Clears(t)
<1>1. PICK t \in S :
         \/ \E ms \in Delays : timer_set_oneshot(t, ms) \/ timer_set_periodic(t, ms)
         \/ timer_cancel(t)
  BY DEF TimerCall
<1>2. t \in Timers
  OBVIOUS
<1>3. ASSUME NEW ms \in Delays, timer_set_oneshot(t, ms) PROVE QueueFits' /\ Sets(t)
  <2>1. (IF ms = 0 THEN 1 ELSE ms) \in Waits /\ 0 \in Delays \cup {0, 1}
    BY DEF Waits
  <2>2. timer_set(t, IF ms = 0 THEN 1 ELSE ms, 0)
    BY <1>3 DEF timer_set_oneshot
  <2> QED BY ONLY QueueFits, now \in Nat, <1>2, <2>1, <2>2, SetStep
<1>4. ASSUME NEW ms \in Delays, timer_set_periodic(t, ms) PROVE QueueFits' /\ Sets(t)
  <2>1. PICK p \in {IF ms = 0 THEN 1 ELSE ms} : timer_set(t, p, p)
    BY <1>4 DEF timer_set_periodic
  <2>2. p \in Waits /\ p \in Delays \cup {0, 1}
    BY DEF Waits
  <2> QED BY ONLY QueueFits, now \in Nat, <1>2, <2>1, <2>2, SetStep
<1>5. ASSUME timer_cancel(t) PROVE QueueFits' /\ Clears(t)
  BY ONLY QueueFits, <1>2, <1>5, CancelStep
<1> QED BY <1>1, <1>2, <1>3, <1>4, <1>5

(* timer_tick takes the timer that is due first off the queue. *)
LEMMA TakeStep ==
  ASSUME QueueFits, now \in Nat, timer_tick_take
  PROVE  /\ QueueFits' /\ running' \in Timers /\ Clears(running')
         /\ Due[running'] # 0 /\ Due[running'] <= now
         /\ \A u \in Timers : Due[u] # 0 => Due[running'] <= Due[u]
<1> DEFINE t == list_peek_head(heap)
<1>1. timer \in [Timers -> TimerRecords] /\ Queue(heap, timer)
  BY DEF QueueFits
<1>2. /\ t # NULL /\ ~(now < timer[t].sched_time) /\ running' = t
      /\ heap' = list_delete(heap, t) /\ timer' = timer
  BY DEF timer_tick_take, HeadIsDue
<1> HIDE DEF t
<1>3. /\ t \in Timers /\ list_in_list(heap, t)
      /\ \A u \in Timers : list_in_list(heap, u) => timer[t].sched_time <= timer[u].sched_time
  BY ONLY <1>1, <1>2, HeadQueue DEF t
<1>4. /\ Queue(heap', timer')
      /\ \A u \in Timers : list_in_list(heap', u) <=> list_in_list(heap, u) /\ u # t
  BY ONLY <1>1, <1>2, <1>3, DeleteQueue
<1>5. QueueFits'
  BY <1>1, <1>2, <1>4 DEF QueueFits
<1>6. Due' = [Due EXCEPT ![t] = 0]
  <2>1. Due' = [u \in Timers |-> IF list_in_list(heap', u) THEN timer[u].sched_time ELSE 0]
    BY <1>2 DEF Due
  <2> QED BY <1>3, <1>4, <2>1 DEF Due
<1>7. Due[t] # 0 /\ Due[t] = timer[t].sched_time /\ Due[t] \in Nat
  BY <1>3, DueFits
<1>8. Due[t] <= now
  BY <1>2, <1>7
<1>9. \A u \in Timers : Due[u] # 0 => Due[t] <= Due[u]
  BY <1>3, <1>7, DueFits
<1> QED BY <1>2, <1>3, <1>5, <1>6, <1>7, <1>8, <1>9 DEF Clears

(* A periodic timer is set again after its callback. *)
LEMMA AgainStep ==
  ASSUME QueueFits, now \in Nat, running \in Timers, timer_tick_again
  PROVE  QueueFits' /\ (Due' = Due \/ Sets(running))
<1> DEFINE p == timer[running].periodic_time
           new == [timer[running] EXCEPT !.sched_time = now + p]
           tn  == [timer EXCEPT ![running] = new]
           g   == insert_timer_in_queue(heap, tn, running)
<1>1. timer \in [Timers -> TimerRecords] /\ Queue(heap, timer) /\ timer[running] \in TimerRecords
  BY DEF QueueFits
<1>2. CASE periodic /\ ~list_in_list(heap, running) /\ timer[running].periodic_time > 0
  <2>1. timer' = tn /\ heap' = g
    BY <1>1, <1>2 DEF timer_tick_again
  <2>2. p \in Waits /\ p \in Nat \ {0}
    <3>1. p \in Delays \cup {0, 1} /\ p > 0
      BY <1>1, <1>2 DEF TimerRecords
    <3>2. Delays \subseteq Nat
      BY TimeAssumption
    <3> HIDE DEF p
    <3> QED BY <3>1, <3>2 DEF Waits
  <2>3. new \in TimerRecords /\ new.sched_time = now + p /\ now + p >= 1
    BY <1>1, <2>2 DEF TimerRecords
  <2> HIDE DEF new, p
  <2>4. /\ Queue(g, tn)
        /\ \A u \in Timers : list_in_list(g, u) <=> list_in_list(heap, u) \/ u = running
    BY ONLY <1>1, <1>2, <2>3, running \in Timers, InsertQueue
  <2>5. /\ tn \in [Timers -> TimerRecords] /\ tn[running] = new
        /\ \A u \in Timers \ {running} : tn[u] = timer[u]
    BY <1>1, <2>3
  <2> HIDE DEF tn, g
  <2>6. QueueFits'
    <3>1. timer' \in [Timers -> TimerRecords] /\ Queue(heap', timer')
      BY ONLY <2>1, <2>4, <2>5
    <3>2. \A u \in Timers : list_in_list(heap', u) => timer'[u].sched_time >= 1
      BY ONLY <2>1, <2>3, <2>4, <2>5, QueueFits DEF QueueFits
    <3> QED BY <3>1, <3>2 DEF QueueFits
  <2>7. Due' = [Due EXCEPT ![running] = now + p]
    <3>1. Due' = [u \in Timers |-> IF list_in_list(g, u) THEN tn[u].sched_time ELSE 0]
      BY <2>1 DEF Due
    <3> QED BY <2>3, <2>4, <2>5, <3>1 DEF Due
  <2> QED BY <1>2, <2>2, <2>6, <2>7 DEF Sets, Due
<1>3. CASE ~(periodic /\ ~list_in_list(heap, running) /\ timer[running].periodic_time > 0)
  <2>1. heap' = heap /\ timer' = timer
    BY <1>3 DEF timer_tick_again
  <2> QED BY <2>1 DEF QueueFits, Due
<1> QED BY <1>2, <1>3

-----------------------------------------------------------------------------
(* The clock: timer_tick has been called once for every whole period that  *)
(* is over, whatever the ticks before were late.                           *)
ClockFits ==
  /\ timer_current_time \in Nat /\ fired \in Nat
  /\ next_trigger_time = (fired + 1) * next_trigger_delta
  /\ fired * next_trigger_delta <= timer_current_time
  /\ timer_current_time < next_trigger_time

LEMMA DivFacts ==
  ASSUME NEW a \in Nat, NEW b \in Nat \ {0}
  PROVE  /\ a \div b \in Nat /\ b * (a \div b) <= a /\ a < b * (a \div b) + b
         /\ \A k \in Nat : b * k <= a => k <= a \div b
BY SMT

(* set_pit_frequency(1000) makes an interrupt every 9.999 milliseconds. *)
LEMMA DeltaFits ==
  /\ timer_delta_time \in Nat /\ 9 * One <= timer_delta_time /\ timer_delta_time < 10 * One
<1>1. PitCount(1000) = 11931
  BY DEF PitCount
<1> QED BY <1>1, TimeAssumption, SMT DEF timer_delta_time

(* Period number f begins at millisecond 10 * f. *)
LEMMA PeriodIs ==
  ASSUME NEW f \in Nat
  PROVE  /\ f * next_trigger_delta \in Nat /\ f * next_trigger_delta = One * (10 * f)
         /\ (f + 1) * next_trigger_delta = f * next_trigger_delta + next_trigger_delta
BY TimeAssumption DEF next_trigger_delta

LEMMA NowFacts ==
  ASSUME ClockFits
  PROVE  now \in Nat /\ 10 * fired \in Nat /\ 10 * fired <= now
<1>1. timer_current_time \in Nat /\ fired \in Nat /\ One * (10 * fired) <= timer_current_time
  BY PeriodIs DEF ClockFits
<1>2. One \in Nat \ {0} /\ 10 * fired \in Nat
  BY <1>1, TimeAssumption
<1>3. /\ timer_current_time \div One \in Nat
      /\ \A k \in Nat : One * k <= timer_current_time => k <= timer_current_time \div One
  BY ONLY <1>1, <1>2, DivFacts
<1> QED BY <1>1, <1>2, <1>3 DEF now, current_time

(* One period and one tick, in milliseconds *)
Lateness == ((next_trigger_delta + timer_delta_time) \div One) - 1

(* An interrupt of the PIT: the clock goes on by a millisecond at least, and not further    *)
(* than Lateness beyond the first millisecond after the last call of timer_tick.            *)
LEMMA TickStep ==
  ASSUME ClockFits, os_timer_tick
  PROVE  ClockFits' /\ now' > now /\ now' - (10 * fired + 1) <= Lateness
<1> DEFINE c == timer_current_time
           d == timer_delta_time
           D == next_trigger_delta
           b == fired * D
<1>1. One \in Nat \ {0} /\ d \in Nat /\ 9 * One <= d /\ d < D /\ D = 10 * One
  BY TimeAssumption, DeltaFits DEF next_trigger_delta
<1>2. /\ c \in Nat /\ fired \in Nat /\ fired + 1 \in Nat
      /\ next_trigger_time = (fired + 1) * D /\ b <= c /\ c < next_trigger_time
  BY DEF ClockFits
<1>3. /\ b \in Nat /\ b = One * (10 * fired) /\ (fired + 1) * D = b + D
      /\ (fired + 1) * D \in Nat /\ ((fired + 1) + 1) * D = (b + D) + D
  BY <1>2, PeriodIs
<1>4. /\ c' = c + d
      /\ IF c' >= next_trigger_time
         THEN next_trigger_time' = NextTrigger(c') /\ fired' = fired + 1
         ELSE next_trigger_time' = next_trigger_time /\ fired' = fired
  BY DEF os_timer_tick
<1> HIDE DEF c, d, D, b
<1>5. ClockFits'
  <2>1. CASE c' >= next_trigger_time
    <3>1. fired' = fired + 1 /\ next_trigger_time' = (b + D) + D
      BY <1>1, <1>2, <1>3, <1>4, <2>1 DEF NextTrigger, D
    <3>2. fired' * D = b + D /\ (fired' + 1) * D = (b + D) + D /\ fired' \in Nat
      BY <1>2, <1>3, <3>1
    <3>3. c' \in Nat /\ b + D <= c' /\ c' < (b + D) + D
      BY <1>1, <1>2, <1>3, <1>4, <2>1
    <3> QED BY ONLY <3>1, <3>2, <3>3 DEF ClockFits, c, D, next_trigger_delta
  <2>2. CASE ~(c' >= next_trigger_time)
    <3>1. c' \in Nat /\ b <= c' /\ c' < next_trigger_time
      BY <1>1, <1>2, <1>3, <1>4, <2>2
    <3>2. fired' = fired /\ next_trigger_time' = next_trigger_time
      BY <1>4, <2>2
    <3> QED BY ONLY <1>2, <3>1, <3>2 DEF ClockFits, c, b, D, next_trigger_delta
  <2> QED BY <2>1, <2>2
<1> DEFINE n == c \div One
           m == c' \div One
           q == (D + d) \div One
<1>6. /\ n \in Nat /\ One * n <= c /\ c < One * n + One
      /\ m \in Nat /\ One * m <= c' /\ c' < One * m + One
      /\ q \in Nat /\ One * q <= D + d /\ D + d < One * q + One
  <2>1. c \in Nat /\ c' \in Nat /\ D + d \in Nat
    BY <1>1, <1>2, <1>4
  <2> QED BY ONLY <1>1, <2>1, DivFacts
<1>7. now = n /\ now' = m /\ Lateness = q - 1
  BY DEF now, current_time, Lateness, c, d, D
<1> HIDE DEF n, m, q
<1>8. m > n
  <2>1. ASSUME m <= n PROVE FALSE
    <3>1. One * m <= One * n
      BY <1>1, <1>6, <2>1
    <3>2. One * m \in Nat /\ One * n \in Nat
      BY <1>1, <1>6
    <3> QED BY <1>1, <1>2, <1>4, <1>6, <3>1, <3>2
  <2> QED BY <1>6, <2>1
<1>9. m - (10 * fired + 1) <= q - 1
  <2>1. ASSUME m >= (10 * fired) + q + 1 PROVE FALSE
    <3>1. One * m >= One * ((10 * fired) + q + 1)
      BY <1>1, <1>2, <1>6, <2>1
    <3>2. One * ((10 * fired) + q + 1) = One * (10 * fired) + One * q + One
      BY <1>1, <1>2, <1>6
    <3>3. One * m \in Nat /\ One * q \in Nat /\ One * (10 * fired) \in Nat
      BY <1>1, <1>2, <1>6
    <3> QED BY <1>1, <1>2, <1>3, <1>4, <1>6, <3>1, <3>2, <3>3
  <2> QED BY <1>2, <1>6, <2>1
<1> QED BY <1>5, <1>7, <1>8, <1>9

-----------------------------------------------------------------------------
(* Outside timer_tick nothing waits that was due when the last period      *)
(* ended, and a timer runs exactly while its callback does.                *)
StageFits ==
  /\ stage \in {"out", "loop", "callback", "after", "done"}
  /\ IF stage \in {"callback", "after"} THEN running \in Timers ELSE running = NULL
  /\ stage \in {"out", "done"} => \A t \in Timers : Due[t] # 0 => Due[t] > 10 * fired

TimersFit == ClockFits /\ QueueFits /\ StageFits

LEMMA TimersInit ==
  ASSUME TimerInit
  PROVE  TimersFit /\ Due = [t \in Timers |-> 0] /\ running = NULL /\ now = 0
<1>1. \A t \in Timers : ~list_in_list(heap, t)
  BY NodeAssumption DEF TimerInit, list_initialize, list_in_list
<1>2. Queue(heap, timer)
  <2> DEFINE q == [i \in 1 .. 0 |-> CHOOSE t \in Timers : TRUE]
  <2>1. q \in [1 .. 0 -> Timers]
    OBVIOUS
  <2>2. Ring(heap, 0, q)
    BY <2>1, InitRing DEF TimerInit
  <2>3. Sorted(0, q, timer)
    BY DEF Sorted
  <2> QED BY <2>2, <2>3 DEF Queue
<1>3. QueueFits
  BY <1>1, <1>2 DEF QueueFits, TimerInit, TimerRecords
<1>4. Due = [t \in Timers |-> 0]
  BY <1>1 DEF Due
<1>5. ClockFits
  <2>1. /\ timer_current_time = 0 /\ fired = 0 /\ next_trigger_time = next_trigger_delta
        /\ next_trigger_delta \in Nat /\ 0 < next_trigger_delta
    BY TimeAssumption DEF TimerInit, next_trigger_delta
  <2> QED BY <2>1 DEF ClockFits
<1>6. StageFits /\ running = NULL
  BY <1>4 DEF TimerInit, StageFits
<1>7. now = 0
  BY TimeAssumption DEF TimerInit, now, current_time
<1> QED BY <1>3, <1>4, <1>5, <1>6, <1>7 DEF TimersFit

(* What a timer is set to comes after the last period. *)
LEMMA SetLater ==
  ASSUME ClockFits, QueueFits, NEW t \in Timers, Sets(t) \/ Clears(t), fired' = fired,
         \A u \in Timers : Due[u] # 0 => Due[u] > 10 * fired
  PROVE  \A u \in Timers : Due'[u] # 0 => Due'[u] > 10 * fired'
<1>1. now \in Nat /\ 10 * fired \in Nat /\ 10 * fired <= now
  BY NowFacts
<1>2. \A k \in Waits : now + k > 10 * fired
  BY <1>1, TimeAssumption DEF Waits
<1>3. DOMAIN Due = Timers
  BY DEF Due
<1> QED BY <1>2, <1>3 DEF Sets, Clears

(* The calls of a thread, ... *)
LEMMA CallFits ==
  ASSUME TimersFit, NEW S \in SUBSET Timers, TimerCall(S), UNCHANGED <<clockVars, tickVars>>
  PROVE  TimersFit' /\ \E t \in Timers : Sets(t) \/ Clears(t)
<1>1. ClockFits /\ QueueFits /\ now \in Nat
  BY NowFacts DEF TimersFit
<1>2. QueueFits' /\ \E t \in Timers : Sets(t) \/ Clears(t)
  BY ONLY <1>1, S \in SUBSET Timers, TimerCall(S), CallStep
<1>3. UNCHANGED <<timer_current_time, next_trigger_time, fired, stage, running>>
  BY DEF clockVars, tickVars
<1>4. ClockFits'
  BY <1>1, <1>3 DEF ClockFits, next_trigger_delta
<1>5. StageFits'
  <2>1. CASE stage \in {"out", "done"}
    <3>1. \A t \in Timers : Due[t] # 0 => Due[t] > 10 * fired
      BY <2>1 DEF TimersFit, StageFits
    <3>2. \A u \in Timers : Due'[u] # 0 => Due'[u] > 10 * fired'
      BY ONLY <1>1, <1>2, <1>3, <3>1, SetLater
    <3> QED BY ONLY <1>3, <3>2, TimersFit DEF TimersFit, StageFits
  <2>2. CASE stage \notin {"out", "done"}
    BY ONLY <1>3, <2>2, TimersFit DEF TimersFit, StageFits
  <2> QED BY <2>1, <2>2
<1> QED BY <1>2, <1>4, <1>5 DEF TimersFit

(* ... of a callback, ... *)
LEMMA CallbackFits ==
  ASSUME TimersFit, NEW S \in SUBSET Timers, callback(S)
  PROVE  /\ TimersFit' /\ UNCHANGED <<now, running>>
         /\ Due' = Due \/ \E t \in Timers : Sets(t) \/ Clears(t)
<1>1. ClockFits /\ QueueFits /\ now \in Nat
  BY NowFacts DEF TimersFit
<1>2. /\ UNCHANGED <<timer_current_time, next_trigger_time, fired, running>>
      /\ stage' = "after" /\ stage = "callback"
      /\ TimerCall(S) \/ UNCHANGED <<heap, timer>>
  BY DEF callback, clockVars
<1>3. QueueFits' /\ (Due' = Due \/ \E t \in Timers : Sets(t) \/ Clears(t))
  <2>1. CASE TimerCall(S)
    BY ONLY <1>1, <2>1, S \in SUBSET Timers, CallStep
  <2>2. CASE UNCHANGED <<heap, timer>>
    BY <1>1, <2>2 DEF QueueFits, Due
  <2> QED BY <1>2, <2>1, <2>2
<1>4. ClockFits' /\ now' = now
  BY <1>1, <1>2 DEF ClockFits, next_trigger_delta, now, current_time
<1>5. StageFits'
  BY <1>2 DEF TimersFit, StageFits
<1> QED BY <1>2, <1>3, <1>4, <1>5 DEF TimersFit

(* ... and the steps of timer_tick itself. *)
LEMMA TakeFits ==
  ASSUME TimersFit, timer_tick_take
  PROVE  /\ TimersFit' /\ now' = now /\ running = NULL
         /\ running' \in Timers /\ Clears(running')
         /\ Due[running'] # 0 /\ Due[running'] <= now
         /\ \A u \in Timers : Due[u] # 0 => Due[running'] <= Due[u]
<1>1. ClockFits /\ QueueFits /\ now \in Nat
  BY NowFacts DEF TimersFit
<1>2. /\ QueueFits' /\ running' \in Timers /\ Clears(running')
      /\ Due[running'] # 0 /\ Due[running'] <= now
      /\ \A u \in Timers : Due[u] # 0 => Due[running'] <= Due[u]
  BY ONLY <1>1, timer_tick_take, TakeStep
<1>3. /\ UNCHANGED <<timer_current_time, next_trigger_time, fired>>
      /\ stage = "loop" /\ stage' = "callback"
  BY DEF timer_tick_take, clockVars
<1>4. ClockFits' /\ now' = now
  BY <1>1, <1>3 DEF ClockFits, next_trigger_delta, now, current_time
<1>5. StageFits' /\ running = NULL
  BY <1>2, <1>3 DEF TimersFit, StageFits
<1> QED BY <1>2, <1>4, <1>5 DEF TimersFit

LEMMA AgainFits ==
  ASSUME TimersFit, timer_tick_again
  PROVE  /\ TimersFit' /\ now' = now /\ running \in Timers /\ running' = NULL
         /\ Due' = Due \/ Sets(running)
<1>1. /\ UNCHANGED <<timer_current_time, next_trigger_time, fired>>
      /\ stage = "after" /\ stage' = "loop" /\ running' = NULL
  BY DEF timer_tick_again, clockVars
<1>2. ClockFits /\ QueueFits /\ now \in Nat /\ running \in Timers
  BY <1>1, NowFacts DEF TimersFit, StageFits
<1>3. QueueFits' /\ (Due' = Due \/ Sets(running))
  BY ONLY <1>2, timer_tick_again, AgainStep
<1>4. ClockFits' /\ now' = now
  BY <1>1, <1>2 DEF ClockFits, next_trigger_delta, now, current_time
<1>5. StageFits'
  BY <1>1 DEF TimersFit, StageFits
<1> QED BY <1>1, <1>2, <1>3, <1>4, <1>5 DEF TimersFit

(* The loop ends when nothing is due. *)
LEMMA EndFits ==
  ASSUME TimersFit, NEW r, timer_tick_end(r)
  PROVE  TimersFit' /\ UNCHANGED <<now, Due, running>>
<1>1. /\ UNCHANGED <<heap, timer, timer_current_time, next_trigger_time, fired, running>>
      /\ stage = "loop" /\ stage' = "done" /\ ~HeadIsDue
  BY DEF timer_tick_end, clockVars
<1>2. ClockFits /\ QueueFits /\ timer \in [Timers -> TimerRecords] /\ Queue(heap, timer)
  BY DEF TimersFit, QueueFits
<1>3. /\ ClockFits' /\ QueueFits' /\ UNCHANGED <<now, Due, running>>
  BY <1>1, <1>2 DEF ClockFits, QueueFits, next_trigger_delta, now, current_time, Due
<1>4. now \in Nat /\ 10 * fired \in Nat /\ 10 * fired <= now
  BY <1>2, NowFacts
<1>5. ASSUME NEW t \in Timers, Due[t] # 0 PROVE Due[t] > 10 * fired
  <2> DEFINE first == list_peek_head(heap)
  <2>1. /\ list_in_list(heap, t) /\ Due[t] = timer[t].sched_time /\ Due[t] \in Nat
    BY <1>2, <1>5, DueFits
  <2>2. /\ first = NULL => \A u \in Timers : ~list_in_list(heap, u)
        /\ first # NULL =>
              /\ first \in Timers
              /\ \A u \in Timers : list_in_list(heap, u)
                   => timer[first].sched_time <= timer[u].sched_time
    BY ONLY <1>2, HeadQueue
  <2>3. first # NULL => now < timer[first].sched_time
    BY <1>1 DEF HeadIsDue
  <2> HIDE DEF first
  <2>4. first \in Timers /\ timer[first].sched_time <= Due[t] /\ now < timer[first].sched_time
    BY <2>1, <2>2, <2>3
  <2>5. timer[first].sched_time \in Nat
    BY <1>2, <2>4 DEF TimerRecords
  <2> QED BY <1>4, <2>1, <2>4, <2>5
<1>6. StageFits'
  <2>1. running' = NULL
    BY <1>1 DEF TimersFit, StageFits
  <2> QED BY <1>1, <1>3, <1>5, <2>1 DEF StageFits
<1> QED BY <1>3, <1>6 DEF TimersFit

(* The interrupt of the PIT. *)
LEMMA TickFits ==
  ASSUME TimersFit, os_timer_tick
  PROVE  /\ TimersFit' /\ running = NULL /\ UNCHANGED <<Due, running>> /\ now' > now
         /\ \A t \in Timers : Due[t] # 0 => now' - Due[t] <= Lateness
<1>1. /\ UNCHANGED <<heap, timer, running>> /\ stage = "out"
      /\ stage' = "loop" \/ (stage' = "done" /\ fired' = fired)
  BY DEF os_timer_tick
<1>2. ClockFits /\ QueueFits /\ StageFits
  BY DEF TimersFit
<1>3. ClockFits' /\ now' > now /\ now' - (10 * fired + 1) <= Lateness
  BY ONLY <1>2, os_timer_tick, TickStep
<1>4. QueueFits' /\ Due' = Due
  BY <1>1, <1>2 DEF QueueFits, Due
<1>5. running = NULL /\ \A t \in Timers : Due[t] # 0 => Due[t] > 10 * fired
  BY <1>1, <1>2 DEF StageFits
<1>6. StageFits'
  BY <1>1, <1>4, <1>5 DEF StageFits
<1>7. ASSUME NEW t \in Timers, Due[t] # 0 PROVE now' - Due[t] <= Lateness
  <2>1. Due[t] \in Nat /\ Due[t] > 10 * fired
    BY <1>2, <1>5, <1>7, DueFits
  <2>2. now' \in Nat /\ 10 * fired \in Nat
    <3>1. timer_current_time' \in Nat
      BY <1>3 DEF ClockFits
    <3>2. timer_current_time' \div One \in Nat
      BY <3>1, TimeAssumption, DivFacts
    <3> QED BY <1>2, <3>2, NowFacts DEF now, current_time
  <2>3. Lateness \in Int
    <3>1. next_trigger_delta + timer_delta_time \in Nat
      BY DeltaFits, TimeAssumption DEF next_trigger_delta
    <3>2. (next_trigger_delta + timer_delta_time) \div One \in Nat
      BY ONLY <3>1, TimeAssumption, DivFacts
    <3> QED BY ONLY <3>2 DEF Lateness
  <2> HIDE DEF Lateness, now
  <2> QED BY <1>3, <2>1, <2>2, <2>3
<1> QED BY <1>1, <1>3, <1>4, <1>5, <1>6, <1>7 DEF TimersFit

(* The end of the interrupt, and interrupts of others. *)
LEMMA OtherFits ==
  ASSUME TimersFit, UNCHANGED <<heap, timer, timer_current_time, next_trigger_time, fired, running>>,
         stage' = stage \/ {stage, stage'} \subseteq {"out", "done"}
  PROVE  TimersFit' /\ UNCHANGED <<now, Due, running>>
<1>1. ClockFits /\ QueueFits /\ StageFits
  BY DEF TimersFit
<1>2. ClockFits' /\ QueueFits' /\ UNCHANGED <<now, Due, running>>
  BY <1>1 DEF ClockFits, QueueFits, next_trigger_delta, now, current_time, Due
<1>3. StageFits'
  <2>1. CASE stage' = stage
    BY <1>1, <1>2, <2>1 DEF StageFits
  <2>2. CASE {stage, stage'} \subseteq {"out", "done"}
    BY <1>1, <1>2, <2>2 DEF StageFits
  <2> QED BY <2>1, <2>2
<1> QED BY <1>2, <1>3 DEF TimersFit
==============================================================================
