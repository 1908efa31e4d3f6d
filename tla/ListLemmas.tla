------------------------------ MODULE ListLemmas ------------------------------
(***************************************************************************)
(* What the list operations of module Lists and the minimum of a set of    *)
(* naturals return.                                                        *)
(***************************************************************************)
EXTENDS Lists, SequenceTheorems, WellFoundedInduction, TLAPS

(* The lowest set bit that get_new_thread scans for exists. *)
LEMMA MinIsLeast ==
  ASSUME NEW b \in SUBSET Nat, b # {}
  PROVE  Min(b) \in b /\ \A y \in b : Min(b) <= y
<1>1. PICK x \in b : \A y \in b : ~(<<y, x>> \in OpToRel(<, Nat))
  BY NatLessThanWellFounded, WFMin
<1>2. ASSUME NEW y \in b PROVE x <= y
  <2>1. y < x => <<y, x>> \in OpToRel(<, Nat)
    BY Zenon DEF OpToRel
  <2>2. ~(y < x)
    BY <1>1, <2>1, Zenon
  <2> QED BY <2>2, SMT
<1> QED BY <1>2 DEF Min

(* list_add_tail keeps the elements and adds one. *)
LEMMA AddTailType ==
  ASSUME NEW S, NEW s \in Seq(S), NEW x \in S
  PROVE  list_add_tail(s, x) \in Seq(S) /\ ~list_is_empty(list_add_tail(s, x))
BY AppendProperties DEF list_add_tail, list_is_empty

(* list_add_head is list_add_tail. *)
LEMMA AddHeadType ==
  ASSUME NEW S, NEW s \in Seq(S), NEW x \in S
  PROVE  list_add_head(s, x) \in Seq(S) /\ ~list_is_empty(list_add_head(s, x))
BY AppendProperties DEF list_add_head, list_is_empty

(* The first element of a list that is not empty, and the others. *)
LEMMA RemoveHeadType ==
  ASSUME NEW S, NEW s \in Seq(S), ~list_is_empty(s)
  PROVE  Head(s) \in S /\ list_remove_head(s) \in Seq(S)
BY HeadTailProperties, EmptySeq DEF list_is_empty, list_remove_head

(* Without one of its elements a list is of the same kind. *)
LEMMA RemoveAtType ==
  ASSUME NEW S, NEW s \in Seq(S), NEW i \in DOMAIN s
  PROVE  RemoveAt(s, i) \in Seq(S)
<1>1. i \in 1 .. Len(s) /\ Len(s) \in Nat /\ \A j \in 1 .. Len(s) : s[j] \in S
  BY LenProperties, ElementOfSeq
<1>2. SubSeq(s, 1, i - 1) \in Seq(S)
  BY <1>1, SubSeqProperties
<1>3. SubSeq(s, i + 1, Len(s)) \in Seq(S)
  BY <1>1, SubSeqProperties
<1> QED BY <1>2, <1>3, ConcatProperties DEF RemoveAt

(* list_delete returns a list of the same kind. *)
LEMMA DeleteType ==
  ASSUME NEW S, NEW s \in Seq(S), NEW x
  PROVE  list_delete(s, x) \in Seq(S)
<1>1. CASE ~list_in_list(s, x)
  BY <1>1 DEF list_delete
<1>2. CASE list_in_list(s, x)
  <2>1. (CHOOSE j \in DOMAIN s : s[j] = x) \in DOMAIN s
    BY <1>2 DEF list_in_list, Range
  <2> QED BY <1>2, <2>1, RemoveAtType DEF list_delete
<1> QED BY <1>1, <1>2

(* list_add_before an element returns a list of the same kind. *)
LEMMA AddBeforeType ==
  ASSUME NEW S, NEW s \in Seq(S), NEW x \in S, NEW i \in DOMAIN s
  PROVE  list_add_before(s, i, x) \in Seq(S)
<1>1. i \in 1 .. Len(s) /\ Len(s) \in Nat /\ \A j \in 1 .. Len(s) : s[j] \in S
  BY LenProperties, ElementOfSeq
<1>2. SubSeq(s, 1, i - 1) \in Seq(S) /\ SubSeq(s, i, Len(s)) \in Seq(S)
  BY <1>1, SubSeqProperties
<1>3. <<x>> \in Seq(S)
  OBVIOUS
<1>4. SubSeq(s, 1, i - 1) \o <<x>> \in Seq(S)
  BY <1>2, <1>3, ConcatProperties
<1> QED BY <1>2, <1>4, ConcatProperties DEF list_add_before, InsertAt

-----------------------------------------------------------------------------
(* What the operations do to the elements of a list, for the invariants    *)
(* that say that a thread is in a list once and in which.                  *)

(* Membership by position. *)
LEMMA InListAt ==
  ASSUME NEW S, NEW s \in Seq(S), NEW x
  PROVE  /\ list_in_list(s, x) <=> \E i \in 1 .. Len(s) : s[i] = x
         /\ list_in_list(s, x) => x \in S
BY LenProperties, ElementOfSeq DEF list_in_list, Range

(* The last element is the new one, and nothing else changes. *)
LEMMA AddTail ==
  ASSUME NEW S, NEW s \in Seq(S), NEW x \in S
  PROVE  /\ list_add_tail(s, x) \in Seq(S)
         /\ Len(list_add_tail(s, x)) = Len(s) + 1
         /\ Range(list_add_tail(s, x)) = Range(s) \cup {x}
<1> DEFINE a == list_add_tail(s, x)
<1>1. /\ a \in Seq(S) /\ Len(a) = Len(s) + 1 /\ Len(s) \in Nat
      /\ DOMAIN a = 1 .. Len(s) + 1 /\ DOMAIN s = 1 .. Len(s)
      /\ \A i \in 1 .. Len(s) : a[i] = s[i]
      /\ a[Len(s) + 1] = x
  BY AppendProperties, LenProperties DEF list_add_tail
<1> HIDE DEF a
<1>2. Range(a) = Range(s) \cup {x}
  BY <1>1 DEF Range
<1> QED BY <1>1, <1>2 DEF a

(* An element that was not in the list is in it once. *)
LEMMA AddTailDistinct ==
  ASSUME NEW S, NEW s \in Seq(S), NEW x \in S, IsInjective(s), ~list_in_list(s, x)
  PROVE  IsInjective(list_add_tail(s, x))
<1> DEFINE a == list_add_tail(s, x)
<1>1. /\ Len(s) \in Nat
      /\ DOMAIN a = 1 .. Len(s) + 1 /\ DOMAIN s = 1 .. Len(s)
      /\ \A i \in 1 .. Len(s) : a[i] = s[i]
      /\ a[Len(s) + 1] = x
  BY AppendProperties, LenProperties DEF list_add_tail
<1> HIDE DEF a
<1>2. IsInjective(a)
  BY <1>1 DEF IsInjective, list_in_list, Range
<1> QED BY <1>2 DEF a

(* The list without its first element. *)
LEMMA RemoveHead ==
  ASSUME NEW S, NEW s \in Seq(S), ~list_is_empty(s)
  PROVE  LET b == list_remove_head(s) IN
         /\ b \in Seq(S) /\ Len(s) \in Nat /\ Len(b) = Len(s) - 1
         /\ Head(s) \in S /\ list_in_list(s, Head(s)) /\ Head(s) = s[1]
         /\ \A i \in 1 .. Len(b) : b[i] = s[i + 1]
         /\ IsInjective(s) => IsInjective(b) /\ Range(b) = Range(s) \ {Head(s)}
<1> DEFINE b == list_remove_head(s)
<1>1. /\ b \in Seq(S) /\ Len(s) \in Nat \ {0} /\ Len(b) = Len(s) - 1
      /\ Head(s) \in S /\ \A i \in 1 .. Len(b) : b[i] = s[i + 1]
      /\ DOMAIN b = 1 .. Len(b) /\ DOMAIN s = 1 .. Len(s)
  BY HeadTailProperties, EmptySeq, LenProperties DEF list_is_empty, list_remove_head
<1>2. Head(s) = s[1]
  OBVIOUS
<1> HIDE DEF b
<1>3. list_in_list(s, Head(s))
  BY <1>1, <1>2 DEF list_in_list, Range
<1>4. ASSUME IsInjective(s) PROVE IsInjective(b)
  <2>1. ASSUME NEW i \in 1 .. Len(b), NEW j \in 1 .. Len(b), b[i] = b[j] PROVE i = j
    <3>1. /\ i + 1 \in DOMAIN s /\ j + 1 \in DOMAIN s /\ i \in Int /\ j \in Int
          /\ s[i + 1] = s[j + 1]
      BY <1>1, <2>1
    <3>2. i + 1 = j + 1
      BY <1>4, <3>1 DEF IsInjective
    <3> QED BY <3>1, <3>2
  <2> QED BY <1>1, <2>1 DEF IsInjective
<1>5. ASSUME IsInjective(s) PROVE Range(b) = Range(s) \ {Head(s)}
  <2>1. ASSUME NEW i \in 1 .. Len(b) PROVE b[i] \in Range(s) /\ b[i] # Head(s)
    <3>1. b[i] = s[i + 1] /\ i + 1 \in DOMAIN s /\ 1 \in DOMAIN s /\ i + 1 # 1
      BY <1>1
    <3> QED BY <3>1, <1>2, <1>5 DEF IsInjective, Range
  <2>2. ASSUME NEW i \in 1 .. Len(s), s[i] # Head(s) PROVE s[i] \in Range(b)
    <3>1. i - 1 \in 1 .. Len(b) /\ (i - 1) + 1 = i
      BY <1>1, <1>2, <2>2
    <3> QED BY <1>1, <3>1 DEF Range
  <2> QED BY <1>1, <2>1, <2>2 DEF Range
<1> QED BY <1>1, <1>2, <1>3, <1>4, <1>5 DEF b

(* Element by element, a list without the one at k. *)
LEMMA RemoveAtElements ==
  ASSUME NEW S, NEW s \in Seq(S), NEW k \in 1 .. Len(s)
  PROVE  LET b == RemoveAt(s, k) IN
         /\ b \in Seq(S) /\ Len(s) \in Nat /\ Len(b) = Len(s) - 1
         /\ \A i \in 1 .. Len(b) : b[i] = IF i < k THEN s[i] ELSE s[i + 1]
<1> DEFINE u == SubSeq(s, 1, k - 1)
           v == SubSeq(s, k + 1, Len(s))
<1>1. Len(s) \in Nat /\ k \in Int /\ \A j \in 1 .. Len(s) : s[j] \in S
  BY LenProperties, ElementOfSeq
<1>2. /\ u \in Seq(S) /\ Len(u) = k - 1
      /\ \A i \in 1 .. k - 1 : u[i] = s[i]
  <2>1. /\ u \in Seq(S) /\ Len(u) = IF 1 <= k - 1 THEN (k - 1) - 1 + 1 ELSE 0
        /\ \A i \in 1 .. (k - 1) - 1 + 1 : u[i] = s[1 + i - 1]
    <3>1. 1 \in Int /\ k - 1 \in Int /\ \A i \in 1 .. k - 1 : s[i] \in S
      BY <1>1
    <3> QED BY <3>1, SubSeqProperties
  <2> HIDE DEF u
  <2> QED BY <1>1, <2>1
<1>3. /\ v \in Seq(S) /\ Len(v) = Len(s) - k
      /\ \A i \in 1 .. Len(s) - k : v[i] = s[k + i]
  <2>1. /\ v \in Seq(S) /\ Len(v) = IF k + 1 <= Len(s) THEN Len(s) - (k + 1) + 1 ELSE 0
        /\ \A i \in 1 .. Len(s) - (k + 1) + 1 : v[i] = s[(k + 1) + i - 1]
    <3>1. k + 1 \in Int /\ Len(s) \in Int /\ \A i \in k + 1 .. Len(s) : s[i] \in S
      BY <1>1
    <3> QED BY <3>1, SubSeqProperties
  <2> HIDE DEF v
  <2> QED BY <1>1, <2>1
<1>4. RemoveAt(s, k) = u \o v
  BY DEF RemoveAt
<1> HIDE DEF u, v
<1>5. /\ u \o v \in Seq(S) /\ Len(u \o v) = Len(u) + Len(v)
      /\ \A i \in 1 .. Len(u) + Len(v) :
            (u \o v)[i] = IF i <= Len(u) THEN u[i] ELSE v[i - Len(u)]
  BY <1>2, <1>3, ConcatProperties
<1>6. Len(u \o v) = Len(s) - 1
  BY <1>1, <1>2, <1>3, <1>5
<1>7. ASSUME NEW i \in 1 .. Len(s) - 1
      PROVE  (u \o v)[i] = IF i < k THEN s[i] ELSE s[i + 1]
  <2>1. (u \o v)[i] = IF i <= k - 1 THEN u[i] ELSE v[i - (k - 1)]
    BY <1>1, <1>2, <1>3, <1>5
  <2>2. CASE i < k
    BY <1>1, <1>2, <2>1, <2>2
  <2>3. CASE ~(i < k)
    <3>1. i - (k - 1) \in 1 .. Len(s) - k /\ k + (i - (k - 1)) = i + 1
      BY <1>1, <2>3
    <3>2. v[i - (k - 1)] = s[i + 1]
      BY <1>3, <3>1
    <3> QED BY <1>1, <2>1, <2>3, <3>2
  <2> QED BY <2>2, <2>3
<1> QED BY <1>1, <1>4, <1>5, <1>6, <1>7

(* Element by element, a list with x put before its element k. *)
PutBefore(a, s, k, x) ==
  /\ Len(s) \in Nat /\ Len(a) = Len(s) + 1
  /\ \A i \in 1 .. Len(a) :
        a[i] = IF i < k THEN s[i] ELSE IF i = k THEN x ELSE s[i - 1]

LEMMA InsertAtElements ==
  ASSUME NEW S, NEW s \in Seq(S), NEW x \in S, NEW k \in 1 .. Len(s)
  PROVE  /\ list_add_before(s, k, x) \in Seq(S)
         /\ PutBefore(list_add_before(s, k, x), s, k, x)
<1> DEFINE u == SubSeq(s, 1, k - 1)
           v == SubSeq(s, k, Len(s))
           w == u \o <<x>>
<1>1. Len(s) \in Nat /\ k \in Int /\ \A j \in 1 .. Len(s) : s[j] \in S
  BY LenProperties, ElementOfSeq
<1>2. /\ u \in Seq(S) /\ Len(u) = k - 1
      /\ \A i \in 1 .. k - 1 : u[i] = s[i]
  <2>1. /\ u \in Seq(S) /\ Len(u) = IF 1 <= k - 1 THEN (k - 1) - 1 + 1 ELSE 0
        /\ \A i \in 1 .. (k - 1) - 1 + 1 : u[i] = s[1 + i - 1]
    <3>1. 1 \in Int /\ k - 1 \in Int /\ \A i \in 1 .. k - 1 : s[i] \in S
      BY <1>1
    <3> QED BY <3>1, SubSeqProperties
  <2> HIDE DEF u
  <2> QED BY <1>1, <2>1
<1>3. /\ v \in Seq(S) /\ Len(v) = Len(s) - k + 1
      /\ \A i \in 1 .. Len(s) - k + 1 : v[i] = s[k + i - 1]
  <2>1. /\ v \in Seq(S) /\ Len(v) = IF k <= Len(s) THEN Len(s) - k + 1 ELSE 0
        /\ \A i \in 1 .. Len(s) - k + 1 : v[i] = s[k + i - 1]
    <3>1. k \in Int /\ Len(s) \in Int /\ \A i \in k .. Len(s) : s[i] \in S
      BY <1>1
    <3> QED BY <3>1, SubSeqProperties
  <2> HIDE DEF v
  <2> QED BY <1>1, <2>1
<1>4. list_add_before(s, k, x) = w \o v
  BY DEF list_add_before, InsertAt
<1>5. <<x>> \in Seq(S) /\ Len(<<x>>) = 1 /\ <<x>>[1] = x
  OBVIOUS
<1> HIDE DEF u, v, w
<1>6. /\ w \in Seq(S) /\ Len(w) = k
      /\ \A i \in 1 .. k : w[i] = IF i < k THEN s[i] ELSE x
  <2>1. /\ w \in Seq(S) /\ Len(w) = Len(u) + Len(<<x>>)
        /\ \A i \in 1 .. Len(u) + Len(<<x>>) :
              w[i] = IF i <= Len(u) THEN u[i] ELSE <<x>>[i - Len(u)]
    BY <1>2, <1>5, ConcatProperties DEF w
  <2> QED BY <1>1, <1>2, <1>5, <2>1
<1>7. /\ w \o v \in Seq(S) /\ Len(w \o v) = Len(w) + Len(v)
      /\ \A i \in 1 .. Len(w) + Len(v) :
            (w \o v)[i] = IF i <= Len(w) THEN w[i] ELSE v[i - Len(w)]
  BY <1>3, <1>6, ConcatProperties
<1>8. Len(w \o v) = Len(s) + 1
  BY <1>1, <1>3, <1>6, <1>7
<1>9. ASSUME NEW i \in 1 .. Len(s) + 1
      PROVE  (w \o v)[i] = IF i < k THEN s[i] ELSE IF i = k THEN x ELSE s[i - 1]
  <2>1. (w \o v)[i] = IF i <= k THEN w[i] ELSE v[i - k]
    BY <1>1, <1>3, <1>6, <1>7
  <2>2. CASE i <= k
    BY <1>1, <1>6, <2>1, <2>2
  <2>3. CASE ~(i <= k)
    <3>1. i - k \in 1 .. Len(s) - k + 1 /\ k + (i - k) - 1 = i - 1
      BY <1>1, <2>3
    <3>2. v[i - k] = s[i - 1]
      BY <1>3, <3>1
    <3> QED BY <1>1, <2>1, <2>3, <3>2
  <2> QED BY <2>2, <2>3
<1>10. PutBefore(w \o v, s, k, x)
  <2> DEFINE a == w \o v
  <2>1. Len(a) = Len(s) + 1 /\ Len(s) \in Nat
    BY <1>1, <1>8
  <2>2. \A i \in 1 .. Len(s) + 1 :
           a[i] = IF i < k THEN s[i] ELSE IF i = k THEN x ELSE s[i - 1]
    BY <1>9
  <2> HIDE DEF a
  <2>3. PutBefore(a, s, k, x)
    BY ONLY <2>1, <2>2 DEF PutBefore
  <2> QED BY <2>3 DEF a
<1> QED BY <1>4, <1>7, <1>10

(* A list whose elements come in the order f gives them. *)
OrderedBy(s, f) == \A i, j \in DOMAIN s : i < j => f[s[i]] <= f[s[j]]

(* list_delete takes one element off and keeps the order of the others. *)
LEMMA Delete ==
  ASSUME NEW S, NEW s \in Seq(S), NEW x, list_in_list(s, x), IsInjective(s)
  PROVE  LET b == list_delete(s, x) IN
         /\ b \in Seq(S) /\ Len(s) \in Nat /\ Len(b) = Len(s) - 1
         /\ IsInjective(b) /\ Range(b) = Range(s) \ {x}
         /\ \A f : OrderedBy(s, f) => OrderedBy(b, f)
<1> DEFINE k == CHOOSE j \in DOMAIN s : s[j] = x
           b == RemoveAt(s, k)
<1>1. list_delete(s, x) = b
  BY DEF list_delete
<1>2. DOMAIN s = 1 .. Len(s) /\ Len(s) \in Nat
  BY LenProperties
<1>3. k \in 1 .. Len(s) /\ s[k] = x
  BY <1>2 DEF list_in_list, Range
<1> HIDE DEF k
<1>4. /\ b \in Seq(S) /\ Len(b) = Len(s) - 1
      /\ \A i \in 1 .. Len(b) : b[i] = IF i < k THEN s[i] ELSE s[i + 1]
  BY <1>3, RemoveAtElements
<1>5. DOMAIN b = 1 .. Len(s) - 1
  BY <1>4, LenProperties
<1> DEFINE at(i) == IF i < k THEN i ELSE i + 1
<1>6. /\ \A i \in DOMAIN b : at(i) \in DOMAIN s /\ at(i) # k /\ b[i] = s[at(i)]
      /\ \A i, j \in DOMAIN b : i < j => at(i) < at(j)
      /\ \A j \in DOMAIN s : j # k => \E i \in DOMAIN b : at(i) = j
  <2>1. ASSUME NEW i \in DOMAIN b
        PROVE  at(i) \in DOMAIN s /\ at(i) # k /\ b[i] = s[at(i)]
    BY <1>2, <1>3, <1>4, <1>5
  <2>2. ASSUME NEW i \in DOMAIN b, NEW j \in DOMAIN b, i < j PROVE at(i) < at(j)
    BY <1>2, <1>3, <1>5, <2>2
  <2>3. ASSUME NEW j \in DOMAIN s, j # k PROVE \E i \in DOMAIN b : at(i) = j
    <3>1. CASE j < k
      BY <1>2, <1>3, <1>5, <3>1
    <3>2. CASE ~(j < k)
      <4>1. j - 1 \in DOMAIN b /\ at(j - 1) = j
        BY <1>2, <1>3, <1>5, <2>3, <3>2
      <4> QED BY <4>1
    <3> QED BY <3>1, <3>2
  <2> QED BY <2>1, <2>2, <2>3
<1> HIDE DEF b, at
<1>7. IsInjective(b)
  <2>1. ASSUME NEW i \in DOMAIN b, NEW j \in DOMAIN b, b[i] = b[j], i # j PROVE FALSE
    <3>1. at(i) = at(j)
      BY <1>6, <2>1 DEF IsInjective
    <3>2. i < j \/ j < i
      BY <1>2, <1>5, <2>1
    <3>3. at(i) < at(j) \/ at(j) < at(i)
      BY <1>6, <3>2
    <3>4. at(i) \in Int
      BY <1>2, <1>6
    <3> QED BY <3>1, <3>3, <3>4
  <2> QED BY <2>1 DEF IsInjective
<1>8. Range(b) = Range(s) \ {x}
  <2>1. ASSUME NEW i \in DOMAIN b PROVE b[i] \in Range(s) \ {x}
    BY <1>2, <1>3, <1>6 DEF IsInjective, Range
  <2>2. ASSUME NEW j \in DOMAIN s, s[j] # x PROVE s[j] \in Range(b)
    BY <1>3, <1>6, <2>2 DEF Range
  <2> QED BY <2>1, <2>2 DEF Range
<1>9. \A f : OrderedBy(s, f) => OrderedBy(b, f)
  BY <1>6 DEF OrderedBy
<1> QED BY <1>1, <1>2, <1>4, <1>7, <1>8, <1>9

(* The new last element is not before any other. *)
LEMMA AddTailOrdered ==
  ASSUME NEW S, NEW s \in Seq(S), NEW x \in S, ~list_in_list(s, x),
         NEW f \in [S -> Nat], NEW d \in Nat, OrderedBy(s, f),
         \A i \in DOMAIN s : f[s[i]] <= d
  PROVE  OrderedBy(list_add_tail(s, x), [f EXCEPT ![x] = d])
<1> DEFINE a == list_add_tail(s, x)
           g == [f EXCEPT ![x] = d]
<1>1. /\ DOMAIN a = 1 .. Len(s) + 1 /\ DOMAIN s = 1 .. Len(s) /\ Len(s) \in Nat
      /\ \A i \in 1 .. Len(s) : a[i] = s[i]
      /\ a[Len(s) + 1] = x
  BY AppendProperties, LenProperties DEF list_add_tail
<1>2. \A i \in 1 .. Len(s) : s[i] \in S /\ s[i] # x
  BY <1>1, ElementOfSeq DEF list_in_list, Range
<1> HIDE DEF a
<1>3. \A i \in 1 .. Len(s) : g[a[i]] = f[s[i]]
  BY <1>1, <1>2
<1>4. g[a[Len(s) + 1]] = d
  BY <1>1
<1> HIDE DEF g
<1>5. OrderedBy(a, g)
  BY <1>1, <1>3, <1>4 DEF OrderedBy
<1> QED BY <1>5 DEF a, g

(* An element put before another is one more element. *)
LEMMA AddBefore ==
  ASSUME NEW S, NEW s \in Seq(S), NEW x \in S, ~list_in_list(s, x),
         NEW k \in 1 .. Len(s)
  PROVE  LET a == list_add_before(s, k, x) IN
         /\ Range(a) = Range(s) \cup {x}
         /\ IsInjective(s) => IsInjective(a)
<1> DEFINE a == list_add_before(s, k, x)
           at(i) == IF i < k THEN i ELSE i - 1
<1>1. /\ DOMAIN s = 1 .. Len(s) /\ Len(s) \in Nat /\ k \in Int
      /\ \A i \in 1 .. Len(s) : s[i] # x
  BY LenProperties DEF list_in_list, Range
<1>2. a \in Seq(S) /\ PutBefore(a, s, k, x)
  BY InsertAtElements
<1> HIDE DEF a
<1>3. /\ DOMAIN a = 1 .. Len(s) + 1
      /\ \A i \in DOMAIN a : a[i] = IF i < k THEN s[i] ELSE IF i = k THEN x ELSE s[i - 1]
  BY <1>2, LenProperties DEF PutBefore
<1>4. k \in DOMAIN a /\ a[k] = x
  BY <1>1, <1>2, <1>3
<1>5. ASSUME NEW i \in DOMAIN a, i # k PROVE at(i) \in DOMAIN s /\ a[i] = s[at(i)]
  BY <1>1, <1>2, <1>3, <1>5
<1>6. ASSUME NEW j \in DOMAIN s PROVE \E i \in DOMAIN a : i # k /\ at(i) = j
  <2>1. CASE j < k
    <3>1. j \in DOMAIN a /\ j # k /\ at(j) = j
      BY <1>1, <1>3, <2>1
    <3> QED BY <3>1
  <2>2. CASE ~(j < k)
    <3>1. j + 1 \in DOMAIN a /\ j + 1 # k /\ at(j + 1) = j
      BY <1>1, <1>3, <2>2
    <3> QED BY <3>1
  <2> QED BY <2>1, <2>2
<1>7. ASSUME NEW i \in DOMAIN a, NEW j \in DOMAIN a, i # k, j # k, at(i) = at(j)
      PROVE  i = j
  BY <1>1, <1>3, <1>7
<1> HIDE DEF at
<1>8. Range(a) = Range(s) \cup {x}
  <2>1. ASSUME NEW i \in DOMAIN a PROVE a[i] \in Range(s) \cup {x}
    BY <1>4, <1>5 DEF Range
  <2>2. ASSUME NEW j \in DOMAIN s PROVE s[j] \in Range(a)
    BY <1>5, <1>6 DEF Range
  <2>3. x \in Range(a)
    BY <1>4 DEF Range
  <2> QED BY <2>1, <2>2, <2>3 DEF Range
<1>9. ASSUME IsInjective(s) PROVE IsInjective(a)
  <2>1. ASSUME NEW i \in DOMAIN a, i # k PROVE a[i] # x
    BY <1>1, <1>5, <2>1
  <2>2. ASSUME NEW i \in DOMAIN a, NEW j \in DOMAIN a, a[i] = a[j] PROVE i = j
    <3>1. CASE i = k \/ j = k
      BY <1>4, <2>1, <2>2, <3>1
    <3>2. CASE i # k /\ j # k
      <4>1. at(i) = at(j)
        BY <1>5, <1>9, <2>2, <3>2 DEF IsInjective
      <4> QED BY <1>7, <3>2, <4>1
    <3> QED BY <3>1, <3>2
  <2> QED BY <2>2 DEF IsInjective
<1> QED BY <1>8, <1>9 DEF a

(* Put before the first later one, an element comes in order. *)
LEMMA AddBeforeOrdered ==
  ASSUME NEW S, NEW s \in Seq(S), NEW x \in S, ~list_in_list(s, x),
         NEW k \in 1 .. Len(s),
         NEW f \in [S -> Nat], NEW d \in Nat, OrderedBy(s, f),
         f[s[k]] > d, \A i \in DOMAIN s : i < k => f[s[i]] <= d
  PROVE  OrderedBy(list_add_before(s, k, x), [f EXCEPT ![x] = d])
<1> DEFINE a == list_add_before(s, k, x)
           g == [f EXCEPT ![x] = d]
<1>1. /\ DOMAIN s = 1 .. Len(s) /\ Len(s) \in Nat /\ k \in Int
      /\ \A i \in 1 .. Len(s) : s[i] \in S /\ s[i] # x
  BY LenProperties, ElementOfSeq DEF list_in_list, Range
<1>2. DOMAIN a = 1 .. Len(s) + 1
      /\ \A i \in 1 .. Len(s) + 1 :
            a[i] = IF i < k THEN s[i] ELSE IF i = k THEN x ELSE s[i - 1]
  <2>1. a \in Seq(S) /\ PutBefore(a, s, k, x)
    BY InsertAtElements
  <2> HIDE DEF a
  <2> QED BY <2>1, LenProperties DEF PutBefore
<1>3. /\ \A i \in 1 .. Len(s) : g[s[i]] = f[s[i]] /\ f[s[i]] \in Nat
      /\ g[x] = d
  BY <1>1
<1>4. /\ \A i, j \in 1 .. Len(s) : i < j => f[s[i]] <= f[s[j]]
      /\ \A i \in 1 .. Len(s) : i < k => f[s[i]] <= d
      /\ f[s[k]] > d
  BY <1>1 DEF OrderedBy
<1> HIDE DEF a, g
<1>5. \A i \in 1 .. Len(s) : k <= i => f[s[i]] > d
  <2>1. ASSUME NEW i \in 1 .. Len(s), k < i PROVE f[s[i]] > d
    <3>1. f[s[k]] <= f[s[i]] /\ f[s[i]] \in Nat /\ f[s[k]] \in Nat
      BY <1>3, <1>4, <2>1
    <3> QED BY <1>4, <3>1
  <2> QED BY <1>1, <1>4, <2>1
<1>6. \A i \in 1 .. Len(s) + 1 :
         g[a[i]] = IF i < k THEN f[s[i]] ELSE IF i = k THEN d ELSE f[s[i - 1]]
  <2> SUFFICES ASSUME NEW i \in 1 .. Len(s) + 1
               PROVE  g[a[i]] = IF i < k THEN f[s[i]] ELSE IF i = k THEN d ELSE f[s[i - 1]]
    OBVIOUS
  <2>1. a[i] = IF i < k THEN s[i] ELSE IF i = k THEN x ELSE s[i - 1]
    BY <1>2
  <2>2. CASE i < k
    <3>1. i \in 1 .. Len(s)
      BY ONLY <1>1, <2>2, k \in 1 .. Len(s), i \in 1 .. Len(s) + 1
    <3> QED BY <1>3, <2>1, <2>2, <3>1
  <2>3. CASE i = k
    BY <1>1, <1>3, <2>1, <2>3
  <2>4. CASE ~(i < k) /\ i # k
    <3>1. i - 1 \in 1 .. Len(s)
      BY ONLY <1>1, <2>4, k \in 1 .. Len(s), i \in 1 .. Len(s) + 1
    <3> QED BY <1>3, <2>1, <2>4, <3>1
  <2> QED BY <2>2, <2>3, <2>4
<1>7. ASSUME NEW i \in 1 .. Len(s) + 1, NEW j \in 1 .. Len(s) + 1, i < j
      PROVE  g[a[i]] <= g[a[j]]
  <2> DEFINE m == IF i < k THEN i ELSE i - 1
             n == IF j < k THEN j ELSE j - 1
  <2>1. i # k => m \in 1 .. Len(s) /\ g[a[i]] = f[s[m]] /\ f[s[m]] \in Nat
    BY <1>1, <1>3, <1>6
  <2>2. j # k => n \in 1 .. Len(s) /\ g[a[j]] = f[s[n]] /\ f[s[n]] \in Nat
    BY <1>1, <1>3, <1>6
  <2>3. CASE i = k
    <3>1. g[a[i]] = d /\ j # k /\ k <= n
      BY <1>1, <1>6, <1>7, <2>3
    <3> QED BY <1>5, <2>2, <3>1
  <2>4. CASE j = k
    <3>1. g[a[j]] = d /\ i # k /\ m < k
      BY <1>1, <1>6, <1>7, <2>4
    <3> QED BY <1>4, <2>1, <3>1
  <2>5. CASE i # k /\ j # k
    <3>1. m < n \/ m = n
      BY <1>1, <1>7, <2>5
    <3>2. f[s[m]] <= f[s[n]]
      <4> HIDE DEF m, n
      <4>1. m \in 1 .. Len(s) /\ n \in 1 .. Len(s) /\ f[s[n]] \in Nat
        BY <2>1, <2>2, <2>5
      <4>2. CASE m < n
        BY <1>4, <4>1, <4>2
      <4>3. CASE m = n
        BY <4>1, <4>3
      <4> QED BY <3>1, <4>2, <4>3
    <3> HIDE DEF m, n
    <3> QED BY <2>1, <2>2, <2>5, <3>2
  <2> QED BY <2>3, <2>4, <2>5
<1> QED BY <1>2, <1>7 DEF OrderedBy, a, g
-----------------------------------------------------------------------------
(* Who comes before whom, for the order in which threads are served. *)
LEMMA BeforeAt ==
  ASSUME NEW s, NEW u, NEW x
  PROVE  u \in Before(s, x) <=> \E j, k \in DOMAIN s : j < k /\ s[j] = u /\ s[k] = x
BY DEF Before

(* The new last one has all the others before it, and is before nobody. *)
LEMMA BeforeAddTail ==
  ASSUME NEW S, NEW s \in Seq(S), NEW x \in S, ~list_in_list(s, x)
  PROVE  /\ Before(list_add_tail(s, x), x) = Range(s)
         /\ \A y \in Range(s) : Before(list_add_tail(s, x), y) = Before(s, y)
<1> DEFINE a == list_add_tail(s, x)
           n == Len(s)
<1>1. /\ n \in Nat /\ DOMAIN a = 1 .. n + 1 /\ DOMAIN s = 1 .. n
      /\ \A i \in 1 .. n : a[i] = s[i]
      /\ a[n + 1] = x
  BY AppendProperties, LenProperties DEF list_add_tail
<1>2. \A i \in 1 .. n : s[i] # x
  BY <1>1 DEF list_in_list, Range
<1> HIDE DEF a, n
<1>3. ASSUME NEW u PROVE u \in Before(a, x) <=> u \in Range(s)
  <2>1. ASSUME u \in Before(a, x) PROVE u \in Range(s)
    <3>1. PICK j, k \in DOMAIN a : j < k /\ a[j] = u /\ a[k] = x
      BY <2>1, BeforeAt
    <3>2. j \in 1 .. n
      BY <1>1, <3>1
    <3> QED BY <1>1, <3>1, <3>2 DEF Range
  <2>2. ASSUME u \in Range(s) PROVE u \in Before(a, x)
    <3>1. PICK j \in 1 .. n : s[j] = u
      BY <1>1, <2>2 DEF Range
    <3>2. j \in DOMAIN a /\ n + 1 \in DOMAIN a /\ j < n + 1 /\ a[j] = u
      BY <1>1, <3>1
    <3> QED BY <1>1, <3>2, BeforeAt
  <2> QED BY <2>1, <2>2
<1>4. ASSUME NEW y \in Range(s), NEW u PROVE u \in Before(a, y) <=> u \in Before(s, y)
  <2>1. y # x
    BY <1>1, <1>2 DEF Range
  <2>2. ASSUME u \in Before(a, y) PROVE u \in Before(s, y)
    <3>1. PICK j, k \in DOMAIN a : j < k /\ a[j] = u /\ a[k] = y
      BY <2>2, BeforeAt
    <3>2. k # n + 1
      BY <1>1, <2>1, <3>1
    <3>3. j \in DOMAIN s /\ k \in DOMAIN s
      BY <1>1, <3>1, <3>2
    <3>4. s[j] = u /\ s[k] = y
      BY <1>1, <3>1, <3>3
    <3> QED BY <3>1, <3>3, <3>4, BeforeAt
  <2>3. ASSUME u \in Before(s, y) PROVE u \in Before(a, y)
    <3>1. PICK j, k \in DOMAIN s : j < k /\ s[j] = u /\ s[k] = y
      BY <2>3, BeforeAt
    <3>2. j \in DOMAIN a /\ k \in DOMAIN a /\ a[j] = u /\ a[k] = y
      BY <1>1, <3>1
    <3> QED BY <3>1, <3>2, BeforeAt
  <2> QED BY <2>2, <2>3
<1> QED BY <1>3, <1>4 DEF a

(* The first one has nobody before it, and is before all the others. *)
LEMMA BeforeRemoveHead ==
  ASSUME NEW S, NEW s \in Seq(S), ~list_is_empty(s), IsInjective(s)
  PROVE  /\ Before(s, Head(s)) = {}
         /\ \A y \in Range(s) \ {Head(s)} :
               Before(list_remove_head(s), y) = Before(s, y) \ {Head(s)}
<1> DEFINE b == list_remove_head(s)
           n == Len(b)
           h == Head(s)
<1>1. /\ b \in Seq(S) /\ n \in Nat /\ Len(s) = n + 1 /\ h = s[1]
      /\ \A i \in 1 .. n : b[i] = s[i + 1]
  BY RemoveHead, LenProperties
<1>2. DOMAIN b = 1 .. n /\ DOMAIN s = 1 .. n + 1
  BY <1>1, LenProperties
<1> HIDE DEF b, n, h
<1>3. \A i \in DOMAIN s : s[i] = h => i = 1
  BY <1>1, <1>2 DEF IsInjective
<1>4. ASSUME NEW u PROVE u \notin Before(s, h)
  <2>1. ASSUME NEW j \in DOMAIN s, NEW k \in DOMAIN s, j < k, s[k] = h PROVE FALSE
    <3>1. k = 1
      BY <1>3, <2>1
    <3> QED BY <1>2, <2>1, <3>1
  <2> QED BY <2>1, BeforeAt
<1>5. ASSUME NEW y \in Range(s) \ {h}, NEW u
      PROVE  u \in Before(b, y) <=> u \in Before(s, y) /\ u # h
  <2>1. ASSUME u \in Before(b, y) PROVE u \in Before(s, y) /\ u # h
    <3>1. PICK j, k \in DOMAIN b : j < k /\ b[j] = u /\ b[k] = y
      BY <2>1, BeforeAt
    <3>2. /\ j + 1 \in DOMAIN s /\ k + 1 \in DOMAIN s /\ j + 1 < k + 1 /\ j + 1 # 1
          /\ s[j + 1] = u /\ s[k + 1] = y
      BY <1>1, <1>2, <3>1
    <3> QED BY <1>3, <3>2, BeforeAt
  <2>2. ASSUME u \in Before(s, y), u # h PROVE u \in Before(b, y)
    <3>1. PICK j, k \in DOMAIN s : j < k /\ s[j] = u /\ s[k] = y
      BY <2>2, BeforeAt
    <3>2. j # 1
      BY <1>1, <2>2, <3>1
    <3>3. /\ j - 1 \in 1 .. n /\ k - 1 \in 1 .. n /\ j - 1 < k - 1
          /\ (j - 1) + 1 = j /\ (k - 1) + 1 = k
      BY <1>1, <1>2, <3>1, <3>2
    <3>4. b[j - 1] = u /\ b[k - 1] = y
      BY <1>1, <3>1, <3>3
    <3> QED BY <1>2, <3>3, <3>4, BeforeAt
  <2> QED BY <2>1, <2>2
<1>6. ASSUME NEW y \in Range(s) \ {h} PROVE Before(b, y) = Before(s, y) \ {h}
  BY <1>5
<1> QED BY <1>4, <1>6 DEF b, h
=============================================================================
