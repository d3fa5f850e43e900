-------------------------- MODULE TimerListProofs --------------------------
(***************************************************************************)
(* TLAPS proofs about TimerList: the doubly linked list spells one         *)
(* sequence of the allocated timers, ordered by expiry, in both            *)
(* directions, and so it implements the set of deadlines of TimerSet.      *)
(***************************************************************************)
EXTENDS TimerList, FiniteSetTheorems, TLAPS

\* The sequence a list spells from its head: each node once, next and prev
\* inverse to each other, NULL at both ends, tail the last one.
Spells(l, s) ==
  /\ \A i, j \in 1..Len(s) : s[i] = s[j] => i = j
  /\ l.head = IF Len(s) = 0 THEN NULL ELSE s[1]
  /\ Len(s) > 0 => l.tail = s[Len(s)]
  /\ \A i \in 1..Len(s) : l.next[s[i]] = IF i = Len(s) THEN NULL ELSE s[i + 1]
  /\ \A i \in 1..Len(s) : l.prev[s[i]] = IF i = 1 THEN NULL ELSE s[i - 1]

Sorted(s, ex) == \A i, j \in 1..Len(s) : i <= j => ex[s[i]] <= ex[s[j]]

\* The nodes of s are those of the set A.
Covers(s, A) ==
  /\ \A i \in 1..Len(s) : s[i] \in A
  /\ \A t \in A : \E i \in 1..Len(s) : s[i] = t

\* No timer outside of the set A is linked.
Loose(l, A) == \A t \in Timers \ A : l.next[t] = NULL /\ l.prev[t] = NULL

IsList(s) ==
  /\ Spells(Now, s)
  /\ Sorted(s, expire)
  /\ Covers(s, allocated)

\* The inductive invariant.
ListInv ==
  /\ TypeOK
  /\ Loose(Now, allocated)
  /\ \E s \in Seq(Timers) : IsList(s)

\* The records that the operators on links take and return.
ListType == [head : Timers \cup {NULL}, tail : Timers \cup {NULL},
             prev : [Timers -> Timers \cup {NULL}],
             next : [Timers -> Timers \cup {NULL}]]
-----------------------------------------------------------------------------
\* Every nonempty set of natural numbers has a least element.
LEMMA Least ==
  ASSUME NEW T \in SUBSET Nat, T # {}
  PROVE  \E n \in T : \A m \in T : n <= m
<1>1. PICK n \in T : \A m \in T : ~ (<<m, n>> \in OpToRel(<, Nat))
  BY WFMin, NatLessThanWellFounded
<1>2. \A m \in T : n <= m
  <2>1. SUFFICES ASSUME NEW m \in T, m < n PROVE FALSE
    BY SMT
  <2>2. <<m, n>> \in OpToRel(<, Nat)
    BY <2>1 DEF OpToRel
  <2>3. QED BY <1>1, <2>2
<1>3. QED BY <1>2

\* A sequence in which no timer occurs twice is no longer than Timers.
LEMMA NoLongerThanTimers ==
  ASSUME NEW s \in Seq(Timers), \A i, j \in 1..Len(s) : s[i] = s[j] => i = j
  PROVE  Len(s) \in Nat /\ Cardinality(Timers) \in Nat /\ Len(s) <= Cardinality(Timers)
<1>1. Len(s) \in Nat /\ s \in [1..Len(s) -> Timers]
  OBVIOUS
<1>2. s \in Injection(1..Len(s), Timers)
  BY <1>1 DEF Injection, IsInjective
<1>3. Cardinality(1..Len(s)) <= Cardinality(Timers)
  BY <1>2, FS_Injection, TimersAssumption
<1>4. Cardinality(1..Len(s)) = Len(s)
  BY <1>1, FS_Interval
<1>5. QED BY <1>1, <1>3, <1>4, FS_CardinalityType, TimersAssumption

\* From follows the links of a chain of distinct timers to its end.
LEMMA FromSpells ==
  ASSUME NEW s \in Seq(Timers), NEW nx, NEW node,
         \A i, j \in 1..Len(s) : s[i] = s[j] => i = j,
         node = IF Len(s) = 0 THEN NULL ELSE s[1],
         \A i \in 1..Len(s) : nx[s[i]] = IF i = Len(s) THEN NULL ELSE s[i + 1]
  PROVE  From(nx, node) = s
<1> DEFINE N == Cardinality(Timers)
           Step(f) == [k \in 0..N |->
                         IF k = 0 THEN node
                         ELSE IF f[k - 1] = NULL THEN NULL ELSE nx[f[k - 1]]]
           g == [k \in 0..N |-> IF k < Len(s) THEN s[k + 1] ELSE NULL]
           walk == CHOOSE f : f = Step(f)
<1>1. Len(s) \in Nat /\ N \in Nat /\ Len(s) <= N
  BY NoLongerThanTimers
<1>2. \A i \in 1..Len(s) : s[i] \in Timers /\ s[i] # NULL
  BY NullAssumption
<1>3. \A k \in 0..N : k = 0 => g[k] = node
  BY <1>1
<1>4. \A k \in 0..N : k # 0 => g[k] = IF g[k - 1] = NULL THEN NULL ELSE nx[g[k - 1]]
  <2>1. SUFFICES ASSUME NEW k \in 0..N, k # 0
                 PROVE  g[k] = IF g[k - 1] = NULL THEN NULL ELSE nx[g[k - 1]]
    OBVIOUS
  <2>2. k \in Nat /\ k - 1 \in 0..N
    BY <1>1, <2>1
  <2>3. CASE k - 1 < Len(s)
    <3>1. k \in 1..Len(s) /\ g[k - 1] = s[k] /\ s[k] # NULL
      BY <1>1, <1>2, <2>1, <2>2, <2>3
    <3>2. nx[s[k]] = IF k = Len(s) THEN NULL ELSE s[k + 1]
      BY <3>1
    <3>3. g[k] = IF k = Len(s) THEN NULL ELSE s[k + 1]
      BY <1>1, <2>2, <2>3, <3>1
    <3>4. QED BY <3>1, <3>2, <3>3
  <2>4. CASE ~ (k - 1 < Len(s))
    BY <1>1, <2>2, <2>4
  <2>5. QED BY <2>3, <2>4
<1>5. g = Step(g)
  BY <1>3, <1>4
<1>6. walk = Step(walk)
  BY <1>5
<1> HIDE DEF walk
<1>7. \A k \in 0..N : walk[k] = g[k]
  <2> DEFINE T == {k \in 0..N : walk[k] # g[k]}
  <2>1. SUFFICES ASSUME T # {} PROVE FALSE
    OBVIOUS
  <2>a. T \in SUBSET Nat
    BY <1>1
  <2>2. PICK k \in T : \A m \in T : k <= m
    <3> HIDE DEF T
    <3>1. QED BY <2>a, <2>1, Least
  <2>3. walk[k] # g[k] /\ k \in 0..N
    BY <2>2
  <2>4. CASE k = 0
    BY <2>3, <2>4, <1>6, <1>3
  <2>5. CASE k # 0
    <3>a. k - 1 \in 0..N /\ ~ (k <= k - 1)
      BY <1>1, <2>3, <2>5
    <3>1. k - 1 \in 0..N /\ k - 1 \notin T
      <4> HIDE DEF T
      <4>1. QED BY <3>a, <2>2
    <3>2. walk[k - 1] = g[k - 1]
      BY <3>1
    <3>3. walk[k] = IF walk[k - 1] = NULL THEN NULL ELSE nx[walk[k - 1]]
      BY <1>6, <2>3, <2>5
    <3>4. QED BY <1>4, <2>3, <2>5, <3>2, <3>3
  <2>6. QED BY <2>4, <2>5
<1>8. {i \in 0..N : walk[i] # NULL} = 0..(Len(s) - 1)
  BY <1>1, <1>2, <1>7
<1>9. Cardinality(0..(Len(s) - 1)) = Len(s)
  <2>1. 0 \in Int /\ Len(s) - 1 \in Int
    BY <1>1
  <2>2. Cardinality(0..(Len(s) - 1)) = IF 0 > Len(s) - 1 THEN 0 ELSE (Len(s) - 1) - 0 + 1
    BY <2>1, FS_Interval
  <2>3. QED BY <1>1, <2>2
<1>10. From(nx, node) = [k \in 1..Cardinality({i \in 0..N : walk[i] # NULL}) |-> walk[k - 1]]
  BY DEF From, walk
<1>11. From(nx, node) = [k \in 1..Len(s) |-> walk[k - 1]]
  BY <1>8, <1>9, <1>10
<1>12. \A k \in 1..Len(s) : walk[k - 1] = s[k]
  BY <1>1, <1>7
<1>13. QED BY <1>11, <1>12
-----------------------------------------------------------------------------
\* The sequence with t put at place q, and the one without its place q.
Inserted(s, q, t) ==
  [i \in 1..(Len(s) + 1) |-> IF i < q THEN s[i] ELSE IF i = q THEN t ELSE s[i - 1]]
Without(s, q) == [i \in 1..(Len(s) - 1) |-> IF i < q THEN s[i] ELSE s[i + 1]]

LEMMA InsertedShape ==
  ASSUME NEW s \in Seq(Timers), NEW q \in 1..(Len(s) + 1), NEW t \in Timers
  PROVE  LET u == Inserted(s, q, t)
         IN /\ u \in Seq(Timers) /\ Len(u) = Len(s) + 1
            /\ \A i \in 1..Len(s) : i < q => u[i] = s[i]
            /\ u[q] = t
            /\ \A i \in 1..Len(s) : q <= i => u[i + 1] = s[i]
            /\ \A j \in 1..Len(u) : j < q \/ j = q \/ (j > q /\ u[j] = s[j - 1])
<1> DEFINE u == Inserted(s, q, t)
           n == Len(s)
<1>1. n \in Nat /\ \A i \in 1..n : s[i] \in Timers
  OBVIOUS
<1>2. u = [i \in 1..(n + 1) |-> IF i < q THEN s[i] ELSE IF i = q THEN t ELSE s[i - 1]]
  BY DEF Inserted
<1> HIDE DEF u
<1>3. \A i \in 1..(n + 1) : u[i] \in Timers
  BY <1>1, <1>2
<1>4. u \in [1..(n + 1) -> Timers]
  BY <1>2, <1>3
<1>5. u \in Seq(Timers) /\ Len(u) = n + 1
  BY <1>1, <1>4
<1>6. \A i \in 1..n : i < q => u[i] = s[i]
  BY <1>1, <1>2
<1>7. u[q] = t
  BY <1>1, <1>2
<1>8. \A i \in 1..n : q <= i => u[i + 1] = s[i]
  BY <1>1, <1>2
<1>9. \A j \in 1..Len(u) : j < q \/ j = q \/ (j > q /\ u[j] = s[j - 1])
  BY <1>1, <1>2, <1>5
<1>10. QED BY <1>5, <1>6, <1>7, <1>8, <1>9 DEF u

LEMMA InsertedLen ==
  ASSUME NEW s \in Seq(Timers), NEW q \in 1..(Len(s) + 1), NEW t \in Timers
  PROVE  /\ Inserted(s, q, t) \in Seq(Timers) /\ Len(Inserted(s, q, t)) = Len(s) + 1
         /\ Inserted(s, q, t)[q] = t
BY InsertedShape

LEMMA InsertedAlone ==
  ASSUME NEW s \in Seq(Timers), Len(s) = 0, NEW t \in Timers
  PROVE  /\ 1 \in 1..(Len(s) + 1) /\ Len(Inserted(s, 1, t)) = 1
         /\ Inserted(s, 1, t)[1] = t
<1>1. 1 \in 1..(Len(s) + 1) /\ Len(s) + 1 = 1
  OBVIOUS
<1>2. Len(Inserted(s, 1, t)) = Len(s) + 1 /\ Inserted(s, 1, t)[1] = t
  BY <1>1, InsertedLen
<1>3. QED BY <1>1, <1>2

LEMMA WithoutShape ==
  ASSUME NEW s \in Seq(Timers), NEW q \in 1..Len(s)
  PROVE  LET u == Without(s, q)
         IN /\ u \in Seq(Timers) /\ Len(u) = Len(s) - 1
            /\ \A i \in 1..Len(u) : u[i] = IF i < q THEN s[i] ELSE s[i + 1]
<1> DEFINE u == Without(s, q)
           n == Len(s)
<1>1. n \in Nat /\ \A i \in 1..n : s[i] \in Timers
  OBVIOUS
<1>2. u = [i \in 1..(n - 1) |-> IF i < q THEN s[i] ELSE s[i + 1]]
  BY DEF Without
<1> HIDE DEF u
<1>3. u \in [1..(n - 1) -> Timers] /\ n - 1 \in Nat
  BY <1>1, <1>2
<1>4. u \in Seq(Timers) /\ Len(u) = n - 1
  BY <1>3
<1>5. QED BY <1>2, <1>4 DEF u

\* Inserted puts a new timer among distinct ones and, between an earlier and a
\* later one, keeps them sorted.
LEMMA InsertedDistinct ==
  ASSUME NEW s \in Seq(Timers), NEW q \in 1..(Len(s) + 1), NEW t \in Timers,
         \A i, j \in 1..Len(s) : s[i] = s[j] => i = j,
         \A i \in 1..Len(s) : s[i] # t
  PROVE  LET u == Inserted(s, q, t)
         IN \A i, j \in 1..Len(u) : u[i] = u[j] => i = j
<1> DEFINE u == Inserted(s, q, t)
<1>1. u \in Seq(Timers) /\ Len(u) = Len(s) + 1 /\ Len(s) \in Nat
  <2>1. u \in Seq(Timers) /\ Len(u) = Len(s) + 1
    BY InsertedLen
  <2>2. Len(s) \in Nat
    OBVIOUS
  <2>3. QED BY <2>1, <2>2
<1>2. \A i \in 1..Len(u) : u[i] = IF i < q THEN s[i] ELSE IF i = q THEN t ELSE s[i - 1]
  BY <1>1, InsertedShape DEF Inserted
<1> HIDE DEF u
<1>3. SUFFICES ASSUME NEW i \in 1..Len(u), NEW j \in 1..Len(u), u[i] = u[j], i < j
               PROVE  FALSE
  <2>1. \A i, j \in 1..Len(u) : u[i] = u[j] => ~ (i < j)
    BY <1>3
  <2>2. \A i, j \in 1..Len(u) : u[i] = u[j] => i = j
    BY <1>1, <2>1
  <2>3. QED BY <2>2 DEF u
<1>4. CASE j < q
  BY <1>1, <1>2, <1>3, <1>4
<1>5. CASE j = q
  BY <1>1, <1>2, <1>3, <1>5
<1>6. CASE i = q
  BY <1>1, <1>2, <1>3, <1>6
<1>7. CASE i < q /\ q < j
  <2>1. i \in 1..Len(s) /\ j - 1 \in 1..Len(s) /\ u[i] = s[i] /\ u[j] = s[j - 1] /\ i # j - 1
    BY <1>1, <1>2, <1>7
  <2>2. QED BY <1>3, <2>1
<1>8. CASE q < i
  BY <1>1, <1>2, <1>3, <1>8
<1>9. QED BY <1>1, <1>3, <1>4, <1>5, <1>6, <1>7, <1>8

LEMMA InsertedSorted ==
  ASSUME NEW s \in Seq(Timers), NEW q \in 1..(Len(s) + 1), NEW t \in Timers,
         NEW ex \in [Timers -> Int], Sorted(s, ex),
         \A i \in 1..Len(s) : i < q => ex[s[i]] <= ex[t],
         \A i \in 1..Len(s) : q <= i => ex[t] <= ex[s[i]]
  PROVE  Sorted(Inserted(s, q, t), ex)
<1> DEFINE u == Inserted(s, q, t)
<1>1. u \in Seq(Timers) /\ Len(u) = Len(s) + 1 /\ Len(s) \in Nat
  BY InsertedShape
<1>2. \A i \in 1..Len(u) : u[i] = IF i < q THEN s[i] ELSE IF i = q THEN t ELSE s[i - 1]
  BY <1>1, InsertedShape DEF Inserted
<1>3. \A i \in 1..Len(s) : s[i] \in Timers /\ ex[s[i]] \in Int
  BY <1>1
<1> HIDE DEF u
<1>4. SUFFICES ASSUME NEW i \in 1..Len(u), NEW j \in 1..Len(u), i <= j
               PROVE  ex[u[i]] <= ex[u[j]]
  BY DEF u, Sorted
<1>5. CASE j < q
  <2>a. i < q /\ i \in 1..Len(s) /\ j \in 1..Len(s)
    BY <1>1, <1>4, <1>5
  <2>1. i \in 1..Len(s) /\ j \in 1..Len(s) /\ u[i] = s[i] /\ u[j] = s[j]
    BY <1>2, <1>5, <2>a
  <2>2. QED BY <1>4, <2>1 DEF Sorted
<1>6. CASE j = q /\ i < q
  <2>1. i \in 1..Len(s) /\ u[i] = s[i] /\ u[j] = t
    BY <1>1, <1>2, <1>4, <1>6
  <2>2. QED BY <1>6, <2>1
<1>7. CASE i = q /\ j = q
  BY <1>1, <1>2, <1>7
<1>8. CASE i = q /\ q < j
  <2>1. j - 1 \in 1..Len(s) /\ q <= j - 1 /\ u[j] = s[j - 1] /\ u[i] = t
    BY <1>1, <1>2, <1>8
  <2>2. QED BY <2>1
<1>9. CASE i < q /\ q < j
  <2>1. i \in 1..Len(s) /\ j - 1 \in 1..Len(s) /\ u[i] = s[i] /\ u[j] = s[j - 1] /\ i <= j - 1
    BY <1>1, <1>2, <1>9
  <2>2. QED BY <2>1 DEF Sorted
<1>10. CASE q < i
  <2>1. i - 1 \in 1..Len(s) /\ j - 1 \in 1..Len(s) /\ u[i] = s[i - 1] /\ u[j] = s[j - 1]
        /\ i - 1 <= j - 1
    BY <1>1, <1>2, <1>4, <1>10
  <2>2. QED BY <2>1 DEF Sorted
<1>11. QED BY <1>1, <1>4, <1>5, <1>6, <1>7, <1>8, <1>9, <1>10
-----------------------------------------------------------------------------
\* The links add_timer sets put t into the sequence: before its place q, ...
LEMMA SpliceMiddle ==
  ASSUME NEW l \in ListType, NEW s \in Seq(Timers), Spells(l, s),
         NEW t \in Timers, \A i \in 1..Len(s) : s[i] # t, NEW q \in 2..Len(s)
  PROVE  Spells(Links(l.head, l.tail,
                      [l.prev EXCEPT ![s[q]] = t, ![t] = s[q - 1]],
                      [l.next EXCEPT ![s[q - 1]] = t, ![t] = s[q]]),
                Inserted(s, q, t))
<1> DEFINE u == Inserted(s, q, t)
           n == Len(s)
           pv == [l.prev EXCEPT ![s[q]] = t, ![t] = s[q - 1]]
           nx == [l.next EXCEPT ![s[q - 1]] = t, ![t] = s[q]]
<1>1. n \in Nat /\ q \in 1..(n + 1) /\ q - 1 \in 1..n /\ q \in 1..n
  OBVIOUS
<1>2. u \in Seq(Timers) /\ Len(u) = n + 1
  BY <1>1, InsertedShape
<1>3. \A i \in 1..(n + 1) : u[i] = IF i < q THEN s[i] ELSE IF i = q THEN t ELSE s[i - 1]
  BY <1>1 DEF Inserted
<1>4. \A i, j \in 1..(n + 1) : u[i] = u[j] => i = j
  <2>1. \A i, j \in 1..Len(s) : s[i] = s[j] => i = j
    BY DEF Spells
  <2>2. \A i, j \in 1..Len(u) : u[i] = u[j] => i = j
    BY <1>1, <2>1, InsertedDistinct
  <2>3. QED BY <1>2, <2>2
<1>5. \A i \in 1..n : /\ s[i] \in Timers /\ s[i] # t
                      /\ \A j \in 1..n : s[i] = s[j] => i = j
                      /\ l.next[s[i]] = IF i = n THEN NULL ELSE s[i + 1]
                      /\ l.prev[s[i]] = IF i = 1 THEN NULL ELSE s[i - 1]
  <2>1. \A i \in 1..n : s[i] \in Timers /\ s[i] # t
    OBVIOUS
  <2>2. QED BY <2>1 DEF Spells
<1>6. l.prev \in [Timers -> Timers \cup {NULL}] /\ l.next \in [Timers -> Timers \cup {NULL}]
  BY DEF ListType
<1>7. /\ nx[s[q - 1]] = t /\ nx[t] = s[q]
      /\ \A i \in 1..n : i # q - 1 => nx[s[i]] = l.next[s[i]]
  BY <1>1, <1>5, <1>6
<1>8. /\ pv[s[q]] = t /\ pv[t] = s[q - 1]
      /\ \A i \in 1..n : i # q => pv[s[i]] = l.prev[s[i]]
  BY <1>1, <1>5, <1>6
<1> HIDE DEF u, pv, nx
<1>9. \A i \in 1..(n + 1) : nx[u[i]] = IF i = n + 1 THEN NULL ELSE u[i + 1]
  <2>1. TAKE i \in 1..(n + 1)
  <2>2. CASE i < q - 1
    <3>1. i \in 1..n /\ i # n /\ u[i] = s[i] /\ u[i + 1] = s[i + 1] /\ i # n + 1 /\ i # q - 1
      BY <1>1, <1>3, <2>2
    <3>2. QED BY <3>1, <1>5, <1>7
  <2>3. CASE i = q - 1
    BY <1>1, <1>3, <1>7, <2>3
  <2>4. CASE i = q
    BY <1>1, <1>3, <1>7, <2>4
  <2>5. CASE q < i
    <3>1. i - 1 \in 1..n /\ i - 1 # q - 1 /\ u[i] = s[i - 1]
      BY <1>1, <1>3, <2>5
    <3>a. \A k \in 1..n : k # q - 1 => nx[s[k]] = IF k = n THEN NULL ELSE s[k + 1]
      BY <1>5, <1>7
    <3>2. nx[u[i]] = IF i - 1 = n THEN NULL ELSE s[(i - 1) + 1]
      BY <3>1, <3>a
    <3>b. i - 1 # n => i + 1 \in 1..(n + 1) /\ ~ (i + 1 < q) /\ i + 1 # q /\ (i + 1) - 1 = i
      BY <1>1, <2>5
    <3>3. i - 1 # n => i + 1 \in 1..(n + 1) /\ u[i + 1] = s[i]
      BY <1>3, <3>b
    <3>4. QED BY <1>1, <3>1, <3>2, <3>3
  <2>6. QED BY <1>1, <2>2, <2>3, <2>4, <2>5
<1>10. \A i \in 1..(n + 1) : pv[u[i]] = IF i = 1 THEN NULL ELSE u[i - 1]
  <2>1. TAKE i \in 1..(n + 1)
  <2>2. CASE i < q
    <3>1. i \in 1..n /\ u[i] = s[i] /\ i # q
      BY <1>1, <1>3, <2>2
    <3>2. i # 1 => u[i - 1] = s[i - 1]
      BY <1>1, <1>3, <2>2
    <3>3. pv[u[i]] = IF i = 1 THEN NULL ELSE s[i - 1]
      BY <3>1, <1>5, <1>8
    <3>4. QED BY <3>2, <3>3
  <2>3. CASE i = q
    BY <1>1, <1>3, <1>8, <2>3
  <2>4. CASE i = q + 1
    <3>1. u[i] = s[q] /\ u[i - 1] = t /\ i # 1
      BY <1>1, <1>3, <2>4
    <3>2. QED BY <1>8, <3>1
  <2>5. CASE q + 1 < i
    <3>1. i - 1 \in 1..n /\ i - 1 # q /\ u[i] = s[i - 1] /\ i # 1 /\ i - 1 # 1
      BY <1>1, <1>3, <2>5
    <3>a. pv[u[i]] = l.prev[s[i - 1]]
      BY <3>1, <1>8
    <3>b. l.prev[s[i - 1]] = IF i - 1 = 1 THEN NULL ELSE s[(i - 1) - 1]
      BY <3>1, <1>5
    <3>2. pv[u[i]] = s[(i - 1) - 1]
      BY <3>1, <3>a, <3>b
    <3>3. u[i - 1] = s[(i - 1) - 1]
      BY <1>1, <1>3, <2>5
    <3>4. QED BY <3>1, <3>2, <3>3
  <2>6. QED BY <1>1, <2>2, <2>3, <2>4, <2>5
<1>11. u[1] = s[1] /\ u[n + 1] = s[n] /\ l.head = s[1] /\ l.tail = s[n]
  BY <1>1, <1>3 DEF Spells
<1>12. Spells(Links(l.head, l.tail, pv, nx), u)
  BY <1>1, <1>2, <1>4, <1>9, <1>10, <1>11 DEF Spells, Links
<1>13. QED BY <1>12 DEF u, pv, nx

\* ... behind the last one, ...
LEMMA SpliceTail ==
  ASSUME NEW l \in ListType, NEW s \in Seq(Timers), Spells(l, s), Len(s) > 0,
         NEW t \in Timers, \A i \in 1..Len(s) : s[i] # t
  PROVE  Spells(Links(l.head, t, [l.prev EXCEPT ![t] = s[Len(s)]],
                      [l.next EXCEPT ![s[Len(s)]] = t, ![t] = NULL]),
                Inserted(s, Len(s) + 1, t))
<1> DEFINE n == Len(s)
           u == Inserted(s, n + 1, t)
           pv == [l.prev EXCEPT ![t] = s[n]]
           nx == [l.next EXCEPT ![s[n]] = t, ![t] = NULL]
<1>1. n \in Nat /\ n + 1 \in 1..(n + 1) /\ n \in 1..n
  OBVIOUS
<1>2. u \in Seq(Timers) /\ Len(u) = n + 1
  BY <1>1, InsertedShape
<1>3. u[n + 1] = t /\ \A i \in 1..n : u[i] = s[i]
  BY <1>1 DEF Inserted
<1>4. \A i, j \in 1..(n + 1) : u[i] = u[j] => i = j
  <2>1. \A i, j \in 1..Len(s) : s[i] = s[j] => i = j
    BY DEF Spells
  <2>2. \A i, j \in 1..Len(u) : u[i] = u[j] => i = j
    BY <1>1, <2>1, InsertedDistinct
  <2>3. QED BY <1>2, <2>2
<1>5. \A i \in 1..n : /\ s[i] \in Timers /\ s[i] # t
                      /\ \A j \in 1..n : s[i] = s[j] => i = j
                      /\ l.next[s[i]] = IF i = n THEN NULL ELSE s[i + 1]
                      /\ l.prev[s[i]] = IF i = 1 THEN NULL ELSE s[i - 1]
  <2>1. \A i \in 1..n : s[i] \in Timers /\ s[i] # t
    OBVIOUS
  <2>2. QED BY <2>1 DEF Spells
<1>6. l.prev \in [Timers -> Timers \cup {NULL}] /\ l.next \in [Timers -> Timers \cup {NULL}]
  BY DEF ListType
<1>7. /\ nx[s[n]] = t /\ nx[t] = NULL
      /\ \A i \in 1..n : i # n => nx[s[i]] = l.next[s[i]]
  BY <1>1, <1>5, <1>6
<1>8. pv[t] = s[n] /\ \A i \in 1..n : pv[s[i]] = l.prev[s[i]]
  BY <1>1, <1>5, <1>6
<1> HIDE DEF u, pv, nx
<1>9. \A i \in 1..(n + 1) : nx[u[i]] = IF i = n + 1 THEN NULL ELSE u[i + 1]
  BY <1>1, <1>3, <1>5, <1>7
<1>10. \A i \in 1..(n + 1) : pv[u[i]] = IF i = 1 THEN NULL ELSE u[i - 1]
  <2>1. TAKE i \in 1..(n + 1)
  <2>2. CASE i = n + 1
    <3>1. u[i] = t /\ u[i - 1] = s[n] /\ i # 1
      BY <1>1, <1>3, <2>2
    <3>2. QED BY <1>8, <3>1
  <2>3. CASE i \in 1..n
    <3>1. u[i] = s[i] /\ (i # 1 => u[i - 1] = s[i - 1])
      BY <1>1, <1>3, <2>3
    <3>2. pv[u[i]] = IF i = 1 THEN NULL ELSE s[i - 1]
      BY <1>5, <1>8, <2>3, <3>1
    <3>3. QED BY <3>1, <3>2
  <2>4. QED BY <1>1, <2>2, <2>3
<1>11. u[1] = s[1] /\ l.head = s[1]
  BY <1>1, <1>3 DEF Spells
<1>12. Spells(Links(l.head, t, pv, nx), u)
  BY <1>1, <1>2, <1>3, <1>4, <1>9, <1>10, <1>11 DEF Spells, Links
<1>13. QED BY <1>12 DEF u, pv, nx

\* ... or as the new head.
LEMMA SpliceHead ==
  ASSUME NEW l \in ListType, NEW s \in Seq(Timers), Spells(l, s), Len(s) > 0,
         NEW t \in Timers, \A i \in 1..Len(s) : s[i] # t, l.prev[t] = NULL
  PROVE  Spells(Links(t, l.tail, [l.prev EXCEPT ![l.head] = t],
                      [l.next EXCEPT ![t] = l.head]),
                Inserted(s, 1, t))
<1> DEFINE n == Len(s)
           u == Inserted(s, 1, t)
           pv == [l.prev EXCEPT ![l.head] = t]
           nx == [l.next EXCEPT ![t] = l.head]
<1>1. n \in Nat /\ 1 \in 1..n /\ n \in 1..n /\ 1 \in 1..(n + 1)
  OBVIOUS
<1>2. u \in Seq(Timers) /\ Len(u) = n + 1
  BY <1>1, InsertedShape
<1>3. u[1] = t /\ \A i \in 2..(n + 1) : u[i] = s[i - 1]
  BY <1>1 DEF Inserted
<1>4. \A i, j \in 1..(n + 1) : u[i] = u[j] => i = j
  <2>1. \A i, j \in 1..Len(s) : s[i] = s[j] => i = j
    BY DEF Spells
  <2>2. \A i, j \in 1..Len(u) : u[i] = u[j] => i = j
    BY <1>1, <2>1, InsertedDistinct
  <2>3. QED BY <1>2, <2>2
<1>5. \A i \in 1..n : /\ s[i] \in Timers /\ s[i] # t
                      /\ \A j \in 1..n : s[i] = s[j] => i = j
                      /\ l.next[s[i]] = IF i = n THEN NULL ELSE s[i + 1]
                      /\ l.prev[s[i]] = IF i = 1 THEN NULL ELSE s[i - 1]
  <2>1. \A i \in 1..n : s[i] \in Timers /\ s[i] # t
    OBVIOUS
  <2>2. QED BY <2>1 DEF Spells
<1>6. /\ l.prev \in [Timers -> Timers \cup {NULL}] /\ l.next \in [Timers -> Timers \cup {NULL}]
      /\ l.head = s[1] /\ l.tail = s[n]
  BY <1>1 DEF ListType, Spells
<1>7. nx[t] = s[1] /\ \A i \in 1..n : nx[s[i]] = l.next[s[i]]
  BY <1>1, <1>5, <1>6
<1>8. pv[s[1]] = t /\ pv[t] = NULL /\ \A i \in 1..n : i # 1 => pv[s[i]] = l.prev[s[i]]
  BY <1>1, <1>5, <1>6
<1> HIDE DEF u, pv, nx
<1>9. \A i \in 1..(n + 1) : nx[u[i]] = IF i = n + 1 THEN NULL ELSE u[i + 1]
  <2>1. TAKE i \in 1..(n + 1)
  <2>2. CASE i = 1
    BY <1>1, <1>3, <1>7, <2>2
  <2>3. CASE i # 1
    <3>1. i - 1 \in 1..n /\ u[i] = s[i - 1] /\ (i - 1 # n => u[i + 1] = s[(i - 1) + 1])
      BY <1>1, <1>3, <2>3
    <3>2. nx[u[i]] = IF i - 1 = n THEN NULL ELSE s[(i - 1) + 1]
      BY <3>1, <1>5, <1>7
    <3>3. QED BY <1>1, <3>1, <3>2
  <2>4. QED BY <2>2, <2>3
<1>10. \A i \in 1..(n + 1) : pv[u[i]] = IF i = 1 THEN NULL ELSE u[i - 1]
  <2>1. TAKE i \in 1..(n + 1)
  <2>2. CASE i = 1
    BY <1>1, <1>3, <1>8, <2>2
  <2>3. CASE i = 2
    BY <1>1, <1>3, <1>8, <2>3
  <2>4. CASE 2 < i
    <3>1. i - 1 \in 1..n /\ i - 1 # 1 /\ u[i] = s[i - 1] /\ u[i - 1] = s[(i - 1) - 1]
      BY <1>1, <1>3, <2>4
    <3>a. pv[u[i]] = l.prev[s[i - 1]]
      BY <3>1, <1>8
    <3>b. l.prev[s[i - 1]] = IF i - 1 = 1 THEN NULL ELSE s[(i - 1) - 1]
      BY <3>1, <1>5
    <3>2. pv[u[i]] = s[(i - 1) - 1]
      BY <3>1, <3>a, <3>b
    <3>3. QED BY <3>1, <3>2, <2>4
  <2>5. QED BY <1>1, <2>2, <2>3, <2>4
<1>11. u[n + 1] = s[n]
  <2>1. n + 1 \in 2..(n + 1) /\ (n + 1) - 1 = n
    BY <1>1
  <2>2. QED BY <1>3, <2>1
<1>12. Spells(Links(t, l.tail, pv, nx), u)
  BY <1>1, <1>2, <1>3, <1>4, <1>6, <1>9, <1>10, <1>11 DEF Spells, Links
<1>13. QED BY <1>12 DEF u, pv, nx
-----------------------------------------------------------------------------
\* Links that lead past the node at place q of a sequence spell the rest of it.
LEMMA SpellsWithout ==
  ASSUME NEW l \in ListType, NEW s \in Seq(Timers), Spells(l, s), NEW q \in 1..Len(s),
         NEW h, NEW tl, NEW pv, NEW nx,
         h = IF q # 1 THEN s[1] ELSE IF Len(s) = 1 THEN NULL ELSE s[2],
         Len(s) > 1 => tl = IF q = Len(s) THEN s[q - 1] ELSE s[Len(s)],
         \A i \in 1..Len(s) : i # q /\ i # q + 1 => pv[s[i]] = l.prev[s[i]],
         \A i \in 1..Len(s) : i # q /\ i # q - 1 => nx[s[i]] = l.next[s[i]],
         q # Len(s) => pv[s[q + 1]] = IF q = 1 THEN NULL ELSE s[q - 1],
         q # 1 => nx[s[q - 1]] = IF q = Len(s) THEN NULL ELSE s[q + 1]
  PROVE  Spells(Links(h, tl, pv, nx), Without(s, q))
<1> DEFINE n == Len(s)
           u == Without(s, q)
<1>1. n \in Nat /\ q \in 1..n
  OBVIOUS
<1>2. u \in Seq(Timers) /\ Len(u) = n - 1
      /\ \A i \in 1..(n - 1) : u[i] = IF i < q THEN s[i] ELSE s[i + 1]
  BY WithoutShape
<1>3. /\ \A i, j \in 1..n : s[i] = s[j] => i = j
      /\ \A i \in 1..n : l.next[s[i]] = IF i = n THEN NULL ELSE s[i + 1]
      /\ \A i \in 1..n : l.prev[s[i]] = IF i = 1 THEN NULL ELSE s[i - 1]
  BY DEF Spells
<1> HIDE DEF u
<1>4. ASSUME NEW i \in 1..(n - 1), NEW j \in 1..(n - 1), u[i] = u[j]
      PROVE  i = j
  <2> DEFINE ii == IF i < q THEN i ELSE i + 1
             jj == IF j < q THEN j ELSE j + 1
  <2>1. ii \in 1..n /\ jj \in 1..n /\ (ii = jj => i = j)
    BY <1>1
  <2>2. u[i] = s[ii] /\ u[j] = s[jj]
    BY <1>1, <1>2
  <2> HIDE DEF ii, jj
  <2>3. s[ii] = s[jj]
    BY <1>4, <2>2
  <2>4. ii = jj
    BY <1>3, <2>1, <2>3
  <2>5. QED BY <2>1, <2>4
<1>5. ASSUME NEW i \in 1..(n - 1)
      PROVE  nx[u[i]] = IF i = n - 1 THEN NULL ELSE u[i + 1]
  <2>1. CASE i < q - 1
    <3>1. i \in 1..n /\ i # n /\ i # q /\ i # q - 1 /\ i # n - 1
      BY <1>1, <2>1
    <3>2. u[i] = s[i] /\ u[i + 1] = s[i + 1]
      BY <1>1, <1>2, <2>1
    <3>3. QED BY <1>3, <3>1, <3>2
  <2>2. CASE i = q - 1
    <3>1. u[i] = s[q - 1] /\ q # 1
      BY <1>1, <1>2, <2>2
    <3>2. q # n => u[i + 1] = s[q + 1]
      BY <1>1, <1>2, <2>2
    <3>3. QED BY <1>1, <3>1, <3>2, <2>2
  <2>3. CASE q <= i
    <3>1. i + 1 \in 1..n /\ i + 1 # q /\ i + 1 # q - 1 /\ u[i] = s[i + 1]
      BY <1>1, <1>2, <2>3
    <3>2. nx[u[i]] = IF i + 1 = n THEN NULL ELSE s[(i + 1) + 1]
      BY <1>3, <3>1
    <3>3. i # n - 1 => u[i + 1] = s[(i + 1) + 1]
      BY <1>1, <1>2, <2>3
    <3>4. QED BY <1>1, <3>2, <3>3
  <2>4. QED BY <1>1, <2>1, <2>2, <2>3
<1>6. ASSUME NEW i \in 1..(n - 1)
      PROVE  pv[u[i]] = IF i = 1 THEN NULL ELSE u[i - 1]
  <2>1. CASE i < q
    <3>1. i \in 1..n /\ i # q /\ i # q + 1 /\ u[i] = s[i]
      BY <1>1, <1>2, <2>1
    <3>2. pv[u[i]] = IF i = 1 THEN NULL ELSE s[i - 1]
      BY <1>3, <3>1
    <3>3. i # 1 => u[i - 1] = s[i - 1]
      BY <1>1, <1>2, <2>1
    <3>4. QED BY <3>2, <3>3
  <2>2. CASE i = q
    <3>1. u[i] = s[q + 1] /\ q # n
      BY <1>1, <1>2, <2>2
    <3>2. q # 1 => u[i - 1] = s[q - 1]
      BY <1>1, <1>2, <2>2
    <3>3. QED BY <3>1, <3>2, <2>2
  <2>3. CASE q < i
    <3>1. i + 1 \in 1..n /\ i + 1 # q /\ i + 1 # q + 1 /\ u[i] = s[i + 1] /\ i # 1 /\ i + 1 # 1
      BY <1>1, <1>2, <2>3
    <3>2. pv[u[i]] = s[(i + 1) - 1]
      BY <1>3, <3>1
    <3>3. u[i - 1] = s[(i + 1) - 1]
      BY <1>1, <1>2, <2>3
    <3>4. QED BY <3>1, <3>2, <3>3
  <2>4. QED BY <1>1, <2>1, <2>2, <2>3
<1>7. h = IF n - 1 = 0 THEN NULL ELSE u[1]
  BY <1>1, <1>2
<1>8. n - 1 > 0 => tl = u[n - 1]
  BY <1>1, <1>2
<1>9. Spells(Links(h, tl, pv, nx), u)
  BY <1>1, <1>2, <1>4, <1>5, <1>6, <1>7, <1>8 DEF Spells, Links
<1>10. QED BY <1>9 DEF u

LEMMA WithoutSorted ==
  ASSUME NEW s \in Seq(Timers), NEW q \in 1..Len(s),
         NEW ex, NEW ex2, Sorted(s, ex), \A i \in 1..Len(s) : i # q => ex2[s[i]] = ex[s[i]]
  PROVE  Sorted(Without(s, q), ex2)
<1> DEFINE u == Without(s, q)
<1>1. Len(s) \in Nat /\ u \in Seq(Timers) /\ Len(u) = Len(s) - 1
      /\ \A i \in 1..Len(u) : u[i] = IF i < q THEN s[i] ELSE s[i + 1]
  BY WithoutShape
<1> HIDE DEF u
<1>2. SUFFICES ASSUME NEW i \in 1..Len(u), NEW j \in 1..Len(u), i <= j
               PROVE  ex2[u[i]] <= ex2[u[j]]
  BY DEF u, Sorted
<1> DEFINE ii == IF i < q THEN i ELSE i + 1
           jj == IF j < q THEN j ELSE j + 1
<1>3. ii \in 1..Len(s) /\ jj \in 1..Len(s) /\ ii <= jj /\ ii # q /\ jj # q
  BY <1>1, <1>2
<1>4. u[i] = s[ii] /\ u[j] = s[jj]
  BY <1>1
<1> HIDE DEF ii, jj
<1>5. QED BY <1>3, <1>4 DEF Sorted
-----------------------------------------------------------------------------
\* The links r are those of l with t put into the sequence s, in order.
InsertedInto(r, l, s, ex, t) ==
  /\ r \in ListType
  /\ \E q \in 1..(Len(s) + 1) : Spells(r, Inserted(s, q, t)) /\ Sorted(Inserted(s, q, t), ex)
  /\ \A x \in Timers : x # t /\ (\A i \in 1..Len(s) : s[i] # x) =>
       r.next[x] = l.next[x] /\ r.prev[x] = l.prev[x]

\* The hypothesis of FromSpells under a name.
Follows(s, nx, node) ==
  /\ s \in Seq(Timers)
  /\ \A i, j \in 1..Len(s) : s[i] = s[j] => i = j
  /\ node = IF Len(s) = 0 THEN NULL ELSE s[1]
  /\ \A i \in 1..Len(s) : nx[s[i]] = IF i = Len(s) THEN NULL ELSE s[i + 1]

LEMMA FromChain ==
  ASSUME NEW s, NEW nx, NEW node, Follows(s, nx, node)
  PROVE  From(nx, node) = s
BY FromSpells DEF Follows

\* The overload add_timer(timer, lst_head) keeps a sorted list sorted, whenever
\* lst_head does not expire after the timer, and touches no other node.
LEMMA InsertAfterSpells ==
  ASSUME NEW l \in ListType, NEW s \in Seq(Timers), Spells(l, s),
         NEW ex \in [Timers -> Int], Sorted(s, ex),
         NEW t \in Timers, \A i \in 1..Len(s) : s[i] # t,
         NEW m \in 1..Len(s), ex[s[m]] <= ex[t]
  PROVE  InsertedInto(InsertAfter(l, ex, t, s[m]), l, s, ex, t)
<1> DEFINE n == Len(s)
           p == [i \in 1..(n - m + 1) |-> s[i + m - 1]]
           stop == {i \in DOMAIN p : i > 1 /\ ex[t] < ex[p[i]]}
           r == InsertAfter(l, ex, t, s[m])
<1>1. n \in Nat /\ m \in 1..n /\ \A i \in 1..n : s[i] \in Timers /\ s[i] # t /\ ex[s[i]] \in Int
  OBVIOUS
<1>2. ex[t] \in Int
  OBVIOUS
<1>a. /\ \A i, j \in 1..n : s[i] = s[j] => i = j
      /\ \A i \in 1..n : l.next[s[i]] = IF i = n THEN NULL ELSE s[i + 1]
      /\ \A i, j \in 1..n : i <= j => ex[s[i]] <= ex[s[j]]
  BY DEF Spells, Sorted
<1>3. l = Links(l.head, l.tail, l.prev, l.next)
  BY DEF ListType, Links
<1>4. /\ l.head \in Timers \cup {NULL} /\ l.tail \in Timers \cup {NULL}
      /\ l.prev \in [Timers -> Timers \cup {NULL}] /\ l.next \in [Timers -> Timers \cup {NULL}]
  BY DEF ListType
<1>5. From(l.next, s[m]) = p
  <2>1. n - m + 1 \in Nat /\ \A i \in 1..(n - m + 1) : i + m - 1 \in 1..n
    BY <1>1
  <2>2. p \in Seq(Timers) /\ Len(p) = n - m + 1 /\ Len(p) # 0
    BY <1>1, <2>1
  <2>3. p[1] = s[m] /\ \A i \in 1..Len(p) : p[i] = s[i + m - 1]
    BY <1>1, <2>2
  <2> HIDE DEF p
  <2>4. ASSUME NEW i \in 1..Len(p), NEW j \in 1..Len(p), p[i] = p[j]
        PROVE  i = j
    <3> DEFINE ii == i + m - 1
               jj == j + m - 1
    <3>1. ii \in 1..n /\ jj \in 1..n /\ (ii = jj => i = j)
      BY <1>1, <2>2
    <3>2. s[ii] = s[jj]
      BY <2>3, <2>4
    <3> HIDE DEF ii, jj
    <3>3. QED BY <1>a, <3>1, <3>2
  <2>5. ASSUME NEW i \in 1..Len(p)
        PROVE  l.next[p[i]] = IF i = Len(p) THEN NULL ELSE p[i + 1]
    <3> DEFINE ii == i + m - 1
    <3>a. i \in Int /\ m \in Int /\ n \in Int /\ Len(p) = n - m + 1 /\ 1 <= i /\ i <= n - m + 1
      BY <1>1, <2>2
    <3>b. ii \in 1..n /\ (ii = n <=> i = Len(p))
      BY <1>1, <3>a
    <3>1. ii \in 1..n /\ (ii = n <=> i = Len(p)) /\ p[i] = s[ii]
      BY <2>3, <3>b
    <3>2. i # Len(p) => i + 1 \in 1..Len(p) /\ (i + 1) + m - 1 = ii + 1
      BY <3>a
    <3> HIDE DEF ii
    <3>3. i # Len(p) => p[i + 1] = s[ii + 1]
      BY <2>3, <3>2
    <3>4. QED BY <1>a, <3>1, <3>3
  <2>6. s[m] = IF Len(p) = 0 THEN NULL ELSE p[1]
    BY <2>2, <2>3
  <2>7. \A i, j \in 1..Len(p) : p[i] = p[j] => i = j
    BY <2>4
  <2>8. \A i \in 1..Len(p) : l.next[p[i]] = IF i = Len(p) THEN NULL ELSE p[i + 1]
    BY <2>5
  <2> DEFINE nx == l.next
             node == s[m]
  <2> HIDE DEF nx, node
  <2>9. From(nx, node) = p
    <3>1. node = IF Len(p) = 0 THEN NULL ELSE p[1]
      BY <2>6 DEF node
    <3>2. \A i \in 1..Len(p) : nx[p[i]] = IF i = Len(p) THEN NULL ELSE p[i + 1]
      BY <2>8 DEF nx
    <3>3. Follows(p, nx, node)
      BY <2>2, <2>7, <3>1, <3>2 DEF Follows
    <3>4. QED BY <3>3, FromChain
  <2>10. QED BY <2>9 DEF nx, node
<1>6. /\ DOMAIN p = 1..(n - m + 1) /\ Len(p) = n - m + 1
      /\ \A i \in 1..(n - m + 1) : p[i] = s[i + m - 1]
  BY <1>1
<1>7. Later(t, ex, p) = stop
  BY DEF Later
<1>8. p[Len(p)] = s[n]
  BY <1>1, <1>6
<1> HIDE DEF p
<1>9. CASE stop # {}
  <2> DEFINE i == CHOOSE i \in stop : \A j \in stop : i <= j
             q == i + m - 1
  <2>1. stop \in SUBSET Nat
    BY <1>1, <1>6
  <2>2. \E k \in stop : \A j \in stop : k <= j
    <3> HIDE DEF stop
    <3>1. QED BY <1>9, <2>1, Least
  <2>3. i \in stop /\ \A j \in stop : i <= j
    <3> HIDE DEF stop
    <3>1. QED BY <2>2
  <2> HIDE DEF i
  <2>a. i \in 2..(n - m + 1) /\ ex[t] < ex[p[i]]
    BY <1>1, <1>6, <2>3
  <2>b. q \in 2..n /\ q > m /\ q \in 1..(n + 1) /\ (i - 1) + m - 1 = q - 1
        /\ i - 1 \in 1..(n - m + 1) /\ i \in 1..(n - m + 1) /\ q - 1 \in 1..n /\ q \in 1..n
    BY <1>1, <2>a
  <2>c. p[i] = s[q] /\ p[i - 1] = s[q - 1]
    BY <1>6, <2>b
  <2>4. /\ i \in 2..(n - m + 1) /\ q \in 2..n /\ q > m /\ q \in 1..(n + 1)
        /\ ex[t] < ex[s[q]] /\ p[i] = s[q] /\ p[i - 1] = s[q - 1]
    BY <2>a, <2>b, <2>c
  <2> HIDE DEF q
  <2>5. r = Links(l.head, l.tail, [l.prev EXCEPT ![s[q]] = t, ![t] = s[q - 1]],
                  [l.next EXCEPT ![s[q - 1]] = t, ![t] = s[q]])
    BY <1>5, <1>7, <1>9, <2>4 DEF InsertAfter, i
  <2>6. Spells(r, Inserted(s, q, t))
    BY <2>4, <2>5, SpliceMiddle
  <2>7. ASSUME NEW j \in 1..n, q <= j PROVE ex[t] <= ex[s[j]]
    <3>1. ex[s[q]] <= ex[s[j]] /\ q \in 1..n
      BY <1>a, <2>b, <2>7
    <3>2. ex[s[q]] \in Int /\ ex[s[j]] \in Int /\ ex[t] < ex[s[q]]
      BY <1>1, <2>4, <3>1
    <3>3. QED BY <1>2, <3>1, <3>2
  <2>8. ASSUME NEW j \in 1..n, j < q PROVE ex[s[j]] <= ex[t]
    <3>1. CASE j <= m
      <4>1. ex[s[j]] <= ex[s[m]]
        BY <1>1, <1>a, <3>1
      <4>2. QED BY <1>1, <1>2, <4>1
    <3>2. CASE m < j
      <4>1. j - m + 1 \in 1..(n - m + 1) /\ j - m + 1 > 1 /\ j - m + 1 < i
        BY <1>1, <2>4, <2>8, <3>2 DEF q
      <4>a. (j - m + 1) + m - 1 = j
        BY <1>1
      <4>2. p[j - m + 1] = s[j]
        BY <1>6, <4>1, <4>a
      <4>3. ~ (ex[t] < ex[p[j - m + 1]])
        <5>1. ~ (i <= j - m + 1)
          BY <1>1, <2>a, <4>1
        <5>2. j - m + 1 \notin stop
          BY <2>3, <5>1
        <5>3. QED BY <1>6, <4>1, <5>2
      <4>4. QED BY <1>1, <1>2, <4>2, <4>3
    <3>3. QED BY <1>1, <3>1, <3>2
  <2>9. Sorted(Inserted(s, q, t), ex)
    BY <2>4, <2>7, <2>8, InsertedSorted
  <2>10. s[q] \in Timers /\ s[q - 1] \in Timers
    BY <1>1, <2>b
  <2>11. r \in ListType
    <3> DEFINE pv == [l.prev EXCEPT ![s[q]] = t, ![t] = s[q - 1]]
               nx == [l.next EXCEPT ![s[q - 1]] = t, ![t] = s[q]]
    <3>1. pv \in [Timers -> Timers \cup {NULL}] /\ nx \in [Timers -> Timers \cup {NULL}]
      BY <1>4, <2>10
    <3>2. r = Links(l.head, l.tail, pv, nx)
      BY <2>5
    <3> HIDE DEF pv, nx, r
    <3>3. QED BY <1>4, <3>1, <3>2 DEF ListType, Links
  <2>12. ASSUME NEW x \in Timers, x # t, \A k \in 1..n : s[k] # x
         PROVE  r.next[x] = l.next[x] /\ r.prev[x] = l.prev[x]
    <3>1. x # s[q] /\ x # s[q - 1]
      BY <2>b, <2>12
    <3>2. QED BY <1>4, <2>5, <2>10, <2>12, <3>1 DEF Links
  <2>13. InsertedInto(r, l, s, ex, t)
    <3> HIDE DEF r
    <3>1. QED BY <2>4, <2>6, <2>9, <2>11, <2>12 DEF InsertedInto
  <2>14. QED BY <2>13
<1>10. CASE stop = {}
  <2>1. r = Links(l.head, t, [l.prev EXCEPT ![t] = s[n]],
                  [l.next EXCEPT ![s[n]] = t, ![t] = NULL])
    BY <1>5, <1>7, <1>8, <1>10 DEF InsertAfter
  <2>2. n + 1 \in 1..(n + 1) /\ n > 0 /\ s[n] \in Timers
    BY <1>1
  <2>3. Spells(r, Inserted(s, n + 1, t))
    BY <2>1, <2>2, SpliceTail
  <2>4. ASSUME NEW j \in 1..n PROVE ex[s[j]] <= ex[t]
    <3>1. CASE j <= m
      <4>1. ex[s[j]] <= ex[s[m]]
        BY <1>1, <1>a, <3>1
      <4>2. QED BY <1>1, <1>2, <4>1
    <3>2. CASE m < j
      <4>1. j - m + 1 \in 1..(n - m + 1) /\ j - m + 1 > 1
        BY <1>1, <3>2
      <4>a. (j - m + 1) + m - 1 = j
        BY <1>1
      <4>2. p[j - m + 1] = s[j]
        BY <1>6, <4>1, <4>a
      <4>3. ~ (ex[t] < ex[p[j - m + 1]])
        BY <1>6, <1>10, <4>1
      <4>4. QED BY <1>1, <1>2, <4>2, <4>3
    <3>3. QED BY <1>1, <3>1, <3>2
  <2>5. \A j \in 1..n : j < n + 1 /\ ~ (n + 1 <= j)
    BY <1>1
  <2>6. Sorted(Inserted(s, n + 1, t), ex)
    BY <2>2, <2>4, <2>5, InsertedSorted
  <2>7. r \in ListType
    BY <1>4, <2>1, <2>2 DEF ListType, Links
  <2>8. ASSUME NEW x \in Timers, x # t, \A k \in 1..n : s[k] # x
        PROVE  r.next[x] = l.next[x] /\ r.prev[x] = l.prev[x]
    <3>1. x # s[n]
      BY <1>1, <2>8
    <3>2. QED BY <1>4, <2>1, <2>2, <2>8, <3>1 DEF Links
  <2>9. InsertedInto(r, l, s, ex, t)
    <3> HIDE DEF r
    <3>1. QED BY <2>2, <2>3, <2>6, <2>7, <2>8 DEF InsertedInto
  <2>10. QED BY <2>9
<1>11. QED BY <1>9, <1>10
-----------------------------------------------------------------------------
\* What IsList says of the variables.
LEMMA ListFacts ==
  ASSUME TypeOK, NEW s \in Seq(Timers), IsList(s)
  PROVE  /\ Len(s) \in Nat
         /\ \A i \in 1..Len(s) : s[i] \in Timers /\ s[i] \in allocated /\ s[i] # NULL
         /\ \A i, j \in 1..Len(s) : s[i] = s[j] => i = j
         /\ \A i \in 1..Len(s) : next[s[i]] = IF i = Len(s) THEN NULL ELSE s[i + 1]
         /\ \A i \in 1..Len(s) : prev[s[i]] = IF i = 1 THEN NULL ELSE s[i - 1]
         /\ \A i, j \in 1..Len(s) : i <= j => expire[s[i]] <= expire[s[j]]
         /\ \A t \in allocated : \E i \in 1..Len(s) : s[i] = t
         /\ head = IF Len(s) = 0 THEN NULL ELSE s[1]
         /\ Len(s) > 0 => tail = s[Len(s)]
<1>1. \A i \in 1..Len(s) : s[i] \in Timers /\ s[i] # NULL
  BY NullAssumption
<1>2. QED BY <1>1 DEF IsList, Spells, Sorted, Covers, Now, Links

\* The four variables of the links as a record.
LEMMA NowType ==
  ASSUME TypeOK
  PROVE  Now \in ListType /\ Now.head = head /\ Now.tail = tail
         /\ Now.prev = prev /\ Now.next = next
BY DEF TypeOK, Now, Links, ListType

LEMMA BecomeNow ==
  ASSUME NEW l \in ListType, Become(l)
  PROVE  /\ Now' = l
         /\ head' \in Timers \cup {NULL} /\ tail' \in Timers \cup {NULL}
         /\ prev' \in [Timers -> Timers \cup {NULL}] /\ next' \in [Timers -> Timers \cup {NULL}]
BY DEF ListType, Become, Now, Links

\* From the head, From spells the list.
LEMMA ChainIs ==
  ASSUME TypeOK, NEW s \in Seq(Timers), IsList(s)
  PROVE  From(next, head) = s
BY ListFacts, FromSpells

LEMMA TimesInt == Times \subseteq Int /\ NULL \notin Times
BY MaxTimeAssumption, NullAssumption DEF Times

LEMMA InsertedCovers ==
  ASSUME NEW s \in Seq(Timers), NEW q \in 1..(Len(s) + 1), NEW t \in Timers,
         NEW A, Covers(s, A)
  PROVE  Covers(Inserted(s, q, t), A \cup {t})
<1> DEFINE u == Inserted(s, q, t)
           n == Len(s)
<1>1. n \in Nat /\ u \in Seq(Timers) /\ Len(u) = n + 1
  BY InsertedShape
<1>2. \A i \in 1..(n + 1) : u[i] = IF i < q THEN s[i] ELSE IF i = q THEN t ELSE s[i - 1]
  BY DEF Inserted
<1> HIDE DEF u
<1>3. ASSUME NEW i \in 1..(n + 1) PROVE u[i] \in A \cup {t}
  <2>1. (i < q => i \in 1..n) /\ (~ (i < q) /\ i # q => i - 1 \in 1..n)
    BY <1>1
  <2>2. QED BY <1>2, <2>1 DEF Covers
<1>4. u[q] = t /\ q \in 1..(n + 1)
  BY <1>1, <1>2
<1>5. ASSUME NEW x \in A PROVE \E i \in 1..(n + 1) : u[i] = x
  <2>1. PICK k \in 1..n : s[k] = x
    BY DEF Covers
  <2>2. CASE k < q
    BY <1>1, <1>2, <2>1, <2>2
  <2>3. CASE q <= k
    <3>1. k + 1 \in 1..(n + 1) /\ ~ (k + 1 < q) /\ k + 1 # q /\ (k + 1) - 1 = k
      BY <1>1, <2>3
    <3>2. u[k + 1] = s[k]
      BY <1>2, <3>1
    <3>3. QED BY <2>1, <3>1, <3>2
  <2>4. QED BY <1>1, <2>2, <2>3
<1>6. Covers(u, A \cup {t})
  BY <1>1, <1>3, <1>4, <1>5 DEF Covers
<1>7. QED BY <1>6 DEF u

LEMMA WithoutCovers ==
  ASSUME NEW s \in Seq(Timers), NEW q \in 1..Len(s), NEW A, Covers(s, A),
         \A i, j \in 1..Len(s) : s[i] = s[j] => i = j
  PROVE  Covers(Without(s, q), A \ {s[q]})
<1> DEFINE u == Without(s, q)
           n == Len(s)
<1>1. n \in Nat /\ u \in Seq(Timers) /\ Len(u) = n - 1
      /\ \A i \in 1..(n - 1) : u[i] = IF i < q THEN s[i] ELSE s[i + 1]
  BY WithoutShape
<1> HIDE DEF u
<1>2. ASSUME NEW i \in 1..(n - 1) PROVE u[i] \in A \ {s[q]}
  <2> DEFINE ii == IF i < q THEN i ELSE i + 1
  <2>1. ii \in 1..n /\ ii # q
    BY <1>1
  <2>2. u[i] = s[ii]
    BY <1>1
  <2> HIDE DEF ii
  <2>3. QED BY <2>1, <2>2 DEF Covers
<1>3. ASSUME NEW x \in A, x # s[q] PROVE \E i \in 1..(n - 1) : u[i] = x
  <2>1. PICK k \in 1..n : s[k] = x
    BY DEF Covers
  <2>2. CASE k < q
    BY <1>1, <2>1, <2>2
  <2>3. CASE q < k
    <3>1. k - 1 \in 1..(n - 1) /\ ~ (k - 1 < q) /\ (k - 1) + 1 = k
      BY <1>1, <2>3
    <3>2. u[k - 1] = s[k]
      BY <1>1, <3>1
    <3>3. QED BY <2>1, <3>1, <3>2
  <2>4. QED BY <1>1, <1>3, <2>1, <2>2, <2>3
<1>4. Covers(u, A \ {s[q]})
  BY <1>1, <1>2, <1>3 DEF Covers
<1>5. QED BY <1>4 DEF u
-----------------------------------------------------------------------------
LEMMA InitInv == Init => ListInv
<1>1. SUFFICES ASSUME Init PROVE ListInv
  OBVIOUS
<1>2. TypeOK
  BY <1>1, MaxTimeAssumption DEF Init, TypeOK, Times
<1>3. Loose(Now, allocated)
  BY <1>1 DEF Init, Loose, Now, Links
<1>4. <<>> \in Seq(Timers) /\ Len(<<>>) = 0
  OBVIOUS
<1>5. IsList(<<>>)
  BY <1>1, <1>4 DEF Init, IsList, Spells, Sorted, Covers, Now, Links
<1>6. QED BY <1>2, <1>3, <1>4, <1>5 DEF ListInv

\* What the step of an operation has to show.
LEMMA ToInv ==
  ASSUME NEW l \in ListType, Become(l), Loose(l, allocated'),
         expire' \in [Timers -> Times], allocated' \in SUBSET Timers, fired' \in Seq(Timers),
         NEW u \in Seq(Timers), Spells(l, u), Sorted(u, expire'), Covers(u, allocated')
  PROVE  ListInv'
<1>1. Now' = l
  BY BecomeNow
<1>2. TypeOK'
  BY BecomeNow DEF TypeOK
<1>3. IsList(u)'
  BY <1>1 DEF IsList
<1>4. QED BY <1>1, <1>2, <1>3 DEF ListInv

LEMMA AddInv ==
  ASSUME ListInv, NEW t \in Timers, NEW e \in Times, Add(t, e)
  PROVE  ListInv'
<1>1. TypeOK /\ Loose(Now, allocated)
  BY DEF ListInv
<1>2. PICK s \in Seq(Timers) : IsList(s)
  BY DEF ListInv
<1>3. /\ t \notin allocated /\ allocated' = allocated \cup {t} /\ fired' = <<>>
      /\ expire' = [expire EXCEPT ![t] = e]
  BY DEF Add, SetExpire
<1>4. /\ expire \in [Timers -> Times] /\ expire' \in [Timers -> Times]
      /\ expire \in [Timers -> Int] /\ expire' \in [Timers -> Int] /\ e \in Int
      /\ expire'[t] = e /\ \A x \in Timers : x # t => expire'[x] = expire[x]
      /\ allocated \in SUBSET Timers
  BY <1>1, <1>3, TimesInt DEF TypeOK
<1>5. /\ next[t] = NULL /\ prev[t] = NULL
      /\ \A x \in Timers \ allocated : next[x] = NULL /\ prev[x] = NULL
  BY <1>1, <1>3 DEF Loose, Now, Links
<1>6. \A i \in 1..Len(s) : s[i] # t /\ s[i] \in Timers /\ expire'[s[i]] = expire[s[i]]
  BY <1>1, <1>2, <1>3, <1>4, ListFacts
<1>7. Sorted(s, expire')
  BY <1>1, <1>2, <1>6, ListFacts DEF Sorted
<1>8. Covers(s, allocated) /\ Spells(Now, s)
  BY <1>2 DEF IsList
<1>9. SUFFICES ASSUME NEW l \in ListType, Become(l), Loose(l, allocated'),
                      NEW q \in 1..(Len(s) + 1), Spells(l, Inserted(s, q, t)),
                      Sorted(Inserted(s, q, t), expire')
               PROVE  ListInv'
  <2>1. CASE head = NULL
    <3> DEFINE l == Links(t, t, prev, next)
    <3>1. Become(l) /\ l \in ListType
      BY <1>1, <2>1 DEF Add, TypeOK, ListType, Links
    <3>2. Loose(l, allocated')
      BY <1>3, <1>5 DEF Loose, Links
    <3>3. Len(s) = 0
      BY <1>1, <1>2, <2>1, ListFacts
    <3>4. 1 \in 1..(Len(s) + 1) /\ Len(Inserted(s, 1, t)) = 1 /\ Inserted(s, 1, t)[1] = t
      BY <3>3, InsertedAlone
    <3>5. Spells(l, Inserted(s, 1, t))
      BY <1>5, <3>4 DEF Spells, Links
    <3>6. Sorted(Inserted(s, 1, t), expire')
      BY <1>4, <3>4 DEF Sorted
    <3>7. QED BY <1>9, <3>1, <3>2, <3>4, <3>5, <3>6
  <2>2. CASE head # NULL /\ e < expire[head]
    <3> DEFINE l == Links(t, tail, [prev EXCEPT ![head] = t], [next EXCEPT ![t] = head])
    <3>1. Become(l)
      BY <2>2 DEF Add
    <3>2. head \in Timers /\ tail \in Timers \cup {NULL}
      BY <1>1, <2>2 DEF TypeOK
    <3>3. l \in ListType
      BY <1>1, <3>2 DEF TypeOK, ListType, Links
    <3>4. head \in allocated /\ Len(s) > 0 /\ head = s[1]
      BY <1>1, <1>2, <2>2, ListFacts
    <3>5. Loose(l, allocated')
      BY <1>1, <1>3, <1>5, <3>4 DEF Loose, Links, TypeOK
    <3>6. Spells(l, Inserted(s, 1, t))
      BY <1>1, <1>5, <1>6, <1>8, <3>4, NowType, SpliceHead
    <3>7. Sorted(Inserted(s, 1, t), expire')
      <4>1. 1 \in 1..(Len(s) + 1) /\ \A i \in 1..Len(s) : ~ (i < 1)
        OBVIOUS
      <4>2. ASSUME NEW i \in 1..Len(s) PROVE expire'[t] <= expire'[s[i]]
        <5>1. expire[s[1]] <= expire[s[i]] /\ s[1] \in Timers
          BY <1>1, <1>2, <1>6, ListFacts
        <5>2. QED BY <1>4, <1>6, <2>2, <3>4, <5>1
      <4>3. QED BY <1>4, <1>7, <4>1, <4>2, InsertedSorted
    <3>8. QED BY <1>9, <3>1, <3>3, <3>5, <3>6, <3>7
  <2>3. CASE head # NULL /\ ~ (e < expire[head])
    <3> DEFINE l == InsertAfter(Now, expire', t, head)
    <3>1. Become(l)
      BY <2>3 DEF Add
    <3>2. 1 \in 1..Len(s) /\ head = s[1] /\ head \in Timers
      BY <1>1, <1>2, <2>3, ListFacts
    <3>3. expire'[s[1]] <= expire'[t]
      BY <1>4, <1>6, <2>3, <3>2
    <3>4. /\ l \in ListType
          /\ \E q \in 1..(Len(s) + 1) : /\ Spells(l, Inserted(s, q, t))
                                        /\ Sorted(Inserted(s, q, t), expire')
          /\ \A x \in Timers : x # t /\ (\A i \in 1..Len(s) : s[i] # x) =>
               l.next[x] = Now.next[x] /\ l.prev[x] = Now.prev[x]
      <4>1. Now \in ListType /\ l = InsertAfter(Now, expire', t, s[1])
        BY <1>1, <3>2, NowType
      <4>2. \A i \in 1..Len(s) : s[i] # t
        BY <1>6
      <4> DEFINE ex == expire'
      <4>3. ex \in [Timers -> Int] /\ Sorted(s, ex) /\ Spells(Now, s) /\ ex[s[1]] <= ex[t]
        BY <1>4, <1>7, <1>8, <3>3
      <4>4. l = InsertAfter(Now, ex, t, s[1])
        BY <4>1
      <4> HIDE DEF l, ex
      <4>5. InsertedInto(InsertAfter(Now, ex, t, s[1]), Now, s, ex, t)
        BY <3>2, <4>1, <4>2, <4>3, InsertAfterSpells
      <4>6. QED BY <4>4, <4>5 DEF ex, InsertedInto
    <3>5. Loose(l, allocated')
      <4>1. \A x \in Timers \ allocated' : x # t /\ \A i \in 1..Len(s) : s[i] # x
        BY <1>1, <1>2, <1>3, ListFacts
      <4> HIDE DEF l
      <4>2. QED BY <1>1, <1>3, <1>5, <3>4, <4>1, NowType DEF Loose
    <3> HIDE DEF l
    <3>6. QED BY <1>9, <3>1, <3>4, <3>5
  <2>4. QED BY <2>1, <2>2, <2>3
<1> DEFINE u == Inserted(s, q, t)
<1>10. u \in Seq(Timers)
  BY <1>9, InsertedShape
<1>11. Covers(u, allocated')
  BY <1>3, <1>8, InsertedCovers
<1>12. allocated' \in SUBSET Timers /\ fired' \in Seq(Timers)
  BY <1>3, <1>4
<1>13. QED BY <1>4, <1>9, <1>10, <1>11, <1>12, ToInv

\* The four ways of del_timer out of the list.
LEMMA UnlinkSpells ==
  ASSUME TypeOK, NEW s \in Seq(Timers), IsList(s), NEW q \in 1..Len(s)
  PROVE  LET l == Unlink(s[q])
         IN /\ l \in ListType
            /\ l.head = IF q # 1 THEN s[1] ELSE IF Len(s) = 1 THEN NULL ELSE s[2]
            /\ Len(s) > 1 => l.tail = IF q = Len(s) THEN s[q - 1] ELSE s[Len(s)]
            /\ \A i \in 1..Len(s) : i # q /\ i # q + 1 => l.prev[s[i]] = prev[s[i]]
            /\ \A i \in 1..Len(s) : i # q /\ i # q - 1 => l.next[s[i]] = next[s[i]]
            /\ q # Len(s) => l.prev[s[q + 1]] = IF q = 1 THEN NULL ELSE s[q - 1]
            /\ q # 1 => l.next[s[q - 1]] = IF q = Len(s) THEN NULL ELSE s[q + 1]
            /\ \A x \in Timers \ allocated : l.prev[x] = prev[x] /\ l.next[x] = next[x]
<1> DEFINE n == Len(s)
           l == Unlink(s[q])
<1>1. /\ n \in Nat /\ q \in 1..n
      /\ \A i \in 1..n : s[i] \in Timers /\ s[i] \in allocated /\ s[i] # NULL
      /\ \A i, j \in 1..n : s[i] = s[j] => i = j
      /\ next[s[q]] = IF q = n THEN NULL ELSE s[q + 1]
      /\ prev[s[q]] = IF q = 1 THEN NULL ELSE s[q - 1]
      /\ head = s[1] /\ tail = s[n]
  BY ListFacts
<1>2. /\ prev \in [Timers -> Timers \cup {NULL}] /\ next \in [Timers -> Timers \cup {NULL}]
      /\ head \in Timers \cup {NULL} /\ tail \in Timers \cup {NULL}
  BY DEF TypeOK
<1>3. 1 \in 1..n /\ n \in 1..n /\ (q # n => q + 1 \in 1..n) /\ (q # 1 => q - 1 \in 1..n)
  BY <1>1
<1>4. (s[q] = head <=> q = 1) /\ (s[q] = tail <=> q = n)
  BY <1>1, <1>3
<1>5. CASE q = 1 /\ q = n
  <2>1. l = Links(NULL, NULL, prev, next)
    BY <1>4, <1>5 DEF Unlink
  <2> HIDE DEF l
  <2>2. l \in ListType
    BY <1>2, <2>1 DEF ListType, Links
  <2>3. l.head = NULL /\ l.prev = prev /\ l.next = next
    BY <2>1 DEF Links
  <2>4. n = 1 /\ q = 1
    BY <1>5
  <2> HIDE DEF n
  <2>5. QED BY <2>2, <2>3, <2>4 DEF l, n
<1>6. CASE q = 1 /\ q # n
  <2> DEFINE pv == [prev EXCEPT ![s[2]] = NULL]
  <2>1. s[2] \in Timers /\ 2 \in 1..n /\ n > 1
    BY <1>1, <1>3, <1>6
  <2>2. l = Links(s[2], tail, pv, next)
    BY <1>1, <1>4, <1>6 DEF Unlink
  <2>3. /\ pv \in [Timers -> Timers \cup {NULL}] /\ pv[s[2]] = NULL
        /\ \A i \in 1..n : i # 2 => pv[s[i]] = prev[s[i]]
        /\ \A x \in Timers \ allocated : pv[x] = prev[x]
    BY <1>1, <1>2, <2>1
  <2> HIDE DEF l, pv
  <2>4. l \in ListType
    BY <1>2, <2>1, <2>2, <2>3 DEF ListType, Links
  <2>5. l.head = s[2] /\ l.tail = s[n] /\ l.prev = pv /\ l.next = next
    BY <1>1, <2>2 DEF Links
  <2>6. QED BY <1>6, <2>1, <2>3, <2>4, <2>5 DEF l
<1>7. CASE q # 1 /\ q = n
  <2> DEFINE nx == [next EXCEPT ![s[n - 1]] = NULL]
  <2>1. s[n - 1] \in Timers /\ n - 1 \in 1..n
    BY <1>1, <1>3, <1>7
  <2>2. l = Links(head, s[n - 1], prev, nx)
    BY <1>1, <1>4, <1>7 DEF Unlink
  <2>3. /\ nx \in [Timers -> Timers \cup {NULL}] /\ nx[s[n - 1]] = NULL
        /\ \A i \in 1..n : i # n - 1 => nx[s[i]] = next[s[i]]
        /\ \A x \in Timers \ allocated : nx[x] = next[x]
    BY <1>1, <1>2, <2>1
  <2> HIDE DEF l, nx
  <2>4. l \in ListType
    BY <1>2, <2>1, <2>2, <2>3 DEF ListType, Links
  <2>5. l.head = s[1] /\ l.tail = s[n - 1] /\ l.prev = prev /\ l.next = nx
    BY <1>1, <2>2 DEF Links
  <2>6. QED BY <1>7, <2>3, <2>4, <2>5 DEF l
<1>8. CASE q # 1 /\ q # n
  <2> DEFINE pv == [prev EXCEPT ![s[q + 1]] = s[q - 1]]
             nx == [next EXCEPT ![s[q - 1]] = s[q + 1]]
  <2>1. q + 1 \in 1..n /\ q - 1 \in 1..n /\ s[q + 1] \in Timers /\ s[q - 1] \in Timers
    BY <1>1, <1>3, <1>8
  <2>2. l = Links(head, tail, pv, nx)
    BY <1>1, <1>4, <1>8 DEF Unlink
  <2>3. /\ pv \in [Timers -> Timers \cup {NULL}] /\ pv[s[q + 1]] = s[q - 1]
        /\ \A i \in 1..n : i # q + 1 => pv[s[i]] = prev[s[i]]
        /\ \A x \in Timers \ allocated : pv[x] = prev[x]
    BY <1>1, <1>2, <2>1
  <2>4. /\ nx \in [Timers -> Timers \cup {NULL}] /\ nx[s[q - 1]] = s[q + 1]
        /\ \A i \in 1..n : i # q - 1 => nx[s[i]] = next[s[i]]
        /\ \A x \in Timers \ allocated : nx[x] = next[x]
    BY <1>1, <1>2, <2>1
  <2> HIDE DEF l, pv, nx
  <2>5. l \in ListType
    BY <1>2, <2>2, <2>3, <2>4 DEF ListType, Links
  <2>6. l.head = s[1] /\ l.tail = s[n] /\ l.prev = pv /\ l.next = nx
    BY <1>1, <2>2 DEF Links
  <2>7. QED BY <1>8, <2>3, <2>4, <2>5, <2>6 DEF l
<1>9. QED BY <1>5, <1>6, <1>7, <1>8

LEMMA DelInv ==
  ASSUME ListInv, NEW t \in Timers, Del(t)
  PROVE  ListInv'
<1>1. TypeOK /\ Loose(Now, allocated)
  BY DEF ListInv
<1>2. PICK s \in Seq(Timers) : IsList(s)
  BY DEF ListInv
<1>3. t \in allocated
  BY DEF Del
<1>4. PICK q \in 1..Len(s) : s[q] = t
  BY <1>1, <1>2, <1>3, ListFacts
<1> DEFINE n == Len(s)
           k == Unlink(t)
           pv == [x \in Timers |-> IF x \in {t} THEN NULL ELSE k.prev[x]]
           nx == [x \in Timers |-> IF x \in {t} THEN NULL ELSE k.next[x]]
           l == Links(k.head, k.tail, pv, nx)
<1>5. /\ Become(l) /\ allocated' = allocated \ {t} /\ fired' = <<>>
      /\ expire' = [x \in Timers |-> IF x \in {t} THEN 0 ELSE expire[x]]
  BY DEF Del, BecomeWithout, Links
<1>6. /\ k \in ListType
      /\ k.head = IF q # 1 THEN s[1] ELSE IF n = 1 THEN NULL ELSE s[2]
      /\ n > 1 => k.tail = IF q = n THEN s[q - 1] ELSE s[n]
      /\ \A i \in 1..n : i # q /\ i # q + 1 => k.prev[s[i]] = prev[s[i]]
      /\ \A i \in 1..n : i # q /\ i # q - 1 => k.next[s[i]] = next[s[i]]
      /\ q # n => k.prev[s[q + 1]] = IF q = 1 THEN NULL ELSE s[q - 1]
      /\ q # 1 => k.next[s[q - 1]] = IF q = n THEN NULL ELSE s[q + 1]
      /\ \A x \in Timers \ allocated : k.prev[x] = prev[x] /\ k.next[x] = next[x]
  BY <1>1, <1>2, <1>4, UnlinkSpells
<1> HIDE DEF k
<1>7. /\ n \in Nat /\ q \in 1..n
      /\ \A i \in 1..n : s[i] \in Timers
      /\ \A i, j \in 1..n : s[i] = s[j] => i = j
  BY <1>1, <1>2, ListFacts
<1>8. \A i \in 1..n : i # q => pv[s[i]] = k.prev[s[i]] /\ nx[s[i]] = k.next[s[i]]
  BY <1>4, <1>7
<1>9. /\ k.head \in Timers \cup {NULL} /\ k.tail \in Timers \cup {NULL}
      /\ k.prev \in [Timers -> Timers \cup {NULL}] /\ k.next \in [Timers -> Timers \cup {NULL}]
  BY <1>6 DEF ListType
<1>10. pv \in [Timers -> Timers \cup {NULL}] /\ nx \in [Timers -> Timers \cup {NULL}]
  BY <1>9
<1>11. l \in ListType
  BY <1>9, <1>10 DEF ListType, Links
<1>12. Loose(l, allocated')
  <2>1. \A x \in Timers \ allocated : prev[x] = NULL /\ next[x] = NULL
    BY <1>1 DEF Loose, Now, Links
  <2>2. ASSUME NEW x \in Timers \ allocated' PROVE nx[x] = NULL /\ pv[x] = NULL
    BY <1>5, <1>6, <2>1
  <2>3. l.next = nx /\ l.prev = pv
    BY DEF Links
  <2> HIDE DEF l, nx, pv
  <2>4. QED BY <2>2, <2>3 DEF Loose
<1>13. Spells(Now, s) /\ Sorted(s, expire) /\ Covers(s, allocated)
  BY <1>2 DEF IsList
<1>14. Spells(l, Without(s, q))
  <2>1. /\ q # n => q + 1 \in 1..n /\ q + 1 # q
        /\ q # 1 => q - 1 \in 1..n /\ q - 1 # q
    BY <1>7
  <2>2. /\ \A i \in 1..n : i # q /\ i # q + 1 => pv[s[i]] = Now.prev[s[i]]
        /\ \A i \in 1..n : i # q /\ i # q - 1 => nx[s[i]] = Now.next[s[i]]
    BY <1>1, <1>6, <1>8, NowType
  <2>3. /\ q # n => pv[s[q + 1]] = IF q = 1 THEN NULL ELSE s[q - 1]
        /\ q # 1 => nx[s[q - 1]] = IF q = n THEN NULL ELSE s[q + 1]
    BY <1>6, <1>8, <2>1
  <2>4. Now \in ListType
    BY <1>1, NowType
  <2> HIDE DEF pv, nx
  <2>5. QED BY <1>6, <1>13, <2>2, <2>3, <2>4, SpellsWithout
<1>15. /\ expire \in [Timers -> Times] /\ allocated \in SUBSET Timers
  BY <1>1 DEF TypeOK
<1>16. expire' \in [Timers -> Times] /\ \A i \in 1..n : i # q => expire'[s[i]] = expire[s[i]]
  <2>1. 0 \in Times
    BY MaxTimeAssumption DEF Times
  <2>2. expire' \in [Timers -> Times]
    BY <1>5, <1>15, <2>1
  <2>3. \A i \in 1..n : i # q => s[i] # t /\ s[i] \in Timers
    BY <1>4, <1>7
  <2>4. QED BY <1>5, <2>2, <2>3
<1>17. Sorted(Without(s, q), expire')
  BY <1>13, <1>16, WithoutSorted
<1>18. Covers(Without(s, q), allocated')
  BY <1>4, <1>5, <1>7, <1>13, WithoutCovers
<1>19. Without(s, q) \in Seq(Timers)
  BY WithoutShape
<1>20. allocated' \in SUBSET Timers /\ fired' \in Seq(Timers)
  BY <1>5, <1>15
<1> HIDE DEF l
<1>21. QED BY <1>5, <1>11, <1>12, <1>14, <1>16, <1>17, <1>18, <1>19, <1>20, ToInv

\* adjust_timer leaves the timer where it is, or takes it out and puts it back
\* further down.
LEMMA AdjustInv ==
  ASSUME ListInv, NEW t \in Timers, NEW e \in Times, Adjust(t, e)
  PROVE  ListInv'
<1>1. TypeOK /\ Loose(Now, allocated)
  BY DEF ListInv
<1>2. PICK s \in Seq(Timers) : IsList(s)
  BY DEF ListInv
<1>3. /\ t \in allocated /\ e >= expire[t] /\ allocated' = allocated /\ fired' = <<>>
      /\ expire' = [expire EXCEPT ![t] = e]
  BY DEF Adjust, SetExpire
<1> DEFINE n == Len(s)
           ex == expire'
           after == next[t]
<1>4. PICK q \in 1..n : s[q] = t
  BY <1>1, <1>2, <1>3, ListFacts
<1>5. /\ n \in Nat /\ q \in 1..n
      /\ \A i \in 1..n : s[i] \in Timers /\ s[i] \in allocated /\ s[i] # NULL
      /\ \A i, j \in 1..n : s[i] = s[j] => i = j
      /\ \A i, j \in 1..n : i <= j => expire[s[i]] <= expire[s[j]]
      /\ next[t] = IF q = n THEN NULL ELSE s[q + 1]
      /\ prev[t] = IF q = 1 THEN NULL ELSE s[q - 1]
      /\ head = s[1] /\ tail = s[n]
  <2>1. /\ n \in Nat
        /\ \A i \in 1..n : s[i] \in Timers /\ s[i] \in allocated /\ s[i] # NULL
        /\ \A i, j \in 1..n : s[i] = s[j] => i = j
        /\ \A i, j \in 1..n : i <= j => expire[s[i]] <= expire[s[j]]
    BY <1>1, <1>2, ListFacts
  <2>2. /\ \A i \in 1..n : next[s[i]] = IF i = n THEN NULL ELSE s[i + 1]
        /\ \A i \in 1..n : prev[s[i]] = IF i = 1 THEN NULL ELSE s[i - 1]
    BY <1>1, <1>2, ListFacts
  <2>3. (head = IF n = 0 THEN NULL ELSE s[1]) /\ (n > 0 => tail = s[n])
    BY <1>1, <1>2, ListFacts
  <2>4. n > 0 /\ q \in 1..n
    BY <1>4, <2>1
  <2> HIDE DEF n
  <2>5. /\ next[t] = IF q = n THEN NULL ELSE s[q + 1]
        /\ prev[t] = IF q = 1 THEN NULL ELSE s[q - 1]
    BY <1>4, <2>2, <2>4
  <2>6. head = s[1] /\ tail = s[n]
    BY <2>1, <2>3, <2>4
  <2>7. QED BY <2>1, <2>4, <2>5, <2>6
<1>6. /\ expire \in [Timers -> Times] /\ ex \in [Timers -> Times]
      /\ expire \in [Timers -> Int] /\ ex \in [Timers -> Int] /\ e \in Int /\ ex[t] = e
      /\ \A i \in 1..n : i # q => ex[s[i]] = expire[s[i]]
  BY <1>1, <1>3, <1>4, <1>5, TimesInt DEF TypeOK
<1>7. /\ prev \in [Timers -> Timers \cup {NULL}] /\ next \in [Timers -> Timers \cup {NULL}]
      /\ head \in Timers \cup {NULL} /\ tail \in Timers \cup {NULL} /\ allocated \in SUBSET Timers
  BY <1>1 DEF TypeOK
<1>8. Spells(Now, s) /\ Sorted(s, expire) /\ Covers(s, allocated)
  BY <1>2 DEF IsList
<1>9. allocated' \in SUBSET Timers /\ fired' \in Seq(Timers)
  BY <1>3, <1>7
<1>10. \A x \in Timers \ allocated : prev[x] = NULL /\ next[x] = NULL
  BY <1>1 DEF Loose, Now, Links
<1> HIDE DEF ex
<1>11. CASE after = NULL \/ e < expire[after]
  <2>1. Become(Now)
    BY <1>11 DEF Adjust
  <2>2. ASSUME NEW i \in 1..n, NEW j \in 1..n, i <= j
        PROVE  ex[s[i]] <= ex[s[j]]
    <3>1. CASE i = q /\ j = q
      BY <1>4, <1>6, <3>1
    <3>2. CASE i = q /\ q < j
      <4>1. q + 1 \in 1..n /\ q # n /\ q + 1 <= j
        BY <1>5, <3>2
      <4>2. e < expire[s[q + 1]] /\ expire[s[q + 1]] <= expire[s[j]]
        BY <1>5, <1>11, <4>1
      <4>3. s[j] \in Timers /\ s[q + 1] \in Timers
        BY <1>5, <4>1
      <4>4. ex[s[i]] = e
        BY <1>4, <1>6, <3>2
      <4>5. ex[s[j]] = expire[s[j]]
        BY <1>6, <3>2
      <4>6. e \in Int /\ expire[s[j]] \in Int /\ expire[s[q + 1]] \in Int
        BY <1>6, <4>3
      <4>7. QED BY <4>2, <4>4, <4>5, <4>6
    <3>3. CASE i < q /\ j = q
      <4>1. expire[s[i]] <= expire[t] /\ s[i] \in Timers
        BY <1>4, <1>5, <2>2, <3>3
      <4>2. QED BY <1>3, <1>4, <1>6, <3>3, <4>1
    <3>4. CASE i # q /\ j # q
      BY <1>5, <1>6, <2>2, <3>4
    <3>5. QED BY <1>5, <2>2, <3>1, <3>2, <3>3, <3>4
  <2>3. Sorted(s, expire')
    BY <2>2 DEF Sorted, ex
  <2>4. Now \in ListType /\ Loose(Now, allocated') /\ Covers(s, allocated')
    BY <1>1, <1>3, <1>8, NowType
  <2>5. QED BY <1>6, <1>8, <1>9, <2>1, <2>3, <2>4, ToInv DEF ex
<1>12. CASE ~ (after = NULL \/ e < expire[after])
  <2> DEFINE w == Without(s, q)
             l == IF t = head
                  THEN Links(after, tail, [prev EXCEPT ![after] = NULL], [next EXCEPT ![t] = NULL])
                  ELSE Links(head, tail, [prev EXCEPT ![after] = prev[t]],
                             [next EXCEPT ![prev[t]] = after])
             r == InsertAfter(l, ex, t, w[q])
  <2>1. q # n /\ q + 1 \in 1..n /\ after = s[q + 1] /\ after \in Timers /\ expire[after] <= e
    <3>1. q # n
      BY <1>5, <1>12
    <3>2. q + 1 \in 1..n
      BY <1>5, <3>1
    <3>3. after = s[q + 1] /\ after \in Timers
      BY <1>5, <3>1, <3>2
    <3>4. ~ (e < expire[after])
      BY <1>12
    <3>5. expire[after] \in Int /\ e \in Int
      BY <1>6, <3>3
    <3>6. QED BY <3>1, <3>2, <3>3, <3>4, <3>5
  <2>2. w \in Seq(Timers) /\ Len(w) = n - 1 /\ q \in 1..Len(w)
        /\ \A i \in 1..Len(w) : w[i] = IF i < q THEN s[i] ELSE s[i + 1]
    BY <1>5, <2>1, WithoutShape
  <2> HIDE DEF w
  <2>3. w[q] = after
    BY <1>5, <2>1, <2>2
  <2>4. Become(r)
    <3>1. Become(InsertAfter(l, ex, t, after))
      BY <1>12 DEF Adjust, ex
    <3>2. QED BY <2>3, <3>1
  <2> HIDE DEF r
  <2>5. t = head <=> q = 1
    BY <1>4, <1>5
  <2>6. l \in ListType /\ Spells(l, w)
        /\ \A x \in Timers \ allocated : l.prev[x] = NULL /\ l.next[x] = NULL
    <3>1. Now \in ListType /\ Now.prev = prev /\ Now.next = next
      BY <1>1, NowType
    <3>2. CASE q = 1
      <4> DEFINE pv == [prev EXCEPT ![after] = NULL]
                 nx == [next EXCEPT ![t] = NULL]
      <4>1. l = Links(after, tail, pv, nx)
        BY <2>5, <3>2
      <4>2. /\ pv \in [Timers -> Timers \cup {NULL}] /\ nx \in [Timers -> Timers \cup {NULL}]
            /\ pv[s[q + 1]] = NULL
            /\ \A i \in 1..n : i # q + 1 => pv[s[i]] = prev[s[i]]
            /\ \A i \in 1..n : i # q => nx[s[i]] = next[s[i]]
            /\ \A x \in Timers \ allocated : pv[x] = NULL /\ nx[x] = NULL
        BY <1>4, <1>5, <1>7, <1>10, <2>1
      <4> HIDE DEF l, pv, nx
      <4>3. l \in ListType /\ l.prev = pv /\ l.next = nx
        BY <1>7, <2>1, <4>1, <4>2 DEF ListType, Links
      <4>4. /\ after = IF q # 1 THEN s[1] ELSE IF n = 1 THEN NULL ELSE s[2]
            /\ n > 1 => tail = IF q = n THEN s[q - 1] ELSE s[n]
        BY <1>5, <2>1, <3>2
      <4> HIDE DEF after
      <4>5. Spells(Links(after, tail, pv, nx), Without(s, q))
        BY <1>8, <2>1, <3>1, <3>2, <4>2, <4>4, SpellsWithout
      <4>6. QED BY <4>1, <4>2, <4>3, <4>5 DEF w
    <3>3. CASE q # 1
      <4> DEFINE pv == [prev EXCEPT ![after] = prev[t]]
                 nx == [next EXCEPT ![prev[t]] = after]
      <4>1. l = Links(head, tail, pv, nx)
        BY <2>5, <3>3
      <4>a. q - 1 \in 1..n /\ prev[t] = s[q - 1] /\ prev[t] \in Timers
        BY <1>5, <3>3
      <4>2. /\ pv \in [Timers -> Timers \cup {NULL}] /\ nx \in [Timers -> Timers \cup {NULL}]
            /\ pv[s[q + 1]] = s[q - 1] /\ nx[s[q - 1]] = s[q + 1]
            /\ \A i \in 1..n : i # q + 1 => pv[s[i]] = prev[s[i]]
            /\ \A i \in 1..n : i # q - 1 => nx[s[i]] = next[s[i]]
        BY <1>4, <1>5, <1>7, <2>1, <4>a
      <4>b. \A x \in Timers \ allocated : pv[x] = NULL /\ nx[x] = NULL
        BY <1>5, <1>7, <1>10, <2>1, <4>a
      <4> HIDE DEF l, pv, nx
      <4>3. l \in ListType /\ l.prev = pv /\ l.next = nx
        BY <1>7, <2>1, <4>1, <4>2 DEF ListType, Links
      <4>4. /\ head = IF q # 1 THEN s[1] ELSE IF n = 1 THEN NULL ELSE s[2]
            /\ n > 1 => tail = IF q = n THEN s[q - 1] ELSE s[n]
        BY <1>5, <2>1, <3>3
      <4> HIDE DEF after
      <4>5. Spells(Links(head, tail, pv, nx), Without(s, q))
        BY <1>8, <2>1, <3>1, <3>3, <4>2, <4>4, SpellsWithout
      <4>6. QED BY <4>1, <4>b, <4>3, <4>5 DEF w
    <3>4. QED BY <3>2, <3>3
  <2> HIDE DEF l
  <2>7. Sorted(w, ex)
    BY <1>6, <1>8, WithoutSorted DEF w
  <2>8. Covers(w, allocated \ {t})
    BY <1>4, <1>5, <1>8, WithoutCovers DEF w
  <2>9. \A i \in 1..Len(w) : w[i] # t
    BY <2>8 DEF Covers
  <2>10. ex[w[q]] <= ex[t]
    <3>1. ex[w[q]] = ex[s[q + 1]] /\ q + 1 \in 1..n /\ q + 1 # q
      BY <1>5, <2>1, <2>3
    <3>2. ex[s[q + 1]] = expire[after] /\ ex[t] = e
      BY <1>6, <2>1, <3>1
    <3>3. QED BY <2>1, <3>1, <3>2
  <2>11. /\ r \in ListType
         /\ \E k \in 1..(Len(w) + 1) : Spells(r, Inserted(w, k, t)) /\ Sorted(Inserted(w, k, t), ex)
         /\ \A x \in Timers : x # t /\ (\A i \in 1..Len(w) : w[i] # x) =>
              r.next[x] = l.next[x] /\ r.prev[x] = l.prev[x]
    <3>1. ex \in [Timers -> Int]
      BY <1>6
    <3>2. w \in Seq(Timers) /\ q \in 1..Len(w)
      BY <2>2
    <3>3. l \in ListType /\ Spells(l, w)
      BY <2>6
    <3>4. InsertedInto(InsertAfter(l, ex, t, w[q]), l, w, ex, t)
      BY <2>7, <2>9, <2>10, <3>1, <3>2, <3>3, InsertAfterSpells
    <3>5. QED BY <3>4 DEF r, InsertedInto
  <2>12. PICK k \in 1..(Len(w) + 1) : Spells(r, Inserted(w, k, t)) /\ Sorted(Inserted(w, k, t), ex)
    BY <2>11
  <2>13. Loose(r, allocated')
    BY <1>3, <2>6, <2>8, <2>11 DEF Loose, Covers
  <2>14. Covers(Inserted(w, k, t), allocated')
    <3>1. (allocated \ {t}) \cup {t} = allocated'
      BY <1>3
    <3>2. Covers(Inserted(w, k, t), (allocated \ {t}) \cup {t})
      BY <2>2, <2>8, InsertedCovers
    <3>3. QED BY <3>1, <3>2
  <2>15. Inserted(w, k, t) \in Seq(Timers)
    BY <2>2, InsertedShape
  <2>16. QED BY <1>6, <1>9, <2>4, <2>11, <2>12, <2>13, <2>14, <2>15, ToInv DEF ex
<1>13. QED BY <1>11, <1>12
-----------------------------------------------------------------------------
\* tick fires a prefix of the list: the timers that have expired.
LEMMA FiresPrefix ==
  ASSUME TypeOK, NEW s \in Seq(Timers), IsList(s), NEW now \in Times
  PROVE  LET n == Fires(s, now)
         IN /\ n \in 0..Len(s)
            /\ \A i \in 1..Len(s) : i <= n <=> expire[s[i]] <= now
<1>1. /\ Len(s) \in Nat
      /\ \A i \in 1..Len(s) : s[i] \in Timers
      /\ \A i, j \in 1..Len(s) : i <= j => expire[s[i]] <= expire[s[j]]
  BY ListFacts
<1>2. now \in Int /\ \A i \in 1..Len(s) : expire[s[i]] \in Int
  BY <1>1, TimesInt DEF TypeOK
<1> DEFINE Stops(n) == /\ \A i \in 1..n : expire[s[i]] <= now
                       /\ n < Len(s) => now < expire[s[n + 1]]
           T == {i \in 1..Len(s) : now < expire[s[i]]}
           n == Fires(s, now)
<1>3. \E k \in 0..Len(s) : Stops(k)
  <2>1. CASE T = {}
    <3>1. Len(s) \in 0..Len(s) /\ ~ (Len(s) < Len(s))
      BY <1>1
    <3>2. \A i \in 1..Len(s) : expire[s[i]] <= now
      BY <1>2, <2>1
    <3>3. QED BY <3>1, <3>2
  <2>2. CASE T # {}
    <3>1. T \in SUBSET Nat
      BY <1>1
    <3>2. PICK m \in T : \A i \in T : m <= i
      <4> HIDE DEF T
      <4>1. QED BY <2>2, <3>1, Least
    <3>3. m \in 1..Len(s) /\ now < expire[s[m]] /\ m - 1 \in 0..Len(s) /\ (m - 1) + 1 = m
      BY <1>1, <3>2
    <3>4. ASSUME NEW i \in 1..(m - 1) PROVE expire[s[i]] <= now
      <4>1. i \in 1..Len(s) /\ ~ (m <= i)
        BY <1>1, <3>3
      <4>2. i \notin T
        BY <3>2, <4>1
      <4>3. QED BY <1>2, <4>1, <4>2
    <3>5. Stops(m - 1)
      BY <3>3, <3>4
    <3>6. QED BY <3>3, <3>5
  <2>3. QED BY <2>1, <2>2
<1>4. n = CHOOSE k \in 0..Len(s) : Stops(k)
  BY DEF Fires
<1>5. n \in 0..Len(s) /\ Stops(n)
  <2> HIDE DEF n, Stops
  <2>1. QED BY <1>3, <1>4
<1> HIDE DEF n
<1>6. ASSUME NEW i \in 1..Len(s), i <= n PROVE expire[s[i]] <= now
  BY <1>1, <1>5, <1>6
<1>7. ASSUME NEW i \in 1..Len(s), ~ (i <= n) PROVE ~ (expire[s[i]] <= now)
  <2>1. n < Len(s) /\ n + 1 \in 1..Len(s) /\ n + 1 <= i
    BY <1>1, <1>5, <1>7
  <2>2. now < expire[s[n + 1]] /\ expire[s[n + 1]] <= expire[s[i]]
    BY <1>1, <1>5, <2>1
  <2>3. QED BY <1>2, <2>1, <2>2
<1>8. QED BY <1>5, <1>6, <1>7 DEF n

\* What is left of a list when its first n nodes are gone.
Rest(s, n) == [i \in 1..(Len(s) - n) |-> s[i + n]]

\* Links that are those of l on the nodes behind the first n.
LeadPast(l, s, n, h, tl, pv, nx) ==
  /\ h = IF n < Len(s) THEN s[n + 1] ELSE NULL
  /\ n < Len(s) => tl = s[Len(s)] /\ pv[s[n + 1]] = NULL
  /\ \A i \in 1..Len(s) : i > n + 1 => pv[s[i]] = l.prev[s[i]]
  /\ \A i \in 1..Len(s) : i > n => nx[s[i]] = l.next[s[i]]

LEMMA SpellsRest ==
  ASSUME NEW l \in ListType, NEW s \in Seq(Timers), Spells(l, s), NEW n \in 0..Len(s),
         NEW h, NEW tl, NEW pv, NEW nx, LeadPast(l, s, n, h, tl, pv, nx)
  PROVE  Rest(s, n) \in Seq(Timers) /\ Spells(Links(h, tl, pv, nx), Rest(s, n))
<1> DEFINE N == Len(s)
           u == Rest(s, n)
<1>1. N \in Nat /\ n \in 0..N /\ \A i \in 1..N : s[i] \in Timers
  OBVIOUS
<1>2. \A i \in 1..(N - n) : i + n \in 1..N /\ i + n > n /\ (i + n) + 1 = (i + 1) + n
                          /\ (i + n) - 1 = (i - 1) + n /\ (i + n = N <=> i = N - n)
                          /\ (i # N - n => i + 1 \in 1..(N - n))
                          /\ (i # 1 => i - 1 \in 1..(N - n) /\ i + n > n + 1 /\ i + n # 1)
  BY <1>1
<1>3. u \in Seq(Timers) /\ Len(u) = N - n /\ \A i \in 1..(N - n) : u[i] = s[i + n]
  <2>1. \A i \in 1..(N - n) : s[i + n] \in Timers
    BY <1>1, <1>2
  <2>2. u \in [1..(N - n) -> Timers] /\ N - n \in Nat
    BY <1>1, <2>1 DEF Rest
  <2>3. u \in Seq(Timers) /\ Len(u) = N - n
    BY <2>2
  <2>4. QED BY <2>3 DEF Rest
<1>4. /\ \A i, j \in 1..N : s[i] = s[j] => i = j
      /\ \A i \in 1..N : l.next[s[i]] = IF i = N THEN NULL ELSE s[i + 1]
      /\ \A i \in 1..N : l.prev[s[i]] = IF i = 1 THEN NULL ELSE s[i - 1]
  BY DEF Spells
<1> HIDE DEF u
<1>a. /\ h = IF n < N THEN s[n + 1] ELSE NULL
      /\ n < N => tl = s[N] /\ pv[s[n + 1]] = NULL
      /\ \A i \in 1..N : i > n + 1 => pv[s[i]] = l.prev[s[i]]
      /\ \A i \in 1..N : i > n => nx[s[i]] = l.next[s[i]]
  BY DEF LeadPast
<1>5. ASSUME NEW i \in 1..(N - n), NEW j \in 1..(N - n), u[i] = u[j]
      PROVE  i = j
  <2>1. i + n = j + n
    BY <1>2, <1>3, <1>4, <1>5
  <2>2. QED BY <1>1, <2>1
<1>6. ASSUME NEW i \in 1..(N - n)
      PROVE  nx[u[i]] = IF i = N - n THEN NULL ELSE u[i + 1]
  <2>1. nx[u[i]] = IF i + n = N THEN NULL ELSE s[(i + n) + 1]
    BY <1>a, <1>2, <1>3, <1>4
  <2>2. i # N - n => u[i + 1] = s[(i + n) + 1]
    BY <1>2, <1>3
  <2>3. QED BY <1>2, <2>1, <2>2
<1>7. ASSUME NEW i \in 1..(N - n)
      PROVE  pv[u[i]] = IF i = 1 THEN NULL ELSE u[i - 1]
  <2>1. CASE i = 1
    <3>1. n < N /\ 1 + n = n + 1
      BY <1>1, <2>1
    <3>2. u[i] = s[n + 1]
      BY <1>3, <2>1, <3>1
    <3>3. QED BY <1>a, <2>1, <3>1, <3>2
  <2>2. CASE i # 1
    <3>1. i + n \in 1..N /\ i + n > n + 1 /\ i + n # 1
      BY <1>2, <2>2
    <3>2. pv[u[i]] = s[(i + n) - 1]
      BY <1>a, <1>3, <1>4, <3>1
    <3>3. u[i - 1] = s[(i + n) - 1]
      BY <1>2, <1>3, <2>2
    <3>4. QED BY <2>2, <3>2, <3>3
  <2>3. QED BY <2>1, <2>2
<1>8. (N - n = 0 <=> ~ (n < N)) /\ (n < N => 1 \in 1..(N - n) /\ N - n \in 1..(N - n)
                                         /\ 1 + n = n + 1 /\ (N - n) + n = N)
  BY <1>1
<1>9. n < N => u[1] = s[n + 1] /\ u[N - n] = s[N]
  BY <1>3, <1>8
<1>10. Spells(Links(h, tl, pv, nx), u)
  BY <1>a, <1>3, <1>5, <1>6, <1>7, <1>8, <1>9 DEF Spells, Links
<1>11. QED BY <1>3, <1>10 DEF u

\* A call of tick in terms of the sequence: what it fires, and what is left.
LEMMA TickFires ==
  ASSUME TypeOK, NEW s \in Seq(Timers), IsList(s), NEW now \in Times, Tick(now)
  PROVE  LET n == Fires(s, now)
         IN /\ n \in 0..Len(s)
            /\ \A i \in 1..Len(s) : i <= n <=> expire[s[i]] <= now
            /\ fired' \in Seq(Timers) /\ Len(fired') = n
            /\ \A i \in 1..n : fired'[i] = s[i]
            /\ Range(fired') = {s[i] : i \in 1..n}
            /\ BecomeWithout(Links(IF n < Len(s) THEN s[n + 1] ELSE NULL, tail,
                                   IF n > 0 /\ n < Len(s)
                                   THEN [prev EXCEPT ![s[n + 1]] = NULL] ELSE prev,
                                   next),
                             {s[i] : i \in 1..n})
<1> DEFINE n == Fires(s, now)
           f == SubSeq(s, 1, n)
           rest == IF n < Len(s) THEN s[n + 1] ELSE NULL
<1>1. n \in 0..Len(s) /\ \A i \in 1..Len(s) : i <= n <=> expire[s[i]] <= now
  BY FiresPrefix
<1>2. From(next, head) = s
  BY ChainIs
<1>3. /\ fired' = f
      /\ BecomeWithout(Links(rest, tail,
                             IF n > 0 /\ rest # NULL THEN [prev EXCEPT ![rest] = NULL] ELSE prev,
                             next),
                       Range(f))
  BY <1>2 DEF Tick
<1> HIDE DEF n
<1>4. Len(s) \in Nat /\ \A i \in 1..Len(s) : s[i] \in Timers /\ s[i] # NULL
  BY ListFacts
<1>5. f \in Seq(Timers) /\ Len(f) = n /\ \A i \in 1..n : f[i] = s[i]
  BY <1>1, <1>4
<1>6. Range(f) = {s[i] : i \in 1..n}
  <2>1. DOMAIN f = 1..n
    BY <1>1, <1>5
  <2> HIDE DEF f
  <2>2. QED BY <1>5, <2>1 DEF Range
<1>7. rest # NULL <=> n < Len(s)
  <2>1. n < Len(s) => n + 1 \in 1..Len(s)
    BY <1>1, <1>4
  <2>2. QED BY <1>4, <2>1
<1>8. (IF n > 0 /\ rest # NULL THEN [prev EXCEPT ![rest] = NULL] ELSE prev)
      = IF n > 0 /\ n < Len(s) THEN [prev EXCEPT ![s[n + 1]] = NULL] ELSE prev
  BY <1>7
<1>9. QED BY <1>1, <1>3, <1>5, <1>6, <1>8 DEF n

LEMMA TickInv ==
  ASSUME ListInv, NEW now \in Times, Tick(now)
  PROVE  ListInv'
<1>1. TypeOK /\ Loose(Now, allocated)
  BY DEF ListInv
<1>2. PICK s \in Seq(Timers) : IsList(s)
  BY DEF ListInv
<1> DEFINE N == Len(s)
           n == Fires(s, now)
           h == IF n < N THEN s[n + 1] ELSE NULL
           gone == {s[i] : i \in 1..n}
           pu == IF n > 0 /\ n < N THEN [prev EXCEPT ![s[n + 1]] = NULL] ELSE prev
           pv == [x \in Timers |-> IF x \in gone THEN NULL ELSE pu[x]]
           nx == [x \in Timers |-> IF x \in gone THEN NULL ELSE next[x]]
           l == Links(h, tail, pv, nx)
<1>3. n \in 0..N /\ fired' \in Seq(Timers) /\ BecomeWithout(Links(h, tail, pu, next), gone)
  BY <1>1, <1>2, TickFires
<1> HIDE DEF n
<1>4. /\ Become(l) /\ allocated' = allocated \ gone
      /\ expire' = [x \in Timers |-> IF x \in gone THEN 0 ELSE expire[x]]
  BY <1>3 DEF BecomeWithout, Links
<1>5. /\ N \in Nat
      /\ \A i \in 1..N : s[i] \in Timers /\ s[i] \in allocated
      /\ \A i, j \in 1..N : s[i] = s[j] => i = j
      /\ \A i \in 1..N : prev[s[i]] = IF i = 1 THEN NULL ELSE s[i - 1]
      /\ \A i, j \in 1..N : i <= j => expire[s[i]] <= expire[s[j]]
      /\ \A t \in allocated : \E i \in 1..N : s[i] = t
      /\ N > 0 => tail = s[N]
  BY <1>1, <1>2, ListFacts
<1>6. /\ prev \in [Timers -> Timers \cup {NULL}] /\ next \in [Timers -> Timers \cup {NULL}]
      /\ expire \in [Timers -> Times] /\ allocated \in SUBSET Timers
      /\ tail \in Timers \cup {NULL}
  BY <1>1 DEF TypeOK
<1>7. /\ n \in Nat /\ n <= N
      /\ n < N => n + 1 \in 1..N /\ s[n + 1] \in Timers /\ s[n + 1] \in allocated
  BY <1>3, <1>5
<1>8. \A i \in 1..N : s[i] \in gone <=> i <= n
  <2>1. \A i \in 1..n : i \in 1..N
    BY <1>5, <1>7
  <2>2. \A i \in 1..N : i <= n => i \in 1..n
    BY <1>7
  <2>3. ASSUME NEW i \in 1..N, s[i] \in gone PROVE i <= n
    <3>1. PICK j \in 1..n : s[i] = s[j]
      BY <2>3
    <3>2. i = j
      BY <1>5, <2>1, <3>1
    <3>3. QED BY <1>7, <3>2
  <2>4. QED BY <2>2, <2>3
<1>9. pu \in [Timers -> Timers \cup {NULL}]
  BY <1>6
<1>10. \A i \in 1..N : i > n + 1 => pu[s[i]] = prev[s[i]]
  <2>1. ASSUME NEW i \in 1..N, i > n + 1 PROVE pu[s[i]] = prev[s[i]]
    <3>1. CASE n > 0 /\ n < N
      <4>1. s[i] # s[n + 1]
        BY <1>5, <1>7, <2>1, <3>1
      <4>2. QED BY <1>5, <1>6, <3>1, <4>1
    <3>2. CASE ~ (n > 0 /\ n < N)
      BY <3>2
    <3>3. QED BY <3>1, <3>2
  <2>2. QED BY <2>1
<1>11. n < N => pu[s[n + 1]] = NULL
  <2>1. CASE n > 0 /\ n < N
    BY <1>6, <1>7, <2>1
  <2>2. CASE n = 0 /\ n < N
    BY <1>5, <1>7, <2>2
  <2>3. QED BY <1>7, <2>1, <2>2
<1>12. \A x \in Timers \ allocated : pu[x] = NULL /\ next[x] = NULL
  <2>1. \A x \in Timers \ allocated : prev[x] = NULL /\ next[x] = NULL
    BY <1>1 DEF Loose, Now, Links
  <2>2. QED BY <1>6, <1>7, <2>1
<1> HIDE DEF pu
<1>13. pv \in [Timers -> Timers \cup {NULL}] /\ nx \in [Timers -> Timers \cup {NULL}]
  BY <1>6, <1>9
<1>14. h \in Timers \cup {NULL}
  BY <1>7
<1>15. \A i \in 1..N : i > n => pv[s[i]] = pu[s[i]] /\ nx[s[i]] = next[s[i]]
  BY <1>5, <1>7, <1>8
<1>16. \A x \in Timers \ allocated' : pv[x] = NULL /\ nx[x] = NULL
  BY <1>4, <1>12
<1> HIDE DEF h, pv, nx
<1>17. l \in ListType /\ Loose(l, allocated')
  BY <1>6, <1>13, <1>14, <1>16 DEF ListType, Loose, Links
<1>18. Spells(Now, s) /\ Sorted(s, expire) /\ Covers(s, allocated)
  BY <1>2 DEF IsList
<1>19. Rest(s, n) \in Seq(Timers) /\ Spells(l, Rest(s, n))
  <2>1. Now \in ListType /\ Now.prev = prev /\ Now.next = next
    BY <1>1, NowType
  <2>2. \A i \in 1..N : i > n + 1 => pv[s[i]] = Now.prev[s[i]]
    BY <1>5, <1>7, <1>10, <1>15, <2>1
  <2>3. \A i \in 1..N : i > n => nx[s[i]] = Now.next[s[i]]
    BY <1>15, <2>1
  <2>4. n < N => tail = s[N] /\ pv[s[n + 1]] = NULL
    BY <1>5, <1>7, <1>11, <1>15
  <2>5. h = IF n < N THEN s[n + 1] ELSE NULL
    BY DEF h
  <2>6. Now \in ListType /\ Spells(Now, s) /\ n \in 0..N
    BY <1>3, <1>18, <2>1
  <2>7. Rest(s, n) \in Seq(Timers) /\ Spells(Links(h, tail, pv, nx), Rest(s, n))
    <3>1. LeadPast(Now, s, n, h, tail, pv, nx)
      BY <2>2, <2>3, <2>4, <2>5 DEF LeadPast
    <3>2. QED BY <2>6, <3>1, SpellsRest
  <2>8. QED BY <2>7
<1> DEFINE u == Rest(s, n)
<1>20. \A i \in 1..(N - n) : i + n \in 1..N /\ i + n > n /\ ~ (i + n <= n)
  BY <1>5, <1>7
<1>21. Len(u) = N - n /\ \A i \in 1..(N - n) : u[i] = s[i + n]
  BY <1>5, <1>7 DEF Rest
<1> HIDE DEF u, gone
<1>22. \A i \in 1..(N - n) : u[i] \notin gone /\ u[i] \in allocated'
  BY <1>4, <1>5, <1>8, <1>20, <1>21
<1>23. expire' \in [Timers -> Times] /\ \A x \in Timers : x \notin gone => expire'[x] = expire[x]
  <2>1. 0 \in Times
    BY MaxTimeAssumption DEF Times
  <2>2. QED BY <1>4, <1>6, <2>1
<1>24. Sorted(u, expire')
  <2>1. ASSUME NEW i \in 1..(N - n), NEW j \in 1..(N - n), i <= j
        PROVE  expire'[u[i]] <= expire'[u[j]]
    <3>1. i + n <= j + n
      BY <1>7, <2>1
    <3>2. expire[s[i + n]] <= expire[s[j + n]]
      BY <1>5, <1>20, <3>1
    <3>3. u[i] \in Timers /\ u[j] \in Timers
      BY <1>5, <1>20, <1>21
    <3>4. QED BY <1>21, <1>22, <1>23, <3>2, <3>3
  <2>2. QED BY <1>21, <2>1 DEF Sorted
<1>25. Covers(u, allocated')
  <2>1. ASSUME NEW x \in allocated' PROVE \E i \in 1..(N - n) : u[i] = x
    <3>1. PICK k \in 1..N : s[k] = x
      BY <1>4, <1>5
    <3>2. ~ (k <= n)
      BY <1>4, <1>8, <3>1
    <3>3. k - n \in 1..(N - n) /\ (k - n) + n = k
      BY <1>5, <1>7, <3>2
    <3>4. u[k - n] = s[k]
      BY <1>21, <3>3
    <3>5. QED BY <3>1, <3>3, <3>4
  <2>2. QED BY <1>21, <1>22, <2>1 DEF Covers
<1>26. allocated' \in SUBSET Timers
  BY <1>4, <1>6
<1> HIDE DEF l
<1>27. QED BY <1>3, <1>4, <1>17, <1>19, <1>23, <1>24, <1>25, <1>26, ToInv DEF u
-----------------------------------------------------------------------------
LEMMA NextInv == ListInv /\ [Next]_vars => ListInv'
<1>1. SUFFICES ASSUME ListInv, [Next]_vars PROVE ListInv'
  OBVIOUS
<1>2. CASE UNCHANGED vars
  <2>1. UNCHANGED <<head, tail, prev, next, expire, allocated, fired>>
    BY <1>2 DEF vars
  <2>2. TypeOK' /\ Loose(Now, allocated)'
    BY <1>1, <2>1 DEF ListInv, TypeOK, Loose, Now, Links
  <2>3. PICK s \in Seq(Timers) : IsList(s)
    BY <1>1 DEF ListInv
  <2>4. Now' = Now
    BY <2>1 DEF Now, Links
  <2>5. IsList(s)'
    BY <2>1, <2>3, <2>4 DEF IsList
  <2>6. QED BY <2>2, <2>5 DEF ListInv
<1>3. ASSUME NEW t \in Timers, Del(t) PROVE ListInv'
  BY <1>1, <1>3, DelInv
<1>4. ASSUME NEW t \in Timers, NEW e \in Times, Add(t, e) PROVE ListInv'
  BY <1>1, <1>4, AddInv
<1>5. ASSUME NEW t \in Timers, NEW e \in Times, Adjust(t, e) PROVE ListInv'
  BY <1>1, <1>5, AdjustInv
<1>6. ASSUME NEW now \in Times, Tick(now) PROVE ListInv'
  BY <1>1, <1>6, TickInv
<1>7. QED BY <1>1, <1>2, <1>3, <1>4, <1>5, <1>6 DEF Next

\* In every state the two link fields of the timers spell the same sequence of
\* the allocated timers, in ascending order of expiry, and no link leads to a
\* deleted timer: the structure every walk of sort_timer_lst relies on.
THEOREM ListAlways == Spec => []ListInv
<1>1. QED BY InitInv, NextInv, PTL DEF Spec

\* Every variable of the timer list holds a value of its type.
THEOREM TypeCorrect == Spec => []TypeOK
<1>1. ListInv => TypeOK
  BY DEF ListInv
<1>2. QED BY <1>1, ListAlways, PTL

LEMMA ListInvWellLinked == ListInv => WellLinked
<1>1. SUFFICES ASSUME ListInv PROVE WellLinked
  OBVIOUS
<1>2. TypeOK
  BY <1>1 DEF ListInv
<1>3. PICK s \in Seq(Timers) : IsList(s)
  BY <1>1 DEF ListInv
<1>4. Chain = s
  BY <1>2, <1>3, ChainIs DEF Chain
<1>5. /\ Len(s) \in Nat
      /\ \A i \in 1..Len(s) : s[i] \in Timers /\ s[i] \in allocated
      /\ \A i, j \in 1..Len(s) : s[i] = s[j] => i = j
      /\ \A i \in 1..Len(s) : next[s[i]] = IF i = Len(s) THEN NULL ELSE s[i + 1]
      /\ \A i \in 1..Len(s) : prev[s[i]] = IF i = 1 THEN NULL ELSE s[i - 1]
      /\ \A t \in allocated : \E i \in 1..Len(s) : s[i] = t
      /\ head = IF Len(s) = 0 THEN NULL ELSE s[1]
      /\ Len(s) > 0 => tail = s[Len(s)]
  BY <1>2, <1>3, ListFacts
<1>6. DOMAIN s = 1..Len(s)
  OBVIOUS
<1>7. Range(s) = allocated
  <2>1. \A x \in allocated : \E i \in DOMAIN s : x = s[i]
    BY <1>5, <1>6
  <2>2. \A i \in DOMAIN s : s[i] \in allocated
    BY <1>5, <1>6
  <2>3. QED BY <2>1, <2>2 DEF Range
<1>8. IsInjective(s)
  BY <1>5, <1>6 DEF IsInjective
<1>9. ASSUME head # NULL
      PROVE  /\ prev[head] = NULL /\ next[tail] = NULL /\ tail = s[Len(s)]
             /\ \A i \in 2..Len(s) : prev[s[i]] = s[i - 1]
  <2>1. 1 \in 1..Len(s) /\ Len(s) \in 1..Len(s) /\ head = s[1] /\ tail = s[Len(s)]
    BY <1>5, <1>9
  <2>2. \A i \in 2..Len(s) : i \in 1..Len(s) /\ i # 1
    BY <1>5
  <2>3. QED BY <1>5, <2>1, <2>2
<1>10. QED BY <1>4, <1>7, <1>8, <1>9 DEF WellLinked

\* The list holds every allocated timer once, reads the same in both directions
\* and ends at tail: add_timer, adjust_timer, del_timer and tick never lose a
\* timer, close a cycle or leave a dangling link, for any number of timers.
THEOREM Links_WellLinked == Spec => []WellLinked
<1>1. QED BY ListInvWellLinked, ListAlways, PTL
-----------------------------------------------------------------------------
\* The deadline that the abstract timer set sees.
Deadline == [t \in Timers |-> IF t \in allocated THEN expire[t] ELSE NULL]

LEMMA StepTick ==
  ASSUME ListInv, NEW now \in Times, Tick(now)
  PROVE  TS!Tick(now)
<1>1. TypeOK
  BY DEF ListInv
<1>2. PICK s \in Seq(Timers) : IsList(s)
  BY DEF ListInv
<1> DEFINE n == Fires(s, now)
           gone == {s[i] : i \in 1..n}
<1>3. /\ n \in 0..Len(s)
      /\ \A i \in 1..Len(s) : i <= n <=> expire[s[i]] <= now
      /\ fired' \in Seq(Timers) /\ Len(fired') = n
      /\ \A i \in 1..n : fired'[i] = s[i]
      /\ Range(fired') = gone
      /\ allocated' = allocated \ gone
      /\ expire' = [x \in Timers |-> IF x \in gone THEN 0 ELSE expire[x]]
  BY <1>1, <1>2, TickFires DEF BecomeWithout
<1> HIDE DEF n
<1>4. /\ Len(s) \in Nat
      /\ \A i \in 1..Len(s) : s[i] \in Timers /\ s[i] \in allocated
      /\ \A i, j \in 1..Len(s) : s[i] = s[j] => i = j
      /\ \A i, j \in 1..Len(s) : i <= j => expire[s[i]] <= expire[s[j]]
      /\ \A t \in allocated : \E i \in 1..Len(s) : s[i] = t
  BY <1>1, <1>2, ListFacts
<1>5. /\ Deadline \in [Timers -> Times \cup {NULL}]
      /\ \A t \in Timers : Deadline[t] # NULL <=> t \in allocated
      /\ \A t \in allocated : Deadline[t] = expire[t]
  BY <1>1, TimesInt DEF TypeOK, Deadline
<1>6. n \in Nat /\ \A i \in 1..n : i \in 1..Len(s) /\ i <= n
  BY <1>3, <1>4
<1>7. TS!Due(now) = {t \in Timers : t \in allocated /\ expire[t] <= now}
  <2>1. TS!Due(now) = {t \in Timers : Deadline[t] # NULL /\ Deadline[t] <= now}
    BY DEF TS!Due, Deadline
  <2> HIDE DEF Deadline
  <2>2. QED BY <1>5, <2>1
<1>8. gone = TS!Due(now)
  <2>1. ASSUME NEW x \in gone PROVE x \in Timers /\ x \in allocated /\ expire[x] <= now
    <3>1. PICK i \in 1..n : s[i] = x
      OBVIOUS
    <3>2. i \in 1..Len(s) /\ i <= n
      BY <1>6
    <3>3. QED BY <1>3, <1>4, <3>1, <3>2
  <2>2. ASSUME NEW x \in Timers, x \in allocated, expire[x] <= now PROVE x \in gone
    <3>1. PICK i \in 1..Len(s) : s[i] = x
      BY <1>4, <2>2
    <3>2. i <= n
      BY <1>3, <2>2, <3>1
    <3>3. i \in 1..n
      BY <1>6, <3>2
    <3>4. QED BY <3>1, <3>3
  <2> HIDE DEF gone
  <2>3. QED BY <1>7, <2>1, <2>2
<1> HIDE DEF gone
<1>9. fired' \in [1..Len(fired') -> Timers] /\ DOMAIN fired' = 1..n
  BY <1>3
<1>10. IsInjective(fired')
  BY <1>3, <1>4, <1>6, <1>9 DEF IsInjective
<1>11. Range(fired') = TS!Due(now)
  BY <1>3, <1>8
<1>12. ASSUME NEW i \in DOMAIN fired', NEW j \in DOMAIN fired', i < j
       PROVE  Deadline[fired'[i]] <= Deadline[fired'[j]]
  <2>1. i \in 1..Len(s) /\ j \in 1..Len(s) /\ i <= j
    BY <1>6, <1>9, <1>12
  <2>2. fired'[i] = s[i] /\ fired'[j] = s[j]
    BY <1>3, <1>9
  <2>3. QED BY <1>4, <1>5, <2>1, <2>2
<1>13. Deadline' = [t \in Timers |-> IF t \in TS!Due(now) THEN NULL ELSE Deadline[t]]
  <2>1. Deadline' = [t \in Timers |-> IF t \in allocated' THEN expire'[t] ELSE NULL]
    BY DEF Deadline
  <2>2. Deadline = [t \in Timers |-> IF t \in allocated THEN expire[t] ELSE NULL]
    BY DEF Deadline
  <2>3. \A t \in Timers : (IF t \in allocated' THEN expire'[t] ELSE NULL)
                        = IF t \in TS!Due(now) THEN NULL ELSE Deadline[t]
    BY <1>3, <1>8, <2>2
  <2>4. QED BY <2>1, <2>3
<1>14. \A i, j \in DOMAIN fired' : i < j => Deadline[fired'[i]] <= Deadline[fired'[j]]
  BY <1>12
<1>15. TS!IsInjective(fired') /\ TS!Range(fired') = TS!Due(now)
  BY <1>10, <1>11 DEF IsInjective, Range, TS!IsInjective, TS!Range
<1>16. QED BY <1>9, <1>13, <1>14, <1>15 DEF TS!Tick, Deadline

LEMMA StepTimerSet ==
  ASSUME ListInv, [Next]_vars
  PROVE  [TS!Next]_(TS!vars)
<1>1. TypeOK
  BY DEF ListInv
<1>2. /\ \A t \in Timers : Deadline[t] # NULL <=> t \in allocated
      /\ Deadline = [t \in Timers |-> IF t \in allocated THEN expire[t] ELSE NULL]
      /\ Deadline' = [t \in Timers |-> IF t \in allocated' THEN expire'[t] ELSE NULL]
      /\ expire \in [Timers -> Times] /\ allocated \in SUBSET Timers
  BY <1>1, TimesInt DEF TypeOK, Deadline
<1>3. CASE UNCHANGED vars
  BY <1>3 DEF vars, TS!vars
<1>4. ASSUME NEW t \in Timers, Del(t) PROVE TS!Remove(t)
  <2>1. /\ t \in allocated /\ allocated' = allocated \ {t} /\ fired' = <<>>
        /\ expire' = [x \in Timers |-> IF x \in {t} THEN 0 ELSE expire[x]]
    BY <1>4 DEF Del, BecomeWithout
  <2>2. Deadline' = [Deadline EXCEPT ![t] = NULL]
    BY <1>2, <2>1
  <2>3. QED BY <1>2, <2>1, <2>2 DEF TS!Remove, Deadline
<1>5. ASSUME NEW t \in Timers, NEW e \in Times, Add(t, e) PROVE TS!Add(t, e)
  <2>1. /\ t \notin allocated /\ allocated' = allocated \cup {t} /\ fired' = <<>>
        /\ expire' = [expire EXCEPT ![t] = e]
    BY <1>5 DEF Add, SetExpire
  <2>2. Deadline' = [Deadline EXCEPT ![t] = e]
    BY <1>2, <2>1
  <2>3. QED BY <1>2, <2>1, <2>2 DEF TS!Add, Deadline
<1>6. ASSUME NEW t \in Timers, NEW e \in Times, Adjust(t, e) PROVE TS!Adjust(t, e)
  <2>1. /\ t \in allocated /\ allocated' = allocated /\ fired' = <<>>
        /\ expire' = [expire EXCEPT ![t] = e]
    BY <1>6 DEF Adjust, SetExpire
  <2>2. Deadline' = [Deadline EXCEPT ![t] = e]
    BY <1>2, <2>1
  <2>3. QED BY <1>2, <2>1, <2>2 DEF TS!Adjust, Deadline
<1>7. ASSUME NEW now \in Times, Tick(now) PROVE TS!Tick(now)
  BY <1>7, StepTick
<1>8. QED BY <1>3, <1>4, <1>5, <1>6, <1>7 DEF Next, TS!Next

\* The pointer list implements a set of deadlines: adding, prolonging and
\* deleting a timer changes that timer's deadline only, and a tick calls back
\* exactly the timers that are due, each once and the earlier ones first.
THEOREM Refinement == Spec => ImplementsTimerSet
<1>1. Init => TS!Init
  BY DEF Init, TS!Init
<1>2. ListInv /\ [Next]_vars => [TS!Next]_(TS!vars)
  BY StepTimerSet
<1>3. QED BY <1>1, <1>2, ListAlways, PTL DEF Spec, ImplementsTimerSet, TS!Spec
=============================================================================
