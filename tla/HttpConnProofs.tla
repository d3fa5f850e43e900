--------------------------- MODULE HttpConnProofs ---------------------------
(***************************************************************************)
(* Theorems about HttpConn, for every set of conversations, every size of  *)
(* the read buffer, every size of header and file, every way in which the  *)
(* requests are cut into arrivals and in which writev takes its bytes.     *)
(*                                                                         *)
(*   1. what FlattenSeq makes of a sequence of sequences                   *)
(*   2. where the lines of a request are, in its stream and in m_read_buf  *)
(*   3. process_read: the invariant ParserInv, and what a step makes of it *)
(*   4. OutcomeRight and StallsOnCutBodyOnly                               *)
(*   5. write(): the invariants ResponseInv and WriterInv; SentIsResponse  *)
(*      and TypeOK                                                         *)
(*   6. HttpConn implements Exchange                                       *)
(***************************************************************************)
EXTENDS HttpConn, TLAPS, FiniteSetTheorems

\* Every nonempty set of natural numbers has a least element.
LEMMA Least ==
  ASSUME NEW T \in SUBSET Nat, T # {}
  PROVE  \E n \in T : \A m \in T : n <= m
<1>1. PICK n \in T : \A m \in T : ~ (<<m, n>> \in OpToRel(<, Nat))
  BY WFMin, NatLessThanWellFounded
<1>2. \A m \in T : n <= m
  <2>1. SUFFICES ASSUME NEW m \in T, m < n PROVE FALSE
    BY SMT
  <2>2. <<m, n>> \in OpToRel(<, Nat)
    BY <2>1 DEF OpToRel
  <2>3. QED BY <1>1, <2>2
<1>3. QED BY <1>2

Prefix(ss, k) == [i \in 1..k |-> ss[i]]
Flat(ss, k) == FlattenSeq(Prefix(ss, k))

\* The first k sequences of ss, one behind the other, are what a function
\* joins step by step.
Joins(f, ss, n) ==
  f = [i \in 1..n |-> IF i = 1 THEN ss[i] ELSE f[i - 1] \o ss[i]]

LEMMA JoinsExists ==
  ASSUME NEW ss, NEW n \in Nat \ {0}
  PROVE  \E f : Joins(f, ss, n)
<1> DEFINE T == {m \in Nat \ {0} : ~ \E f : Joins(f, ss, m)}
<1> SUFFICES ASSUME T # {} PROVE FALSE
  OBVIOUS
<1>1. T \in SUBSET Nat
  OBVIOUS
<1>2. PICK m \in T : \A k \in T : m <= k
  <2> HIDE DEF T
  <2> QED BY <1>1, Least
<1>3. m \in Nat \ {0} /\ ~ \E f : Joins(f, ss, m)
  OBVIOUS
<1>4. CASE m = 1
  <2>1. Joins([i \in 1..1 |-> ss[1]], ss, m)
    BY <1>4 DEF Joins
  <2> QED BY <1>3, <2>1
<1>5. CASE m # 1
  <2>1. m - 1 \in Nat \ {0} /\ ~ m <= m - 1
    BY <1>3, <1>5
  <2>2. PICK f : Joins(f, ss, m - 1)
    BY <1>2, <2>1
  <2> DEFINE g == [i \in 1..m |-> IF i = m THEN f[m - 1] \o ss[m] ELSE f[i]]
  <2>3. \A i \in 1..m - 1 : f[i] = IF i = 1 THEN ss[i] ELSE f[i - 1] \o ss[i]
    BY <2>2 DEF Joins
  <2>4. ASSUME NEW i \in 1..m PROVE g[i] = IF i = 1 THEN ss[i] ELSE g[i - 1] \o ss[i]
    <3>1. CASE i = m
      <4>1. m - 1 \in 1..m /\ m - 1 # m /\ m \in 1..m
        BY <1>3, <2>1
      <4>2. g[m] = f[m - 1] \o ss[m] /\ g[m - 1] = f[m - 1]
        BY <4>1
      <4> QED BY <1>5, <3>1, <4>2
    <3>2. CASE i # m /\ i # 1
      <4>1. i \in 1..m - 1 /\ i - 1 \in 1..m /\ i - 1 # m
        BY <1>3, <3>2
      <4>2. g[i] = f[i] /\ g[i - 1] = f[i - 1]
        BY <3>2, <4>1
      <4> QED BY <2>3, <3>2, <4>1, <4>2
    <3>3. CASE i # m /\ i = 1
      <4>1. i \in 1..m - 1
        BY <1>3, <3>3
      <4>2. g[i] = f[i]
        BY <3>3
      <4> QED BY <2>3, <3>3, <4>1, <4>2
    <3> QED BY <3>1, <3>2, <3>3
  <2>5. Joins(g, ss, m)
    <3>1. g = [i \in 1..m |-> g[i]]
      OBVIOUS
    <3> HIDE DEF g
    <3> QED BY <2>4, <3>1 DEF Joins
  <2> QED BY <1>3, <2>5
<1> QED BY <1>4, <1>5

LEMMA JoinsUnique ==
  ASSUME NEW ss, NEW m \in Nat, NEW n \in 1..m, NEW f, Joins(f, ss, m), NEW g, Joins(g, ss, n)
  PROVE  f[n] = g[n]
<1> DEFINE T == {k \in 1..n : f[k] # g[k]}
<1> SUFFICES ASSUME T # {} PROVE FALSE
  OBVIOUS
<1>1. T \in SUBSET Nat
  OBVIOUS
<1>2. PICK k \in T : \A i \in T : k <= i
  <2> HIDE DEF T
  <2> QED BY <1>1, Least
<1>3. /\ k \in 1..n /\ k \in 1..m /\ f[k] # g[k]
      /\ f[k] = (IF k = 1 THEN ss[k] ELSE f[k - 1] \o ss[k])
      /\ g[k] = (IF k = 1 THEN ss[k] ELSE g[k - 1] \o ss[k])
  <2>1. k \in 1..n /\ k \in 1..m /\ f[k] # g[k]
    OBVIOUS
  <2>2. f[k] = (IF k = 1 THEN ss[k] ELSE f[k - 1] \o ss[k])
    BY <2>1 DEF Joins
  <2>3. g[k] = (IF k = 1 THEN ss[k] ELSE g[k - 1] \o ss[k])
    BY <2>1 DEF Joins
  <2> QED BY <2>1, <2>2, <2>3
<1>4. k # 1 /\ k - 1 \in 1..n /\ ~ k <= k - 1
  BY <1>3
<1>5. f[k - 1] = g[k - 1]
  BY <1>2, <1>4
<1> QED BY <1>3, <1>4, <1>5

LEMMA FlatIsJoined ==
  ASSUME NEW ss, NEW m \in Nat, NEW n \in 1..m, NEW f, Joins(f, ss, m)
  PROVE  Flat(ss, n) = f[n]
<1> DEFINE p == Prefix(ss, n)
<1>1. Len(p) = n /\ n \in Nat \ {0} /\ \A i \in 1..n : p[i] = ss[i]
  BY DEF Prefix
<1> HIDE DEF p
<1> DEFINE h == CHOOSE g : g = [i \in 1..Len(p) |-> IF i = 1 THEN p[i] ELSE g[i - 1] \o p[i]]
<1>2. FlattenSeq(p) = h[n]
  BY <1>1 DEF FlattenSeq
<1>3. \E g : g = [i \in 1..Len(p) |-> IF i = 1 THEN p[i] ELSE g[i - 1] \o p[i]]
  BY <1>1, JoinsExists DEF Joins
<1>4. h = [i \in 1..Len(p) |-> IF i = 1 THEN p[i] ELSE h[i - 1] \o p[i]]
  BY <1>3
<1> HIDE DEF h
<1>5. h = [i \in 1..n |-> IF i = 1 THEN ss[i] ELSE h[i - 1] \o ss[i]]
  BY <1>1, <1>4
<1>6. Joins(h, ss, n)
  BY <1>5 DEF Joins
<1>7. f[n] = h[n]
  BY <1>6, JoinsUnique
<1> QED BY <1>2, <1>7 DEF Flat, p

LEMMA FlatNone == ASSUME NEW ss PROVE Flat(ss, 0) = <<>> /\ Len(Flat(ss, 0)) = 0
<1>1. Prefix(ss, 0) = <<>>
  BY DEF Prefix
<1> QED BY <1>1 DEF Flat, FlattenSeq

LEMMA FlatSeq ==
  ASSUME NEW S, NEW ss \in Seq(Seq(S)), NEW n \in 0..Len(ss)
  PROVE  Flat(ss, n) \in Seq(S)
<1> DEFINE T == {m \in 0..Len(ss) : Flat(ss, m) \notin Seq(S)}
<1> SUFFICES ASSUME T # {} PROVE FALSE
  OBVIOUS
<1>1. T \in SUBSET Nat
  OBVIOUS
<1>2. PICK m \in T : \A k \in T : m <= k
  <2> HIDE DEF T
  <2> QED BY <1>1, Least
<1>3. m \in 0..Len(ss) /\ Flat(ss, m) \notin Seq(S) /\ Len(ss) \in Nat
  OBVIOUS
<1>4. m # 0
  <2> SUFFICES ASSUME m = 0 PROVE FALSE
    OBVIOUS
  <2>1. Flat(ss, 0) = <<>> /\ <<>> \in Seq(S)
    BY FlatNone
  <2> QED BY <1>3, <2>1
<1> DEFINE N == Len(ss)
<1>5. PICK f : Joins(f, ss, N)
  <2>1. N \in Nat \ {0}
    BY <1>3, <1>4
  <2> HIDE DEF N
  <2> QED BY <2>1, JoinsExists
<1>6. /\ f[m] = (IF m = 1 THEN ss[m] ELSE f[m - 1] \o ss[m])
      /\ Flat(ss, m) = f[m] /\ ss[m] \in Seq(S)
  <2>1. m \in 1..Len(ss) /\ Len(ss) \in Nat
    BY <1>3, <1>4
  <2>2. f[m] = (IF m = 1 THEN ss[m] ELSE f[m - 1] \o ss[m])
    BY <1>5, <2>1 DEF Joins
  <2>3. Flat(ss, m) = f[m]
    BY <1>5, <2>1, FlatIsJoined
  <2> QED BY <2>1, <2>2, <2>3
<1>7. m # 1
  BY <1>3, <1>6
<1>8. m - 1 \in 0..Len(ss) /\ m - 1 \in 1..Len(ss) /\ ~ m <= m - 1
  BY <1>3, <1>4, <1>7
<1>9. f[m - 1] \in Seq(S)
  <2>1. Flat(ss, m - 1) \in Seq(S)
    BY <1>2, <1>8
  <2> QED BY <1>3, <1>5, <1>8, <2>1, FlatIsJoined
<1> QED BY <1>3, <1>6, <1>7, <1>9

\* FlattenSeq puts the n-th sequence behind the ones before it.
LEMMA FlatStep ==
  ASSUME NEW S, NEW ss \in Seq(Seq(S)), NEW n \in 1..Len(ss)
  PROVE  /\ Flat(ss, n - 1) \in Seq(S) /\ Flat(ss, n) \in Seq(S) /\ ss[n] \in Seq(S)
         /\ Flat(ss, n) = Flat(ss, n - 1) \o ss[n]
         /\ Len(Flat(ss, n)) = Len(Flat(ss, n - 1)) + Len(ss[n])
         /\ Len(Flat(ss, n - 1)) \in Nat /\ Len(Flat(ss, n)) \in Nat /\ Len(ss[n]) \in Nat
<1>1. /\ Len(ss) \in Nat \ {0} /\ n \in 0..Len(ss) /\ n - 1 \in 0..Len(ss)
      /\ ss[n] \in Seq(S)
  OBVIOUS
<1>2. Flat(ss, n - 1) \in Seq(S) /\ Flat(ss, n) \in Seq(S)
  BY <1>1, FlatSeq
<1> DEFINE N == Len(ss)
<1>3. PICK f : Joins(f, ss, N)
  <2>1. N \in Nat \ {0}
    BY <1>1
  <2> HIDE DEF N
  <2> QED BY <2>1, JoinsExists
<1>4. Flat(ss, n) = f[n] /\ f[n] = (IF n = 1 THEN ss[n] ELSE f[n - 1] \o ss[n])
  <2>1. N \in Nat /\ n \in 1..N
    OBVIOUS
  <2> HIDE DEF N
  <2>2. Flat(ss, n) = f[n]
    BY <1>3, <2>1, FlatIsJoined
  <2>3. f[n] = (IF n = 1 THEN ss[n] ELSE f[n - 1] \o ss[n])
    BY <1>3, <2>1 DEF Joins
  <2> QED BY <2>2, <2>3
<1>5. Flat(ss, n) = Flat(ss, n - 1) \o ss[n]
  <2>1. CASE n = 1
    BY <1>1, <1>4, <2>1, FlatNone
  <2>2. CASE n # 1
    <3>1. n - 1 \in 1..Len(ss)
      BY <2>2
    <3>2. Flat(ss, n - 1) = f[n - 1]
      BY <1>1, <1>3, <3>1, FlatIsJoined
    <3> QED BY <1>4, <2>2, <3>2
  <2> QED BY <2>1, <2>2
<1>6. Len(Flat(ss, n)) = Len(Flat(ss, n - 1)) + Len(ss[n])
  BY <1>1, <1>2, <1>5
<1>7. Len(Flat(ss, n - 1)) \in Nat /\ Len(Flat(ss, n)) \in Nat /\ Len(ss[n]) \in Nat
  BY <1>1, <1>2
<1> HIDE DEF N
<1> QED BY <1>1, <1>2, <1>5, <1>6, <1>7

LEMMA Concat ==
  ASSUME NEW S, NEW s \in Seq(S), NEW t \in Seq(S)
  PROVE  /\ s \o t \in Seq(S) /\ Len(s \o t) = Len(s) + Len(t)
         /\ \A k \in 1..Len(s) : (s \o t)[k] = s[k]
         /\ \A k \in 1..Len(t) : (s \o t)[Len(s) + k] = t[k]
OBVIOUS

Start(ss, k) == Len(Flat(ss, k - 1))

\* Where the sequences stand in what they are joined to.
LEMMA FlatAt ==
  ASSUME NEW S, NEW ss \in Seq(Seq(S)), NEW k \in 1..Len(ss), NEW n \in k..Len(ss)
  PROVE  /\ Len(Flat(ss, k)) <= Len(Flat(ss, n)) /\ Start(ss, k) \in Nat
         /\ Len(Flat(ss, k)) = Start(ss, k) + Len(ss[k])
         /\ \A j \in 1..Len(ss[k]) : Flat(ss, n)[Start(ss, k) + j] = ss[k][j]
<1> DEFINE b == Start(ss, k)
           P(m) == /\ Len(Flat(ss, k)) <= Len(Flat(ss, m))
                   /\ \A j \in 1..Len(ss[k]) : Flat(ss, m)[b + j] = ss[k][j]
           T == {m \in k..Len(ss) : ~ P(m)}
<1>1. /\ Flat(ss, k - 1) \in Seq(S) /\ Flat(ss, k) \in Seq(S) /\ ss[k] \in Seq(S)
      /\ Flat(ss, k) = Flat(ss, k - 1) \o ss[k]
      /\ Len(Flat(ss, k)) = b + Len(ss[k]) /\ b \in Nat
      /\ b = Len(Flat(ss, k - 1)) /\ Len(Flat(ss, k)) \in Nat /\ Len(ss[k]) \in Nat
  <2>1. /\ Flat(ss, k - 1) \in Seq(S) /\ Flat(ss, k) \in Seq(S) /\ ss[k] \in Seq(S)
        /\ Flat(ss, k) = Flat(ss, k - 1) \o ss[k]
        /\ Len(Flat(ss, k)) = Len(Flat(ss, k - 1)) + Len(ss[k])
        /\ Len(Flat(ss, k - 1)) \in Nat /\ Len(Flat(ss, k)) \in Nat /\ Len(ss[k]) \in Nat
    BY FlatStep
  <2>3. b = Len(Flat(ss, k - 1))
    BY DEF Start
  <2> QED BY <2>1, <2>3
<1> HIDE DEF b
<1> SUFFICES P(n)
  BY <1>1 DEF b
<1> SUFFICES ASSUME T # {} PROVE FALSE
  OBVIOUS
<1>2. T \in SUBSET Nat
  OBVIOUS
<1>3. PICK m \in T : \A i \in T : m <= i
  <2> HIDE DEF T
  <2> QED BY <1>2, Least
<1>4. m \in k..Len(ss) /\ ~ P(m)
  OBVIOUS
<1>5. CASE m = k
  <2> DEFINE u == Flat(ss, k - 1)
             v == ss[k]
  <2>1. \A j \in 1..Len(v) : (u \o v)[Len(u) + j] = v[j]
    <3>1. u \in Seq(S) /\ v \in Seq(S)
      BY <1>1
    <3> HIDE DEF u, v
    <3> QED BY <3>1, Concat
  <2>2. \A j \in 1..Len(ss[k]) : Flat(ss, k)[b + j] = ss[k][j]
    BY <1>1, <2>1
  <2>3. Len(Flat(ss, k)) <= Len(Flat(ss, k))
    BY <1>1
  <2> QED BY <1>4, <1>5, <2>2, <2>3
<1>6. CASE m # k
  <2>1. m - 1 \in k..Len(ss) /\ ~ m <= m - 1 /\ m \in 1..Len(ss)
    BY <1>4, <1>6
  <2>2. P(m - 1)
    <3> HIDE DEF P
    <3> QED BY <1>3, <2>1
  <2> DEFINE u == Flat(ss, m - 1)
             v == ss[m]
  <2>3. /\ u \in Seq(S) /\ v \in Seq(S) /\ Flat(ss, m) = u \o v
        /\ Len(Flat(ss, m)) = Len(u) + Len(v)
    BY <2>1, FlatStep
  <2> HIDE DEF u, v
  <2>4. /\ Len(Flat(ss, k)) <= Len(u)
        /\ \A j \in 1..Len(ss[k]) : u[b + j] = ss[k][j]
    BY <2>2 DEF u
  <2>5. ASSUME NEW j \in 1..Len(ss[k]) PROVE Flat(ss, m)[b + j] = ss[k][j]
    <3>1. b + j \in 1..Len(u)
      <4> DEFINE l == Len(ss[k])
                 h == Len(u)
      <4>1. h \in Nat /\ l \in Nat /\ b \in Nat /\ b + l <= h /\ j \in 1..l
        <5>1. h \in Nat
          BY <2>3
        <5>2. l \in Nat /\ b \in Nat /\ Len(Flat(ss, k)) = b + l
          BY <1>1
        <5>3. b + l <= h
          BY <2>4, <5>2
        <5> QED BY <5>1, <5>2, <5>3
      <4> HIDE DEF l, h, b, T, P
      <4>2. b + j \in 1..h
        BY <4>1
      <4> QED BY <4>2 DEF h
    <3>2. (u \o v)[b + j] = u[b + j]
      BY <2>3, <3>1, Concat
    <3> QED BY <2>3, <2>4, <3>2
  <2>6. Len(Flat(ss, k)) <= Len(Flat(ss, m))
    <3>0. u \in Seq(S) /\ v \in Seq(S)
      BY <2>3
    <3>1. Len(u) \in Nat /\ Len(v) \in Nat
      BY <3>0
    <3>2. Len(Flat(ss, k)) \in Nat
      BY <1>1
    <3>3. Len(Flat(ss, k)) <= Len(u) + Len(v)
      BY <2>4, <3>1, <3>2
    <3> QED BY <2>3, <3>3
  <2> QED BY <1>4, <2>5, <2>6
<1> QED BY <1>5, <1>6

\* Every place is in one of them.
LEMMA FlatPlace ==
  ASSUME NEW S, NEW ss \in Seq(Seq(S)), NEW n \in 0..Len(ss), NEW p \in 1..Len(Flat(ss, n))
  PROVE  \E k \in 1..n : Start(ss, k) < p /\ p <= Len(Flat(ss, k))
<1> DEFINE T == {m \in 0..n : p <= Len(Flat(ss, m))}
<1>1. n \in T /\ T \in SUBSET Nat
  <2>1. Flat(ss, n) \in Seq(S)
    BY FlatSeq
  <2> QED BY <2>1
<1>2. PICK k \in T : \A m \in T : k <= m
  <2> HIDE DEF T
  <2> QED BY <1>1, Least
<1>3. k \in 0..n /\ p <= Len(Flat(ss, k)) /\ n \in Nat
  OBVIOUS
<1>4. k # 0
  BY <1>3, FlatNone
<1>5. k \in 1..n /\ k - 1 \in 0..n /\ ~ k <= k - 1
  BY <1>3, <1>4
<1>6. ~ p <= Len(Flat(ss, k - 1))
  BY <1>2, <1>5
<1>7. Len(Flat(ss, k - 1)) \in Nat
  <2>1. k - 1 \in 0..Len(ss)
    BY <1>5
  <2>2. Flat(ss, k - 1) \in Seq(S)
    BY <2>1, FlatSeq
  <2> QED BY <2>2
<1>8. Start(ss, k) < p
  BY <1>3, <1>6, <1>7 DEF Start
<1> QED BY <1>3, <1>5, <1>8

-----------------------------------------------------------------------------
\* Four sequences are joined in either way.
Regrouped(s, t, u, v) == ((s \o t) \o u) \o v = s \o ((t \o u) \o v)

LEMMA FourParts ==
  ASSUME NEW s \in Seq(Symbols), NEW t \in Seq(Symbols), NEW u \in Seq(Symbols),
         NEW v \in Seq(Symbols)
  PROVE  Regrouped(s, t, u, v)
<1>1. (s \o t) \o u = s \o (t \o u)
  OBVIOUS
<1>2. (s \o (t \o u)) \o v = s \o ((t \o u) \o v)
  <2>1. ASSUME NEW y \in Seq(Symbols) PROVE (s \o y) \o v = s \o (y \o v)
    OBVIOUS
  <2>2. t \o u \in Seq(Symbols)
    OBVIOUS
  <2> QED BY <2>1, <2>2
<1> QED BY <1>1, <1>2 DEF Regrouped

\* Joining two sequences of symbols.
LEMMA Concatenated ==
  ASSUME NEW s \in Seq(Symbols), NEW t \in Seq(Symbols)
  PROVE  /\ s \o t \in Seq(Symbols) /\ Len(s \o t) = Len(s) + Len(t)
         /\ \A k \in 1..Len(s) : (s \o t)[k] = s[k]
         /\ \A k \in 1..Len(t) : (s \o t)[Len(s) + k] = t[k]
OBVIOUS

LEMMA LineCRLF ==
  ASSUME NEW t \in Symbols, NEW r, r.eol = CRLF
  PROVE  /\ Line(t, r) \in Seq(Symbols) /\ Len(Line(t, r)) = 3
         /\ Line(t, r)[1] = t /\ Line(t, r)[2] = "CR" /\ Line(t, r)[3] = "LF"
<1> DEFINE u == <<t>>
           v == CRLF
<1>1. Line(t, r) = u \o v
  BY DEF Line
<1>2. u \in Seq(Symbols) /\ Len(u) = 1 /\ u[1] = t
  OBVIOUS
<1>3. v \in Seq(Symbols) /\ Len(v) = 2 /\ v[1] = "CR" /\ v[2] = "LF"
  BY DEF CRLF, Symbols, BodySymbols
<1> HIDE DEF u, v
<1>4. /\ u \o v \in Seq(Symbols) /\ Len(u \o v) = Len(u) + Len(v)
      /\ \A k \in 1..Len(u) : (u \o v)[k] = u[k]
      /\ \A k \in 1..Len(v) : (u \o v)[Len(u) + k] = v[k]
  BY <1>2, <1>3, Concatenated
<1>5. (u \o v)[1] = t /\ (u \o v)[1 + 1] = "CR" /\ (u \o v)[1 + 2] = "LF"
  BY <1>2, <1>3, <1>4
<1>6. 1 + 1 = 2 /\ 1 + 2 = 3
  OBVIOUS
<1> QED BY <1>1, <1>2, <1>3, <1>4, <1>5, <1>6

LEMMA LineLF ==
  ASSUME NEW t \in Symbols, NEW r, r.eol = <<"LF">>
  PROVE  /\ Line(t, r) \in Seq(Symbols) /\ Len(Line(t, r)) = 2
         /\ Line(t, r)[1] = t /\ Line(t, r)[2] = "LF"
<1> DEFINE u == <<t>>
           v == <<"LF">>
<1>1. Line(t, r) = u \o v
  BY DEF Line
<1>2. u \in Seq(Symbols) /\ Len(u) = 1 /\ u[1] = t
  OBVIOUS
<1>3. v \in Seq(Symbols) /\ Len(v) = 1 /\ v[1] = "LF"
  BY DEF Symbols, BodySymbols
<1> HIDE DEF u, v
<1>4. /\ u \o v \in Seq(Symbols) /\ Len(u \o v) = Len(u) + Len(v)
      /\ \A k \in 1..Len(u) : (u \o v)[k] = u[k]
      /\ \A k \in 1..Len(v) : (u \o v)[Len(u) + k] = v[k]
  BY <1>2, <1>3, Concatenated
<1>5. (u \o v)[1] = t /\ (u \o v)[1 + 1] = "LF"
  BY <1>2, <1>3, <1>4
<1>6. 1 + 1 = 2
  OBVIOUS
<1> QED BY <1>1, <1>2, <1>3, <1>4, <1>5, <1>6

LEMMA ThreeSymbols ==
  ASSUME NEW S, NEW s \in Seq(Symbols), Len(s) = 3, s[1] \in S, s[2] \in S, s[3] \in S
  PROVE  s \in Seq(S)
<1>1. s = [i \in 1..3 |-> s[i]] /\ \A i \in 1..3 : s[i] \in S
  OBVIOUS
<1>2. s \in [1..3 -> S]
  BY <1>1
<1> QED BY <1>2

LEMMA TwoSymbols ==
  ASSUME NEW S, NEW s \in Seq(Symbols), Len(s) = 2, s[1] \in S, s[2] \in S
  PROVE  s \in Seq(S)
<1>1. s = <<s[1], s[2]>>
  OBVIOUS
<1>2. <<s[1], s[2]>> \in Seq(S)
  OBVIOUS
<1> QED BY <1>1, <1>2

\* Symbols that are no request line.
Others == Headers \cup BodySymbols

LEMMA OthersAreNoLines ==
  Others \subseteq Symbols /\ Others \cap RequestLines = {} /\ "CR" \in Others /\ "LF" \in Others
  /\ RequestLines \subseteq Symbols
BY DEF Others, Headers, BodySymbols, Symbols, RequestLines

LEMMA LineOfOthers ==
  ASSUME NEW t \in Others, NEW r, r.eol \in {CRLF, <<"LF">>}
  PROVE  Line(t, r) \in Seq(Others)
<1>1. t \in Symbols /\ "CR" \in Others /\ "LF" \in Others
  BY OthersAreNoLines
<1>2. CASE r.eol = CRLF
  <2>1. /\ Line(t, r) \in Seq(Symbols) /\ Len(Line(t, r)) = 3
        /\ Line(t, r)[1] = t /\ Line(t, r)[2] = "CR" /\ Line(t, r)[3] = "LF"
    BY <1>1, <1>2, LineCRLF
  <2> QED BY <1>1, <2>1, ThreeSymbols
<1>3. CASE r.eol = <<"LF">>
  <2>1. /\ Line(t, r) \in Seq(Symbols) /\ Len(Line(t, r)) = 2
        /\ Line(t, r)[1] = t /\ Line(t, r)[2] = "LF"
    BY <1>1, <1>3, LineLF
  <2> QED BY <1>1, <2>1, TwoSymbols
<1> QED BY <1>2, <1>3

HeaderSeq(r) == [i \in 1..Len(r.headers) |-> Line(r.headers[i], r)]

LEMMA RequestType ==
  ASSUME NEW r \in Requests
  PROVE  /\ r.line \in RequestLines /\ r.headers \in Seq(Headers)
         /\ r.eol \in {CRLF, <<"LF">>} /\ r.body \in Seq(BodySymbols)
         /\ Len(r.headers) \in Nat /\ Len(r.body) \in Nat
         /\ r.body # <<>> <=> \E i \in 1..Len(r.headers) : r.headers[i] = "Content-Length"
BY DEF Requests, Contains

LEMMA WholeFlat ==
  ASSUME NEW S, NEW ss \in Seq(S) PROVE FlattenSeq(ss) = Flat(ss, Len(ss))
<1>1. Prefix(ss, Len(ss)) = ss
  BY DEF Prefix
<1> QED BY <1>1 DEF Flat

LEMMA HeadersAreOthers ==
  ASSUME NEW r \in Requests
  PROVE  /\ HeaderSeq(r) \in Seq(Seq(Others)) /\ Len(HeaderSeq(r)) = Len(r.headers)
         /\ HeaderLines(r) = Flat(HeaderSeq(r), Len(r.headers))
         /\ HeaderLines(r) \in Seq(Others)
<1>1. /\ Len(r.headers) \in Nat /\ r.eol \in {CRLF, <<"LF">>}
      /\ \A i \in 1..Len(r.headers) : r.headers[i] \in Others
  <2>1. \A i \in 1..Len(r.headers) : r.headers[i] \in Headers
    BY RequestType
  <2> QED BY <2>1, RequestType DEF Others
<1>2. \A i \in 1..Len(r.headers) : Line(r.headers[i], r) \in Seq(Others)
  BY <1>1, LineOfOthers
<1>3. HeaderSeq(r) \in Seq(Seq(Others)) /\ Len(HeaderSeq(r)) = Len(r.headers)
  BY <1>1, <1>2 DEF HeaderSeq
<1>4. HeaderLines(r) = Flat(HeaderSeq(r), Len(r.headers))
  <2>1. HeaderLines(r) = FlattenSeq(HeaderSeq(r))
    BY DEF HeaderLines, HeaderSeq
  <2> QED BY <1>3, <2>1, WholeFlat
<1>5. Flat(HeaderSeq(r), Len(r.headers)) \in Seq(Others)
  <2>1. Len(r.headers) \in 0..Len(HeaderSeq(r))
    BY <1>1, <1>3
  <2> QED BY <1>3, <2>1, FlatSeq
<1> QED BY <1>3, <1>4, <1>5

\* Header i takes the places 3i - 2, 3i - 1 and 3i behind the request line.
LEMMA HeaderPlaces ==
  ASSUME NEW r \in Requests, r.eol = CRLF
  PROVE  /\ Len(HeaderLines(r)) = 3 * Len(r.headers)
         /\ \A i \in 1..Len(r.headers) :
              /\ HeaderLines(r)[3 * i - 2] = r.headers[i]
              /\ HeaderLines(r)[3 * i - 1] = "CR" /\ HeaderLines(r)[3 * i] = "LF"
<1> DEFINE hs == HeaderSeq(r)
           n == Len(r.headers)
           T == {m \in 0..n : Len(Flat(hs, m)) # 3 * m}
<1>1. /\ hs \in Seq(Seq(Others)) /\ Len(hs) = n /\ n \in Nat
      /\ HeaderLines(r) = Flat(hs, n)
  BY HeadersAreOthers, RequestType
<1>2. ASSUME NEW i \in 1..n
      PROVE /\ Len(hs[i]) = 3
            /\ hs[i][1] = r.headers[i] /\ hs[i][2] = "CR" /\ hs[i][3] = "LF"
  <2>1. hs[i] = Line(r.headers[i], r)
    BY DEF HeaderSeq
  <2>2. r.headers[i] \in Symbols
    BY RequestType DEF Symbols
  <2> QED BY <2>1, <2>2, LineCRLF
<1> HIDE DEF hs, n
<1>3. T = {}
  <2> SUFFICES ASSUME T # {} PROVE FALSE
    OBVIOUS
  <2>1. T \in SUBSET Nat
    OBVIOUS
  <2>2. PICK m \in T : \A k \in T : m <= k
    <3> HIDE DEF T
    <3> QED BY <2>1, Least
  <2>3. m \in 0..n /\ Len(Flat(hs, m)) # 3 * m
    OBVIOUS
  <2>4. m # 0
    BY <2>3, FlatNone
  <2>5. m \in 1..n /\ m - 1 \in 0..n /\ ~ m <= m - 1
    BY <1>1, <2>3, <2>4
  <2>6. Len(Flat(hs, m - 1)) = 3 * (m - 1)
    BY <2>2, <2>5
  <2>7. Len(Flat(hs, m)) = Len(Flat(hs, m - 1)) + Len(hs[m])
    <3> HIDE DEF T
    <3> QED BY <1>1, <2>5, FlatStep
  <2>8. Len(hs[m]) = 3
    BY <1>2, <2>5
  <2> HIDE DEF T
  <2>9. m \in Nat
    BY <1>1, <2>3
  <2>10. Len(Flat(hs, m)) = 3 * (m - 1) + 3 /\ 3 * (m - 1) + 3 = 3 * m
    BY <2>6, <2>7, <2>8, <2>9
  <2> QED BY <2>3, <2>10
<1>4. \A m \in 0..n : Len(Flat(hs, m)) = 3 * m
  BY <1>3
<1> HIDE DEF T
<1>5. ASSUME NEW i \in 1..n
      PROVE /\ Flat(hs, n)[3 * i - 2] = hs[i][1] /\ Flat(hs, n)[3 * i - 1] = hs[i][2]
            /\ Flat(hs, n)[3 * i] = hs[i][3]
  <2>1. n \in i..Len(hs) /\ i \in 1..Len(hs) /\ i - 1 \in 0..n
    BY <1>1
  <2>2. \A j \in 1..Len(hs[i]) : Flat(hs, n)[Start(hs, i) + j] = hs[i][j]
    BY <1>1, <2>1, FlatAt
  <2>3. Start(hs, i) = 3 * (i - 1)
    BY <1>4, <2>1 DEF Start
  <2>4. /\ 1 \in 1..Len(hs[i]) /\ 2 \in 1..Len(hs[i]) /\ 3 \in 1..Len(hs[i])
        /\ 3 * (i - 1) + 1 = 3 * i - 2 /\ 3 * (i - 1) + 2 = 3 * i - 1 /\ 3 * (i - 1) + 3 = 3 * i
    BY <1>2, <2>1
  <2>5. /\ Flat(hs, n)[3 * (i - 1) + 1] = hs[i][1]
        /\ Flat(hs, n)[3 * (i - 1) + 2] = hs[i][2]
        /\ Flat(hs, n)[3 * (i - 1) + 3] = hs[i][3]
    BY <2>2, <2>3, <2>4
  <2> QED BY <2>4, <2>5
<1>6. n \in 0..n
  BY <1>1
<1> QED BY <1>1, <1>2, <1>4, <1>5, <1>6 DEF n

\* The stream of a request whose lines end in CR LF.
LaidOut(s, r) ==
  LET n == Len(r.headers) IN
  /\ Len(s) = 3 * n + 5 + Len(r.body)
  /\ s[1] = r.line /\ s[2] = "CR" /\ s[3] = "LF"
  /\ \A i \in 1..n :
       s[3 * i + 1] = r.headers[i] /\ s[3 * i + 2] = "CR" /\ s[3 * i + 3] = "LF"
  /\ s[3 * n + 4] = "CR" /\ s[3 * n + 5] = "LF"
  /\ \A j \in 1..Len(r.body) : s[3 * n + 5 + j] = r.body[j]

LEMMA StreamLaidOut ==
  ASSUME NEW r \in Requests, r.eol = CRLF
  PROVE  LaidOut(Stream(r), r) /\ Stream(r) \in Seq(Symbols)
<1> DEFINE n == Len(r.headers)
           a == Line(r.line, r)
           b == HeaderLines(r)
           c == CRLF
           d == r.body
           e == a \o b
           f == e \o c
<1>1. /\ a \in Seq(Symbols) /\ Len(a) = 3 /\ a[1] = r.line /\ a[2] = "CR" /\ a[3] = "LF"
  <2>1. r.line \in Symbols
    BY RequestType DEF Symbols
  <2> QED BY <2>1, LineCRLF
<1>2. /\ b \in Seq(Symbols) /\ Len(b) = 3 * n
      /\ \A i \in 1..n : b[3 * i - 2] = r.headers[i] /\ b[3 * i - 1] = "CR" /\ b[3 * i] = "LF"
  <2>1. b \in Seq(Others)
    BY HeadersAreOthers
  <2>2. b \in Seq(Symbols)
    BY <2>1, OthersAreNoLines
  <2> QED BY <2>2, HeaderPlaces
<1>3. c \in Seq(Symbols) /\ Len(c) = 2 /\ c[1] = "CR" /\ c[2] = "LF"
  BY DEF CRLF, Symbols, BodySymbols
<1>4. d \in Seq(Symbols) /\ Len(d) \in Nat /\ n \in Nat
  BY RequestType DEF Symbols
<1>5. Stream(r) = ((a \o b) \o c) \o d
  BY DEF Stream
<1> HIDE DEF a, b, c, d, n
<1>6. /\ e \in Seq(Symbols) /\ Len(e) = 3 + 3 * n
      /\ \A k \in 1..3 : e[k] = a[k]
      /\ \A k \in 1..3 * n : e[3 + k] = b[k]
  <2>1. /\ a \o b \in Seq(Symbols) /\ Len(a \o b) = Len(a) + Len(b)
        /\ \A k \in 1..Len(a) : (a \o b)[k] = a[k]
        /\ \A k \in 1..Len(b) : (a \o b)[Len(a) + k] = b[k]
    BY <1>1, <1>2, Concatenated
  <2> QED BY <1>1, <1>2, <2>1
<1>7. e \o c = f /\ e = a \o b
  OBVIOUS
<1> HIDE DEF e
<1>8. /\ f \in Seq(Symbols) /\ Len(f) = 3 * n + 5
      /\ \A k \in 1..3 * n + 3 : f[k] = e[k]
      /\ \A k \in 1..2 : f[3 * n + 3 + k] = c[k]
  <2>1. 3 + 3 * n = 3 * n + 3 /\ (3 * n + 3) + 2 = 3 * n + 5
    BY <1>4
  <2>2. Len(e) = 3 * n + 3
    BY <1>6, <2>1
  <2>3. /\ e \o c \in Seq(Symbols) /\ Len(e \o c) = Len(e) + Len(c)
        /\ \A k \in 1..Len(e) : (e \o c)[k] = e[k]
        /\ \A k \in 1..Len(c) : (e \o c)[Len(e) + k] = c[k]
    BY <1>3, <1>6, Concatenated
  <2>4. \A k \in 1..2 : f[3 * n + 3 + k] = c[k]
    BY <1>3, <2>2, <2>3
  <2> QED BY <1>3, <2>1, <2>2, <2>3, <2>4
<1> HIDE DEF f
<1>9. Stream(r) = f \o d
  BY <1>5, <1>7
<1>10. /\ f \o d \in Seq(Symbols) /\ Len(f \o d) = 3 * n + 5 + Len(d)
       /\ \A k \in 1..3 * n + 5 : (f \o d)[k] = f[k]
       /\ \A j \in 1..Len(d) : (f \o d)[3 * n + 5 + j] = d[j]
  <2>3. /\ f \o d \in Seq(Symbols) /\ Len(f \o d) = Len(f) + Len(d)
        /\ \A k \in 1..Len(f) : (f \o d)[k] = f[k]
        /\ \A k \in 1..Len(d) : (f \o d)[Len(f) + k] = d[k]
    BY <1>4, <1>8, Concatenated
  <2> QED BY <1>8, <2>3
<1> DEFINE s == f \o d
<1>11. /\ s \in Seq(Symbols) /\ Len(s) = 3 * n + 5 + Len(d)
       /\ \A k \in 1..3 * n + 3 : s[k] = e[k]
       /\ s[3 * n + 4] = "CR" /\ s[3 * n + 5] = "LF"
       /\ \A j \in 1..Len(d) : s[3 * n + 5 + j] = d[j]
  <2>1. \A k \in 1..3 * n + 3 : k \in 1..3 * n + 5
    BY <1>4
  <2>2. /\ 3 * n + 4 \in 1..3 * n + 5 /\ 3 * n + 5 \in 1..3 * n + 5
        /\ 3 * n + 3 + 1 = 3 * n + 4 /\ 3 * n + 3 + 2 = 3 * n + 5 /\ 1 \in 1..2 /\ 2 \in 1..2
    BY <1>4
  <2>3. f[3 * n + 4] = c[1] /\ f[3 * n + 5] = c[2]
    BY <1>8, <2>2
  <2> QED BY <1>3, <1>8, <1>10, <2>1, <2>2, <2>3
<1> HIDE DEF s
<1>12. s[1] = r.line /\ s[2] = "CR" /\ s[3] = "LF"
  <2>1. 1 \in 1..3 * n + 3 /\ 2 \in 1..3 * n + 3 /\ 3 \in 1..3 * n + 3
    BY <1>4
  <2> QED BY <1>1, <1>6, <1>11, <2>1
<1>13. ASSUME NEW i \in 1..n
       PROVE s[3 * i + 1] = r.headers[i] /\ s[3 * i + 2] = "CR" /\ s[3 * i + 3] = "LF"
  <2>1. /\ 3 * i + 1 = 3 + (3 * i - 2) /\ 3 * i + 2 = 3 + (3 * i - 1) /\ 3 * i + 3 = 3 + 3 * i
        /\ 3 * i - 2 \in 1..3 * n /\ 3 * i - 1 \in 1..3 * n /\ 3 * i \in 1..3 * n
        /\ 3 * i + 1 \in 1..3 * n + 3 /\ 3 * i + 2 \in 1..3 * n + 3 /\ 3 * i + 3 \in 1..3 * n + 3
    BY <1>4
  <2>2. e[3 * i + 1] = b[3 * i - 2] /\ e[3 * i + 2] = b[3 * i - 1] /\ e[3 * i + 3] = b[3 * i]
    BY <1>6, <2>1
  <2> QED BY <1>2, <1>11, <2>1, <2>2
<1>14. s = Stream(r)
  BY <1>9 DEF s
<1> QED BY <1>11, <1>12, <1>13, <1>14 DEF LaidOut, n, d

\* A request line stands at the start of a request and nowhere else.
LEMMA StreamOfRequest ==
  ASSUME NEW r \in Requests
  PROVE  /\ Stream(r) \in Seq(Symbols) /\ Len(Stream(r)) \in Nat /\ Len(Stream(r)) >= 3
         /\ Stream(r)[1] = r.line
         /\ \A i \in 2..Len(Stream(r)) : Stream(r)[i] \notin RequestLines
         /\ r.eol = <<"LF">> => Stream(r)[2] = "LF"
<1> DEFINE a == Line(r.line, r)
           b == HeaderLines(r)
           c == r.eol
           d == r.body
           e == b \o c
           f == e \o d
<1>0. r.line \in Symbols /\ r.eol \in {CRLF, <<"LF">>}
  BY RequestType DEF Symbols
<1>1. /\ a \in Seq(Symbols) /\ Len(a) \in {2, 3} /\ a[1] = r.line
      /\ \A i \in 2..Len(a) : a[i] \in Others
      /\ c = <<"LF">> => a[2] = "LF"
  <2>1. CASE r.eol = CRLF
    <3>1. /\ a \in Seq(Symbols) /\ Len(a) = 3 /\ a[1] = r.line /\ a[2] = "CR" /\ a[3] = "LF"
      BY <1>0, <2>1, LineCRLF
    <3> HIDE DEF a
    <3>2. CRLF # <<"LF">>
      <4>1. CRLF[1] = "CR"
        BY DEF CRLF
      <4> QED BY <4>1
    <3> QED BY <2>1, <3>1, <3>2, OthersAreNoLines
  <2>2. CASE r.eol = <<"LF">>
    <3>1. /\ a \in Seq(Symbols) /\ Len(a) = 2 /\ a[1] = r.line /\ a[2] = "LF"
      BY <1>0, <2>2, LineLF
    <3> HIDE DEF a
    <3> QED BY <3>1, OthersAreNoLines
  <2> QED BY <1>0, <2>1, <2>2
<1>2. b \in Seq(Others)
  BY HeadersAreOthers
<1>3. c \in Seq(Others) /\ Len(c) \in Nat \ {0}
  <2>1. CRLF \in Seq(Others) /\ Len(CRLF) = 2
    BY DEF CRLF, Others, BodySymbols
  <2>2. <<"LF">> \in Seq(Others) /\ Len(<<"LF">>) = 1
    BY DEF Others, BodySymbols
  <2>3. CASE r.eol = CRLF
    BY <2>1, <2>3
  <2>4. CASE r.eol = <<"LF">>
    BY <2>2, <2>4
  <2> QED BY <1>0, <2>3, <2>4
<1>4. d \in Seq(Others)
  BY RequestType DEF Others
<1>5. Stream(r) = ((a \o b) \o c) \o d
  BY DEF Stream
<1> HIDE DEF a, b, c, d
<1>6. e \in Seq(Others) /\ Len(e) \in Nat \ {0}
  <2>1. Len(b) \in Nat
    BY <1>2
  <2>2. e \in Seq(Others) /\ Len(e) = Len(b) + Len(c)
    BY <1>2, <1>3, Concat
  <2> QED BY <1>3, <2>1, <2>2
<1>7. b \in Seq(Symbols) /\ c \in Seq(Symbols) /\ d \in Seq(Symbols)
  BY <1>2, <1>3, <1>4, OthersAreNoLines
<1>8. Stream(r) = a \o f
  <2>1. a \in Seq(Symbols)
    BY <1>1
  <2>2. Regrouped(a, b, c, d)
    BY <1>7, <2>1, FourParts
  <2> QED BY <1>5, <2>2 DEF Regrouped
<1> HIDE DEF e
<1>9. f \in Seq(Others) /\ Len(f) \in Nat \ {0}
  <2>1. Len(d) \in Nat
    BY <1>4
  <2>2. f \in Seq(Others) /\ Len(f) = Len(e) + Len(d)
    BY <1>4, <1>6, Concat
  <2> QED BY <1>6, <2>1, <2>2
<1> HIDE DEF f
<1>10. f \in Seq(Symbols) /\ \A k \in 1..Len(f) : f[k] \in Others
  BY <1>9, OthersAreNoLines
<1> DEFINE s == a \o f
<1>11. /\ s \in Seq(Symbols) /\ Len(s) = Len(a) + Len(f)
       /\ \A k \in 1..Len(a) : s[k] = a[k]
       /\ \A k \in 1..Len(f) : s[Len(a) + k] = f[k]
  BY <1>1, <1>10, Concat
<1> HIDE DEF s
<1>12. ASSUME NEW i \in 2..Len(s) PROVE s[i] \in Others
  <2>1. CASE i <= Len(a)
    <3>1. i \in 2..Len(a) /\ i \in 1..Len(a)
      BY <1>1, <2>1
    <3> QED BY <1>1, <1>11, <3>1
  <2>2. CASE i > Len(a)
    <3>1. i - Len(a) \in 1..Len(f) /\ Len(a) + (i - Len(a)) = i
      BY <1>1, <1>9, <1>11, <2>2
    <3> QED BY <1>10, <1>11, <3>1
  <2> QED BY <1>1, <2>1, <2>2
<1>13. Len(s) \in Nat /\ Len(s) >= 3 /\ s[1] = r.line
  BY <1>1, <1>9, <1>11
<1>14. c = <<"LF">> => s[2] = "LF"
  <2>1. 2 \in 1..Len(a)
    BY <1>1
  <2> QED BY <1>1, <1>11, <2>1
<1>15. s = Stream(r)
  BY <1>8 DEF s
<1> QED BY <1>11, <1>12, <1>13, <1>14, <1>15, OthersAreNoLines DEF c

\* The streams of the requests, one by one.
StreamSeq(c) == [k \in 1..Len(c) |-> Stream(c[k])]

LEMMA ConversationFlat ==
  ASSUME NEW c \in Conversations
  PROVE  /\ Len(c) \in Nat /\ DOMAIN c = 1..Len(c) /\ \A k \in 1..Len(c) : c[k] \in Requests
         /\ StreamSeq(c) \in Seq(Seq(Symbols)) /\ Len(StreamSeq(c)) = Len(c)
         /\ \A k \in 1..Len(c) : StreamSeq(c)[k] = Stream(c[k])
         /\ Streams[c] = Flat(StreamSeq(c), Len(c))
         /\ \A k \in 0..Len(c) : Ends[c][k] = Len(Flat(StreamSeq(c), k))
<1>1. c \in Seq(Requests)
  BY RequestsAssumption
<1>2. Len(c) \in Nat /\ DOMAIN c = 1..Len(c) /\ \A k \in 1..Len(c) : c[k] \in Requests
  BY <1>1
<1>3. \A k \in 1..Len(c) : Stream(c[k]) \in Seq(Symbols)
  BY <1>2, StreamOfRequest
<1>4. /\ StreamSeq(c) \in Seq(Seq(Symbols)) /\ Len(StreamSeq(c)) = Len(c)
      /\ \A k \in 1..Len(c) : StreamSeq(c)[k] = Stream(c[k])
  BY <1>2, <1>3 DEF StreamSeq
<1>5. Streams[c] = Flat(StreamSeq(c), Len(c))
  <2>1. Streams[c] = FlattenSeq(StreamSeq(c))
    BY DEF Streams, StreamSeq
  <2> QED BY <1>4, <2>1, WholeFlat
<1>6. ASSUME NEW k \in 0..Len(c) PROVE Ends[c][k] = Len(Flat(StreamSeq(c), k))
  <2>1. Ends[c][k] = Len(FlattenSeq([i \in 1..k |-> Stream(c[i])]))
    BY DEF Ends
  <2>2. [i \in 1..k |-> Stream(c[i])] = [i \in 1..k |-> StreamSeq(c)[i]]
    <3>1. \A i \in 1..k : i \in 1..Len(c)
      BY <1>2
    <3> QED BY <1>4, <3>1
  <2> QED BY <2>1, <2>2 DEF Flat, Prefix
<1> QED BY <1>2, <1>4, <1>5, <1>6

N == Len(requests)

LEMMA EndFacts ==
  ASSUME requests \in Conversations
  PROVE  /\ N \in Nat /\ DOMAIN requests = 1..N /\ \A k \in 1..N : requests[k] \in Requests
         /\ \A k \in 0..N : End(k) \in Nat
         /\ End(0) = 0 /\ Sent = End(N)
         /\ Streams[requests] \in Seq(Symbols)
<1> DEFINE ss == StreamSeq(requests)
<1>1. /\ N \in Nat /\ DOMAIN requests = 1..N /\ \A k \in 1..N : requests[k] \in Requests
      /\ ss \in Seq(Seq(Symbols)) /\ Len(ss) = N
      /\ Streams[requests] = Flat(ss, N)
      /\ \A k \in 0..N : Ends[requests][k] = Len(Flat(ss, k))
  BY ConversationFlat DEF N
<1> HIDE DEF ss
<1>2. \A k \in 0..N : Flat(ss, k) \in Seq(Symbols)
  BY <1>1, FlatSeq
<1>3. N \in 0..N /\ 0 \in 0..N
  BY <1>1
<1>4. \A k \in 0..N : End(k) = Len(Flat(ss, k)) /\ Len(Flat(ss, k)) \in Nat
  BY <1>1, <1>2 DEF End
<1>5. End(0) = 0
  BY <1>3, <1>4, FlatNone
<1>6. Sent = End(N)
  BY <1>1, <1>3, <1>4 DEF Sent
<1> QED BY <1>1, <1>2, <1>3, <1>4, <1>5, <1>6

LEMMA EndStep ==
  ASSUME requests \in Conversations, NEW k \in 1..N
  PROVE  /\ Begin(k) \in Nat /\ End(k) \in Nat
         /\ End(k) = Begin(k) + Len(Stream(requests[k]))
         /\ \A j \in 1..Len(Stream(requests[k])) :
              Streams[requests][Begin(k) + j] = Stream(requests[k])[j]
<1> DEFINE ss == StreamSeq(requests)
<1>1. /\ N \in Nat
      /\ ss \in Seq(Seq(Symbols)) /\ Len(ss) = N /\ ss[k] = Stream(requests[k])
      /\ Streams[requests] = Flat(ss, N)
      /\ \A i \in 0..N : Ends[requests][i] = Len(Flat(ss, i))
  BY ConversationFlat DEF N
<1> HIDE DEF ss
<1>2. k - 1 \in 0..N /\ k \in 0..N /\ k \in 1..Len(ss) /\ N \in k..Len(ss)
  BY <1>1
<1>3. Begin(k) = Start(ss, k) /\ End(k) = Len(Flat(ss, k))
  BY <1>1, <1>2 DEF Begin, End, Start
<1>4. /\ Start(ss, k) \in Nat
      /\ Len(Flat(ss, k)) = Start(ss, k) + Len(ss[k])
      /\ \A j \in 1..Len(ss[k]) : Flat(ss, N)[Start(ss, k) + j] = ss[k][j]
  BY <1>1, <1>2, FlatAt
<1>5. End(k) \in Nat
  BY <1>2, EndFacts
<1> QED BY <1>1, <1>3, <1>4, <1>5

LEMMA EndsGrow ==
  ASSUME requests \in Conversations, NEW i \in 0..N, NEW j \in 0..N
  PROVE  /\ i < j => End(i) + 3 <= End(j)
         /\ i <= j => End(i) <= End(j)
         /\ End(i) < End(j) => i < j
         /\ End(i) = End(j) => i = j
<1> DEFINE ss == StreamSeq(requests)
<1>1. /\ N \in Nat
      /\ ss \in Seq(Seq(Symbols)) /\ Len(ss) = N
      /\ \A k \in 0..N : Ends[requests][k] = Len(Flat(ss, k))
  BY ConversationFlat DEF N
<1> HIDE DEF ss
<1>2. \A k \in 0..N : End(k) \in Nat
  BY EndFacts
<1>3. ASSUME NEW m \in 0..N, NEW n \in 0..N, m < n PROVE End(m) + 3 <= End(n)
  <2>1. m + 1 \in 1..N /\ (m + 1) - 1 = m /\ n \in (m + 1)..Len(ss) /\ m + 1 \in 1..Len(ss)
        /\ m + 1 \in 0..N
    BY <1>1, <1>3
  <2>2. End(m + 1) = Begin(m + 1) + Len(Stream(requests[m + 1])) /\ Begin(m + 1) = End(m)
    BY <2>1, EndStep DEF Begin
  <2>3. requests[m + 1] \in Requests
    BY <2>1, EndFacts
  <2>4. Len(Stream(requests[m + 1])) \in Nat /\ Len(Stream(requests[m + 1])) >= 3
    BY <2>3, StreamOfRequest
  <2>5. Len(Flat(ss, m + 1)) <= Len(Flat(ss, n))
    BY <1>1, <2>1, FlatAt
  <2>6. End(m + 1) <= End(n)
    BY <1>1, <2>1, <2>5 DEF End
  <2>7. End(m) \in Nat /\ End(m + 1) \in Nat /\ End(n) \in Nat
    BY <1>2, <2>1
  <2> QED BY <2>2, <2>4, <2>6, <2>7
<1>4. End(i) \in Nat /\ End(j) \in Nat /\ i \in Nat /\ j \in Nat
  BY <1>1, <1>2
<1>5. (i < j => End(i) + 3 <= End(j)) /\ (j < i => End(j) + 3 <= End(i))
  BY <1>3
<1>6. i < j \/ j < i \/ i = j
  BY <1>4
<1> QED BY <1>4, <1>5, <1>6

\* What has been sent up to a place ends in a request.
LEMMA InSomeRequest ==
  ASSUME requests \in Conversations, NEW p \in 1..Sent
  PROVE  \E k \in 1..N : Begin(k) < p /\ p <= End(k)
<1> DEFINE ss == StreamSeq(requests)
<1>1. /\ N \in Nat
      /\ ss \in Seq(Seq(Symbols)) /\ Len(ss) = N
      /\ \A k \in 0..N : Ends[requests][k] = Len(Flat(ss, k))
  BY ConversationFlat DEF N
<1> HIDE DEF ss
<1>2. N \in 0..Len(ss) /\ N \in 0..N
  BY <1>1
<1>3. p \in 1..Len(Flat(ss, N))
  BY <1>1, <1>2, EndFacts DEF End
<1>4. PICK k \in 1..N : Start(ss, k) < p /\ p <= Len(Flat(ss, k))
  BY <1>1, <1>2, <1>3, FlatPlace
<1>5. k \in 0..N /\ k - 1 \in 0..N
  BY <1>1
<1> QED BY <1>1, <1>4, <1>5 DEF Begin, End, Start

\* A request line is the first symbol of a request.
LEMMA LineBegins ==
  ASSUME requests \in Conversations, NEW p \in 1..Sent, Streams[requests][p] \in RequestLines
  PROVE  \E k \in 1..N : Begin(k) = p - 1
<1>1. PICK k \in 1..N : Begin(k) < p /\ p <= End(k)
  BY InSomeRequest
<1> DEFINE s == Stream(requests[k])
           j == p - Begin(k)
<1>2. /\ Begin(k) \in Nat /\ End(k) \in Nat /\ End(k) = Begin(k) + Len(s)
      /\ \A i \in 1..Len(s) : Streams[requests][Begin(k) + i] = s[i]
  BY EndStep
<1>3. requests[k] \in Requests
  BY EndFacts
<1>4. Len(s) \in Nat /\ \A i \in 2..Len(s) : s[i] \notin RequestLines
  BY <1>3, StreamOfRequest
<1> HIDE DEF s
<1>5. Sent \in Nat
  <2>1. N \in 0..N
    BY EndFacts
  <2> QED BY <2>1, EndFacts
<1>6. j \in 1..Len(s) /\ Begin(k) + j = p
  BY <1>1, <1>2, <1>4, <1>5
<1> HIDE DEF j
<1>7. s[j] \in RequestLines
  BY <1>2, <1>6
<1>8. j = 1
  BY <1>4, <1>6, <1>7
<1> QED BY <1>2, <1>6, <1>8

LEMMA OneCurrent ==
  ASSUME requests \in Conversations, NEW k \in Current, NEW l \in Current
  PROVE  k = l
<1>1. k \in 1..N /\ l \in 1..N /\ End(k - 1) = End(l - 1) /\ N \in Nat
  BY EndFacts DEF Current, Begin
<1>2. k - 1 \in 0..N /\ l - 1 \in 0..N
  BY <1>1
<1>3. k - 1 = l - 1
  BY <1>1, <1>2, EndsGrow
<1> QED BY <1>1, <1>3

LEMMA CurrentFacts ==
  ASSUME requests \in Conversations, NEW k \in Current
  PROVE  /\ k \in 1..N /\ requests[k] \in Requests /\ Current = {k}
         /\ base = Begin(k) /\ base \in Nat /\ End(k) \in Nat
         /\ End(k) = base + Len(Stream(requests[k])) /\ Len(Stream(requests[k])) \in Nat
<1>1. k \in 1..N /\ base = Begin(k)
  BY EndFacts DEF Current
<1>2. Current = {k}
  BY OneCurrent
<1>3. requests[k] \in Requests
  BY <1>1, EndFacts
<1>4. Begin(k) \in Nat /\ End(k) \in Nat /\ End(k) = Begin(k) + Len(Stream(requests[k]))
  BY <1>1, EndStep
<1>5. Len(Stream(requests[k])) \in Nat
  BY <1>3, StreamOfRequest
<1> QED BY <1>1, <1>2, <1>3, <1>4, <1>5

\* What stands in the buffer of a request whose lines end in CR LF.
LEMMA BufferLaidOut ==
  ASSUME requests \in Conversations, NEW k \in Current, requests[k].eol = CRLF,
         m_read_index \in Nat
  PROVE  LET n == Len(requests[k].headers)
             body == requests[k].body
         IN /\ 0 < m_read_index => Buf(0) = requests[k].line
            /\ \A i \in 1..n : 3 * i < m_read_index => Buf(3 * i) = requests[k].headers[i]
            /\ \A i \in 0..n : 3 * i + 1 < m_read_index => Buf(3 * i + 1) = "CR"
            /\ \A i \in 0..n : 3 * i + 2 < m_read_index => Buf(3 * i + 2) = "LF"
            /\ 3 * n + 3 < m_read_index => Buf(3 * n + 3) = "CR"
            /\ 3 * n + 4 < m_read_index => Buf(3 * n + 4) = "LF"
            /\ \A j \in 1..Len(body) :
                 3 * n + 4 + j < m_read_index => Buf(3 * n + 4 + j) = body[j]
            /\ End(k) = base + 3 * n + 5 + Len(body)
            /\ n \in Nat /\ Len(body) \in Nat /\ base \in Nat
<1> DEFINE n == Len(requests[k].headers)
           body == requests[k].body
           s == Stream(requests[k])
           S == Streams[requests]
<1>1. /\ k \in 1..N /\ requests[k] \in Requests /\ base = Begin(k) /\ base \in Nat
      /\ End(k) = base + Len(s)
  BY CurrentFacts
<1>2. LaidOut(s, requests[k])
  BY <1>1, StreamLaidOut
<1>3. n \in Nat /\ Len(body) \in Nat
  BY <1>1, RequestType
<1>4. \A j \in 1..Len(s) : S[base + j] = s[j]
  BY <1>1, EndStep
<1>5. /\ Len(s) = 3 * n + 5 + Len(body)
      /\ s[1] = requests[k].line /\ s[2] = "CR" /\ s[3] = "LF"
      /\ \A i \in 1..n :
           s[3 * i + 1] = requests[k].headers[i] /\ s[3 * i + 2] = "CR" /\ s[3 * i + 3] = "LF"
      /\ s[3 * n + 4] = "CR" /\ s[3 * n + 5] = "LF"
      /\ \A j \in 1..Len(body) : s[3 * n + 5 + j] = body[j]
  BY <1>2 DEF LaidOut
<1>6. \A i \in Int : i < m_read_index => Buf(i) = S[base + i + 1]
  BY DEF Buf
<1> HIDE DEF n, body, s, S
<1>7. ASSUME NEW i \in 0..Len(s) - 1, i < m_read_index PROVE Buf(i) = s[i + 1]
  <2>0. Len(s) \in Nat
    BY <1>3, <1>5
  <2>1. i + 1 \in 1..Len(s) /\ base + i + 1 = base + (i + 1)
    BY <1>1, <2>0
  <2>2. i \in Int
    BY <2>0
  <2> QED BY <1>4, <1>6, <1>7, <2>1, <2>2
<1>8. 0 < m_read_index => Buf(0) = requests[k].line
  <2>1. 0 \in 0..Len(s) - 1 /\ 0 + 1 = 1
    BY <1>3, <1>5
  <2> QED BY <1>5, <1>7, <2>1
<1>9. ASSUME NEW i \in 1..n, 3 * i < m_read_index PROVE Buf(3 * i) = requests[k].headers[i]
  <2>1. 3 * i \in 0..Len(s) - 1
    BY <1>3, <1>5
  <2> QED BY <1>5, <1>7, <1>9, <2>1
<1>10. ASSUME NEW i \in 0..n, 3 * i + 1 < m_read_index PROVE Buf(3 * i + 1) = "CR"
  <2>1. 3 * i + 1 \in 0..Len(s) - 1 /\ (3 * i + 1) + 1 = 3 * i + 2
    BY <1>3, <1>5
  <2>2. Buf(3 * i + 1) = s[3 * i + 2]
    BY <1>7, <1>10, <2>1
  <2>3. s[3 * i + 2] = "CR"
    <3>1. i = 0 \/ i \in 1..n
      BY <1>3
    <3>2. i = 0 => 3 * i + 2 = 2
      OBVIOUS
    <3> QED BY <1>5, <3>1, <3>2
  <2> QED BY <2>2, <2>3
<1>11. ASSUME NEW i \in 0..n, 3 * i + 2 < m_read_index PROVE Buf(3 * i + 2) = "LF"
  <2>1. 3 * i + 2 \in 0..Len(s) - 1 /\ (3 * i + 2) + 1 = 3 * i + 3
    BY <1>3, <1>5
  <2>2. Buf(3 * i + 2) = s[3 * i + 3]
    BY <1>7, <1>11, <2>1
  <2>3. s[3 * i + 3] = "LF"
    <3>1. i = 0 \/ i \in 1..n
      BY <1>3
    <3>2. i = 0 => 3 * i + 3 = 3
      OBVIOUS
    <3> QED BY <1>5, <3>1, <3>2
  <2> QED BY <2>2, <2>3
<1>12. (3 * n + 3 < m_read_index => Buf(3 * n + 3) = "CR")
       /\ (3 * n + 4 < m_read_index => Buf(3 * n + 4) = "LF")
  <2>1. /\ 3 * n + 3 \in 0..Len(s) - 1 /\ (3 * n + 3) + 1 = 3 * n + 4
        /\ 3 * n + 4 \in 0..Len(s) - 1 /\ (3 * n + 4) + 1 = 3 * n + 5
    BY <1>3, <1>5
  <2>2. /\ 3 * n + 3 < m_read_index => Buf(3 * n + 3) = s[3 * n + 4]
        /\ 3 * n + 4 < m_read_index => Buf(3 * n + 4) = s[3 * n + 5]
    BY <1>7, <2>1
  <2> QED BY <1>5, <2>2
<1>13. ASSUME NEW j \in 1..Len(body), 3 * n + 4 + j < m_read_index
       PROVE  Buf(3 * n + 4 + j) = body[j]
  <2>1. 3 * n + 4 + j \in 0..Len(s) - 1 /\ (3 * n + 4 + j) + 1 = 3 * n + 5 + j
    BY <1>3, <1>5
  <2>2. Buf(3 * n + 4 + j) = s[3 * n + 5 + j]
    BY <1>7, <1>13, <2>1
  <2> QED BY <1>5, <2>2
<1>14. End(k) = base + 3 * n + 5 + Len(body)
  BY <1>1, <1>3, <1>5
<1> QED BY <1>1, <1>3, <1>8, <1>9, <1>10, <1>11, <1>12, <1>13, <1>14 DEF n, body

\* The buffer of the server holds symbols.
LEMMA BufType ==
  ASSUME requests \in Conversations, base \in Nat, m_read_index \in Nat,
         base + m_read_index <= Sent, NEW i \in Nat, i < m_read_index
  PROVE  /\ Buf(i) = Streams[requests][base + i + 1] /\ Buf(i) \in Symbols
         /\ base + i + 1 \in 1..Sent
<1>1. Buf(i) = Streams[requests][base + i + 1]
  BY DEF Buf
<1>2. Streams[requests] \in Seq(Symbols) /\ Sent \in Nat /\ Len(Streams[requests]) = Sent
  BY EndFacts DEF Sent
<1>3. base + i + 1 \in 1..Sent
  BY <1>2
<1> QED BY <1>1, <1>2, <1>3

\* Without a request that begins where the buffer does, no request line is
\* read; and with one whose lines end in LF, no line.
LEMMA TornBuffer ==
  ASSUME requests \in Conversations, base \in Nat, m_read_index \in Nat \ {0},
         base + m_read_index <= Sent, Current = {}
  PROVE  Buf(0) \notin RequestLines
<1> SUFFICES ASSUME Buf(0) \in RequestLines PROVE FALSE
  OBVIOUS
<1>1. 0 \in Nat /\ 0 < m_read_index /\ base + 0 + 1 = base + 1
  OBVIOUS
<1>2. Buf(0) = Streams[requests][base + 1] /\ base + 1 \in 1..Sent
  BY <1>1, BufType
<1>3. PICK k \in 1..N : Begin(k) = (base + 1) - 1
  BY <1>2, LineBegins
<1>4. Begin(k) = base /\ k \in DOMAIN requests
  BY <1>3, EndFacts
<1> QED BY <1>4 DEF Current

LEMMA BufferLF ==
  ASSUME requests \in Conversations, NEW k \in Current, requests[k].eol = <<"LF">>,
         m_read_index \in Nat, 1 < m_read_index
  PROVE  Buf(1) = "LF"
<1>1. /\ k \in 1..N /\ requests[k] \in Requests /\ base = Begin(k) /\ base \in Nat
  BY CurrentFacts
<1>2. /\ Len(Stream(requests[k])) >= 3 /\ Stream(requests[k])[2] = "LF"
      /\ Len(Stream(requests[k])) \in Nat
  BY <1>1, StreamOfRequest
<1>3. 2 \in 1..Len(Stream(requests[k])) /\ base + 1 + 1 = base + 2
  BY <1>1, <1>2
<1>4. Streams[requests][base + 2] = "LF"
  BY <1>1, <1>2, <1>3, EndStep
<1> QED BY <1>3, <1>4 DEF Buf

-----------------------------------------------------------------------------
\* Nothing of a request has been understood yet.
Untouched ==
  /\ m_check_state = "REQUESTLINE" /\ m_start_line = 0
  /\ cgi = 0 /\ m_content_length = 0 /\ m_linger = FALSE

\* What the first l lines of request r say.
Said(r, l, h) == \E i \in 1..l - 1 : r.headers[i] = h
Fields(r, l) ==
  /\ l > 0 => r.line \in {"GET", "POST"}
  /\ cgi = IF l > 0 /\ r.line = "POST" THEN 1 ELSE 0
  /\ m_linger = Said(r, l, "Connection: keep-alive")
  /\ m_content_length = IF Said(r, l, "Content-Length") THEN Len(r.body) ELSE 0

\* The first l lines of r have been taken from the buffer.
AtLine(r, l) ==
  /\ m_start_line = 3 * l
  /\ m_check_index = 3 * l \/ (m_check_index = 3 * l + 1 /\ l <= Len(r.headers))
  /\ m_check_state = IF l = 0 THEN "REQUESTLINE" ELSE "HEADER"
  /\ Fields(r, l)

\* Where the body of r begins, and what it may have of it while it is whole.
BodyAt(r) == 3 * Len(r.headers) + 5
Whole(r) == ~cut => m_read_index <= BodyAt(r) \/ m_read_index >= BodyAt(r) + Len(r.body)

\* All lines of r have been taken, and its body is expected.
AtBody(r) ==
  /\ m_check_state = "CONTENT" /\ m_content_length = Len(r.body) /\ Len(r.body) > 0
  /\ r.line \in {"GET", "POST"} /\ cgi = (IF r.line = "POST" THEN 1 ELSE 0)
  /\ m_linger = Contains(r.headers, "Connection: keep-alive")
  /\ m_start_line >= BodyAt(r)
  /\ ~cut =>
       /\ m_start_line = BodyAt(r) /\ m_check_index = BodyAt(r)
       /\ line_status # "OK" => m_read_index = BodyAt(r)

ParsingOf(r) ==
  IF r.eol = CRLF
  THEN Whole(r) /\ (AtBody(r) \/ \E l \in 0..Len(r.headers) + 1 : AtLine(r, l))
  ELSE Untouched /\ m_check_index <= 1

Parsing ==
  /\ m_string = <<>>
  /\ pc = "parse" /\ line_status # "OK" => m_check_state = "CONTENT"
  /\ Current = {} => Untouched
  /\ \A k \in Current : \A r \in {requests[k]} : ParsingOf(r)

InSent == base + m_read_index <= Sent
Busy == pc \in {"do_request", "respond", "sending"}

\* What makes process_read's loop right wherever the requests are cut. Between
\* two turns the parser stands at the start of a line, or of the body, of the
\* request that the buffer begins with, and what its fields say is what the
\* lines before it say; it stands nowhere in a buffer that begins inside a
\* request, or whose request has line ends parse_line does not know. Once
\* process_read has come to an outcome, the outcome is right.
ParserInv ==
  /\ ParserTypeOK /\ InSent
  /\ pc = "parse" \/ Busy => m_read_index > 0
  /\ pc \in {"recv", "parse"} => Parsing
  /\ StallsOnCutBodyOnly /\ OutcomeRight
  /\ Busy /\ ~IsPage => m_linger = FALSE
  /\ answers \in Seq(DOMAIN requests)
-----------------------------------------------------------------------------
\* parse_line, by the first line end it finds.
LineEnds == {i \in m_check_index..m_read_index - 1 : Buf(i) \in {"CR", "LF"}}

LEMMA ParseLineNone ==
  ASSUME LineEnds = {} PROVE parse_line = LineAt("OPEN", m_read_index)
BY DEF parse_line, LineEnds

LEMMA ParseLineFirst ==
  ASSUME m_read_index \in Nat, m_check_index \in Nat,
         NEW i \in LineEnds, \A j \in LineEnds : i <= j
  PROVE  parse_line =
           IF Buf(i) = "CR" /\ i + 1 = m_read_index THEN LineAt("OPEN", i)
           ELSE IF Buf(i) = "CR" /\ Buf(i + 1) = "LF" THEN LineAt("OK", i + 2)
           ELSE IF Buf(i) = "LF" /\ i > 1 /\ Buf(i - 1) = "CR" THEN LineAt("OK", i + 1)
           ELSE LineAt("BAD", i)
<1> DEFINE first == CHOOSE m \in LineEnds : \A j \in LineEnds : m <= j
<1>1. LineEnds # {} /\ LineEnds \subseteq Nat
  BY DEF LineEnds
<1>2. first \in LineEnds /\ \A j \in LineEnds : first <= j
  OBVIOUS
<1> HIDE DEF first
<1>3. first = i
  <2>1. first \in Nat /\ i \in Nat /\ first <= i /\ i <= first
    BY <1>1, <1>2
  <2> QED BY <2>1
<1>4. parse_line =
        IF LineEnds = {} THEN LineAt("OPEN", m_read_index)
        ELSE IF Buf(first) = "CR" /\ first + 1 = m_read_index THEN LineAt("OPEN", first)
        ELSE IF Buf(first) = "CR" /\ Buf(first + 1) = "LF" THEN LineAt("OK", first + 2)
        ELSE IF Buf(first) = "LF" /\ first > 1 /\ Buf(first - 1) = "CR" THEN LineAt("OK", first + 1)
        ELSE LineAt("BAD", first)
  BY DEF parse_line, LineEnds, first
<1> QED BY <1>1, <1>3, <1>4

\* It never looks beyond what has been read.
LEMMA ParseLineInside ==
  ASSUME m_read_index \in Nat, m_check_index \in 0..m_read_index
  PROVE  /\ parse_line.index \in m_check_index..m_read_index
         /\ parse_line.status \in {"OK", "OPEN", "BAD"}
<1>1. CASE LineEnds = {}
  <2>1. parse_line = LineAt("OPEN", m_read_index)
    BY <1>1, ParseLineNone
  <2> QED BY <2>1 DEF LineAt
<1>2. CASE LineEnds # {}
  <2>1. LineEnds \in SUBSET Nat
    BY DEF LineEnds
  <2>2. PICK i \in LineEnds : \A j \in LineEnds : i <= j
    BY <1>2, <2>1, Least
  <2>3. i \in m_check_index..m_read_index - 1 /\ i \in Nat
    BY <2>1 DEF LineEnds
  <2>4. parse_line =
           IF Buf(i) = "CR" /\ i + 1 = m_read_index THEN LineAt("OPEN", i)
           ELSE IF Buf(i) = "CR" /\ Buf(i + 1) = "LF" THEN LineAt("OK", i + 2)
           ELSE IF Buf(i) = "LF" /\ i > 1 /\ Buf(i - 1) = "CR" THEN LineAt("OK", i + 1)
           ELSE LineAt("BAD", i)
    BY <2>2, ParseLineFirst
  <2>5. Buf(i + 1) = "LF" => i + 1 < m_read_index
    BY DEF Buf
  <2> QED BY <2>3, <2>4, <2>5 DEF LineAt
<1> QED BY <1>1, <1>2

\* Where line l of a request with CR LF ends.
LineEnd(r, l) == IF l <= Len(r.headers) THEN 3 * l + 3 ELSE 3 * Len(r.headers) + 5

\* On such a line parse_line finds its end, as soon as the line is there.
LEMMA LineFound ==
  ASSUME requests \in Conversations, m_read_index \in Nat, m_check_index \in 0..m_read_index,
         NEW k \in Current, requests[k].eol = CRLF,
         NEW l \in 0..Len(requests[k].headers) + 1, AtLine(requests[k], l)
  PROVE  IF LineEnd(requests[k], l) <= m_read_index
         THEN parse_line = LineAt("OK", LineEnd(requests[k], l))
         ELSE /\ parse_line.status = "OPEN" /\ parse_line.index <= m_read_index
              /\ \/ parse_line.index = 3 * l
                 \/ parse_line.index = 3 * l + 1 /\ l <= Len(requests[k].headers)
<1> DEFINE r == requests[k]
           n == Len(requests[k].headers)
<1>1. /\ requests[k] \in Requests /\ n \in Nat /\ r.line \in RequestLines
      /\ \A i \in 1..n : r.headers[i] \in Headers
  BY CurrentFacts, RequestType
<1>2. /\ 0 < m_read_index => Buf(0) = r.line
      /\ \A i \in 1..n : 3 * i < m_read_index => Buf(3 * i) = r.headers[i]
      /\ \A i \in 0..n : 3 * i + 1 < m_read_index => Buf(3 * i + 1) = "CR"
      /\ \A i \in 0..n : 3 * i + 2 < m_read_index => Buf(3 * i + 2) = "LF"
      /\ 3 * n + 3 < m_read_index => Buf(3 * n + 3) = "CR"
      /\ 3 * n + 4 < m_read_index => Buf(3 * n + 4) = "LF"
  BY BufferLaidOut
<1>3. m_check_index = 3 * l \/ (m_check_index = 3 * l + 1 /\ l <= n)
  BY DEF AtLine
<1>4. LineEnd(r, l) = IF l <= n THEN 3 * l + 3 ELSE 3 * n + 5
  BY DEF LineEnd
<1> HIDE DEF r, n
<1> SUFFICES IF LineEnd(r, l) <= m_read_index
             THEN parse_line = LineAt("OK", LineEnd(r, l))
             ELSE /\ parse_line.status = "OPEN" /\ parse_line.index <= m_read_index
                  /\ \/ parse_line.index = 3 * l
                     \/ parse_line.index = 3 * l + 1 /\ l <= n
  BY DEF r, n
<1>5. CASE l <= n
  <2> DEFINE i == 3 * l + 1
  <2>0. l \in 0..n /\ i \in Nat /\ LineEnd(r, l) = i + 2 /\ i - 1 = 3 * l /\ i + 1 = 3 * l + 2
        /\ l \in Nat
    BY <1>1, <1>4, <1>5 DEF n
  <2>1. 3 * l < m_read_index => Buf(3 * l) \notin {"CR", "LF"}
    <3>1. l = 0 \/ l \in 1..n
      BY <2>0
    <3>2. l = 0 => 3 * l = 0
      OBVIOUS
    <3> QED BY <1>1, <1>2, <3>1, <3>2 DEF RequestLines, Headers
  <2>2. (i < m_read_index => Buf(i) = "CR") /\ (i + 1 < m_read_index => Buf(i + 1) = "LF")
    BY <1>2, <2>0
  <2> HIDE DEF i
  <2>3. CASE m_read_index <= i
    <3>1. LineEnds = {}
      <4> SUFFICES ASSUME NEW j \in LineEnds PROVE FALSE
        OBVIOUS
      <4>1. j \in m_check_index..m_read_index - 1 /\ Buf(j) \in {"CR", "LF"}
        BY DEF LineEnds
      <4>2. j = 3 * l /\ 3 * l < m_read_index
        BY <1>3, <2>0, <2>3, <4>1
      <4> QED BY <2>1, <4>1, <4>2
    <3>2. parse_line = LineAt("OPEN", m_read_index)
      BY <3>1, ParseLineNone
    <3>3. m_read_index = 3 * l \/ m_read_index = i
      BY <1>3, <2>0, <2>3
    <3>4. ~ LineEnd(r, l) <= m_read_index
      BY <2>0, <2>3
    <3>5. parse_line.status = "OPEN" /\ parse_line.index = m_read_index
      BY <3>2 DEF LineAt
    <3> QED BY <1>5, <3>3, <3>4, <3>5 DEF i
  <2>4. CASE m_read_index > i
    <3>1. i \in LineEnds /\ \A j \in LineEnds : i <= j
      <4>1. i \in LineEnds
        BY <1>3, <2>0, <2>2, <2>4 DEF LineEnds
      <4>2. ASSUME NEW j \in LineEnds, ~ i <= j PROVE FALSE
        <5>1. j \in m_check_index..m_read_index - 1 /\ Buf(j) \in {"CR", "LF"}
          BY DEF LineEnds
        <5>2. j = 3 * l /\ 3 * l < m_read_index
          BY <1>3, <2>0, <2>4, <4>2, <5>1
        <5> QED BY <2>1, <5>1, <5>2
      <4> QED BY <4>1, <4>2
    <3>2. Buf(i) = "CR"
      BY <2>2, <2>4
    <3>3. parse_line = IF i + 1 = m_read_index THEN LineAt("OPEN", i)
                       ELSE IF Buf(i + 1) = "LF" THEN LineAt("OK", i + 2)
                       ELSE IF Buf(i) = "LF" /\ i > 1 /\ Buf(i - 1) = "CR"
                            THEN LineAt("OK", i + 1) ELSE LineAt("BAD", i)
      <4>1. m_check_index \in Nat
        OBVIOUS
      <4> QED BY <3>1, <3>2, <4>1, ParseLineFirst
    <3>4. CASE i + 1 = m_read_index
      <4>1. parse_line.status = "OPEN" /\ parse_line.index = i
        BY <3>3, <3>4 DEF LineAt
      <4>2. ~ LineEnd(r, l) <= m_read_index /\ i <= m_read_index
        BY <2>0, <3>4
      <4> QED BY <1>5, <4>1, <4>2 DEF i
    <3>5. CASE i + 1 # m_read_index
      <4>1. i + 1 < m_read_index /\ LineEnd(r, l) <= m_read_index
        BY <2>0, <2>4, <3>5
      <4>2. Buf(i + 1) = "LF"
        BY <2>2, <4>1
      <4> QED BY <2>0, <3>3, <3>5, <4>1, <4>2
    <3> QED BY <3>4, <3>5
  <2> QED BY <2>0, <2>3, <2>4
<1>6. CASE l = n + 1
  <2> DEFINE i == 3 * l
  <2>0. /\ i \in Nat /\ LineEnd(r, l) = i + 2 /\ i = 3 * n + 3 /\ i + 1 = 3 * n + 4
        /\ m_check_index = i /\ ~ l <= n
    BY <1>1, <1>3, <1>4, <1>6
  <2>2. (i < m_read_index => Buf(i) = "CR") /\ (i + 1 < m_read_index => Buf(i + 1) = "LF")
    BY <1>2, <2>0
  <2> HIDE DEF i
  <2>3. CASE m_read_index <= i
    <3>1. LineEnds = {}
      BY <2>0, <2>3 DEF LineEnds
    <3>2. parse_line = LineAt("OPEN", m_read_index)
      BY <3>1, ParseLineNone
    <3>3. m_read_index = i
      BY <2>0, <2>3
    <3>4. ~ LineEnd(r, l) <= m_read_index
      BY <2>0, <2>3
    <3>5. parse_line.status = "OPEN" /\ parse_line.index = m_read_index
      BY <3>2 DEF LineAt
    <3> QED BY <3>3, <3>4, <3>5 DEF i
  <2>4. CASE m_read_index > i
    <3>1. i \in LineEnds /\ \A j \in LineEnds : i <= j
      BY <2>0, <2>2, <2>4 DEF LineEnds
    <3>2. Buf(i) = "CR"
      BY <2>2, <2>4
    <3>3. parse_line = IF i + 1 = m_read_index THEN LineAt("OPEN", i)
                       ELSE IF Buf(i + 1) = "LF" THEN LineAt("OK", i + 2)
                       ELSE IF Buf(i) = "LF" /\ i > 1 /\ Buf(i - 1) = "CR"
                            THEN LineAt("OK", i + 1) ELSE LineAt("BAD", i)
      <4>1. m_check_index \in Nat
        OBVIOUS
      <4> QED BY <3>1, <3>2, <4>1, ParseLineFirst
    <3>4. CASE i + 1 = m_read_index
      <4>1. parse_line.status = "OPEN" /\ parse_line.index = i
        BY <3>3, <3>4 DEF LineAt
      <4>2. ~ LineEnd(r, l) <= m_read_index /\ i <= m_read_index
        BY <2>0, <3>4
      <4> QED BY <4>1, <4>2 DEF i
    <3>5. CASE i + 1 # m_read_index
      <4>1. i + 1 < m_read_index /\ LineEnd(r, l) <= m_read_index
        BY <2>0, <2>4, <3>5
      <4>2. Buf(i + 1) = "LF"
        BY <2>2, <4>1
      <4> QED BY <2>0, <3>3, <3>5, <4>1, <4>2
    <3> QED BY <3>4, <3>5
  <2> QED BY <2>0, <2>3, <2>4
<1>7. l <= n \/ l = n + 1
  BY <1>1 DEF n
<1> QED BY <1>5, <1>6, <1>7

\* In a request whose lines end in LF it finds none.
LEMMA NoLineFound ==
  ASSUME requests \in Conversations, m_read_index \in Nat, m_check_index \in 0..m_read_index,
         NEW k \in Current, requests[k].eol = <<"LF">>, m_check_index <= 1
  PROVE  parse_line.status # "OK" /\ parse_line.index <= 1
<1>1. /\ requests[k] \in Requests /\ base = Begin(k) /\ k \in 1..N
      /\ Len(Stream(requests[k])) \in Nat /\ base \in Nat
  BY CurrentFacts
<1>2. 0 < m_read_index => Buf(0) \notin {"CR", "LF"}
  <2>1. Stream(requests[k])[1] = requests[k].line /\ Len(Stream(requests[k])) >= 3
    BY <1>1, StreamOfRequest
  <2>2. 1 \in 1..Len(Stream(requests[k])) /\ base + 0 + 1 = base + 1
    BY <1>1, <2>1
  <2>3. Streams[requests][base + 1] = requests[k].line
    BY <1>1, <2>1, <2>2, EndStep
  <2>4. requests[k].line \notin {"CR", "LF"}
    BY <1>1, RequestType DEF RequestLines
  <2> QED BY <2>2, <2>3, <2>4 DEF Buf
<1>3. 1 < m_read_index => Buf(1) = "LF"
  BY BufferLF
<1>4. CASE m_read_index <= 1
  <2>1. LineEnds = {}
    <3> SUFFICES ASSUME NEW j \in LineEnds PROVE FALSE
      OBVIOUS
    <3>1. j \in m_check_index..m_read_index - 1 /\ Buf(j) \in {"CR", "LF"}
      BY DEF LineEnds
    <3>2. j = 0 /\ 0 < m_read_index
      BY <1>4, <3>1
    <3> QED BY <1>2, <3>1, <3>2
  <2> QED BY <1>4, <2>1, ParseLineNone DEF LineAt
<1>5. CASE m_read_index > 1
  <2>1. 1 \in LineEnds
    BY <1>3, <1>5 DEF LineEnds
  <2>2. ASSUME NEW j \in LineEnds, ~ 1 <= j PROVE FALSE
    <3>1. j \in m_check_index..m_read_index - 1 /\ Buf(j) \in {"CR", "LF"}
      BY DEF LineEnds
    <3>2. j = 0 /\ 0 < m_read_index
      BY <1>5, <2>2, <3>1
    <3> QED BY <1>2, <3>1, <3>2
  <2>3. parse_line =
          IF Buf(1) = "CR" /\ 1 + 1 = m_read_index THEN LineAt("OPEN", 1)
          ELSE IF Buf(1) = "CR" /\ Buf(1 + 1) = "LF" THEN LineAt("OK", 1 + 2)
          ELSE IF Buf(1) = "LF" /\ 1 > 1 /\ Buf(1 - 1) = "CR" THEN LineAt("OK", 1 + 1)
          ELSE LineAt("BAD", 1)
    <3>1. m_check_index \in Nat /\ \A j \in LineEnds : 1 <= j
      BY <2>2
    <3> QED BY <2>1, <3>1, ParseLineFirst
  <2>4. parse_line = LineAt("BAD", 1)
    BY <1>3, <1>5, <2>3
  <2> QED BY <2>4 DEF LineAt
<1> QED BY <1>4, <1>5

\* As long as the requests and base stay, all that is said of them does.
LEMMA SameStreams ==
  ASSUME requests' = requests
  PROVE  /\ Sent' = Sent /\ N' = N /\ \A k : End(k)' = End(k) /\ Begin(k)' = Begin(k)
         /\ base' = base => Current' = Current
BY DEF Sent, N, End, Begin, Current

\* The type invariant of the parser, one action after the other.
LEMMA ParserTypeReceive ==
  ASSUME ParserTypeOK, InSent, Receive PROVE ParserTypeOK' /\ InSent'
<1>1. PICK n \in m_read_index..READ_BUFF_SIZE, fin \in BOOLEAN :
        /\ base + n <= Sent
        /\ m_read_index' = n
        /\ cut' = (cut \/ InBody(n))
        /\ gone' = fin
  BY DEF Receive
<1>2. /\ line_status' = "OK"
      /\ UNCHANGED <<requests, base, m_check_index, m_start_line, m_check_state, cgi,
                     m_content_length, m_linger, m_string>>
  BY DEF Receive, peerVars, fields
<1>3. Sent' = Sent
  BY <1>2, SameStreams
<1>4. cut' \in BOOLEAN
  BY <1>1 DEF ParserTypeOK
<1>5. m_read_index' \in 0..READ_BUFF_SIZE /\ m_check_index \in 0..m_read_index'
  BY <1>1, RequestsAssumption DEF ParserTypeOK
<1>6. base' + m_read_index' <= Sent'
  BY <1>1, <1>2, <1>3
<1>7. ParserTypeOK'
  BY <1>1, <1>2, <1>3, <1>4, <1>5 DEF ParserTypeOK
<1> QED BY <1>6, <1>7 DEF InSent

LEMMA ParserTypeLine ==
  ASSUME ParserTypeOK, InSent, ParseLine PROVE ParserTypeOK' /\ InSent'
<1>1. /\ line_status' = "OK"
      /\ m_check_index' = parse_line.index /\ m_start_line' = parse_line.index
      /\ UNCHANGED <<requests, base, cut, gone, m_read_index>>
  BY DEF ParseLine, peerVars
<1> DEFINE text == Text(m_start_line, parse_line.index)
<1>2. parse_request_line(text) \/ parse_headers(text)
  BY DEF ParseLine
<1> HIDE DEF text
<1>3. /\ m_check_state' \in {"REQUESTLINE", "HEADER", "CONTENT"} /\ cgi' \in {0, 1}
      /\ m_linger' \in BOOLEAN /\ m_string' = m_string
  <2>1. CASE parse_request_line(text)
    BY <2>1 DEF parse_request_line, ParserTypeOK
  <2>2. CASE parse_headers(text)
    <3>1. cgi' = cgi /\ m_string' = m_string /\ m_linger' \in {m_linger, m_linger \/ text = "Connection: keep-alive"}
          /\ m_check_state' \in {m_check_state, "CONTENT"}
      BY <2>2 DEF parse_headers, fields
    <3>2. (m_linger \/ text = "Connection: keep-alive") \in BOOLEAN
      OBVIOUS
    <3> QED BY <3>1, <3>2 DEF ParserTypeOK
  <2> QED BY <1>2, <2>1, <2>2
<1>4. m_content_length' \in Nat
  <2>1. m_content_length' = m_content_length
        \/ \E k \in Current : m_content_length' = Len(requests[k].body)
    BY <1>2 DEF parse_request_line, parse_headers, fields
  <2>2. \A k \in Current : Len(requests[k].body) \in Nat
    BY CurrentFacts, RequestType DEF ParserTypeOK
  <2> QED BY <2>1, <2>2 DEF ParserTypeOK
<1>5. Sent' = Sent
  BY <1>1, SameStreams
<1>6. m_read_index \in Nat /\ m_check_index \in 0..m_read_index
  BY RequestsAssumption DEF ParserTypeOK
<1>7. parse_line.index \in 0..m_read_index
  <2>1. parse_line.index \in m_check_index..m_read_index
    BY <1>6, ParseLineInside
  <2> QED BY <1>6, <2>1
<1>8. ParserTypeOK'
  BY <1>1, <1>3, <1>4, <1>5, <1>7 DEF ParserTypeOK
<1> QED BY <1>1, <1>5, <1>8 DEF InSent

LEMMA ParserTypeContent ==
  ASSUME ParserTypeOK, InSent, ParseContent PROVE ParserTypeOK' /\ InSent'
<1> DEFINE index == IF line_status = "OK" THEN m_check_index ELSE parse_line.index
<1>1. /\ UNCHANGED <<requests, base, cut, gone, m_read_index, m_check_state, cgi,
                     m_content_length, m_linger>>
      /\ m_check_index' = index /\ m_start_line' = index
  BY DEF ParseContent, peerVars
<1>2. \/ /\ EnoughBody(index) /\ line_status' = line_status
         /\ m_string' = [k \in 1..m_content_length |-> Buf(m_start_line + k - 1)]
      \/ line_status' = "OPEN" /\ m_string' = m_string
  BY DEF ParseContent
<1>3. m_read_index \in Nat /\ m_check_index \in 0..m_read_index /\ m_start_line \in 0..m_check_index
  BY RequestsAssumption DEF ParserTypeOK
<1>4. index \in m_check_index..m_read_index
  <2>1. parse_line.index \in m_check_index..m_read_index
    BY <1>3, ParseLineInside
  <2> QED BY <1>3, <2>1
<1> HIDE DEF index
<1>5. m_string' \in Seq(Symbols)
  <2>1. ASSUME EnoughBody(index), NEW k \in 1..m_content_length
        PROVE  Buf(m_start_line + k - 1) \in Symbols
    <3>1. /\ m_start_line + k - 1 \in Nat /\ m_start_line + k - 1 < m_read_index
      BY <1>3, <1>4, <2>1 DEF EnoughBody, ParserTypeOK
    <3>2. requests \in Conversations /\ base \in Nat /\ base + m_read_index <= Sent
      BY DEF ParserTypeOK, InSent
    <3> QED BY <1>3, <3>1, <3>2, BufType
  <2>2. m_content_length \in Nat
    BY DEF ParserTypeOK
  <2>3. EnoughBody(index) => [k \in 1..m_content_length |-> Buf(m_start_line + k - 1)] \in Seq(Symbols)
    BY <2>1, <2>2
  <2> QED BY <1>2, <2>3 DEF ParserTypeOK
<1>6. Sent' = Sent
  BY <1>1, SameStreams
<1>7. line_status' \in {"OK", "OPEN", "BAD"}
  BY <1>2 DEF ParserTypeOK
<1>8. ParserTypeOK'
  BY <1>1, <1>3, <1>4, <1>5, <1>6, <1>7 DEF ParserTypeOK
<1> QED BY <1>1, <1>6, <1>8 DEF InSent

LEMMA ParserTypeEnd ==
  ASSUME ParserTypeOK, InSent, EndParse PROVE ParserTypeOK' /\ InSent'
<1>1. /\ line_status' = parse_line.status /\ m_check_index' = parse_line.index
      /\ UNCHANGED <<requests, base, cut, gone, m_read_index, m_start_line, m_check_state,
                     cgi, m_content_length, m_linger, m_string>>
  BY DEF EndParse, peerVars, fields
<1>2. m_read_index \in Nat /\ m_check_index \in 0..m_read_index /\ m_start_line \in 0..m_check_index
  BY RequestsAssumption DEF ParserTypeOK
<1>3. /\ parse_line.index \in m_check_index..m_read_index
      /\ parse_line.status \in {"OK", "OPEN", "BAD"}
  BY <1>2, ParseLineInside
<1>4. Sent' = Sent
  BY <1>1, SameStreams
<1>5. ParserTypeOK'
  BY <1>1, <1>2, <1>3, <1>4 DEF ParserTypeOK
<1> QED BY <1>1, <1>4, <1>5 DEF InSent

\* init() starts behind all that has been received, and nothing remains.
LEMMA ParserTypeInit ==
  ASSUME ParserTypeOK, InSent, init
  PROVE  ParserTypeOK' /\ InSent' /\ m_read_index' = 0 /\ m_check_index' = 0 /\ Untouched'
         /\ m_string' = <<>> /\ UNCHANGED line_status /\ base' = base + m_read_index
<1>1. /\ base' = base + m_read_index
      /\ m_read_index' = 0 /\ m_check_index' = 0 /\ m_start_line' = 0
      /\ m_check_state' = "REQUESTLINE" /\ cgi' = 0 /\ m_content_length' = 0
      /\ m_linger' = FALSE /\ m_string' = <<>> /\ cut' = FALSE
      /\ UNCHANGED <<requests, gone, line_status>>
  BY DEF init
<1>2. Sent' = Sent
  BY <1>1, SameStreams
<1>3. base \in Nat /\ m_read_index \in Nat /\ base + m_read_index <= Sent /\ Sent \in Nat
      /\ requests \in Conversations
  <2>1. N \in 0..N
    BY EndFacts DEF ParserTypeOK
  <2> QED BY <2>1, EndFacts, RequestsAssumption DEF ParserTypeOK, InSent
<1>4. base' \in 0..Sent' /\ base' + m_read_index' <= Sent'
  BY <1>1, <1>2, <1>3
<1>5. ParserTypeOK'
  <2>1. 0 \in 0..READ_BUFF_SIZE /\ <<>> \in Seq(Symbols) /\ 0 \in 0..0
    BY RequestsAssumption
  <2> QED BY <1>1, <1>4, <2>1 DEF ParserTypeOK
<1> QED BY <1>1, <1>4, <1>5 DEF InSent, Untouched

\* A buffer with nothing in it is being parsed from its start.
LEMMA FreshParsing ==
  ASSUME requests \in Conversations, Untouched, m_read_index = 0, m_check_index = 0,
         m_string = <<>>, pc = "recv"
  PROVE  Parsing
<1>1. ASSUME NEW k \in Current PROVE ParsingOf(requests[k])
  <2> DEFINE r == requests[k]
  <2>1. Len(r.headers) \in Nat /\ Len(r.body) \in Nat
    BY CurrentFacts, RequestType
  <2> HIDE DEF r
  <2>2. Whole(r)
    <3>1. 0 <= 3 * Len(r.headers) + 5
      BY <2>1
    <3> QED BY <3>1 DEF Whole, BodyAt
  <2>3. \A h : ~ Said(r, 0, h)
    BY DEF Said
  <2>4. AtLine(r, 0)
    <3>1. Fields(r, 0)
      <4>1. m_linger = FALSE /\ cgi = 0 /\ m_content_length = 0
        BY DEF Untouched
      <4>2. Said(r, 0, "Connection: keep-alive") = FALSE
        BY <2>3 DEF Said
      <4>3. m_linger = Said(r, 0, "Connection: keep-alive")
        BY <4>1, <4>2
      <4>4. ~(0 > 0)
        OBVIOUS
      <4> QED BY <2>3, <4>1, <4>3, <4>4 DEF Fields
    <3> QED BY <3>1 DEF AtLine, Untouched
  <2>5. 0 \in 0..Len(r.headers) + 1
    BY <2>1
  <2>6. ParsingOf(r)
    BY <2>2, <2>4, <2>5 DEF ParsingOf, Untouched
  <2> QED BY <2>6 DEF r
<1> QED BY <1>1 DEF Parsing

LEMMA SaidSteps ==
  ASSUME NEW r, Len(r.headers) \in Nat, NEW h
  PROVE  /\ ~ Said(r, 0, h) /\ ~ Said(r, 1, h)
         /\ \A l \in 1..Len(r.headers) : Said(r, l + 1, h) <=> Said(r, l, h) \/ r.headers[l] = h
         /\ Said(r, Len(r.headers) + 1, h) <=> Contains(r.headers, h)
<1> DEFINE n == Len(r.headers)
<1>1. ~ Said(r, 0, h) /\ ~ Said(r, 1, h)
  BY DEF Said
<1>2. ASSUME NEW l \in 1..n PROVE Said(r, l + 1, h) <=> Said(r, l, h) \/ r.headers[l] = h
  <2>1. \A i : i \in 1..(l + 1) - 1 <=> i \in 1..l - 1 \/ i = l
    OBVIOUS
  <2> QED BY <2>1 DEF Said
<1>3. Said(r, n + 1, h) <=> Contains(r.headers, h)
  <2>1. (n + 1) - 1 = n
    OBVIOUS
  <2> QED BY <2>1 DEF Said, Contains
<1> QED BY <1>1, <1>2, <1>3

\* What process_read makes of request r when it is done with it.
Understood(r) ==
  /\ r.line \in {"GET", "POST"} /\ (cgi = 1) = (r.line = "POST")
  /\ m_linger = Contains(r.headers, "Connection: keep-alive")
  /\ cut \/ m_string = r.body

\* A turn of the loop on a line: the next line is awaited, or the body; or the
\* request line is refused; or the request is complete.
LEMMA LineTaken ==
  ASSUME ParserTypeOK, InSent, NEW k \in Current, NEW r, r = requests[k], r.eol = CRLF,
         NEW l \in 0..Len(r.headers) + 1, AtLine(r, l), Whole(r), m_string = <<>>, ParseLine
  PROVE  \/ pc' = "parse" /\ AtLine(r, l + 1)' /\ l <= Len(r.headers)
         \/ pc' = "parse" /\ AtBody(r)'
         \/ /\ pc' = "respond" /\ m_check_state' = "REQUESTLINE" /\ r.line = "malformed"
            /\ m_linger' = FALSE
         \/ /\ pc' = "do_request" /\ m_check_state' = "HEADER" /\ Understood(r)'
            /\ m_read_index >= BodyAt(r) + Len(r.body)
<1> DEFINE n == Len(r.headers)
           text == Text(m_start_line, parse_line.index)
<1>1. /\ r \in Requests /\ n \in Nat /\ Len(r.body) \in Nat /\ r.line \in RequestLines
      /\ \A i \in 1..n : r.headers[i] \in Headers
      /\ r.body # <<>> <=> \E i \in 1..n : r.headers[i] = "Content-Length"
      /\ r.body \in Seq(BodySymbols)
  <2>1. r \in Requests
    BY CurrentFacts DEF ParserTypeOK
  <2>2. r.headers \in Seq(Headers)
    BY <2>1, RequestType
  <2>3. \A i \in 1..n : r.headers[i] \in Headers
    BY <2>2
  <2> QED BY <2>1, <2>3, RequestType
<1>2. /\ 0 < m_read_index => Buf(0) = r.line
      /\ \A i \in 1..n : 3 * i < m_read_index => Buf(3 * i) = r.headers[i]
  <2>1. /\ requests \in Conversations /\ m_read_index \in Nat /\ requests[k].eol = CRLF
    BY RequestsAssumption DEF ParserTypeOK
  <2>2. /\ 0 < m_read_index => Buf(0) = requests[k].line
        /\ \A i \in 1..Len(requests[k].headers) :
             3 * i < m_read_index => Buf(3 * i) = requests[k].headers[i]
    BY <2>1, BufferLaidOut
  <2> QED BY <2>2
<1>3. /\ pc = "parse" /\ parse_line.status = "OK" /\ m_check_state # "CONTENT"
      /\ line_status' = "OK"
      /\ m_check_index' = parse_line.index /\ m_start_line' = parse_line.index
      /\ UNCHANGED <<requests, base, cut, gone, m_read_index>>
      /\ IF m_check_state = "REQUESTLINE" THEN parse_request_line(text) ELSE parse_headers(text)
  BY DEF ParseLine, peerVars
<1>4. LineEnd(r, l) <= m_read_index /\ parse_line.index = LineEnd(r, l)
  <2>1. IF LineEnd(r, l) <= m_read_index
        THEN parse_line = LineAt("OK", LineEnd(r, l))
        ELSE parse_line.status = "OPEN"
    BY LineFound, RequestsAssumption DEF ParserTypeOK
  <2> QED BY <1>3, <2>1 DEF LineAt
<1>5. /\ m_start_line = 3 * l /\ Fields(r, l)
      /\ m_check_state = IF l = 0 THEN "REQUESTLINE" ELSE "HEADER"
  BY DEF AtLine
<1>6. m_read_index \in Nat /\ l \in Nat
  BY <1>1, RequestsAssumption DEF ParserTypeOK
<1>7. text = IF parse_line.index - 3 * l > 2 THEN Buf(3 * l) ELSE ""
  BY <1>5 DEF Text
<1>8. LineEnd(r, l) = IF l <= n THEN 3 * l + 3 ELSE 3 * n + 5
  BY DEF LineEnd
<1>0. Len(r.body) \in Nat /\ n \in Nat
  BY <1>1
<1>9. /\ \A h : ~ Said(r, 0, h) /\ ~ Said(r, 1, h)
      /\ \A h : \A i \in 1..n : Said(r, i + 1, h) <=> Said(r, i, h) \/ r.headers[i] = h
      /\ \A h : Said(r, n + 1, h) <=> Contains(r.headers, h)
  BY <1>1, SaidSteps
<1> HIDE DEF text
<1>10. CASE l = 0
  <2>1. parse_line.index = 3 /\ 3 <= m_read_index /\ text = r.line
    <3>1. 3 * l = 0 /\ l <= n /\ 3 * l + 3 = 3
      BY <1>1, <1>10
    <3>2. parse_line.index = 3 /\ 3 <= m_read_index
      BY <1>4, <1>8, <3>1
    <3>3. parse_line.index - 3 * l > 2 /\ 0 < m_read_index
      BY <1>6, <3>1, <3>2
    <3>4. text = Buf(0)
      BY <1>7, <3>1, <3>3
    <3> QED BY <1>2, <3>2, <3>3, <3>4
  <2>2. m_linger = FALSE /\ m_content_length = 0 /\ cgi = 0
    <3>1. Said(r, 0, "Connection: keep-alive") = FALSE
      BY <1>9 DEF Said
    <3>2. ~(0 > 0)
      OBVIOUS
    <3>3. /\ m_linger = Said(r, 0, "Connection: keep-alive")
          /\ m_content_length = IF Said(r, 0, "Content-Length") THEN Len(r.body) ELSE 0
          /\ cgi = IF 0 > 0 /\ r.line = "POST" THEN 1 ELSE 0
      BY <1>5, <1>10 DEF Fields
    <3> QED BY <1>9, <3>1, <3>2, <3>3
  <2>3. /\ cgi' = IF r.line = "POST" THEN 1 ELSE cgi
        /\ IF r.line \in {"GET", "POST"}
           THEN m_check_state' = "HEADER" /\ Continue
           ELSE Return("BAD_REQUEST") /\ UNCHANGED m_check_state
        /\ UNCHANGED <<m_content_length, m_linger, m_string>>
    BY <1>3, <1>5, <1>10, <2>1 DEF parse_request_line
  <2>4. CASE r.line \in {"GET", "POST"}
    <3>1. m_check_state' = "HEADER" /\ pc' = "parse"
      BY <1>3, <2>3, <2>4 DEF Continue
    <3>2. Fields(r, 1)'
      <4>1. m_linger' = Said(r, 1, "Connection: keep-alive")
        <5>1. Said(r, 1, "Connection: keep-alive") = FALSE
          BY <1>9 DEF Said
        <5> QED BY <2>2, <2>3, <5>1
      <4>2. m_content_length' = IF Said(r, 1, "Content-Length") THEN Len(r.body) ELSE 0
        BY <1>9, <2>2, <2>3
      <4>3. cgi' = IF 1 > 0 /\ r.line = "POST" THEN 1 ELSE 0
        BY <2>2, <2>3
      <4> QED BY <2>4, <4>1, <4>2, <4>3 DEF Fields, Said
    <3>3. AtLine(r, 1)'
      BY <1>3, <2>1, <3>1, <3>2 DEF AtLine
    <3> QED BY <1>1, <1>10, <3>1, <3>3
  <2>5. CASE r.line \notin {"GET", "POST"}
    BY <1>1, <1>5, <1>10, <2>2, <2>3, <2>5 DEF Return, RequestLines
  <2> QED BY <2>4, <2>5
<1>11. CASE l \in 1..n
  <2>1. parse_line.index = 3 * (l + 1) /\ text = r.headers[l]
    <3>1. l <= n /\ 3 * l + 3 = 3 * (l + 1) /\ (3 * l + 3) - 3 * l = 3 /\ 3 * l < 3 * l + 3
      BY <1>1, <1>11
    <3>2. parse_line.index = 3 * l + 3 /\ 3 * l + 3 <= m_read_index
      BY <1>4, <1>8, <3>1
    <3>3. 3 * l < m_read_index
      BY <1>6, <3>2
    <3>4. text = Buf(3 * l)
      BY <1>7, <3>1, <3>2
    <3> QED BY <1>2, <1>11, <3>1, <3>2, <3>3, <3>4
  <2>2. text \in Headers /\ text # ""
    BY <1>1, <1>11, <2>1 DEF Headers
  <2>3. /\ pc' = "parse" /\ m_check_state' = m_check_state /\ cgi' = cgi /\ m_string' = m_string
        /\ m_linger' = (m_linger \/ text = "Connection: keep-alive")
        /\ IF text = "Content-Length"
           THEN \E i \in Current : m_content_length' = Len(requests[i].body)
           ELSE UNCHANGED m_content_length
    <3>1. parse_headers(text)
      BY <1>3, <1>5, <1>11
    <3> QED BY <1>3, <2>2, <3>1 DEF parse_headers, Continue
  <2>4. m_content_length' = IF Said(r, l + 1, "Content-Length") THEN Len(r.body) ELSE 0
    <3>1. m_content_length = IF Said(r, l, "Content-Length") THEN Len(r.body) ELSE 0
      BY <1>5 DEF Fields
    <3>2. \A i \in Current : i = k
      BY OneCurrent DEF ParserTypeOK
    <3>3. Said(r, l + 1, "Content-Length") <=> Said(r, l, "Content-Length") \/ text = "Content-Length"
      BY <1>9, <1>11, <2>1
    <3> QED BY <2>3, <3>1, <3>2, <3>3
  <2>5. m_linger' = Said(r, l + 1, "Connection: keep-alive")
    <3>1. m_linger = Said(r, l, "Connection: keep-alive")
      BY <1>5 DEF Fields
    <3>2. Said(r, l + 1, "Connection: keep-alive")
            <=> Said(r, l, "Connection: keep-alive") \/ text = "Connection: keep-alive"
      BY <1>9, <1>11, <2>1
    <3>3. Said(r, l + 1, "Connection: keep-alive") \in BOOLEAN
      BY DEF Said
    <3> QED BY <2>3, <3>1, <3>2, <3>3, Zenon
  <2>6. Fields(r, l + 1)'
    <3>1. l > 0 /\ l + 1 > 0
      BY <1>11
    <3>2. r.line \in {"GET", "POST"} /\ cgi' = IF r.line = "POST" THEN 1 ELSE 0
      BY <1>5, <2>3, <3>1 DEF Fields
    <3> DEFINE linger == Said(r, l + 1, "Connection: keep-alive")
               length == Said(r, l + 1, "Content-Length")
    <3>3. m_linger' = linger /\ m_content_length' = IF length THEN Len(r.body) ELSE 0
      BY <2>4, <2>5
    <3>4. cgi' = IF l + 1 > 0 /\ r.line = "POST" THEN 1 ELSE 0
      BY <3>1, <3>2
    <3>5. linger' = linger /\ length' = length
      BY DEF Said
    <3> HIDE DEF linger, length
    <3> SUFFICES /\ l + 1 > 0 => r.line \in {"GET", "POST"}
                 /\ cgi' = IF l + 1 > 0 /\ r.line = "POST" THEN 1 ELSE 0
                 /\ m_linger' = linger
                 /\ m_content_length' = IF length THEN Len(r.body) ELSE 0
      BY Zenon DEF Fields, linger, length
    <3> QED BY <3>2, <3>3, <3>4
  <2>7. l + 1 # 0 /\ m_check_state' = "HEADER"
    <3>1. l # 0 /\ l + 1 # 0
      BY <1>6, <1>11
    <3> QED BY <1>5, <2>3, <3>1
  <2>8. AtLine(r, l + 1)'
    <3>1. m_start_line' = 3 * (l + 1) /\ m_check_index' = 3 * (l + 1)
      BY <1>3, <2>1
    <3>2. m_check_state' = IF l + 1 = 0 THEN "REQUESTLINE" ELSE "HEADER"
      BY <2>7
    <3> QED BY <2>6, <3>1, <3>2, Zenon DEF AtLine
  <2>9. l <= n
    BY <1>0, <1>11
  <2> QED BY <2>3, <2>8, <2>9
<1>12. CASE l = n + 1
  <2>1. parse_line.index = BodyAt(r) /\ BodyAt(r) <= m_read_index /\ text = ""
    <3>1. ~ l <= n /\ 3 * n + 5 - 3 * l = 2
      BY <1>1, <1>12
    <3>2. parse_line.index = 3 * n + 5 /\ 3 * n + 5 <= m_read_index
      BY <1>4, <1>8, <3>1
    <3>3. parse_line.index - 3 * l = 2 /\ ~(2 > 2)
      BY <3>1, <3>2
    <3>4. text = ""
      BY <1>7, <3>3
    <3> QED BY <3>2, <3>4 DEF BodyAt
  <2>2. /\ IF m_content_length # 0 THEN m_check_state' = "CONTENT" /\ Continue
                                   ELSE Return("GET_REQUEST") /\ UNCHANGED m_check_state
        /\ UNCHANGED <<cgi, m_content_length, m_linger, m_string>>
    <3>1. parse_headers(text)
      BY <1>1, <1>3, <1>5, <1>12
    <3> QED BY <2>1, <3>1 DEF parse_headers, fields
  <2>3. /\ r.line \in {"GET", "POST"} /\ cgi = (IF r.line = "POST" THEN 1 ELSE 0)
        /\ m_linger = Contains(r.headers, "Connection: keep-alive")
        /\ m_content_length = Len(r.body) /\ (m_content_length = 0 <=> r.body = <<>>)
    <3>1. l > 0 /\ l = n + 1
      BY <1>1, <1>12
    <3>2. /\ r.line \in {"GET", "POST"} /\ cgi = (IF r.line = "POST" THEN 1 ELSE 0)
          /\ m_linger = Said(r, n + 1, "Connection: keep-alive")
          /\ m_content_length = IF Said(r, n + 1, "Content-Length") THEN Len(r.body) ELSE 0
      BY <1>5, <3>1 DEF Fields
    <3>3. /\ Said(r, n + 1, "Connection: keep-alive") \in BOOLEAN
          /\ Contains(r.headers, "Connection: keep-alive") \in BOOLEAN
      BY DEF Said, Contains
    <3>4. m_linger = Contains(r.headers, "Connection: keep-alive")
      BY <1>9, <3>2, <3>3
    <3>5. Said(r, n + 1, "Content-Length") <=> r.body # <<>>
      <4>1. Contains(r.headers, "Content-Length") <=> r.body # <<>>
        BY <1>1 DEF Contains
      <4> QED BY <1>9, <4>1
    <3>6. Len(r.body) = 0 <=> r.body = <<>>
      BY <1>1
    <3> QED BY <3>2, <3>4, <3>5, <3>6
  <2>6. m_content_length = Len(r.body) /\ Len(r.body) \in Nat /\ BodyAt(r) \in Nat
    <3>1. BodyAt(r) \in Nat
      BY <1>0 DEF BodyAt
    <3> QED BY <1>0, <2>3, <3>1
  <2>7. (cgi = IF r.line = "POST" THEN 1 ELSE 0) /\ cgi' = cgi
    BY <2>2, <2>3
  <2>8. m_linger' = Contains(r.headers, "Connection: keep-alive")
    BY <2>2, <2>3
  <2>4. CASE m_content_length # 0
    <3>1. m_check_state' = "CONTENT" /\ pc' = "parse"
      BY <1>3, <2>2, <2>4 DEF Continue
    <3>2. Len(r.body) > 0
      BY <2>4, <2>6
    <3>3. m_start_line' = BodyAt(r) /\ m_check_index' = BodyAt(r) /\ BodyAt(r) \in Nat
      <4>1. BodyAt(r) \in Nat
        BY <1>0 DEF BodyAt
      <4> QED BY <1>3, <2>1, <4>1
    <3>4. /\ m_content_length' = Len(r.body) /\ cgi' = (IF r.line = "POST" THEN 1 ELSE 0)
          /\ m_linger' = Contains(r.headers, "Connection: keep-alive")
      BY <2>2, <2>3
    <3>5. AtBody(r)'
      <4>1. line_status' = "OK" /\ m_start_line' >= BodyAt(r)
        BY <1>3, <3>3
      <4> QED BY <2>3, <3>1, <3>2, <3>3, <3>4, <4>1 DEF AtBody
    <3> QED BY <3>1, <3>5
  <2>5. CASE m_content_length = 0
    <3>1. pc' = "do_request" /\ m_check_state' = "HEADER"
      BY <1>5, <1>6, <1>12, <1>1, <2>2, <2>5 DEF Return
    <3>2. m_string' = r.body
      <4>1. r.body = <<>> /\ m_string' = m_string
        BY <2>2, <2>3, <2>5
      <4> QED BY <4>1
    <3>3. (cgi' = 1) = (r.line = "POST")
      BY <2>7
    <3>4. Understood(r)'
      BY <2>3, <2>8, <3>2, <3>3 DEF Understood
    <3>5. m_read_index >= BodyAt(r) + Len(r.body)
      <4>1. BodyAt(r) + Len(r.body) = BodyAt(r)
        BY <2>5, <2>6
      <4>2. m_read_index >= BodyAt(r)
        BY <1>6, <2>1, <2>6
      <4> QED BY <4>1, <4>2
    <3> QED BY <3>1, <3>4, <3>5
  <2> QED BY <2>4, <2>5
<1>13. l = 0 \/ l \in 1..n \/ l = n + 1
  BY <1>1
<1> QED BY <1>10, <1>11, <1>12, <1>13

\* Where the body of the current request is in the buffer.
LEMMA BodyPlace ==
  ASSUME requests \in Conversations, m_read_index \in Nat,
         NEW k \in Current, NEW r, r = requests[k], r.eol = CRLF
  PROVE  /\ End(k) = base + BodyAt(r) + Len(r.body)
         /\ base \in Nat /\ End(k) \in Nat /\ BodyAt(r) \in Nat /\ Len(r.body) \in Nat
         /\ Len(r.headers) \in Nat
<1> DEFINE n == Len(r.headers)
           m == Len(r.body)
<1>1. End(k) = base + 3 * n + 5 + m /\ base \in Nat /\ n \in Nat /\ m \in Nat
  <2>1. requests[k].eol = CRLF
    OBVIOUS
  <2>2. /\ End(k) = base + 3 * Len(requests[k].headers) + 5 + Len(requests[k].body)
        /\ Len(requests[k].headers) \in Nat /\ Len(requests[k].body) \in Nat /\ base \in Nat
    BY <2>1, BufferLaidOut
  <2> QED BY <2>2
<1>2. BodyAt(r) = 3 * n + 5
  BY DEF BodyAt
<1> HIDE DEF n, m
<1>3. BodyAt(r) \in Nat
  BY <1>1, <1>2
<1>4. base + 3 * n + 5 + m = base + (3 * n + 5) + m
  BY <1>1
<1>5. End(k) = base + BodyAt(r) + m
  BY <1>1, <1>2, <1>4
<1>6. base + BodyAt(r) + m \in Nat
  BY <1>1, <1>3
<1> QED BY <1>1, <1>3, <1>5, <1>6 DEF n, m

\* ParserInv, one action after the other. What recv adds to the buffer makes a
\* body a cut one, or leaves it whole.
LEMMA ReceiveStep == ASSUME ParserInv, Receive, answers' = answers PROVE ParserInv'
<1>1. PICK n \in m_read_index..READ_BUFF_SIZE, fin \in BOOLEAN :
        /\ base + n <= Sent
        /\ n > m_read_index \/ fin
        /\ m_read_index' = n
        /\ cut' = (cut \/ InBody(n))
        /\ pc' = IF fin \/ n = READ_BUFF_SIZE THEN "dropped" ELSE "parse"
  BY DEF Receive
<1>2. /\ pc = "recv" /\ line_status' = "OK"
      /\ UNCHANGED <<requests, base, m_check_index, m_start_line, m_check_state, cgi,
                     m_content_length, m_linger, m_string>>
  BY DEF Receive, peerVars, fields
<1>3. /\ Parsing /\ ParserTypeOK /\ InSent /\ requests \in Conversations
      /\ m_read_index \in Nat /\ answers \in Seq(DOMAIN requests)
  BY <1>2, RequestsAssumption DEF ParserInv, ParserTypeOK
<1>4. ParserTypeOK' /\ InSent'
  BY <1>3, ParserTypeReceive
<1>5. Current' = Current
  BY <1>2, SameStreams
<1>6. pc' \in {"dropped", "parse"} /\ (pc' = "parse" => m_read_index' > 0)
  BY <1>1, <1>3
<1>7. ASSUME NEW k \in Current, NEW r, r = requests[k] PROVE ParsingOf(r)'
  <2>1. ParsingOf(r)
    BY <1>3, <1>7 DEF Parsing
  <2>2. CASE r.eol = CRLF
    <3>1. Whole(r) /\ (AtBody(r) \/ \E l \in 0..Len(r.headers) + 1 : AtLine(r, l))
      BY <2>1, <2>2 DEF ParsingOf
    <3>2. Whole(r)'
      <4> SUFFICES ASSUME ~cut', ~ n <= BodyAt(r) PROVE n >= BodyAt(r) + Len(r.body)
        BY <1>1 DEF Whole, BodyAt
      <4>1. ~InBody(n)
        BY <1>1
      <4>2. ~(base + n > End(k) - Len(r.body) /\ base + n < End(k))
        BY <1>7, <4>1 DEF InBody
      <4> DEFINE E == End(k)
                 B == BodyAt(r)
                 L == Len(r.body)
      <4>3. E = base + B + L /\ base \in Nat /\ B \in Nat /\ L \in Nat
        BY <1>3, <1>7, <2>2, BodyPlace
      <4>4. n \in Nat /\ ~(n <= B) /\ ~(base + n > E - L /\ base + n < E)
        BY <1>1, <1>3, <4>2
      <4> HIDE DEF E, B, L
      <4>5. n >= B + L
        BY <4>3, <4>4
      <4> QED BY <4>5 DEF B, L
    <3>3. ASSUME AtBody(r) PROVE AtBody(r)'
      <4>1. ~cut' => ~cut
        BY <1>1
      <4> QED BY <1>2, <3>3, <4>1 DEF AtBody, BodyAt
    <3>4. ASSUME NEW l \in 0..Len(r.headers) + 1, AtLine(r, l) PROVE AtLine(r, l)'
      BY <1>2, <3>4 DEF AtLine, Fields, Said
    <3> QED BY <2>2, <3>1, <3>2, <3>3, <3>4 DEF ParsingOf
  <2>3. CASE r.eol # CRLF
    BY <1>2, <2>1, <2>3 DEF ParsingOf, Untouched
  <2> QED BY <2>2, <2>3
<1>8. Parsing'
  <2>1. Current' = {} => Untouched'
    BY <1>2, <1>3, <1>5 DEF Parsing, Untouched
  <2>2. \A k \in Current' : \A r \in {requests'[k]} : ParsingOf(r)'
    BY <1>5, <1>7, <1>2
  <2>3. m_string' = <<>>
    BY <1>2, <1>3 DEF Parsing
  <2> QED BY <1>2, <2>1, <2>2, <2>3 DEF Parsing
<1>9. ~Busy' /\ pc' # "recv"
  BY <1>6 DEF Busy
<1>10. OutcomeRight' /\ StallsOnCutBodyOnly'
  BY <1>9 DEF Busy, OutcomeRight, StallsOnCutBodyOnly, NoRequestMeansIncomplete
<1>11. answers' \in Seq(DOMAIN requests')
  BY <1>2, <1>3
<1> QED BY <1>4, <1>6, <1>8, <1>9, <1>10, <1>11 DEF ParserInv

LEMMA LineStep == ASSUME ParserInv, ParseLine, answers' = answers PROVE ParserInv'
<1> DEFINE text == Text(m_start_line, parse_line.index)
<1>1. /\ pc = "parse" /\ parse_line.status = "OK" /\ m_check_state # "CONTENT"
      /\ line_status' = "OK"
      /\ UNCHANGED <<requests, base, cut, gone, m_read_index>>
      /\ IF m_check_state = "REQUESTLINE" THEN parse_request_line(text) ELSE parse_headers(text)
  BY DEF ParseLine, peerVars
<1>2. /\ Parsing /\ ParserTypeOK /\ InSent /\ requests \in Conversations
      /\ m_read_index \in Nat /\ m_read_index > 0 /\ answers \in Seq(DOMAIN requests)
      /\ m_check_index \in 0..m_read_index /\ base \in Nat
  <2>1. N \in 0..N
    BY EndFacts DEF ParserInv, ParserTypeOK
  <2> QED BY <1>1, <2>1, EndFacts, RequestsAssumption DEF ParserInv, ParserTypeOK
<1>3. ParserTypeOK' /\ InSent'
  BY <1>2, ParserTypeLine
<1>4. Current' = Current /\ \A k : End(k)' = End(k)
  BY <1>1, SameStreams
<1>5. answers' \in Seq(DOMAIN requests') /\ m_read_index' > 0 /\ m_string = <<>>
  BY <1>1, <1>2 DEF Parsing
<1>6. m_string' = <<>>
  BY <1>1, <1>5 DEF parse_request_line, parse_headers, fields
<1>7. CASE Current = {}
  <2>1. Untouched
    BY <1>2, <1>7 DEF Parsing
  <2>2. text \notin RequestLines
    <3>1. Buf(0) \notin RequestLines
      BY <1>2, <1>7, TornBuffer DEF InSent
    <3> QED BY <2>1, <3>1 DEF Text, Untouched, RequestLines
  <2>3. parse_request_line(text)
    BY <1>1, <2>1 DEF Untouched
  <2> HIDE DEF text
  <2>4. pc' = "respond" /\ m_check_state' = "REQUESTLINE" /\ m_linger' = FALSE
    BY <2>1, <2>2, <2>3 DEF parse_request_line, Return, RequestLines, Untouched
  <2>5. OutcomeRight' /\ StallsOnCutBodyOnly'
    BY <1>4, <1>7, <2>4 DEF OutcomeRight, IsPage, StallsOnCutBodyOnly, NoRequestMeansIncomplete
  <2> QED BY <1>3, <1>5, <2>4, <2>5 DEF ParserInv, Busy
<1>8. ASSUME NEW k \in Current, NEW r, r = requests[k] PROVE ParserInv'
  <2>1. ParsingOf(r)
    BY <1>2, <1>8 DEF Parsing
  <2>2. r.eol = CRLF
    <3> SUFFICES ASSUME r.eol # CRLF PROVE FALSE
      OBVIOUS
    <3>1. r.eol = <<"LF">>
      BY <1>2, <1>8, CurrentFacts, RequestType
    <3>2. m_check_index <= 1
      BY <2>1 DEF ParsingOf
    <3>3. parse_line.status # "OK"
      BY <1>2, <1>8, <3>1, <3>2, NoLineFound
    <3> QED BY <1>1, <3>3
  <2>3. PICK l \in 0..Len(r.headers) + 1 : AtLine(r, l)
    BY <1>1, <2>1, <2>2 DEF ParsingOf, AtBody
  <2>4. Whole(r)
    BY <2>1, <2>2 DEF ParsingOf
  <2>5. \/ pc' = "parse" /\ AtLine(r, l + 1)' /\ l <= Len(r.headers)
        \/ pc' = "parse" /\ AtBody(r)'
        \/ /\ pc' = "respond" /\ m_check_state' = "REQUESTLINE" /\ r.line = "malformed"
           /\ m_linger' = FALSE
        \/ /\ pc' = "do_request" /\ m_check_state' = "HEADER" /\ Understood(r)'
           /\ m_read_index >= BodyAt(r) + Len(r.body)
    BY <1>2, <1>5, <1>8, <2>2, <2>3, <2>4, LineTaken
  <2>6. Current' = {k} /\ requests' = requests
    BY <1>1, <1>2, <1>4, CurrentFacts
  <2>7. Len(r.headers) \in Nat /\ Len(r.body) \in Nat /\ End(k) = base + BodyAt(r) + Len(r.body)
    BY <1>2, <1>8, <2>2, BodyPlace
  <2>8. CASE pc' = "parse" /\ (AtBody(r)' \/ (AtLine(r, l + 1)' /\ l <= Len(r.headers)))
    <3>1. Whole(r)'
      BY <1>1, <2>4 DEF Whole, BodyAt
    <3>2. ParsingOf(r)'
      <4>1. l <= Len(r.headers) => l + 1 \in 0..Len(r.headers) + 1
        BY <2>7
      <4>2. AtBody(r)' \/ \E i \in 0..Len(r.headers) + 1 : AtLine(r, i)'
        BY <2>8, <4>1
      <4> QED BY <2>2, <3>1, <4>2 DEF ParsingOf
    <3>3. \A i \in Current' : \A q \in {requests'[i]} : ParsingOf(q)'
      BY <1>8, <2>6, <3>2
    <3>4. Current' # {}
      BY <2>6
    <3>5. Parsing'
      BY <1>1, <1>6, <3>3, <3>4 DEF Parsing
    <3>6. OutcomeRight' /\ StallsOnCutBodyOnly' /\ ~Busy'
      BY <2>8 DEF OutcomeRight, StallsOnCutBodyOnly, NoRequestMeansIncomplete, Busy
    <3> QED BY <1>3, <1>5, <3>5, <3>6 DEF ParserInv
  <2>9. CASE /\ pc' = "respond" /\ m_check_state' = "REQUESTLINE" /\ r.line = "malformed"
             /\ m_linger' = FALSE
    <3>1. \A i \in Current' : requests'[i].line = "malformed"
      BY <1>8, <2>6, <2>9
    <3>2. OutcomeRight' /\ StallsOnCutBodyOnly'
      BY <2>9, <3>1 DEF OutcomeRight, IsPage, StallsOnCutBodyOnly, NoRequestMeansIncomplete
    <3> QED BY <1>3, <1>5, <2>9, <3>2 DEF ParserInv, Busy
  <2>10. CASE /\ pc' = "do_request" /\ m_check_state' = "HEADER" /\ Understood(r)'
              /\ m_read_index >= BodyAt(r) + Len(r.body)
    <3>1. base' + m_read_index' >= End(k)'
      <4>1. BodyAt(r) \in Nat
        BY <2>7 DEF BodyAt
      <4>2. base + m_read_index >= End(k)
        BY <1>2, <2>7, <2>10, <4>1
      <4> QED BY <1>1, <1>4, <4>2
    <3>2. Complete'
      BY <2>6, <3>1 DEF Complete
    <3>3. IsPage'
      BY <2>10 DEF IsPage
    <3>4. /\ r.line # "malformed" /\ (cgi' = 1) = (r.line = "POST")
          /\ m_linger' = Contains(r.headers, "Connection: keep-alive")
          /\ cut' \/ m_string' = r.body
      BY <2>10 DEF Understood
    <3>5. OutcomeRight'
      <4>1. k \in Current' /\ requests'[k] = r
        BY <1>8, <2>6
      <4> QED BY <3>2, <3>3, <3>4, <4>1 DEF OutcomeRight
    <3>6. StallsOnCutBodyOnly'
      BY <2>10 DEF StallsOnCutBodyOnly, NoRequestMeansIncomplete
    <3> QED BY <1>3, <1>5, <2>10, <3>3, <3>5, <3>6 DEF ParserInv, Busy
  <2> QED BY <2>5, <2>8, <2>9, <2>10
<1> QED BY <1>7, <1>8

LEMMA ContentStep == ASSUME ParserInv, ParseContent, answers' = answers PROVE ParserInv'
<1> DEFINE index == IF line_status = "OK" THEN m_check_index ELSE parse_line.index
<1>1. /\ pc = "parse" /\ m_check_state = "CONTENT"
      /\ line_status = "OK" \/ parse_line.status = "OK"
      /\ UNCHANGED <<requests, base, cut, gone, m_read_index, m_check_state, cgi,
                     m_content_length, m_linger>>
      /\ m_check_index' = index /\ m_start_line' = index
  BY DEF ParseContent, peerVars
<1>2. \/ /\ EnoughBody(index) /\ line_status' = line_status /\ pc' = "do_request"
         /\ m_string' = [i \in 1..m_content_length |-> Buf(m_start_line + i - 1)]
      \/ ~EnoughBody(index) /\ line_status' = "OPEN" /\ m_string' = m_string /\ pc' = pc
  BY DEF ParseContent, Return, Continue
<1>3. /\ Parsing /\ ParserTypeOK /\ InSent /\ requests \in Conversations
      /\ m_read_index \in Nat /\ m_read_index > 0 /\ answers \in Seq(DOMAIN requests)
      /\ m_check_index \in 0..m_read_index /\ m_start_line \in 0..m_check_index
  BY <1>1, RequestsAssumption DEF ParserInv, ParserTypeOK
<1>4. ParserTypeOK' /\ InSent'
  BY <1>3, ParserTypeContent
<1>5. Current' = Current /\ \A k : End(k)' = End(k)
  BY <1>1, SameStreams
<1>6. answers' \in Seq(DOMAIN requests') /\ m_read_index' > 0 /\ m_string = <<>>
  BY <1>1, <1>3 DEF Parsing
<1>7. PICK k \in Current : ParsingOf(requests[k])
  BY <1>1, <1>3 DEF Parsing, Untouched
<1>8. PICK r : r = requests[k]
  OBVIOUS
<1>9. r.eol = CRLF /\ Whole(r) /\ AtBody(r)
  <2>1. ParsingOf(r)
    BY <1>7, <1>8
  <2> QED BY <1>1, <2>1 DEF ParsingOf, Untouched, AtLine
<1>10. /\ r \in Requests /\ Len(r.headers) \in Nat /\ Len(r.body) \in Nat /\ BodyAt(r) \in Nat
       /\ End(k) = base + BodyAt(r) + Len(r.body) /\ base \in Nat
       /\ Current' = {k} /\ requests' = requests /\ r.body \in Seq(BodySymbols)
  <2>1. r \in Requests /\ Current = {k}
    BY <1>3, <1>8, CurrentFacts
  <2>2. /\ End(k) = base + BodyAt(r) + Len(r.body) /\ base \in Nat /\ BodyAt(r) \in Nat
    BY <1>3, <1>8, <1>9, BodyPlace
  <2>3. Len(r.headers) \in Nat /\ Len(r.body) \in Nat /\ r.body \in Seq(BodySymbols)
    BY <2>1, RequestType
  <2> QED BY <1>1, <1>5, <2>1, <2>2, <2>3
<1>11. /\ m_content_length = Len(r.body) /\ Len(r.body) > 0
       /\ r.line \in {"GET", "POST"} /\ cgi = (IF r.line = "POST" THEN 1 ELSE 0)
       /\ m_linger = Contains(r.headers, "Connection: keep-alive")
       /\ m_start_line >= BodyAt(r)
       /\ ~cut => /\ m_start_line = BodyAt(r) /\ m_check_index = BodyAt(r)
                  /\ line_status # "OK" => m_read_index = BodyAt(r)
  BY <1>9 DEF AtBody
<1> DEFINE B == BodyAt(r)
           L == Len(r.body)
<1>12. /\ index \in Nat /\ B \in Nat /\ L \in Nat /\ L > 0 /\ index <= m_read_index /\ B <= index
       /\ m_read_index \in Nat
  <2>1. parse_line.index \in m_check_index..m_read_index
    BY <1>3, ParseLineInside
  <2>2. index \in m_check_index..m_read_index
    BY <1>3, <2>1
  <2>3. B \in Nat /\ L \in Nat /\ L > 0 /\ m_start_line >= B
    BY <1>10, <1>11
  <2> HIDE DEF B, L, index
  <2>4. B <= index /\ index \in Nat /\ index <= m_read_index
    BY <1>3, <2>2, <2>3
  <2> QED BY <1>3, <2>3, <2>4
\* A whole body is not looked at by parse_line.
<1>13. ~cut => line_status = "OK" /\ index = BodyAt(r)
  <2> SUFFICES ASSUME ~cut PROVE line_status = "OK"
    BY <1>11
  <2> SUFFICES ASSUME line_status # "OK" PROVE FALSE
    OBVIOUS
  <2>1. m_read_index = m_check_index
    BY <1>11
  <2>2. LineEnds = {}
    BY <1>3, <2>1 DEF LineEnds
  <2>3. parse_line.status = "OPEN"
    BY <2>2, ParseLineNone DEF LineAt
  <2> QED BY <1>1, <2>3
<1> HIDE DEF index
<1>14. CASE EnoughBody(index)
  <2>1. pc' = "do_request" /\ m_string' = [i \in 1..Len(r.body) |-> Buf(m_start_line + i - 1)]
    BY <1>2, <1>11, <1>14
  <2>2. m_read_index >= index + Len(r.body)
    BY <1>11, <1>14 DEF EnoughBody
  <2>3. base' + m_read_index' >= End(k)'
    <3>1. m_read_index >= index + L /\ End(k) = base + B + L /\ base \in Nat
      BY <1>10, <2>2
    <3> HIDE DEF B, L
    <3>2. base + m_read_index >= End(k)
      BY <1>12, <3>1
    <3> QED BY <1>1, <1>5, <3>2
  <2>4. ~cut => m_string' = r.body
    <3> SUFFICES ASSUME ~cut PROVE m_string' = r.body
      OBVIOUS
    <3>1. m_start_line = BodyAt(r) /\ index = BodyAt(r)
      BY <1>11, <1>13
    <3>2. ASSUME NEW i \in 1..Len(r.body) PROVE Buf(m_start_line + i - 1) = r.body[i]
      <4>1. /\ \A j \in 1..Len(r.body) :
                 3 * Len(r.headers) + 4 + j < m_read_index
                   => Buf(3 * Len(r.headers) + 4 + j) = r.body[j]
        BY <1>3, <1>8, <1>9, BufferLaidOut
      <4>2. m_start_line + i - 1 = 3 * Len(r.headers) + 4 + i
        BY <1>10, <3>1 DEF BodyAt
      <4>3. m_start_line + i - 1 < m_read_index
        <5>1. m_start_line = B /\ m_read_index >= B + L /\ i \in 1..L
          BY <2>2, <3>1
        <5> HIDE DEF B, L
        <5> QED BY <1>12, <5>1
      <4> QED BY <4>1, <4>2, <4>3
    <3>3. m_string' = [i \in 1..Len(r.body) |-> r.body[i]]
      BY <2>1, <3>2
    <3> QED BY <1>10, <3>3
  <2>5. Complete' /\ IsPage'
    BY <1>1, <1>10, <2>3 DEF Complete, IsPage
  <2>6. OutcomeRight'
    <3>1. k \in Current' /\ requests'[k] = r
      BY <1>8, <1>10
    <3>2. /\ r.line # "malformed" /\ (cgi' = 1) = (r.line = "POST")
          /\ m_linger' = Contains(r.headers, "Connection: keep-alive")
      <4>1. r.line # "malformed" /\ cgi' = IF r.line = "POST" THEN 1 ELSE 0
        BY <1>1, <1>11
      <4>2. (cgi' = 1) = (r.line = "POST")
        BY <4>1
      <4>3. m_linger' = Contains(r.headers, "Connection: keep-alive")
        BY <1>1, <1>11
      <4> QED BY <4>1, <4>2, <4>3
    <3>3. cut' \/ m_string' = r.body
      BY <1>1, <2>4
    <3> QED BY <2>5, <3>1, <3>2, <3>3 DEF OutcomeRight
  <2>7. StallsOnCutBodyOnly'
    BY <2>1 DEF StallsOnCutBodyOnly, NoRequestMeansIncomplete
  <2> QED BY <1>4, <1>6, <2>1, <2>5, <2>6, <2>7 DEF ParserInv, Busy
<1>15. CASE ~EnoughBody(index)
  <2>1. line_status' = "OPEN" /\ m_string' = m_string /\ pc' = "parse"
    BY <1>1, <1>2, <1>15
  <2>2. ~cut => m_read_index = BodyAt(r)
    <3> SUFFICES ASSUME ~cut PROVE m_read_index = BodyAt(r)
      OBVIOUS
    <3>1. index = BodyAt(r) /\ ~(m_read_index >= BodyAt(r) + Len(r.body))
      BY <1>11, <1>13, <1>15 DEF EnoughBody
    <3>2. m_read_index <= BodyAt(r)
      BY <1>9, <3>1 DEF Whole
    <3>3. m_read_index <= B /\ index = B
      BY <3>1, <3>2
    <3> HIDE DEF B
    <3>4. m_read_index = B
      BY <1>12, <3>3
    <3> QED BY <3>4 DEF B
  <2>3. m_start_line' >= BodyAt(r)
    <3> HIDE DEF B
    <3>1. m_start_line' >= B
      BY <1>1, <1>12
    <3> QED BY <3>1 DEF B
  <2>4. AtBody(r)'
    BY <1>1, <1>11, <1>13, <2>1, <2>2, <2>3 DEF AtBody, BodyAt
  <2>5. Whole(r)'
    BY <1>1, <1>9 DEF Whole, BodyAt
  <2>6. ParsingOf(r)'
    BY <1>9, <2>4, <2>5 DEF ParsingOf
  <2>7. Parsing'
    <3>1. \A i \in Current' : \A q \in {requests'[i]} : ParsingOf(q)'
      BY <1>8, <1>10, <2>6
    <3>2. Current' # {} /\ m_check_state' = "CONTENT" /\ m_string' = <<>>
      BY <1>1, <1>6, <1>10, <2>1
    <3> QED BY <3>1, <3>2 DEF Parsing
  <2>8. OutcomeRight' /\ StallsOnCutBodyOnly' /\ ~Busy'
    BY <2>1 DEF OutcomeRight, StallsOnCutBodyOnly, NoRequestMeansIncomplete, Busy
  <2> QED BY <1>4, <1>6, <2>7, <2>8 DEF ParserInv
<1> QED BY <1>14, <1>15

LEMMA EndParseStep == ASSUME ParserInv, EndParse, answers' = answers PROVE ParserInv'
<1>1. /\ pc = "parse" /\ ~(m_check_state = "CONTENT" /\ line_status = "OK")
      /\ parse_line.status # "OK" /\ pc' = "recv"
      /\ line_status' = parse_line.status /\ m_check_index' = parse_line.index
      /\ UNCHANGED <<requests, base, cut, gone, m_read_index, m_start_line, m_check_state,
                     cgi, m_content_length, m_linger, m_string>>
  BY DEF EndParse, peerVars, fields
<1>2. /\ Parsing /\ ParserTypeOK /\ InSent /\ requests \in Conversations
      /\ m_read_index \in Nat /\ m_read_index > 0 /\ answers \in Seq(DOMAIN requests)
      /\ m_check_index \in 0..m_read_index /\ m_start_line \in 0..m_check_index
  BY <1>1, RequestsAssumption DEF ParserInv, ParserTypeOK
<1>3. ParserTypeOK' /\ InSent'
  BY <1>2, ParserTypeEnd
<1>4. Current' = Current /\ \A k : End(k)' = End(k)
  BY <1>1, SameStreams
<1>5. answers' \in Seq(DOMAIN requests') /\ ~Busy' /\ pc' # "parse" /\ m_string' = <<>>
  BY <1>1, <1>2 DEF Parsing, Busy
\* What has come of a request is not all of it.
<1>6. ASSUME NEW k \in Current, NEW r, r = requests[k]
      PROVE  ParsingOf(r)' /\ (~cut /\ r.eol = CRLF => base + m_read_index < End(k))
  <2>1. ParsingOf(r)
    BY <1>2, <1>6 DEF Parsing
  <2>2. CASE r.eol # CRLF
    <3>1. r.eol = <<"LF">>
      BY <1>2, <1>6, <2>2, CurrentFacts, RequestType
    <3>2. m_check_index <= 1 /\ Untouched
      BY <2>1, <2>2 DEF ParsingOf
    <3>3. parse_line.index <= 1
      BY <1>2, <1>6, <3>1, <3>2, NoLineFound
    <3> QED BY <1>1, <2>2, <3>2, <3>3 DEF ParsingOf, Untouched
  <2>3. CASE r.eol = CRLF
    <3>1. /\ End(k) = base + BodyAt(r) + Len(r.body) /\ base \in Nat /\ BodyAt(r) \in Nat
          /\ Len(r.headers) \in Nat /\ Len(r.body) \in Nat
      BY <1>2, <1>6, <2>3, BodyPlace
    <3>2. Whole(r)'
      BY <1>1, <2>1, <2>3 DEF ParsingOf, Whole, BodyAt
    <3>3. CASE AtBody(r)
      <4>1. ~cut => m_read_index = BodyAt(r) /\ m_check_index = BodyAt(r)
        BY <1>1, <3>3 DEF AtBody
      <4>2. ~cut => parse_line.index = BodyAt(r)
        <5> SUFFICES ASSUME ~cut PROVE parse_line.index = BodyAt(r)
          OBVIOUS
        <5>1. LineEnds = {}
          BY <1>2, <4>1 DEF LineEnds
        <5> QED BY <4>1, <5>1, ParseLineNone DEF LineAt
      <4>3. AtBody(r)'
        BY <1>1, <3>3, <4>1, <4>2 DEF AtBody, BodyAt
      <4>4. ~cut => base + m_read_index < End(k)
        <5>1. Len(r.body) > 0
          BY <3>3 DEF AtBody
        <5> QED BY <3>1, <4>1, <5>1
      <4> QED BY <2>3, <3>2, <4>3, <4>4 DEF ParsingOf
    <3>4. ASSUME NEW l \in 0..Len(r.headers) + 1, AtLine(r, l)
          PROVE  AtLine(r, l)' /\ base + m_read_index < End(k)
      <4>1. IF LineEnd(r, l) <= m_read_index
            THEN parse_line = LineAt("OK", LineEnd(r, l))
            ELSE /\ parse_line.status = "OPEN" /\ parse_line.index <= m_read_index
                 /\ \/ parse_line.index = 3 * l
                    \/ parse_line.index = 3 * l + 1 /\ l <= Len(r.headers)
        BY <1>2, <1>6, <2>3, <3>4, LineFound
      <4>2. ~ LineEnd(r, l) <= m_read_index
        BY <1>1, <4>1 DEF LineAt
      <4>3. AtLine(r, l)'
        BY <1>1, <3>4, <4>1, <4>2 DEF AtLine, Fields, Said
      <4>4. LineEnd(r, l) <= BodyAt(r) /\ LineEnd(r, l) \in Nat
        BY <3>1 DEF LineEnd, BodyAt
      <4>5. base + m_read_index < End(k)
        BY <1>2, <3>1, <4>2, <4>4
      <4> QED BY <4>3, <4>5
    <3>5. AtBody(r) \/ \E l \in 0..Len(r.headers) + 1 : AtLine(r, l)
      BY <2>1, <2>3 DEF ParsingOf
    <3>6. CASE \E l \in 0..Len(r.headers) + 1 : AtLine(r, l)
      BY <2>3, <3>2, <3>4, <3>6 DEF ParsingOf
    <3> QED BY <3>3, <3>5, <3>6
  <2> QED BY <2>2, <2>3
<1>7. Parsing'
  <2>1. Current' = {} => Untouched'
    BY <1>1, <1>2, <1>4 DEF Parsing, Untouched
  <2>2. \A k \in Current' : \A r \in {requests'[k]} : ParsingOf(r)'
    BY <1>1, <1>4, <1>6
  <2> QED BY <1>5, <2>1, <2>2 DEF Parsing
<1>8. StallsOnCutBodyOnly'
  <2> SUFFICES ASSUME ~cut', \A k \in Current' : requests'[k].eol = CRLF, Complete' PROVE FALSE
    BY DEF StallsOnCutBodyOnly, NoRequestMeansIncomplete
  <2>1. PICK k \in Current : base' + m_read_index' >= End(k)'
    BY <1>4 DEF Complete
  <2>2. base + m_read_index >= End(k) /\ requests[k].eol = CRLF /\ ~cut
    BY <1>1, <1>4, <2>1
  <2>3. base + m_read_index < End(k)
    BY <1>6, <2>2
  <2>4. base \in Nat /\ End(k) \in Nat
    BY <1>2, CurrentFacts
  <2> QED BY <1>2, <2>2, <2>3, <2>4
<1>9. OutcomeRight'
  BY <1>5 DEF OutcomeRight, Busy
<1> QED BY <1>3, <1>5, <1>7, <1>8, <1>9 DEF ParserInv

-----------------------------------------------------------------------------
LEMMA ParserInvInit == Init => ParserInv
<1> SUFFICES ASSUME Init PROVE ParserInv
  OBVIOUS
<1>1. /\ requests \in Conversations /\ base = 0 /\ cut = FALSE /\ gone = FALSE
      /\ m_read_index = 0 /\ m_check_index = 0 /\ Untouched /\ m_string = <<>>
      /\ line_status = "OK" /\ pc = "recv" /\ answers = <<>>
      /\ m_start_line = 0 /\ cgi = 0 /\ m_content_length = 0 /\ m_check_state = "REQUESTLINE"
      /\ m_linger = FALSE
  BY DEF Init, ParserInit, Untouched
<1>2. Sent \in Nat
  <2>1. N \in 0..N
    BY <1>1, EndFacts
  <2> QED BY <1>1, <2>1, EndFacts
<1>3. ParserTypeOK
  <2>1. 0 \in 0..READ_BUFF_SIZE /\ 0 \in 0..0 /\ <<>> \in Seq(Symbols) /\ 0 \in 0..Sent
    BY <1>2, RequestsAssumption
  <2> QED BY <1>1, <2>1 DEF ParserTypeOK
<1>4. InSent
  BY <1>1, <1>2 DEF InSent
<1>5. Parsing
  BY <1>1, FreshParsing
<1>6. OutcomeRight /\ StallsOnCutBodyOnly /\ ~Busy
  BY <1>1 DEF OutcomeRight, StallsOnCutBodyOnly, NoRequestMeansIncomplete, Busy
<1> QED BY <1>1, <1>3, <1>4, <1>5, <1>6 DEF ParserInv

\* Steps that leave the parser alone.
LEMMA QuietStep ==
  ASSUME ParserInv, UNCHANGED parserVars, gone' \in BOOLEAN,
         pc' \notin {"recv", "parse"}, Busy' => Busy, answers' \in Seq(DOMAIN requests)
  PROVE  ParserInv'
<1>1. UNCHANGED <<requests, base, cut, m_read_index, m_check_index, m_start_line, m_check_state,
                  cgi, m_content_length, m_linger, m_string, line_status>>
  BY DEF parserVars, peerVars, indices, fields
<1>2. Sent' = Sent /\ Current' = Current /\ \A k : End(k)' = End(k)
  BY <1>1, SameStreams
<1>3. ParserTypeOK'
  BY <1>1, <1>2 DEF ParserInv, ParserTypeOK
<1>4. InSent'
  BY <1>1, <1>2 DEF ParserInv, InSent
<1>5. Complete' = Complete /\ IsPage' = IsPage
  BY <1>1, <1>2 DEF Complete, IsPage
<1>6. OutcomeRight'
  <2> SUFFICES ASSUME Busy' PROVE OutcomeRight'
    BY DEF OutcomeRight, Busy
  <2>1. OutcomeRight /\ Busy
    BY DEF ParserInv
  <2>2. IF ~IsPage THEN \A k \in Current : requests[k].line = "malformed"
        ELSE \E k \in Current :
           /\ Complete /\ requests[k].line # "malformed"
           /\ (cgi = 1) = (requests[k].line = "POST")
           /\ m_linger = Contains(requests[k].headers, "Connection: keep-alive")
           /\ cut \/ m_string = requests[k].body
    BY <2>1 DEF OutcomeRight, Busy
  <2>3. CASE ~IsPage
    BY <1>1, <1>2, <1>5, <2>2, <2>3 DEF OutcomeRight
  <2>4. CASE IsPage
    BY <1>1, <1>2, <1>5, <2>2, <2>4 DEF OutcomeRight
  <2> QED BY <2>3, <2>4
<1>7. StallsOnCutBodyOnly' /\ pc' # "parse"
  BY DEF StallsOnCutBodyOnly, NoRequestMeansIncomplete
<1>8. Busy' => m_read_index' > 0 /\ (~IsPage' => m_linger' = FALSE)
  BY <1>1, <1>5 DEF ParserInv
<1> QED BY <1>1, <1>3, <1>4, <1>6, <1>7, <1>8 DEF ParserInv

\* A page is the answer to one request.
LEMMA OneAnswer ==
  ASSUME ParserInv, Busy, Answered
  PROVE  /\ answers' \in Seq(DOMAIN requests)
         /\ IsPage => \E k \in Current : answers' = Append(answers, k)
         /\ ~IsPage => answers' = answers
<1>1. answers \in Seq(DOMAIN requests) /\ requests \in Conversations
  BY DEF ParserInv, ParserTypeOK
<1>2. CASE ~IsPage
  BY <1>1, <1>2 DEF Answered
<1>3. CASE IsPage
  <2>1. PICK k \in Current : TRUE
    BY <1>3 DEF ParserInv, OutcomeRight, Busy
  <2>2. Current = {k} /\ k \in DOMAIN requests
    BY <1>1, CurrentFacts, EndFacts
  <2>3. SetToSeq({k}) = <<k>>
    <3>1. Cardinality({k}) = 1
      BY FS_Singleton
    <3>2. [i \in 1..1 |-> k] \in [1..1 -> {k}] /\ IsInjective([i \in 1..1 |-> k])
      BY DEF IsInjective
    <3> DEFINE f == CHOOSE g \in [1..1 -> {k}] : IsInjective(g)
    <3>3. f \in [1..1 -> {k}]
      BY <3>2
    <3>4. SetToSeq({k}) = f
      BY <3>1 DEF SetToSeq
    <3> HIDE DEF f
    <3>5. f = <<k>>
      BY <3>3
    <3> QED BY <3>4, <3>5
  <2>4. answers' = answers \o <<k>>
    BY <1>3, <2>2, <2>3 DEF Answered
  <2>5. answers \o <<k>> = Append(answers, k) /\ Append(answers, k) \in Seq(DOMAIN requests)
    BY <1>1, <2>2
  <2> QED BY <1>3, <2>4, <2>5
<1> QED BY <1>2, <1>3

\* A response is out, and init() makes the buffer fresh for the next request.
LEMMA KeptStep == ASSUME ParserInv, Busy, KeepIt, Answered, init, pc' = "recv" PROVE ParserInv'
<1>1. /\ ParserTypeOK' /\ InSent' /\ m_read_index' = 0 /\ m_check_index' = 0 /\ Untouched'
      /\ m_string' = <<>> /\ UNCHANGED requests
  BY ParserTypeInit DEF ParserInv, init
<1>2. requests' \in Conversations
  BY <1>1 DEF ParserTypeOK
<1>3. ASSUME NEW k \in Current', NEW r, r = requests'[k] PROVE ParsingOf(r)'
  <2>1. r \in Requests
    <3>1. requests' \in Seq(Requests) /\ k \in DOMAIN requests'
      BY <1>2, RequestsAssumption DEF Current
    <3> QED BY <1>3, <3>1
  <2>2. Len(r.headers) \in Nat /\ Len(r.body) \in Nat
    BY <2>1, RequestType
  <2>3. Whole(r)'
    <3>1. 0 <= BodyAt(r)
      BY <2>2 DEF BodyAt
    <3> QED BY <1>1, <3>1 DEF Whole
  <2>4. Fields(r, 0)'
    <3>1. ~Said(r, 0, "Content-Length") /\ Said(r, 0, "Connection: keep-alive") = FALSE
      BY DEF Said
    <3>2. m_linger' = FALSE /\ cgi' = 0 /\ m_content_length' = 0
      BY <1>1 DEF Untouched
    <3>3. m_linger' = Said(r, 0, "Connection: keep-alive")
      BY <3>1, <3>2
    <3>4. ~(0 > 0)
      OBVIOUS
    <3> QED BY <3>1, <3>2, <3>3, <3>4 DEF Fields
  <2>5. AtLine(r, 0)'
    BY <1>1, <2>4 DEF AtLine, Untouched
  <2>6. 0 \in 0..Len(r.headers) + 1
    BY <2>2
  <2> QED BY <1>1, <2>3, <2>5, <2>6 DEF ParsingOf, Untouched
<1>4. Parsing'
  <2>1. \A k \in Current' : \A r \in {requests'[k]} : ParsingOf(r)'
    BY <1>3
  <2> QED BY <1>1, <2>1 DEF Parsing
<1>5. answers' \in Seq(DOMAIN requests')
  BY <1>1, OneAnswer
<1>6. OutcomeRight' /\ StallsOnCutBodyOnly' /\ ~Busy' /\ pc' # "parse"
  BY <1>1 DEF OutcomeRight, StallsOnCutBodyOnly, NoRequestMeansIncomplete, Busy
<1> QED BY <1>1, <1>4, <1>5, <1>6 DEF ParserInv

LEMMA ParserStep == ParserInv /\ [Next]_vars => ParserInv'
<1> SUFFICES ASSUME ParserInv, [Next]_vars PROVE ParserInv'
  OBVIOUS
<1>0. gone \in BOOLEAN /\ answers \in Seq(DOMAIN requests)
  BY DEF ParserInv, ParserTypeOK
<1>1. CASE Read
  BY <1>1, ReceiveStep DEF Read
<1>2. CASE Parse
  BY <1>2, LineStep, ContentStep, EndParseStep DEF Parse, process_read
<1>3. CASE DoRequest
  <2>1. UNCHANGED <<parserVars, gone, answers>> /\ pc = "do_request" /\ pc' = "respond"
    BY <1>3 DEF DoRequest, parseVars, W!do_request
  <2> QED BY <1>0, <2>1, QuietStep DEF Busy
<1>4. CASE Respond
  <2>1. UNCHANGED <<parserVars, gone, answers>> /\ pc = "respond" /\ pc' \in {"sending", "refused"}
    BY <1>4 DEF Respond, parseVars, W!process_write, W!WriteFile, W!ErrorPage, W!Refuse
  <2> QED BY <1>0, <2>1, QuietStep DEF Busy
<1>5. CASE Write
  <2>1. PICK n \in 0..Len(W!Offered) : WriteMore(n) \/ WriteLast(n) \/ WriteKept(n)
    BY <1>5 DEF Write
  <2>2. CASE WriteMore(n)
    <3>1. UNCHANGED <<parserVars, gone, answers, pc>> /\ pc = "sending"
      BY <2>2 DEF WriteMore, parseVars, W!WriteMore, W!Sends
    <3> QED BY <1>0, <3>1, QuietStep DEF Busy
  <2>3. CASE WriteLast(n)
    <3>1. UNCHANGED <<parserVars, gone>> /\ pc = "sending" /\ pc' = "closed" /\ Answered
      BY <2>3 DEF WriteLast, parseVars, W!WriteLast, W!Sends
    <3>2. answers' \in Seq(DOMAIN requests)
      BY <3>1, OneAnswer DEF Busy
    <3> QED BY <1>0, <3>1, <3>2, QuietStep DEF Busy
  <2>4. CASE WriteKept(n)
    <3>1. pc = "sending" /\ pc' = "recv" /\ Answered /\ KeepIt /\ init
      BY <2>4 DEF WriteKept, W!WriteKept, W!Sends
    <3> QED BY <3>1, KeptStep DEF Busy
  <2> QED BY <2>1, <2>2, <2>3, <2>4
<1>6. CASE WriteFails
  <2>1. UNCHANGED <<parserVars, answers>> /\ gone' = TRUE /\ pc' = "dropped"
    BY <1>6 DEF WriteFails, W!WriteFails
  <2> QED BY <1>0, <2>1, QuietStep DEF Busy
<1>7. CASE UNCHANGED vars
  <2>1. UNCHANGED <<parserVars, gone, pc, answers>>
    BY <1>7 DEF vars, parseVars
  <2>2. UNCHANGED <<requests, base, cut, m_read_index, m_check_index, m_start_line, m_check_state,
                    cgi, m_content_length, m_linger, m_string, line_status>>
    BY <2>1 DEF parserVars, peerVars, indices, fields
  <2>3. CASE pc \notin {"recv", "parse"}
    BY <1>0, <2>1, <2>3, QuietStep DEF Busy
  <2>4. CASE pc \in {"recv", "parse"}
    <3>1. Sent' = Sent /\ Current' = Current /\ \A k : End(k)' = End(k)
      BY <2>2, SameStreams
    <3>2. ParserTypeOK' /\ InSent'
      BY <2>1, <2>2, <3>1 DEF ParserInv, ParserTypeOK, InSent
    <3>3. ASSUME NEW k \in Current, NEW r \in {requests[k]} PROVE ParsingOf(r)'
      <4>1. ParsingOf(r)
        BY <2>4 DEF ParserInv, Parsing
      <4>2. CASE r.eol = CRLF
        <5>1. Whole(r)'
          BY <2>2, <4>1, <4>2 DEF ParsingOf, Whole
        <5>2. ASSUME AtBody(r) PROVE AtBody(r)'
          BY <2>2, <5>2 DEF AtBody
        <5>3. ASSUME NEW l \in 0..Len(r.headers) + 1, AtLine(r, l) PROVE AtLine(r, l)'
          BY <2>2, <5>3 DEF AtLine, Fields, Said
        <5> QED BY <4>1, <4>2, <5>1, <5>2, <5>3 DEF ParsingOf
      <4>3. CASE r.eol # CRLF
        BY <2>2, <4>1, <4>3 DEF ParsingOf, Untouched
      <4> QED BY <4>2, <4>3
    <3>4. Parsing'
      <4>1. Current' = {} => Untouched'
        BY <2>2, <2>4, <3>1 DEF ParserInv, Parsing, Untouched
      <4>2. \A k \in Current' : \A r \in {requests'[k]} : ParsingOf(r)'
        BY <2>2, <3>1, <3>3
      <4>3. m_string' = <<>> /\ (pc' = "parse" /\ line_status' # "OK" => m_check_state' = "CONTENT")
        BY <2>1, <2>2, <2>4 DEF ParserInv, Parsing
      <4> QED BY <4>1, <4>2, <4>3 DEF Parsing
    <3>5. OutcomeRight' /\ ~Busy'
      BY <2>1, <2>4 DEF OutcomeRight, Busy
    <3>6. StallsOnCutBodyOnly'
      BY <2>1, <2>2, <3>1 DEF ParserInv, StallsOnCutBodyOnly, NoRequestMeansIncomplete, Complete
    <3>7. (pc' = "parse" => m_read_index' > 0) /\ answers' \in Seq(DOMAIN requests')
      BY <1>0, <2>1, <2>2 DEF ParserInv
    <3> QED BY <3>2, <3>4, <3>5, <3>6, <3>7 DEF ParserInv
  <2> QED BY <2>3, <2>4
<1> QED BY <1>1, <1>2, <1>3, <1>4, <1>5, <1>6, <1>7 DEF Next, Work

\* What process_read makes of a request is what the request says - its method,
\* whether the connection is to be kept, its whole body - however it was cut
\* into arrivals, for every read buffer and every conversation; what do_request
\* and process_write do then, they do for that request.
THEOREM Outcome == Spec => []OutcomeRight
<1>1. ParserInv => OutcomeRight
  BY DEF ParserInv
<1> QED BY ParserInvInit, ParserStep, <1>1, PTL DEF Spec

\* process_read returns NO_REQUEST on a request that has arrived completely only
\* if its body was cut in two: a cut in the request line, in a header or
\* between a CR and its LF never leaves a complete request waiting.
THEOREM Stalls == Spec => []StallsOnCutBodyOnly
<1>1. ParserInv => StallsOnCutBodyOnly
  BY DEF ParserInv
<1> QED BY ParserInvInit, ParserStep, <1>1, PTL DEF Spec

-----------------------------------------------------------------------------
Places == [of : {"head", "file"}, at : Int]

\* A response of h bytes of header and f of the file, by place.
Laid(s, h, f) ==
  /\ s \in Seq(Places) /\ Len(s) = h + f
  /\ \A k \in 1..h : s[k] = W!Byte("head", k)
  /\ \A k \in 1..f : s[h + k] = W!Byte("file", k)

\* The first n elements of t are those of s.
Starts(s, t, n) ==
  /\ s \in Seq(Places) /\ Len(s) = n
  /\ \A k \in 1..n : s[k] = t[k]

\* s is the n elements of t that follow the first b.
Left(s, t, b, n) ==
  /\ s \in Seq(Places) /\ Len(s) = n
  /\ \A k \in 1..n : s[k] = t[b + k]

LEMMA BytesSeq ==
  ASSUME NEW of \in {"head", "file"}, NEW first \in Int, NEW n \in Nat
  PROVE  /\ W!Bytes(of, first, n) \in Seq(Places) /\ Len(W!Bytes(of, first, n)) = n
         /\ \A k \in 1..n : W!Bytes(of, first, n)[k] = W!Byte(of, first + k - 1)
         /\ first = 1 => \A k \in 1..n : W!Bytes(of, first, n)[k] = W!Byte(of, k)
BY DEF W!Bytes, W!Byte, Places

LEMMA Joined ==
  ASSUME NEW s \in Seq(Places), NEW t \in Seq(Places)
  PROVE  /\ s \o t \in Seq(Places) /\ Len(s \o t) = Len(s) + Len(t)
         /\ \A k \in 1..Len(s) : (s \o t)[k] = s[k]
         /\ \A k \in 1..Len(t) : (s \o t)[Len(s) + k] = t[k]
         /\ \A k \in Len(s) + 1..Len(s) + Len(t) : (s \o t)[k] = t[k - Len(s)]
OBVIOUS

LEMMA LaidInTwo ==
  ASSUME NEW h \in Nat, NEW f \in Nat,
         NEW s \in Seq(Places), Len(s) = h, \A k \in 1..h : s[k] = W!Byte("head", k),
         NEW t \in Seq(Places), Len(t) = f, \A k \in 1..f : t[k] = W!Byte("file", k)
  PROVE  Laid(s \o t, h, f)
<1>1. /\ s \o t \in Seq(Places) /\ Len(s \o t) = Len(s) + Len(t)
      /\ \A k \in 1..Len(s) : (s \o t)[k] = s[k]
      /\ \A k \in 1..Len(t) : (s \o t)[Len(s) + k] = t[k]
  BY Joined
<1> QED
  BY <1>1 DEF Laid

LEMMA StartsPrefix ==
  ASSUME NEW t \in Seq(Places), NEW n \in 0..Len(t), NEW s, Starts(s, t, n)
  PROVE  IsPrefix(s, t) /\ (n = Len(t) => s = t)
<1>1. SubSeq(s, 1, n) = SubSeq(t, 1, n)
  BY DEF Starts
<1>2. n = Len(t) => s = t
  BY DEF Starts
<1> QED
  BY <1>1, <1>2 DEF IsPrefix, Starts

LEMMA SamePrefix == ASSUME NEW t \in Seq(Places) PROVE IsPrefix(t, t)
BY DEF IsPrefix
\* What is left of a laid out response after b bytes, in its two pieces.
LEMMA LeftInHead ==
  ASSUME NEW h \in Nat, NEW f \in Nat, NEW b \in Nat, b < h, NEW r, Laid(r, h, f),
         NEW t \in Seq(Places), Len(t) = f, \A k \in 1..f : t[k] = W!Byte("file", k)
  PROVE  Left(W!Bytes("head", 1 + b, h - b) \o t, r, b, h + f - b)
<1> DEFINE s == W!Bytes("head", 1 + b, h - b)
<1>1. h - b \in Nat /\ 1 + b \in Int
  OBVIOUS
<1>2. /\ s \in Seq(Places) /\ Len(s) = h - b
      /\ \A k \in 1..h - b : s[k] = W!Byte("head", (1 + b) + k - 1)
  BY <1>1, BytesSeq
<1> HIDE DEF s
<1>3. /\ s \o t \in Seq(Places) /\ Len(s \o t) = h - b + f
      /\ \A k \in 1..h - b : (s \o t)[k] = s[k]
      /\ \A k \in h - b + 1..h - b + f : (s \o t)[k] = t[k - (h - b)]
  <2>1. /\ s \o t \in Seq(Places) /\ Len(s \o t) = Len(s) + Len(t)
        /\ \A k \in 1..Len(s) : (s \o t)[k] = s[k]
        /\ \A k \in Len(s) + 1..Len(s) + Len(t) : (s \o t)[k] = t[k - Len(s)]
    BY <1>2, Joined
  <2> QED
    BY <1>2, <2>1
<1>4. h - b + f = h + f - b
  BY <1>1
<1>5. ASSUME NEW k \in 1..h + f - b PROVE (s \o t)[k] = r[b + k]
  <2>1. CASE k <= h - b
    <3>1. k \in 1..h - b /\ b + k \in 1..h /\ (1 + b) + k - 1 = b + k
      BY <2>1
    <3>2. (s \o t)[k] = W!Byte("head", b + k)
      BY <1>2, <1>3, <3>1
    <3> QED
      BY <3>1, <3>2 DEF Laid
  <2>2. CASE k > h - b
    <3>1. k - (h - b) \in 1..f /\ h + (k - (h - b)) = b + k /\ k \in h - b + 1..h - b + f
      BY <2>2
    <3>2. (s \o t)[k] = W!Byte("file", k - (h - b))
      BY <1>3, <3>1
    <3>3. r[h + (k - (h - b))] = W!Byte("file", k - (h - b))
      BY <3>1 DEF Laid
    <3> QED
      BY <3>1, <3>2, <3>3
  <2>3. k <= h - b \/ k > h - b
    BY <1>1
  <2> QED
    BY <2>1, <2>2, <2>3
<1>6. Left(s \o t, r, b, h + f - b)
  BY <1>3, <1>4, <1>5 DEF Left
<1> QED
  BY <1>6 DEF s

LEMMA LeftInFile ==
  ASSUME NEW h \in Nat, NEW f \in Nat, NEW b \in Nat, b >= h, b < h + f, NEW r, Laid(r, h, f),
         NEW start \in Int
  PROVE  Left(W!Bytes("head", start, 0) \o W!Bytes("file", 1 + (b - h), h + f - b),
              r, b, h + f - b)
<1> DEFINE s == W!Bytes("head", start, 0)
           t == W!Bytes("file", 1 + (b - h), h + f - b)
<1>1. h + f - b \in Nat /\ 1 + (b - h) \in Int
  OBVIOUS
<1>2. s \in Seq(Places) /\ Len(s) = 0
  BY BytesSeq
<1>3. /\ t \in Seq(Places) /\ Len(t) = h + f - b
      /\ \A k \in 1..h + f - b : t[k] = W!Byte("file", (1 + (b - h)) + k - 1)
  BY <1>1, BytesSeq
<1> HIDE DEF s, t
<1>4. s \o t = t
  BY <1>2, <1>3
<1>5. ASSUME NEW k \in 1..h + f - b PROVE t[k] = r[b + k]
  <2>1. /\ (b - h) + k \in 1..f /\ (1 + (b - h)) + k - 1 = (b - h) + k
        /\ h + ((b - h) + k) = b + k
    OBVIOUS
  <2>2. r[h + ((b - h) + k)] = W!Byte("file", (b - h) + k)
    BY <2>1 DEF Laid
  <2> QED
    BY <1>3, <2>1, <2>2
<1>6. Left(s \o t, r, b, h + f - b)
  BY <1>3, <1>4, <1>5 DEF Left
<1> QED
  BY <1>6 DEF s, t
-----------------------------------------------------------------------------
(***************************************************************************)
(* Between two responses nothing is counted as sent. While a response is   *)
(* sent, and its header has been cut at most once, the iovecs hold what is *)
(* left of it.                                                             *)
(***************************************************************************)

FileLen == IF m_iv_count = 2 THEN st_size ELSE 0
Total == m_write_index + FileLen

Counts ==
  /\ st_size \in Nat /\ headCuts \in 0..2 /\ m_write_index \in Nat
  /\ bytes_have_send \in Int /\ response \in Seq(Places)
  /\ m_iv0 \in [start : Int, len : Int]

Fresh ==
  pc \in {"recv", "parse", "do_request", "respond"} => m_write_index = 0 /\ bytes_have_send = 0

IovecsLeft ==
  IF bytes_have_send < m_write_index
  THEN /\ m_iv0 = W!Iov(1 + bytes_have_send, m_write_index - bytes_have_send)
       /\ m_iv_count = 2 => m_iv1 = W!Iov(1, FileLen)
       /\ headCuts = 0 => bytes_have_send = 0
  ELSE /\ m_iv0.len = 0
       /\ m_iv_count = 2 =>
            m_iv1 = W!Iov(1 + (bytes_have_send - m_write_index), Total - bytes_have_send)

Underway ==
  /\ m_write_index > 0 /\ m_iv_count \in {1, 2} /\ Laid(response, m_write_index, FileLen)
  /\ headCuts < 2 =>
       /\ bytes_have_send \in Nat /\ bytes_have_send < Total
       /\ bytes_to_send = Total - bytes_have_send
       /\ IovecsLeft /\ Starts(delivered, response, bytes_have_send)

ResponseInv ==
  /\ Counts /\ Fresh
  /\ pc = "sending" => Underway
  /\ headCuts < 2 /\ pc # "sending" => IsPrefix(delivered, response)
  /\ headCuts < 2 /\ pc \in {"recv", "parse", "do_request", "respond", "closed"}
       => delivered = response

\* What writev is offered is the response from where the last one stopped.
LEMMA OfferedIsLeft ==
  ASSUME Counts, Underway, headCuts < 2
  PROVE  /\ Left(W!Offered, response, bytes_have_send, Total - bytes_have_send)
         /\ Total \in Nat /\ Total - bytes_have_send \in Nat
<1>1. /\ m_write_index \in Nat /\ FileLen \in Nat /\ bytes_have_send \in Nat
      /\ bytes_have_send < Total /\ Total = m_write_index + FileLen
      /\ m_iv_count \in {1, 2} /\ (m_iv_count = 1 => FileLen = 0)
      /\ Laid(response, m_write_index, FileLen) /\ IovecsLeft
  BY DEF Counts, Underway, FileLen, Total
<1>2. CASE bytes_have_send < m_write_index
  <2> DEFINE t == IF m_iv_count = 2 THEN W!Bytes("file", 1, FileLen) ELSE <<>>
  <2>1. m_iv0.start = 1 + bytes_have_send /\ m_iv0.len = m_write_index - bytes_have_send
    BY <1>1, <1>2 DEF IovecsLeft, W!Iov
  <2>2. m_iv_count = 2 => m_iv1.start = 1 /\ m_iv1.len = FileLen
    BY <1>1, <1>2 DEF IovecsLeft, W!Iov
  <2>3. W!Offered = W!Bytes("head", 1 + bytes_have_send, m_write_index - bytes_have_send) \o t
    BY <2>1, <2>2 DEF W!Offered
  <2>4. t \in Seq(Places) /\ Len(t) = FileLen /\ \A k \in 1..FileLen : t[k] = W!Byte("file", k)
    <3>1. CASE m_iv_count = 2
      <4> DEFINE u == W!Bytes("file", 1, FileLen)
      <4>1. /\ u \in Seq(Places) /\ Len(u) = FileLen
            /\ \A k \in 1..FileLen : u[k] = W!Byte("file", k)
        <5>1. FileLen \in Nat /\ 1 \in Int
          BY <1>1
        <5> HIDE DEF t
        <5> QED
          BY <5>1, BytesSeq
      <4>2. t = u
        BY <3>1
      <4> HIDE DEF t, u
      <4> QED
        BY <4>1, <4>2
    <3>2. CASE m_iv_count = 1
      BY <1>1, <3>2
    <3> QED
      BY <1>1, <3>1, <3>2
  <2> HIDE DEF t
  <2>5. Left(W!Offered, response, bytes_have_send, m_write_index + FileLen - bytes_have_send)
    BY <1>1, <1>2, <2>3, <2>4, LeftInHead
  <2> QED
    BY <1>1, <2>5
<1>3. CASE bytes_have_send >= m_write_index
  <2>1. m_iv_count = 2 /\ m_iv0.len = 0 /\ m_iv0.start \in Int
    BY <1>1, <1>3 DEF IovecsLeft, Counts
  <2>2. /\ m_iv1.start = 1 + (bytes_have_send - m_write_index)
        /\ m_iv1.len = Total - bytes_have_send
    BY <1>1, <1>3, <2>1 DEF IovecsLeft, W!Iov
  <2>3. W!Offered = W!Bytes("head", m_iv0.start, 0)
                      \o W!Bytes("file", 1 + (bytes_have_send - m_write_index),
                                 m_write_index + FileLen - bytes_have_send)
    BY <1>1, <2>1, <2>2 DEF W!Offered
  <2> QED
    BY <1>1, <1>3, <2>1, <2>3, LeftInFile
<1> QED
  BY <1>1, <1>2, <1>3

\* What writev takes of it follows what it took before.
LEMMA TakesOn ==
  ASSUME NEW r, NEW b \in Nat, NEW m \in Nat, NEW n \in 0..m,
         NEW d, Starts(d, r, b), NEW o, Left(o, r, b, m)
  PROVE  Starts(d \o SubSeq(o, 1, n), r, b + n)
<1> DEFINE p == SubSeq(o, 1, n)
<1>1. p \in Seq(Places) /\ Len(p) = n /\ \A k \in 1..n : p[k] = r[b + k]
  BY DEF Left
<1>2. d \in Seq(Places) /\ Len(d) = b /\ \A k \in 1..b : d[k] = r[k]
  BY DEF Starts
<1> HIDE DEF p
<1>3. /\ d \o p \in Seq(Places) /\ Len(d \o p) = b + n
      /\ \A k \in 1..b : (d \o p)[k] = d[k]
      /\ \A k \in 1..n : (d \o p)[b + k] = p[k]
  BY <1>1, <1>2, Joined
<1>4. ASSUME NEW k \in 1..b + n PROVE (d \o p)[k] = r[k]
  <2>1. CASE k <= b
    BY <1>2, <1>3, <2>1
  <2>2. CASE k > b
    <3>1. k - b \in 1..n /\ b + (k - b) = k
      BY <2>2
    <3> QED
      BY <1>1, <1>3, <3>1
  <2>3. k <= b \/ k > b
    OBVIOUS
  <2> QED
    BY <2>1, <2>2, <2>3
<1>5. Starts(d \o p, r, b + n)
  BY <1>3, <1>4 DEF Starts
<1> QED
  BY <1>5 DEF p

\* One writev. If it has not cut the header a second time, the peer has got the
\* response so far, and the iovecs hold the rest.
LEMMA SendsStep ==
  ASSUME Counts, Underway, NEW n \in 0..Len(W!Offered), W!Sends(n)
  PROVE  /\ headCuts' \in 0..2 /\ UNCHANGED <<response, st_size, m_iv_count>>
         /\ headCuts' < 2 =>
              /\ headCuts < 2 /\ bytes_have_send + n \in Nat /\ bytes_have_send + n <= Total
              /\ Starts(delivered', response, bytes_have_send + n)
              /\ UNCHANGED m_write_index /\ bytes_have_send' = bytes_have_send + n
                   => IovecsLeft'
<1>1. headCuts' \in 0..2 /\ UNCHANGED <<response, st_size, m_iv_count>>
  BY DEF W!Sends, Counts
<1> SUFFICES ASSUME headCuts' < 2
             PROVE  /\ headCuts < 2 /\ bytes_have_send + n \in Nat /\ bytes_have_send + n <= Total
                    /\ Starts(delivered', response, bytes_have_send + n)
                    /\ UNCHANGED m_write_index /\ bytes_have_send' = bytes_have_send + n
                         => IovecsLeft'
  BY <1>1
<1> DEFINE have == bytes_have_send + n
<1>2. headCuts < 2 /\ (have < m_write_index => headCuts = 0 /\ headCuts' = 1)
  BY DEF W!Sends, Counts
<1>3. /\ bytes_have_send \in Nat /\ bytes_have_send < Total /\ m_write_index \in Nat \ {0}
      /\ bytes_to_send = Total - bytes_have_send /\ IovecsLeft
      /\ Starts(delivered, response, bytes_have_send)
      /\ Left(W!Offered, response, bytes_have_send, Total - bytes_have_send)
      /\ Total \in Nat /\ Total - bytes_have_send \in Nat
  BY <1>2, OfferedIsLeft DEF Underway, Counts
<1>4. n \in 0..Total - bytes_have_send /\ n > 0
  <2>1. Len(W!Offered) = Total - bytes_have_send
    BY <1>3 DEF Left
  <2>2. Total - bytes_have_send > 0
    BY <1>3 DEF Counts, Total, FileLen
  <2>3. W!Offered # <<>>
    BY <2>1, <2>2
  <2> QED
    BY <2>1, <2>3 DEF W!Sends
<1>5. have \in Nat /\ have <= Total /\ Total \in Nat
  BY <1>3, <1>4
<1>6. Starts(delivered', response, have)
  <2>1. delivered' = delivered \o SubSeq(W!Offered, 1, n)
    BY DEF W!Sends
  <2> QED
    BY <1>3, <1>4, <2>1, TakesOn
<1>7. ASSUME UNCHANGED m_write_index, bytes_have_send' = have PROVE IovecsLeft'
  <2>1. /\ FileLen' = FileLen /\ Total' = Total
        /\ W!Advance(have, Total - have)
    <3>1. W!Advance(have, bytes_to_send - n)
      BY DEF W!Sends
    <3>2. bytes_to_send - n = Total - have
      BY <1>3, <1>4
    <3> QED
      BY <1>1, <1>7, <3>1, <3>2 DEF FileLen, Total
  <2>2. m_iv0.len \in Int /\ m_iv0.start \in Int /\ DOMAIN m_iv0 = {"start", "len"}
    BY DEF Counts
  <2>3. CASE have < m_write_index
    <3>1. headCuts = 0 /\ headCuts' = 1 /\ bytes_have_send = 0 /\ have = n
      BY <1>2, <1>3, <1>4, <2>3 DEF IovecsLeft
    <3>2. m_iv0.len = m_write_index /\ (m_iv_count = 2 => m_iv1 = W!Iov(1, FileLen))
      BY <1>3, <3>1 DEF IovecsLeft, W!Iov
    <3>3. m_iv0' = W!Iov(1 + have, m_iv0.len - have) /\ m_iv1' = m_iv1
      BY <1>3, <1>5, <2>1, <2>3, <3>2 DEF W!Advance
    <3> QED
      BY <1>1, <1>7, <2>1, <2>3, <3>1, <3>2, <3>3 DEF IovecsLeft
  <2>4. CASE have >= m_write_index
    <3>1. have >= m_iv0.len
      BY <1>3, <1>4, <2>2, <2>4 DEF IovecsLeft, W!Iov
    <3>2. /\ m_iv0' = [m_iv0 EXCEPT !.len = 0]
          /\ m_iv1' = W!Iov(1 + (have - m_write_index), Total - have)
      BY <2>1, <3>1 DEF W!Advance
    <3>3. m_iv0'.len = 0
      BY <2>2, <3>2
    <3>4. ~(have < m_write_index)
      BY <1>3, <1>5, <2>4
    <3> QED
      BY <1>1, <1>7, <2>1, <3>2, <3>3, <3>4 DEF IovecsLeft
  <2> QED
    BY <1>3, <1>5, <2>3, <2>4
<1> QED
  BY <1>2, <1>5, <1>6, <1>7
-----------------------------------------------------------------------------
LEMMA ResponseInit == Init => ResponseInv
<1> SUFFICES ASSUME Init PROVE ResponseInv
  OBVIOUS
<1>1. response = <<>> /\ delivered = <<>> /\ response \in Seq(Places)
  BY DEF Init, W!Init
<1>2. Counts /\ Fresh
  BY <1>1 DEF Init, W!Init, W!Iov, Counts, Fresh
<1>3. pc = "recv"
  BY DEF Init, ParserInit
<1> QED
  BY <1>1, <1>2, <1>3, SamePrefix DEF ResponseInv

\* While a request is read and parsed nothing is sent.
LEMMA ParseStep == ASSUME ResponseInv, Read \/ Parse PROVE ResponseInv'
<1>1. /\ pc \in {"recv", "parse"}
      /\ pc' \in {"recv", "parse", "do_request", "respond", "dropped"}
  BY DEF Read, Receive, Parse, process_read, ParseLine, ParseContent, EndParse, Return, Continue,
     parse_request_line, parse_headers
<1>2. UNCHANGED <<m_iv0, m_write_index, bytes_have_send, st_size>>
  BY DEF Read, Parse, writeVars, buffers
<1>3. \/ response' = response /\ delivered' = delivered /\ headCuts' = headCuts
      \/ response' = <<>> /\ delivered' = <<>> /\ headCuts' = 0
  <2>1. CASE Read
    BY <2>1 DEF Read
  <2>2. CASE Parse
    BY <2>2 DEF Parse, writeVars
  <2> QED
    BY <2>1, <2>2
<1>4. Counts' /\ Fresh'
  <2>1. Fresh'
    BY <1>1, <1>2 DEF ResponseInv, Fresh
  <2>2. response' \in Seq(Places) /\ headCuts' \in 0..2
    <3>1. <<>> \in Seq(Places) /\ 0 \in 0..2
      OBVIOUS
    <3> QED
      BY <1>3, <3>1 DEF ResponseInv, Counts
  <2> QED
    BY <1>2, <2>1, <2>2 DEF ResponseInv, Counts
<1>5. headCuts' < 2 => delivered' = response'
  BY <1>1, <1>3 DEF ResponseInv
<1> QED
  BY <1>1, <1>4, <1>5, SamePrefix DEF ResponseInv, Counts

LEMMA DoRequestStep == ASSUME ResponseInv, DoRequest PROVE ResponseInv'
<1>1. /\ pc = "do_request" /\ pc' = "respond"
      /\ UNCHANGED <<m_iv0, m_write_index, bytes_have_send, response, delivered, headCuts>>
  BY DEF DoRequest, W!do_request, W!iovs, W!counts, W!history
<1>2. st_size' \in Nat
  BY SizesAssumption DEF DoRequest, W!do_request, W!fileVars, W!Sizes, ResponseInv, Counts
<1> QED
  BY <1>1, <1>2 DEF ResponseInv, Counts, Fresh

\* What process_write lays out, and that all of it is left.
LEMMA RespondStep == ASSUME ResponseInv, Respond PROVE ResponseInv'
<1>1. PICK head \in HeadSizes :
        /\ m_write_index' = m_write_index + head
        /\ W!WriteFile(head) \/ W!ErrorPage(head) \/ W!Refuse
  BY DEF Respond, W!process_write
<1>2. /\ pc = "respond" /\ m_write_index = 0 /\ bytes_have_send = 0 /\ st_size \in Nat
      /\ head \in Nat \ {0} /\ m_write_index' = head
  BY <1>1, SizesAssumption DEF Respond, W!process_write, W!Sizes, ResponseInv, Fresh, Counts
<1>3. delivered' = <<>> /\ headCuts' = 0 /\ bytes_have_send' = 0 /\ st_size' = st_size
  <2>1. delivered' = <<>> /\ headCuts' = 0 /\ UNCHANGED <<bytes_have_send, W!fileVars>>
    BY DEF Respond, W!process_write
  <2> QED
    BY <1>2, <2>1 DEF W!fileVars
<1>4. Starts(delivered', response', 0)
  BY <1>3 DEF Starts
<1>5. /\ W!Header(head) \in Seq(Places) /\ Len(W!Header(head)) = head
      /\ \A k \in 1..head : W!Header(head)[k] = W!Byte("head", k)
  <2>1. W!Header(head) = W!Bytes("head", 1, head)
    BY <1>2 DEF W!Header
  <2>2. /\ W!Bytes("head", 1, head) \in Seq(Places) /\ Len(W!Bytes("head", 1, head)) = head
        /\ \A k \in 1..head : W!Bytes("head", 1, head)[k] = W!Byte("head", k)
    <3>1. head \in Nat /\ 1 \in Int
      BY <1>2
    <3> QED
      BY <3>1, BytesSeq
  <2> QED
    BY <2>1, <2>2
<1>6. CASE W!WriteFile(head)
  <2>1. /\ m_iv0' = W!Iov(1, head) /\ m_iv1' = W!Iov(1, st_size) /\ m_iv_count' = 2
        /\ bytes_to_send' = head + st_size /\ st_size > 0 /\ pc' = "sending"
        /\ response' = W!Header(head) \o W!Bytes("file", 1, st_size)
    BY <1>2, <1>6 DEF W!WriteFile, W!Promise
  <2>2. FileLen' = st_size /\ Total' = head + st_size
    BY <1>2, <1>3, <2>1 DEF FileLen, Total
  <2> DEFINE f == W!Bytes("file", 1, st_size)
  <2>3. /\ f \in Seq(Places) /\ Len(f) = st_size
        /\ \A k \in 1..st_size : f[k] = W!Byte("file", k)
    <3>1. st_size \in Nat /\ 1 \in Int
      BY <1>2
    <3> QED
      BY <3>1, BytesSeq
  <2>5. response' = W!Header(head) \o f
    BY <2>1
  <2> HIDE DEF f
  <2>6. Laid(W!Header(head) \o f, head, st_size)
    BY <1>2, <1>5, <2>3, LaidInTwo
  <2>7. Laid(response, m_write_index, FileLen)'
    BY <1>2, <2>2, <2>5, <2>6 DEF Laid
  <2>8. IovecsLeft'
    BY <1>2, <1>3, <2>1, <2>2 DEF IovecsLeft, W!Iov
  <2>9. Counts'
    <3>1. response' \in Seq(Places)
      BY <2>7 DEF Laid
    <3> QED
      BY <1>2, <1>3, <2>1, <3>1 DEF Counts, W!Iov
  <2> QED
    BY <1>2, <1>3, <1>4, <2>1, <2>2, <2>7, <2>8, <2>9 DEF ResponseInv, Fresh, Underway
<1>7. CASE W!ErrorPage(head)
  <2>1. /\ m_iv0' = W!Iov(1, head) /\ m_iv_count' = 1
        /\ bytes_to_send' = head /\ pc' = "sending" /\ response' = W!Header(head)
    BY <1>2, <1>7 DEF W!ErrorPage, W!Promise
  <2>2. FileLen' = 0 /\ Total' = head
    BY <1>2, <2>1 DEF FileLen, Total
  <2>3. Laid(response, m_write_index, FileLen)'
    BY <1>2, <1>5, <2>1, <2>2 DEF Laid
  <2>4. IovecsLeft'
    BY <1>2, <1>3, <2>1 DEF IovecsLeft, W!Iov
  <2>5. Counts'
    <3>1. response' \in Seq(Places)
      BY <2>3 DEF Laid
    <3> QED
      BY <1>2, <1>3, <2>1, <3>1 DEF Counts, W!Iov
  <2> QED
    BY <1>2, <1>3, <1>4, <2>1, <2>2, <2>3, <2>4, <2>5 DEF ResponseInv, Fresh, Underway
<1>8. CASE W!Refuse
  <2>1. response' = <<>> /\ pc' = "refused" /\ UNCHANGED m_iv0
    BY <1>8 DEF W!Refuse, W!iovs
  <2>2. Counts' /\ Fresh'
    BY <1>2, <1>3, <2>1 DEF ResponseInv, Counts, Fresh
  <2> QED
    BY <1>3, <2>1, <2>2, SamePrefix DEF ResponseInv, Counts
<1> QED
  BY <1>1, <1>6, <1>7, <1>8

\* A turn of write()'s loop.
LEMMA WriteStep == ASSUME ResponseInv, Write PROVE ResponseInv'
<1>1. PICK n \in 0..Len(W!Offered) : WriteMore(n) \/ WriteLast(n) \/ WriteKept(n)
  BY DEF Write
<1>2. W!Sends(n) /\ Counts /\ Underway /\ n \in Int
  BY <1>1 DEF WriteMore, WriteLast, WriteKept, W!WriteMore, W!WriteLast, W!WriteKept, W!Sends,
     ResponseInv
<1>3. /\ headCuts' \in 0..2 /\ UNCHANGED <<response, st_size, m_iv_count>>
      /\ headCuts' < 2 =>
           /\ headCuts < 2 /\ bytes_have_send + n \in Nat /\ bytes_have_send + n <= Total
           /\ Starts(delivered', response, bytes_have_send + n)
           /\ UNCHANGED m_write_index /\ bytes_have_send' = bytes_have_send + n
                => IovecsLeft'
  BY <1>2, SendsStep
<1>4. m_iv0' \in [start : Int, len : Int]
  <2>1. m_iv0 \in [start : Int, len : Int] /\ bytes_have_send + n \in Int
    BY <1>2 DEF Counts
  <2>2. \/ m_iv0' = [m_iv0 EXCEPT !.len = 0]
        \/ m_iv0' = W!Iov(1 + (bytes_have_send + n), m_iv0.len - (bytes_have_send + n))
    BY <1>2 DEF W!Sends, W!Advance
  <2> QED
    BY <2>1, <2>2 DEF W!Iov
<1>5. /\ response \in Seq(Places) /\ Len(response) = Total /\ Total \in Nat
      /\ headCuts < 2 => bytes_to_send = Total - bytes_have_send
      /\ bytes_have_send \in Int
  BY <1>2 DEF Underway, Laid, Total, FileLen, Counts
<1>6. CASE WriteMore(n)
  <2>1. /\ pc' = pc /\ pc = "sending" /\ m_write_index' = m_write_index
        /\ bytes_have_send' = bytes_have_send + n /\ bytes_to_send' = bytes_to_send - n
        /\ bytes_to_send - n > 0
    BY <1>2, <1>6 DEF WriteMore, W!WriteMore, W!Sends
  <2>2. Counts'
    BY <1>2, <1>3, <1>4, <2>1 DEF Counts
  <2>3. FileLen' = FileLen /\ Total' = Total
    BY <1>3, <2>1 DEF FileLen, Total
  <2>4. Laid(response, m_write_index, FileLen)'
    BY <1>2, <1>3, <2>1, <2>3 DEF Underway, Laid
  <2>5. headCuts' < 2 => Starts(delivered, response, bytes_have_send)'
    BY <1>3, <2>1
  <2>6. headCuts' < 2 =>
          /\ bytes_have_send' \in Nat /\ bytes_have_send' < Total
          /\ bytes_to_send' = Total - bytes_have_send'
    BY <1>2, <1>3, <1>5, <2>1
  <2>7. Underway'
    BY <1>2, <1>3, <2>1, <2>3, <2>4, <2>5, <2>6 DEF Underway
  <2> QED
    BY <2>1, <2>2, <2>7 DEF ResponseInv, Fresh
<1>7. CASE WriteLast(n) \/ WriteKept(n)
  <2>1. headCuts' < 2 => bytes_have_send + n = Total
    <3>1. bytes_to_send - n <= 0
      BY <1>7 DEF WriteLast, WriteKept, W!WriteLast, W!WriteKept
    <3> QED
      BY <1>2, <1>3, <1>5, <3>1
  <2>2. headCuts' < 2 => delivered' = response
    BY <1>3, <1>5, <2>1, StartsPrefix
  <2>3. pc' \in {"closed", "recv"} /\ Fresh'
    BY <1>7 DEF WriteLast, WriteKept, W!WriteLast, W!WriteKept, W!init, Fresh
  <2>4. Counts'
    BY <1>2, <1>3, <1>4, <1>7
    DEF WriteLast, WriteKept, W!WriteLast, W!WriteKept, W!init, Counts
  <2> QED
    BY <1>3, <1>5, <2>2, <2>3, <2>4, SamePrefix DEF ResponseInv
<1> QED
  BY <1>1, <1>6, <1>7

LEMMA FailStep == ASSUME ResponseInv, WriteFails PROVE ResponseInv'
<1>1. /\ pc = "sending" /\ pc' = "dropped"
      /\ UNCHANGED <<m_iv0, m_write_index, bytes_have_send, st_size, response, delivered, headCuts>>
  BY DEF WriteFails, W!WriteFails, W!iovs, W!counts, W!history
<1>2. Counts'
  BY <1>1 DEF ResponseInv, Counts
<1>3. headCuts < 2 => IsPrefix(delivered, response)
  <2> SUFFICES ASSUME headCuts < 2 PROVE IsPrefix(delivered, response)
    OBVIOUS
  <2>1. /\ Starts(delivered, response, bytes_have_send) /\ response \in Seq(Places)
        /\ bytes_have_send \in 0..Len(response)
    BY <1>1 DEF ResponseInv, Underway, Laid, Total, FileLen, Counts
  <2> QED
    BY <2>1, StartsPrefix
<1> QED
  BY <1>1, <1>2, <1>3 DEF ResponseInv, Fresh

LEMMA ResponseStep == ResponseInv /\ [Next]_vars => ResponseInv'
<1> SUFFICES ASSUME ResponseInv, [Next]_vars PROVE ResponseInv'
  OBVIOUS
<1>1. CASE UNCHANGED vars
  BY <1>1 DEF vars, writeVars, buffers, ResponseInv, Counts, Fresh, Underway, IovecsLeft, Total,
     FileLen
<1> QED
  BY <1>1, ParseStep, DoRequestStep, RespondStep, WriteStep, FailStep DEF Next, Work

\* "All the data sent is the response's header and the file" (http_conn.cpp
\* 334), for every size of both and every way in which writev takes them, on
\* every connection, kept or not: the peer has a part of the response from its
\* start, and the whole of it when write() has finished - provided that at
\* most one writev ends inside the header.
THEOREM ResponseIsSent == Spec => []SentIsResponse
<1>1. ResponseInv => SentIsResponse
  <2> SUFFICES ASSUME ResponseInv, headCuts < 2
               PROVE  /\ IsPrefix(delivered, response)
                      /\ pc \in {"recv", "closed"} => delivered = response
    BY DEF SentIsResponse, W!SentIsResponse, IsPrefix, W!IsPrefix
  <2>1. CASE pc = "sending"
    <3>1. /\ Starts(delivered, response, bytes_have_send) /\ response \in Seq(Places)
          /\ bytes_have_send \in 0..Len(response)
      BY <2>1 DEF ResponseInv, Underway, Laid, Total, FileLen, Counts
    <3> QED
      BY <2>1, <3>1, StartsPrefix
  <2>2. CASE pc # "sending"
    BY <2>2 DEF ResponseInv
  <2> QED
    BY <2>1, <2>2
<1> QED
  BY ResponseInit, ResponseStep, <1>1, PTL DEF Spec

\* The iovecs, and what writev is offered by them, which is never more than is
\* to be sent: the counts of write() stay natural numbers.
Iovs ==
  /\ m_iv0 \in [start : Nat, len : Nat] /\ m_iv1 \in [start : Int, len : Nat]
  /\ m_iv_count \in 0..2
Remaining == m_iv0.len + (IF m_iv_count = 2 THEN m_iv1.len ELSE 0)
WriterInv == W!TypeOK /\ (pc = "sending" => Remaining <= bytes_to_send)

LEMMA OfferedType ==
  ASSUME Iovs
  PROVE  W!Offered \in Seq(Places) /\ Len(W!Offered) = Remaining /\ Remaining \in Nat
<1>1. m_iv0.start \in Int /\ m_iv0.len \in Nat /\ m_iv1.start \in Int /\ m_iv1.len \in Nat
  BY DEF Iovs
<1> DEFINE s == W!Bytes("head", m_iv0.start, m_iv0.len)
           t == W!Bytes("file", m_iv1.start, m_iv1.len)
<1>2. s \in Seq(Places) /\ Len(s) = m_iv0.len /\ t \in Seq(Places) /\ Len(t) = m_iv1.len
  BY <1>1, BytesSeq
<1>3. W!Offered = s \o (IF m_iv_count = 2 THEN t ELSE <<>>)
  BY DEF W!Offered
<1> HIDE DEF s, t
<1>4. CASE m_iv_count = 2
  <2>1. s \o t \in Seq(Places) /\ Len(s \o t) = Len(s) + Len(t)
    BY <1>2, Joined
  <2> QED BY <1>1, <1>2, <1>3, <1>4, <2>1 DEF Remaining
<1>5. CASE m_iv_count # 2
  <2>1. s \o <<>> = s
    BY <1>2
  <2> QED BY <1>1, <1>2, <1>3, <1>5, <2>1 DEF Remaining
<1> QED BY <1>4, <1>5

LEMMA WriterUnpacked ==
  W!TypeOK <=>
    /\ Iovs
    /\ m_write_index \in Nat /\ bytes_to_send \in Nat /\ bytes_have_send \in Nat
    /\ st_size \in FileSizes \cup {0} /\ m_file_address \in BOOLEAN /\ mappings \in Nat
    /\ response \in Seq(Places) /\ delivered \in Seq(Places) /\ headCuts \in 0..2
BY DEF W!TypeOK, Iovs, Places

LEMMA WriterInvInit == Init => WriterInv
<1> SUFFICES ASSUME Init PROVE WriterInv
  OBVIOUS
<1>1. W!Init /\ pc = "recv"
  BY DEF Init, ParserInit
<1>2. Iovs
  BY <1>1 DEF W!Init, W!Iov, Iovs
<1>3. <<>> \in Seq(Places)
  OBVIOUS
<1> QED BY <1>1, <1>2, <1>3 DEF W!Init, WriterInv, W!TypeOK, Iovs, Places

\* One writev.
LEMMA WriterSends ==
  ASSUME WriterInv, NEW n \in 0..Len(W!Offered), W!Sends(n)
  PROVE  /\ m_iv0' \in [start : Nat, len : Nat] /\ m_iv1' \in [start : Int, len : Nat]
         /\ bytes_to_send - n \in Nat /\ bytes_have_send + n \in Nat
         /\ delivered' \in Seq(Places) /\ headCuts' \in 0..2
         /\ UNCHANGED <<m_iv_count, response, st_size>>
         /\ Remaining' <= bytes_to_send - n
<1>1. /\ pc = "sending" /\ Iovs /\ bytes_to_send \in Nat /\ bytes_have_send \in Nat
      /\ delivered \in Seq(Places) /\ headCuts \in 0..2 /\ m_write_index \in Nat
      /\ Remaining <= bytes_to_send
  BY WriterUnpacked DEF WriterInv, W!Sends
<1>2. W!Offered \in Seq(Places) /\ Len(W!Offered) = Remaining /\ Remaining \in Nat
  BY <1>1, OfferedType
<1>3. n \in Nat /\ n <= Remaining
  BY <1>2
<1> DEFINE have == bytes_have_send + n
           left == bytes_to_send - n
<1>4. left \in Nat /\ have \in Nat /\ n <= have
  BY <1>1, <1>2, <1>3
<1>5. /\ W!Advance(have, left) /\ UNCHANGED <<m_iv_count, response, st_size>>
      /\ headCuts' = IF have < m_write_index /\ headCuts < 2 THEN headCuts + 1 ELSE headCuts
      /\ delivered' = delivered \o SubSeq(W!Offered, 1, n)
  BY DEF W!Sends
<1>6. headCuts' \in 0..2
  BY <1>1, <1>5
<1>7. delivered' \in Seq(Places)
  <2> DEFINE p == SubSeq(W!Offered, 1, n)
  <2>1. p \in Seq(Places)
    BY <1>2
  <2> HIDE DEF p
  <2>2. delivered \o p \in Seq(Places)
    BY <1>1, <2>1, Joined
  <2> QED BY <1>5, <2>2 DEF p
<1> HIDE DEF have, left
<1>8. /\ m_iv0' \in [start : Nat, len : Nat] /\ m_iv1' \in [start : Int, len : Nat]
      /\ Remaining' <= left
  <2>1. m_iv0.len \in Nat /\ m_iv1.len \in Nat /\ m_iv_count' = m_iv_count
    BY <1>1, <1>5 DEF Iovs
  <2>2. CASE have >= m_iv0.len
    <3>1. m_iv0' = [m_iv0 EXCEPT !.len = 0] /\ m_iv1' = W!Iov(1 + (have - m_write_index), left)
      BY <1>5, <2>2 DEF W!Advance
    <3>2. m_iv0' \in [start : Nat, len : Nat] /\ m_iv0'.len = 0
      BY <1>1, <3>1 DEF Iovs
    <3>3. m_iv1' \in [start : Int, len : Nat] /\ m_iv1'.len = left
      BY <1>1, <1>4, <3>1 DEF W!Iov
    <3> QED BY <1>4, <3>2, <3>3 DEF Remaining
  <2>3. CASE ~(have >= m_iv0.len)
    <3>1. m_iv0' = W!Iov(1 + have, m_iv0.len - have) /\ m_iv1' = m_iv1
      BY <1>5, <2>3 DEF W!Advance
    <3>2. m_iv0.len - have \in Nat /\ 1 + have \in Nat
      BY <1>4, <2>1, <2>3
    <3>3. m_iv0' \in [start : Nat, len : Nat] /\ m_iv0'.len = m_iv0.len - have
      BY <3>1, <3>2 DEF W!Iov
    <3>4. m_iv1' \in [start : Int, len : Nat]
      BY <1>1, <3>1 DEF Iovs
    <3>5. Remaining' = Remaining - have
      BY <1>4, <2>1, <3>1, <3>3 DEF Remaining
    <3>6. Remaining - have <= left
      BY <1>1, <1>2, <1>3, <1>4 DEF left
    <3> QED BY <3>3, <3>4, <3>5, <3>6
  <2> QED BY <2>2, <2>3
<1> QED BY <1>4, <1>5, <1>6, <1>7, <1>8 DEF have, left

\* Two facts of arithmetic, for sums of primed variables.
LEMMA SumIsNat == \A a, b \in Nat : a + b \in Nat
OBVIOUS

LEMMA SumGrows == \A a, b, c \in Nat : b <= c => a + b <= a + c /\ a + c \in Nat
OBVIOUS

LEMMA WriterStep == WriterInv /\ [Next]_vars => WriterInv'
<1> SUFFICES ASSUME WriterInv, [Next]_vars PROVE WriterInv'
  OBVIOUS
<1>0. /\ Iovs
      /\ m_write_index \in Nat /\ bytes_to_send \in Nat /\ bytes_have_send \in Nat
      /\ st_size \in FileSizes \cup {0} /\ m_file_address \in BOOLEAN /\ mappings \in Nat
      /\ response \in Seq(Places) /\ delivered \in Seq(Places) /\ headCuts \in 0..2
      /\ FileSizes \subseteq Nat /\ HeadSizes \subseteq Nat \ {0}
  BY WriterUnpacked, SizesAssumption DEF WriterInv, W!Sizes
<1> DEFINE Unpacked ==
             /\ Iovs
             /\ m_write_index \in Nat /\ bytes_to_send \in Nat /\ bytes_have_send \in Nat
             /\ st_size \in FileSizes \cup {0} /\ m_file_address \in BOOLEAN /\ mappings \in Nat
             /\ response \in Seq(Places) /\ delivered \in Seq(Places) /\ headCuts \in 0..2
<1>a. Unpacked' => W!TypeOK'
  BY DEF W!TypeOK, Iovs, Places
<1>1. CASE Read \/ Parse
  <2>1. UNCHANGED buffers /\ pc' # "sending"
    BY <1>1 DEF Read, Receive, Parse, writeVars, process_read, ParseLine, ParseContent, EndParse,
       parse_request_line, parse_headers, Return, Continue
  <2>2. response' \in Seq(Places) /\ delivered' \in Seq(Places) /\ headCuts' \in 0..2
    <3>1. <<>> \in Seq(Places) /\ 0 \in 0..2
      OBVIOUS
    <3>2. CASE Read
      BY <3>1, <3>2 DEF Read
    <3>3. CASE Parse
      BY <1>0, <3>3 DEF Parse, writeVars
    <3> QED BY <1>1, <3>2, <3>3
  <2>3. Unpacked'
    BY <1>0, <2>1, <2>2 DEF buffers, Iovs
  <2> QED BY <1>a, <2>1, <2>3 DEF WriterInv
<1>2. CASE DoRequest
  <2>1. /\ UNCHANGED <<m_iv0, m_iv1, m_iv_count, m_write_index, bytes_to_send, bytes_have_send,
                       response, delivered, headCuts>>
        /\ pc' # "sending"
    BY <1>2 DEF DoRequest, W!do_request, W!iovs, W!counts, W!history
  <2>2. st_size' \in FileSizes \cup {0} /\ m_file_address' \in BOOLEAN /\ mappings' \in Nat
    <3>1. \/ UNCHANGED <<st_size, m_file_address, mappings>>
          \/ st_size' \in FileSizes /\ UNCHANGED <<m_file_address, mappings>>
          \/ /\ st_size' \in FileSizes /\ m_file_address' = TRUE
             /\ mappings' = IF st_size' > 0 THEN mappings + 1 ELSE mappings
      BY <1>2 DEF DoRequest, W!do_request, W!fileVars
    <3>2. CASE UNCHANGED <<st_size, m_file_address, mappings>>
      BY <1>0, <3>2
    <3>3. CASE st_size' \in FileSizes /\ UNCHANGED <<m_file_address, mappings>>
      BY <1>0, <3>3
    <3>4. CASE /\ st_size' \in FileSizes /\ m_file_address' = TRUE
               /\ mappings' = IF st_size' > 0 THEN mappings + 1 ELSE mappings
      <4>1. mappings' \in Nat
        BY <1>0, <3>4
      <4> QED BY <3>4, <4>1
    <3> QED BY <3>1, <3>2, <3>3, <3>4
  <2>3. Unpacked'
    BY <1>0, <2>1, <2>2 DEF Iovs
  <2> QED BY <1>a, <2>1, <2>3 DEF WriterInv
<1>3. CASE Respond
  <2>1. PICK head \in HeadSizes :
          /\ m_write_index' = m_write_index + head
          /\ W!WriteFile(head) \/ W!ErrorPage(head) \/ W!Refuse
    BY <1>3 DEF Respond, W!process_write
  <2>2. /\ delivered' = <<>> /\ headCuts' = 0
        /\ UNCHANGED <<bytes_have_send, st_size, m_file_address, mappings>>
    BY <1>3 DEF Respond, W!process_write, W!fileVars
  <2>3. head \in Nat /\ m_write_index' \in Nat /\ st_size \in Nat
    BY <1>0, <2>1
  <2>4. W!Header(head) \in Seq(Places)
    <3>1. m_write_index + 1 \in Int
      BY <1>0
    <3> QED BY <2>3, <3>1, BytesSeq DEF W!Header
  <2>5. /\ Iovs' /\ bytes_to_send' \in Nat /\ response' \in Seq(Places)
        /\ pc' = "sending" => Remaining' <= bytes_to_send'
    <3>1. CASE W!WriteFile(head)
      <4>1. /\ m_iv0' = W!Iov(1, m_write_index') /\ m_iv1' = W!Iov(1, st_size) /\ m_iv_count' = 2
            /\ bytes_to_send' = m_write_index' + st_size
            /\ response' = W!Header(head) \o W!Bytes("file", 1, st_size)
        BY <3>1 DEF W!WriteFile, W!Promise
      <4>2. W!Bytes("file", 1, st_size) \in Seq(Places)
        <5>1. 1 \in Int
          OBVIOUS
        <5> QED BY <2>3, <5>1, BytesSeq
      <4>3. response' \in Seq(Places)
        BY <2>4, <4>1, <4>2, Joined
      <4>4. /\ m_iv0' \in [start : Nat, len : Nat] /\ m_iv0'.len = m_write_index'
            /\ m_iv1' \in [start : Int, len : Nat] /\ m_iv1'.len = st_size
        BY <2>3, <4>1 DEF W!Iov
      <4>5. Iovs'
        BY <4>1, <4>4 DEF Iovs
      <4>6. Remaining' = m_write_index' + st_size
        BY <4>1, <4>4 DEF Remaining
      <4>7. bytes_to_send' = m_write_index' + st_size
        BY <4>1
      <4>8. bytes_to_send' \in Nat
        BY <2>3, <4>7, SumIsNat
      <4>9. Remaining' = bytes_to_send'
        BY <4>6, <4>7
      <4>10. Remaining' <= bytes_to_send'
        BY <4>8, <4>9
      <4> QED BY <4>3, <4>5, <4>8, <4>10
    <3>2. CASE W!ErrorPage(head)
      <4>1. /\ m_iv0' = W!Iov(1, m_write_index') /\ m_iv1' = m_iv1 /\ m_iv_count' = 1
            /\ bytes_to_send' = m_write_index' + 0 /\ response' = W!Header(head)
        BY <3>2 DEF W!ErrorPage, W!Promise
      <4>2. /\ m_iv0' \in [start : Nat, len : Nat] /\ m_iv0'.len = m_write_index'
            /\ m_iv1' \in [start : Int, len : Nat]
        BY <1>0, <2>3, <4>1 DEF Iovs, W!Iov
      <4>3. Iovs'
        BY <4>1, <4>2 DEF Iovs
      <4>4. Remaining' = m_write_index' + 0
        BY <4>1, <4>2 DEF Remaining
      <4>5. bytes_to_send' = m_write_index' + 0 /\ response' \in Seq(Places)
        BY <2>4, <4>1
      <4>6. bytes_to_send' \in Nat
        <5>1. bytes_to_send' = m_write_index' + 0
          BY <4>5
        <5> QED BY <2>3, <5>1, SumIsNat
      <4>7. Remaining' = bytes_to_send'
        BY <4>4, <4>5
      <4>8. Remaining' <= bytes_to_send'
        BY <4>6, <4>7
      <4> QED BY <4>3, <4>5, <4>6, <4>8
    <3>3. CASE W!Refuse
      <4>1. /\ response' = <<>> /\ pc' = "refused" 
            /\ UNCHANGED <<m_iv0, m_iv1, m_iv_count, bytes_to_send>>
        BY <3>3 DEF W!Refuse, W!iovs
      <4>2. <<>> \in Seq(Places)
        OBVIOUS
      <4> QED BY <1>0, <4>1, <4>2 DEF Iovs
    <3> QED BY <2>1, <3>1, <3>2, <3>3
  <2>6. Unpacked'
    <3>1. <<>> \in Seq(Places) /\ 0 \in 0..2
      OBVIOUS
    <3> QED BY <1>0, <2>2, <2>3, <2>5, <3>1
  <2> QED BY <1>a, <2>5, <2>6 DEF WriterInv
<1>4. CASE Write
  <2>1. PICK n \in 0..Len(W!Offered) : WriteMore(n) \/ WriteLast(n) \/ WriteKept(n)
    BY <1>4 DEF Write
  <2>2. W!Sends(n)
    BY <2>1 DEF WriteMore, WriteLast, WriteKept, W!WriteMore, W!WriteLast, W!WriteKept
  <2>3. /\ m_iv0' \in [start : Nat, len : Nat] /\ m_iv1' \in [start : Int, len : Nat]
        /\ bytes_to_send - n \in Nat /\ bytes_have_send + n \in Nat
        /\ delivered' \in Seq(Places) /\ headCuts' \in 0..2
        /\ UNCHANGED <<m_iv_count, response, st_size>>
        /\ Remaining' <= bytes_to_send - n
    BY <2>2, WriterSends
  <2>4. Iovs'
    BY <1>0, <2>3 DEF Iovs
  <2>5. CASE WriteMore(n)
    <3>1. /\ bytes_have_send' = bytes_have_send + n /\ bytes_to_send' = bytes_to_send - n
          /\ UNCHANGED <<m_write_index, m_file_address, mappings>>
      BY <2>5 DEF WriteMore, W!WriteMore
    <3>2. Unpacked'
      BY <1>0, <2>3, <2>4, <3>1
    <3> QED BY <1>a, <2>3, <3>1, <3>2 DEF WriterInv
  <2>6. CASE WriteLast(n)
    <3>1. /\ bytes_have_send' = bytes_have_send + n /\ bytes_to_send' = bytes_to_send - n
          /\ UNCHANGED <<m_write_index, m_file_address, mappings>> /\ pc' = "closed"
      BY <2>6 DEF WriteLast, W!WriteLast, W!unmap
    <3>2. Unpacked'
      BY <1>0, <2>3, <2>4, <3>1
    <3> QED BY <1>a, <3>1, <3>2 DEF WriterInv
  <2>7. CASE WriteKept(n)
    <3>1. /\ m_file_address' = FALSE /\ mappings' = mappings /\ pc' = "recv"
          /\ m_write_index' = 0 /\ bytes_to_send' = 0 /\ bytes_have_send' = 0
      BY <2>7 DEF WriteKept, W!WriteKept, W!init
    <3>2. Unpacked'
      BY <1>0, <2>3, <2>4, <3>1
    <3> QED BY <1>a, <3>1, <3>2 DEF WriterInv
  <2> QED BY <2>1, <2>5, <2>6, <2>7
<1>5. CASE WriteFails
  <2>1. /\ UNCHANGED <<m_iv0, m_iv1, m_iv_count, m_write_index, bytes_to_send, bytes_have_send,
                       st_size, m_file_address, mappings, response, delivered, headCuts>>
        /\ pc' = "dropped"
    BY <1>5 DEF WriteFails, W!WriteFails, W!iovs, W!counts, W!history, W!unmap
  <2>2. Unpacked'
    BY <1>0, <2>1 DEF Iovs
  <2> QED BY <1>a, <2>1, <2>2 DEF WriterInv
<1>6. CASE UNCHANGED vars
  <2>1. /\ UNCHANGED <<m_iv0, m_iv1, m_iv_count, m_write_index, bytes_to_send, bytes_have_send,
                       st_size, m_file_address, mappings, response, delivered, headCuts, pc>>
    BY <1>6 DEF vars, writeVars, buffers
  <2>2. Unpacked'
    BY <1>0, <2>1 DEF Iovs
  <2>3. pc' = "sending" => Remaining' <= bytes_to_send'
    BY <2>1 DEF WriterInv, Remaining
  <2> QED BY <1>a, <2>2, <2>3 DEF WriterInv
<1> QED BY <1>1, <1>2, <1>3, <1>4, <1>5, <1>6 DEF Next, Work

\* Where the connection is, and what process_read and do_request return.
Stages == {"recv", "parse", "do_request", "respond", "sending", "closed", "refused", "dropped"}
Codes == {"none", "NO_REQUEST", "GET_REQUEST"} \cup W!ErrorCodes \cup {"FILE_REQUEST", "NO_RESOURCE"}
ControlOK == pc \in Stages /\ ret \in Codes

LEMMA ControlStep == ControlOK /\ [Next]_vars => ControlOK'
<1> SUFFICES ASSUME ControlOK, [Next]_vars PROVE ControlOK'
  OBVIOUS
<1>1. CASE Read
  BY <1>1 DEF Read, Receive, ControlOK, Stages
<1>2. CASE Parse
  BY <1>2 DEF Parse, process_read, ParseLine, ParseContent, EndParse, parse_request_line,
     parse_headers, Return, Continue, ControlOK, Stages, Codes, W!ErrorCodes
<1>3. CASE DoRequest
  BY <1>3 DEF DoRequest, W!do_request, ControlOK, Stages, Codes, W!ErrorCodes
<1>4. CASE Respond
  BY <1>4 DEF Respond, W!process_write, W!WriteFile, W!ErrorPage, W!Refuse, ControlOK, Stages
<1>5. CASE Write
  BY <1>5 DEF Write, WriteMore, WriteLast, WriteKept, W!WriteMore, W!WriteLast, W!WriteKept,
     W!Sends, init, ControlOK, Stages
<1>6. CASE WriteFails
  BY <1>6 DEF WriteFails, W!WriteFails, ControlOK, Stages
<1>7. CASE UNCHANGED vars
  BY <1>7 DEF vars, ControlOK
<1> QED BY <1>1, <1>2, <1>3, <1>4, <1>5, <1>6, <1>7 DEF Next, Work

\* Every variable of a connection holds a value of its type: the indices into
\* m_read_buf are in order and inside it, and of what is to be sent never more
\* is taken than there is, so that bytes_to_send is not negative.
THEOREM TypeCorrect == Spec => []TypeOK
<1>1. Init => ControlOK
  BY DEF Init, ParserInit, ControlOK, Stages, Codes
<1>2. ParserInv /\ WriterInv /\ ControlOK => TypeOK
  BY DEF ParserInv, WriterInv, ControlOK, Stages, Codes, TypeOK
<1> QED
  BY ParserInvInit, ParserStep, WriterInvInit, WriterStep, ControlStep, <1>1, <1>2, PTL DEF Spec

-----------------------------------------------------------------------------
\* The requests that have come to their end by place x of the stream, and
\* those that have begun before it: the first so many.
UpTo(x) == {k \in DOMAIN requests : End(k) <= x}
Before(x) == {k \in DOMAIN requests : Begin(k) < x}

LEMMA FirstOnes == \A m \in Nat : Cardinality(1..m) = m
<1> SUFFICES ASSUME NEW m \in Nat PROVE Cardinality(1..m) = m
  OBVIOUS
<1>1. Cardinality(1..m) = IF 1 > m THEN 0 ELSE m - 1 + 1
  BY FS_Interval
<1> QED BY <1>1

LEMMA CountUpTo ==
  ASSUME requests \in Conversations, NEW x \in Nat
  PROVE  \E m \in 0..N : /\ Cardinality(UpTo(x)) = m /\ End(m) <= x
                         /\ m < N => x < End(m + 1)
<1>1. N \in Nat /\ DOMAIN requests = 1..N /\ End(0) = 0 /\ \A k \in 0..N : End(k) \in Nat
  BY EndFacts
<1> DEFINE T == {k \in 1..N + 1 : k = N + 1 \/ x < End(k)}
<1>2. T \in SUBSET Nat /\ N + 1 \in T
  BY <1>1
<1>3. \A k \in 1..N + 1 : k \in T <=> k = N + 1 \/ x < End(k)
  OBVIOUS
<1>a. T \subseteq 1..N + 1
  OBVIOUS
<1> HIDE DEF T
<1>4. PICK n \in T : \A j \in T : n <= j
  BY <1>2, Least
<1>5. n \in 1..N + 1 /\ n - 1 \in 0..N
  BY <1>1, <1>4, <1>a
<1> DEFINE m == n - 1
<1>6. ASSUME NEW j \in 1..N PROVE End(j) <= x <=> j <= m
  <2>1. j \in 0..N /\ j \in 1..N + 1 /\ j # N + 1 /\ End(j) \in Nat
    BY <1>1
  <2>2. CASE j <= m
    <3>1. ~ n <= j
      BY <1>5, <2>2
    <3>2. j \notin T
      BY <1>4, <3>1
    <3> QED BY <1>3, <2>1, <2>2, <3>2
  <2>3. CASE ~ j <= m
    <3>1. n <= j /\ n # N + 1 /\ n \in 0..N
      BY <1>1, <1>5, <2>3
    <3>2. x < End(n) /\ End(n) \in Nat
      BY <1>1, <1>3, <1>4, <1>5, <3>1
    <3>3. End(n) <= End(j)
      BY <2>1, <3>1, EndsGrow
    <3> QED BY <2>1, <2>3, <3>2, <3>3
  <2> QED BY <2>2, <2>3
<1>7. UpTo(x) = 1..m
  <2>1. \A j : j \in 1..m <=> j \in 1..N /\ j <= m
    BY <1>1, <1>5
  <2> QED BY <1>1, <1>6, <2>1 DEF UpTo
<1>8. Cardinality(UpTo(x)) = m
  BY <1>5, <1>7, FirstOnes
<1>9. End(m) <= x
  <2>1. m = 0 \/ m \in 1..N
    BY <1>1, <1>5
  <2> QED BY <1>1, <1>6, <2>1
<1>10. m < N => x < End(m + 1)
  <2>1. m + 1 = n /\ (m < N => n # N + 1)
    BY <1>1, <1>5
  <2> QED BY <1>3, <1>4, <1>5, <2>1
<1> QED BY <1>5, <1>8, <1>9, <1>10

LEMMA CountBefore ==
  ASSUME requests \in Conversations, NEW x \in Nat
  PROVE  \E m \in 0..N : /\ Cardinality(Before(x)) = m
                         /\ m > 0 => End(m - 1) < x
                         /\ m < N => x <= End(m)
<1>1. N \in Nat /\ DOMAIN requests = 1..N /\ End(0) = 0 /\ \A k \in 0..N : End(k) \in Nat
  BY EndFacts
<1> DEFINE T == {k \in 1..N + 1 : k = N + 1 \/ x <= End(k - 1)}
<1>2. T \in SUBSET Nat /\ N + 1 \in T
  BY <1>1
<1>3. \A k \in 1..N + 1 : k \in T <=> k = N + 1 \/ x <= End(k - 1)
  OBVIOUS
<1>a. T \subseteq 1..N + 1
  OBVIOUS
<1> HIDE DEF T
<1>4. PICK n \in T : \A j \in T : n <= j
  BY <1>2, Least
<1>5. n \in 1..N + 1 /\ n - 1 \in 0..N
  BY <1>1, <1>4, <1>a
<1> DEFINE m == n - 1
<1>6. ASSUME NEW j \in 1..N PROVE End(j - 1) < x <=> j <= m
  <2>1. j - 1 \in 0..N /\ j \in 1..N + 1 /\ j # N + 1 /\ End(j - 1) \in Nat
    BY <1>1
  <2>2. CASE j <= m
    <3>1. ~ n <= j
      BY <1>5, <2>2
    <3>2. j \notin T
      BY <1>4, <3>1
    <3> QED BY <1>3, <2>1, <2>2, <3>2
  <2>3. CASE ~ j <= m
    <3>1. n - 1 <= j - 1 /\ n # N + 1 /\ n - 1 \in 0..N
      BY <1>1, <1>5, <2>3
    <3>2. x <= End(n - 1) /\ End(n - 1) \in Nat
      BY <1>1, <1>3, <1>4, <1>5, <3>1
    <3>3. End(n - 1) <= End(j - 1)
      BY <2>1, <3>1, EndsGrow
    <3> QED BY <2>1, <2>3, <3>2, <3>3
  <2> QED BY <2>2, <2>3
<1>7. Before(x) = 1..m
  <2>1. \A j : j \in 1..m <=> j \in 1..N /\ j <= m
    BY <1>1, <1>5
  <2> QED BY <1>1, <1>6, <2>1 DEF Before, Begin
<1>8. Cardinality(Before(x)) = m
  BY <1>5, <1>7, FirstOnes
<1>9. m > 0 => End(m - 1) < x
  <2>1. m > 0 => m \in 1..N
    BY <1>1, <1>5
  <2> QED BY <1>5, <1>6, <2>1
<1>10. m < N => x <= End(m)
  <2>1. m < N => n # N + 1
    BY <1>1, <1>5
  <2> QED BY <1>3, <1>4, <1>5, <2>1
<1> QED BY <1>5, <1>8, <1>9, <1>10

\* At most one request has begun and not come to its end.
LEMMA OneUnderWay ==
  ASSUME requests \in Conversations, NEW x \in Nat
  PROVE  /\ Cardinality(UpTo(x)) \in 0..N /\ Cardinality(Before(x)) \in 0..N
         /\ Cardinality(UpTo(x)) <= Cardinality(Before(x))
         /\ Cardinality(Before(x)) <= Cardinality(UpTo(x)) + 1
<1>1. N \in Nat /\ \A k \in 0..N : End(k) \in Nat
  BY EndFacts
<1>2. PICK m \in 0..N :
        Cardinality(UpTo(x)) = m /\ End(m) <= x /\ (m < N => x < End(m + 1))
  BY CountUpTo
<1>3. PICK n \in 0..N :
        Cardinality(Before(x)) = n /\ (n > 0 => End(n - 1) < x) /\ (n < N => x <= End(n))
  BY CountBefore
<1>4. m <= n
  <2> SUFFICES ASSUME n < m PROVE FALSE
    BY <1>1
  <2>1. n < N /\ End(n) + 3 <= End(m) /\ End(n) \in Nat /\ End(m) \in Nat
    BY <1>1, EndsGrow
  <2> QED BY <1>2, <1>3, <2>1
<1>5. n <= m + 1
  <2> SUFFICES ASSUME m + 1 < n PROVE FALSE
    BY <1>1
  <2>1. m < N /\ n > 0 /\ m + 1 \in 0..N /\ n - 1 \in 0..N /\ m + 1 <= n - 1
    BY <1>1
  <2>2. End(m + 1) <= End(n - 1) /\ End(m + 1) \in Nat /\ End(n - 1) \in Nat
    BY <1>1, <2>1, EndsGrow
  <2> QED BY <1>2, <1>3, <2>1, <2>2
<1> QED BY <1>2, <1>3, <1>4, <1>5

LEMMA CountsGrow ==
  ASSUME requests \in Conversations, NEW x \in Nat, NEW y \in Nat, x <= y
  PROVE  /\ Cardinality(UpTo(x)) <= Cardinality(UpTo(y))
         /\ Cardinality(Before(x)) <= Cardinality(Before(y))
<1>1. N \in Nat /\ \A k \in 0..N : End(k) \in Nat
  BY EndFacts
<1>2. Cardinality(UpTo(x)) <= Cardinality(UpTo(y))
  <2>1. PICK m \in 0..N : Cardinality(UpTo(x)) = m /\ End(m) <= x
    BY CountUpTo
  <2>2. PICK n \in 0..N : Cardinality(UpTo(y)) = n /\ (n < N => y < End(n + 1))
    BY CountUpTo
  <2> SUFFICES ASSUME n < m PROVE FALSE
    BY <1>1, <2>1, <2>2
  <2>3. n < N /\ n + 1 \in 0..N /\ n + 1 <= m
    BY <1>1
  <2>4. End(n + 1) <= End(m) /\ End(n + 1) \in Nat /\ End(m) \in Nat
    BY <1>1, <2>3, EndsGrow
  <2> QED BY <2>1, <2>2, <2>3, <2>4
<1>3. Cardinality(Before(x)) <= Cardinality(Before(y))
  <2>1. PICK m \in 0..N : Cardinality(Before(x)) = m /\ (m > 0 => End(m - 1) < x)
    BY CountBefore
  <2>2. PICK n \in 0..N : Cardinality(Before(y)) = n /\ (n < N => y <= End(n))
    BY CountBefore
  <2> SUFFICES ASSUME n < m PROVE FALSE
    BY <1>1, <2>1, <2>2
  <2>3. n < N /\ m > 0 /\ m - 1 \in 0..N /\ n <= m - 1
    BY <1>1
  <2>4. End(n) <= End(m - 1) /\ End(n) \in Nat /\ End(m - 1) \in Nat
    BY <1>1, <2>3, EndsGrow
  <2> QED BY <2>1, <2>2, <2>3, <2>4
<1> QED BY <1>2, <1>3

\* The connection as an Exchange.
Asks == [k \in DOMAIN requests |-> Asked(requests[k])]
Torn == base # Begin(NextTurn)
Reply == IF pc # "sending" THEN "none" ELSE IF IsPage THEN "page" ELSE "error"
BegunCount == Cardinality(Begun)
ArrivedCount == Cardinality(Arrived)

LEMMA AskedFields ==
  ASSUME NEW r
  PROVE  /\ Asked(r).good = (r.line # "malformed")
         /\ Asked(r).keep = Contains(r.headers, "Connection: keep-alive")
BY Zenon DEF Asked

LEMMA Counted ==
  /\ ArrivedCount = Cardinality(UpTo(Received))
  /\ BegunCount = Cardinality(Before(Received))
  /\ NextTurn = Cardinality(UpTo(base)) + 1
BY DEF ArrivedCount, BegunCount, NextTurn, UpTo, Before, Arrived, Begun

\* What is fixed as long as the peer's requests and the buffer's place in
\* them are.
LEMMA SameTurn ==
  ASSUME requests' = requests, base' = base
  PROVE  Asks' = Asks /\ NextTurn' = NextTurn /\ Torn' = Torn
<1>1. Asks' = Asks
  BY DEF Asks, Asked
<1>2. NextTurn' = NextTurn
  BY DEF NextTurn, End
<1>3. Torn' = Torn
  BY <1>2 DEF Torn, Begin, End
<1> QED BY <1>1, <1>2, <1>3

LEMMA SameCounts ==
  ASSUME requests' = requests, Received' = Received
  PROVE  ArrivedCount' = ArrivedCount /\ BegunCount' = BegunCount
BY DEF ArrivedCount, BegunCount, Arrived, Begun, Begin, End

LEMMA PlacesType ==
  ASSUME ParserInv
  PROVE  /\ requests \in Conversations /\ base \in Nat /\ m_read_index \in Nat
         /\ Received \in Nat /\ Received = base + m_read_index /\ Received <= Sent
         /\ N \in Nat /\ Sent = End(N) /\ Sent \in Nat /\ DOMAIN requests = 1..N
<1>1. /\ requests \in Conversations /\ base \in 0..Sent /\ m_read_index \in 0..READ_BUFF_SIZE
      /\ base + m_read_index <= Sent /\ READ_BUFF_SIZE \in Nat
  BY RequestsAssumption DEF ParserInv, ParserTypeOK, InSent
<1>2. N \in Nat /\ Sent = End(N) /\ DOMAIN requests = 1..N /\ \A k \in 0..N : End(k) \in Nat
  BY <1>1, EndFacts
<1>3. Sent \in Nat
  BY <1>2
<1> QED BY <1>1, <1>2, <1>3 DEF Received

\* The request to be answered is the one the buffer begins with, if it begins
\* with one.
LEMMA TurnFacts ==
  ASSUME ParserInv
  PROVE  /\ NextTurn \in 1..N + 1
         /\ NextTurn <= N \/ base = Sent
         /\ Begin(NextTurn) <= base /\ Begin(NextTurn) \in Nat
         /\ \A k \in Current : NextTurn = k /\ ~Torn
         /\ NextTurn <= N /\ ~Torn => NextTurn \in Current
<1>1. /\ requests \in Conversations /\ base \in Nat /\ N \in Nat /\ Sent = End(N)
      /\ DOMAIN requests = 1..N /\ base \in 0..Sent
  BY PlacesType DEF ParserInv, ParserTypeOK
<1>2. PICK m \in 0..N : /\ Cardinality(UpTo(base)) = m /\ End(m) <= base
                        /\ m < N => base < End(m + 1)
  BY <1>1, CountUpTo
<1>3. NextTurn = m + 1 /\ Begin(NextTurn) = End(m) /\ End(m) \in Nat
  <2>1. NextTurn = m + 1 /\ (m + 1) - 1 = m
    BY <1>1, <1>2, Counted
  <2>2. End(m) \in Nat
    BY <1>1, EndFacts
  <2> QED BY <2>1, <2>2 DEF Begin
<1>4. NextTurn <= N \/ base = Sent
  <2>1. m < N \/ m = N
    BY <1>1
  <2>2. m = N => base = Sent
    BY <1>1, <1>2, <1>3
  <2> QED BY <1>1, <1>3, <2>1, <2>2
<1>5. ASSUME NEW k \in Current PROVE NextTurn = k /\ ~Torn
  <2>1. k \in 1..N /\ base = End(k - 1) /\ k - 1 \in 0..N /\ k \in 0..N
    <3>1. k \in 1..N /\ base = Begin(k)
      BY <1>1, CurrentFacts
    <3> QED BY <1>1, <3>1 DEF Begin
  <2>2. ~ k - 1 < m
    <3> SUFFICES ASSUME k - 1 < m PROVE FALSE
      OBVIOUS
    <3>1. End(k - 1) + 3 <= End(m)
      BY <1>1, <2>1, EndsGrow
    <3> QED BY <1>1, <1>2, <1>3, <2>1, <3>1
  <2>3. ~ m < k - 1
    <3> SUFFICES ASSUME m < k - 1 PROVE FALSE
      OBVIOUS
    <3>1. m < N /\ m + 1 \in 0..N /\ m + 1 <= k - 1
      BY <1>1, <2>1
    <3>2. End(m + 1) <= End(k - 1) /\ End(m + 1) \in Nat
      BY <1>1, <2>1, <3>1, EndsGrow, EndFacts
    <3> QED BY <1>1, <1>2, <2>1, <3>1, <3>2
  <2>4. k - 1 = m
    BY <1>1, <2>1, <2>2, <2>3
  <2>5. k = m + 1
    BY <1>1, <2>1, <2>4
  <2> QED BY <1>3, <2>1, <2>4, <2>5 DEF Torn
<1>6. NextTurn <= N /\ ~Torn => NextTurn \in Current
  <2> SUFFICES ASSUME NextTurn <= N, ~Torn PROVE NextTurn \in Current
    OBVIOUS
  <2>1. NextTurn \in 1..N /\ Begin(NextTurn) = base
    BY <1>1, <1>3 DEF Torn
  <2> QED BY <1>1, <2>1 DEF Current
<1>7. NextTurn \in 1..N + 1
  BY <1>1, <1>3
<1> QED BY <1>2, <1>3, <1>4, <1>5, <1>6, <1>7

\* A page answers a request that has arrived.
LEMMA PageDue ==
  ASSUME ParserInv, Busy, IsPage
  PROVE  /\ ~Torn /\ NextTurn <= ArrivedCount /\ NextTurn \in Current
         /\ Asks[NextTurn].good = TRUE /\ Asks[NextTurn].keep = m_linger
<1>1. PICK k \in Current :
        /\ Complete /\ requests[k].line # "malformed"
        /\ m_linger = Contains(requests[k].headers, "Connection: keep-alive")
  BY DEF ParserInv, OutcomeRight, Busy
<1>2. NextTurn = k /\ ~Torn
  BY TurnFacts
<1>3. requests \in Conversations /\ Received \in Nat /\ N \in Nat /\ DOMAIN requests = 1..N
      /\ Received = base + m_read_index
  BY PlacesType
<1>4. k \in 1..N /\ End(k) \in Nat
  BY <1>3, CurrentFacts
<1>5. End(k) <= Received
  <2>1. PICK j \in Current : base + m_read_index >= End(j)
    BY <1>1 DEF Complete
  <2>2. j = k
    BY <1>3, OneCurrent
  <2> QED BY <1>3, <1>4, <2>1, <2>2
<1>6. k <= ArrivedCount
  <2>1. PICK m \in 0..N : Cardinality(UpTo(Received)) = m /\ (m < N => Received < End(m + 1))
    BY <1>3, CountUpTo
  <2> SUFFICES ASSUME m < k PROVE FALSE
    BY <1>3, <1>4, <2>1, Counted
  <2>2. m < N /\ m + 1 \in 0..N /\ m + 1 <= k /\ k \in 0..N
    BY <1>3, <1>4
  <2>3. End(m + 1) <= End(k) /\ End(m + 1) \in Nat
    BY <1>3, <2>2, EndsGrow, EndFacts
  <2> QED BY <1>3, <1>4, <1>5, <2>1, <2>2, <2>3
<1>7. Asks[k] = Asked(requests[k])
  BY <1>3, <1>4 DEF Asks
<1>8. /\ Asks[k].good = (requests[k].line # "malformed")
      /\ Asks[k].keep = Contains(requests[k].headers, "Connection: keep-alive")
  BY <1>7, AskedFields
<1> QED BY <1>1, <1>2, <1>6, <1>8

\* An error page answers what has begun and cannot be understood.
LEMMA ErrorDue ==
  ASSUME ParserInv, Busy, ~IsPage
  PROVE  NextTurn <= BegunCount /\ (Torn \/ ~Asks[NextTurn].good)
<1>1. m_read_index > 0 /\ \A k \in Current : requests[k].line = "malformed"
  BY DEF ParserInv, OutcomeRight, Busy
<1>2. /\ requests \in Conversations /\ Received \in Nat /\ N \in Nat /\ DOMAIN requests = 1..N
      /\ Received = base + m_read_index /\ base \in Nat /\ m_read_index \in Nat
      /\ Received <= Sent /\ Sent \in Nat
  BY PlacesType
<1>3. NextTurn <= N /\ NextTurn \in 1..N
  <2>1. base # Sent
    BY <1>1, <1>2
  <2>2. NextTurn \in 1..N + 1 /\ NextTurn <= N
    BY <2>1, TurnFacts
  <2> QED BY <1>2, <2>2
<1>4. Begin(NextTurn) < Received
  <2>1. Begin(NextTurn) <= base /\ Begin(NextTurn) \in Nat
    BY TurnFacts
  <2> QED BY <1>1, <1>2, <2>1
<1>5. NextTurn <= BegunCount
  <2>1. PICK m \in 0..N : Cardinality(Before(Received)) = m /\ (m < N => Received <= End(m))
    BY <1>2, CountBefore
  <2> SUFFICES ASSUME m < NextTurn PROVE FALSE
    BY <1>2, <1>3, <2>1, Counted
  <2>2. m < N /\ NextTurn - 1 \in 0..N /\ m <= NextTurn - 1
    BY <1>2, <1>3
  <2>3. End(m) <= End(NextTurn - 1) /\ End(m) \in Nat /\ End(NextTurn - 1) \in Nat
    BY <1>2, <2>2, EndsGrow, EndFacts
  <2>4. End(NextTurn - 1) < Received
    BY <1>4 DEF Begin
  <2> QED BY <1>2, <2>1, <2>2, <2>3, <2>4
<1>6. Torn \/ ~Asks[NextTurn].good
  <2> SUFFICES ASSUME ~Torn PROVE ~Asks[NextTurn].good
    OBVIOUS
  <2>1. NextTurn \in Current
    BY <1>3, TurnFacts
  <2>2. Asks[NextTurn] = Asked(requests[NextTurn]) /\ requests[NextTurn].line = "malformed"
    BY <1>1, <1>2, <1>3, <2>1 DEF Asks
  <2>3. Asks[NextTurn].good = (requests[NextTurn].line # "malformed")
    BY <2>2, AskedFields
  <2> QED BY <2>2, <2>3
<1> QED BY <1>5, <1>6

LEMMA ExchangeInit == Init => EX!Init
<1> SUFFICES ASSUME Init PROVE EX!Init
  OBVIOUS
<1>1. /\ requests \in Conversations /\ base = 0 /\ m_read_index = 0 /\ pc = "recv"
      /\ answers = <<>>
  BY DEF Init, ParserInit
<1>2. /\ N \in Nat /\ End(0) = 0 /\ \A k \in 0..N : End(k) \in Nat
      /\ DOMAIN requests = 1..N /\ Received = 0
  BY <1>1, EndFacts DEF Received
<1>3. Cardinality(UpTo(0)) = 0
  <2>1. PICK m \in 0..N : Cardinality(UpTo(0)) = m /\ End(m) <= 0
    BY <1>1, CountUpTo
  <2>2. ~ 0 < m
    <3> SUFFICES ASSUME 0 < m PROVE FALSE
      OBVIOUS
    <3>1. 0 \in 0..N /\ End(0) + 3 <= End(m)
      BY <1>1, <1>2, EndsGrow
    <3> QED BY <1>2, <2>1, <3>1
  <2> QED BY <1>2, <2>1, <2>2
<1>4. Cardinality(Before(0)) = 0
  <2>1. PICK m \in 0..N : Cardinality(Before(0)) = m /\ (m > 0 => End(m - 1) < 0)
    BY <1>1, CountBefore
  <2>2. m > 0 => m - 1 \in 0..N
    BY <1>2
  <2> QED BY <1>2, <2>1, <2>2
<1>5. ArrivedCount = 0 /\ BegunCount = 0 /\ NextTurn = 1
  BY <1>1, <1>2, <1>3, <1>4, Counted
<1>6. ~Torn
  BY <1>1, <1>2, <1>5 DEF Torn, Begin
<1>7. Asks \in Seq(EX!Asked)
  <2>1. Asks = [k \in 1..N |-> Asked(requests[k])]
    BY <1>2 DEF Asks
  <2>2. \A k \in 1..N : Asked(requests[k]) \in EX!Asked
    BY DEF Asked, EX!Asked, Contains
  <2> QED BY <1>2, <2>1, <2>2
<1>8. Phase = "reading"
  BY <1>1 DEF Phase
<1> QED BY <1>1, <1>5, <1>6, <1>7, <1>8 DEF EX!Init, Asks, Torn, ArrivedCount, BegunCount

\* What an Exchange sees of the connection, as long as the buffer stays.
LEMMA ExchangeQuiet ==
  ASSUME requests' = requests, base' = base, m_read_index' = m_read_index
  PROVE  UNCHANGED <<Asks, NextTurn, Torn, ArrivedCount, BegunCount>>
<1>1. Asks' = Asks /\ NextTurn' = NextTurn /\ Torn' = Torn
  BY SameTurn
<1>2. ArrivedCount' = ArrivedCount /\ BegunCount' = BegunCount
  BY SameCounts DEF Received
<1> QED BY <1>1, <1>2

LEMMA ExchangeStutter ==
  ASSUME requests' = requests, base' = base, m_read_index' = m_read_index,
         Phase' = Phase, Reply' = Reply, answers' = answers
  PROVE  UNCHANGED EX!vars
<1>1. UNCHANGED <<Asks, NextTurn, Torn, ArrivedCount, BegunCount>>
  BY ExchangeQuiet
<1> QED BY <1>1 DEF EX!vars, Asks, Torn, Reply, ArrivedCount, BegunCount

LEMMA ExchangeReceive == ParserInv /\ ParserInv' /\ Read => EX!Receive
<1> SUFFICES ASSUME ParserInv, ParserInv', Read PROVE EX!Receive
  OBVIOUS
<1>1. /\ pc = "recv" /\ pc' \in {"dropped", "parse"} /\ answers' = answers
      /\ requests' = requests /\ base' = base
      /\ \E n \in m_read_index..READ_BUFF_SIZE : m_read_index' = n
  BY DEF Read, Receive, peerVars
<1>2. /\ requests \in Conversations /\ N \in Nat /\ DOMAIN requests = 1..N
      /\ Received \in Nat /\ base \in Nat /\ m_read_index \in Nat
      /\ Received = base + m_read_index
  BY PlacesType
<1>3. Received' \in Nat /\ Received <= Received'
  <2>1. READ_BUFF_SIZE \in Nat
    BY RequestsAssumption
  <2>2. m_read_index' \in Nat /\ m_read_index <= m_read_index'
    BY <1>1, <1>2, <2>1
  <2>3. Received' = base + m_read_index'
    BY <1>1 DEF Received
  <2>4. base + m_read_index <= base + m_read_index' /\ base + m_read_index' \in Nat
    BY <1>2, <2>2, SumGrows
  <2>5. Received' \in Nat
    BY <2>3, <2>4
  <2>6. Received <= Received'
    BY <1>2, <2>3, <2>4
  <2> QED BY <2>5, <2>6
<1>4. /\ ArrivedCount' = Cardinality(UpTo(Received'))
      /\ BegunCount' = Cardinality(Before(Received'))
  BY <1>1 DEF ArrivedCount, BegunCount, Arrived, Begun, UpTo, Before, Begin, End
<1>5. /\ ArrivedCount <= ArrivedCount' /\ BegunCount <= BegunCount'
      /\ ArrivedCount' <= BegunCount' /\ BegunCount' <= ArrivedCount' + 1
      /\ BegunCount' <= N
  <2>1. BegunCount' \in 0..N
    BY <1>2, <1>3, <1>4, OneUnderWay
  <2>2. ArrivedCount' <= BegunCount' /\ BegunCount' <= ArrivedCount' + 1
    BY <1>2, <1>3, <1>4, OneUnderWay
  <2>3. ArrivedCount <= ArrivedCount' /\ BegunCount <= BegunCount'
    BY <1>2, <1>3, <1>4, CountsGrow, Counted
  <2> QED BY <1>2, <2>1, <2>2, <2>3
<1>6. BegunCount' <= Len(Asks)
  <2>1. Len(Asks) = N
    BY <1>2 DEF Asks
  <2> QED BY <1>5, <2>1
<1>7. Asks' = Asks /\ NextTurn' = NextTurn /\ Torn' = Torn
  BY <1>1, SameTurn
<1>8. Phase = "reading" /\ Phase' \in {"working", "closed"} /\ Reply' = Reply
  BY <1>1 DEF Phase, Reply
<1> QED BY <1>1, <1>5, <1>6, <1>7, <1>8
        DEF EX!Receive, Asks, Torn, Reply, ArrivedCount, BegunCount

LEMMA ExchangeParse == Parse => EX!Again \/ UNCHANGED EX!vars
<1> SUFFICES ASSUME Parse PROVE EX!Again \/ UNCHANGED EX!vars
  OBVIOUS
<1>1. /\ pc = "parse" /\ pc' \in {"recv", "parse", "do_request", "respond"}
      /\ answers' = answers
      /\ requests' = requests /\ base' = base /\ m_read_index' = m_read_index
  BY DEF Parse, process_read, ParseLine, ParseContent, EndParse, parse_request_line,
     parse_headers, Return, Continue, peerVars
<1>2. Phase = "working" /\ Reply' = Reply
  BY <1>1 DEF Phase, Reply
<1>3. CASE pc' = "recv"
  <2>1. Phase' = "reading"
    BY <1>3 DEF Phase
  <2>2. UNCHANGED <<Asks, NextTurn, Torn, ArrivedCount, BegunCount>>
    BY <1>1, ExchangeQuiet
  <2>3. EX!Again
    BY <1>1, <1>2, <2>1, <2>2 DEF EX!Again, Asks, Torn, Reply, ArrivedCount, BegunCount
  <2> QED BY <2>3
<1>4. CASE pc' # "recv"
  <2>1. Phase' = Phase
    BY <1>1, <1>2, <1>4 DEF Phase
  <2> QED BY <1>1, <1>2, <2>1, ExchangeStutter
<1> QED BY <1>3, <1>4

LEMMA ExchangeRespond == ParserInv /\ Respond => EX!Respond \/ EX!Fail
<1> SUFFICES ASSUME ParserInv, Respond PROVE EX!Respond \/ EX!Fail
  OBVIOUS
<1>1. /\ pc = "respond" /\ pc' \in {"sending", "refused"} /\ UNCHANGED parserVars
      /\ answers' = answers
  BY DEF Respond, W!process_write, W!WriteFile, W!ErrorPage, W!Refuse, parseVars
<1>2. /\ requests' = requests /\ base' = base /\ m_read_index' = m_read_index
      /\ IsPage' = IsPage
  BY <1>1 DEF parserVars, peerVars, indices, IsPage
<1>3. UNCHANGED <<Asks, NextTurn, Torn, ArrivedCount, BegunCount>>
  BY <1>2, ExchangeQuiet
<1>4. Phase = "working" /\ Busy
  BY <1>1 DEF Phase, Busy
<1>5. CASE pc' = "refused"
  <2>1. Phase' = "closed" /\ Reply' = Reply
    BY <1>1, <1>5 DEF Phase, Reply
  <2>2. EX!Fail
    BY <1>1, <1>3, <1>4, <2>1 DEF EX!Fail, Asks, Torn, Reply, ArrivedCount, BegunCount
  <2> QED BY <2>2
<1>6. CASE pc' = "sending" /\ IsPage
  <2>1. Phase' = "sending" /\ Reply' = "page"
    BY <1>2, <1>6 DEF Phase, Reply
  <2>2. ~Torn /\ NextTurn <= ArrivedCount /\ Asks[NextTurn].good
    BY <1>4, <1>6, PageDue
  <2>3. EX!Respond
    BY <1>1, <1>3, <1>4, <2>1, <2>2 DEF EX!Respond, Asks, Torn, Reply, ArrivedCount, BegunCount
  <2> QED BY <2>3
<1>7. CASE pc' = "sending" /\ ~IsPage
  <2>1. Phase' = "sending" /\ Reply' = "error"
    BY <1>2, <1>7 DEF Phase, Reply
  <2>2. NextTurn <= BegunCount /\ (Torn \/ ~Asks[NextTurn].good)
    BY <1>4, <1>7, ErrorDue
  <2>3. EX!Respond
    BY <1>1, <1>3, <1>4, <2>1, <2>2 DEF EX!Respond, Asks, Torn, Reply, ArrivedCount, BegunCount
  <2> QED BY <2>3
<1> QED BY <1>1, <1>5, <1>6, <1>7

LEMMA ExchangeAnswered ==
  ASSUME ParserInv, pc = "sending", Answered
  PROVE  answers' = IF Reply = "page" THEN Append(answers, NextTurn) ELSE answers
<1>1. Busy
  BY DEF Busy
<1>2. CASE IsPage
  <2>1. Reply = "page"
    BY <1>2 DEF Reply
  <2>2. PICK k \in Current : answers' = Append(answers, k)
    BY <1>1, <1>2, OneAnswer
  <2>3. k = NextTurn
    BY TurnFacts
  <2> QED BY <2>1, <2>2, <2>3
<1>3. CASE ~IsPage
  <2>1. Reply = "error" /\ answers' = answers
    BY <1>1, <1>3, OneAnswer DEF Reply
  <2> QED BY <2>1
<1> QED BY <1>2, <1>3

LEMMA ExchangeClosed ==
  ASSUME ParserInv, NEW n, WriteLast(n) PROVE EX!FinishClosed
<1>1. /\ pc = "sending" /\ pc' = "closed" /\ Answered /\ ~m_linger /\ UNCHANGED parserVars
  BY DEF WriteLast, W!WriteLast, W!Sends, KeepIt, parseVars
<1>2. requests' = requests /\ base' = base /\ m_read_index' = m_read_index
  BY <1>1 DEF parserVars, peerVars, indices
<1>3. UNCHANGED <<Asks, NextTurn, Torn, ArrivedCount, BegunCount>>
  BY <1>2, ExchangeQuiet
<1>4. Phase = "sending" /\ Phase' = "closed" /\ Reply' = "none" /\ Busy
  BY <1>1 DEF Phase, Reply, Busy
<1>5. answers' = IF Reply = "page" THEN Append(answers, NextTurn) ELSE answers
  BY <1>1, ExchangeAnswered
<1>6. Reply = "error" \/ ~Asks[NextTurn].keep
  <2>1. CASE IsPage
    BY <1>1, <1>4, <2>1, PageDue
  <2>2. CASE ~IsPage
    BY <1>1, <2>2 DEF Reply
  <2> QED BY <2>1, <2>2
<1> QED BY <1>3, <1>4, <1>5, <1>6
        DEF EX!FinishClosed, EX!Answered, Asks, Torn, Reply, ArrivedCount, BegunCount

\* init() forgets what has been received: the next request is the one after
\* the last that has arrived, and it is torn if something of it had.
LEMMA ExchangeKept ==
  ASSUME ParserInv, NEW n, WriteKept(n) PROVE EX!FinishKept
<1>1. /\ pc = "sending" /\ pc' = "recv" /\ Answered /\ m_linger
      /\ requests' = requests /\ base' = base + m_read_index /\ m_read_index' = 0
  BY DEF WriteKept, W!WriteKept, W!Sends, KeepIt, init
<1>2. Busy /\ IsPage
  BY <1>1 DEF Busy, ParserInv
<1>3. Phase = "sending" /\ Phase' = "reading" /\ Reply = "page" /\ Reply' = "none"
  BY <1>1, <1>2 DEF Phase, Reply
<1>4. Asks[NextTurn].keep
  BY <1>1, <1>2, PageDue
<1>5. answers' = Append(answers, NextTurn)
  BY <1>1, <1>3, ExchangeAnswered
<1>6. /\ requests \in Conversations /\ Received \in Nat /\ N \in Nat
      /\ Received = base + m_read_index /\ Received <= Sent /\ Sent = End(N)
      /\ base \in Nat /\ m_read_index \in Nat
  BY PlacesType
<1>7. Received' = Received /\ base' = Received
  <2>1. base' = Received
    BY <1>1, <1>6
  <2>2. Received' = base' + m_read_index'
    BY DEF Received
  <2> QED BY <1>1, <1>6, <2>1, <2>2
<1>8. ArrivedCount' = ArrivedCount /\ BegunCount' = BegunCount
  BY <1>1, <1>7, SameCounts
<1>9. Asks' = Asks
  BY <1>1 DEF Asks, Asked
<1>10. NextTurn' = ArrivedCount + 1
  BY <1>1, <1>7 DEF NextTurn, ArrivedCount, Arrived, End
<1>11. Torn' = (ArrivedCount < BegunCount)
  <2>1. PICK m \in 0..N : /\ Cardinality(UpTo(Received)) = m /\ End(m) <= Received
                          /\ m < N => Received < End(m + 1)
    BY <1>6, CountUpTo
  <2>2. PICK b \in 0..N : /\ Cardinality(Before(Received)) = b
                          /\ b > 0 => End(b - 1) < Received
                          /\ b < N => Received <= End(b)
    BY <1>6, CountBefore
  <2>3. ArrivedCount = m /\ BegunCount = b /\ m <= b /\ b <= m + 1
    BY <1>6, <2>1, <2>2, OneUnderWay, Counted
  <2>4. Torn' = (Received # End(m))
    <3>1. NextTurn' - 1 = m
      BY <1>6, <1>10, <2>3
    <3> QED BY <1>1, <1>7, <3>1 DEF Torn, Begin, End
  <2>5. End(m) \in Nat /\ End(b) \in Nat
    BY <1>6, EndFacts
  <2>6. ASSUME Received = End(m) PROVE ~ m < b
    <3> SUFFICES ASSUME m < b PROVE FALSE
      OBVIOUS
    <3>1. b > 0 /\ b - 1 = m
      BY <1>6, <2>3
    <3> QED BY <1>6, <2>2, <2>5, <2>6, <3>1
  <2>7. ASSUME Received # End(m) PROVE m < b
    <3> SUFFICES ASSUME ~ m < b PROVE FALSE
      OBVIOUS
    <3>1. b = m
      BY <1>6, <2>3
    <3>2. b < N \/ b = N
      BY <1>6
    <3>3. Received <= End(m)
      BY <1>6, <2>2, <3>1, <3>2
    <3> QED BY <1>6, <2>1, <2>5, <2>7, <3>3
  <2> QED BY <2>3, <2>4, <2>6, <2>7
<1> QED BY <1>3, <1>4, <1>5, <1>8, <1>9, <1>10, <1>11
        DEF EX!FinishKept, EX!Answered, Asks, Torn, Reply, ArrivedCount, BegunCount

LEMMA ExchangeStep == ParserInv /\ ParserInv' /\ [Next]_vars => [EX!Next]_(EX!vars)
<1> SUFFICES ASSUME ParserInv, ParserInv', [Next]_vars PROVE EX!Next \/ UNCHANGED EX!vars
  OBVIOUS
<1>1. CASE Read
  BY <1>1, ExchangeReceive DEF EX!Next
<1>2. CASE Parse
  BY <1>2, ExchangeParse DEF EX!Next
<1>3. CASE DoRequest
  <2>1. /\ requests' = requests /\ base' = base /\ m_read_index' = m_read_index
        /\ answers' = answers /\ pc = "do_request" /\ pc' = "respond"
    BY <1>3 DEF DoRequest, W!do_request, parseVars, parserVars, peerVars, indices
  <2>2. Phase' = Phase /\ Reply' = Reply
    BY <2>1 DEF Phase, Reply
  <2> QED BY <2>1, <2>2, ExchangeStutter
<1>4. CASE Respond
  BY <1>4, ExchangeRespond DEF EX!Next
<1>5. CASE Write
  <2>1. PICK n \in 0..Len(W!Offered) : WriteMore(n) \/ WriteLast(n) \/ WriteKept(n)
    BY <1>5 DEF Write
  <2>2. CASE WriteMore(n)
    <3>1. /\ requests' = requests /\ base' = base /\ m_read_index' = m_read_index
          /\ m_check_state' = m_check_state /\ answers' = answers /\ pc' = pc
      BY <2>2 DEF WriteMore, W!WriteMore, parseVars, parserVars, peerVars, indices
    <3>2. Phase' = Phase /\ Reply' = Reply
      BY <3>1 DEF Phase, Reply, IsPage
    <3> QED BY <3>1, <3>2, ExchangeStutter
  <2>3. CASE WriteLast(n)
    BY <2>3, ExchangeClosed DEF EX!Next
  <2>4. CASE WriteKept(n)
    BY <2>4, ExchangeKept DEF EX!Next
  <2> QED BY <2>1, <2>2, <2>3, <2>4
<1>6. CASE WriteFails
  <2>1. /\ requests' = requests /\ base' = base /\ m_read_index' = m_read_index
        /\ answers' = answers /\ pc' = "dropped"
    BY <1>6 DEF WriteFails, W!WriteFails, parserVars, peerVars, indices
  <2>2. Phase' = "closed" /\ Reply' = "none"
    BY <2>1 DEF Phase, Reply
  <2>3. UNCHANGED <<Asks, NextTurn, Torn, ArrivedCount, BegunCount>>
    BY <2>1, ExchangeQuiet
  <2>4. EX!Drop
    BY <2>1, <2>2, <2>3 DEF EX!Drop, Asks, Torn, Reply, ArrivedCount, BegunCount
  <2> QED BY <2>4 DEF EX!Next
<1>7. CASE UNCHANGED vars
  <2>1. /\ requests' = requests /\ base' = base /\ m_read_index' = m_read_index
        /\ m_check_state' = m_check_state /\ answers' = answers /\ pc' = pc
    BY <1>7 DEF vars, parseVars, parserVars, peerVars, indices
  <2>2. Phase' = Phase /\ Reply' = Reply
    BY <2>1 DEF Phase, Reply, IsPage
  <2> QED BY <2>1, <2>2, ExchangeStutter
<1> QED BY <1>1, <1>2, <1>3, <1>4, <1>5, <1>6, <1>7 DEF Next, Work

\* For the peer and the event loop a connection is an Exchange: the requests are
\* answered in the order they were sent, each at most once, and none before it
\* has arrived; a connection is kept for a page and a request that asked for
\* it; and when it is kept, a request that came with the one before is passed
\* over, and one that had come in part is torn.
THEOREM Refinement == Spec => ImplementsExchange
<1>1. ParserInv /\ ParserInv' /\ [Next]_vars => [EX!Next]_(EX!vars)
  BY ExchangeStep
<1> QED BY ParserInvInit, ParserStep, ExchangeInit, <1>1, PTL DEF Spec, ImplementsExchange, EX!Spec
=============================================================================
