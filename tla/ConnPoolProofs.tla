--------------------------- MODULE ConnPoolProofs ---------------------------
(***************************************************************************)
(* Theorems about ConnPool, for every number of threads and connections.   *)
(***************************************************************************)
EXTENDS ConnPool, FiniteSetTheorems, SequenceTheorems, TLAPS

Holding == {t \in Threads : con[t] # Null}

\* A thread has a connection only between taking and releasing one.
HoldsInUse == \A t \in Threads : con[t] # Null => pc[t] = "use"

\* Every connection is in the list or with a thread.
Counted == Len(connList) + Cardinality(Holding) = Cardinality(Conns)

Core == TypeOK /\ HoldsInUse /\ Conserved /\ Counted
Inv == TypeOK /\ (Usable => Core)

-----------------------------------------------------------------------------
(***************************************************************************)
(* Counting the threads at a label.                                        *)
(***************************************************************************)

LEMMA AtFinite ==
  ASSUME NEW l PROVE IsFiniteSet(At(l)) /\ Cardinality(At(l)) \in Nat
BY ThreadsAssumption, FS_Subset, FS_CardinalityType DEF At

LEMMA HoldingFinite == IsFiniteSet(Holding) /\ Cardinality(Holding) \in Nat
BY ThreadsAssumption, FS_Subset, FS_CardinalityType DEF Holding

\* A thread that moves from one label to another leaves the one set for the
\* other, and every other set as it was.
LEMMA Moves ==
  ASSUME TypeOK, NEW t \in Threads, NEW from, NEW to, from # to,
         pc[t] = from, Goto(t, to), NEW l
  PROVE  Cardinality(At(l))' = IF l = from THEN Cardinality(At(l)) - 1
                               ELSE IF l = to THEN Cardinality(At(l)) + 1
                               ELSE Cardinality(At(l))
<1>0. /\ pc'[t] = to
      /\ \A u \in Threads \ {t} : pc'[u] = pc[u]
  BY DEF Goto, TypeOK
<1>1. CASE l = from
  <2>1. At(l)' = At(l) \ {t}
    BY <1>0, <1>1 DEF At
  <2>2. t \in At(l)
    BY <1>1 DEF At
  <2>3. Cardinality(At(l) \ {t}) = Cardinality(At(l)) - 1
    BY <2>2, AtFinite, FS_RemoveElement
  <2>4. Cardinality(At(l))' = Cardinality(At(l) \ {t})
    BY <2>1
  <2> QED
    BY <1>1, <2>3, <2>4
<1>2. CASE l # from /\ l = to
  <2>1. At(l)' = At(l) \cup {t}
    BY <1>0, <1>2 DEF At
  <2>2. t \notin At(l)
    BY <1>2 DEF At
  <2>3. Cardinality(At(l) \cup {t}) = Cardinality(At(l)) + 1
    BY <2>2, AtFinite, FS_AddElement
  <2>4. Cardinality(At(l))' = Cardinality(At(l) \cup {t})
    BY <2>1
  <2> QED
    BY <1>2, <2>3, <2>4
<1>3. CASE l # from /\ l # to
  <2>1. At(l)' = At(l)
    BY <1>3 DEF At, Goto, TypeOK
  <2> QED
    BY <1>3, <2>1
<1> QED
  BY <1>1, <1>2, <1>3

-----------------------------------------------------------------------------
LEMMA InvInit == Init => Inv
<1> SUFFICES ASSUME Init PROVE Inv
  OBVIOUS
<1>1. Cardinality(Conns) \in Nat
  BY ConnsAssumption, FS_CardinalityType
<1>2. connList \in Seq(Conns) /\ Len(connList) = Cardinality(Conns)
  BY <1>1 DEF Init
<1>3. TypeOK
  BY <1>1, <1>2 DEF Init, TypeOK
<1>4. At("take") = {} /\ At("post") = {} /\ Holding = {}
  BY DEF Init, At, Holding
<1>5. Cardinality(At("take")) = 0 /\ Cardinality(At("post")) = 0 /\ Cardinality(Holding) = 0
  BY <1>4, FS_EmptySet
<1>6. Conserved /\ Counted
  BY <1>1, <1>2, <1>5 DEF Init, Conserved, Counted
<1> QED
  BY <1>3, <1>6 DEF Inv, Core, HoldsInUse, Init

\* A step of a usable pool that leaves it usable.
LEMMA CoreStep ==
  ASSUME Core, Usable, [Next]_vars, Usable' PROVE Core'
<1>0. /\ Len(connList) \in Nat /\ reserve \in Nat /\ Cardinality(Conns) \in Nat
      /\ Cardinality(At("take")) \in Nat /\ Cardinality(At("post")) \in Nat
      /\ Cardinality(Holding) \in Nat
  BY AtFinite, HoldingFinite, ConnsAssumption, FS_CardinalityType DEF Core, TypeOK
<1>1. ASSUME NEW t \in Threads, Check(t) PROVE Core'
  <2>1. TypeOK' /\ HoldsInUse' /\ Holding' = Holding
    BY <1>1 DEF Check, Goto, ending, Core, TypeOK, HoldsInUse, Holding, counts
  <2>2. PICK to \in {"use", "wait"} : pc[t] = "idle" /\ Goto(t, to)
    BY <1>1 DEF Check
  <2>3. Cardinality(At("take"))' = Cardinality(At("take"))
    BY <2>2, Moves DEF Core
  <2>4. Cardinality(At("post"))' = Cardinality(At("post"))
    BY <2>2, Moves DEF Core
  <2>5. Conserved'
    BY <1>1, <2>3, <2>4 DEF Check, Core, Conserved
  <2>6. Counted'
    BY <1>1, <2>1 DEF Check, Core, Counted
  <2> QED
    BY <2>1, <2>5, <2>6 DEF Core
<1>2. ASSUME NEW t \in Threads, Wait(t) PROVE Core'
  <2>1. TypeOK' /\ HoldsInUse' /\ Holding' = Holding
    BY <1>2 DEF Wait, Goto, ending, Core, TypeOK, HoldsInUse, Holding, counts
  <2>2. Cardinality(At("take"))' = Cardinality(At("take")) + 1
    BY <1>2, Moves DEF Core, Wait
  <2>3. Cardinality(At("post"))' = Cardinality(At("post"))
    BY <1>2, Moves DEF Core, Wait
  <2>4. Conserved'
    BY <1>0, <1>2, <2>2, <2>3 DEF Wait, Core, Conserved
  <2>5. Counted'
    BY <1>2, <2>1 DEF Wait, Core, Counted
  <2> QED
    BY <2>1, <2>4, <2>5 DEF Core
<1>3. ASSUME NEW t \in Threads, Take(t) PROVE Core'
  <2>1. /\ Head(connList) \in Conns /\ Tail(connList) \in Seq(Conns)
        /\ Len(connList') = Len(connList) - 1
    BY <1>3 DEF Take, Core, TypeOK
  <2>2. TypeOK' /\ HoldsInUse'
    BY <1>3, <2>1 DEF Take, Goto, ending, Core, TypeOK, HoldsInUse
  <2>3. con[t] = Null
    BY <1>3 DEF Take, Core, HoldsInUse
  <2>4. Holding' = Holding \cup {t} /\ t \notin Holding
    BY <1>3, <2>1, <2>3, NullAssumption DEF Take, Core, TypeOK, Holding
  <2>5. Cardinality(Holding)' = Cardinality(Holding) + 1
    BY <2>4, HoldingFinite, FS_AddElement
  <2>6. Cardinality(At("take"))' = Cardinality(At("take")) - 1
    BY <1>3, Moves DEF Core, Take
  <2>7. Cardinality(At("post"))' = Cardinality(At("post"))
    BY <1>3, Moves DEF Core, Take
  <2>8. Conserved'
    BY <1>0, <1>3, <2>1, <2>6, <2>7 DEF Take, Core, Conserved
  <2>9. Counted'
    BY <1>0, <2>1, <2>5 DEF Core, Counted
  <2> QED
    BY <2>2, <2>8, <2>9 DEF Core
<1>4. ASSUME NEW t \in Threads, Release(t) PROVE Core'
  <2>1. CASE con[t] = Null /\ Goto(t, "idle") /\ UNCHANGED <<connList, counts>>
    <3>1. TypeOK' /\ HoldsInUse' /\ Holding' = Holding
      BY <1>4, <2>1 DEF Release, Goto, ending, Core, TypeOK, HoldsInUse, Holding, counts
    <3>2. Cardinality(At("take"))' = Cardinality(At("take"))
      BY <1>4, <2>1, Moves DEF Core, Release
    <3>3. Cardinality(At("post"))' = Cardinality(At("post"))
      BY <1>4, <2>1, Moves DEF Core, Release
    <3>4. Conserved'
      BY <1>4, <2>1, <3>2, <3>3 DEF Release, Core, Conserved
    <3>5. Counted'
      BY <2>1, <3>1 DEF Core, Counted
    <3> QED
      BY <3>1, <3>4, <3>5 DEF Core
  <2>2. CASE con[t] # Null /\ connList' = Append(connList, con[t]) /\ Goto(t, "post")
             /\ m_FreeConn' = m_FreeConn + 1 /\ m_CurConn' = m_CurConn - 1
    <3>1. con[t] \in Conns
      BY <2>2 DEF Core, TypeOK
    <3>2. connList' \in Seq(Conns) /\ Len(connList') = Len(connList) + 1
      BY <2>2, <3>1 DEF Core, TypeOK
    <3>3. TypeOK' /\ HoldsInUse'
      BY <1>4, <2>2, <3>2 DEF Release, Goto, ending, Core, TypeOK, HoldsInUse
    <3>4. Holding' = Holding \ {t} /\ t \in Holding
      BY <1>4, <2>2 DEF Release, Core, TypeOK, Holding
    <3>5. Cardinality(Holding)' = Cardinality(Holding) - 1
      BY <3>4, HoldingFinite, FS_RemoveElement
    <3>6. Cardinality(At("take"))' = Cardinality(At("take"))
      BY <1>4, <2>2, Moves DEF Core, Release
    <3>7. Cardinality(At("post"))' = Cardinality(At("post")) + 1
      BY <1>4, <2>2, Moves DEF Core, Release
    <3>8. Conserved'
      BY <1>0, <1>4, <3>2, <3>6, <3>7 DEF Release, Core, Conserved
    <3>9. Counted'
      BY <1>0, <3>2, <3>5 DEF Core, Counted
    <3> QED
      BY <3>3, <3>8, <3>9 DEF Core
  <2> QED
    BY <1>4, <2>1, <2>2 DEF Release
<1>5. ASSUME NEW t \in Threads, Post(t) PROVE Core'
  <2>1. TypeOK' /\ HoldsInUse' /\ Holding' = Holding
    BY <1>5 DEF Post, Goto, ending, Core, TypeOK, HoldsInUse, Holding, counts
  <2>2. Cardinality(At("take"))' = Cardinality(At("take"))
    BY <1>5, Moves DEF Core, Post
  <2>3. Cardinality(At("post"))' = Cardinality(At("post")) - 1
    BY <1>5, Moves DEF Core, Post
  <2>4. Conserved'
    BY <1>0, <1>5, <2>2, <2>3 DEF Post, Core, Conserved
  <2>5. Counted'
    BY <1>5, <2>1 DEF Post, Core, Counted
  <2> QED
    BY <2>1, <2>4, <2>5 DEF Core
<1>6. CASE Destroy \/ UNCHANGED vars
  <2>1. TypeOK' /\ HoldsInUse' /\ Holding' = Holding
    BY <1>6 DEF Destroy, vars, ending, counts, Core, TypeOK, HoldsInUse, Holding, Range
  <2>2. At("take")' = At("take") /\ At("post")' = At("post")
    BY <1>6 DEF Destroy, vars, At
  <2> QED
    BY <1>6, <2>1, <2>2 DEF Destroy, vars, Core, Conserved, Counted
<1>7. ~DestroyMembers /\ \A t \in Threads : ~Undefined(t)
  BY DEF DestroyMembers, Undefined, Usable
<1> QED
  BY <1>1, <1>2, <1>3, <1>4, <1>5, <1>6, <1>7 DEF Next, Step

LEMMA TypeStep == TypeOK /\ [Next]_vars => TypeOK'
<1> SUFFICES ASSUME TypeOK, [Next]_vars PROVE TypeOK'
  OBVIOUS
<1> USE DEF Goto, counts, ending, TypeOK
<1>1. ASSUME NEW t \in Threads, Check(t) \/ Wait(t) \/ Post(t) \/ Undefined(t) PROVE TypeOK'
  BY <1>1 DEF Check, Wait, Post, Undefined
<1>2. ASSUME NEW t \in Threads, Take(t) PROVE TypeOK'
  <2>1. Head(connList) \in Conns /\ Tail(connList) \in Seq(Conns)
    BY <1>2 DEF Take
  <2> QED
    BY <1>2, <2>1 DEF Take
<1>3. ASSUME NEW t \in Threads, Release(t) PROVE TypeOK'
  <2>1. CASE con[t] = Null
    BY <1>3, <2>1 DEF Release
  <2>2. CASE con[t] # Null
    <3>1. connList' = Append(connList, con[t]) /\ con[t] \in Conns
      BY <1>3, <2>2 DEF Release
    <3>2. connList' \in Seq(Conns)
      BY <3>1
    <3> QED
      BY <1>3, <2>2, <3>2 DEF Release
  <2> QED
    BY <2>1, <2>2
<1>4. CASE Destroy
  <2>1. Range(connList) \subseteq Conns
    BY DEF Range
  <2> QED
    BY <1>4, <2>1 DEF Destroy
<1>5. CASE DestroyMembers
  <2>1. <<>> \in Seq(Conns) /\ 0 \in Nat
    OBVIOUS
  <2> QED
    BY <1>5, <2>1 DEF DestroyMembers
<1>6. CASE UNCHANGED vars
  BY <1>6 DEF vars
<1> QED
  BY <1>1, <1>2, <1>3, <1>4, <1>5, <1>6 DEF Next, Step

\* What is destroyed stays destroyed.
LEMMA StaysDestroyed == [Next]_vars /\ Usable' => Usable
BY DEF Next, Step, Check, Wait, Take, Release, Post, Undefined, Destroy, DestroyMembers, Usable,
   ending, vars

LEMMA InvStep == Inv /\ [Next]_vars => Inv'
BY CoreStep, TypeStep, StaysDestroyed DEF Inv

THEOREM Invariance == Spec => []Inv
BY InvInit, InvStep, PTL DEF Spec

\* Every variable keeps its type.
THEOREM TypeCorrect == Spec => []TypeOK
<1>1. Inv => TypeOK
  BY DEF Inv
<1> QED
  BY <1>1, Invariance, PTL

\* The semaphore never promises a connection that is not in the list.
THEOREM SemaphoreConserved == Spec => []Conserved
<1>1. Inv => Conserved
  BY DEF Inv, Core, Conserved
<1> QED
  BY <1>1, Invariance, PTL

\* So front() is only called on a list with an element.
THEOREM FrontAlwaysExists == Spec => []FrontExists
<1>1. ASSUME Inv, Usable, NEW t \in Threads, pc[t] = "take" PROVE connList # <<>>
  <2>1. At("take") # {}
    BY <1>1 DEF At
  <2>2. Cardinality(At("take")) # 0
    BY <2>1, AtFinite, FS_EmptySet
  <2>3. Len(connList) # 0
    BY <1>1, <2>2, AtFinite DEF Inv, Core, TypeOK, Conserved
  <2> QED
    BY <2>3
<1>2. Inv => FrontExists
  BY <1>1 DEF FrontExists
<1> QED
  BY <1>2, Invariance, PTL

\* A thread that waits in vain waits for a thread that has a connection, or has
\* counted on one, or has one to announce: the waiters never wait for each
\* other alone. (init opens a connection or ends the program.)
THEOREM WaitingEnds == ASSUME Conns # {} PROVE Spec => []WaitsForAHolder
<1>1. ASSUME Inv, Usable, reserve = 0
      PROVE  \E s \in Threads : con[s] # Null \/ pc[s] \in {"take", "post"}
  <2> SUFFICES ASSUME Holding = {}, At("take") = {}, At("post") = {} PROVE FALSE
    BY DEF Holding, At
  <2>1. Cardinality({}) = 0
    BY FS_EmptySet
  <2>2. Cardinality(Holding) = 0 /\ Cardinality(At("take")) = 0 /\ Cardinality(At("post")) = 0
    BY <2>1
  <2>3. Cardinality(Conns) = 0
    BY <1>1, <2>2, ConnsAssumption, FS_CardinalityType
    DEF Inv, Core, TypeOK, Conserved, Counted
  <2> QED
    BY <2>3, ConnsAssumption, FS_EmptySet
<1>2. Inv => WaitsForAHolder
  BY <1>1 DEF WaitsForAHolder
<1> QED
  BY <1>2, Invariance, PTL
-----------------------------------------------------------------------------
(***************************************************************************)
(* A pool with a connection for every thread, as main sets it up (10       *)
(* connections, 8 workers).                                                *)
(***************************************************************************)

Ample == Cardinality(Threads) <= Cardinality(Conns)

\* The threads other than one are fewer than the connections.
LEMMA OthersFewer ==
  ASSUME Ample, NEW t \in Threads
  PROVE  /\ IsFiniteSet(Threads \ {t})
         /\ Cardinality(Threads \ {t}) < Cardinality(Conns)
         /\ Cardinality(Threads \ {t}) \in Nat /\ Cardinality(Conns) \in Nat
<1>1. Cardinality(Threads) \in Nat /\ Cardinality(Conns) \in Nat
  BY ThreadsAssumption, ConnsAssumption, FS_CardinalityType
<1>2. /\ IsFiniteSet(Threads \ {t})
      /\ Cardinality(Threads \ {t}) = Cardinality(Threads) - 1
  BY ThreadsAssumption, FS_RemoveElement
<1>3. Cardinality(Threads \ {t}) \in Nat
  BY <1>2, FS_CardinalityType
<1> QED
  BY <1>1, <1>2, <1>3 DEF Ample

\* A thread about to ask finds the list non-empty.
LEMMA ListNonEmpty ==
  ASSUME Ample, Inv, Usable, NEW t \in Threads, pc[t] = "idle" PROVE connList # <<>>
<1>1. Holding \subseteq Threads \ {t}
  BY DEF Holding, Inv, Core, HoldsInUse
<1>2. Cardinality(Holding) <= Cardinality(Threads \ {t})
  BY <1>1, OthersFewer, FS_Subset
<1>3. /\ Cardinality(Threads \ {t}) < Cardinality(Conns)
      /\ Cardinality(Threads \ {t}) \in Nat /\ Cardinality(Conns) \in Nat
  BY OthersFewer
<1>4. Len(connList) + Cardinality(Holding) = Cardinality(Conns) /\ Len(connList) \in Nat
  BY DEF Inv, Core, TypeOK, Counted
<1>5. Len(connList) # 0
  BY <1>2, <1>3, <1>4, HoldingFinite
<1> QED
  BY <1>5

LEMMA NeverNullStep == ASSUME Ample, Inv, NeverNull, [Next]_vars PROVE NeverNull'
<1>1. ASSUME NEW t \in Threads, Check(t) PROVE NeverNull'
  <2>1. pc' = [pc EXCEPT ![t] = "wait"]
    BY <1>1, ListNonEmpty DEF Check, Goto
  <2> QED
    BY <1>1, <2>1 DEF Check, NeverNull, Inv, TypeOK
<1>2. ASSUME NEW t \in Threads, Take(t) PROVE NeverNull'
  <2>1. Head(connList) \in Conns
    BY <1>2 DEF Take, Inv, TypeOK
  <2> QED
    BY <1>2, <2>1, NullAssumption DEF Take, Goto, NeverNull, Inv, TypeOK
<1>3. ASSUME NEW t \in Threads, Wait(t) \/ Release(t) \/ Post(t) \/ Undefined(t)
      PROVE  NeverNull'
  BY <1>3 DEF Wait, Release, Post, Undefined, Goto, NeverNull, Inv, TypeOK
<1>4. CASE Destroy \/ DestroyMembers \/ UNCHANGED vars
  BY <1>4 DEF Destroy, DestroyMembers, vars, NeverNull
<1> QED
  BY <1>1, <1>2, <1>3, <1>4 DEF Next, Step

\* With a connection for every thread getConnection never returns NULL: the
\* unlocked look at the list cannot go wrong.
THEOREM AlwaysAConnection == ASSUME Ample PROVE Spec => []NeverNull
<1>1. Init => NeverNull
  BY DEF Init, NeverNull
<1>2. Inv /\ NeverNull /\ [Next]_vars => NeverNull'
  BY NeverNullStep
<1> QED
  BY <1>1, <1>2, Invariance, PTL DEF Spec

\* Nor does it ever wait for the semaphore.
\* Nobody is left to wait for: the others hold fewer connections than there are.
LEMMA NothingToWaitFor == ASSUME Ample, Inv PROVE NeverBlocks
<1>1. ASSUME NEW t \in Threads, Usable, pc[t] = "wait" PROVE reserve > 0
  <2> DEFINE Others == Holding \cup (At("take") \cup At("post"))
  <2>1. Others \subseteq Threads \ {t}
    BY <1>1 DEF Holding, At, Inv, Core, HoldsInUse
  <2>2. At("take") \cap At("post") = {} /\ Holding \cap (At("take") \cup At("post")) = {}
    BY <1>1 DEF Holding, At, Inv, Core, HoldsInUse
  <2>3. /\ IsFiniteSet(At("take") \cup At("post"))
        /\ Cardinality(At("take") \cup At("post"))
             = Cardinality(At("take")) + Cardinality(At("post")) - Cardinality({})
    BY <2>2, AtFinite, FS_Union
  <2>4. Cardinality(Others)
          = Cardinality(Holding) + Cardinality(At("take") \cup At("post")) - Cardinality({})
    BY <2>2, <2>3, HoldingFinite, FS_Union
  <2>5. Cardinality({}) = 0
    BY FS_EmptySet
  <2>6. Cardinality(Others) <= Cardinality(Threads \ {t})
    BY <2>1, OthersFewer, FS_Subset
  <2>7. /\ Cardinality(Threads \ {t}) < Cardinality(Conns)
        /\ Cardinality(Threads \ {t}) \in Nat /\ Cardinality(Conns) \in Nat
    BY OthersFewer
  <2>8. /\ Cardinality(At("take")) \in Nat /\ Cardinality(At("post")) \in Nat
        /\ Cardinality(Holding) \in Nat
    BY AtFinite, HoldingFinite
  <2>9. /\ Len(connList) + Cardinality(Holding) = Cardinality(Conns)
        /\ Len(connList) = reserve + Cardinality(At("take")) + Cardinality(At("post"))
        /\ Len(connList) \in Nat /\ reserve \in Nat
    BY <1>1 DEF Inv, Core, TypeOK, Conserved, Counted
  <2> HIDE DEF Others
  <2> QED
    BY <2>3, <2>4, <2>5, <2>6, <2>7, <2>8, <2>9
<1> QED
  BY <1>1 DEF NeverBlocks

THEOREM NeverWaits == ASSUME Ample PROVE Spec => []NeverBlocks
BY NothingToWaitFor, Invariance, PTL
-----------------------------------------------------------------------------
(***************************************************************************)
(* Ownership: the list holds no connection twice, no two threads hold the  *)
(* same one, none is both idle and held, and none is lost.                 *)
(***************************************************************************)

IdleOnce == \A i, j \in DOMAIN connList : connList[i] = connList[j] => i = j
HeldOnce == \A s, t \in Threads : con[s] # Null /\ con[s] = con[t] => s = t
HeldNotIdle == \A t \in Threads, i \in DOMAIN connList : con[t] # connList[i]
NoneLost == \A c \in Conns : (\E i \in DOMAIN connList : connList[i] = c) \/ Using(c) # {}

Owners == IdleOnce /\ HeldOnce /\ HeldNotIdle /\ NoneLost

LEMMA OwnersInit == Init => Owners
<1> SUFFICES ASSUME Init PROVE Owners
  OBVIOUS
<1> DEFINE Places == 1..Cardinality(Conns)
<1>1. Cardinality(Conns) \in Nat
  BY ConnsAssumption, FS_CardinalityType
<1>2. connList \in [Places -> Conns] /\ Range(connList) = Conns
  BY DEF Init
<1>3. IsFiniteSet(Places) /\ Cardinality(Places) = Cardinality(Conns)
  BY <1>1, FS_Interval
<1>4. connList \in Surjection(Places, Conns)
  BY <1>2 DEF Surjection, Range
<1>5. connList \in Injection(Places, Conns)
  <2> HIDE DEF Places
  <2> QED
    BY <1>3, <1>4, FS_SurjSameCardinalityImpliesInj
<1>6. IdleOnce
  BY <1>2, <1>5 DEF Injection, IsInjective, IdleOnce
<1>7. HeldOnce
  BY DEF Init, HeldOnce
<1>8. HeldNotIdle
  BY <1>2, NullAssumption DEF Init, HeldNotIdle
<1>9. NoneLost
  BY <1>2 DEF NoneLost, Range
<1> QED
  BY <1>6, <1>7, <1>8, <1>9 DEF Owners

LEMMA OwnersStep == ASSUME Core, Usable, Owners, [Next]_vars, Usable' PROVE Owners'
<1> USE DEF Owners
<1>1. CASE UNCHANGED <<connList, con>>
  BY <1>1 DEF IdleOnce, HeldOnce, HeldNotIdle, NoneLost, Using
<1>2. ASSUME NEW t \in Threads, Take(t) PROVE Owners'
  <2>1. /\ connList \in Seq(Conns) /\ connList # <<>> /\ con \in [Threads -> Conns \cup {Null}]
        /\ con[t] = Null
    BY <1>2 DEF Take, Core, TypeOK, HoldsInUse
  <2>2. /\ Len(connList) \in Nat /\ Len(connList) > 0
        /\ DOMAIN connList = 1..Len(connList) /\ DOMAIN connList' = 1..Len(connList) - 1
        /\ \A i \in 1..Len(connList) - 1 : connList'[i] = connList[i + 1]
    BY <1>2, <2>1 DEF Take
  <2>3. /\ con'[t] = connList[1] /\ connList[1] \in Conns
        /\ \A s \in Threads : s # t => con'[s] = con[s]
    BY <1>2, <2>1 DEF Take
  <2>4. IdleOnce'
    BY <2>2 DEF IdleOnce
  <2>5. HeldOnce'
    BY <2>2, <2>3 DEF HeldOnce, HeldNotIdle
  <2>6. HeldNotIdle'
    BY <2>2, <2>3 DEF HeldNotIdle, IdleOnce
  <2>7. ASSUME NEW c \in Conns
        PROVE  (\E i \in DOMAIN connList' : connList'[i] = c) \/ Using(c)' # {}
    <3>1. CASE \E s \in Threads : con[s] = c
      <4> PICK s \in Threads : con[s] = c
        BY <3>1
      <4>1. con'[s] = c
        BY <2>1, <2>3, NullAssumption
      <4> QED
        BY <4>1 DEF Using
    <3>2. CASE \E i \in DOMAIN connList : connList[i] = c
      <4> PICK i \in DOMAIN connList : connList[i] = c
        BY <3>2
      <4>1. CASE i = 1
        BY <2>3, <4>1 DEF Using
      <4>2. CASE i # 1
        <5>1. i - 1 \in DOMAIN connList' /\ connList'[i - 1] = c
          BY <2>2, <4>2
        <5> QED
          BY <5>1
      <4> QED
        BY <4>1, <4>2
    <3> QED
      BY <3>1, <3>2 DEF NoneLost, Using
  <2> QED
    BY <2>4, <2>5, <2>6, <2>7 DEF NoneLost
<1>3. ASSUME NEW t \in Threads, Release(t), con[t] # Null PROVE Owners'
  <2>1. /\ connList \in Seq(Conns) /\ con \in [Threads -> Conns \cup {Null}]
        /\ con[t] \in Conns /\ connList' = Append(connList, con[t])
    BY <1>3 DEF Release, Core, TypeOK
  <2>2. /\ Len(connList) \in Nat /\ DOMAIN connList = 1..Len(connList)
        /\ DOMAIN connList' = 1..Len(connList) + 1
        /\ connList'[Len(connList) + 1] = con[t]
        /\ \A i \in 1..Len(connList) : connList'[i] = connList[i]
    BY <2>1
  <2>3. con'[t] = Null /\ \A s \in Threads : s # t => con'[s] = con[s]
    BY <1>3, <2>1 DEF Release
  <2>4. IdleOnce'
    BY <2>2 DEF IdleOnce, HeldNotIdle
  <2>5. HeldOnce'
    BY <2>3 DEF HeldOnce
  <2>6. HeldNotIdle'
    <3>1. \A i \in DOMAIN connList' : connList'[i] # Null
      BY <2>1, <2>2, NullAssumption
    <3> QED
      BY <1>3, <2>2, <2>3, <3>1 DEF HeldNotIdle, HeldOnce
  <2>7. NoneLost'
    BY <2>2, <2>3 DEF NoneLost, Using
  <2> QED
    BY <2>4, <2>5, <2>6, <2>7
<1>4. ASSUME NEW t \in Threads, Release(t), con[t] = Null PROVE Owners'
  <2>1. UNCHANGED <<connList, con>>
    BY <1>4 DEF Release, Core, TypeOK
  <2> QED
    BY <1>1, <2>1
<1>5. CASE Destroy \/ (\E t \in Threads : Check(t) \/ Wait(t) \/ Post(t)) \/ UNCHANGED vars
  BY <1>1, <1>5 DEF Destroy, Check, Wait, Post, vars
<1>6. ~DestroyMembers /\ \A t \in Threads : ~Undefined(t)
  BY DEF DestroyMembers, Undefined, Usable
<1> QED
  BY <1>2, <1>3, <1>4, <1>5, <1>6 DEF Next, Step

\* A set is a singleton if it is inhabited and has at most one element.
LEMMA Single ==
  ASSUME NEW S, S # {}, \A x, y \in S : x = y PROVE Cardinality(S) = 1
<1> PICK x \in S : TRUE
  OBVIOUS
<1>1. S = {x}
  OBVIOUS
<1> QED
  BY <1>1, FS_Singleton

\* Every connection is idle or has exactly one user.
THEOREM NeverSharedNorLost == Spec => []Exclusive
<1> DEFINE Owned == Usable => Owners
<1>1. Init => Owned
  BY OwnersInit
<1>2. Inv /\ Owned /\ [Next]_vars => Owned'
  BY OwnersStep, StaysDestroyed DEF Inv
<1>3. Inv /\ Owned => Exclusive
  <2> SUFFICES ASSUME Inv, Usable, Owners, NEW c \in Conns
               PROVE  Cardinality(Using(c))
                        + Cardinality({i \in DOMAIN connList : connList[i] = c}) = 1
    BY DEF Exclusive, Inv, Core, HoldsInUse
  <2> DEFINE Places == {i \in DOMAIN connList : connList[i] = c}
  <2>1. \A i, j \in Places : i = j
    BY DEF Owners, IdleOnce
  <2>2. \A s, t \in Using(c) : s = t
    BY NullAssumption DEF Owners, HeldOnce, Using
  <2>3. Places = {} \/ Using(c) = {}
    BY DEF Owners, HeldNotIdle, Using
  <2>4. Places # {} \/ Using(c) # {}
    BY DEF Owners, NoneLost
  <2> HIDE DEF Places
  <2>5. Cardinality(Using(c)) + Cardinality(Places) = 1
    <3>1. CASE Places = {}
      BY <2>2, <2>4, <3>1, Single, FS_EmptySet
    <3>2. CASE Using(c) = {}
      BY <2>1, <2>4, <3>2, Single, FS_EmptySet
    <3> QED
      BY <2>3, <3>1, <3>2
  <2> QED
    BY <2>5 DEF Places
<1> HIDE DEF Owned
<1> QED
  BY <1>1, <1>2, <1>3, Invariance, PTL DEF Spec
=============================================================================
