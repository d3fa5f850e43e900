-------------------------- MODULE UserTableProofs ---------------------------
(***************************************************************************)
(* Theorems about UserTable, for every set of names, passwords and         *)
(* workers, whatever the database makes of an INSERT.                      *)
(***************************************************************************)
EXTENDS UserTable, TLAPS

\* A worker that is not idle has a request.
FormGiven == \A w \in Workers : pc[w] # "idle" => form[w] \in Forms

TypeInv == TypeOK /\ FormGiven

LEMMA TypeInit == Init => TypeInv
BY DEF Init, LoadUsers, TypeInv, TypeOK, FormGiven, NoForm

LEMMA TypeStep == TypeInv /\ [Next]_vars => TypeInv'
<1> SUFFICES ASSUME TypeInv, [Next]_vars PROVE TypeInv'
  OBVIOUS
<1> USE DEF TypeInv, TypeOK, FormGiven, history
<1>1. ASSUME NEW w \in Workers, Request(w) PROVE TypeInv'
  <2>1. PICK f \in Forms : form' = [form EXCEPT ![w] = f]
    BY <1>1 DEF Request
  <2>2. PICK l \in {"login", "register"} : pc' = [pc EXCEPT ![w] = l]
    BY <1>1 DEF Request
  <2> QED
    BY <1>1, <2>1, <2>2 DEF Request, Show
<1>2. ASSUME NEW w \in Workers, Find(w) PROVE TypeInv'
  BY <1>2 DEF Find, Answer, Show, Goto
<1>3. ASSUME NEW w \in Workers, LookUp(w) PROVE TypeInv'
  BY <1>3 DEF LookUp, Answer, Show, Goto
<1>4. ASSUME NEW w \in Workers, Lock(w) PROVE TypeInv'
  BY <1>4 DEF Lock, Goto
<1>5. ASSUME NEW w \in Workers, Query(w) PROVE TypeInv'
  <2>1. form[w] \in Forms /\ form[w].name \in Names /\ form[w].password \in Passwords
    BY <1>5 DEF Query, Forms
  <2>2. webdb' \in [Names -> Passwords \cup {Absent}]
    BY <1>5, <2>1 DEF Query
  <2>3. spoiled' \in SUBSET Names
    BY <1>5, <2>1 DEF Query
  <2>4. /\ pc' = [pc EXCEPT ![w] = "insert"] \/ pc' = [pc EXCEPT ![w] = "insertFailed"]
        /\ UNCHANGED <<users, lock, form, page, welcomed>>
    BY <1>5 DEF Query, Goto
  <2> QED
    BY <2>1, <2>2, <2>3, <2>4
<1>6. ASSUME NEW w \in Workers, Insert(w) PROVE TypeInv'
  <2>1. form[w] \in Forms /\ form[w].password \in Passwords
    BY <1>6 DEF Insert, Forms
  <2>2. users' \in [Names -> Passwords \cup {Absent}]
    BY <1>6, <2>1 DEF Insert, InsertUser
  <2>3. /\ lock' \in Workers \cup {Nobody} /\ webdb' \in [Names -> Passwords \cup {Absent}]
        /\ spoiled' \in SUBSET Names
    BY <1>6 DEF Insert
  <2>4. welcomed' \in SUBSET Forms
    BY <1>6, <2>1 DEF Insert
  <2>5. pc' = [pc EXCEPT ![w] = "idle"] /\ form' = [form EXCEPT ![w] = NoForm]
    BY <1>6 DEF Insert, Answer, Goto
  <2>6. page' \in [Workers -> {"none", "log.html", "registerError.html", "welcome.html", "logError.html"}]
    BY <1>6 DEF Insert, Answer, Show
  <2> QED
    BY <2>2, <2>3, <2>4, <2>5, <2>6
<1>7. ASSUME NEW w \in Workers, Compare(w) PROVE TypeInv'
  BY <1>7 DEF Compare, Verdict, Answer, Show, Goto
<1>8. ASSUME NEW w \in Workers, Plant(w) PROVE TypeInv'
  <2>1. form[w] \in Forms /\ form[w].name \in Names
    BY <1>8 DEF Plant, Forms
  <2>2. PICK entry \in {users[form[w].name], Empty} :
          /\ Answer(w, Verdict(entry = form[w].password))
          /\ \E found \in {users[form[w].name], entry} :
               users' = [users EXCEPT ![form[w].name] = found]
          /\ spoiled' = spoiled \cup {form[w].name}
    BY <1>8 DEF Plant
  <2>3. entry \in Passwords \cup {Absent}
    BY <2>1, EmptyAssumption
  <2>4. users' \in [Names -> Passwords \cup {Absent}] /\ spoiled' \in SUBSET Names
    BY <2>1, <2>2, <2>3
  <2>5. UNCHANGED <<webdb, lock, welcomed>>
    BY <1>8 DEF Plant
  <2>6. /\ pc' = [pc EXCEPT ![w] = "idle"] /\ form' = [form EXCEPT ![w] = NoForm]
        /\ page' \in [Workers -> {"none", "log.html", "registerError.html", "welcome.html", "logError.html"}]
    BY <2>2 DEF Answer, Goto, Show, Verdict
  <2> QED
    BY <2>4, <2>5, <2>6
<1>9. CASE UNCHANGED vars
  BY <1>9 DEF vars
<1> QED
  BY <1>1, <1>2, <1>3, <1>4, <1>5, <1>6, <1>7, <1>8, <1>9 DEF Next, Serve, Register, Login

\* In every reachable state users, webdb, m_lock and the workers' requests hold
\* values of their types.
THEOREM TypeCorrect == Spec => []TypeOK
<1>1. TypeInv => TypeOK
  BY DEF TypeInv
<1> QED
  BY TypeInit, TypeStep, <1>1, PTL DEF Spec

-----------------------------------------------------------------------------
(***************************************************************************)
(* The map and the table. Between a query and the users.insert behind it   *)
(* they differ in one name, the one of the worker that has m_lock; and for *)
(* good in the names that are spoiled.                                     *)
(***************************************************************************)

Critical == {"query", "insert", "insertFailed"}

\* m_lock is with the worker between query and insert.
LockHeld == \A w \in Workers : pc[w] \in Critical <=> lock = w

\* A row that is in the table and not yet in the map is some worker's.
UnderWay(n) ==
  \E w \in Workers : pc[w] = "insert" /\ form[w].name = n /\ users[n] = Absent
Agree == \A n \in Names : n \in spoiled \/ users[n] = webdb[n] \/ UnderWay(n)
Present == \A n \in Names : webdb[n] # Absent => users[n] # Absent \/ UnderWay(n)

\* The outcome of a query is still true when users.insert comes.
Inserted == \A w \in Workers : pc[w] = "insert" => webdb[form[w].name] = form[w].password
Refused ==
  \A w \in Workers :
    pc[w] = "insertFailed" => webdb[form[w].name] # Absent \/ form[w].name \in spoiled

\* A row belongs to the one whose registration was confirmed, and nobody else
\* is about to be told the same.
Owned == \A g \in welcomed : webdb[g.name] = g.password
NewName == \A w \in Workers : pc[w] = "insert" => \A g \in welcomed : g.name # form[w].name

Outcome == Inserted /\ Refused /\ Owned /\ NewName
Inv == TypeInv /\ LockHeld /\ Agree /\ Present /\ Outcome

LEMMA InvInit == Init => Inv
<1> SUFFICES ASSUME Init PROVE Inv
  OBVIOUS
<1>1. LockHeld
  BY AbsentAssumption DEF Init, LockHeld, Critical, Nobody
<1>2. Agree /\ Present /\ Outcome
  BY DEF Init, LoadUsers, Agree, Present, Outcome, Inserted, Refused, Owned, NewName
<1> QED
  BY <1>1, <1>2, TypeInit DEF Inv

\* A step that leaves map, table, lock and history alone, by a worker outside
\* the critical section, keeps the invariant.
LEMMA OutsideStep ==
  ASSUME Inv, TypeInv', UNCHANGED <<users, webdb, lock, welcomed, spoiled>>,
         NEW w \in Workers, pc[w] \notin Critical, pc'[w] \notin Critical,
         \A v \in Workers \ {w} : pc'[v] = pc[v] /\ form'[v] = form[v]
  PROVE  Inv'
<1>1. LockHeld'
  BY DEF Inv, LockHeld
<1>2. \A v \in Workers : pc'[v] \in Critical => pc'[v] = pc[v] /\ form'[v] = form[v]
  OBVIOUS
<1>3. Outcome'
  BY <1>2 DEF Inv, Outcome, Inserted, Refused, Owned, NewName, Critical
<1>4. \A n \in Names : UnderWay(n) => UnderWay(n)'
  BY DEF UnderWay, Critical
<1>5. Agree' /\ Present'
  BY <1>4 DEF Inv, Agree, Present
<1> QED
  BY <1>1, <1>3, <1>5 DEF Inv

\* With no worker between query and insert no row is under way.
LEMMA NothingUnderWay ==
  ASSUME Inv, \A w \in Workers : pc[w] # "insert"
  PROVE  \A n \in Names : /\ n \in spoiled \/ users[n] = webdb[n]
                          /\ webdb[n] # Absent => users[n] # Absent
BY DEF Inv, Agree, Present, UnderWay

LEMMA InvStep == Inv /\ [Next]_vars => Inv'
<1> SUFFICES ASSUME Inv, [Next]_vars PROVE Inv'
  OBVIOUS
<1>0. TypeInv'
  BY TypeStep DEF Inv
<1> USE DEF TypeInv, TypeOK, FormGiven, history
<1>1. ASSUME NEW w \in Workers, Request(w) PROVE Inv'
  <2>1. PICK l \in {"login", "register"} : pc' = [pc EXCEPT ![w] = l]
    BY <1>1 DEF Request
  <2>2. PICK f \in Forms : form' = [form EXCEPT ![w] = f]
    BY <1>1 DEF Request
  <2>3. pc'[w] \in {"login", "register"} /\ \A v \in Workers \ {w} : pc'[v] = pc[v] /\ form'[v] = form[v]
    BY <2>1, <2>2 DEF Inv
  <2>4. pc[w] \notin Critical /\ pc'[w] \notin Critical
    BY <1>1, <2>3 DEF Request, Critical
  <2> QED
    BY <1>0, <1>1, <2>3, <2>4, OutsideStep DEF Request
<1>2. ASSUME NEW w \in Workers, Find(w) \/ Compare(w) \/ LookUp(w) PROVE Inv'
  <2>1. /\ pc[w] \in {"login", "compare", "register"}
        /\ UNCHANGED <<users, webdb, lock, welcomed, spoiled>>
    BY <1>2 DEF Find, Compare, LookUp
  <2>2. /\ pc'[w] \in {"idle", "compare", "plant", "lock"}
        /\ \A v \in Workers \ {w} : pc'[v] = pc[v] /\ form'[v] = form[v]
    BY <1>2 DEF Inv, Find, Compare, LookUp, Answer, Goto
  <2>3. pc[w] \notin Critical /\ pc'[w] \notin Critical
    BY <2>1, <2>2 DEF Critical
  <2> QED
    BY <1>0, <2>1, <2>2, <2>3, OutsideStep
<1>3. ASSUME NEW w \in Workers, Lock(w) PROVE Inv'
  <2>1. pc' = [pc EXCEPT ![w] = "query"] /\ pc[w] = "lock" /\ lock = Nobody /\ lock' = w
    BY <1>3 DEF Lock, Goto
  <2>2. UNCHANGED <<users, webdb, form, welcomed, spoiled>>
    BY <1>3 DEF Lock
  <2>3. LockHeld'
    BY <2>1, AbsentAssumption DEF Inv, LockHeld, Critical, Nobody
  <2>4. \A v \in Workers : pc'[v] \in {"insert", "insertFailed"} => pc'[v] = pc[v]
    BY <2>1 DEF Inv
  <2>5. Outcome'
    BY <2>2, <2>4 DEF Inv, Outcome, Inserted, Refused, Owned, NewName
  <2>6. \A n \in Names : UnderWay(n) => UnderWay(n)'
    BY <2>1, <2>2 DEF Inv, UnderWay
  <2>7. Agree' /\ Present'
    BY <2>2, <2>6 DEF Inv, Agree, Present
  <2> QED
    BY <1>0, <2>3, <2>5, <2>7 DEF Inv
<1>4. ASSUME NEW w \in Workers, Query(w) PROVE Inv'
  <2> DEFINE f == form[w]
  <2>1. pc[w] = "query" /\ f \in Forms /\ f.name \in Names /\ f.password \in Passwords
    BY <1>4 DEF Inv, Query, Forms
  <2>2. UNCHANGED <<users, lock, form, welcomed>>
    BY <1>4 DEF Query
  <2>3. \A v \in Workers \ {w} : pc[v] \notin Critical
    BY <2>1, AbsentAssumption DEF Inv, LockHeld, Critical
  <2>4. \A n \in Names : /\ n \in spoiled \/ users[n] = webdb[n]
                         /\ webdb[n] # Absent => users[n] # Absent
    BY <2>1, <2>3, NothingUnderWay DEF Critical
  <2>5. pc'[w] \in {"insert", "insertFailed"} /\ \A v \in Workers \ {w} : pc'[v] = pc[v]
    BY <1>4 DEF Inv, Query, Goto
  <2>6. LockHeld'
    BY <2>1, <2>2, <2>5 DEF Inv, LockHeld, Critical
  <2>7. CASE webdb[f.name] = Absent /\ webdb' = [webdb EXCEPT ![f.name] = f.password]
             /\ Goto(w, "insert") /\ spoiled' = spoiled
    <3>1. pc'[w] = "insert" /\ \A v \in Workers \ {w} : pc'[v] \notin Critical
      BY <2>3, <2>5, <2>7 DEF Inv, Goto
    <3>2. webdb'[f.name] = f.password /\ \A n \in Names \ {f.name} : webdb'[n] = webdb[n]
      BY <2>1, <2>7 DEF Inv
    <3>3. \A g \in welcomed : g.name \in Names /\ g.password \in Passwords /\ g.name # f.name
      <4> SUFFICES ASSUME NEW g \in welcomed
                   PROVE  g.name \in Names /\ g.password \in Passwords /\ g.name # f.name
        OBVIOUS
      <4>1. g.name \in Names /\ g.password \in Passwords
        BY DEF Inv, Forms
      <4>2. webdb[g.name] = g.password
        BY DEF Inv, Outcome, Owned
      <4> QED
        BY <2>7, <4>1, <4>2, AbsentAssumption
    <3>4. Outcome'
      BY <2>2, <3>1, <3>2, <3>3 DEF Inv, Outcome, Inserted, Refused, Owned, NewName, Critical
    <3>5. f.name \in spoiled \/ UnderWay(f.name)'
      BY <2>1, <2>2, <2>4, <2>7, <3>1 DEF UnderWay
    <3>6. users[f.name] # Absent \/ UnderWay(f.name)'
      BY <2>2, <3>1 DEF UnderWay
    <3>7. Agree' /\ Present'
      BY <2>2, <2>4, <2>7, <3>2, <3>5, <3>6 DEF Agree, Present
    <3> QED
      BY <1>0, <2>6, <3>4, <3>7 DEF Inv
  <2>8. CASE webdb' = webdb /\ Goto(w, "insertFailed")
             /\ spoiled' = IF webdb[f.name] = Absent THEN spoiled \cup {f.name} ELSE spoiled
    <3>1. pc'[w] = "insertFailed" /\ \A v \in Workers \ {w} : pc'[v] \notin Critical
      BY <2>3, <2>5, <2>8 DEF Inv, Goto
    <3>2. spoiled \subseteq spoiled' /\ (webdb[f.name] # Absent \/ f.name \in spoiled')
      BY <2>8
    <3>3. Outcome'
      BY <2>2, <2>8, <3>1, <3>2 DEF Inv, Outcome, Inserted, Refused, Owned, NewName, Critical
    <3>4. Agree' /\ Present'
      BY <2>2, <2>4, <2>8, <3>2 DEF Agree, Present
    <3> QED
      BY <1>0, <2>6, <3>3, <3>4 DEF Inv
  <2> QED
    BY <1>4, <2>7, <2>8 DEF Query
<1>5. ASSUME NEW w \in Workers, Insert(w) PROVE Inv'
  <2> DEFINE f == form[w]
  <2>1. f \in Forms /\ f.name \in Names /\ f.password \in Passwords /\ lock = w
    BY <1>5 DEF Inv, LockHeld, Insert, Forms, Critical
  <2>2. /\ pc' = [pc EXCEPT ![w] = "idle"] /\ webdb' = webdb /\ lock' = Nobody
        /\ spoiled' = spoiled
    BY <1>5 DEF Insert, Answer, Goto
  <2>3. \A v \in Workers \ {w} : pc[v] \notin Critical
    BY <2>1 DEF Inv, LockHeld
  <2>4. \A v \in Workers : pc'[v] \notin Critical
    BY <2>2, <2>3 DEF Inv, Critical
  <2>5. LockHeld'
    BY <2>2, <2>4, AbsentAssumption DEF LockHeld, Nobody
  <2>6. \A g \in welcomed' : webdb[g.name] = g.password
    BY <1>5 DEF Inv, Outcome, Owned, Inserted, Insert
  <2>7. Outcome'
    BY <2>2, <2>4, <2>6 DEF Outcome, Inserted, Refused, Owned, NewName, Critical
  <2>8. \A n \in Names \ {f.name} :
          /\ users'[n] = users[n]
          /\ n \in spoiled \/ users[n] = webdb[n]
          /\ webdb[n] # Absent => users[n] # Absent
    <3>1. \A n \in Names \ {f.name} : ~UnderWay(n)
      BY <2>3 DEF UnderWay, Critical
    <3> QED
      BY <1>5, <3>1 DEF Inv, Agree, Present, Insert, InsertUser
  <2>9. users'[f.name] = IF users[f.name] = Absent THEN f.password ELSE users[f.name]
    BY <1>5, <2>1 DEF Inv, Insert, InsertUser
  <2>10. users'[f.name] # Absent
    BY <2>1, <2>9, AbsentAssumption
  <2>11. f.name \in spoiled \/ users'[f.name] = webdb[f.name]
    <3>1. CASE pc[w] = "insert"
      <4>1. webdb[f.name] = f.password
        BY <3>1 DEF Inv, Outcome, Inserted
      <4>2. f.name \in spoiled \/ users[f.name] = webdb[f.name] \/ users[f.name] = Absent
        BY <2>1 DEF Inv, Agree, UnderWay
      <4> QED
        BY <2>1, <2>9, <4>1, <4>2, AbsentAssumption
    <3>2. CASE pc[w] = "insertFailed"
      <4>1. webdb[f.name] # Absent \/ f.name \in spoiled
        BY <3>2 DEF Inv, Outcome, Refused
      <4>2. f.name \in spoiled \/ users[f.name] = webdb[f.name]
        BY <2>1, <2>3, <3>2 DEF Inv, Agree, UnderWay, Critical
      <4> QED
        BY <2>9, <4>1, <4>2
    <3> QED
      BY <1>5, <3>1, <3>2 DEF Insert
  <2>12. Agree' /\ Present'
    BY <2>2, <2>8, <2>10, <2>11 DEF Agree, Present
  <2> QED
    BY <1>0, <2>5, <2>7, <2>12 DEF Inv
<1>6. ASSUME NEW w \in Workers, Plant(w) PROVE Inv'
  <2> DEFINE f == form[w]
  <2>1. pc[w] = "plant" /\ f \in Forms /\ f.name \in Names
    BY <1>6 DEF Inv, Plant, Forms
  <2>2. UNCHANGED <<webdb, lock, welcomed>> /\ spoiled' = spoiled \cup {f.name}
    BY <1>6 DEF Plant
  <2>3. pc'[w] = "idle" /\ \A v \in Workers \ {w} : pc'[v] = pc[v] /\ form'[v] = form[v]
    BY <1>6 DEF Inv, Plant, Answer, Goto
  <2>4. \A v \in Workers : pc'[v] \in Critical \/ pc[v] \in Critical =>
                             v # w /\ pc'[v] = pc[v] /\ form'[v] = form[v]
    BY <2>1, <2>3 DEF Critical
  <2>5. LockHeld'
    BY <2>2, <2>4 DEF Inv, LockHeld
  <2>6. Outcome'
    BY <2>2, <2>4 DEF Inv, Outcome, Inserted, Refused, Owned, NewName, Critical
  <2>7. PICK found \in {users[f.name], Empty} : users' = [users EXCEPT ![f.name] = found]
    BY <1>6 DEF Plant
  <2>8. \A n \in Names \ {f.name} : users'[n] = users[n]
    BY <2>1, <2>7 DEF Inv
  <2>9. users'[f.name] = users[f.name] \/ users'[f.name] # Absent
    BY <2>1, <2>7, AbsentAssumption, EmptyAssumption DEF Inv
  <2>10. \A n \in Names : UnderWay(n) => UnderWay(n)' \/ users'[n] # Absent
    BY <2>4, <2>8, <2>9 DEF UnderWay, Critical
  <2>11. \A n \in Names \ {f.name} : UnderWay(n) => UnderWay(n)'
    BY <2>4, <2>8 DEF UnderWay, Critical
  <2>12. Agree'
    BY <2>2, <2>8, <2>11 DEF Inv, Agree
  <2>13. Present'
    BY <2>2, <2>8, <2>9, <2>10 DEF Inv, Present
  <2> QED
    BY <1>0, <2>5, <2>6, <2>12, <2>13 DEF Inv
<1>7. CASE UNCHANGED vars
  BY <1>0, <1>7 DEF vars, Inv, LockHeld, Agree, Present, UnderWay, Outcome, Inserted, Refused,
     Owned, NewName
<1> QED
  BY <1>1, <1>2, <1>3, <1>4, <1>5, <1>6, <1>7 DEF Next, Serve, Register, Login

LEMMA Invariance == Spec => []Inv
BY InvInit, InvStep, PTL DEF Spec

-----------------------------------------------------------------------------
\* The find, INSERT and insert of any number of workers leave map and table in
\* agreement, but for the names a failed INSERT or a login's users[name] has
\* left in the map.
THEOREM MapAndTableAgree == Spec => []MapMatchesTable
<1>1. Inv => MapMatchesTable
  <2> SUFFICES ASSUME Inv, lock = Nobody PROVE MapMatchesTable
    BY DEF MapMatchesTable
  <2>1. \A w \in Workers : pc[w] # "insert"
    BY AbsentAssumption DEF Inv, LockHeld, Critical, Nobody
  <2> QED
    BY <2>1, NothingUnderWay DEF MapMatchesTable
<1> QED
  BY <1>1, Invariance, PTL

\* The row of a confirmed registration is never undone or overwritten, and its
\* owner can log in unless the name is spoiled.
THEOREM RegistrationsLast == Spec => []RegisteredCanLogin
<1>1. Inv => RegisteredCanLogin
  <2> SUFFICES ASSUME Inv, NEW g \in welcomed
               PROVE  /\ webdb[g.name] = g.password
                      /\ g.name \in spoiled \/ users[g.name] = g.password
    BY DEF RegisteredCanLogin, Matches
  <2>1. webdb[g.name] = g.password /\ g.name \in Names
    BY DEF Inv, Outcome, Owned, TypeInv, TypeOK, Forms
  <2>2. ~UnderWay(g.name)
    BY DEF Inv, Outcome, NewName, UnderWay
  <2> QED
    BY <2>1, <2>2 DEF Inv, Agree
<1> QED
  BY <1>1, Invariance, PTL

\* A worker that goes idle does so by one of the four steps that answer.
Answers(w) == LookUp(w) \/ Insert(w) \/ Find(w) \/ Compare(w) \/ Plant(w)

LEMMA WhoAnswers ==
  ASSUME Inv, Next, NEW w \in Workers, pc[w] # "idle", pc'[w] = "idle"
  PROVE  Answers(w) /\ form[w] \in Forms /\ form[w].name \in Names /\ form[w].password \in Passwords
<1> USE DEF Inv, TypeInv, TypeOK
<1>1. ASSUME NEW v \in Workers, Request(v), v # w PROVE pc'[w] = pc[w]
  BY <1>1 DEF Request
<1>2. ASSUME NEW v \in Workers, Register(v), v # w PROVE pc'[w] = pc[w]
  BY <1>2 DEF Register, LookUp, Lock, Query, Insert, Answer, Goto
<1>3. ASSUME NEW v \in Workers, Login(v), v # w PROVE pc'[w] = pc[w]
  BY <1>3 DEF Login, Find, Compare, Plant, Answer, Goto
<1>4. ~Request(w)
  BY DEF Request
<1>5. ~Lock(w) /\ ~Query(w)
  BY DEF Lock, Query, Goto
<1>6. Answers(w)
  BY <1>1, <1>2, <1>3, <1>4, <1>5 DEF Next, Serve, Register, Login, Answers
<1> QED
  BY <1>6 DEF FormGiven, Forms

\* However many workers find a name free at the same time, one registration of
\* it at most is confirmed, with the password that is in the table, and the
\* others are refused; no free name is refused unless it is spoiled.
THEOREM NamesRegisteredOnce == Spec => NameRegisteredOnce
<1> DEFINE Once == \A w \in Workers :
       LET f == form[w]
       IN pc[w] # "idle" /\ pc'[w] = "idle" =>
            /\ page'[w] = "log.html" =>
                 webdb'[f.name] = f.password /\ \A g \in welcomed : g.name # f.name
            /\ page'[w] = "registerError.html" =>
                 webdb[f.name] # Absent \/ f.name \in spoiled
<1>1. Inv /\ [Next]_vars => [Once]_vars
  <2> SUFFICES ASSUME Inv, Next, NEW w \in Workers, pc[w] # "idle", pc'[w] = "idle"
               PROVE  /\ page'[w] = "log.html" => /\ webdb'[form[w].name] = form[w].password
                                                  /\ \A g \in welcomed : g.name # form[w].name
                      /\ page'[w] = "registerError.html" =>
                           webdb[form[w].name] # Absent \/ form[w].name \in spoiled
    OBVIOUS
  <2>1. Answers(w) /\ form[w] \in Forms /\ form[w].name \in Names /\ form[w].password \in Passwords
    BY WhoAnswers
  <2>2. CASE Find(w) \/ Compare(w) \/ Plant(w)
    <3>1. page'[w] \in {"welcome.html", "logError.html"}
      BY <2>2 DEF Inv, TypeInv, TypeOK, Find, Compare, Plant, Verdict, Answer, Show, Goto
    <3> QED
      BY <3>1
  <2>3. CASE LookUp(w)
    <3>1. page'[w] = "registerError.html" /\ users[form[w].name] # Absent
      BY <2>3 DEF Inv, TypeInv, TypeOK, LookUp, Answer, Show, Goto
    <3> QED
      BY <2>1, <3>1 DEF Inv, Agree, UnderWay
  <2>4. CASE Insert(w) /\ pc[w] = "insert"
    <3>1. page'[w] = "log.html" /\ webdb' = webdb
      BY <2>4 DEF Inv, TypeInv, TypeOK, Insert, Answer, Show
    <3> QED
      BY <2>4, <3>1 DEF Inv, Outcome, Inserted, NewName
  <2>5. CASE Insert(w) /\ pc[w] = "insertFailed"
    <3>1. page'[w] = "registerError.html"
      BY <2>5 DEF Inv, TypeInv, TypeOK, Insert, Answer, Show
    <3> QED
      BY <2>5, <3>1 DEF Inv, Outcome, Refused
  <2> QED
    BY <2>1, <2>2, <2>3, <2>4, <2>5 DEF Answers, Insert
<1> QED
  BY <1>1, Invariance, PTL DEF Spec, NameRegisteredOnce

\* For a name that is not spoiled a login is answered as the table says, or
\* refused while another worker was adding a name.
THEOREM LoginsFollowTable == Spec => LoginChecksTable
<1> DEFINE Checked == \A w \in Workers :
       LET f == form[w]
       IN pc[w] # "idle" /\ pc'[w] = "idle" /\ f.name \notin spoiled' =>
            /\ page'[w] = "welcome.html" => webdb[f.name] = f.password
            /\ page'[w] = "logError.html" => webdb[f.name] # f.password \/ MayMiss(w)
<1>1. Inv /\ [Next]_vars => [Checked]_vars
  <2> SUFFICES ASSUME Inv, Next, NEW w \in Workers, pc[w] # "idle", pc'[w] = "idle",
                      form[w].name \notin spoiled'
               PROVE  /\ page'[w] = "welcome.html" => webdb[form[w].name] = form[w].password
                      /\ page'[w] = "logError.html" =>
                           webdb[form[w].name] # form[w].password \/ MayMiss(w)
    OBVIOUS
  <2> DEFINE f == form[w]
  <2>1. Answers(w) /\ f \in Forms /\ f.name \in Names /\ f.password \in Passwords
    BY WhoAnswers
  <2>2. CASE LookUp(w) \/ Insert(w)
    <3>1. page'[w] \in {"log.html", "registerError.html"}
      BY <2>2 DEF Inv, TypeInv, TypeOK, LookUp, Insert, Answer, Show, Goto
    <3> QED
      BY <3>1
  <2>3. ASSUME pc[w] # "insert", f.name \notin spoiled
        PROVE  \/ users[f.name] = webdb[f.name]
               \/ users[f.name] = Absent /\ MayMiss(w)
    <3>1. users[f.name] = webdb[f.name] \/ UnderWay(f.name)
      BY <2>1, <2>3 DEF Inv, Agree
    <3>2. UnderWay(f.name) => users[f.name] = Absent /\ MayMiss(w)
      BY <2>3 DEF UnderWay, MayMiss
    <3> QED
      BY <3>1, <3>2
  <2>4. CASE Find(w)
    <3>1. page'[w] = "logError.html" /\ (users[f.name] = Absent \/ MayMiss(w)) /\ pc[w] = "login"
          /\ f.name \notin spoiled
      BY <2>4 DEF Inv, TypeInv, TypeOK, Find, Answer, Show, Goto, history
    <3> QED
      BY <2>1, <2>3, <3>1, AbsentAssumption
  <2>5. CASE Compare(w)
    <3>1. page'[w] = Verdict(Matches(f)) /\ pc[w] = "compare" /\ f.name \notin spoiled
      BY <2>5 DEF Inv, TypeInv, TypeOK, Compare, Answer, Show, Goto, history
    <3> QED
      BY <2>1, <2>3, <3>1, AbsentAssumption DEF Verdict, Matches
  <2>6. ~Plant(w)
    BY DEF Plant
  <2> QED
    BY <2>1, <2>2, <2>4, <2>5, <2>6 DEF Answers
<1> QED
  BY <1>1, Invariance, PTL DEF Spec, LoginChecksTable
=============================================================================
