----------------------------- MODULE UserTable ------------------------------
(***************************************************************************)
(* The login and the registration in http_conn::do_request: the map users, *)
(* shared by the workers, and the table webdb behind it. m_lock is held    *)
(* around the INSERT and users.insert only; every lookup is without it.    *)
(* What the database does with an INSERT is external: it may always fail,  *)
(* and it refuses a name the table has.                                    *)
(***************************************************************************)
EXTENDS Integers, FiniteSets

CONSTANTS
  Names, Passwords,
  Empty,         \* the empty password, which users[name] gives a new name
  Absent,        \* no password: the name is not in the map or the table
  Workers

ASSUME AbsentAssumption == Absent \notin Passwords /\ Absent \notin Workers
ASSUME EmptyAssumption == Empty \in Passwords

VARIABLES
  users,     \* the map
  webdb,     \* the table
  lock,      \* the holder of m_lock, or none
  pc, form,  \* where a worker is, and the name and password of its request
  page,      \* the page a worker's last request was answered with
  welcomed,  \* history: names and passwords a registration was confirmed for
  spoiled    \* history: names that users.insert got although the INSERT had
             \* failed on a free name, or that users[name] got as a new one

history == <<welcomed, spoiled>>
vars == <<users, webdb, lock, pc, form, page, history>>

Forms == [name : Names, password : Passwords]
NoForm == [name |-> Absent, password |-> Absent]
Nobody == Absent

\* initmysql_result, called by main before it listens, reads every row.
LoadUsers_Never(table) == [n \in Names |-> Absent]
LoadUsers(table) == table

Init ==
  /\ webdb \in [Names -> Passwords \cup {Absent}]
  /\ users = LoadUsers(webdb)
  /\ lock = Nobody
  /\ pc = [w \in Workers |-> "idle"] /\ form = [w \in Workers |-> NoForm]
  /\ page = [w \in Workers |-> "none"]
  /\ welcomed = {} /\ spoiled = {}
-----------------------------------------------------------------------------
Goto(w, label) == pc' = [pc EXCEPT ![w] = label]
Show(w, p) == page' = [page EXCEPT ![w] = p]

\* A POST to /2 or /3 with a name and a password.
Request(w) ==
  /\ pc[w] = "idle"
  /\ form' \in {[form EXCEPT ![w] = f] : f \in Forms}
  /\ pc' \in {[pc EXCEPT ![w] = l] : l \in {"login", "register"}}
  /\ Show(w, "none")
  /\ UNCHANGED <<users, webdb, lock, history>>

Answer(w, p) ==
  /\ Show(w, p)
  /\ Goto(w, "idle")
  /\ form' = [form EXCEPT ![w] = NoForm]

\* A lookup without m_lock may miss a name while another worker adds one and
\* rebalances the tree (a data race; that it crashes the server is left out).
MayMiss(w) == \E v \in Workers \ {w} : pc[v] \in {"insert", "insertFailed", "plant"}

\* users.find(name) == users.end()
LookUp_Inverted(w) ==
  /\ pc[w] = "register"
  /\ \/ /\ users[form[w].name] # Absent
        /\ Goto(w, "lock") /\ UNCHANGED <<form, page>>
     \/ /\ users[form[w].name] = Absent \/ MayMiss(w)
        /\ Answer(w, "registerError.html")
  /\ UNCHANGED <<users, webdb, lock, history>>
LookUp(w) ==
  /\ pc[w] = "register"
  /\ \/ /\ users[form[w].name] = Absent \/ MayMiss(w)
        /\ Goto(w, "lock") /\ UNCHANGED <<form, page>>
     \/ users[form[w].name] # Absent /\ Answer(w, "registerError.html")
  /\ UNCHANGED <<users, webdb, lock, history>>

Lock_None(w) ==
  /\ pc[w] = "lock"
  /\ Goto(w, "query")
  /\ UNCHANGED <<users, webdb, lock, form, page, history>>
Lock(w) ==
  /\ pc[w] = "lock" /\ lock = Nobody
  /\ lock' = w
  /\ Goto(w, "query")
  /\ UNCHANGED <<users, webdb, form, page, history>>

\* res = mysql_query(mysql, sql_insert): where it goes next stands for res. The
\* query fails on a taken name, and for any reason of its own (the server gone,
\* a name or password that breaks the statement).
Query(w) ==
  /\ pc[w] = "query"
  /\ LET f == form[w]
     IN \/ /\ webdb[f.name] = Absent
           /\ webdb' = [webdb EXCEPT ![f.name] = f.password]
           /\ Goto(w, "insert")
           /\ UNCHANGED spoiled
        \/ /\ Goto(w, "insertFailed")
           /\ spoiled' = IF webdb[f.name] = Absent THEN spoiled \cup {f.name} ELSE spoiled
           /\ UNCHANGED webdb
  /\ UNCHANGED <<users, lock, form, page, welcomed>>

\* users.insert(pair(name, password)) adds a name only if it is new; it runs
\* whether or not the query succeeded.
InsertUser_NameTwice(f) ==
  users' = [users EXCEPT ![f.name] = IF @ = Absent THEN f.name ELSE @]
InsertUser(f) ==
  users' = [users EXCEPT ![f.name] = IF @ = Absent THEN f.password ELSE @]

Insert(w) ==
  /\ pc[w] \in {"insert", "insertFailed"}
  /\ InsertUser(form[w])
  /\ lock' = Nobody
  /\ IF pc[w] = "insert"
     THEN Answer(w, "log.html") /\ welcomed' = welcomed \cup {form[w]}
     ELSE Answer(w, "registerError.html") /\ UNCHANGED welcomed
  /\ UNCHANGED <<webdb, spoiled>>

\* users.find(name) != users.end(), without m_lock; no name ever leaves the map.
Find(w) ==
  /\ pc[w] = "login"
  /\ \/ users[form[w].name] # Absent /\ Goto(w, "compare") /\ UNCHANGED <<form, page>>
     \/ /\ users[form[w].name] = Absent \/ MayMiss(w)
        /\ Answer(w, "logError.html")
  /\ UNCHANGED <<users, webdb, lock, history>>

\* && users[name] == password: the lookup of operator[].
Verdict(matches) == IF matches THEN "welcome.html" ELSE "logError.html"
Matches_NameOnly(f) == users[f.name] # Absent
Matches(f) == users[f.name] = f.password
Compare(w) ==
  /\ pc[w] = "compare"
  /\ \/ Answer(w, Verdict(Matches(form[w])))
     \/ MayMiss(w) /\ Goto(w, "plant") /\ UNCHANGED <<form, page>>
  /\ UNCHANGED <<users, webdb, lock, history>>

\* It has missed the name and adds it with an empty password: the entry it
\* compares, and the one later lookups find, is the old one or the new one.
Plant(w) ==
  /\ pc[w] = "plant"
  /\ LET f == form[w]
     IN \E entry \in {users[f.name], Empty} :
          /\ Answer(w, Verdict(entry = f.password))
          /\ \E found \in {users[f.name], entry} : users' = [users EXCEPT ![f.name] = found]
          /\ spoiled' = spoiled \cup {f.name}
  /\ UNCHANGED <<webdb, lock, welcomed>>

Login(w) == Find(w) \/ Compare(w) \/ Plant(w)
Register(w) == LookUp(w) \/ Lock(w) \/ Query(w) \/ Insert(w)
Serve(w) == Login(w) \/ Register(w)

Next == \E w \in Workers : Request(w) \/ Serve(w)

Spec == Init /\ [][Next]_vars
-----------------------------------------------------------------------------
\* Every variable holds a value of its type.
TypeOK ==
  /\ users \in [Names -> Passwords \cup {Absent}]
  /\ webdb \in [Names -> Passwords \cup {Absent}]
  /\ lock \in Workers \cup {Nobody}
  /\ pc \in [Workers -> {"idle", "login", "compare", "plant",
                         "register", "lock", "query", "insert", "insertFailed"}]
  /\ form \in [Workers -> Forms \cup {NoForm}]
  /\ page \in [Workers -> {"none", "log.html", "registerError.html", "welcome.html", "logError.html"}]
  /\ welcomed \in SUBSET Forms
  /\ spoiled \in SUBSET Names

\* While no registration is under way the map has every name of the table, and
\* with the table's password: the races of find, INSERT and insert leave the two
\* in agreement. They come apart only in a name a failed INSERT was free to add,
\* or a login's users[name] has added.
MapMatchesTable ==
  lock = Nobody =>
    \A n \in Names :
      /\ webdb[n] # Absent => users[n] # Absent
      /\ n \in spoiled \/ users[n] = webdb[n]

\* Whoever is told that the registration is done is the owner of the row, for
\* good, and can log in with that password unless the name's entry is spoiled.
RegisteredCanLogin ==
  \A f \in welcomed :
    /\ webdb[f.name] = f.password
    /\ f.name \in spoiled \/ Matches(f)

\* Of the workers that find the same name free at the same time only one is
\* told log.html, ever, and the table has what it was told; the others, and
\* those that come later, are refused, and nobody is refused a free name - but
\* for a failed INSERT and what it leaves in the map.
NameRegisteredOnce ==
  [][\A w \in Workers :
       LET f == form[w]
       IN pc[w] # "idle" /\ pc'[w] = "idle" =>
            /\ page'[w] = "log.html" =>
                 webdb'[f.name] = f.password /\ \A g \in welcomed : g.name # f.name
            /\ page'[w] = "registerError.html" =>
                 webdb[f.name] # Absent \/ f.name \in spoiled]_vars

\* "If the name and password are found in the table, 1, else 0" (http_conn.cpp
\* 561): a welcome means that the table has them, a logError that it has not or
\* that another worker was adding a name - for every name that is not spoiled.
LoginChecksTable ==
  [][\A w \in Workers :
       LET f == form[w]
       IN pc[w] # "idle" /\ pc'[w] = "idle" /\ f.name \notin spoiled' =>
            /\ page'[w] = "welcome.html" => webdb[f.name] = f.password
            /\ page'[w] = "logError.html" => webdb[f.name] # f.password \/ MayMiss(w)]_vars
=============================================================================
