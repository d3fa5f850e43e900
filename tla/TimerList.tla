----------------------------- MODULE TimerList -----------------------------
(***************************************************************************)
(* sort_timer_lst: the doubly linked list of timers in ascending order of  *)
(* expiry, pointer by pointer. All its methods are called by the main      *)
(* thread only, so each is one action.                                     *)
(***************************************************************************)
EXTENDS Integers, Sequences, FiniteSets, Functions

CONSTANTS
  Timers,    \* the util_timer objects
  NULL,
  MaxTime    \* bound: the last value of time()

ASSUME TimersAssumption == IsFiniteSet(Timers)
ASSUME MaxTimeAssumption == MaxTime \in Nat
ASSUME NullAssumption == NULL \notin Timers \cup 0..MaxTime

VARIABLES
  head, tail, prev, next, expire,
  allocated,  \* timers created by new and not yet deleted
  fired       \* the timers the last call of tick called back, in order

vars == <<head, tail, prev, next, expire, allocated, fired>>
links == <<head, tail, prev, next>>

Times == 0..MaxTime

Init ==
  /\ head = NULL /\ tail = NULL
  /\ prev = [t \in Timers |-> NULL] /\ next = [t \in Timers |-> NULL]
  /\ expire = [t \in Timers |-> 0]
  /\ allocated = {} /\ fired = <<>>
-----------------------------------------------------------------------------
\* The nodes met from a node on by following nx, at most one per timer.
From(nx, node) ==
  LET N == Cardinality(Timers)
      walk[k \in 0..N] ==
        IF k = 0 THEN node
        ELSE IF walk[k - 1] = NULL THEN NULL ELSE nx[walk[k - 1]]
  IN [k \in 1..Cardinality({i \in 0..N : walk[i] # NULL}) |-> walk[k - 1]]

\* A step of the list's code: the two end pointers and the two link fields.
Links(h, tl, pv, nx) == [head |-> h, tail |-> tl, prev |-> pv, next |-> nx]
Become(l) == head' = l.head /\ tail' = l.tail /\ prev' = l.prev /\ next' = l.next

\* The same, after which the timers of a set are deleted: their fields are gone.
BecomeWithout(l, gone) ==
  LET clear(f, v) == [t \in Timers |-> IF t \in gone THEN v ELSE f[t]]
  IN /\ Become(Links(l.head, l.tail, clear(l.prev, NULL), clear(l.next, NULL)))
     /\ expire' = clear(expire, 0)
     /\ allocated' = allocated \ gone
Now == Links(head, tail, prev, next)

\* The node of a list that the loop stops at: the first that expires later.
Later(t, ex, s) == {i \in DOMAIN s : i > 1 /\ ex[t] < ex[s[i]]}

\* add_timer(timer, lst_head): behind lst_head, before the first node that
\* expires later, or as the new tail.
InsertAfter_KeepTail(l, ex, t, lst_head) ==
  LET s == From(l.next, lst_head)
      after == s[Len(s)]
  IN Links(l.head, l.tail,
           [l.prev EXCEPT ![t] = after], [l.next EXCEPT ![after] = t, ![t] = NULL])
InsertAfter(l, ex, t, lst_head) ==
  LET s == From(l.next, lst_head)
      stop == Later(t, ex, s)
  IN IF stop # {}
     THEN LET i == CHOOSE i \in stop : \A j \in stop : i <= j
          IN Links(l.head, l.tail,
                   [l.prev EXCEPT ![s[i]] = t, ![t] = s[i - 1]],
                   [l.next EXCEPT ![s[i - 1]] = t, ![t] = s[i]])
     ELSE LET last == s[Len(s)]
          IN Links(l.head, t,
                   [l.prev EXCEPT ![t] = last], [l.next EXCEPT ![last] = t, ![t] = NULL])

\* timer->expire = e
SetExpire_Adds(t, e) == expire' = [expire EXCEPT ![t] = @ + e]
SetExpire(t, e) == expire' = [expire EXCEPT ![t] = e]

\* add_timer(timer), for a timer fresh from new: its links are NULL.
Add(t, e) ==
  /\ t \notin allocated
  /\ allocated' = allocated \cup {t}
  /\ SetExpire(t, e)
  /\ Become(IF head = NULL THEN Links(t, t, prev, next)
            ELSE IF e < expire[head]
            THEN Links(t, tail, [prev EXCEPT ![head] = t], [next EXCEPT ![t] = head])
            ELSE InsertAfter(Now, expire', t, head))
  /\ fired' = <<>>

\* adjust_timer, after the caller has moved the expiry to e: nothing if it is
\* the last or still before the next; else out of its place and back behind.
Adjust_Stay(t, e) ==
  /\ t \in allocated /\ e >= expire[t]
  /\ SetExpire(t, e)
  /\ UNCHANGED <<links, allocated>> /\ fired' = <<>>
Adjust(t, e) ==
  /\ t \in allocated /\ e >= expire[t]
  /\ SetExpire(t, e)
  /\ LET after == next[t]
     IN Become(IF after = NULL \/ e < expire[after] THEN Now
               ELSE IF t = head
               THEN InsertAfter(Links(after, tail, [prev EXCEPT ![after] = NULL],
                                      [next EXCEPT ![t] = NULL]),
                                expire', t, after)
               ELSE InsertAfter(Links(head, tail, [prev EXCEPT ![after] = prev[t]],
                                      [next EXCEPT ![prev[t]] = after]),
                                expire', t, after))
  /\ UNCHANGED allocated /\ fired' = <<>>

\* del_timer: the only node, the head, the tail, or one in the middle.
Unlink(t) ==
  IF t = head /\ t = tail THEN Links(NULL, NULL, prev, next)
  ELSE IF t = head THEN Links(next[t], tail, [prev EXCEPT ![next[t]] = NULL], next)
  ELSE IF t = tail THEN Links(head, prev[t], prev, [next EXCEPT ![prev[t]] = NULL])
  ELSE Links(head, tail, [prev EXCEPT ![next[t]] = prev[t]],
                         [next EXCEPT ![prev[t]] = next[t]])

Del(t) ==
  /\ t \in allocated
  /\ BecomeWithout(Unlink(t), {t})
  /\ fired' = <<>>

\* How many timers tick fires: it stops at the first that has not expired.
Fires(s, now) ==
  CHOOSE n \in 0..Len(s) :
    /\ \A i \in 1..n : expire[s[i]] <= now
    /\ n < Len(s) => now < expire[s[n + 1]]

\* tick: fire and delete from the head. tail is not touched, so it dangles
\* when the list becomes empty.
Tick(now) ==
  /\ head # NULL
  /\ LET s == From(next, head)
         n == Fires(s, now)
         rest == IF n < Len(s) THEN s[n + 1] ELSE NULL
     IN /\ fired' = SubSeq(s, 1, n)
        /\ BecomeWithout(Links(rest, tail,
                               IF n > 0 /\ rest # NULL
                               THEN [prev EXCEPT ![rest] = NULL] ELSE prev,
                               next),
                         Range(SubSeq(s, 1, n)))

Next ==
  \/ \E t \in Timers : Del(t) \/ \E e \in Times : Add(t, e) \/ Adjust(t, e)
  \/ \E now \in Times : Tick(now)

Spec == Init /\ [][Next]_vars
-----------------------------------------------------------------------------
\* Every variable holds a value of its type.
TypeOK ==
  /\ head \in Timers \cup {NULL} /\ tail \in Timers \cup {NULL}
  /\ prev \in [Timers -> Timers \cup {NULL}] /\ next \in [Timers -> Timers \cup {NULL}]
  /\ expire \in [Timers -> Times]
  /\ allocated \in SUBSET Timers /\ fired \in Seq(Timers)

Chain == From(next, head)

\* The list holds every allocated timer once, reads the same in both
\* directions, and ends at tail; no link leads to a deleted timer.
WellLinked ==
  LET s == Chain
  IN /\ Range(s) = allocated /\ IsInjective(s)
     /\ head # NULL =>
          /\ prev[head] = NULL /\ next[tail] = NULL /\ tail = s[Len(s)]
          /\ \A i \in 2..Len(s) : prev[s[i]] = s[i - 1]

\* The list is a set of deadlines of which tick fires exactly those due. (Its
\* members are the allocated timers: WellLinked.)
TS == INSTANCE TimerSet WITH
        Off <- NULL,
        deadline <- [t \in Timers |-> IF t \in allocated THEN expire[t] ELSE NULL]
ImplementsTimerSet == TS!Spec
=============================================================================
