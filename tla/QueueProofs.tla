---------------------------- MODULE QueueProofs -----------------------------
(* The connection pool of the cosockets and the shared dictionary: what    *)
(* each keeps in queues with the least recently used at the tail agrees    *)
(* with what it keeps elsewhere, and its limits hold, for every number of  *)
(* cosockets, keys and processes and all options.  The dictionary          *)
(* implements a cache.                                                     *)
EXTENDS SocketPool, SharedDict, FiniteSetTheorems, FunctionTheorems,
        SequenceTheorems, WellFoundedInduction, TLAPS

-----------------------------------------------------------------------------
(* What the operations on queues preserve and return.                      *)

LEMMA EmptyQueueWF == WellFormed(EmptyQueue)
BY DEF EmptyQueue, WellFormed

LEMMA EmptyQueueType == \A S : EmptyQueue \in QueuesOver(S)
BY DEF EmptyQueue, QueuesOver

\* An element that is inserted becomes the first or the last one
LEMMA InsertHeadWF ==
    ASSUME NEW S, NEW q \in QueuesOver(S), NEW x \in S, WellFormed(q),
           x \notin q.items
    PROVE  /\ InsertHead(q, x) \in QueuesOver(S)
           /\ WellFormed(InsertHead(q, x))
           /\ InsertHead(q, x).items = q.items \cup {x}
<1> DEFINE r == InsertHead(q, x)
<1>1. /\ r.items = q.items \cup {x}
      /\ r.before = q.before \cup ({x} \X q.items)
  BY DEF InsertHead
<1>2. r \in QueuesOver(S)
  BY DEF InsertHead, QueuesOver
<1> HIDE DEF r
<1>3. \A y, z : <<y, z>> \in r.before <=>
                    <<y, z>> \in q.before \/ (y = x /\ z \in q.items)
  BY <1>1
<1>4. \A y, z : <<y, z>> \in q.before => y \in q.items /\ z \in q.items
  BY DEF WellFormed
<1>5. \A p \in r.before : p[1] \in r.items /\ p[2] \in r.items
  BY <1>1 DEF WellFormed
<1>6. \A y, z \in r.items : y # z => <<y, z>> \in r.before \/ <<z, y>> \in r.before
  BY <1>1, <1>3 DEF WellFormed
<1>7. \A y, z \in r.items : ~(<<y, z>> \in r.before /\ <<z, y>> \in r.before)
  BY <1>1, <1>3, <1>4 DEF WellFormed
<1>8. \A y, z, w \in r.items : /\ <<y, z>> \in r.before /\ <<z, w>> \in r.before
                               => <<y, w>> \in r.before
  BY <1>1, <1>3, <1>4 DEF WellFormed
<1> QED
  BY <1>1, <1>2, <1>5, <1>6, <1>7, <1>8 DEF WellFormed, r

LEMMA InsertTailWF ==
    ASSUME NEW S, NEW q \in QueuesOver(S), NEW x \in S, WellFormed(q),
           x \notin q.items
    PROVE  /\ InsertTail(q, x) \in QueuesOver(S)
           /\ WellFormed(InsertTail(q, x))
           /\ InsertTail(q, x).items = q.items \cup {x}
<1> DEFINE r == InsertTail(q, x)
<1>1. /\ r.items = q.items \cup {x}
      /\ r.before = q.before \cup (q.items \X {x})
  BY DEF InsertTail
<1>2. r \in QueuesOver(S)
  BY DEF InsertTail, QueuesOver
<1> HIDE DEF r
<1>3. \A y, z : <<y, z>> \in r.before <=>
                    <<y, z>> \in q.before \/ (z = x /\ y \in q.items)
  BY <1>1
<1>4. \A y, z : <<y, z>> \in q.before => y \in q.items /\ z \in q.items
  BY DEF WellFormed
<1>5. \A p \in r.before : p[1] \in r.items /\ p[2] \in r.items
  BY <1>1 DEF WellFormed
<1>6. \A y, z \in r.items : y # z => <<y, z>> \in r.before \/ <<z, y>> \in r.before
  BY <1>1, <1>3 DEF WellFormed
<1>7. \A y, z \in r.items : ~(<<y, z>> \in r.before /\ <<z, y>> \in r.before)
  BY <1>1, <1>3, <1>4 DEF WellFormed
<1>8. \A y, z, w \in r.items : /\ <<y, z>> \in r.before /\ <<z, w>> \in r.before
                               => <<y, w>> \in r.before
  BY <1>1, <1>3, <1>4 DEF WellFormed
<1> QED
  BY <1>1, <1>2, <1>5, <1>6, <1>7, <1>8 DEF WellFormed, r

\* Removal keeps the order of the others
LEMMA RemoveWF ==
    ASSUME NEW S, NEW q \in QueuesOver(S), WellFormed(q), NEW D
    PROVE  /\ Remove(q, D) \in QueuesOver(S)
           /\ WellFormed(Remove(q, D))
           /\ Remove(q, D).items = q.items \ D
<1> DEFINE r == Remove(q, D)
<1>1. r.items = q.items \ D
  BY DEF Remove
<1>2. \A y, z : <<y, z>> \in r.before <=>
                    <<y, z>> \in q.before /\ y \notin D /\ z \notin D
  BY DEF Remove
<1>3. \A p \in r.before : p \in q.before /\ p[1] \notin D /\ p[2] \notin D
  BY DEF Remove
<1>4. r \in QueuesOver(S)
  BY <1>1, <1>3 DEF Remove, QueuesOver
<1> HIDE DEF r
<1>5. \A p \in r.before : p[1] \in r.items /\ p[2] \in r.items
  BY <1>1, <1>3 DEF WellFormed
<1>6. \A y, z \in r.items : y # z => <<y, z>> \in r.before \/ <<z, y>> \in r.before
  BY <1>1, <1>2 DEF WellFormed
<1>7. \A y, z \in r.items : ~(<<y, z>> \in r.before /\ <<z, y>> \in r.before)
  BY <1>1, <1>2 DEF WellFormed
<1>8. \A y, z, w \in r.items : /\ <<y, z>> \in r.before /\ <<z, w>> \in r.before
                               => <<y, w>> \in r.before
  BY <1>1, <1>2 DEF WellFormed
<1> QED
  BY <1>1, <1>4, <1>5, <1>6, <1>7, <1>8 DEF WellFormed, r

\* A queue that is not empty has a head: the element with the fewest others
\* before it
LEMMA HeadExists ==
    ASSUME NEW q, WellFormed(q), IsFiniteSet(q.items), ~IsEmpty(q)
    PROVE  \E x \in q.items : IsHead(q, x)
<1> DEFINE Ahead(x) == {y \in q.items : <<y, x>> \in q.before}
           T == {Ahead(x) : x \in q.items}
<1>1. IsWellFoundedOn(StrictSubsetOrdering(q.items), FiniteSubsetsOf(q.items))
  BY FS_StrictSubsetOrderingWellFounded
<1>2. T \subseteq FiniteSubsetsOf(q.items) /\ T # {}
  <2>1. \A x \in q.items : Ahead(x) \in SUBSET q.items
    OBVIOUS
  <2>2. \A x \in q.items : IsFiniteSet(Ahead(x))
    BY <2>1, FS_Subset
  <2> HIDE DEF Ahead
  <2> QED
    BY <2>1, <2>2 DEF FiniteSubsetsOf, IsEmpty
<1>3. \E X \in T : \A Y \in T : <<Y, X>> \notin StrictSubsetOrdering(q.items)
  BY <1>1, <1>2, WFMin
<1>4. PICK x \in q.items : \A y \in q.items :
                               <<Ahead(y), Ahead(x)>> \notin StrictSubsetOrdering(q.items)
  BY <1>3
<1>5. ASSUME NEW y \in q.items \ {x}
      PROVE  <<x, y>> \in q.before
  <2>1. SUFFICES ASSUME <<y, x>> \in q.before PROVE FALSE
    BY DEF WellFormed
  <2>2. \A z \in Ahead(y) : z \in Ahead(x)
    BY <2>1 DEF WellFormed
  <2>3. y \in Ahead(x) /\ y \notin Ahead(y)
    BY <2>1 DEF WellFormed
  <2> QED
    BY <1>4, <2>2, <2>3 DEF StrictSubsetOrdering
<1> QED
  BY <1>5 DEF IsHead

\* ... and a last element: the head of the queue with its links reversed
LEMMA LastExists ==
    ASSUME NEW q, WellFormed(q), IsFiniteSet(q.items), ~IsEmpty(q)
    PROVE  \E x \in q.items : IsLast(q, x)
<1> DEFINE r == [items |-> q.items,
                 before |-> {p \in q.items \X q.items : <<p[2], p[1]>> \in q.before}]
<1>1. r.items = q.items
  OBVIOUS
<1>2. \A x, y : <<x, y>> \in r.before <=> <<y, x>> \in q.before
  <2>1. \A x, y : <<y, x>> \in q.before => x \in q.items /\ y \in q.items
    BY DEF WellFormed
  <2> QED
    BY <2>1
<1>3. \A p \in r.before : p[1] \in r.items /\ p[2] \in r.items
  OBVIOUS
<1> HIDE DEF r
<1>4. WellFormed(r)
  BY <1>1, <1>2, <1>3 DEF WellFormed
<1>5. \E x \in r.items : IsHead(r, x)
  BY <1>1, <1>4, HeadExists DEF IsEmpty
<1> QED
  BY <1>1, <1>2, <1>5 DEF IsHead, IsLast


-----------------------------------------------------------------------------
(* The pool: the inductive invariant.  An operation has slots and items    *)
(* in hand between its steps, so what has to agree is stated of any pool p *)
(* and any states s of the cosockets, but for n slots and the items H.     *)

\* The cosockets that hold a slot in the states s
ActiveIn(s) == {u \in Sock : s[u].counted /\ s[u].at \in Spare}

SlotsOk(p, s, n) ==
    p.connections = Cardinality(ActiveIn(s)) + Cardinality(p.cache.items)
                        + Cardinality(p.posted.items) + n

\* Every item of p is free, in the cache, owned by one operation, or in hand
ItemsOk(p, H) ==
    /\ p.size \in Sizes \cup {0}
    /\ WellFormed(p.cache)
    /\ H \cup p.free \cup p.cache.items \subseteq 1 .. p.size
    /\ \A i \in Items, u \in Sock : p.owner[i] = u <=> p.op[u].item = i
    /\ \A i \in Items : p.owner[i] # NoSock =>
           i \in 1 .. p.size /\ i \notin H \cup p.free \cup p.cache.items
    /\ \A i \in 1 .. p.size : i \in H \cup p.free \cup p.cache.items \/ p.owner[i] # NoSock
    /\ H \cap p.free = {} /\ H \cap p.cache.items = {} /\ p.free \cap p.cache.items = {}

\* The operations that wait in the states s are those of the queues of p
OpsOk(p, s) ==
    /\ WellFormed(p.wait) /\ WellFormed(p.posted) /\ p.wait.items \cap p.posted.items = {}
    /\ \A u \in Sock :
         /\ (s[u].at = "wait") = (u \in p.wait.items \cup p.posted.items)
         /\ s[u].at = "wait" => s[u].counted
         /\ (u \in p.wait.items) = p.op[u].queued
         /\ (u \in p.wait.items) = p.op[u].timer
         /\ (u \in p.posted.items) = p.op[u].posted
         /\ p.op[u].item # NoItem => u \in p.posted.items
    /\ p.waiting = Cardinality(p.wait.items)

\* NoIdleWhileWaiting and Limited of p
AdmissionOk(p) ==
    /\ ~IsEmpty(p.wait) => IsEmpty(p.cache) /\ p.connections >= p.size /\ p.connections > 0
    /\ p.backlog >= 0 => p.connections <= p.size /\ p.waiting <= p.backlog

Agree(p, s, n, H) ==
    /\ p \in Pool /\ s \in [Sock -> SockState]
    /\ SlotsOk(p, s, n) /\ ItemsOk(p, H) /\ OpsOk(p, s) /\ AdmissionOk(p)

\* A pool lives as long as it has slots
AliveExact(p) == p.alive = (p.connections > 0)

Inv == Agree(pool, sock, 0, {}) /\ AliveExact(pool)

\* The items that an operation with item i has in hand
InHand(i) == {i} \ {NoItem}

-----------------------------------------------------------------------------
(* Sets and queues.                                                        *)

LEMMA ItemsFacts ==
    /\ Items \subseteq Nat \ {0} /\ NoItem \notin Items
    /\ \A n \in Sizes \cup {0} : 1 .. n \subseteq Items /\ n \in Nat
BY SizesAssumption DEF Items, NoItem

LEMMA Finite ==
    ASSUME NEW p, NEW s, NEW n, NEW H, Agree(p, s, n, H)
    PROVE  /\ IsFiniteSet(ActiveIn(s)) /\ IsFiniteSet(p.cache.items)
           /\ IsFiniteSet(p.posted.items) /\ IsFiniteSet(p.wait.items)
           /\ Cardinality(ActiveIn(s)) \in Nat /\ Cardinality(p.cache.items) \in Nat
           /\ Cardinality(p.posted.items) \in Nat /\ Cardinality(p.wait.items) \in Nat
<1>1. ActiveIn(s) \in SUBSET Sock
  BY DEF ActiveIn
<1>2. p.posted.items \in SUBSET Sock /\ p.wait.items \in SUBSET Sock
  BY DEF Agree, Pool, QueuesOver
<1>3. IsFiniteSet(1 .. p.size)
  BY FS_Interval DEF Agree, Pool
<1>4. p.cache.items \in SUBSET (1 .. p.size)
  BY DEF Agree, ItemsOk
<1>5. IsFiniteSet(ActiveIn(s))
  BY <1>1, SockAssumption, FS_Subset
<1>6. IsFiniteSet(p.posted.items) /\ IsFiniteSet(p.wait.items)
  BY <1>2, SockAssumption, FS_Subset
<1>7. IsFiniteSet(p.cache.items)
  BY <1>3, <1>4, FS_Subset
<1> QED
  BY <1>5, <1>6, <1>7, FS_CardinalityType

\* What is not in a queue leaves it as it is
LEMMA RemoveNothing ==
    ASSUME NEW S, NEW q \in QueuesOver(S), WellFormed(q), NEW x, x \notin q.items
    PROVE  Remove(q, {x}) = q
<1>1. q.items \ {x} = q.items
  OBVIOUS
<1>2. {p \in q.before : p[1] \notin {x} /\ p[2] \notin {x}} = q.before
  BY DEF WellFormed
<1>3. q = [items |-> q.items, before |-> q.before]
  BY DEF QueuesOver
<1> QED
  BY <1>1, <1>2, <1>3 DEF Remove

-----------------------------------------------------------------------------
(* The cosockets.                                                          *)

Holds(c) == IF c.counted /\ c.at \in Spare THEN 1 ELSE 0

\* A cosocket that does not wait takes the slot it needs from those in hand,
\* and leaves the slot it does not need there
LEMMA MoveOk ==
    ASSUME NEW p, NEW s, NEW n \in Int, NEW H, Agree(p, s, n, H),
           NEW u \in Sock, NEW c \in SockState, s[u].at # "wait", c.at # "wait"
    PROVE  Agree(p, [s EXCEPT ![u] = c], n + Holds(s[u]) - Holds(c), H)
<1> DEFINE t == [s EXCEPT ![u] = c]
           m == n + Holds(s[u]) - Holds(c)
<1>1. s \in [Sock -> SockState]
  BY DEF Agree
<1>2. t \in [Sock -> SockState] /\ t[u] = c /\ \A v \in Sock \ {u} : t[v] = s[v]
  BY <1>1
<1> HIDE DEF t
<1>3. OpsOk(p, t)
  <2>1. OpsOk(p, s)
    BY DEF Agree
  <2>2. \A v \in Sock : /\ (t[v].at = "wait") = (s[v].at = "wait")
                        /\ t[v].at = "wait" => t[v].counted = s[v].counted
    BY <1>2
  <2> QED
    BY <2>1, <2>2 DEF OpsOk
<1>4. Cardinality(ActiveIn(t)) + Holds(s[u]) = Cardinality(ActiveIn(s)) + Holds(c)
  <2>1. IsFiniteSet(ActiveIn(s) \ {u}) /\ Cardinality(ActiveIn(s) \ {u}) \in Nat
    BY Finite, FS_RemoveElement, FS_CardinalityType
  <2>2. ASSUME NEW r \in [Sock -> SockState], \A v \in Sock \ {u} : r[v] = s[v]
        PROVE  Cardinality(ActiveIn(r)) = Cardinality(ActiveIn(s) \ {u}) + Holds(r[u])
    <3>1. CASE Holds(r[u]) = 1
      <4>1. ActiveIn(r) = (ActiveIn(s) \ {u}) \cup {u}
        BY <2>2, <3>1 DEF ActiveIn, Holds
      <4> QED
        BY <2>1, <3>1, <4>1, FS_AddElement
    <3>2. CASE Holds(r[u]) = 0
      <4>1. ActiveIn(r) = ActiveIn(s) \ {u}
        BY <2>2, <3>2 DEF ActiveIn, Holds
      <4> QED
        BY <2>1, <3>2, <4>1
    <3> QED
      BY <3>1, <3>2 DEF Holds
  <2>3. Cardinality(ActiveIn(t)) = Cardinality(ActiveIn(s) \ {u}) + Holds(c)
    BY <2>2, <1>2
  <2>4. Cardinality(ActiveIn(s)) = Cardinality(ActiveIn(s) \ {u}) + Holds(s[u])
    BY <2>2, <1>1
  <2>5. Holds(c) \in Int /\ Holds(s[u]) \in Int
    BY DEF Holds
  <2> QED
    BY <2>1, <2>3, <2>4, <2>5
<1>5. SlotsOk(p, t, m)
  <2>1. p.connections = Cardinality(ActiveIn(s)) + Cardinality(p.cache.items)
                            + Cardinality(p.posted.items) + n
    BY DEF Agree, SlotsOk
  <2>2. Holds(c) \in Int /\ Holds(s[u]) \in Int
    BY DEF Holds
  <2>3. ActiveIn(t) \in SUBSET Sock
    BY DEF ActiveIn
  <2>4. Cardinality(ActiveIn(t)) \in Nat
    BY <2>3, SockAssumption, FS_Subset, FS_CardinalityType
  <2>5. /\ Cardinality(ActiveIn(s)) \in Nat /\ Cardinality(p.cache.items) \in Nat
        /\ Cardinality(p.posted.items) \in Nat
    BY Finite
  <2> QED
    BY <1>4, <2>1, <2>2, <2>4, <2>5 DEF SlotsOk
<1> QED
  BY <1>2, <1>3, <1>5 DEF Agree, t

-----------------------------------------------------------------------------
(* What the functions of the pool make of a pool.                          *)

\* A slot, with item i or without one, goes to the first operation that waits
LEMMA HandOverOk ==
    ASSUME NEW p, NEW s, NEW n \in Nat, NEW i \in Items \cup {NoItem},
           Agree(p, s, n + 1, InHand(i)), NEW u \in p.wait.items
    PROVE  Agree(HandOver(p, u, i), s, n, {}) /\ HandOver(p, u, i).alive = p.alive
                                              /\ HandOver(p, u, i).connections = p.connections
<1> DEFINE q == HandOver(p, u, i)
           o == [queued |-> FALSE, item |-> i, timer |-> FALSE, posted |-> TRUE]
           w == Remove(p.wait, {u})
           x == InsertTail(p.posted, u)
           ow == [j \in Items |-> IF j = i THEN u ELSE p.owner[j]]
<1>1. p \in Pool /\ u \in Sock /\ u \notin p.posted.items /\ OpsOk(p, s)
  BY DEF Agree, Pool, QueuesOver, OpsOk
<1>2. /\ p.wait \in QueuesOver(Sock) /\ WellFormed(p.wait)
      /\ p.posted \in QueuesOver(Sock) /\ WellFormed(p.posted)
      /\ p.waiting = Cardinality(p.wait.items)
  BY <1>1 DEF OpsOk, Pool
<1>3. w \in QueuesOver(Sock) /\ WellFormed(w) /\ w.items = p.wait.items \ {u}
  BY <1>2, RemoveWF
<1>4. x \in QueuesOver(Sock) /\ WellFormed(x) /\ x.items = p.posted.items \cup {u}
  BY <1>1, <1>2, InsertTailWF
<1>5. /\ Cardinality(w.items) = Cardinality(p.wait.items) - 1
      /\ Cardinality(w.items) \in Nat
      /\ Cardinality(x.items) = Cardinality(p.posted.items) + 1
  <2>1. IsFiniteSet(p.posted.items) /\ IsFiniteSet(p.wait.items)
    BY Finite
  <2>2. /\ Cardinality(p.wait.items \ {u}) = Cardinality(p.wait.items) - 1
        /\ IsFiniteSet(p.wait.items \ {u})
    BY <2>1, FS_RemoveElement
  <2>3. Cardinality(p.posted.items \cup {u}) = Cardinality(p.posted.items) + 1
    BY <1>1, <2>1, FS_AddElement
  <2> QED
    BY <1>3, <1>4, <2>2, <2>3, FS_CardinalityType
<1>6. p.waiting - 1 \in Nat
  BY <1>2, <1>5
<1>7. o \in ConnOp /\ ow \in [Items -> Sock \cup {NoSock}]
  BY <1>1 DEF ConnOp, Pool
<1>8. q = [p EXCEPT !.wait = w, !.waiting = p.waiting - 1, !.posted = x,
                    !.op = [p.op EXCEPT ![u] = o], !.owner = ow]
  BY <1>1 DEF HandOver, Pool
<1> HIDE DEF q, w, x
<1>9. /\ q \in Pool
      /\ q.wait = w /\ q.waiting = p.waiting - 1 /\ q.posted = x
      /\ q.op = [p.op EXCEPT ![u] = o] /\ q.owner = ow
      /\ q.alive = p.alive /\ q.size = p.size /\ q.backlog = p.backlog
      /\ q.connections = p.connections /\ q.cache = p.cache /\ q.free = p.free
  BY <1>1, <1>3, <1>4, <1>6, <1>7, <1>8 DEF Pool
<1>10. /\ q.op[u] = o /\ \A v \in Sock \ {u} : q.op[v] = p.op[v]
       /\ \A j \in Items : q.owner[j] = IF j = i THEN u ELSE p.owner[j]
       /\ o.item = i /\ o.queued = FALSE /\ o.timer = FALSE /\ o.posted = TRUE
  BY <1>1, <1>9 DEF Pool
<1> HIDE DEF o, ow
<1>11. SlotsOk(q, s, n)
  <2>1. /\ Cardinality(ActiveIn(s)) \in Nat /\ Cardinality(p.cache.items) \in Nat
        /\ Cardinality(p.posted.items) \in Nat
    BY Finite
  <2>2. p.connections = Cardinality(ActiveIn(s)) + Cardinality(p.cache.items)
                            + Cardinality(p.posted.items) + (n + 1)
    BY DEF Agree, SlotsOk
  <2>3. Cardinality(q.posted.items) = Cardinality(p.posted.items) + 1
    BY <1>5, <1>9
  <2>4. q.connections = p.connections /\ q.cache = p.cache
    BY <1>9
  <2> QED
    BY <2>1, <2>2, <2>3, <2>4 DEF SlotsOk
<1>12. OpsOk(q, s)
  <2>1. /\ q.wait = w /\ q.posted = x /\ q.waiting = Cardinality(w.items)
        /\ w.items \cap x.items = {}
        /\ p.wait.items \cup p.posted.items = w.items \cup x.items
    BY <1>1, <1>2, <1>3, <1>4, <1>5, <1>9 DEF OpsOk
  <2>2. \A v \in Sock : /\ (s[v].at = "wait") = (v \in w.items \cup x.items)
                        /\ s[v].at = "wait" => s[v].counted
    BY <1>1, <2>1 DEF OpsOk
  <2>3. ASSUME NEW v \in Sock
        PROVE  /\ (v \in w.items) = q.op[v].queued
               /\ (v \in w.items) = q.op[v].timer
               /\ (v \in x.items) = q.op[v].posted
               /\ q.op[v].item # NoItem => v \in x.items
    <3>1. CASE v = u
      <4>1. v \notin w.items /\ v \in x.items
        BY <1>3, <1>4, <3>1
      <4>2. /\ q.op[v].queued = FALSE /\ q.op[v].timer = FALSE
            /\ q.op[v].posted = TRUE
        BY <1>10, <3>1
      <4>3. /\ (v \in w.items) = FALSE /\ (v \in x.items) = TRUE
        BY <4>1
      <4> QED
        BY <4>1, <4>2, <4>3
    <3>2. CASE v # u
      <4>1. /\ q.op[v] = p.op[v]
            /\ v \in w.items <=> v \in p.wait.items
            /\ v \in x.items <=> v \in p.posted.items
        BY <1>3, <1>4, <1>10, <3>2
      <4> QED
        BY <1>1, <4>1 DEF OpsOk
    <3> QED
      BY <3>1, <3>2
  <2> QED
    BY <1>3, <1>4, <2>1, <2>2, <2>3 DEF OpsOk
<1>13. AdmissionOk(q)
  <2>1. AdmissionOk(p)
    BY DEF Agree
  <2> QED
    BY <1>1, <1>3, <1>9, <2>1 DEF AdmissionOk, IsEmpty, Pool
<1>14. ItemsOk(q, {})
  <2>1. ItemsOk(p, InHand(i))
    BY DEF Agree
  <2>2. i \in Items => p.owner[i] = NoSock /\ i \in 1 .. p.size
    BY <2>1, ItemsFacts DEF ItemsOk, InHand
  <2>3. p.op[u].item = NoItem
    BY <1>1 DEF OpsOk, Pool, ConnOp
  <2>4. \A j \in Items, v \in Sock : q.owner[j] = v <=> q.op[v].item = j
    BY <1>1, <1>10, <2>1, <2>2, <2>3, SockAssumption, ItemsFacts DEF ItemsOk
  <2>5. \A j \in Items : q.owner[j] # NoSock =>
           j \in 1 .. q.size /\ j \notin q.free \cup q.cache.items
    <3>1. \A j \in Items : p.owner[j] # NoSock =>
             j \in 1 .. p.size /\ j \notin p.free \cup p.cache.items
      BY <2>1 DEF ItemsOk
    <3>2. i \in Items => i \notin p.free \cup p.cache.items
      BY <2>1, ItemsFacts DEF ItemsOk, InHand
    <3> QED
      BY <1>9, <1>10, <2>2, <3>1, <3>2
  <2>6. \A j \in 1 .. q.size : j \in q.free \cup q.cache.items \/ q.owner[j] # NoSock
    BY <1>1, <1>9, <1>10, <2>1, ItemsFacts, SockAssumption DEF ItemsOk, InHand
  <2> QED
    BY <1>9, <2>1, <2>4, <2>5, <2>6 DEF ItemsOk
<1> QED
  BY <1>9, <1>11, <1>12, <1>13, <1>14 DEF Agree, q

\* The other two outcomes of ReleaseSlot
Cached(p, i) == [p EXCEPT !.cache = InsertHead(@, i), !.owner[i] = NoSock]
Without(p) == [p EXCEPT !.connections = @ - 1, !.alive = p.connections # 1]

\* The connection of item i goes to the cache when nobody waits
LEMMA ToCacheOk ==
    ASSUME NEW p, NEW s, NEW n \in Nat, NEW i \in Items, Agree(p, s, n + 1, {i}),
           IsEmpty(p.wait)
    PROVE  /\ Agree(Cached(p, i), s, n, {})
           /\ Cached(p, i).alive = p.alive /\ Cached(p, i).connections = p.connections
<1> DEFINE x == InsertHead(p.cache, i)
           q == [p EXCEPT !.cache = x, !.owner[i] = NoSock]
<1>1. /\ p \in Pool /\ ItemsOk(p, {i}) /\ p.cache \in QueuesOver(Items)
      /\ WellFormed(p.cache) /\ i \notin p.cache.items /\ i \in 1 .. p.size
      /\ p.owner[i] = NoSock
  BY DEF Agree, ItemsOk, Pool
<1>2. x \in QueuesOver(Items) /\ WellFormed(x) /\ x.items = p.cache.items \cup {i}
  BY <1>1, InsertHeadWF
<1>3. Cardinality(x.items) = Cardinality(p.cache.items) + 1
  BY <1>1, <1>2, Finite, FS_AddElement
<1> HIDE DEF x
<1>4. /\ q \in Pool /\ q.cache = x /\ q.owner = p.owner
      /\ q.wait = p.wait /\ q.waiting = p.waiting /\ q.posted = p.posted
      /\ q.op = p.op /\ q.alive = p.alive /\ q.size = p.size /\ q.backlog = p.backlog
      /\ q.connections = p.connections /\ q.free = p.free
  BY <1>1, <1>2 DEF Pool
<1> HIDE DEF q
<1>5. SlotsOk(q, s, n)
  <2>1. /\ Cardinality(ActiveIn(s)) \in Nat /\ Cardinality(p.cache.items) \in Nat
        /\ Cardinality(p.posted.items) \in Nat
    BY Finite
  <2> QED
    BY <1>3, <1>4, <2>1 DEF Agree, SlotsOk
<1>6. OpsOk(q, s) /\ AdmissionOk(q)
  BY <1>4 DEF Agree, OpsOk, AdmissionOk
<1>7. ItemsOk(q, {})
  BY <1>1, <1>2, <1>4 DEF ItemsOk
<1> QED
  BY <1>4, <1>5, <1>6, <1>7 DEF Agree, Cached, q, x

\* The slot is given up when nobody waits
LEMMA LoseSlotOk ==
    ASSUME NEW p, NEW s, NEW n \in Nat, Agree(p, s, n + 1, {}), IsEmpty(p.wait)
    PROVE  Agree(Without(p), s, n, {}) /\ AliveExact(Without(p))
<1> DEFINE q == [p EXCEPT !.connections = p.connections - 1, !.alive = p.connections # 1]
<1>1. /\ Cardinality(ActiveIn(s)) \in Nat /\ Cardinality(p.cache.items) \in Nat
      /\ Cardinality(p.posted.items) \in Nat
  BY Finite
<1>2. p \in Pool /\ p.connections \in Nat /\ p.connections - 1 \in Nat
  BY <1>1 DEF Agree, SlotsOk, Pool
<1>3. /\ q \in Pool /\ q.connections = p.connections - 1
      /\ q.alive = (p.connections # 1)
      /\ q.wait = p.wait /\ q.waiting = p.waiting /\ q.posted = p.posted
      /\ q.op = p.op /\ q.owner = p.owner /\ q.size = p.size
      /\ q.backlog = p.backlog /\ q.cache = p.cache /\ q.free = p.free
  BY <1>2 DEF Pool
<1> HIDE DEF q
<1>4. SlotsOk(q, s, n)
  BY <1>1, <1>2, <1>3 DEF Agree, SlotsOk
<1>5. OpsOk(q, s) /\ ItemsOk(q, {})
  BY <1>3 DEF Agree, OpsOk, ItemsOk
<1>6. AdmissionOk(q)
  BY <1>2, <1>3 DEF Agree, AdmissionOk, Pool
<1>7. AliveExact(q)
  BY <1>2, <1>3 DEF AliveExact
<1> QED
  BY <1>3, <1>4, <1>5, <1>6, <1>7 DEF Agree, Without, q

\* ReleaseSlot puts the slot in hand, and its item, where they belong
LEMMA ReleaseOk ==
    ASSUME NEW p, NEW s, NEW n \in Nat, NEW i \in Items \cup {NoItem},
           Agree(p, s, n + 1, InHand(i)), p.alive
    PROVE  Agree(ReleaseSlot(p, i), s, n, {}) /\ AliveExact(ReleaseSlot(p, i))
<1>1. /\ Cardinality(ActiveIn(s)) \in Nat /\ Cardinality(p.cache.items) \in Nat
      /\ Cardinality(p.posted.items) \in Nat
  BY Finite
<1>2. p \in Pool /\ p.connections \in Nat /\ p.connections > 0
  BY <1>1 DEF Agree, SlotsOk, Pool
<1>3. CASE ~IsEmpty(p.wait)
  <2> DEFINE u == CHOOSE v \in Sock : IsHead(p.wait, v)
  <2>1. WellFormed(p.wait) /\ IsFiniteSet(p.wait.items) /\ p.wait.items \subseteq Sock
    BY Finite DEF Agree, OpsOk, Pool, QueuesOver
  <2>2. \E v \in Sock : IsHead(p.wait, v)
    BY <1>3, <2>1, HeadExists
  <2>3. u \in p.wait.items
    BY <2>2 DEF IsHead
  <2>4. ReleaseSlot(p, i) = HandOver(p, u, i)
    BY <1>3 DEF ReleaseSlot
  <2> HIDE DEF u
  <2>5. /\ Agree(HandOver(p, u, i), s, n, {}) /\ HandOver(p, u, i).alive = p.alive
        /\ HandOver(p, u, i).connections = p.connections
    BY <2>3, HandOverOk
  <2> QED
    BY <1>2, <2>4, <2>5 DEF AliveExact
<1>4. CASE IsEmpty(p.wait) /\ i # NoItem
  <2>1. i \in Items /\ InHand(i) = {i}
    BY <1>4 DEF InHand
  <2>2. /\ Agree(Cached(p, i), s, n, {})
        /\ Cached(p, i).alive = p.alive /\ Cached(p, i).connections = p.connections
    BY <1>4, <2>1, ToCacheOk
  <2>3. ReleaseSlot(p, i) = Cached(p, i)
    BY <1>4 DEF ReleaseSlot, Cached
  <2> QED
    BY <1>2, <2>2, <2>3 DEF AliveExact
<1>5. CASE IsEmpty(p.wait) /\ i = NoItem
  <2>1. InHand(i) = {}
    BY <1>5 DEF InHand
  <2>2. Agree(Without(p), s, n, {}) /\ AliveExact(Without(p))
    BY <1>5, <2>1, LoseSlotOk
  <2>3. ReleaseSlot(p, i) = Without(p)
    BY <1>5 DEF ReleaseSlot, Without
  <2> QED
    BY <2>2, <2>3
<1> QED
  BY <1>3, <1>4, <1>5

-----------------------------------------------------------------------------
(* Items.                                                                  *)

Freed(p, i) == [p EXCEPT !.free = @ \cup {i}]

\* An item in hand becomes free
LEMMA FreedOk ==
    ASSUME NEW p, NEW s, NEW n \in Int, NEW i \in Items, Agree(p, s, n, {i})
    PROVE  /\ Agree(Freed(p, i), s, n, {})
           /\ Freed(p, i).alive = p.alive /\ Freed(p, i).connections = p.connections
<1> DEFINE q == Freed(p, i)
<1>1. p \in Pool /\ p.free \cup {i} \in SUBSET Items
  BY DEF Agree, Pool
<1>2. /\ q \in Pool /\ q.free = p.free \cup {i}
      /\ q.wait = p.wait /\ q.waiting = p.waiting /\ q.posted = p.posted
      /\ q.op = p.op /\ q.owner = p.owner /\ q.alive = p.alive /\ q.size = p.size
      /\ q.backlog = p.backlog /\ q.connections = p.connections /\ q.cache = p.cache
  BY <1>1 DEF Pool, Freed
<1> HIDE DEF q
<1>3. SlotsOk(q, s, n) /\ OpsOk(q, s) /\ AdmissionOk(q)
  BY <1>2 DEF Agree, SlotsOk, OpsOk, AdmissionOk
<1>4. ItemsOk(q, {})
  BY <1>2 DEF Agree, ItemsOk
<1> QED
  BY <1>2, <1>3, <1>4 DEF Agree, q

\* The item that an operation was resumed with becomes free
LEMMA TakenInHand ==
    ASSUME NEW p, NEW s, NEW n \in Int, NEW i \in Items, Agree(p, s, n, {i})
    PROVE  Taken(p, i) = Freed(p, i)
<1>1. /\ p \in Pool /\ ItemsOk(p, {i}) /\ p.cache \in QueuesOver(Items)
      /\ WellFormed(p.cache) /\ i \notin p.cache.items
  BY DEF Agree, ItemsOk, Pool
<1>2. p.owner[i] = NoSock
  BY <1>1 DEF ItemsOk
<1>3. Remove(p.cache, {i}) = p.cache
  BY <1>1, RemoveNothing
<1>4. [p.owner EXCEPT ![i] = NoSock] = p.owner
  BY <1>1, <1>2 DEF Pool
<1>5. Taken(p, i) = [p EXCEPT !.cache = p.cache, !.free = p.free \cup {i}, !.owner = p.owner]
  BY <1>3, <1>4 DEF Taken
<1>6. [p EXCEPT !.cache = p.cache, !.free = p.free \cup {i}, !.owner = p.owner]
          = [p EXCEPT !.free = p.free \cup {i}]
  BY <1>1 DEF Pool
<1> QED
  BY <1>5, <1>6 DEF Freed

\* An idle connection is taken, and its slot with it
LEMMA TakenOk ==
    ASSUME NEW p, NEW s, NEW n \in Int, NEW i \in p.cache.items, Agree(p, s, n, {})
    PROVE  /\ Agree(Taken(p, i), s, n + 1, {})
           /\ Taken(p, i).alive = p.alive /\ Taken(p, i).connections = p.connections
<1> DEFINE q == Taken(p, i)
           x == Remove(p.cache, {i})
           f == p.free \cup {i}
<1>1. /\ p \in Pool /\ ItemsOk(p, {}) /\ p.cache \in QueuesOver(Items)
      /\ WellFormed(p.cache) /\ i \in Items /\ i \in 1 .. p.size
  BY DEF Agree, ItemsOk, Pool, QueuesOver
<1>2. p.owner[i] = NoSock
  BY <1>1 DEF ItemsOk
<1>3. x \in QueuesOver(Items) /\ WellFormed(x) /\ x.items = p.cache.items \ {i}
  BY <1>1, RemoveWF
<1>4. Cardinality(x.items) = Cardinality(p.cache.items) - 1
  <2>1. IsFiniteSet(p.cache.items)
    BY Finite
  <2> QED
    BY <1>3, <2>1, FS_RemoveElement
<1>5. [p.owner EXCEPT ![i] = NoSock] = p.owner
  BY <1>1, <1>2 DEF Pool
<1>6. q = [p EXCEPT !.cache = x, !.free = f, !.owner = p.owner]
  BY <1>5 DEF Taken
<1>7. f \in SUBSET Items
  BY <1>1 DEF Pool
<1> HIDE DEF q, x, f
<1>8. /\ q \in Pool /\ q.cache = x /\ q.free = f
      /\ q.wait = p.wait /\ q.waiting = p.waiting /\ q.posted = p.posted
      /\ q.op = p.op /\ q.owner = p.owner /\ q.alive = p.alive /\ q.size = p.size
      /\ q.backlog = p.backlog /\ q.connections = p.connections
  BY <1>1, <1>3, <1>6, <1>7 DEF Pool
<1>9. SlotsOk(q, s, n + 1)
  <2>1. /\ Cardinality(ActiveIn(s)) \in Nat /\ Cardinality(p.cache.items) \in Nat
        /\ Cardinality(p.posted.items) \in Nat
    BY Finite
  <2>2. p.connections = Cardinality(ActiveIn(s)) + Cardinality(p.cache.items)
                            + Cardinality(p.posted.items) + n
    BY DEF Agree, SlotsOk
  <2> QED
    BY <1>4, <1>8, <2>1, <2>2 DEF SlotsOk
<1>10. OpsOk(q, s)
  BY <1>8 DEF Agree, OpsOk
<1>11. AdmissionOk(q)
  BY <1>3, <1>8 DEF Agree, AdmissionOk, IsEmpty
<1>12. ItemsOk(q, {})
  BY <1>1, <1>2, <1>3, <1>8 DEF ItemsOk, f
<1> QED
  BY <1>8, <1>9, <1>10, <1>11, <1>12 DEF Agree, q

\* The operation that was handed item i keeps the slot without it
LEMMA DisownOk ==
    ASSUME NEW p, NEW s, NEW n \in Int, NEW i \in Items, Agree(p, s, n, {}),
           p.owner[i] # NoSock
    PROVE  LET q == [Taken(p, i) EXCEPT !.op[p.owner[i]].item = NoItem]
           IN  Agree(q, s, n, {}) /\ q.alive = p.alive /\ q.connections = p.connections
<1> DEFINE u == p.owner[i]
           q == [Taken(p, i) EXCEPT !.op[u].item = NoItem]
           o == [p.op[u] EXCEPT !.item = NoItem]
           op2 == [p.op EXCEPT ![u] = o]
           ow == [p.owner EXCEPT ![i] = NoSock]
           f == p.free \cup {i}
<1>1. /\ p \in Pool /\ ItemsOk(p, {}) /\ p.cache \in QueuesOver(Items)
      /\ WellFormed(p.cache) /\ i \in 1 .. p.size /\ i \notin p.cache.items
      /\ u \in Sock /\ p.op[u].item = i
  BY DEF Agree, ItemsOk, Pool
<1>2. Remove(p.cache, {i}) = p.cache
  BY <1>1, RemoveNothing
<1>3. /\ op2 \in [Sock -> ConnOp] /\ ow \in [Items -> Sock \cup {NoSock}]
      /\ f \in SUBSET Items
  BY <1>1 DEF Pool, ConnOp
<1>4. q = [p EXCEPT !.cache = p.cache, !.free = f, !.owner = ow, !.op = op2]
  <2>1. Taken(p, i) = [p EXCEPT !.cache = p.cache, !.free = f, !.owner = ow]
    BY <1>2 DEF Taken
  <2>2. Taken(p, i).op = p.op
    BY <1>1, <2>1 DEF Pool
  <2>3. q = [Taken(p, i) EXCEPT !.op = op2]
    BY <2>2
  <2> HIDE DEF q, f, ow, op2
  <2> QED
    BY <1>1, <2>1, <2>3 DEF Pool
<1>5. /\ o.item = NoItem /\ o.queued = p.op[u].queued /\ o.timer = p.op[u].timer
      /\ o.posted = p.op[u].posted
  BY <1>1 DEF Pool, ConnOp
<1>6. /\ op2[u] = o /\ \A v \in Sock \ {u} : op2[v] = p.op[v]
      /\ \A j \in Items : ow[j] = IF j = i THEN NoSock ELSE p.owner[j]
  BY <1>1 DEF Pool
<1> HIDE DEF q, o, op2, ow, f
<1>7. /\ q \in Pool /\ q.free = f /\ q.cache = p.cache
      /\ q.wait = p.wait /\ q.waiting = p.waiting /\ q.posted = p.posted
      /\ q.op = op2 /\ q.owner = ow /\ q.alive = p.alive /\ q.size = p.size
      /\ q.backlog = p.backlog /\ q.connections = p.connections
  BY <1>1, <1>3, <1>4 DEF Pool
<1>8. SlotsOk(q, s, n) /\ AdmissionOk(q)
  BY <1>7 DEF Agree, SlotsOk, AdmissionOk
<1>9. OpsOk(q, s)
  <2>1. OpsOk(p, s)
    BY DEF Agree
  <2>2. \A v \in Sock : /\ q.op[v].queued = p.op[v].queued
                        /\ q.op[v].timer = p.op[v].timer
                        /\ q.op[v].posted = p.op[v].posted
                        /\ q.op[v].item # NoItem => p.op[v].item # NoItem
    BY <1>5, <1>6, <1>7
  <2> QED
    BY <1>7, <2>1, <2>2 DEF OpsOk
<1>10. ItemsOk(q, {})
  <2>1. \A j \in Items, v \in Sock : q.owner[j] = v <=> q.op[v].item = j
    BY <1>1, <1>5, <1>6, <1>7, SockAssumption, ItemsFacts DEF ItemsOk
  <2>2. \A j \in Items : q.owner[j] # NoSock =>
           j \in 1 .. q.size /\ j \notin q.free \cup q.cache.items
    BY <1>1, <1>6, <1>7 DEF ItemsOk, f
  <2>3. \A j \in 1 .. q.size : j \in q.free \cup q.cache.items \/ q.owner[j] # NoSock
    BY <1>1, <1>6, <1>7, ItemsFacts DEF ItemsOk, f
  <2> QED
    BY <1>1, <1>7, <2>1, <2>2, <2>3 DEF ItemsOk, f
<1> QED
  BY <1>7, <1>8, <1>9, <1>10 DEF Agree, q, u

-----------------------------------------------------------------------------
(* The queued operations.                                                  *)

Shut(s, u) == [s EXCEPT ![u].at = "none"]

LEMMA ShutFacts ==
    ASSUME NEW s \in [Sock -> SockState], NEW u \in Sock
    PROVE  /\ Shut(s, u) \in [Sock -> SockState]
           /\ Shut(s, u)[u].at = "none" /\ Shut(s, u)[u].counted = s[u].counted
           /\ Shut(s, u)[u] = [at |-> "none", counted |-> s[u].counted]
           /\ \A v \in Sock \ {u} : Shut(s, u)[v] = s[v]
           /\ Shut(s, u) = [s EXCEPT ![u] = [at |-> "none", counted |-> s[u].counted]]
<1>1. [s[u] EXCEPT !.at = "none"] = [at |-> "none", counted |-> s[u].counted]
  BY DEF SockState
<1>2. Shut(s, u) = [s EXCEPT ![u] = [at |-> "none", counted |-> s[u].counted]]
  BY <1>1 DEF Shut
<1>3. [at |-> "none", counted |-> s[u].counted] \in SockState
  BY DEF SockState
<1> QED
  BY <1>2, <1>3

\* What leaves the queue changes no slots of cosockets
LEMMA ShutWaits ==
    ASSUME NEW s \in [Sock -> SockState], NEW u \in Sock, s[u].at = "wait"
    PROVE  ActiveIn(Shut(s, u)) = ActiveIn(s)
<1>1. \A v \in Sock : v \in ActiveIn(Shut(s, u)) <=> v \in ActiveIn(s)
  <2>1. /\ Shut(s, u)[u].at = "none"
        /\ \A v \in Sock \ {u} : Shut(s, u)[v] = s[v]
    BY ShutFacts
  <2> QED
    BY <2>1 DEF ActiveIn, Spare
<1>2. ActiveIn(Shut(s, u)) \subseteq Sock /\ ActiveIn(s) \subseteq Sock
  BY DEF ActiveIn
<1> QED
  BY <1>1, <1>2

LEMMA FreshOpFacts ==
    /\ FreshOp \in ConnOp /\ FreshOp.queued = FALSE /\ FreshOp.timer = FALSE
    /\ FreshOp.posted = FALSE /\ FreshOp.item = NoItem
BY DEF FreshOp, ConnOp

\* An operation that has no slot yet gives up
LeftWait(p, u) == [p EXCEPT !.wait = Remove(@, {u}), !.waiting = @ - 1, !.op[u] = FreshOp]

LEMMA LeftWaitOk ==
    ASSUME NEW p, NEW s, NEW n \in Int, Agree(p, s, n, {}), NEW u \in p.wait.items
    PROVE  /\ Agree(LeftWait(p, u), Shut(s, u), n, {}) /\ LeftWait(p, u).alive = p.alive
           /\ LeftWait(p, u).connections = p.connections
<1> DEFINE q == LeftWait(p, u)
           w == Remove(p.wait, {u})
           t == Shut(s, u)
<1>1. p \in Pool /\ u \in Sock /\ u \notin p.posted.items /\ OpsOk(p, s) /\ s \in [Sock -> SockState]
  BY DEF Agree, Pool, QueuesOver, OpsOk
<1>2. /\ p.wait \in QueuesOver(Sock) /\ WellFormed(p.wait)
      /\ p.waiting = Cardinality(p.wait.items)
      /\ s[u].at = "wait"
  BY <1>1 DEF OpsOk, Pool
<1>3. w \in QueuesOver(Sock) /\ WellFormed(w) /\ w.items = p.wait.items \ {u}
  BY <1>2, RemoveWF
<1>4. Cardinality(w.items) = p.waiting - 1 /\ Cardinality(w.items) \in Nat
  <2>1. IsFiniteSet(p.wait.items)
    BY Finite
  <2>2. IsFiniteSet(w.items) /\ Cardinality(w.items) = Cardinality(p.wait.items) - 1
    BY <1>3, <2>1, FS_RemoveElement
  <2> QED
    BY <1>2, <2>2, FS_CardinalityType
<1>5. q = [p EXCEPT !.wait = w, !.waiting = p.waiting - 1,
                    !.op = [p.op EXCEPT ![u] = FreshOp]]
  BY <1>1 DEF LeftWait, Pool
<1>6. t \in [Sock -> SockState] /\ t[u].at = "none" /\ \A v \in Sock \ {u} : t[v] = s[v]
  BY <1>1, ShutFacts
<1>7. ActiveIn(t) = ActiveIn(s)
  BY <1>1, <1>2, ShutWaits
<1> HIDE DEF q, w, t
<1>8. /\ q \in Pool /\ q.wait = w /\ q.waiting = p.waiting - 1
      /\ q.op = [p.op EXCEPT ![u] = FreshOp] /\ q.owner = p.owner /\ q.posted = p.posted
      /\ q.alive = p.alive /\ q.size = p.size /\ q.backlog = p.backlog
      /\ q.connections = p.connections /\ q.cache = p.cache /\ q.free = p.free
  BY <1>1, <1>3, <1>4, <1>5, FreshOpFacts DEF Pool
<1>9. q.op[u] = FreshOp /\ \A v \in Sock \ {u} : q.op[v] = p.op[v]
  BY <1>1, <1>8 DEF Pool
<1>10. SlotsOk(q, t, n)
  BY <1>7, <1>8 DEF Agree, SlotsOk
<1>11. OpsOk(q, t)
  <2>1. WellFormed(q.wait) /\ WellFormed(q.posted) /\ q.wait.items \cap q.posted.items = {}
    BY <1>1, <1>3, <1>8 DEF OpsOk
  <2>2. q.waiting = Cardinality(q.wait.items)
    BY <1>4, <1>8
  <2>3. ASSUME NEW v \in Sock \ {u}
        PROVE  /\ (t[v].at = "wait") = (v \in q.wait.items \cup q.posted.items)
               /\ t[v].at = "wait" => t[v].counted
               /\ (v \in q.wait.items) = q.op[v].queued
               /\ (v \in q.wait.items) = q.op[v].timer
               /\ (v \in q.posted.items) = q.op[v].posted
               /\ q.op[v].item # NoItem => v \in q.posted.items
    <3>1. /\ t[v] = s[v] /\ q.op[v] = p.op[v] /\ q.posted = p.posted
          /\ v \in q.wait.items <=> v \in p.wait.items
      BY <1>3, <1>6, <1>8, <1>9
    <3> QED
      BY <1>1, <3>1 DEF OpsOk
  <2>4. u \notin q.wait.items /\ u \notin q.posted.items
    BY <1>1, <1>3, <1>8
  <2>5. /\ (t[u].at = "wait") = FALSE /\ q.op[u].queued = FALSE /\ q.op[u].timer = FALSE
        /\ q.op[u].posted = FALSE /\ q.op[u].item = NoItem
    BY <1>6, <1>9, FreshOpFacts
  <2>6. /\ (u \in q.wait.items) = FALSE /\ (u \in q.posted.items) = FALSE
        /\ (u \in q.wait.items \cup q.posted.items) = FALSE
    BY <2>4
  <2>7. \A v \in Sock : v = u \/ v \in Sock \ {u}
    OBVIOUS
  <2> QED
    BY <2>1, <2>2, <2>3, <2>5, <2>6, <2>7 DEF OpsOk
<1>12. AdmissionOk(q)
  <2>1. AdmissionOk(p)
    BY DEF Agree
  <2> QED
    BY <1>1, <1>3, <1>8, <2>1 DEF AdmissionOk, IsEmpty, Pool
<1>13. ItemsOk(q, {})
  <2>1. p.op[u].item = NoItem
    BY <1>1 DEF OpsOk, Pool, ConnOp
  <2>2. \A v \in Sock : q.op[v].item = p.op[v].item
    BY <1>9, <2>1, FreshOpFacts
  <2> QED
    BY <1>8, <2>2 DEF Agree, ItemsOk
<1> QED
  BY <1>6, <1>8, <1>10, <1>11, <1>12, <1>13 DEF Agree, q, t

\* An operation that was resumed has its slot and its item in hand
LeftPosted(p, u) ==
    [p EXCEPT !.posted = Remove(@, {u}), !.op[u] = FreshOp,
              !.owner = [i \in Items |-> IF i = p.op[u].item THEN NoSock ELSE @[i]]]

LEMMA LeftPostedOk ==
    ASSUME NEW p, NEW s, NEW n \in Int, Agree(p, s, n, {}), NEW u \in p.posted.items
    PROVE  /\ Agree(LeftPosted(p, u), Shut(s, u), n + 1, InHand(p.op[u].item))
           /\ LeftPosted(p, u).alive = p.alive
           /\ LeftPosted(p, u).connections = p.connections
<1> DEFINE q == LeftPosted(p, u)
           x == Remove(p.posted, {u})
           k == p.op[u].item
           ow == [i \in Items |-> IF i = k THEN NoSock ELSE p.owner[i]]
           t == Shut(s, u)
<1>1. p \in Pool /\ u \in Sock /\ u \notin p.wait.items /\ OpsOk(p, s) /\ s \in [Sock -> SockState]
  BY DEF Agree, Pool, QueuesOver, OpsOk
<1>2. /\ p.posted \in QueuesOver(Sock) /\ WellFormed(p.posted)
      /\ s[u].at = "wait" /\ k \in Items \cup {NoItem}
  BY <1>1 DEF OpsOk, Pool, ConnOp
<1>3. x \in QueuesOver(Sock) /\ WellFormed(x) /\ x.items = p.posted.items \ {u}
  BY <1>2, RemoveWF
<1>4. Cardinality(x.items) = Cardinality(p.posted.items) - 1
  <2>1. IsFiniteSet(p.posted.items)
    BY Finite
  <2> QED
    BY <1>3, <2>1, FS_RemoveElement
<1>5. q = [p EXCEPT !.posted = x, !.op = [p.op EXCEPT ![u] = FreshOp], !.owner = ow]
  BY <1>1 DEF LeftPosted, Pool
<1>6. ow \in [Items -> Sock \cup {NoSock}]
  BY <1>1 DEF Pool
<1>7. t \in [Sock -> SockState] /\ t[u].at = "none" /\ \A v \in Sock \ {u} : t[v] = s[v]
  BY <1>1, ShutFacts
<1>8. ActiveIn(t) = ActiveIn(s)
  BY <1>1, <1>2, ShutWaits
<1>9. \A i \in Items : ow[i] = IF i = k THEN NoSock ELSE p.owner[i]
  OBVIOUS
<1> HIDE DEF q, x, t, ow
<1>10. /\ q \in Pool /\ q.posted = x /\ q.waiting = p.waiting
       /\ q.op = [p.op EXCEPT ![u] = FreshOp] /\ q.owner = ow /\ q.wait = p.wait
       /\ q.alive = p.alive /\ q.size = p.size /\ q.backlog = p.backlog
       /\ q.connections = p.connections /\ q.cache = p.cache /\ q.free = p.free
  BY <1>1, <1>3, <1>5, <1>6, FreshOpFacts DEF Pool
<1>11. q.op[u] = FreshOp /\ \A v \in Sock \ {u} : q.op[v] = p.op[v]
  BY <1>1, <1>10 DEF Pool
<1>12. SlotsOk(q, t, n + 1)
  <2>1. /\ Cardinality(ActiveIn(s)) \in Nat /\ Cardinality(p.cache.items) \in Nat
        /\ Cardinality(p.posted.items) \in Nat
    BY Finite
  <2>2. p.connections = Cardinality(ActiveIn(s)) + Cardinality(p.cache.items)
                            + Cardinality(p.posted.items) + n
    BY DEF Agree, SlotsOk
  <2> QED
    BY <1>4, <1>8, <1>10, <2>1, <2>2 DEF SlotsOk
<1>13. OpsOk(q, t)
  <2>1. WellFormed(q.wait) /\ WellFormed(q.posted) /\ q.wait.items \cap q.posted.items = {}
    BY <1>1, <1>3, <1>10 DEF OpsOk
  <2>2. q.waiting = Cardinality(q.wait.items)
    BY <1>1, <1>10 DEF OpsOk
  <2>3. ASSUME NEW v \in Sock \ {u}
        PROVE  /\ (t[v].at = "wait") = (v \in q.wait.items \cup q.posted.items)
               /\ t[v].at = "wait" => t[v].counted
               /\ (v \in q.wait.items) = q.op[v].queued
               /\ (v \in q.wait.items) = q.op[v].timer
               /\ (v \in q.posted.items) = q.op[v].posted
               /\ q.op[v].item # NoItem => v \in q.posted.items
    <3>1. /\ t[v] = s[v] /\ q.op[v] = p.op[v] /\ q.wait = p.wait
          /\ v \in q.posted.items <=> v \in p.posted.items
      BY <1>3, <1>7, <1>10, <1>11
    <3> QED
      BY <1>1, <3>1 DEF OpsOk
  <2>4. u \notin q.wait.items /\ u \notin q.posted.items
    BY <1>1, <1>3, <1>10
  <2>5. /\ (t[u].at = "wait") = FALSE /\ q.op[u].queued = FALSE /\ q.op[u].timer = FALSE
        /\ q.op[u].posted = FALSE /\ q.op[u].item = NoItem
    BY <1>7, <1>11, FreshOpFacts
  <2>6. /\ (u \in q.wait.items) = FALSE /\ (u \in q.posted.items) = FALSE
        /\ (u \in q.wait.items \cup q.posted.items) = FALSE
    BY <2>4
  <2>7. \A v \in Sock : v = u \/ v \in Sock \ {u}
    OBVIOUS
  <2> QED
    BY <2>1, <2>2, <2>3, <2>5, <2>6, <2>7 DEF OpsOk
<1>14. AdmissionOk(q)
  BY <1>10 DEF Agree, AdmissionOk
<1>15. ItemsOk(q, InHand(k))
  <2>1. ItemsOk(p, {})
    BY DEF Agree
  <2>2. k \in Items => /\ p.owner[k] = u /\ k \in 1 .. p.size
                       /\ k \notin p.free \cup p.cache.items
    BY <1>1, <2>1, SockAssumption DEF ItemsOk
  <2>3. \A i \in Items, v \in Sock : q.owner[i] = v <=> q.op[v].item = i
    BY <1>1, <1>9, <1>10, <1>11, <2>1, <2>2, FreshOpFacts, SockAssumption, ItemsFacts DEF ItemsOk
  <2>4. \A i \in Items : q.owner[i] # NoSock =>
           i \in 1 .. q.size /\ i \notin InHand(k) \cup q.free \cup q.cache.items
    BY <1>9, <1>10, <2>1 DEF ItemsOk, InHand
  <2>5. \A i \in 1 .. q.size : i \in InHand(k) \cup q.free \cup q.cache.items \/ q.owner[i] # NoSock
    <3>1. \A i \in 1 .. p.size : i \in Items /\ i # NoItem
      BY <2>1, ItemsFacts DEF ItemsOk
    <3>2. \A i \in 1 .. p.size : i \in p.free \cup p.cache.items \/ p.owner[i] # NoSock
      BY <2>1 DEF ItemsOk
    <3> QED
      BY <1>9, <1>10, <3>1, <3>2 DEF InHand
  <2>6. InHand(k) \subseteq 1 .. q.size /\ InHand(k) \cap (q.free \cup q.cache.items) = {}
    BY <1>2, <1>10, <2>2 DEF InHand
  <2> QED
    BY <1>10, <2>1, <2>3, <2>4, <2>5, <2>6 DEF ItemsOk
<1> QED
  BY <1>7, <1>10, <1>12, <1>13, <1>14, <1>15 DEF Agree, q, t

-----------------------------------------------------------------------------
(* Connects, and connections that are kept.                                *)

\* A connect without a slot joins the queue
Enqueued(p, u) ==
    [p EXCEPT !.wait = InsertTail(@, u), !.waiting = @ + 1,
              !.op[u] = [queued |-> TRUE, item |-> NoItem, timer |-> TRUE,
                         posted |-> FALSE]]

LEMMA EnqueuedOk ==
    ASSUME NEW p, NEW s, NEW n \in Int, Agree(p, s, n, {}), NEW u \in Sock,
           s[u].at = "none", IsEmpty(p.cache), IsFull(p), p.waiting < p.backlog,
           p.connections > 0
    PROVE  /\ Agree(Enqueued(p, u), [s EXCEPT ![u] = [at |-> "wait", counted |-> TRUE]],
                    n + Holds(s[u]), {})
           /\ Enqueued(p, u).alive = p.alive /\ Enqueued(p, u).connections = p.connections
<1> DEFINE q == Enqueued(p, u)
           w == InsertTail(p.wait, u)
           o == [queued |-> TRUE, item |-> NoItem, timer |-> TRUE, posted |-> FALSE]
           t == [s EXCEPT ![u] = [at |-> "wait", counted |-> TRUE]]
<1>1. /\ p \in Pool /\ OpsOk(p, s) /\ s \in [Sock -> SockState]
      /\ u \notin p.wait.items /\ u \notin p.posted.items
  BY DEF Agree, OpsOk
<1>2. /\ p.wait \in QueuesOver(Sock) /\ WellFormed(p.wait)
      /\ p.waiting = Cardinality(p.wait.items)
  BY <1>1 DEF OpsOk, Pool
<1>3. w \in QueuesOver(Sock) /\ WellFormed(w) /\ w.items = p.wait.items \cup {u}
  BY <1>1, <1>2, InsertTailWF
<1>4. Cardinality(w.items) = p.waiting + 1 /\ p.waiting + 1 \in Nat
  <2>1. IsFiniteSet(p.wait.items) /\ Cardinality(p.wait.items) \in Nat
    BY Finite
  <2>2. Cardinality(p.wait.items \cup {u}) = Cardinality(p.wait.items) + 1
    BY <1>1, <2>1, FS_AddElement
  <2> QED
    BY <1>2, <1>3, <2>1, <2>2
<1>5. q = [p EXCEPT !.wait = w, !.waiting = p.waiting + 1, !.op = [p.op EXCEPT ![u] = o]]
  BY <1>1 DEF Enqueued, Pool
<1>6. /\ o \in ConnOp /\ o.queued = TRUE /\ o.timer = TRUE /\ o.posted = FALSE
      /\ o.item = NoItem
  BY DEF ConnOp
<1>7. /\ t \in [Sock -> SockState] /\ t[u].at = "wait" /\ t[u].counted = TRUE
      /\ \A v \in Sock \ {u} : t[v] = s[v]
  BY <1>1 DEF SockState
<1>8. ActiveIn(t) = ActiveIn(s)
  <2>1. \A v \in Sock : v \in ActiveIn(t) <=> v \in ActiveIn(s)
    BY <1>7 DEF ActiveIn, Spare
  <2>2. ActiveIn(t) \subseteq Sock /\ ActiveIn(s) \subseteq Sock
    BY DEF ActiveIn
  <2> QED
    BY <2>1, <2>2
<1>9. Holds(s[u]) = 0
  BY DEF Holds, Spare
<1> HIDE DEF q, w, t, o
<1>10. /\ q \in Pool /\ q.wait = w /\ q.waiting = p.waiting + 1
       /\ q.op = [p.op EXCEPT ![u] = o] /\ q.owner = p.owner /\ q.posted = p.posted
       /\ q.alive = p.alive /\ q.size = p.size /\ q.backlog = p.backlog
       /\ q.connections = p.connections /\ q.cache = p.cache /\ q.free = p.free
  BY <1>1, <1>3, <1>4, <1>5, <1>6 DEF Pool
<1>11. q.op[u] = o /\ \A v \in Sock \ {u} : q.op[v] = p.op[v]
  BY <1>1, <1>10 DEF Pool
<1>12. SlotsOk(q, t, n + Holds(s[u]))
  BY <1>8, <1>9, <1>10 DEF Agree, SlotsOk
<1>13. OpsOk(q, t)
  <2>1. WellFormed(q.wait) /\ WellFormed(q.posted) /\ q.wait.items \cap q.posted.items = {}
    BY <1>1, <1>3, <1>10 DEF OpsOk
  <2>2. q.waiting = Cardinality(q.wait.items)
    BY <1>4, <1>10
  <2>3. ASSUME NEW v \in Sock \ {u}
        PROVE  /\ (t[v].at = "wait") = (v \in q.wait.items \cup q.posted.items)
               /\ t[v].at = "wait" => t[v].counted
               /\ (v \in q.wait.items) = q.op[v].queued
               /\ (v \in q.wait.items) = q.op[v].timer
               /\ (v \in q.posted.items) = q.op[v].posted
               /\ q.op[v].item # NoItem => v \in q.posted.items
    <3>1. /\ t[v] = s[v] /\ q.op[v] = p.op[v] /\ q.posted = p.posted
          /\ v \in q.wait.items <=> v \in p.wait.items
      BY <1>3, <1>7, <1>10, <1>11
    <3> QED
      BY <1>1, <3>1 DEF OpsOk
  <2>4. u \in q.wait.items /\ u \notin q.posted.items
    BY <1>1, <1>3, <1>10
  <2>5. /\ (t[u].at = "wait") = TRUE /\ q.op[u].queued = TRUE /\ q.op[u].timer = TRUE
        /\ q.op[u].posted = FALSE /\ q.op[u].item = NoItem /\ t[u].counted
    BY <1>6, <1>7, <1>11
  <2>6. /\ (u \in q.wait.items) = TRUE /\ (u \in q.posted.items) = FALSE
        /\ (u \in q.wait.items \cup q.posted.items) = TRUE
    BY <2>4
  <2>7. \A v \in Sock : v = u \/ v \in Sock \ {u}
    OBVIOUS
  <2> QED
    BY <2>1, <2>2, <2>3, <2>5, <2>6, <2>7 DEF OpsOk
<1>14. AdmissionOk(q)
  BY <1>1, <1>10 DEF Agree, AdmissionOk, IsFull, Pool
<1>15. ItemsOk(q, {})
  <2>1. p.op[u].item = NoItem
    BY <1>1 DEF OpsOk, Pool, ConnOp
  <2>2. \A v \in Sock : q.op[v].item = p.op[v].item
    BY <1>6, <1>11, <2>1
  <2> QED
    BY <1>10, <2>2 DEF Agree, ItemsOk
<1> QED
  BY <1>7, <1>10, <1>12, <1>13, <1>14, <1>15 DEF Agree, q, t

\* A new pool takes the place of one without slots
LEMMA NewPoolOk ==
    ASSUME NEW p, NEW s, Agree(p, s, 0, {}), p.connections = 0,
           NEW size \in Sizes \cup {0}, NEW b \in Backlogs \cup {-1}
    PROVE  Agree(NewPool(size, b), s, 0, {})
<1> DEFINE q == NewPool(size, b)
<1>1. /\ Cardinality(ActiveIn(s)) = 0 /\ Cardinality(p.posted.items) = 0
  <2>1. /\ Cardinality(ActiveIn(s)) \in Nat /\ Cardinality(p.cache.items) \in Nat
        /\ Cardinality(p.posted.items) \in Nat
    BY Finite
  <2>2. 0 = Cardinality(ActiveIn(s)) + Cardinality(p.cache.items)
                + Cardinality(p.posted.items) + 0
    BY DEF Agree, SlotsOk
  <2>3. \A x, y, z \in Nat : 0 = x + y + z + 0 => x = 0 /\ z = 0
    OBVIOUS
  <2> QED
    BY <2>1, <2>2, <2>3
<1>2. p.posted.items = {} /\ p.wait.items = {}
  <2>1. IsFiniteSet(p.posted.items)
    BY Finite
  <2> QED
    BY <1>1, <2>1, FS_EmptySet DEF Agree, AdmissionOk, IsEmpty
<1>3. \A u \in Sock : s[u].at # "wait"
  BY <1>2 DEF Agree, OpsOk
<1>4. size \in Nat /\ b \in Nat \cup {-1} /\ 1 .. size \subseteq Items
  BY ItemsFacts, BacklogsAssumption
<1>5. /\ EmptyQueue.items = {} /\ WellFormed(EmptyQueue)
      /\ EmptyQueue \in QueuesOver(Sock) /\ EmptyQueue \in QueuesOver(Items)
      /\ Cardinality(EmptyQueue.items) = 0
  BY EmptyQueueWF, EmptyQueueType, FS_EmptySet DEF EmptyQueue
<1>6. /\ q.connections = 0 /\ q.size = size /\ q.backlog = b /\ q.waiting = 0
      /\ q.wait = EmptyQueue /\ q.posted = EmptyQueue /\ q.cache = EmptyQueue
      /\ q.free = 1 .. size /\ q.owner = [i \in Items |-> NoSock]
      /\ q.op = [u \in Sock |-> FreshOp]
  BY DEF NewPool
<1>7. q \in Pool
  BY <1>4, <1>5, FreshOpFacts DEF NewPool, Pool
<1> HIDE DEF q
<1>8. SlotsOk(q, s, 0)
  <2>1. /\ q.connections = 0 /\ Cardinality(q.cache.items) = 0
        /\ Cardinality(q.posted.items) = 0
    BY <1>5, <1>6
  <2> QED
    BY <1>1, <2>1 DEF SlotsOk
<1>9. ItemsOk(q, {})
  BY <1>5, <1>6, FreshOpFacts, SockAssumption, ItemsFacts DEF ItemsOk
<1>10. OpsOk(q, s)
  <2>1. ASSUME NEW u \in Sock
        PROVE  /\ (s[u].at = "wait") = FALSE /\ (u \in q.wait.items) = FALSE
               /\ (u \in q.posted.items) = FALSE
               /\ (u \in q.wait.items \cup q.posted.items) = FALSE
               /\ q.op[u].queued = FALSE /\ q.op[u].timer = FALSE
               /\ q.op[u].posted = FALSE /\ q.op[u].item = NoItem
    BY <1>3, <1>5, <1>6, FreshOpFacts
  <2>2. /\ WellFormed(q.wait) /\ WellFormed(q.posted) /\ q.wait.items \cap q.posted.items = {}
        /\ q.waiting = Cardinality(q.wait.items)
    BY <1>5, <1>6
  <2> QED
    BY <2>1, <2>2 DEF OpsOk
<1>11. AdmissionOk(q)
  BY <1>4, <1>5, <1>6 DEF AdmissionOk, IsEmpty
<1> QED
  BY <1>7, <1>8, <1>9, <1>10, <1>11 DEF Agree, q

\* A cosocket that does not wait gives its slot back into the hand
LEMMA ShutOk ==
    ASSUME NEW p, NEW u \in Sock, Agree(p, sock, 0, {}), sock[u].at # "wait"
    PROVE  Agree(p, Shut(sock, u), Holds(sock[u]), {})
<1>1. sock \in [Sock -> SockState] /\ sock[u] \in SockState
  BY DEF Agree
<1> DEFINE c == [at |-> "none", counted |-> sock[u].counted]
<1>2. Shut(sock, u) = [sock EXCEPT ![u] = c]
  BY <1>1, ShutFacts
<1>3. Holds(c) = 0 /\ c \in SockState /\ c.at # "wait" /\ Holds(sock[u]) \in Int
  BY <1>1 DEF Holds, Spare, SockState
<1> HIDE DEF c
<1>4. PICK n \in Int : n = 0
  OBVIOUS
<1>5. Agree(p, sock, n, {})
  BY <1>4
<1>6. Agree(p, [sock EXCEPT ![u] = c], n + Holds(sock[u]) - Holds(c), {})
  BY <1>3, <1>5, MoveOk
<1>7. n + Holds(sock[u]) - Holds(c) = Holds(sock[u])
  BY <1>3, <1>4
<1> QED
  BY <1>2, <1>6, <1>7

\* setkeepalive has the slot and the item of its connection in hand
LEMMA KeptOk ==
    ASSUME NEW p, NEW u \in Sock, NEW i \in Items, Agree(p, sock, 0, {}),
           sock[u].at = "open",
           IF Replaces(u, p) THEN IsLast(p.cache, i) ELSE i \in p.free
    PROVE  Agree(Kept(u, p, i), Shut(sock, u), 1, {i}) /\ Kept(u, p, i).alive = p.alive
<1> DEFINE q == Kept(u, p, i)
           m == IF sock[u].counted THEN 1 ELSE 0
           t == Shut(sock, u)
<1>1. /\ p \in Pool /\ ItemsOk(p, {}) /\ AdmissionOk(p)
      /\ sock \in [Sock -> SockState] /\ sock[u] \in SockState
  BY DEF Agree
<1>2. Agree(p, t, m, {})
  BY ShutOk DEF Holds, Spare
<1>3. /\ Cardinality(ActiveIn(t)) \in Nat /\ Cardinality(p.cache.items) \in Nat
      /\ Cardinality(p.posted.items) \in Nat /\ IsFiniteSet(p.cache.items)
  BY <1>2, Finite
<1>4. /\ p.connections = Cardinality(ActiveIn(t)) + Cardinality(p.cache.items)
                             + Cardinality(p.posted.items) + m
      /\ OpsOk(p, t) /\ t \in [Sock -> SockState]
  BY <1>2 DEF Agree, SlotsOk
<1>5. m \in 0 .. 1 /\ (sock[u].counted => m = 1) /\ (~sock[u].counted => m = 0)
  OBVIOUS
<1> HIDE DEF t, m
<1>6. CASE Replaces(u, p)
  <2> DEFINE x == Remove(p.cache, {i})
             k == p.connections - m
  <2>1. i \in p.cache.items /\ i \in 1 .. p.size /\ i \notin p.free /\ ~IsEmpty(p.cache)
    BY <1>1, <1>6 DEF IsLast, IsEmpty, ItemsOk
  <2>2. p.cache \in QueuesOver(Items) /\ WellFormed(p.cache)
    BY <1>1 DEF ItemsOk, Pool
  <2>3. x \in QueuesOver(Items) /\ WellFormed(x) /\ x.items = p.cache.items \ {i}
    BY <2>2, RemoveWF
  <2>4. Cardinality(x.items) = Cardinality(p.cache.items) - 1
    <3>1. Cardinality(p.cache.items \ {i}) = Cardinality(p.cache.items) - 1
      BY <1>3, <2>1, FS_RemoveElement
    <3> QED
      BY <2>3, <3>1
  <2>5. k \in Nat /\ p.connections \in Nat /\ k <= p.connections
    BY <1>1, <1>3, <1>4, <1>5 DEF Pool
  <2>6. q = [p EXCEPT !.cache = x, !.connections = k]
    <3>1. k = IF sock[u].counted THEN p.connections - 1 ELSE p.connections
      BY <1>5, <2>5
    <3> QED
      BY <1>1, <1>6, <3>1 DEF Kept, Pool
  <2> HIDE DEF q, x
  <2>7. /\ q \in Pool /\ q.cache = x /\ q.connections = k
        /\ q.wait = p.wait /\ q.waiting = p.waiting /\ q.posted = p.posted
        /\ q.op = p.op /\ q.owner = p.owner /\ q.alive = p.alive /\ q.size = p.size
        /\ q.backlog = p.backlog /\ q.free = p.free
    BY <1>1, <2>3, <2>5, <2>6 DEF Pool
  <2>8. SlotsOk(q, t, 1)
    BY <1>3, <1>4, <1>5, <2>4, <2>5, <2>7 DEF SlotsOk
  <2>9. OpsOk(q, t)
    BY <1>4, <2>7 DEF OpsOk
  <2>10. AdmissionOk(q)
    BY <1>1, <2>1, <2>5, <2>7 DEF AdmissionOk, Pool
  <2>11. ItemsOk(q, {i})
    BY <1>1, <2>1, <2>3, <2>7 DEF ItemsOk
  <2> QED
    BY <1>4, <2>7, <2>8, <2>9, <2>10, <2>11 DEF Agree, q, t
<1>7. CASE ~Replaces(u, p)
  <2> DEFINE f == p.free \ {i}
             k == p.connections + (1 - m)
  <2>1. i \in p.free /\ i \in 1 .. p.size /\ i \notin p.cache.items
    BY <1>1, <1>7 DEF ItemsOk
  <2>2. k \in Nat /\ p.connections \in Nat /\ k >= p.connections
    BY <1>1, <1>5 DEF Pool
  <2>3. q = [p EXCEPT !.free = f, !.connections = k]
    <3>1. k = IF sock[u].counted THEN p.connections ELSE p.connections + 1
      BY <1>5, <2>2
    <3> QED
      BY <1>1, <1>7, <3>1 DEF Kept, Pool
  <2>4. f \in SUBSET Items
    BY <1>1 DEF Pool
  <2> HIDE DEF q
  <2>5. /\ q \in Pool /\ q.cache = p.cache /\ q.connections = k
        /\ q.wait = p.wait /\ q.waiting = p.waiting /\ q.posted = p.posted
        /\ q.op = p.op /\ q.owner = p.owner /\ q.alive = p.alive /\ q.size = p.size
        /\ q.backlog = p.backlog /\ q.free = f
    BY <1>1, <2>2, <2>3, <2>4 DEF Pool
  <2>6. SlotsOk(q, t, 1)
    BY <1>3, <1>4, <1>5, <2>2, <2>5 DEF SlotsOk
  <2>7. OpsOk(q, t)
    BY <1>4, <2>5 DEF OpsOk
  <2>8. AdmissionOk(q)
    <3>1. p.backlog >= 0 => k <= p.size
      BY <1>1, <1>5, <1>7, <2>2 DEF AdmissionOk, Replaces, IsFull, Pool
    <3> QED
      BY <1>1, <2>2, <2>5, <3>1 DEF AdmissionOk, Pool
  <2>9. ItemsOk(q, {i})
    BY <1>1, <2>1, <2>5 DEF ItemsOk
  <2> QED
    BY <1>4, <2>5, <2>6, <2>7, <2>8, <2>9 DEF Agree, q, t
<1> QED
  BY <1>6, <1>7

-----------------------------------------------------------------------------
(* Connections that end.                                                   *)

LEMMA InHandNoItem == InHand(NoItem) = {} /\ \A i \in Items : InHand(i) = {i}
BY ItemsFacts DEF InHand

\* A slot in hand is released
LEMMA ReleaseNoItem ==
    ASSUME NEW p, NEW s, NEW n \in Nat, Agree(p, s, n + 1, {}), AliveExact(p)
    PROVE  Agree(ReleaseSlot(p, NoItem), s, n, {}) /\ AliveExact(ReleaseSlot(p, NoItem))
<1>1. /\ Cardinality(ActiveIn(s)) \in Nat /\ Cardinality(p.cache.items) \in Nat
      /\ Cardinality(p.posted.items) \in Nat
  BY Finite
<1>2. p.connections > 0
  BY <1>1 DEF Agree, SlotsOk
<1>3. p.alive
  BY <1>2 DEF AliveExact, Agree, Pool
<1> QED
  BY <1>3, InHandNoItem, ReleaseOk

\* finalize leaves the slot of a cosocket that still resolves in hand
LEMMA FinalizedOk ==
    ASSUME NEW u \in Sock, Inv, sock[u].at # "wait"
    PROVE  LET f == Finalized(pool, sock[u])
           IN  /\ Agree(f.pool, Shut(sock, u),
                        IF sock[u].at = "resolve" THEN Holds(sock[u]) ELSE 0, {})
               /\ AliveExact(f.pool)
               /\ f.connClosed = (sock[u].at \in {"connect", "open"})
<1>1. Agree(pool, Shut(sock, u), Holds(sock[u]), {}) /\ AliveExact(pool)
  BY ShutOk DEF Inv
<1>2. sock[u] \in SockState
  BY DEF Inv, Agree
<1>3. CASE sock[u].at \in {"connect", "open"} /\ sock[u].counted
  <2>1. Holds(sock[u]) = 0 + 1
    BY <1>3 DEF Holds, Spare
  <2>2. /\ Agree(ReleaseSlot(pool, NoItem), Shut(sock, u), 0, {})
        /\ AliveExact(ReleaseSlot(pool, NoItem))
    BY <1>1, <2>1, ReleaseNoItem
  <2>3. /\ Finalized(pool, sock[u]).pool = ReleaseSlot(pool, NoItem)
        /\ Finalized(pool, sock[u]).connClosed = TRUE
    BY <1>3 DEF Finalized
  <2>4. sock[u].at # "resolve"
    BY <1>3
  <2> QED
    BY <1>3, <2>2, <2>3, <2>4
<1>4. CASE sock[u].at \in {"connect", "open"} /\ ~sock[u].counted
  <2>1. Holds(sock[u]) = 0 /\ sock[u].at # "resolve"
    BY <1>4 DEF Holds
  <2>2. /\ Finalized(pool, sock[u]).pool = pool
        /\ Finalized(pool, sock[u]).connClosed = TRUE
    BY <1>4 DEF Finalized
  <2> QED
    BY <1>1, <1>4, <2>1, <2>2
<1>5. CASE sock[u].at \notin {"connect", "open"}
  <2>1. (IF sock[u].at = "resolve" THEN Holds(sock[u]) ELSE 0) = Holds(sock[u])
    BY <1>5 DEF Holds, Spare
  <2>2. /\ Finalized(pool, sock[u]).pool = pool
        /\ Finalized(pool, sock[u]).connClosed = FALSE
    BY <1>5 DEF Finalized
  <2>3. (sock[u].at \in {"connect", "open"}) = FALSE
    BY <1>5
  <2> QED
    BY <1>1, <2>1, <2>2, <2>3
<1> QED
  BY <1>3, <1>4, <1>5

\* A resolver or a connection that failed leaves nothing behind
LEMMA CleanedUpOk ==
    ASSUME NEW u \in Sock, Inv, sock[u].at \in {"resolve", "connect"}
    PROVE  LET q == CleanedUp(Finalized(pool, sock[u]), sock[u])
           IN  Agree(q, Shut(sock, u), 0, {}) /\ AliveExact(q)
<1> DEFINE f == Finalized(pool, sock[u])
<1>1. /\ Agree(f.pool, Shut(sock, u),
               IF sock[u].at = "resolve" THEN Holds(sock[u]) ELSE 0, {})
      /\ AliveExact(f.pool)
      /\ f.connClosed = (sock[u].at \in {"connect", "open"})
  BY FinalizedOk
<1> HIDE DEF f
<1>2. CASE sock[u].at = "resolve" /\ sock[u].counted
  <2>1. Holds(sock[u]) = 0 + 1
    BY <1>2 DEF Holds, Spare
  <2>3. ~f.connClosed
    BY <1>1, <1>2
  <2>2. CleanedUp(f, sock[u]) = ReleaseSlot(f.pool, NoItem)
    BY <1>2, <2>3 DEF CleanedUp
  <2> QED
    BY <1>1, <1>2, <2>1, <2>2, ReleaseNoItem DEF f
<1>3. CASE ~(sock[u].at = "resolve" /\ sock[u].counted)
  <2>1. CleanedUp(f, sock[u]) = f.pool
    BY <1>1, <1>3 DEF CleanedUp
  <2>2. sock[u].at = "resolve" => Holds(sock[u]) = 0
    BY <1>3 DEF Holds
  <2> QED
    BY <1>1, <2>1, <2>2 DEF f
<1> QED
  BY <1>2, <1>3

\* The rest of connect uses the slot in hand or releases it
LEMMA StartsOk ==
    ASSUME NEW p, NEW u \in Sock, NEW counted \in BOOLEAN, NEW c \in SockState,
           c.at = "none", sock \in [Sock -> SockState],
           Agree(p, [sock EXCEPT ![u] = c], IF counted THEN 1 ELSE 0, {}), AliveExact(p),
           Starts(u, p, counted)
    PROVE  Inv'
<1> DEFINE s == [sock EXCEPT ![u] = c]
           m == IF counted THEN 1 ELSE 0
<1>1. /\ Agree(p, s, m, {}) /\ s \in [Sock -> SockState] /\ s[u] = c
      /\ \A d : [s EXCEPT ![u] = d] = [sock EXCEPT ![u] = d]
  OBVIOUS
<1>2. Holds(c) = 0 /\ c.at # "wait" /\ m \in Int
  BY DEF Holds, Spare
<1>3. CASE /\ \E at \in Spare : sock' = [sock EXCEPT ![u] = [at |-> at, counted |-> counted]]
           /\ pool' = p
  <2>1. PICK at \in Spare : sock' = [sock EXCEPT ![u] = [at |-> at, counted |-> counted]]
    BY <1>3
  <2> DEFINE d == [at |-> at, counted |-> counted]
  <2>2. d \in SockState /\ d.at # "wait" /\ Holds(d) = m
    BY DEF SockState, Spare, Holds
  <2> HIDE DEF d, m, s
  <2>3. Agree(p, [s EXCEPT ![u] = d], 0, {})
    <3>1. Agree(p, [s EXCEPT ![u] = d], m + Holds(s[u]) - Holds(d), {})
      BY <1>1, <1>2, <2>2, MoveOk
    <3>2. m + Holds(s[u]) - Holds(d) = 0
      BY <1>1, <1>2, <2>2
    <3> QED
      BY <3>1, <3>2
  <2> QED
    BY <1>1, <1>3, <2>1, <2>3 DEF Inv, d
<1>4. CASE LET d == [at |-> "none", counted |-> counted]
           IN  /\ sock' = [sock EXCEPT ![u] = d]
               /\ pool' = CleanedUp(Finalized(p, d), d)
  <2> DEFINE d == [at |-> "none", counted |-> counted]
  <2>1. d \in SockState /\ d.at # "wait" /\ Holds(d) = 0 /\ d.counted = counted
    BY DEF SockState, Spare, Holds
  <2>2. Finalized(p, d) = [pool |-> p, connClosed |-> FALSE]
    BY DEF Finalized
  <2>3. pool' = IF counted THEN ReleaseSlot(p, NoItem) ELSE p
    BY <1>4, <2>2 DEF CleanedUp
  <2>4. sock' = [sock EXCEPT ![u] = d]
    BY <1>4
  <2>5. m = IF counted THEN 0 + 1 ELSE 0
    OBVIOUS
  <2> HIDE DEF d, s, m
  <2>6. Agree(p, [s EXCEPT ![u] = d], m, {})
    <3>1. Agree(p, [s EXCEPT ![u] = d], m + Holds(s[u]) - Holds(d), {})
      BY <1>1, <1>2, <2>1, MoveOk
    <3>2. m + Holds(s[u]) - Holds(d) = m
      BY <1>1, <1>2, <2>1
    <3> QED
      BY <3>1, <3>2
  <2>7. CASE counted
    <3>1. /\ Agree(ReleaseSlot(p, NoItem), [s EXCEPT ![u] = d], 0, {})
          /\ AliveExact(ReleaseSlot(p, NoItem))
      BY <2>5, <2>6, <2>7, ReleaseNoItem
    <3> QED
      BY <1>1, <2>3, <2>4, <2>7, <3>1 DEF Inv
  <2>8. CASE ~counted
    BY <1>1, <2>3, <2>4, <2>5, <2>6, <2>8 DEF Inv
  <2> QED
    BY <2>7, <2>8
<1> QED
  BY <1>3, <1>4 DEF Starts

-----------------------------------------------------------------------------
(* The actions.                                                            *)

\* The pools that connect finds or creates, once the old connection is closed
LEMMA PoolsForOk ==
    ASSUME Inv, NEW u \in Sock, Connectable(u), NEW p \in PoolsFor(u)
    PROVE  /\ Agree(p, Shut(sock, u), 0, {})
           /\ AliveExact(p) \/ (p.alive /\ p.connections = 0 /\ p.size > 0 /\ IsEmpty(p.cache))
<1> DEFINE f == Finalized(pool, sock[u]).pool
<1>1. Agree(f, Shut(sock, u), 0, {}) /\ AliveExact(f)
  BY FinalizedOk DEF Connectable
<1> HIDE DEF f
<1>2. CASE p = f
  BY <1>1, <1>2
<1>3. CASE p # f
  <2>1. PICK n \in Sizes, b \in Backlogs : p = NewPool(n, b)
    BY <1>3 DEF PoolsFor, f
  <2>2. ~f.alive
    BY <1>3 DEF PoolsFor, f
  <2>3. f.connections = 0
    BY <1>1, <2>2 DEF AliveExact, Agree, Pool
  <2>4. Agree(p, Shut(sock, u), 0, {})
    BY <1>1, <2>1, <2>3, NewPoolOk
  <2>5. /\ p.alive = TRUE /\ p.connections = 0 /\ p.size = n /\ p.cache = EmptyQueue
        /\ n > 0
    BY <2>1, SizesAssumption DEF NewPool
  <2> QED
    BY <2>4, <2>5 DEF IsEmpty, EmptyQueue
<1> QED
  BY <1>2, <1>3

LEMMA ConnectAloneOk ==
    ASSUME Inv, NEW u \in Sock, ConnectAlone(u)
    PROVE  Inv'
<1>1. PICK p \in PoolsFor(u) : ~p.alive /\ Starts(u, p, FALSE)
  BY DEF ConnectAlone
<1>2. Agree(p, Shut(sock, u), 0, {}) /\ AliveExact(p)
  BY <1>1, PoolsForOk DEF ConnectAlone
<1> DEFINE c == [at |-> "none", counted |-> sock[u].counted]
<1>3. /\ sock \in [Sock -> SockState] /\ c \in SockState /\ c.at = "none"
      /\ Shut(sock, u) = [sock EXCEPT ![u] = c]
  BY ShutFacts DEF Inv, Agree, SockState
<1> HIDE DEF c
<1>4. Agree(p, [sock EXCEPT ![u] = c], IF FALSE THEN 1 ELSE 0, {})
  BY <1>2, <1>3
<1> QED
  BY <1>1, <1>2, <1>3, <1>4, StartsOk

LEMMA ConnectReuseOk ==
    ASSUME Inv, NEW u \in Sock, ConnectReuse(u)
    PROVE  Inv'
<1>1. PICK p \in PoolsFor(u), i \in Items :
         /\ p.alive /\ IsHead(p.cache, i)
         /\ pool' = Taken(p, i)
         /\ sock' = [sock EXCEPT ![u] = [at |-> "open", counted |-> TRUE]]
  BY DEF ConnectReuse
<1>2. i \in p.cache.items
  BY <1>1 DEF IsHead
<1>3. Agree(p, Shut(sock, u), 0, {}) /\ AliveExact(p)
  BY <1>2, PoolsForOk DEF ConnectReuse, IsEmpty
<1> DEFINE s == Shut(sock, u)
           d == [at |-> "open", counted |-> TRUE]
<1>4. /\ Agree(Taken(p, i), s, 0 + 1, {}) /\ AliveExact(Taken(p, i))
  BY <1>2, <1>3, TakenOk DEF AliveExact
<1>5. /\ sock \in [Sock -> SockState] /\ s[u].at = "none"
      /\ [s EXCEPT ![u] = d] = [sock EXCEPT ![u] = d]
  BY ShutFacts DEF Inv, Agree, Shut
<1>6. d \in SockState /\ d.at # "wait" /\ Holds(d) = 1 /\ Holds(s[u]) = 0
  BY <1>5 DEF SockState, Holds, Spare
<1> HIDE DEF s, d
<1>7. Agree(Taken(p, i), [s EXCEPT ![u] = d], 1 + Holds(s[u]) - Holds(d), {})
  BY <1>4, <1>5, <1>6, MoveOk
<1>8. 1 + Holds(s[u]) - Holds(d) = 0
  BY <1>6
<1> QED
  BY <1>1, <1>4, <1>5, <1>7, <1>8 DEF Inv, d

LEMMA ConnectRefusedOk ==
    ASSUME Inv, NEW u \in Sock, ConnectRefused(u)
    PROVE  Inv'
<1>1. PICK p \in PoolsFor(u) :
         /\ p.alive /\ IsEmpty(p.cache) /\ IsFull(p) /\ p.waiting >= p.backlog
         /\ pool' = p
         /\ sock' = [sock EXCEPT ![u] = [at |-> "none", counted |-> TRUE]]
  BY DEF ConnectRefused
<1>2. Agree(p, Shut(sock, u), 0, {}) /\ AliveExact(p)
  BY <1>1, PoolsForOk DEF ConnectRefused, IsFull, Agree, Pool
<1> DEFINE s == Shut(sock, u)
           d == [at |-> "none", counted |-> TRUE]
<1>3. /\ sock \in [Sock -> SockState] /\ s[u].at = "none"
      /\ [s EXCEPT ![u] = d] = [sock EXCEPT ![u] = d]
  BY ShutFacts DEF Inv, Agree, Shut
<1>4. d \in SockState /\ d.at # "wait" /\ Holds(d) = 0 /\ Holds(s[u]) = 0
  BY <1>3 DEF SockState, Holds, Spare
<1>5. PICK n \in Int : n = 0
  OBVIOUS
<1>6. Agree(p, s, n, {})
  BY <1>2, <1>5
<1> HIDE DEF s, d
<1>7. Agree(p, [s EXCEPT ![u] = d], n + Holds(s[u]) - Holds(d), {})
  BY <1>3, <1>4, <1>6, MoveOk
<1>8. n + Holds(s[u]) - Holds(d) = 0
  BY <1>4, <1>5
<1> QED
  BY <1>1, <1>2, <1>3, <1>7, <1>8 DEF Inv, d

LEMMA ConnectQueuedOk ==
    ASSUME Inv, NEW u \in Sock, ConnectQueued(u)
    PROVE  Inv'
<1>1. PICK p \in PoolsFor(u) :
         /\ p.alive /\ IsEmpty(p.cache) /\ IsFull(p) /\ p.waiting < p.backlog
         /\ pool' = Enqueued(p, u)
         /\ sock' = [sock EXCEPT ![u] = [at |-> "wait", counted |-> TRUE]]
  BY DEF ConnectQueued, Enqueued
<1>2. Agree(p, Shut(sock, u), 0, {}) /\ AliveExact(p)
  BY <1>1, PoolsForOk DEF ConnectQueued, IsFull, Agree, Pool
<1>3. p.connections > 0
  BY <1>1, <1>2 DEF AliveExact
<1> DEFINE s == Shut(sock, u)
           d == [at |-> "wait", counted |-> TRUE]
<1>4. /\ sock \in [Sock -> SockState] /\ s[u].at = "none"
      /\ [s EXCEPT ![u] = d] = [sock EXCEPT ![u] = d]
  BY ShutFacts DEF Inv, Agree, Shut
<1>5. Holds(s[u]) = 0
  BY <1>4 DEF Holds, Spare
<1>6. PICK n \in Int : n = 0
  OBVIOUS
<1>7. Agree(p, s, n, {})
  BY <1>2, <1>6
<1> HIDE DEF s
<1>8. /\ Agree(Enqueued(p, u), [s EXCEPT ![u] = d], n + Holds(s[u]), {})
      /\ Enqueued(p, u).alive = p.alive /\ Enqueued(p, u).connections = p.connections
  BY <1>1, <1>3, <1>4, <1>7, EnqueuedOk
<1>9. n + Holds(s[u]) = 0
  BY <1>5, <1>6
<1> HIDE DEF d
<1> QED
  BY <1>1, <1>2, <1>4, <1>8, <1>9 DEF Inv, AliveExact, d

\* The connect that is not queued takes a new slot
Added(p) == [p EXCEPT !.connections = @ + 1]

LEMMA AddedOk ==
    ASSUME NEW p, NEW s, Agree(p, s, 0, {}), p.alive, ~IsFull(p)
    PROVE  Agree(Added(p), s, 1, {}) /\ AliveExact(Added(p))
<1> DEFINE q == Added(p)
<1>1. p \in Pool /\ p.connections \in Nat /\ p.connections + 1 \in Nat
  BY DEF Agree, Pool
<1>2. /\ q \in Pool /\ q.cache = p.cache /\ q.connections = p.connections + 1
      /\ q.wait = p.wait /\ q.waiting = p.waiting /\ q.posted = p.posted
      /\ q.op = p.op /\ q.owner = p.owner /\ q.alive = p.alive /\ q.size = p.size
      /\ q.backlog = p.backlog /\ q.free = p.free
  BY <1>1 DEF Added, Pool
<1> HIDE DEF q
<1>3. SlotsOk(q, s, 1)
  <2>1. /\ Cardinality(ActiveIn(s)) \in Nat /\ Cardinality(p.cache.items) \in Nat
        /\ Cardinality(p.posted.items) \in Nat
    BY Finite
  <2> QED
    BY <1>1, <1>2, <2>1 DEF Agree, SlotsOk
<1>4. OpsOk(q, s) /\ ItemsOk(q, {})
  BY <1>2 DEF Agree, OpsOk, ItemsOk
<1>5. AdmissionOk(q)
  BY <1>1, <1>2 DEF Agree, AdmissionOk, IsFull, Pool
<1>6. AliveExact(q)
  <2>1. p.alive = TRUE
    BY <1>1 DEF Pool
  <2>2. (q.connections > 0) = TRUE
    BY <1>1, <1>2
  <2> QED
    BY <1>2, <2>1, <2>2 DEF AliveExact
<1> QED
  BY <1>2, <1>3, <1>4, <1>5, <1>6 DEF Agree, q

LEMMA ConnectNewOk ==
    ASSUME Inv, NEW u \in Sock, ConnectNew(u)
    PROVE  Inv'
<1>1. PICK p \in PoolsFor(u) :
         p.alive /\ ~IsFull(p) /\ Starts(u, Added(p), TRUE)
  BY DEF ConnectNew, Added
<1>2. Agree(p, Shut(sock, u), 0, {})
  BY PoolsForOk DEF ConnectNew
<1>3. Agree(Added(p), Shut(sock, u), 1, {}) /\ AliveExact(Added(p))
  BY <1>1, <1>2, AddedOk
<1> DEFINE c == [at |-> "none", counted |-> sock[u].counted]
<1>4. /\ sock \in [Sock -> SockState] /\ c \in SockState /\ c.at = "none"
      /\ Shut(sock, u) = [sock EXCEPT ![u] = c]
  BY ShutFacts DEF Inv, Agree, SockState
<1> HIDE DEF c
<1>5. Agree(Added(p), [sock EXCEPT ![u] = c], IF TRUE THEN 1 ELSE 0, {})
  BY <1>3, <1>4
<1> QED
  BY <1>1, <1>3, <1>4, <1>5, StartsOk

LEMMA OpTimeoutOk ==
    ASSUME Inv, NEW u \in Sock, OpTimeout(u)
    PROVE  Inv'
<1>1. u \in pool.wait.items
  BY DEF OpTimeout, Inv, Agree, OpsOk
<1>2. pool' = LeftWait(pool, u) /\ sock' = Shut(sock, u)
  BY DEF OpTimeout, LeftWait, Closed, Shut
<1>3. /\ Agree(LeftWait(pool, u), Shut(sock, u), 0, {})
      /\ LeftWait(pool, u).alive = pool.alive
      /\ LeftWait(pool, u).connections = pool.connections
  BY <1>1, LeftWaitOk DEF Inv
<1> QED
  BY <1>2, <1>3 DEF Inv, AliveExact

\* What Dequeued is for either queue
LEMMA DequeuedIs ==
    ASSUME Inv, NEW u \in Sock
    PROVE  /\ u \in pool.wait.items =>
                  [Dequeued(u) EXCEPT !.waiting = @ - 1] = LeftWait(pool, u)
           /\ u \in pool.posted.items => Dequeued(u) = LeftPosted(pool, u)
<1>1. /\ pool \in Pool /\ OpsOk(pool, sock)
      /\ pool.wait \in QueuesOver(Sock) /\ pool.posted \in QueuesOver(Sock)
      /\ WellFormed(pool.wait) /\ WellFormed(pool.posted)
      /\ pool.wait.items \cap pool.posted.items = {}
  BY DEF Inv, Agree, OpsOk, Pool
<1> DEFINE ow == [i \in Items |-> IF i = pool.op[u].item THEN NoSock ELSE pool.owner[i]]
           w == Remove(pool.wait, {u})
           x == Remove(pool.posted, {u})
           op2 == [pool.op EXCEPT ![u] = FreshOp]
<1>2. Dequeued(u) = [pool EXCEPT !.wait = w, !.posted = x, !.op = op2, !.owner = ow]
  BY <1>1 DEF Dequeued, Pool
<1>3. ASSUME u \in pool.wait.items
      PROVE  [Dequeued(u) EXCEPT !.waiting = @ - 1] = LeftWait(pool, u)
  <2>1. x = pool.posted
    BY <1>1, <1>3, RemoveNothing
  <2>2. pool.op[u].item = NoItem
    BY <1>1, <1>3 DEF OpsOk, Pool, ConnOp
  <2>3. ow = pool.owner
    BY <1>1, <2>2, ItemsFacts DEF Pool
  <2>4. Dequeued(u).waiting = pool.waiting
    BY <1>1, <1>2 DEF Pool
  <2>5. LeftWait(pool, u) = [pool EXCEPT !.wait = w, !.waiting = pool.waiting - 1, !.op = op2]
    BY <1>1 DEF LeftWait, Pool
  <2>6. Dequeued(u) = [pool EXCEPT !.wait = w, !.posted = pool.posted, !.op = op2,
                                   !.owner = pool.owner]
    BY <1>2, <2>1, <2>3
  <2> HIDE DEF w, op2
  <2>7. Dequeued(u) = [pool EXCEPT !.wait = w, !.op = op2]
    BY <1>1, <2>6 DEF Pool
  <2>8. [[pool EXCEPT !.wait = w, !.op = op2] EXCEPT !.waiting = pool.waiting - 1]
            = [pool EXCEPT !.wait = w, !.waiting = pool.waiting - 1, !.op = op2]
    BY <1>1 DEF Pool
  <2> QED
    BY <2>4, <2>5, <2>7, <2>8
<1>4. ASSUME u \in pool.posted.items
      PROVE  Dequeued(u) = LeftPosted(pool, u)
  <2>1. w = pool.wait
    BY <1>1, <1>4, RemoveNothing
  <2>2. LeftPosted(pool, u) = [pool EXCEPT !.posted = x, !.op = op2, !.owner = ow]
    BY <1>1 DEF LeftPosted, Pool
  <2>3. Dequeued(u) = [pool EXCEPT !.wait = pool.wait, !.posted = x, !.op = op2, !.owner = ow]
    BY <1>2, <2>1
  <2> HIDE DEF x, op2, ow
  <2> QED
    BY <1>1, <2>2, <2>3 DEF Pool
<1> QED
  BY <1>3, <1>4

LEMMA OpCancelOk ==
    ASSUME Inv, NEW u \in Sock, OpCancel(u)
    PROVE  Inv'
<1>1. /\ u \in pool.wait.items \cup pool.posted.items
      /\ pool.op[u].queued <=> u \in pool.wait.items
      /\ pool.op[u].item \in Items \cup {NoItem}
  BY DEF OpCancel, Inv, Agree, OpsOk, Pool, ConnOp
<1>2. sock' = Shut(sock, u)
  BY DEF OpCancel, Closed, Shut
<1>3. CASE u \in pool.wait.items
  <2>1. pool' = LeftWait(pool, u)
    BY <1>1, <1>3, DequeuedIs DEF OpCancel, Canceled
  <2>2. /\ Agree(LeftWait(pool, u), Shut(sock, u), 0, {})
        /\ LeftWait(pool, u).alive = pool.alive
        /\ LeftWait(pool, u).connections = pool.connections
    BY <1>3, LeftWaitOk DEF Inv
  <2> QED
    BY <1>2, <2>1, <2>2 DEF Inv, AliveExact
<1>4. CASE u \in pool.posted.items /\ u \notin pool.wait.items
  <2> DEFINE p == LeftPosted(pool, u)
             i == pool.op[u].item
  <2>1. pool' = ReleaseSlot(p, i)
    BY <1>1, <1>4, DequeuedIs DEF OpCancel, Canceled
  <2>2. PICK n \in Nat : n = 0
    OBVIOUS
  <2>3. Agree(pool, sock, n, {})
    BY <2>2 DEF Inv
  <2>4. /\ Agree(p, Shut(sock, u), n + 1, InHand(i))
        /\ p.alive = pool.alive /\ p.connections = pool.connections
    BY <1>4, <2>3, LeftPostedOk
  <2>5. p.alive
    <3>1. /\ Cardinality(ActiveIn(Shut(sock, u))) \in Nat /\ Cardinality(p.cache.items) \in Nat
          /\ Cardinality(p.posted.items) \in Nat
      BY <2>4, Finite
    <3>2. p.connections > 0
      BY <2>4, <3>1 DEF Agree, SlotsOk
    <3> QED
      BY <2>4, <3>2 DEF Inv, AliveExact
  <2> HIDE DEF p
  <2>6. Agree(ReleaseSlot(p, i), Shut(sock, u), n, {}) /\ AliveExact(ReleaseSlot(p, i))
    BY <1>1, <2>4, <2>5, ReleaseOk
  <2> QED
    BY <1>2, <2>1, <2>2, <2>6 DEF Inv
<1> QED
  BY <1>1, <1>3, <1>4

LEMMA OpResumeOk ==
    ASSUME Inv, NEW u \in Sock, OpResume(u)
    PROVE  Inv'
<1> DEFINE p == LeftPosted(pool, u)
           item == pool.op[u].item
           s == Shut(sock, u)
           d == [at |-> "open", counted |-> TRUE]
<1>1. u \in pool.posted.items
  BY DEF OpResume, IsHead
<1>2. Dequeued(u) = p
  BY <1>1, DequeuedIs
<1>3. /\ sock \in [Sock -> SockState] /\ sock[u].counted = TRUE
      /\ item \in Items \cup {NoItem} /\ pool.op[u] \in ConnOp
  BY <1>1 DEF Inv, Agree, OpsOk, Pool, ConnOp, SockState
<1>4. PICK n \in Nat : n = 0
  OBVIOUS
<1>5. Agree(pool, sock, n, {})
  BY <1>4 DEF Inv
<1>6. /\ Agree(p, s, n + 1, InHand(item))
      /\ p.alive = pool.alive /\ p.connections = pool.connections
  BY <1>1, <1>5, LeftPostedOk
<1>7. AliveExact(p)
  BY <1>6 DEF Inv, AliveExact
<1>8. /\ [sock EXCEPT ![u].at = "open"] = [s EXCEPT ![u] = d] /\ s[u].at = "none"
      /\ s = [sock EXCEPT ![u] = [at |-> "none", counted |-> TRUE]]
  <2>1. [sock[u] EXCEPT !.at = "open"] = [at |-> "open", counted |-> sock[u].counted]
    BY <1>3 DEF SockState
  <2>2. [sock EXCEPT ![u].at = "open"] = [sock EXCEPT ![u] = d]
    BY <1>3, <2>1
  <2>3. /\ s[u].at = "none"
        /\ s = [sock EXCEPT ![u] = [at |-> "none", counted |-> sock[u].counted]]
    <3>1. sock \in [Sock -> SockState] /\ u \in Sock
      BY <1>3
    <3> QED
      BY <3>1, ShutFacts
  <2>4. [s EXCEPT ![u] = d] = [sock EXCEPT ![u] = d]
    BY <2>3
  <2> QED
    BY <1>3, <2>2, <2>3, <2>4
<1>9. d \in SockState /\ d.at # "wait" /\ Holds(d) = 1 /\ Holds(s[u]) = 0 /\ s[u].at # "wait"
  BY <1>8 DEF SockState, Holds, Spare
<1> HIDE DEF p, s, d
\* a slot in hand becomes that of u
<1>10. ASSUME NEW q, NEW m \in Nat, Agree(q, s, m + 1, {})
       PROVE  Agree(q, [s EXCEPT ![u] = d], m, {})
  <2>1. Agree(q, [s EXCEPT ![u] = d], (m + 1) + Holds(s[u]) - Holds(d), {})
    BY <1>9, <1>10, MoveOk
  <2>2. (m + 1) + Holds(s[u]) - Holds(d) = m
    BY <1>9
  <2> QED
    BY <2>1, <2>2
<1>11. CASE item # NoItem /\ pool' = Taken(p, item) /\ sock' = [sock EXCEPT ![u].at = "open"]
  <2>1. item \in Items /\ InHand(item) = {item}
    BY <1>3, <1>11, InHandNoItem
  <2>2. /\ Agree(Taken(p, item), s, n + 1, {})
        /\ Taken(p, item).alive = p.alive /\ Taken(p, item).connections = p.connections
    BY <1>6, <2>1, FreedOk, TakenInHand
  <2>3. Agree(Taken(p, item), [s EXCEPT ![u] = d], n, {})
    BY <1>10, <2>2
  <2> QED
    BY <1>4, <1>7, <1>8, <1>11, <2>2, <2>3 DEF Inv, AliveExact
<1>12. CASE /\ item = NoItem
            /\ \E i \in Items : /\ IsHead(p.cache, i)
                                /\ pool' = ReleaseSlot(Taken(p, i), NoItem)
            /\ sock' = [sock EXCEPT ![u].at = "open"]
  <2>1. InHand(item) = {}
    BY <1>12, InHandNoItem
  <2>2. PICK i \in Items : IsHead(p.cache, i) /\ pool' = ReleaseSlot(Taken(p, i), NoItem)
    BY <1>12
  <2>3. i \in p.cache.items
    BY <2>2 DEF IsHead
  <2>4. PICK k \in Nat : k = n + 1
    OBVIOUS
  <2>5. /\ Agree(Taken(p, i), s, k + 1, {})
        /\ Taken(p, i).alive = p.alive /\ Taken(p, i).connections = p.connections
    BY <1>6, <2>1, <2>3, <2>4, TakenOk
  <2>6. Agree(Taken(p, i), [s EXCEPT ![u] = d], n + 1, {}) /\ AliveExact(Taken(p, i))
    BY <1>7, <1>10, <2>5, <2>4 DEF AliveExact
  <2>7. /\ Agree(ReleaseSlot(Taken(p, i), NoItem), [s EXCEPT ![u] = d], n, {})
        /\ AliveExact(ReleaseSlot(Taken(p, i), NoItem))
    BY <2>6, ReleaseNoItem
  <2> QED
    BY <1>4, <1>8, <1>12, <2>2, <2>7 DEF Inv
<1>13. CASE item = NoItem /\ Starts(u, p, sock[u].counted)
  <2>1. InHand(item) = {}
    BY <1>13, InHandNoItem
  <2> DEFINE c == [at |-> "none", counted |-> TRUE]
  <2>2. c \in SockState /\ c.at = "none"
    BY DEF SockState
  <2>3. n + 1 = IF TRUE THEN 1 ELSE 0
    BY <1>4
  <2>4. Agree(p, [sock EXCEPT ![u] = c], IF TRUE THEN 1 ELSE 0, {})
    BY <1>6, <1>8, <2>1, <2>3
  <2> HIDE DEF c
  <2> QED
    BY <1>3, <1>7, <1>13, <2>2, <2>4, StartsOk
<1> QED
  BY <1>2, <1>11, <1>12, <1>13 DEF OpResume

\* A cosocket that fails to resolve or to connect is closed
LEMMA FailedOk ==
    ASSUME Inv, NEW u \in Sock, sock[u].at \in {"resolve", "connect"},
           pool' = CleanedUp(Finalized(pool, sock[u]), sock[u]),
           sock' = [sock EXCEPT ![u] = Closed(u)]
    PROVE  Inv'
<1>1. sock' = Shut(sock, u)
  BY DEF Closed, Shut
<1>2. LET q == CleanedUp(Finalized(pool, sock[u]), sock[u])
      IN  Agree(q, Shut(sock, u), 0, {}) /\ AliveExact(q)
  BY CleanedUpOk
<1> QED
  BY <1>1, <1>2 DEF Inv

\* A cosocket that goes on keeps its slot
LEMMA GoesOnOk ==
    ASSUME Inv, NEW u \in Sock, sock[u].at \in Spare, NEW at \in Spare,
           sock' = [sock EXCEPT ![u].at = at], pool' = pool
    PROVE  Inv'
<1> DEFINE d == [at |-> at, counted |-> sock[u].counted]
<1>1. sock \in [Sock -> SockState] /\ sock[u] \in SockState /\ sock[u].at # "wait"
  BY DEF Inv, Agree, Spare
<1>2. sock' = [sock EXCEPT ![u] = d]
  <2>1. [sock[u] EXCEPT !.at = at] = d
    BY <1>1 DEF SockState
  <2> QED
    BY <1>1, <2>1
<1>3. d \in SockState /\ d.at # "wait" /\ Holds(d) = Holds(sock[u]) /\ Holds(d) \in Int
  BY <1>1 DEF SockState, Spare, Holds
<1>4. PICK n \in Int : n = 0
  OBVIOUS
<1>5. Agree(pool, sock, n, {})
  BY <1>4 DEF Inv
<1> HIDE DEF d
<1>6. Agree(pool, [sock EXCEPT ![u] = d], n + Holds(sock[u]) - Holds(d), {})
  BY <1>1, <1>3, <1>5, MoveOk
<1>7. n + Holds(sock[u]) - Holds(d) = 0
  BY <1>3, <1>4
<1> QED
  BY <1>2, <1>6, <1>7 DEF Inv

LEMMA ResolveDoneOk ==
    ASSUME Inv, NEW u \in Sock, ResolveDone(u)
    PROVE  Inv'
<1>1. sock[u].at = "resolve" /\ sock[u].at \in Spare
  BY DEF ResolveDone, Spare
<1>2. CASE (\E at \in {"connect", "open"} : sock' = [sock EXCEPT ![u].at = at]) /\ UNCHANGED pool
  <2>1. PICK at \in {"connect", "open"} : sock' = [sock EXCEPT ![u].at = at]
    BY <1>2
  <2>2. at \in Spare
    BY DEF Spare
  <2> QED
    BY <1>1, <1>2, <2>1, <2>2, GoesOnOk
<1>3. CASE /\ pool' = CleanedUp(Finalized(pool, sock[u]), sock[u])
           /\ sock' = [sock EXCEPT ![u] = Closed(u)]
  BY <1>1, <1>3, FailedOk
<1> QED
  BY <1>2, <1>3 DEF ResolveDone

LEMMA ConnectDoneOk ==
    ASSUME Inv, NEW u \in Sock, ConnectDone(u)
    PROVE  Inv'
<1>1. sock[u].at = "connect" /\ sock[u].at \in Spare /\ "open" \in Spare
  BY DEF ConnectDone, Spare
<1>2. CASE sock' = [sock EXCEPT ![u].at = "open"] /\ UNCHANGED pool
  BY <1>1, <1>2, GoesOnOk
<1>3. CASE /\ pool' = CleanedUp(Finalized(pool, sock[u]), sock[u])
           /\ sock' = [sock EXCEPT ![u] = Closed(u)]
  BY <1>1, <1>3, FailedOk
<1> QED
  BY <1>2, <1>3 DEF ConnectDone

LEMMA ResolveKillOk ==
    ASSUME Inv, NEW u \in Sock, ResolveKill(u)
    PROVE  Inv'
<1>1. sock[u].at = "resolve" /\ sock[u].at # "wait"
  BY DEF ResolveKill
<1>2. Agree(pool, Shut(sock, u), Holds(sock[u]), {}) /\ AliveExact(pool)
  BY <1>1, ShutOk DEF Inv
<1>3. sock' = Shut(sock, u)
  BY DEF ResolveKill, Closed, Shut
<1>4. CASE sock[u].counted
  <2>1. Holds(sock[u]) = 0 + 1
    BY <1>1, <1>4 DEF Holds, Spare
  <2>2. /\ Agree(ReleaseSlot(pool, NoItem), Shut(sock, u), 0, {})
        /\ AliveExact(ReleaseSlot(pool, NoItem))
    BY <1>2, <2>1, ReleaseNoItem
  <2>3. pool' = ReleaseSlot(pool, NoItem)
    BY <1>4 DEF ResolveKill
  <2> QED
    BY <1>3, <2>2, <2>3 DEF Inv
<1>5. CASE ~sock[u].counted
  <2>1. Holds(sock[u]) = 0 /\ pool' = pool
    BY <1>5 DEF Holds, ResolveKill
  <2> QED
    BY <1>2, <1>3, <2>1 DEF Inv
<1> QED
  BY <1>4, <1>5

LEMMA FinalizeOk ==
    ASSUME Inv, NEW u \in Sock, sock[u].at \in {"connect", "open"},
           pool' = Finalized(pool, sock[u]).pool,
           sock' = [sock EXCEPT ![u] = Closed(u)]
    PROVE  Inv'
<1>1. sock' = Shut(sock, u)
  BY DEF Closed, Shut
<1>2. Agree(Finalized(pool, sock[u]).pool, Shut(sock, u), 0, {})
      /\ AliveExact(Finalized(pool, sock[u]).pool)
  BY FinalizedOk
<1> QED
  BY <1>1, <1>2 DEF Inv

LEMMA SetKeepaliveOk ==
    ASSUME Inv, NEW u \in Sock, SetKeepalive(u)
    PROVE  Inv'
<1> DEFINE P == IF pool.alive THEN {pool} ELSE {NewPool(n, -1) : n \in Sizes}
<1>1. sock[u].at = "open" /\ sock' = [sock EXCEPT ![u] = Closed(u)] /\ sock' = Shut(sock, u)
  BY DEF SetKeepalive, Closed, Shut
<1>2. PICK p \in P :
         \/ /\ Replaces(u, p) /\ IsEmpty(p.cache)
            /\ pool' = Finalized(p, sock[u]).pool
         \/ \E i \in Items :
              /\ IF Replaces(u, p) THEN IsLast(p.cache, i) ELSE i \in p.free
              /\ \/ pool' = ReleaseSlot(Kept(u, p, i), i)
                 \/ pool' = ReleaseSlot([Kept(u, p, i) EXCEPT !.free = @ \cup {i}], NoItem)
  BY DEF SetKeepalive
<1>3. Agree(p, sock, 0, {}) /\ p.alive /\ (p = pool \/ ~Replaces(u, p))
  <2>1. CASE pool.alive
    BY <2>1 DEF Inv
  <2>2. CASE ~pool.alive
    <3>1. pool.connections = 0 /\ Agree(pool, sock, 0, {})
      BY <2>2 DEF Inv, AliveExact, Agree, Pool
    <3>2. PICK n \in Sizes : p = NewPool(n, -1)
      BY <2>2
    <3>3. Agree(p, sock, 0, {})
      BY <3>1, <3>2, NewPoolOk
    <3>4. p.alive = TRUE /\ p.free = 1 .. n /\ p.backlog = -1 /\ n \in Nat \ {0}
      BY <3>2, SizesAssumption DEF NewPool
    <3>5. ~Replaces(u, p)
      BY <3>4 DEF Replaces, IsFull
    <3> QED
      BY <3>3, <3>4, <3>5
  <2> QED
    BY <2>1, <2>2
<1> HIDE DEF P
<1>4. CASE Replaces(u, p) /\ pool' = Finalized(p, sock[u]).pool
  BY <1>1, <1>3, <1>4, FinalizeOk
<1>5. ASSUME NEW i \in Items,
             IF Replaces(u, p) THEN IsLast(p.cache, i) ELSE i \in p.free,
             \/ pool' = ReleaseSlot(Kept(u, p, i), i)
             \/ pool' = ReleaseSlot([Kept(u, p, i) EXCEPT !.free = @ \cup {i}], NoItem)
      PROVE  Inv'
  <2> DEFINE q == Kept(u, p, i)
             s == Shut(sock, u)
  <2>1. Agree(q, s, 1, {i}) /\ q.alive
    BY <1>1, <1>3, <1>5, KeptOk
  <2>2. PICK n \in Nat : n = 0
    OBVIOUS
  <2>3. Agree(q, s, n + 1, {i}) /\ InHand(i) = {i}
    BY <2>1, <2>2, InHandNoItem
  <2> HIDE DEF q, s
  <2>4. CASE pool' = ReleaseSlot(q, i)
    <3>1. Agree(ReleaseSlot(q, i), s, n, {}) /\ AliveExact(ReleaseSlot(q, i))
      BY <2>1, <2>3, ReleaseOk
    <3> QED
      BY <1>1, <2>2, <2>4, <3>1 DEF Inv, s
  <2>5. CASE pool' = ReleaseSlot(Freed(q, i), NoItem)
    <3>1. Agree(Freed(q, i), s, n + 1, {}) /\ Freed(q, i).alive
      BY <2>1, <2>3, FreedOk
    <3>2. /\ Agree(ReleaseSlot(Freed(q, i), NoItem), s, n, {})
          /\ AliveExact(ReleaseSlot(Freed(q, i), NoItem))
      BY <3>1, InHandNoItem, ReleaseOk
    <3> QED
      BY <1>1, <2>2, <2>5, <3>2 DEF Inv, s
  <2> QED
    BY <1>5, <2>4, <2>5 DEF q, Freed
<1> QED
  BY <1>2, <1>4, <1>5

LEMMA KeepaliveCloseOk ==
    ASSUME Inv, NEW i \in Items, KeepaliveClose(i)
    PROVE  Inv'
<1>1. Agree(pool, sock, 0, {}) /\ AliveExact(pool) /\ pool' = Dropped(i) /\ sock' = sock
  BY DEF Inv, KeepaliveClose
<1>2. CASE pool.owner[i] = NoSock
  <2>1. i \in pool.cache.items
    BY <1>2 DEF KeepaliveClose
  <2>2. pool' = ReleaseSlot(Taken(pool, i), NoItem)
    BY <1>1, <1>2 DEF Dropped, Taken
  <2>3. PICK n \in Nat : n = 0
    OBVIOUS
  <2>4. Agree(pool, sock, n, {})
    BY <1>1, <2>3
  <2>5. Agree(Taken(pool, i), sock, n + 1, {}) /\ AliveExact(Taken(pool, i))
    BY <1>1, <2>1, <2>4, TakenOk DEF AliveExact
  <2>6. /\ Agree(ReleaseSlot(Taken(pool, i), NoItem), sock, n, {})
        /\ AliveExact(ReleaseSlot(Taken(pool, i), NoItem))
    BY <2>5, ReleaseNoItem
  <2> QED
    BY <1>1, <2>2, <2>3, <2>6 DEF Inv
<1>3. CASE pool.owner[i] # NoSock
  <2> DEFINE q == [Taken(pool, i) EXCEPT !.op[pool.owner[i]].item = NoItem]
  <2>1. Agree(q, sock, 0, {}) /\ q.alive = pool.alive /\ q.connections = pool.connections
    BY <1>1, <1>3, DisownOk
  <2>2. pool' = q
    BY <1>1, <1>3 DEF Dropped, Taken
  <2> HIDE DEF q
  <2> QED
    BY <1>1, <2>1, <2>2 DEF Inv, AliveExact
<1> QED
  BY <1>2, <1>3

-----------------------------------------------------------------------------

LEMMA InitInv == Init => Inv
<1> SUFFICES ASSUME Init PROVE Inv
  OBVIOUS
<1> DEFINE p == NewPool(0, -1)
<1>1. /\ pool = [p EXCEPT !.alive = FALSE]
      /\ sock = [u \in Sock |-> [at |-> "none", counted |-> FALSE]]
  BY DEF Init
<1>2. /\ p.connections = 0 /\ p.size = 0 /\ p.backlog = -1 /\ p.waiting = 0
      /\ p.wait = EmptyQueue /\ p.posted = EmptyQueue /\ p.cache = EmptyQueue
      /\ p.free = 1 .. 0 /\ p.owner = [i \in Items |-> NoSock]
      /\ p.op = [u \in Sock |-> FreshOp]
  BY DEF NewPool
<1>3. /\ EmptyQueue.items = {} /\ WellFormed(EmptyQueue)
      /\ EmptyQueue \in QueuesOver(Sock) /\ EmptyQueue \in QueuesOver(Items)
      /\ Cardinality(EmptyQueue.items) = 0
  BY EmptyQueueWF, EmptyQueueType, FS_EmptySet DEF EmptyQueue
<1>4. p \in Pool
  BY <1>3, FreshOpFacts DEF NewPool, Pool
<1> HIDE DEF p
<1>5. /\ pool \in Pool /\ pool.alive = FALSE
      /\ pool.connections = 0 /\ pool.size = 0 /\ pool.backlog = -1 /\ pool.waiting = 0
      /\ pool.wait = EmptyQueue /\ pool.posted = EmptyQueue /\ pool.cache = EmptyQueue
      /\ pool.free = {} /\ pool.owner = [i \in Items |-> NoSock]
      /\ pool.op = [u \in Sock |-> FreshOp]
  <2>1. 1 .. 0 = {}
    OBVIOUS
  <2> QED
    BY <1>1, <1>2, <1>4, <2>1 DEF Pool
<1>6. SlotsOk(pool, sock, 0)
  <2>1. ActiveIn(sock) = {}
    BY <1>1 DEF ActiveIn
  <2>2. /\ Cardinality(ActiveIn(sock)) = 0 /\ Cardinality(pool.cache.items) = 0
        /\ Cardinality(pool.posted.items) = 0
    BY <1>3, <1>5, <2>1, FS_EmptySet
  <2> QED
    BY <1>5, <2>2 DEF SlotsOk
<1>7. ItemsOk(pool, {})
  BY <1>3, <1>5, FreshOpFacts, SockAssumption, ItemsFacts DEF ItemsOk
<1>8. OpsOk(pool, sock)
  <2>1. ASSUME NEW u \in Sock
        PROVE  /\ (sock[u].at = "wait") = FALSE /\ (u \in pool.wait.items) = FALSE
               /\ (u \in pool.posted.items) = FALSE
               /\ (u \in pool.wait.items \cup pool.posted.items) = FALSE
               /\ pool.op[u].queued = FALSE /\ pool.op[u].timer = FALSE
               /\ pool.op[u].posted = FALSE /\ pool.op[u].item = NoItem
    BY <1>1, <1>3, <1>5, FreshOpFacts
  <2>2. /\ WellFormed(pool.wait) /\ WellFormed(pool.posted)
        /\ pool.wait.items \cap pool.posted.items = {}
        /\ pool.waiting = Cardinality(pool.wait.items)
    BY <1>3, <1>5
  <2> QED
    BY <2>1, <2>2 DEF OpsOk
<1>9. AdmissionOk(pool) /\ AliveExact(pool)
  <2>1. (pool.connections > 0) = FALSE
    BY <1>5
  <2>2. AliveExact(pool)
    BY <1>5, <2>1 DEF AliveExact
  <2> QED
    BY <1>3, <1>5, <2>2 DEF AdmissionOk, IsEmpty
<1>10. sock \in [Sock -> SockState]
  BY <1>1 DEF SockState
<1> QED
  BY <1>5, <1>6, <1>7, <1>8, <1>9, <1>10 DEF Inv, Agree

LEMMA NextInv ==
    ASSUME Inv, [Next]_vars
    PROVE  Inv'
<1>1. ASSUME NEW u \in Sock,
             \/ ConnectAlone(u) \/ ConnectReuse(u) \/ ConnectRefused(u)
             \/ ConnectQueued(u) \/ ConnectNew(u)
             \/ OpTimeout(u) \/ OpCancel(u) \/ OpResume(u)
             \/ ResolveDone(u) \/ ConnectDone(u) \/ ResolveKill(u) \/ Finalize(u)
             \/ SetKeepalive(u)
      PROVE  Inv'
  <2>1. CASE ConnectAlone(u)
    BY <2>1, ConnectAloneOk
  <2>2. CASE ConnectReuse(u)
    BY <2>2, ConnectReuseOk
  <2>3. CASE ConnectRefused(u)
    BY <2>3, ConnectRefusedOk
  <2>4. CASE ConnectQueued(u)
    BY <2>4, ConnectQueuedOk
  <2>5. CASE ConnectNew(u)
    BY <2>5, ConnectNewOk
  <2>6. CASE OpTimeout(u)
    BY <2>6, OpTimeoutOk
  <2>7. CASE OpCancel(u)
    BY <2>7, OpCancelOk
  <2>8. CASE OpResume(u)
    BY <2>8, OpResumeOk
  <2>9. CASE ResolveDone(u)
    BY <2>9, ResolveDoneOk
  <2>10. CASE ConnectDone(u)
    BY <2>10, ConnectDoneOk
  <2>11. CASE ResolveKill(u)
    BY <2>11, ResolveKillOk
  <2>12. CASE Finalize(u)
    BY <2>12, FinalizeOk DEF Finalize
  <2>13. CASE SetKeepalive(u)
    BY <2>13, SetKeepaliveOk
  <2> QED
    BY <1>1, <2>1, <2>2, <2>3, <2>4, <2>5, <2>6, <2>7, <2>8, <2>9, <2>10, <2>11,
       <2>12, <2>13
<1>2. ASSUME NEW i \in Items, KeepaliveClose(i)
      PROVE  Inv'
  BY <1>2, KeepaliveCloseOk
<1>3. CASE UNCHANGED vars
  <2>1. pool' = pool /\ sock' = sock
    BY <1>3 DEF vars
  <2> QED
    BY <2>1 DEF Inv
<1> QED
  BY <1>1, <1>2, <1>3 DEF Next

LEMMA InvImplies == Inv => PoolExact /\ AdmissionRight
<1> SUFFICES ASSUME Inv PROVE PoolExact /\ AdmissionRight
  OBVIOUS
<1>1. TypeOK
  BY DEF Inv, Agree, TypeOK
<1>2. SlotsExact
  <2>1. Active = ActiveIn(sock)
    BY DEF Active, ActiveIn
  <2>2. /\ Cardinality(ActiveIn(sock)) \in Nat /\ Cardinality(pool.cache.items) \in Nat
        /\ Cardinality(pool.posted.items) \in Nat
    BY Finite DEF Inv
  <2>3. pool.connections = Cardinality(ActiveIn(sock)) + Cardinality(pool.cache.items)
                             + Cardinality(pool.posted.items) + 0
    BY DEF Inv, Agree, SlotsOk
  <2> QED
    BY <2>1, <2>2, <2>3 DEF Inv, AliveExact, SlotsExact
<1>3. ItemsExact
  <2>1. ItemsOk(pool, {})
    BY DEF Inv, Agree
  <2>2. 1 .. pool.size \subseteq Items
    BY <2>1, ItemsFacts DEF ItemsOk
  <2> QED
    BY <2>1, <2>2 DEF ItemsOk, ItemsExact
<1>4. OpsExact
  BY DEF Inv, Agree, OpsOk, OpsExact
<1>5. AdmissionRight
  BY DEF Inv, Agree, AdmissionOk, AdmissionRight, NoIdleWhileWaiting, Limited
<1> QED
  BY <1>1, <1>2, <1>3, <1>4, <1>5 DEF PoolExact

\* Slots, items and queued operations agree, whatever fails, is killed, closed
\* or handed over (socket_tcp.c: every function that changes a pool).
THEOREM PoolCorrect == Spec => []PoolExact
<1>1. Init => Inv
  BY InitInv
<1>2. Inv /\ [Next]_vars => Inv'
  BY NextInv
<1>3. Inv => PoolExact
  BY InvImplies
<1> QED
  BY <1>1, <1>2, <1>3, PTL DEF Spec

\* Nobody waits while a slot or an idle connection is to be had, and the limits
\* of pool_size and backlog hold (socket_tcp.c: connect, release_slot).
THEOREM AdmissionCorrect == Spec => []AdmissionRight
<1>1. Init => Inv
  BY InitInv
<1>2. Inv /\ [Next]_vars => Inv'
  BY NextInv
<1>3. Inv => AdmissionRight
  BY InvImplies
<1> QED
  BY <1>1, <1>2, <1>3, PTL DEF Spec

-----------------------------------------------------------------------------
(* The dictionary: entries and the memory they take.                       *)

Entries == ScalarEntries \cup ListEntries

LEMMA EntryFacts ==
    ASSUME NEW e \in Entries
    PROVE  /\ e.type \in {"number", "string", "list"} /\ e.len \in Nat
           /\ e.expires \in 0..MaxNow /\ SizeOf(e) \in Nat \ {0}
           /\ e.type = "list" => e \in ListEntries
           /\ e.type # "list" => e \in ScalarEntries
<1>1. CASE e \in ListEntries
  <2>1. /\ e.type = "list" /\ e.len \in Nat /\ e.expires \in 0..MaxNow
        /\ e.data \in Seq(Element)
    BY <1>1 DEF ListEntries
  <2>2. Len(e.data) \in Nat
    BY <2>1, LenProperties
  <2> QED
    BY <1>1, <2>1, <2>2 DEF SizeOf
<1>2. CASE e \in ScalarEntries
  <2>1. PICK v \in Scalar, t \in 0..MaxNow : e = Entry(v, t)
    BY <1>2 DEF ScalarEntries
  <2>2. /\ v.type \in {"number", "string"} /\ v.len \in Nat \ {0}
    BY SharedDictAssumption
  <2>3. /\ e.type = v.type /\ e.len = v.len /\ e.expires = t
    BY <2>1 DEF Entry
  <2> QED
    BY <1>2, <2>2, <2>3 DEF SizeOf
<1> QED
  BY <1>1, <1>2 DEF Entries

\* A scalar with a deadline is an entry
LEMMA EntryIs ==
    ASSUME NEW v \in Scalar, NEW t \in 0..MaxNow
    PROVE  /\ Entry(v, t) \in Entries
           /\ Entry(v, t).type = v.type /\ Entry(v, t).len = v.len
           /\ Entry(v, t).data = v.data /\ Entry(v, t).expires = t
           /\ Entry(v, t).type # "list"
BY SharedDictAssumption DEF Entry, Entries, ScalarEntries

\* A tree holds finitely many entries
Tree(E) == IsFiniteSet(DOMAIN E) /\ DOMAIN E \subseteq Key /\ E \in [DOMAIN E -> Entries]

LEMMA OnlyIsTree ==
    ASSUME NEW E, Tree(E), NEW D \in SUBSET DOMAIN E
    PROVE  /\ Tree(Only(E, D)) /\ DOMAIN Only(E, D) = D
           /\ \A k \in D : Only(E, D)[k] = E[k]
<1>1. DOMAIN Only(E, D) = D /\ \A k \in D : Only(E, D)[k] = E[k]
  BY DEF Only
<1>2. IsFiniteSet(D)
  BY FS_Subset DEF Tree
<1>3. Only(E, D) \in [D -> Entries]
  BY DEF Only, Tree
<1> QED
  BY <1>1, <1>2, <1>3 DEF Tree

\* The units of one entry
LEMMA UnitsOfOne ==
    ASSUME NEW E, Tree(E), NEW k \in DOMAIN E
    PROVE  /\ IsFiniteSet({k} \X (1..SizeOf(E[k])))
           /\ Cardinality({k} \X (1..SizeOf(E[k]))) = SizeOf(E[k])
<1>1. SizeOf(E[k]) \in Nat \ {0}
  BY EntryFacts DEF Tree
<1> DEFINE n == SizeOf(E[k])
<1> HIDE DEF n
<1>2. IsFiniteSet(1..n) /\ Cardinality(1..n) = n
  BY <1>1, FS_Interval DEF n
<1>3. IsFiniteSet({k}) /\ Cardinality({k}) = 1
  BY FS_Singleton
<1>4. /\ IsFiniteSet({k} \X (1..n))
      /\ Cardinality({k} \X (1..n)) = Cardinality({k}) * Cardinality(1..n)
  BY <1>2, <1>3, FS_Product
<1>5. 1 * n = n
  BY <1>1 DEF n
<1> QED
  BY <1>2, <1>3, <1>4, <1>5 DEF n

LEMMA UnitsFinite ==
    ASSUME NEW E, Tree(E)
    PROVE  IsFiniteSet(Units(E))
<1> DEFINE P(k) == {k} \X (1..SizeOf(E[k]))
           T == {P(k) : k \in DOMAIN E}
           f == [k \in DOMAIN E |-> P(k)]
<1>1. f \in Surjection(DOMAIN E, T)
  BY DEF Surjection
<1>2. \A k \in DOMAIN E : IsFiniteSet(P(k))
  BY UnitsOfOne
<1>3. IsFiniteSet(T)
  <2> HIDE DEF f, T
  <2> QED
    BY <1>1, FS_Surjection DEF Tree
<1>4. \A U \in T : IsFiniteSet(U)
  <2> HIDE DEF P
  <2> QED
    BY <1>2
<1>5. Units(E) = UNION T
  BY DEF Units
<1> HIDE DEF T
<1> QED
  BY <1>3, <1>4, <1>5, FS_UNION

LEMMA UnitsMember ==
    ASSUME NEW E
    PROVE  \A u : u \in Units(E) <=>
              \E k \in DOMAIN E : \E i \in 1..SizeOf(E[k]) : u = <<k, i>>
<1> SUFFICES ASSUME NEW u
             PROVE  u \in Units(E) <=> \E k \in DOMAIN E : u \in {k} \X (1..SizeOf(E[k]))
  OBVIOUS
<1> QED
  BY DEF Units

\* The units of a tree are those of some of its entries and those of the others
LEMMA UnitsSplit ==
    ASSUME NEW E, Tree(E), NEW D \in SUBSET DOMAIN E
    PROVE  /\ Cardinality(Units(Only(E, D))) \in Nat
           /\ Cardinality(Units(Only(E, DOMAIN E \ D))) \in Nat
           /\ Cardinality(Units(E)) = Cardinality(Units(Only(E, D)))
                                      + Cardinality(Units(Only(E, DOMAIN E \ D)))
<1> DEFINE A == Units(Only(E, D))
           B == Units(Only(E, DOMAIN E \ D))
<1>1. IsFiniteSet(A) /\ IsFiniteSet(B)
  BY OnlyIsTree, UnitsFinite
<1>2. \A u : u \in A <=> \E k \in D : \E i \in 1..SizeOf(E[k]) : u = <<k, i>>
  BY UnitsMember DEF Only
<1>3. \A u : u \in B <=> \E k \in DOMAIN E \ D : \E i \in 1..SizeOf(E[k]) : u = <<k, i>>
  BY UnitsMember DEF Only
<1> HIDE DEF A, B
<1>4. A \cap B = {}
  BY <1>2, <1>3
<1>5. Units(E) = A \cup B
  BY <1>2, <1>3, UnitsMember
<1>6. Cardinality(A \cup B) = Cardinality(A) + Cardinality(B) - Cardinality(A \cap B)
  BY <1>1, FS_Union
<1>7. Cardinality({}) = 0
  BY FS_EmptySet
<1>8. Cardinality(A) \in Nat /\ Cardinality(B) \in Nat
  BY <1>1, FS_CardinalityType
<1>9. Cardinality(Units(E)) = Cardinality(A) + Cardinality(B)
  <2>1. Cardinality(A \cap B) = 0
    BY <1>4, <1>7
  <2>2. Cardinality(Units(E)) = Cardinality(A) + Cardinality(B) - 0
    BY <1>5, <1>6, <2>1
  <2> QED
    BY <1>8, <2>2
<1> QED
  BY <1>8, <1>9 DEF A, B

LEMMA UnitsOfSingle ==
    ASSUME NEW E, Tree(E), NEW k \in DOMAIN E
    PROVE  Cardinality(Units(Only(E, {k}))) = SizeOf(E[k])
<1>1. Units(Only(E, {k})) = {k} \X (1..SizeOf(E[k]))
  BY DEF Units, Only
<1> QED
  BY <1>1, UnitsOfOne

\* Trees that differ in one entry
LEMMA UnitsChanged ==
    ASSUME NEW E, Tree(E), NEW F, Tree(F), NEW k \in DOMAIN F,
           DOMAIN E \ {k} = DOMAIN F \ {k},
           \A j \in DOMAIN F \ {k} : E[j] = F[j]
    PROVE  Cardinality(Units(F)) =
              Cardinality(Units(E)) + SizeOf(F[k])
              - (IF k \in DOMAIN E THEN SizeOf(E[k]) ELSE 0)
<1> DEFINE D == DOMAIN F \ {k}
           n == Cardinality(Units(Only(F, D)))
<1>1. Only(F, D) = Only(E, D)
  BY DEF Only
<1>2. n \in Nat /\ Cardinality(Units(F)) = SizeOf(F[k]) + n
  BY UnitsSplit, UnitsOfSingle
<1>3. ASSUME k \in DOMAIN E
      PROVE  Cardinality(Units(E)) = SizeOf(E[k]) + n
  <2>1. Cardinality(Units(E)) = Cardinality(Units(Only(E, {k})))
                                + Cardinality(Units(Only(E, DOMAIN E \ {k})))
    BY <1>3, UnitsSplit
  <2> QED
    BY <1>1, <1>3, <2>1, UnitsOfSingle
<1>4. ASSUME k \notin DOMAIN E
      PROVE  Cardinality(Units(E)) = n
  <2>1. Only(E, D) = E
    BY <1>4 DEF Only, Tree
  <2> QED
    BY <1>1, <2>1
<1>5. SizeOf(F[k]) \in Nat /\ (k \in DOMAIN E => SizeOf(E[k]) \in Nat)
  BY EntryFacts DEF Tree
<1> HIDE DEF n
<1> QED
  BY <1>2, <1>3, <1>4, <1>5

-----------------------------------------------------------------------------
(* A dictionary between two steps of an operation.                         *)

\* The tree, the queue and the memory agree
Sound(d) ==
    /\ Tree(d.entries)
    /\ d.lru \in QueuesOver(Key) /\ WellFormed(d.lru) /\ d.lru.items = DOMAIN d.entries
    /\ d.used = Cardinality(Units(d.entries)) /\ d.used \in 0..Capacity

\* A list holds as many elements as it says, and one at least
ListOk(e) == e.type = "list" => e.len = Len(e.data) /\ e.len > 0

\* ... but perhaps not those of K
Whole(d, K) == \A k \in DOMAIN d.entries \ K : ListOk(d.entries[k])

Good(d) == Sound(d) /\ Whole(d, {})

\* c is b without some of its entries
Left(c, b) ==
    /\ \A j \in DOMAIN c.entries : j \in DOMAIN b.entries /\ c.entries[j] = b.entries[j]
    /\ \A i, j : <<i, j>> \in c.lru.before <=>
                   <<i, j>> \in b.lru.before /\ i \in DOMAIN c.entries /\ j \in DOMAIN c.entries

\* c is b with k at the head of the queue, and without some of the others
Front(c, b, k) ==
    /\ k \in DOMAIN c.entries
    /\ \A j \in DOMAIN c.entries \ {k} : j \in DOMAIN b.entries /\ c.entries[j] = b.entries[j]
    /\ \A i, j : <<i, j>> \in c.lru.before <=>
                   /\ j \in DOMAIN c.entries \ {k}
                   /\ i = k \/ (<<i, j>> \in b.lru.before /\ i \in DOMAIN c.entries \ {k})

\* c keeps no entry, k apart, without all those used more recently
Recent(c, b, k) ==
    \A i \in DOMAIN b.entries \ {k} : \A j \in DOMAIN c.entries \ {k} :
        <<i, j>> \in b.lru.before => i \in DOMAIN c.entries

LEMMA SoundFacts ==
    ASSUME NEW d, Sound(d)
    PROVE  /\ IsFiniteSet(DOMAIN d.entries) /\ DOMAIN d.entries \subseteq Key
           /\ d.entries \in [DOMAIN d.entries -> Entries]
           /\ \A k \in DOMAIN d.entries : d.entries[k] \in Entries
           /\ d.used \in Nat
           /\ \A i, j : <<i, j>> \in d.lru.before =>
                  i \in DOMAIN d.entries /\ j \in DOMAIN d.entries /\ i # j
BY DEF Sound, Tree, WellFormed

LEMMA FreeRight ==
    ASSUME NEW d, Sound(d), NEW D \in SUBSET DOMAIN d.entries
    PROVE  /\ Sound(Free(d, D)) /\ Left(Free(d, D), d)
           /\ DOMAIN Free(d, D).entries = DOMAIN d.entries \ D
<1> DEFINE c == Free(d, D)
<1>1. /\ c.entries = Only(d.entries, DOMAIN d.entries \ D) /\ c.lru = Remove(d.lru, D)
      /\ c.used = d.used - Cardinality(Units(Only(d.entries, D)))
  BY DEF Free
<1> HIDE DEF c
<1>2. /\ Tree(c.entries) /\ DOMAIN c.entries = DOMAIN d.entries \ D
      /\ \A k \in DOMAIN d.entries \ D : c.entries[k] = d.entries[k]
  BY <1>1, OnlyIsTree DEF Sound
<1>3. /\ c.lru \in QueuesOver(Key) /\ WellFormed(c.lru)
      /\ c.lru.items = d.lru.items \ D
  BY <1>1, RemoveWF DEF Sound
<1>4. /\ c.used = Cardinality(Units(c.entries)) /\ c.used \in 0..Capacity
  <2>1. /\ Cardinality(Units(Only(d.entries, D))) \in Nat
        /\ Cardinality(Units(c.entries)) \in Nat
        /\ d.used = Cardinality(Units(Only(d.entries, D))) + Cardinality(Units(c.entries))
    BY <1>1, UnitsSplit DEF Sound
  <2>2. d.used \in 0..Capacity
    BY DEF Sound
  <2> QED
    BY <1>1, <2>1, <2>2, SharedDictAssumption
<1>5. \A i, j : <<i, j>> \in c.lru.before <=>
                   <<i, j>> \in d.lru.before /\ i \in DOMAIN c.entries /\ j \in DOMAIN c.entries
  <2>1. \A i, j : <<i, j>> \in c.lru.before <=>
                     <<i, j>> \in d.lru.before /\ i \notin D /\ j \notin D
    BY <1>1 DEF Remove
  <2> QED
    BY <1>2, <2>1, SoundFacts
<1>6. Sound(c)
  BY <1>2, <1>3, <1>4 DEF Sound
<1>7. Left(c, d)
  BY <1>2, <1>5 DEF Left
<1> QED
  BY <1>2, <1>6, <1>7 DEF c

\* To be left preserves what is said of each entry
LEMMA LeftWhole ==
    ASSUME NEW c, NEW b, NEW K, Left(c, b), Whole(b, K)
    PROVE  Whole(c, K)
BY DEF Left, Whole

LEMMA LeftSelf == ASSUME NEW b, Sound(b) PROVE Left(b, b)
BY SoundFacts DEF Left

LEMMA LeftLeft ==
    ASSUME NEW a, NEW b, NEW c, Left(c, b), Left(b, a)
    PROVE  Left(c, a)
BY DEF Left

LEMMA LeftFront ==
    ASSUME NEW a, NEW b, NEW c, NEW k, Front(c, b, k), Left(b, a)
    PROVE  Front(c, a, k)
BY DEF Left, Front

LEMMA FrontFront ==
    ASSUME NEW a, NEW b, NEW c, NEW k, Front(c, b, k), Front(b, a, k)
    PROVE  Front(c, a, k)
BY DEF Front

\* The entry at the head goes again
LEMMA FrontLeft ==
    ASSUME NEW a, NEW b, NEW c, NEW k, Left(c, b), Front(b, a, k), k \notin DOMAIN c.entries
    PROVE  Left(c, a)
BY DEF Left, Front

LEMMA TouchRight ==
    ASSUME NEW d, Sound(d), NEW k \in DOMAIN d.entries
    PROVE  /\ Sound(Touch(d, k)) /\ Front(Touch(d, k), d, k)
           /\ Touch(d, k).entries = d.entries
           /\ \A K : Whole(d, K) => Whole(Touch(d, k), K)
           /\ Touch(d, k).used = d.used
<1> DEFINE c == Touch(d, k)
           r == Remove(d.lru, {k})
<1>1. c.entries = d.entries /\ c.lru = InsertHead(r, k) /\ c.used = d.used
  BY DEF Touch
<1>2. r \in QueuesOver(Key) /\ WellFormed(r) /\ r.items = d.lru.items \ {k}
  BY RemoveWF DEF Sound
<1>3. \A i, j : <<i, j>> \in r.before <=> <<i, j>> \in d.lru.before /\ i # k /\ j # k
  BY DEF Remove
<1> HIDE DEF c, r
<1>4. /\ c.lru \in QueuesOver(Key) /\ WellFormed(c.lru)
      /\ c.lru.items = r.items \cup {k}
  <2>1. k \in Key /\ k \notin r.items
    BY <1>2, SoundFacts
  <2> QED
    BY <1>1, <1>2, <2>1, InsertHeadWF
<1>5. c.lru.items = DOMAIN c.entries
  BY <1>1, <1>2, <1>4 DEF Sound
<1>6. Sound(c)
  BY <1>1, <1>4, <1>5 DEF Sound
<1>7. Front(c, d, k)
  <2>1. \A i, j : <<i, j>> \in c.lru.before <=>
                     <<i, j>> \in r.before \/ (i = k /\ j \in r.items)
    <3>1. c.lru.before = r.before \cup ({k} \X r.items)
      BY <1>1 DEF InsertHead
    <3> QED
      BY <3>1
  <2>2. r.items = DOMAIN d.entries \ {k}
    BY <1>2 DEF Sound
  <2> QED
    BY <1>1, <1>3, <2>1, <2>2, SoundFacts DEF Front
<1> QED
  BY <1>1, <1>6, <1>7 DEF c, Whole

LEMMA InsertRight ==
    ASSUME NEW d, Sound(d), NEW k \in Key, k \notin DOMAIN d.entries, NEW e \in Entries,
           Fits(d, SizeOf(e))
    PROVE  /\ Sound(Insert(d, k, e)) /\ Front(Insert(d, k, e), d, k)
           /\ DOMAIN Insert(d, k, e).entries = DOMAIN d.entries \cup {k}
           /\ Insert(d, k, e).entries[k] = e
           /\ Whole(d, {}) => Whole(Insert(d, k, e), {k})
           /\ Insert(d, k, e).used = d.used + SizeOf(e)
<1> DEFINE c == Insert(d, k, e)
<1>1. /\ c.entries = [j \in DOMAIN d.entries \cup {k} |-> IF j = k THEN e ELSE d.entries[j]]
      /\ c.lru = InsertHead(d.lru, k) /\ c.used = d.used + SizeOf(e)
  BY DEF Insert
<1> HIDE DEF c
<1>2. /\ DOMAIN c.entries = DOMAIN d.entries \cup {k} /\ c.entries[k] = e
      /\ \A j \in DOMAIN d.entries : c.entries[j] = d.entries[j]
  BY <1>1
<1>3. Tree(c.entries)
  <2>1. IsFiniteSet(DOMAIN c.entries)
    BY <1>2, SoundFacts, FS_AddElement
  <2>2. c.entries \in [DOMAIN c.entries -> Entries]
    BY <1>1, <1>2, SoundFacts
  <2> QED
    BY <1>2, <2>1, <2>2, SoundFacts DEF Tree
<1>4. /\ c.lru \in QueuesOver(Key) /\ WellFormed(c.lru)
      /\ c.lru.items = d.lru.items \cup {k}
  BY <1>1, InsertHeadWF DEF Sound
<1>5. c.used = Cardinality(Units(c.entries))
  <2>1. Tree(d.entries) /\ d.used = Cardinality(Units(d.entries))
    BY DEF Sound
  <2>2. Cardinality(Units(c.entries)) = Cardinality(Units(d.entries)) + SizeOf(e) - 0
    BY <1>2, <1>3, <2>1, UnitsChanged
  <2>3. d.used \in Nat /\ SizeOf(e) \in Nat
    BY SoundFacts, EntryFacts
  <2> QED
    BY <1>1, <2>1, <2>2, <2>3
<1>6. c.used \in 0..Capacity
  BY <1>1, SoundFacts, EntryFacts, SharedDictAssumption DEF Fits
<1>7. Sound(c)
  BY <1>2, <1>3, <1>4, <1>5, <1>6 DEF Sound
<1>8. Front(c, d, k)
  <2>1. \A i, j : <<i, j>> \in c.lru.before <=>
                     <<i, j>> \in d.lru.before \/ (i = k /\ j \in d.lru.items)
    <3>1. c.lru.before = d.lru.before \cup ({k} \X d.lru.items)
      BY <1>1 DEF InsertHead
    <3> QED
      BY <3>1
  <2>2. d.lru.items = DOMAIN d.entries
    BY DEF Sound
  <2> QED
    BY <1>2, <2>1, <2>2, SoundFacts DEF Front
<1>9. Whole(d, {}) => Whole(c, {k})
  BY <1>2 DEF Whole
<1> QED
  BY <1>1, <1>2, <1>7, <1>8, <1>9 DEF c

\* c is d with the entry e in the place of that of k
Changed(c, d, k, e) ==
    /\ c.entries = [d.entries EXCEPT ![k] = e] /\ c.lru = d.lru
    /\ c.used = d.used - SizeOf(d.entries[k]) + SizeOf(e) /\ c.used <= Capacity

LEMMA ChangeRight ==
    ASSUME NEW d, Sound(d), NEW k \in DOMAIN d.entries, NEW e \in Entries,
           NEW c, Changed(c, d, k, e)
    PROVE  /\ Sound(c) /\ DOMAIN c.entries = DOMAIN d.entries /\ c.entries[k] = e
           /\ \A j \in DOMAIN d.entries \ {k} : c.entries[j] = d.entries[j]
           /\ \A a : Front(d, a, k) => Front(c, a, k)
           /\ Whole(d, {k}) /\ ListOk(e) => Whole(c, {})
<1>0. /\ c.entries = [d.entries EXCEPT ![k] = e] /\ c.lru = d.lru
      /\ c.used = d.used - SizeOf(d.entries[k]) + SizeOf(e) /\ c.used <= Capacity
  BY DEF Changed
<1>1. /\ DOMAIN c.entries = DOMAIN d.entries /\ c.entries[k] = e
      /\ \A j \in DOMAIN d.entries \ {k} : c.entries[j] = d.entries[j]
  BY <1>0, SoundFacts
<1>2. Tree(d.entries) /\ Tree(c.entries)
  BY <1>0, <1>1, SoundFacts DEF Tree, Sound
<1>3. /\ Cardinality(Units(c.entries)) =
            Cardinality(Units(d.entries)) + SizeOf(e) - SizeOf(d.entries[k])
  BY <1>1, <1>2, UnitsChanged
<1>4. /\ d.used \in Nat /\ d.used = Cardinality(Units(d.entries))
      /\ SizeOf(e) \in Nat /\ SizeOf(d.entries[k]) \in Nat
  BY SoundFacts, EntryFacts DEF Sound
<1>5. c.used = Cardinality(Units(c.entries))
  BY <1>0, <1>3, <1>4
<1>6. c.used \in Nat
  <2>1. IsFiniteSet(Units(c.entries))
    BY <1>2, UnitsFinite
  <2> QED
    BY <1>5, <2>1, FS_CardinalityType
<1>7. Sound(c)
  BY <1>0, <1>1, <1>2, <1>5, <1>6, SharedDictAssumption DEF Sound
<1>8. ASSUME NEW a, Front(d, a, k)
      PROVE  Front(c, a, k)
  BY <1>0, <1>1, <1>8 DEF Front
<1>9. Whole(d, {k}) /\ ListOk(e) => Whole(c, {})
  BY <1>1 DEF Whole
<1> QED
  BY <1>1, <1>7, <1>8, <1>9

-----------------------------------------------------------------------------
(* The entries that make room.                                             *)

\* c is b without some of the least recently used
Evicted(c, b) ==
    /\ Left(c, b)
    /\ \A i \in DOMAIN b.entries : \A j \in DOMAIN c.entries :
          <<i, j>> \in b.lru.before => i \in DOMAIN c.entries

\* c is b without entries that have expired
Reaped(c, b) == Left(c, b) /\ \A k \in DOMAIN b.entries : Live(b, k) => k \in DOMAIN c.entries

LEMMA OldestRight ==
    ASSUME NEW d, Sound(d), ~IsEmpty(d.lru)
    PROVE  Oldest(d) \in DOMAIN d.entries /\ IsLast(d.lru, Oldest(d))
<1>1. \E k \in d.lru.items : IsLast(d.lru, k)
  BY LastExists, SoundFacts DEF Sound
<1> QED
  BY <1>1 DEF Oldest, Sound

\* The oldest entry goes
LEMMA FreeOldest ==
    ASSUME NEW d, Good(d), ~IsEmpty(d.lru)
    PROVE  Good(Free(d, {Oldest(d)})) /\ Evicted(Free(d, {Oldest(d)}), d)
<1> DEFINE k == Oldest(d)
           c == Free(d, {k})
<1>1. k \in DOMAIN d.entries /\ IsLast(d.lru, k)
  BY OldestRight DEF Good
<1>2. Sound(c) /\ Left(c, d) /\ DOMAIN c.entries = DOMAIN d.entries \ {k}
  BY <1>1, FreeRight DEF Good
<1>3. Whole(c, {})
  BY <1>2, LeftWhole DEF Good
<1>4. ASSUME NEW i \in DOMAIN d.entries, NEW j \in DOMAIN c.entries, <<i, j>> \in d.lru.before
      PROVE  i \in DOMAIN c.entries
  <2>1. <<j, k>> \in d.lru.before
    BY <1>1, <1>2 DEF IsLast, Good, Sound
  <2>2. i # k
    BY <1>1, <1>2, <1>4, <2>1 DEF Good, Sound, WellFormed
  <2> QED
    BY <1>2, <2>2
<1> HIDE DEF c
<1> QED
  BY <1>2, <1>3, <1>4 DEF Good, Evicted, c

LEMMA EvictedTwice ==
    ASSUME NEW a, NEW b, NEW c, Evicted(c, b), Evicted(b, a)
    PROVE  Evicted(c, a)
<1>1. Left(c, a)
  BY LeftLeft DEF Evicted
<1>2. ASSUME NEW i \in DOMAIN a.entries, NEW j \in DOMAIN c.entries, <<i, j>> \in a.lru.before
      PROVE  i \in DOMAIN c.entries
  <2>1. j \in DOMAIN b.entries
    BY DEF Evicted, Left
  <2>2. i \in DOMAIN b.entries
    BY <1>2, <2>1 DEF Evicted
  <2>3. <<i, j>> \in b.lru.before
    BY <1>2, <2>1, <2>2 DEF Evicted, Left
  <2> QED
    BY <2>2, <2>3 DEF Evicted
<1> QED
  BY <1>1, <1>2 DEF Evicted

LEMMA EvictedSelf == ASSUME NEW b, Sound(b) PROVE Evicted(b, b) /\ Reaped(b, b)
BY LeftSelf DEF Evicted, Reaped

LEMMA LeftLive ==
    ASSUME NEW c, NEW b, Left(c, b), NEW k \in DOMAIN c.entries
    PROVE  Live(c, k) <=> Live(b, k)
BY DEF Left, Live, Has, Expired

LEMMA ReapedTwice ==
    ASSUME NEW a, NEW b, NEW c, Reaped(c, b), Reaped(b, a)
    PROVE  Reaped(c, a)
<1>1. Left(c, a)
  BY LeftLeft DEF Reaped
<1>2. ASSUME NEW k \in DOMAIN a.entries, Live(a, k)
      PROVE  k \in DOMAIN c.entries
  <2>1. k \in DOMAIN b.entries
    BY <1>2 DEF Reaped
  <2>2. Live(b, k)
    BY <1>2, <2>1, LeftLive DEF Reaped
  <2> QED
    BY <2>1, <2>2 DEF Reaped
<1> QED
  BY <1>1, <1>2 DEF Reaped

LEMMA ExpireLastRight ==
    ASSUME NEW d, Good(d)
    PROVE  /\ Good(ExpireLast(d)) /\ Evicted(ExpireLast(d), d) /\ Reaped(ExpireLast(d), d)
<1>1. CASE ~IsEmpty(d.lru) /\ Expired(d, Oldest(d))
  <2> DEFINE c == Free(d, {Oldest(d)})
  <2>1. ExpireLast(d) = c
    BY <1>1 DEF ExpireLast
  <2>2. Good(c) /\ Evicted(c, d)
    BY <1>1, FreeOldest
  <2>3. DOMAIN c.entries = DOMAIN d.entries \ {Oldest(d)}
    BY <1>1, OldestRight, FreeRight DEF Good
  <2> HIDE DEF c
  <2>4. Reaped(c, d)
    BY <1>1, <2>2, <2>3 DEF Evicted, Reaped, Live
  <2> QED
    BY <2>1, <2>2, <2>4
<1>2. CASE ~(~IsEmpty(d.lru) /\ Expired(d, Oldest(d)))
  BY <1>2, EvictedSelf DEF ExpireLast, Good
<1> QED
  BY <1>1, <1>2

LEMMA Expire1Right ==
    ASSUME NEW d, Good(d)
    PROVE  Good(Expire1(d)) /\ Evicted(Expire1(d), d) /\ Reaped(Expire1(d), d)
<1> DEFINE b == ExpireLast(d)
           c == ExpireLast(b)
<1>1. Good(b) /\ Evicted(b, d) /\ Reaped(b, d)
  BY ExpireLastRight
<1> HIDE DEF b
<1>2. Good(c) /\ Evicted(c, b) /\ Reaped(c, b)
  BY <1>1, ExpireLastRight
<1>3. Expire1(d) = c
  BY DEF Expire1, b
<1> HIDE DEF c
<1> QED
  BY <1>1, <1>2, <1>3, EvictedTwice, ReapedTwice

LEMMA Expire0Right ==
    ASSUME NEW d, Good(d)
    PROVE  Good(Expire0(d)) /\ Evicted(Expire0(d), d)
<1>1. CASE IsEmpty(d.lru)
  BY <1>1, EvictedSelf DEF Expire0, Good
<1>2. CASE ~IsEmpty(d.lru)
  <2> DEFINE b == Free(d, {Oldest(d)})
  <2>1. Good(b) /\ Evicted(b, d)
    BY <1>2, FreeOldest
  <2>2. Expire0(d) = Expire1(b)
    BY <1>2 DEF Expire0
  <2> HIDE DEF b
  <2> QED
    BY <2>1, <2>2, Expire1Right, EvictedTwice
<1> QED
  BY <1>1, <1>2

\* A set of natural numbers has a least element: what stands in for induction
LEMMA Least ==
    ASSUME NEW T \in SUBSET Nat, T # {}
    PROVE  \E n \in T : \A m \in T : n <= m
<1> DEFINE Below(x) == {m \in T : m < x}
           W == {Below(x) : x \in T}
<1>1. \A x \in T : Below(x) \in FiniteSubsetsOf(Nat)
  <2> SUFFICES ASSUME NEW x \in T PROVE Below(x) \in SUBSET Nat /\ IsFiniteSet(Below(x))
    BY DEF FiniteSubsetsOf
  <2>1. x \in Nat /\ \A s \in Below(x) : s \in Nat /\ s < x
    OBVIOUS
  <2>2. \A s \in Below(x) : s <= x
    BY <2>1
  <2>3. Below(x) \in SUBSET Nat
    BY <2>1
  <2> HIDE DEF Below
  <2> QED
    BY <2>2, <2>3, FS_BoundedSetOfNaturals
<1>2. W # {} /\ W \subseteq FiniteSubsetsOf(Nat)
  BY <1>1
<1>3. \E U \in W : \A V \in W : <<V, U>> \notin StrictSubsetOrdering(Nat)
  <2> HIDE DEF W
  <2> QED
    BY <1>2, FS_StrictSubsetOrderingWellFounded, WFMin
<1>4. PICK n \in T : \A m \in T : <<Below(m), Below(n)>> \notin StrictSubsetOrdering(Nat)
  BY <1>3
<1>5. ASSUME NEW m \in T, m < n PROVE FALSE
  <2>1. m \in Nat /\ n \in Nat /\ ~(m < m) /\ \A y \in T : y \in Nat
    OBVIOUS
  <2>2. \A y \in T : y < m => y < n
    BY <1>5, <2>1
  <2>3. Below(m) \subseteq Below(n) /\ m \in Below(n) /\ m \notin Below(m)
    BY <1>5, <2>1, <2>2
  <2>4. Below(m) \in SUBSET Nat /\ Below(n) \in SUBSET Nat
    OBVIOUS
  <2> HIDE DEF Below
  <2> QED
    BY <1>4, <2>3, <2>4 DEF StrictSubsetOrdering
<1> QED
  BY <1>5

\* The rounds are what their recursive definition says
LEMMA TriesDef ==
    ASSUME NEW d
    PROVE  Tries(d) = [i \in 0..Rounds |-> IF i = 0 THEN d ELSE Expire0(Tries(d)[i - 1])]
<1> DEFINE R(n, f) == f = [i \in 0..n |-> IF i = 0 THEN d ELSE Expire0(f[i - 1])]
           Bad == {n \in 0..Rounds : ~ \E f : R(n, f)}
<1>0. Rounds \in Nat
  BY SharedDictAssumption
<1>1. Bad = {}
  <2>1. SUFFICES ASSUME Bad # {} PROVE FALSE
    OBVIOUS
  <2>2. PICK n \in Bad : \A m \in Bad : n <= m
    <3> HIDE DEF R
    <3>1. Bad \in SUBSET Nat
      OBVIOUS
    <3> HIDE DEF Bad
    <3> QED
      BY <2>1, <3>1, Least
  <2>3. n # 0
    <3>1. R(0, [i \in 0..0 |-> d])
      OBVIOUS
    <3> HIDE DEF R
    <3> QED
      BY <3>1
  <2>4. PICK f : R(n - 1, f)
    <3>1. n \in 0..Rounds /\ n - 1 \in 0..Rounds /\ n - 1 < n
      BY <1>0, <2>3
    <3> HIDE DEF R
    <3>2. n - 1 \in Bad \/ \E f : R(n - 1, f)
      BY <3>1
    <3> QED
      BY <1>0, <2>2, <3>1, <3>2
  <2>5. R(n, [i \in 0..n |-> IF i = 0 THEN d ELSE Expire0(f[i - 1])])
    BY <2>3, <2>4
  <2> HIDE DEF R
  <2> QED
    BY <2>5
<1>2. \E f : R(Rounds, f)
  <2> HIDE DEF R
  <2> QED
    BY <1>0, <1>1
<1>3. R(Rounds, CHOOSE f : R(Rounds, f))
  <2> HIDE DEF R
  <2> QED
    BY <1>2, Zenon
<1> QED
  BY <1>3, Zenon DEF Tries

\* Every round keeps the dictionary in order, and the most recently used
LEMMA TriesRight ==
    ASSUME NEW d, Good(d), NEW i \in 0..Rounds
    PROVE  Good(Tries(d)[i]) /\ Evicted(Tries(d)[i], d)
<1> DEFINE Right(n) == Good(Tries(d)[n]) /\ Evicted(Tries(d)[n], d)
           Wrong == {n \in 0..Rounds : ~Right(n)}
<1>0. Rounds \in Nat
  BY SharedDictAssumption
<1>1. Right(0)
  BY <1>0, TriesDef, EvictedSelf DEF Good
<1>2. ASSUME NEW n \in 0..Rounds, n # 0, Right(n - 1)
      PROVE  Right(n)
  <2>1. Tries(d)[n] = Expire0(Tries(d)[n - 1])
    BY <1>2, TriesDef
  <2> QED
    BY <1>2, <2>1, Expire0Right, EvictedTwice
<1> HIDE DEF Right
<1>3. ASSUME Wrong # {}
      PROVE  FALSE
  <2>1. Wrong \in SUBSET Nat
    OBVIOUS
  <2>2. \E n \in Wrong : \A m \in Wrong : n <= m
    <3> HIDE DEF Wrong
    <3> QED
      BY <1>3, <2>1, Least
  <2>3. PICK n \in Wrong : \A m \in Wrong : n <= m
    BY <2>2
  <2>4. n \in 0..Rounds /\ ~Right(n) /\ n # 0
    BY <1>1
  <2>5. Right(n - 1)
    <3>1. n - 1 \in 0..Rounds /\ n - 1 < n
      BY <1>0, <2>4
    <3> QED
      BY <1>0, <2>3, <2>4, <3>1
  <2> QED
    BY <1>2, <2>4, <2>5
<1>4. Right(i)
  BY <1>3
<1> QED
  BY <1>4 DEF Right

-----------------------------------------------------------------------------
(* Looking an entry up and storing one.                                    *)

\* k is stored with the entry e, or could not be stored
Stored(c, b, k, e) ==
    /\ Good(c) /\ Recent(c, b, k)
    /\ \/ Front(c, b, k) /\ c.entries[k] = e
       \/ Left(c, b) /\ k \notin DOMAIN c.entries

LEMMA ForcedRight ==
    ASSUME NEW d, Good(d), NEW k \in Key, k \notin DOMAIN d.entries, NEW e \in Entries, ListOk(e)
    PROVE  Stored(Forced(d, k, e), d, k, e)
<1> DEFINE enough == Enough(d, SizeOf(e))
           m == CHOOSE i \in enough : \A j \in enough : i <= j
<1>1. enough \in SUBSET (1..Rounds)
  BY DEF Enough
<1>2. CASE enough = {}
  <2>1. Forced(d, k, e) = Tries(d)[Rounds]
    BY <1>2 DEF Forced
  <2>2. Good(Tries(d)[Rounds]) /\ Evicted(Tries(d)[Rounds], d)
    <3>1. Rounds \in 0..Rounds
      BY SharedDictAssumption
    <3> QED
      BY <3>1, TriesRight
  <2> QED
    BY <2>1, <2>2 DEF Stored, Evicted, Left, Recent
<1>3. CASE enough # {}
  <2> DEFINE b == Tries(d)[m]
             c == Insert(b, k, e)
  <2>1. m \in enough
    <3>1. enough \in SUBSET Nat
      BY <1>1
    <3>2. \E i \in enough : \A j \in enough : i <= j
      <4> HIDE DEF enough
      <4> QED
        BY <1>3, <3>1, Least
    <3> HIDE DEF enough
    <3> QED
      BY <3>2
  <2>3. Forced(d, k, e) = c
    BY <1>3 DEF Forced
  <2> HIDE DEF m
  <2>2. m \in 0..Rounds /\ Fits(b, SizeOf(e))
    BY <2>1 DEF Enough
  <2>4. Good(b) /\ Evicted(b, d)
    BY <2>2, TriesRight
  <2> HIDE DEF b
  <2>5. k \notin DOMAIN b.entries
    BY <2>4 DEF Evicted, Left
  <2>6. /\ Sound(c) /\ Front(c, b, k) /\ DOMAIN c.entries = DOMAIN b.entries \cup {k}
        /\ c.entries[k] = e /\ Whole(c, {k})
    BY <2>2, <2>4, <2>5, InsertRight DEF Good
  <2> HIDE DEF c
  <2>7. Good(c)
    BY <2>6 DEF Good, Whole
  <2>8. Front(c, d, k)
    BY <2>4, <2>6, LeftFront DEF Evicted
  <2>9. Recent(c, d, k)
    BY <2>4, <2>6 DEF Evicted, Recent
  <2> QED
    BY <2>3, <2>6, <2>7, <2>8, <2>9 DEF Stored
<1> QED
  BY <1>2, <1>3

LEMMA AllocatedRight ==
    ASSUME NEW d, Good(d), NEW k \in Key, k \notin DOMAIN d.entries, NEW e \in Entries, ListOk(e),
           NEW safe
    PROVE  Stored(Allocated(d, k, e, safe), d, k, e)
<1>1. CASE Fits(d, SizeOf(e))
  <2> DEFINE c == Insert(d, k, e)
  <2>1. Allocated(d, k, e, safe) = c
    BY <1>1 DEF Allocated
  <2>2. /\ Sound(c) /\ Front(c, d, k) /\ DOMAIN c.entries = DOMAIN d.entries \cup {k}
        /\ c.entries[k] = e /\ Whole(c, {k})
    BY <1>1, InsertRight DEF Good
  <2> HIDE DEF c
  <2> QED
    BY <2>1, <2>2 DEF Stored, Recent, Good, Whole
<1>2. CASE ~Fits(d, SizeOf(e)) /\ safe
  <2>1. Allocated(d, k, e, safe) = d
    BY <1>2 DEF Allocated
  <2>2. Left(d, d)
    BY LeftSelf DEF Good
  <2> QED
    BY <2>1, <2>2 DEF Stored, Recent
<1>3. CASE ~Fits(d, SizeOf(e)) /\ ~safe
  BY <1>3, ForcedRight DEF Allocated
<1> QED
  BY <1>1, <1>2, <1>3

LEMMA FreeIfRight ==
    ASSUME NEW d, Good(d), NEW k
    PROVE  /\ Good(FreeIf(d, k)) /\ Left(FreeIf(d, k), d)
           /\ DOMAIN FreeIf(d, k).entries = DOMAIN d.entries \ {k}
<1>1. CASE Has(d, k)
  <2> DEFINE c == Free(d, {k})
  <2>1. FreeIf(d, k) = c
    BY <1>1 DEF FreeIf
  <2>2. Sound(c) /\ Left(c, d) /\ DOMAIN c.entries = DOMAIN d.entries \ {k}
    BY <1>1, FreeRight DEF Good, Has
  <2> HIDE DEF c
  <2>3. Whole(c, {})
    BY <2>2, LeftWhole DEF Good
  <2> QED
    BY <2>1, <2>2, <2>3 DEF Good
<1>2. CASE ~Has(d, k)
  <2>1. FreeIf(d, k) = d /\ DOMAIN d.entries \ {k} = DOMAIN d.entries
    BY <1>2 DEF FreeIf, Has
  <2> QED
    BY <2>1, LeftSelf DEF Good
<1> QED
  BY <1>1, <1>2

LEMMA ReusedRight ==
    ASSUME NEW d, Good(d), NEW k \in DOMAIN d.entries, NEW e \in Entries, e.type # "list",
           Reusable(d, k, e)
    PROVE  Stored(Reused(d, k, e), d, k, e)
<1> DEFINE b == Touch(d, k)
           c == Reused(d, k, e)
<1>1. /\ Sound(b) /\ Front(b, d, k) /\ b.entries = d.entries /\ Whole(b, {})
      /\ b.used = d.used
  BY TouchRight DEF Good
<1>2. /\ c.entries = [b.entries EXCEPT ![k] = e] /\ c.lru = b.lru /\ c.used = b.used
  BY DEF Reused, With
<1> HIDE DEF b, c
<1>3. SizeOf(d.entries[k]) = d.entries[k].len /\ SizeOf(e) = e.len /\ e.len = d.entries[k].len
  BY DEF Reusable, IsList, SizeOf
<1>4. c.used = b.used - SizeOf(b.entries[k]) + SizeOf(e) /\ c.used <= Capacity
  <2>1. b.used \in 0..Capacity /\ e.len \in Nat /\ b.used \in Nat
    BY <1>1, SoundFacts, EntryFacts DEF Sound
  <2> QED
    BY <1>1, <1>2, <1>3, <2>1, SharedDictAssumption
<1>5. /\ Sound(c) /\ DOMAIN c.entries = DOMAIN d.entries /\ c.entries[k] = e
      /\ Front(c, d, k) /\ Whole(c, {})
  <2>1. Whole(b, {k}) /\ ListOk(e)
    BY <1>1 DEF Whole, ListOk
  <2>2. Changed(c, b, k, e)
    BY <1>2, <1>4 DEF Changed
  <2> QED
    BY <1>1, <2>1, <2>2, ChangeRight
<1> QED
  BY <1>5 DEF Stored, Good, Recent, c

LEMMA WrittenRight ==
    ASSUME NEW d, Good(d), NEW k \in Key, NEW e \in Entries, e.type # "list", NEW safe
    PROVE  Stored(Written(d, k, e, safe), d, k, e)
<1>1. CASE Has(d, k) /\ Reusable(d, k, e)
  BY <1>1, ReusedRight DEF Written, Has
<1>2. CASE ~(Has(d, k) /\ Reusable(d, k, e))
  <2> DEFINE b == FreeIf(d, k)
             c == Allocated(b, k, e, safe)
  <2>1. Written(d, k, e, safe) = c
    BY <1>2 DEF Written
  <2>2. Good(b) /\ Left(b, d) /\ DOMAIN b.entries = DOMAIN d.entries \ {k}
    BY FreeIfRight
  <2> HIDE DEF b
  <2>3. Stored(c, b, k, e)
    BY <2>2, AllocatedRight DEF ListOk
  <2> HIDE DEF c
  <2>4. Recent(c, d, k)
    BY <2>2, <2>3 DEF Stored, Recent, Left, Front
  <2>5. \/ Front(c, d, k) /\ c.entries[k] = e
        \/ Left(c, d) /\ k \notin DOMAIN c.entries
    BY <2>2, <2>3, LeftFront, LeftLeft DEF Stored
  <2> QED
    BY <2>1, <2>3, <2>4, <2>5 DEF Stored
<1> QED
  BY <1>1, <1>2

\* Others go only when the flag forcible says so
LEMMA WrittenKeeps ==
    ASSUME NEW d, Good(d), NEW k \in Key, NEW e \in Entries, NEW safe, ~Forcible(d, k, e, safe)
    PROVE  DOMAIN d.entries \ {k} \subseteq DOMAIN Written(d, k, e, safe).entries
<1> DEFINE b == FreeIf(d, k)
           c == Written(d, k, e, safe)
<1>1. CASE Has(d, k) /\ Reusable(d, k, e)
  <2>1. c = Reused(d, k, e)
    BY <1>1 DEF Written
  <2>2. c.entries = [d.entries EXCEPT ![k] = e]
    BY <2>1 DEF Reused, With, Touch
  <2> HIDE DEF c
  <2> QED
    BY <2>2 DEF c
<1>2. CASE ~(Has(d, k) /\ Reusable(d, k, e))
  <2>1. c = Allocated(b, k, e, safe)
    BY <1>2 DEF Written
  <2>2. Good(b) /\ DOMAIN b.entries = DOMAIN d.entries \ {k}
    BY FreeIfRight
  <2>3. Fits(b, SizeOf(e)) \/ safe \/ IsEmpty(b.lru)
    BY <1>2 DEF Forcible
  <2> HIDE DEF b, c
  <2>4. CASE Fits(b, SizeOf(e))
    BY <2>1, <2>2, <2>4 DEF Allocated, Insert, c
  <2>5. CASE ~Fits(b, SizeOf(e)) /\ safe
    BY <2>1, <2>2, <2>5 DEF Allocated, c
  <2>6. CASE IsEmpty(b.lru)
    BY <2>2, <2>6 DEF IsEmpty, Good, Sound
  <2> QED
    BY <2>3, <2>4, <2>5, <2>6
<1> QED
  BY <1>1, <1>2

\* d is b after a lookup of k, and perhaps without entries that have expired
Seen(d, b, k) ==
    /\ Good(d) /\ \A j \in DOMAIN b.entries : Live(b, j) => j \in DOMAIN d.entries
    /\ Live(d, k) <=> Live(b, k)
    /\ Live(b, k) => Front(d, b, k) /\ d.entries[k] = b.entries[k]
    /\ ~Live(b, k) => Left(d, b)

LEMMA LookedUpRight ==
    ASSUME NEW b, Good(b), NEW k
    PROVE  Seen(LookedUp(b, k), b, k)
<1>1. CASE Live(b, k)
  <2>1. LookedUp(b, k) = Touch(b, k) /\ k \in DOMAIN b.entries
    BY <1>1 DEF LookedUp, Live, Has
  <2>2. /\ Sound(Touch(b, k)) /\ Front(Touch(b, k), b, k) /\ Whole(Touch(b, k), {})
        /\ Touch(b, k).entries = b.entries
    BY <2>1, TouchRight DEF Good
  <2> DEFINE d == Touch(b, k)
  <2> HIDE DEF d
  <2>3. /\ Good(d) /\ Front(d, b, k) /\ d.entries = b.entries
    BY <2>2 DEF Good, d
  <2>4. Live(d, k) <=> Live(b, k)
    BY <2>3 DEF Live, Has, Expired
  <2>5. Seen(d, b, k)
    BY <1>1, <2>3, <2>4 DEF Seen
  <2> QED
    BY <2>1, <2>5 DEF d
<1>2. CASE ~Live(b, k)
  BY <1>2, LeftSelf DEF LookedUp, Seen, Good
<1> QED
  BY <1>1, <1>2

LEMMA SeenAfterExpire ==
    ASSUME NEW b, Good(b), NEW k
    PROVE  Seen(LookedUp(Expire1(b), k), b, k)
<1> DEFINE a == Expire1(b)
           d == LookedUp(a, k)
<1>1. Good(a) /\ Reaped(a, b)
  BY Expire1Right
<1> HIDE DEF a
<1>2. Seen(d, a, k)
  BY <1>1, LookedUpRight
<1> HIDE DEF d
<1>3. Left(a, b)
  BY <1>1 DEF Reaped
<1>4. \A j \in DOMAIN b.entries : Live(b, j) => j \in DOMAIN a.entries /\ Live(a, j)
  BY <1>1, <1>3, LeftLive DEF Reaped
<1>5. Live(a, k) <=> Live(b, k)
  <2>1. Live(a, k) => k \in DOMAIN a.entries
    BY DEF Live, Has
  <2>2. Live(b, k) => k \in DOMAIN b.entries
    BY DEF Live, Has
  <2> QED
    BY <1>3, <1>4, <2>1, <2>2, LeftLive
<1>6. Live(b, k) => Front(d, b, k) /\ d.entries[k] = b.entries[k]
  <2>1. ASSUME Live(b, k)
        PROVE  Front(d, b, k) /\ d.entries[k] = b.entries[k]
    <3>1. k \in DOMAIN a.entries
      BY <1>5, <2>1 DEF Live, Has
    <3>2. Front(d, a, k) /\ d.entries[k] = a.entries[k]
      BY <1>2, <1>5, <2>1 DEF Seen
    <3> QED
      BY <1>3, <3>1, <3>2, LeftFront DEF Left
  <2> QED
    BY <2>1
<1>7. ~Live(b, k) => Left(d, b)
  BY <1>2, <1>3, <1>5, LeftLeft DEF Seen
<1>8. Good(d) /\ (Live(d, k) <=> Live(b, k))
  BY <1>2, <1>5 DEF Seen
<1>9. \A j \in DOMAIN b.entries : Live(b, j) => j \in DOMAIN d.entries
  BY <1>2, <1>4 DEF Seen
<1>10. Seen(d, b, k)
  BY <1>6, <1>7, <1>8, <1>9 DEF Seen
<1> QED
  BY <1>10 DEF d, a

-----------------------------------------------------------------------------
(* Lists.                                                                  *)

LEMMA EmptyListIs ==
    /\ EmptyList \in Entries /\ SizeOf(EmptyList) = 1 /\ EmptyList.type = "list"
    /\ EmptyList.data = <<>> /\ EmptyList.len = 0 /\ EmptyList.expires = Never
<1>1. <<>> \in Seq(Element) /\ Len(<<>>) = 0
  BY EmptySeq
<1>2. 0 \in 0..MaxNow
  BY SharedDictAssumption
<1> QED
  BY <1>1, <1>2 DEF EmptyList, Entries, ListEntries, SizeOf, Never

\* An entry that is a list
LEMMA ListFacts ==
    ASSUME NEW d, Sound(d), NEW k \in DOMAIN d.entries, IsList(d, k)
    PROVE  /\ d.entries[k] \in ListEntries /\ d.entries[k].data \in Seq(Element)
           /\ Len(d.entries[k].data) \in Nat /\ d.entries[k].len \in Nat
           /\ SizeOf(d.entries[k]) = 1 + Len(d.entries[k].data)
<1>1. d.entries[k] \in ListEntries
  BY EntryFacts, SoundFacts DEF IsList
<1>2. d.entries[k].data \in Seq(Element) /\ d.entries[k].len \in Nat
  BY <1>1 DEF ListEntries
<1> QED
  BY <1>1, <1>2, LenProperties DEF SizeOf, IsList

\* The list of k is there, or there is no memory for a new one
LEMMA OpenedRight ==
    ASSUME NEW d, Good(d), NEW k \in Key, Live(d, k) => IsList(d, k),
           NEW o, o = Opened(d, k)
    PROVE  /\ Sound(o) /\ Whole(o, {k}) /\ DOMAIN o.entries \ {k} = DOMAIN d.entries \ {k}
           /\ \/ Good(o) /\ Left(o, d) /\ k \notin DOMAIN o.entries
              \/ Live(d, k) /\ o = d
              \/ ~Live(d, k) /\ Front(o, d, k) /\ o.entries[k] = EmptyList
<1>0. PICK e \in Entries : e = EmptyList
  BY EmptyListIs
<1>1. CASE Live(d, k)
  BY <1>1 DEF Opened, Good, Whole
<1>2. CASE ~Live(d, k) /\ Has(d, k) /\ IsList(d, k)
  <2> DEFINE b == Touch(d, k)
             c == With(b, k, e)
  <2>1. o = [c EXCEPT !.used = @ - Len(d.entries[k].data)]
    BY <1>0, <1>2 DEF Opened
  <2>2. c.entries = [b.entries EXCEPT ![k] = e] /\ c.lru = b.lru /\ c.used = b.used
    <3> HIDE DEF b
    <3> QED
      BY DEF With
  <2> HIDE DEF c
  <2>3. /\ o.entries = [b.entries EXCEPT ![k] = e] /\ o.lru = b.lru
        /\ o.used = b.used - Len(d.entries[k].data)
    <3> HIDE DEF b
    <3> QED
      BY <2>1, <2>2
  <2>4. /\ Sound(b) /\ Front(b, d, k) /\ b.entries = d.entries /\ Whole(b, {})
        /\ k \in DOMAIN d.entries
    BY <1>2, TouchRight DEF Good, Has
  <2> HIDE DEF b
  <2>5. SizeOf(b.entries[k]) = 1 + Len(d.entries[k].data) /\ Len(d.entries[k].data) \in Nat
    BY <1>2, <2>4, ListFacts DEF IsList
  <2>6. o.used = b.used - SizeOf(b.entries[k]) + SizeOf(e) /\ o.used <= Capacity
    <3>1. b.used \in Nat /\ b.used <= Capacity /\ SizeOf(e) = 1 /\ Capacity \in Nat
      BY <1>0, <2>4, EmptyListIs, SoundFacts, SharedDictAssumption DEF Sound
    <3>2. PICK m \in Nat, n \in Nat : m = b.used /\ n = Len(d.entries[k].data)
      BY <2>5, <3>1
    <3>3. o.used = m - n /\ SizeOf(b.entries[k]) = 1 + n /\ SizeOf(e) = 1
      BY <2>3, <2>5, <3>1, <3>2
    <3>4. m - n = m - (1 + n) + 1 /\ m - n <= Capacity
      BY <3>1, <3>2
    <3> QED
      BY <3>2, <3>3, <3>4
  <2>7. Changed(o, b, k, e)
    BY <2>3, <2>6 DEF Changed
  <2>8. /\ Sound(o) /\ DOMAIN o.entries = DOMAIN b.entries /\ o.entries[k] = e
        /\ \A j \in DOMAIN b.entries \ {k} : o.entries[j] = b.entries[j]
    <3>1. Sound(o)
      BY <1>0, <2>4, <2>7, ChangeRight
    <3> QED
      BY <2>3, <2>4, <3>1, SoundFacts
  <2>9. Front(o, d, k)
    BY <1>0, <2>4, <2>7, ChangeRight
  <2>10. Whole(o, {k})
    BY <2>4, <2>8 DEF Whole
  <2> QED
    BY <1>0, <1>2, <2>4, <2>8, <2>9, <2>10
<1>3. CASE ~Live(d, k) /\ ~(Has(d, k) /\ IsList(d, k))
  <2> DEFINE b == FreeIf(d, k)
             c == Insert(b, k, e)
  <2>1. o = Allocated(b, k, e, TRUE)
    BY <1>0, <1>3 DEF Opened
  <2>2. Good(b) /\ Left(b, d) /\ DOMAIN b.entries = DOMAIN d.entries \ {k}
    BY FreeIfRight
  <2> HIDE DEF b
  <2>3. CASE Fits(b, SizeOf(e))
    <3>1. o = c
      BY <2>1, <2>3 DEF Allocated
    <3>2. /\ Sound(c) /\ Front(c, b, k) /\ DOMAIN c.entries = DOMAIN b.entries \cup {k}
          /\ c.entries[k] = e /\ Whole(c, {k})
      BY <2>2, <2>3, InsertRight DEF Good
    <3> HIDE DEF c
    <3>3. Front(c, d, k)
      BY <2>2, <3>2, LeftFront
    <3> QED
      BY <1>0, <1>3, <2>2, <3>1, <3>2, <3>3
  <2>4. CASE ~Fits(b, SizeOf(e))
    <3>1. o = b
      BY <2>1, <2>4 DEF Allocated
    <3> QED
      BY <2>2, <3>1 DEF Good, Whole
  <2> QED
    BY <2>3, <2>4
<1> QED
  BY <1>1, <1>2, <1>3

\* c is d but for the memory
Sized(c, d, n) == c = [d EXCEPT !.used = n]

LEMMA SizedIs ==
    ASSUME NEW c, NEW d, NEW n, Sized(c, d, n)
    PROVE  c.entries = d.entries /\ c.lru = d.lru /\ c.used = n
BY DEF Sized

\* A list with other elements
Relisted(f, e, s, n) == f = [e EXCEPT !.data = s, !.len = n]

LEMMA ListChanged ==
    ASSUME NEW e \in ListEntries, NEW s \in Seq(Element), NEW n \in Nat, NEW f,
           Relisted(f, e, s, n)
    PROVE  /\ f \in ListEntries /\ f \in Entries /\ f.data = s /\ f.len = n /\ f.expires = e.expires
           /\ f.type = "list" /\ SizeOf(f) = 1 + Len(s) /\ Len(s) \in Nat
           /\ n = Len(s) /\ n > 0 => ListOk(f)
<1>1. /\ f \in ListEntries /\ f.data = s /\ f.len = n /\ f.expires = e.expires
      /\ f.type = "list"
  BY DEF ListEntries, Relisted
<1> QED
  BY <1>1, LenProperties DEF Entries, SizeOf, ListOk

\* c is d with other elements in the list of k
Listed(c, d, k, s) ==
    /\ c.entries = Listing(d, k, s, Len(s)).entries /\ c.lru = d.lru
    /\ c.used = d.used + Len(s) - Len(d.entries[k].data) /\ c.used <= Capacity

LEMMA ListingRight ==
    ASSUME NEW d, Sound(d), NEW k \in DOMAIN d.entries, Whole(d, {k}), IsList(d, k),
           NEW s \in Seq(Element), s # <<>>, NEW r, Listed(r, d, k, s)
    PROVE  Good(r) /\ \A a : Front(d, a, k) => Front(r, a, k)
<1>0. /\ r.entries = Listing(d, k, s, Len(s)).entries /\ r.lru = d.lru
      /\ r.used = d.used + Len(s) - Len(d.entries[k].data) /\ r.used <= Capacity
  BY DEF Listed
<1>1. /\ d.entries[k] \in ListEntries /\ Len(d.entries[k].data) \in Nat
      /\ SizeOf(d.entries[k]) = 1 + Len(d.entries[k].data)
  BY ListFacts
<1>2. Len(s) \in Nat /\ Len(s) > 0
  BY LenProperties, EmptySeq
<1>3. PICK f : Relisted(f, d.entries[k], s, Len(s))
  BY DEF Relisted
<1>10. f \in Entries /\ SizeOf(f) = 1 + Len(s) /\ ListOk(f)
  BY <1>1, <1>2, <1>3, ListChanged
<1>4. r.entries = [d.entries EXCEPT ![k] = f]
  BY <1>0, <1>3 DEF Listing, With, Relisted
<1>5. r.used = d.used - SizeOf(d.entries[k]) + SizeOf(f)
  BY <1>0, <1>1, <1>2, <1>10, SoundFacts
<1>6. Changed(r, d, k, f)
  BY <1>0, <1>4, <1>5 DEF Changed
<1>7. Sound(r) /\ DOMAIN r.entries = DOMAIN d.entries /\ r.entries[k] = f
  <2>1. Sound(r)
    BY <1>6, <1>10, ChangeRight
  <2>2. DOMAIN r.entries = DOMAIN d.entries /\ r.entries[k] = f
    BY <1>4, SoundFacts
  <2> QED
    BY <2>1, <2>2
<1>8. \A a : Front(d, a, k) => Front(r, a, k)
  BY <1>6, <1>10, ChangeRight
<1>9. Whole(r, {})
  BY <1>6, <1>10, ChangeRight
<1> QED
  BY <1>7, <1>8, <1>9 DEF Good

LEMMA Longer ==
    ASSUME NEW x \in Element, NEW s \in Seq(Element), NEW left,
           NEW t, t = IF left THEN <<x>> \o s ELSE Append(s, x)
    PROVE  t \in Seq(Element) /\ Len(t) = Len(s) + 1 /\ Len(s) \in Nat
<1>1. <<x>> \in Seq(Element) /\ Len(<<x>>) = 1
  OBVIOUS
<1>2. Len(s) \in Nat
  BY LenProperties
<1>3. Append(s, x) \in Seq(Element) /\ Len(Append(s, x)) = Len(s) + 1
  BY AppendProperties
<1>4. <<x>> \o s \in Seq(Element) /\ Len(<<x>> \o s) = 1 + Len(s)
  BY <1>1, ConcatProperties
<1> QED
  BY <1>2, <1>3, <1>4

\* One element more, or none for want of memory
PushedTo(r, o, k, s) ==
    /\ Good(r)
    /\ \/ /\ Fits(o, 1) /\ DOMAIN r.entries = DOMAIN o.entries
          /\ Relisted(r.entries[k], o.entries[k], s, Len(s))
          /\ s \in Seq(Element) /\ \A a : Front(o, a, k) => Front(r, a, k)
       \/ /\ ~Fits(o, 1) /\ o.entries[k] = EmptyList /\ Left(r, o)
          /\ DOMAIN r.entries = DOMAIN o.entries \ {k}
       \/ ~Fits(o, 1) /\ ListOk(o.entries[k]) /\ r = o

\* s is the list of o with x at one end
Extends(s, o, k, x, left) ==
    s = IF left THEN <<x>> \o o.entries[k].data ELSE Append(o.entries[k].data, x)

LEMMA PushedRight ==
    ASSUME NEW o, Sound(o), NEW k \in DOMAIN o.entries, Whole(o, {k}), IsList(o, k),
           o.entries[k] = EmptyList \/ ListOk(o.entries[k]),
           NEW x \in Element, NEW left,
           NEW s, Extends(s, o, k, x, left),
           NEW r, r = Pushed(o, k, s)
    PROVE  PushedTo(r, o, k, s)
<1> DEFINE e == o.entries[k]
<1>1. /\ e \in ListEntries /\ e.data \in Seq(Element) /\ Len(e.data) \in Nat /\ e.len \in Nat
      /\ SizeOf(e) = 1 + Len(e.data) /\ e.type = "list"
  BY ListFacts DEF IsList
<1>2. e.len = Len(e.data) /\ (e.len = 0 => e = EmptyList) /\ (e.len # 0 => ListOk(e))
  <2>1. CASE e = EmptyList
    BY <2>1, EmptyListIs, EmptySeq
  <2>2. CASE ListOk(e)
    BY <1>1, <2>2 DEF ListOk
  <2> QED
    BY <2>1, <2>2
<1>3. CASE Fits(o, 1)
  <2>1. s \in Seq(Element) /\ Len(s) = Len(e.data) + 1
    BY <1>1, Longer DEF Extends
  <2>2. s # <<>> /\ e.len + 1 = Len(s)
    BY <1>1, <1>2, <2>1, EmptySeq
  <2> HIDE DEF e
  <2>0. PICK c : c = Listing(o, k, s, Len(s))
    OBVIOUS
  <2>3. r = [c EXCEPT !.used = @ + 1]
    BY <1>3, <2>0, <2>2 DEF Pushed, e
  <2>4. c.lru = o.lru /\ c.used = o.used
    BY <2>0 DEF Listing, With
  <2>5. r.entries = c.entries /\ r.lru = o.lru /\ r.used = o.used + 1
    <3>1. Sized(r, c, c.used + 1)
      BY <2>3 DEF Sized
    <3> QED
      BY <2>4, <3>1, SizedIs
  <2>6. r.used = o.used + Len(s) - Len(o.entries[k].data) /\ r.used <= Capacity
    <3>1. r.used = o.used + Len(s) - Len(o.entries[k].data)
      <4>1. Len(e.data) \in Nat /\ o.used \in Nat
        BY <1>1, SoundFacts
      <4> DEFINE m == Len(s)
                 n == Len(e.data)
      <4>2. m = n + 1 /\ n \in Nat /\ r.used = o.used + 1
        BY <2>1, <2>5, <4>1
      <4> HIDE DEF m, n
      <4>3. r.used = o.used + m - n
        BY <4>1, <4>2
      <4> QED
        BY <4>3 DEF m, n, e
    <3>2. r.used <= Capacity
      BY <1>3, <2>5 DEF Fits
    <3> QED
      BY <3>1, <3>2
  <2>9. Listed(r, o, k, s)
    BY <2>0, <2>5, <2>6 DEF Listed
  <2>7. /\ Good(r) /\ DOMAIN r.entries = DOMAIN o.entries
        /\ r.entries[k] = [o.entries[k] EXCEPT !.data = s, !.len = Len(s)]
    <3>1. Good(r)
      BY <2>1, <2>2, <2>9, ListingRight
    <3>2. r.entries[k] = [o.entries[k] EXCEPT !.data = s, !.len = Len(s)]
      BY <2>0, <2>5 DEF Listing, With
    <3>3. DOMAIN r.entries = DOMAIN o.entries
      BY <2>0, <2>5 DEF Listing, With
    <3> QED
      BY <3>1, <3>2, <3>3
  <2>8. \A a : Front(o, a, k) => Front(r, a, k)
    BY <2>1, <2>2, <2>9, ListingRight
  <2> QED
    BY <1>3, <2>1, <2>7, <2>8 DEF PushedTo, Relisted
<1> HIDE DEF e
<1>4. CASE ~Fits(o, 1) /\ e.len = 0
  <2>1. r = Free(o, {k})
    BY <1>4 DEF Pushed, e
  <2>2. Sound(r) /\ Left(r, o) /\ DOMAIN r.entries = DOMAIN o.entries \ {k}
    BY <2>1, FreeRight
  <2>3. Whole(r, {})
    BY <2>2 DEF Whole, Left
  <2> QED
    BY <1>2, <1>4, <2>2, <2>3 DEF Good, PushedTo, e
<1>5. CASE ~Fits(o, 1) /\ e.len # 0
  <2>1. r = o
    BY <1>5 DEF Pushed, e
  <2>2. Whole(o, {})
    BY <1>2, <1>5 DEF Whole, e
  <2> QED
    BY <1>2, <1>5, <2>1, <2>2 DEF Good, PushedTo, e
<1> QED
  BY <1>3, <1>4, <1>5

-----------------------------------------------------------------------------
(* The operations that change an entry where it is, or take some away.     *)

LEMMA Shorter ==
    ASSUME NEW s \in Seq(Element), Len(s) > 1, NEW left,
           NEW t, t = IF left THEN Tail(s) ELSE SubSeq(s, 1, Len(s) - 1)
    PROVE  t \in Seq(Element) /\ Len(t) = Len(s) - 1 /\ t # <<>>
<1>1. Len(s) \in Nat /\ s # <<>>
  BY LenProperties, EmptySeq
<1>2. Tail(s) \in Seq(Element) /\ Len(Tail(s)) = Len(s) - 1
  BY <1>1, HeadTailProperties
<1>3. SubSeq(s, 1, Len(s) - 1) \in Seq(Element) /\ Len(SubSeq(s, 1, Len(s) - 1)) = Len(s) - 1
  <2> DEFINE n == Len(s) - 1
  <2>1. n \in Nat /\ n >= 1 /\ n <= Len(s)
    BY <1>1
  <2>2. \A i \in 1..n : s[i] \in Element
    BY <1>1, <2>1, ElementOfSeq
  <2> HIDE DEF n
  <2>3. SubSeq(s, 1, n) \in Seq(Element) /\ Len(SubSeq(s, 1, n)) = n
    BY <2>1, <2>2, SubSeqProperties
  <2> QED
    BY <2>3 DEF n
<1>4. t \in Seq(Element) /\ Len(t) = Len(s) - 1
  BY <1>2, <1>3
<1> QED
  BY <1>1, <1>4, EmptySeq

\* An entry with another deadline
Aged(f, e, t) == f = [e EXCEPT !.expires = t]

LEMMA ContentAged ==
    ASSUME NEW e, NEW f, NEW t, f.type = e.type, f.data = e.data, f.expires = t
    PROVE  Content(f) = [Content(e) EXCEPT !.deadline = t]
<1>1. Value(f) = Value(e)
  BY DEF Value
<1> QED
  BY <1>1 DEF Content

\* Only the deadline is another
LEMMA AgedRight ==
    ASSUME NEW e \in Entries, NEW t \in 0..MaxNow, NEW f, Aged(f, e, t)
    PROVE  /\ f \in Entries /\ SizeOf(f) = SizeOf(e) /\ f.expires = t
           /\ f.type = e.type /\ f.data = e.data /\ f.len = e.len
           /\ ListOk(e) => ListOk(f)
           /\ Content(f) = [Content(e) EXCEPT !.deadline = t]
<1>1. CASE e \in ListEntries
  <2>1. /\ f \in ListEntries /\ f.expires = t
        /\ f.type = e.type /\ f.data = e.data /\ f.len = e.len
    BY <1>1 DEF ListEntries, Aged
  <2>2. Content(f) = [Content(e) EXCEPT !.deadline = t]
    BY <2>1, ContentAged
  <2> QED
    BY <2>1, <2>2 DEF Entries, SizeOf, ListOk
<1>2. CASE e \in ScalarEntries
  <2>1. PICK v \in Scalar, u \in 0..MaxNow : e = Entry(v, u)
    BY <1>2 DEF ScalarEntries
  <2>2. f = Entry(v, t)
    BY <2>1 DEF Aged, Entry
  <2>3. /\ f.type = e.type /\ f.data = e.data /\ f.len = e.len /\ f.expires = t
    BY <2>1, <2>2 DEF Entry
  <2>4. f \in Entries
    BY <2>2, EntryIs
  <2>5. Content(f) = [Content(e) EXCEPT !.deadline = t]
    BY <2>3, ContentAged
  <2> QED
    BY <2>3, <2>4, <2>5 DEF SizeOf, ListOk
<1> QED
  BY <1>1, <1>2 DEF Entries

\* The entry of k expires at another time
LEMMA DatedRight ==
    ASSUME NEW d, Good(d), NEW k \in DOMAIN d.entries, NEW t \in 0..MaxNow,
           NEW c, c = Dated(d, k, t)
    PROVE  /\ Good(c) /\ DOMAIN c.entries = DOMAIN d.entries /\ c.lru = d.lru
           /\ \A j \in DOMAIN d.entries \ {k} : c.entries[j] = d.entries[j]
           /\ Content(c.entries[k]) = [Content(d.entries[k]) EXCEPT !.deadline = t]
           /\ c.entries[k].expires = t
           /\ \A a : Front(d, a, k) => Front(c, a, k)
<1>0. Sound(d) /\ Whole(d, {k}) /\ ListOk(d.entries[k]) /\ d.entries[k] \in Entries
  BY SoundFacts DEF Good, Whole
<1>1. PICK e : Aged(e, d.entries[k], t)
  BY DEF Aged
<1>2. e \in Entries /\ SizeOf(e) = SizeOf(d.entries[k]) /\ ListOk(e) /\ e.expires = t
      /\ Content(e) = [Content(d.entries[k]) EXCEPT !.deadline = t]
  BY <1>0, <1>1, AgedRight
<1>3. c.entries = [d.entries EXCEPT ![k] = e] /\ c.lru = d.lru /\ c.used = d.used
  BY <1>1 DEF Dated, With, Aged
<1>4. Changed(c, d, k, e)
  <2>1. d.used \in 0..Capacity /\ SizeOf(e) \in Nat
    BY <1>0, <1>2, EntryFacts DEF Sound
  <2> QED
    BY <1>2, <1>3, <2>1, SharedDictAssumption DEF Changed
<1>5. Sound(c)
  BY <1>0, <1>2, <1>4, ChangeRight
<1>6. Whole(c, {})
  BY <1>0, <1>2, <1>4, ChangeRight
<1>7. \A a : Front(d, a, k) => Front(c, a, k)
  BY <1>0, <1>2, <1>4, ChangeRight
<1>8. /\ DOMAIN c.entries = DOMAIN d.entries /\ c.entries[k] = e
      /\ \A j \in DOMAIN d.entries \ {k} : c.entries[j] = d.entries[j]
  BY <1>0, <1>3, SoundFacts
<1> QED
  BY <1>2, <1>3, <1>5, <1>6, <1>7, <1>8 DEF Good

-----------------------------------------------------------------------------
(* The cache that a dictionary stands for.                                 *)

LiveKeys(d) == {k \in DOMAIN d.entries : Live(d, k)}

\* Current, order and past of d
View(d, items, order, past) ==
    /\ items = [k \in LiveKeys(d) |-> Content(d.entries[k])]
    /\ past = [k \in DOMAIN d.entries \ LiveKeys(d) |-> Content(d.entries[k])]
    /\ order \subseteq Key \X Key
    /\ \A i, j : <<i, j>> \in order <=>
                   <<i, j>> \in d.lru.before /\ i \in LiveKeys(d) /\ j \in LiveKeys(d)

\* The operation leaves c
NextIs(c) == entries' = c.entries /\ lru' = c.lru /\ now' = now

LEMMA ViewNow ==
    ASSUME Sound(dict)
    PROVE  View(dict, Current, Order, Past)
<1>1. /\ Current = [k \in LiveKeys(dict) |-> Content(dict.entries[k])]
      /\ Past = [k \in DOMAIN dict.entries \ LiveKeys(dict) |-> Content(dict.entries[k])]
  BY DEF Current, Past, Readable, LiveKeys, dict
<1>2. Order \subseteq Key \X Key
  BY DEF Order, GetKeys, Remove, Sound, QueuesOver, dict
<1>3. \A i, j : <<i, j>> \in Order <=>
                  <<i, j>> \in dict.lru.before /\ i \in LiveKeys(dict) /\ j \in LiveKeys(dict)
  <2>1. \A i, j : <<i, j>> \in Order <=>
                    /\ <<i, j>> \in lru.before
                    /\ i \notin {k \in DOMAIN entries : Expired(dict, k)}
                    /\ j \notin {k \in DOMAIN entries : Expired(dict, k)}
    BY DEF Order, GetKeys, Remove
  <2>2. \A k \in DOMAIN entries : k \in LiveKeys(dict) <=> ~Expired(dict, k)
    BY DEF LiveKeys, Live, Has, dict
  <2>3. \A i, j : <<i, j>> \in lru.before => i \in DOMAIN entries /\ j \in DOMAIN entries
    BY SoundFacts DEF dict
  <2>4. dict.lru = lru
    BY DEF dict
  <2> QED
    BY <2>1, <2>2, <2>3, <2>4 DEF LiveKeys
<1> QED
  BY <1>1, <1>2, <1>3 DEF View

LEMMA ViewNext ==
    ASSUME NEW c, Sound(c), NextIs(c)
    PROVE  View(c, Current', Order', Past')
<1>1. /\ entries' = c.entries /\ lru' = c.lru /\ now' = now
      /\ dict'.entries = c.entries /\ dict'.lru = c.lru
  BY DEF NextIs, dict
<1>2. \A k : Live(dict, k)' <=> Live(c, k)
  BY <1>1 DEF Live, Has, Expired
<1>3. \A k : Expired(dict, k)' <=> Expired(c, k)
  BY <1>1 DEF Expired
<1>4. /\ Current' = [k \in LiveKeys(c) |-> Content(c.entries[k])]
      /\ Past' = [k \in DOMAIN c.entries \ LiveKeys(c) |-> Content(c.entries[k])]
  <2>1. Readable' = LiveKeys(c)
    BY <1>1, <1>2 DEF Readable, LiveKeys
  <2> QED
    BY <1>1, <2>1 DEF Current, Past, Content
<1>5. Order' = {p \in c.lru.before : /\ p[1] \notin {k \in DOMAIN c.entries : Expired(c, k)}
                                     /\ p[2] \notin {k \in DOMAIN c.entries : Expired(c, k)}}
  BY <1>1, <1>3 DEF Order, GetKeys, Remove
<1>6. Order' \subseteq Key \X Key
  BY <1>5 DEF Sound, QueuesOver
<1>7. \A i, j : <<i, j>> \in Order' <=>
                  <<i, j>> \in c.lru.before /\ i \in LiveKeys(c) /\ j \in LiveKeys(c)
  <2>1. \A k \in DOMAIN c.entries : k \in LiveKeys(c) <=> ~Expired(c, k)
    BY DEF LiveKeys, Live, Has
  <2>2. \A i, j : <<i, j>> \in c.lru.before => i \in DOMAIN c.entries /\ j \in DOMAIN c.entries
    BY SoundFacts
  <2> QED
    BY <1>5, <2>1, <2>2 DEF LiveKeys
<1> QED
  BY <1>4, <1>6, <1>7 DEF View

\* Sets of pairs with the same pairs
LEMMA SamePairs ==
    ASSUME NEW Q, NEW R, Q \subseteq Key \X Key, R \subseteq Key \X Key,
           \A i, j : <<i, j>> \in Q <=> <<i, j>> \in R
    PROVE  Q = R
<1>1. \A p \in Key \X Key : p \in Q <=> p \in R
  <2> SUFFICES ASSUME NEW p \in Key \X Key
               PROVE  p \in Q <=> p \in R
    OBVIOUS
  <2>1. p = <<p[1], p[2]>>
    OBVIOUS
  <2> QED
    BY <2>1
<1> QED
  BY <1>1

\* What is left in the place of an entry that goes
LEMMA Forgotten ==
    ASSUME Sound(dict), NEW c, Sound(c), NextIs(c), NEW K,
           \A j \in DOMAIN c.entries \ LiveKeys(c) :
               /\ j \in DOMAIN dict.entries \ LiveKeys(dict) /\ j \notin K
               /\ c.entries[j] = dict.entries[j]
    PROVE  C!Forgets(K)
<1>1. View(dict, Current, Order, Past) /\ View(c, Current', Order', Past')
  BY ViewNow, ViewNext
<1> DEFINE S == DOMAIN c.entries \ LiveKeys(c)
<1>2. S \in SUBSET (DOMAIN Past \ K)
  BY <1>1 DEF View
<1>3. Past' = C!OnlyKeys(Past, S)
  BY <1>1 DEF View, C!OnlyKeys
<1> QED
  BY <1>2, <1>3 DEF C!Forgets

\* The entries of c but k, where they are those of d, can be read as in d
LEMMA SameLive ==
    ASSUME NEW c, NEW d, NEW k,
           \A j \in DOMAIN c.entries \ {k} : j \in DOMAIN d.entries /\ c.entries[j] = d.entries[j]
    PROVE  \A j \in DOMAIN c.entries \ {k} : Live(c, j) <=> Live(d, j)
BY DEF Live, Has, Expired

\* An entry at the head of the queue is a write of it
LEMMA FrontWrites ==
    ASSUME Sound(dict), NEW c, Sound(c), NextIs(c), NEW k, Front(c, dict, k), Live(c, k),
           NEW S, S = LiveKeys(dict) \cap (DOMAIN c.entries \ {k})
    PROVE  C!Write(k, Content(c.entries[k]), S)
<1>1. View(dict, Current, Order, Past) /\ View(c, Current', Order', Past')
  BY ViewNow, ViewNext
<1>2. \A j \in DOMAIN c.entries \ {k} : /\ j \in DOMAIN dict.entries
                                        /\ c.entries[j] = dict.entries[j]
                                        /\ Live(c, j) <=> Live(dict, j)
  BY SameLive DEF Front
<1>3. k \in DOMAIN c.entries /\ k \in LiveKeys(c) /\ LiveKeys(c) = S \cup {k}
  BY <1>2 DEF LiveKeys, Front
<1>4. Order' = C!Among(S) \cup ({k} \X S)
  <2>1. \A i, j : <<i, j>> \in Order' <=>
           \/ <<i, j>> \in Order /\ i \in S /\ j \in S
           \/ i = k /\ j \in S
    BY <1>1, <1>3 DEF View, Front
  <2>2. S \subseteq Key /\ k \in Key
    BY <1>3, SoundFacts
  <2>3. C!Among(S) \cup ({k} \X S) \subseteq Key \X Key
    BY <2>2 DEF C!Among
  <2>4. \A i, j : <<i, j>> \in C!Among(S) \cup ({k} \X S) <=>
           \/ <<i, j>> \in Order /\ i \in S /\ j \in S
           \/ i = k /\ j \in S
    BY DEF C!Among
  <2>5. Order' \subseteq Key \X Key
    BY <1>1 DEF View
  <2> QED
    BY <2>1, <2>3, <2>4, <2>5, SamePairs
<1>5. Current' = [j \in S \cup {k} |-> IF j = k THEN Content(c.entries[k]) ELSE Current[j]]
  <2>1. \A j \in S : Current[j] = Content(c.entries[j])
    BY <1>1, <1>2 DEF View
  <2> QED
    BY <1>1, <1>3, <2>1 DEF View
<1>6. C!Forgets({k})
  <2>1. \A j \in DOMAIN c.entries \ LiveKeys(c) :
            /\ j \in DOMAIN dict.entries \ LiveKeys(dict) /\ j \notin {k}
            /\ c.entries[j] = dict.entries[j]
    BY <1>2, <1>3 DEF LiveKeys
  <2> QED
    BY <2>1, Forgotten
<1> QED
  BY <1>4, <1>5, <1>6 DEF C!Write, NextIs

\* The entries of b that can be read are in c, k apart
LeftIn(c, b, k) == \A j \in LiveKeys(b) \ {k} : j \in DOMAIN c.entries

\* ... or those most recently used are
KeptRecent(c, b, k) ==
    \A i \in LiveKeys(b) \ {k} : \A j \in DOMAIN c.entries \ {k} :
        <<i, j>> \in b.lru.before => i \in DOMAIN c.entries

LEMMA NewestLeft ==
    ASSUME Sound(dict), NEW c, NEW k, KeptRecent(c, dict, k), NEW S,
           S = LiveKeys(dict) \cap (DOMAIN c.entries \ {k})
    PROVE  S \in C!Newest(C!Others(k))
<1>1. View(dict, Current, Order, Past)
  BY ViewNow
<1>2. C!Others(k) = LiveKeys(dict) \ {k}
  BY <1>1 DEF View, C!Others
<1>3. \A i \in LiveKeys(dict) \ {k} : \A j \in S : <<i, j>> \in Order => i \in S
  BY <1>1 DEF View, KeptRecent
<1> QED
  BY <1>2, <1>3 DEF C!Newest

LEMMA FrontForces ==
    ASSUME Sound(dict), NEW c, Sound(c), NextIs(c), NEW k, Front(c, dict, k), Live(c, k),
           KeptRecent(c, dict, k)
    PROVE  \E S \in C!Newest(C!Others(k)) : C!Write(k, Content(c.entries[k]), S)
BY FrontWrites, NewestLeft

LEMMA FrontPuts ==
    ASSUME Sound(dict), NEW c, Sound(c), NextIs(c), NEW k, Front(c, dict, k), Live(c, k),
           LeftIn(c, dict, k)
    PROVE  C!Put(k, Content(c.entries[k]))
<1>1. C!Others(k) = LiveKeys(dict) \cap (DOMAIN c.entries \ {k})
  BY ViewNow DEF View, C!Others, LeftIn
<1> QED
  BY <1>1, FrontWrites DEF C!Put

LEMMA FrontUses ==
    ASSUME Sound(dict), NEW c, Sound(c), NextIs(c), NEW k, Front(c, dict, k), Live(dict, k),
           c.entries[k] = dict.entries[k], LeftIn(c, dict, k)
    PROVE  C!Use(k)
<1>1. View(dict, Current, Order, Past) /\ View(c, Current', Order', Past')
  BY ViewNow, ViewNext
<1>2. k \in DOMAIN c.entries /\ k \in LiveKeys(dict)
  BY DEF Front, Live, LiveKeys, Has
<1>3. Live(c, k)
  BY <1>2 DEF Live, Has, Expired
<1>4. C!Put(k, Content(c.entries[k]))
  BY <1>3, FrontPuts
<1>5. k \in DOMAIN Current /\ Current[k] = Content(c.entries[k])
  BY <1>1, <1>2 DEF View
<1>6. Current' = Current
  <2>1. Current' = [j \in C!Others(k) \cup {k} |-> IF j = k THEN Current[k] ELSE Current[j]]
    BY <1>4, <1>5 DEF C!Put, C!Write
  <2>2. C!Others(k) \cup {k} = DOMAIN Current
    BY <1>5 DEF C!Others
  <2>3. Current = [j \in DOMAIN Current |-> Current[j]]
    BY <1>1 DEF View
  <2> QED
    BY <2>1, <2>2, <2>3
<1>7. C!Forgets({})
  <2>1. \A j \in DOMAIN c.entries \ LiveKeys(c) :
            /\ j \in DOMAIN dict.entries \ LiveKeys(dict) /\ j \notin {}
            /\ c.entries[j] = dict.entries[j]
    BY <1>2, <1>3, SameLive DEF LiveKeys, Front
  <2> QED
    BY <2>1, Forgotten
<1> QED
  BY <1>4, <1>5, <1>6, <1>7 DEF C!Put, C!Write, C!Use

\* Entries that go
LEMMA LeftKeeps ==
    ASSUME Sound(dict), NEW c, Sound(c), NextIs(c), Left(c, dict),
           NEW S, S = LiveKeys(dict) \cap DOMAIN c.entries
    PROVE  /\ C!Keep(S)
           /\ \A K : K \cap DOMAIN c.entries = {} => C!Forgets(K)
<1>1. View(dict, Current, Order, Past) /\ View(c, Current', Order', Past')
  BY ViewNow, ViewNext
<1>2. \A j \in DOMAIN c.entries : /\ j \in DOMAIN dict.entries /\ c.entries[j] = dict.entries[j]
                                  /\ Live(c, j) <=> Live(dict, j)
  BY LeftLive DEF Left
<1>3. LiveKeys(c) = S
  BY <1>2 DEF LiveKeys
<1>4. Order' = C!Among(S)
  <2>1. \A i, j : <<i, j>> \in Order' <=> <<i, j>> \in Order /\ i \in S /\ j \in S
    BY <1>1, <1>3 DEF View, Left
  <2>2. Order' \subseteq Key \X Key /\ C!Among(S) \subseteq Key \X Key
    BY <1>1 DEF View, C!Among
  <2>3. \A i, j : <<i, j>> \in C!Among(S) <=> <<i, j>> \in Order /\ i \in S /\ j \in S
    BY DEF C!Among
  <2>4. \A i, j : <<i, j>> \in Order' <=> <<i, j>> \in C!Among(S)
    BY <2>1, <2>3
  <2> QED
    BY <2>2, <2>4, SamePairs
<1>5. Current' = C!OnlyKeys(Current, S)
  <2>1. DOMAIN Current \cap S = S /\ \A j \in S : Current[j] = Content(c.entries[j])
    BY <1>1, <1>2 DEF View
  <2> QED
    BY <1>1, <1>3, <2>1 DEF View, C!OnlyKeys
<1>6. ASSUME NEW K, K \cap DOMAIN c.entries = {}
      PROVE  C!Forgets(K)
  <2>1. \A j \in DOMAIN c.entries \ LiveKeys(c) :
            /\ j \in DOMAIN dict.entries \ LiveKeys(dict) /\ j \notin K
            /\ c.entries[j] = dict.entries[j]
    BY <1>2, <1>6 DEF LiveKeys
  <2> QED
    BY <2>1, Forgotten
<1> QED
  BY <1>4, <1>5, <1>6 DEF C!Keep

LEMMA LeftReaps ==
    ASSUME Sound(dict), NEW c, Sound(c), NextIs(c), Left(c, dict),
           \A j \in LiveKeys(dict) : j \in DOMAIN c.entries
    PROVE  C!Reap
<1>1. View(dict, Current, Order, Past)
  BY ViewNow
<1>2. LiveKeys(dict) \cap DOMAIN c.entries = DOMAIN Current
  BY <1>1 DEF View
<1>3. C!Keep(DOMAIN Current) /\ C!Forgets({})
  BY <1>2, LeftKeeps
<1>4. Current' = Current
  <2>1. Current = [j \in DOMAIN Current |-> Current[j]]
    BY <1>1 DEF View
  <2>2. Current' = [j \in DOMAIN Current |-> Current[j]]
    BY <1>3 DEF C!Keep, C!OnlyKeys
  <2> QED
    BY <2>1, <2>2
<1>5. Order' = Order
  <2>1. \A i, j : <<i, j>> \in Order => i \in DOMAIN Current /\ j \in DOMAIN Current
    BY <1>1 DEF View
  <2>2. \A i, j : <<i, j>> \in C!Among(DOMAIN Current) <=> <<i, j>> \in Order
    BY <2>1 DEF C!Among
  <2>3. Order \subseteq Key \X Key /\ C!Among(DOMAIN Current) \subseteq Key \X Key
    BY <1>1 DEF View, C!Among
  <2> QED
    BY <1>3, <2>2, <2>3, SamePairs DEF C!Keep
<1> QED
  BY <1>3, <1>4, <1>5 DEF C!Reap, NextIs

LEMMA LeftRemoves ==
    ASSUME Sound(dict), NEW c, Sound(c), NextIs(c), Left(c, dict), NEW k, k \notin DOMAIN c.entries,
           LeftIn(c, dict, k)
    PROVE  C!Remove(k)
<1>1. LiveKeys(dict) \cap DOMAIN c.entries = C!Others(k)
  BY ViewNow DEF View, C!Others, LeftIn
<1>2. C!Keep(C!Others(k)) /\ C!Forgets({k})
  BY <1>1, LeftKeeps
<1> QED
  BY <1>2 DEF C!Remove, C!Drop, NextIs

LEMMA LeftForces ==
    ASSUME Sound(dict), NEW c, Sound(c), NextIs(c), Left(c, dict), NEW k, k \notin DOMAIN c.entries,
           KeptRecent(c, dict, k)
    PROVE  \E S \in C!Newest(C!Others(k)) : C!Drop(k, S)
<1> DEFINE S == LiveKeys(dict) \cap (DOMAIN c.entries \ {k})
<1>1. S = LiveKeys(dict) \cap DOMAIN c.entries
  OBVIOUS
<1>2. S \in C!Newest(C!Others(k))
  BY NewestLeft
<1>3. C!Keep(S) /\ C!Forgets({k})
  BY <1>1, LeftKeeps
<1> QED
  BY <1>2, <1>3 DEF C!Drop, NextIs

-----------------------------------------------------------------------------
(* Every step keeps the dictionary in order and is one of the cache's.     *)

Pushes == [key : Key, len : Nat, freed : BOOLEAN]

DictInv == /\ now \in 1..MaxNow /\ Good(dict)
           /\ pushing \in [Process -> {Nil} \cup Pushes]

\* What a step has to do
Right == DictInv' /\ [C!Next]_(C!vars)

LEMMA Ends ==
    ASSUME DictInv, NEW c, Good(c), entries' = c.entries, lru' = c.lru, used' = c.used, now' = now,
           pushing' \in [Process -> {Nil} \cup Pushes]
    PROVE  DictInv' /\ Sound(dict) /\ Sound(c) /\ NextIs(c)
<1>1. dict'.entries = c.entries /\ dict'.lru = c.lru /\ dict'.used = c.used
  BY DEF dict
<1>2. Sound(dict)' /\ Whole(dict, {})'
  BY <1>1 DEF Good, Sound, Whole
<1> QED
  BY <1>2 DEF DictInv, NextIs, Good

LEMMA Commits ==
    ASSUME DictInv, NEW c, Good(c), Commit(c)
    PROVE  DictInv' /\ Sound(dict) /\ Sound(c) /\ NextIs(c)
<1>1. \A p \in Process : pushing[p] # Nil => [pushing[p] EXCEPT !.freed = TRUE] \in Pushes
  BY DEF DictInv, Pushes
<1>2. pushing' \in [Process -> {Nil} \cup Pushes]
  BY <1>1 DEF DictInv, Commit
<1> QED
  BY <1>2, Ends DEF Commit

LEMMA LiveAt ==
    ASSUME DictInv, NEW c, NEW k \in DOMAIN c.entries, c.entries[k].expires \in Deadlines
    PROVE  Live(c, k) /\ c.entries[k].expires \in C!Deadlines
BY DEF DictInv, Deadlines, Live, Has, Expired, Never, C!Deadlines, C!Never

\* A step that only looks k up
LEMMA SeenStep ==
    ASSUME DictInv, NEW k \in Key, NEW d, Seen(d, dict, k), Commit(d)
    PROVE  DictInv' /\ (Live(d, k) => C!Use(k)) /\ (~Live(d, k) => C!Misses(k))
<1>1. Good(d) /\ (\A j \in LiveKeys(dict) : j \in DOMAIN d.entries) /\ (Live(d, k) <=> Live(dict, k))
  BY DEF Seen, LiveKeys
<1>2. DictInv' /\ Sound(dict) /\ Sound(d) /\ NextIs(d)
  BY <1>1, Commits
<1>3. CASE Live(dict, k)
  <2>1. Front(d, dict, k) /\ d.entries[k] = dict.entries[k] /\ LeftIn(d, dict, k)
    BY <1>1, <1>3 DEF Seen, LeftIn
  <2> QED
    BY <1>1, <1>2, <1>3, <2>1, FrontUses
<1>4. CASE ~Live(dict, k)
  <2>1. Left(d, dict)
    BY <1>4 DEF Seen
  <2>2. C!Reap
    BY <1>1, <1>2, <2>1, LeftReaps
  <2>3. k \notin DOMAIN Current
    BY <1>4 DEF Current, Readable
  <2> QED
    BY <1>1, <1>2, <1>4, <2>2, <2>3 DEF C!Misses
<1> QED
  BY <1>3, <1>4

\* The item that a lookup has found
LEMMA FoundIs ==
    ASSUME DictInv, NEW k \in Key, NEW d, Seen(d, dict, k), Live(d, k)
    PROVE  /\ k \in DOMAIN Current /\ Current[k] = Content(d.entries[k])
           /\ k \in DOMAIN d.entries /\ d.entries[k] \in Entries /\ ListOk(d.entries[k])
           /\ C!IsList(k) <=> IsList(d, k)
           /\ C!IsNumber(k) <=> IsNumber(d.entries[k])
           /\ Current[k].val = Value(d.entries[k]) /\ Current[k].val.data = d.entries[k].data
           /\ \A v \in Scalar : C!Owned(k, Value(v)) <=> Owned(d, k, v)
<1>1. Live(dict, k) /\ d.entries[k] = dict.entries[k] /\ Good(d)
  BY DEF Seen
<1>2. k \in DOMAIN entries /\ k \in Readable /\ k \in DOMAIN d.entries
  BY <1>1 DEF Live, Has, Readable, dict
<1>3. Current[k] = Content(d.entries[k]) /\ k \in DOMAIN Current
  BY <1>1, <1>2 DEF Current, dict
<1>4. d.entries[k] \in Entries /\ ListOk(d.entries[k])
  BY <1>1, <1>2, SoundFacts DEF Good, Whole
<1>5. /\ Current[k].val = Value(d.entries[k]) /\ Current[k].val.type = d.entries[k].type
      /\ Current[k].val.data = d.entries[k].data
  BY <1>3 DEF Content, Value
<1>6. \A v \in Scalar : C!Owned(k, Value(v)) <=> Owned(d, k, v)
  BY <1>3, <1>5 DEF C!Owned, Owned, Value
<1> QED
  BY <1>2, <1>3, <1>4, <1>5, <1>6 DEF C!IsList, C!IsNumber, IsList, IsNumber

LEMMA MissedIs ==
    ASSUME NEW k, NEW d, Seen(d, dict, k), ~Live(d, k)
    PROVE  k \notin DOMAIN Current
BY DEF Seen, Current, Readable

\* What follows a lookup
LEMMA SeenThen ==
    ASSUME NEW b, NEW d, NEW k, Seen(d, b, k), NEW c
    PROVE  /\ Front(c, d, k) => Front(c, b, k)
           /\ Left(c, d) /\ k \notin DOMAIN c.entries => Left(c, b)
           /\ DOMAIN d.entries \ {k} \subseteq DOMAIN c.entries => LeftIn(c, b, k)
<1>1. Front(c, d, k) => Front(c, b, k)
  BY LeftFront, FrontFront DEF Seen
<1>2. Left(c, d) /\ k \notin DOMAIN c.entries => Left(c, b)
  BY LeftLeft, FrontLeft DEF Seen
<1>3. DOMAIN d.entries \ {k} \subseteq DOMAIN c.entries => LeftIn(c, b, k)
  BY DEF Seen, LeftIn, LiveKeys
<1> QED
  BY <1>1, <1>2, <1>3

\* A step that stores e, or fails to
LEMMA StoredStep ==
    ASSUME DictInv, NEW k \in Key, NEW d, Seen(d, dict, k), NEW e, e.expires \in Deadlines,
           NEW c, Stored(c, d, k, e), Commit(c)
    PROVE  /\ DictInv'
           /\ Has(c, k) => \E S \in C!Newest(C!Others(k)) : C!Write(k, Content(e), S)
           /\ ~Has(c, k) => \E S \in C!Newest(C!Others(k)) : C!Drop(k, S)
           /\ DOMAIN d.entries \ {k} \subseteq DOMAIN c.entries =>
                 IF Has(c, k) THEN C!Put(k, Content(e)) ELSE C!Remove(k)
<1>1. DictInv' /\ Sound(dict) /\ Sound(c) /\ NextIs(c)
  BY Commits DEF Stored
<1>2. KeptRecent(c, dict, k)
  <2> SUFFICES ASSUME NEW i \in LiveKeys(dict) \ {k}, NEW j \in DOMAIN c.entries \ {k},
                      <<i, j>> \in dict.lru.before
               PROVE  i \in DOMAIN c.entries
    BY DEF KeptRecent
  <2>1. i \in DOMAIN d.entries
    BY DEF Seen, LiveKeys
  <2>2. j \in DOMAIN d.entries
    BY DEF Stored, Front, Left
  <2>3. <<i, j>> \in d.lru.before
    <3>1. Front(d, dict, k) \/ Left(d, dict)
      BY DEF Seen
    <3> QED
      BY <2>1, <2>2, <3>1 DEF Front, Left
  <2> QED
    BY <2>1, <2>3 DEF Stored, Recent
<1>5. DOMAIN d.entries \ {k} \subseteq DOMAIN c.entries => LeftIn(c, dict, k)
  BY SeenThen
<1>3. CASE Front(c, d, k) /\ c.entries[k] = e
  <2>1. Front(c, dict, k) /\ k \in DOMAIN c.entries
    BY <1>3, SeenThen DEF Front
  <2>2. Live(c, k)
    BY <1>3, <2>1, LiveAt
  <2>3. \E S \in C!Newest(C!Others(k)) : C!Write(k, Content(c.entries[k]), S)
    BY <1>1, <1>2, <2>1, <2>2, FrontForces
  <2>4. LeftIn(c, dict, k) => C!Put(k, Content(c.entries[k]))
    BY <1>1, <2>1, <2>2, FrontPuts
  <2> QED
    BY <1>1, <1>3, <1>5, <2>1, <2>3, <2>4 DEF Has
<1>4. CASE Left(c, d) /\ k \notin DOMAIN c.entries
  <2>1. Left(c, dict)
    BY <1>4, SeenThen
  <2>2. \E S \in C!Newest(C!Others(k)) : C!Drop(k, S)
    BY <1>1, <1>2, <1>4, <2>1, LeftForces
  <2>3. LeftIn(c, dict, k) => C!Remove(k)
    BY <1>1, <1>4, <2>1, LeftRemoves
  <2> QED
    BY <1>1, <1>4, <1>5, <2>2, <2>3 DEF Has
<1> QED
  BY <1>3, <1>4 DEF Stored

\* The times and the values of a cache
LEMMA ValueIs ==
    ASSUME DictInv, NEW v \in Scalar, NEW t \in Deadlines
    PROVE  /\ Entry(v, t) \in Entries /\ Entry(v, t).type # "list"
           /\ Entry(v, t).expires \in Deadlines
           /\ Content(Entry(v, t)) \in C!NewItems
           /\ Content(Entry(v, t)).val = Value(v) /\ Value(v) \in ScalarValues
           /\ v.type = "number" => Content(Entry(v, t)) \in C!Starts
           /\ t \in C!Deadlines /\ t \in 0..MaxNow /\ Nil # Content(Entry(v, t))
<1>1. t \in 0..MaxNow /\ t \in C!Deadlines
  BY SharedDictAssumption DEF DictInv, Deadlines, Never, C!Deadlines, C!Never
<1>2. /\ Entry(v, t) \in Entries /\ Entry(v, t).type # "list" /\ Entry(v, t).expires = t
      /\ Entry(v, t).type = v.type /\ Entry(v, t).data = v.data
  BY <1>1, EntryIs
<1>3. Value(v) \in ScalarValues
  BY DEF ScalarValues
<1>4. Content(Entry(v, t)) = C!Value(Value(v), t)
  BY <1>2 DEF Content, C!Value, Value
<1>5. C!Value(Value(v), t).val = Value(v) /\ Value(v).type = v.type
  BY DEF C!Value, Value
<1>6. C!Value(Value(v), t) \in C!NewItems
  BY <1>1, <1>3 DEF C!NewItems
<1>7. v.type = "number" => C!Value(Value(v), t) \in C!Starts
  BY <1>5, <1>6 DEF C!Starts
<1>8. Nil # Content(Entry(v, t))
  BY <1>1, SharedDictAssumption
<1> QED
  BY <1>1, <1>2, <1>3, <1>4, <1>5, <1>6, <1>7, <1>8

LEMMA StoreStep ==
    ASSUME DictInv, NEW k \in Key, NEW d, Seen(d, dict, k), NEW v \in Scalar, NEW t \in Deadlines,
           NEW op, NEW safe \in BOOLEAN, safe <=> op \in {"safe_set", "safe_add"}, NEW answer,
           Stores(op, d, k, Entry(v, t), safe, answer)
    PROVE  /\ DictInv' /\ C!Calls(op, k)
           /\ C!Stores(op, k, Content(Entry(v, t)), answer)
<1>1. PICK e : e = Entry(v, t)
  OBVIOUS
<1>2. PICK c : c = Written(d, k, e, safe)
  OBVIOUS
<1>3. PICK f : f = Forcible(d, k, e, safe)
  OBVIOUS
<1>4. /\ Commit(c) /\ C!Calls(op, k)
      /\ C!Returns(Content(e), IF Has(c, k) THEN answer ELSE <<"no memory">>, f)
  BY <1>1, <1>2, <1>3 DEF Stores, Returns, C!Calls, C!Returns
<1>5. e \in Entries /\ e.type # "list" /\ e.expires \in Deadlines /\ Good(d)
  BY <1>1, ValueIs DEF Seen
<1>6. Stored(c, d, k, e)
  BY <1>2, <1>5, WrittenRight
<1>7. f \in BOOLEAN /\ (safe => ~f)
  BY <1>3 DEF Forcible
<1>8. f \in C!Forcibles(op)
  BY <1>7 DEF C!Forcibles
<1>9. ~f => DOMAIN d.entries \ {k} \subseteq DOMAIN c.entries
  BY <1>2, <1>3, <1>5, WrittenKeeps
<1>10. /\ DictInv'
       /\ Has(c, k) => \E S \in C!Newest(C!Others(k)) : C!Write(k, Content(e), S)
       /\ ~Has(c, k) => \E S \in C!Newest(C!Others(k)) : C!Drop(k, S)
       /\ ~f => IF Has(c, k) THEN C!Put(k, Content(e)) ELSE C!Remove(k)
  BY <1>4, <1>5, <1>6, <1>9, StoredStep
<1>11. CASE Has(c, k)
  <2>1. \E S \in C!Remaining(k, f) : C!Write(k, Content(e), S)
    BY <1>7, <1>10, <1>11 DEF C!Remaining, C!Put
  <2> QED
    BY <1>1, <1>4, <1>8, <1>10, <1>11, <2>1 DEF C!Stores
<1>12. CASE ~Has(c, k)
  <2>1. \E S \in C!Remaining(k, f) : C!Drop(k, S)
    BY <1>7, <1>10, <1>12 DEF C!Remaining, C!Remove
  <2> QED
    BY <1>1, <1>4, <1>8, <1>10, <1>12, <2>1 DEF C!Stores
<1> QED
  BY <1>11, <1>12

LEMMA NextIfKey ==
    ASSUME NEW k \in Key, C!Operation(k)
    PROVE  [C!Next]_(C!vars)
BY DEF C!Next

\* What a caller is told
LEMMA Told ==
    ASSUME NEW op, NEW k, NEW args, NEW answer, Says(op, k, args, answer)
    PROVE  C!Calls(op, k) /\ C!Says(args, answer)
BY DEF Says, Returns, C!Calls, C!Says, C!Returns

LEMMA ReadIs ==
    ASSUME NEW e, NEW word
    PROVE  Read(e, word) = C!Read(Content(e), word)
BY DEF Read, C!Read, Content, Value

LEMMA GetStep ==
    ASSUME DictInv, NEW k \in Key, Get(k)
    PROVE  Right
<1>1. PICK d : d = LookedUp(Expire1(dict), k)
  OBVIOUS
<1>2. Seen(d, dict, k)
  BY <1>1, SeenAfterExpire DEF DictInv
<1>3. /\ Commit(d)
      /\ Says("get", k, <<>>, IF Live(d, k) THEN Read(d.entries[k], "value") ELSE <<"none">>)
  BY <1>1 DEF Get
<1>4. DictInv' /\ (Live(d, k) => C!Use(k)) /\ (~Live(d, k) => C!Misses(k))
  BY <1>2, <1>3, SeenStep
<1>5. Live(d, k) => Read(d.entries[k], "value") = C!Read(Current[k], "value")
  BY <1>2, FoundIs, ReadIs
<1>6. C!Get(k)
  BY <1>3, <1>4, <1>5, Told DEF C!Get
<1> QED
  BY <1>4, <1>6, NextIfKey DEF Right, C!Operation

LEMMA LlenStep ==
    ASSUME DictInv, NEW k \in Key, Llen(k)
    PROVE  Right
<1>1. PICK d : d = LookedUp(Expire1(dict), k)
  OBVIOUS
<1>2. Seen(d, dict, k)
  BY <1>1, SeenAfterExpire DEF DictInv
<1>3. PICK answer : /\ answer = IF ~Live(d, k) THEN <<"length", 0>>
                                ELSE IF IsList(d, k) THEN <<"length", d.entries[k].len>>
                                ELSE <<"not a list">>
                    /\ Commit(d) /\ Says("llen", k, <<>>, answer)
  BY <1>1 DEF Llen
<1>4. DictInv' /\ (Live(d, k) => C!Use(k)) /\ (~Live(d, k) => C!Misses(k))
  BY <1>2, <1>3, SeenStep
<1>5. Live(d, k) /\ IsList(d, k) => C!IsList(k) /\ d.entries[k].len = Len(Current[k].val.data)
  BY <1>2, FoundIs DEF IsList, ListOk
<1>6. Live(d, k) /\ ~IsList(d, k) => ~C!IsList(k)
  BY <1>2, FoundIs
<1>7. C!Calls("llen", k) /\ C!Says(<<>>, answer)
  BY <1>3, Told
<1>8. C!Llen(k)
  BY <1>3, <1>4, <1>5, <1>6, <1>7 DEF C!Llen
<1> QED
  BY <1>4, <1>8, NextIfKey DEF Right, C!Operation

LEMMA GetStaleStep ==
    ASSUME DictInv, NEW k \in Key, GetStale(k)
    PROVE  Right
<1>1. PICK d : d = LookedUp(dict, k)
  OBVIOUS
<1>2. Seen(d, dict, k)
  BY <1>1, LookedUpRight DEF DictInv
<1>3. PICK answer :
         /\ answer = IF Has(d, k) THEN Read(d.entries[k], IF Live(d, k) THEN "value" ELSE "stale")
                     ELSE <<"none">>
         /\ Commit(d) /\ Says("get_stale", k, <<>>, answer)
  BY <1>1 DEF GetStale
<1>4. DictInv' /\ (Live(d, k) => C!Use(k)) /\ (~Live(d, k) => C!Misses(k))
  BY <1>2, <1>3, SeenStep
<1>5. C!Calls("get_stale", k) /\ C!Says(<<>>, answer)
  BY <1>3, Told
<1>6. CASE Live(d, k)
  <2>1. Has(d, k) /\ Read(d.entries[k], "value") = C!Read(Current[k], "value")
    BY <1>2, <1>6, FoundIs, ReadIs DEF Live
  <2>2. C!GetStale(k)
    BY <1>3, <1>4, <1>5, <1>6, <2>1 DEF C!GetStale
  <2> QED
    BY <1>4, <2>2, NextIfKey DEF Right, C!Operation
<1>7. CASE ~Live(d, k)
  <2>1. ~Live(dict, k) /\ d = dict
    BY <1>1, <1>2, <1>7 DEF LookedUp, Seen
  <2>2. Has(d, k) <=> k \in DOMAIN Past
    BY <2>1 DEF Has, Past, Readable, dict
  <2>3. Has(d, k) => Past[k] = Content(d.entries[k])
    BY <2>1 DEF Has, Past, Readable, dict
  <2>4. Has(d, k) => Read(d.entries[k], "stale") = C!Read(Past[k], "stale")
    BY <2>3, ReadIs
  <2>5. C!GetStale(k)
    BY <1>3, <1>4, <1>5, <1>7, <2>2, <2>4 DEF C!GetStale
  <2> QED
    BY <1>4, <2>5, NextIfKey DEF Right, C!Operation
<1> QED
  BY <1>6, <1>7

LEMMA SetStep ==
    ASSUME DictInv, NEW k \in Key, NEW v \in Scalar, NEW t \in Deadlines, NEW safe \in BOOLEAN,
           Set(k, v, t, safe)
    PROVE  Right
<1>1. PICK d, op : /\ d = LookedUp(Expire1(dict), k)
                   /\ op = IF safe THEN "safe_set" ELSE "set"
  OBVIOUS
<1>2. Seen(d, dict, k) /\ Stores(op, d, k, Entry(v, t), safe, <<"ok">>)
  BY <1>1, SeenAfterExpire DEF DictInv, Set
<1>3. (safe <=> op \in {"safe_set", "safe_add"}) /\ op \in {"set", "safe_set"}
  BY <1>1
<1>4. /\ DictInv' /\ C!Calls(op, k)
      /\ C!Stores(op, k, Content(Entry(v, t)), <<"ok">>)
  BY <1>2, <1>3, StoreStep
<1>5. C!Set(k, op)
  BY <1>4, ValueIs DEF C!Set
<1> QED
  BY <1>3, <1>4, <1>5, NextIfKey DEF Right, C!Operation

LEMMA AddStep ==
    ASSUME DictInv, NEW k \in Key, NEW v \in Scalar, NEW t \in Deadlines, NEW safe \in BOOLEAN,
           Add(k, v, t, safe)
    PROVE  Right
<1>1. PICK d, op : /\ d = LookedUp(Expire1(dict), k)
                   /\ op = IF safe THEN "safe_add" ELSE "add"
  OBVIOUS
<1>2. PICK x : x = Content(Entry(v, t))
  OBVIOUS
<1>3. /\ Seen(d, dict, k)
      /\ \/ Live(d, k) /\ Commit(d) /\ Says(op, k, x, <<"exists">>)
         \/ ~Live(d, k) /\ Stores(op, d, k, Entry(v, t), safe, <<"ok">>)
  BY <1>1, <1>2, SeenAfterExpire DEF DictInv, Add
<1>4. (safe <=> op \in {"safe_set", "safe_add"}) /\ op \in {"add", "safe_add"}
  BY <1>1
<1>5. x \in C!NewItems
  BY <1>2, ValueIs
<1>6. CASE Live(d, k)
  <2>1. DictInv' /\ C!Use(k)
    BY <1>3, <1>6, SeenStep
  <2>2. C!Calls(op, k) /\ C!Says(x, <<"exists">>)
    BY <1>3, <1>6, Told
  <2>3. C!Add(k, op)
    BY <1>5, <2>1, <2>2 DEF C!Add
  <2> QED
    BY <1>4, <2>1, <2>3, NextIfKey DEF Right, C!Operation
<1>7. CASE ~Live(d, k)
  <2>1. DictInv' /\ C!Calls(op, k) /\ C!Stores(op, k, x, <<"ok">>)
    BY <1>2, <1>3, <1>4, <1>7, StoreStep
  <2>2. k \notin DOMAIN Current
    BY <1>3, <1>7, MissedIs
  <2>3. C!Add(k, op)
    BY <1>5, <2>1, <2>2 DEF C!Add
  <2> QED
    BY <1>4, <2>1, <2>3, NextIfKey DEF Right, C!Operation
<1> QED
  BY <1>6, <1>7

LEMMA ReplaceStep ==
    ASSUME DictInv, NEW k \in Key, NEW v \in Scalar, NEW t \in Deadlines, Replace(k, v, t)
    PROVE  Right
<1>1. PICK d : d = LookedUp(Expire1(dict), k)
  OBVIOUS
<1>2. PICK x : x = Content(Entry(v, t))
  OBVIOUS
<1>3. /\ Seen(d, dict, k)
      /\ \/ Live(d, k) /\ Stores("replace", d, k, Entry(v, t), FALSE, <<"ok">>)
         \/ ~Live(d, k) /\ Commit(d) /\ Says("replace", k, x, <<"not found">>)
  BY <1>1, <1>2, SeenAfterExpire DEF DictInv, Replace
<1>4. x \in C!NewItems
  BY <1>2, ValueIs
<1>5. CASE Live(d, k)
  <2>1. FALSE <=> "replace" \in {"safe_set", "safe_add"}
    OBVIOUS
  <2>2. DictInv' /\ C!Calls("replace", k) /\ C!Stores("replace", k, x, <<"ok">>)
    BY <1>2, <1>3, <1>5, <2>1, StoreStep
  <2>3. k \in DOMAIN Current
    BY <1>3, <1>5, FoundIs
  <2>4. C!Replace(k)
    BY <1>4, <2>2, <2>3 DEF C!Replace
  <2> QED
    BY <2>2, <2>4, NextIfKey DEF Right, C!Operation
<1>6. CASE ~Live(d, k)
  <2>1. DictInv' /\ C!Misses(k)
    BY <1>3, <1>6, SeenStep
  <2>2. C!Calls("replace", k) /\ C!Says(x, <<"not found">>)
    BY <1>3, <1>6, Told
  <2>3. C!Replace(k)
    BY <1>4, <2>1, <2>2 DEF C!Replace
  <2> QED
    BY <2>1, <2>3, NextIfKey DEF Right, C!Operation
<1> QED
  BY <1>5, <1>6

LEMMA DeleteStep ==
    ASSUME DictInv, NEW k \in Key, Delete(k)
    PROVE  Right
<1>1. PICK d : d = LookedUp(Expire1(dict), k)
  OBVIOUS
<1>2. Seen(d, dict, k) /\ Good(d)
  BY <1>1, SeenAfterExpire DEF DictInv, Seen
<1>3. PICK c : c = FreeIf(d, k)
  OBVIOUS
<1>4. /\ Good(c) /\ Left(c, d) /\ DOMAIN c.entries = DOMAIN d.entries \ {k}
      /\ Commit(c) /\ Says("delete", k, <<>>, <<"ok">>)
  BY <1>1, <1>2, <1>3, FreeIfRight DEF Delete
<1>5. DictInv' /\ Sound(dict) /\ Sound(c) /\ NextIs(c)
  BY <1>4, Commits
<1>6. Left(c, dict) /\ LeftIn(c, dict, k) /\ k \notin DOMAIN c.entries
  BY <1>2, <1>4, SeenThen
<1>7. C!Remove(k)
  BY <1>5, <1>6, LeftRemoves
<1>8. C!Delete(k)
  BY <1>4, <1>7, Told DEF C!Delete
<1> QED
  BY <1>5, <1>8, NextIfKey DEF Right, C!Operation

\* A step that frees k after a lookup
LEMMA FreedStep ==
    ASSUME DictInv, NEW k \in Key, NEW d, Seen(d, dict, k), k \in DOMAIN d.entries,
           NEW c, c = Free(d, {k}), Commit(c)
    PROVE  DictInv' /\ C!Remove(k)
<1>1. Good(d)
  BY DEF Seen
<1>2. Sound(c) /\ Left(c, d) /\ DOMAIN c.entries = DOMAIN d.entries \ {k}
  BY <1>1, FreeRight DEF Good
<1>3. Good(c)
  BY <1>1, <1>2, LeftWhole DEF Good
<1>4. DictInv' /\ Sound(dict) /\ NextIs(c)
  BY <1>3, Commits
<1>5. Left(c, dict) /\ LeftIn(c, dict, k) /\ k \notin DOMAIN c.entries
  BY <1>2, SeenThen
<1> QED
  BY <1>2, <1>4, <1>5, LeftRemoves

\* A step that changes the entry of k where it is, after a lookup that found it
LEMMA ChangedStep ==
    ASSUME DictInv, NEW k \in Key, NEW d, Seen(d, dict, k), Live(dict, k),
           NEW c, Good(c), Front(d, dict, k) => Front(c, dict, k),
           DOMAIN c.entries = DOMAIN d.entries, Live(c, k), Commit(c)
    PROVE  DictInv' /\ C!Put(k, Content(c.entries[k]))
<1>1. DictInv' /\ Sound(dict) /\ Sound(c) /\ NextIs(c)
  BY Commits
<1>2. Front(c, dict, k) /\ LeftIn(c, dict, k)
  BY SeenThen DEF Seen
<1> QED
  BY <1>1, <1>2, FrontPuts

LEMMA CompareExpireStep ==
    ASSUME DictInv, NEW k \in Key, NEW v \in Scalar, NEW t \in Deadlines \cup {Nil},
           CompareExpire(k, v, t)
    PROVE  Right
<1>1. PICK d : d = LookedUp(dict, k)
  OBVIOUS
<1>2. Seen(d, dict, k) /\ Good(d)
  BY <1>1, LookedUpRight DEF DictInv, Seen
<1>3. PICK x, answer : /\ x = Value(v) /\ answer = IF Owned(d, k, v) THEN <<"ok">> ELSE <<"declined">>
                       /\ Says("compare_expire", k, <<x, t>>, answer)
  BY <1>1 DEF CompareExpire
<1>4. C!Calls("compare_expire", k) /\ C!Says(<<x, t>>, answer)
  BY <1>3, Told
<1>5. x \in ScalarValues /\ t \in C!Deadlines \cup {Nil}
  BY <1>3, ValueIs DEF ScalarValues
<1>6. Live(d, k) => (C!Owned(k, x) <=> Owned(d, k, v))
  BY <1>2, <1>3, FoundIs
<1>7. CASE ~Owned(d, k, v)
  <2>1. Commit(d)
    BY <1>1, <1>7 DEF CompareExpire
  <2>2. DictInv' /\ (Live(d, k) => C!Use(k)) /\ (~Live(d, k) => C!Misses(k))
    BY <1>2, <2>1, SeenStep
  <2>3. C!CompareExpire(k)
    BY <1>3, <1>4, <1>5, <1>6, <1>7, <2>2 DEF C!CompareExpire
  <2> QED
    BY <2>2, <2>3, NextIfKey DEF Right, C!Operation
<1>8. CASE Owned(d, k, v) /\ t = Nil
  <2>1. k \in DOMAIN d.entries /\ Commit(Free(d, {k})) /\ Live(d, k)
    BY <1>1, <1>8 DEF CompareExpire, Owned, Live, Has
  <2>2. DictInv' /\ C!Remove(k)
    BY <1>2, <2>1, FreedStep
  <2>3. C!CompareExpire(k)
    BY <1>3, <1>4, <1>5, <1>6, <1>8, <2>1, <2>2 DEF C!CompareExpire
  <2> QED
    BY <2>2, <2>3, NextIfKey DEF Right, C!Operation
<1>9. CASE Owned(d, k, v) /\ t # Nil
  <2>1. PICK c : c = Dated(d, k, t)
    OBVIOUS
  <2>2. Commit(c) /\ Live(d, k) /\ k \in DOMAIN d.entries
    BY <1>1, <1>9, <2>1 DEF CompareExpire, Owned, Live, Has
  <2>3. t \in Deadlines /\ t \in 0..MaxNow
    BY <1>9, SharedDictAssumption DEF Deadlines, Never, DictInv
  <2>4. /\ Good(c) /\ DOMAIN c.entries = DOMAIN d.entries
        /\ Content(c.entries[k]) = [Content(d.entries[k]) EXCEPT !.deadline = t]
        /\ c.entries[k].expires = t /\ (Front(d, dict, k) => Front(c, dict, k))
    BY <1>2, <2>1, <2>2, <2>3, DatedRight
  <2>5. Live(c, k) /\ Live(dict, k)
    BY <1>2, <2>2, <2>3, <2>4, LiveAt DEF Seen
  <2>6. DictInv' /\ C!Put(k, Content(c.entries[k]))
    BY <1>2, <2>2, <2>4, <2>5, ChangedStep
  <2>7. Content(c.entries[k]) = C!Until(Current[k], t)
    BY <1>2, <2>2, <2>4, FoundIs DEF C!Until
  <2>8. C!CompareExpire(k)
    BY <1>3, <1>4, <1>5, <1>6, <1>9, <2>2, <2>6, <2>7 DEF C!CompareExpire
  <2> QED
    BY <2>6, <2>8, NextIfKey DEF Right, C!Operation
<1> QED
  BY <1>7, <1>8, <1>9

\* A number and one more
LEMMA PlusIs ==
    ASSUME NEW w \in Numbers, NEW u \in 0..MaxNow
    PROVE  /\ Plus(Entry(w, u)) = Entry(Plus(w), u) /\ Plus(w).len = w.len /\ Plus(w).type = w.type
           /\ Plus(w).data = <<1 - w.data[1]>>
<1>1. w \in Scalar /\ w = [type |-> w.type, data |-> w.data, len |-> w.len]
  BY SharedDictAssumption DEF Numbers
<1>2. PICK x : x = <<1 - w.data[1]>>
  OBVIOUS
<1>3. Plus(w) = [type |-> w.type, data |-> x, len |-> w.len]
  BY <1>1, <1>2 DEF Plus
<1>4. /\ Entry(w, u) = [type |-> w.type, data |-> w.data, len |-> w.len, expires |-> u]
      /\ Entry(w, u).data = w.data
  BY DEF Entry
<1>5. Plus(Entry(w, u)) = [type |-> w.type, data |-> x, len |-> w.len, expires |-> u]
  BY <1>2, <1>4 DEF Plus
<1>6. Plus(w).type = w.type /\ Plus(w).data = x /\ Plus(w).len = w.len
  BY <1>3
<1> QED
  BY <1>2, <1>5, <1>6 DEF Entry

LEMMA IncrStep ==
    ASSUME DictInv, NEW k \in Key, NEW init \in Numbers \cup {Nil}, NEW t \in Deadlines,
           Incr(k, init, t)
    PROVE  Right
<1>1. PICK d : d = LookedUp(Expire1(dict), k)
  OBVIOUS
<1>2. Seen(d, dict, k) /\ Good(d)
  BY <1>1, SeenAfterExpire DEF DictInv, Seen
<1>3. PICK start : start = IF init = Nil THEN Nil ELSE Content(Entry(init, t))
  OBVIOUS
<1>4. \/ /\ Live(d, k) /\ IsNumber(d.entries[k])
         /\ Commit(With(d, k, Plus(d.entries[k])))
         /\ Says("incr", k, start, <<"ok", Value(Plus(d.entries[k]))>>)
      \/ /\ Live(d, k) /\ ~IsNumber(d.entries[k])
         /\ Commit(d) /\ Says("incr", k, start, <<"not a number">>)
      \/ ~Live(d, k) /\ init = Nil /\ Commit(d) /\ Says("incr", k, start, <<"not found">>)
      \/ /\ ~Live(d, k) /\ init # Nil
         /\ Stores("incr", d, k, Entry(init, t), FALSE, <<"ok", Value(init)>>)
  BY <1>1, <1>3 DEF Incr
<1>5. start \in C!Starts \cup {Nil}
  BY <1>3, ValueIs DEF Numbers
<1>6. CASE ~Live(d, k) /\ init # Nil
  <2>1. init \in Scalar /\ init.type = "number"
    BY <1>6 DEF Numbers
  <2>2. FALSE <=> "incr" \in {"safe_set", "safe_add"}
    OBVIOUS
  <2>3. start = Content(Entry(init, t)) /\ start \in C!Starts /\ start.val = Value(init)
    BY <1>3, <1>6, <2>1, ValueIs
  <2>4. /\ DictInv' /\ C!Calls("incr", k)
        /\ C!Stores("incr", k, Content(Entry(init, t)), <<"ok", Value(init)>>)
    BY <1>2, <1>4, <1>6, <2>1, <2>2, StoreStep
  <2>5. k \notin DOMAIN Current
    BY <1>2, <1>6, MissedIs
  <2>6. C!Stores("incr", k, start, <<"ok", start.val>>)
    BY <2>3, <2>4
  <2>7. C!Incr(k)
    BY <2>3, <2>4, <2>5, <2>6 DEF C!Incr
  <2> QED
    BY <2>4, <2>7, NextIfKey DEF Right, C!Operation
<1>7. CASE Live(d, k) /\ IsNumber(d.entries[k])
  <2>1. /\ k \in DOMAIN d.entries /\ d.entries[k].type = "number" /\ Live(dict, k) /\ Sound(d)
        /\ d.entries[k] \in Entries
    BY <1>2, <1>7, FoundIs DEF IsNumber, Seen, Good
  <2>2. PICK w \in Scalar, u \in 0..MaxNow : d.entries[k] = Entry(w, u)
    <3>2. d.entries[k] \in ScalarEntries
      BY <2>1 DEF Entries, ListEntries
    <3> QED
      BY <3>2 DEF ScalarEntries
  <2>3. /\ w \in Numbers /\ d.entries[k].type = w.type /\ d.entries[k].len = w.len
        /\ d.entries[k].data = w.data /\ d.entries[k].expires = u
    BY <2>1, <2>2, EntryIs DEF Numbers
  <2>4. PICK n \in Scalar : n = Plus(w)
    BY <2>3, SharedDictAssumption
  <2>5. PICK e : e = Entry(n, u)
    OBVIOUS
  <2>6. e = Plus(d.entries[k]) /\ n.len = w.len /\ n.type = "number" /\ n.data = <<1 - w.data[1]>>
    BY <2>1, <2>2, <2>3, <2>4, <2>5, PlusIs
  <2>7. /\ e \in Entries /\ e.type = "number" /\ e.len = w.len
        /\ e.data = n.data /\ e.expires = u
    <3>1. /\ Entry(n, u) \in Entries /\ Entry(n, u).type = n.type /\ Entry(n, u).len = n.len
          /\ Entry(n, u).data = n.data /\ Entry(n, u).expires = u
      BY EntryIs
    <3> QED
      BY <2>5, <2>6, <3>1
  <2>8. PICK c : c = With(d, k, e)
    OBVIOUS
  <2>9. Commit(c) /\ Says("incr", k, start, <<"ok", Value(e)>>)
    BY <1>4, <1>7, <2>6, <2>8
  <2>10. Changed(c, d, k, e)
    <3>1. c.entries = [d.entries EXCEPT ![k] = e] /\ c.lru = d.lru /\ c.used = d.used
      BY <2>8 DEF With
    <3>2. SizeOf(d.entries[k]) = w.len /\ SizeOf(e) = w.len
      BY <2>1, <2>3, <2>7 DEF SizeOf
    <3>3. d.used \in 0..Capacity /\ w.len \in Nat
      BY <2>1, SharedDictAssumption DEF Sound
    <3> QED
      BY <3>1, <3>2, <3>3, SharedDictAssumption DEF Changed
  <2>11. Whole(d, {k}) /\ ListOk(e)
    BY <1>2, <2>7 DEF Good, Whole, ListOk
  <2>12. Sound(c) /\ DOMAIN c.entries = DOMAIN d.entries /\ c.entries[k] = e
    <3>1. Sound(c)
      BY <2>1, <2>7, <2>10, <2>11, ChangeRight
    <3> QED
      BY <2>1, <2>10, <3>1, SoundFacts DEF Changed
  <2>13. Good(c)
    BY <2>1, <2>7, <2>10, <2>11, <2>12, ChangeRight DEF Good
  <2>14. Front(d, dict, k) => Front(c, dict, k)
    BY <2>1, <2>7, <2>10, <2>11, ChangeRight
  <2>15. Live(c, k)
    BY <1>7, <2>1, <2>3, <2>7, <2>12 DEF Live, Has, Expired
  <2>16. DictInv' /\ C!Put(k, Content(c.entries[k]))
    BY <1>2, <2>1, <2>9, <2>12, <2>13, <2>14, <2>15, ChangedStep
  <2>17. /\ k \in DOMAIN Current /\ Current[k] = Content(d.entries[k]) /\ C!IsNumber(k)
         /\ Current[k].val = [type |-> "number", data |-> w.data]
    BY <1>2, <1>7, <2>1, <2>3, FoundIs DEF Value
  <2>18. Value(e) = C!Plus(Current[k].val)
    <3>1. C!Plus([type |-> "number", data |-> w.data]) = [type |-> "number", data |-> <<1 - w.data[1]>>]
      BY DEF C!Plus
    <3> QED
      BY <2>6, <2>7, <2>17, <3>1 DEF Value
  <2>19. Content(c.entries[k]) = [Current[k] EXCEPT !.val = C!Plus(@)]
    <3>1. Current[k] = [val |-> Value(d.entries[k]), deadline |-> u]
      BY <2>3, <2>17 DEF Content
    <3>2. Content(c.entries[k]) = [val |-> Value(e), deadline |-> u]
      BY <2>7, <2>12 DEF Content
    <3> QED
      BY <2>18, <3>1, <3>2
  <2>20. C!Calls("incr", k) /\ C!Says(start, <<"ok", C!Plus(Current[k].val)>>)
    BY <2>9, <2>18, Told
  <2>21. C!Incr(k)
    BY <1>5, <2>16, <2>17, <2>19, <2>20 DEF C!Incr
  <2> QED
    BY <2>16, <2>21, NextIfKey DEF Right, C!Operation
<1>8. CASE Live(d, k) /\ ~IsNumber(d.entries[k])
  <2>1. DictInv' /\ C!Use(k)
    BY <1>2, <1>4, <1>8, SeenStep
  <2>2. C!Calls("incr", k) /\ C!Says(start, <<"not a number">>) /\ ~C!IsNumber(k)
    BY <1>2, <1>4, <1>8, Told, FoundIs
  <2>3. C!Incr(k)
    BY <1>5, <2>1, <2>2 DEF C!Incr
  <2> QED
    BY <2>1, <2>3, NextIfKey DEF Right, C!Operation
<1>9. CASE ~Live(d, k) /\ init = Nil
  <2>1. DictInv' /\ C!Misses(k)
    BY <1>2, <1>4, <1>9, SeenStep
  <2>2. C!Calls("incr", k) /\ C!Says(Nil, <<"not found">>)
    BY <1>3, <1>4, <1>9, Told
  <2>3. C!Incr(k)
    BY <2>1, <2>2 DEF C!Incr
  <2> QED
    BY <2>1, <2>3, NextIfKey DEF Right, C!Operation
<1> QED
  BY <1>6, <1>7, <1>8, <1>9

LEMMA PopStep ==
    ASSUME DictInv, NEW k \in Key, NEW left, Pop(k, left)
    PROVE  Right
<1>1. PICK d : d = LookedUp(Expire1(dict), k)
  OBVIOUS
<1>2. Seen(d, dict, k) /\ Good(d)
  BY <1>1, SeenAfterExpire DEF DictInv, Seen
<1>3. PICK s, op : /\ s = d.entries[k].data /\ op = IF left THEN "lpop" ELSE "rpop"
  OBVIOUS
<1>4. PICK rest, x : /\ rest = IF left THEN Tail(s) ELSE SubSeq(s, 1, Len(s) - 1)
                     /\ x = IF left THEN s[1] ELSE s[Len(s)]
  OBVIOUS
<1>5. \/ ~Live(d, k) /\ Commit(d) /\ Says(op, k, <<>>, <<"none">>)
      \/ Live(d, k) /\ ~IsList(d, k) /\ Commit(d) /\ Says(op, k, <<>>, <<"not a list">>)
      \/ /\ Live(d, k) /\ IsList(d, k)
         /\ Commit(IF d.entries[k].len = 1 THEN Free(d, {k})
                   ELSE [Listing(d, k, rest, d.entries[k].len - 1) EXCEPT !.used = @ - 1])
         /\ Says(op, k, <<>>, <<"value", x>>)
  BY <1>1, <1>3, <1>4 DEF Pop
<1>6. op \in {"lpop", "rpop"} /\ (left <=> op = "lpop")
  BY <1>3
<1>7. CASE ~Live(d, k)
  <2>1. DictInv' /\ C!Misses(k)
    BY <1>2, <1>5, <1>7, SeenStep
  <2>2. C!Calls(op, k) /\ C!Says(<<>>, <<"none">>)
    BY <1>5, <1>7, Told
  <2>3. C!Pop(k, op)
    BY <2>1, <2>2 DEF C!Pop
  <2> QED
    BY <1>6, <2>1, <2>3, NextIfKey DEF Right, C!Operation
<1>8. CASE Live(d, k) /\ ~IsList(d, k)
  <2>1. DictInv' /\ C!Use(k) /\ ~C!IsList(k)
    BY <1>2, <1>5, <1>8, SeenStep, FoundIs
  <2>2. C!Calls(op, k) /\ C!Says(<<>>, <<"not a list">>)
    BY <1>5, <1>8, Told
  <2>3. C!Pop(k, op)
    BY <2>1, <2>2 DEF C!Pop
  <2> QED
    BY <1>6, <2>1, <2>3, NextIfKey DEF Right, C!Operation
<1>9. ASSUME Live(d, k) /\ IsList(d, k)
      PROVE  /\ k \in DOMAIN Current /\ Current[k] = Content(d.entries[k])
             /\ C!IsList(k) /\ Current[k].val.data = s
             /\ C!Calls(op, k) /\ C!Says(<<>>, <<"value", x>>)
             /\ d.entries[k].len = Len(s) /\ x = IF op = "lpop" THEN s[1] ELSE s[Len(s)]
             /\ rest = IF op = "lpop" THEN Tail(s) ELSE SubSeq(s, 1, Len(s) - 1)
  <2>1. /\ k \in DOMAIN Current /\ Current[k] = Content(d.entries[k])
        /\ C!IsList(k) /\ Current[k].val.data = s
    BY <1>2, <1>3, <1>9, FoundIs
  <2>2. d.entries[k].len = Len(s)
    BY <1>2, <1>3, <1>9, FoundIs DEF ListOk, IsList
  <2>3. C!Calls(op, k) /\ C!Says(<<>>, <<"value", x>>)
    BY <1>5, <1>9, Told
  <2> QED
    BY <1>4, <1>6, <2>1, <2>2, <2>3
<1>10. CASE Live(d, k) /\ IsList(d, k) /\ d.entries[k].len = 1
  <2>1. Commit(Free(d, {k})) /\ k \in DOMAIN d.entries
    BY <1>5, <1>10 DEF Live, Has
  <2>2. DictInv' /\ C!Remove(k)
    BY <1>2, <2>1, FreedStep
  <2>3. C!Pop(k, op)
    BY <1>9, <1>10, <2>2 DEF C!Pop
  <2> QED
    BY <1>6, <2>2, <2>3, NextIfKey DEF Right, C!Operation
<1>11. CASE Live(d, k) /\ IsList(d, k) /\ d.entries[k].len # 1
  <2>3. PICK b : b = Listing(d, k, rest, d.entries[k].len - 1)
    OBVIOUS
  <2>4. PICK c : Sized(c, b, b.used - 1)
    BY DEF Sized
  <2>5. Commit(c)
    <3>1. Commit([b EXCEPT !.used = @ - 1])
      BY <1>5, <1>11, <2>3
    <3> QED
      BY <2>4, <3>1 DEF Sized
  <2>6. k \in DOMAIN d.entries /\ Live(dict, k) /\ Sound(d) /\ Whole(d, {k}) /\ ListOk(d.entries[k])
    BY <1>2, <1>11 DEF Live, Has, Seen, Good, Whole
  <2>7. s \in Seq(Element) /\ Len(s) \in Nat /\ d.entries[k].len = Len(s) /\ Len(s) > 1
    BY <1>11, <1>3, <2>6, ListFacts DEF ListOk, IsList
  <2>8. rest \in Seq(Element) /\ Len(rest) = Len(s) - 1 /\ rest # <<>>
    BY <1>4, <2>7, Shorter
  <2>9. b = Listing(d, k, rest, Len(rest))
    BY <2>3, <2>7, <2>8
  <2>10. /\ c.entries = Listing(d, k, rest, Len(rest)).entries
         /\ c.lru = d.lru /\ c.used = d.used - 1
    <3>1. b.lru = d.lru /\ b.used = d.used
      BY <2>9 DEF Listing, With
    <3> QED
      BY <2>4, <2>9, <3>1, SizedIs
  <2>11. c.used = d.used + Len(rest) - Len(d.entries[k].data) /\ c.used <= Capacity
    <3>1. d.used \in 0..Capacity /\ d.used \in Nat
      BY <2>6, SoundFacts DEF Sound
    <3>2. PICK m \in Nat, n \in Nat : m = Len(rest) /\ n = Len(s) /\ m = n - 1
      BY <2>7, <2>8
    <3>3. c.used = d.used + m - n
      BY <2>10, <3>1, <3>2
    <3> QED
      BY <1>3, <2>10, <3>1, <3>2, <3>3, SharedDictAssumption
  <2>19. Listed(c, d, k, rest)
    BY <2>10, <2>11 DEF Listed
  <2>12. /\ Good(c) /\ DOMAIN c.entries = DOMAIN d.entries
         /\ c.entries[k] = [d.entries[k] EXCEPT !.data = rest, !.len = Len(rest)]
    <3>1. IsList(d, k) /\ Sound(d) /\ Whole(d, {k}) /\ k \in DOMAIN d.entries
      BY <1>11, <2>6
    <3>2. Good(c)
      BY <2>8, <2>19, <3>1, ListingRight
    <3> QED
      BY <2>6, <2>10, <3>2, SoundFacts DEF Listing, With
  <2>13. Front(d, dict, k) => Front(c, dict, k)
    BY <1>11, <2>6, <2>8, <2>19, ListingRight
  <2>14. /\ c.entries[k].type = "list" /\ c.entries[k].data = rest
         /\ c.entries[k].expires = d.entries[k].expires
    <3>1. d.entries[k] \in ListEntries /\ Len(rest) \in Nat
      BY <1>11, <2>6, <2>8, ListFacts, LenProperties
    <3>2. Relisted(c.entries[k], d.entries[k], rest, Len(rest))
      BY <2>12 DEF Relisted
    <3> QED
      BY <2>8, <3>1, <3>2, ListChanged
  <2>15. Live(c, k)
    BY <1>11, <2>6, <2>12, <2>14 DEF Live, Has, Expired
  <2>16. DictInv' /\ C!Put(k, Content(c.entries[k]))
    BY <1>2, <2>5, <2>6, <2>12, <2>13, <2>15, ChangedStep
  <2>17. Content(c.entries[k]) = [Current[k] EXCEPT !.val = C!List(rest)]
    <3>1. Current[k] = [val |-> Value(d.entries[k]), deadline |-> d.entries[k].expires]
      BY <1>9, <1>11 DEF Content
    <3>2. Content(c.entries[k]) = [val |-> C!List(rest), deadline |-> d.entries[k].expires]
      BY <2>14 DEF Content, Value, C!List
    <3> QED
      BY <3>1, <3>2
  <2>18. C!Pop(k, op)
    <3>1. Len(s) # 1
      BY <1>11, <2>7
    <3> QED
      BY <1>9, <1>11, <2>16, <2>17, <3>1 DEF C!Pop
  <2> QED
    BY <1>6, <2>16, <2>18, NextIfKey DEF Right, C!Operation
<1> QED
  BY <1>7, <1>8, <1>10, <1>11

\* The entries of L used more recently than k
Before(S, L, d, k) == S = {i \in L : <<i, k>> \in d.lru.before}

\* The order of an item that is brought back
LEMMA BackInOrder ==
    ASSUME NEW d, Sound(d), NEW k \in DOMAIN d.entries, NEW L, L \subseteq DOMAIN d.entries \ {k},
           NEW S, Before(S, L, d, k)
    PROVE  /\ \A i \in L, j \in S : <<i, j>> \in d.lru.before => i \in S
           /\ \A i \in L : <<k, i>> \in d.lru.before <=> i \notin S
<1>1. d.lru.items = DOMAIN d.entries /\ WellFormed(d.lru)
  BY DEF Sound
<1>2. /\ \A x, y \in DOMAIN d.entries :
             x # y => <<x, y>> \in d.lru.before \/ <<y, x>> \in d.lru.before
      /\ \A x, y \in DOMAIN d.entries : ~(<<x, y>> \in d.lru.before /\ <<y, x>> \in d.lru.before)
      /\ \A x, y, z \in DOMAIN d.entries :
             <<x, y>> \in d.lru.before /\ <<y, z>> \in d.lru.before => <<x, z>> \in d.lru.before
  BY <1>1 DEF WellFormed
<1> QED
  BY <1>2 DEF Before

LEMMA SetExpireStep ==
    ASSUME DictInv, NEW k \in Key, NEW t \in Deadlines, SetExpire(k, t)
    PROVE  Right
<1>0. Good(dict) /\ Sound(dict) /\ t \in 0..MaxNow
  BY SharedDictAssumption DEF DictInv, Good, Deadlines, Never
<1>3. PICK answer : /\ answer = IF Has(dict, k) THEN <<"ok">> ELSE <<"not found">>
                    /\ C!Calls("expire", k) /\ C!Says(t, answer)
  BY Told DEF SetExpire
<1>1. CASE ~Has(dict, k)
  <2>1. Commit(dict)
    BY <1>1 DEF SetExpire
  <2>2. DictInv' /\ NextIs(dict) /\ Left(dict, dict)
    <3>1. PICK c : c = dict
      OBVIOUS
    <3>2. DictInv' /\ NextIs(c)
      BY <1>0, <2>1, <3>1, Commits
    <3> QED
      BY <1>0, <3>1, <3>2, LeftSelf DEF NextIs
  <2>3. C!Reap
    <3>1. PICK c : c = dict
      OBVIOUS
    <3>2. NextIs(c) /\ Left(c, dict) /\ Sound(c) /\ \A j \in LiveKeys(dict) : j \in DOMAIN c.entries
      BY <1>0, <2>2, <3>1 DEF NextIs, LiveKeys
    <3> QED
      BY <1>0, <3>2, LeftReaps
  <2>4. k \notin DOMAIN Current /\ k \notin DOMAIN Past
    BY <1>1 DEF Current, Past, Readable, Has, dict
  <2>5. t \in C!Deadlines
    BY DEF DictInv, Deadlines, Never, C!Deadlines, C!Never
  <2>6. C!Expire(k)
    BY <1>1, <1>3, <2>3, <2>4, <2>5 DEF C!Expire, C!Misses
  <2> QED
    BY <2>2, <2>6, NextIfKey DEF Right, C!Operation
<1>2. CASE Has(dict, k)
  <2>1. PICK c : c = Dated(dict, k, t)
    OBVIOUS
  <2>2. k \in DOMAIN dict.entries /\ Commit(c)
    BY <1>2, <2>1 DEF SetExpire, Has
  <2>3. /\ Good(c) /\ DOMAIN c.entries = DOMAIN dict.entries /\ c.lru = dict.lru
        /\ \A j \in DOMAIN dict.entries \ {k} : c.entries[j] = dict.entries[j]
        /\ Content(c.entries[k]) = [Content(dict.entries[k]) EXCEPT !.deadline = t]
        /\ c.entries[k].expires = t
    BY <1>0, <2>1, <2>2, DatedRight
  <2>4. DictInv' /\ Sound(c) /\ NextIs(c)
    BY <2>2, <2>3, Commits
  <2>5. View(dict, Current, Order, Past) /\ View(c, Current', Order', Past')
    BY <1>0, <2>4, ViewNow, ViewNext
  <2>6. Live(c, k) /\ t \in C!Deadlines /\ now' = now
    BY <2>2, <2>3, <2>4, LiveAt DEF NextIs
  <2>7. LiveKeys(c) = LiveKeys(dict) \cup {k}
    <3>1. \A j \in DOMAIN c.entries \ {k} : Live(c, j) <=> Live(dict, j)
      BY <2>3, SameLive
    <3> QED
      BY <2>2, <2>3, <2>6, <3>1 DEF LiveKeys
  <2>8. CASE k \in LiveKeys(dict)
    <3>1. Current' = [Current EXCEPT ![k] = C!Until(Current[k], t)]
      <4>1. Current[k] = Content(dict.entries[k])
        BY <2>5, <2>8 DEF View
      <4>2. C!Until(Current[k], t) = Content(c.entries[k])
        BY <2>3, <4>1 DEF C!Until
      <4>3. LiveKeys(c) = LiveKeys(dict)
        BY <2>7, <2>8
      <4>4. \A j \in LiveKeys(dict) \ {k} : c.entries[j] = dict.entries[j]
        BY <2>3 DEF LiveKeys
      <4> QED
        BY <2>5, <4>2, <4>3, <4>4 DEF View
    <3>2. Past' = Past
      <4>1. \A j \in DOMAIN dict.entries \ LiveKeys(dict) : c.entries[j] = dict.entries[j]
        BY <2>3, <2>8
      <4>2. DOMAIN c.entries \ LiveKeys(c) = DOMAIN dict.entries \ LiveKeys(dict)
        BY <2>3, <2>7, <2>8
      <4> QED
        BY <2>5, <4>1, <4>2 DEF View
    <3>3. Order' = Order
      <4>1. \A i, j : <<i, j>> \in Order' <=> <<i, j>> \in Order
        BY <2>3, <2>5, <2>7, <2>8 DEF View
      <4>2. Order \subseteq Key \X Key /\ Order' \subseteq Key \X Key
        BY <2>5 DEF View
      <4> QED
        BY <4>1, <4>2, SamePairs
    <3>4. k \in DOMAIN Current
      BY <2>5, <2>8 DEF View
    <3>5. C!Expire(k)
      BY <1>2, <1>3, <2>6, <3>1, <3>2, <3>3, <3>4 DEF C!Expire
    <3> QED
      BY <2>4, <3>5, NextIfKey DEF Right, C!Operation
  <2>9. CASE k \notin LiveKeys(dict)
    <3> DEFINE S == {i \in LiveKeys(dict) : <<i, k>> \in dict.lru.before}
    <3>1. /\ \A i \in LiveKeys(dict), j \in S : <<i, j>> \in dict.lru.before => i \in S
          /\ \A i \in LiveKeys(dict) : <<k, i>> \in dict.lru.before <=> i \notin S
      <4>1. LiveKeys(dict) \subseteq DOMAIN dict.entries \ {k}
        BY <2>9 DEF LiveKeys
      <4>2. Before(S, LiveKeys(dict), dict, k)
        BY DEF Before
      <4> HIDE DEF S
      <4> QED
        BY <1>0, <2>2, <4>1, <4>2, BackInOrder
    <3>2. DOMAIN Current = LiveKeys(dict) /\ S \subseteq LiveKeys(dict)
      BY <2>5 DEF View
    <3>3. S \in C!Newest(DOMAIN Current)
      <4>1. \A i \in DOMAIN Current, j \in S : <<i, j>> \in Order => i \in S
        BY <2>5, <3>1, <3>2 DEF View
      <4> HIDE DEF S
      <4> QED
        BY <3>2, <4>1 DEF C!Newest
    <3>4. k \in DOMAIN Past /\ Past[k] = Content(dict.entries[k])
      BY <2>2, <2>5, <2>9 DEF View
    <3>5. Order' = Order \cup (S \X {k}) \cup ({k} \X (DOMAIN Current \ S))
      <4>1. \A i, j : <<i, j>> \in Order' <=>
                \/ <<i, j>> \in Order
                \/ i \in S /\ j = k
                \/ i = k /\ j \in LiveKeys(dict) \ S
        <5>1. \A i, j : <<i, j>> \in Order' <=>
                /\ <<i, j>> \in dict.lru.before
                /\ i \in LiveKeys(dict) \cup {k} /\ j \in LiveKeys(dict) \cup {k}
          BY <2>3, <2>5, <2>7 DEF View
        <5>2. <<k, k>> \notin dict.lru.before
          BY <1>0, SoundFacts
        <5>3. \A i : i \in S <=> i \in LiveKeys(dict) /\ <<i, k>> \in dict.lru.before
          OBVIOUS
        <5> HIDE DEF S
        <5> QED
          BY <2>5, <3>1, <5>1, <5>2, <5>3 DEF View
      <4> DEFINE Q == Order \cup (S \X {k}) \cup ({k} \X (DOMAIN Current \ S))
      <4>2. S \subseteq Key /\ DOMAIN Current \subseteq Key /\ k \in Key
        BY <1>0, <3>2, SoundFacts DEF LiveKeys
      <4> HIDE DEF S
      <4>3. Q \subseteq Key \X Key /\ Order' \subseteq Key \X Key
        BY <2>5, <4>2 DEF View
      <4>4. \A i, j : <<i, j>> \in Q <=>
                \/ <<i, j>> \in Order
                \/ i \in S /\ j = k
                \/ i = k /\ j \in LiveKeys(dict) \ S
        BY <3>2
      <4>5. \A i, j : <<i, j>> \in Order' <=> <<i, j>> \in Q
        BY <4>1, <4>4
      <4> HIDE DEF Q
      <4>6. Order' = Q
        BY <4>3, <4>5, SamePairs
      <4> QED
        BY <4>6 DEF Q
    <3>6. Current' = [j \in DOMAIN Current \cup {k} |->
                      IF j = k THEN C!Until(Past[k], t) ELSE Current[j]]
      <4>1. C!Until(Past[k], t) = Content(c.entries[k])
        BY <2>3, <3>4 DEF C!Until
      <4>2. \A j \in LiveKeys(dict) : Current[j] = Content(c.entries[j])
        BY <2>3, <2>5, <2>9 DEF View, LiveKeys
      <4> QED
        BY <2>5, <2>7, <2>9, <3>2, <4>1, <4>2 DEF View
    <3>7. Past' = C!OnlyKeys(Past, DOMAIN Past \ {k})
      <4>1. /\ DOMAIN Past \cap (DOMAIN Past \ {k}) = DOMAIN c.entries \ LiveKeys(c)
        BY <2>3, <2>5, <2>7 DEF View
      <4>2. \A j \in DOMAIN c.entries \ LiveKeys(c) : Past[j] = Content(c.entries[j])
        BY <2>3, <2>5, <2>7 DEF View
      <4> QED
        BY <2>5, <4>1, <4>2 DEF View, C!OnlyKeys
    <3>8. C!Expire(k)
      <4> HIDE DEF S
      <4> QED
        BY <1>2, <1>3, <2>6, <3>3, <3>4, <3>5, <3>6, <3>7 DEF C!Expire
    <3> QED
      BY <2>4, <3>8, NextIfKey DEF Right, C!Operation
  <2> QED
    BY <2>8, <2>9
<1> QED
  BY <1>1, <1>2

\* The entries of c are those of d until long ago
LongGone(c, d) ==
    /\ DOMAIN c.entries = DOMAIN d.entries /\ c.lru = d.lru /\ c.used = d.used
    /\ c.entries = [k \in DOMAIN d.entries |-> c.entries[k]]
    /\ \A k \in DOMAIN d.entries : Aged(c.entries[k], d.entries[k], LongAgo)

LEMMA FlushedRight ==
    ASSUME NEW d, Good(d), NEW c, LongGone(c, d)
    PROVE  /\ Good(c)
           /\ \A k \in DOMAIN d.entries : /\ Content(c.entries[k]).deadline = LongAgo
                                          /\ Content(c.entries[k]).val = Content(d.entries[k]).val
<1>1. LongAgo \in 0..MaxNow
  BY SharedDictAssumption DEF LongAgo
<1>2. /\ Tree(d.entries) /\ d.lru \in QueuesOver(Key) /\ WellFormed(d.lru)
      /\ d.lru.items = DOMAIN d.entries
      /\ d.used = Cardinality(Units(d.entries)) /\ d.used \in 0..Capacity
  BY DEF Good, Sound
<1>3. \A k \in DOMAIN d.entries : d.entries[k] \in Entries /\ ListOk(d.entries[k])
  BY SoundFacts DEF Good, Whole
<1>4. \A k \in DOMAIN d.entries :
          /\ c.entries[k] \in Entries /\ SizeOf(c.entries[k]) = SizeOf(d.entries[k])
          /\ ListOk(c.entries[k]) /\ c.entries[k].expires = LongAgo
          /\ c.entries[k].type = d.entries[k].type /\ c.entries[k].data = d.entries[k].data
  <2> SUFFICES ASSUME NEW k \in DOMAIN d.entries
               PROVE  /\ c.entries[k] \in Entries /\ SizeOf(c.entries[k]) = SizeOf(d.entries[k])
                      /\ ListOk(c.entries[k]) /\ c.entries[k].expires = LongAgo
                      /\ c.entries[k].type = d.entries[k].type
                      /\ c.entries[k].data = d.entries[k].data
    OBVIOUS
  <2>1. PICK e, f : /\ e \in Entries /\ e = d.entries[k] /\ f = c.entries[k]
                     /\ Aged(f, e, LongAgo)
    BY <1>3 DEF LongGone
  <2>2. /\ f \in Entries /\ SizeOf(f) = SizeOf(e) /\ f.expires = LongAgo
        /\ f.type = e.type /\ f.data = e.data /\ (ListOk(e) => ListOk(f))
    BY <1>1, <2>1, AgedRight
  <2> QED
    BY <1>3, <2>1, <2>2
<1>5. DOMAIN c.entries = DOMAIN d.entries /\ c.lru = d.lru /\ c.used = d.used
  BY DEF LongGone
<1>6. Tree(c.entries)
  <2>1. c.entries \in [DOMAIN c.entries -> Entries]
    BY <1>4, <1>5 DEF LongGone
  <2> QED
    BY <1>2, <1>5, <2>1 DEF Tree
<1>7. Units(c.entries) = Units(d.entries)
  <2> DEFINE A == Units(c.entries)
             B == Units(d.entries)
  <2>1. \A u : u \in A <=> \E k \in DOMAIN c.entries : \E i \in 1..SizeOf(c.entries[k]) : u = <<k, i>>
    BY UnitsMember
  <2>2. \A u : u \in B <=> \E k \in DOMAIN d.entries : \E i \in 1..SizeOf(d.entries[k]) : u = <<k, i>>
    BY UnitsMember
  <2> HIDE DEF A, B
  <2>3. A = B
    BY <1>4, <1>5, <2>1, <2>2
  <2> QED
    BY <2>3 DEF A, B
<1>8. Sound(c)
  BY <1>2, <1>5, <1>6, <1>7 DEF Sound
<1>9. Whole(c, {})
  BY <1>4, <1>5 DEF Whole
<1>10. \A k \in DOMAIN d.entries : /\ Content(c.entries[k]).deadline = LongAgo
                                   /\ Content(c.entries[k]).val = Content(d.entries[k]).val
  <2> SUFFICES ASSUME NEW k \in DOMAIN d.entries
               PROVE  /\ Content(c.entries[k]).deadline = LongAgo
                      /\ Content(c.entries[k]).val = Content(d.entries[k]).val
    OBVIOUS
  <2>1. Value(c.entries[k]) = Value(d.entries[k]) /\ c.entries[k].expires = LongAgo
    BY <1>4 DEF Value
  <2> QED
    BY <2>1 DEF Content
<1> QED
  BY <1>8, <1>9, <1>10 DEF Good

LEMMA FlushAllStep ==
    ASSUME DictInv, FlushAll
    PROVE  Right
<1>0. Good(dict) /\ Sound(dict)
  BY DEF DictInv, Good
<1>1. PICK b : b = Flushed(dict)
  OBVIOUS
<1>2. LongGone(b, dict)
  <2>1. /\ b.entries = [k \in DOMAIN dict.entries |-> [dict.entries[k] EXCEPT !.expires = LongAgo]]
        /\ b.lru = dict.lru /\ b.used = dict.used
    BY <1>1 DEF Flushed
  <2>2. \A k \in DOMAIN dict.entries : b.entries[k] = [dict.entries[k] EXCEPT !.expires = LongAgo]
    BY <2>1
  <2> QED
    BY <2>1, <2>2 DEF LongGone, Aged
<1>3. /\ Good(b) /\ DOMAIN b.entries = DOMAIN dict.entries
      /\ \A k \in DOMAIN dict.entries : /\ Content(b.entries[k]).deadline = LongAgo
                                        /\ Content(b.entries[k]).val = Content(dict.entries[k]).val
  BY <1>0, <1>2, FlushedRight DEF LongGone
<1>4. PICK c : c = Expire0(b)
  OBVIOUS
<1>5. Good(c) /\ Left(c, b) /\ Commit(c)
  BY <1>1, <1>3, <1>4, Expire0Right DEF FlushAll, Evicted
<1>6. DictInv' /\ Sound(c) /\ NextIs(c)
  BY <1>5, Commits
<1>7. View(dict, Current, Order, Past) /\ View(c, Current', Order', Past')
  BY <1>0, <1>6, ViewNow, ViewNext
<1>8. \A k \in DOMAIN c.entries : /\ k \in DOMAIN dict.entries
                                  /\ Content(c.entries[k]).deadline = LongAgo
                                  /\ Content(c.entries[k]).val = Content(dict.entries[k]).val
  BY <1>3, <1>5 DEF Left
<1>9. LiveKeys(c) = {}
  <2>1. \A k \in DOMAIN c.entries : c.entries[k].expires = 1
    BY <1>8 DEF Content, LongAgo
  <2>2. now \in Nat /\ 1 <= now
    BY SharedDictAssumption DEF DictInv
  <2>3. \A k \in DOMAIN c.entries : ~Live(c, k)
    BY <2>1, <2>2 DEF Live, Expired, Never
  <2> QED
    BY <2>3 DEF LiveKeys
<1>10. C!Keep({})
  <2>1. Current' = C!OnlyKeys(Current, {})
    BY <1>7, <1>9 DEF View, C!OnlyKeys
  <2>2. Order' = C!Among({})
    <3>1. \A i, j : <<i, j>> \notin Order' /\ <<i, j>> \notin C!Among({})
      BY <1>7, <1>9 DEF View, C!Among
    <3>2. Order' \subseteq Key \X Key /\ C!Among({}) \subseteq Key \X Key
      BY <1>7 DEF View, C!Among
    <3> QED
      BY <3>1, <3>2, SamePairs
  <2> QED
    BY <2>1, <2>2 DEF C!Keep
<1>11. \E S \in SUBSET (DOMAIN Current \cup DOMAIN Past) :
          Past' = [k \in S |-> C!Until(IF k \in DOMAIN Current THEN Current[k] ELSE Past[k], 1)]
  <2> DEFINE S == DOMAIN c.entries
  <2>1. S \subseteq DOMAIN Current \cup DOMAIN Past
    BY <1>7, <1>8 DEF View, LiveKeys
  <2>2. \A k \in S : (IF k \in DOMAIN Current THEN Current[k] ELSE Past[k]) = Content(dict.entries[k])
    BY <1>7, <1>8 DEF View
  <2>3. \A k \in S : Content(c.entries[k]) = C!Until(Content(dict.entries[k]), 1)
    <3>1. \A e : Content(e) = [val |-> Content(e).val, deadline |-> Content(e).deadline]
      BY DEF Content
    <3>2. \A e : C!Until(Content(e), 1) = [val |-> Content(e).val, deadline |-> 1]
      BY DEF Content, C!Until
    <3> QED
      BY <1>8, <3>1, <3>2 DEF LongAgo
  <2>4. Past' = [k \in S |-> Content(c.entries[k])]
    BY <1>7, <1>9 DEF View
  <2>5. Past' = [k \in S |-> C!Until(IF k \in DOMAIN Current THEN Current[k] ELSE Past[k], 1)]
    BY <2>2, <2>3, <2>4
  <2> QED
    BY <2>1, <2>5
<1>13. C!Calls("flush_all", Nil) /\ C!Says(<<>>, <<"ok">>)
  BY Told DEF FlushAll
<1>12. C!FlushAll
  BY <1>6, <1>10, <1>11, <1>13 DEF C!FlushAll, NextIs
<1> QED
  BY <1>6, <1>12 DEF Right, C!Next

\* The number of elements of a set
LEMMA SameCount == \A S : C!Cardinality(S) = Cardinality(S)
  BY DEF C!Cardinality, Cardinality

LEMMA FlushExpiredStep ==
    ASSUME DictInv, NEW max \in Limits, FlushExpired(max)
    PROVE  Right
<1>0. Good(dict) /\ Sound(dict)
  BY DEF DictInv, Good
<1> DEFINE E == {k \in DOMAIN entries : Expired(dict, k)}
<1>16. PICK n : n = IF max = 0 \/ max > Cardinality(E) THEN Cardinality(E) ELSE max
  OBVIOUS
<1>1. PICK D \in SUBSET E : /\ Cardinality(D) = n /\ Commit(Free(dict, D))
                            /\ Says("flush_expired", Nil, max, <<"freed", n>>)
  BY <1>16, Zenon DEF FlushExpired
<1>2. PICK c : c = Free(dict, D)
  OBVIOUS
<1>3. /\ D \in SUBSET DOMAIN dict.entries /\ D \cap LiveKeys(dict) = {}
      /\ DOMAIN dict.entries \ LiveKeys(dict) = E
  BY <1>1 DEF dict, LiveKeys, Live, Has
<1>4. Sound(c) /\ Left(c, dict) /\ DOMAIN c.entries = DOMAIN dict.entries \ D
  BY <1>0, <1>2, <1>3, FreeRight
<1>5. Good(c)
  BY <1>0, <1>4, LeftWhole DEF Good
<1>6. DictInv' /\ NextIs(c)
  BY <1>1, <1>2, <1>5, Commits
<1>7. \A j \in LiveKeys(dict) : j \in DOMAIN c.entries
  BY <1>3, <1>4 DEF LiveKeys
<1>8. C!Reap
  BY <1>0, <1>4, <1>6, <1>7, LeftReaps
<1>9. IsFiniteSet(E) /\ Cardinality(E) \in Nat
  <2>1. IsFiniteSet(DOMAIN entries) /\ E \in SUBSET DOMAIN entries
    BY <1>0 DEF Sound, Tree, dict
  <2> HIDE DEF E
  <2> QED
    BY <2>1, FS_Subset, FS_CardinalityType
<1>10. DOMAIN Past = E /\ DOMAIN Past' = E \ D
  <2>1. View(dict, Current, Order, Past) /\ View(c, Current', Order', Past')
    BY <1>0, <1>4, <1>6, ViewNow, ViewNext
  <2>2. LiveKeys(c) = LiveKeys(dict)
    <3>1. \A j \in DOMAIN c.entries : Live(c, j) <=> Live(dict, j)
      BY <1>4, LeftLive DEF Left
    <3> QED
      BY <1>4, <1>7, <3>1 DEF LiveKeys
  <2> HIDE DEF E
  <2> QED
    BY <1>3, <1>4, <2>1, <2>2 DEF View
<1> HIDE DEF E
<1>11. DOMAIN Past \ DOMAIN Past' = D
  BY <1>10
<1>12. /\ max # 0 => n <= max
       /\ max = 0 \/ n < max => n = Cardinality(E)
  <2>1. max \in Nat
    BY DEF Limits
  <2> QED
    BY <1>9, <1>16, <2>1
<1>13. n = Cardinality(E) => D = E
  BY <1>1, <1>9, FS_Subset
<1>14. C!Calls("flush_expired", Nil) /\ C!Says(max, <<"freed", n>>)
  BY <1>1, Told
<1>15. C!FlushExpired(max)
  <2>1. C!Cardinality(DOMAIN Past \ DOMAIN Past') = n
    BY <1>1, <1>11, SameCount
  <2>2. max = 0 \/ n < max => DOMAIN Past' = {}
    BY <1>10, <1>12, <1>13
  <2> QED
    BY <1>8, <1>12, <1>14, <2>1, <2>2 DEF C!FlushExpired
<1> QED
  BY <1>6, <1>15 DEF Right, C!Next

LEMMA PushReturnStep ==
    ASSUME DictInv, NEW p \in Process, PushReturn(p)
    PROVE  Right
<1>1. UNCHANGED <<now, entries, lru, used, call, result>> /\ pushing' = [pushing EXCEPT ![p] = Nil]
  BY DEF PushReturn
<1>2. dict' = dict
  BY <1>1 DEF dict
<1>3. DictInv'
  BY <1>1, <1>2 DEF DictInv, Good, Sound, Whole
<1>4. UNCHANGED <<now, Current, Order, Past>>
  BY <1>1, <1>2 DEF Current, Order, Past, GetKeys, Readable, Live, Has, Expired
<1> QED
  BY <1>1, <1>3, <1>4 DEF Right, C!vars

LEMMA TickStep ==
    ASSUME DictInv, Tick
    PROVE  Right
<1>0. Good(dict) /\ Sound(dict) /\ now \in 1..MaxNow /\ MaxNow \in Nat
  BY SharedDictAssumption DEF DictInv, Good
<1>1. /\ UNCHANGED <<entries, lru, used, pushing, call, result>> /\ now < MaxNow /\ now' = now + 1
      /\ dict' = dict
  BY DEF Tick, dict
<1>2. DictInv'
  BY <1>0, <1>1 DEF DictInv, Good, Sound, Whole
<1>3. \A k \in DOMAIN entries : entries[k].expires \in 0..MaxNow
  BY <1>0, SoundFacts, EntryFacts DEF dict
<1> DEFINE over == {k \in DOMAIN Current : Current[k].deadline = now + 1}
<1>4. View(dict, Current, Order, Past)
  BY <1>0, ViewNow
<1>5. DOMAIN Current = Readable /\ \A k \in Readable : Current[k] = Content(entries[k])
  BY DEF Current
<1>6. Readable' = Readable \ over
  <2>1. \A k \in DOMAIN entries : Live(dict, k)' <=> Live(dict, k) /\ entries[k].expires # now + 1
    BY <1>0, <1>1, <1>3 DEF Live, Has, Expired, dict, Never
  <2>2. \A k \in Readable : k \in over <=> entries[k].expires = now + 1
    BY <1>5 DEF Content
  <2> HIDE DEF over
  <2> QED
    BY <1>1, <2>1, <2>2 DEF Readable
<1>7. over \subseteq Readable /\ Readable \subseteq DOMAIN entries
  BY <1>5 DEF Readable
<1>8. Current' = C!OnlyKeys(Current, DOMAIN Current \ over)
  <2>1. Current' = [k \in Readable \ over |-> Content(entries[k])]
    BY <1>1, <1>6 DEF Current, Content
  <2>2. DOMAIN Current \cap (DOMAIN Current \ over) = Readable \ over
    BY <1>5
  <2> HIDE DEF over
  <2> QED
    BY <1>5, <2>1, <2>2 DEF C!OnlyKeys
<1>9. Order' = C!Among(DOMAIN Current \ over)
  <2>1. \A k \in DOMAIN entries : k \in Readable <=> ~Expired(dict, k)
    BY DEF Readable, Live, Has, dict
  <2>2. \A k \in DOMAIN entries : k \in Readable' <=> ~Expired(dict, k)'
    BY <1>1 DEF Readable, Live, Has, dict
  <2>3. \A i, j : <<i, j>> \in lru.before => i \in DOMAIN entries /\ j \in DOMAIN entries
    BY <1>0, SoundFacts DEF dict
  <2>4. \A i, j : <<i, j>> \in Order' <=> <<i, j>> \in lru.before /\ i \in Readable' /\ j \in Readable'
    <3>1. Order' = {p \in lru.before : /\ p[1] \notin {k \in DOMAIN entries : Expired(dict, k)'}
                                       /\ p[2] \notin {k \in DOMAIN entries : Expired(dict, k)'}}
      BY <1>1 DEF Order, GetKeys, Remove
    <3>2. \A i, j : <<i, j>> \in Order' <=>
                      /\ <<i, j>> \in lru.before
                      /\ i \notin {k \in DOMAIN entries : Expired(dict, k)'}
                      /\ j \notin {k \in DOMAIN entries : Expired(dict, k)'}
      BY <3>1
    <3> QED
      BY <2>2, <2>3, <3>2
  <2>5. \A i, j : <<i, j>> \in Order <=> <<i, j>> \in lru.before /\ i \in Readable /\ j \in Readable
    <3>1. \A k : k \in LiveKeys(dict) <=> k \in Readable
      BY DEF LiveKeys, Readable, dict
    <3> QED
      BY <1>4, <3>1 DEF View, dict
  <2>6. \A i, j : <<i, j>> \in Order' <=> <<i, j>> \in C!Among(DOMAIN Current \ over)
    <3> HIDE DEF over
    <3> QED
      BY <1>5, <1>6, <2>4, <2>5 DEF C!Among
  <2>7. Order \subseteq Key \X Key /\ Order' \subseteq Key \X Key
        /\ C!Among(DOMAIN Current \ over) \subseteq Key \X Key
    <3>1. lru.before \subseteq Key \X Key
      BY <1>0 DEF Sound, QueuesOver, dict
    <3>2. Order' \subseteq lru'.before
      BY DEF Order, GetKeys, Remove
    <3> QED
      BY <1>1, <1>4, <3>1, <3>2 DEF View, C!Among
  <2> HIDE DEF over
  <2> QED
    BY <2>6, <2>7, SamePairs
<1>10. Past' = [k \in DOMAIN Past \cup over |-> IF k \in over THEN Current[k] ELSE Past[k]]
  <2>1. Past' = [k \in DOMAIN entries \ Readable' |-> Content(entries[k])]
    BY <1>1 DEF Past, Content
  <2>2. /\ DOMAIN Past = DOMAIN entries \ Readable
        /\ \A k \in DOMAIN Past : Past[k] = Content(entries[k])
    BY DEF Past
  <2>3. DOMAIN entries \ Readable' = DOMAIN Past \cup over
    BY <1>6, <1>7, <2>2
  <2> HIDE DEF over
  <2> QED
    BY <1>5, <1>7, <2>1, <2>2, <2>3
<1>11. C!Tick
  BY <1>1, <1>8, <1>9, <1>10 DEF C!Tick, C!Keep
<1> QED
  BY <1>2, <1>11 DEF Right, C!Next

\* The value that a push writes
LEMMA PushValue ==
    ASSUME NEW x \in Element, NEW left \in BOOLEAN, NEW s,
           s = IF left THEN <<x>> \o <<>> ELSE Append(<<>>, x)
    PROVE  s = <<x>>
<1>1. <<x>> \in Seq(Element)
  OBVIOUS
<1>2. <<x>> \o <<>> = <<x>>
  BY <1>1, ConcatEmptySeq
<1>3. Append(<<>>, x) = <<x>>
  OBVIOUS
<1> QED
  BY <1>2, <1>3

LEMMA PushStep ==
    ASSUME DictInv, NEW p \in Process, NEW k \in Key, NEW x \in Element, NEW left \in BOOLEAN,
           Push(p, k, x, left)
    PROVE  Right
<1>0. PICK d : d = LookedUp(Expire1(dict), k)
  OBVIOUS
<1>1. PICK o : o = Opened(d, k)
  OBVIOUS
<1>2. PICK s : s = IF left THEN <<x>> \o o.entries[k].data ELSE Append(o.entries[k].data, x)
  OBVIOUS
<1>3. PICK r : r = Pushed(o, k, s)
  OBVIOUS
<1>4. Seen(d, dict, k) /\ Good(d) /\ (Live(d, k) <=> Live(dict, k))
  BY <1>0, SeenAfterExpire DEF DictInv, Seen
<1>7. PICK op : op = IF left THEN "lpush" ELSE "rpush"
  OBVIOUS
<1>8. op \in {"lpush", "rpush"} /\ (left <=> op = "lpush")
  BY <1>7
<1>9. Live(d, k) => k \in DOMAIN Current /\ (C!IsList(k) <=> IsList(d, k))
  BY <1>4, FoundIs
<1>10. ~Live(d, k) => k \notin DOMAIN Current
  BY <1>4, MissedIs
<1>5. CASE Live(d, k) /\ ~IsList(d, k)
  <2>1. Commit(d) /\ Says(op, k, x, <<"not a list">>)
    BY <1>0, <1>5, <1>7 DEF Push
  <2>2. DictInv' /\ C!Use(k)
    BY <1>4, <1>5, <2>1, SeenStep
  <2>3. C!Push(k, op)
    BY <1>5, <1>9, <2>1, <2>2, Told DEF C!Push
  <2> QED
    BY <1>8, <2>2, <2>3, NextIfKey DEF Right, C!Operation
<1>6. CASE Live(d, k) => IsList(d, k)
  <2>1. /\ Sound(o) /\ Whole(o, {k}) /\ DOMAIN o.entries \ {k} = DOMAIN d.entries \ {k}
        /\ \/ Good(o) /\ Left(o, d) /\ k \notin DOMAIN o.entries
           \/ Live(d, k) /\ o = d
           \/ ~Live(d, k) /\ Front(o, d, k) /\ o.entries[k] = EmptyList
    BY <1>1, <1>4, <1>6, OpenedRight
  <2>2. CASE ~Has(o, k)
    <3>1. Good(o) /\ Left(o, d) /\ k \notin DOMAIN o.entries
      BY <2>1, <2>2 DEF Has, Live, Front
    <3>2. Commit(o) /\ Says(op, k, x, <<"no memory">>)
      BY <1>0, <1>1, <1>6, <1>7, <2>2 DEF Push
    <3>3. DictInv' /\ Sound(dict) /\ NextIs(o)
      BY <3>1, <3>2, Commits
    <3>4. Left(o, dict) /\ LeftIn(o, dict, k)
      BY <1>4, <2>1, <3>1, SeenThen
    <3>5. C!Remove(k)
      BY <2>1, <3>1, <3>3, <3>4, LeftRemoves
    <3>6. ~Live(d, k)
      BY <1>1, <2>2 DEF Opened, Live, Has
    <3>7. C!Push(k, op)
      BY <1>10, <3>2, <3>5, <3>6, Told DEF C!Push
    <3> QED
      BY <1>8, <3>3, <3>7, NextIfKey DEF Right, C!Operation
  <2>3. CASE Has(o, k)
    <3>1. /\ entries' = r.entries /\ lru' = r.lru /\ used' = r.used /\ now' = now
          /\ pushing' = [q \in Process |->
                  IF q = p THEN IF Fits(o, 1) THEN [key |-> k, len |-> r.entries[k].len, freed |-> FALSE]
                                ELSE Nil
                  ELSE IF pushing[q] # Nil /\ pushing[q].key \in r.freed
                       THEN [pushing[q] EXCEPT !.freed = TRUE] ELSE pushing[q]]
      BY <1>0, <1>1, <1>2, <1>3, <1>6, <2>3 DEF Push
    <3>15. /\ C!Calls(op, k)
           /\ C!Says(x, IF Fits(o, 1) THEN <<"ok">> ELSE <<"no memory">>)
      <4>1. Says(op, k, x, IF Fits(o, 1) THEN <<"ok">> ELSE <<"no memory">>)
        BY <1>0, <1>1, <1>6, <1>7, <2>3 DEF Push
      <4> QED
        BY <4>1, Told
    <3>2. k \in DOMAIN o.entries
      BY <2>3 DEF Has
    <3>3. IsList(o, k) /\ (o.entries[k] = EmptyList \/ ListOk(o.entries[k]))
      <4>1. CASE Live(d, k) /\ o = d
        BY <1>4, <1>6, <3>2, <4>1 DEF Good, Whole
      <4>2. CASE ~Live(d, k) /\ Front(o, d, k) /\ o.entries[k] = EmptyList
        BY <4>2, EmptyListIs DEF IsList
      <4> QED
        BY <2>1, <3>2, <4>1, <4>2
    <3>4. PushedTo(r, o, k, s)
      <4>1. Extends(s, o, k, x, left)
        BY <1>2 DEF Extends
      <4> QED
        BY <1>3, <2>1, <3>2, <3>3, <4>1, PushedRight
    <3>14. Good(r)
      BY <3>4 DEF PushedTo
    <3>5. \/ Live(d, k) /\ o = d
          \/ ~Live(d, k) /\ Front(o, d, k) /\ o.entries[k] = EmptyList
      BY <2>1, <3>2
    <3>6. Front(o, dict, k)
      <4>1. CASE Live(d, k) /\ o = d
        BY <1>4, <4>1 DEF Seen
      <4>2. CASE Front(o, d, k)
        BY <1>4, <4>2, SeenThen
      <4> QED
        BY <3>5, <4>1, <4>2
    <3>7. \A c : DOMAIN o.entries \ {k} \subseteq DOMAIN c.entries => LeftIn(c, dict, k)
      BY <1>4, <2>1, SeenThen
    <3>8. Fits(o, 1) =>
             /\ r.entries[k].type = "list" /\ r.entries[k].data = s /\ r.entries[k].len \in Nat
             /\ r.entries[k].expires = o.entries[k].expires
      <4> SUFFICES ASSUME Fits(o, 1)
                   PROVE  /\ r.entries[k].type = "list" /\ r.entries[k].data = s
                          /\ r.entries[k].len \in Nat
                          /\ r.entries[k].expires = o.entries[k].expires
        OBVIOUS
      <4>1. PICK n \in Nat : n = Len(s) /\ s \in Seq(Element)
        BY <3>4, LenProperties DEF PushedTo
      <4>2. PICK e \in ListEntries : e = o.entries[k]
        BY <2>1, <3>2, <3>3, ListFacts
      <4>3. PICK f : f = r.entries[k] /\ Relisted(f, e, s, n)
        BY <3>4, <4>1, <4>2 DEF PushedTo
      <4>4. /\ f.type = "list" /\ f.data = s /\ f.len = n /\ f.expires = e.expires
        BY <4>1, <4>3, ListChanged
      <4> QED
        BY <4>1, <4>2, <4>3, <4>4
    <3>9. pushing' \in [Process -> {Nil} \cup Pushes]
      <4>1. \A q \in Process : pushing[q] # Nil => [pushing[q] EXCEPT !.freed = TRUE] \in Pushes
        BY DEF DictInv, Pushes
      <4>2. Fits(o, 1) => [key |-> k, len |-> r.entries[k].len, freed |-> FALSE] \in Pushes
        BY <3>8 DEF Pushes
      <4> QED
        BY <3>1, <4>1, <4>2 DEF DictInv
    <3>10. DictInv' /\ Sound(dict) /\ Sound(r) /\ NextIs(r)
      BY <3>1, <3>9, <3>14, Ends
    <3>11. CASE Fits(o, 1)
      <4>1. Front(r, dict, k) /\ LeftIn(r, dict, k) /\ k \in DOMAIN r.entries
        BY <3>2, <3>4, <3>6, <3>7, <3>11 DEF PushedTo
      <4>2. Live(r, k)
        <5>1. CASE Live(d, k) /\ o = d
          BY <3>8, <3>11, <4>1, <5>1 DEF Live, Has, Expired
        <5>2. CASE o.entries[k] = EmptyList
          BY <3>8, <3>11, <4>1, <5>2, EmptyListIs DEF Live, Has, Expired
        <5> QED
          BY <3>5, <5>1, <5>2
      <4>3. C!Put(k, Content(r.entries[k]))
        BY <3>10, <4>1, <4>2, FrontPuts
      <4>4. CASE Live(d, k) /\ o = d
        <5>1. /\ k \in DOMAIN Current /\ Current[k] = Content(d.entries[k])
              /\ C!IsList(k) /\ Current[k].val.data = d.entries[k].data
          BY <1>4, <3>3, <4>4, FoundIs
        <5>2. s = IF op = "lpush" THEN <<x>> \o Current[k].val.data ELSE Append(Current[k].val.data, x)
          BY <1>2, <1>8, <4>4, <5>1
        <5>3. Content(r.entries[k]) = [Current[k] EXCEPT !.val = C!List(s)]
          <6>1. Current[k] = [val |-> Value(d.entries[k]), deadline |-> d.entries[k].expires]
            BY <5>1 DEF Content
          <6>2. Content(r.entries[k]) = [val |-> C!List(s), deadline |-> d.entries[k].expires]
            BY <3>8, <3>11, <4>4 DEF Content, Value, C!List
          <6> QED
            BY <6>1, <6>2
        <5>4. C!Push(k, op)
          BY <3>11, <3>15, <4>3, <5>1, <5>2, <5>3 DEF C!Push
        <5> QED
          BY <1>8, <3>10, <5>4, NextIfKey DEF Right, C!Operation
      <4>5. CASE ~Live(d, k) /\ o.entries[k] = EmptyList
        <5>1. k \notin DOMAIN Current
          BY <1>4, <4>5 DEF Current, Readable
        <5>2. s = <<x>>
          BY <1>2, <4>5, EmptyListIs, PushValue
        <5>3. Content(r.entries[k]) = C!Value(C!List(<<x>>), C!Never)
          BY <3>8, <3>11, <4>5, <5>2, EmptyListIs DEF Content, Value, C!Value, C!List, C!Never, Never
        <5>4. C!Push(k, op)
          BY <3>11, <3>15, <4>3, <5>1, <5>3 DEF C!Push
        <5> QED
          BY <1>8, <3>10, <5>4, NextIfKey DEF Right, C!Operation
      <4> QED
        BY <3>5, <4>4, <4>5
    <3>12. CASE ~Fits(o, 1) /\ o.entries[k] = EmptyList /\ Left(r, o)
                 /\ DOMAIN r.entries = DOMAIN o.entries \ {k}
      <4>1. Left(r, dict) /\ k \notin DOMAIN r.entries /\ LeftIn(r, dict, k)
        BY <3>6, <3>7, <3>12, FrontLeft
      <4>2. C!Remove(k)
        BY <3>10, <4>1, LeftRemoves
      <4>3. ~Live(d, k)
        BY <1>4, <3>5, <3>12, EmptyListIs, FoundIs DEF ListOk
      <4>4. C!Push(k, op)
        BY <1>10, <3>12, <3>15, <4>2, <4>3 DEF C!Push
      <4> QED
        BY <1>8, <3>10, <4>4, NextIfKey DEF Right, C!Operation
    <3>13. CASE ~Fits(o, 1) /\ ListOk(o.entries[k]) /\ r = o
      <4>1. Live(d, k) /\ o = d
        BY <3>5, <3>13, EmptyListIs DEF ListOk
      <4>2. Live(dict, k) /\ r.entries[k] = dict.entries[k] /\ LeftIn(r, dict, k)
        BY <1>4, <3>7, <3>13, <4>1 DEF Seen
      <4>3. C!Use(k)
        BY <3>6, <3>10, <3>13, <4>2, FrontUses
      <4>4. C!IsList(k)
        BY <1>6, <1>9, <4>1
      <4>5. C!Push(k, op)
        BY <3>13, <3>15, <4>3, <4>4 DEF C!Push
      <4> QED
        BY <1>8, <3>10, <4>5, NextIfKey DEF Right, C!Operation
    <3> QED
      BY <3>4, <3>11, <3>12, <3>13 DEF PushedTo
  <2> QED
    BY <2>2, <2>3
<1> QED
  BY <1>5, <1>6

LEMMA OperationStep ==
    ASSUME DictInv, NEW k \in Key, Operation(k)
    PROVE  Right
<1>1. CASE Get(k) \/ Llen(k) \/ GetStale(k)
  BY <1>1, GetStep, LlenStep, GetStaleStep
<1>2. CASE Delete(k)
  BY <1>2, DeleteStep
<1>3. CASE \E v \in Scalar, t \in Deadlines : \E safe \in BOOLEAN : Set(k, v, t, safe) \/ Add(k, v, t, safe)
  BY <1>3, SetStep, AddStep
<1>4. CASE \E v \in Scalar, t \in Deadlines : Replace(k, v, t)
  BY <1>4, ReplaceStep
<1>5. CASE \/ \E v \in Scalar, t \in Deadlines : CompareExpire(k, v, t)
           \/ \E v \in Scalar : CompareExpire(k, v, Nil)
  <2>1. PICK v \in Scalar, t \in Deadlines \cup {Nil} : CompareExpire(k, v, t)
    BY <1>5
  <2> QED
    BY <2>1, CompareExpireStep
<1>6. CASE \E init \in Numbers \cup {Nil}, t \in Deadlines : Incr(k, init, t)
  BY <1>6, IncrStep
<1>7. CASE \E left \in BOOLEAN : Pop(k, left)
  BY <1>7, PopStep
<1>8. CASE \E t \in Deadlines : SetExpire(k, t)
  BY <1>8, SetExpireStep
<1> QED
  BY <1>1, <1>2, <1>3, <1>4, <1>5, <1>6, <1>7, <1>8 DEF Operation

LEMMA DictStep ==
    ASSUME DictInv, [DictNext]_dictVars
    PROVE  Right
<1>1. ASSUME NEW k \in Key, Operation(k)
      PROVE  Right
  BY <1>1, OperationStep
<1>2. CASE FlushAll
  BY <1>2, FlushAllStep
<1>3. ASSUME NEW max \in Limits, FlushExpired(max)
      PROVE  Right
  BY <1>3, FlushExpiredStep
<1>4. ASSUME NEW p \in Process, NEW k \in Key, NEW x \in Element, NEW left \in BOOLEAN,
             Push(p, k, x, left)
      PROVE  Right
  BY <1>4, PushStep
<1>5. ASSUME NEW p \in Process, PushReturn(p)
      PROVE  Right
  BY <1>5, PushReturnStep
<1>6. CASE Tick
  BY <1>6, TickStep
<1>7. CASE UNCHANGED dictVars
  <2>1. UNCHANGED <<now, entries, lru, used, pushing, call, result>> /\ dict' = dict
    BY <1>7 DEF dictVars, dict
  <2>2. DictInv'
    BY <2>1 DEF DictInv, Good, Sound, Whole
  <2>3. UNCHANGED <<now, Current, Order, Past>>
    BY <2>1 DEF Current, Order, Past, GetKeys, Readable, Live, Has, Expired
  <2> QED
    BY <2>1, <2>2, <2>3 DEF Right, C!vars
<1> QED
  BY <1>1, <1>2, <1>3, <1>4, <1>5, <1>6, <1>7 DEF DictNext, Idle

LEMMA DictStart ==
    ASSUME DictInit
    PROVE  DictInv /\ C!Init
<1>1. DOMAIN entries = {} /\ entries \in [{} -> Entries] /\ entries = <<>>
  <2>1. <<>> \in Seq(Entries) /\ Len(<<>>) = 0
    BY EmptySeq
  <2>2. <<>> \in [1..0 -> Entries] /\ DOMAIN <<>> = 1..0
    BY <2>1, LenProperties
  <2> QED
    BY <2>2 DEF DictInit
<1>2. Tree(entries)
  BY <1>1, FS_EmptySet DEF Tree
<1>3. Units(entries) = {}
  BY <1>1 DEF Units
<1>4. Sound(dict)
  <2>1. lru \in QueuesOver(Key) /\ WellFormed(lru) /\ lru.items = DOMAIN entries
    BY <1>1 DEF DictInit, EmptyQueue, QueuesOver, WellFormed
  <2>2. used = Cardinality(Units(entries)) /\ used \in 0..Capacity
    <3>1. Cardinality(Units(entries)) = 0
      BY <1>3, FS_EmptySet
    <3> QED
      BY <3>1, SharedDictAssumption DEF DictInit
  <2> QED
    BY <1>2, <2>1, <2>2 DEF Sound, dict
<1>5. Good(dict)
  BY <1>1, <1>4 DEF Good, Whole, dict
<1>6. DictInv
  BY <1>5, SharedDictAssumption DEF DictInv, DictInit
<1>7. Current = <<>> /\ Past = <<>>
  <2>1. /\ Current = [k \in {} |-> Content(entries[k])]
        /\ Past = [k \in {} |-> Content(entries[k])]
    BY <1>1 DEF Current, Past, Readable
  <2>2. \A f : DOMAIN f = {} /\ f = [k \in DOMAIN f |-> f[k]] => f = entries
    BY <1>1
  <2> QED
    BY <1>1, <2>1, <2>2
<1>8. Order = {}
  BY DEF Order, GetKeys, Remove, DictInit, EmptyQueue
<1> QED
  BY <1>6, <1>7, <1>8 DEF C!Init, DictInit

\* The tree, the queue, the lists and the memory of the zone agree at all
\* times, whatever the operations do.
THEOREM StorageIsExact == DictSpec => []StorageExact
<1>1. DictInit => DictInv
  BY DictStart
<1>2. DictInv /\ [DictNext]_dictVars => DictInv'
  BY DictStep DEF Right
<1>3. DictInv => StorageExact
  <2> SUFFICES ASSUME DictInv
               PROVE  StorageExact
    OBVIOUS
  <2>1. Sound(dict) /\ Whole(dict, {})
    BY DEF DictInv, Good
  <2>2. /\ dict.entries = entries /\ dict.lru = lru /\ dict.used = used
    BY DEF dict
  <2>3. /\ \A k \in DOMAIN entries : entries[k] \in Entries
        /\ DOMAIN entries \subseteq Key
    BY <2>1, <2>2, SoundFacts
  <2>4. DictTypeOK
    BY <2>1, <2>2, <2>3 DEF DictTypeOK, DictInv, Pushes, Sound, Entries
  <2>5. LruExact /\ MemoryExact
    BY <2>1, <2>2 DEF Sound, LruExact, MemoryExact
  <2>6. ListsExact
    BY <2>1, <2>2 DEF Whole, ListOk, ListsExact, IsList
  <2> QED
    BY <2>4, <2>5, <2>6 DEF StorageExact
<1> QED
  BY <1>1, <1>2, <1>3, PTL DEF DictSpec

\* The entries and the queue implement the cache.
THEOREM ItIsACache == DictSpec => IsCache
<1>1. DictInit => DictInv /\ C!Init
  BY DictStart
<1>2. DictInv /\ [DictNext]_dictVars => DictInv' /\ [C!Next]_(C!vars)
  BY DictStep DEF Right
<1> QED
  BY <1>1, <1>2, PTL DEF DictSpec, IsCache, C!Spec

=============================================================================
