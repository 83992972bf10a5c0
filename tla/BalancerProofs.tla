---------------------------- MODULE BalancerProofs ----------------------------
(* The keepalive cache of balancer_by_lua agrees with its pools and with   *)
(* the requests, implements IdleConnections, and tries are limited.        *)
EXTENDS Balancer, FiniteSetTheorems, WellFoundedInduction, TLAPS

-----------------------------------------------------------------------------
(* What the operations on queues preserve and return.                      *)

LEMMA EmptyQueueWF == WellFormed(EmptyQueue)
BY DEF EmptyQueue, WellFormed

LEMMA EmptyQueueType == \A S : EmptyQueue \in QueuesOver(S)
BY DEF EmptyQueue, QueuesOver

\* An element that is inserted becomes the first one
LEMMA InsertHeadWF ==
    ASSUME NEW S, NEW q \in QueuesOver(S), NEW x \in S, WellFormed(q),
           x \notin q.items
    PROVE  /\ InsertHead(q, x) \in QueuesOver(S)
           /\ WellFormed(InsertHead(q, x))
           /\ InsertHead(q, x).items = q.items \cup {x}
<1> DEFINE r == InsertHead(q, x)
<1>1. /\ r.items = q.items \cup {x}
      /\ r.before = q.before \cup ({x} \X q.items)
  BY DEF InsertHead
<1>2. r \in QueuesOver(S)
  BY DEF InsertHead, QueuesOver
<1> HIDE DEF r
<1>3. \A y, z : <<y, z>> \in r.before <=>
                    <<y, z>> \in q.before \/ (y = x /\ z \in q.items)
  BY <1>1
<1>4. \A y, z : <<y, z>> \in q.before => y \in q.items /\ z \in q.items
  BY DEF WellFormed
<1>5. \A p \in r.before : p[1] \in r.items /\ p[2] \in r.items
  BY <1>1 DEF WellFormed
<1>6. \A y, z \in r.items : y # z => <<y, z>> \in r.before \/ <<z, y>> \in r.before
  BY <1>1, <1>3 DEF WellFormed
<1>7. \A y, z \in r.items : ~(<<y, z>> \in r.before /\ <<z, y>> \in r.before)
  BY <1>1, <1>3, <1>4 DEF WellFormed
<1>8. \A y, z, w \in r.items : /\ <<y, z>> \in r.before /\ <<z, w>> \in r.before
                               => <<y, w>> \in r.before
  BY <1>1, <1>3, <1>4 DEF WellFormed
<1> QED
  BY <1>1, <1>2, <1>5, <1>6, <1>7, <1>8 DEF WellFormed, r

\* Removal keeps the order of the others
LEMMA RemoveWF ==
    ASSUME NEW S, NEW q \in QueuesOver(S), WellFormed(q), NEW D
    PROVE  /\ Remove(q, D) \in QueuesOver(S)
           /\ WellFormed(Remove(q, D))
           /\ Remove(q, D).items = q.items \ D
<1> DEFINE r == Remove(q, D)
<1>1. r.items = q.items \ D
  BY DEF Remove
<1>2. \A y, z : <<y, z>> \in r.before <=>
                    <<y, z>> \in q.before /\ y \notin D /\ z \notin D
  BY DEF Remove
<1>3. \A p \in r.before : p \in q.before /\ p[1] \notin D /\ p[2] \notin D
  BY DEF Remove
<1>4. r \in QueuesOver(S)
  BY <1>1, <1>3 DEF Remove, QueuesOver
<1> HIDE DEF r
<1>5. \A p \in r.before : p[1] \in r.items /\ p[2] \in r.items
  BY <1>1, <1>3 DEF WellFormed
<1>6. \A y, z \in r.items : y # z => <<y, z>> \in r.before \/ <<z, y>> \in r.before
  BY <1>1, <1>2 DEF WellFormed
<1>7. \A y, z \in r.items : ~(<<y, z>> \in r.before /\ <<z, y>> \in r.before)
  BY <1>1, <1>2 DEF WellFormed
<1>8. \A y, z, w \in r.items : /\ <<y, z>> \in r.before /\ <<z, w>> \in r.before
                               => <<y, w>> \in r.before
  BY <1>1, <1>2 DEF WellFormed
<1> QED
  BY <1>1, <1>4, <1>5, <1>6, <1>7, <1>8 DEF WellFormed, r

\* A queue that is not empty has a head: the element with the fewest others
\* before it
LEMMA HeadExists ==
    ASSUME NEW q, WellFormed(q), IsFiniteSet(q.items), ~IsEmpty(q)
    PROVE  \E x \in q.items : IsHead(q, x)
<1> DEFINE Ahead(x) == {y \in q.items : <<y, x>> \in q.before}
           T == {Ahead(x) : x \in q.items}
<1>1. IsWellFoundedOn(StrictSubsetOrdering(q.items), FiniteSubsetsOf(q.items))
  BY FS_StrictSubsetOrderingWellFounded
<1>2. T \subseteq FiniteSubsetsOf(q.items) /\ T # {}
  <2>1. \A x \in q.items : Ahead(x) \in SUBSET q.items
    OBVIOUS
  <2>2. \A x \in q.items : IsFiniteSet(Ahead(x))
    BY <2>1, FS_Subset
  <2> HIDE DEF Ahead
  <2> QED
    BY <2>1, <2>2 DEF FiniteSubsetsOf, IsEmpty
<1>3. \E X \in T : \A Y \in T : <<Y, X>> \notin StrictSubsetOrdering(q.items)
  BY <1>1, <1>2, WFMin
<1>4. PICK x \in q.items : \A y \in q.items :
                               <<Ahead(y), Ahead(x)>> \notin StrictSubsetOrdering(q.items)
  BY <1>3
<1>5. ASSUME NEW y \in q.items \ {x}
      PROVE  <<x, y>> \in q.before
  <2>1. SUFFICES ASSUME <<y, x>> \in q.before PROVE FALSE
    BY DEF WellFormed
  <2>2. \A z \in Ahead(y) : z \in Ahead(x)
    BY <2>1 DEF WellFormed
  <2>3. y \in Ahead(x) /\ y \notin Ahead(y)
    BY <2>1 DEF WellFormed
  <2> QED
    BY <1>4, <2>2, <2>3 DEF StrictSubsetOrdering
<1> QED
  BY <1>5 DEF IsHead

\* ... and a last element: the head of the queue with its links reversed
LEMMA LastExists ==
    ASSUME NEW q, WellFormed(q), IsFiniteSet(q.items), ~IsEmpty(q)
    PROVE  \E x \in q.items : IsLast(q, x)
<1> DEFINE r == [items |-> q.items,
                 before |-> {p \in q.items \X q.items : <<p[2], p[1]>> \in q.before}]
<1>1. r.items = q.items
  OBVIOUS
<1>2. \A x, y : <<x, y>> \in r.before <=> <<y, x>> \in q.before
  <2>1. \A x, y : <<y, x>> \in q.before => x \in q.items /\ y \in q.items
    BY DEF WellFormed
  <2> QED
    BY <2>1
<1>3. \A p \in r.before : p[1] \in r.items /\ p[2] \in r.items
  OBVIOUS
<1> HIDE DEF r
<1>4. WellFormed(r)
  BY <1>1, <1>2, <1>3 DEF WellFormed
<1>5. \E x \in r.items : IsHead(r, x)
  BY <1>1, <1>4, HeadExists DEF IsEmpty
<1> QED
  BY <1>1, <1>2, <1>5 DEF IsHead, IsLast

-----------------------------------------------------------------------------
(* The inductive invariant.  Between detaching an item and attaching it    *)
(* the pools hold less than the cache, so what the pools of a cache k have *)
(* to be is stated for the items P that they hold.                         *)

Item == [key : Key \cup {Nil}, conn : Conn \cup {Nil}, pool : Items \cup {Nil}]
Pool == [hash : Nat, items : QueuesOver(Items), count : Nat]

Ka == [item : [Items -> Item], cache : QueuesOver(Items), free : SUBSET Items,
       pool : [Items -> Pool], pools : SUBSET Items, bucket : [Buckets -> SUBSET Items]]

Members(k, p) == k.pool[p].items.items

\* Those of the items P that have the key
ItemsOf(k, P, key) == {i \in P : k.item[i].key = key}

\* The items P are in the pools of their keys, in the order of the cache
HoldsItems(k, P) ==
    /\ P \subseteq Items
    /\ \A i, p \in Items : i \in Members(k, p) <=> i \in P /\ k.item[i].pool = p
    /\ \A i \in P : /\ k.item[i].pool \in Items /\ k.item[i].key \in Key
                    /\ k.pool[k.item[i].pool].hash = Hash[k.item[i].key]
    /\ \A i, j \in P : k.item[i].key = k.item[j].key <=> k.item[i].pool = k.item[j].pool

InOrder(k, P) ==
    \A p \in Items : \A i, j \in Members(k, p) :
        <<i, j>> \in k.pool[p].items.before <=> <<i, j>> \in k.cache.before

\* A pool is in the bucket of its hash, or free
PlacesPools(k) ==
    \A p \in Items :
        /\ WellFormed(k.pool[p].items)
        /\ k.pool[p].count = Cardinality(Members(k, p))
        /\ p \in k.pools <=> Members(k, p) = {}
        /\ \A b \in Buckets : p \in k.bucket[b] <=>
               Members(k, p) # {} /\ b = BucketOf(k.pool[p].hash)

PoolsOk(k, P) == k \in Ka /\ HoldsItems(k, P) /\ InOrder(k, P) /\ PlacesPools(k)

\* The items that are neither free nor in the cache are H
CacheOk(k, H) ==
    /\ PoolsOk(k, k.cache.items) /\ WellFormed(k.cache)
    /\ H \cap k.cache.items = {} /\ H \subseteq Items
    /\ k.free = Items \ (k.cache.items \cup H)

-----------------------------------------------------------------------------
(* Sets and queues.                                                        *)

LEMMA BucketRange == ASSUME NEW h \in Nat PROVE BucketOf(h) \in Buckets
<1>1. MaxCached \in Nat \ {0}
  BY BalancerAssumption
<1>2. BucketCount \in Nat \ {0}
  BY <1>1 DEF BucketCount
<1> QED
  BY <1>2 DEF BucketOf, Buckets

LEMMA ItemsFinite ==
    /\ IsFiniteSet(Items) /\ Cardinality(Items) = MaxCached
    /\ \A S \in SUBSET Items : IsFiniteSet(S)
    /\ Nil \notin Items /\ Items # {}
<1>1. MaxCached \in Nat \ {0} /\ Nil \notin Items
  BY BalancerAssumption DEF Items
<1>2. IsFiniteSet(Items) /\ Cardinality(Items) = MaxCached
  BY <1>1, FS_Interval DEF Items
<1>3. \A S \in SUBSET Items : IsFiniteSet(S)
  BY <1>2, FS_Subset
<1>4. 1 \in Items
  BY <1>1 DEF Items
<1> QED
  BY <1>1, <1>2, <1>3, <1>4

\* The ends of a queue of items
LEMMA EndsExist ==
    ASSUME NEW q \in QueuesOver(Items), WellFormed(q), q.items # {}
    PROVE  /\ HeadOf(q) \in q.items /\ IsHead(q, HeadOf(q))
           /\ LastOf(q) \in q.items /\ IsLast(q, LastOf(q))
<1>1. q.items \subseteq Items
  BY DEF QueuesOver
<1>2. IsFiniteSet(q.items) /\ ~IsEmpty(q)
  BY <1>1, ItemsFinite DEF IsEmpty
<1>3. \E x \in q.items : IsHead(q, x)
  BY <1>2, HeadExists
<1>4. \E x \in q.items : IsLast(q, x)
  BY <1>2, LastExists
<1> QED
  BY <1>3, <1>4 DEF HeadOf, LastOf

-----------------------------------------------------------------------------
(* The operators of the cache.                                             *)

\* The pool that is found holds the connections to the peer; where none is
\* found there are none
LEMMA FindPoolRight ==
    ASSUME NEW k, NEW P, PoolsOk(k, P), NEW key \in Key
    PROVE  LET p == FindPool(k, key) IN
           \/ /\ p = Nil
              /\ \A i \in P : k.item[i].key # key
           \/ /\ p \in Items
              /\ Members(k, p) = ItemsOf(k, P, key)
              /\ Members(k, p) # {}
<1> DEFINE b == BucketOf(Hash[key])
<1>1. Hash[key] \in Nat /\ b \in Buckets
  BY BalancerAssumption, BucketRange
<1>2. \A p \in Items : WellFormed(k.pool[p].items) /\ k.pool[p].items \in QueuesOver(Items)
  BY DEF PoolsOk, PlacesPools, Ka, Pool
<1>3. ASSUME NEW p \in Found(k, key)
      PROVE  p \in Items /\ Members(k, p) # {} /\ Members(k, p) = ItemsOf(k, P, key)
  <2>1. p \in k.bucket[b] /\ p \in Items
    BY <1>1, <1>3 DEF Found, PoolsOk, Ka
  <2>2. Members(k, p) # {}
    BY <1>1, <2>1 DEF PoolsOk, PlacesPools
  <2> DEFINE h == HeadOf(k.pool[p].items)
  <2>3. h \in Members(k, p)
    BY <1>2, <2>1, <2>2, EndsExist DEF Members
  <2>4. k.item[h].key = key
    BY <1>3 DEF Found, ItemMatch
  <2>5. Members(k, p) \subseteq Items
    BY <1>2, <2>1 DEF Members, QueuesOver
  <2> HIDE DEF h
  <2>6. h \in P /\ k.item[h].pool = p
    BY <2>1, <2>3, <2>5 DEF PoolsOk, HoldsItems
  <2>7. \A i \in P : k.item[i].key = key <=> k.item[i].pool = p
    BY <2>4, <2>6 DEF PoolsOk, HoldsItems
  <2>8. \A i \in Items : i \in Members(k, p) <=> i \in P /\ k.item[i].pool = p
    BY <2>1 DEF PoolsOk, HoldsItems
  <2>9. P \subseteq Items
    BY DEF PoolsOk, HoldsItems
  <2> QED
    BY <2>1, <2>2, <2>5, <2>7, <2>8, <2>9 DEF ItemsOf
<1>4. ASSUME NEW i \in P, k.item[i].key = key
      PROVE  k.item[i].pool \in Found(k, key)
  <2> DEFINE p == k.item[i].pool
  <2>1. p \in Items /\ k.pool[p].hash = Hash[key] /\ i \in Items
    BY <1>4 DEF PoolsOk, HoldsItems
  <2>2. i \in Members(k, p)
    BY <2>1 DEF PoolsOk, HoldsItems
  <2>3. p \in k.bucket[b]
    BY <1>1, <2>1, <2>2 DEF PoolsOk, PlacesPools
  <2> DEFINE h == HeadOf(k.pool[p].items)
  <2>4. h \in Members(k, p)
    BY <1>2, <2>1, <2>2, EndsExist DEF Members
  <2>5. Members(k, p) \subseteq Items
    BY <1>2, <2>1 DEF Members, QueuesOver
  <2>6. h \in P /\ k.item[h].pool = p
    <3> HIDE DEF h
    <3> QED
      BY <2>1, <2>4, <2>5 DEF PoolsOk, HoldsItems
  <2>7. k.item[h].key = key
    <3> HIDE DEF h
    <3> QED
      BY <1>4, <2>6 DEF PoolsOk, HoldsItems
  <2> QED
    BY <2>1, <2>3, <2>7 DEF Found, ItemMatch
<1>5. CASE Found(k, key) = {}
  BY <1>4, <1>5 DEF FindPool
<1>6. CASE Found(k, key) # {}
  <2>1. FindPool(k, key) \in Found(k, key)
    BY <1>6 DEF FindPool
  <2> QED
    BY <1>3, <2>1
<1> QED
  BY <1>5, <1>6

\* What Detach changes
Loose(item) == [key |-> item.key, conn |-> item.conn, pool |-> Nil]

LEMMA DetachShape ==
    ASSUME NEW k \in Ka, NEW i \in Items, k.item[i].pool \in Items
    PROVE  LET d == Detach(k, i)
               p == k.item[i].pool
               last == k.pool[p].count = 1
           IN  /\ d.item = [k.item EXCEPT ![i] = Loose(k.item[i])]
               /\ d.cache = k.cache /\ d.free = k.free
               /\ d.pool = [k.pool EXCEPT ![p] = Without(k.pool[p], i)]
               /\ d.pools = IF last THEN k.pools \cup {p} ELSE k.pools
               /\ d.bucket = [k.bucket EXCEPT ![BucketOf(k.pool[p].hash)] =
                                 IF last THEN @ \ {p} ELSE @]
               /\ d = [x \in DOMAIN k |-> d[x]]
<1>1. [k.item[i] EXCEPT !.pool = Nil] = Loose(k.item[i])
  BY DEF Loose, Ka, Item
<1>2. /\ Detach(k, i).item = [k.item EXCEPT ![i] = [k.item[i] EXCEPT !.pool = Nil]]
      /\ Detach(k, i).cache = k.cache /\ Detach(k, i).free = k.free
  BY DEF Detach, Ka
<1>3. Detach(k, i).pool = [k.pool EXCEPT ![k.item[i].pool] = Without(k.pool[k.item[i].pool], i)]
  BY DEF Detach, Ka
<1>4. Detach(k, i).pools = IF k.pool[k.item[i].pool].count = 1 THEN k.pools \cup {k.item[i].pool}
                           ELSE k.pools
  BY DEF Detach, Ka
<1>5. Detach(k, i).bucket =
         [k.bucket EXCEPT ![BucketOf(k.pool[k.item[i].pool].hash)] =
             IF k.pool[k.item[i].pool].count = 1 THEN @ \ {k.item[i].pool} ELSE @]
  BY DEF Detach, Ka
<1>6. Detach(k, i) = [x \in DOMAIN k |-> Detach(k, i)[x]]
  BY Zenon DEF Detach, Ka
<1> QED
  BY <1>1, <1>2, <1>3, <1>4, <1>5, <1>6

\* An item that is detached leaves its pool, and its pool the bucket when it
\* was the last one
LEMMA DetachRight ==
    ASSUME NEW k, NEW P, PoolsOk(k, P), NEW i \in P
    PROVE  LET d == Detach(k, i) IN
           /\ PoolsOk(d, P \ {i})
           /\ d.cache = k.cache /\ d.free = k.free
           /\ d.item = [k.item EXCEPT ![i] = Loose(k.item[i])]
<1> DEFINE d == Detach(k, i)
           p == k.item[i].pool
           b == BucketOf(k.pool[p].hash)
<1>1. k \in Ka /\ i \in Items /\ p \in Items /\ P \subseteq Items
  BY DEF PoolsOk, HoldsItems
<1>2. /\ d.item = [k.item EXCEPT ![i] = Loose(k.item[i])]
      /\ d.cache = k.cache /\ d.free = k.free
      /\ d.pool = [k.pool EXCEPT ![p] = Without(k.pool[p], i)]
      /\ d.pools = IF k.pool[p].count = 1 THEN k.pools \cup {p} ELSE k.pools
      /\ d.bucket = [k.bucket EXCEPT ![b] = IF k.pool[p].count = 1 THEN @ \ {p} ELSE @]
      /\ d = [x \in DOMAIN k |-> d[x]]
  BY <1>1, DetachShape
<1>3. i \in Members(k, p) /\ Members(k, p) \subseteq Items /\ b \in Buckets
      /\ k.pool[p] \in Pool /\ WellFormed(k.pool[p].items)
  <2>1. i \in Members(k, p) /\ WellFormed(k.pool[p].items)
    BY <1>1 DEF PoolsOk, HoldsItems, PlacesPools
  <2>2. k.pool[p] \in Pool
    BY <1>1 DEF Ka
  <2> QED
    BY <2>1, <2>2, BucketRange DEF Pool, Members, QueuesOver
<1>4. /\ k.pool[p].count = Cardinality(Members(k, p)) /\ IsFiniteSet(Members(k, p))
      /\ Cardinality(Members(k, p) \ {i}) = k.pool[p].count - 1
      /\ k.pool[p].count - 1 \in Nat
      /\ k.pool[p].count = 1 <=> Members(k, p) \ {i} = {}
  <2>1. k.pool[p].count = Cardinality(Members(k, p)) /\ IsFiniteSet(Members(k, p))
    BY <1>1, <1>3, ItemsFinite DEF PoolsOk, PlacesPools
  <2>2. /\ IsFiniteSet(Members(k, p) \ {i})
        /\ Cardinality(Members(k, p) \ {i}) = Cardinality(Members(k, p)) - 1
    BY <1>3, <2>1, FS_RemoveElement
  <2>3. Cardinality(Members(k, p) \ {i}) \in Nat /\ Cardinality(Members(k, p)) \in Nat
    BY <2>1, <2>2, FS_CardinalityType
  <2>4. Cardinality(Members(k, p) \ {i}) = 0 <=> Members(k, p) \ {i} = {}
    BY <2>2, FS_EmptySet
  <2> QED
    BY <2>1, <2>2, <2>3, <2>4
<1>5. /\ Remove(k.pool[p].items, {i}) \in QueuesOver(Items)
      /\ WellFormed(Remove(k.pool[p].items, {i}))
      /\ Remove(k.pool[p].items, {i}).items = Members(k, p) \ {i}
  BY <1>3, RemoveWF DEF Members, Pool
<1>6. \A x, y : <<x, y>> \in Remove(k.pool[p].items, {i}).before <=>
                    <<x, y>> \in k.pool[p].items.before /\ x # i /\ y # i
  BY DEF Remove
<1>7. d \in Ka
  <2>1. d.item \in [Items -> Item]
    BY <1>1, <1>2 DEF Ka, Item, Loose
  <2>2. d.pool \in [Items -> Pool]
    <3>1. Without(k.pool[p], i) \in Pool
      BY <1>3, <1>4, <1>5 DEF Pool, Without
    <3> QED
      BY <1>1, <1>2, <3>1 DEF Ka
  <2>3. d.bucket \in [Buckets -> SUBSET Items] /\ d.pools \in SUBSET Items
    <3>1. k.bucket \in [Buckets -> SUBSET Items] /\ k.pools \in SUBSET Items
      BY <1>1 DEF Ka
    <3> HIDE DEF d, p, b
    <3> QED
      BY <1>1, <1>2, <1>3, <3>1
  <2>4. d.cache \in QueuesOver(Items) /\ d.free \in SUBSET Items
    BY <1>1, <1>2 DEF Ka
  <2>5. DOMAIN k = {"item", "cache", "free", "pool", "pools", "bucket"}
    BY <1>1 DEF Ka
  <2> QED
    <3> HIDE DEF d
    <3> QED
      BY <1>2, <2>1, <2>2, <2>3, <2>4, <2>5 DEF Ka
<1> HIDE DEF d, p, b
<1>8. /\ \A j \in Items \ {i} : d.item[j] = k.item[j]
      /\ d.item[i].pool = Nil /\ d.item[i].key = k.item[i].key /\ d.item[i].conn = k.item[i].conn
      /\ \A q \in Items \ {p} : d.pool[q] = k.pool[q]
      /\ d.pool[p].hash = k.pool[p].hash
      /\ d.pool[p].items = Remove(k.pool[p].items, {i})
      /\ d.pool[p].count = k.pool[p].count - 1
  <2>1. k.item \in [Items -> Item] /\ k.pool \in [Items -> Pool]
    BY <1>1 DEF Ka
  <2>2. d.item[i] = Loose(k.item[i]) /\ \A j \in Items \ {i} : d.item[j] = k.item[j]
    BY <1>1, <1>2, <2>1
  <2>3. d.pool[p] = Without(k.pool[p], i) /\ \A q \in Items \ {p} : d.pool[q] = k.pool[q]
    BY <1>1, <1>2, <2>1
  <2> QED
    BY <2>2, <2>3 DEF Loose, Without
<1>a. /\ \A q \in Items : q \in d.pools <=> q \in k.pools \/ (q = p /\ k.pool[p].count = 1)
      /\ \A q \in Items, c \in Buckets : q \in d.bucket[c] <=>
             q \in k.bucket[c] /\ ~(q = p /\ c = b /\ k.pool[p].count = 1)
  <2>1. k.bucket \in [Buckets -> SUBSET Items] /\ k.pools \in SUBSET Items
    BY <1>1 DEF Ka
  <2> QED
    BY <1>1, <1>2, <1>3, <2>1
<1>9. \A q \in Items : Members(d, q) = IF q = p THEN Members(k, p) \ {i} ELSE Members(k, q)
  BY <1>5, <1>8 DEF Members
<1>10. HoldsItems(d, P \ {i})
  <2>1. \A j, q \in Items : j \in Members(d, q) <=> j \in P \ {i} /\ d.item[j].pool = q
    <3> SUFFICES ASSUME NEW j \in Items, NEW q \in Items
                 PROVE  j \in Members(d, q) <=> j \in P \ {i} /\ d.item[j].pool = q
      OBVIOUS
    <3>1. j \in Members(k, q) <=> j \in P /\ k.item[j].pool = q
      BY DEF PoolsOk, HoldsItems
    <3> QED
      BY <1>8, <1>9, <3>1, ItemsFinite DEF p
  <2>2. \A j \in P \ {i} : /\ d.item[j].pool \in Items /\ d.item[j].key \in Key
                           /\ d.pool[d.item[j].pool].hash = Hash[d.item[j].key]
    BY <1>1, <1>8 DEF PoolsOk, HoldsItems
  <2>3. \A j, l \in P \ {i} : d.item[j].key = d.item[l].key <=> d.item[j].pool = d.item[l].pool
    BY <1>1, <1>8 DEF PoolsOk, HoldsItems
  <2> QED
    BY <1>1, <2>1, <2>2, <2>3 DEF HoldsItems
<1>11. InOrder(d, P \ {i})
  <2> SUFFICES ASSUME NEW q \in Items, NEW j \in Members(d, q), NEW l \in Members(d, q)
               PROVE  <<j, l>> \in d.pool[q].items.before <=> <<j, l>> \in d.cache.before
    BY DEF InOrder
  <2>1. <<j, l>> \in k.pool[q].items.before <=> <<j, l>> \in k.cache.before
    BY <1>9 DEF PoolsOk, InOrder
  <2> QED
    BY <1>2, <1>6, <1>8, <1>9, <2>1
<1>12. PlacesPools(d)
  <2> SUFFICES ASSUME NEW q \in Items
               PROVE  /\ WellFormed(d.pool[q].items)
                      /\ d.pool[q].count = Cardinality(Members(d, q))
                      /\ q \in d.pools <=> Members(d, q) = {}
                      /\ \A c \in Buckets : q \in d.bucket[c] <=>
                             Members(d, q) # {} /\ c = BucketOf(d.pool[q].hash)
    BY DEF PlacesPools
  <2>1. /\ WellFormed(k.pool[q].items)
        /\ k.pool[q].count = Cardinality(Members(k, q))
        /\ q \in k.pools <=> Members(k, q) = {}
        /\ \A c \in Buckets : q \in k.bucket[c] <=>
               Members(k, q) # {} /\ c = BucketOf(k.pool[q].hash)
    BY DEF PoolsOk, PlacesPools
  <2>2. CASE q # p
    BY <1>8, <1>a, <1>9, <2>1, <2>2
  <2>3. CASE q = p
    <3>1. WellFormed(d.pool[q].items) /\ d.pool[q].count = Cardinality(Members(d, q))
      BY <1>4, <1>5, <1>8, <1>9, <2>3
    <3>2. Members(k, q) # {}
      BY <1>3, <2>3
    <3>3. q \in d.pools <=> Members(d, q) = {}
      BY <1>4, <1>8, <1>a, <1>9, <2>1, <2>3, <3>2
    <3>4. \A c \in Buckets : q \in d.bucket[c] <=>
                             Members(d, q) # {} /\ c = BucketOf(d.pool[q].hash)
      BY <1>4, <1>8, <1>a, <1>9, <2>1, <2>3, <3>2 DEF b
    <3> QED
      BY <3>1, <3>3, <3>4
  <2> QED
    BY <2>2, <2>3
<1> QED
  BY <1>2, <1>7, <1>10, <1>11, <1>12 DEF PoolsOk, d

\* As long as an item is in no pool there is a free pool: each pool in use
\* has an item, and there are as many pools as items
LEMMA PoolLeft ==
    ASSUME NEW k, NEW P, PoolsOk(k, P), NEW i \in Items \ P
    PROVE  k.pools # {}
<1> SUFFICES ASSUME k.pools = {} PROVE FALSE
  OBVIOUS
<1>1. \A p \in Items : Members(k, p) # {}
  BY DEF PoolsOk, PlacesPools
<1> DEFINE f == [j \in P |-> k.item[j].pool]
<1>2. P \subseteq Items /\ P \subseteq Items \ {i} /\ f \in [P -> Items]
  BY DEF PoolsOk, HoldsItems
<1>3. \A p \in Items : \E j \in P : f[j] = p
  <2> SUFFICES ASSUME NEW p \in Items PROVE \E j \in P : f[j] = p
    OBVIOUS
  <2>1. PICK j : j \in Members(k, p)
    BY <1>1
  <2>2. j \in Items
    BY <2>1 DEF PoolsOk, Ka, Pool, QueuesOver, Members
  <2> QED
    BY <2>1, <2>2 DEF PoolsOk, HoldsItems
<1>4. f \in Surjection(P, Items)
  BY <1>2, <1>3 DEF Surjection
<1>5. IsFiniteSet(P) /\ Cardinality(Items) <= Cardinality(P)
  BY <1>2, <1>4, ItemsFinite, FS_Surjection
<1>6. Cardinality(P) <= Cardinality(Items \ {i}) /\ IsFiniteSet(Items \ {i})
  BY <1>2, ItemsFinite, FS_Subset
<1>7. Cardinality(Items \ {i}) = Cardinality(Items) - 1 /\ Cardinality(Items) \in Nat
  BY ItemsFinite, FS_RemoveElement, FS_CardinalityType
<1>8. Cardinality(P) \in Nat
  BY <1>5, FS_CardinalityType
<1> QED
  BY <1>5, <1>6, <1>7, <1>8

\* What AttachTo changes
Seated(item, p) == [key |-> item.key, conn |-> item.conn, pool |-> p]

LEMMA AttachShape ==
    ASSUME NEW k \in Ka, NEW i \in Items, NEW p \in Items, NEW hash \in Nat
    PROVE  LET d == AttachTo(k, i, p, hash)
           IN  /\ d.item = [k.item EXCEPT ![i] = Seated(k.item[i], p)]
               /\ d.cache = k.cache /\ d.free = k.free
               /\ d.pool = [k.pool EXCEPT ![p] = [hash |-> hash,
                               items |-> InsertHead(k.pool[p].items, i),
                               count |-> k.pool[p].count + 1]]
               /\ d.pools = k.pools \ {p}
               /\ d.bucket = [k.bucket EXCEPT ![BucketOf(hash)] = @ \cup {p}]
               /\ d = [x \in DOMAIN k |-> d[x]]
<1> DEFINE d == AttachTo(k, i, p, hash)
<1>1. [k.item[i] EXCEPT !.pool = p] = Seated(k.item[i], p)
  BY DEF Ka, Item, Seated
<1>2. /\ d.item = [k.item EXCEPT ![i] = [k.item[i] EXCEPT !.pool = p]]
      /\ d.cache = k.cache /\ d.free = k.free
  BY DEF AttachTo, Ka
<1>3. d.pool = [k.pool EXCEPT ![p] = [hash |-> hash, items |-> InsertHead(k.pool[p].items, i),
                                      count |-> k.pool[p].count + 1]]
  BY DEF AttachTo, Ka
<1>4. d.pools = k.pools \ {p}
  BY DEF AttachTo, Ka
<1>5. d.bucket = [k.bucket EXCEPT ![BucketOf(hash)] = @ \cup {p}]
  BY DEF AttachTo, Ka
<1>6. d = [x \in DOMAIN k |-> d[x]]
  BY Zenon DEF AttachTo, Ka
<1> QED
  BY <1>1, <1>2, <1>3, <1>4, <1>5, <1>6

\* An item becomes the first of its pool, which was free or is that of its key
LEMMA AttachRight ==
    ASSUME NEW k, NEW P, PoolsOk(k, P), NEW i \in Items \ P, k.item[i].key \in Key,
           \A j \in P : <<i, j>> \in k.cache.before /\ <<j, i>> \notin k.cache.before,
           <<i, i>> \notin k.cache.before
    PROVE  LET d == Attach(k, i) IN
           /\ PoolsOk(d, P \cup {i})
           /\ d.cache = k.cache /\ d.free = k.free
           /\ \E p \in Items : d.item = [k.item EXCEPT ![i] = Seated(k.item[i], p)]
<1> DEFINE key == k.item[i].key
           hash == Hash[key]
           old == FindPool(k, key)
           p == IF old = Nil THEN CHOOSE q \in k.pools : TRUE ELSE old
           b == BucketOf(hash)
           d == AttachTo(k, i, p, hash)
<1>1. k \in Ka /\ P \subseteq Items /\ key \in Key /\ hash \in Nat /\ b \in Buckets
  BY BalancerAssumption, BucketRange DEF PoolsOk, HoldsItems
<1>2. /\ p \in Items
      /\ Members(k, p) = ItemsOf(k, P, key)
      /\ Members(k, p) # {} => k.pool[p].hash = hash
      /\ Members(k, p) = {} <=> p \in k.pools
  <2> HIDE DEF key
  <2>1. CASE old = Nil
    <3>1. \A j \in P : k.item[j].key # key
      BY <1>1, <2>1, FindPoolRight, ItemsFinite
    <3>2. p \in k.pools /\ p \in Items
      BY <1>1, <2>1, PoolLeft DEF Ka
    <3>3. Members(k, p) = {}
      BY <3>2 DEF PoolsOk, PlacesPools
    <3> QED
      BY <3>1, <3>2, <3>3 DEF ItemsOf
  <2>2. CASE old # Nil
    <3>1. p \in Items /\ Members(k, p) = ItemsOf(k, P, key) /\ Members(k, p) # {}
      BY <1>1, <2>2, FindPoolRight
    <3> HIDE DEF p
    <3>2. PICK j \in P : j \in Members(k, p) /\ k.item[j].key = key
      BY <3>1 DEF ItemsOf
    <3>3. k.item[j].pool = p
      BY <1>1, <3>1, <3>2 DEF PoolsOk, HoldsItems
    <3>4. k.pool[p].hash = hash
      BY <3>2, <3>3 DEF PoolsOk, HoldsItems
    <3>5. p \notin k.pools
      BY <3>1 DEF PoolsOk, PlacesPools
    <3> QED
      BY <3>1, <3>4, <3>5
  <2> QED
    BY <2>1, <2>2
<1>3. Attach(k, i) = d
  BY DEF Attach
<1> HIDE DEF p
<1>4. /\ d.item = [k.item EXCEPT ![i] = Seated(k.item[i], p)]
      /\ d.cache = k.cache /\ d.free = k.free
      /\ d.pool = [k.pool EXCEPT ![p] = [hash |-> hash,
                      items |-> InsertHead(k.pool[p].items, i), count |-> k.pool[p].count + 1]]
      /\ d.pools = k.pools \ {p}
      /\ d.bucket = [k.bucket EXCEPT ![b] = @ \cup {p}]
      /\ d = [x \in DOMAIN k |-> d[x]]
  <2>1. k \in Ka /\ i \in Items /\ p \in Items /\ hash \in Nat
    BY <1>1, <1>2
  <2> HIDE DEF hash
  <2> QED
    BY ONLY <2>1, AttachShape
<1>5. /\ k.pool[p] \in Pool /\ WellFormed(k.pool[p].items)
      /\ k.item \in [Items -> Item] /\ k.pool \in [Items -> Pool]
      /\ k.bucket \in [Buckets -> SUBSET Items] /\ k.pools \in SUBSET Items
      /\ k.cache \in QueuesOver(Items) /\ k.free \in SUBSET Items
      /\ DOMAIN k = {"item", "cache", "free", "pool", "pools", "bucket"}
  BY <1>1, <1>2 DEF PoolsOk, PlacesPools, Ka
<1>6. i \notin Members(k, p)
  BY <1>2 DEF ItemsOf
<1>7. /\ InsertHead(k.pool[p].items, i) \in QueuesOver(Items)
      /\ WellFormed(InsertHead(k.pool[p].items, i))
      /\ InsertHead(k.pool[p].items, i).items = Members(k, p) \cup {i}
  BY <1>5, <1>6, InsertHeadWF DEF Members, Pool
<1>8. \A x, y : <<x, y>> \in InsertHead(k.pool[p].items, i).before <=>
                    <<x, y>> \in k.pool[p].items.before \/ (x = i /\ y \in Members(k, p))
  BY DEF InsertHead, Members
<1>9. /\ k.pool[p].count = Cardinality(Members(k, p))
      /\ Cardinality(Members(k, p) \cup {i}) = k.pool[p].count + 1
      /\ k.pool[p].count + 1 \in Nat
  <2>1. Members(k, p) \subseteq Items
    BY <1>1, <1>2 DEF ItemsOf
  <2>2. IsFiniteSet(Members(k, p)) /\ k.pool[p].count = Cardinality(Members(k, p))
    BY <1>2, <2>1, ItemsFinite DEF PoolsOk, PlacesPools
  <2>3. Cardinality(Members(k, p) \cup {i}) = Cardinality(Members(k, p)) + 1
    BY <1>6, <2>2, FS_AddElement
  <2> QED
    BY <1>5, <2>2, <2>3 DEF Pool
<1> HIDE DEF d, b, hash
<1>10. d \in Ka
  <2>1. d.item \in [Items -> Item]
    BY <1>2, <1>4, <1>5 DEF Item, Seated
  <2>2. [hash |-> hash, items |-> InsertHead(k.pool[p].items, i),
         count |-> k.pool[p].count + 1] \in Pool
    BY <1>1, <1>7, <1>9 DEF Pool
  <2>3. d.pool \in [Items -> Pool]
    BY <1>2, <1>4, <1>5, <2>2
  <2>4. d.bucket \in [Buckets -> SUBSET Items] /\ d.pools \in SUBSET Items
    BY <1>1, <1>2, <1>4, <1>5
  <2> QED
    BY <1>4, <1>5, <2>1, <2>3, <2>4 DEF Ka
<1>11. /\ \A j \in Items \ {i} : d.item[j] = k.item[j]
       /\ d.item[i].pool = p /\ d.item[i].key = key
       /\ \A q \in Items \ {p} : d.pool[q] = k.pool[q]
       /\ d.pool[p].hash = hash
       /\ d.pool[p].items = InsertHead(k.pool[p].items, i)
       /\ d.pool[p].count = k.pool[p].count + 1
  BY <1>2, <1>4, <1>5 DEF Seated
<1>12. /\ \A q \in Items : q \in d.pools <=> q \in k.pools /\ q # p
       /\ \A q \in Items, c \in Buckets : q \in d.bucket[c] <=>
              q \in k.bucket[c] \/ (q = p /\ c = b)
  BY <1>1, <1>2, <1>4, <1>5
<1>13. \A q \in Items : Members(d, q) = IF q = p THEN Members(k, p) \cup {i} ELSE Members(k, q)
  BY <1>7, <1>11 DEF Members
<1> HIDE DEF key
<1>14. HoldsItems(d, P \cup {i})
  <2>1. \A j, q \in Items : j \in Members(d, q) <=> j \in P \cup {i} /\ d.item[j].pool = q
    <3> SUFFICES ASSUME NEW j \in Items, NEW q \in Items
                 PROVE  j \in Members(d, q) <=> j \in P \cup {i} /\ d.item[j].pool = q
      OBVIOUS
    <3>1. j \in Members(k, q) <=> j \in P /\ k.item[j].pool = q
      BY DEF PoolsOk, HoldsItems
    <3> QED
      BY <1>2, <1>11, <1>13, <3>1
  <2>2. \A j \in P : j # i /\ j \in Items
                     /\ k.item[j].pool \in Items /\ k.item[j].key \in Key
                     /\ k.pool[k.item[j].pool].hash = Hash[k.item[j].key]
    BY <1>1 DEF PoolsOk, HoldsItems
  <2>3. \A j \in P : k.item[j].pool = p <=> k.item[j].key = key
    BY <1>1, <1>2, <2>2 DEF PoolsOk, HoldsItems, ItemsOf
  <2>4. \A j \in P \cup {i} : /\ d.item[j].pool \in Items /\ d.item[j].key \in Key
                              /\ d.pool[d.item[j].pool].hash = Hash[d.item[j].key]
    BY <1>2, <1>11, <2>2, <2>3 DEF key, hash
  <2>5. \A j, l \in P \cup {i} : d.item[j].key = d.item[l].key <=> d.item[j].pool = d.item[l].pool
    <3>1. \A j, l \in P : k.item[j].key = k.item[l].key <=> k.item[j].pool = k.item[l].pool
      BY DEF PoolsOk, HoldsItems
    <3> QED
      BY <1>11, <2>2, <2>3, <3>1
  <2> QED
    BY <1>1, <2>1, <2>4, <2>5 DEF HoldsItems
<1>15. InOrder(d, P \cup {i})
  <2> SUFFICES ASSUME NEW q \in Items, NEW j \in Members(d, q), NEW l \in Members(d, q)
               PROVE  <<j, l>> \in d.pool[q].items.before <=> <<j, l>> \in d.cache.before
    BY DEF InOrder
  <2>1. \A x, y \in Members(k, q) :
            <<x, y>> \in k.pool[q].items.before <=> <<x, y>> \in k.cache.before
    BY DEF PoolsOk, InOrder
  <2>2. CASE q # p
    BY <1>4, <1>11, <1>13, <2>1, <2>2
  <2>3. CASE q = p
    <3>1. \A x : <<x, i>> \notin k.pool[p].items.before /\ <<i, x>> \notin k.pool[p].items.before
      BY <1>5, <1>6 DEF WellFormed, Members
    <3>2. Members(k, p) \subseteq P
      BY <1>2 DEF ItemsOf
    <3> QED
      <4>1. d.pool[q].items.before = InsertHead(k.pool[p].items, i).before /\ d.cache = k.cache
        BY <1>4, <1>11, <2>3
      <4>2. Members(d, q) = Members(k, p) \cup {i}
        BY <1>13, <2>3
      <4>3. CASE j = i
        BY <1>6, <1>8, <3>1, <3>2, <4>1, <4>2, <4>3
      <4>4. CASE j # i /\ l = i
        BY <1>8, <3>1, <3>2, <4>1, <4>2, <4>4
      <4>5. CASE j # i /\ l # i
        BY <1>8, <2>1, <2>3, <4>1, <4>2, <4>5
      <4> QED
        BY <4>3, <4>4, <4>5
  <2> QED
    BY <2>2, <2>3
<1>16. PlacesPools(d)
  <2> SUFFICES ASSUME NEW q \in Items
               PROVE  /\ WellFormed(d.pool[q].items)
                      /\ d.pool[q].count = Cardinality(Members(d, q))
                      /\ q \in d.pools <=> Members(d, q) = {}
                      /\ \A c \in Buckets : q \in d.bucket[c] <=>
                             Members(d, q) # {} /\ c = BucketOf(d.pool[q].hash)
    BY DEF PlacesPools
  <2>1. /\ WellFormed(k.pool[q].items)
        /\ k.pool[q].count = Cardinality(Members(k, q))
        /\ q \in k.pools <=> Members(k, q) = {}
        /\ \A c \in Buckets : q \in k.bucket[c] <=>
               Members(k, q) # {} /\ c = BucketOf(k.pool[q].hash)
    BY DEF PoolsOk, PlacesPools
  <2>2. CASE q # p
    BY <1>11, <1>12, <1>13, <2>1, <2>2
  <2>3. CASE q = p
    <3>1. WellFormed(d.pool[q].items) /\ d.pool[q].count = Cardinality(Members(d, q))
      BY <1>7, <1>9, <1>11, <1>13, <2>3
    <3>2. q \in d.pools <=> Members(d, q) = {}
      BY <1>12, <1>13, <2>3
    <3>3. \A c \in Buckets : q \in d.bucket[c] <=>
                             Members(d, q) # {} /\ c = BucketOf(d.pool[q].hash)
      BY <1>2, <1>11, <1>12, <1>13, <2>1, <2>3 DEF b
    <3> QED
      BY <3>1, <3>2, <3>3
  <2> QED
    BY <2>2, <2>3
<1> QED
  BY <1>2, <1>3, <1>4, <1>10, <1>14, <1>15, <1>16 DEF PoolsOk

\* The pools do not depend on the items that they do not hold, nor on where
\* those are in the cache
LEMMA SamePools ==
    ASSUME NEW k, NEW P, PoolsOk(k, P), NEW d \in Ka,
           d.pool = k.pool, d.pools = k.pools, d.bucket = k.bucket,
           \A j \in P : d.item[j] = k.item[j],
           \A i, j \in P : <<i, j>> \in d.cache.before <=> <<i, j>> \in k.cache.before
    PROVE  PoolsOk(d, P)
<1>1. \A p : Members(d, p) = Members(k, p)
  BY DEF Members
<1>2. HoldsItems(d, P)
  BY <1>1 DEF PoolsOk, HoldsItems
<1>3. \A p \in Items : Members(k, p) \subseteq P
  <2> SUFFICES ASSUME NEW p \in Items, NEW i \in Members(k, p) PROVE i \in P
    OBVIOUS
  <2>1. i \in Items
    BY DEF PoolsOk, Ka, Pool, QueuesOver, Members
  <2> QED
    BY <2>1 DEF PoolsOk, HoldsItems
<1>4. InOrder(d, P)
  BY <1>1, <1>3 DEF PoolsOk, InOrder
<1>5. PlacesPools(d)
  BY <1>1 DEF PoolsOk, PlacesPools
<1> QED
  BY <1>2, <1>4, <1>5 DEF PoolsOk

\* An item is taken out of the cache and of its pool
LEMMA UncachedRight ==
    ASSUME NEW k, CacheOk(k, {}), NEW i \in k.cache.items
    PROVE  LET d == Uncached(k, i) IN
           /\ CacheOk(d, {i})
           /\ d.cache = Remove(k.cache, {i}) /\ d.free = k.free
           /\ \A j \in Items \ {i} : d.item[j] = k.item[j]
<1> DEFINE e == Detach(k, i)
           d == Uncached(k, i)
           P == k.cache.items \ {i}
<1>1. PoolsOk(k, k.cache.items) /\ k \in Ka /\ WellFormed(k.cache) /\ k.cache \in QueuesOver(Items)
      /\ k.cache.items \subseteq Items
  BY DEF CacheOk, PoolsOk, Ka, QueuesOver
<1>2. /\ PoolsOk(e, P) /\ e \in Ka
      /\ e.cache = k.cache /\ e.free = k.free
      /\ e.item = [k.item EXCEPT ![i] = Loose(k.item[i])]
  <2> HIDE DEF e, P
  <2>1. /\ PoolsOk(e, P) /\ e.cache = k.cache /\ e.free = k.free
        /\ e.item = [k.item EXCEPT ![i] = Loose(k.item[i])]
    BY <1>1, DetachRight DEF e, P
  <2> QED
    BY <2>1 DEF PoolsOk
<1>3. /\ Remove(k.cache, {i}) \in QueuesOver(Items) /\ WellFormed(Remove(k.cache, {i}))
      /\ Remove(k.cache, {i}).items = P
  BY <1>1, RemoveWF
<1>4. d = [e EXCEPT !.cache = Remove(k.cache, {i})]
  BY <1>2 DEF Uncached
<1> HIDE DEF e, d, P
<1>5. /\ d \in Ka /\ d.cache = Remove(k.cache, {i}) /\ d.free = k.free /\ d.item = e.item
      /\ d.pool = e.pool /\ d.pools = e.pools /\ d.bucket = e.bucket
  BY <1>2, <1>3, <1>4 DEF Ka
<1>6. \A x, y \in P : <<x, y>> \in d.cache.before <=> <<x, y>> \in e.cache.before
  <2>1. \A x, y \in P : x # i /\ y # i
    BY DEF P
  <2>2. \A x, y : <<x, y>> \in d.cache.before <=> <<x, y>> \in k.cache.before /\ x # i /\ y # i
    BY <1>5 DEF Remove
  <2> QED
    BY <1>2, <2>1, <2>2
<1>7. PoolsOk(d, P)
  BY <1>2, <1>5, <1>6, SamePools
<1>8. k.free = Items \ k.cache.items
  BY DEF CacheOk
<1>9. \A j \in Items \ {i} : d.item[j] = k.item[j]
  BY <1>1, <1>2, <1>5 DEF Ka
<1> QED
  BY <1>1, <1>3, <1>5, <1>7, <1>8, <1>9 DEF CacheOk, P, d

\* An item of the cache is free again
LEMMA FreedRight ==
    ASSUME NEW k, CacheOk(k, {}), NEW i \in k.cache.items
    PROVE  LET d == Freed(k, i) IN
           /\ CacheOk(d, {}) /\ d.cache = Remove(k.cache, {i})
           /\ \A j \in Items \ {i} : d.item[j] = k.item[j]
<1> DEFINE e == Uncached(k, i)
           d == Freed(k, i)
<1>1. /\ CacheOk(e, {i}) /\ e.cache = Remove(k.cache, {i})
      /\ \A j \in Items \ {i} : e.item[j] = k.item[j]
  BY UncachedRight
<1>2. e \in Ka /\ i \in Items /\ NoItem \in Item
  BY <1>1 DEF CacheOk, PoolsOk, NoItem, Item
<1>3. d = [e EXCEPT !.item[i] = NoItem, !.free = @ \cup {i}]
  BY DEF Freed
<1> HIDE DEF e, d
<1>4. /\ d.item = [e.item EXCEPT ![i] = NoItem] /\ d.free = e.free \cup {i}
      /\ d.cache = e.cache /\ d.pool = e.pool /\ d.pools = e.pools /\ d.bucket = e.bucket
      /\ d = [x \in DOMAIN e |-> d[x]]
  BY <1>2, <1>3 DEF Ka
<1>5. d \in Ka
  <2>1. e.item \in [Items -> Item] /\ e.free \in SUBSET Items
        /\ DOMAIN e = {"item", "cache", "free", "pool", "pools", "bucket"}
    BY <1>2 DEF Ka
  <2>2. d.item \in [Items -> Item] /\ d.free \in SUBSET Items
    BY <1>2, <1>4, <2>1
  <2> QED
    BY <1>2, <1>4, <2>1, <2>2 DEF Ka
<1>6. e.cache.items \subseteq Items \ {i} /\ \A j \in Items \ {i} : d.item[j] = e.item[j]
  BY <1>1, <1>2, <1>4 DEF CacheOk, Ka, QueuesOver
<1>7. PoolsOk(d, e.cache.items)
  BY <1>1, <1>4, <1>5, <1>6, SamePools DEF CacheOk
<1>8. e.free = Items \ (e.cache.items \cup {i})
  BY <1>1 DEF CacheOk
<1> QED
  BY <1>1, <1>2, <1>4, <1>6, <1>7, <1>8 DEF CacheOk, d

\* An item is taken to save a connection with
LEMMA EmptiedRight ==
    ASSUME NEW k, CacheOk(k, {}), NEW i \in Items
    PROVE  LET d == Emptied(k, i) IN
           /\ CacheOk(d, {i}) /\ \A j \in Items \ {i} : d.item[j] = k.item[j]
           /\ d.cache = IF i \in k.free THEN k.cache ELSE Remove(k.cache, {i})
<1>1. CASE i \notin k.free
  <2>1. i \in k.cache.items
    BY <1>1 DEF CacheOk
  <2> QED
    BY <1>1, <2>1, UncachedRight DEF Emptied
<1>2. CASE i \in k.free
  <2> DEFINE d == Emptied(k, i)
  <2>1. d = [k EXCEPT !.free = @ \ {i}]
    BY <1>2 DEF Emptied
  <2> HIDE DEF d
  <2>2. k \in Ka /\ k.free = Items \ k.cache.items
    BY DEF CacheOk, PoolsOk
  <2>3. /\ d \in Ka /\ d.cache = k.cache /\ d.item = k.item /\ d.free = k.free \ {i}
        /\ d.pool = k.pool /\ d.pools = k.pools /\ d.bucket = k.bucket
    BY <2>1, <2>2 DEF Ka
  <2>4. PoolsOk(d, k.cache.items)
    BY <2>3, SamePools DEF CacheOk
  <2> QED
    BY <1>2, <2>2, <2>3, <2>4 DEF CacheOk, d
<1> QED
  BY <1>1, <1>2

\* A connection is saved in an item, the newest of the cache
LEMMA SavedRight ==
    ASSUME NEW k, NEW i \in Items, CacheOk(k, {i}), NEW key \in Key, NEW c \in Conn
    PROVE  LET d == Saved(k, i, key, c) IN
           /\ CacheOk(d, {}) /\ d.cache = InsertHead(k.cache, i)
           /\ d.item[i].key = key /\ d.item[i].conn = c
           /\ \A j \in Items \ {i} : d.item[j] = k.item[j]
<1> DEFINE e == [k EXCEPT !.item[i] = [key |-> key, conn |-> c, pool |-> Nil],
                          !.cache = InsertHead(@, i)]
           d == Attach(e, i)
           P == k.cache.items
<1>1. /\ k \in Ka /\ WellFormed(k.cache) /\ k.cache \in QueuesOver(Items) /\ i \notin P
      /\ P \subseteq Items /\ k.free = Items \ (P \cup {i}) /\ k.item \in [Items -> Item]
      /\ PoolsOk(k, P) /\ DOMAIN k = {"item", "cache", "free", "pool", "pools", "bucket"}
  BY DEF CacheOk, PoolsOk, Ka, QueuesOver
<1>2. /\ InsertHead(k.cache, i) \in QueuesOver(Items) /\ WellFormed(InsertHead(k.cache, i))
      /\ InsertHead(k.cache, i).items = P \cup {i}
  BY <1>1, InsertHeadWF
<1>3. [key |-> key, conn |-> c, pool |-> Nil] \in Item
  BY DEF Item
<1>4. /\ e.item = [k.item EXCEPT ![i] = [key |-> key, conn |-> c, pool |-> Nil]]
      /\ e.cache = InsertHead(k.cache, i) /\ e.free = k.free
      /\ e.pool = k.pool /\ e.pools = k.pools /\ e.bucket = k.bucket
      /\ e = [x \in DOMAIN k |-> e[x]]
  BY <1>1 DEF Ka
<1> HIDE DEF e, P
<1>5. e.item \in [Items -> Item]
  BY <1>1, <1>3, <1>4
<1>6. e \in Ka
  BY <1>1, <1>2, <1>4, <1>5 DEF Ka
<1>7. \A x, y : <<x, y>> \in e.cache.before <=>
                    <<x, y>> \in k.cache.before \/ (x = i /\ y \in P)
  BY <1>4 DEF InsertHead, P
<1>8. \A x : <<x, i>> \notin k.cache.before /\ <<i, x>> \notin k.cache.before
  BY <1>1 DEF WellFormed, P
<1>9. \A x, y \in P : <<x, y>> \in e.cache.before <=> <<x, y>> \in k.cache.before
  <2> SUFFICES ASSUME NEW x \in P, NEW y \in P
               PROVE  <<x, y>> \in e.cache.before <=> <<x, y>> \in k.cache.before
    OBVIOUS
  <2>1. x # i
    BY <1>1
  <2> QED
    BY <1>7, <2>1
<1>10. \A j \in Items \ {i} : e.item[j] = k.item[j]
  BY <1>1, <1>4
<1>11. PoolsOk(e, P)
  BY <1>1, <1>4, <1>6, <1>9, <1>10, SamePools
<1>12. /\ e.item[i] = [key |-> key, conn |-> c, pool |-> Nil]
       /\ \A j \in P : <<i, j>> \in e.cache.before /\ <<j, i>> \notin e.cache.before
       /\ <<i, i>> \notin e.cache.before
  BY <1>1, <1>4, <1>7, <1>8
<1>13. /\ PoolsOk(d, P \cup {i}) /\ d.cache = e.cache /\ d.free = e.free
       /\ \E p \in Items : d.item = [e.item EXCEPT ![i] = Seated(e.item[i], p)]
  <2> HIDE DEF d
  <2>1. e.item[i].key \in Key /\ i \in Items \ P
    BY <1>1, <1>12
  <2> QED
    BY <1>11, <1>12, <2>1, AttachRight DEF d
<1> HIDE DEF d
<1>14. /\ d.item[i].key = key /\ d.item[i].conn = c
       /\ \A j \in Items \ {i} : d.item[j] = k.item[j]
  <2>1. PICK p \in Items : d.item = [e.item EXCEPT ![i] = Seated(e.item[i], p)]
    BY <1>13
  <2>2. d.item[i] = Seated(e.item[i], p) /\ \A j \in Items \ {i} : d.item[j] = e.item[j]
    BY <1>5, <2>1
  <2> QED
    BY <1>10, <1>12, <2>2 DEF Seated
<1>15. CacheOk(d, {})
  <2>1. d.cache = InsertHead(k.cache, i) /\ d.cache.items = P \cup {i} /\ d.free = k.free
    BY <1>2, <1>4, <1>13
  <2> QED
    BY <1>1, <1>2, <1>13, <2>1 DEF CacheOk
<1>16. Saved(k, i, key, c) = d
  BY DEF Saved, d, e
<1> QED
  BY <1>4, <1>13, <1>14, <1>15, <1>16

-----------------------------------------------------------------------------
(* The queue of idle connections that a cache stands for.                  *)

\* No connection is kept twice
Distinct(k) == \A i, j \in k.cache.items : k.item[i].conn = k.item[j].conn => i = j

LEMMA EntryDistinct ==
    ASSUME NEW k, Distinct(k), NEW i \in k.cache.items, NEW j \in k.cache.items
    PROVE  Entry(k, i) = Entry(k, j) <=> i = j
<1>1. Entry(k, i) = Entry(k, j) => k.item[i].conn = k.item[j].conn
  BY DEF Entry
<1> QED
  BY <1>1 DEF Distinct

\* The order of the connections is that of their items
LEMMA EntryOrder ==
    ASSUME NEW k, CacheOk(k, {}), Distinct(k), NEW i \in k.cache.items, NEW j \in k.cache.items
    PROVE  <<Entry(k, i), Entry(k, j)>> \in IdleQueue(k).before <=> <<i, j>> \in k.cache.before
<1>1. k.cache \in QueuesOver(Items) /\ WellFormed(k.cache)
  BY DEF CacheOk, PoolsOk, Ka
<1>2. ASSUME <<i, j>> \in k.cache.before
      PROVE  <<Entry(k, i), Entry(k, j)>> \in IdleQueue(k).before
  BY <1>2 DEF IdleQueue
<1>3. ASSUME <<Entry(k, i), Entry(k, j)>> \in IdleQueue(k).before
      PROVE  <<i, j>> \in k.cache.before
  <2>1. PICK p \in k.cache.before :
            <<Entry(k, i), Entry(k, j)>> = <<Entry(k, p[1]), Entry(k, p[2])>>
    BY <1>3 DEF IdleQueue
  <2>2. Entry(k, i) = Entry(k, p[1]) /\ Entry(k, j) = Entry(k, p[2])
    BY <2>1
  <2>3. p[1] \in k.cache.items /\ p[2] \in k.cache.items /\ p = <<p[1], p[2]>>
    BY <1>1 DEF WellFormed, QueuesOver
  <2> QED
    BY <2>2, <2>3, EntryDistinct
<1> QED
  BY <1>2, <1>3

\* The links between connections are between those of the cache
LEMMA OrderEntries ==
    ASSUME NEW k, CacheOk(k, {}), NEW e \in IdleQueue(k).before
    PROVE  \E i, j \in k.cache.items : /\ <<i, j>> \in k.cache.before
                                       /\ e = <<Entry(k, i), Entry(k, j)>>
<1>1. k.cache \in QueuesOver(Items) /\ WellFormed(k.cache)
  BY DEF CacheOk, PoolsOk, Ka
<1>2. PICK p \in k.cache.before : e = <<Entry(k, p[1]), Entry(k, p[2])>>
  BY DEF IdleQueue
<1>3. p[1] \in k.cache.items /\ p[2] \in k.cache.items /\ p = <<p[1], p[2]>>
  BY <1>1 DEF WellFormed, QueuesOver
<1> QED
  BY <1>2, <1>3

LEMMA EntriesCount ==
    ASSUME NEW k, CacheOk(k, {}), Distinct(k), NEW S \in SUBSET k.cache.items
    PROVE  IsFiniteSet(Entries(k, S)) /\ Cardinality(Entries(k, S)) = Cardinality(S)
<1> DEFINE f == [i \in S |-> Entry(k, i)]
<1>1. \A i, j \in S : Entry(k, i) = Entry(k, j) => i = j
  BY EntryDistinct
<1>2. f \in Bijection(S, Entries(k, S))
  BY <1>1 DEF Bijection, Injection, Surjection, IsInjective, Entries
<1>3. IsFiniteSet(S)
  <2>1. S \subseteq Items
    BY DEF CacheOk, PoolsOk, Ka, QueuesOver
  <2> QED
    BY <2>1, ItemsFinite
<1> QED
  BY <1>2, <1>3, FS_Bijection DEF ExistsBijection

\* What is removed from the cache is removed from the idle connections
LEMMA IdleRemoved ==
    ASSUME NEW k, CacheOk(k, {}), Distinct(k), NEW i \in k.cache.items,
           NEW d, d.cache = Remove(k.cache, {i}), \A j \in Items \ {i} : d.item[j] = k.item[j]
    PROVE  IdleQueue(d) = Remove(IdleQueue(k), {Entry(k, i)}) /\ Distinct(d)
<1>1. k.cache.items \subseteq Items /\ WellFormed(k.cache) /\ k.cache \in QueuesOver(Items)
  BY DEF CacheOk, PoolsOk, Ka, QueuesOver
<1>2. /\ d.cache.items = k.cache.items \ {i}
      /\ \A x, y : <<x, y>> \in d.cache.before <=> <<x, y>> \in k.cache.before /\ x # i /\ y # i
  BY DEF Remove
<1>3. \A j \in d.cache.items : Entry(d, j) = Entry(k, j) /\ d.item[j] = k.item[j]
  BY <1>1, <1>2 DEF Entry
<1>4. Distinct(d)
  BY <1>2, <1>3 DEF Distinct
<1>5. IdleQueue(d).items = IdleQueue(k).items \ {Entry(k, i)}
  <2>1. \A e \in IdleQueue(d).items : e \in IdleQueue(k).items /\ e # Entry(k, i)
    BY <1>2, <1>3, EntryDistinct DEF IdleQueue, Entries
  <2>2. \A e \in IdleQueue(k).items : e # Entry(k, i) => e \in IdleQueue(d).items
    BY <1>2, <1>3 DEF IdleQueue, Entries
  <2> QED
    BY <2>1, <2>2
<1>6. ASSUME NEW e \in IdleQueue(d).before
      PROVE  e \in IdleQueue(k).before /\ e[1] # Entry(k, i) /\ e[2] # Entry(k, i)
  <2>1. PICK p \in d.cache.before : e = <<Entry(d, p[1]), Entry(d, p[2])>>
    BY DEF IdleQueue
  <2>2. p \in k.cache.before /\ p[1] # i /\ p[2] # i
    BY DEF Remove
  <2>3. p[1] \in k.cache.items /\ p[2] \in k.cache.items
    BY <1>1, <2>2 DEF WellFormed
  <2>4. e = <<Entry(k, p[1]), Entry(k, p[2])>>
    BY <1>2, <1>3, <2>1, <2>2, <2>3
  <2>5. e \in IdleQueue(k).before
    BY <2>2, <2>4 DEF IdleQueue
  <2>6. Entry(k, p[1]) # Entry(k, i) /\ Entry(k, p[2]) # Entry(k, i)
    BY <2>2, <2>3, EntryDistinct
  <2> QED
    BY <2>4, <2>5, <2>6
<1>7. ASSUME NEW e \in IdleQueue(k).before, e[1] # Entry(k, i), e[2] # Entry(k, i)
      PROVE  e \in IdleQueue(d).before
  <2>1. PICK x, y \in k.cache.items : <<x, y>> \in k.cache.before /\ e = <<Entry(k, x), Entry(k, y)>>
    BY OrderEntries
  <2>2. x # i /\ y # i
    BY <1>7, <2>1
  <2>3. <<x, y>> \in d.cache.before /\ x \in d.cache.items /\ y \in d.cache.items
    BY <1>2, <2>1, <2>2
  <2>4. e = <<Entry(d, x), Entry(d, y)>>
    BY <1>3, <2>1, <2>3
  <2> QED
    BY <2>3, <2>4 DEF IdleQueue
<1>8. IdleQueue(d).before =
         {e \in IdleQueue(k).before : e[1] \notin {Entry(k, i)} /\ e[2] \notin {Entry(k, i)}}
  BY <1>6, <1>7
<1> QED
  BY <1>4, <1>5, <1>8 DEF Remove, IdleQueue

\* ... and what is saved is the newest of them
LEMMA IdleInserted ==
    ASSUME NEW k, CacheOk(k, {}) \/ \E i \in Items : CacheOk(k, {i}), Distinct(k),
           NEW i \in Items \ k.cache.items,
           NEW d, d.cache = InsertHead(k.cache, i), \A j \in Items \ {i} : d.item[j] = k.item[j],
           \A j \in k.cache.items : k.item[j].conn # d.item[i].conn
    PROVE  IdleQueue(d) = InsertHead(IdleQueue(k), Entry(d, i)) /\ Distinct(d)
<1>1. k.cache.items \subseteq Items /\ WellFormed(k.cache) /\ k.cache \in QueuesOver(Items)
  BY DEF CacheOk, PoolsOk, Ka, QueuesOver
<1>2. /\ d.cache.items = k.cache.items \cup {i}
      /\ d.cache.before = k.cache.before \cup ({i} \X k.cache.items)
  BY DEF InsertHead
<1>3. \A j \in k.cache.items : Entry(d, j) = Entry(k, j) /\ d.item[j] = k.item[j]
  BY <1>1 DEF Entry
<1>4. Distinct(d)
  BY <1>2, <1>3 DEF Distinct
<1>5. IdleQueue(d).items = IdleQueue(k).items \cup {Entry(d, i)}
  <2>1. \A e \in IdleQueue(d).items : e \in IdleQueue(k).items \/ e = Entry(d, i)
    BY <1>2, <1>3 DEF IdleQueue, Entries
  <2>2. \A e \in IdleQueue(k).items : e \in IdleQueue(d).items
    BY <1>2, <1>3 DEF IdleQueue, Entries
  <2>3. Entry(d, i) \in IdleQueue(d).items
    BY <1>2 DEF IdleQueue, Entries
  <2> QED
    BY <2>1, <2>2, <2>3
<1>6. ASSUME NEW e \in IdleQueue(d).before
      PROVE  e \in IdleQueue(k).before \cup ({Entry(d, i)} \X IdleQueue(k).items)
  <2>1. PICK p \in d.cache.before : e = <<Entry(d, p[1]), Entry(d, p[2])>>
    BY DEF IdleQueue
  <2>2. CASE p \in k.cache.before
    <3>1. p[1] \in k.cache.items /\ p[2] \in k.cache.items
      BY <1>1, <2>2 DEF WellFormed
    <3>2. e = <<Entry(k, p[1]), Entry(k, p[2])>>
      BY <1>3, <2>1, <3>1
    <3> QED
      BY <2>2, <3>2 DEF IdleQueue
  <2>3. CASE p \in {i} \X k.cache.items
    <3>1. p[1] = i /\ p[2] \in k.cache.items
      BY <2>3
    <3>2. e = <<Entry(d, i), Entry(k, p[2])>>
      BY <1>3, <2>1, <3>1
    <3> QED
      BY <3>1, <3>2 DEF IdleQueue, Entries
  <2> QED
    BY <1>2, <2>2, <2>3
<1>7. ASSUME NEW e \in IdleQueue(k).before PROVE e \in IdleQueue(d).before
  <2>1. PICK p \in k.cache.before : e = <<Entry(k, p[1]), Entry(k, p[2])>>
    BY DEF IdleQueue
  <2>2. p[1] \in k.cache.items /\ p[2] \in k.cache.items /\ p \in d.cache.before
    BY <1>1, <1>2 DEF WellFormed
  <2>3. e = <<Entry(d, p[1]), Entry(d, p[2])>>
    BY <1>3, <2>1, <2>2
  <2> QED
    BY <2>2, <2>3 DEF IdleQueue
<1>8. ASSUME NEW e \in {Entry(d, i)} \X IdleQueue(k).items PROVE e \in IdleQueue(d).before
  <2>1. PICK j \in k.cache.items : e = <<Entry(d, i), Entry(k, j)>>
    BY DEF IdleQueue, Entries
  <2>2. <<i, j>> \in d.cache.before /\ e = <<Entry(d, i), Entry(d, j)>>
    BY <1>2, <1>3, <2>1
  <2> QED
    BY <2>2 DEF IdleQueue
<1>9. IdleQueue(d).before = IdleQueue(k).before \cup ({Entry(d, i)} \X IdleQueue(k).items)
  BY <1>6, <1>7, <1>8
<1> QED
  BY <1>4, <1>5, <1>9 DEF InsertHead, IdleQueue

\* The entries with a key, and the ends of a set of entries
Keyed(k, key) == {e \in IdleQueue(k).items : e.key = key}
NewestOf(Q, E) == CHOOSE e \in E : \A f \in E \ {e} : <<e, f>> \in Q.before
OldestOf(Q, E) == CHOOSE e \in E : \A f \in E \ {e} : <<f, e>> \in Q.before

\* The connections of a pool are those to its peer, and its ends are the
\* newest and the oldest of them
LEMMA IdleOfPool ==
    ASSUME NEW k, CacheOk(k, {}), Distinct(k), NEW p \in Items, Members(k, p) # {},
           NEW key, Members(k, p) = ItemsOf(k, k.cache.items, key)
    PROVE  LET E == Keyed(k, key)
               h == HeadOf(k.pool[p].items)
               l == LastOf(k.pool[p].items)
           IN  /\ E = Entries(k, Members(k, p)) /\ E # {} /\ Cardinality(E) = k.pool[p].count
               /\ h \in k.cache.items /\ k.item[h].key = key
               /\ Entry(k, h) = NewestOf(IdleQueue(k), E)
               /\ l \in k.cache.items /\ k.item[l].key = key
               /\ Entry(k, l) = OldestOf(IdleQueue(k), E)
<1> DEFINE E == Keyed(k, key)
           h == HeadOf(k.pool[p].items)
           l == LastOf(k.pool[p].items)
           M == Members(k, p)
<1>1. /\ M \subseteq k.cache.items /\ k.pool[p].items \in QueuesOver(Items)
      /\ WellFormed(k.pool[p].items) /\ k.pool[p].items.items = M
      /\ WellFormed(k.cache) /\ k.pool[p].count = Cardinality(M)
      /\ \A i, j \in M : <<i, j>> \in k.pool[p].items.before <=> <<i, j>> \in k.cache.before
  BY DEF CacheOk, PoolsOk, PlacesPools, InOrder, Ka, Pool, Members, ItemsOf
<1>2. E = Entries(k, M)
  <2>1. \A i : Entry(k, i).key = k.item[i].key
    BY DEF Entry
  <2> QED
    BY <2>1 DEF IdleQueue, Entries, Keyed, ItemsOf
<1>3. /\ h \in M /\ \A j \in M \ {h} : <<h, j>> \in k.cache.before
      /\ l \in M /\ \A j \in M \ {l} : <<j, l>> \in k.cache.before
  <2>1. /\ h \in M /\ IsHead(k.pool[p].items, h)
        /\ l \in M /\ IsLast(k.pool[p].items, l)
    BY <1>1, EndsExist
  <2> HIDE DEF h, l, M
  <2> QED
    BY <1>1, <2>1 DEF IsHead, IsLast
<1> HIDE DEF E, h, l, M
<1>4. \A i, j \in M : <<Entry(k, i), Entry(k, j)>> \in IdleQueue(k).before <=>
                          <<i, j>> \in k.cache.before
  BY <1>1, EntryOrder
<1>5. \A i, j \in M : ~(<<i, j>> \in k.cache.before /\ <<j, i>> \in k.cache.before)
  BY <1>1 DEF WellFormed
<1>6. \A e \in E : \E i \in M : e = Entry(k, i)
  BY <1>2 DEF Entries
<1>7. \A i \in M : Entry(k, i) \in E
  BY <1>2 DEF Entries
<1>8. \A f \in E \ {Entry(k, h)} : <<Entry(k, h), f>> \in IdleQueue(k).before
  BY <1>3, <1>4, <1>6
<1>9. \A f \in E \ {Entry(k, l)} : <<f, Entry(k, l)>> \in IdleQueue(k).before
  BY <1>3, <1>4, <1>6
<1>10. \A e, f \in E : ~(<<e, f>> \in IdleQueue(k).before /\ <<f, e>> \in IdleQueue(k).before)
  BY <1>4, <1>5, <1>6
<1>11. Entry(k, h) = NewestOf(IdleQueue(k), E)
  <2> DEFINE g == NewestOf(IdleQueue(k), E)
  <2>1. Entry(k, h) \in E
    BY <1>3, <1>7
  <2>2. g \in E /\ \A f \in E \ {g} : <<g, f>> \in IdleQueue(k).before
    BY <1>8, <2>1 DEF NewestOf
  <2> HIDE DEF g
  <2>3. g = Entry(k, h)
    BY <1>8, <1>10, <2>1, <2>2
  <2> QED
    BY <2>3 DEF g
<1>12. Entry(k, l) = OldestOf(IdleQueue(k), E)
  <2> DEFINE g == OldestOf(IdleQueue(k), E)
  <2>1. Entry(k, l) \in E
    BY <1>3, <1>7
  <2>2. g \in E /\ \A f \in E \ {g} : <<f, g>> \in IdleQueue(k).before
    BY <1>9, <2>1 DEF OldestOf
  <2> HIDE DEF g
  <2>3. g = Entry(k, l)
    BY <1>9, <1>10, <2>1, <2>2
  <2> QED
    BY <2>3 DEF g
<1>13. Cardinality(E) = k.pool[p].count
  BY <1>1, <1>2, EntriesCount
<1>14. \A i \in M : i \in k.cache.items /\ k.item[i].key = key
  BY DEF M, ItemsOf
<1> QED
  BY <1>2, <1>3, <1>7, <1>11, <1>12, <1>13, <1>14 DEF E, h, l, M

\* The last item of the cache is the oldest of all
LEMMA OldestOfAll ==
    ASSUME NEW k, CacheOk(k, {}), Distinct(k), k.cache.items # {}
    PROVE  LET E == IdleQueue(k).items
               l == LastOf(k.cache)
           IN  /\ l \in k.cache.items
               /\ Entry(k, l) = OldestOf(IdleQueue(k), E)
<1> DEFINE E == IdleQueue(k).items
           l == LastOf(k.cache)
           M == k.cache.items
<1>1. WellFormed(k.cache) /\ k.cache \in QueuesOver(Items) /\ E = Entries(k, M)
  BY DEF CacheOk, PoolsOk, Ka, IdleQueue
<1>2. l \in M /\ \A j \in M \ {l} : <<j, l>> \in k.cache.before
  <2>1. l \in M /\ IsLast(k.cache, l)
    BY <1>1, EndsExist
  <2> HIDE DEF l
  <2> QED
    BY <2>1 DEF IsLast
<1> HIDE DEF E, l
<1>3. \A i, j \in M : <<Entry(k, i), Entry(k, j)>> \in IdleQueue(k).before <=>
                          <<i, j>> \in k.cache.before
  BY EntryOrder
<1>4. \A i, j \in M : ~(<<i, j>> \in k.cache.before /\ <<j, i>> \in k.cache.before)
  BY <1>1 DEF WellFormed
<1> HIDE DEF M
<1>5. /\ \A e \in E : \E i \in M : e = Entry(k, i)
      /\ \A i \in M : Entry(k, i) \in E
  BY <1>1 DEF Entries
<1> DEFINE g == OldestOf(IdleQueue(k), E)
<1>6. Entry(k, l) \in E /\ \A f \in E \ {Entry(k, l)} : <<f, Entry(k, l)>> \in IdleQueue(k).before
  BY <1>2, <1>3, <1>5
<1>7. g \in E /\ \A f \in E \ {g} : <<f, g>> \in IdleQueue(k).before
  BY <1>6 DEF OldestOf
<1> HIDE DEF g
<1>8. \A e, f \in E : ~(<<e, f>> \in IdleQueue(k).before /\ <<f, e>> \in IdleQueue(k).before)
  BY <1>3, <1>4, <1>5
<1>9. g = Entry(k, l)
  BY <1>6, <1>7, <1>8
<1> QED
  BY <1>2, <1>9 DEF E, l, M, g

\* The list with room for one more connection, as IdleConnections has it
RoomOf(k, key, size) ==
    LET Q == IdleQueue(k)
        E == Keyed(k, key)
    IN  IF size > 0 /\ Cardinality(E) >= size THEN Remove(Q, {OldestOf(Q, E)})
        ELSE IF Cardinality(Q.items) = MaxCached THEN Remove(Q, {OldestOf(Q, Q.items)}) ELSE Q

\* The cache is full when no item is free
LEMMA FullRight ==
    ASSUME NEW k, CacheOk(k, {}), Distinct(k)
    PROVE  Cardinality(IdleQueue(k).items) = MaxCached <=> k.free = {}
<1>1. /\ k.cache.items \subseteq Items /\ k.free = Items \ k.cache.items
      /\ IdleQueue(k).items = Entries(k, k.cache.items)
  BY DEF CacheOk, PoolsOk, Ka, QueuesOver, IdleQueue
<1>2. Cardinality(IdleQueue(k).items) = Cardinality(k.cache.items)
  BY <1>1, EntriesCount
<1>3. Cardinality(k.cache.items) = MaxCached <=> k.cache.items = Items
  <2>1. k.cache.items # Items => Cardinality(k.cache.items) < Cardinality(Items)
    BY <1>1, ItemsFinite, FS_Subset, FS_CardinalityType
  <2>2. Cardinality(k.cache.items) \in Nat /\ MaxCached \in Nat
    BY <1>1, ItemsFinite, FS_CardinalityType
  <2> QED
    BY <2>1, <2>2, ItemsFinite
<1> QED
  BY <1>1, <1>2, <1>3

\* The item whose connection gives way is the one IdleConnections drops
LEMMA VictimRight ==
    ASSUME NEW k, CacheOk(k, {}), Distinct(k), NEW key \in Key, NEW size \in Nat
    PROVE  LET v == Victim(k, key, size) IN
           \/ v = Nil /\ k.free # {} /\ RoomOf(k, key, size) = IdleQueue(k)
           \/ v \in k.cache.items /\ RoomOf(k, key, size) = Remove(IdleQueue(k), {Entry(k, v)})
<1> DEFINE p == FindPool(k, key)
           Q == IdleQueue(k)
           E == Keyed(k, key)
<1>1. PoolsOk(k, k.cache.items) /\ k.free = Items \ k.cache.items
      /\ k.cache.items \subseteq Items /\ Nil \notin Items /\ Items # {}
  BY ItemsFinite DEF CacheOk, PoolsOk, Ka, QueuesOver
<1> DEFINE l == LastOf(k.pool[p].items)
<1>a. ASSUME p # Nil
      PROVE  Cardinality(E) = k.pool[p].count /\ l \in k.cache.items /\ Entry(k, l) = OldestOf(Q, E)
  <2>1. p \in Items /\ Members(k, p) # {} /\ Members(k, p) = ItemsOf(k, k.cache.items, key)
    BY <1>1, <1>a, FindPoolRight
  <2> HIDE DEF p
  <2> QED
    BY <2>1, IdleOfPool
<1>2. CASE size > 0 /\ p # Nil /\ k.pool[p].count >= size
  <2>2. Cardinality(E) = k.pool[p].count /\ l \in k.cache.items /\ Entry(k, l) = OldestOf(Q, E)
    BY <1>2, <1>a
  <2>3. Victim(k, key, size) = l
    BY <1>2 DEF Victim
  <2>4. RoomOf(k, key, size) = Remove(Q, {OldestOf(Q, E)})
    BY <1>2, <2>2 DEF RoomOf
  <2> QED
    BY <2>2, <2>3, <2>4
<1>3. CASE ~(size > 0 /\ p # Nil /\ k.pool[p].count >= size)
  <2>1. ~(size > 0 /\ Cardinality(E) >= size)
    <3>1. CASE size > 0 /\ p # Nil
      BY <1>a, <1>3, <3>1
    <3>2. CASE p = Nil
      <4>1. Nil \notin Items
        BY <1>1
      <4>2. \A i \in k.cache.items : k.item[i].key # key
        BY <1>1, <3>2, <4>1, FindPoolRight
      <4>3. E = {}
        BY <4>2 DEF IdleQueue, Entries, Entry, Keyed
      <4>4. Cardinality(E) = 0
        BY <4>3, FS_EmptySet
      <4> QED
        BY <4>4
    <3> QED
      BY <3>1, <3>2
  <2>2. RoomOf(k, key, size) =
          IF Cardinality(Q.items) = MaxCached THEN Remove(Q, {OldestOf(Q, Q.items)}) ELSE Q
    BY <2>1 DEF RoomOf
  <2>3. Victim(k, key, size) = IF k.free = {} THEN LastOf(k.cache) ELSE Nil
    BY <1>3 DEF Victim
  <2>4. CASE k.free = {}
    <3>1. k.cache.items # {}
      BY <1>1, <2>4
    <3>2. LastOf(k.cache) \in k.cache.items /\ Entry(k, LastOf(k.cache)) = OldestOf(Q, Q.items)
      BY <3>1, OldestOfAll
    <3>3. Cardinality(Q.items) = MaxCached
      BY <2>4, FullRight
    <3> QED
      BY <2>2, <2>3, <2>4, <3>2, <3>3
  <2>5. CASE k.free # {}
    <3>1. Cardinality(Q.items) # MaxCached
      BY <2>5, FullRight
    <3> QED
      BY <2>2, <2>3, <2>5, <3>1
  <2> QED
    BY <2>4, <2>5
<1> QED
  BY <1>2, <1>3

\* The connections that are kept
Keeps(k) == {k.item[i].conn : i \in k.cache.items}

LEMMA KeepsRemoved ==
    ASSUME NEW k, CacheOk(k, {}), Distinct(k), NEW i \in k.cache.items,
           NEW d, d.cache = Remove(k.cache, {i}), \A j \in Items \ {i} : d.item[j] = k.item[j]
    PROVE  Keeps(d) = Keeps(k) \ {k.item[i].conn} /\ k.item[i].conn \in Keeps(k)
<1>1. k.cache.items \subseteq Items /\ d.cache.items = k.cache.items \ {i}
  BY DEF CacheOk, PoolsOk, Ka, QueuesOver, Remove
<1>2. \A j \in d.cache.items : d.item[j] = k.item[j] /\ k.item[j].conn # k.item[i].conn
  BY <1>1 DEF Distinct
<1> QED
  BY <1>1, <1>2 DEF Keeps

LEMMA KeepsInserted ==
    ASSUME NEW k, k.cache.items \subseteq Items, NEW i \in Items \ k.cache.items,
           NEW d, d.cache = InsertHead(k.cache, i), \A j \in Items \ {i} : d.item[j] = k.item[j]
    PROVE  Keeps(d) = Keeps(k) \cup {d.item[i].conn}
<1>1. d.cache.items = k.cache.items \cup {i}
  BY DEF InsertHead
<1>2. \A j \in k.cache.items : d.item[j] = k.item[j]
  OBVIOUS
<1> QED
  BY <1>1, <1>2 DEF Keeps

LEMMA IdleSame ==
    ASSUME NEW k, CacheOk(k, {}), Distinct(k),
           NEW d, d.cache = k.cache, \A j \in k.cache.items : d.item[j] = k.item[j]
    PROVE  IdleQueue(d) = IdleQueue(k) /\ Keeps(d) = Keeps(k) /\ Distinct(d)
<1>1. \A p \in k.cache.before : p[1] \in k.cache.items /\ p[2] \in k.cache.items
  BY DEF CacheOk, WellFormed
<1>2. \A j \in k.cache.items : Entry(d, j) = Entry(k, j)
  BY DEF Entry
<1>3. Entries(d, d.cache.items) = Entries(k, k.cache.items)
  BY <1>2 DEF Entries
<1>4. {<<Entry(d, p[1]), Entry(d, p[2])>> : p \in d.cache.before}
        = {<<Entry(k, p[1]), Entry(k, p[2])>> : p \in k.cache.before}
  BY <1>1, <1>2
<1>5. IdleQueue(d) = IdleQueue(k)
  BY <1>3, <1>4 DEF IdleQueue
<1> QED
  BY <1>5 DEF Keeps, Distinct

LEMMA InsertedRemoved ==
    ASSUME NEW A, NEW B \in SUBSET (A \X A), NEW e, e \notin A, NEW Q, Q = [items |-> A, before |-> B]
    PROVE  Remove(InsertHead(Q, e), {e}) = Q
<1> DEFINE R == Remove(InsertHead(Q, e), {e})
<1>1. R.items = A
  BY DEF Remove, InsertHead
<1>2. InsertHead(Q, e).before = B \cup ({e} \X A)
  BY DEF InsertHead
<1>3. \A p \in B : p[1] # e /\ p[2] # e
  OBVIOUS
<1>4. R.before = B
  BY <1>2, <1>3 DEF Remove
<1>5. R = [items |-> R.items, before |-> R.before]
  BY DEF Remove
<1> HIDE DEF R
<1> QED
  BY <1>1, <1>4, <1>5 DEF R

\* The pairs of a queue of entries are entries of it
LEMMA IdleShape ==
    ASSUME NEW k, CacheOk(k, {}) \/ \E i \in Items : CacheOk(k, {i})
    PROVE  /\ IdleQueue(k) = [items |-> IdleQueue(k).items, before |-> IdleQueue(k).before]
           /\ IdleQueue(k).before \in SUBSET (IdleQueue(k).items \X IdleQueue(k).items)
           /\ Keeps(k) = {e.conn : e \in IdleQueue(k).items}
<1>1. \A p \in k.cache.before : p[1] \in k.cache.items /\ p[2] \in k.cache.items
  BY DEF CacheOk, WellFormed
<1>2. IdleQueue(k).before \in SUBSET (IdleQueue(k).items \X IdleQueue(k).items)
  BY <1>1 DEF IdleQueue, Entries
<1>3. Keeps(k) = {e.conn : e \in IdleQueue(k).items}
  <2>1. \A i \in k.cache.items : Entry(k, i).conn = k.item[i].conn
    BY DEF Entry
  <2>2. IdleQueue(k).items = {Entry(k, i) : i \in k.cache.items}
    BY DEF IdleQueue, Entries
  <2> QED
    BY <2>1, <2>2 DEF Keeps
<1> QED
  BY <1>2, <1>3 DEF IdleQueue

\* What a connection that is saved does to the cache, when it stays (d) and
\* when it is lost at once (f)
LEMMA SaveRight ==
    ASSUME NEW k, CacheOk(k, {}), Distinct(k), NEW key \in Key, NEW size \in Nat,
           NEW c \in Conn, c \notin Keeps(k)
    PROVE  LET i == ItemFor(k, key, size)
               d == Saved(Emptied(k, i), i, key, c)
               C == IF i \in k.free THEN {} ELSE {k.item[i].conn}
           IN  /\ C \subseteq Keeps(k)
               /\ CacheOk(d, {}) /\ Distinct(d) /\ Keeps(d) = (Keeps(k) \ C) \cup {c}
               /\ IdleQueue(d) = InsertHead(RoomOf(k, key, size), [key |-> key, conn |-> c])
               /\ CacheOk(Freed(d, i), {}) /\ Distinct(Freed(d, i))
               /\ Keeps(Freed(d, i)) = Keeps(k) \ C
               /\ IdleQueue(Freed(d, i)) = RoomOf(k, key, size)
<1> DEFINE v == Victim(k, key, size)
           i == ItemFor(k, key, size)
           e == Emptied(k, i)
           d == Saved(e, i, key, c)
           C == IF i \in k.free THEN {} ELSE {k.item[i].conn}
           R == RoomOf(k, key, size)
           f == Freed(d, i)
<1> HIDE DEF v, i, e, d, C, R, f
<1>1. /\ k.cache.items \subseteq Items /\ k.free = Items \ k.cache.items /\ Nil \notin Items
  BY ItemsFinite DEF CacheOk, PoolsOk, Ka, QueuesOver
<1>2. \/ v = Nil /\ k.free # {} /\ R = IdleQueue(k)
      \/ v \in k.cache.items /\ R = Remove(IdleQueue(k), {Entry(k, v)})
  BY VictimRight DEF v, R
<1>3. i \in Items /\ (v = Nil => i \in k.free) /\ (v # Nil => i = v /\ i \in k.cache.items /\ i \notin k.free)
  BY <1>1, <1>2 DEF i, v, ItemFor
<1>4. /\ CacheOk(e, {i}) /\ \A j \in Items \ {i} : e.item[j] = k.item[j]
      /\ e.cache = IF i \in k.free THEN k.cache ELSE Remove(k.cache, {i})
  BY <1>3, EmptiedRight DEF e
<1>5. IdleQueue(e) = R /\ Keeps(e) = Keeps(k) \ C /\ Distinct(e) /\ C \subseteq Keeps(k)
  <2>1. CASE v = Nil
    <3>1. e.cache = k.cache /\ \A j \in k.cache.items : e.item[j] = k.item[j]
      BY <1>1, <1>3, <1>4, <2>1
    <3>2. IdleQueue(e) = IdleQueue(k) /\ Keeps(e) = Keeps(k) /\ Distinct(e)
      BY <3>1, IdleSame
    <3> QED
      BY <1>1, <1>2, <1>3, <2>1, <3>2 DEF C
  <2>2. CASE v # Nil
    <3>1. e.cache = Remove(k.cache, {i}) /\ i = v /\ i \in k.cache.items /\ R = Remove(IdleQueue(k), {Entry(k, i)})
      BY <1>2, <1>3, <1>4, <2>2
    <3>2. IdleQueue(e) = Remove(IdleQueue(k), {Entry(k, i)}) /\ Distinct(e)
      BY <1>4, <3>1, IdleRemoved
    <3>3. Keeps(e) = Keeps(k) \ {k.item[i].conn} /\ k.item[i].conn \in Keeps(k)
      BY <1>4, <3>1, KeepsRemoved
    <3> QED
      BY <1>3, <2>2, <3>1, <3>2, <3>3 DEF C
  <2> QED
    BY <2>1, <2>2
<1>6. /\ CacheOk(d, {}) /\ d.cache = InsertHead(e.cache, i)
      /\ d.item[i].key = key /\ d.item[i].conn = c
      /\ \A j \in Items \ {i} : d.item[j] = e.item[j]
  BY <1>3, <1>4, SavedRight DEF d
<1>7. e.cache.items \subseteq Items /\ i \notin e.cache.items
  BY <1>4 DEF CacheOk, PoolsOk, Ka, QueuesOver
<1>8. \A j \in e.cache.items : e.item[j].conn # d.item[i].conn
  BY <1>5, <1>6 DEF Keeps
<1>9. Entry(d, i) = [key |-> key, conn |-> c]
  BY <1>6 DEF Entry
<1>10. IdleQueue(d) = InsertHead(R, Entry(d, i)) /\ Distinct(d)
  BY <1>3, <1>4, <1>5, <1>6, <1>7, <1>8, IdleInserted
<1>11. Keeps(d) = (Keeps(k) \ C) \cup {c}
  BY <1>3, <1>5, <1>6, <1>7, KeepsInserted
<1>12. i \in d.cache.items
  BY <1>6 DEF InsertHead
<1>13. CacheOk(f, {}) /\ f.cache = Remove(d.cache, {i}) /\ \A j \in Items \ {i} : f.item[j] = d.item[j]
  BY <1>6, <1>12, FreedRight DEF f
<1>14. IdleQueue(f) = Remove(IdleQueue(d), {Entry(d, i)}) /\ Distinct(f)
  BY <1>6, <1>10, <1>12, <1>13, IdleRemoved
<1>15. Keeps(f) = Keeps(d) \ {c}
  <2>1. Keeps(f) = Keeps(d) \ {d.item[i].conn}
    <3>1. /\ CacheOk(d, {}) /\ Distinct(d) /\ i \in d.cache.items
          /\ f.cache = Remove(d.cache, {i}) /\ \A j \in Items \ {i} : f.item[j] = d.item[j]
      BY <1>6, <1>10, <1>12, <1>13
    <3> QED
      BY <3>1, KeepsRemoved
  <2> QED
    BY <1>6, <2>1
<1>16. Remove(InsertHead(R, Entry(d, i)), {Entry(d, i)}) = R
  <2>1. /\ R = [items |-> R.items, before |-> R.before]
        /\ R.before \in SUBSET (R.items \X R.items)
        /\ Keeps(e) = {x.conn : x \in R.items}
    BY <1>3, <1>4, <1>5, IdleShape
  <2>2. Entry(d, i) \notin R.items
    <3>1. Entry(d, i).conn \notin Keeps(e)
      BY <1>5, <1>9
    <3> QED
      BY <2>1, <3>1
  <2> QED
    BY <2>1, <2>2, InsertedRemoved
<1> QED
  BY <1>5, <1>6, <1>9, <1>10, <1>11, <1>13, <1>14, <1>15, <1>16 DEF v, i, e, d, C, R, f

-----------------------------------------------------------------------------
(* The requests.                                                           *)

Req == [at : {"out", "ask", "busy"}, key : Key \cup {Nil}, keep : BOOLEAN, size : Nat,
        conn : Conn \cup {Nil}, cached : BOOLEAN, tries : Nat, total : Nat, tried : Nat]

ReqOk(b) == /\ b \in Req
            /\ b.at # "busy" => b.conn = Nil
            /\ b.at = "busy" => b.key \in Key
            /\ b.size \in PoolSizes \cup {0} /\ (b.keep => b.size \in PoolSizes)

\* Between two tries what is left fits; the try that runs is counted already
TriesOk(b) ==
    NextTries > 0 =>
        /\ b.tried <= NextTries
        /\ b.at = "out" => b.tried = 0
        /\ b.at = "ask" => b.tries >= 1 /\ b.tried + b.tries <= NextTries /\ b.tried <= b.total
        /\ b.at = "busy" => b.tries >= 1 /\ b.tried + b.tries <= NextTries + 1 /\ b.tried <= b.total

ReqsOk(q) == q \in [Request -> Req] /\ \A r \in Request : ReqOk(q[r]) /\ TriesOk(q[r])

\* A connection is open exactly while one request or one item has it
Owned(q, s, k) ==
    /\ s \in [Conn -> {"free", "open", "closing"}]
    /\ Keeps(k) \subseteq Conn /\ Distinct(k)
    /\ \A r \in Request : q[r].conn \notin Keeps(k)
    /\ \A r, r1 \in Request : q[r].conn = q[r1].conn /\ q[r].conn # Nil => r = r1
    /\ \A c \in Conn : s[c] = "open" <=> c \in Keeps(k) \/ \E r \in Request : q[r].conn = c

Inv == ReqsOk(req) /\ CacheOk(ka, {}) /\ Owned(req, conn, ka)

LEMMA NilApart == /\ Nil \notin Conn /\ Nil \notin Key /\ Nil \notin Items
                  /\ NextTries \in Nat /\ MaxMore \in Nat /\ PoolSizes \subseteq Nat
BY BalancerAssumption DEF Items

LEMMA NoRequestOk == ReqOk(NoRequest) /\ TriesOk(NoRequest) /\ NoRequest.conn = Nil /\ NoRequest.at = "out"
BY NilApart DEF ReqOk, TriesOk, NoRequest, Req

LEMMA ReqStep ==
    ASSUME ReqsOk(req), NEW r \in Request, NEW b, ReqOk(b), TriesOk(b), req' = [req EXCEPT ![r] = b]
    PROVE  ReqsOk(req')
BY DEF ReqsOk, ReqOk

\* The typing of what the handler changes
LEMMA AskedFields ==
    ASSUME NEW q \in Req, NEW n \in Nat
    PROVE  [q EXCEPT !.key = Nil, !.keep = FALSE, !.size = 0, !.conn = Nil, !.cached = FALSE,
                     !.total = n] \in Req
BY NilApart DEF Req

LEMMA TriesFields ==
    ASSUME NEW q \in Req, NEW m \in Nat, NEW n \in Nat
    PROVE  [q EXCEPT !.tries = m, !.tried = n] \in Req
BY DEF Req

LEMMA ReqSums ==
    ASSUME NEW q \in Req, NEW m \in Nat
    PROVE  q.tries + m \in Nat /\ q.tried + 1 \in Nat /\ q.total + 1 \in Nat
BY DEF Req

LEMMA BusyFields ==
    ASSUME NEW q \in Req, NEW c \in Conn \cup {Nil}, NEW x \in BOOLEAN
    PROVE  [q EXCEPT !.at = "busy", !.conn = c, !.cached = x] \in Req
BY DEF Req

LEMMA ConnFields ==
    ASSUME NEW q \in Req, NEW c \in Conn \cup {Nil}
    PROVE  [q EXCEPT !.at = "busy", !.conn = c] \in Req
BY DEF Req

LEMMA PeerFields ==
    ASSUME NEW q \in Req, NEW key \in Key, NEW p, p = SetCurrentPeer(q, key)
    PROVE  /\ p \in Req /\ p.key = key /\ p.keep = q.keep /\ p.size = q.size
           /\ p.tries = q.tries /\ p.total = q.total /\ p.tried = q.tried
BY DEF SetCurrentPeer, Req

LEMMA KeptFields ==
    ASSUME NEW q \in Req, NEW size \in Nat, NEW p, p = EnableKeepalive(q, size)
    PROVE  /\ p \in Req /\ p.key = q.key /\ p.keep = TRUE /\ p.size = size
           /\ p.tries = q.tries /\ p.total = q.total /\ p.tried = q.tried
BY DEF EnableKeepalive, Req

LEMMA AskedRight ==
    ASSUME ReqsOk(req), NEW r \in Request
    PROVE  LET a == Asked(r) IN
           /\ a \in Req /\ a.size = 0 /\ a.keep = FALSE /\ a.tries = req[r].tries
           /\ a.total = req[r].total + 1 /\ a.tried = req[r].tried
           /\ a.at = req[r].at /\ a.conn = Nil
<1>1. req[r] \in Req
  BY DEF ReqsOk
<1>2. req[r].total + 1 \in Nat
  BY <1>1 DEF Req
<1>3. Asked(r) \in Req
  BY <1>1, <1>2, AskedFields DEF Asked
<1> QED
  BY <1>1, <1>3 DEF Asked, Req

\* What the handler leaves
LEMMA ChosenRight ==
    ASSUME ReqsOk(req), NEW r \in Request, req[r].at = "ask", NEW b \in Chosen(r),
           NEW c \in Conn \cup {Nil}, NEW x \in BOOLEAN
    PROVE  LET d == [b EXCEPT !.at = "busy", !.conn = c, !.cached = x]
               e == [b EXCEPT !.at = "busy", !.conn = c]
           IN  /\ ReqOk(d) /\ TriesOk(d) /\ ReqOk(e) /\ TriesOk(e)
               /\ b \in Req /\ b.key \in Key /\ (b.keep => b.size \in PoolSizes)
<1> DEFINE a == Asked(r)
<1>1. /\ req[r] \in Req /\ TriesOk(req[r])
  BY DEF ReqsOk
<1>2. /\ a \in Req /\ a.size = 0 /\ a.keep = FALSE /\ a.tries = req[r].tries
      /\ a.total = req[r].total + 1 /\ a.tried = req[r].tried
  BY AskedRight
<1> HIDE DEF a
<1>3. PICK p \in SetPeer(r) : \E more \in 0..MaxMore : b = WithTries(p, MoreTries(p, more))
  BY DEF Chosen
<1>4. PICK more \in 0..MaxMore : b = WithTries(p, MoreTries(p, more))
  BY <1>3
<1>5. /\ p \in Req /\ p.key \in Key /\ p.size \in PoolSizes \cup {0}
      /\ p.keep => p.size \in PoolSizes
      /\ p.tries = a.tries /\ p.total = a.total /\ p.tried = a.tried
  <2> DEFINE peer == {SetCurrentPeer(a, key) : key \in Key}
  <2>1. p \in peer \/ p \in {EnableKeepalive(z, size) : z \in peer, size \in PoolSizes}
    BY DEF SetPeer, a
  <2>2. CASE p \in peer
    <3>1. PICK key \in Key : p = SetCurrentPeer(a, key)
      BY <2>2
    <3>2. /\ p \in Req /\ p.key = key /\ p.keep = a.keep /\ p.size = a.size
          /\ p.tries = a.tries /\ p.total = a.total /\ p.tried = a.tried
      BY <1>2, <3>1, PeerFields
    <3> QED
      BY <1>2, <3>2
  <2>3. CASE p \in {EnableKeepalive(z, size) : z \in peer, size \in PoolSizes}
    <3>1. PICK z \in peer, size \in PoolSizes : p = EnableKeepalive(z, size)
      BY <2>3
    <3>2. PICK key \in Key : z = SetCurrentPeer(a, key)
      OBVIOUS
    <3>3. size \in Nat
      BY NilApart
    <3>4. /\ z \in Req /\ z.key = key
          /\ z.tries = a.tries /\ z.total = a.total /\ z.tried = a.tried
      BY <1>2, <3>2, PeerFields
    <3>5. /\ p \in Req /\ p.key = z.key /\ p.size = size
          /\ p.tries = z.tries /\ p.total = z.total /\ p.tried = z.tried
      BY <3>1, <3>3, <3>4, KeptFields
    <3> QED
      BY <3>4, <3>5
  <2> QED
    BY <2>1, <2>2, <2>3
<1>6. /\ MoreTries(p, more) \in Nat
      /\ (NextTries > 0 /\ req[r].tries >= 1) =>
             \/ MoreTries(p, more) = 0
             \/ p.total + p.tries - 1 + MoreTries(p, more) <= NextTries
  <2>1. p.total \in Nat /\ p.tries \in Nat /\ p.total >= 1
    BY <1>1, <1>2, <1>5 DEF Req
  <2>2. more \in Nat /\ NextTries \in Nat
    BY NilApart
  <2> QED
    BY <2>1, <2>2 DEF MoreTries
<1>7. /\ b \in Req /\ b.key = p.key /\ b.size = p.size /\ b.keep = p.keep
      /\ b.tries = p.tries + MoreTries(p, more) /\ b.tried = p.tried + 1 /\ b.total = p.total
  <2> DEFINE m == p.tries + MoreTries(p, more)
             n == p.tried + 1
  <2>1. m \in Nat /\ n \in Nat
    BY <1>5, <1>6, ReqSums
  <2>2. b = [p EXCEPT !.tries = m, !.tried = n]
    BY <1>4 DEF WithTries
  <2> HIDE DEF m, n
  <2>3. b \in Req
    BY <1>5, <2>1, <2>2, TriesFields
  <2>4. /\ b.key = p.key /\ b.size = p.size /\ b.keep = p.keep
        /\ b.tries = m /\ b.tried = n /\ b.total = p.total
    BY <1>5, <2>2 DEF Req
  <2> QED
    BY <2>3, <2>4 DEF m, n
<1>8. NextTries > 0 => /\ b.tried <= NextTries /\ b.tries >= 1
                       /\ b.tried + b.tries <= NextTries + 1 /\ b.tried <= b.total
  <2>1. req[r].tries \in Nat /\ req[r].total \in Nat /\ req[r].tried \in Nat /\ NextTries \in Nat
    BY <1>1, NilApart DEF Req
  <2> QED
    BY <1>1, <1>2, <1>5, <1>6, <1>7, <2>1 DEF TriesOk
<1> DEFINE d == [b EXCEPT !.at = "busy", !.conn = c, !.cached = x]
           e == [b EXCEPT !.at = "busy", !.conn = c]
<1>9. d \in Req /\ e \in Req
  BY <1>7, BusyFields, ConnFields
<1>10. /\ d.at = "busy" /\ d.key = b.key /\ d.size = b.size /\ d.keep = b.keep
       /\ d.tries = b.tries /\ d.tried = b.tried /\ d.total = b.total
       /\ e.at = "busy" /\ e.key = b.key /\ e.size = b.size /\ e.keep = b.keep
       /\ e.tries = b.tries /\ e.tried = b.tried /\ e.total = b.total
  BY <1>7 DEF Req
<1> HIDE DEF d, e
<1>11. ReqOk(d) /\ TriesOk(d) /\ ReqOk(e) /\ TriesOk(e)
  BY <1>5, <1>7, <1>8, <1>9, <1>10 DEF ReqOk, TriesOk
<1> QED
  BY <1>5, <1>7, <1>11 DEF d, e

\* What a request is after its peer is given back
LEMMA LeavesRight ==
    ASSUME ReqsOk(req), NEW r \in Request, req[r].at = "busy", NEW again \in BOOLEAN,
           NEW tries \in Nat, tries <= TriesLeft(req[r])
    PROVE  LET b == Leaves(r, tries, again) IN
           ReqOk(b) /\ TriesOk(b) /\ b.conn = Nil /\ b.at # "busy"
<1>1. req[r] \in Req /\ TriesOk(req[r])
  BY DEF ReqsOk
<1> DEFINE a == [req[r] EXCEPT !.at = "ask", !.key = Nil, !.keep = FALSE, !.size = 0,
                               !.conn = Nil, !.cached = FALSE, !.tries = tries]
<1>2. /\ a \in Req /\ a.at = "ask" /\ a.conn = Nil /\ a.keep = FALSE /\ a.size = 0
      /\ a.tries = tries /\ a.total = req[r].total /\ a.tried = req[r].tried
  BY <1>1, NilApart DEF Req
<1> HIDE DEF a
<1>3. ASSUME tries > 0 PROVE TriesOk(a)
  <2>1. req[r].tries \in Nat /\ req[r].total \in Nat /\ req[r].tried \in Nat /\ NextTries \in Nat
    BY <1>1, NilApart DEF Req
  <2>2. tries <= req[r].tries - 1
    BY <1>3, <2>1 DEF TriesLeft
  <2> QED
    BY <1>1, <1>2, <1>3, <2>1, <2>2 DEF TriesOk
<1>4. ReqOk(a)
  BY <1>2 DEF ReqOk
<1>5. Leaves(r, tries, again) = IF again /\ tries > 0 THEN a ELSE NoRequest
  BY DEF Leaves, a
<1> QED
  BY <1>2, <1>3, <1>4, <1>5, NoRequestOk

-----------------------------------------------------------------------------
(* The steps.                                                              *)

LEMMA ClosesRight ==
    ASSUME NEW C, Closes(C), conn \in [Conn -> {"free", "open", "closing"}]
    PROVE  /\ conn' \in [Conn -> {"free", "open", "closing"}]
           /\ \A c \in Conn : conn'[c] = "open" <=> conn[c] = "open" /\ c \notin C
BY DEF Closes

LEMMA ConnsAfter ==
    ASSUME ReqsOk(req), NEW r \in Request, NEW b, req' = [req EXCEPT ![r] = b]
    PROVE  /\ req'[r] = b
           /\ \A x \in Request : req'[x] = IF x = r THEN b ELSE req[x]
           /\ \A x \in Request : req'[x].conn = IF x = r THEN b.conn ELSE req[x].conn
BY DEF ReqsOk

\* A request that has no connection before and after changes nothing in use
LEMMA UseSame ==
    ASSUME ReqsOk(req), NEW r \in Request, NEW b, req' = [req EXCEPT ![r] = b],
           req[r].conn = Nil, b.conn = Nil
    PROVE  InUse' = InUse
<1>1. \A x \in Request : req'[x] = IF x = r THEN b ELSE req[x]
  BY ConnsAfter
<1>2. {x \in Request : req'[x].at = "busy" /\ req'[x].conn # Nil}
        = {x \in Request : req[x].at = "busy" /\ req[x].conn # Nil}
  BY <1>1
<1>3. \A x \in {x \in Request : req[x].at = "busy" /\ req[x].conn # Nil} : req'[x] = req[x]
  BY <1>1
<1> QED
  BY <1>2, <1>3 DEF InUse

LEMMA UseAdded ==
    ASSUME ReqsOk(req), NEW r \in Request, NEW b, req' = [req EXCEPT ![r] = b],
           req[r].at # "busy", b.at = "busy", b.conn # Nil
    PROVE  InUse' = InUse \cup {Using(b)}
<1> DEFINE S == {x \in Request : req[x].at = "busy" /\ req[x].conn # Nil}
           T == {x \in Request : req'[x].at = "busy" /\ req'[x].conn # Nil}
<1>1. req'[r] = b /\ \A x \in Request : req'[x] = IF x = r THEN b ELSE req[x]
  BY ConnsAfter
<1>2. T = S \cup {r} /\ r \notin S
  BY <1>1
<1>3. \A x \in S : req'[x] = req[x]
  BY <1>1, <1>2
<1> HIDE DEF S, T
<1>4. {Using(req'[x]) : x \in T} = {Using(req[x]) : x \in S} \cup {Using(b)}
  BY <1>1, <1>2, <1>3
<1> QED
  BY <1>4 DEF InUse, S, T

LEMMA UseRemoved ==
    ASSUME ReqsOk(req), Owned(req, conn, ka), NEW r \in Request, NEW b, req' = [req EXCEPT ![r] = b],
           req[r].at = "busy", req[r].conn # Nil, b.at # "busy"
    PROVE  Using(req[r]) \in InUse /\ InUse' = InUse \ {Using(req[r])}
<1> DEFINE S == {x \in Request : req[x].at = "busy" /\ req[x].conn # Nil}
           T == {x \in Request : req'[x].at = "busy" /\ req'[x].conn # Nil}
<1>1. req'[r] = b /\ \A x \in Request : req'[x] = IF x = r THEN b ELSE req[x]
  BY ConnsAfter
<1>2. T = S \ {r} /\ r \in S
  BY <1>1
<1>3. \A x \in T : req'[x] = req[x]
  BY <1>1, <1>2
<1>4. \A x \in T : Using(req[x]) # Using(req[r])
  <2> SUFFICES ASSUME NEW x \in T, Using(req[x]) = Using(req[r]) PROVE FALSE
    OBVIOUS
  <2>1. req[x].conn = req[r].conn /\ x \in Request /\ x # r
    BY <1>2 DEF Using
  <2> QED
    BY <2>1 DEF Owned
<1> HIDE DEF S, T
<1>5. {Using(req'[x]) : x \in T} = {Using(req[x]) : x \in S} \ {Using(req[r])}
  BY <1>2, <1>3, <1>4
<1> QED
  BY <1>2, <1>5 DEF InUse, S, T

\* IdleConnections has its own copies of the operators on queues and sets
LEMMA CacheOps ==
    /\ \A q, D : Cache!Remove(q, D) = Remove(q, D)
    /\ \A q, x : Cache!InsertHead(q, x) = InsertHead(q, x)
    /\ Cache!EmptyQueue = EmptyQueue
BY DEF Cache!Remove, Cache!InsertHead, Cache!EmptyQueue, Remove, InsertHead, EmptyQueue

LEMMA CacheSets ==
    /\ \A key : Cache!Of(key) = Keyed(ka, key)
    /\ \A E : Cache!Newest(E) = NewestOf(IdleQueue(ka), E)
    /\ \A E : Cache!Oldest(E) = OldestOf(IdleQueue(ka), E)
    /\ \A S : Cache!Cardinality(S) = Cardinality(S)
<1>1. ASSUME NEW key, NEW E
      PROVE  /\ Cache!Of(key) = Keyed(ka, key)
             /\ Cache!Newest(E) = NewestOf(IdleQueue(ka), E)
             /\ Cache!Oldest(E) = OldestOf(IdleQueue(ka), E)
  BY DEF Cache!Of, Cache!Newest, Cache!Oldest, NewestOf, OldestOf, Keyed
<1>2. \A S : Cache!Cardinality(S) = Cardinality(S)
  BY DEF Cache!Cardinality, Cardinality
<1> QED
  BY <1>1, <1>2

LEMMA CacheRoom ==
    ASSUME NEW key, NEW size
    PROVE  Cache!Room(key, size) = RoomOf(ka, key, size)
<1>1. /\ \A q, D : Cache!Remove(q, D) = Remove(q, D)
      /\ \A S : Cache!Cardinality(S) = Cardinality(S)
      /\ \A E : Cache!Oldest(E) = OldestOf(IdleQueue(ka), E)
  BY CacheOps, CacheSets
<1> QED
  BY <1>1, CacheSets DEF Cache!Room, RoomOf

\* A request that has no connection, before and after
LEMMA QuietStep ==
    ASSUME Inv, NEW r \in Request, NEW b, req' = [req EXCEPT ![r] = b], ReqOk(b), TriesOk(b),
           req[r].conn = Nil, b.conn = Nil, ka' = ka, conn' = conn
    PROVE  Inv' /\ UNCHANGED <<IdleQueue(ka), InUse>>
<1>1. ReqsOk(req')
  BY ReqStep DEF Inv
<1>2. \A x \in Request : req'[x].conn = req[x].conn
  BY ConnsAfter DEF Inv
<1>3. Owned(req', conn', ka')
  BY <1>2 DEF Inv, Owned
<1>4. InUse' = InUse
  BY UseSame DEF Inv
<1> QED
  BY <1>1, <1>3, <1>4 DEF Inv

LEMMA InitPeerRight ==
    ASSUME Inv, NEW r \in Request, InitPeer(r)
    PROVE  Inv' /\ UNCHANGED <<IdleQueue(ka), InUse>>
<1> DEFINE b == [NoRequest EXCEPT !.at = "ask", !.tries = 1]
<1>1. ReqOk(b) /\ TriesOk(b) /\ b.conn = Nil
  <2>1. /\ b.at = "ask" /\ b.key = Nil /\ b.keep = FALSE /\ b.size = 0 /\ b.conn = Nil
        /\ b.tries = 1 /\ b.total = 0 /\ b.tried = 0
    BY DEF NoRequest
  <2>2. b \in Req
    BY DEF NoRequest, Req
  <2> HIDE DEF b
  <2> QED
    BY <2>1, <2>2, NilApart DEF ReqOk, TriesOk
<1>2. req' = [req EXCEPT ![r] = b] /\ req[r].conn = Nil /\ ka' = ka /\ conn' = conn
  BY DEF InitPeer, Inv, ReqsOk, ReqOk
<1> HIDE DEF b
<1> QED
  BY <1>1, <1>2, QuietStep

LEMMA NoPeerRight ==
    ASSUME Inv, NEW r \in Request, NoPeer(r)
    PROVE  Inv' /\ UNCHANGED <<IdleQueue(ka), InUse>>
<1>1. req[r].at = "ask" /\ req[r].conn = Nil /\ ka' = ka /\ conn' = conn /\ ReqsOk(req)
  BY DEF NoPeer, Inv, ReqsOk, ReqOk
<1>2. CASE req' = [req EXCEPT ![r] = NoRequest]
  BY <1>1, <1>2, NoRequestOk, QuietStep
<1>3. CASE req' = [req EXCEPT ![r] = Asked(r)]
  <2> DEFINE a == Asked(r)
  <2>1. /\ a \in Req /\ a.size = 0 /\ a.keep = FALSE /\ a.tries = req[r].tries
        /\ a.total = req[r].total + 1 /\ a.tried = req[r].tried
        /\ a.at = req[r].at /\ a.conn = Nil
    BY <1>1, AskedRight
  <2> HIDE DEF a
  <2>2. ReqOk(a)
    BY <1>1, <2>1 DEF ReqOk
  <2>3. req[r].tried \in Nat /\ req[r].total \in Nat /\ TriesOk(req[r])
    BY <1>1 DEF ReqsOk, Req
  <2>4. TriesOk(a)
    BY <1>1, <2>1, <2>3 DEF TriesOk
  <2> QED
    BY <1>1, <1>3, <2>1, <2>2, <2>4, QuietStep DEF a
<1> QED
  BY <1>2, <1>3 DEF NoPeer

LEMMA CloseEndsRight ==
    ASSUME Inv, NEW c \in Conn, CloseEnds(c)
    PROVE  Inv' /\ UNCHANGED <<IdleQueue(ka), InUse>>
<1>1. conn[c] = "closing" /\ conn' = [conn EXCEPT ![c] = "free"] /\ req' = req /\ ka' = ka
  BY DEF CloseEnds
<1>2. /\ conn' \in [Conn -> {"free", "open", "closing"}]
      /\ \A x \in Conn : conn'[x] = "open" <=> conn[x] = "open"
  BY <1>1 DEF Inv, Owned
<1>3. Owned(req', conn', ka')
  BY <1>1, <1>2 DEF Inv, Owned
<1>4. InUse' = InUse
  BY <1>1 DEF InUse
<1> QED
  BY <1>1, <1>3, <1>4 DEF Inv

LEMMA CloseHandlerRight ==
    ASSUME Inv, NEW i \in Items, CloseHandler(i)
    PROVE  Inv' /\ Cache!Drop
<1> DEFINE c == ka.item[i].conn
<1>1. i \in ka.cache.items /\ Closes({c}) /\ ka' = Freed(ka, i) /\ req' = req
      /\ CacheOk(ka, {}) /\ Distinct(ka)
  BY DEF CloseHandler, Inv, Owned
<1>2. /\ CacheOk(ka', {}) /\ ka'.cache = Remove(ka.cache, {i})
      /\ \A j \in Items \ {i} : ka'.item[j] = ka.item[j]
  BY <1>1, FreedRight
<1>3. IdleQueue(ka') = Remove(IdleQueue(ka), {Entry(ka, i)}) /\ Distinct(ka')
  BY <1>1, <1>2, IdleRemoved
<1>4. Keeps(ka') = Keeps(ka) \ {c} /\ c \in Keeps(ka)
  BY <1>1, <1>2, KeepsRemoved
<1>5. /\ conn' \in [Conn -> {"free", "open", "closing"}]
      /\ \A x \in Conn : conn'[x] = "open" <=> conn[x] = "open" /\ x # c
  <2>1. /\ conn' \in [Conn -> {"free", "open", "closing"}]
        /\ \A x \in Conn : conn'[x] = "open" <=> conn[x] = "open" /\ x \notin {c}
    BY <1>1, ClosesRight DEF Inv, Owned
  <2> QED
    BY <2>1
<1> HIDE DEF c
<1>6. Owned(req', conn', ka')
  BY <1>1, <1>3, <1>4, <1>5 DEF Inv, Owned
<1>7. InUse' = InUse
  BY <1>1 DEF InUse
<1>8. Entry(ka, i) \in IdleQueue(ka).items
  BY <1>1 DEF IdleQueue, Entries
<1>9. Cache!Drop
  BY <1>3, <1>7, <1>8, CacheOps DEF Cache!Drop
<1> QED
  BY <1>1, <1>2, <1>6, <1>9 DEF Inv

LEMMA GetCachedRight ==
    ASSUME Inv, NEW r \in Request, GetCached(r)
    PROVE  Inv' /\ Cache!Reuse
<1>1. PICK b \in Chosen(r) :
         LET p == FindPool(ka, b.key)
             i == HeadOf(ka.pool[p].items)
         IN  /\ b.keep /\ p # Nil
             /\ req' = [req EXCEPT ![r] = [b EXCEPT !.at = "busy", !.conn = ka.item[i].conn,
                                                   !.cached = TRUE]]
             /\ ka' = Freed(ka, i) /\ conn' = conn
  BY DEF GetCached
<1> DEFINE p == FindPool(ka, b.key)
           i == HeadOf(ka.pool[p].items)
           c == ka.item[i].conn
           d == [b EXCEPT !.at = "busy", !.conn = c, !.cached = TRUE]
           E == Keyed(ka, b.key)
<1>2. /\ ReqsOk(req) /\ CacheOk(ka, {}) /\ Distinct(ka) /\ PoolsOk(ka, ka.cache.items)
      /\ req[r].at = "ask" /\ req[r].conn = Nil
  BY DEF GetCached, Asks, Inv, Owned, CacheOk, ReqsOk, ReqOk
<1>3. b \in Req /\ b.key \in Key /\ b.size \in PoolSizes
  BY <1>1, <1>2, ChosenRight
<1>4. p \in Items /\ Members(ka, p) # {} /\ Members(ka, p) = ItemsOf(ka, ka.cache.items, b.key)
  BY <1>1, <1>2, <1>3, FindPoolRight
<1>5. i \in ka.cache.items /\ Entry(ka, i) = NewestOf(IdleQueue(ka), E) /\ E # {}
  <2> HIDE DEF p
  <2> QED
    BY <1>2, <1>4, IdleOfPool
<1> HIDE DEF p, i
<1>6. /\ CacheOk(ka', {}) /\ ka'.cache = Remove(ka.cache, {i})
      /\ \A j \in Items \ {i} : ka'.item[j] = ka.item[j]
  BY <1>1, <1>2, <1>5, FreedRight DEF p, i
<1>7. IdleQueue(ka') = Remove(IdleQueue(ka), {Entry(ka, i)}) /\ Distinct(ka')
  BY <1>2, <1>5, <1>6, IdleRemoved
<1>8. Keeps(ka') = Keeps(ka) \ {c} /\ c \in Keeps(ka)
  BY <1>2, <1>5, <1>6, KeepsRemoved
<1>9. c \in Conn /\ c # Nil
  BY <1>8, NilApart DEF Inv, Owned
<1>10. req' = [req EXCEPT ![r] = d] /\ conn' = conn /\ b.keep = TRUE
  BY <1>1, <1>3 DEF p, i, Req
<1>11. ReqOk(d) /\ TriesOk(d)
  BY <1>2, <1>9, ChosenRight
<1>12. d.at = "busy" /\ d.conn = c /\ d.key = b.key /\ d.keep = b.keep /\ d.size = b.size
  BY <1>3 DEF Req
<1> HIDE DEF c, d
<1>13. ReqsOk(req') /\ \A x \in Request : req'[x].conn = IF x = r THEN c ELSE req[x].conn
  <2>1. ReqsOk(req')
    BY <1>2, <1>10, <1>11, ReqStep
  <2>2. \A x \in Request : req'[x].conn = IF x = r THEN d.conn ELSE req[x].conn
    BY <1>2, <1>10, ConnsAfter
  <2> QED
    BY <1>12, <2>1, <2>2
<1>14. Owned(req', conn', ka')
  <2>1. /\ conn \in [Conn -> {"free", "open", "closing"}] /\ Keeps(ka) \subseteq Conn
        /\ \A x \in Request : req[x].conn \notin Keeps(ka)
        /\ \A x, y \in Request : req[x].conn = req[y].conn /\ req[x].conn # Nil => x = y
        /\ \A x \in Conn : conn[x] = "open" <=> x \in Keeps(ka) \/ \E y \in Request : req[y].conn = x
    BY DEF Inv, Owned
  <2>2. \A x \in Request : req'[x].conn \notin Keeps(ka')
    BY <1>8, <1>13, <2>1
  <2>3. \A x, y \in Request : req'[x].conn = req'[y].conn /\ req'[x].conn # Nil => x = y
    BY <1>8, <1>13, <2>1
  <2>4. \A x \in Conn : conn'[x] = "open" <=> x \in Keeps(ka') \/ \E y \in Request : req'[y].conn = x
    <3> SUFFICES ASSUME NEW x \in Conn
                 PROVE  conn[x] = "open" <=> x \in Keeps(ka') \/ \E y \in Request : req'[y].conn = x
      BY <1>10
    <3>1. CASE x = c
      BY <1>8, <1>13, <2>1, <3>1
    <3>2. CASE x # c
      BY <1>2, <1>8, <1>13, <2>1, <3>2, NilApart
    <3> QED
      BY <3>1, <3>2
  <2> QED
    BY <1>7, <1>8, <1>10, <2>1, <2>2, <2>3, <2>4 DEF Owned
<1>15. InUse' = InUse \cup {Using(d)}
  BY <1>2, <1>9, <1>10, <1>12, UseAdded
<1>16. Using(d) = [key |-> b.key, conn |-> Entry(ka, i).conn, keep |-> TRUE, size |-> b.size]
  BY <1>10, <1>12 DEF Using, Entry, c
<1>17. Cache!Reuse
  <2>1. Cache!Of(b.key) = E /\ Cache!Newest(Cache!Of(b.key)) = Entry(ka, i)
    BY <1>5, CacheSets
  <2>2. /\ Cache!Of(b.key) # {}
        /\ IdleQueue(ka') = Cache!Remove(IdleQueue(ka), {Cache!Newest(Cache!Of(b.key))})
        /\ InUse' = InUse \cup {[key |-> b.key, conn |-> Cache!Newest(Cache!Of(b.key)).conn,
                                 keep |-> TRUE, size |-> b.size]}
    BY <1>5, <1>7, <1>15, <1>16, <2>1, CacheOps
  <2> QED
    BY <1>3, <2>2 DEF Cache!Reuse
<1> QED
  BY <1>6, <1>13, <1>14, <1>17 DEF Inv

LEMMA GetPeerRight ==
    ASSUME Inv, NEW r \in Request, GetPeer(r)
    PROVE  Inv' /\ (Cache!Connect \/ UNCHANGED <<IdleQueue(ka), InUse>>)
<1>1. PICK b \in Chosen(r), c \in {x \in Conn : conn[x] = "free"} \cup {Nil} :
         /\ ~(b.keep /\ FindPool(ka, b.key) # Nil)
         /\ req' = [req EXCEPT ![r] = [b EXCEPT !.at = "busy", !.conn = c]]
         /\ conn' = IF c = Nil THEN conn ELSE [conn EXCEPT ![c] = "open"]
         /\ ka' = ka
  BY DEF GetPeer
<1> DEFINE d == [b EXCEPT !.at = "busy", !.conn = c]
<1>2. /\ ReqsOk(req) /\ PoolsOk(ka, ka.cache.items)
      /\ req[r].at = "ask" /\ req[r].conn = Nil
  BY DEF GetPeer, Asks, Inv, Owned, CacheOk, ReqsOk, ReqOk
<1>3. c \in Conn \cup {Nil}
  OBVIOUS
<1>4. ReqOk(d) /\ TriesOk(d) /\ b \in Req /\ b.key \in Key
  BY <1>2, <1>3, ChosenRight
<1>5. d.at = "busy" /\ d.conn = c /\ d.key = b.key /\ d.keep = b.keep /\ d.size = b.size
  BY <1>4 DEF Req
<1>6. req' = [req EXCEPT ![r] = d]
  BY <1>1
<1> HIDE DEF d
<1>7. CASE c = Nil
  BY <1>1, <1>2, <1>4, <1>5, <1>6, <1>7, QuietStep
<1>8. CASE c # Nil
  <2>1. c \in Conn /\ conn[c] = "free" /\ conn' = [conn EXCEPT ![c] = "open"]
    BY <1>1, <1>8
  <2>2. /\ conn \in [Conn -> {"free", "open", "closing"}] /\ Keeps(ka) \subseteq Conn
        /\ \A x \in Request : req[x].conn \notin Keeps(ka)
        /\ \A x, y \in Request : req[x].conn = req[y].conn /\ req[x].conn # Nil => x = y
        /\ \A x \in Conn : conn[x] = "open" <=> x \in Keeps(ka) \/ \E y \in Request : req[y].conn = x
    BY DEF Inv, Owned
  <2>3. c \notin Keeps(ka) /\ \A y \in Request : req[y].conn # c
    BY <2>1, <2>2
  <2>4. /\ conn' \in [Conn -> {"free", "open", "closing"}]
        /\ \A x \in Conn : conn'[x] = "open" <=> conn[x] = "open" \/ x = c
    BY <2>1, <2>2
  <2>5. ReqsOk(req')
    BY <1>2, <1>4, <1>6, ReqStep
  <2>6. \A x \in Request : req'[x].conn = IF x = r THEN c ELSE req[x].conn
    <3>1. \A x \in Request : req'[x].conn = IF x = r THEN d.conn ELSE req[x].conn
      BY <1>2, <1>6, ConnsAfter
    <3> QED
      BY <1>5, <3>1
  <2>7. Owned(req', conn', ka')
    <3>1. \A x \in Request : req'[x].conn \notin Keeps(ka')
      BY <1>1, <2>2, <2>3, <2>6
    <3>2. \A x, y \in Request : req'[x].conn = req'[y].conn /\ req'[x].conn # Nil => x = y
      BY <2>2, <2>3, <2>6
    <3>3. \A x \in Conn : conn'[x] = "open" <=> x \in Keeps(ka) \/ \E y \in Request : req'[y].conn = x
      <4> SUFFICES ASSUME NEW x \in Conn
                   PROVE  conn'[x] = "open" <=> x \in Keeps(ka) \/ \E y \in Request : req'[y].conn = x
        OBVIOUS
      <4>1. CASE x = c
        BY <2>4, <2>6, <4>1
      <4>2. CASE x # c
        BY <1>2, <2>2, <2>4, <2>6, <4>2, NilApart
      <4> QED
        BY <4>1, <4>2
    <3>4. Distinct(ka) /\ ka' = ka
      BY <1>1 DEF Inv, Owned
    <3> QED
      BY <2>2, <2>4, <3>1, <3>2, <3>3, <3>4 DEF Owned
  <2>8. InUse' = InUse \cup {Using(d)}
    BY <1>2, <1>5, <1>6, <1>8, UseAdded
  <2>9. Cache!Connect
    <3>1. c \in Conn \ Cache!Known
      <4>1. \A u \in InUse : \E y \in Request : u.conn = req[y].conn
        BY DEF InUse, Using
      <4>2. \A e \in IdleQueue(ka).items : e.conn \in Keeps(ka)
        BY IdleShape DEF Inv
      <4> QED
        BY <2>1, <2>3, <4>1, <4>2 DEF Cache!Known
    <3>2. b.keep => Cache!Of(b.key) = {}
      <4> SUFFICES ASSUME b.keep PROVE Keyed(ka, b.key) = {}
        BY CacheSets
      <4>1. FindPool(ka, b.key) = Nil
        BY <1>1
      <4>2. \A i \in ka.cache.items : ka.item[i].key # b.key
        BY <1>2, <1>4, <4>1, NilApart, FindPoolRight
      <4> QED
        BY <4>2 DEF Keyed, IdleQueue, Entries, Entry
    <3>3. Using(d) = [key |-> b.key, conn |-> c, keep |-> b.keep, size |-> b.size]
      BY <1>5 DEF Using
    <3>4. b.keep \in BOOLEAN /\ b.size \in PoolSizes \cup {0}
      BY <1>4, <1>5 DEF ReqOk, Req
    <3>5. IdleQueue(ka') = IdleQueue(ka)
      BY <1>1
    <3>6. /\ b.key \in Key
          /\ InUse' = InUse \cup {[key |-> b.key, conn |-> c, keep |-> b.keep, size |-> b.size]}
      BY <1>4, <2>8, <3>3
    <3> QED
      BY <3>1, <3>2, <3>4, <3>5, <3>6 DEF Cache!Connect
  <2> QED
    BY <1>1, <2>5, <2>7, <2>9 DEF Inv
<1> QED
  BY <1>7, <1>8

\* A connection that a request gives back is closed or kept
LEMMA FreePeerInvalidRight ==
    ASSUME Inv, NEW r \in Request, FreePeerInvalid(r)
    PROVE  Inv' /\ (Cache!Close \/ UNCHANGED <<IdleQueue(ka), InUse>>)
<1> DEFINE c == req[r].conn
<1>1. PICK again \in BOOLEAN, error \in BOOLEAN :
         LET b == [req[r] EXCEPT !.tries = TriesLeft(req[r])]
         IN  req' = [req EXCEPT ![r] = Leaves(r, IF error THEN Notified(b) ELSE b.tries, again)]
  BY DEF FreePeerInvalid
<1> DEFINE b == [req[r] EXCEPT !.tries = TriesLeft(req[r])]
           n == IF error THEN Notified(b) ELSE b.tries
           d == Leaves(r, n, again)
<1>2. /\ ReqsOk(req) /\ req[r] \in Req /\ req[r].at = "busy" /\ Closes({c} \ {Nil}) /\ ka' = ka
      /\ Owned(req, conn, ka) /\ CacheOk(ka, {})
  BY DEF FreePeerInvalid, Inv, ReqsOk
<1>3. n = TriesLeft(req[r]) /\ n \in Nat
  <2>1. TriesLeft(req[r]) \in Nat
    BY <1>2 DEF TriesLeft, Req
  <2>2. b.tries = TriesLeft(req[r])
    BY <1>2 DEF Req
  <2> HIDE DEF b
  <2>3. Notified(b) = b.tries
    BY <2>1, <2>2 DEF Notified
  <2> QED
    BY <2>1, <2>2, <2>3
<1>4. req' = [req EXCEPT ![r] = d]
  BY <1>1
<1> HIDE DEF b, n
<1>5. ReqOk(d) /\ TriesOk(d) /\ d.conn = Nil /\ d.at # "busy"
  <2>1. n <= TriesLeft(req[r])
    BY <1>3
  <2> QED
    BY <1>2, <1>3, <2>1, LeavesRight
<1> HIDE DEF d
<1>6. ReqsOk(req')
  BY <1>2, <1>4, <1>5, ReqStep
<1>7. \A x \in Request : req'[x].conn = IF x = r THEN Nil ELSE req[x].conn
  <2>1. \A x \in Request : req'[x].conn = IF x = r THEN d.conn ELSE req[x].conn
    BY <1>2, <1>4, ConnsAfter
  <2> QED
    BY <1>5, <2>1
<1>8. c \in Conn \cup {Nil}
  BY <1>2 DEF Req
<1>9. /\ conn' \in [Conn -> {"free", "open", "closing"}]
      /\ \A x \in Conn : conn'[x] = "open" <=> conn[x] = "open" /\ x # c
  <2>1. /\ conn' \in [Conn -> {"free", "open", "closing"}]
        /\ \A x \in Conn : conn'[x] = "open" <=> conn[x] = "open" /\ x \notin {c} \ {Nil}
    BY <1>2, ClosesRight DEF Owned
  <2> QED
    BY <2>1, NilApart
<1>10. Owned(req', conn', ka')
  <2>1. /\ Keeps(ka) \subseteq Conn /\ Distinct(ka)
        /\ \A x \in Request : req[x].conn \notin Keeps(ka)
        /\ \A x, y \in Request : req[x].conn = req[y].conn /\ req[x].conn # Nil => x = y
        /\ \A x \in Conn : conn[x] = "open" <=> x \in Keeps(ka) \/ \E y \in Request : req[y].conn = x
    BY <1>2 DEF Owned
  <2>2. \A x \in Request : req'[x].conn \notin Keeps(ka)
    BY <1>7, <2>1, NilApart
  <2>3. \A x, y \in Request : req'[x].conn = req'[y].conn /\ req'[x].conn # Nil => x = y
    BY <1>7, <2>1
  <2>4. \A x \in Conn : conn'[x] = "open" <=> x \in Keeps(ka) \/ \E y \in Request : req'[y].conn = x
    BY <1>7, <1>9, <2>1, NilApart
  <2> QED
    BY <1>2, <1>9, <2>1, <2>2, <2>3, <2>4 DEF Owned
<1>11. CASE c = Nil
  <2>1. InUse' = InUse
    BY <1>2, <1>4, <1>5, <1>11, UseSame
  <2> QED
    BY <1>2, <1>6, <1>10, <2>1 DEF Inv
<1>12. CASE c # Nil
  <2>1. Using(req[r]) \in InUse /\ InUse' = InUse \ {Using(req[r])}
    BY <1>2, <1>4, <1>5, <1>12, UseRemoved
  <2>2. Cache!Close
    BY <1>2, <2>1 DEF Cache!Close
  <2> QED
    BY <1>2, <1>6, <1>10, <2>2 DEF Inv
<1> QED
  BY <1>11, <1>12

LEMMA FreePeerKeptRight ==
    ASSUME Inv, NEW r \in Request, FreePeerKept(r)
    PROVE  Inv' /\ Cache!Save
<1> DEFINE c == req[r].conn
           key == req[r].key
           size == req[r].size
           i == ItemFor(ka, key, size)
           k == Saved(Emptied(ka, i), i, key, c)
           C == IF i \in ka.free THEN {} ELSE {ka.item[i].conn}
           f == Freed(k, i)
           R == RoomOf(ka, key, size)
<1>1. PICK again \in BOOLEAN : req' = [req EXCEPT ![r] = Leaves(r, TriesLeft(req[r]), again)]
  BY DEF FreePeerKept
<1> DEFINE d == Leaves(r, TriesLeft(req[r]), again)
<1>2. /\ ReqsOk(req) /\ req[r] \in Req /\ ReqOk(req[r]) /\ req[r].at = "busy" /\ req[r].keep /\ c # Nil
      /\ Owned(req, conn, ka) /\ CacheOk(ka, {}) /\ Distinct(ka)
      /\ \/ ka' = k /\ Closes(C)
         \/ ka' = f /\ Closes(C \cup {c})
  BY DEF FreePeerKept, Inv, ReqsOk, Owned
<1>3. key \in Key /\ size \in Nat /\ c \in Conn /\ c \notin Keeps(ka)
  BY <1>2, NilApart DEF Owned, ReqOk, Req
<1>4. ReqOk(d) /\ TriesOk(d) /\ d.conn = Nil /\ d.at # "busy"
  <2>1. TriesLeft(req[r]) \in Nat /\ TriesLeft(req[r]) <= TriesLeft(req[r])
    BY <1>2 DEF TriesLeft, Req
  <2> QED
    BY <1>2, <2>1, LeavesRight
<1>5. /\ C \subseteq Keeps(ka)
      /\ CacheOk(k, {}) /\ Distinct(k) /\ Keeps(k) = (Keeps(ka) \ C) \cup {c}
      /\ IdleQueue(k) = InsertHead(R, [key |-> key, conn |-> c])
      /\ CacheOk(f, {}) /\ Distinct(f) /\ Keeps(f) = Keeps(ka) \ C /\ IdleQueue(f) = R
  <2> HIDE DEF c, key, size
  <2> QED
    BY <1>2, <1>3, SaveRight
<1>6. req' = [req EXCEPT ![r] = d]
  BY <1>1
<1>7. Using(req[r]).key = key /\ Using(req[r]).conn = c /\ Using(req[r]).size = size /\ Using(req[r]).keep
  BY <1>2 DEF Using
<1> HIDE DEF key, size, i, k, C, f, R, d
<1>8. ReqsOk(req')
  BY <1>2, <1>4, <1>6, ReqStep
<1>9. \A x \in Request : req'[x].conn = IF x = r THEN Nil ELSE req[x].conn
  <2>1. \A x \in Request : req'[x].conn = IF x = r THEN d.conn ELSE req[x].conn
    BY <1>2, <1>6, ConnsAfter
  <2> QED
    BY <1>4, <2>1
<1>10. Using(req[r]) \in InUse /\ InUse' = InUse \ {Using(req[r])}
  BY <1>2, <1>4, <1>6, UseRemoved
<1>11. Cache!Room(key, size) = R
  BY CacheRoom DEF R
<1>a. /\ Keeps(ka) \subseteq Conn /\ conn \in [Conn -> {"free", "open", "closing"}]
      /\ \A x \in Request : req[x].conn \notin Keeps(ka)
      /\ \A x, y \in Request : req[x].conn = req[y].conn /\ req[x].conn # Nil => x = y
      /\ \A x \in Conn : conn[x] = "open" <=> x \in Keeps(ka) \/ \E y \in Request : req[y].conn = x
  BY <1>2 DEF Owned
<1>b. \A x, y \in Request : req'[x].conn = req'[y].conn /\ req'[x].conn # Nil => x = y
  BY <1>9, <1>a
<1>12. CASE ka' = k /\ Closes(C)
  <2>1. /\ conn' \in [Conn -> {"free", "open", "closing"}]
        /\ \A x \in Conn : conn'[x] = "open" <=> conn[x] = "open" /\ x \notin C
    BY <1>12, <1>a, ClosesRight
  <2>2. \A x \in Request : req'[x].conn \notin Keeps(k)
    BY <1>3, <1>5, <1>9, <1>a, NilApart DEF c
  <2>3. \A x \in Conn : conn'[x] = "open" <=> x \in Keeps(k) \/ \E y \in Request : req'[y].conn = x
    <3> SUFFICES ASSUME NEW x \in Conn
                 PROVE  conn'[x] = "open" <=> x \in Keeps(k) \/ \E y \in Request : req'[y].conn = x
      OBVIOUS
    <3>1. CASE x = c
      BY <1>3, <1>5, <1>a, <2>1, <3>1 DEF c
    <3>2. CASE x # c
      BY <1>3, <1>5, <1>9, <1>a, <2>1, <3>2, NilApart DEF c
    <3> QED
      BY <3>1, <3>2
  <2>4. Owned(req', conn', ka')
    BY <1>3, <1>5, <1>12, <1>a, <1>b, <2>1, <2>2, <2>3 DEF Owned
  <2>5. IdleQueue(ka') = Cache!InsertHead(Cache!Room(key, size), [key |-> key, conn |-> c])
    BY <1>5, <1>11, <1>12, CacheOps
  <2>6. Cache!Save
    BY <1>7, <1>10, <2>5 DEF Cache!Save
  <2> QED
    BY <1>5, <1>8, <1>12, <2>4, <2>6 DEF Inv
<1>13. CASE ka' = f /\ Closes(C \cup {c})
  <2>1. /\ conn' \in [Conn -> {"free", "open", "closing"}]
        /\ \A x \in Conn : conn'[x] = "open" <=> conn[x] = "open" /\ x \notin C \cup {c}
    BY <1>13, <1>a, ClosesRight
  <2>2. \A x \in Request : req'[x].conn \notin Keeps(f)
    BY <1>3, <1>5, <1>9, <1>a, NilApart DEF c
  <2>3. \A x \in Conn : conn'[x] = "open" <=> x \in Keeps(f) \/ \E y \in Request : req'[y].conn = x
    BY <1>3, <1>5, <1>9, <1>a, <2>1, NilApart DEF c
  <2>4. Owned(req', conn', ka')
    BY <1>3, <1>5, <1>13, <1>a, <1>b, <2>1, <2>2, <2>3 DEF Owned
  <2>5. IdleQueue(ka') = Cache!Room(key, size)
    BY <1>5, <1>11, <1>13
  <2>6. Cache!Save
    BY <1>7, <1>10, <2>5 DEF Cache!Save
  <2> QED
    BY <1>5, <1>8, <1>13, <2>4, <2>6 DEF Inv
<1> QED
  BY <1>2, <1>12, <1>13

-----------------------------------------------------------------------------
(* The theorems.                                                           *)

LEMMA InitRight == Init => Inv /\ Cache!Init
<1> SUFFICES ASSUME Init PROVE Inv /\ Cache!Init
  OBVIOUS
<1>1. /\ req = [r \in Request |-> NoRequest] /\ conn = [c \in Conn |-> "free"]
      /\ ka.item = [i \in Items |-> NoItem] /\ ka.cache = EmptyQueue /\ ka.free = Items
      /\ ka.pool = [p \in Items |-> [hash |-> 0, items |-> EmptyQueue, count |-> 0]]
      /\ ka.pools = Items /\ ka.bucket = [b \in Buckets |-> {}]
  BY DEF Init
<1>2. ReqsOk(req)
  BY <1>1, NoRequestOk DEF ReqsOk, ReqOk
<1>3. EmptyQueue \in QueuesOver(Items) /\ WellFormed(EmptyQueue) /\ EmptyQueue.items = {}
      /\ EmptyQueue.before = {}
  BY EmptyQueueWF, EmptyQueueType DEF EmptyQueue
<1>4. ka \in Ka
  <2>1. NoItem \in Item
    BY DEF NoItem, Item
  <2>2. [hash |-> 0, items |-> EmptyQueue, count |-> 0] \in Pool
    BY <1>3 DEF Pool
  <2>3. /\ [i \in Items |-> NoItem] \in [Items -> Item]
        /\ [p \in Items |-> [hash |-> 0, items |-> EmptyQueue, count |-> 0]] \in [Items -> Pool]
        /\ [b \in Buckets |-> {}] \in [Buckets -> SUBSET Items]
    BY <2>1, <2>2
  <2> QED
    BY <1>3, <2>3 DEF Init, Ka
<1>5. \A p \in Items : Members(ka, p) = {} /\ ka.pool[p].items = EmptyQueue /\ ka.pool[p].count = 0
  BY <1>1, <1>3 DEF Members
<1>6. HoldsItems(ka, {}) /\ InOrder(ka, {})
  BY <1>5 DEF HoldsItems, InOrder
<1>7. PlacesPools(ka)
  BY <1>1, <1>3, <1>5, FS_EmptySet DEF PlacesPools
<1>8. CacheOk(ka, {})
  BY <1>1, <1>3, <1>4, <1>6, <1>7 DEF CacheOk, PoolsOk
<1>9. Keeps(ka) = {} /\ Distinct(ka)
  BY <1>1, <1>3 DEF Keeps, Distinct
<1>10. \A r \in Request : req[r].conn = Nil /\ req[r].at = "out"
  BY <1>1, NoRequestOk
<1>11. Owned(req, conn, ka)
  BY <1>1, <1>9, <1>10, NilApart DEF Owned
<1>12. IdleQueue(ka) = EmptyQueue /\ InUse = {}
  <2>1. IdleQueue(ka) = EmptyQueue
    BY <1>1, <1>3 DEF IdleQueue, Entries, EmptyQueue
  <2>2. InUse = {}
    BY <1>10 DEF InUse
  <2> QED
    BY <2>1, <2>2
<1> QED
  BY <1>2, <1>8, <1>11, <1>12, CacheOps DEF Inv, Cache!Init

\* Each step of the cache keeps the invariant and is a step of the list
LEMMA StepRight == Inv /\ [Next]_vars => Inv' /\ [Cache!Next]_<<IdleQueue(ka), InUse>>
<1> SUFFICES ASSUME Inv, [Next]_vars PROVE Inv' /\ [Cache!Next]_<<IdleQueue(ka), InUse>>
  OBVIOUS
<1> USE DEF Cache!Next
<1>1. ASSUME NEW r \in Request, InitPeer(r) \/ NoPeer(r)
      PROVE  Inv' /\ [Cache!Next]_<<IdleQueue(ka), InUse>>
  BY <1>1, InitPeerRight, NoPeerRight
<1>2. ASSUME NEW r \in Request, GetCached(r)
      PROVE  Inv' /\ [Cache!Next]_<<IdleQueue(ka), InUse>>
  BY <1>2, GetCachedRight
<1>3. ASSUME NEW r \in Request, GetPeer(r)
      PROVE  Inv' /\ [Cache!Next]_<<IdleQueue(ka), InUse>>
  BY <1>3, GetPeerRight
<1>4. ASSUME NEW r \in Request, FreePeerInvalid(r)
      PROVE  Inv' /\ [Cache!Next]_<<IdleQueue(ka), InUse>>
  BY <1>4, FreePeerInvalidRight
<1>5. ASSUME NEW r \in Request, FreePeerKept(r)
      PROVE  Inv' /\ [Cache!Next]_<<IdleQueue(ka), InUse>>
  BY <1>5, FreePeerKeptRight
<1>6. ASSUME NEW i \in Items, CloseHandler(i)
      PROVE  Inv' /\ [Cache!Next]_<<IdleQueue(ka), InUse>>
  BY <1>6, CloseHandlerRight
<1>7. ASSUME NEW c \in Conn, CloseEnds(c)
      PROVE  Inv' /\ [Cache!Next]_<<IdleQueue(ka), InUse>>
  BY <1>7, CloseEndsRight
<1>8. CASE UNCHANGED vars
  <2>1. req' = req /\ conn' = conn /\ ka' = ka
    BY <1>8 DEF vars
  <2>2. InUse' = InUse
    BY <2>1 DEF InUse
  <2> QED
    BY <2>1, <2>2 DEF Inv
<1> QED
  BY <1>1, <1>2, <1>3, <1>4, <1>5, <1>6, <1>7, <1>8 DEF Next

LEMMA InvExact == Inv => CacheExact /\ TriesLimited
<1> SUFFICES ASSUME Inv PROVE CacheExact /\ TriesLimited
  OBVIOUS
<1>1. /\ ReqsOk(req) /\ Owned(req, conn, ka) /\ CacheOk(ka, {})
      /\ ka \in Ka /\ HoldsItems(ka, ka.cache.items) /\ PlacesPools(ka)
      /\ WellFormed(ka.cache) /\ ka.free = Items \ ka.cache.items
      /\ ka.cache.items \subseteq Items
  BY DEF Inv, CacheOk, PoolsOk, HoldsItems
<1>2. TypeOK
  <2>1. conn \in [Conn -> {"free", "open", "closing"}]
    BY <1>1 DEF Owned
  <2>2. ASSUME NEW r \in Request
        PROVE  /\ req[r].at \in {"out", "ask", "busy"}
               /\ req[r].key \in Key \cup {Nil} /\ req[r].conn \in Conn \cup {Nil}
               /\ {req[r].tries, req[r].total, req[r].tried} \subseteq Nat
    BY <1>1 DEF ReqsOk, Req
  <2>3. /\ ka.cache \in QueuesOver(Items) /\ ka.free \subseteq Items /\ ka.pools \subseteq Items
        /\ ka.bucket \in [Buckets -> SUBSET Items]
        /\ \A p \in Items : ka.pool[p].items \in QueuesOver(Items) /\ ka.pool[p].count \in Nat
    BY <1>1 DEF Ka, Pool
  <2> QED
    BY <2>1, <2>2, <2>3 DEF TypeOK
<1>3. \A p \in Items :
          /\ WellFormed(ka.pool[p].items)
          /\ ka.pool[p].count = Cardinality(ka.pool[p].items.items)
          /\ p \in ka.pools <=> ka.pool[p].count = 0
          /\ \A b \in Buckets : p \in ka.bucket[b] <=>
                ka.pool[p].count > 0 /\ b = BucketOf(ka.pool[p].hash)
  <2> SUFFICES ASSUME NEW p \in Items
               PROVE  /\ WellFormed(ka.pool[p].items)
                      /\ ka.pool[p].count = Cardinality(ka.pool[p].items.items)
                      /\ p \in ka.pools <=> ka.pool[p].count = 0
                      /\ \A b \in Buckets : p \in ka.bucket[b] <=>
                            ka.pool[p].count > 0 /\ b = BucketOf(ka.pool[p].hash)
    OBVIOUS
  <2>1. Members(ka, p) = ka.pool[p].items.items /\ Members(ka, p) \subseteq Items
    BY <1>1 DEF Members, Ka, Pool, QueuesOver
  <2>2. ka.pool[p].count = Cardinality(Members(ka, p)) /\ IsFiniteSet(Members(ka, p))
    BY <1>1, <2>1, ItemsFinite DEF PlacesPools
  <2>3. ka.pool[p].count \in Nat /\ (ka.pool[p].count = 0 <=> Members(ka, p) = {})
    BY <2>2, FS_CardinalityType, FS_EmptySet
  <2> QED
    BY <1>1, <2>1, <2>2, <2>3 DEF PlacesPools
<1>4. /\ \A i, p \in Items :
            i \in ka.pool[p].items.items <=> i \in ka.cache.items /\ ka.item[i].pool = p
      /\ \A i, j \in ka.cache.items :
            ka.item[i].key = ka.item[j].key <=> ka.item[i].pool = ka.item[j].pool
  BY <1>1 DEF HoldsItems, Members
<1>5. ASSUME NEW c \in Conn
      PROVE  /\ conn[c] = "open" <=> Owners(c) # {}
             /\ \A o1, o2 \in Owners(c) : o1 = o2
  <2>1. /\ \A x \in Request : req[x].conn \notin Keeps(ka)
        /\ \A x, y \in Request : req[x].conn = req[y].conn /\ req[x].conn # Nil => x = y
        /\ conn[c] = "open" <=> c \in Keeps(ka) \/ \E y \in Request : req[y].conn = c
        /\ Distinct(ka)
    BY <1>1 DEF Owned
  <2>2. \A o : o \in Owners(c) <=>
                 \/ \E r \in Request : req[r].conn = c /\ o = <<"request", r>>
                 \/ \E i \in ka.cache.items : ka.item[i].conn = c /\ o = <<"item", i>>
    BY DEF Owners
  <2>3. c \in Keeps(ka) <=> \E i \in ka.cache.items : ka.item[i].conn = c
    BY DEF Keeps
  <2>4. conn[c] = "open" <=> Owners(c) # {}
    BY <2>1, <2>2, <2>3
  <2>5. \A o1, o2 \in Owners(c) : o1 = o2
    BY <2>1, <2>2, <2>3, NilApart DEF Distinct
  <2> QED
    BY <2>4, <2>5
<1>6. CacheExact
  BY <1>1, <1>2, <1>3, <1>4, <1>5 DEF CacheExact
<1>7. TriesLimited
  BY <1>1 DEF TriesLimited, ReqsOk, TriesOk
<1> QED
  BY <1>6, <1>7

THEOREM Invariance == Spec => []Inv
<1>1. Init => Inv
  BY InitRight
<1>2. Inv /\ [Next]_vars => Inv'
  BY StepRight
<1> QED
  BY <1>1, <1>2, PTL DEF Spec

\* The queues, the pools and the buckets of the keepalive cache agree, and a
\* connection is open exactly while one request or one item has it
THEOREM CacheCorrect == Spec => []CacheExact
<1>1. Inv => CacheExact
  BY InvExact
<1> QED
  BY <1>1, Invariance, PTL

\* A request is sent to a peer next_upstream_tries times at most, whatever
\* ngx_http_lua_ffi_balancer_set_more_tries is asked for
THEOREM TriesCorrect == Spec => []TriesLimited
<1>1. Inv => TriesLimited
  BY InvExact
<1> QED
  BY <1>1, Invariance, PTL

\* The keepalive cache implements the one list of idle connections
THEOREM IsCacheCorrect == Spec => IsCache
<1>1. Init => Cache!Init
  BY InitRight
<1>2. Inv /\ [Next]_vars => [Cache!Next]_<<IdleQueue(ka), InUse>>
  BY StepRight
<1> QED
  BY <1>1, <1>2, Invariance, PTL DEF Spec, IsCache, Cache!Spec
===============================================================================
