-------------------------- MODULE SemaphoreProofs --------------------------
(* The allocator of semaphores is right for every size of its blocks and   *)
(* every number of them; waiters, wake-ups and service order are right for *)
(* every number of coroutines, semaphores and resources, whatever the      *)
(* collector does.                                                         *)
EXTENDS Semaphore, FiniteSetTheorems, TLAPS

-----------------------------------------------------------------------------
(* What the operations on queues preserve and return.                      *)

LEMMA EmptyQueueWF == WellFormed(EmptyQueue)
BY DEF EmptyQueue, WellFormed

LEMMA EmptyQueueType == \A S : EmptyQueue \in QueuesOver(S)
BY DEF EmptyQueue, QueuesOver

\* An element that is inserted becomes the first or the last one
LEMMA InsertHeadWF ==
    ASSUME NEW S, NEW q \in QueuesOver(S), NEW x \in S, WellFormed(q),
           x \notin q.items
    PROVE  /\ InsertHead(q, x) \in QueuesOver(S)
           /\ WellFormed(InsertHead(q, x))
           /\ InsertHead(q, x).items = q.items \cup {x}
<1> DEFINE r == InsertHead(q, x)
<1>1. /\ r.items = q.items \cup {x}
      /\ r.before = q.before \cup ({x} \X q.items)
  BY DEF InsertHead
<1>2. r \in QueuesOver(S)
  BY DEF InsertHead, QueuesOver
<1> HIDE DEF r
<1>3. \A y, z : <<y, z>> \in r.before <=>
                    <<y, z>> \in q.before \/ (y = x /\ z \in q.items)
  BY <1>1
<1>4. \A y, z : <<y, z>> \in q.before => y \in q.items /\ z \in q.items
  BY DEF WellFormed
<1>5. \A p \in r.before : p[1] \in r.items /\ p[2] \in r.items
  BY <1>1 DEF WellFormed
<1>6. \A y, z \in r.items : y # z => <<y, z>> \in r.before \/ <<z, y>> \in r.before
  BY <1>1, <1>3 DEF WellFormed
<1>7. \A y, z \in r.items : ~(<<y, z>> \in r.before /\ <<z, y>> \in r.before)
  BY <1>1, <1>3, <1>4 DEF WellFormed
<1>8. \A y, z, w \in r.items : /\ <<y, z>> \in r.before /\ <<z, w>> \in r.before
                               => <<y, w>> \in r.before
  BY <1>1, <1>3, <1>4 DEF WellFormed
<1> QED
  BY <1>1, <1>2, <1>5, <1>6, <1>7, <1>8 DEF WellFormed, r

LEMMA InsertTailWF ==
    ASSUME NEW S, NEW q \in QueuesOver(S), NEW x \in S, WellFormed(q),
           x \notin q.items
    PROVE  /\ InsertTail(q, x) \in QueuesOver(S)
           /\ WellFormed(InsertTail(q, x))
           /\ InsertTail(q, x).items = q.items \cup {x}
<1> DEFINE r == InsertTail(q, x)
<1>1. /\ r.items = q.items \cup {x}
      /\ r.before = q.before \cup (q.items \X {x})
  BY DEF InsertTail
<1>2. r \in QueuesOver(S)
  BY DEF InsertTail, QueuesOver
<1> HIDE DEF r
<1>3. \A y, z : <<y, z>> \in r.before <=>
                    <<y, z>> \in q.before \/ (z = x /\ y \in q.items)
  BY <1>1
<1>4. \A y, z : <<y, z>> \in q.before => y \in q.items /\ z \in q.items
  BY DEF WellFormed
<1>5. \A p \in r.before : p[1] \in r.items /\ p[2] \in r.items
  BY <1>1 DEF WellFormed
<1>6. \A y, z \in r.items : y # z => <<y, z>> \in r.before \/ <<z, y>> \in r.before
  BY <1>1, <1>3 DEF WellFormed
<1>7. \A y, z \in r.items : ~(<<y, z>> \in r.before /\ <<z, y>> \in r.before)
  BY <1>1, <1>3, <1>4 DEF WellFormed
<1>8. \A y, z, w \in r.items : /\ <<y, z>> \in r.before /\ <<z, w>> \in r.before
                               => <<y, w>> \in r.before
  BY <1>1, <1>3, <1>4 DEF WellFormed
<1> QED
  BY <1>1, <1>2, <1>5, <1>6, <1>7, <1>8 DEF WellFormed, r

\* Removal keeps the order of the others
LEMMA RemoveWF ==
    ASSUME NEW S, NEW q \in QueuesOver(S), WellFormed(q), NEW D
    PROVE  /\ Remove(q, D) \in QueuesOver(S)
           /\ WellFormed(Remove(q, D))
           /\ Remove(q, D).items = q.items \ D
<1> DEFINE r == Remove(q, D)
<1>1. r.items = q.items \ D
  BY DEF Remove
<1>2. \A y, z : <<y, z>> \in r.before <=>
                    <<y, z>> \in q.before /\ y \notin D /\ z \notin D
  BY DEF Remove
<1>3. \A p \in r.before : p \in q.before /\ p[1] \notin D /\ p[2] \notin D
  BY DEF Remove
<1>4. r \in QueuesOver(S)
  BY <1>1, <1>3 DEF Remove, QueuesOver
<1> HIDE DEF r
<1>5. \A p \in r.before : p[1] \in r.items /\ p[2] \in r.items
  BY <1>1, <1>3 DEF WellFormed
<1>6. \A y, z \in r.items : y # z => <<y, z>> \in r.before \/ <<z, y>> \in r.before
  BY <1>1, <1>2 DEF WellFormed
<1>7. \A y, z \in r.items : ~(<<y, z>> \in r.before /\ <<z, y>> \in r.before)
  BY <1>1, <1>2 DEF WellFormed
<1>8. \A y, z, w \in r.items : /\ <<y, z>> \in r.before /\ <<z, w>> \in r.before
                               => <<y, w>> \in r.before
  BY <1>1, <1>2 DEF WellFormed
<1> QED
  BY <1>1, <1>4, <1>5, <1>6, <1>7, <1>8 DEF WellFormed, r

-----------------------------------------------------------------------------
(* SemaphoreBlocks.                                                        *)

(* The inductive invariant.  Whether a block is given back depends on its   *)
(* counter, so that no semaphore of it is held needs the counters exact;    *)
(* that all of its semaphores leave the queue needs the queue exact.        *)

BlocksInv ==
    /\ BlocksTypeOK
    /\ IsFiniteSet(held)
    /\ HeldAllocated
    /\ FreeQueueExact
    /\ CountersExact
    /\ blocks \subseteq 1 .. curEpoch
    /\ ~exited /\ curEpoch > 0 => curEpoch \in blocks
    /\ exited => held = {} /\ blocks = {}

LEMMA InLiveSlots ==
    ASSUME NEW B, NEW s
    PROVE  s \in LiveSlots(B) <=>
             \E e \in B, i \in 1 .. NumPerBlock : s = <<e, i>>
BY DEF LiveSlots, SlotsOf

LEMMA InSlots ==
    ASSUME NEW s \in Slots
    PROVE  /\ s = <<Epoch(s), s[2]>>
           /\ Epoch(s) \in Epochs /\ s[2] \in 1 .. NumPerBlock
           /\ s \in SlotsOf(Epoch(s))
           /\ \A e : s \in SlotsOf(e) => e = Epoch(s)
BY DEF Slots, SlotsOf, Epoch

LEMMA BlocksInitInv == BlocksInit => BlocksInv
<1> SUFFICES ASSUME BlocksInit PROVE BlocksInv
  OBVIOUS
<1>1. BlocksTypeOK
  <2>1. inUse \in [Epochs -> Nat] /\ curEpoch \in 0 .. MaxEpoch
    BY MaxEpochAssumption DEF BlocksInit
  <2>2. /\ free \in QueuesOver(Slots) /\ blocks \subseteq Epochs
        /\ held \subseteq Slots /\ total \in Nat /\ used \in Nat
    BY EmptyQueueType DEF BlocksInit
  <2>3. exited \in BOOLEAN
    BY DEF BlocksInit
  <2> QED
    BY <2>1, <2>2, <2>3 DEF BlocksTypeOK
<1>2. IsFiniteSet(held) /\ Cardinality(held) = 0 /\ Cardinality(blocks) = 0
  BY FS_EmptySet DEF BlocksInit
<1>3. FreeQueueExact
  BY EmptyQueueWF DEF BlocksInit, FreeQueueExact, EmptyQueue, LiveSlots
<1>4. CountersExact
  <2>1. NumPerBlock * Cardinality(blocks) = 0
    BY <1>2, NumPerBlockAssumption
  <2>2. blocks = {} /\ used = 0 /\ total = 0
    BY DEF BlocksInit
  <2> QED
    BY <1>2, <2>1, <2>2 DEF CountersExact
<1> QED
  BY <1>1, <1>2, <1>3, <1>4 DEF BlocksInv, BlocksInit, HeldAllocated

\* A semaphore becomes held: the counters
LEMMA HoldOne ==
    ASSUME IsFiniteSet(held), held \subseteq Slots, NEW s \in Slots,
           s \notin held, held' = held \cup {s}
    PROVE  /\ IsFiniteSet(held')
           /\ Cardinality(held') = Cardinality(held) + 1
           /\ Cardinality(HeldIn(Epoch(s))') = Cardinality(HeldIn(Epoch(s))) + 1
           /\ \A e : e # Epoch(s) => HeldIn(e)' = HeldIn(e)
<1>1. HeldIn(Epoch(s)) \in SUBSET held /\ s \notin HeldIn(Epoch(s))
  BY DEF HeldIn
<1>2. HeldIn(Epoch(s))' = HeldIn(Epoch(s)) \cup {s}
  BY DEF HeldIn
<1>3. IsFiniteSet(HeldIn(Epoch(s)))
  BY <1>1, FS_Subset
<1>4. Cardinality(HeldIn(Epoch(s)) \cup {s}) = Cardinality(HeldIn(Epoch(s))) + 1
  BY <1>1, <1>3, FS_AddElement
<1>5. IsFiniteSet(held') /\ Cardinality(held') = Cardinality(held) + 1
  BY FS_AddElement
<1>6. \A e : e # Epoch(s) => HeldIn(e)' = HeldIn(e)
  BY DEF HeldIn
<1> QED
  BY <1>2, <1>4, <1>5, <1>6

\* A semaphore is held no more: the counters
LEMMA DropOne ==
    ASSUME IsFiniteSet(held), NEW s \in held, held' = held \ {s}
    PROVE  /\ IsFiniteSet(held')
           /\ Cardinality(held') = Cardinality(held) - 1
           /\ Cardinality(held) \in Nat \ {0}
           /\ Cardinality(HeldIn(Epoch(s))') = Cardinality(HeldIn(Epoch(s))) - 1
           /\ Cardinality(HeldIn(Epoch(s))) \in Nat \ {0}
           /\ HeldIn(Epoch(s))' = HeldIn(Epoch(s)) \ {s}
           /\ IsFiniteSet(HeldIn(Epoch(s))')
           /\ \A e : e # Epoch(s) => HeldIn(e)' = HeldIn(e)
<1>1. HeldIn(Epoch(s)) \in SUBSET held /\ s \in HeldIn(Epoch(s))
  BY DEF HeldIn
<1>2. HeldIn(Epoch(s))' = HeldIn(Epoch(s)) \ {s}
  BY DEF HeldIn
<1>3. IsFiniteSet(HeldIn(Epoch(s)))
  BY <1>1, FS_Subset
<1>4. /\ Cardinality(HeldIn(Epoch(s)) \ {s}) = Cardinality(HeldIn(Epoch(s))) - 1
      /\ IsFiniteSet(HeldIn(Epoch(s)) \ {s})
  BY <1>1, <1>3, FS_RemoveElement
<1>5. IsFiniteSet(held') /\ Cardinality(held') = Cardinality(held) - 1
  BY FS_RemoveElement
<1>6. \A e : e # Epoch(s) => HeldIn(e)' = HeldIn(e)
  BY DEF HeldIn
<1>7. Cardinality(held) \in Nat /\ Cardinality(HeldIn(Epoch(s))) \in Nat
  BY <1>3, FS_CardinalityType
<1>8. Cardinality(held) # 0 /\ Cardinality(HeldIn(Epoch(s))) # 0
  BY <1>1, <1>3, FS_EmptySet
<1> QED
  BY <1>2, <1>4, <1>5, <1>6, <1>7, <1>8

\* The epochs that exist bound the number of blocks
LEMMA BlocksFinite ==
    ASSUME BlocksInv
    PROVE  /\ IsFiniteSet(blocks)
           /\ Cardinality(blocks) \in 0 .. curEpoch
<1>1. curEpoch \in Nat
  BY MaxEpochAssumption DEF BlocksInv, BlocksTypeOK
<1>2. IsFiniteSet(1 .. curEpoch) /\ Cardinality(1 .. curEpoch) = curEpoch
  BY <1>1, FS_Interval
<1>3. blocks \in SUBSET (1 .. curEpoch)
  BY DEF BlocksInv
<1>4. IsFiniteSet(blocks) /\ Cardinality(blocks) <= Cardinality(1 .. curEpoch)
  BY <1>2, <1>3, FS_Subset
<1>5. Cardinality(blocks) \in Nat
  BY <1>4, FS_CardinalityType
<1> QED
  BY <1>1, <1>2, <1>4, <1>5

LEMMA Halves == ASSUME NEW k \in Nat PROVE k \div 2 \in Nat /\ 2 * (k \div 2) <= k
OBVIOUS

LEMMA Quotient ==
    ASSUME NEW k \in Nat, NEW n \in Nat \ {0}
    PROVE  (n * k) \div n = k
OBVIOUS

\* mid_epoch does not wrap around and is not above the newest epoch
LEMMA MidEpochBounds ==
    ASSUME BlocksInv, ~exited
    PROVE  /\ MidEpoch \in Int /\ MidEpoch <= curEpoch
           /\ curEpoch > 0 => MidEpoch \in 1 .. curEpoch
<1> DEFINE k == Cardinality(blocks)
<1>1. k \in 0 .. curEpoch /\ k \in Nat /\ curEpoch \in Nat
  BY BlocksFinite, MaxEpochAssumption DEF BlocksInv, BlocksTypeOK
<1>2. total = NumPerBlock * k
  BY DEF BlocksInv, CountersExact
<1> HIDE DEF k
<1>3. total \div NumPerBlock = k
  BY <1>1, <1>2, NumPerBlockAssumption, Quotient
<1>4. k \div 2 \in Nat /\ 2 * (k \div 2) <= k
  BY <1>1, Halves
<1>5. MidEpoch = curEpoch - (k \div 2)
  BY <1>3 DEF MidEpoch
<1> QED
  BY <1>1, <1>4, <1>5

\* Nobody holds a semaphore of a block whose counter is zero
LEMMA UnusedNotHeld ==
    ASSUME IsFiniteSet(held), NEW e, Cardinality(HeldIn(e)) = 0
    PROVE  HeldIn(e) = {}
<1>1. HeldIn(e) \in SUBSET held
  BY DEF HeldIn
<1>2. IsFiniteSet(HeldIn(e))
  BY <1>1, FS_Subset
<1> QED
  BY <1>2, FS_EmptySet

LEMMA AllocFreeInv ==
    ASSUME BlocksInv, NEW s \in Slots, AllocFree(s), ~exited, UNCHANGED exited
    PROVE  BlocksInv'
<1> DEFINE e == Epoch(s)
<1>1. /\ BlocksTypeOK /\ IsFiniteSet(held) /\ held \subseteq Slots
      /\ free \in QueuesOver(Slots) /\ WellFormed(free)
      /\ free.items = LiveSlots(blocks) \ held
      /\ s \in free.items
  BY DEF BlocksInv, BlocksTypeOK, FreeQueueExact, AllocFree, IsHead
<1>2. s \in LiveSlots(blocks) /\ s \notin held /\ e \in Epochs
  BY <1>1, InSlots
<1>3. e \in blocks
  BY <1>2, InLiveSlots, InSlots
<1>4. /\ free' = Remove(free, {s}) /\ used' = used + 1
      /\ inUse' = [inUse EXCEPT ![e] = @ + 1] /\ held' = held \cup {s}
      /\ blocks' = blocks /\ total' = total /\ curEpoch' = curEpoch
  BY DEF AllocFree
<1>5. /\ free' \in QueuesOver(Slots) /\ WellFormed(free')
      /\ free'.items = LiveSlots(blocks) \ held'
  BY <1>1, <1>4, RemoveWF
<1>6. /\ IsFiniteSet(held')
      /\ Cardinality(held') = Cardinality(held) + 1
      /\ Cardinality(HeldIn(e)') = Cardinality(HeldIn(e)) + 1
      /\ \A d : d # e => HeldIn(d)' = HeldIn(d)
  BY <1>1, <1>2, <1>4, HoldOne
<1> HIDE DEF e
<1>7. /\ inUse \in [Epochs -> Nat] /\ used \in Nat
      /\ \A d \in blocks : inUse[d] = Cardinality(HeldIn(d))
      /\ used = Cardinality(held)
      /\ blocks \subseteq Epochs
  BY DEF BlocksInv, BlocksTypeOK, CountersExact
<1>8. inUse' \in [Epochs -> Nat]
  BY <1>2, <1>4, <1>7
<1>9. BlocksTypeOK'
  BY <1>1, <1>4, <1>5, <1>7, <1>8 DEF BlocksTypeOK
<1>10. ASSUME NEW d \in blocks' PROVE inUse'[d] = Cardinality(HeldIn(d)')
  <2>1. CASE d = e
    BY <1>2, <1>3, <1>4, <1>6, <1>7, <2>1
  <2>2. CASE d # e
    <3>1. inUse'[d] = inUse[d]
      BY <1>4, <1>7, <2>2
    <3> QED
      BY <1>4, <1>6, <1>7, <2>2, <3>1
  <2> QED
    BY <2>1, <2>2
<1>11. CountersExact'
  BY <1>4, <1>6, <1>7, <1>10 DEF CountersExact, BlocksInv
<1>12. HeldAllocated'
  BY <1>3, <1>4 DEF HeldAllocated, BlocksInv, e
<1>13. FreeQueueExact'
  BY <1>4, <1>5 DEF FreeQueueExact
<1> QED
  BY <1>4, <1>6, <1>9, <1>11, <1>12, <1>13 DEF BlocksInv

\* The slots of a new block are queued in the order of their addresses
LEMMA RestWF ==
    ASSUME NEW e \in Epochs
    PROVE  /\ Rest(e) \in QueuesOver(Slots)
           /\ WellFormed(Rest(e))
           /\ Rest(e).items = SlotsOf(e) \ {<<e, 1>>}
<1> DEFINE r == Rest(e)
           slots == {s \in SlotsOf(e) : s[2] # 1}
<1>1. /\ r.items = slots
      /\ r.before = {p \in slots \X slots : p[1][2] < p[2][2]}
      /\ r = [items |-> r.items, before |-> r.before]
  BY DEF Rest
<1>2. \A s \in slots : s = <<e, s[2]>> /\ s[2] \in 1 .. NumPerBlock /\ s \in Slots
  BY DEF SlotsOf, Slots
<1>3. slots = SlotsOf(e) \ {<<e, 1>>}
  BY DEF SlotsOf
<1> HIDE DEF r, slots
<1>4. r \in QueuesOver(Slots)
  BY <1>1, <1>2 DEF QueuesOver
<1>5. \A x, y : <<x, y>> \in r.before <=> x \in slots /\ y \in slots /\ x[2] < y[2]
  BY <1>1
<1>6. \A x, y \in slots : x # y => x[2] < y[2] \/ y[2] < x[2]
  BY <1>2, NumPerBlockAssumption
<1>7. \A x, y \in slots : ~(x[2] < y[2] /\ y[2] < x[2])
  BY <1>2, NumPerBlockAssumption
<1>8. \A x, y, z \in slots : x[2] < y[2] /\ y[2] < z[2] => x[2] < z[2]
  BY <1>2, NumPerBlockAssumption
<1>9. \A p \in r.before : p[1] \in slots /\ p[2] \in slots
  BY <1>1
<1>10. WellFormed(r)
  BY <1>1, <1>5, <1>6, <1>7, <1>8, <1>9 DEF WellFormed
<1> QED
  BY <1>1, <1>3, <1>4, <1>10 DEF r

LEMMA AllocBlockInv ==
    ASSUME BlocksInv, NEW s \in Slots, AllocBlock(s), ~exited, UNCHANGED exited
    PROVE  BlocksInv'
<1> DEFINE e == Epoch(s)
<1>1. /\ BlocksTypeOK /\ IsFiniteSet(held) /\ held \subseteq Slots
      /\ curEpoch \in Nat /\ total \in Nat /\ used \in Nat
      /\ blocks \subseteq Epochs /\ inUse \in [Epochs -> Nat]
      /\ \A d \in blocks : inUse[d] = Cardinality(HeldIn(d))
      /\ used = Cardinality(held)
      /\ total = NumPerBlock * Cardinality(blocks)
      /\ blocks \subseteq 1 .. curEpoch
      /\ free.items = LiveSlots(blocks) \ held
      /\ \A h \in held : Epoch(h) \in blocks
  BY MaxEpochAssumption DEF BlocksInv, BlocksTypeOK, CountersExact, FreeQueueExact,
                            HeldAllocated
<1>0. e = curEpoch + 1 /\ s = <<e, 1>>
  BY DEF AllocBlock, Epoch
<1>2. /\ curEpoch' = e /\ total' = total + NumPerBlock /\ used' = used + 1
      /\ blocks' = blocks \cup {e} /\ inUse' = [inUse EXCEPT ![e] = 1]
      /\ free' = Rest(e) /\ held' = held \cup {s} /\ s = <<e, 1>>
      /\ free.items = {} /\ curEpoch < MaxEpoch
  BY <1>0 DEF AllocBlock, IsEmpty
<1> HIDE DEF e
<1>3. e \in Epochs /\ e \in Nat /\ e \in 1 .. e /\ e # 0
  BY <1>0, <1>1, <1>2, MaxEpochAssumption DEF Epochs
<1>4. e \notin blocks
  BY <1>0, <1>1
<1>5. Epoch(s) = e /\ s \notin held /\ HeldIn(e) = {}
  BY <1>1, <1>2, <1>4 DEF HeldIn, e
<1>6. /\ IsFiniteSet(held')
      /\ Cardinality(held') = Cardinality(held) + 1
      /\ Cardinality(HeldIn(e)') = Cardinality(HeldIn(e)) + 1
      /\ \A d : d # e => HeldIn(d)' = HeldIn(d)
  <2>1. /\ IsFiniteSet(held')
        /\ Cardinality(held') = Cardinality(held) + 1
        /\ Cardinality(HeldIn(Epoch(s))') = Cardinality(HeldIn(Epoch(s))) + 1
        /\ \A d : d # Epoch(s) => HeldIn(d)' = HeldIn(d)
    BY <1>1, <1>2, <1>5, HoldOne
  <2> QED
    BY <1>5, <2>1
<1>7. Cardinality(HeldIn(e)') = 1
  BY <1>5, <1>6, FS_EmptySet
<1>8. Cardinality(blocks') = Cardinality(blocks) + 1 /\ Cardinality(blocks) \in Nat
  BY <1>2, <1>4, BlocksFinite, FS_AddElement, FS_CardinalityType
<1>9. /\ free' \in QueuesOver(Slots) /\ WellFormed(free')
      /\ free'.items = SlotsOf(e) \ {s}
  BY <1>2, <1>3, RestWF
<1>10. free'.items = LiveSlots(blocks') \ held'
  <2>1. LiveSlots(blocks') = LiveSlots(blocks) \cup SlotsOf(e)
    BY <1>2 DEF LiveSlots
  <2>2. LiveSlots(blocks) \subseteq held
    BY <1>1, <1>2
  <2>3. \A h \in SlotsOf(e) : h \notin held
    BY <1>1, <1>4 DEF SlotsOf, Epoch
  <2> QED
    BY <1>2, <1>9, <2>1, <2>2, <2>3
<1>11. BlocksTypeOK'
  <2>1. curEpoch' \in 0 .. MaxEpoch
    BY <1>2, <1>3 DEF Epochs
  <2>2. total' \in Nat /\ used' \in Nat
    BY <1>1, <1>2, NumPerBlockAssumption
  <2>3. inUse' \in [Epochs -> Nat] /\ blocks' \subseteq Epochs
    BY <1>1, <1>2, <1>3
  <2> QED
    BY <1>1, <1>2, <1>9, <2>1, <2>2, <2>3 DEF BlocksTypeOK
<1>12. ASSUME NEW d \in blocks' PROVE inUse'[d] = Cardinality(HeldIn(d)')
  <2>1. CASE d = e
    BY <1>1, <1>2, <1>3, <1>7, <2>1
  <2>2. CASE d # e
    <3>1. d \in blocks /\ inUse'[d] = inUse[d]
      BY <1>1, <1>2, <2>2
    <3> QED
      BY <1>1, <1>6, <2>2, <3>1
  <2> QED
    BY <2>1, <2>2
<1>13. total' = NumPerBlock * Cardinality(blocks')
  BY <1>1, <1>2, <1>8, NumPerBlockAssumption
<1>14. CountersExact'
  BY <1>1, <1>2, <1>6, <1>12, <1>13 DEF CountersExact
<1>15. HeldAllocated'
  BY <1>1, <1>2, <1>5 DEF HeldAllocated
<1>16. FreeQueueExact'
  BY <1>9, <1>10 DEF FreeQueueExact
<1>17. blocks' \subseteq 1 .. curEpoch'
  BY <1>0, <1>1, <1>2, <1>3
<1> QED
  BY <1>2, <1>6, <1>11, <1>14, <1>15, <1>16, <1>17 DEF BlocksInv

LEMMA OneLess ==
    ASSUME NEW k \in Nat \ {0}, NEW n \in Nat \ {0}
    PROVE  n * k - n = n * (k - 1) /\ n * k - n \in Nat
OBVIOUS

LEMMA FreeSemaInv ==
    ASSUME BlocksInv, NEW s \in Slots, FreeSema(s)
    PROVE  BlocksInv'
<1> DEFINE e == Epoch(s)
           n == inUse[e] - 1
           q == IF e < MidEpoch THEN InsertTail(free, s) ELSE InsertHead(free, s)
<1>1. /\ BlocksTypeOK /\ IsFiniteSet(held) /\ held \subseteq Slots
      /\ curEpoch \in Nat /\ total \in Nat /\ used \in Nat
      /\ blocks \subseteq Epochs /\ inUse \in [Epochs -> Nat]
      /\ free \in QueuesOver(Slots) /\ WellFormed(free)
      /\ \A d \in blocks : inUse[d] = Cardinality(HeldIn(d))
      /\ used = Cardinality(held)
      /\ blocks \subseteq 1 .. curEpoch
      /\ free.items = LiveSlots(blocks) \ held
      /\ \A h \in held : Epoch(h) \in blocks
  BY MaxEpochAssumption DEF BlocksInv, BlocksTypeOK, CountersExact, FreeQueueExact,
                            HeldAllocated
<1>2. /\ s \in held /\ used' = used - 1 /\ held' = held \ {s}
      /\ inUse' = [inUse EXCEPT ![e] = n]
      /\ curEpoch' = curEpoch /\ exited' = exited
  BY DEF FreeSema
<1>3. ~exited /\ e \in blocks /\ e \in Epochs
  BY <1>1, <1>2 DEF BlocksInv
<1>4. /\ IsFiniteSet(held')
      /\ Cardinality(held') = Cardinality(held) - 1
      /\ Cardinality(held) \in Nat \ {0}
      /\ Cardinality(HeldIn(e)') = Cardinality(HeldIn(e)) - 1
      /\ Cardinality(HeldIn(e)) \in Nat \ {0}
      /\ IsFiniteSet(HeldIn(e)')
      /\ \A d : d # e => HeldIn(d)' = HeldIn(d)
  BY <1>1, <1>2, DropOne
<1> HIDE DEF e
<1>5. n \in Nat /\ n = Cardinality(HeldIn(e)')
  <2>1. inUse[e] = Cardinality(HeldIn(e))
    BY <1>1, <1>3
  <2> QED
    BY <1>4, <2>1
<1>6. \A d \in blocks : inUse'[d] = Cardinality(HeldIn(d)')
  <2>1. ASSUME NEW d \in blocks PROVE inUse'[d] = Cardinality(HeldIn(d)')
    <3>1. CASE d = e
      BY <1>1, <1>2, <1>3, <1>5, <3>1
    <3>2. CASE d # e
      <4>1. inUse'[d] = inUse[d]
        BY <1>1, <1>2, <3>2
      <4> QED
        BY <1>1, <1>4, <3>2, <4>1
    <3> QED
      BY <3>1, <3>2
  <2> QED
    BY <2>1
<1>7. /\ q \in QueuesOver(Slots) /\ WellFormed(q)
      /\ q.items = free.items \cup {s}
  <2>1. s \notin free.items
    BY <1>1, <1>2
  <2> QED
    BY <1>1, <2>1, InsertHeadWF, InsertTailWF
<1>8. q.items = LiveSlots(blocks) \ held'
  <2>1. s \in LiveSlots(blocks)
    BY <1>1, <1>2, <1>3, InLiveSlots, InSlots DEF e
  <2> QED
    BY <1>1, <1>2, <1>7, <2>1
<1>9. /\ used' \in Nat /\ used' = Cardinality(held')
      /\ inUse' \in [Epochs -> Nat] /\ held' \subseteq Slots
  BY <1>1, <1>2, <1>3, <1>4, <1>5
<1>10. \A h \in held' : Epoch(h) \in blocks
  BY <1>1, <1>2
<1>11. curEpoch > 0 => curEpoch \in blocks
  BY <1>3 DEF BlocksInv
<1>12. total = NumPerBlock * Cardinality(blocks)
  BY <1>3 DEF BlocksInv, CountersExact
<1>13. \/ /\ n = 0 /\ e < MidEpoch
          /\ free' = Remove(q, SlotsOf(e))
          /\ total' = total - NumPerBlock
          /\ blocks' = blocks \ {e}
       \/ free' = q /\ total' = total /\ blocks' = blocks
  BY DEF FreeSema, GiveBack, e
<1> HIDE DEF q, n
<1>14. CASE free' = q /\ total' = total /\ blocks' = blocks
  <2>1. BlocksTypeOK'
    BY <1>1, <1>2, <1>7, <1>9, <1>14 DEF BlocksTypeOK
  <2>2. CountersExact'
    BY <1>6, <1>9, <1>12, <1>14 DEF CountersExact
  <2>3. FreeQueueExact'
    BY <1>7, <1>8, <1>14 DEF FreeQueueExact
  <2>4. HeldAllocated'
    BY <1>10, <1>14 DEF HeldAllocated
  <2> QED
    BY <1>1, <1>2, <1>3, <1>4, <1>11, <1>14, <2>1, <2>2, <2>3, <2>4 DEF BlocksInv
<1>15. CASE /\ n = 0 /\ e < MidEpoch
            /\ free' = Remove(q, SlotsOf(e))
            /\ total' = total - NumPerBlock
            /\ blocks' = blocks \ {e}
  <2>1. HeldIn(e)' = {}
    BY <1>4, <1>5, <1>15, FS_EmptySet
  <2>2. \A h \in held' : Epoch(h) # e
    BY <2>1 DEF HeldIn, e
  <2>3. e # curEpoch
    BY <1>1, <1>3, <1>15, MidEpochBounds
  <2>4. /\ Cardinality(blocks') = Cardinality(blocks) - 1
        /\ Cardinality(blocks) \in Nat \ {0}
    BY <1>3, <1>15, BlocksFinite, FS_RemoveElement, FS_CardinalityType, FS_EmptySet
  <2>5. total' = NumPerBlock * Cardinality(blocks') /\ total' \in Nat
    <3> DEFINE k == Cardinality(blocks)
    <3>1. k \in Nat \ {0} /\ Cardinality(blocks') = k - 1
      BY <2>4
    <3>2. total' = NumPerBlock * k - NumPerBlock
      BY <1>12, <1>15
    <3> HIDE DEF k
    <3> QED
      BY <3>1, <3>2, NumPerBlockAssumption, OneLess
  <2>6. /\ free' \in QueuesOver(Slots) /\ WellFormed(free')
        /\ free'.items = q.items \ SlotsOf(e)
    BY <1>7, <1>15, RemoveWF
  <2>7. free'.items = LiveSlots(blocks') \ held'
    <3>1. LiveSlots(blocks') = LiveSlots(blocks) \ SlotsOf(e)
      <4>1. \A x : x \in SlotsOf(e) <=> \E i \in 1 .. NumPerBlock : x = <<e, i>>
        BY DEF SlotsOf
      <4>2. \A x : x \in LiveSlots(blocks') <=>
                       \E d \in blocks', i \in 1 .. NumPerBlock : x = <<d, i>>
        BY InLiveSlots
      <4>3. \A x : x \in LiveSlots(blocks) <=>
                       \E d \in blocks, i \in 1 .. NumPerBlock : x = <<d, i>>
        BY InLiveSlots
      <4> QED
        <5>1. \A d \in blocks, i, j \in 1 .. NumPerBlock :
                  <<d, i>> = <<e, j>> <=> d = e /\ i = j
          OBVIOUS
        <5>2. \A x : x \in LiveSlots(blocks') =>
                        x \in LiveSlots(blocks) /\ x \notin SlotsOf(e)
          BY <1>15, <4>1, <4>2, <4>3, <5>1
        <5>3. \A x : x \in LiveSlots(blocks) /\ x \notin SlotsOf(e) =>
                        x \in LiveSlots(blocks')
          <6>1. ASSUME NEW x, x \in LiveSlots(blocks), x \notin SlotsOf(e)
                PROVE  x \in LiveSlots(blocks')
            <7>1. PICK d \in blocks, i \in 1 .. NumPerBlock : x = <<d, i>>
              BY <4>3, <6>1
            <7>2. d # e
              BY <4>1, <6>1, <7>1
            <7> QED
              BY <1>15, <4>2, <7>1, <7>2
          <6> QED
            BY <6>1
        <5> QED
          BY <5>2, <5>3
    <3> QED
      BY <1>8, <2>6, <3>1
  <2>8. BlocksTypeOK'
    BY <1>1, <1>2, <1>9, <1>15, <2>5, <2>6 DEF BlocksTypeOK
  <2>9. CountersExact'
    BY <1>6, <1>9, <1>15, <2>5 DEF CountersExact
  <2>10. FreeQueueExact'
    BY <2>6, <2>7 DEF FreeQueueExact
  <2>11. HeldAllocated'
    BY <1>10, <1>15, <2>2 DEF HeldAllocated
  <2> QED
    BY <1>1, <1>2, <1>3, <1>4, <1>11, <1>15, <2>3, <2>8, <2>9, <2>10, <2>11
       DEF BlocksInv
<1> QED
  BY <1>13, <1>14, <1>15

LEMMA AllocSemaInv ==
    ASSUME BlocksInv, NEW s \in Slots, AllocSema(s)
    PROVE  BlocksInv'
BY AllocFreeInv, AllocBlockInv DEF AllocSema

LEMMA MmCleanupInv ==
    ASSUME BlocksInv, MmCleanup
    PROVE  BlocksInv'
<1>1. /\ free \in QueuesOver(Slots) /\ WellFormed(free) /\ held = {}
      /\ blocks \subseteq Epochs
      /\ free.items = LiveSlots(blocks) \ held
      /\ \A e \in blocks : inUse[e] = Cardinality(HeldIn(e))
  BY DEF BlocksInv, BlocksTypeOK, CountersExact, FreeQueueExact, MmCleanup
<1>2. \A e \in blocks : inUse[e] = 0
  <2>1. \A e : HeldIn(e) = {}
    BY <1>1 DEF HeldIn
  <2> QED
    BY <1>1, <2>1, FS_EmptySet
<1>3. \A t \in free.items : inUse[Epoch(t)] = 0
  <2>1. ASSUME NEW t \in free.items PROVE Epoch(t) \in blocks
    <3>1. t \in LiveSlots(blocks)
      BY <1>1
    <3>2. PICK e \in blocks, i \in 1 .. NumPerBlock : t = <<e, i>>
      BY <3>1, InLiveSlots
    <3> QED
      BY <3>2 DEF Epoch
  <2> QED
    BY <1>2, <2>1
<1>4. Reclaimed = blocks
  <2>1. ASSUME NEW e \in blocks
        PROVE  \E s \in SlotsOf(e) \cap free.items :
                   \A t \in free.items :
                       inUse[Epoch(t)] # 0 => <<s, t>> \in free.before
    <3>1. <<e, 1>> \in SlotsOf(e) /\ <<e, 1>> \in LiveSlots(blocks)
      BY NumPerBlockAssumption, InLiveSlots DEF SlotsOf
    <3>2. <<e, 1>> \in SlotsOf(e) \cap free.items
      BY <1>1, <3>1
    <3> QED
      BY <1>3, <3>2
  <2> QED
    BY <1>2, <2>1 DEF Reclaimed
<1>5. /\ blocks' = {} /\ exited' /\ held' = {}
      /\ free' = Remove(free, {s \in Slots : Epoch(s) \in blocks})
      /\ UNCHANGED <<inUse, total, used, curEpoch>>
  BY <1>1, <1>4 DEF MmCleanup
<1>6. /\ free' \in QueuesOver(Slots) /\ WellFormed(free')
      /\ free'.items = free.items \ {s \in Slots : Epoch(s) \in blocks}
  BY <1>1, <1>5, RemoveWF
<1>7. free'.items = {}
  <2>1. \A t \in free.items : t \in Slots /\ Epoch(t) \in blocks
    <3>1. ASSUME NEW t \in free.items PROVE t \in Slots /\ Epoch(t) \in blocks
      <4>1. t \in LiveSlots(blocks)
        BY <1>1
      <4>2. PICK e \in blocks, i \in 1 .. NumPerBlock : t = <<e, i>>
        BY <4>1, InLiveSlots
      <4> QED
        BY <1>1, <4>2 DEF Epoch, Slots
    <3> QED
      BY <3>1
  <2> QED
    BY <1>6, <2>1
<1>8. LiveSlots({}) = {}
  BY InLiveSlots
<1>9. BlocksTypeOK'
  <2>1. exited' \in BOOLEAN
    BY DEF MmCleanup
  <2>2. /\ inUse \in [Epochs -> Nat] /\ total \in Nat /\ used \in Nat
        /\ curEpoch \in 0 .. MaxEpoch
    BY DEF BlocksInv, BlocksTypeOK
  <2> QED
    BY <1>5, <1>6, <2>1, <2>2 DEF BlocksTypeOK
<1>10. FreeQueueExact'
  BY <1>5, <1>6, <1>7, <1>8 DEF FreeQueueExact
<1>11. CountersExact'
  <2>1. used = Cardinality(held)
    BY DEF BlocksInv, CountersExact
  <2> QED
    BY <1>1, <1>5, <2>1 DEF CountersExact
<1>12. IsFiniteSet(held') /\ HeldAllocated' /\ blocks' \subseteq 1 .. curEpoch'
  BY <1>5, FS_EmptySet DEF HeldAllocated
<1> QED
  BY <1>5, <1>9, <1>10, <1>11, <1>12 DEF BlocksInv

LEMMA BlocksStutter ==
    ASSUME BlocksInv, UNCHANGED blockVars
    PROVE  BlocksInv'
BY DEF BlocksInv, blockVars, BlocksTypeOK, HeldAllocated, FreeQueueExact,
       CountersExact, HeldIn

LEMMA BlocksInvExact == BlocksInv => BlocksExact
<1>1. BlocksInv => NewestKept
  <2> SUFFICES ASSUME BlocksInv, curEpoch > 0, ~exited
               PROVE  curEpoch \in blocks /\ MidEpoch \in 1 .. curEpoch
    BY DEF NewestKept
  <2>1. curEpoch \in blocks
    BY DEF BlocksInv
  <2> QED
    BY <2>1, MidEpochBounds
<1>2. BlocksInv => FreeQueueExact /\ CountersExact /\ CleanupComplete
  BY DEF BlocksInv, CleanupComplete
<1> QED
  BY <1>1, <1>2 DEF BlocksExact

\* For every block size and every number of blocks: no Lua object points into
\* a block that was given back, the free queue and the counters are exact, the
\* newest block stays, and nothing is left when the cycle ends.
THEOREM BlocksCorrect ==
    BlocksSpec => [](HeldAllocated /\ BlocksExact)
<1>1. BlocksInit => BlocksInv
  BY BlocksInitInv
<1>2. BlocksInv /\ [BlocksNext]_blockVars => BlocksInv'
  <2> SUFFICES ASSUME BlocksInv, [BlocksNext]_blockVars PROVE BlocksInv'
    OBVIOUS
  <2>1. CASE \E s \in Slots : AllocSema(s) \/ FreeSema(s)
    BY <2>1, AllocSemaInv, FreeSemaInv
  <2>2. CASE MmCleanup
    BY <2>2, MmCleanupInv
  <2>3. CASE UNCHANGED blockVars
    BY <2>3, BlocksStutter
  <2> QED
    BY <2>1, <2>2, <2>3 DEF BlocksNext
<1>3. BlocksInv => HeldAllocated /\ BlocksExact
  BY BlocksInvExact DEF BlocksInv
<1> QED
  BY <1>1, <1>2, <1>3, PTL DEF BlocksSpec

-----------------------------------------------------------------------------
(* Semaphore.                                                              *)

(* The inductive invariant: the properties themselves, the allocator's     *)
(* invariant, and that memory no Lua object points to is at rest.          *)

AtRest == \A s \in Slots \ held : sem[s] = FreshSema(0)

HandlerHeld == ~GcHandled /\ handling # NoSema => handling \in held

Types ==
    /\ sem \in [Slots -> Sema]
    /\ co \in [Co -> CoCtx]
    /\ cur \in Co \cup {NoCo}
    /\ \A c \in Co : co[c].at = "run" <=> cur = c
    /\ handling \in Slots \cup {NoSema}

Inv == BlocksInv /\ Types /\ WaitersExact /\ NoLostWakeup /\ AtRest /\ HandlerHeld

\* What WaitersExact says of one semaphore m with the waiters W
SemaOk(m, W) ==
    /\ m \in Sema
    /\ WellFormed(m.queue)
    /\ m.queue.items = W
    /\ m.waits = Cardinality(W)
    /\ m.count >= 0

\* and of one coroutine
CoOk(r) ==
    /\ r \in CoCtx
    /\ r.timer = (r.at = "wait") /\ r.cleanup = (r.at = "wait")
    /\ r.at = "wait" => r.data \in held

LEMMA Exact ==
    ASSUME Types, held \subseteq Slots
    PROVE  WaitersExact <=> /\ \A s \in held : SemaOk(sem[s], Waiters(s))
                            /\ \A c \in Co : CoOk(co[c])
BY DEF Types, WaitersExact, SemaOk, CoOk

LEMMA HeldSlots == BlocksInv => held \subseteq Slots /\ held \cap {NoSema} = {}
BY NoSemaAssumption DEF BlocksInv, BlocksTypeOK

LEMMA WaitersFinite ==
    ASSUME NEW s
    PROVE  Waiters(s) \subseteq Co /\ IsFiniteSet(Waiters(s))
<1>1. Waiters(s) \in SUBSET Co
  BY DEF Waiters
<1> QED
  BY <1>1, CoAssumption, FS_Subset

\* A waiter leaves the queue
LEMMA LeaveOk ==
    ASSUME NEW m, NEW W \in SUBSET Co, SemaOk(m, W), NEW c \in W
    PROVE  /\ SemaOk([m EXCEPT !.queue = Remove(@, {c}), !.waits = @ - 1], W \ {c})
           /\ [m EXCEPT !.queue = Remove(@, {c}), !.waits = @ - 1].count = m.count
           /\ [m EXCEPT !.queue = Remove(@, {c}), !.waits = @ - 1].posted = m.posted
<1> DEFINE m2 == [m EXCEPT !.queue = Remove(@, {c}), !.waits = @ - 1]
<1>1. m \in Sema /\ m.queue \in QueuesOver(Co) /\ WellFormed(m.queue)
  BY DEF SemaOk, Sema
<1>2. /\ Remove(m.queue, {c}) \in QueuesOver(Co)
      /\ WellFormed(Remove(m.queue, {c}))
      /\ Remove(m.queue, {c}).items = m.queue.items \ {c}
  BY <1>1, RemoveWF
<1>3. Cardinality(W \ {c}) = Cardinality(W) - 1
  <2>1. IsFiniteSet(W)
    BY CoAssumption, FS_Subset
  <2> QED
    BY <2>1, FS_RemoveElement
<1> DEFINE q2 == Remove(m.queue, {c})
           w2 == m.waits - 1
<1>4. /\ m2.queue = q2 /\ m2.waits = w2
      /\ m2.count = m.count /\ m2.posted = m.posted /\ m2 \in Sema
  <2>1. q2 \in QueuesOver(Co) /\ w2 \in Int
    BY <1>1, <1>2 DEF Sema
  <2>2. m2 = [m EXCEPT !.queue = q2, !.waits = w2]
    OBVIOUS
  <2> HIDE DEF q2, w2, m2
  <2> QED
    BY <1>1, <2>1, <2>2 DEF Sema
<1> HIDE DEF m2
<1>5. SemaOk(m2, W \ {c})
  BY <1>2, <1>3, <1>4 DEF SemaOk
<1> QED
  BY <1>4, <1>5 DEF m2

\* A coroutine joins the queue
LEMMA JoinOk ==
    ASSUME NEW m, NEW W \in SUBSET Co, SemaOk(m, W), NEW c \in Co, c \notin W
    PROVE  /\ SemaOk([m EXCEPT !.waits = @ + 1, !.queue = InsertTail(@, c)],
                     W \cup {c})
           /\ [m EXCEPT !.waits = @ + 1, !.queue = InsertTail(@, c)].count = m.count
           /\ [m EXCEPT !.waits = @ + 1, !.queue = InsertTail(@, c)].posted = m.posted
<1> DEFINE m2 == [m EXCEPT !.waits = @ + 1, !.queue = InsertTail(@, c)]
<1>1. /\ m \in Sema /\ m.queue \in QueuesOver(Co) /\ WellFormed(m.queue)
      /\ c \notin m.queue.items
  BY DEF SemaOk, Sema
<1>2. /\ InsertTail(m.queue, c) \in QueuesOver(Co)
      /\ WellFormed(InsertTail(m.queue, c))
      /\ InsertTail(m.queue, c).items = m.queue.items \cup {c}
  BY <1>1, InsertTailWF
<1>3. Cardinality(W \cup {c}) = Cardinality(W) + 1
  <2>1. IsFiniteSet(W)
    BY CoAssumption, FS_Subset
  <2> QED
    BY <2>1, FS_AddElement
<1> DEFINE q2 == InsertTail(m.queue, c)
           w2 == m.waits + 1
<1>4. /\ m2.queue = q2 /\ m2.waits = w2
      /\ m2.count = m.count /\ m2.posted = m.posted /\ m2 \in Sema
  <2>1. q2 \in QueuesOver(Co) /\ w2 \in Int
    BY <1>1, <1>2 DEF Sema
  <2>2. m2 = [m EXCEPT !.waits = w2, !.queue = q2]
    OBVIOUS
  <2> HIDE DEF q2, w2, m2
  <2> QED
    BY <1>1, <2>1, <2>2 DEF Sema
<1> HIDE DEF m2
<1>5. SemaOk(m2, W \cup {c})
  BY <1>2, <1>3, <1>4 DEF SemaOk
<1> QED
  BY <1>4, <1>5 DEF m2

\* What a coroutine that stops waiting looks like
LEMMA WokenOk ==
    ASSUME Types, NEW c \in Co, NEW at \in {"idle", "run"}
    PROVE  /\ CoOk(Woken(c, at))
           /\ Woken(c, at).at = at
<1>1. co[c] \in CoCtx
  BY DEF Types
<1>2. /\ Woken(c, at) \in CoCtx /\ Woken(c, at).at = at
      /\ Woken(c, at).timer = FALSE /\ Woken(c, at).cleanup = FALSE
  BY <1>1 DEF Woken, CoCtx
<1> QED
  BY <1>2 DEF CoOk

LEMMA FreshOk ==
    ASSUME NEW n \in Nat
    PROVE  /\ SemaOk(FreshSema(n), {}) /\ FreshSema(n) \in Sema
           /\ FreshSema(n).queue.items = {}
           /\ FreshSema(n).posted = FALSE
<1>1. FreshSema(n) \in Sema
  BY EmptyQueueType DEF FreshSema, Sema
<1>2. /\ FreshSema(n).queue = EmptyQueue /\ FreshSema(n).waits = 0
      /\ FreshSema(n).count = n /\ FreshSema(n).posted = FALSE
  BY DEF FreshSema
<1>3. EmptyQueue.items = {} /\ WellFormed(EmptyQueue)
  BY EmptyQueueWF DEF EmptyQueue
<1> QED
  BY <1>1, <1>2, <1>3, FS_EmptySet DEF SemaOk

LEMMA InitInv == Init => Inv
<1> SUFFICES ASSUME Init PROVE Inv
  OBVIOUS
<1>1. BlocksInv /\ held = {}
  BY BlocksInitInv DEF Init, BlocksInit
<1>2. SemaInit
  BY DEF Init
<1>3. Types
  <2>1. sem \in [Slots -> Sema]
    BY <1>2, FreshOk DEF SemaInit
  <2>2. co \in [Co -> CoCtx] /\ \A c \in Co : co[c].at = "idle" /\ CoOk(co[c])
    BY <1>2 DEF SemaInit, CoCtx, CoOk
  <2> QED
    BY <1>2, <2>1, <2>2, CoAssumption DEF SemaInit, Types
<1>4. \A c \in Co : CoOk(co[c])
  BY <1>2 DEF SemaInit, CoCtx, CoOk
<1>5. WaitersExact
  BY <1>1, <1>3, <1>4, Exact
<1>6. NoLostWakeup /\ AtRest /\ HandlerHeld
  BY <1>1, <1>2 DEF NoLostWakeup, AtRest, HandlerHeld, SemaInit
<1> QED
  BY <1>1, <1>3, <1>5, <1>6 DEF Inv

-----------------------------------------------------------------------------

\* The facts of the invariant in the form the steps use them
LEMMA InvFacts ==
    ASSUME Inv
    PROVE  /\ Types /\ held \subseteq Slots /\ NoSema \notin Slots
           /\ \A s \in held : SemaOk(sem[s], Waiters(s))
           /\ \A c \in Co : CoOk(co[c])
           /\ \A c \in Co : co[c].at = "wait" =>
                 co[c].data \in held /\ c \in Waiters(co[c].data)
           /\ \A s \in Slots : s \notin held => sem[s] = FreshSema(0)
<1>1. Types /\ held \subseteq Slots /\ NoSema \notin Slots
  BY HeldSlots, NoSemaAssumption DEF Inv
<1>2. /\ \A s \in held : SemaOk(sem[s], Waiters(s))
      /\ \A c \in Co : CoOk(co[c])
  BY <1>1, Exact DEF Inv
<1> QED
  BY <1>1, <1>2 DEF Inv, AtRest, CoOk, Waiters

\* A coroutine that waits leaves the queue of s, by whatever event
LEMMA LeaveInv ==
    ASSUME Inv, UNCHANGED blockVars, NEW c \in Co, NEW s \in Slots,
           co[c].at = "wait", co[c].data = s, NEW at \in {"idle", "run"},
           co' = [co EXCEPT ![c] = Woken(c, at)],
           at = "run" => cur = NoCo /\ cur' = c,
           at = "idle" => cur' = cur,
           handling' = handling, sem' \in [Slots -> Sema],
           \A x \in Slots : x # s => sem'[x] = sem[x],
           SemaOk(sem'[s], Waiters(s) \ {c}),
           sem'[s].posted = sem[s].posted, sem'[s].count <= sem[s].count
    PROVE  Inv'
<1>1. /\ Types /\ held \subseteq Slots /\ held' = held /\ s \in held
      /\ \A x \in held : SemaOk(sem[x], Waiters(x))
      /\ \A d \in Co : CoOk(co[d])
      /\ c \in Waiters(s)
  BY InvFacts DEF blockVars
<1>2. BlocksInv'
  BY BlocksStutter DEF Inv
<1>3. CoOk(Woken(c, at)) /\ Woken(c, at).at = at /\ Woken(c, at) \in CoCtx
  BY <1>1, WokenOk DEF CoOk
<1>4. /\ co' \in [Co -> CoCtx] /\ co'[c] = Woken(c, at)
      /\ \A d \in Co : d # c => co'[d] = co[d]
  BY <1>1, <1>3 DEF Types
<1>5. \A d \in Co : co'[d].at = "run" <=> cur' = d
  <2>1. co[c].at # "run" /\ cur # c
    BY <1>1 DEF Types
  <2>2. CASE at = "run"
    BY <1>1, <1>3, <1>4, <2>1, <2>2, CoAssumption DEF Types
  <2>3. CASE at = "idle"
    BY <1>1, <1>3, <1>4, <2>1, <2>3 DEF Types
  <2> QED
    BY <2>2, <2>3
<1>6. Types'
  BY <1>1, <1>4, <1>5 DEF Types
<1>7. /\ Waiters(s)' = Waiters(s) \ {c}
      /\ \A x : x # s => Waiters(x)' = Waiters(x)
  <2>1. \A x, d : d \in Waiters(x)' <=> d \in Waiters(x) /\ d # c
    BY <1>3, <1>4 DEF Waiters
  <2>2. \A x : x # s => c \notin Waiters(x)
    BY DEF Waiters
  <2>3. Waiters(s)' = Waiters(s) \ {c}
    BY <2>1
  <2>4. ASSUME NEW x, x # s PROVE Waiters(x)' = Waiters(x)
    BY <2>1, <2>2, <2>4
  <2> QED
    BY <2>3, <2>4
<1>8. \A x \in held' : SemaOk(sem'[x], Waiters(x)')
  BY <1>1, <1>7
<1>9. \A d \in Co : CoOk(co'[d])
  BY <1>1, <1>3, <1>4
<1>10. WaitersExact'
  BY <1>1, <1>8, <1>9 DEF WaitersExact, SemaOk, CoOk
<1>11. NoLostWakeup'
  <2> SUFFICES ASSUME NEW x \in held, ~IsEmpty(sem'[x].queue), sem'[x].count > 0
               PROVE  sem'[x].posted \/ handling' = x
    BY <1>1 DEF NoLostWakeup
  <2>1. CASE x # s
    BY <1>1, <2>1 DEF Inv, NoLostWakeup
  <2>2. CASE x = s
    <3>1. ~IsEmpty(sem[s].queue)
      BY <1>1 DEF IsEmpty, SemaOk
    <3>2. sem[s].count > 0
      <4>1. sem[s].count \in Int /\ sem'[s].count \in Int
        BY <1>1 DEF Types, Sema
      <4> QED
        BY <2>2, <4>1
    <3> QED
      BY <1>1, <2>2, <3>1, <3>2 DEF Inv, NoLostWakeup
  <2> QED
    BY <2>1, <2>2
<1>12. AtRest' /\ HandlerHeld'
  BY <1>1 DEF Inv, AtRest, HandlerHeld
<1> QED
  BY <1>2, <1>6, <1>10, <1>11, <1>12 DEF Inv

\* sem[s] is what it is in the state before, less one waiter and k resources
LEMMA LeftFacts ==
    ASSUME Inv, NEW c \in Co, NEW s \in held, c \in Waiters(s)
    PROVE  /\ Left(s, c) \in Sema
           /\ SemaOk(Left(s, c), Waiters(s) \ {c})
           /\ Left(s, c).posted = sem[s].posted
           /\ Left(s, c).count = sem[s].count
<1>1. SemaOk(sem[s], Waiters(s)) /\ Waiters(s) \in SUBSET Co
  BY InvFacts, WaitersFinite
<1>2. /\ SemaOk(Left(s, c), Waiters(s) \ {c})
      /\ Left(s, c).posted = sem[s].posted
      /\ Left(s, c).count = sem[s].count
  BY <1>1, LeaveOk DEF Left
<1> QED
  BY <1>2 DEF SemaOk

LEMMA CancelInv ==
    ASSUME Inv, NEW c \in Co, Cancel(c)
    PROVE  Inv'
<1> DEFINE s == co[c].data
<1>1. CoOk(co[c]) /\ Types
  BY InvFacts
<1>2. co[c].at = "wait"
  BY <1>1 DEF Cancel, CoOk
<1>3. s \in held /\ c \in Waiters(s) /\ s \in Slots
  BY <1>2, InvFacts
<1>4. PICK x \in Slots : x = s
  BY <1>3
<1>5. /\ Left(x, c) \in Sema /\ SemaOk(Left(x, c), Waiters(x) \ {c})
      /\ Left(x, c).posted = sem[x].posted /\ Left(x, c).count = sem[x].count
  BY <1>3, <1>4, LeftFacts
<1>6. /\ sem' = [sem EXCEPT ![x] = Left(x, c)]
      /\ co' = [co EXCEPT ![c] = Woken(c, "idle")]
      /\ UNCHANGED blockVars /\ cur' = cur /\ handling' = handling
  BY <1>4 DEF Cancel
<1>7. /\ sem' \in [Slots -> Sema] /\ sem'[x] = Left(x, c)
      /\ \A y \in Slots : y # x => sem'[y] = sem[y]
  BY <1>1, <1>4, <1>5, <1>6 DEF Types
<1>8. sem[x].count \in Int
  BY <1>1 DEF Types, Sema
<1>9. sem'[x].posted = sem[x].posted /\ sem'[x].count <= sem[x].count
  BY <1>5, <1>7, <1>8
<1>10. co[c].data = x /\ SemaOk(sem'[x], Waiters(x) \ {c})
  BY <1>4, <1>5, <1>7
<1> HIDE DEF s
<1> QED
  BY <1>2, <1>6, <1>7, <1>9, <1>10, LeaveInv

LEMMA TimeoutInv ==
    ASSUME Inv, NEW c \in Co, Timeout(c)
    PROVE  Inv'
<1> DEFINE s == co[c].data
<1>1. CoOk(co[c]) /\ Types
  BY InvFacts
<1>2. co[c].at = "wait"
  BY <1>1 DEF Timeout, CoOk
<1>3. s \in held /\ c \in Waiters(s) /\ s \in Slots
  BY <1>2, InvFacts
<1>4. PICK x \in Slots : x = s
  BY <1>3
<1>5. /\ Left(x, c) \in Sema /\ SemaOk(Left(x, c), Waiters(x) \ {c})
      /\ Left(x, c).posted = sem[x].posted /\ Left(x, c).count = sem[x].count
  BY <1>3, <1>4, LeftFacts
<1>6. /\ sem' = [sem EXCEPT ![x] = Left(x, c)]
      /\ co' = [co EXCEPT ![c] = Woken(c, "run")]
      /\ UNCHANGED blockVars /\ cur' = c /\ cur = NoCo /\ handling' = handling
  BY <1>4 DEF Timeout, InEventLoop
<1>7. /\ sem' \in [Slots -> Sema] /\ sem'[x] = Left(x, c)
      /\ \A y \in Slots : y # x => sem'[y] = sem[y]
  BY <1>1, <1>4, <1>5, <1>6 DEF Types
<1>8. sem[x].count \in Int
  BY <1>1 DEF Types, Sema
<1>9. sem'[x].posted = sem[x].posted /\ sem'[x].count <= sem[x].count
  BY <1>5, <1>7, <1>8
<1>10. co[c].data = x /\ SemaOk(sem'[x], Waiters(x) \ {c})
  BY <1>4, <1>5, <1>7
<1> HIDE DEF s
<1> QED
  BY <1>2, <1>6, <1>7, <1>9, <1>10, LeaveInv

LEMMA GrantInv ==
    ASSUME Inv, NEW c \in Co, Grant(c)
    PROVE  /\ Inv'
           /\ handling \in held /\ c \in Waiters(handling)
<1>1. /\ Types /\ cur = NoCo /\ handling # NoSema /\ handling \in Slots
      /\ IsHead(sem[handling].queue, c) /\ sem[handling].count > 0
  BY InvFacts DEF Grant, NextWaiter, Types
<1>2. PICK s \in Slots : s = handling
  BY <1>1
<1>3. c \in sem[s].queue.items
  BY <1>1, <1>2 DEF IsHead
<1>4. s \in held
  <2>1. s \notin held => sem[s].queue.items = {}
    BY InvFacts, FreshOk
  <2> QED
    BY <1>3, <2>1
<1>5. c \in Waiters(s) /\ co[c].at = "wait" /\ co[c].data = s
  BY <1>3, <1>4, InvFacts DEF SemaOk, Waiters
<1> DEFINE m == Left(s, c)
           n == m.count - 1
           m2 == [m EXCEPT !.count = n]
<1>6. /\ m \in Sema /\ SemaOk(m, Waiters(s) \ {c})
      /\ m.posted = sem[s].posted /\ m.count = sem[s].count
  BY <1>4, <1>5, LeftFacts
<1>7. /\ sem' = [sem EXCEPT ![s] = m2]
      /\ co' = [co EXCEPT ![c] = Woken(c, "run")]
      /\ UNCHANGED blockVars /\ cur' = c /\ handling' = handling
  BY <1>2 DEF Grant
<1>8. n \in Int /\ n >= 0 /\ n <= sem[s].count
  BY <1>1, <1>2, <1>6 DEF Sema
<1> HIDE DEF m, n
<1>9. /\ m2 \in Sema /\ m2.count = n /\ m2.posted = m.posted
      /\ m2.queue = m.queue /\ m2.waits = m.waits
  BY <1>6, <1>8 DEF Sema
<1> HIDE DEF m2
<1>10. SemaOk(m2, Waiters(s) \ {c})
  BY <1>6, <1>8, <1>9 DEF SemaOk
<1>11. /\ sem' \in [Slots -> Sema] /\ sem'[s] = m2
       /\ \A y \in Slots : y # s => sem'[y] = sem[y]
  BY <1>1, <1>7, <1>9 DEF Types
<1>12. /\ SemaOk(sem'[s], Waiters(s) \ {c})
       /\ sem'[s].posted = sem[s].posted /\ sem'[s].count <= sem[s].count
  BY <1>6, <1>8, <1>9, <1>10, <1>11
<1>13. Inv'
  BY <1>1, <1>5, <1>7, <1>11, <1>12, LeaveInv
<1> QED
  BY <1>2, <1>4, <1>5, <1>13

\* A step that moves no coroutine, and changes one semaphore that is held
LEMMA TouchInv ==
    ASSUME Inv, UNCHANGED <<blockVars, co, cur>>, NEW s \in held,
           sem' \in [Slots -> Sema],
           \A x \in Slots : x # s => sem'[x] = sem[x],
           SemaOk(sem'[s], Waiters(s)),
           handling' = handling \/ (handling = NoSema /\ handling' = s),
           ~IsEmpty(sem'[s].queue) /\ sem'[s].count > 0 =>
               sem'[s].posted \/ handling' = s
    PROVE  Inv'
<1>1. /\ Types /\ held \subseteq Slots /\ held' = held /\ NoSema \notin Slots
      /\ \A x \in held : SemaOk(sem[x], Waiters(x))
      /\ \A d \in Co : CoOk(co[d])
  BY InvFacts DEF blockVars
<1>2. BlocksInv'
  BY BlocksStutter DEF Inv
<1>3. Types'
  BY <1>1 DEF Types
<1>4. \A x : Waiters(x)' = Waiters(x)
  BY DEF Waiters
<1>5. WaitersExact'
  BY <1>1, <1>4 DEF WaitersExact, SemaOk, CoOk
<1>6. NoLostWakeup'
  BY <1>1 DEF Inv, NoLostWakeup
<1>7. AtRest' /\ HandlerHeld'
  BY <1>1 DEF Inv, AtRest, HandlerHeld
<1> QED
  BY <1>2, <1>3, <1>5, <1>6, <1>7 DEF Inv

LEMMA PostInv ==
    ASSUME Inv, NEW s \in Slots, Post(s)
    PROVE  Inv' /\ sem'[s].count >= sem[s].count
<1> DEFINE n == sem[s].count + 1
           p == sem[s].posted \/ Posts(s)
           m2 == [sem[s] EXCEPT !.count = n, !.posted = p]
<1>1. /\ s \in held /\ Types /\ sem[s] \in Sema /\ SemaOk(sem[s], Waiters(s))
  BY InvFacts DEF Post, Types
<1>2. n \in Int /\ n >= 0 /\ n > sem[s].count
  BY <1>1 DEF Sema, SemaOk
<1>3. p \in BOOLEAN
  OBVIOUS
<1>4. /\ sem' = [sem EXCEPT ![s].count = n, ![s].posted = p]
      /\ UNCHANGED <<blockVars, co, cur, handling>>
  BY DEF Post
<1>5. ~IsEmpty(sem[s].queue) => p
  BY DEF Posts
<1> HIDE DEF n, p
<1>6. /\ m2 \in Sema /\ m2.count = n /\ m2.posted = p
      /\ m2.queue = sem[s].queue /\ m2.waits = sem[s].waits
  BY <1>1, <1>2, <1>3 DEF Sema
<1>7. sem' = [sem EXCEPT ![s] = m2]
  BY <1>1, <1>4 DEF Types
<1> HIDE DEF m2
<1>8. /\ sem' \in [Slots -> Sema] /\ sem'[s] = m2
      /\ \A x \in Slots : x # s => sem'[x] = sem[x]
  BY <1>1, <1>6, <1>7 DEF Types
<1>9. SemaOk(sem'[s], Waiters(s))
  BY <1>1, <1>2, <1>6, <1>8 DEF SemaOk
<1>10. ~IsEmpty(sem'[s].queue) => sem'[s].posted
  BY <1>5, <1>6, <1>8
<1>11. Inv'
  BY <1>1, <1>4, <1>8, <1>9, <1>10, TouchInv
<1> QED
  BY <1>1, <1>2, <1>6, <1>8, <1>11 DEF Sema

LEMMA WaitNowInv ==
    ASSUME Inv, NEW s \in Slots, WaitNow(s)
    PROVE  /\ Inv'
           /\ Waiters(s) = {} /\ Waiters(s)' = {} /\ cur # NoCo
<1> DEFINE n == sem[s].count - 1
           m2 == [sem[s] EXCEPT !.count = n]
<1>1. /\ s \in held /\ Types /\ sem[s] \in Sema /\ SemaOk(sem[s], Waiters(s))
      /\ IsEmpty(sem[s].queue) /\ sem[s].count > 0 /\ cur # NoCo
  BY InvFacts DEF WaitNow, Types, TakesNow, LuaRuns
<1>2. n \in Int /\ n >= 0
  BY <1>1 DEF Sema
<1>3. /\ sem' = [sem EXCEPT ![s].count = n]
      /\ UNCHANGED <<blockVars, co, cur, handling>>
  BY DEF WaitNow
<1> HIDE DEF n
<1>4. /\ m2 \in Sema /\ m2.count = n /\ m2.posted = sem[s].posted
      /\ m2.queue = sem[s].queue /\ m2.waits = sem[s].waits
  BY <1>1, <1>2 DEF Sema
<1>5. sem' = [sem EXCEPT ![s] = m2]
  BY <1>1, <1>3 DEF Types
<1> HIDE DEF m2
<1>6. /\ sem' \in [Slots -> Sema] /\ sem'[s] = m2
      /\ \A x \in Slots : x # s => sem'[x] = sem[x]
  BY <1>1, <1>4, <1>5 DEF Types
<1>7. SemaOk(sem'[s], Waiters(s)) /\ IsEmpty(sem'[s].queue)
  BY <1>1, <1>2, <1>4, <1>6 DEF SemaOk
<1>8. Inv'
  BY <1>1, <1>3, <1>6, <1>7, TouchInv
<1>9. Waiters(s) = {}
  BY <1>1 DEF SemaOk, IsEmpty
<1>10. Waiters(s)' = Waiters(s)
  BY <1>3 DEF Waiters
<1> QED
  BY <1>1, <1>8, <1>9, <1>10

LEMMA HandlerStartInv ==
    ASSUME Inv, NEW s \in Slots, HandlerStart(s)
    PROVE  Inv' /\ \A x \in Slots : sem'[x].count = sem[x].count
<1> DEFINE m2 == [sem[s] EXCEPT !.posted = FALSE]
<1>1. /\ Types /\ sem[s] \in Sema /\ sem[s].posted /\ handling = NoSema
  BY InvFacts DEF HandlerStart, Types, InEventLoop
<1>2. s \in held
  <2>1. s \notin held => sem[s].posted = FALSE
    BY InvFacts, FreshOk
  <2> QED
    BY <1>1, <2>1
<1>3. SemaOk(sem[s], Waiters(s))
  BY <1>2, InvFacts
<1>4. /\ sem' = [sem EXCEPT ![s].posted = FALSE] /\ handling' = s
      /\ UNCHANGED <<blockVars, co, cur>>
  BY DEF HandlerStart
<1>5. /\ m2 \in Sema /\ m2.count = sem[s].count
      /\ m2.queue = sem[s].queue /\ m2.waits = sem[s].waits
  BY <1>1 DEF Sema
<1>6. sem' = [sem EXCEPT ![s] = m2]
  BY <1>1, <1>4 DEF Types
<1> HIDE DEF m2
<1>7. /\ sem' \in [Slots -> Sema] /\ sem'[s] = m2
      /\ \A x \in Slots : x # s => sem'[x] = sem[x]
  BY <1>1, <1>5, <1>6 DEF Types
<1>8. SemaOk(sem'[s], Waiters(s))
  BY <1>3, <1>5, <1>7 DEF SemaOk
<1>9. Inv'
  BY <1>1, <1>2, <1>4, <1>7, <1>8, TouchInv
<1> QED
  BY <1>5, <1>7, <1>9

LEMMA HandlerEndInv ==
    ASSUME Inv, HandlerEnd
    PROVE  Inv'
<1>1. /\ Types /\ handling' = NoSema /\ handling \in Slots
      /\ UNCHANGED <<blockVars, sem, co, cur>>
      /\ IsEmpty(sem[handling].queue) \/ sem[handling].count <= 0
      /\ held \subseteq Slots /\ held' = held
  BY InvFacts DEF HandlerEnd, LoopEnds, Types, blockVars
<1>2. BlocksInv'
  BY <1>1, BlocksStutter DEF Inv
<1>3. Types'
  BY <1>1 DEF Types
<1>4. WaitersExact'
  BY <1>1 DEF Inv, WaitersExact, Waiters
<1>5. NoLostWakeup'
  <2>1. sem[handling].count \in Int
    BY <1>1 DEF Types, Sema
  <2> QED
    BY <1>1, <2>1 DEF Inv, NoLostWakeup
<1>6. AtRest' /\ HandlerHeld'
  BY <1>1 DEF Inv, AtRest, HandlerHeld
<1> QED
  BY <1>2, <1>3, <1>4, <1>5, <1>6 DEF Inv

\* A coroutine that does not wait starts or stops running
LEMMA SwitchInv ==
    ASSUME Inv, UNCHANGED <<blockVars, sem, handling>>, NEW c \in Co,
           NEW at \in {"idle", "run"}, co[c].at # "wait",
           co' = [co EXCEPT ![c].at = at],
           at = "run" => cur = NoCo /\ cur' = c,
           at = "idle" => cur = c /\ cur' = NoCo
    PROVE  Inv'
<1>1. /\ Types /\ held \subseteq Slots /\ held' = held
      /\ \A d \in Co : CoOk(co[d])
      /\ co[c] \in CoCtx
  BY InvFacts DEF blockVars, CoOk
<1>2. BlocksInv'
  BY BlocksStutter DEF Inv
<1> DEFINE r == [co[c] EXCEPT !.at = at]
<1>3. /\ r \in CoCtx /\ r.at = at /\ r.timer = co[c].timer
      /\ r.cleanup = co[c].cleanup /\ r.data = co[c].data
  BY <1>1 DEF CoCtx
<1>4. co' = [co EXCEPT ![c] = r]
  BY <1>1 DEF Types
<1> HIDE DEF r
<1>5. CoOk(r)
  BY <1>1, <1>3 DEF CoOk
<1>6. /\ co' \in [Co -> CoCtx] /\ co'[c] = r
      /\ \A d \in Co : d # c => co'[d] = co[d]
  BY <1>1, <1>3, <1>4 DEF Types
<1>7. \A d \in Co : co'[d].at = "run" <=> cur' = d
  <2>1. CASE at = "run"
    BY <1>1, <1>3, <1>6, <2>1, CoAssumption DEF Types
  <2>2. CASE at = "idle"
    BY <1>1, <1>3, <1>6, <2>2, CoAssumption DEF Types
  <2> QED
    BY <2>1, <2>2
<1>8. cur' \in Co \cup {NoCo}
  OBVIOUS
<1>9. Types'
  BY <1>1, <1>6, <1>7, <1>8 DEF Types
<1>10. \A x : Waiters(x)' = Waiters(x)
  <2>1. ASSUME NEW x PROVE Waiters(x)' = Waiters(x)
    <3>1. \A d : d \in Waiters(x)' <=> d \in Waiters(x)
      BY <1>3, <1>6 DEF Waiters
    <3> QED
      BY <3>1
  <2> QED
    BY <2>1
<1>11. WaitersExact'
  <2>1. \A d \in Co : CoOk(co'[d])
    BY <1>1, <1>5, <1>6
  <2>2. \A x \in held : SemaOk(sem[x], Waiters(x))
    BY InvFacts
  <2> QED
    BY <1>1, <1>10, <2>1, <2>2 DEF WaitersExact, CoOk, SemaOk
<1>12. NoLostWakeup' /\ AtRest' /\ HandlerHeld'
  BY <1>1 DEF Inv, NoLostWakeup, AtRest, HandlerHeld
<1> QED
  BY <1>2, <1>9, <1>11, <1>12 DEF Inv

LEMMA SuspendInv == ASSUME Inv, Suspend PROVE Inv'
<1>1. Types /\ cur # NoCo /\ cur \in Co
  BY InvFacts DEF Suspend, LuaRuns, Types
<1>2. PICK c \in Co : c = cur
  BY <1>1
<1>3. co[c].at = "run"
  BY <1>1, <1>2 DEF Types
<1>4. /\ co' = [co EXCEPT ![c].at = "idle"] /\ cur' = NoCo
      /\ UNCHANGED <<blockVars, sem, handling>>
  BY <1>2 DEF Suspend
<1> QED
  BY <1>2, <1>3, <1>4, SwitchInv

LEMMA StartInv == ASSUME Inv, NEW c \in Co, Start(c) PROVE Inv'
<1>1. /\ co[c].at = "idle" /\ cur = NoCo /\ cur' = c
      /\ co' = [co EXCEPT ![c].at = "run"]
      /\ UNCHANGED <<blockVars, sem, handling>>
  BY DEF Start
<1> QED
  BY <1>1, SwitchInv

LEMMA WaitYieldInv ==
    ASSUME Inv, NEW s \in Slots, WaitYield(s)
    PROVE  Inv' /\ \A x \in Slots : sem'[x].count = sem[x].count
<1>1. /\ Types /\ cur # NoCo /\ cur \in Co /\ s \in held
      /\ held \subseteq Slots /\ held' = held
      /\ \A x \in held : SemaOk(sem[x], Waiters(x))
      /\ \A d \in Co : CoOk(co[d])
      /\ ~TakesNow(s) /\ cur' = NoCo
      /\ UNCHANGED <<blockVars, handling>>
  BY InvFacts DEF WaitYield, LuaRuns, Types, blockVars
<1>2. PICK c \in Co : c = cur
  BY <1>1
<1>3. /\ co[c].at = "run" /\ \A d \in Co : d # c => co[d].at # "run"
      /\ \A x : c \notin Waiters(x)
  BY <1>1, <1>2 DEF Types, Waiters
<1> DEFINE r == [at |-> "wait", data |-> s, timer |-> TRUE, cleanup |-> TRUE]
           m2 == [sem[s] EXCEPT !.waits = @ + 1, !.queue = InsertTail(@, c)]
<1>4. /\ SemaOk(m2, Waiters(s) \cup {c})
      /\ m2.count = sem[s].count /\ m2.posted = sem[s].posted
  <2>1. SemaOk(sem[s], Waiters(s)) /\ Waiters(s) \in SUBSET Co
    BY <1>1, WaitersFinite
  <2> QED
    BY <1>3, <2>1, JoinOk
<1>5. /\ sem' = [sem EXCEPT ![s] = m2] /\ co' = [co EXCEPT ![c] = r]
  BY <1>1, <1>2 DEF WaitYield, Types
<1>6. r \in CoCtx /\ CoOk(r) /\ r.at = "wait" /\ r.data = s
  BY <1>1 DEF CoCtx, CoOk
<1> HIDE DEF r, m2
<1>7. m2 \in Sema
  BY <1>4 DEF SemaOk
<1>8. /\ sem' \in [Slots -> Sema] /\ sem'[s] = m2
      /\ \A x \in Slots : x # s => sem'[x] = sem[x]
      /\ co' \in [Co -> CoCtx] /\ co'[c] = r
      /\ \A d \in Co : d # c => co'[d] = co[d]
  BY <1>1, <1>5, <1>6, <1>7 DEF Types
<1>9. BlocksInv'
  BY <1>1, BlocksStutter DEF Inv
<1>10. Types'
  <2>1. \A d \in Co : co'[d].at = "run" <=> cur' = d
    BY <1>1, <1>3, <1>6, <1>8, CoAssumption
  <2> QED
    BY <1>1, <1>8, <2>1 DEF Types
<1>11. /\ Waiters(s)' = Waiters(s) \cup {c}
       /\ \A x : x # s => Waiters(x)' = Waiters(x)
  <2>1. \A x, d : d \in Waiters(x)' <=> d \in Waiters(x) \/ (d = c /\ x = s)
    BY <1>3, <1>6, <1>8 DEF Waiters
  <2>2. Waiters(s)' = Waiters(s) \cup {c}
    BY <2>1
  <2>3. ASSUME NEW x, x # s PROVE Waiters(x)' = Waiters(x)
    BY <2>1, <2>3
  <2> QED
    BY <2>2, <2>3
<1>12. WaitersExact'
  <2>1. \A d \in Co : CoOk(co'[d])
    BY <1>1, <1>6, <1>8
  <2>2. \A x \in held : SemaOk(sem'[x], Waiters(x)')
    <3>1. ASSUME NEW x \in held PROVE SemaOk(sem'[x], Waiters(x)')
      <4>1. CASE x = s
        BY <1>4, <1>8, <1>11, <4>1
      <4>2. CASE x # s
        BY <1>1, <1>8, <1>11, <4>2
      <4> QED
        BY <4>1, <4>2
    <3> QED
      BY <3>1
  <2> QED
    BY <1>1, <2>1, <2>2 DEF WaitersExact, CoOk, SemaOk
<1>13. NoLostWakeup'
  <2> SUFFICES ASSUME NEW x \in held, ~IsEmpty(sem'[x].queue), sem'[x].count > 0
               PROVE  sem'[x].posted \/ handling' = x
    BY <1>1 DEF NoLostWakeup
  <2>1. CASE x # s
    BY <1>1, <1>8, <2>1 DEF Inv, NoLostWakeup
  <2>2. CASE x = s
    <3>1. sem[s].count > 0
      BY <1>4, <1>8, <2>2
    <3>2. ~IsEmpty(sem[s].queue)
      BY <1>1, <3>1 DEF TakesNow
    <3> QED
      BY <1>1, <1>4, <1>8, <2>2, <3>1, <3>2 DEF Inv, NoLostWakeup
  <2> QED
    BY <2>1, <2>2
<1>14. AtRest' /\ HandlerHeld'
  BY <1>1, <1>8 DEF Inv, AtRest, HandlerHeld
<1>15. \A x \in Slots : sem'[x].count = sem[x].count
  BY <1>4, <1>8
<1> QED
  BY <1>9, <1>10, <1>12, <1>13, <1>14, <1>15 DEF Inv

\* What a new semaphore does to the set of those that are held
LEMMA AllocFresh ==
    ASSUME BlocksInv, NEW s \in Slots, AllocSema(s)
    PROVE  s \notin held /\ held' = held \cup {s}
<1>1. CASE AllocFree(s)
  <2>1. free.items = LiveSlots(blocks) \ held /\ s \in free.items
    BY <1>1 DEF BlocksInv, FreeQueueExact, AllocFree, IsHead
  <2> QED
    BY <1>1, <2>1 DEF AllocFree
<1>2. CASE AllocBlock(s)
  <2>1. Epoch(s) = curEpoch + 1 /\ held' = held \cup {s}
    BY <1>2 DEF AllocBlock, Epoch
  <2>2. blocks \subseteq 1 .. curEpoch /\ curEpoch \in Nat /\ HeldAllocated
    BY MaxEpochAssumption DEF BlocksInv, BlocksTypeOK
  <2> QED
    BY <2>1, <2>2 DEF HeldAllocated
<1> QED
  BY <1>1, <1>2 DEF AllocSema

LEMMA NewInv ==
    ASSUME Inv, NEW s \in Slots, NEW n \in 0 .. 1, New(s, n)
    PROVE  Inv' /\ s \notin held /\ \A x \in Slots : x # s => sem'[x] = sem[x]
<1>1. /\ Types /\ held \subseteq Slots /\ BlocksInv /\ AllocSema(s)
      /\ sem' = [sem EXCEPT ![s] = FreshSema(n)]
      /\ UNCHANGED <<co, cur, handling>>
      /\ \A x \in held : SemaOk(sem[x], Waiters(x))
      /\ \A d \in Co : CoOk(co[d])
      /\ \A x \in Slots : x \notin held => sem[x] = FreshSema(0)
  BY InvFacts DEF New, Inv
<1>2. BlocksInv' /\ s \notin held /\ held' = held \cup {s}
  BY <1>1, AllocSemaInv, AllocFresh
<1>3. n \in Nat /\ FreshSema(n) \in Sema /\ SemaOk(FreshSema(n), {})
      /\ FreshSema(n).queue.items = {}
  <2>1. n \in Nat
    OBVIOUS
  <2> QED
    BY <2>1, FreshOk
<1>4. /\ sem' \in [Slots -> Sema] /\ sem'[s] = FreshSema(n)
      /\ \A x \in Slots : x # s => sem'[x] = sem[x]
  BY <1>1, <1>3 DEF Types
<1>5. Waiters(s) = {} /\ \A x : Waiters(x)' = Waiters(x)
  <2>1. \A c \in Co : co[c].at = "wait" => co[c].data \in held
    BY InvFacts
  <2> QED
    BY <1>1, <1>2, <2>1 DEF Waiters
<1>6. Types'
  BY <1>1, <1>4 DEF Types
<1>7. WaitersExact'
  <2>1. \A x \in held' : SemaOk(sem'[x], Waiters(x)')
    BY <1>1, <1>2, <1>3, <1>4, <1>5
  <2>2. \A d \in Co : CoOk(co[d])'
    BY <1>1, <1>2 DEF CoOk
  <2> QED
    BY <2>1, <2>2 DEF WaitersExact, SemaOk, CoOk
<1>8. NoLostWakeup'
  BY <1>1, <1>2, <1>3, <1>4 DEF Inv, NoLostWakeup, IsEmpty
<1>9. AtRest' /\ HandlerHeld'
  BY <1>1, <1>2, <1>4 DEF Inv, AtRest, HandlerHeld
<1> QED
  BY <1>2, <1>4, <1>6, <1>7, <1>8, <1>9 DEF Inv

LEMMA GcInv ==
    ASSUME Inv, NEW s \in Slots, Gc(s)
    PROVE  Inv' /\ s \notin held' /\ \A x \in Slots : x # s => sem'[x] = sem[x]
<1>1. /\ Types /\ held \subseteq Slots /\ BlocksInv /\ FreeSema(s)
      /\ sem' = [sem EXCEPT ![s] = FreshSema(0)]
      /\ UNCHANGED <<co, cur, handling>>
      /\ handling = s => GcHandled
      /\ Waiters(s) = {}
      /\ \A x \in held : SemaOk(sem[x], Waiters(x))
      /\ \A d \in Co : CoOk(co[d])
  BY InvFacts DEF Gc, Inv, Collected, Waiters
<1>2. BlocksInv' /\ s \in held /\ held' = held \ {s}
  BY <1>1, FreeSemaInv DEF FreeSema
<1>3. FreshSema(0) \in Sema
  BY FreshOk
<1>4. /\ sem' \in [Slots -> Sema] /\ sem'[s] = FreshSema(0)
      /\ \A x \in Slots : x # s => sem'[x] = sem[x]
  BY <1>1, <1>3 DEF Types
<1>5. \A x : Waiters(x)' = Waiters(x)
  BY <1>1 DEF Waiters
<1>6. Types'
  BY <1>1, <1>4 DEF Types
<1>7. WaitersExact'
  <2>1. \A x \in held' : SemaOk(sem'[x], Waiters(x)')
    BY <1>1, <1>2, <1>4, <1>5
  <2>2. \A d \in Co : CoOk(co[d])'
    BY <1>1, <1>2 DEF CoOk, Waiters
  <2> QED
    BY <2>1, <2>2 DEF WaitersExact, SemaOk, CoOk
<1>8. NoLostWakeup'
  BY <1>1, <1>2, <1>4 DEF Inv, NoLostWakeup
<1>9. AtRest' /\ HandlerHeld'
  BY <1>1, <1>2, <1>4 DEF Inv, AtRest, HandlerHeld
<1> QED
  BY <1>2, <1>4, <1>6, <1>7, <1>8, <1>9 DEF Inv

LEMMA WorkerExitsInv == ASSUME Inv, WorkerExits PROVE Inv'
<1>1. BlocksInv'
  BY MmCleanupInv DEF Inv, WorkerExits
<1>2. UNCHANGED <<sem, co, cur, handling, held>>
  BY DEF WorkerExits, MmCleanup, semaVars
<1>3. Types'
  BY <1>2 DEF Inv, Types
<1>4. \A s : Waiters(s)' = Waiters(s)
  BY <1>2 DEF Waiters
<1>5. WaitersExact'
  BY <1>2, <1>4 DEF Inv, WaitersExact
<1>6. NoLostWakeup' /\ AtRest' /\ HandlerHeld'
  BY <1>2 DEF Inv, NoLostWakeup, AtRest, HandlerHeld
<1> QED
  BY <1>1, <1>3, <1>5, <1>6 DEF Inv

LEMMA StutterInv == ASSUME Inv, UNCHANGED vars PROVE Inv'
<1>1. BlocksInv'
  BY BlocksStutter DEF Inv, vars
<1>2. UNCHANGED <<sem, co, cur, handling, held>>
  BY DEF vars, semaVars, blockVars
<1>3. Types'
  BY <1>2 DEF Inv, Types
<1>4. \A s : Waiters(s)' = Waiters(s)
  BY <1>2 DEF Waiters
<1>5. WaitersExact'
  BY <1>2, <1>4 DEF Inv, WaitersExact
<1>6. NoLostWakeup' /\ AtRest' /\ HandlerHeld'
  BY <1>2 DEF Inv, NoLostWakeup, AtRest, HandlerHeld
<1> QED
  BY <1>1, <1>3, <1>5, <1>6 DEF Inv

LEMMA NextInv == Inv /\ [Next]_vars => Inv'
<1> SUFFICES ASSUME Inv, [Next]_vars PROVE Inv'
  OBVIOUS
<1>1. CASE \E s \in Slots, n \in 0 .. 1 : New(s, n)
  BY <1>1, NewInv
<1>2. CASE \E s \in Slots : \/ Post(s) \/ WaitNow(s) \/ WaitYield(s) \/ Gc(s)
                            \/ HandlerStart(s)
  BY <1>2, PostInv, WaitNowInv, WaitYieldInv, GcInv, HandlerStartInv
<1>3. CASE \E c \in Co : Start(c) \/ Cancel(c) \/ Timeout(c) \/ Grant(c)
  BY <1>3, StartInv, CancelInv, TimeoutInv, GrantInv
<1>4. CASE Suspend \/ HandlerEnd
  BY <1>4, SuspendInv, HandlerEndInv
<1>5. CASE WorkerExits
  BY <1>5, WorkerExitsInv
<1>6. CASE UNCHANGED vars
  BY <1>6, StutterInv
<1> QED
  BY <1>1, <1>2, <1>3, <1>4, <1>5, <1>6 DEF Next

-----------------------------------------------------------------------------

\* For every number of coroutines, semaphores and resources: the queue of a
\* semaphore holds exactly the coroutines suspended on it, each with its timer
\* and cleanup handler.
THEOREM WaitersCorrect == Spec => []WaitersExact
<1>1. Inv => WaitersExact
  BY DEF Inv
<1> QED
  BY <1>1, InitInv, NextInv, PTL DEF Spec

\* And no wake-up is lost: a resource that was posted and a waiter do not stay
\* beside each other without a handler on its way.
THEOREM WakeupsCorrect == Spec => []NoLostWakeup
<1>1. Inv => NoLostWakeup
  BY DEF Inv
<1> QED
  BY <1>1, InitInv, NextInv, PTL DEF Spec

\* If the Lua code that the handler runs does not collect the semaphore it was
\* woken by, neither the handler nor Lua code reads memory that was given back.
THEOREM HandlerCorrect ==
    ASSUME ~GcHandled
    PROVE  Spec => []AllAllocated
<1>1. Inv => AllAllocated
  BY DEF Inv, BlocksInv, HeldAllocated, HandlerHeld, HandlerSemaAllocated, AllAllocated
<1> QED
  BY <1>1, InitInv, NextInv, PTL DEF Spec

\* Whatever coroutines do with semaphores, their blocks are right.
THEOREM SemaphoreBlocksCorrect == Spec => []BlocksExact
<1>1. Inv => BlocksExact
  BY BlocksInvExact DEF Inv
<1> QED
  BY <1>1, InitInv, NextInv, PTL DEF Spec

\* The step relation of ServedInOrder
InOrder ==
    \A s \in held \cap held' : sem'[s].count < sem[s].count => TakenInOrder(s)

LEMMA SameCountInOrder ==
    ASSUME Types, held \subseteq Slots,
           \A s \in held \cap held' : sem'[s].count >= sem[s].count,
           sem' \in [Slots -> Sema]
    PROVE  InOrder
<1>1. \A s \in held : sem[s].count \in Int /\ sem'[s].count \in Int
  BY DEF Types, Sema
<1> QED
  BY <1>1 DEF InOrder

LEMMA LeaveInOrder ==
    ASSUME Inv, NEW c \in Co, Cancel(c) \/ Timeout(c)
    PROVE  InOrder
<1>1. co[c].at = "wait"
  <2>1. CoOk(co[c]) /\ (co[c].cleanup \/ co[c].timer)
    BY InvFacts DEF Cancel, Timeout
  <2> QED
    BY <2>1 DEF CoOk
<1>2. PICK s \in held : s = co[c].data /\ c \in Waiters(s)
  BY <1>1, InvFacts
<1>3. sem' = [sem EXCEPT ![s] = Left(s, c)]
  BY <1>2 DEF Cancel, Timeout
<1>4. Types /\ held \subseteq Slots /\ Left(s, c) \in Sema
      /\ Left(s, c).count = sem[s].count
  BY <1>2, InvFacts, LeftFacts
<1>5. sem' \in [Slots -> Sema] /\ \A x \in held : sem'[x].count = sem[x].count
  BY <1>3, <1>4 DEF Types
<1>6. \A x \in held : sem[x].count \in Int
  BY <1>4 DEF Types, Sema
<1> QED
  BY <1>4, <1>5, <1>6, SameCountInOrder

LEMMA GrantInOrder ==
    ASSUME Inv, NEW c \in Co, Grant(c)
    PROVE  InOrder
<1>1. handling \in held /\ c \in Waiters(handling)
  BY GrantInv
<1>2. Types /\ held \subseteq Slots
  BY InvFacts
<1>3. IsHead(sem[handling].queue, c) /\ cur' = c
  BY DEF Grant, NextWaiter
<1>4. TakenInOrder(handling)
  BY <1>1, <1>3 DEF TakenInOrder
<1>5. \A x \in held : x # handling => sem'[x] = sem[x]
  BY <1>1, <1>2 DEF Grant, Types
<1>6. \A x \in held : sem[x].count \in Int
  BY <1>2 DEF Types, Sema
<1>7. \A x \in held : sem'[x].count < sem[x].count => x = handling
  BY <1>5, <1>6
<1> QED
  BY <1>4, <1>7 DEF InOrder

LEMMA WaitNowInOrder ==
    ASSUME Inv, NEW s \in Slots, WaitNow(s)
    PROVE  InOrder
<1>1. TakenInOrder(s)
  BY WaitNowInv DEF TakenInOrder
<1>2. Types /\ held \subseteq Slots
  BY InvFacts
<1>3. \A x \in held : x # s => sem'[x] = sem[x]
  BY <1>2 DEF WaitNow, Types
<1>4. \A x \in held : sem[x].count \in Int
  BY <1>2 DEF Types, Sema
<1>5. \A x \in held : sem'[x].count < sem[x].count => x = s
  BY <1>3, <1>4
<1> QED
  BY <1>1, <1>5 DEF InOrder

\* New and Gc touch only a semaphore that is not held before or after
LEMMA MemoryInOrder ==
    ASSUME Inv, NEW s \in Slots, (\E n \in 0 .. 1 : New(s, n)) \/ Gc(s)
    PROVE  InOrder
<1>1. /\ s \notin held \cap held'
      /\ \A x \in Slots : x # s => sem'[x] = sem[x]
  BY NewInv, GcInv
<1>2. Types /\ held \subseteq Slots
  BY InvFacts
<1>3. \A x \in held : sem[x].count \in Int
  BY <1>2 DEF Types, Sema
<1>4. \A x \in held \cap held' : sem'[x].count = sem[x].count
  BY <1>1, <1>2
<1> QED
  BY <1>3, <1>4 DEF InOrder

\* The steps that lower no count
LEMMA KeepInOrder ==
    ASSUME Inv,
           \/ \E s \in Slots : Post(s) \/ WaitYield(s) \/ HandlerStart(s)
           \/ (\E c \in Co : Start(c)) \/ Suspend \/ HandlerEnd \/ WorkerExits
           \/ UNCHANGED vars
    PROVE  InOrder
<1>1. Types /\ held \subseteq Slots
  BY InvFacts
<1>2. \A x \in held : sem[x].count \in Int
  BY <1>1 DEF Types, Sema
<1>3. CASE \E s \in Slots : WaitYield(s) \/ HandlerStart(s)
  <2>1. \A x \in held : sem'[x].count = sem[x].count
    BY <1>1, <1>3, WaitYieldInv, HandlerStartInv
  <2> QED
    BY <1>2, <2>1 DEF InOrder
<1>4. CASE \E s \in Slots : Post(s)
  <2>1. PICK s \in Slots : Post(s)
    BY <1>4
  <2>2. \A x \in held : x # s => sem'[x] = sem[x]
    BY <1>1, <2>1 DEF Post, Types
  <2>3. s \in held /\ sem'[s].count = sem[s].count + 1
    BY <1>1, <2>1 DEF Post, Types, Sema
  <2> QED
    BY <1>2, <2>2, <2>3 DEF InOrder
<1>5. CASE UNCHANGED sem
  BY <1>2, <1>5 DEF InOrder
<1> QED
  BY <1>3, <1>4, <1>5 DEF Start, Suspend, HandlerEnd, WorkerExits, vars, semaVars

LEMMA NextInOrder == Inv /\ [Next]_vars => InOrder
<1> SUFFICES ASSUME Inv, [Next]_vars PROVE InOrder
  OBVIOUS
<1>1. CASE \E s \in Slots : (\E n \in 0 .. 1 : New(s, n)) \/ Gc(s)
  BY <1>1, MemoryInOrder
<1>2. CASE \E s \in Slots : WaitNow(s)
  BY <1>2, WaitNowInOrder
<1>3. CASE \E c \in Co : Cancel(c) \/ Timeout(c)
  BY <1>3, LeaveInOrder
<1>4. CASE \E c \in Co : Grant(c)
  BY <1>4, GrantInOrder
<1>5. CASE \/ \E s \in Slots : Post(s) \/ WaitYield(s) \/ HandlerStart(s)
           \/ (\E c \in Co : Start(c)) \/ Suspend \/ HandlerEnd \/ WorkerExits
           \/ UNCHANGED vars
  BY <1>5, KeepInOrder
<1> QED
  BY <1>1, <1>2, <1>3, <1>4, <1>5 DEF Next

\* Resources are handed out in the order of waiting, whatever is posted, timed
\* out, killed or collected in between.
THEOREM OrderCorrect == Spec => ServedInOrder
<1>1. Inv /\ [Next]_vars => [InOrder]_vars
  BY NextInOrder
<1> QED
  BY <1>1, InitInv, NextInv, PTL DEF Spec, ServedInOrder, InOrder
=============================================================================
