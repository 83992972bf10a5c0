-------------------------- MODULE SemaphoreBlocks --------------------------
(***************************************************************************)
(* The memory of ngx.semaphore objects (semaphore.c): semaphores are       *)
(* carved out of blocks, freed ones wait in a queue, and a block none of   *)
(* whose semaphores is in use is given back when it is old and the load is *)
(* low.  A block is named by its epoch, which no other block ever has.     *)
(***************************************************************************)
EXTENDS NgxQueue, Integers, FiniteSets

CONSTANTS NumPerBlock,  \* mm->num_per_block (4095)
          MaxEpoch      \* bound: blocks ever allocated

ASSUME NumPerBlockAssumption == NumPerBlock \in Nat \ {0}
ASSUME MaxEpochAssumption == MaxEpoch \in Nat

VARIABLES free,      \* mm->free_queue
          blocks,    \* epochs of the blocks that are allocated
          inUse,     \* block->used of every block
          total,     \* mm->total
          used,      \* mm->used
          curEpoch,  \* mm->cur_epoch
          held,      \* the semaphores Lua objects point to
          exited     \* the cycle's pool is destroyed

blockVars == <<free, blocks, inUse, total, used, curEpoch, held, exited>>

Epochs == 1 .. MaxEpoch
Slots == Epochs \X (1 .. NumPerBlock)
SlotsOf(e) == {e} \X (1 .. NumPerBlock)
Epoch(s) == s[1]

-----------------------------------------------------------------------------

\* ngx_http_lua_sema_mm_init
BlocksInit ==
    /\ free = EmptyQueue
    /\ blocks = {} /\ inUse = [e \in Epochs |-> 0]
    /\ total = 0 /\ used = 0 /\ curEpoch = 0
    /\ held = {} /\ exited = FALSE

\* ngx_http_lua_alloc_sema, from the head of the free queue
AllocFree(s) ==
    /\ IsHead(free, s)
    /\ free' = Remove(free, {s})
    /\ inUse' = [inUse EXCEPT ![Epoch(s)] = @ + 1]
    /\ used' = used + 1
    /\ held' = held \cup {s}
    /\ UNCHANGED <<blocks, total, curEpoch>>

\* The slots of a new block but the first, in the order of their addresses
Rest(e) ==
    LET slots == {s \in SlotsOf(e) : s[2] # 1}
    IN  [items |-> slots,
         before |-> {p \in slots \X slots : p[1][2] < p[2][2]}]

\* ngx_http_lua_alloc_sema with an empty free queue: a new block, whose first
\* slot is the semaphore
AllocBlock(s) ==
    /\ IsEmpty(free)
    /\ curEpoch < MaxEpoch
    /\ s = <<curEpoch + 1, 1>>
    /\ curEpoch' = curEpoch + 1
    /\ total' = total + NumPerBlock
    /\ used' = used + 1
    /\ blocks' = blocks \cup {curEpoch'}
    /\ inUse' = [inUse EXCEPT ![curEpoch'] = 1]
    /\ free' = Rest(curEpoch')
    /\ held' = held \cup {s}

AllocSema(s) == ~exited /\ (AllocFree(s) \/ AllocBlock(s)) /\ UNCHANGED exited

\* the number of blocks is not halved
BadMidEpoch == curEpoch - (total \div NumPerBlock)

\* Blocks with a smaller epoch are the older half
MidEpoch == curEpoch - ((total \div NumPerBlock) \div 2)

\* The block e, with n semaphores still used, is given back: the load is at
\* most one half and the block is on the older side
GiveBack(e, n) == n = 0 /\ used - 1 <= total \div 2 /\ e < MidEpoch

\* ngx_http_lua_free_sema
FreeSema(s) ==
    /\ s \in held
    /\ LET e == Epoch(s)
           n == inUse[e] - 1
           q == IF e < MidEpoch THEN InsertTail(free, s) ELSE InsertHead(free, s)
       IN  /\ inUse' = [inUse EXCEPT ![e] = n]
           /\ \/ /\ GiveBack(e, n)
                 /\ free' = Remove(q, SlotsOf(e))
                 /\ total' = total - NumPerBlock
                 /\ blocks' = blocks \ {e}
              \/ /\ ~GiveBack(e, n)
                 /\ free' = q
                 /\ UNCHANGED <<total, blocks>>
    /\ used' = used - 1
    /\ held' = held \ {s}
    /\ UNCHANGED <<curEpoch, exited>>

\* The blocks ngx_http_lua_sema_mm_cleanup frees: it takes the head of the
\* queue until that belongs to a block that is in use
Reclaimed ==
    {e \in blocks : /\ inUse[e] = 0
                    /\ \E s \in SlotsOf(e) \cap free.items :
                         \A t \in free.items :
                             inUse[Epoch(t)] # 0 => <<s, t>> \in free.before}

\* ngx_http_lua_sema_mm_cleanup, which module.c registers to run after the Lua
\* VM is closed and has collected every semaphore
MmCleanup ==
    /\ ~exited /\ held = {}
    /\ exited' = TRUE
    /\ blocks' = blocks \ Reclaimed
    /\ free' = Remove(free, {s \in Slots : Epoch(s) \in Reclaimed})
    /\ UNCHANGED <<inUse, total, used, curEpoch, held>>

-----------------------------------------------------------------------------

BlocksNext == (\E s \in Slots : AllocSema(s) \/ FreeSema(s)) \/ MmCleanup

BlocksSpec == BlocksInit /\ [][BlocksNext]_blockVars

-----------------------------------------------------------------------------
(* Properties.                                                             *)

\* All semaphores of the blocks in B
LiveSlots(B) == UNION {SlotsOf(e) : e \in B}

\* The semaphores of the block e that Lua objects point to
HeldIn(e) == {s \in held : Epoch(s) = e}

\* Types of the allocator's state.
BlocksTypeOK ==
    /\ free \in QueuesOver(Slots)
    /\ blocks \subseteq Epochs
    /\ inUse \in [Epochs -> Nat]
    /\ total \in Nat /\ used \in Nat
    /\ curEpoch \in 0 .. MaxEpoch
    /\ held \subseteq Slots
    /\ exited \in BOOLEAN

\* No Lua object points into a block that was given back to the system.
HeldAllocated == \A s \in held : Epoch(s) \in blocks

\* The free queue holds every semaphore of every block that no Lua object
\* points to, each once, and no semaphore of a block that was given back.
FreeQueueExact ==
    /\ WellFormed(free)
    /\ free.items = LiveSlots(blocks) \ held

\* The three counters that decide when a block is given back are right.
CountersExact ==
    /\ \A e \in blocks : inUse[e] = Cardinality(HeldIn(e))
    /\ used = Cardinality(held)
    /\ ~exited => total = NumPerBlock * Cardinality(blocks)

\* The newest block is never given back and the unsigned mid_epoch never
\* wraps around, so a block that has just been allocated stays.
NewestKept ==
    curEpoch > 0 /\ ~exited => curEpoch \in blocks /\ MidEpoch \in 1 .. curEpoch

\* When the cycle ends, every block is given back and the alert of
\* ngx_http_lua_sema_mm_cleanup is not raised.
CleanupComplete == exited => blocks = {}

\* The blocks that semaphores are taken from and given back in: no semaphore is
\* lost or free twice, a block is given back when nobody uses it and not
\* before, and the end of the cycle gives back all.
BlocksExact == FreeQueueExact /\ CountersExact /\ NewestKept /\ CleanupComplete
=============================================================================
