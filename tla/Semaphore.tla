----------------------------- MODULE Semaphore -----------------------------
(***************************************************************************)
(* ngx.semaphore (semaphore.c): coroutines wait for resources that others  *)
(* post.  A post only posts an event; its handler hands the resources to   *)
(* the waiters one by one, and runs Lua code for each before it looks at   *)
(* the semaphore again.  A waiter may also time out or be cancelled (its   *)
(* thread is killed, its request ends).                                    *)
(*                                                                         *)
(* The Lua code that runs may call anything at any time; other coroutines  *)
(* run when it yields (also the posted threads that run before the handler *)
(* goes on).  A wait with timeout 0 that fails changes nothing and is left *)
(* out, as are the phases that forbid waiting.                             *)
(***************************************************************************)
EXTENDS SemaphoreBlocks

CONSTANTS Co,        \* coroutine contexts
          NoCo,      \* none runs: C code has control
          NoSema,    \* no handler is on the C stack
          MaxCount,  \* bound: resources of a semaphore
          GcHandled  \* TRUE: the Lua code the handler runs may drop the last
                     \* reference to the handler's semaphore and collect it

ASSUME CoAssumption == NoCo \notin Co /\ IsFiniteSet(Co)
ASSUME NoSemaAssumption == NoSema \notin Slots
ASSUME MaxCountAssumption == MaxCount \in Nat
ASSUME GcHandledAssumption == GcHandled \in BOOLEAN

VARIABLES sem,      \* the ngx_http_lua_sema_t in every slot
          co,       \* the part of every coroutine context that waiting uses
          cur,      \* the coroutine that runs Lua code
          handling  \* the semaphore whose handler is in its loop

semaVars == <<sem, co, cur, handling>>
vars == <<blockVars, semaVars>>

Sema == [count : Int, waits : Int, queue : QueuesOver(Co), posted : BOOLEAN]

CoCtx == [at : {"idle", "run", "wait"}, data : Slots \cup {NoSema},
          timer : BOOLEAN, cleanup : BOOLEAN]

FreshSema(n) == [count |-> n, waits |-> 0, queue |-> EmptyQueue,
                 posted |-> FALSE]

-----------------------------------------------------------------------------

SemaInit ==
    /\ sem = [s \in Slots |-> FreshSema(0)]
    /\ co = [c \in Co |-> [at |-> "idle", data |-> NoSema,
                           timer |-> FALSE, cleanup |-> FALSE]]
    /\ cur = NoCo /\ handling = NoSema

Init == BlocksInit /\ SemaInit

\* What leaving the queue does to a semaphore
Left(s, c) == [sem[s] EXCEPT !.queue = Remove(@, {c}), !.waits = @ - 1]

\* the timer stays set
BadWoken(c, at) == [co[c] EXCEPT !.at = at, !.cleanup = FALSE]

\* What leaving the queue does to the coroutine that waited
Woken(c, at) == [co[c] EXCEPT !.at = at, !.timer = FALSE, !.cleanup = FALSE]

-----------------------------------------------------------------------------
(* Calls of the Lua code that runs.                                        *)

LuaRuns == cur # NoCo

\* ngx_http_lua_ffi_sema_new
New(s, n) ==
    /\ LuaRuns
    /\ AllocSema(s)
    /\ sem' = [sem EXCEPT ![s] = FreshSema(n)]
    /\ UNCHANGED <<co, cur, handling>>

\* only the first waiter has the event posted
BadPosts(s) == sem[s].waits > 1

\* post has someone to wake
Posts(s) == ~IsEmpty(sem[s].queue)

\* ngx_http_lua_ffi_sema_post
Post(s) ==
    /\ LuaRuns /\ s \in held
    /\ sem[s].count < MaxCount
    /\ sem' = [sem EXCEPT ![s].count = @ + 1,
                          ![s].posted = @ \/ Posts(s)]
    /\ UNCHANGED <<blockVars, co, cur, handling>>

\* wait may take a resource at once: nobody waits for it longer
TakesNow(s) == IsEmpty(sem[s].queue) /\ sem[s].count > 0

\* ngx_http_lua_ffi_sema_wait that returns NGX_OK
WaitNow(s) ==
    /\ LuaRuns /\ s \in held
    /\ TakesNow(s)
    /\ sem' = [sem EXCEPT ![s].count = @ - 1]
    /\ UNCHANGED <<blockVars, co, cur, handling>>

\* ngx_http_lua_ffi_sema_wait that returns NGX_AGAIN
WaitYield(s) ==
    /\ LuaRuns /\ s \in held
    /\ ~TakesNow(s)
    /\ sem' = [sem EXCEPT ![s].waits = @ + 1,
                          ![s].queue = InsertTail(@, cur)]
    /\ co' = [co EXCEPT ![cur] = [at |-> "wait", data |-> s,
                                  timer |-> TRUE, cleanup |-> TRUE]]
    /\ cur' = NoCo
    /\ UNCHANGED <<blockVars, handling>>

\* Lua code yields for something else, or ends
Suspend ==
    /\ LuaRuns
    /\ co' = [co EXCEPT ![cur].at = "idle"]
    /\ cur' = NoCo
    /\ UNCHANGED <<blockVars, sem, handling>>

\* the event stays posted
BadCollected(s) == [FreshSema(0) EXCEPT !.posted = sem[s].posted]

\* The event of a collected semaphore is deleted; nobody reads what else its
\* memory holds before it is initialised again
Collected(s) == FreshSema(0)

\* ngx_http_lua_ffi_sema_gc: Lua refers to s no more; a coroutine that waits
\* refers to it from its stack
Gc(s) ==
    /\ LuaRuns
    /\ \A c \in Co : ~(co[c].at = "wait" /\ co[c].data = s)
    /\ handling = s => GcHandled
    /\ FreeSema(s)
    /\ sem' = [sem EXCEPT ![s] = Collected(s)]
    /\ UNCHANGED <<co, cur, handling>>

-----------------------------------------------------------------------------
(* Events.                                                                 *)

\* A coroutine that waits for something else runs, or a new one
Start(c) ==
    /\ cur = NoCo /\ ~exited
    /\ co[c].at = "idle"
    /\ co' = [co EXCEPT ![c].at = "run"]
    /\ cur' = c
    /\ UNCHANGED <<blockVars, sem, handling>>

\* ngx_http_lua_sema_cleanup: the thread of c is killed by the Lua code that
\* runs, or its request ends
Cancel(c) ==
    /\ co[c].cleanup
    /\ sem' = [sem EXCEPT ![co[c].data] = Left(co[c].data, c)]
    /\ co' = [co EXCEPT ![c] = Woken(c, "idle")]
    /\ UNCHANGED <<blockVars, cur, handling>>

InEventLoop == cur = NoCo /\ handling = NoSema

\* ngx_http_lua_sema_timeout_handler
Timeout(c) ==
    /\ InEventLoop
    /\ co[c].timer
    /\ sem' = [sem EXCEPT ![co[c].data] = Left(co[c].data, c)]
    /\ co' = [co EXCEPT ![c] = Woken(c, "run")]
    /\ cur' = c
    /\ UNCHANGED <<blockVars, handling>>

\* ngx_http_lua_sema_handler is called for a posted event
HandlerStart(s) ==
    /\ InEventLoop
    /\ sem[s].posted
    /\ sem' = [sem EXCEPT ![s].posted = FALSE]
    /\ handling' = s
    /\ UNCHANGED <<blockVars, co, cur>>

\* the waiter that came last is served
BadNextWaiter(s, c) == IsLast(sem[s].queue, c)

NextWaiter(s, c) == IsHead(sem[s].queue, c)

\* One turn of its loop: c is resumed
Grant(c) ==
    /\ cur = NoCo /\ handling # NoSema
    /\ NextWaiter(handling, c) /\ sem[handling].count > 0
    /\ sem' = [sem EXCEPT ![handling] = [Left(handling, c) EXCEPT !.count = @ - 1]]
    /\ co' = [co EXCEPT ![c] = Woken(c, "run")]
    /\ cur' = c
    /\ UNCHANGED <<blockVars, handling>>

\* it serves one waiter, or none
BadLoopEnds == TRUE

LoopEnds == IsEmpty(sem[handling].queue) \/ sem[handling].count <= 0

\* Its loop ends (so it does in this model when the semaphore is collected: a
\* collected one has no waiters)
HandlerEnd ==
    /\ cur = NoCo /\ handling # NoSema
    /\ LoopEnds
    /\ handling' = NoSema
    /\ UNCHANGED <<blockVars, sem, co, cur>>

\* The worker quits: its requests are gone, and closing the Lua VM has
\* collected every semaphore
WorkerExits ==
    /\ cur = NoCo /\ handling = NoSema
    /\ MmCleanup
    /\ UNCHANGED semaVars

-----------------------------------------------------------------------------

Next ==
    \/ \E s \in Slots : \/ \E n \in 0 .. 1 : New(s, n)
                        \/ Post(s) \/ WaitNow(s) \/ WaitYield(s) \/ Gc(s)
                        \/ HandlerStart(s)
    \/ \E c \in Co : Start(c) \/ Cancel(c) \/ Timeout(c) \/ Grant(c)
    \/ Suspend \/ HandlerEnd \/ WorkerExits

Spec == Init /\ [][Next]_vars

\* A coroutine yields or ends at last, nginx runs every posted event, and the
\* handler gets control back between the coroutines it runs.  Nothing is
\* assumed of timers.
Fairness ==
    /\ WF_vars(Suspend)
    /\ \A s \in Slots : SF_vars(HandlerStart(s))
    /\ SF_vars((\E c \in Co : Grant(c)) \/ HandlerEnd)

FairSpec == Spec /\ Fairness

-----------------------------------------------------------------------------
(* Properties.                                                             *)

Waiters(s) == {c \in Co : co[c].at = "wait" /\ co[c].data = s}

\* Types of the state; only the coroutine that has control runs.
TypeOK ==
    /\ BlocksTypeOK
    /\ sem \in [Slots -> Sema]
    /\ co \in [Co -> CoCtx]
    /\ cur \in Co \cup {NoCo}
    /\ \A c \in Co : co[c].at = "run" <=> cur = c
    /\ handling \in Slots \cup {NoSema}

\* A semaphore's queue holds exactly the coroutines suspended in wait on it,
\* its wait_count is their number (ngx.semaphore's count() is negative by it),
\* and a coroutine has a timer and a cleanup handler exactly while it is
\* queued: so no timer fires for one that was resumed, and none is left queued
\* when it dies.
WaitersExact ==
    /\ \A s \in held : /\ WellFormed(sem[s].queue)
                       /\ sem[s].queue.items = Waiters(s)
                       /\ sem[s].waits = Cardinality(Waiters(s))
                       /\ sem[s].count >= 0
    /\ \A c \in Co : /\ co[c].timer = (co[c].at = "wait")
                     /\ co[c].cleanup = (co[c].at = "wait")
                     /\ co[c].at = "wait" => co[c].data \in held

\* No lost wake-up: when a resource is there and somebody waits for it, the
\* event is posted or the handler is at work.
NoLostWakeup ==
    \A s \in held : ~IsEmpty(sem[s].queue) /\ sem[s].count > 0 =>
                        sem[s].posted \/ handling = s

\* A resource of s is taken by a coroutine that asks for it while nobody waits,
\* or by the one that has waited longest
TakenInOrder(s) ==
    \/ Waiters(s) = {} /\ Waiters(s)' = {} /\ cur # NoCo
    \/ \E c \in Waiters(s) : IsHead(sem[s].queue, c) /\ cur' = c

\* A resource goes to the coroutine that has waited longest, or to one that
\* asks for it while nobody waits ("we keep the order", semaphore.c:389).
ServedInOrder ==
    [][\A s \in held \cap held' :
        sem'[s].count < sem[s].count => TakenInOrder(s)]_vars

\* The handler never runs on a semaphore whose memory was given back
\* (t/154-semaphore.t:125).
HandlerSemaAllocated == handling # NoSema => Epoch(handling) \in blocks

\* No pointer that is still used leads into a block that was given back to the
\* system: neither that of a Lua object nor that of the handler in its loop.
AllAllocated == HeldAllocated /\ HandlerSemaAllocated

\* The coroutine at the head of the queue is served when there is a resource.
Served ==
    \A s \in Slots, c \in Co :
        IsHead(sem[s].queue, c) /\ sem[s].count > 0 ~>
            ~IsHead(sem[s].queue, c)
=============================================================================
