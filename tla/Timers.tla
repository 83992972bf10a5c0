------------------------------- MODULE Timers -------------------------------
(***************************************************************************)
(* ngx.timer.at and ngx.timer.every in one worker process (timer.c): the   *)
(* pending and the running timers, their limits, the repetition, the Lua   *)
(* VMs they keep alive, and the worker that exits.                         *)
(*                                                                         *)
(* lua_code_cache is off, so that every request has a VM of its own, which *)
(* the timers it creates share with it.  Memory allocation does not fail.  *)
(* A patched nginx has a queue of posted events for the next turn of its   *)
(* event loop; both builds are modelled.                                   *)
(***************************************************************************)
EXTENDS Integers, FiniteSets

CONSTANTS Timer,       \* timer events with their ngx_http_lua_timer_ctx_t
          Req,         \* requests; each stands for its VM, too
          None,
          MaxPending,  \* lua_max_pending_timers
          MaxRunning   \* lua_max_running_timers

ASSUME IdsAssumption == Timer \cap Req = {} /\ None \notin Timer \cup Req
ASSUME FiniteAssumption == IsFiniteSet(Timer) /\ IsFiniteSet(Req)
ASSUME LimitAssumption == MaxPending \in Nat /\ MaxRunning \in Nat
\* bound: always enough events for the limits and the next timer
ASSUME EnoughAssumption == Cardinality(Timer) > MaxPending + MaxRunning

VARIABLES patched,   \* HAVE_POSTED_DELAYED_EVENTS_PATCH
          timer,     \* every timer event and its context
          alive,     \* requests that have not been finalized
          count,     \* vm_state->count of every VM; 0: closed
          pending,   \* lmcf->pending_timers
          running,   \* lmcf->running_timers
          watcher,   \* lmcf->watcher # NULL
          exiting,   \* ngx_exiting
          aborting,  \* events of abort_pending_timers that are still to call
          cur        \* the request or timer whose Lua code runs

vars == <<patched, timer, alive, count, pending, running, watcher, exiting,
          aborting, cur>>

\* at: nowhere, in the tree of nginx timers, posted for the next turn of the
\* event loop, or with its callback running
TimerCtx == [at : {"none", "tree", "posted", "running"},
             every : BOOLEAN, zero : BOOLEAN, premature : BOOLEAN, vm : Req \cup {None}]

NoTimer == [at |-> "none", every |-> FALSE, zero |-> FALSE,
            premature |-> FALSE, vm |-> None]

At(places) == {t \in Timer : timer[t].at \in places}

Init ==
    /\ patched \in BOOLEAN
    /\ timer = [t \in Timer |-> NoTimer]
    /\ alive = {} /\ count = [r \in Req |-> 0]
    /\ pending = 0 /\ running = 0
    /\ watcher = FALSE /\ exiting = FALSE
    /\ aborting = {} /\ cur = None

-----------------------------------------------------------------------------
(* Requests.                                                               *)

\* A request arrives, with a new VM
Request(r) ==
    /\ cur = None /\ aborting = {} /\ ~exiting
    /\ r \notin alive /\ count[r] = 0
    /\ alive' = alive \cup {r} /\ count' = [count EXCEPT ![r] = 1]
    /\ cur' = r
    /\ UNCHANGED <<patched, timer, pending, running, watcher, exiting, aborting>>

\* Some event continues a request or a timer callback that was suspended
Resume(x) ==
    /\ cur = None /\ aborting = {}
    /\ x \in alive \/ (x \in Timer /\ timer[x].at = "running")
    /\ cur' = x
    /\ UNCHANGED <<patched, timer, alive, count, pending, running, watcher,
                   exiting, aborting>>

Suspend ==
    /\ cur # None
    /\ cur' = None
    /\ UNCHANGED <<patched, timer, alive, count, pending, running, watcher,
                   exiting, aborting>>

VmOf(x) == IF x \in Req THEN x ELSE timer[x].vm

\* ngx_http_lua_request_cleanup and ngx_http_lua_cleanup_vm, when the request
\* or the fake request of the timer ends
End ==
    /\ cur # None
    /\ alive' = alive \ {cur}
    /\ timer' = [t \in Timer |-> IF t = cur THEN NoTimer ELSE timer[t]]
    /\ running' = IF cur \in Timer THEN running - 1 ELSE running
    /\ count' = [count EXCEPT ![VmOf(cur)] = @ - 1]
    /\ cur' = None
    /\ UNCHANGED <<patched, pending, watcher, exiting, aborting>>

-----------------------------------------------------------------------------
(* Timers.                                                                 *)

\* "too many pending timers"
TooMany == pending >= MaxPending

\* ngx_http_lua_ngx_timer_helper, where it creates a timer
Create(t, every, zero) ==
    /\ cur # None /\ timer[t].at = "none"
    /\ ~(every /\ zero) /\ ~(exiting /\ ~zero) /\ ~TooMany
    /\ watcher' = TRUE
    /\ timer' = [timer EXCEPT ![t] =
                    [at |-> IF patched /\ zero /\ ~exiting THEN "posted" ELSE "tree",
                     every |-> every, zero |-> zero, premature |-> FALSE,
                     vm |-> VmOf(cur)]]
    /\ count' = [count EXCEPT ![VmOf(cur)] = @ + 1]
    /\ pending' = pending + 1
    /\ UNCHANGED <<patched, alive, running, exiting, aborting, cur>>

\* ngx.timer.every goes on while the worker exits
BadRepeats(t) == timer[t].every

\* The timer handler creates the next timer of ngx.timer.every
Repeats(t) == timer[t].every /\ ~exiting

\* the next timer does not hold the VM
BadCopied(u, c) == c

\* ngx_http_lua_timer_copy: the counts of VMs with the copy u
Copied(u, c) == [c EXCEPT ![u.vm] = @ + 1]

\* The pending timers without t and with the next one
PendingAfter(t) == IF Repeats(t) THEN pending ELSE pending - 1

\* "lua_max_running_timers are not enough"
NoRoom == running >= MaxRunning

\* ngx_http_lua_timer_handler for t, which has left the timers of nginx; n is
\* the event of the next timer
Handled(t, n, premature) ==
    LET u == [timer[t] EXCEPT !.premature = premature]
        next == [u EXCEPT !.at = "tree"]
        copied == IF Repeats(t) THEN Copied(u, count) ELSE count
        rest == IF Repeats(t) THEN [timer EXCEPT ![n] = next] ELSE timer
    IN  /\ Repeats(t) => timer[n].at = "none"
        /\ pending' = PendingAfter(t)
        /\ \/ /\ NoRoom
              /\ timer' = [rest EXCEPT ![t] = NoTimer]
              /\ count' = [copied EXCEPT ![u.vm] = @ - 1]
              /\ UNCHANGED <<running, cur>>
           \/ /\ ~NoRoom
              /\ timer' = [rest EXCEPT ![t] = [u EXCEPT !.at = "running"]]
              /\ count' = copied
              /\ running' = running + 1 /\ cur' = t

\* The event of t comes
Expire(t) ==
    /\ cur = None /\ aborting = {}
    /\ timer[t].at \in {"tree", "posted"}
    /\ \E n \in Timer : Handled(t, n, FALSE)
    /\ UNCHANGED <<patched, alive, watcher, exiting, aborting>>

-----------------------------------------------------------------------------
(* The exit of the worker.                                                 *)

\* nothing is aborted when the counter is out of sync
BadFound == IF pending # Cardinality(At({"tree"})) THEN {} ELSE At({"tree"})

\* The events that the walk of the tree in abort_pending_timers finds
Found == IF pending = 0 THEN {} ELSE At({"tree"})

\* nginx closes its idle connections, the watcher among them
Quit ==
    /\ cur = None /\ ~exiting
    /\ exiting' = TRUE
    /\ aborting' = IF watcher THEN Found ELSE {}
    /\ UNCHANGED <<patched, timer, alive, count, pending, running, watcher, cur>>

\* The loop at the end of ngx_http_lua_abort_pending_timers
Abort(t) ==
    /\ cur = None /\ t \in aborting
    /\ aborting' = aborting \ {t}
    /\ \E n \in Timer : Handled(t, n, TRUE)
    /\ UNCHANGED <<patched, alive, watcher, exiting>>

Next ==
    \/ \E r \in Req : Request(r)
    \/ \E x \in Req \cup Timer : Resume(x)
    \/ Suspend \/ End
    \/ \E t \in Timer, every, zero \in BOOLEAN : Create(t, every, zero)
    \/ \E t \in Timer : Expire(t) \/ Abort(t)
    \/ Quit

Spec == Init /\ [][Next]_vars

\* Lua code gives the CPU back; a timer without delay comes in the next turn
\* of the event loop; the loop of abort_pending_timers goes on.  Nothing is
\* assumed of other timers: their delay may be any.
Fairness ==
    /\ WF_vars(Suspend)
    /\ \A t \in Timer : SF_vars(timer[t].zero /\ Expire(t)) /\ WF_vars(Abort(t))

FairSpec == Spec /\ Fairness

-----------------------------------------------------------------------------
(* Properties.                                                             *)

Pending == At({"tree", "posted"})

\* Types of the state.
TypeOK ==
    /\ patched \in BOOLEAN /\ watcher \in BOOLEAN /\ exiting \in BOOLEAN
    /\ timer \in [Timer -> TimerCtx]
    /\ alive \subseteq Req /\ count \in [Req -> Nat]
    /\ pending \in Nat /\ running \in Nat
    /\ aborting \subseteq Pending
    /\ cur \in alive \cup At({"running"}) \cup {None}

\* The two counters count the timers, so ngx.timer.pending_count and
\* running_count tell the truth and the limits below are real ones.
CountsExact == /\ pending = Cardinality(Pending)
               /\ running = Cardinality(At({"running"}))

\* lua_max_pending_timers and lua_max_running_timers hold, with repetition and
\* with timers that all come at once when the worker exits.
Limits == pending <= MaxPending /\ running <= MaxRunning

\* A VM is counted once for its request and once for every timer that is
\* pending or running: it is closed with the last of them and not before.
VmExact ==
    \A r \in Req : count[r] = Cardinality({t \in Timer : timer[t].vm = r})
                                  + IF r \in alive THEN 1 ELSE 0

\* When the pending timers have been aborted, only timers without delay are
\* created and remain, so that the worker can exit.
OnlyZeroAtExit == exiting /\ aborting = {} => \A t \in Pending : timer[t].zero

\* With posted events premature is never true for a timer without delay
\* (README.markdown:9341).
ZeroOnTime == patched => \A t \in Timer : timer[t].zero => ~timer[t].premature

\* What is counted is there, and no more than the limits allow.
AccountsExact == TypeOK /\ CountsExact /\ Limits /\ VmExact

\* premature is told to the timers that come before their time, and no others
\* are left when a worker exits.
PrematureRight == OnlyZeroAtExit /\ ZeroOnTime

\* When the worker exits, every pending timer is handled.
Drained == \A t \in Timer : (exiting /\ t \in Pending) ~> (t \notin Pending)
=============================================================================
