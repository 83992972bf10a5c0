------------------------------ MODULE Coroutines ------------------------------
(***************************************************************************)
(* The part of a coroutine context (ngx_http_lua_co_ctx_t) that every call *)
(* which waits for an event shares.  A coroutine runs, or is suspended at  *)
(* one slot of one object (the read side of a cosocket, the exit of a      *)
(* child process, ...), or is dead.  cleanup is the handler that undoes    *)
(* the pending operation when the coroutine is killed or the request ends: *)
(* the slot it belongs to, or Nil.                                         *)
(*                                                                         *)
(* A slot is a pair <<object, direction>>.  The event loop runs one        *)
(* handler at a time, so a call up to the point where it yields, and a     *)
(* handler up to the point where the coroutine runs again, is one step.    *)
(***************************************************************************)
EXTENDS Naturals, FiniteSets

CONSTANTS Coroutine, Nil
ASSUME CoroutineAssumption == IsFiniteSet(Coroutine) /\ Nil \notin Coroutine

VARIABLES
    at,        \* the slot a coroutine is suspended at, Ready or Dead
    cleanup,   \* coctx->cleanup: the slot whose handler it is, or Nil
    alive      \* the request has not ended

Ready == <<"ready">>
Dead  == <<"dead">>

coVars == <<at, cleanup, alive>>

CoInit == /\ at = [c \in Coroutine |-> Ready]
          /\ cleanup = [c \in Coroutine |-> Nil]
          /\ alive = TRUE

Runs(c) == alive /\ at[c] = Ready

\* The call sets coctx->cleanup and yields.
Suspends(c, s) == /\ at' = [at EXCEPT ![c] = s]
                  /\ cleanup' = [cleanup EXCEPT ![c] = s]
                  /\ UNCHANGED alive

\* A handler clears coctx->cleanup and runs the coroutine.
Resumes(c) == /\ at' = [at EXCEPT ![c] = Ready]
              /\ cleanup' = [cleanup EXCEPT ![c] = Nil]
              /\ UNCHANGED alive

\* A handler clears coctx->cleanup, finds nothing to return yet and leaves
\* the coroutine suspended.
Rearms(c) == /\ cleanup' = [cleanup EXCEPT ![c] = Nil]
             /\ UNCHANGED <<at, alive>>

===============================================================================
