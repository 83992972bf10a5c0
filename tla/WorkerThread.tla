----------------------------- MODULE WorkerThread -----------------------------
(***************************************************************************)
(* ngx.run_worker_thread: a function runs in a thread of a pool, in a Lua  *)
(* VM of its own, while the coroutine waits.  The VMs are made on demand,  *)
(* up to MaxVMs, and kept in a list (ctxpool).  A task that was posted     *)
(* runs to its end whatever happens to its coroutine; its completion is an *)
(* event of the worker.                                                    *)
(***************************************************************************)
EXTENDS Coroutines

CONSTANT VM
ASSUME VMAssumption == IsFiniteSet(VM)

VARIABLES
    ctxpool,   \* the VMs that are free
    vmCount,   \* worker_thread_vm_count
    task       \* for a VM, the task that holds it: NoTask or its context

threadVars == <<ctxpool, vmCount, task>>

MaxVMs == Cardinality(VM)      \* worker_thread_vm_pool_size

NoTask == [co |-> Nil, ran |-> FALSE, abort |-> FALSE]
Posted(c) == [co |-> c, ran |-> FALSE, abort |-> FALSE]

ThreadSlots == {<<"thread", v>> : v \in VM}

ThreadInit == ctxpool = {} /\ vmCount = 0 /\ task = [v \in VM |-> NoTask]

Holds(v) == task[v] # NoTask
Made == ctxpool \cup {v \in VM : Holds(v)}

\* ngx_http_lua_get_task_ctx: a free VM, or a new one.
GetTaskCtx(v) == \/ v \in ctxpool /\ vmCount' = vmCount
                 \/ /\ ctxpool = {} /\ v \notin Made /\ vmCount < MaxVMs
                    /\ vmCount' = vmCount + 1

\* ngx_http_lua_free_task_ctx.
FreeTaskCtx(v) == ctxpool \cup {v}

\* The task is posted and the coroutine waits for it.
RunWorkerThread(c) == \E v \in VM :
    /\ Runs(c) /\ GetTaskCtx(v)
    /\ ctxpool' = ctxpool \ {v}
    /\ task' = [task EXCEPT ![v] = Posted(c)]
    /\ Suspends(c, <<"thread", v>>)

\* The module, the function or an argument is refused, or the queue of the
\* thread pool is full: the VM is given back.
RunFails(c) == \E v \in VM : /\ Runs(c) /\ GetTaskCtx(v)
                             /\ ctxpool' = FreeTaskCtx(v)
                             /\ UNCHANGED <<coVars, task>>

\* The function returns or throws, in its thread.
ThreadRuns(v) == /\ Holds(v) /\ ~task[v].ran
                 /\ task' = [task EXCEPT ![v].ran = TRUE]
                 /\ UNCHANGED <<coVars, ctxpool, vmCount>>

\* ngx_http_lua_worker_thread_event_handler.
ThreadEvent(v) == /\ task[v].ran
                  /\ task' = [task EXCEPT ![v] = NoTask]
                  /\ ctxpool' = FreeTaskCtx(v)
                  /\ IF task[v].abort THEN UNCHANGED coVars ELSE Resumes(task[v].co)
                  /\ UNCHANGED vmCount

\* ngx_http_lua_worker_thread_cleanup.
ThreadCleanup(v) == [task[v] EXCEPT !.abort = TRUE]

ThreadCall(c) == RunWorkerThread(c) \/ RunFails(c)
ThreadEvents == \E v \in VM : ThreadRuns(v) \/ ThreadEvent(v)

===============================================================================
