---------------------------- MODULE LightThreads ----------------------------
(***************************************************************************)
(* The light-thread scheduler of one request handler: the entry thread,    *)
(* user threads (ngx.thread.spawn / wait / kill), user coroutines          *)
(* (coroutine.create / wrap / resume / yield), operations that suspend a   *)
(* coroutine until an nginx event (ngx.sleep and cosocket I/O behave       *)
(* alike: "op"; ngx.location.capture cannot be cancelled: "subreq"),       *)
(* ngx.exit, ngx.on_abort and a client that goes away.                     *)
(*                                                                         *)
(* Lua code is arbitrary: whenever a coroutine has the CPU it may make any *)
(* API call in Api.  One action is one API call with all that              *)
(* ngx_http_lua_run_thread does about it until Lua code runs again or the  *)
(* function returns; what the calls carry (arguments, results) is left     *)
(* out.  Memory allocation does not fail.                                  *)
(***************************************************************************)
EXTENDS Integers, Sequences, FiniteSets

CONSTANTS Co,       \* coroutine contexts a request may use (never reused)
          Entry,    \* &ctx->entry_co_ctx
          NoCo,     \* NULL
          Api,      \* the API calls the Lua code makes
          MaxWait   \* bound: threads named in one ngx.thread.wait call

ApiNames == {"spawn", "wait", "kill", "create", "wrap", "yield", "sleep",
             "capture", "error", "exit", "on_abort"}

ASSUME CoAssumption == Entry \in Co /\ NoCo \notin Co /\ IsFiniteSet(Co)
ASSUME ApiAssumption == Api \subseteq ApiNames
ASSUME WaitAssumption == MaxWait \in Nat

VARIABLES mode,     \* who has control: see Modes
          cur,      \* ctx->cur_co_ctx
          co,       \* the ngx_http_lua_co_ctx_t of every coroutine
          posted,   \* ctx->posted_threads
          uthreads, \* ctx->uthreads
          onAbort,  \* ctx->on_abort_co_ctx
          noAbort   \* ctx->no_abort

vars == <<mode, cur, co, posted, uthreads, onAbort, noAbort>>

\* "lua": cur runs Lua code; "raise": run_thread carries an error raised
\* through coroutine.wrap into cur; "posted": in run_posted_threads; "idle":
\* in the event loop; "done": the request handler has ended.
Modes == {"lua", "raise", "posted", "idle", "done"}
Statuses == {"running", "suspended", "normal", "dead", "zombie"}
Kinds == {"none", "entry", "thread", "coro", "wrap"}

\* Where the Lua code of a coroutine stands: not started, running, inside a
\* call that yielded, ended, left in the call to coroutine.wrap through which
\* an error passed, or resumed by mistake after its end.
Points == {"start", "run", "spawn", "wait", "io", "resume", "yield", "end",
           "left", "fail"}

CoCtx == [status : Statuses, parent : Co \cup {NoCo}, kind : Kinds,
          ref : BOOLEAN, waited : BOOLEAN, zombies : SUBSET Co,
          at : Points, pending : SUBSET {"op", "subreq"}]

FreshCo == [status |-> "suspended", parent |-> NoCo, kind |-> "none",
            ref |-> FALSE, waited |-> FALSE, zombies |-> {},
            at |-> "start", pending |-> {}]

-----------------------------------------------------------------------------
(* What the functions of ngx_http_lua_util.c and .h do to the contexts.  A *)
(* definition named Bad... is the one after it with a plausible bug, which *)
(* the properties are shown to detect.                                     *)

Unborn(c) == co[c].kind = "none"

\* ngx_http_lua_coroutine_alive
Alive(s, c) == s[c].status \notin {"dead", "zombie"}

IsThread(s, c) == s[c].kind \in {"entry", "thread"}

\* co_status is not updated
BadDelThreads(s, D) ==
    [c \in Co |-> IF c \in D /\ s[c].ref THEN [s[c] EXCEPT !.ref = FALSE]
                                        ELSE s[c]]

\* ngx_http_lua_del_thread on every context of the set D
DelThreads(s, D) ==
    [c \in Co |-> IF c \in D /\ s[c].ref
                  THEN [s[c] EXCEPT !.ref = FALSE, !.status = "dead"]
                  ELSE s[c]]

\* the cleanup handler is not called
BadCancelOps(s, D) == s

\* ngx_http_lua_cleanup_pending_operation on every context of the set D: a
\* subrequest has no cleanup handler
CancelOps(s, D) ==
    [c \in Co |-> IF c \in D THEN [s[c] EXCEPT !.pending = @ \ {"op"}]
                             ELSE s[c]]

Put(s, c, r) == [x \in Co |-> IF x = c THEN r ELSE s[x]]

WithStatus(s, c, st) == Put(s, c, [s[c] EXCEPT !.status = st])

\* lua_resume: Lua code continues after the call that yielded; one that has
\* ended cannot, and lua_resume fails
Continue(s, c) ==
    Put(s, c, [s[c] EXCEPT !.at = IF @ \in {"end", "fail"} THEN "fail"
                                                            ELSE "run"])

\* Threads ctx->uthreads accounts for when finalize_threads runs: the
\* on_abort thread counts from the moment it starts
Counted(s) == {c \in Co : /\ s[c].kind = "thread" /\ s[c].ref
                          /\ ~(c = onAbort /\ s[c].status = "suspended")}

\* the entry thread is not asked for, or asked for the wrong way round
BadLastThread(s, n) == n = 0
BadLastThreadNegated(s, n) == n = 0 /\ s[Entry].ref

\* The last light thread of the request is gone: run_thread goes to done
LastThread(s, n) == n = 0 /\ ~s[Entry].ref

\* the parent is always or never thought to wait
BadIsWaitedFor(s, c) == TRUE
\* The parent of c is to be resumed by the end of c
IsWaitedFor(s, c) == s[c].waited

\* run_thread returns NGX_AGAIN: the caller goes on to the posted threads
Again == mode' = "posted" /\ cur' = NoCo

\* ngx_http_lua_finalize_threads, from request_cleanup or the pool cleanup
FinalizeThreads(s, n) ==
    /\ mode' = "done"
    /\ cur' = NoCo
    /\ co' = DelThreads(CancelOps(s, Co), Co)
    /\ uthreads' = n - Cardinality(Counted(s))
    /\ onAbort' = IF onAbort # NoCo /\ s[onAbort].ref THEN NoCo ELSE onAbort

\* The label user_co_done: the end of c resumes its parent
UserCoDone(s, n, c) ==
    LET p == s[c].parent
        last == s[c].kind = "thread" /\ s[c].ref
        s1 == IF last THEN DelThreads(s, {c}) ELSE s
    IN  /\ co' = Continue(WithStatus(s1, p, "running"), p)
        /\ uthreads' = IF last THEN n - 1 ELSE n
        /\ cur' = p
        /\ mode' = "lua"
        /\ UNCHANGED onAbort

\* A user thread has ended, normally or by an error
ThreadEnds(s, n, c) ==
    LET p == s[c].parent
        n1 == IF s[c].ref THEN n - 1 ELSE n
    IN  \/ /\ Alive(s, p) /\ IsWaitedFor(s, c)
           /\ UserCoDone(Put(s, c, [s[c] EXCEPT !.waited = FALSE]), n, c)
        \/ /\ Alive(s, p) /\ ~IsWaitedFor(s, c)
           /\ co' = WithStatus(Put(s, p, [s[p] EXCEPT !.zombies = @ \cup {c}]),
                               c, "zombie")
           /\ uthreads' = n
           /\ Again
           /\ UNCHANGED onAbort
        \/ /\ ~Alive(s, p)
           /\ LastThread(s, n1)
           /\ FinalizeThreads(DelThreads(s, {c}), n1)
        \/ /\ ~Alive(s, p)
           /\ ~LastThread(s, n1)
           /\ co' = DelThreads(s, {c})
           /\ uthreads' = n1
           /\ Again
           /\ UNCHANGED onAbort

\* The label propagate_error: what an error that ends c does to others
Raise(s, n, c) ==
    LET p == s[c].parent
        s1 == WithStatus(s, p, "running")
    IN  \/ s[c].kind = "thread" /\ ThreadEnds(s, n, c)
        \/ s[c].kind = "entry" /\ FinalizeThreads(s, n)
        \/ /\ s[c].kind = "coro"
           /\ co' = Continue(s1, p) /\ cur' = p /\ mode' = "lua"
           /\ uthreads' = n /\ UNCHANGED onAbort
        \/ /\ s[c].kind = "wrap"
           /\ co' = s1 /\ cur' = p /\ mode' = "raise"
           /\ uthreads' = n /\ UNCHANGED onAbort

\* lua_resume returned: the coroutine has left the Lua VM for good
Ended(c) ==
    CancelOps([co EXCEPT ![c].status = "dead", ![c].at = "end"], {c})

\* nothing is deleted, or co_ref is not checked: a zombie that was waited for
\* stays on its parent's list
BadReaped(c) == {}
BadReapedTwice(c) == co[c].zombies

\* ngx_http_lua_cleanup_zombie_child_uthreads deletes these
Reaped(c) == {z \in co[c].zombies : co[z].ref}

-----------------------------------------------------------------------------
(* API calls of the coroutine that runs.                                   *)

Calls(f) == mode = "lua" /\ co[cur].at = "run" /\ f \in Api

\* ngx.thread.spawn: the child runs at once, its parent is posted
Spawn(t) ==
    /\ Calls("spawn")
    /\ Unborn(t)
    /\ co' = [co EXCEPT ![cur].at = "spawn",
                        ![t] = [FreshCo EXCEPT !.kind = "thread", !.ref = TRUE,
                                               !.status = "running",
                                               !.parent = cur, !.at = "run"]]
    /\ uthreads' = uthreads + 1
    /\ posted' = Append(posted, cur)
    /\ cur' = t
    /\ UNCHANGED <<mode, onAbort, noAbort>>

IsMyThread(t) == co[t].kind = "thread" /\ co[t].parent = cur

\* The argument of ngx.thread.wait at which its loop stops: not a child
\* thread (an error), a zombie (its results), the last one and dead (nil)
StopsAt(args, i) ==
    \/ ~IsMyThread(args[i])
    \/ co[args[i]].status = "zombie"
    \/ co[args[i]].status = "dead" /\ i = Len(args)

\* The arguments the loop has passed when it stops at index stop
Seen(args, stop) == {args[i] : i \in 1 .. stop - 1}

\* ngx.thread.wait; an error it raises is caught by the Lua code
Wait(args) ==
    /\ Calls("wait")
    /\ LET stops == {i \in DOMAIN args : StopsAt(args, i)}
           stop == IF stops = {} THEN Len(args) + 1
                   ELSE CHOOSE i \in stops : \A j \in stops : i <= j
           flagged == [c \in Co |->
                          IF c \in Seen(args, stop) /\ co[c].status # "dead"
                          THEN [co[c] EXCEPT !.waited = TRUE] ELSE co[c]]
           reaps == /\ stop <= Len(args) /\ IsMyThread(args[stop])
                    /\ co[args[stop]].status = "zombie"
       IN  \/ /\ stops = {}
              /\ co' = Put(flagged, cur, [flagged[cur] EXCEPT !.at = "wait"])
              /\ Again
              /\ UNCHANGED uthreads
           \/ /\ reaps
              /\ co' = DelThreads(flagged, {args[stop]})
              /\ uthreads' = uthreads - 1
              /\ UNCHANGED <<mode, cur>>
           \/ /\ stops # {} /\ ~reaps
              /\ co' = flagged
              /\ UNCHANGED <<mode, cur, uthreads>>
    /\ UNCHANGED <<posted, onAbort, noAbort>>

\* The contexts reached from c by following parent_co_ctx
Ancestors(c) ==
    {d \in Co : \A S \in SUBSET Co :
        (/\ co[c].parent \in S
         /\ \A x \in S : co[x].parent \in S \cup {NoCo}) => d \in S}

\* ngx_http_lua_uthread_cleanup_descendants
Descendants(t) ==
    {x \in Co : co[x].kind \in {"coro", "wrap"} /\ t \in Ancestors(x)}

\* ngx.thread.kill on a live thread that no subrequest holds
Kill(t) ==
    /\ Calls("kill")
    /\ IsMyThread(t) /\ t # onAbort /\ Alive(co, t)
    /\ "subreq" \notin co[t].pending
    /\ co' = DelThreads(CancelOps(co, {t} \cup Descendants(t)), {t})
    /\ uthreads' = uthreads - 1
    /\ UNCHANGED <<mode, cur, posted, onAbort, noAbort>>

\* ngx.thread.kill on a thread that has ended and was not waited for
KillZombie(t) ==
    /\ Calls("kill")
    /\ IsMyThread(t) /\ co[t].status = "zombie"
    /\ co' = DelThreads(co, {t})
    /\ uthreads' = uthreads - 1
    /\ UNCHANGED <<mode, cur, posted, onAbort, noAbort>>

\* coroutine.create and coroutine.wrap
Create(x, kind) ==
    /\ Calls(IF kind = "wrap" THEN "wrap" ELSE "create")
    /\ Unborn(x)
    /\ co' = [co EXCEPT ![x] = [FreshCo EXCEPT !.kind = kind]]
    /\ UNCHANGED <<mode, cur, posted, uthreads, onAbort, noAbort>>

Resumable(x) == co[x].status = "suspended"

\* coroutine.resume (and the function coroutine.wrap returns) on a suspended
\* coroutine; on any other it returns an error and changes nothing
Resume(x) ==
    /\ mode = "lua" /\ co[cur].at = "run"
    /\ co[x].kind \in {"coro", "wrap"} /\ Resumable(x)
    /\ co' = Continue([co EXCEPT ![cur].status = "normal", ![cur].at = "resume",
                                 ![x].status = "running", ![x].parent = cur], x)
    /\ cur' = x
    /\ UNCHANGED <<mode, posted, uthreads, onAbort, noAbort>>

\* coroutine.yield in a thread: to the posted threads, if there are any
YieldThread ==
    /\ Calls("yield")
    /\ IsThread(co, cur)
    /\ posted # <<>>
    /\ co' = [co EXCEPT ![cur].status = "running", ![cur].at = "yield"]
    /\ posted' = Append(posted, cur)
    /\ Again
    /\ UNCHANGED <<uthreads, onAbort, noAbort>>

\* the status of the parent is left alone
BadYieldTo(p) == [co EXCEPT ![cur].status = "suspended", ![cur].at = "yield"]

YieldTo(p) == [co EXCEPT ![cur].status = "suspended", ![cur].at = "yield",
                         ![p].status = "running"]

\* coroutine.yield in a coroutine: to the coroutine that resumed it
YieldCoroutine ==
    /\ Calls("yield")
    /\ ~IsThread(co, cur)
    /\ co' = Continue(YieldTo(co[cur].parent), co[cur].parent)
    /\ cur' = co[cur].parent
    /\ UNCHANGED <<mode, posted, uthreads, onAbort, noAbort>>

\* ngx.sleep and every call that registers a cleanup handler and yields
Sleep ==
    /\ Calls("sleep")
    /\ co' = [co EXCEPT ![cur].pending = @ \cup {"op"}, ![cur].at = "io"]
    /\ Again
    /\ UNCHANGED <<posted, uthreads, onAbort, noAbort>>

\* ngx.location.capture
Capture ==
    /\ Calls("capture")
    /\ "subreq" \notin co[cur].pending
    /\ co' = [co EXCEPT ![cur].pending = @ \cup {"subreq"}, ![cur].at = "io"]
    /\ noAbort' = TRUE
    /\ Again
    /\ UNCHANGED <<posted, uthreads, onAbort>>

\* ngx.on_abort registers t; a second call is refused
OnAbort(t) ==
    /\ Calls("on_abort")
    /\ onAbort = NoCo
    /\ Unborn(t)
    /\ co' = [co EXCEPT ![t] = [FreshCo EXCEPT !.kind = "thread", !.ref = TRUE,
                                               !.parent = cur]]
    /\ onAbort' = t
    /\ UNCHANGED <<mode, cur, posted, uthreads, noAbort>>

\* The Lua function of cur returns
Return ==
    /\ mode = "lua" /\ co[cur].at = "run"
    /\ LET s1 == DelThreads(Ended(cur), Reaped(cur))
           s == Put(s1, cur, [s1[cur] EXCEPT !.zombies = {}])
           n == uthreads - Cardinality(Reaped(cur))
       IN  \/ co[cur].kind = "thread" /\ ThreadEnds(s, n, cur)
           \/ co[cur].kind \in {"coro", "wrap"} /\ UserCoDone(s, n, cur)
           \/ /\ co[cur].kind = "entry" /\ n = 0
              /\ FinalizeThreads(DelThreads(s, {cur}), n)
           \/ /\ co[cur].kind = "entry" /\ n # 0
              /\ co' = DelThreads(s, {cur})
              /\ uthreads' = n
              /\ Again
              /\ UNCHANGED onAbort
    /\ UNCHANGED <<posted, noAbort>>

\* The Lua function of cur ends with an error
Error ==
    /\ mode = "lua"
    /\ co[cur].at = "fail" \/ Calls("error")
    /\ Raise(Ended(cur), uthreads, cur)
    /\ noAbort' = (noAbort /\ co[cur].kind # "entry")
    /\ UNCHANGED posted

\* The next turn of run_thread's loop after coroutine.wrap let an error out
Propagate ==
    /\ mode = "raise"
    /\ Raise([co EXCEPT ![cur].at = "left"], uthreads, cur)
    /\ noAbort' = (noAbort /\ co[cur].kind # "entry")
    /\ UNCHANGED posted

\* ngx.exit: an ordinary status is refused while no_abort is set, the codes
\* -1, 408, 444 and 499 (forced) never are
Exit(forced) ==
    /\ Calls("exit")
    /\ forced \/ ~noAbort
    /\ FinalizeThreads(CancelOps(WithStatus(co, cur, "dead"), {cur}), uthreads)
    /\ UNCHANGED <<posted, noAbort>>

-----------------------------------------------------------------------------
(* Events, and the queue of posted threads.                                *)

\* One turn of the loop of ngx_http_lua_run_posted_threads
RunPosted ==
    /\ mode = "posted" /\ posted # <<>>
    /\ posted' = Tail(posted)
    /\ IF co[Head(posted)].status = "running"
       THEN /\ co' = Continue(co, Head(posted))
            /\ cur' = Head(posted)
            /\ mode' = "lua"
       ELSE UNCHANGED <<co, cur, mode>>
    /\ UNCHANGED <<uthreads, onAbort, noAbort>>

PostedDrained ==
    /\ mode = "posted" /\ posted = <<>>
    /\ mode' = "idle"
    /\ UNCHANGED <<cur, co, posted, uthreads, onAbort, noAbort>>

\* The handler of the timer or socket event an operation of c waits for
OpDone(c) ==
    /\ mode = "idle"
    /\ "op" \in co[c].pending
    /\ co' = Continue([co EXCEPT ![c].pending = @ \ {"op"}], c)
    /\ cur' = c
    /\ mode' = "lua"
    /\ UNCHANGED <<posted, uthreads, onAbort, noAbort>>

\* The last subrequest of c has finished: ngx_http_lua_post_subrequest and
\* ngx_http_lua_subrequest_resume
SubrequestDone(c) ==
    /\ mode = "idle"
    /\ "subreq" \in co[c].pending
    /\ co' = Continue([co EXCEPT ![c].pending = @ \ {"subreq"}], c)
    /\ cur' = c
    /\ mode' = "lua"
    /\ noAbort' = FALSE
    /\ UNCHANGED <<posted, uthreads, onAbort>>

\* ngx_http_lua_rd_check_broken_connection finds the client gone
\* (lua_check_client_abort is on when the Lua code may call ngx.on_abort)
ClientAbort ==
    /\ mode = "idle" /\ "on_abort" \in Api
    /\ \/ onAbort = NoCo /\ FinalizeThreads(co, uthreads)
       \/ /\ onAbort # NoCo /\ co[onAbort].status = "suspended"
          /\ co' = Continue([co EXCEPT ![onAbort].status = "running"], onAbort)
          /\ uthreads' = uthreads + 1
          /\ cur' = onAbort
          /\ mode' = "lua"
          /\ UNCHANGED onAbort
    /\ UNCHANGED <<posted, noAbort>>

-----------------------------------------------------------------------------

\* ngx_http_lua_content_by_chunk starts the entry thread
Init ==
    /\ mode = "lua" /\ cur = Entry
    /\ co = [c \in Co |->
                IF c = Entry
                THEN [FreshCo EXCEPT !.kind = "entry", !.ref = TRUE,
                                     !.status = "running", !.at = "run"]
                ELSE FreshCo]
    /\ posted = <<>> /\ uthreads = 0
    /\ onAbort = NoCo /\ noAbort = FALSE

\* Argument lists of ngx.thread.wait: threads the request has spawned
WaitArgs ==
    UNION {[1 .. n -> {t \in Co : co[t].kind = "thread" /\ t # onAbort}] :
             n \in 1 .. MaxWait}

Lua == \/ \E t \in Co : Spawn(t) \/ Kill(t) \/ KillZombie(t) \/ OnAbort(t)
       \/ \E args \in WaitArgs : Wait(args)
       \/ \E x \in Co, kind \in {"coro", "wrap"} : Create(x, kind)
       \/ \E x \in Co : Resume(x)
       \/ YieldThread \/ YieldCoroutine
       \/ Sleep \/ Capture
       \/ Return \/ Error
       \/ \E forced \in BOOLEAN : Exit(forced)

Event == \E c \in Co : OpDone(c) \/ SubrequestDone(c)

Step == Propagate \/ RunPosted \/ PostedDrained

Next == Lua \/ Step \/ Event \/ ClientAbort

Spec == Init /\ [][Next]_vars

\* nginx delivers every event it owes, the scheduler's own steps are plain C,
\* and no light thread runs for ever: one that is given the CPU again and
\* again returns at last.
Fairness ==
    /\ WF_vars(Step)
    /\ \A c \in Co : WF_vars(OpDone(c)) /\ WF_vars(SubrequestDone(c))
    /\ \A c \in Co : SF_vars(cur = c /\ Return)
    /\ WF_vars(mode = "lua" /\ co[cur].at = "fail" /\ Error)

FairSpec == Spec /\ Fairness

-----------------------------------------------------------------------------
(* Properties.                                                             *)

\* Types of the state: the context pointer is NULL except while a coroutine
\* has the CPU, and every context holds the fields its struct declares.
TypeOK ==
    /\ mode \in Modes
    /\ cur \in Co \cup {NoCo}
    /\ (cur = NoCo) = (mode \notin {"lua", "raise"})
    /\ co \in [Co -> CoCtx]
    /\ posted \in Seq(Co)
    /\ uthreads \in Int
    /\ onAbort \in Co \cup {NoCo}
    /\ noAbort \in BOOLEAN

\* ctx->uthreads is the number of anchored user threads, the on_abort thread
\* included once it has started; so the assertion of finalize_threads
\* (util.c:3378) holds when the request ends, whatever spawned, ended, was
\* waited for, killed or left as a zombie before.
UthreadsExact == uthreads = Cardinality(Counted(co))

\* Lua code runs only in a thread that is still anchored in the registry (or
\* in a plain coroutine) and has not ended: a killed thread never runs again.
OnlyLiveRuns ==
    mode = "lua" =>
        /\ IsThread(co, cur) => co[cur].ref
        /\ Alive(co, cur) /\ co[cur].at # "fail"

\* A suspended coroutine is continued by what it waits for and nothing else:
\* its operation, the end of a child it waits for, the coroutine it resumed,
\* its turn in the queue, or a resume.
HasCause(c) ==
    /\ co[c].at = "io" => co[c].pending # {} /\ co'[c].pending = {}
    /\ co[c].at = "wait" =>
           \E t \in Co : /\ co[t].parent = c /\ co[t].waited
                         /\ co[t].kind = "thread"
                         /\ co[t].at # co'[t].at
                         /\ co'[t].at \in {"end", "left"}
    /\ co[c].at = "spawn" => posted # <<>> /\ c = Head(posted)
    /\ co[c].at = "resume" => mode \in {"lua", "raise"} /\ co[cur].parent = c

WakeHasCause ==
    [][\A c \in Co : co[c].at # "run" /\ co'[c].at = "run" => HasCause(c)]_vars

\* What is recorded of a suspended coroutine is where it is suspended:
\*   - waited_by_parent of a live thread says that its parent is inside
\*     ngx.thread.wait (common.h:597);
\*   - a coroutine is in the queue at most once and, if its turn will run it,
\*     stands in the call that put it there;
\*   - only a coroutine that stands in the call that started it has a pending
\*     operation: none is left behind to wake it elsewhere, and an operation
\*     that can be cancelled does not outlive its request.
WaitedMeansWaiting ==
    \A t \in Co : co[t].waited /\ Alive(co, t) => co[co[t].parent].at = "wait"

PostedExact ==
    /\ \A i, j \in DOMAIN posted : posted[i] = posted[j] => i = j
    /\ \A i \in DOMAIN posted : co[posted[i]].status = "running" =>
           co[posted[i]].at \in {"spawn", "yield"}

PendingExact ==
    \A c \in Co : /\ co[c].pending # {} => co[c].at = "io"
                  /\ mode = "done" => "op" \notin co[c].pending

SuspensionExact == TypeOK /\ WaitedMeansWaiting /\ PostedExact /\ PendingExact

\* A coroutine whose status is normal has resumed exactly one coroutine that
\* has neither yielded nor ended, and that one will continue it; nothing else
\* does, so coroutine.status and coroutine.resume tell the truth.
NormalHasChild ==
    \A c \in Co : mode # "done" /\ co[c].status = "normal" =>
        /\ co[c].at = "resume"
        /\ Cardinality({x \in Co : /\ co[x].kind \in {"coro", "wrap"}
                                   /\ co[x].parent = c /\ co[x].at # "left"
                                   /\ co[x].status \in {"running", "normal"}}) = 1

\* A zombie is an orphan when nobody can wait for it any more, nor reap it.
Orphans == {z \in Co : /\ co[z].status = "zombie"
                       /\ LET p == co[z].parent
                          IN ~(Alive(co, p) /\ z \in co[p].zombies /\ ~co[z].waited)}

\* A zombie has a live parent, on whose list it is, and which is not waiting
\* on it (README.markdown:9062), unless the parent has failed or was killed:
\* of the ways in which a thread ends, a return and the end of the request
\* leave no zombie children behind.
ZombieHasParent ==
    [][\/ Orphans' \subseteq Orphans
       \/ Error \/ Propagate
       \/ \E t \in Co : Kill(t)]_vars

\* No coroutine is its own ancestor, so the walk of
\* ngx_http_lua_uthread_cleanup_descendants ends.
ParentsAcyclic ==
    \A S \in SUBSET Co : S # {} => \E c \in S : co[c].parent \notin S

\* The handler ends with the end of a user thread only when the entry thread
\* and all other threads have terminated (README.markdown:9038).
EndsWhenAllDone ==
    [][mode' = "done" /\ cur \in Co \ {Entry} /\ co'[cur].at = "end" =>
        /\ ~co[Entry].ref
        /\ \A c \in Counted(co) \ {cur} :
              co[c].status = "zombie" /\ co[c].parent = cur]_vars

\* ngx.exit with an ordinary status does not end a request while a subrequest
\* runs (README.markdown:9046); no_abort is there to refuse it.  When
\* two threads capture at once, the first subrequest to end clears the flag
\* (subrequest.c:1013), so no run checks this.
SubrequestsProtected ==
    [][Exit(FALSE) => \A c \in Co : "subreq" \notin co[c].pending]_vars

NoCoroutines == \A c \in Co : co[c].kind \notin {"coro", "wrap"}

\* The request handler ends, and no wait outlasts it, as long as threads create
\* no coroutine (two that resume each other may go on for ever) and no thread
\* that fails leaves zombies behind, which are counted for ever.
Terminates == [](NoCoroutines /\ Orphans = {}) => <>(mode = "done")
=============================================================================
