----------------------------- MODULE SocketPool -----------------------------
(***************************************************************************)
(* The connection pool of a stream cosocket and its queue of connect       *)
(* operations (socket_tcp.c).  A pool with a backlog limits the open       *)
(* connections of its name to its size: a connect beyond that is queued,   *)
(* and a slot that becomes free, with its connection or without one, is    *)
(* handed to the operation that has waited longest.                        *)
(*                                                                         *)
(* The model has one pool name.  A cosocket object is used by one coroutine *)
(* that dies with it (then another object takes its place): it ends its    *)
(* operations when it is killed or its request ends.  Left out: a lack of  *)
(* memory, TLS, what a connection carries, and the shutdown of the worker. *)
(***************************************************************************)
EXTENDS NgxQueue, Integers, FiniteSets

CONSTANTS Sock,      \* cosocket objects (ngx_http_lua_socket_tcp_upstream_t)
          NoSock,
          Sizes,     \* bound: the values of the pool_size option
          Backlogs   \* bound: the values of the backlog option, -1 for none

ASSUME SockAssumption == NoSock \notin Sock /\ IsFiniteSet(Sock)
ASSUME SizesAssumption == Sizes \subseteq Nat \ {0} /\ IsFiniteSet(Sizes)
ASSUME BacklogsAssumption == Backlogs \subseteq Nat \cup {-1}

NoItem == 0
Items == UNION {1 .. n : n \in Sizes}

VARIABLES pool,  \* the ngx_http_lua_socket_pool_t of the name
          sock   \* the part of every cosocket object that the pool uses

vars == <<pool, sock>>

\* ngx_http_lua_socket_tcp_conn_op_ctx_t: the queued connect of a cosocket
ConnOp == [queued : BOOLEAN, item : Items \cup {NoItem},
           timer : BOOLEAN, posted : BOOLEAN]

FreshOp == [queued |-> FALSE, item |-> NoItem, timer |-> FALSE, posted |-> FALSE]

\* alive: the registry refers to the pool
Pool == [alive : BOOLEAN, size : Nat, backlog : Nat \cup {-1},
         connections : Nat, waiting : Nat,
         wait : QueuesOver(Sock), posted : QueuesOver(Sock),
         cache : QueuesOver(Items), free : SUBSET Items,
         owner : [Items -> Sock \cup {NoSock}], op : [Sock -> ConnOp]]

\* ngx_http_lua_socket_tcp_create_socket_pool (the order of the free items is
\* of no importance: they are alike)
NewPool(size, backlog) ==
    [alive |-> TRUE, size |-> size, backlog |-> backlog,
     connections |-> 0, waiting |-> 0,
     wait |-> EmptyQueue, posted |-> EmptyQueue,
     cache |-> EmptyQueue, free |-> 1 .. size,
     owner |-> [i \in Items |-> NoSock], op |-> [u \in Sock |-> FreshOp]]

\* at: "wait" for a slot, then with one "resolve", "connect", "open";
\* counted: u->socket_pool is set
SockState == [at : {"none", "wait", "resolve", "connect", "open"},
              counted : BOOLEAN]

Closed(u) == [sock[u] EXCEPT !.at = "none"]

Init ==
    /\ pool = [NewPool(0, -1) EXCEPT !.alive = FALSE]
    /\ sock = [u \in Sock |-> [at |-> "none", counted |-> FALSE]]

-----------------------------------------------------------------------------
(* What the functions of the pool make of a pool p.                        *)

\* ngx_http_lua_socket_tcp_resume_conn_op: the slot, with the connection of
\* item i if there is one, is handed to the queued operation of u
HandOver(p, u, i) ==
    [p EXCEPT !.wait = Remove(@, {u}), !.waiting = @ - 1,
              !.posted = InsertTail(@, u),
              !.op[u] = [queued |-> FALSE, item |-> i, timer |-> FALSE,
                         posted |-> TRUE],
              !.owner = [j \in Items |-> IF j = i THEN u ELSE @[j]]]

\* only a slot with a connection is handed over
BadReleaseSlot(p, i) ==
    IF ~IsEmpty(p.wait) /\ i # NoItem
    THEN HandOver(p, CHOOSE u \in Sock : IsHead(p.wait, u), i)
    ELSE IF i # NoItem
    THEN [p EXCEPT !.cache = InsertHead(@, i), !.owner[i] = NoSock]
    ELSE [p EXCEPT !.connections = @ - 1, !.alive = p.connections # 1]

\* ngx_http_lua_socket_tcp_release_slot (ngx_http_lua_socket_free_pool)
ReleaseSlot(p, i) ==
    IF ~IsEmpty(p.wait)
    THEN HandOver(p, CHOOSE u \in Sock : IsHead(p.wait, u), i)
    ELSE IF i # NoItem
    THEN [p EXCEPT !.cache = InsertHead(@, i), !.owner[i] = NoSock]
    ELSE [p EXCEPT !.connections = @ - 1, !.alive = p.connections # 1]

\* ngx_http_lua_socket_tcp_finalize of a cosocket in the state c: it releases
\* the slot if there is a connection, which it closes
Finalized(p, c) ==
    IF c.at \in {"connect", "open"}
    THEN [pool |-> IF c.counted THEN ReleaseSlot(p, NoItem) ELSE p,
          connClosed |-> TRUE]
    ELSE [pool |-> p, connClosed |-> FALSE]

\* only finalize releases the slot
BadCleanedUp(f, c) == f.pool

\* ngx_http_lua_socket_tcp_cleanup_failed_connect after its finalize
CleanedUp(f, c) ==
    IF f.connClosed \/ ~c.counted THEN f.pool ELSE ReleaseSlot(f.pool, NoItem)

\* ngx_http_lua_socket_tcp_reuse_peer: the connection of item i is taken
Taken(p, i) ==
    [p EXCEPT !.cache = Remove(@, {i}), !.free = @ \cup {i}, !.owner[i] = NoSock]

Spare == {"resolve", "connect", "open"}

\* The rest of ngx_http_lua_socket_tcp_connect_helper: the address is
\* resolved, the connection is on its way or there, or all of it fails
Starts(u, p, counted) ==
    \/ /\ \E at \in Spare : sock' = [sock EXCEPT ![u] = [at |-> at, counted |-> counted]]
       /\ pool' = p
    \/ LET c == [at |-> "none", counted |-> counted]
       IN  /\ sock' = [sock EXCEPT ![u] = c]
           /\ pool' = CleanedUp(Finalized(p, c), c)

-----------------------------------------------------------------------------
(* connect.                                                                *)

\* A connection beyond the limit must wait
IsFull(p) == p.backlog >= 0 /\ p.connections >= p.size

\* The pools that connect may find or create for the options, when the old
\* connection of the cosocket has been closed
PoolsFor(u) ==
    LET p == Finalized(pool, sock[u]).pool
    IN  IF p.alive THEN {p} ELSE {p} \cup {NewPool(n, b) : n \in Sizes, b \in Backlogs}

Connectable(u) == sock[u].at \in {"none", "open"}

\* Without a pool
ConnectAlone(u) ==
    /\ Connectable(u)
    /\ \E p \in PoolsFor(u) : ~p.alive /\ Starts(u, p, FALSE)

\* With an idle connection
ConnectReuse(u) ==
    /\ Connectable(u)
    /\ \E p \in PoolsFor(u), i \in Items :
         /\ p.alive /\ IsHead(p.cache, i)
         /\ pool' = Taken(p, i)
         /\ sock' = [sock EXCEPT ![u] = [at |-> "open", counted |-> TRUE]]

\* "too many waiting connect operations"
ConnectRefused(u) ==
    /\ Connectable(u)
    /\ \E p \in PoolsFor(u) :
         /\ p.alive /\ IsEmpty(p.cache) /\ IsFull(p) /\ p.waiting >= p.backlog
         /\ pool' = p
         /\ sock' = [sock EXCEPT ![u] = [at |-> "none", counted |-> TRUE]]

ConnectQueued(u) ==
    /\ Connectable(u)
    /\ \E p \in PoolsFor(u) :
         /\ p.alive /\ IsEmpty(p.cache) /\ IsFull(p) /\ p.waiting < p.backlog
         /\ pool' = [p EXCEPT !.wait = InsertTail(@, u), !.waiting = @ + 1,
                              !.op[u] = [queued |-> TRUE, item |-> NoItem,
                                         timer |-> TRUE, posted |-> FALSE]]
         /\ sock' = [sock EXCEPT ![u] = [at |-> "wait", counted |-> TRUE]]

ConnectNew(u) ==
    /\ Connectable(u)
    /\ \E p \in PoolsFor(u) :
         /\ p.alive /\ IsEmpty(p.cache) /\ ~IsFull(p)
         /\ Starts(u, [p EXCEPT !.connections = @ + 1], TRUE)

-----------------------------------------------------------------------------
(* The queued operation.                                                   *)

\* ngx_http_lua_socket_tcp_conn_op_timeout_handler
OpTimeout(u) ==
    /\ pool.op[u].timer
    /\ pool' = [pool EXCEPT !.wait = Remove(@, {u}), !.waiting = @ - 1,
                            !.op[u] = FreshOp]
    /\ sock' = [sock EXCEPT ![u] = Closed(u)]

\* The operation of u leaves its queue and lets its item go
Dequeued(u) ==
    [pool EXCEPT !.wait = Remove(@, {u}), !.posted = Remove(@, {u}),
                 !.op[u] = FreshOp,
                 !.owner = [i \in Items |-> IF i = pool.op[u].item THEN NoSock ELSE @[i]]]

\* the slot of an operation that was resumed is lost
BadCanceled(u) ==
    IF pool.op[u].queued THEN [Dequeued(u) EXCEPT !.waiting = @ - 1] ELSE Dequeued(u)

\* ngx_http_lua_socket_tcp_cancel_conn_op
Canceled(u) ==
    IF pool.op[u].queued
    THEN [Dequeued(u) EXCEPT !.waiting = @ - 1]
    ELSE ReleaseSlot(Dequeued(u), pool.op[u].item)

\* ngx_http_lua_tcp_queue_conn_op_cleanup: the coroutine that waits is killed
OpCancel(u) ==
    /\ sock[u].at = "wait"
    /\ pool' = Canceled(u)
    /\ sock' = [sock EXCEPT ![u] = Closed(u)]

\* ngx_http_lua_socket_tcp_conn_op_resume_handler for the event that was posted
OpResume(u) ==
    LET p == Dequeued(u)
        item == pool.op[u].item
        opened == [sock EXCEPT ![u].at = "open"]
    IN  /\ pool.op[u].posted /\ IsHead(pool.posted, u)
        /\ \/ /\ item # NoItem
              /\ pool' = Taken(p, item) /\ sock' = opened
           \/ /\ item = NoItem
              /\ \E i \in Items : /\ IsHead(p.cache, i)
                                  /\ pool' = ReleaseSlot(Taken(p, i), NoItem)
              /\ sock' = opened
           \/ /\ item = NoItem /\ IsEmpty(p.cache)
              /\ Starts(u, p, sock[u].counted)

-----------------------------------------------------------------------------
(* The connection.                                                         *)

\* ngx_http_lua_socket_resolve_handler, and what it resumes
ResolveDone(u) ==
    /\ sock[u].at = "resolve"
    /\ \/ /\ \E at \in {"connect", "open"} : sock' = [sock EXCEPT ![u].at = at]
          /\ UNCHANGED pool
       \/ /\ pool' = CleanedUp(Finalized(pool, sock[u]), sock[u])
          /\ sock' = [sock EXCEPT ![u] = Closed(u)]

\* ngx_http_lua_socket_connected_handler, and what it resumes
ConnectDone(u) ==
    /\ sock[u].at = "connect"
    /\ \/ sock' = [sock EXCEPT ![u].at = "open"] /\ UNCHANGED pool
       \/ /\ pool' = CleanedUp(Finalized(pool, sock[u]), sock[u])
          /\ sock' = [sock EXCEPT ![u] = Closed(u)]

\* ngx_http_lua_tcp_resolve_cleanup: the coroutine is killed
ResolveKill(u) ==
    /\ sock[u].at = "resolve"
    /\ pool' = IF sock[u].counted THEN ReleaseSlot(pool, NoItem) ELSE pool
    /\ sock' = [sock EXCEPT ![u] = Closed(u)]

\* ngx_http_lua_socket_tcp_finalize, from close, from the coroutine that is
\* killed while it connects, or from the request that ends
Finalize(u) ==
    /\ sock[u].at \in {"connect", "open"}
    /\ pool' = Finalized(pool, sock[u]).pool
    /\ sock' = [sock EXCEPT ![u] = Closed(u)]

Close(u) == sock[u].at = "open" /\ Finalize(u)

-----------------------------------------------------------------------------
(* Idle connections.                                                       *)

\* setkeepalive must replace an idle connection, if it can
Replaces(u, p) == p.free = {} \/ (~sock[u].counted /\ IsFull(p))

\* The pool with the connection of u in item i, which is in no queue yet
Kept(u, p, i) ==
    IF Replaces(u, p)
    THEN [p EXCEPT !.cache = Remove(@, {i}),
                   !.connections = IF sock[u].counted THEN @ - 1 ELSE @]
    ELSE [p EXCEPT !.free = @ \ {i},
                   !.connections = IF sock[u].counted THEN @ ELSE @ + 1]

\* ngx_http_lua_socket_tcp_setkeepalive, with a connection that can be kept.
\* Its last disjunct: the peer has closed it or sent something
SetKeepalive(u) ==
    /\ sock[u].at = "open"
    /\ sock' = [sock EXCEPT ![u] = Closed(u)]
    /\ \E p \in IF pool.alive THEN {pool} ELSE {NewPool(n, -1) : n \in Sizes} :
         \/ /\ Replaces(u, p) /\ IsEmpty(p.cache)
            /\ pool' = Finalized(p, sock[u]).pool
         \/ \E i \in Items :
              /\ IF Replaces(u, p) THEN IsLast(p.cache, i) ELSE i \in p.free
              /\ \/ pool' = ReleaseSlot(Kept(u, p, i), i)
                 \/ pool' = ReleaseSlot([Kept(u, p, i) EXCEPT !.free = @ \cup {i}], NoItem)

\* The pool without the idle connection of item i; the operation it was handed
\* to keeps the slot
Dropped(i) ==
    LET u == pool.owner[i]
        p == [pool EXCEPT !.cache = Remove(@, {i}), !.free = @ \cup {i}, !.owner[i] = NoSock]
    IN  IF u = NoSock THEN ReleaseSlot(p, NoItem) ELSE [p EXCEPT !.op[u].item = NoItem]

\* ngx_http_lua_socket_keepalive_close_handler: the peer closes an idle
\* connection, sends something on it, or it has been idle for too long
KeepaliveClose(i) ==
    /\ i \in pool.cache.items \/ pool.owner[i] # NoSock
    /\ pool' = Dropped(i)
    /\ UNCHANGED sock

-----------------------------------------------------------------------------

Next ==
    \/ \E u \in Sock :
         \/ ConnectAlone(u) \/ ConnectReuse(u) \/ ConnectRefused(u)
         \/ ConnectQueued(u) \/ ConnectNew(u)
         \/ OpTimeout(u) \/ OpCancel(u) \/ OpResume(u)
         \/ ResolveDone(u) \/ ConnectDone(u) \/ ResolveKill(u) \/ Finalize(u)
         \/ SetKeepalive(u)
    \/ \E i \in Items : KeepaliveClose(i)

Spec == Init /\ [][Next]_vars

\* nginx runs every posted event, resolver and connection answer or time out,
\* and Lua code or the end of its request gives every connection back.
\* Nothing is assumed of the timers of queued operations.
Fairness ==
    \A u \in Sock : /\ WF_vars(OpResume(u))
                    /\ WF_vars(ResolveDone(u))
                    /\ WF_vars(ConnectDone(u))
                    /\ WF_vars(Close(u) \/ SetKeepalive(u))

FairSpec == Spec /\ Fairness

-----------------------------------------------------------------------------
(* Properties.                                                             *)

\* Types of the state.
TypeOK == pool \in Pool /\ sock \in [Sock -> SockState]

\* The cosockets with a connection, or one on its way, that hold a slot
Active == {u \in Sock : sock[u].counted /\ sock[u].at \in Spare}

\* The count of slots is exact, whatever fails, is killed, closed or handed
\* over: "slots held by active sockets, cached connections, and posted
\* connects" (socket_tcp.h:79); and the pool is freed with the last of them.
SlotsExact ==
    /\ pool.connections = Cardinality(Active) + Cardinality(pool.cache.items)
                              + Cardinality(pool.posted.items)
    /\ pool.alive = (pool.connections > 0)

\* Every item is free, in the cache, or owned by the one operation that points
\* back at it: no connection is handed out twice or lost.
ItemsExact ==
    /\ \A i \in Items, u \in Sock : pool.owner[i] = u <=> pool.op[u].item = i
    /\ \A i \in 1 .. pool.size :
         /\ i \in pool.free => i \notin pool.cache.items /\ pool.owner[i] = NoSock
         /\ i \in pool.cache.items => pool.owner[i] = NoSock
         /\ i \in pool.free \cup pool.cache.items \/ pool.owner[i] # NoSock

\* Every operation that waits is in one of the two queues: with a timer in the
\* one, with a posted event in the other; and the count of the first is right
\* (the assertion at socket_tcp.c:4408).
OpsExact ==
    /\ WellFormed(pool.wait) /\ WellFormed(pool.posted)
    /\ \A u \in Sock :
         /\ (sock[u].at = "wait") = (u \in pool.wait.items \cup pool.posted.items)
         /\ (u \in pool.wait.items) = pool.op[u].queued
         /\ (u \in pool.wait.items) = pool.op[u].timer
         /\ (u \in pool.posted.items) = pool.op[u].posted
    /\ pool.waiting = Cardinality(pool.wait.items)

\* Nobody waits while a slot or an idle connection is to be had, so a newcomer
\* never overtakes a queued operation.
NoIdleWhileWaiting ==
    ~IsEmpty(pool.wait) => IsEmpty(pool.cache) /\ pool.connections >= pool.size

\* With a backlog, "No more connections than pool_size can be opened for this
\* pool at any time" (README.markdown:8333).
Limited ==
    pool.backlog >= 0 => /\ pool.connections <= pool.size
                         /\ pool.waiting <= pool.backlog

\* Slots, items and the operations that wait agree.
PoolExact == TypeOK /\ SlotsExact /\ ItemsExact /\ OpsExact

\* A connect is admitted or queued by the limits, in turn.
AdmissionRight == NoIdleWhileWaiting /\ Limited

\* A queued operation gets a slot when the others give theirs back.
Served == \A u \in Sock : pool.op[u].queued ~> ~pool.op[u].queued
=============================================================================
