-------------------------------- MODULE Balancer --------------------------------
(***************************************************************************)
(* balancer_by_lua: a request asks the Lua handler for a peer each time it *)
(* connects to its upstream, the handler may allow more tries, and the     *)
(* connections that end well are kept for other requests.  The cache is    *)
(* the code's: items that are free or in a queue, pools of the items with  *)
(* one key, hashed into buckets.  What is free is a set, as it makes no    *)
(* difference which item or pool is taken, and so is a bucket, where the   *)
(* pools have different keys.                                              *)
(*                                                                         *)
(* A key stands for the peer's address, host name and local address.  The  *)
(* upstream module of nginx is external: how often it asks for a peer, and *)
(* when it gives one back.                                                 *)
(***************************************************************************)
EXTENDS NgxQueue, Integers, FiniteSets

CONSTANTS Request, Conn, Key,
          Hash,          \* calc_hash: Key -> Nat, not injective
          MaxCached,     \* balancer_keepalive
          PoolSizes,     \* the pool sizes that handlers ask for, 0: no limit
          NextTries,     \* next_upstream_tries, 0: no limit
          MaxMore,       \* bound: tries added by one call
          MaxTotal,      \* bound: calls of the handler for one request
          Nil

ASSUME BalancerAssumption ==
    /\ Hash \in [Key -> Nat] /\ MaxCached \in Nat \ {0}
    /\ PoolSizes \subseteq Nat /\ {NextTries, MaxMore, MaxTotal} \subseteq Nat
    /\ Nil \notin Request \cup Conn \cup Key \cup (1..MaxCached)

VARIABLES req,     \* ngx_http_lua_balancer_peer_data_t and r->upstream->peer
          conn,    \* ngx_connection_t: "free", "open", "closing"
          ka       \* lscf->balancer: the keepalive cache

vars == <<req, conn, ka>>

Items == 1..MaxCached
BucketCount == IF MaxCached \div 2 > 0 THEN MaxCached \div 2 ELSE 1
Buckets == 0..BucketCount - 1
BucketOf(hash) == hash % BucketCount

NoRequest == [at |-> "out", key |-> Nil, keep |-> FALSE, size |-> 0, conn |-> Nil,
              cached |-> FALSE, tries |-> 0, total |-> 0, tried |-> 0]

NoItem == [key |-> Nil, conn |-> Nil, pool |-> Nil]

Init ==
    /\ req = [r \in Request |-> NoRequest]
    /\ conn = [c \in Conn |-> "free"]
    /\ ka = [item   |-> [i \in Items |-> NoItem],
             cache  |-> EmptyQueue,
             free   |-> Items,
             pool   |-> [p \in Items |-> [hash |-> 0, items |-> EmptyQueue, count |-> 0]],
             pools  |-> Items,
             bucket |-> [b \in Buckets |-> {}]]

-------------------------------------------------------------------------------
(* The keepalive cache.                                                      *)

\* The elements at the two ends of a queue that is not empty.
HeadOf(q) == CHOOSE i \in q.items : IsHead(q, i)
LastOf(q) == CHOOSE i \in q.items : IsLast(q, i)

\* Without a local address of its own a request takes connections from any
\* (balancer.c:1598): not here, where all have one or none has.
ItemMatch(k, i, key) == k.item[i].key = key

\* The pools in the bucket of the key that hold its connections: one or none.
Found(k, key) == {p \in k.bucket[BucketOf(Hash[key])] :
                     /\ k.pool[p].hash = Hash[key]
                     /\ ItemMatch(k, HeadOf(k.pool[p].items), key)}

FindPool(k, key) == IF Found(k, key) = {} THEN Nil ELSE CHOOSE p \in Found(k, key) : TRUE

\* The pool that gets an item becomes the first of its bucket when it is new.
AttachTo(k, i, p, hash) ==
    [k EXCEPT !.item[i].pool = p,
              !.pool[p] = [hash |-> hash, items |-> InsertHead(k.pool[p].items, i),
                           count |-> k.pool[p].count + 1],
              !.pools = @ \ {p},
              !.bucket[BucketOf(hash)] = @ \cup {p}]

Attach(k, i) ==
    LET key == k.item[i].key
        old == FindPool(k, key)
    IN AttachTo(k, i, IF old = Nil THEN CHOOSE p \in k.pools : TRUE ELSE old, Hash[key])

\* A pool with an item less.
Without(pool, i) == [hash |-> pool.hash, items |-> Remove(pool.items, {i}), count |-> pool.count - 1]

\* an empty pool stays in its bucket
BadDetach(k, i) ==
    LET p == k.item[i].pool IN
    [k EXCEPT !.item[i].pool = Nil, !.pool[p] = Without(k.pool[p], i)]

Detach(k, i) ==
    LET p == k.item[i].pool
        last == k.pool[p].count = 1
    IN [k EXCEPT !.item[i].pool = Nil,
                 !.pool[p] = Without(k.pool[p], i),
                 !.bucket[BucketOf(k.pool[p].hash)] = IF last THEN @ \ {p} ELSE @,
                 !.pools = IF last THEN @ \cup {p} ELSE @]

Uncached(k, i) == [Detach(k, i) EXCEPT !.cache = Remove(@, {i})]

Freed(k, i) == [Uncached(k, i) EXCEPT !.item[i] = NoItem, !.free = @ \cup {i}]

\* the oldest item of the cache is taken although the pool is full
BadVictim(k, key, size) == IF k.free = {} THEN LastOf(k.cache) ELSE Nil

\* The item whose connection gives way to a new one, Nil: a free item is left.
Victim(k, key, size) ==
    LET p == IF size > 0 THEN FindPool(k, key) ELSE Nil IN
    IF p # Nil /\ k.pool[p].count >= size THEN LastOf(k.pool[p].items)
    ELSE IF k.free = {} THEN LastOf(k.cache) ELSE Nil

ItemFor(k, key, size) ==
    IF Victim(k, key, size) # Nil THEN Victim(k, key, size) ELSE CHOOSE j \in k.free : TRUE

\* The item to save a connection with is taken out of the cache, or of the
\* free ones.
Emptied(k, i) == IF i \in k.free THEN [k EXCEPT !.free = @ \ {i}] ELSE Uncached(k, i)

Saved(k, i, key, c) ==
    Attach([k EXCEPT !.item[i] = [key |-> key, conn |-> c, pool |-> Nil],
                     !.cache = InsertHead(@, i)], i)

\* ngx_http_lua_balancer_close: a TLS shutdown may have to wait for the peer.
Closes(C) == \E C1 \in SUBSET C :
    conn' = [c \in Conn |-> IF c \in C1 THEN "closing" ELSE IF c \in C THEN "free" ELSE conn[c]]

CloseEnds(c) == /\ conn[c] = "closing"
                /\ conn' = [conn EXCEPT ![c] = "free"]
                /\ UNCHANGED <<req, ka>>

\* ngx_http_lua_balancer_close_handler: the timeout of an idle connection, its
\* peer has closed it or sent something, or the worker is exiting.
CloseHandler(i) ==
    /\ i \in ka.cache.items
    /\ Closes({ka.item[i].conn})
    /\ ka' = Freed(ka, i)
    /\ UNCHANGED req

-------------------------------------------------------------------------------
(* What the handler does.                                                    *)

\* ngx_http_lua_ffi_balancer_set_more_tries.
MoreTries(b, count) ==
    LET total == b.total + b.tries - 1 IN
    IF NextTries > 0 /\ total + count > NextTries
    THEN IF NextTries > total THEN NextTries - total ELSE 0 ELSE count

\* ngx_http_lua_balancer_get_peer: what is reset before the handler runs.
Asked(r) == [req[r] EXCEPT !.key = Nil, !.keep = FALSE, !.size = 0, !.conn = Nil,
                           !.cached = FALSE, !.total = req[r].total + 1]

\* ngx_http_lua_ffi_balancer_set_current_peer: its connections are those of
\* the handler's key.
SetCurrentPeer(b, key) == [b EXCEPT !.key = key]

\* ngx_http_lua_ffi_balancer_enable_keepalive
EnableKeepalive(b, size) == [b EXCEPT !.keep = TRUE, !.size = size]

\* What the handler may leave when it has set a peer; the tries it has added
\* count from now on.
SetPeer(r) ==
    LET peer == {SetCurrentPeer(Asked(r), key) : key \in Key}
    IN peer \cup {EnableKeepalive(b, size) : b \in peer, size \in PoolSizes}

WithTries(b, more) == [b EXCEPT !.tries = b.tries + more, !.tried = b.tried + 1]

Chosen(r) == {WithTries(b, MoreTries(b, more)) : b \in SetPeer(r), more \in 0..MaxMore}

-------------------------------------------------------------------------------
(* A request and its upstream.                                               *)

\* external: ngx_http_upstream_init_request, and ngx_http_lua_balancer_init_peer.
InitPeer(r) ==
    /\ req[r].at = "out"
    /\ req' = [req EXCEPT ![r] = [NoRequest EXCEPT !.at = "ask", !.tries = 1]]
    /\ UNCHANGED <<conn, ka>>

Asks(r) == req[r].at = "ask" /\ req[r].total < MaxTotal

\* ngx_http_lua_balancer_get_cached_item
GetCached(r) == Asks(r) /\ \E b \in Chosen(r) : LET p == FindPool(ka, b.key) IN
    /\ b.keep /\ p # Nil
    /\ LET i == HeadOf(ka.pool[p].items) IN
       /\ req' = [req EXCEPT ![r] = [b EXCEPT !.at = "busy", !.conn = ka.item[i].conn,
                                              !.cached = TRUE]]
       /\ ka' = Freed(ka, i)
    /\ UNCHANGED conn

\* NGX_OK: nginx connects, which may fail at once.
GetPeer(r) == Asks(r) /\ \E b \in Chosen(r) :
    /\ ~(b.keep /\ FindPool(ka, b.key) # Nil)
    /\ \E c \in {x \in Conn : conn[x] = "free"} \cup {Nil} :
          /\ req' = [req EXCEPT ![r] = [b EXCEPT !.at = "busy", !.conn = c]]
          /\ conn' = IF c = Nil THEN conn ELSE [conn EXCEPT ![c] = "open"]
    /\ UNCHANGED ka

\* The handler fails, exits with an error, or sets no peer and the upstream has
\* no server of its own (balancer.c:555); ngx.DECLINED makes nginx ask again.
NoPeer(r) ==
    /\ req[r].at = "ask"
    /\ \/ req' = [req EXCEPT ![r] = NoRequest]
       \/ Asks(r) /\ req' = [req EXCEPT ![r] = Asked(r)]
    /\ UNCHANGED <<conn, ka>>

\* the connection that was reused failed: its try is not given back
BadNotified(b) == b.tries + (IF b.cached THEN 1 ELSE 0)

\* external: an error of a connection that was reused does not count as a
\* try; ngx_http_lua_balancer_notify_peer counts it.  Both are in an nginx that
\* has NGX_HTTP_UPSTREAM_NOTIFY_CACHED_CONNECTION_ERROR (balancer.c:828).
Notified(b) == b.tries + (IF b.cached THEN 1 - 1 ELSE 0)

Leaves(r, tries, again) ==
    IF again /\ tries > 0 THEN [req[r] EXCEPT !.at = "ask", !.key = Nil, !.keep = FALSE,
                        !.size = 0, !.conn = Nil, !.cached = FALSE, !.tries = tries]
    ELSE NoRequest

\* ngx_http_lua_balancer_free_peer: pc->tries
TriesLeft(b) == IF b.tries > 0 THEN b.tries - 1 ELSE 0

\* The connection is not kept: it failed, the response was not read to its
\* end, it has served enough requests, or the worker is exiting.
FreePeerInvalid(r) ==
    /\ req[r].at = "busy"
    /\ \E again, error \in BOOLEAN :
          LET b == [req[r] EXCEPT !.tries = TriesLeft(req[r])] IN
          req' = [req EXCEPT ![r] = Leaves(r, IF error THEN Notified(b) ELSE b.tries, again)]
    /\ Closes({req[r].conn} \ {Nil})
    /\ UNCHANGED ka

\* The connection is kept.  With no memory for a long host name, and when its
\* peer has already closed it, it is lost at once.
FreePeerKept(r) ==
    /\ req[r].at = "busy" /\ req[r].keep /\ req[r].conn # Nil
    /\ \E again \in BOOLEAN : req' = [req EXCEPT ![r] = Leaves(r, TriesLeft(req[r]), again)]
    /\ LET i == ItemFor(ka, req[r].key, req[r].size)
           k == Saved(Emptied(ka, i), i, req[r].key, req[r].conn)
           evicted == IF i \in ka.free THEN {} ELSE {ka.item[i].conn}
       IN \/ ka' = k /\ Closes(evicted)
          \/ ka' = Freed(k, i) /\ Closes(evicted \cup {req[r].conn})

Next == \/ \E r \in Request : \/ InitPeer(r) \/ GetCached(r) \/ GetPeer(r) \/ NoPeer(r)
                              \/ FreePeerInvalid(r) \/ FreePeerKept(r)
        \/ \E i \in Items : CloseHandler(i)
        \/ \E c \in Conn : CloseEnds(c)

Spec == Init /\ [][Next]_vars

-------------------------------------------------------------------------------
(* Properties.                                                               *)

TypeOK ==
    /\ conn \in [Conn -> {"free", "open", "closing"}]
    /\ \A r \in Request : /\ req[r].at \in {"out", "ask", "busy"}
                          /\ req[r].key \in Key \cup {Nil} /\ req[r].conn \in Conn \cup {Nil}
                          /\ {req[r].tries, req[r].total, req[r].tried} \subseteq Nat
    /\ ka.cache \in QueuesOver(Items) /\ ka.free \subseteq Items /\ ka.pools \subseteq Items
    /\ ka.bucket \in [Buckets -> SUBSET Items]
    /\ \A p \in Items : ka.pool[p].items \in QueuesOver(Items) /\ ka.pool[p].count \in Nat

\* Who has a connection: a request that uses it, an item that keeps it.
Owners(c) == {<<"request", r>> : r \in {x \in Request : req[x].conn = c}}
                \cup {<<"item", i>> : i \in {x \in ka.cache.items : ka.item[x].conn = c}}

\* The links are intact.  Each item is free or in the cache, and it is in the
\* pool of its key exactly while it is in the cache; the count of a pool is
\* right, and a pool is in the bucket of its hash exactly while it holds
\* items, the only one with their key; and a connection is open exactly while
\* it has an owner, a request or an item, of which there is never more than one.
CacheExact ==
    /\ TypeOK
    /\ WellFormed(ka.cache) /\ \A p \in Items : WellFormed(ka.pool[p].items)
    /\ ka.free = Items \ ka.cache.items
    /\ \A i, p \in Items :
          i \in ka.pool[p].items.items <=> i \in ka.cache.items /\ ka.item[i].pool = p
    /\ \A p \in Items :
          /\ ka.pool[p].count = Cardinality(ka.pool[p].items.items)
          /\ p \in ka.pools <=> ka.pool[p].count = 0
          /\ \A b \in Buckets : p \in ka.bucket[b] <=>
                ka.pool[p].count > 0 /\ b = BucketOf(ka.pool[p].hash)
    /\ \A i, j \in ka.cache.items :
          ka.item[i].key = ka.item[j].key <=> ka.item[i].pool = ka.item[j].pool
    /\ \A c \in Conn : /\ conn[c] = "open" <=> Owners(c) # {}
                       /\ \A o1, o2 \in Owners(c) : o1 = o2

\* However the handler adds tries, and however the reused connections fail, a
\* request is sent to a peer next_upstream_tries times at most.
TriesLimited ==
    NextTries > 0 => \A r \in Request : req[r].tried <= NextTries

\* The connections that the items keep, in the order of the cache, and those
\* that the requests use.
Entry(k, i) == [key |-> k.item[i].key, conn |-> k.item[i].conn]
Entries(k, S) == {Entry(k, i) : i \in S}
IdleQueue(k) == [items |-> Entries(k, k.cache.items),
                 before |-> {<<Entry(k, p[1]), Entry(k, p[2])>> : p \in k.cache.before}]

Using(b) == [key |-> b.key, conn |-> b.conn, keep |-> b.keep, size |-> b.size]
InUse == {Using(req[r]) : r \in {x \in Request : req[x].at = "busy" /\ req[x].conn # Nil}}

Cache == INSTANCE IdleConnections
            WITH Conns <- Conn, Keys <- Key, Sizes <- PoolSizes, Limit <- MaxCached,
                 idle <- IdleQueue(ka), busy <- InUse

\* The queues, the pools and the buckets implement the one list of idle
\* connections: the newest connection to the peer is the one reused, and the
\* one that gives way is the oldest of a full pool, else the oldest of all.
IsCache == Cache!Spec

===============================================================================
