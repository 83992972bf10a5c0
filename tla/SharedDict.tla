------------------------------ MODULE SharedDict ------------------------------
(***************************************************************************)
(* ngx.shared.DICT: one zone of shared memory, the entries in it and the   *)
(* queue of the least recently used, as the worker processes use it.       *)
(*                                                                         *)
(* Each operation holds the lock of the zone (shpool->mutex) from its      *)
(* first to its last access, with one exception: a push reads the length   *)
(* that it returns after it has unlocked.  An operation is one step, and   *)
(* the return of a push another.                                           *)
(*                                                                         *)
(* The tree of the entries is a function on the keys.  A value is one of a *)
(* few scalars, or a list; an entry takes as many units of memory as its   *)
(* value has, an element of a list one.  user_flags are left out, and so   *)
(* are arguments that are refused before the lock is taken.                *)
(***************************************************************************)
EXTENDS Naturals, Sequences, FiniteSets, NgxQueue

CONSTANTS Key, Process, Nil,
          Scalar,      \* the scalars, records [type, data, len]
          Element,     \* what lists hold
          Capacity,    \* units of memory
          Rounds,      \* how often room is made for an entry: 30 in the code
          MaxList,     \* bound: elements of a list
          MaxNow       \* bound: time

Numbers == {v \in Scalar : v.type = "number"}
Plus(e) == [e EXCEPT !.data = <<1 - @[1]>>]      \* numbers are counted modulo 2

Entry(v, t) == [type |-> v.type, data |-> v.data, len |-> v.len, expires |-> t]

\* An entry as a caller sees it.
Value(e) == [type |-> e.type, data |-> e.data]
Content(e) == [val |-> Value(e), deadline |-> e.expires]

ASSUME SharedDictAssumption ==
    /\ Capacity \in Nat \ {0} /\ Rounds \in Nat \ {0} /\ MaxNow \in Nat \ {0} /\ MaxList \in Nat \ {0}
    /\ \A v \in Scalar : /\ v = [type |-> v.type, data |-> v.data, len |-> v.len]
                         /\ v.type \in {"number", "string"} /\ v.len \in Nat \ {0}
    /\ \A v \in Numbers : Plus(v) \in Scalar
    /\ Nil \notin Process \cup Scalar
    /\ \A v \in Scalar, t \in 0..MaxNow : Nil # Content(Entry(v, t))

VARIABLES
    now,       \* the time, in units of the shortest exptime
    entries,   \* the tree: a key's value, its length and when it expires
    lru,       \* lru_queue, the most recently used first
    used,      \* units of memory allocated
    pushing,   \* for a process that is about to return from a push: the key,
               \* the length and whether the entry has been freed since
    call,      \* the last call: the operation and the key
    result     \* its arguments, what is returned and the flag forcible

dictVars == <<now, entries, lru, used, pushing, call, result>>
dict == [entries |-> entries, lru |-> lru, used |-> used, freed |-> {}]

DictInit == /\ now = 1 /\ entries = <<>> /\ lru = EmptyQueue /\ used = 0
            /\ pushing = [p \in Process |-> Nil] /\ call = <<>> /\ result = <<>>

Never == 0
LongAgo == 1      \* what flush_all sets

-------------------------------------------------------------------------------
(* The entries and the queue.                                                *)

Has(d, k) == k \in DOMAIN d.entries
Expired(d, k) == d.entries[k].expires # Never /\ d.entries[k].expires <= now

\* ngx_http_lua_shdict_lookup returns NGX_OK.
Live(d, k) == Has(d, k) /\ ~Expired(d, k)

\* ... and has moved the entry to the head of the queue.
Touch(d, k) == [d EXCEPT !.lru = InsertHead(Remove(@, {k}), k)]

LookedUp(d, k) == IF Live(d, k) THEN Touch(d, k) ELSE d

IsList(d, k) == d.entries[k].type = "list"

\* The memory an entry takes: for a list also that of its elements.
SizeOf(e) == IF e.type = "list" THEN 1 + Len(e.data) ELSE e.len

\* The units of memory that the entries of a tree take.
Units(tree) == UNION {{k} \X (1..SizeOf(tree[k])) : k \in DOMAIN tree}

Only(tree, D) == [k \in D |-> tree[k]]

\* The entries of D and all their memory are freed.
BadFree(d, D) == [entries |-> Only(d.entries, DOMAIN d.entries \ D),
                  lru |-> Remove(d.lru, D),
                  used |-> d.used - Cardinality({u \in Units(Only(d.entries, D)) :
                                                    IsList(d, u[1]) => u[2] = 1}),
                  freed |-> d.freed \cup D]

Free(d, D) == [entries |-> Only(d.entries, DOMAIN d.entries \ D),
               lru |-> Remove(d.lru, D),
               used |-> d.used - Cardinality(Units(Only(d.entries, D))),
               freed |-> d.freed \cup D]

FreeIf(d, k) == IF Has(d, k) THEN Free(d, {k}) ELSE d

Oldest(d) == CHOOSE k \in d.lru.items : IsLast(d.lru, k)

\* One round of ngx_http_lua_shdict_expire: the last entry of the queue goes
\* when it has expired.
ExpireLast(d) == IF ~IsEmpty(d.lru) /\ Expired(d, Oldest(d)) THEN Free(d, {Oldest(d)}) ELSE d

\* ngx_http_lua_shdict_expire with n = 1: one or two expired entries.
Expire1(d) == ExpireLast(ExpireLast(d))

\* ... with n = 0: the oldest entry by force, and one or two expired ones.
Expire0(d) == IF IsEmpty(d.lru) THEN d ELSE Expire1(Free(d, {Oldest(d)}))

Fits(d, size) == d.used + size <= Capacity

\* A new entry, at the head of the queue.
Insert(d, k, e) == [d EXCEPT !.entries = [j \in DOMAIN @ \cup {k} |-> IF j = k THEN e ELSE @[j]],
                             !.lru = InsertHead(@, k),
                             !.used = @ + SizeOf(e)]

\* The entry of k becomes e where it is.
With(d, k, e) == [d EXCEPT !.entries = [@ EXCEPT ![k] = e]]

\* The dictionary after 0 to Rounds rounds in which the oldest goes.
Tries(d) == LET tries[i \in 0..Rounds] == IF i = 0 THEN d ELSE Expire0(tries[i - 1]) IN tries

\* The rounds after which there is memory.
Enough(d, size) == {i \in 1..Rounds : ~IsEmpty(Tries(d)[i - 1].lru) /\ Fits(Tries(d)[i], size)}

\* The oldest entries go until there is memory.
Forced(d, k, e) ==
    LET enough == Enough(d, SizeOf(e))
    IN IF enough = {} THEN Tries(d)[Rounds]
       ELSE Insert(Tries(d)[CHOOSE i \in enough : \A j \in enough : i <= j], k, e)

\* The entry is allocated, with or without force.
Allocated(d, k, e, safe) == IF Fits(d, SizeOf(e)) THEN Insert(d, k, e)
                            ELSE IF safe THEN d ELSE Forced(d, k, e)

\* The operation unlocks the zone.
Commit(d) == /\ entries' = d.entries /\ lru' = d.lru /\ used' = d.used
             /\ pushing' = [p \in Process |->
                              IF pushing[p] # Nil /\ pushing[p].key \in d.freed
                              THEN [pushing[p] EXCEPT !.freed = TRUE] ELSE pushing[p]]
             /\ UNCHANGED now

\* ... and returns.
Returns(op, k, args, answer, forcible) ==
    call' = <<op, k>> /\ result' = <<args, answer, forcible>>
Says(op, k, args, answer) == Returns(op, k, args, answer, FALSE)

Deadlines == {Never} \cup (IF now < MaxNow THEN {now + 1} ELSE {})

-------------------------------------------------------------------------------
(* Reading.                                                                  *)

\* The value of a scalar; a list is an error.
Read(e, word) == IF e.type = "list" THEN <<"list">> ELSE <<word, Value(e)>>

\* An entry that has expired is not found.
Get(k) == LET d == LookedUp(Expire1(dict), k) IN
          /\ Commit(d)
          /\ Says("get", k, <<>>, IF Live(d, k) THEN Read(d.entries[k], "value") ELSE <<"none">>)

\* The length of a list, 0 when there is none.
Llen(k) == LET d == LookedUp(Expire1(dict), k) IN
           /\ Commit(d)
           /\ Says("llen", k, <<>>, IF ~Live(d, k) THEN <<"length", 0>>
                                   ELSE IF IsList(d, k) THEN <<"length", d.entries[k].len>>
                                   ELSE <<"not a list">>)

\* get_stale leaves what has expired where it is, and returns it.
GetStale(k) == LET d == LookedUp(dict, k) IN
               /\ Commit(d)
               /\ Says("get_stale", k, <<>>,
                       IF Has(d, k) THEN Read(d.entries[k], IF Live(d, k) THEN "value" ELSE "stale")
                       ELSE <<"none">>)

\* get_keys lists what has not expired, the oldest first, and changes nothing.
GetKeys == Remove(lru, {k \in DOMAIN entries : Expired(dict, k)})

-------------------------------------------------------------------------------
(* ngx_http_lua_ffi_shdict_store.                                            *)

\* A value of the same length is overwritten where it is.
Reusable(d, k, v) == v.len = d.entries[k].len /\ ~IsList(d, k)

Reused(d, k, e) == With(Touch(d, k), k, e)

Written(d, k, e, safe) == IF Has(d, k) /\ Reusable(d, k, e) THEN Reused(d, k, e)
                          ELSE Allocated(FreeIf(d, k), k, e, safe)

\* Something is removed by force: the flag that is returned with the answer.
Forcible(d, k, e, safe) ==
    /\ ~(Has(d, k) /\ Reusable(d, k, e)) /\ ~safe
    /\ ~Fits(FreeIf(d, k), SizeOf(e)) /\ ~IsEmpty(FreeIf(d, k).lru)

Stores(op, d, k, e, safe, answer) ==
    LET c == Written(d, k, e, safe) IN
    /\ Commit(c)
    /\ Returns(op, k, Content(e), IF Has(c, k) THEN answer ELSE <<"no memory">>,
               Forcible(d, k, e, safe))

Set(k, v, t, safe) ==
    Stores(IF safe THEN "safe_set" ELSE "set",
           LookedUp(Expire1(dict), k), k, Entry(v, t), safe, <<"ok">>)

Add(k, v, t, safe) ==
    LET d == LookedUp(Expire1(dict), k)
        op == IF safe THEN "safe_add" ELSE "add"
    IN \/ Live(d, k) /\ Commit(d) /\ Says(op, k, Content(Entry(v, t)), <<"exists">>)
       \/ ~Live(d, k) /\ Stores(op, d, k, Entry(v, t), safe, <<"ok">>)

Replace(k, v, t) ==
    LET d == LookedUp(Expire1(dict), k)
    IN \/ Live(d, k) /\ Stores("replace", d, k, Entry(v, t), FALSE, <<"ok">>)
       \/ ~Live(d, k) /\ Commit(d) /\ Says("replace", k, Content(Entry(v, t)), <<"not found">>)

Delete(k) == Commit(FreeIf(LookedUp(Expire1(dict), k), k)) /\ Says("delete", k, <<>>, <<"ok">>)

-------------------------------------------------------------------------------
(* ngx_http_lua_ffi_shdict_incr, by one, and with a value to start from.     *)

IsNumber(e) == e.type = "number"

\* Without a live entry the key gets a new one, in the place of what expired.
Incr(k, init, t) ==
    LET d == LookedUp(Expire1(dict), k)
        start == IF init = Nil THEN Nil ELSE Content(Entry(init, t))
    IN \/ /\ Live(d, k) /\ IsNumber(d.entries[k])
          /\ Commit(With(d, k, Plus(d.entries[k])))
          /\ Says("incr", k, start, <<"ok", Value(Plus(d.entries[k]))>>)
       \/ /\ Live(d, k) /\ ~IsNumber(d.entries[k])
          /\ Commit(d) /\ Says("incr", k, start, <<"not a number">>)
       \/ ~Live(d, k) /\ init = Nil /\ Commit(d) /\ Says("incr", k, start, <<"not found">>)
       \/ /\ ~Live(d, k) /\ init # Nil
          /\ Stores("incr", d, k, Entry(init, t), FALSE, <<"ok", Value(init)>>)

-------------------------------------------------------------------------------
(* Lists.                                                                    *)

EmptyList == [type |-> "list", data |-> <<>>, len |-> 0, expires |-> Never]

\* The list to push to: that of the key; a new one in place of what has
\* expired; none when there is no memory.
Opened(d, k) ==
    CASE Live(d, k) -> d
      [] Has(d, k) /\ ~Live(d, k) /\ IsList(d, k) ->
            [With(Touch(d, k), k, EmptyList) EXCEPT !.used = @ - Len(d.entries[k].data)]
      [] OTHER -> Allocated(FreeIf(d, k), k, EmptyList, TRUE)

\* The list of k with other elements.
Listing(d, k, s, n) == With(d, k, [d.entries[k] EXCEPT !.data = s, !.len = n])

\* One element more; without memory a list that is still empty goes.
Pushed(d, k, s) ==
    IF Fits(d, 1) THEN [Listing(d, k, s, d.entries[k].len + 1) EXCEPT !.used = @ + 1]
    ELSE IF d.entries[k].len = 0 THEN Free(d, {k}) ELSE d

\* ngx_http_lua_shdict_push_helper, up to the unlock.
Push(p, k, x, left) ==
    LET d == LookedUp(Expire1(dict), k)
        o == Opened(d, k)
        s == o.entries[k].data
        r == Pushed(o, k, IF left THEN <<x>> \o s ELSE Append(s, x))
        op == IF left THEN "lpush" ELSE "rpush"
    IN \/ /\ Live(d, k) /\ ~IsList(d, k)
          /\ Commit(d) /\ Says(op, k, x, <<"not a list">>)
       \/ /\ Live(d, k) => IsList(d, k)
          /\ ~Has(o, k)
          /\ Commit(o) /\ Says(op, k, x, <<"no memory">>)
       \/ /\ Live(d, k) => IsList(d, k)
          /\ Has(o, k) /\ o.entries[k].len < MaxList
          /\ entries' = r.entries /\ lru' = r.lru /\ used' = r.used
          /\ pushing' = [q \in Process |->
                IF q = p THEN IF Fits(o, 1) THEN [key |-> k, len |-> r.entries[k].len, freed |-> FALSE]
                              ELSE Nil
                ELSE IF pushing[q] # Nil /\ pushing[q].key \in r.freed
                     THEN [pushing[q] EXCEPT !.freed = TRUE] ELSE pushing[q]]
          /\ Says(op, k, x, IF Fits(o, 1) THEN <<"ok">> ELSE <<"no memory">>)
          /\ UNCHANGED now

\* The length is read and returned.
PushReturn(p) == /\ pushing[p] # Nil
                 /\ pushing' = [pushing EXCEPT ![p] = Nil]
                 /\ UNCHANGED <<now, entries, lru, used, call, result>>

\* ngx_http_lua_shdict_pop_helper; a list that gets empty goes.
Pop(k, left) ==
    LET d == LookedUp(Expire1(dict), k)
        s == d.entries[k].data
        rest == IF left THEN Tail(s) ELSE SubSeq(s, 1, Len(s) - 1)
        op == IF left THEN "lpop" ELSE "rpop"
    IN \/ ~Live(d, k) /\ Commit(d) /\ Says(op, k, <<>>, <<"none">>)
       \/ Live(d, k) /\ ~IsList(d, k) /\ Commit(d) /\ Says(op, k, <<>>, <<"not a list">>)
       \/ /\ Live(d, k) /\ IsList(d, k)
          /\ Commit(IF d.entries[k].len = 1 THEN Free(d, {k})
                    ELSE [Listing(d, k, rest, d.entries[k].len - 1) EXCEPT !.used = @ - 1])
          /\ Says(op, k, <<>>, <<"value", IF left THEN s[1] ELSE s[Len(s)]>>)

-------------------------------------------------------------------------------
(* Expiration.                                                               *)

\* The entry of k expires at t.
Dated(d, k, t) == With(d, k, [d.entries[k] EXCEPT !.expires = t])

\* ngx_http_lua_ffi_shdict_set_expire: also of an entry that has expired.
SetExpire(k, t) ==
    /\ Commit(IF Has(dict, k) THEN Dated(dict, k, t) ELSE dict)
    /\ Says("expire", k, t, IF Has(dict, k) THEN <<"ok">> ELSE <<"not found">>)

\* ngx_http_lua_ffi_shdict_compare_expire, by the owner that stored v: the
\* entry is removed (t = Nil) or its time changed.
BadOwned(d, k, v) == Has(d, k) /\ d.entries[k].type = "string" /\ d.entries[k].data = v.data

Owned(d, k, v) == Live(d, k) /\ d.entries[k].type = "string" /\ d.entries[k].data = v.data

CompareExpire(k, v, t) ==
    LET d == LookedUp(dict, k) IN
    /\ Commit(IF ~Owned(d, k, v) THEN d ELSE IF t = Nil THEN Free(d, {k}) ELSE Dated(d, k, t))
    /\ Says("compare_expire", k, <<Value(v), t>>, IF Owned(d, k, v) THEN <<"ok">> ELSE <<"declined">>)

\* ngx_http_lua_ffi_shdict_flush_all.
Flushed(d) == [d EXCEPT !.entries =
                  [k \in DOMAIN d.entries |-> [d.entries[k] EXCEPT !.expires = LongAgo]]]

FlushAll == Commit(Expire0(Flushed(dict))) /\ Says("flush_all", Nil, <<>>, <<"ok">>)

\* ngx_http_lua_shdict_flush_expired: from the tail, at most max when max is
\* not 0.
FlushExpired(max) ==
    LET expired == {k \in DOMAIN entries : Expired(dict, k)}
        n == IF max = 0 \/ max > Cardinality(expired) THEN Cardinality(expired) ELSE max
    IN \E D \in SUBSET expired :
          /\ Cardinality(D) = n
          /\ \A j \in D, k \in expired \ D : <<k, j>> \in lru.before
          /\ Commit(Free(dict, D))
          /\ Says("flush_expired", Nil, max, <<"freed", n>>)

Tick == now < MaxNow /\ now' = now + 1 /\ UNCHANGED <<entries, lru, used, pushing, call, result>>

-------------------------------------------------------------------------------
Operation(k) ==
    \/ Get(k) \/ Llen(k) \/ GetStale(k) \/ Delete(k)
    \/ \E v \in Scalar, t \in Deadlines :
          \/ \E safe \in BOOLEAN : Set(k, v, t, safe) \/ Add(k, v, t, safe)
          \/ Replace(k, v, t)
          \/ CompareExpire(k, v, t)
    \/ \E v \in Scalar : CompareExpire(k, v, Nil)
    \/ \E init \in Numbers \cup {Nil}, t \in Deadlines : Incr(k, init, t)
    \/ \E left \in BOOLEAN : Pop(k, left)
    \/ \E t \in Deadlines : SetExpire(k, t)

Limits == 0..1

\* A process that is about to return from a push does nothing else before.
Idle == {p \in Process : pushing[p] = Nil}

DictNext ==
        \/ Idle # {} /\ (\E k \in Key : Operation(k))
        \/ Idle # {} /\ (FlushAll \/ \E max \in Limits : FlushExpired(max))
        \/ \E p \in Idle, k \in Key, x \in Element, left \in BOOLEAN : Push(p, k, x, left)
        \/ \E p \in Process : PushReturn(p)
        \/ Tick
        \/ now = MaxNow /\ UNCHANGED dictVars

DictSpec == DictInit /\ [][DictNext]_dictVars

-------------------------------------------------------------------------------
(* Properties.                                                               *)

ScalarEntries == {Entry(v, t) : v \in Scalar, t \in 0..MaxNow}
ListEntries == [type : {"list"}, data : Seq(Element), len : Nat, expires : 0..MaxNow]

DictTypeOK == /\ now \in 1..MaxNow /\ DOMAIN entries \subseteq Key
              /\ \A k \in DOMAIN entries : entries[k] \in ScalarEntries \cup ListEntries
              /\ used \in 0..Capacity
              /\ \A p \in Process : pushing[p] = Nil \/ pushing[p].key \in Key

\* The queue holds every entry of the tree once, and nothing else.
LruExact == lru.items = DOMAIN entries /\ WellFormed(lru)

\* What is allocated is what the entries take: nothing leaks and nothing is
\* freed twice, on any path.
MemoryExact == used = Cardinality(Units(entries))

\* A list is never empty and its length is the number of its elements: pop
\* raises an error otherwise.
ListsExact == \A k \in DOMAIN entries : IsList(dict, k) =>
                 entries[k].len = Len(entries[k].data) /\ entries[k].len > 0

\* The tree, the queue, the lists and the memory of the zone agree.
StorageExact == DictTypeOK /\ LruExact /\ MemoryExact /\ ListsExact

\* A process returns from a push the length that the list has after it
\* (README.markdown:7650).  It does not when another one pops before the length is
\* read, which is after the unlock (shdict.c:974), so no run checks this.
PushReturnsLength ==
    \A p \in Process : pushing[p] # Nil =>
        ~pushing[p].freed /\ entries[pushing[p].key].len = pushing[p].len

\* The entries and the queue implement a cache, call for call: what has expired
\* or was flushed is not returned, but by get_stale as stale, not counted on and
\* not owned any more; a write is whole or not at all and says which; those
\* least recently used go first, only for operations that may force them out,
\* and only when the caller is told.
Readable == {k \in DOMAIN entries : Live(dict, k)}
Current == [k \in Readable |-> Content(entries[k])]
Past == [k \in DOMAIN entries \ Readable |-> Content(entries[k])]
Order == GetKeys.before
ScalarValues == {Value(v) : v \in Scalar}

C == INSTANCE Cache WITH Scalar <- ScalarValues, items <- Current, order <- Order, past <- Past
IsCache == C!Spec

\* The flag forcible is true only for an item stored by forcibly removing other
\* items that were valid (README.markdown:7479).  It is not: the entry removed
\* by force may have expired (shdict.c:1526), so no run checks this.
ForcibleIsTrue ==
    [][call' # call /\ result'[2] = <<"ok">> /\ result'[3] =>
          \E j \in Readable \ {call'[2]} : j \notin DOMAIN entries']_dictVars

===============================================================================
