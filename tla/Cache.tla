--------------------------------- MODULE Cache ---------------------------------
(***************************************************************************)
(* What a shared dictionary promises: a bounded cache of items with        *)
(* deadlines.  items are those that can be read; <<j, k>> is in order when *)
(* j was used more recently than k.  past holds items whose deadline is    *)
(* over: nothing but get_stale reads them, each may be forgotten at any    *)
(* time, and only ngx.shared.DICT.expire brings one back.                  *)
(*                                                                         *)
(* A call is one step: call is the operation and the key, and result what  *)
(* the caller knows of it then, which is the arguments, the answer and     *)
(* forcible, the flag that others may have been removed for it.            *)
(***************************************************************************)
EXTENDS Naturals, Sequences, FiniteSets

CONSTANTS Key, Nil,
          Scalar, Element,     \* a scalar and a list are records [type, data]
          Limits               \* of flush_expired, 0 for none

VARIABLES now, items, order, past, call, result

vars == <<now, items, order, past, call, result>>

Calls(op, k) == call' = <<op, k>>
Returns(args, answer, forcible) == result' = <<args, answer, forcible>>
Says(args, answer) == Returns(args, answer, FALSE)

Never == 0
Value(x, d) == [val |-> x, deadline |-> d]
Until(item, d) == [item EXCEPT !.deadline = d]
Deadlines == {Never, now + 1}

OnlyKeys(f, S) == [k \in DOMAIN f \cap S |-> f[k]]
Among(S) == order \cap (S \X S)
Others(k) == DOMAIN items \ {k}

\* The sets of keys of K, each with all those of K used more recently.
Newest(K) == {S \in SUBSET K : \A i \in K, j \in S : <<i, j>> \in order => i \in S}

\* Items past their deadline may be forgotten, those of K certainly are.
Forgets(K) == \E S \in SUBSET (DOMAIN past \ K) : past' = OnlyKeys(past, S)

Init == now \in Nat /\ items = <<>> /\ order = {} /\ past = <<>> /\ call = <<>> /\ result = <<>>

-------------------------------------------------------------------------------
(* What happens to the items.                                                *)

\* An item is read.
Use(k) == /\ k \in DOMAIN items
          /\ order' = Among(Others(k)) \cup ({k} \X Others(k))
          /\ UNCHANGED <<now, items>> /\ Forgets({})

\* There is nothing to read.
Reap == Forgets({}) /\ UNCHANGED <<now, items, order>>
Misses(k) == k \notin DOMAIN items /\ Reap

\* An item is written, and of the others those of S remain.
Write(k, v, S) ==
    /\ order' = Among(S) \cup ({k} \X S)
    /\ items' = [j \in S \cup {k} |-> IF j = k THEN v ELSE items[j]]
    /\ Forgets({k}) /\ UNCHANGED now

\* What remains are the items of S.
Keep(S) == items' = OnlyKeys(items, S) /\ order' = Among(S)
Drop(k, S) == Keep(S) /\ Forgets({k}) /\ UNCHANGED now

Put(k, v) == Write(k, v, Others(k))
Remove(k) == Drop(k, Others(k))

\* A new value is stored, or finds no memory and its item is lost.  All others
\* remain, unless the caller hears that some were removed by force, those least
\* recently used; of a safe operation it never does.
Forcibles(op) == IF op \in {"safe_set", "safe_add"} THEN {FALSE} ELSE BOOLEAN
Remaining(k, forcible) == IF forcible THEN Newest(Others(k)) ELSE {Others(k)}

Stores(op, k, v, answer) ==
    \E forcible \in Forcibles(op) :
        \/ /\ Returns(v, answer, forcible)
           /\ \E S \in Remaining(k, forcible) : Write(k, v, S)
        \/ /\ Returns(v, <<"no memory">>, forcible)
           /\ \E S \in Remaining(k, forcible) : Drop(k, S)

-------------------------------------------------------------------------------
(* The operations.                                                           *)

IsList(k) == items[k].val.type = "list"

\* The value of a scalar.
Read(item, word) == IF item.val.type = "list" THEN <<"list">> ELSE <<word, item.val>>

Get(k) == /\ Calls("get", k)
          /\ \/ Use(k) /\ Says(<<>>, Read(items[k], "value"))
             \/ Misses(k) /\ Says(<<>>, <<"none">>)

GetStale(k) == /\ Calls("get_stale", k)
               /\ \/ Use(k) /\ Says(<<>>, Read(items[k], "value"))
                  \/ Misses(k) /\ k \in DOMAIN past /\ Says(<<>>, Read(past[k], "stale"))
                  \/ Misses(k) /\ k \notin DOMAIN past /\ Says(<<>>, <<"none">>)

Llen(k) == /\ Calls("llen", k)
           /\ \/ Use(k) /\ IsList(k) /\ Says(<<>>, <<"length", Len(items[k].val.data)>>)
              \/ Use(k) /\ ~IsList(k) /\ Says(<<>>, <<"not a list">>)
              \/ Misses(k) /\ Says(<<>>, <<"length", 0>>)

NewItems == {Value(x, d) : x \in Scalar, d \in Deadlines}

Set(k, op) == /\ Calls(op, k)
              /\ \E v \in NewItems : Stores(op, k, v, <<"ok">>)

Add(k, op) == /\ Calls(op, k)
              /\ \E v \in NewItems : \/ Use(k) /\ Says(v, <<"exists">>)
                                     \/ k \notin DOMAIN items /\ Stores(op, k, v, <<"ok">>)

Replace(k) == /\ Calls("replace", k)
              /\ \E v \in NewItems : \/ k \in DOMAIN items /\ Stores("replace", k, v, <<"ok">>)
                                     \/ Misses(k) /\ Says(v, <<"not found">>)

Delete(k) == Calls("delete", k) /\ Remove(k) /\ Says(<<>>, <<"ok">>)

\* A number that can be read keeps its deadline; numbers are counted modulo 2.
IsNumber(k) == items[k].val.type = "number"
Plus(x) == [x EXCEPT !.data = <<1 - @[1]>>]
Starts == {v \in NewItems : v.val.type = "number"}

Incr(k) ==
    /\ Calls("incr", k)
    /\ \/ /\ k \in DOMAIN items /\ IsNumber(k)
          /\ Put(k, [items[k] EXCEPT !.val = Plus(@)])
          /\ \E v \in Starts \cup {Nil} : Says(v, <<"ok", Plus(items[k].val)>>)
       \/ Use(k) /\ ~IsNumber(k) /\ \E v \in Starts \cup {Nil} : Says(v, <<"not a number">>)
       \/ Misses(k) /\ Says(Nil, <<"not found">>)
       \/ k \notin DOMAIN items /\ \E v \in Starts : Stores("incr", k, v, <<"ok", v.val>>)

List(s) == [type |-> "list", data |-> s]

\* A list that cannot be read any more is a new one.  Without memory for one
\* more element a list is left as it was.
Push(k, op) ==
    /\ Calls(op, k)
    /\ \E x \in Element :
          \/ Use(k) /\ ~IsList(k) /\ Says(x, <<"not a list">>)
          \/ LET s == items[k].val.data
                 more == IF op = "lpush" THEN <<x>> \o s ELSE Append(s, x)
             IN /\ k \in DOMAIN items /\ IsList(k)
                /\ Put(k, [items[k] EXCEPT !.val = List(more)]) /\ Says(x, <<"ok">>)
          \/ Use(k) /\ IsList(k) /\ Says(x, <<"no memory">>)
          \/ k \notin DOMAIN items /\ Put(k, Value(List(<<x>>), Never)) /\ Says(x, <<"ok">>)
          \/ k \notin DOMAIN items /\ Remove(k) /\ Says(x, <<"no memory">>)

\* A list goes with its last element.
Pop(k, op) ==
    /\ Calls(op, k)
    /\ \/ Misses(k) /\ Says(<<>>, <<"none">>)
       \/ Use(k) /\ ~IsList(k) /\ Says(<<>>, <<"not a list">>)
       \/ LET s == items[k].val.data
              rest == IF op = "lpop" THEN Tail(s) ELSE SubSeq(s, 1, Len(s) - 1)
          IN /\ k \in DOMAIN items /\ IsList(k)
             /\ IF Len(s) = 1 THEN Remove(k) ELSE Put(k, [items[k] EXCEPT !.val = List(rest)])
             /\ Says(<<>>, <<"value", IF op = "lpop" THEN s[1] ELSE s[Len(s)]>>)

\* The deadline is changed without a use.
Expire(k) ==
    /\ Calls("expire", k)
    /\ \E d \in Deadlines :
          \/ /\ k \in DOMAIN items
             /\ items' = [items EXCEPT ![k] = Until(items[k], d)]
             /\ Says(d, <<"ok">>)
             /\ UNCHANGED <<now, order, past>>
          \/ /\ k \in DOMAIN past
             /\ \E S \in Newest(DOMAIN items) :
                   order' = order \cup (S \X {k}) \cup ({k} \X (DOMAIN items \ S))
             /\ items' = [j \in DOMAIN items \cup {k} |->
                            IF j = k THEN Until(past[k], d) ELSE items[j]]
             /\ past' = OnlyKeys(past, DOMAIN past \ {k})
             /\ Says(d, <<"ok">>)
             /\ UNCHANGED now
          \/ Misses(k) /\ k \notin DOMAIN past /\ Says(d, <<"not found">>)

\* Only the owner, who stored the string v that can still be read, removes the
\* item (d = Nil) or changes its deadline.
Owned(k, v) == /\ k \in DOMAIN items
               /\ items[k].val.type = "string" /\ items[k].val.data = v.data

CompareExpire(k) ==
    /\ Calls("compare_expire", k)
    /\ \E v \in Scalar, d \in Deadlines \cup {Nil} :
          \/ Misses(k) /\ Says(<<v, d>>, <<"declined">>)
          \/ Use(k) /\ ~Owned(k, v) /\ Says(<<v, d>>, <<"declined">>)
          \/ Owned(k, v) /\ d = Nil /\ Remove(k) /\ Says(<<v, d>>, <<"ok">>)
          \/ Owned(k, v) /\ d # Nil /\ Put(k, Until(items[k], d)) /\ Says(<<v, d>>, <<"ok">>)

FlushAll == /\ Calls("flush_all", Nil) /\ Keep({})
            /\ \E S \in SUBSET (DOMAIN items \cup DOMAIN past) :
                  past' = [k \in S |-> Until(IF k \in DOMAIN items THEN items[k] ELSE past[k], 1)]
            /\ Says(<<>>, <<"ok">>)
            /\ UNCHANGED now

\* All items past their deadline are forgotten, or as many as max says.
FlushExpired(max) ==
    LET gone == Cardinality(DOMAIN past \ DOMAIN past') IN
    /\ Calls("flush_expired", Nil) /\ Reap
    /\ Says(max, <<"freed", gone>>)
    /\ max # 0 => gone <= max
    /\ max = 0 \/ gone < max => DOMAIN past' = {}

Tick == LET over == {k \in DOMAIN items : items[k].deadline = now + 1} IN
        /\ now' = now + 1
        /\ Keep(DOMAIN items \ over)
        /\ past' = [k \in DOMAIN past \cup over |-> IF k \in over THEN items[k] ELSE past[k]]
        /\ UNCHANGED <<call, result>>

Operation(k) ==
    \/ Get(k) \/ GetStale(k) \/ Llen(k) \/ Delete(k)
    \/ Replace(k) \/ Incr(k) \/ Expire(k) \/ CompareExpire(k)
    \/ \E op \in {"set", "safe_set"} : Set(k, op)
    \/ \E op \in {"add", "safe_add"} : Add(k, op)
    \/ \E op \in {"lpush", "rpush"} : Push(k, op)
    \/ \E op \in {"lpop", "rpop"} : Pop(k, op)

Next == \/ \E k \in Key : Operation(k)
        \/ FlushAll \/ \E max \in Limits : FlushExpired(max)
        \/ Tick

Spec == Init /\ [][Next]_vars

===============================================================================
