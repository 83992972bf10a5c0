------------------------------ MODULE NgxQueue ------------------------------
(***************************************************************************)
(* nginx's intrusive list ngx_queue_t, as the modules of this project use  *)
(* it: elements enter at the head or at the tail and leave from anywhere.  *)
(* A queue is the set of its elements with their order, so that the        *)
(* removal of an element (or of a whole block of them) is a restriction.   *)
(* An element is in a queue at most once, as the links are in the element. *)
(***************************************************************************)

EmptyQueue == [items |-> {}, before |-> {}]

\* The queues over the set S
QueuesOver(S) == [items : SUBSET S, before : SUBSET (S \X S)]

IsEmpty(q) == q.items = {}

\* ngx_queue_insert_tail
InsertTail(q, x) == [items |-> q.items \cup {x},
                     before |-> q.before \cup (q.items \X {x})]

\* ngx_queue_insert_head
InsertHead(q, x) == [items |-> q.items \cup {x},
                     before |-> q.before \cup ({x} \X q.items)]

\* ngx_queue_remove on every element of D
Remove(q, D) == [items |-> q.items \ D,
                 before |-> {p \in q.before : p[1] \notin D /\ p[2] \notin D}]

\* x = ngx_queue_head(q)
IsHead(q, x) == x \in q.items /\ \A y \in q.items \ {x} : <<x, y>> \in q.before

\* x = ngx_queue_last(q)
IsLast(q, x) == x \in q.items /\ \A y \in q.items \ {x} : <<y, x>> \in q.before

\* The links are intact: the order is a strict total order of the elements
WellFormed(q) ==
    /\ \A x, y \in q.items : x # y => <<x, y>> \in q.before \/ <<y, x>> \in q.before
    /\ \A x, y \in q.items : ~(<<x, y>> \in q.before /\ <<y, x>> \in q.before)
    /\ \A x, y, z \in q.items : /\ <<x, y>> \in q.before
                                /\ <<y, z>> \in q.before
                                => <<x, z>> \in q.before
    /\ \A p \in q.before : p[1] \in q.items /\ p[2] \in q.items
=============================================================================
