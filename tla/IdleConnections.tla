---------------------------- MODULE IdleConnections ----------------------------
(***************************************************************************)
(* What the keepalive cache of balancer_by_lua promises: idle connections, *)
(* the most recently saved first.  A request that may reuse connections    *)
(* gets the newest one to its peer and connects only when there is none.   *)
(* A connection that is saved pushes out the oldest one to its own peer    *)
(* when there are as many as the request that saves it allows, else the    *)
(* oldest of all when the cache is full.                                   *)
(***************************************************************************)
EXTENDS NgxQueue, Naturals, FiniteSets

CONSTANTS Conns, Keys, Sizes, Limit

VARIABLES idle,     \* a queue of [key, conn], the most recently saved first
          busy      \* a set of [key, conn, keep, size]

Known == {b.conn : b \in busy} \cup {e.conn : e \in idle.items}

Of(k) == {e \in idle.items : e.key = k}

Newest(E) == CHOOSE e \in E : \A f \in E \ {e} : <<e, f>> \in idle.before
Oldest(E) == CHOOSE e \in E : \A f \in E \ {e} : <<f, e>> \in idle.before

\* The cache with room for one more connection to k.
Room(k, size) ==
    IF size > 0 /\ Cardinality(Of(k)) >= size THEN Remove(idle, {Oldest(Of(k))})
    ELSE IF Cardinality(idle.items) = Limit THEN Remove(idle, {Oldest(idle.items)}) ELSE idle

Connect == \E k \in Keys, c \in Conns \ Known, keep \in BOOLEAN, size \in Sizes \cup {0} :
    /\ keep => Of(k) = {}
    /\ busy' = busy \cup {[key |-> k, conn |-> c, keep |-> keep, size |-> size]}
    /\ UNCHANGED idle

Reuse == \E k \in Keys, size \in Sizes :
    /\ Of(k) # {}
    /\ idle' = Remove(idle, {Newest(Of(k))})
    /\ busy' = busy \cup {[key |-> k, conn |-> Newest(Of(k)).conn, keep |-> TRUE,
                           size |-> size]}

Close == \E b \in busy : busy' = busy \ {b} /\ UNCHANGED idle

\* The connection may be lost at once: its peer has closed it.
Save == \E b \in busy :
    /\ b.keep
    /\ busy' = busy \ {b}
    /\ \/ idle' = InsertHead(Room(b.key, b.size), [key |-> b.key, conn |-> b.conn])
       \/ idle' = Room(b.key, b.size)

Drop == \E e \in idle.items : idle' = Remove(idle, {e}) /\ UNCHANGED busy

Init == idle = EmptyQueue /\ busy = {}
Next == Connect \/ Reuse \/ Close \/ Save \/ Drop
Spec == Init /\ [][Next]_<<idle, busy>>

===============================================================================
