----------------------------- MODULE TimersProofs -----------------------------
(* The accounts of timers and what premature says, for any number of timers, *)
(* requests and any limits.                                                  *)
EXTENDS Timers, TLAPS, FiniteSetTheorems

\* What a timer event is by its place: one that is free has no VM, the others
\* hold one; ngx.timer.every has a delay and only timers without one are posted
Shape ==
    \A t \in Timer :
        /\ IF timer[t].at = "none" THEN timer[t] = NoTimer ELSE timer[t].vm \in Req
        /\ timer[t].every => ~timer[t].zero
        /\ timer[t].at = "posted" => timer[t].zero

\* The worker exits: the watcher is there to abort what is pending, what is
\* left over is without delay, and (patched) nothing of this kind is aborted
Exits ==
    /\ Pending # {} => watcher
    /\ exiting => \A t \in Pending \ aborting : timer[t].zero
    /\ patched => \A t \in aborting : ~timer[t].zero
    /\ patched /\ ~exiting => \A t \in At({"tree"}) : ~timer[t].zero
    /\ ZeroOnTime

Inv == AccountsExact /\ Shape /\ Exits

Running == At({"running"})

\* The timers that hold the VM of r
Users(r) == {t \in Timer : timer[t].vm = r}

\* What VmExact says of r
Counted(r) == count[r] = Cardinality(Users(r)) + IF r \in alive THEN 1 ELSE 0

-----------------------------------------------------------------------------
(* Counting.                                                                 *)

LEMMA Finite ==
    ASSUME NEW S \in SUBSET Timer
    PROVE  IsFiniteSet(S) /\ Cardinality(S) \in Nat
BY FiniteAssumption, FS_Subset, FS_CardinalityType

LEMMA OneMore ==
    ASSUME NEW S \in SUBSET Timer, NEW t \in Timer \ S
    PROVE  Cardinality(S \cup {t}) = Cardinality(S) + 1
BY Finite, FS_AddElement

LEMMA OneLess ==
    ASSUME NEW S \in SUBSET Timer, NEW t \in S
    PROVE  Cardinality(S \ {t}) = Cardinality(S) - 1 /\ Cardinality(S) > 0
<1>1. Cardinality(S \ {t}) = Cardinality(S) - 1
  BY Finite, FS_RemoveElement
<1>2. Cardinality(S \ {t}) \in Nat /\ Cardinality(S) \in Nat
  BY Finite
<1> QED
  BY <1>1, <1>2

\* The places of the timers, the VM of the code that runs
LEMMA Places ==
    ASSUME Inv
    PROVE  /\ \A t \in Timer : timer[t] \in TimerCtx
           /\ Pending = {t \in Timer : timer[t].at \in {"tree", "posted"}}
           /\ Running = {t \in Timer : timer[t].at = "running"}
           /\ Pending \in SUBSET Timer /\ Running \in SUBSET Timer
           /\ pending = Cardinality(Pending) /\ running = Cardinality(Running)
           /\ pending \in Nat /\ running \in Nat
           /\ \A r \in Req : Users(r) \in SUBSET Timer /\ count[r] \in Nat
           /\ timer \in [Timer -> TimerCtx] /\ count \in [Req -> Nat]
           /\ alive \subseteq Req /\ aborting \subseteq Pending
           /\ cur \in alive \cup Running \cup {None}
           /\ \A r \in Req : Counted(r)
BY DEF Inv, AccountsExact, TypeOK, CountsExact, VmExact, Counted, Pending, Running, Users, At

LEMMA HoldsVm ==
    ASSUME Inv, cur # None
    PROVE  /\ VmOf(cur) \in Req
           /\ cur \in Req => VmOf(cur) = cur /\ cur \in alive
           /\ cur \notin Req => cur \in Timer /\ cur \in Running /\ VmOf(cur) = timer[cur].vm
BY Places, IdsAssumption DEF VmOf, Inv, Shape

\* The accounts of the next state
LEMMA AccountsNext ==
    ASSUME patched \in BOOLEAN, patched' = patched, watcher' \in BOOLEAN, exiting' \in BOOLEAN,
           timer' \in [Timer -> TimerCtx],
           alive' \subseteq Req, count' \in [Req -> Nat],
           pending' \in Nat, running' \in Nat,
           aborting' \subseteq Pending', cur' \in alive' \cup Running' \cup {None},
           pending' = Cardinality(Pending'), running' = Cardinality(Running'),
           pending' <= MaxPending, running' <= MaxRunning,
           \A r \in Req : Counted(r)'
    PROVE  AccountsExact'
BY DEF AccountsExact, TypeOK, CountsExact, Limits, VmExact, Counted, Users, Running, Pending, At

-----------------------------------------------------------------------------
(* Requests.                                                                 *)

\* A step that leaves the timers alone
LEMMA SameTimers ==
    ASSUME timer' = timer
    PROVE  /\ Pending' = Pending /\ Running' = Running /\ At({"tree"})' = At({"tree"})
           /\ \A r : Users(r)' = Users(r)
BY DEF Pending, Running, Users, At

LEMMA RequestInv == ASSUME Inv, NEW r \in Req, Request(r) PROVE Inv'
<1>1. /\ timer' = timer /\ count' = [count EXCEPT ![r] = 1] /\ alive' = alive \cup {r}
      /\ r \notin alive /\ count[r] = 0 /\ cur' = r
      /\ UNCHANGED <<patched, pending, running, watcher, exiting, aborting>>
  BY DEF Request
<1>2. \A q \in Req : Counted(q)'
  <2> TAKE q \in Req
  <2>1. Users(q)' = Users(q) /\ Counted(q) /\ count[q] \in Nat
    BY <1>1, SameTimers, Places
  <2>2. Cardinality(Users(q)) \in Nat
    BY Finite, Places
  <2>3. CASE q = r
    BY <1>1, <2>1, <2>2, <2>3, Places DEF Counted
  <2>4. CASE q # r
    BY <1>1, <2>1, <2>4, Places DEF Counted
  <2> QED
    BY <2>3, <2>4
<1>3. AccountsExact'
  BY <1>1, <1>2, Places, SameTimers, AccountsNext DEF Inv, AccountsExact, TypeOK, Limits
<1>4. Shape' /\ Exits'
  BY <1>1, SameTimers DEF Inv, Shape, Exits, ZeroOnTime
<1> QED
  BY <1>3, <1>4 DEF Inv

\* Steps that only give the CPU to somebody or take it back
LEMMA SwitchInv ==
    ASSUME Inv, UNCHANGED <<patched, timer, alive, count, pending, running, watcher,
                            exiting, aborting>>,
           cur' \in alive \cup Running \cup {None}
    PROVE  Inv'
<1>1. \A r \in Req : Counted(r)'
  BY SameTimers, Places DEF Counted
<1>2. AccountsExact'
  BY <1>1, Places, SameTimers, AccountsNext DEF Inv, AccountsExact, TypeOK, Limits
<1>3. Shape' /\ Exits'
  BY SameTimers DEF Inv, Shape, Exits, ZeroOnTime
<1> QED
  BY <1>2, <1>3 DEF Inv

LEMMA ResumeInv == ASSUME Inv, NEW x, Resume(x) PROVE Inv'
<1>1. x \in alive \cup Running
  BY Places DEF Resume
<1> QED
  BY <1>1, SwitchInv DEF Resume

LEMMA SuspendInv == ASSUME Inv, Suspend PROVE Inv'
BY SwitchInv DEF Suspend

\* A request or the fake request of a timer ends
LEMMA EndInv == ASSUME Inv, End PROVE Inv'
<1> DEFINE r == VmOf(cur)
<1>1. /\ r \in Req
      /\ cur \in Req => r = cur /\ cur \in alive
      /\ cur \notin Req => cur \in Timer /\ cur \in Running /\ r = timer[cur].vm
  BY HoldsVm DEF End
<1>2. /\ alive' = alive \ {cur} /\ cur' = None
      /\ timer' = [t \in Timer |-> IF t = cur THEN NoTimer ELSE timer[t]]
      /\ running' = IF cur \in Timer THEN running - 1 ELSE running
      /\ count' = [count EXCEPT ![r] = @ - 1]
      /\ UNCHANGED <<patched, pending, watcher, exiting, aborting>>
  BY DEF End
<1> HIDE DEF r
<1>3. NoTimer \in TimerCtx /\ NoTimer.at = "none" /\ NoTimer.vm \notin Req
  BY IdsAssumption DEF NoTimer, TimerCtx
<1>4. /\ timer' \in [Timer -> TimerCtx]
      /\ \A t \in Timer : timer'[t] = IF t = cur THEN NoTimer ELSE timer[t]
  BY <1>2, <1>3, Places
<1>5. /\ Pending' = Pending /\ Running' = Running \ {cur}
      /\ \A q \in Req : Users(q)' = Users(q) \ {cur}
      /\ At({"tree"})' = At({"tree"})
  <2>1. cur \in Timer => cur \in Running
    BY <1>1, IdsAssumption
  <2>2. Pending' = {t \in Timer : timer'[t].at \in {"tree", "posted"}}
    BY DEF Pending, At
  <2> QED
    BY <1>3, <1>4, <2>1, <2>2, Places DEF Running, Users, At
<1>6. running' = Cardinality(Running')
  <2>1. CASE cur \in Timer
    BY <1>1, <1>2, <1>5, <2>1, Places, OneLess, IdsAssumption
  <2>2. CASE cur \notin Timer
    <3>1. Running' = Running
      BY <1>5, <2>2, Places
    <3> QED
      BY <1>2, <2>2, <3>1, Places
  <2> QED
    BY <2>1, <2>2
<1>7. \A q \in Req : Counted(q)' /\ count'[q] \in Nat
  <2> TAKE q \in Req
  <2>1. /\ Counted(q) /\ count[q] \in Nat /\ Users(q)' = Users(q) \ {cur}
        /\ Cardinality(Users(q)) \in Nat /\ Users(q) \in SUBSET Timer
        /\ count'[q] = IF q = r THEN count[q] - 1 ELSE count[q]
    BY <1>1, <1>2, <1>5, Places, Finite
  <2>2. CASE q # r
    <3>1. cur \notin Users(q) /\ (q \in alive' <=> q \in alive)
      BY <1>1, <1>2, <2>2, IdsAssumption DEF Users
    <3>2. Users(q)' = Users(q)
      BY <2>1, <3>1
    <3> QED
      BY <2>1, <2>2, <3>1, <3>2 DEF Counted
  <2>3. CASE q = r /\ cur \in Req
    <3>1. cur \notin Users(q) /\ q \in alive /\ q \notin alive'
      BY <1>1, <1>2, <2>3, IdsAssumption DEF Users
    <3>2. Users(q)' = Users(q)
      BY <2>1, <3>1
    <3>3. count'[q] = count[q] - 1 /\ count[q] = Cardinality(Users(q)) + 1
      BY <2>1, <2>3, <3>1 DEF Counted
    <3>4. count'[q] = Cardinality(Users(q)) /\ count'[q] \in Nat
      BY <2>1, <3>3
    <3>5. count'[q] = Cardinality(Users(q)') /\ Cardinality(Users(q)') \in Nat
      BY <2>1, <3>2, <3>4
    <3> QED
      BY <3>1, <3>4, <3>5 DEF Counted
  <2>4. CASE q = r /\ cur \notin Req
    <3>1. cur \in Users(q) /\ (q \in alive' <=> q \in alive)
      BY <1>1, <1>2, <2>4 DEF Users
    <3>2. Cardinality(Users(q)') = Cardinality(Users(q)) - 1 /\ Cardinality(Users(q)) > 0
      BY <2>1, <3>1, OneLess
    <3> QED
      BY <2>1, <2>4, <3>1, <3>2 DEF Counted
  <2> QED
    BY <2>2, <2>3, <2>4
<1>8. AccountsExact'
  <2>1. running' \in Nat /\ running' <= MaxRunning
    <3>1. running' \in Nat
      BY <1>5, <1>6, Finite, Places
    <3> QED
      BY <1>2, <3>1, Places, LimitAssumption DEF Inv, AccountsExact, Limits
  <2>2. count' \in [Req -> Nat]
    BY <1>2, <1>7, Places
  <2> QED
    BY <1>2, <1>4, <1>5, <1>6, <1>7, <2>1, <2>2, Places, AccountsNext
    DEF Inv, AccountsExact, TypeOK, Limits
<1>9. Shape'
  BY <1>3, <1>4 DEF Inv, Shape, NoTimer
<1>10. Exits'
  <2>1. ZeroOnTime'
    BY <1>2, <1>4 DEF Inv, Exits, ZeroOnTime, NoTimer
  <2>2. \A t \in Pending \cup At({"tree"}) : timer'[t] = timer[t]
    <3>1. cur \notin Pending \cup At({"tree"})
      BY <1>1, IdsAssumption DEF Pending, Running, At
    <3> QED
      BY <1>4, <3>1 DEF Pending, At
  <2>3. aborting \subseteq Pending
    BY Places
  <2> QED
    BY <1>2, <1>5, <2>1, <2>2, <2>3 DEF Inv, Exits
<1> QED
  BY <1>8, <1>9, <1>10 DEF Inv

-----------------------------------------------------------------------------
(* Timers.                                                                   *)

LEMMA CreateInv ==
    ASSUME Inv, NEW t \in Timer, NEW every \in BOOLEAN, NEW zero \in BOOLEAN,
           Create(t, every, zero)
    PROVE  Inv'
<1> DEFINE r == VmOf(cur)
           new == [at |-> IF patched /\ zero /\ ~exiting THEN "posted" ELSE "tree",
                   every |-> every, zero |-> zero, premature |-> FALSE, vm |-> r]
<1>1. /\ r \in Req /\ timer[t].at = "none"
      /\ ~(every /\ zero) /\ ~(exiting /\ ~zero) /\ pending < MaxPending
      /\ watcher' = TRUE /\ timer' = [timer EXCEPT ![t] = new]
      /\ count' = [count EXCEPT ![r] = @ + 1] /\ pending' = pending + 1
      /\ UNCHANGED <<patched, alive, running, exiting, aborting, cur>>
  BY HoldsVm, Places, LimitAssumption DEF Create, TooMany
<1> HIDE DEF r
<1>2. /\ new \in TimerCtx /\ new.at \in {"tree", "posted"} /\ new.vm = r /\ new.zero = zero
      /\ new.every = every /\ ~new.premature
      /\ new.at = "posted" <=> patched /\ zero /\ ~exiting
  BY <1>1 DEF TimerCtx
<1> HIDE DEF new
<1>3. /\ timer' \in [Timer -> TimerCtx]
      /\ \A u \in Timer : timer'[u] = IF u = t THEN new ELSE timer[u]
  BY <1>1, <1>2, Places
<1>4. timer[t] = NoTimer /\ timer[t].vm \notin Req
  <2>1. timer[t] = NoTimer
    BY <1>1 DEF Inv, Shape
  <2>2. NoTimer.vm \notin Req
    BY IdsAssumption DEF NoTimer
  <2> QED
    BY <2>1, <2>2
<1>5. /\ Pending' = Pending \cup {t} /\ t \notin Pending /\ Running' = Running
      /\ \A q \in Req : Users(q)' = IF q = r THEN Users(q) \cup {t} ELSE Users(q)
      /\ \A q \in Req : t \notin Users(q)
  BY <1>1, <1>2, <1>3, <1>4, Places DEF Pending, Running, Users, At
<1>6. \A q \in Req : Counted(q)' /\ count'[q] \in Nat
  <2> TAKE q \in Req
  <2>1. /\ Counted(q) /\ count[q] \in Nat /\ t \notin Users(q)
        /\ Cardinality(Users(q)) \in Nat /\ Users(q) \in SUBSET Timer
        /\ count'[q] = IF q = r THEN count[q] + 1 ELSE count[q]
    BY <1>1, <1>5, Places, Finite
  <2>2. CASE q # r
    BY <1>1, <1>5, <2>1, <2>2 DEF Counted
  <2>3. CASE q = r
    <3>1. Cardinality(Users(q)') = Cardinality(Users(q)) + 1
      BY <1>5, <2>1, <2>3, OneMore
    <3> QED
      BY <1>1, <2>1, <2>3, <3>1 DEF Counted
  <2> QED
    BY <2>2, <2>3
<1>7. AccountsExact'
  <2>1. pending' = Cardinality(Pending') /\ pending' \in Nat /\ pending' <= MaxPending
    BY <1>1, <1>5, Places, OneMore, LimitAssumption
  <2>2. count' \in [Req -> Nat]
    BY <1>1, <1>6, Places
  <2>3. aborting' \subseteq Pending' /\ cur' \in alive' \cup Running' \cup {None}
    BY <1>1, <1>5, Places
  <2> QED
    BY <1>1, <1>3, <1>5, <1>6, <2>1, <2>2, <2>3, Places, AccountsNext
    DEF Inv, AccountsExact, TypeOK, Limits
<1>8. Shape'
  BY <1>1, <1>2, <1>3 DEF Inv, Shape
<1>9. Exits'
  <2>1. ZeroOnTime'
    BY <1>1, <1>2, <1>3 DEF Inv, Exits, ZeroOnTime
  <2>2. exiting' => \A u \in Pending' \ aborting' : timer'[u].zero
    BY <1>1, <1>2, <1>3, <1>5, Places DEF Inv, Exits
  <2>3. patched' => \A u \in aborting' : ~timer'[u].zero
    BY <1>1, <1>3, <1>5, Places DEF Inv, Exits
  <2>4. patched' /\ ~exiting' => \A u \in At({"tree"})' : ~timer'[u].zero
    BY <1>1, <1>2, <1>3 DEF Inv, Exits, At
  <2> QED
    BY <1>1, <2>1, <2>2, <2>3, <2>4 DEF Exits
<1> QED
  BY <1>7, <1>8, <1>9 DEF Inv

\* What the handler makes of the timer t and of the event n of the next one
LEMMA HandledTimers ==
    ASSUME Inv, NEW t \in Pending, NEW n \in Timer, NEW premature \in BOOLEAN,
           Handled(t, n, premature)
    PROVE  /\ timer' \in [Timer -> TimerCtx]
           /\ \A x \in Timer \ {t, n} : timer'[x] = timer[x]
           /\ Repeats(t) =>
                  /\ n # t /\ timer[n] = NoTimer
                  /\ timer'[n].at = "tree" /\ timer'[n].vm = timer[t].vm
                  /\ timer'[n].every = timer[t].every /\ timer'[n].zero = timer[t].zero
           /\ ~Repeats(t) /\ n # t => timer'[n] = timer[n]
           /\ NoRoom => timer'[t] = NoTimer
           /\ ~NoRoom =>
                  /\ timer'[t].at = "running" /\ timer'[t].vm = timer[t].vm
                  /\ timer'[t].every = timer[t].every /\ timer'[t].zero = timer[t].zero
                  /\ timer'[t].premature = premature
<1> DEFINE u == [timer[t] EXCEPT !.premature = premature]
           next == [u EXCEPT !.at = "tree"]
           runs == [u EXCEPT !.at = "running"]
           last == IF NoRoom THEN NoTimer ELSE runs
           rest == IF Repeats(t) THEN [timer EXCEPT ![n] = next] ELSE timer
<1>1. t \in Timer /\ timer[t] \in TimerCtx /\ timer[t].at \in {"tree", "posted"}
  BY Places
<1>2. Repeats(t) => n # t /\ timer[n] = NoTimer
  BY <1>1 DEF Handled, Inv, Shape
<1>3. timer' = [rest EXCEPT ![t] = last]
  BY DEF Handled
<1>4. /\ u \in TimerCtx /\ u.vm = timer[t].vm /\ u.every = timer[t].every
      /\ u.zero = timer[t].zero /\ u.premature = premature
  BY <1>1 DEF TimerCtx
<1> HIDE DEF u
<1>5. /\ next \in TimerCtx /\ next.at = "tree" /\ next.vm = timer[t].vm
      /\ next.every = timer[t].every /\ next.zero = timer[t].zero
      /\ runs \in TimerCtx /\ runs.at = "running" /\ runs.vm = timer[t].vm
      /\ runs.every = timer[t].every /\ runs.zero = timer[t].zero
      /\ runs.premature = premature
  BY <1>4 DEF TimerCtx
<1> HIDE DEF next, runs
<1>6. NoTimer \in TimerCtx /\ last \in TimerCtx
  BY <1>5, IdsAssumption DEF TimerCtx, NoTimer
<1> HIDE DEF last
<1>7. /\ rest \in [Timer -> TimerCtx] /\ \A x \in Timer \ {n} : rest[x] = timer[x]
      /\ IF Repeats(t) THEN rest[n] = next ELSE rest[n] = timer[n]
  BY <1>5, Places
<1> HIDE DEF rest
<1>8. /\ timer' \in [Timer -> TimerCtx] /\ timer'[t] = last
      /\ \A x \in Timer \ {t} : timer'[x] = rest[x]
  BY <1>1, <1>3, <1>6, <1>7
<1>9. IF NoRoom THEN last = NoTimer ELSE last = runs
  BY DEF last
<1> QED
  BY <1>2, <1>5, <1>7, <1>8, <1>9

\* The handler of a timer, in its time or when the worker exits
LEMMA HandledInv ==
    ASSUME Inv, NEW t \in Pending, NEW n \in Timer, NEW premature \in BOOLEAN,
           Handled(t, n, premature), cur = None,
           UNCHANGED <<patched, alive, watcher, exiting>>, aborting' = aborting \ {t},
           premature => t \in aborting
    PROVE  Inv'
<1>0. PICK r \in Req : r = timer[t].vm
  BY Places DEF Inv, Shape
<1> DEFINE E == IF Repeats(t) THEN {n} ELSE {}
           D == IF NoRoom THEN {t} ELSE {}
<1>1. /\ t \in Timer /\ timer[t] \in TimerCtx /\ timer[t].at \in {"tree", "posted"}
      /\ E \in SUBSET Timer /\ t \notin E
      /\ \A x \in E : timer[x] = NoTimer /\ timer[x].vm \notin Req
  <2>1. NoTimer.vm \notin Req
    BY IdsAssumption DEF NoTimer
  <2>2. /\ t \in Timer /\ timer[t] \in TimerCtx /\ timer[t].at \in {"tree", "posted"}
    BY Places
  <2> QED
    BY <2>1, <2>2, HandledTimers
<1>2. /\ \A x \in Timer \ ({t} \cup E) : timer'[x] = timer[x]
      /\ \A x \in E : /\ timer'[x].at = "tree" /\ timer'[x].vm = r
                      /\ timer'[x].every = timer[t].every /\ timer'[x].zero = timer[t].zero
      /\ IF NoRoom THEN timer'[t] = NoTimer
         ELSE /\ timer'[t].at = "running" /\ timer'[t].vm = r
              /\ timer'[t].every = timer[t].every /\ timer'[t].zero = timer[t].zero
              /\ timer'[t].premature = premature
  BY <1>0, HandledTimers
<1>3. /\ NoTimer.at = "none" /\ NoTimer.vm \notin Req /\ ~NoTimer.zero /\ ~NoTimer.every
  BY IdsAssumption DEF NoTimer
<1>4. /\ pending' = IF Repeats(t) THEN pending ELSE pending - 1
      /\ running' = IF NoRoom THEN running ELSE running + 1
      /\ cur' = IF NoRoom THEN cur ELSE t
  BY DEF Handled, PendingAfter
<1>5. /\ count' \in [Req -> Int]
      /\ \A q \in Req \ {r} : count'[q] = count[q]
      /\ count'[r] = count[r] + (IF Repeats(t) THEN 1 ELSE 0) - (IF NoRoom THEN 1 ELSE 0)
  <2>1. /\ count \in [Req -> Nat] /\ r \in Req
        /\ count' = IF NoRoom
                    THEN [(IF Repeats(t) THEN [count EXCEPT ![r] = @ + 1] ELSE count)
                              EXCEPT ![r] = @ - 1]
                    ELSE IF Repeats(t) THEN [count EXCEPT ![r] = @ + 1] ELSE count
    BY <1>0, <1>1, Places DEF Handled, Copied, TimerCtx
  <2>2. CASE Repeats(t)
    BY <2>1, <2>2
  <2>3. CASE ~Repeats(t)
    BY <2>1, <2>3
  <2> QED
    BY <2>2, <2>3
<1>6. /\ Pending' = (Pending \ {t}) \cup E /\ E \cap Pending = {}
      /\ Running' = Running \cup ({t} \ D) /\ t \notin Running
      /\ Users(r)' = (Users(r) \ D) \cup E /\ E \cap Users(r) = {} /\ t \in Users(r)
      /\ \A q \in Req \ {r} : Users(q)' = Users(q)
  <2>1. E \cap Pending = {} /\ E \cap Running = {} /\ \A q \in Req : E \cap Users(q) = {}
    BY <1>1, <1>3 DEF Pending, Running, Users, At
  <2>2. t \notin Running /\ t \in Users(r)
    BY <1>0, <1>1 DEF Running, Users, At
  <2>3. Pending' = (Pending \ {t}) \cup E
    BY <1>1, <1>2, <1>3 DEF Pending, At
  <2>4. Running' = Running \cup ({t} \ D)
    BY <1>1, <1>2, <1>3, <2>1 DEF Running, At
  <2>5. Users(r)' = (Users(r) \ D) \cup E
    BY <1>0, <1>1, <1>2, <1>3 DEF Users
  <2>6. \A q \in Req \ {r} : Users(q)' = Users(q)
    BY <1>0, <1>1, <1>2, <1>3 DEF Users
  <2> HIDE DEF E, D
  <2> QED
    BY <2>1, <2>2, <2>3, <2>4, <2>5, <2>6
<1>7. pending' = Cardinality(Pending') /\ running' = Cardinality(Running')
  <2>1. Cardinality(Pending \ {t}) = pending - 1 /\ Pending \ {t} \in SUBSET Timer
    BY OneLess, Places
  <2>2. Cardinality(Pending') = IF Repeats(t) THEN pending ELSE pending - 1
    <3>1. CASE Repeats(t)
      <4>1. Pending' = (Pending \ {t}) \cup {n} /\ n \in Timer \ (Pending \ {t})
        BY <1>6, <3>1
      <4>2. Cardinality(Pending') = Cardinality(Pending \ {t}) + 1
        BY <2>1, <4>1, OneMore
      <4> QED
        BY <2>1, <3>1, <4>2, Places
    <3>2. CASE ~Repeats(t)
      <4>1. Pending' = Pending \ {t}
        BY <1>6, <3>2
      <4> QED
        BY <2>1, <3>2, <4>1
    <3> QED
      BY <3>1, <3>2
  <2>3. Cardinality(Running') = IF NoRoom THEN running ELSE running + 1
    <3>1. CASE NoRoom
      <4>1. Running' = Running
        BY <1>6, <3>1
      <4> QED
        BY <3>1, <4>1, Places
    <3>2. CASE ~NoRoom
      <4>1. Running' = Running \cup {t} /\ t \in Timer \ Running
        BY <1>1, <1>6, <3>2
      <4> QED
        BY <3>2, <4>1, OneMore, Places
    <3> QED
      BY <3>1, <3>2
  <2> QED
    BY <1>4, <2>2, <2>3
<1>8. Cardinality(Users(r)') =
          Cardinality(Users(r)) + (IF Repeats(t) THEN 1 ELSE 0) - (IF NoRoom THEN 1 ELSE 0)
  <2>1. /\ Users(r) \in SUBSET Timer /\ Cardinality(Users(r)) \in Nat
    BY Places, Finite
  <2>2. PICK rest : rest = Users(r) \ D
    OBVIOUS
  <2>3. /\ rest \in SUBSET Timer /\ Cardinality(rest) \in Nat
        /\ Cardinality(rest) = Cardinality(Users(r)) - (IF NoRoom THEN 1 ELSE 0)
    <3>1. CASE NoRoom
      <4>1. rest = Users(r) \ {t} /\ t \in Users(r)
        BY <1>6, <2>2, <3>1
      <4> QED
        BY <2>1, <3>1, <4>1, OneLess
    <3>2. CASE ~NoRoom
      <4>1. rest = Users(r)
        BY <2>2, <3>2
      <4> QED
        BY <2>1, <3>2, <4>1
    <3> QED
      BY <3>1, <3>2
  <2>4. Users(r)' = rest \cup E /\ E \cap rest = {}
    BY <1>6, <2>2
  <2>5. CASE Repeats(t)
    <3>1. Users(r)' = rest \cup {n} /\ n \in Timer \ rest
      BY <2>4, <2>5
    <3> QED
      BY <2>1, <2>3, <2>5, <3>1, OneMore
  <2>6. CASE ~Repeats(t)
    <3>1. Users(r)' = rest
      BY <2>4, <2>6
    <3> QED
      BY <2>1, <2>3, <2>6, <3>1
  <2> QED
    BY <2>5, <2>6
<1>9. \A q \in Req : Counted(q)' /\ count'[q] \in Nat
  <2> TAKE q \in Req
  <2>1. Counted(q) /\ count[q] \in Nat /\ alive' = alive
    BY Places
  <2>2. CASE q # r
    BY <1>5, <1>6, <2>1, <2>2 DEF Counted
  <2>3. CASE q = r
    <3>1. Cardinality(Users(r)) \in Nat /\ Cardinality(Users(r)') \in Nat
      <4>1. Users(r)' \in SUBSET Timer
        BY DEF Users
      <4> QED
        BY <4>1, Finite, Places
    <3> DEFINE here == IF r \in alive THEN 1 ELSE 0
    <3>2. here \in Nat /\ count[r] = Cardinality(Users(r)) + here
      BY <2>1, <2>3 DEF Counted
    <3> HIDE DEF here
    <3>3. count'[r] = Cardinality(Users(r)') + here
      BY <1>5, <1>8, <3>1, <3>2
    <3>4. count'[r] \in Nat
      BY <3>1, <3>2, <3>3
    <3> QED
      BY <2>1, <2>3, <3>1, <3>3, <3>4 DEF Counted, here
  <2> QED
    BY <2>2, <2>3
<1>10. AccountsExact'
  <2>1. /\ pending' \in Nat /\ running' \in Nat
    <3>1. Pending' \in SUBSET Timer /\ Running' \in SUBSET Timer
      BY DEF Pending, Running, At
    <3> QED
      BY <1>7, <3>1, Finite
  <2>2. pending' <= MaxPending /\ running' <= MaxRunning
    BY <1>4, Places, LimitAssumption DEF Inv, AccountsExact, Limits, NoRoom
  <2>3. count' \in [Req -> Nat]
    BY <1>5, <1>9
  <2>4. aborting' \subseteq Pending' /\ cur' \in alive' \cup Running' \cup {None}
    BY <1>1, <1>4, <1>6, Places
  <2>5. timer' \in [Timer -> TimerCtx]
    BY HandledTimers
  <2> QED
    BY <1>7, <1>9, <2>1, <2>2, <2>3, <2>4, <2>5, Places, AccountsNext
    DEF Inv, AccountsExact, TypeOK
<1>11. Shape'
  <2> SUFFICES ASSUME NEW x \in Timer
               PROVE  /\ IF timer'[x].at = "none" THEN timer'[x] = NoTimer ELSE timer'[x].vm \in Req
                      /\ timer'[x].every => ~timer'[x].zero
                      /\ timer'[x].at = "posted" => timer'[x].zero
    BY DEF Shape
  <2>1. timer[t].every => ~timer[t].zero
    BY <1>1 DEF Inv, Shape
  <2>2. CASE x \notin {t} \cup E
    BY <1>2, <2>2 DEF Inv, Shape
  <2>3. CASE x \in E
    BY <1>0, <1>2, <2>1, <2>3
  <2>4. CASE x = t
    BY <1>0, <1>2, <1>3, <2>1, <2>4
  <2> QED
    BY <2>2, <2>3, <2>4
<1>12. Exits'
  <2>1. ZeroOnTime'
    <3> SUFFICES ASSUME patched, NEW x \in Timer, timer'[x].zero
                 PROVE  ~timer'[x].premature
      BY DEF ZeroOnTime
    <3>1. CASE x \notin {t} \cup E
      BY <1>2, <3>1 DEF Inv, Exits, ZeroOnTime
    <3>2. CASE x \in E
      BY <1>1, <1>2, <3>2 DEF Inv, Shape, Repeats
    <3>3. CASE x = t
      BY <1>2, <1>3, <3>3 DEF Inv, Exits
    <3> QED
      BY <3>1, <3>2, <3>3
  <2>2. exiting' => \A x \in Pending' \ aborting' : timer'[x].zero
    <3>1. exiting => E = {}
      BY DEF Repeats
    <3> QED
      BY <1>1, <1>2, <1>6, <3>1, Places DEF Inv, Exits
  <2>3. patched' => \A x \in aborting' : ~timer'[x].zero
    BY <1>1, <1>2, <1>6, Places DEF Inv, Exits
  <2>4. patched' /\ ~exiting' => \A x \in At({"tree"})' : ~timer'[x].zero
    <3> SUFFICES ASSUME patched, ~exiting, NEW x \in Timer, timer'[x].at = "tree"
                 PROVE  ~timer'[x].zero
      BY DEF At
    <3>1. CASE x \notin {t} \cup E
      BY <1>2, <3>1 DEF Inv, Exits, At
    <3>2. CASE x \in E
      BY <1>1, <1>2, <3>2 DEF Inv, Shape, Repeats
    <3>3. CASE x = t
      BY <1>2, <1>3, <3>3
    <3> QED
      BY <3>1, <3>2, <3>3
  <2>5. watcher'
    BY DEF Inv, Exits
  <2> QED
    BY <2>1, <2>2, <2>3, <2>4, <2>5 DEF Exits
<1> QED
  BY <1>10, <1>11, <1>12 DEF Inv

LEMMA ExpireInv == ASSUME Inv, NEW t \in Timer, Expire(t) PROVE Inv'
<1>1. PICK n \in Timer : Handled(t, n, FALSE)
  BY DEF Expire
<1>2. t \in Pending /\ aborting' = aborting \ {t}
  BY Places DEF Expire
<1> QED
  BY <1>1, <1>2, HandledInv DEF Expire

LEMMA AbortInv == ASSUME Inv, NEW t \in Timer, Abort(t) PROVE Inv'
<1>1. PICK n \in Timer : Handled(t, n, TRUE)
  BY DEF Abort
<1>2. t \in Pending
  BY Places DEF Abort
<1> QED
  BY <1>1, <1>2, HandledInv DEF Abort

LEMMA QuitInv == ASSUME Inv, Quit PROVE Inv'
<1>1. /\ ~exiting /\ exiting' = TRUE /\ aborting' = IF watcher THEN Found ELSE {}
      /\ UNCHANGED <<patched, timer, alive, count, pending, running, watcher, cur>>
  BY DEF Quit
<1>2. aborting' = At({"tree"})
  <2>1. At({"tree"}) \subseteq Pending /\ IsFiniteSet(Pending)
    BY Places, Finite DEF At
  <2>2. pending = 0 \/ ~watcher => Pending = {}
    BY <2>1, Places, FS_EmptySet DEF Inv, Exits
  <2> QED
    BY <1>1, <2>1, <2>2 DEF Found
<1>3. \A r \in Req : Counted(r)'
  BY <1>1, SameTimers, Places DEF Counted
<1>4. At({"tree"}) \subseteq Pending /\ \A t \in Pending \ At({"tree"}) : timer[t].zero
  BY Places DEF At, Inv, Shape
<1>5. AccountsExact'
  BY <1>1, <1>2, <1>3, <1>4, Places, SameTimers, AccountsNext
  DEF Inv, AccountsExact, TypeOK, Limits
<1>6. Shape' /\ Exits'
  BY <1>1, <1>2, <1>4, SameTimers DEF Inv, Shape, Exits, ZeroOnTime
<1> QED
  BY <1>5, <1>6 DEF Inv

-----------------------------------------------------------------------------

LEMMA InitInv == Init => Inv
<1> SUFFICES ASSUME Init PROVE Inv
  OBVIOUS
<1>1. \A t \in Timer : timer[t] = NoTimer
  BY DEF Init
<1>2. NoTimer \in TimerCtx /\ NoTimer.at = "none" /\ NoTimer.vm \notin Req
      /\ ~NoTimer.every /\ ~NoTimer.zero
  BY IdsAssumption DEF NoTimer, TimerCtx
<1>3. /\ Pending = {} /\ Running = {} /\ At({"tree"}) = {}
      /\ \A r \in Req : {t \in Timer : timer[t].vm = r} = {}
  BY <1>1, <1>2 DEF Pending, Running, At
<1>4. TypeOK
  BY <1>1, <1>2 DEF Init, TypeOK
<1>5. CountsExact /\ Limits /\ VmExact
  BY <1>3, FS_EmptySet, LimitAssumption DEF Init, CountsExact, Limits, VmExact, Running
<1>6. Shape /\ Exits
  BY <1>1, <1>2, <1>3 DEF Init, Shape, Exits, ZeroOnTime
<1> QED
  BY <1>4, <1>5, <1>6 DEF Inv, AccountsExact

LEMMA NextInv == Inv /\ [Next]_vars => Inv'
<1> SUFFICES ASSUME Inv, [Next]_vars PROVE Inv'
  OBVIOUS
<1>1. CASE \E r \in Req : Request(r)
  BY <1>1, RequestInv
<1>2. CASE (\E x \in Req \cup Timer : Resume(x)) \/ Suspend
  BY <1>2, ResumeInv, SuspendInv
<1>3. CASE End
  BY <1>3, EndInv
<1>4. CASE \E t \in Timer, every, zero \in BOOLEAN : Create(t, every, zero)
  BY <1>4, CreateInv
<1>5. CASE \E t \in Timer : Expire(t) \/ Abort(t)
  BY <1>5, ExpireInv, AbortInv
<1>6. CASE Quit
  BY <1>6, QuitInv
<1>7. CASE UNCHANGED vars
  BY <1>7, SwitchInv, Places DEF vars
<1> QED
  BY <1>1, <1>2, <1>3, <1>4, <1>5, <1>6, <1>7 DEF Next

\* However timers are created, repeated, expire and are aborted, the counters
\* of pending and running timers are exact and within their limits, and a VM is
\* counted for its request and for each of its timers, for any limits.
THEOREM AccountsCorrect == Spec => []AccountsExact
<1>1. Inv => AccountsExact
  BY DEF Inv
<1> QED
  BY <1>1, InitInv, NextInv, PTL DEF Spec

\* A worker that exits aborts every timer but those without delay, and with
\* posted events premature is never told to one of these.
THEOREM PrematureCorrect == Spec => []PrematureRight
<1>1. Inv => PrematureRight
  BY DEF Inv, Exits, PrematureRight, OnlyZeroAtExit
<1> QED
  BY <1>1, InitInv, NextInv, PTL DEF Spec
===============================================================================
