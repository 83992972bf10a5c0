------------------------- MODULE LightThreadsProofs -------------------------
(* Theorems about LightThreads, for every set of contexts, of API calls and *)
(* every bound.                                                             *)
EXTENDS LightThreads, FiniteSetTheorems, SequenceTheorems,
        WellFoundedInduction, TLAPS

-----------------------------------------------------------------------------
(* Type correctness.  TypeOK is not inductive: whoever is continued next    *)
(* comes from a parent link, the queue or a pending operation, so these     *)
(* must name contexts that have started, and a context that has started     *)
(* must know its parent.                                                    *)

Started(s, c) == \/ s[c].kind \in {"entry", "thread"}
                 \/ s[c].kind \in {"coro", "wrap"} /\ s[c].at # "start"

CoInv(s) ==
    /\ s \in [Co -> CoCtx]
    /\ \A c \in Co :
        /\ Started(s, c) /\ s[c].kind # "entry" => s[c].parent \in Co
        /\ s[c].parent \in Co => Started(s, s[c].parent)
        /\ s[c].pending # {} => Started(s, c)

TypeInv ==
    /\ TypeOK
    /\ CoInv(co)
    /\ cur # NoCo => Started(co, cur)
    /\ \A i \in DOMAIN posted : Started(co, posted[i])
    /\ onAbort # NoCo => co[onAbort].kind = "thread"

\* What every helper leaves alone: the tree of contexts, and what has started
SameShape(s, s2) ==
    /\ s2 \in [Co -> CoCtx]
    /\ \A c \in Co : /\ s2[c].kind = s[c].kind
                     /\ s2[c].parent = s[c].parent
                     /\ Started(s2, c) = Started(s, c)
                     /\ \/ s2[c].pending \subseteq s[c].pending
                        \/ Started(s, c)

LEMMA ShapeTransitive ==
    ASSUME NEW s1, NEW s2, NEW s3, SameShape(s1, s2), SameShape(s2, s3)
    PROVE  SameShape(s1, s3)
BY DEF SameShape

LEMMA ShapeKeepsCoInv ==
    ASSUME NEW s, NEW s2, CoInv(s), SameShape(s, s2)
    PROVE  CoInv(s2)
BY DEF SameShape, CoInv

LEMMA DelThreadsShape ==
    ASSUME NEW s \in [Co -> CoCtx], NEW D
    PROVE  SameShape(s, DelThreads(s, D))
<1> DEFINE s2 == DelThreads(s, D)
<1>1. ASSUME NEW c \in Co
      PROVE  [s[c] EXCEPT !.ref = FALSE, !.status = "dead"] \in CoCtx
  <2>1. s[c] \in CoCtx
    OBVIOUS
  <2> QED
    BY <2>1 DEF CoCtx, Statuses
<1>2. s2 \in [Co -> CoCtx]
  BY <1>1 DEF DelThreads
<1> QED
  BY <1>2 DEF DelThreads, SameShape, Started, CoCtx

LEMMA CancelOpsShape ==
    ASSUME NEW s \in [Co -> CoCtx], NEW D
    PROVE  SameShape(s, CancelOps(s, D))
<1> DEFINE s2 == CancelOps(s, D)
<1>1. s2 \in [Co -> CoCtx]
  BY DEF CancelOps, CoCtx
<1> QED
  BY <1>1 DEF CancelOps, SameShape, Started, CoCtx

LEMMA PutShape ==
    ASSUME NEW s \in [Co -> CoCtx], NEW c \in Co, NEW r \in CoCtx,
           r.kind = s[c].kind, r.parent = s[c].parent, r.at = s[c].at,
           r.pending \subseteq s[c].pending
    PROVE  SameShape(s, Put(s, c, r))
<1>1. Put(s, c, r) \in [Co -> CoCtx]
  BY DEF Put
<1> QED
  BY <1>1 DEF Put, SameShape, Started

LEMMA WithStatusShape ==
    ASSUME NEW s \in [Co -> CoCtx], NEW c \in Co, NEW st \in Statuses
    PROVE  SameShape(s, WithStatus(s, c, st))
<1> DEFINE s2 == WithStatus(s, c, st)
<1>1. s2 \in [Co -> CoCtx]
  BY DEF WithStatus, Put, CoCtx
<1> QED
  BY <1>1 DEF WithStatus, Put, SameShape, Started, CoCtx

LEMMA ContinueShape ==
    ASSUME NEW s \in [Co -> CoCtx], NEW c \in Co, Started(s, c)
    PROVE  SameShape(s, Continue(s, c))
<1> DEFINE s2 == Continue(s, c)
<1>1. s2 \in [Co -> CoCtx]
  BY DEF Continue, Put, CoCtx, Points
<1> QED
  BY <1>1 DEF Continue, Put, SameShape, Started, CoCtx

-----------------------------------------------------------------------------

\* What run_thread leaves behind when it goes on from contexts s
Outcome(s) ==
    /\ SameShape(s, co')
    /\ mode' \in Modes
    /\ cur' \in Co \cup {NoCo}
    /\ (cur' = NoCo) = (mode' \notin {"lua", "raise"})
    /\ cur' # NoCo => Started(s, cur')
    /\ uthreads' \in Int
    /\ onAbort' \in {NoCo, onAbort}

LEMMA FinalizeOutcome ==
    ASSUME NEW STATE s, NEW STATE n, CoInv(s), n \in Int,
           FinalizeThreads(s, n)
    PROVE  Outcome(s)
<1>1. IsFiniteSet(Counted(s))
  BY CoAssumption, FS_Subset DEF Counted
<1>2. Cardinality(Counted(s)) \in Nat
  BY <1>1, FS_CardinalityType
<1>3. SameShape(s, CancelOps(s, Co))
  BY CancelOpsShape DEF CoInv
<1>4. SameShape(CancelOps(s, Co), DelThreads(CancelOps(s, Co), Co))
  BY <1>3, DelThreadsShape DEF SameShape
<1>5. SameShape(s, co')
  BY <1>3, <1>4, ShapeTransitive DEF FinalizeThreads
<1> QED
  BY <1>2, <1>5 DEF FinalizeThreads, Outcome, Modes

LEMMA UserCoDoneOutcome ==
    ASSUME NEW STATE s, NEW STATE n, NEW STATE c, CoInv(s), n \in Int,
           c \in Co, Started(s, c), s[c].kind # "entry",
           UserCoDone(s, n, c)
    PROVE  Outcome(s)
<1> DEFINE p == s[c].parent
           last == s[c].kind = "thread" /\ s[c].ref
           s1 == IF last THEN DelThreads(s, {c}) ELSE s
           s2 == WithStatus(s1, p, "running")
<1>1. p \in Co /\ Started(s, p)
  BY DEF CoInv
<1>0. s \in [Co -> CoCtx]
  BY DEF CoInv
<1>2. SameShape(s, s1)
  <2>1. SameShape(s, DelThreads(s, {c}))
    BY <1>0, DelThreadsShape
  <2>2. SameShape(s, s)
    BY <1>0 DEF SameShape
  <2> QED
    BY <2>1, <2>2
<1>3. SameShape(s1, s2)
  <2>1. s1 \in [Co -> CoCtx]
    BY <1>2 DEF SameShape
  <2> HIDE DEF s1
  <2> QED
    BY <1>1, <2>1, WithStatusShape DEF Statuses
<1>4. Started(s2, p)
  BY <1>1, <1>2, <1>3 DEF SameShape
<1>5. SameShape(s2, Continue(s2, p))
  <2>1. s2 \in [Co -> CoCtx]
    BY <1>3 DEF SameShape
  <2> HIDE DEF s2
  <2> QED
    BY <1>1, <1>4, <2>1, ContinueShape
<1>6. SameShape(s, co')
  BY <1>2, <1>3, <1>5, ShapeTransitive DEF UserCoDone
<1> QED
  BY <1>1, <1>6, CoAssumption DEF UserCoDone, Outcome, Modes

LEMMA ThreadEndsOutcome ==
    ASSUME NEW STATE s, NEW STATE n, NEW STATE c, CoInv(s), n \in Int,
           c \in Co, s[c].kind = "thread",
           ThreadEnds(s, n, c)
    PROVE  Outcome(s)
<1> DEFINE p == s[c].parent
           n1 == IF s[c].ref THEN n - 1 ELSE n
           woken == Put(s, c, [s[c] EXCEPT !.waited = FALSE])
           left == Put(s, p, [s[p] EXCEPT !.zombies = @ \cup {c}])
<1>1. s \in [Co -> CoCtx] /\ p \in Co /\ Started(s, c)
  BY DEF CoInv, Started
<1>2. n1 \in Int
  OBVIOUS
<1>3. SameShape(s, woken)
  <2> DEFINE r == [s[c] EXCEPT !.waited = FALSE]
  <2>1. s[c] \in CoCtx
    BY <1>1
  <2>2. /\ r \in CoCtx
        /\ r.kind = s[c].kind /\ r.parent = s[c].parent
        /\ r.at = s[c].at /\ r.pending = s[c].pending
    BY <2>1 DEF CoCtx
  <2> HIDE DEF r
  <2> QED
    BY <1>1, <2>2, PutShape DEF r
<1>4. SameShape(s, left)
  <2> DEFINE r == [s[p] EXCEPT !.zombies = @ \cup {c}]
  <2>1. s[p] \in CoCtx
    BY <1>1
  <2>2. /\ r \in CoCtx
        /\ r.kind = s[p].kind /\ r.parent = s[p].parent
        /\ r.at = s[p].at /\ r.pending = s[p].pending
    BY <2>1 DEF CoCtx
  <2> HIDE DEF r
  <2> QED
    BY <1>1, <2>2, PutShape DEF r
<1>5. SameShape(s, DelThreads(s, {c}))
  BY <1>1, DelThreadsShape
<1>a. CASE UserCoDone(woken, n, c)
  <2>1. CoInv(woken)
    BY <1>3, ShapeKeepsCoInv
  <2>2. Started(woken, c) /\ woken[c].kind # "entry"
    BY <1>1, <1>3 DEF SameShape
  <2>3. Outcome(woken)
    BY <1>a, <2>1, <2>2, UserCoDoneOutcome
  <2> HIDE DEF woken
  <2>4. SameShape(s, co')
    BY <1>3, <2>3, ShapeTransitive DEF Outcome
  <2> QED
    BY <1>3, <2>3, <2>4 DEF Outcome, SameShape
<1>b. CASE /\ co' = WithStatus(left, c, "zombie") /\ uthreads' = n
           /\ Again /\ UNCHANGED onAbort
  <2>1. left \in [Co -> CoCtx]
    BY <1>4 DEF SameShape
  <2> HIDE DEF left
  <2>2. SameShape(left, co')
    BY <1>b, <2>1, WithStatusShape DEF Statuses
  <2>3. SameShape(s, co')
    BY <1>4, <2>2, ShapeTransitive
  <2> QED
    BY <1>b, <2>3 DEF Outcome, Again, Modes
<1>c. CASE FinalizeThreads(DelThreads(s, {c}), n1)
  <2>1. CoInv(DelThreads(s, {c}))
    BY <1>5, ShapeKeepsCoInv
  <2>2. Outcome(DelThreads(s, {c}))
    BY <1>c, <1>2, <2>1, FinalizeOutcome
  <2>3. SameShape(s, co')
    BY <1>5, <2>2, ShapeTransitive DEF Outcome
  <2> QED
    BY <1>5, <2>2, <2>3 DEF Outcome, SameShape
<1>d. CASE /\ co' = DelThreads(s, {c}) /\ uthreads' = n1
           /\ Again /\ UNCHANGED onAbort
  BY <1>d, <1>2, <1>5 DEF Outcome, Again, Modes
<1> QED
  BY <1>a, <1>b, <1>c, <1>d DEF ThreadEnds

LEMMA RaiseOutcome ==
    ASSUME NEW STATE s, NEW STATE n, NEW STATE c, CoInv(s), n \in Int,
           c \in Co, Started(s, c), Raise(s, n, c)
    PROVE  Outcome(s)
<1> DEFINE p == s[c].parent
           s1 == WithStatus(s, p, "running")
<1>1. CASE s[c].kind = "thread" /\ ThreadEnds(s, n, c)
  BY <1>1, ThreadEndsOutcome
<1>2. CASE s[c].kind = "entry" /\ FinalizeThreads(s, n)
  BY <1>2, FinalizeOutcome
<1>3. ASSUME s[c].kind \in {"coro", "wrap"}
      PROVE  /\ p \in Co /\ p # NoCo /\ Started(s, p)
             /\ SameShape(s, s1)
             /\ SameShape(s, Continue(s1, p))
  <2>1. p \in Co /\ p # NoCo /\ Started(s, p) /\ s \in [Co -> CoCtx]
    BY <1>3, CoAssumption DEF CoInv
  <2>2. SameShape(s, s1)
    BY <2>1, WithStatusShape DEF Statuses
  <2>3. s1 \in [Co -> CoCtx] /\ Started(s1, p)
    BY <2>1, <2>2 DEF SameShape
  <2>4. SameShape(s1, Continue(s1, p))
    BY <2>1, <2>3, ContinueShape
  <2> HIDE DEF s1
  <2> QED
    BY <2>1, <2>2, <2>4, ShapeTransitive
<1>4. CASE /\ s[c].kind = "coro"
           /\ co' = Continue(s1, p) /\ cur' = p /\ mode' = "lua"
           /\ uthreads' = n /\ UNCHANGED onAbort
  BY <1>3, <1>4 DEF Outcome, Modes
<1>5. CASE /\ s[c].kind = "wrap"
           /\ co' = s1 /\ cur' = p /\ mode' = "raise"
           /\ uthreads' = n /\ UNCHANGED onAbort
  BY <1>3, <1>5 DEF Outcome, Modes
<1> QED
  BY <1>1, <1>2, <1>4, <1>5 DEF Raise

LEMMA OutcomeStep ==
    ASSUME TypeInv, NEW STATE s, SameShape(co, s), Outcome(s),
           UNCHANGED posted, noAbort' \in BOOLEAN
    PROVE  TypeInv'
<1>1. SameShape(co, co')
  BY ShapeTransitive DEF Outcome
<1>2. CoInv(co')
  BY <1>1, ShapeKeepsCoInv DEF TypeInv
<1>3. TypeOK'
  BY <1>2 DEF TypeInv, TypeOK, CoInv, Outcome
<1>4. cur' # NoCo => Started(co', cur')
  BY DEF Outcome, SameShape
<1>5. \A i \in DOMAIN posted : Started(co', posted[i])
  BY <1>1 DEF TypeInv, TypeOK, SameShape
<1>6. onAbort' # NoCo => co'[onAbort'].kind = "thread"
  BY <1>1 DEF TypeInv, TypeOK, Outcome, SameShape
<1> QED
  BY <1>2, <1>3, <1>4, <1>5, <1>6 DEF TypeInv

LEMMA EndedShape ==
    ASSUME TypeInv, cur # NoCo
    PROVE  /\ SameShape(co, Ended(cur))
           /\ SameShape(co, DelThreads(Ended(cur), Reaped(cur)))
<1> DEFINE s == [co EXCEPT ![cur].status = "dead", ![cur].at = "end"]
<1>1. co \in [Co -> CoCtx] /\ cur \in Co /\ Started(co, cur)
  BY DEF TypeInv, TypeOK
<1>2. s \in [Co -> CoCtx]
  <2>1. co[cur] \in CoCtx
    BY <1>1
  <2> QED
    BY <1>1, <2>1 DEF CoCtx, Statuses, Points
<1>3. SameShape(co, s)
  BY <1>1, <1>2 DEF SameShape, Started, CoCtx
<1>4. SameShape(s, CancelOps(s, {cur}))
  BY <1>2, CancelOpsShape
<1>5. SameShape(co, Ended(cur))
  BY <1>3, <1>4, ShapeTransitive DEF Ended
<1>6. SameShape(Ended(cur), DelThreads(Ended(cur), Reaped(cur)))
  BY <1>5, DelThreadsShape DEF SameShape
<1> QED
  BY <1>5, <1>6, ShapeTransitive

\* A step that only rewrites the fields SameShape lets it rewrite, of the
\* context that runs or of others
LEMMA QuietStep ==
    ASSUME TypeInv, SameShape(co, co'),
           mode' \in Modes, cur' \in Co \cup {NoCo},
           (cur' = NoCo) = (mode' \notin {"lua", "raise"}),
           cur' # NoCo => Started(co, cur'),
           uthreads' \in Int, UNCHANGED <<onAbort, noAbort>>,
           posted' \in Seq(Co),
           \A i \in DOMAIN posted' : Started(co, posted'[i])
    PROVE  TypeInv'
<1>1. CoInv(co')
  BY ShapeKeepsCoInv DEF TypeInv
<1>2. TypeOK'
  BY <1>1 DEF TypeInv, TypeOK, CoInv
<1>3. \A i \in DOMAIN posted' : Started(co', posted'[i])
  BY DEF SameShape
<1>4. cur' # NoCo => Started(co', cur')
  BY DEF SameShape
<1>5. onAbort' # NoCo => co'[onAbort'].kind = "thread"
  BY DEF TypeInv, TypeOK, SameShape
<1> QED
  BY <1>1, <1>2, <1>3, <1>4, <1>5 DEF TypeInv

\* A context that is not in use becomes one: nothing referred to it
LEMMA NewContext ==
    ASSUME TypeInv, NEW t \in Co, Unborn(t), NEW STATE r, r \in CoCtx,
           r.kind \in {"thread", "coro", "wrap"}, r.pending = {},
           r.kind = "thread" => r.parent = cur /\ cur # NoCo,
           r.kind # "thread" => r.parent = NoCo /\ r.at = "start"
    PROVE  LET s == [co EXCEPT ![t] = r]
           IN  /\ CoInv(s)
               /\ \A c \in Co : Started(co, c) => Started(s, c) /\ c # t
               /\ \A c \in Co : co[c].kind # "none" => s[c] = co[c]
<1> DEFINE s == [co EXCEPT ![t] = r]
<1>1. s \in [Co -> CoCtx]
  BY DEF TypeInv, TypeOK
<1>2. \A c \in Co : c # t => s[c] = co[c]
  BY <1>1 DEF TypeInv, TypeOK
<1>3. s[t] = r
  BY DEF TypeInv, TypeOK
<1>4. ~Started(co, t)
  BY DEF Unborn, Started
<1>5. \A c \in Co : Started(co, c) => Started(s, c) /\ c # t
  BY <1>2, <1>4 DEF Started
<1>6. ASSUME NEW c \in Co
      PROVE  /\ Started(s, c) /\ s[c].kind # "entry" => s[c].parent \in Co
             /\ s[c].parent \in Co => Started(s, s[c].parent)
             /\ s[c].pending # {} => Started(s, c)
  <2>1. CASE c = t
    BY <1>3, <1>5, <2>1, CoAssumption DEF TypeInv, TypeOK, Started
  <2>2. CASE c # t
    BY <1>2, <1>5, <2>2 DEF TypeInv, CoInv, Started
  <2> QED
    BY <2>1, <2>2
<1> QED
  BY <1>1, <1>2, <1>5, <1>6 DEF CoInv, Unborn

LEMMA TypeInit == Init => TypeInv
<1> SUFFICES ASSUME Init PROVE TypeInv
  OBVIOUS
<1>1. FreshCo \in CoCtx
  BY DEF FreshCo, CoCtx, Statuses, Kinds, Points
<1>2. [FreshCo EXCEPT !.kind = "entry", !.ref = TRUE,
                      !.status = "running", !.at = "run"] \in CoCtx
  BY <1>1 DEF FreshCo, CoCtx, Statuses, Kinds, Points
<1>3. co \in [Co -> CoCtx]
  BY <1>1, <1>2 DEF Init
<1>4. CoInv(co)
  BY <1>3, CoAssumption DEF Init, CoInv, FreshCo, Started
<1>5. posted \in Seq(Co) /\ DOMAIN posted = {}
  BY DEF Init
<1>6. TypeOK
  <2>1. mode \in Modes /\ uthreads \in Int
    BY DEF Init, Modes
  <2>3. noAbort \in BOOLEAN
    BY Zenon DEF Init
  <2>2. /\ cur \in Co \cup {NoCo} /\ onAbort \in Co \cup {NoCo}
        /\ (cur = NoCo) = (mode \notin {"lua", "raise"})
    BY CoAssumption DEF Init
  <2> QED
    BY <1>3, <1>5, <2>1, <2>2, <2>3 DEF TypeOK
<1>7. Started(co, cur)
  BY CoAssumption DEF Init, Started, FreshCo
<1>8. onAbort = NoCo
  BY DEF Init
<1> QED
  BY <1>4, <1>5, <1>6, <1>7, <1>8 DEF TypeInv

LEMMA TypeSpawn ==
    ASSUME TypeInv, NEW t \in Co, Spawn(t)
    PROVE  TypeInv'
<1> DEFINE r == [FreshCo EXCEPT !.kind = "thread", !.ref = TRUE,
                                !.status = "running", !.parent = cur,
                                !.at = "run"]
           s == [co EXCEPT ![t] = r]
<1>1. /\ co \in [Co -> CoCtx] /\ cur \in Co /\ Started(co, cur) /\ cur # t
      /\ posted \in Seq(Co) /\ mode = "lua" /\ cur # NoCo
  BY CoAssumption DEF TypeInv, TypeOK, Spawn, Calls, Unborn, Started
<1>2. /\ r \in CoCtx /\ r.kind = "thread" /\ r.parent = cur
      /\ r.pending = {} /\ r.at = "run"
  BY <1>1 DEF FreshCo, CoCtx, Statuses, Kinds, Points
<1> HIDE DEF r
<1>3. /\ CoInv(s)
      /\ \A c \in Co : Started(co, c) => Started(s, c) /\ c # t
      /\ \A c \in Co : co[c].kind # "none" => s[c] = co[c]
  <2>1. Unborn(t)
    BY DEF Spawn
  <2>2. s = [co EXCEPT ![t] = r]
    OBVIOUS
  <2> HIDE DEF s
  <2>3. r.kind \in {"thread", "coro", "wrap"}
    BY <1>2
  <2>4. r.kind = "thread" => r.parent = cur /\ cur # NoCo
    BY <1>1, <1>2
  <2>5. r.kind # "thread" => r.parent = NoCo /\ r.at = "start"
    BY <1>2
  <2> QED
    BY <1>2, <2>1, <2>2, <2>3, <2>4, <2>5, NewContext
<1>4. co' = [co EXCEPT ![cur].at = "spawn", ![t] = r]
  BY DEF Spawn, r
<1>5. co'[t] = r /\ s[t] = r
  BY <1>1, <1>4
<1>6. /\ [co[cur] EXCEPT !.at = "spawn"] \in CoCtx
      /\ co'[cur] = [co[cur] EXCEPT !.at = "spawn"]
  <2>1. co[cur] \in CoCtx
    BY <1>1
  <2> QED
    BY <1>1, <1>4, <2>1 DEF CoCtx, Points
<1>7. co' \in [Co -> CoCtx]
  BY <1>1, <1>2, <1>4, <1>6
<1>8. \A c \in Co : c # cur => co'[c] = s[c]
  BY <1>1, <1>4, <1>5
<1>9. SameShape(s, co')
  <2>1. s[cur] = co[cur] /\ co[cur] \in CoCtx
    BY <1>1
  <2>2. \A c \in Co : c = cur \/ co'[c] = s[c]
    BY <1>8
  <2> QED
    BY <1>1, <1>6, <1>7, <2>1, <2>2 DEF SameShape, Started, CoCtx
<1>10. CoInv(co')
  BY <1>3, <1>9, ShapeKeepsCoInv
<1>11. \A c \in Co : Started(co, c) => Started(co', c)
  BY <1>3, <1>9 DEF SameShape
<1>12. Started(co', t)
  BY <1>2, <1>5 DEF Started
<1>13. /\ posted' \in Seq(Co)
       /\ \A i \in DOMAIN posted' : Started(co, posted'[i])
  BY <1>1 DEF Spawn, TypeInv
<1>14. \A i \in DOMAIN posted' : Started(co', posted'[i])
  BY <1>11, <1>13
<1>15. TypeOK'
  BY <1>1, <1>7, <1>13, CoAssumption DEF TypeInv, TypeOK, Spawn
<1>16. onAbort' # NoCo => co'[onAbort'].kind = "thread"
  BY <1>3, <1>9 DEF TypeInv, TypeOK, SameShape, Spawn
<1> QED
  BY <1>10, <1>12, <1>14, <1>15, <1>16 DEF TypeInv, Spawn

\* The facts about the coroutine that runs which every API call starts from
LEMMA Runs ==
    ASSUME TypeInv, mode \in {"lua", "raise"}
    PROVE  /\ co \in [Co -> CoCtx] /\ cur \in Co /\ cur # NoCo
           /\ Started(co, cur) /\ co[cur] \in CoCtx
           /\ posted \in Seq(Co) /\ uthreads \in Int
BY CoAssumption DEF TypeInv, TypeOK

\* A call that returns to the coroutine that made it
LEMMA StillRuns ==
    ASSUME TypeInv, mode = "lua", SameShape(co, co'),
           UNCHANGED <<mode, cur, posted, onAbort, noAbort>>,
           uthreads' \in Int
    PROVE  TypeInv'
<1>1. /\ cur \in Co /\ cur # NoCo /\ Started(co, cur) /\ posted \in Seq(Co)
      /\ \A i \in DOMAIN posted : Started(co, posted[i])
  BY Runs DEF TypeInv
<1>2. /\ mode' = "lua" /\ cur' = cur /\ posted' = posted
      /\ UNCHANGED <<onAbort, noAbort>>
  OBVIOUS
<1> QED
  BY <1>1, <1>2, QuietStep DEF Modes

LEMMA TypeWait ==
    ASSUME TypeInv, NEW args \in WaitArgs, Wait(args)
    PROVE  TypeInv'
<1> DEFINE stops == {i \in DOMAIN args : StopsAt(args, i)}
           stop == IF stops = {} THEN Len(args) + 1
                   ELSE CHOOSE i \in stops : \A j \in stops : i <= j
           flagged == [c \in Co |->
                          IF c \in Seen(args, stop) /\ co[c].status # "dead"
                          THEN [co[c] EXCEPT !.waited = TRUE] ELSE co[c]]
           reaps == /\ stop <= Len(args) /\ IsMyThread(args[stop])
                    /\ co[args[stop]].status = "zombie"
           waiting == Put(flagged, cur, [flagged[cur] EXCEPT !.at = "wait"])
<1> HIDE DEF stop
<1>1. /\ co \in [Co -> CoCtx] /\ cur \in Co /\ cur # NoCo /\ mode = "lua"
      /\ Started(co, cur) /\ uthreads \in Int /\ posted \in Seq(Co)
  BY Runs DEF Wait, Calls
<1>2. SameShape(co, flagged)
  <2>1. ASSUME NEW c \in Co
        PROVE  /\ [co[c] EXCEPT !.waited = TRUE] \in CoCtx
               /\ flagged[c].kind = co[c].kind
               /\ flagged[c].parent = co[c].parent
               /\ flagged[c].at = co[c].at
               /\ flagged[c].pending = co[c].pending
    <3>1. co[c] \in CoCtx
      BY <1>1
    <3> QED
      BY <3>1 DEF CoCtx
  <2>2. flagged \in [Co -> CoCtx]
    BY <1>1, <2>1
  <2> HIDE DEF flagged
  <2> QED
    BY <2>1, <2>2 DEF SameShape, Started
<1>3. SameShape(flagged, waiting)
  <2> HIDE DEF flagged
  <2>1. flagged \in [Co -> CoCtx] /\ flagged[cur] \in CoCtx
    BY <1>1, <1>2 DEF SameShape
  <2>2. [flagged[cur] EXCEPT !.at = "wait"] \in CoCtx
    BY <2>1 DEF CoCtx, Points
  <2>3. waiting \in [Co -> CoCtx]
    BY <2>1, <2>2 DEF Put
  <2>4. Started(flagged, cur)
    BY <1>1, <1>2 DEF SameShape
  <2> QED
    BY <1>1, <2>1, <2>3, <2>4 DEF SameShape, Started, Put, CoCtx
<1>4. UNCHANGED <<posted, onAbort, noAbort>>
  BY DEF Wait
<1>5. CASE stops = {} /\ co' = waiting /\ Again /\ UNCHANGED uthreads
  <2> HIDE DEF flagged
  <2>1. SameShape(co, co')
    BY <1>2, <1>3, <1>5, ShapeTransitive
  <2>2. /\ mode' = "posted" /\ cur' = NoCo /\ uthreads' = uthreads
        /\ posted' = posted /\ UNCHANGED <<onAbort, noAbort>>
    BY <1>4, <1>5 DEF Again
  <2>3. \A i \in DOMAIN posted : Started(co, posted[i])
    BY DEF TypeInv
  <2> QED
    BY <1>1, <2>1, <2>2, <2>3, QuietStep DEF Modes
<1>6. CASE /\ co' = DelThreads(flagged, {args[stop]})
           /\ uthreads' = uthreads - 1 /\ UNCHANGED <<mode, cur>>
  <2> HIDE DEF flagged
  <2>1. SameShape(flagged, co')
    BY <1>2, <1>6, DelThreadsShape DEF SameShape
  <2>2. SameShape(co, co')
    BY <1>2, <2>1, ShapeTransitive
  <2> QED
    BY <1>1, <1>4, <1>6, <2>2, StillRuns
<1>7. CASE co' = flagged /\ UNCHANGED <<mode, cur, uthreads>>
  <2> HIDE DEF flagged
  <2> QED
    BY <1>1, <1>2, <1>4, <1>7, StillRuns
<1> QED
  BY <1>5, <1>6, <1>7 DEF Wait, stop

LEMMA TypeKill ==
    ASSUME TypeInv, NEW t \in Co, Kill(t) \/ KillZombie(t)
    PROVE  TypeInv'
<1>1. /\ co \in [Co -> CoCtx] /\ cur \in Co /\ cur # NoCo /\ mode = "lua"
      /\ Started(co, cur) /\ uthreads \in Int /\ posted \in Seq(Co)
  BY Runs DEF Kill, KillZombie, Calls
<1>2. ASSUME NEW D
      PROVE  SameShape(co, DelThreads(CancelOps(co, D), {t}))
  <2>1. SameShape(co, CancelOps(co, D))
    BY <1>1, CancelOpsShape
  <2>2. SameShape(CancelOps(co, D), DelThreads(CancelOps(co, D), {t}))
    BY <2>1, DelThreadsShape DEF SameShape
  <2> QED
    BY <2>1, <2>2, ShapeTransitive
<1>3. SameShape(co, DelThreads(co, {t}))
  BY <1>1, DelThreadsShape
<1>4. SameShape(co, co')
  BY <1>2, <1>3 DEF Kill, KillZombie
<1>5. uthreads' = uthreads - 1 /\ UNCHANGED <<mode, cur, posted, onAbort, noAbort>>
  BY DEF Kill, KillZombie
<1> QED
  BY <1>1, <1>4, <1>5, StillRuns

LEMMA TypeCreate ==
    ASSUME TypeInv, NEW x \in Co, NEW kind \in {"coro", "wrap"},
           Create(x, kind)
    PROVE  TypeInv'
<1> DEFINE r == [FreshCo EXCEPT !.kind = kind]
<1>1. co \in [Co -> CoCtx] /\ Unborn(x)
  BY Runs DEF Create, Calls
<1>2. /\ r \in CoCtx /\ r.kind = kind /\ r.parent = NoCo
      /\ r.pending = {} /\ r.at = "start"
  BY DEF FreshCo, CoCtx, Statuses, Kinds, Points
<1>3. co' = [co EXCEPT ![x] = r]
  BY DEF Create
<1> HIDE DEF r
<1>4. /\ CoInv(co')
      /\ \A c \in Co : Started(co, c) => Started(co', c) /\ c # x
      /\ \A c \in Co : co[c].kind # "none" => co'[c] = co[c]
  BY <1>1, <1>2, <1>3, NewContext
<1>5. UNCHANGED <<mode, cur, posted, uthreads, onAbort, noAbort>>
  BY DEF Create
<1>6. TypeOK'
  BY <1>4, <1>5 DEF TypeInv, TypeOK, CoInv
<1>7. onAbort' # NoCo => co'[onAbort'].kind = "thread"
  BY <1>4, <1>5 DEF TypeInv, TypeOK
<1>8. \A i \in DOMAIN posted' : Started(co', posted'[i])
  BY <1>4, <1>5 DEF TypeInv, TypeOK
<1> QED
  BY <1>4, <1>5, <1>6, <1>7, <1>8 DEF TypeInv, TypeOK

LEMMA TypeOnAbort ==
    ASSUME TypeInv, NEW t \in Co, OnAbort(t)
    PROVE  TypeInv'
<1> DEFINE r == [FreshCo EXCEPT !.kind = "thread", !.ref = TRUE,
                                !.parent = cur]
<1>1. /\ co \in [Co -> CoCtx] /\ cur \in Co /\ cur # NoCo
      /\ Started(co, cur) /\ Unborn(t)
  BY Runs DEF OnAbort, Calls
<1>2. /\ r \in CoCtx /\ r.kind = "thread" /\ r.parent = cur /\ r.pending = {}
  BY <1>1 DEF FreshCo, CoCtx, Statuses, Kinds, Points
<1>3. co' = [co EXCEPT ![t] = r]
  BY DEF OnAbort
<1> HIDE DEF r
<1>4. /\ CoInv(co')
      /\ \A c \in Co : Started(co, c) => Started(co', c) /\ c # t
      /\ \A c \in Co : co[c].kind # "none" => co'[c] = co[c]
  BY <1>1, <1>2, <1>3, NewContext
<1>5. UNCHANGED <<mode, cur, posted, uthreads, noAbort>> /\ onAbort' = t
  BY DEF OnAbort
<1>6. TypeOK'
  BY <1>4, <1>5 DEF TypeInv, TypeOK, CoInv
<1>7. co'[t] = r
  BY <1>1, <1>3
<1>8. \A i \in DOMAIN posted' : Started(co', posted'[i])
  BY <1>4, <1>5 DEF TypeInv, TypeOK
<1> QED
  BY <1>2, <1>4, <1>5, <1>6, <1>7, <1>8 DEF TypeInv, TypeOK

\* A context that has started and whose place in the tree is kept
LEMMA StartedShape ==
    ASSUME NEW s \in [Co -> CoCtx], NEW c \in Co, Started(s, c),
           NEW r \in CoCtx, r.kind = s[c].kind, r.parent = s[c].parent,
           r.at # "start"
    PROVE  SameShape(s, [s EXCEPT ![c] = r])
<1>1. [s EXCEPT ![c] = r] \in [Co -> CoCtx]
  OBVIOUS
<1> QED
  BY <1>1 DEF SameShape, Started

\* A call that suspends the coroutine that made it
LEMMA Suspends ==
    ASSUME TypeInv, mode = "lua", NEW STATE r, r \in CoCtx,
           r.kind = co[cur].kind, r.parent = co[cur].parent, r.at # "start",
           co' = [co EXCEPT ![cur] = r], Again,
           UNCHANGED <<uthreads, onAbort>>, noAbort' \in BOOLEAN,
           posted' \in {posted, Append(posted, cur)}
    PROVE  TypeInv'
<1>1. /\ co \in [Co -> CoCtx] /\ cur \in Co /\ Started(co, cur)
      /\ posted \in Seq(Co) /\ uthreads \in Int
      /\ \A i \in DOMAIN posted : Started(co, posted[i])
  BY Runs DEF TypeInv
<1>2. SameShape(co, co')
  BY <1>1, StartedShape
<1>3. CoInv(co')
  BY <1>2, ShapeKeepsCoInv DEF TypeInv
<1>4. /\ posted' \in Seq(Co)
      /\ \A i \in DOMAIN posted' : Started(co, posted'[i])
  BY <1>1
<1>5. \A i \in DOMAIN posted' : Started(co', posted'[i])
  <2>1. \A i \in DOMAIN posted' : posted'[i] \in Co
    BY <1>4
  <2> QED
    BY <1>2, <1>4, <2>1 DEF SameShape
<1>6. mode' = "posted" /\ cur' = NoCo /\ uthreads' = uthreads /\ onAbort' = onAbort
  BY DEF Again
<1>7. TypeOK'
  BY <1>1, <1>3, <1>4, <1>6 DEF TypeInv, TypeOK, CoInv, Modes
<1>8. onAbort' # NoCo => co'[onAbort'].kind = "thread"
  BY <1>2, <1>6 DEF TypeInv, TypeOK, SameShape
<1> QED
  BY <1>3, <1>5, <1>6, <1>7, <1>8 DEF TypeInv

LEMMA TypeYieldThread ==
    ASSUME TypeInv, YieldThread
    PROVE  TypeInv'
<1> DEFINE r == [co[cur] EXCEPT !.status = "running", !.at = "yield"]
<1>1. /\ co \in [Co -> CoCtx] /\ cur \in Co /\ co[cur] \in CoCtx
      /\ mode = "lua"
  BY Runs DEF YieldThread, Calls
<1>2. /\ r \in CoCtx /\ r.kind = co[cur].kind
      /\ r.parent = co[cur].parent /\ r.at # "start"
  BY <1>1 DEF CoCtx, Statuses, Points
<1>3. co' = [co EXCEPT ![cur] = r]
  BY <1>1 DEF YieldThread
<1>4. /\ Again /\ UNCHANGED <<uthreads, onAbort>>
      /\ posted' = Append(posted, cur) /\ noAbort' \in BOOLEAN
  BY DEF YieldThread, TypeInv, TypeOK
<1> HIDE DEF r
<1> QED
  BY <1>1, <1>2, <1>3, <1>4, Suspends

LEMMA TypeIO ==
    ASSUME TypeInv, Sleep \/ Capture
    PROVE  TypeInv'
<1>1. /\ co \in [Co -> CoCtx] /\ cur \in Co /\ co[cur] \in CoCtx
      /\ mode = "lua"
  BY Runs DEF Sleep, Capture, Calls
<1>2. PICK what \in {"op", "subreq"} :
        co' = [co EXCEPT ![cur].pending = @ \cup {what}, ![cur].at = "io"]
  BY DEF Sleep, Capture
<1> DEFINE r == [co[cur] EXCEPT !.pending = @ \cup {what}, !.at = "io"]
<1>3. /\ r \in CoCtx /\ r.kind = co[cur].kind
      /\ r.parent = co[cur].parent /\ r.at # "start"
  BY <1>1 DEF CoCtx, Points
<1>4. co' = [co EXCEPT ![cur] = r]
  BY <1>1, <1>2
<1>5. Again /\ UNCHANGED <<uthreads, onAbort>> /\ posted' = posted
  BY DEF Sleep, Capture
<1>6. noAbort' \in BOOLEAN
  <2>1. CASE noAbort' = TRUE
    BY <2>1, Zenon
  <2>2. CASE noAbort' = noAbort
    BY <2>2, Zenon DEF TypeInv, TypeOK
  <2> QED
    BY <2>1, <2>2 DEF Sleep, Capture
<1> HIDE DEF r
<1> QED
  BY <1>1, <1>3, <1>4, <1>5, <1>6, Suspends

LEMMA TypeYieldCoroutine ==
    ASSUME TypeInv, YieldCoroutine
    PROVE  TypeInv'
<1> DEFINE p == co[cur].parent
           r == [co[cur] EXCEPT !.status = "suspended", !.at = "yield"]
           s == [co EXCEPT ![cur] = r]
           s2 == YieldTo(p)
<1>1. /\ co \in [Co -> CoCtx] /\ cur \in Co /\ co[cur] \in CoCtx
      /\ Started(co, cur) /\ mode = "lua" /\ uthreads \in Int
      /\ posted \in Seq(Co)
  BY Runs DEF YieldCoroutine, Calls
<1>2. p \in Co /\ p # NoCo /\ Started(co, p)
  BY <1>1, CoAssumption DEF TypeInv, CoInv, YieldCoroutine, IsThread
<1>3. /\ r \in CoCtx /\ r.kind = co[cur].kind /\ r.parent = p
      /\ r.at # "start"
  BY <1>1 DEF CoCtx, Statuses, Points
<1>4. SameShape(co, s)
  <2> HIDE DEF r
  <2> QED
    BY <1>1, <1>3, StartedShape
<1>5. s \in [Co -> CoCtx] /\ s[p] \in CoCtx
  BY <1>2, <1>4 DEF SameShape
<1>6. s2 = [s EXCEPT ![p].status = "running"]
  BY <1>1 DEF YieldTo
<1>7. SameShape(s, s2)
  <2> HIDE DEF s, s2
  <2>1. s2 \in [Co -> CoCtx]
    BY <1>2, <1>5, <1>6 DEF CoCtx, Statuses
  <2> QED
    BY <1>2, <1>5, <1>6, <2>1 DEF SameShape, Started, CoCtx
<1>8. s2 \in [Co -> CoCtx] /\ Started(s2, p)
  <2> HIDE DEF s, s2
  <2> QED
    BY <1>2, <1>4, <1>7 DEF SameShape
<1>9. SameShape(s2, Continue(s2, p))
  BY <1>2, <1>8, ContinueShape
<1>10. SameShape(co, co')
  <2>1. co' = Continue(s2, p)
    BY DEF YieldCoroutine
  <2> HIDE DEF s, s2
  <2> QED
    BY <1>4, <1>7, <1>9, <2>1, ShapeTransitive
<1>11. /\ mode' = "lua" /\ cur' = p /\ posted' = posted
       /\ uthreads' = uthreads /\ UNCHANGED <<onAbort, noAbort>>
  BY <1>1 DEF YieldCoroutine
<1>12. \A i \in DOMAIN posted : Started(co, posted[i])
  BY DEF TypeInv
<1> QED
  BY <1>1, <1>2, <1>10, <1>11, <1>12, QuietStep DEF Modes

LEMMA TypeResume ==
    ASSUME TypeInv, NEW x \in Co, Resume(x)
    PROVE  TypeInv'
<1> DEFINE r == [co[cur] EXCEPT !.status = "normal", !.at = "resume"]
           s == [co EXCEPT ![cur] = r]
           q == [s[x] EXCEPT !.status = "running", !.parent = cur]
           s2 == [s EXCEPT ![x] = q]
<1>1. /\ co \in [Co -> CoCtx] /\ cur \in Co /\ cur # NoCo
      /\ co[cur] \in CoCtx /\ Started(co, cur) /\ mode = "lua"
      /\ uthreads \in Int /\ posted \in Seq(Co)
      /\ \A i \in DOMAIN posted : Started(co, posted[i]) /\ posted[i] \in Co
  BY Runs DEF Resume, TypeInv
<1>2. /\ r \in CoCtx /\ r.kind = co[cur].kind /\ r.parent = co[cur].parent
      /\ r.at # "start"
  BY <1>1 DEF CoCtx, Statuses, Points
<1>3. SameShape(co, s)
  <2> HIDE DEF r
  <2> QED
    BY <1>1, <1>2, StartedShape
<1>4. CoInv(s) /\ s \in [Co -> CoCtx] /\ s[x] \in CoCtx
  BY <1>3, ShapeKeepsCoInv DEF TypeInv, SameShape
<1>5. s[x].kind \in {"coro", "wrap"} /\ Started(s, cur)
  BY <1>1, <1>3 DEF SameShape, Resume
<1>6. /\ q \in CoCtx /\ q.kind = s[x].kind /\ q.parent = cur
      /\ q.pending = s[x].pending /\ q.at = s[x].at
  <2> HIDE DEF s
  <2> QED
    BY <1>1, <1>4 DEF CoCtx, Statuses
<1>7. co' = Continue(s2, x)
  BY <1>1 DEF Resume
<1> DEFINE y == [q EXCEPT !.at = IF @ \in {"end", "fail"} THEN "fail" ELSE "run"]
<1>8. /\ y \in CoCtx /\ y.kind = s[x].kind /\ y.parent = cur
      /\ y.pending = s[x].pending /\ y.at # "start"
  <2> HIDE DEF q
  <2> QED
    BY <1>6 DEF CoCtx, Points
<1>9. /\ co' \in [Co -> CoCtx] /\ co'[x] = y
      /\ \A c \in Co : c # x => co'[c] = s[c]
  <2> HIDE DEF s, q
  <2>1. s2[x] = q /\ s2 \in [Co -> CoCtx]
    BY <1>4, <1>6
  <2>2. \A c \in Co : c # x => s2[c] = s[c]
    BY <1>4
  <2>3. co' = [c \in Co |-> IF c = x THEN y ELSE s2[c]]
    BY <1>7, <2>1 DEF Continue, Put
  <2> HIDE DEF s2, y
  <2> QED
    BY <1>4, <1>8, <2>1, <2>2, <2>3
<1> HIDE DEF s, s2, q, y
<1>10. \A c \in Co : Started(s, c) => Started(co', c)
  BY <1>8, <1>9 DEF Started
<1>11. Started(co', x)
  BY <1>5, <1>8, <1>9 DEF Started
<1>12. CoInv(co')
  <2>1. ASSUME NEW c \in Co
        PROVE  /\ Started(co', c) /\ co'[c].kind # "entry"
                     => co'[c].parent \in Co
               /\ co'[c].parent \in Co => Started(co', co'[c].parent)
               /\ co'[c].pending # {} => Started(co', c)
    <3>1. CASE c = x
      BY <1>1, <1>5, <1>8, <1>9, <1>10, <1>11, <3>1
    <3>2. CASE c # x
      <4>1. co'[c] = s[c] /\ (Started(co', c) <=> Started(s, c))
        BY <1>9, <3>2 DEF Started
      <4> QED
        BY <1>4, <1>10, <4>1 DEF CoInv
    <3> QED
      BY <3>1, <3>2
  <2> QED
    BY <1>9, <2>1 DEF CoInv
<1>13. /\ mode' = "lua" /\ cur' = x /\ posted' = posted
       /\ uthreads' = uthreads /\ UNCHANGED <<onAbort, noAbort>>
  BY <1>1 DEF Resume
<1>14. \A i \in DOMAIN posted : Started(co', posted[i])
  BY <1>1, <1>3, <1>10 DEF SameShape
<1>15. TypeOK'
  BY <1>1, <1>9, <1>13, CoAssumption DEF TypeInv, TypeOK, Modes
<1>16. onAbort # NoCo => co'[onAbort].kind = "thread"
  BY <1>3, <1>8, <1>9 DEF TypeInv, TypeOK, SameShape
<1> QED
  BY <1>11, <1>12, <1>13, <1>14, <1>15, <1>16 DEF TypeInv

\* The same contexts without the zombies of c
LEMMA NoZombiesShape ==
    ASSUME NEW s \in [Co -> CoCtx], NEW c \in Co
    PROVE  SameShape(s, Put(s, c, [s[c] EXCEPT !.zombies = {}]))
<1> DEFINE r == [s[c] EXCEPT !.zombies = {}]
<1>1. s[c] \in CoCtx
  OBVIOUS
<1>2. /\ r \in CoCtx /\ r.kind = s[c].kind /\ r.parent = s[c].parent
      /\ r.at = s[c].at /\ r.pending = s[c].pending
  BY <1>1 DEF CoCtx
<1> HIDE DEF r
<1> QED
  BY <1>2, PutShape DEF r

LEMMA TypeReturn ==
    ASSUME TypeInv, Return
    PROVE  TypeInv'
<1> DEFINE s1 == DelThreads(Ended(cur), Reaped(cur))
           s == Put(s1, cur, [s1[cur] EXCEPT !.zombies = {}])
           n == uthreads - Cardinality(Reaped(cur))
<1>1. /\ co \in [Co -> CoCtx] /\ cur \in Co /\ cur # NoCo
      /\ Started(co, cur) /\ uthreads \in Int
  BY Runs DEF Return
<1>2. SameShape(co, s1)
  BY <1>1, EndedShape
<1>3. SameShape(s1, s)
  <2>1. s1 \in [Co -> CoCtx]
    BY <1>2 DEF SameShape
  <2> HIDE DEF s1
  <2> QED
    BY <1>1, <2>1, NoZombiesShape
<1>4. SameShape(co, s)
  BY <1>2, <1>3, ShapeTransitive
<1>5. /\ CoInv(s) /\ Started(s, cur) /\ s[cur].kind = co[cur].kind
      /\ s \in [Co -> CoCtx]
  <2> HIDE DEF s
  <2> QED
    BY <1>1, <1>4, ShapeKeepsCoInv DEF TypeInv, SameShape
<1>6. n \in Int
  <2>1. IsFiniteSet(Reaped(cur))
    <3>1. Reaped(cur) \subseteq Co
      BY <1>1 DEF Reaped, CoCtx
    <3> QED
      BY <3>1, CoAssumption, FS_Subset
  <2> QED
    BY <1>1, <2>1, FS_CardinalityType
<1>7. SameShape(s, DelThreads(s, {cur})) /\ CoInv(DelThreads(s, {cur}))
  <2> HIDE DEF s
  <2> QED
    BY <1>5, DelThreadsShape, ShapeKeepsCoInv
<1>8. posted' = posted /\ noAbort' \in BOOLEAN
  BY DEF Return, TypeInv, TypeOK
<1>9. \/ co[cur].kind = "thread" /\ ThreadEnds(s, n, cur)
      \/ co[cur].kind \in {"coro", "wrap"} /\ UserCoDone(s, n, cur)
      \/ FinalizeThreads(DelThreads(s, {cur}), n)
      \/ /\ co' = DelThreads(s, {cur}) /\ uthreads' = n
         /\ Again /\ UNCHANGED onAbort
  BY DEF Return
<1> HIDE DEF s, n
<1>10. CASE co[cur].kind = "thread" /\ ThreadEnds(s, n, cur)
  <2>1. Outcome(s)
    BY <1>1, <1>5, <1>6, <1>10, ThreadEndsOutcome
  <2> QED
    BY <1>4, <1>8, <2>1, OutcomeStep
<1>11. CASE co[cur].kind \in {"coro", "wrap"} /\ UserCoDone(s, n, cur)
  <2>1. Outcome(s)
    BY <1>1, <1>5, <1>6, <1>11, UserCoDoneOutcome
  <2> QED
    BY <1>4, <1>8, <2>1, OutcomeStep
<1>12. CASE FinalizeThreads(DelThreads(s, {cur}), n)
  <2>1. Outcome(DelThreads(s, {cur}))
    BY <1>6, <1>7, <1>12, FinalizeOutcome
  <2>2. SameShape(co, DelThreads(s, {cur}))
    BY <1>4, <1>7, ShapeTransitive
  <2> QED
    BY <1>8, <2>1, <2>2, OutcomeStep
<1>13. CASE /\ co' = DelThreads(s, {cur}) /\ uthreads' = n
            /\ Again /\ UNCHANGED onAbort
  <2>1. Outcome(s)
    BY <1>6, <1>7, <1>13 DEF Outcome, Again, Modes
  <2> QED
    BY <1>4, <1>8, <2>1, OutcomeStep
<1> QED
  BY <1>9, <1>10, <1>11, <1>12, <1>13

LEMMA TypeError ==
    ASSUME TypeInv, Error \/ Propagate
    PROVE  TypeInv'
<1>1. /\ co \in [Co -> CoCtx] /\ cur \in Co /\ cur # NoCo
      /\ co[cur] \in CoCtx /\ Started(co, cur) /\ uthreads \in Int
  BY Runs DEF Error, Propagate
<1>2. PICK s \in {Ended(cur), [co EXCEPT ![cur].at = "left"]} :
          Raise(s, uthreads, cur)
  BY DEF Error, Propagate
<1>3. SameShape(co, Ended(cur))
  BY <1>1, EndedShape
<1>4. SameShape(co, [co EXCEPT ![cur].at = "left"])
  <2> DEFINE r == [co[cur] EXCEPT !.at = "left"]
  <2>1. /\ r \in CoCtx /\ r.kind = co[cur].kind
        /\ r.parent = co[cur].parent /\ r.at # "start"
    BY <1>1 DEF CoCtx, Points
  <2>2. [co EXCEPT ![cur].at = "left"] = [co EXCEPT ![cur] = r]
    BY <1>1
  <2> HIDE DEF r
  <2> QED
    BY <1>1, <2>1, <2>2, StartedShape
<1>5. SameShape(co, s)
  BY <1>2, <1>3, <1>4
<1>6. CoInv(s) /\ Started(s, cur)
  BY <1>1, <1>5, ShapeKeepsCoInv DEF TypeInv, SameShape
<1>7. Outcome(s)
  BY <1>1, <1>2, <1>6, RaiseOutcome
<1>8. posted' = posted /\ noAbort' \in BOOLEAN
  BY Zenon DEF Error, Propagate
<1> QED
  BY <1>5, <1>7, <1>8, OutcomeStep

LEMMA TypeExit ==
    ASSUME TypeInv, NEW forced, Exit(forced)
    PROVE  TypeInv'
<1> DEFINE s == WithStatus(co, cur, "dead")
           s2 == CancelOps(s, {cur})
<1>1. co \in [Co -> CoCtx] /\ cur \in Co /\ uthreads \in Int
  BY Runs DEF Exit, Calls
<1>2. SameShape(co, s)
  BY <1>1, WithStatusShape DEF Statuses
<1>3. SameShape(s, s2)
  BY <1>2, CancelOpsShape DEF SameShape
<1>4. SameShape(co, s2) /\ CoInv(s2)
  BY <1>2, <1>3, ShapeTransitive, ShapeKeepsCoInv DEF TypeInv
<1>5. Outcome(s2)
  <2>1. FinalizeThreads(s2, uthreads)
    BY DEF Exit
  <2> HIDE DEF s2
  <2> QED
    BY <1>1, <1>4, <2>1, FinalizeOutcome
<1>6. posted' = posted /\ noAbort' \in BOOLEAN
  BY DEF Exit, TypeInv, TypeOK
<1> QED
  BY <1>4, <1>5, <1>6, OutcomeStep

LEMMA TypeStep ==
    ASSUME TypeInv, RunPosted \/ PostedDrained
    PROVE  TypeInv'
<1>1. /\ co \in [Co -> CoCtx] /\ posted \in Seq(Co) /\ uthreads \in Int
      /\ cur = NoCo /\ mode = "posted"
      /\ \A i \in DOMAIN posted : Started(co, posted[i])
  BY DEF TypeInv, TypeOK, RunPosted, PostedDrained
<1>2. UNCHANGED <<onAbort, noAbort>> /\ uthreads' = uthreads
  BY DEF RunPosted, PostedDrained
<1>3. SameShape(co, co)
  BY <1>1 DEF SameShape
<1>4. CASE PostedDrained
  BY <1>1, <1>2, <1>3, <1>4, QuietStep DEF PostedDrained, Modes
<1>5. CASE RunPosted
  <2>1. /\ posted' \in Seq(Co)
        /\ \A i \in DOMAIN posted' : Started(co, posted'[i])
    BY <1>1, <1>5 DEF RunPosted
  <2>2. Head(posted) \in Co /\ Started(co, Head(posted)) /\ Head(posted) # NoCo
    BY <1>1, <1>5, CoAssumption DEF RunPosted
  <2>3. CASE co'= Continue(co, Head(posted)) /\ cur' = Head(posted) /\ mode' = "lua"
    <3>1. SameShape(co, co')
      BY <1>1, <2>2, <2>3, ContinueShape
    <3> QED
      BY <1>1, <1>2, <2>1, <2>2, <2>3, <3>1, QuietStep DEF Modes
  <2>4. CASE UNCHANGED <<co, cur, mode>>
    BY <1>1, <1>2, <1>3, <2>1, <2>4, QuietStep DEF Modes
  <2> QED
    BY <1>5, <2>3, <2>4 DEF RunPosted
<1> QED
  BY <1>4, <1>5

\* An event continues c
LEMMA Wakes ==
    ASSUME TypeInv, NEW c \in Co, Started(co, c),
           NEW STATE r, r \in CoCtx, r.kind = co[c].kind,
           r.parent = co[c].parent, r.at = co[c].at,
           r.pending \subseteq co[c].pending,
           co' = Continue([co EXCEPT ![c] = r], c), cur' = c, mode' = "lua",
           posted' = posted, onAbort' = onAbort,
           noAbort' \in BOOLEAN, uthreads' \in Int
    PROVE  TypeInv'
<1> DEFINE s == [co EXCEPT ![c] = r]
<1>1. co \in [Co -> CoCtx] /\ c # NoCo
  BY CoAssumption DEF TypeInv, TypeOK
<1>2. SameShape(co, s)
  BY <1>1 DEF SameShape, Started
<1>3. s \in [Co -> CoCtx] /\ Started(s, c)
  BY <1>2 DEF SameShape
<1>4. SameShape(s, co')
  <2>1. co' = Continue(s, c)
    OBVIOUS
  <2> HIDE DEF s
  <2> QED
    BY <1>3, <2>1, ContinueShape
<1>5. SameShape(co, co')
  BY <1>2, <1>4, ShapeTransitive
<1>6. Outcome(co)
  BY <1>1, <1>5 DEF Outcome, Modes
<1>7. SameShape(co, co)
  BY <1>1 DEF SameShape
<1> QED
  BY <1>6, <1>7, OutcomeStep

LEMMA TypeEvent ==
    ASSUME TypeInv, NEW c \in Co, OpDone(c) \/ SubrequestDone(c)
    PROVE  TypeInv'
<1>1. /\ co \in [Co -> CoCtx] /\ co[c] \in CoCtx /\ uthreads \in Int
      /\ Started(co, c)
  BY DEF TypeInv, TypeOK, CoInv, OpDone, SubrequestDone
<1>2. PICK what \in {"op", "subreq"} :
        co' = Continue([co EXCEPT ![c].pending = @ \ {what}], c)
  BY DEF OpDone, SubrequestDone
<1> DEFINE r == [co[c] EXCEPT !.pending = @ \ {what}]
<1>3. /\ r \in CoCtx /\ r.kind = co[c].kind /\ r.parent = co[c].parent
      /\ r.at = co[c].at /\ r.pending \subseteq co[c].pending
  BY <1>1 DEF CoCtx
<1>4. co' = Continue([co EXCEPT ![c] = r], c)
  BY <1>1, <1>2
<1>5. /\ cur' = c /\ mode' = "lua" /\ posted' = posted
      /\ uthreads' = uthreads /\ onAbort' = onAbort
  BY DEF OpDone, SubrequestDone
<1>6. noAbort' \in BOOLEAN
  <2>1. CASE noAbort' = FALSE
    BY <2>1, Zenon
  <2>2. CASE noAbort' = noAbort
    BY <2>2, Zenon DEF TypeInv, TypeOK
  <2> QED
    BY <2>1, <2>2 DEF OpDone, SubrequestDone
<1> HIDE DEF r
<1> QED
  BY <1>1, <1>3, <1>4, <1>5, <1>6, Wakes

LEMMA TypeClientAbort ==
    ASSUME TypeInv, ClientAbort
    PROVE  TypeInv'
<1>1. co \in [Co -> CoCtx] /\ uthreads \in Int /\ noAbort \in BOOLEAN
  BY DEF TypeInv, TypeOK
<1>2. posted' = posted /\ noAbort' = noAbort
  BY DEF ClientAbort
<1>3. CASE FinalizeThreads(co, uthreads)
  <2>1. Outcome(co)
    BY <1>1, <1>3, FinalizeOutcome DEF TypeInv
  <2>2. SameShape(co, co)
    BY <1>1 DEF SameShape
  <2> QED
    BY <1>1, <1>2, <2>1, <2>2, OutcomeStep
<1>4. CASE /\ onAbort # NoCo
           /\ co' = Continue([co EXCEPT ![onAbort].status = "running"], onAbort)
           /\ uthreads' = uthreads + 1 /\ cur' = onAbort /\ mode' = "lua"
           /\ UNCHANGED onAbort
  <2> DEFINE r == [co[onAbort] EXCEPT !.status = "running"]
  <2>1. onAbort \in Co /\ co[onAbort] \in CoCtx /\ Started(co, onAbort)
    BY <1>1, <1>4 DEF TypeInv, TypeOK, Started
  <2>2. /\ r \in CoCtx /\ r.kind = co[onAbort].kind
        /\ r.parent = co[onAbort].parent /\ r.at = co[onAbort].at
        /\ r.pending \subseteq co[onAbort].pending
    BY <2>1 DEF CoCtx, Statuses
  <2>3. co' = Continue([co EXCEPT ![onAbort] = r], onAbort)
    BY <1>1, <1>4, <2>1
  <2>4. uthreads' \in Int /\ noAbort' \in BOOLEAN
    BY <1>1, <1>2, <1>4
  <2> HIDE DEF r
  <2> QED
    BY <1>2, <1>4, <2>1, <2>2, <2>3, <2>4, Wakes
<1> QED
  BY <1>3, <1>4 DEF ClientAbort

LEMMA TypeNext ==
    ASSUME TypeInv, [Next]_vars
    PROVE  TypeInv'
<1>1. CASE Lua
  BY <1>1, TypeSpawn, TypeKill, TypeOnAbort, TypeWait, TypeCreate,
     TypeResume, TypeYieldThread, TypeYieldCoroutine, TypeIO, TypeReturn,
     TypeError, TypeExit DEF Lua
<1>2. CASE Step
  BY <1>2, TypeError, TypeStep DEF Step
<1>3. CASE Event
  BY <1>3, TypeEvent DEF Event
<1>4. CASE ClientAbort
  BY <1>4, TypeClientAbort
<1>5. CASE UNCHANGED vars
  BY <1>5 DEF vars, TypeInv, TypeOK, CoInv, Started
<1> QED
  BY <1>1, <1>2, <1>3, <1>4, <1>5 DEF Next

\* In every reachable state the context pointer, the queue of posted threads,
\* the thread count and every coroutine context have the types their
\* declarations in ngx_http_lua_common.h give them.
THEOREM TypeCorrect == Spec => []TypeOK
<1>1. TypeInv /\ [Next]_vars => TypeInv'
  BY TypeNext
<1>2. TypeInv => TypeOK
  BY DEF TypeInv
<1> QED
  BY <1>1, <1>2, TypeInit, PTL DEF Spec

-----------------------------------------------------------------------------
(* What follows is about light threads without user coroutines.  A thread    *)
(* that one call of ngx.thread.wait named together with another keeps its    *)
(* waited_by_parent when the call returns for the other, and its end may     *)
(* then resume the parent out of a subrequest: so either a call names one    *)
(* thread, or the Lua code makes no subrequest.                              *)

OneAtATime == MaxWait <= 1

OnlyThreads == /\ Api \cap {"create", "wrap"} = {}
               /\ "capture" \in Api => OneAtATime

-----------------------------------------------------------------------------
(* The inductive invariant.  Whether a thread is counted depends on co_ref;  *)
(* what ends, reaps or kills a thread looks at its status, its parent's list *)
(* of zombies or the operation that is pending.  The invariant ties these.   *)

\* A thread that is deleted, or a zombie: its status never changes again
\* before it is deleted
Gone(r) == r.kind = "thread" /\ (r.ref => r.status = "zombie")

Life(r) ==
    /\ r.kind \in {"none", "entry", "thread"}
    /\ r.kind = "none" => r.status = "suspended" /\ ~r.ref
    /\ r.kind # "none" /\ r.status \notin {"dead", "zombie"} => r.ref
    /\ r.status = "zombie" => r.ref /\ r.kind = "thread"
    /\ r.pending # {} => /\ r.status = "running"
                        /\ \/ r.pending = {"op"}
                           \/ r.pending = {"subreq"} /\ OneAtATime
    /\ r.at \in {"end", "fail"} => r.status \in {"dead", "zombie"}

LiveInv(s) ==
    \A c \in Co :
        /\ Life(s[c])
        /\ s[c].parent # c
        /\ s[c].parent \in Co => s[s[c].parent].status # "suspended"
        /\ \A z \in s[c].zombies : Gone(s[z])

RunsLive ==
    /\ mode # "raise"
    /\ cur # NoCo => /\ co[cur].status = "running" /\ co[cur].ref
                     /\ co[cur].at = "run" /\ co[cur].kind # "none"
                     /\ "subreq" \notin co[cur].pending

CountInv == (mode # "done" => LiveInv(co)) /\ RunsLive /\ UthreadsExact

(* Where a coroutine is suspended.  A thread stands in the call that put it  *)
(* there until what it waits for comes.                                      *)

Stands(r) ==
    /\ r.pending # {} => r.at = "io"
    /\ r.waited => r.kind = "thread"
    /\ r.kind = "none" => r.at = "start"
    /\ r.kind = "thread" /\ r.status = "suspended" => r.at = "start"
    /\ r.status # "normal" /\ r.at \notin {"resume", "fail"}

\* Thread t is alive and will resume the thread that waits for it
Awaited(s, t) == s[t].waited /\ Alive(s, t)

WaitsRight(s) ==
    /\ \A t \in Co : Awaited(s, t) => s[s[t].parent].at = "wait"
    /\ \A t, u \in Co : /\ Awaited(s, t) /\ Awaited(s, u)
                        /\ s[t].parent = s[u].parent
                        => t = u

QueueRight(s, q) ==
    /\ \A i, j \in DOMAIN q : q[i] = q[j] => i = j
    /\ \A i \in DOMAIN q : /\ s[q[i]].status # "suspended"
                           /\ s[q[i]].status = "running" => s[q[i]].at \in {"spawn", "yield"}

SuspInv ==
    /\ \A c \in Co : Stands(co[c])
    /\ WaitsRight(co)
    /\ QueueRight(co, posted)
    /\ mode = "done" => \A c \in Co : "op" \notin co[c].pending

\* Nobody who is woken, by a thread that ends or by his turn in the queue,
\* waits for a subrequest
LEMMA NoSubrequestCut ==
    ASSUME TypeInv, CountInv, OneAtATime => SuspInv, NEW c \in Co, mode # "done",
           \/ \E t \in Co : Awaited(co, t) /\ co[t].parent = c
           \/ posted # <<>> /\ c = Head(posted) /\ co[c].status = "running"
    PROVE  "subreq" \notin co[c].pending
<1> SUFFICES ASSUME "subreq" \in co[c].pending PROVE FALSE
  OBVIOUS
<1>1. OneAtATime
  BY DEF CountInv, LiveInv, Life
<1>2. co[c].at = "io"
  BY <1>1 DEF SuspInv, Stands
<1>3. CASE \E t \in Co : Awaited(co, t) /\ co[t].parent = c
  BY <1>1, <1>2, <1>3 DEF SuspInv, WaitsRight
<1>4. CASE posted # <<>> /\ c = Head(posted) /\ co[c].status = "running"
  <2>1. posted \in Seq(Co)
    BY DEF TypeInv, TypeOK
  <2>2. 1 \in DOMAIN posted /\ Head(posted) = posted[1]
    BY <1>4, <2>1
  <2> QED
    BY <1>1, <1>2, <1>4, <2>2 DEF SuspInv, QueueRight
<1> QED
  BY <1>3, <1>4

\* r2 is r as far as the count and the others' zombie lists can tell
Mild(r, r2) ==
    /\ r2 \in CoCtx
    /\ r2.kind = r.kind /\ r2.parent = r.parent /\ r2.ref = r.ref
    /\ r2.zombies \subseteq r.zombies
    /\ Gone(r) => Gone(r2)
    /\ r2.status = "suspended" <=> r.status = "suspended"
    /\ Life(r2)

LEMMA MildLive ==
    ASSUME NEW s \in [Co -> CoCtx], NEW s2 \in [Co -> CoCtx], LiveInv(s),
           \A c \in Co : Mild(s[c], s2[c])
    PROVE  LiveInv(s2) /\ Counted(s2) = Counted(s)
<1>1. Counted(s2) = Counted(s)
  BY DEF Counted, Mild
<1>2. ASSUME NEW c \in Co
      PROVE  /\ Life(s2[c])
             /\ s2[c].parent # c
             /\ s2[c].parent \in Co => s2[s2[c].parent].status # "suspended"
             /\ \A z \in s2[c].zombies : Gone(s2[z])
  <2>1. Life(s2[c]) /\ s2[c].parent # c
    BY DEF Mild, LiveInv
  <2>2. s2[c].parent \in Co => s2[s2[c].parent].status # "suspended"
    BY DEF Mild, LiveInv
  <2>3. ASSUME NEW z \in s2[c].zombies PROVE Gone(s2[z])
    <3>1. z \in s[c].zombies /\ s[c].zombies \subseteq Co
      BY DEF Mild, CoCtx
    <3> QED
      BY <3>1 DEF Mild, LiveInv
  <2> QED
    BY <2>1, <2>2, <2>3
<1> QED
  BY <1>1, <1>2 DEF LiveInv

LEMMA SameMild ==
    ASSUME NEW s \in [Co -> CoCtx], LiveInv(s), NEW c \in Co
    PROVE  Mild(s[c], s[c])
BY DEF LiveInv, Mild

LEMMA PutLive ==
    ASSUME NEW s \in [Co -> CoCtx], LiveInv(s), NEW c \in Co, NEW r,
           Mild(s[c], r)
    PROVE  /\ Put(s, c, r) \in [Co -> CoCtx]
           /\ LiveInv(Put(s, c, r))
           /\ Counted(Put(s, c, r)) = Counted(s)
<1> DEFINE s2 == Put(s, c, r)
<1>1. s2 \in [Co -> CoCtx]
  BY DEF Put, Mild
<1>2. \A x \in Co : Mild(s[x], s2[x])
  BY SameMild DEF Put
<1> HIDE DEF s2
<1>3. LiveInv(s2) /\ Counted(s2) = Counted(s)
  BY <1>1, <1>2, MildLive
<1> QED
  BY <1>1, <1>3 DEF s2

\* Cancelling operations changes no life and no count
LEMMA CancelLive ==
    ASSUME NEW s \in [Co -> CoCtx], LiveInv(s), NEW D
    PROVE  /\ CancelOps(s, D) \in [Co -> CoCtx]
           /\ LiveInv(CancelOps(s, D))
           /\ Counted(CancelOps(s, D)) = Counted(s)
           /\ \A c \in Co : /\ c \in D => "op" \notin CancelOps(s, D)[c].pending
                            /\ CancelOps(s, D)[c].pending \subseteq s[c].pending
                            /\ CancelOps(s, D)[c].ref = s[c].ref
                            /\ CancelOps(s, D)[c].status = s[c].status
                            /\ CancelOps(s, D)[c].kind = s[c].kind
                            /\ CancelOps(s, D)[c].at = s[c].at
                            /\ CancelOps(s, D)[c].zombies = s[c].zombies
<1> DEFINE s2 == CancelOps(s, D)
<1>1. s2 \in [Co -> CoCtx]
  BY CancelOpsShape DEF SameShape
<1>2. ASSUME NEW c \in Co
      PROVE  /\ c \in D => "op" \notin s2[c].pending
             /\ s2[c].pending \subseteq s[c].pending
             /\ Mild(s[c], s2[c])
             /\ s2[c].ref = s[c].ref /\ s2[c].status = s[c].status
             /\ s2[c].kind = s[c].kind /\ s2[c].at = s[c].at
             /\ s2[c].zombies = s[c].zombies
  <2>1. CASE c \in D
    <3> DEFINE r == [s[c] EXCEPT !.pending = @ \ {"op"}]
    <3>1. s[c] \in CoCtx /\ Life(s[c])
      BY DEF LiveInv
    <3>2. /\ r.kind = s[c].kind /\ r.parent = s[c].parent
          /\ r.ref = s[c].ref /\ r.status = s[c].status
          /\ r.zombies = s[c].zombies /\ r.at = s[c].at
          /\ r.pending = s[c].pending \ {"op"} /\ r \in CoCtx
      BY <3>1 DEF CoCtx
    <3>3. r.pending \in {{}, s[c].pending} /\ "op" \notin r.pending
      BY <3>1, <3>2 DEF Life
    <3>4. s2[c] = r
      BY <2>1 DEF CancelOps
    <3> HIDE DEF r, s2
    <3>5. Mild(s[c], r)
      BY <3>1, <3>2, <3>3 DEF Mild, Life, Gone
    <3> QED
      BY <3>2, <3>3, <3>4, <3>5
  <2>2. CASE c \notin D
    <3>1. s2[c] = s[c]
      BY <2>2 DEF CancelOps
    <3> QED
      BY <2>2, <3>1, SameMild
  <2> QED
    BY <2>1, <2>2
<1> HIDE DEF s2
<1>3. LiveInv(s2) /\ Counted(s2) = Counted(s)
  BY <1>1, <1>2, MildLive
<1> QED
  BY <1>1, <1>2, <1>3 DEF s2

\* Deleting threads that wait for nothing takes them out of the count
LEMMA DelLive ==
    ASSUME NEW s \in [Co -> CoCtx], LiveInv(s), NEW D,
           \A c \in Co \cap D : s[c].pending = {}
    PROVE  /\ DelThreads(s, D) \in [Co -> CoCtx]
           /\ LiveInv(DelThreads(s, D))
           /\ Counted(DelThreads(s, D)) = Counted(s) \ D
           /\ \A c \in Co \cap D : ~DelThreads(s, D)[c].ref
           /\ \A c \in Co \ D : DelThreads(s, D)[c] = s[c]
           /\ \A c \in Co : /\ DelThreads(s, D)[c].parent = s[c].parent
                            /\ DelThreads(s, D)[c].pending = s[c].pending
<1> DEFINE s2 == DelThreads(s, D)
<1>1. s2 \in [Co -> CoCtx]
  BY DelThreadsShape DEF SameShape
<1>2. ASSUME NEW c \in Co
      PROVE  /\ c \in D => ~s2[c].ref
             /\ c \notin D => s2[c] = s[c]
             /\ s2[c].parent = s[c].parent /\ s2[c].kind = s[c].kind
             /\ s2[c].zombies = s[c].zombies
             /\ s2[c].pending = s[c].pending
             /\ Life(s2[c])
             /\ Gone(s[c]) => Gone(s2[c])
             /\ s2[c].status = "suspended" => s[c].status = "suspended"
  <2>1. CASE c \in D /\ s[c].ref
    <3> DEFINE r == [s[c] EXCEPT !.ref = FALSE, !.status = "dead"]
    <3>1. s[c] \in CoCtx /\ Life(s[c])
      BY DEF LiveInv
    <3>2. /\ r.kind = s[c].kind /\ r.parent = s[c].parent
          /\ ~r.ref /\ r.status = "dead"
          /\ r.zombies = s[c].zombies /\ r.at = s[c].at
          /\ r.pending = s[c].pending
      BY <3>1 DEF CoCtx
    <3>3. s2[c] = r
      BY <2>1 DEF DelThreads
    <3> HIDE DEF r, s2
    <3> QED
      BY <2>1, <3>1, <3>2, <3>3 DEF Life, Gone
  <2>2. CASE ~(c \in D /\ s[c].ref)
    <3>1. s2[c] = s[c]
      BY <2>2 DEF DelThreads
    <3> HIDE DEF s2
    <3> QED
      BY <2>2, <3>1 DEF LiveInv
  <2> QED
    BY <2>1, <2>2
<1>3. Counted(s2) = Counted(s) \ D
  <2> HIDE DEF s2
  <2> QED
    BY <1>2 DEF Counted
<1>4. LiveInv(s2)
  <2> HIDE DEF s2
  <2>1. ASSUME NEW c \in Co, NEW z \in s2[c].zombies PROVE Gone(s2[z])
    <3>1. z \in s[c].zombies /\ z \in Co
      BY <1>1, <1>2, <2>1 DEF CoCtx
    <3> QED
      BY <1>2, <3>1 DEF LiveInv
  <2> QED
    BY <1>2, <2>1 DEF LiveInv
<1> HIDE DEF s2
<1> QED
  BY <1>1, <1>2, <1>3, <1>4 DEF s2

LEMMA CountedFinite ==
    ASSUME NEW s
    PROVE  IsFiniteSet(Counted(s)) /\ Cardinality(Counted(s)) \in Nat
<1>1. Counted(s) \subseteq Co
  BY DEF Counted
<1>2. IsFiniteSet(Counted(s))
  BY <1>1, CoAssumption, FS_Subset
<1> QED
  BY <1>2, FS_CardinalityType

-----------------------------------------------------------------------------

\* The request ends with an exact count: the assertion of finalize_threads
LEMMA FinalizeCount ==
    ASSUME NEW STATE s, NEW STATE n, s \in [Co -> CoCtx],
           n = Cardinality(Counted(s)), FinalizeThreads(s, n)
    PROVE  CountInv' /\ uthreads' = 0
<1> DEFINE s2 == CancelOps(s, Co)
<1>1. s2 \in [Co -> CoCtx]
  BY CancelOpsShape DEF SameShape
<1> HIDE DEF s2
<1>2. /\ co' = DelThreads(s2, Co) /\ mode' = "done" /\ cur' = NoCo
      /\ uthreads' = n - Cardinality(Counted(s))
  BY DEF FinalizeThreads, s2
<1>3. \A c \in Co : ~co'[c].ref
  <2>1. ASSUME NEW c \in Co PROVE ~DelThreads(s2, Co)[c].ref
    <3>1. [s2[c] EXCEPT !.ref = FALSE, !.status = "dead"].ref = FALSE
      BY <1>1 DEF CoCtx
    <3> QED
      BY <3>1 DEF DelThreads
  <2> QED
    BY <1>2, <2>1
<1>4. uthreads' = 0
  BY <1>2, CountedFinite
<1>5. Cardinality(Counted(co)') = 0
  <2>1. Counted(co)' = {}
    BY <1>3 DEF Counted
  <2> QED
    BY <2>1, FS_EmptySet
<1>6. UthreadsExact'
  BY <1>4, <1>5 DEF UthreadsExact
<1> QED
  BY <1>2, <1>4, <1>6 DEF CountInv, RunsLive

\* Control goes to a thread that can run
LEMMA ResumesLive ==
    ASSUME NEW STATE s, NEW STATE p, s \in [Co -> CoCtx], LiveInv(s),
           p \in Co, s[p].kind # "none", Alive(s, p),
           s[p].status # "suspended", "subreq" \notin s[p].pending,
           mode' = "lua", cur' = p, UNCHANGED onAbort,
           co' \in {Continue(s, p), Continue(WithStatus(s, p, "running"), p)},
           co' = Continue(s, p) => s[p].status = "running",
           uthreads' = Cardinality(Counted(s))
    PROVE  CountInv'
<1> DEFINE r == [s[p] EXCEPT !.status = "running"]
           q == [s[p] EXCEPT !.status = "running", !.at = "run"]
<1>1. s[p] \in CoCtx /\ Life(s[p])
  BY DEF LiveInv
<1>2. s[p].at \notin {"end", "fail"} /\ s[p].ref
  BY <1>1 DEF Life, Alive
<1>3. /\ q \in CoCtx /\ q.kind = s[p].kind /\ q.parent = s[p].parent
      /\ q.ref = s[p].ref /\ q.zombies = s[p].zombies
      /\ q.status = "running" /\ q.at = "run" /\ q.pending = s[p].pending
  BY <1>1 DEF CoCtx, Statuses, Points
<1>4. Mild(s[p], q)
  <2> HIDE DEF q
  <2> QED
    BY <1>1, <1>2, <1>3 DEF Mild, Life, Gone, Alive
<1>5. co' = Put(s, p, q)
  <2>1. CASE co' = Continue(s, p)
    <3>1. [s[p] EXCEPT !.at = "run"] = q
      BY <1>1, <2>1 DEF CoCtx
    <3> QED
      BY <1>2, <2>1, <3>1 DEF Continue
  <2>2. CASE co' = Continue(WithStatus(s, p, "running"), p)
    <3>1. WithStatus(s, p, "running")[p] = r
      BY DEF WithStatus, Put
    <3>2. r.at = s[p].at
      BY <1>1 DEF CoCtx
    <3>3. [r EXCEPT !.at = "run"] = q
      BY <1>1 DEF CoCtx
    <3>4. Continue(WithStatus(s, p, "running"), p)
            = Put(WithStatus(s, p, "running"), p, [r EXCEPT !.at = "run"])
      BY <1>2, <3>1, <3>2 DEF Continue
    <3> QED
      BY <2>2, <3>3, <3>4 DEF WithStatus, Put
  <2> QED
    BY <2>1, <2>2
<1> HIDE DEF q
<1>6. LiveInv(co') /\ Counted(co') = Counted(s)
  BY <1>4, <1>5, PutLive
<1>7. UthreadsExact'
  BY <1>6 DEF UthreadsExact, Counted
<1>8. co'[p] = q
  BY <1>5 DEF Put
<1> QED
  BY <1>2, <1>3, <1>6, <1>7, <1>8 DEF CountInv, RunsLive

\* What the end of thread c does, seen from contexts s in which c is dead but
\* still anchored
LEMMA ThreadEndsCount ==
    ASSUME NEW STATE s, NEW STATE n, NEW STATE c, CoInv(s), LiveInv(s),
           n = Cardinality(Counted(s)), c \in Co, s[c].kind = "thread",
           s[c].ref, s[c].status = "dead", s[c].pending = {},
           s[c].waited => "subreq" \notin s[s[c].parent].pending,
           ThreadEnds(s, n, c)
    PROVE  CountInv'
<1> DEFINE p == s[c].parent
           d == DelThreads(s, {c})
<1>1. /\ s \in [Co -> CoCtx] /\ p \in Co /\ s[p].kind # "none"
      /\ s[c] \in CoCtx /\ s[p] \in CoCtx /\ Life(s[c]) /\ Life(s[p])
      /\ p # c /\ s[p].status # "suspended"
  BY DEF CoInv, Started, LiveInv
<1>2. /\ d \in [Co -> CoCtx] /\ LiveInv(d) /\ Counted(d) = Counted(s) \ {c}
      /\ d[p] = s[p]
  BY <1>1, DelLive
<1>3. Cardinality(Counted(d)) = n - 1
  <2>1. c \in Counted(s)
    BY DEF Counted
  <2> HIDE DEF d
  <2> QED
    BY <1>2, <2>1, CountedFinite, FS_RemoveElement
<1>a. ASSUME Alive(s, p), s[c].waited,
             UserCoDone(Put(s, c, [s[c] EXCEPT !.waited = FALSE]), n, c)
      PROVE  CountInv'
  <2> DEFINE r == [s[c] EXCEPT !.waited = FALSE]
             w == Put(s, c, r)
             e == DelThreads(w, {c})
  <2>1. /\ r \in CoCtx /\ r.kind = s[c].kind /\ r.parent = p
        /\ r.ref = s[c].ref /\ r.zombies = s[c].zombies
        /\ r.status = s[c].status /\ r.at = s[c].at
        /\ r.pending = s[c].pending
    BY <1>1 DEF CoCtx
  <2>2. Mild(s[c], r)
    <3> HIDE DEF r
    <3> QED
      BY <1>1, <2>1 DEF Mild, Life, Gone
  <2> HIDE DEF r
  <2>3. w \in [Co -> CoCtx] /\ LiveInv(w) /\ Counted(w) = Counted(s)
    BY <1>1, <2>2, PutLive
  <2>4. w[c] = r /\ w[p] = s[p]
    BY <1>1 DEF Put
  <2> HIDE DEF w
  <2>5. /\ e \in [Co -> CoCtx] /\ LiveInv(e)
        /\ Counted(e) = Counted(s) \ {c} /\ e[p] = s[p]
    BY <1>1, <2>1, <2>3, <2>4, DelLive
  <2>6. /\ mode' = "lua" /\ cur' = p /\ UNCHANGED onAbort
        /\ uthreads' = n - 1
        /\ co' = Continue(WithStatus(e, p, "running"), p)
    BY <1>1, <1>a, <2>1, <2>4 DEF UserCoDone, w, r
  <2> HIDE DEF e
  <2>7. uthreads' = Cardinality(Counted(e))
    BY <1>2, <1>3, <2>5, <2>6
  <2>8. /\ e[p].kind # "none" /\ Alive(e, p) /\ e[p].status = s[p].status
        /\ "subreq" \notin e[p].pending
    BY <1>1, <1>a, <2>5 DEF Alive
  <2>9. co' = Continue(e, p) => e[p].status = "running"
    <3>1. SUFFICES ASSUME co' = Continue(e, p), e[p].status # "running"
                   PROVE  FALSE
      OBVIOUS
    <3>2. e[p] \in CoCtx
      BY <1>1, <2>5
    <3>3. Continue(e, p)[p].status = e[p].status
      BY <1>1, <3>2 DEF Continue, Put, CoCtx
    <3>4. Continue(WithStatus(e, p, "running"), p)[p].status = "running"
      <4>1. WithStatus(e, p, "running")[p] = [e[p] EXCEPT !.status = "running"]
        BY <1>1 DEF WithStatus, Put
      <4>2. [e[p] EXCEPT !.status = "running"] \in CoCtx
        BY <3>2 DEF CoCtx, Statuses
      <4>3. [e[p] EXCEPT !.status = "running"].status = "running"
        BY <3>2 DEF CoCtx
      <4> QED
        BY <1>1, <4>1, <4>2, <4>3 DEF Continue, Put, CoCtx
    <3> QED
      BY <2>6, <3>1, <3>3, <3>4
  <2> QED
    BY <1>1, <1>a, <2>5, <2>6, <2>7, <2>8, <2>9, ResumesLive
<1>b. ASSUME Alive(s, p),
             co' = WithStatus(Put(s, p, [s[p] EXCEPT !.zombies = @ \cup {c}]),
                              c, "zombie"),
             uthreads' = n, Again, UNCHANGED onAbort
      PROVE  CountInv'
  <2> DEFINE r == [s[p] EXCEPT !.zombies = @ \cup {c}]
             q == [s[c] EXCEPT !.status = "zombie"]
  <2>1. /\ r \in CoCtx /\ r.kind = s[p].kind /\ r.parent = s[p].parent
        /\ r.ref = s[p].ref /\ r.zombies = s[p].zombies \cup {c}
        /\ r.status = s[p].status /\ r.at = s[p].at
        /\ r.pending = s[p].pending
    BY <1>1 DEF CoCtx
  <2>2. /\ q \in CoCtx /\ q.kind = s[c].kind /\ q.parent = p
        /\ q.ref = s[c].ref /\ q.zombies = s[c].zombies
        /\ q.status = "zombie" /\ q.at = s[c].at
        /\ q.pending = s[c].pending
    BY <1>1 DEF CoCtx, Statuses
  <2>3. co' = [x \in Co |-> IF x = c THEN q ELSE IF x = p THEN r ELSE s[x]]
    BY <1>1, <1>b DEF WithStatus, Put
  <2> HIDE DEF r, q
  <2>4. /\ co' \in [Co -> CoCtx] /\ co'[c] = q /\ co'[p] = r
        /\ \A x \in Co : x # c /\ x # p => co'[x] = s[x]
    BY <1>1, <2>1, <2>2, <2>3
  <2>5. Gone(q) /\ Life(q) /\ Life(r)
    BY <1>1, <2>1, <2>2 DEF Gone, Life
  <2>6. \A x \in Co : Gone(s[x]) => Gone(co'[x])
    BY <2>1, <2>4, <2>5 DEF Gone
  <2>7. \A x \in Co : /\ co'[x].parent = s[x].parent
                      /\ co'[x].zombies \subseteq s[x].zombies \cup {c}
                      /\ Life(co'[x])
                      /\ co'[x].status = "suspended" <=> s[x].status = "suspended"
                      /\ co'[x].kind = s[x].kind /\ co'[x].ref = s[x].ref
    BY <1>1, <2>1, <2>2, <2>4, <2>5 DEF LiveInv
  <2>8. ASSUME NEW x \in Co, NEW z \in co'[x].zombies PROVE Gone(co'[z])
    <3>1. z = c \/ (z \in s[x].zombies /\ z \in Co)
      BY <1>1, <2>7 DEF CoCtx
    <3> QED
      BY <2>4, <2>5, <2>6, <3>1 DEF LiveInv
  <2>9. LiveInv(co')
    BY <2>7, <2>8 DEF LiveInv
  <2>10. Counted(co)' = Counted(s)
    <3>1. \A x \in Co : /\ co'[x].kind = s[x].kind /\ co'[x].ref = s[x].ref
                        /\ co'[x].status = "suspended" <=> s[x].status = "suspended"
      BY <2>7
    <3>2. onAbort' = onAbort
      BY <1>b
    <3>3. \A x \in Co : x \in Counted(co)' <=> x \in Counted(s)
      BY <3>1, <3>2 DEF Counted
    <3>4. Counted(co)' \subseteq Co /\ Counted(s) \subseteq Co
      BY DEF Counted
    <3> QED
      BY ONLY <3>3, <3>4
  <2> QED
    BY <1>b, <2>9, <2>10 DEF CountInv, UthreadsExact, RunsLive, Again
<1>c. ASSUME FinalizeThreads(d, n - 1) PROVE CountInv'
  <2> HIDE DEF d
  <2>1. Cardinality(Counted(d)) = n - 1
    BY <1>3
  <2> QED
    BY <1>2, <1>c, <2>1, FinalizeCount
<1>d. ASSUME co' = d, uthreads' = n - 1, Again, UNCHANGED onAbort
      PROVE  CountInv'
  <2> HIDE DEF d
  <2>1. Counted(co)' = Counted(d)
    BY <1>d DEF Counted
  <2> QED
    BY <1>2, <1>3, <1>d, <2>1 DEF CountInv, UthreadsExact, RunsLive, Again
<1>e. /\ ThreadEnds(s, n, c)
      /\ IsWaitedFor(s, c) = s[c].waited
      /\ (IF s[c].ref THEN n - 1 ELSE n) = n - 1
  BY DEF IsWaitedFor
<1> QED
  BY <1>a, <1>b, <1>c, <1>d, <1>e DEF ThreadEnds

-----------------------------------------------------------------------------

\* The facts about the coroutine that runs which every API call starts from
LEMMA RunsCount ==
    ASSUME TypeInv, CountInv, mode = "lua"
    PROVE  /\ co \in [Co -> CoCtx] /\ cur \in Co /\ cur # NoCo
           /\ co[cur] \in CoCtx /\ Life(co[cur])
           /\ co[cur].kind \in {"entry", "thread"}
           /\ co[cur].status = "running" /\ co[cur].ref /\ co[cur].at = "run"
           /\ co[cur].pending \subseteq {"op"}
           /\ LiveInv(co) /\ uthreads = Cardinality(Counted(co))
<1>1. /\ co \in [Co -> CoCtx] /\ cur \in Co /\ cur # NoCo
      /\ co[cur] \in CoCtx
  BY Runs
<1>2. /\ LiveInv(co) /\ uthreads = Cardinality(Counted(co))
      /\ co[cur].status = "running" /\ co[cur].ref /\ co[cur].at = "run"
      /\ co[cur].kind # "none" /\ "subreq" \notin co[cur].pending
  BY <1>1 DEF CountInv, RunsLive, UthreadsExact
<1>3. Life(co[cur]) /\ co[cur].pending \subseteq {"op", "subreq"}
  BY <1>1, <1>2 DEF LiveInv, CoCtx
<1> QED
  BY <1>1, <1>2, <1>3 DEF Life

\* When the coroutine that runs leaves the Lua VM it is dead, still anchored
\* and counted, and nobody's zombie
LEMMA EndedLive ==
    ASSUME TypeInv, CountInv, mode = "lua"
    PROVE  LET s == Ended(cur)
           IN  /\ s \in [Co -> CoCtx] /\ CoInv(s) /\ LiveInv(s)
               /\ Counted(s) = Counted(co)
               /\ s[cur].kind = co[cur].kind /\ s[cur].ref
               /\ s[cur].status = "dead" /\ s[cur].pending = {}
               /\ s[cur].zombies = co[cur].zombies
               /\ s[cur].parent = co[cur].parent
               /\ s[cur].waited = co[cur].waited /\ s[cur].at = "end"
               /\ \A c \in Co : c # cur => s[c] = co[c]
<1> DEFINE q == [co[cur] EXCEPT !.status = "dead", !.at = "end"]
           w == [co EXCEPT ![cur] = q]
           s == Ended(cur)
<1>1. /\ co \in [Co -> CoCtx] /\ cur \in Co /\ cur # NoCo
      /\ co[cur] \in CoCtx /\ Life(co[cur])
      /\ co[cur].kind \in {"entry", "thread"}
      /\ co[cur].status = "running" /\ co[cur].ref /\ LiveInv(co)
      /\ co[cur].pending \subseteq {"op"}
  BY RunsCount
<1>2. /\ q \in CoCtx /\ q.kind = co[cur].kind /\ q.parent = co[cur].parent
      /\ q.ref /\ q.zombies = co[cur].zombies /\ q.status = "dead"
      /\ q.at = "end" /\ q.pending = co[cur].pending
      /\ q.waited = co[cur].waited
  BY <1>1 DEF CoCtx, Statuses, Points
<1>3. s = CancelOps(w, {cur})
  BY <1>1 DEF Ended
<1> DEFINE r == [q EXCEPT !.pending = @ \ {"op"}]
<1>4. /\ r \in CoCtx /\ r.kind = co[cur].kind /\ r.parent = co[cur].parent
      /\ r.ref /\ r.zombies = co[cur].zombies /\ r.status = "dead"
      /\ r.pending = {} /\ r.waited = co[cur].waited /\ r.at = "end"
  <2> HIDE DEF q
  <2> QED
    BY <1>1, <1>2 DEF CoCtx
<1>5. s = Put(co, cur, r)
  <2> HIDE DEF q
  <2> QED
    BY <1>1, <1>2, <1>3 DEF CancelOps, Put
<1> HIDE DEF q
<1>6. Mild(co[cur], r)
  <2> HIDE DEF r
  <2> QED
    BY <1>1, <1>4 DEF Mild, Life, Gone
<1> HIDE DEF r
<1>7. s \in [Co -> CoCtx] /\ LiveInv(s) /\ Counted(s) = Counted(co)
  BY <1>1, <1>5, <1>6, PutLive
<1>8. CoInv(s)
  BY <1>1, EndedShape, ShapeKeepsCoInv DEF TypeInv
<1>9. s[cur] = r /\ \A c \in Co : c # cur => s[c] = co[c]
  BY <1>1, <1>5 DEF Put
<1> QED
  BY <1>4, <1>7, <1>8, <1>9

LEMMA CountReturn ==
    ASSUME TypeInv, CountInv, OneAtATime => SuspInv, Return
    PROVE  CountInv'
<1> DEFINE s0 == Ended(cur)
           R == Reaped(cur)
           s1 == DelThreads(s0, R)
           r == [s1[cur] EXCEPT !.zombies = {}]
           s == Put(s1, cur, r)
           n == uthreads - Cardinality(R)
<1>1. /\ co \in [Co -> CoCtx] /\ cur \in Co /\ co[cur] \in CoCtx
      /\ co[cur].kind \in {"entry", "thread"} /\ LiveInv(co)
      /\ uthreads = Cardinality(Counted(co))
      /\ co[cur].status = "running" /\ co[cur].ref /\ mode = "lua"
  BY RunsCount DEF Return
<1>2. /\ s0 \in [Co -> CoCtx] /\ CoInv(s0) /\ LiveInv(s0)
      /\ Counted(s0) = Counted(co)
      /\ s0[cur].kind = co[cur].kind /\ s0[cur].ref
      /\ s0[cur].status = "dead" /\ s0[cur].pending = {}
      /\ s0[cur].parent = co[cur].parent /\ s0[cur].waited = co[cur].waited
      /\ \A c \in Co : c # cur => s0[c] = co[c]
  BY EndedLive DEF Return
<1>3. /\ R \subseteq Counted(co) /\ cur \notin R
      /\ \A c \in R : co[c].status = "zombie"
  <2>1. \A z \in R : /\ z \in Co /\ co[z].kind = "thread" /\ co[z].ref
                     /\ co[z].status = "zombie"
    BY <1>1 DEF Reaped, LiveInv, Gone, CoCtx
  <2> QED
    BY <1>1, <2>1 DEF Counted
<1>4. \A c \in Co \cap R : s0[c].pending = {}
  BY <1>1, <1>2, <1>3 DEF LiveInv, Life
<1> HIDE DEF s0
<1>5. /\ s1 \in [Co -> CoCtx] /\ LiveInv(s1) /\ Counted(s1) = Counted(co) \ R
      /\ s1[cur] = s0[cur]
      /\ \A c \in Co : s1[c].pending = s0[c].pending
  BY <1>1, <1>2, <1>3, <1>4, DelLive
<1>6. CoInv(s1)
  BY <1>2, DelThreadsShape, ShapeKeepsCoInv
<1> HIDE DEF s1
<1>7. /\ r \in CoCtx /\ r.kind = co[cur].kind /\ r.parent = s1[cur].parent
      /\ r.ref /\ r.status = "dead" /\ r.pending = {} /\ r.zombies = {}
      /\ r.at = s1[cur].at /\ r.waited = co[cur].waited
  <2>1. s1[cur] \in CoCtx
    BY <1>1, <1>5
  <2> QED
    BY <1>2, <1>5, <2>1 DEF CoCtx
<1>8. Mild(s1[cur], r)
  <2> HIDE DEF r
  <2> QED
    BY <1>1, <1>2, <1>5, <1>7 DEF Mild, Life, Gone
<1>9. CoInv(s)
  BY <1>1, <1>5, <1>6, NoZombiesShape, ShapeKeepsCoInv
<1> HIDE DEF r
<1>10. /\ s \in [Co -> CoCtx] /\ LiveInv(s)
       /\ Counted(s) = Counted(co) \ R /\ s[cur] = r
  <2>1. s[cur] = r
    BY <1>1 DEF Put
  <2>2. s \in [Co -> CoCtx] /\ LiveInv(s) /\ Counted(s) = Counted(s1)
    BY <1>1, <1>5, <1>8, PutLive
  <2> QED
    BY <1>5, <2>1, <2>2
<1>11. n = Cardinality(Counted(s))
  <2>1. Counted(co) \cap R = R
    BY <1>3
  <2>2. Cardinality(Counted(co) \ R) = Cardinality(Counted(co)) - Cardinality(R)
    BY <2>1, CountedFinite, FS_Difference
  <2> QED
    BY <1>1, <1>10, <2>2
<1>12. \/ co[cur].kind = "thread" /\ ThreadEnds(s, n, cur)
       \/ /\ co[cur].kind = "entry"
          /\ FinalizeThreads(DelThreads(s, {cur}), n)
       \/ /\ co[cur].kind = "entry" /\ co' = DelThreads(s, {cur})
          /\ uthreads' = n /\ Again /\ UNCHANGED onAbort
  BY <1>1 DEF Return, s, r, s1, s0
<1>17. s[cur].waited /\ co[cur].kind = "thread"
         => "subreq" \notin s[s[cur].parent].pending
  <2> SUFFICES ASSUME co[cur].waited, co[cur].kind = "thread"
               PROVE  "subreq" \notin s[s[cur].parent].pending
    BY <1>7, <1>10
  <2>1. /\ co[cur].parent \in Co /\ co[cur].parent # cur
        /\ s[cur].parent = co[cur].parent
    BY <1>1, <1>2, <1>5, <1>7, <1>10 DEF TypeInv, CoInv, Started, LiveInv
  <2>2. "subreq" \notin co[co[cur].parent].pending
    BY <1>1, <2>1, NoSubrequestCut DEF Awaited, Alive
  <2>3. s[co[cur].parent] = s1[co[cur].parent]
    BY <2>1 DEF Put
  <2> QED
    BY <1>2, <1>5, <2>1, <2>2, <2>3
<1> HIDE DEF s, n
<1>13. CASE co[cur].kind = "thread" /\ ThreadEnds(s, n, cur)
  BY <1>1, <1>7, <1>9, <1>10, <1>11, <1>13, <1>17, ThreadEndsCount
<1>14. ASSUME co[cur].kind = "entry"
       PROVE  /\ DelThreads(s, {cur}) \in [Co -> CoCtx]
              /\ LiveInv(DelThreads(s, {cur}))
              /\ n = Cardinality(Counted(DelThreads(s, {cur})))
  <2>1. /\ DelThreads(s, {cur}) \in [Co -> CoCtx]
        /\ LiveInv(DelThreads(s, {cur}))
        /\ Counted(DelThreads(s, {cur})) = Counted(s) \ {cur}
    BY <1>1, <1>7, <1>10, DelLive
  <2>2. cur \notin Counted(s)
    BY <1>7, <1>10, <1>14 DEF Counted
  <2>3. Counted(s) \ {cur} = Counted(s)
    BY <2>2
  <2> QED
    BY <1>11, <2>1, <2>3
<1>15. CASE co[cur].kind = "entry" /\ FinalizeThreads(DelThreads(s, {cur}), n)
  <2> DEFINE d == DelThreads(s, {cur})
  <2>1. /\ d \in [Co -> CoCtx] /\ LiveInv(d) /\ n = Cardinality(Counted(d))
        /\ FinalizeThreads(d, n)
    BY <1>14, <1>15
  <2> HIDE DEF d
  <2> QED
    BY <2>1, FinalizeCount
<1>16. CASE /\ co[cur].kind = "entry" /\ co' = DelThreads(s, {cur})
            /\ uthreads' = n /\ Again /\ UNCHANGED onAbort
  <2>1. Counted(co)' = Counted(DelThreads(s, {cur}))
    BY <1>16 DEF Counted
  <2> QED
    BY <1>14, <1>16, <2>1 DEF CountInv, UthreadsExact, RunsLive, Again
<1> QED
  BY <1>12, <1>13, <1>15, <1>16

LEMMA CountError ==
    ASSUME TypeInv, CountInv, OneAtATime => SuspInv, Error
    PROVE  CountInv'
<1> DEFINE s == Ended(cur)
<1>1. /\ cur \in Co /\ co[cur].kind \in {"entry", "thread"}
      /\ uthreads = Cardinality(Counted(co)) /\ mode = "lua"
      /\ co[cur].status = "running" /\ LiveInv(co)
  BY RunsCount DEF Error
<1>2. /\ s \in [Co -> CoCtx] /\ CoInv(s) /\ LiveInv(s)
      /\ Counted(s) = Counted(co)
      /\ s[cur].kind = co[cur].kind /\ s[cur].ref
      /\ s[cur].status = "dead" /\ s[cur].pending = {}
      /\ s[cur].parent = co[cur].parent /\ s[cur].waited = co[cur].waited
      /\ \A c \in Co : c # cur => s[c] = co[c]
  BY EndedLive DEF Error
<1>3. Raise(s, uthreads, cur)
  BY DEF Error
<1> HIDE DEF s
<1>4. \/ s[cur].kind = "thread" /\ ThreadEnds(s, uthreads, cur)
      \/ s[cur].kind = "entry" /\ FinalizeThreads(s, uthreads)
  BY <1>1, <1>2, <1>3 DEF Raise
<1>5. CASE s[cur].kind = "thread" /\ ThreadEnds(s, uthreads, cur)
  <2>1. co[cur].parent \in Co /\ co[cur].parent # cur
    BY <1>1, <1>2, <1>5 DEF TypeInv, CoInv, Started, LiveInv
  <2>2. co[cur].waited => "subreq" \notin co[co[cur].parent].pending
    BY <1>1, <2>1, NoSubrequestCut DEF Awaited, Alive
  <2>3. s[cur].waited => "subreq" \notin s[s[cur].parent].pending
    BY <1>2, <2>1, <2>2
  <2> QED
    BY <1>1, <1>2, <1>5, <2>3, ThreadEndsCount
<1>6. CASE s[cur].kind = "entry" /\ FinalizeThreads(s, uthreads)
  BY <1>1, <1>2, <1>6, FinalizeCount
<1> QED
  BY <1>4, <1>5, <1>6

LEMMA CountExit ==
    ASSUME TypeInv, CountInv, NEW forced, Exit(forced)
    PROVE  CountInv'
<1> DEFINE r == [co[cur] EXCEPT !.status = "dead"]
           q == [r EXCEPT !.pending = @ \ {"op"}]
           s == CancelOps(WithStatus(co, cur, "dead"), {cur})
<1>1. /\ co \in [Co -> CoCtx] /\ cur \in Co /\ co[cur] \in CoCtx
      /\ Life(co[cur]) /\ co[cur].kind \in {"entry", "thread"}
      /\ co[cur].status = "running" /\ co[cur].ref /\ co[cur].at = "run"
      /\ LiveInv(co) /\ uthreads = Cardinality(Counted(co))
      /\ co[cur].pending \subseteq {"op"}
  BY RunsCount DEF Exit, Calls
<1>2. /\ r \in CoCtx /\ r.kind = co[cur].kind /\ r.parent = co[cur].parent
      /\ r.ref /\ r.zombies = co[cur].zombies /\ r.status = "dead"
      /\ r.at = "run" /\ r.pending = co[cur].pending
  BY <1>1 DEF CoCtx, Statuses
<1>3. s = Put(co, cur, q)
  BY <1>1 DEF WithStatus, CancelOps, Put
<1> HIDE DEF r
<1>4. /\ q \in CoCtx /\ q.kind = co[cur].kind /\ q.parent = co[cur].parent
      /\ q.ref /\ q.zombies = co[cur].zombies /\ q.status = "dead"
      /\ q.at = "run" /\ q.pending = {}
  BY <1>1, <1>2 DEF CoCtx
<1> HIDE DEF q
<1>5. Mild(co[cur], q)
  BY <1>1, <1>4 DEF Mild, Life, Gone
<1>6. s \in [Co -> CoCtx] /\ LiveInv(s) /\ Counted(s) = Counted(co)
  BY <1>1, <1>3, <1>5, PutLive
<1>7. FinalizeThreads(s, uthreads)
  BY DEF Exit
<1> HIDE DEF s
<1> QED
  BY <1>1, <1>6, <1>7, FinalizeCount

\* A call that replaces the context of the coroutine that runs by r and
\* suspends it
LEMMA SuspendsCount ==
    ASSUME TypeInv, CountInv, mode = "lua", NEW STATE r, Mild(co[cur], r),
           co' = Put(co, cur, r), Again, UNCHANGED <<uthreads, onAbort>>
    PROVE  CountInv'
<1>1. LiveInv(co') /\ Counted(co') = Counted(co)
  BY RunsCount, PutLive
<1>2. Counted(co)' = Counted(co)
  BY <1>1 DEF Counted
<1> QED
  BY <1>1, <1>2, RunsCount DEF CountInv, UthreadsExact, RunsLive, Again

LEMMA CountYieldThread ==
    ASSUME TypeInv, CountInv, YieldThread
    PROVE  CountInv'
<1> DEFINE r == [co[cur] EXCEPT !.status = "running", !.at = "yield"]
<1>1. /\ co \in [Co -> CoCtx] /\ cur \in Co /\ co[cur] \in CoCtx
      /\ Life(co[cur]) /\ co[cur].status = "running" /\ mode = "lua"
  BY RunsCount DEF YieldThread, Calls
<1>2. /\ r \in CoCtx /\ r.kind = co[cur].kind /\ r.parent = co[cur].parent
      /\ r.ref = co[cur].ref /\ r.zombies = co[cur].zombies
      /\ r.status = "running" /\ r.at = "yield"
      /\ r.pending = co[cur].pending
  BY <1>1 DEF CoCtx, Statuses, Points
<1>3. /\ co' = [co EXCEPT ![cur] = r]
      /\ Again /\ UNCHANGED <<uthreads, onAbort>>
  BY <1>1 DEF YieldThread
<1> HIDE DEF r
<1>4. Mild(co[cur], r)
  BY <1>1, <1>2 DEF Mild, Life, Gone
<1>5. co' = Put(co, cur, r)
  BY <1>1, <1>3 DEF Put
<1> QED
  BY <1>1, <1>3, <1>4, <1>5, SuspendsCount

\* Sleep and Capture: the operation is the only one that is pending
LEMMA CountIO ==
    ASSUME OnlyThreads, TypeInv, CountInv, OneAtATime => SuspInv,
           NEW op \in {"op", "subreq"},
           op = "op" => Sleep, op = "subreq" => Capture
    PROVE  CountInv'
<1> DEFINE r == [co[cur] EXCEPT !.pending = @ \cup {op}, !.at = "io"]
<1>1. /\ co \in [Co -> CoCtx] /\ cur \in Co /\ co[cur] \in CoCtx
      /\ Life(co[cur]) /\ co[cur].status = "running" /\ mode = "lua"
      /\ co[cur].pending \subseteq {"op"} /\ co[cur].at = "run"
  BY RunsCount DEF Sleep, Capture, Calls
<1>2. /\ co[cur].pending \cup {op} = {op}
      /\ op = "subreq" => OneAtATime
  <2>1. CASE op = "op"
    BY <1>1, <2>1
  <2>2. CASE op = "subreq"
    <3>1. OneAtATime
      BY <2>2 DEF OnlyThreads, Capture, Calls
    <3>2. co[cur].pending = {}
      BY <1>1, <3>1 DEF SuspInv, Stands
    <3> QED
      BY <2>2, <3>1, <3>2
  <2> QED
    BY <2>1, <2>2
<1>3. /\ co' = [co EXCEPT ![cur] = r]
      /\ Again /\ UNCHANGED <<uthreads, onAbort>>
  BY <1>1 DEF Sleep, Capture
<1>4. /\ r \in CoCtx /\ r.kind = co[cur].kind /\ r.parent = co[cur].parent
      /\ r.ref = co[cur].ref /\ r.zombies = co[cur].zombies
      /\ r.status = "running" /\ r.at = "io" /\ r.pending = {op}
  BY <1>1, <1>2 DEF CoCtx, Points
<1> HIDE DEF r
<1>5. Mild(co[cur], r)
  BY <1>1, <1>2, <1>4 DEF Mild, Life, Gone
<1>6. co' = Put(co, cur, r)
  BY <1>1, <1>3 DEF Put
<1> QED
  BY <1>1, <1>3, <1>5, <1>6, SuspendsCount

\* A thread that comes into being, counted or not
LEMMA CountNewThread ==
    ASSUME TypeInv, CountInv, NEW t \in Co, Spawn(t) \/ OnAbort(t)
    PROVE  CountInv'
<1> DEFINE fresh == [FreshCo EXCEPT !.kind = "thread", !.ref = TRUE,
                                    !.parent = cur]
           child == [fresh EXCEPT !.status = "running", !.at = "run"]
           q == [co[cur] EXCEPT !.at = "spawn"]
<1>1. /\ co \in [Co -> CoCtx] /\ cur \in Co /\ co[cur] \in CoCtx
      /\ Life(co[cur]) /\ co[cur].status = "running" /\ co[cur].ref
      /\ LiveInv(co) /\ uthreads = Cardinality(Counted(co))
      /\ co[cur].kind \in {"entry", "thread"} /\ co[cur].at = "run"
  BY RunsCount DEF Spawn, OnAbort, Calls
<1>2. /\ co[t].kind = "none" /\ t # cur
  BY <1>1 DEF Spawn, OnAbort, Unborn
<1>3. \A c \in Co : co[c].parent # t /\ t \notin co[c].zombies
  <2>1. ASSUME NEW c \in Co PROVE co[c].parent # t
    BY <1>2 DEF TypeInv, CoInv, Started
  <2>2. ASSUME NEW c \in Co PROVE t \notin co[c].zombies
    BY <1>1, <1>2 DEF LiveInv, Gone
  <2> QED
    BY <2>1, <2>2
<1>4. CASE OnAbort(t)
  <2>1. /\ fresh.kind = "thread" /\ fresh.ref /\ fresh.parent = cur
        /\ fresh.status = "suspended" /\ fresh.pending = {}
        /\ fresh.zombies = {} /\ fresh.at = "start"
    BY DEF FreshCo
  <2>2. /\ co' = [co EXCEPT ![t] = fresh] /\ onAbort = NoCo /\ onAbort' = t
        /\ UNCHANGED <<mode, cur, uthreads>>
    BY <1>4 DEF OnAbort
  <2> HIDE DEF fresh
  <2>3. co'[t] = fresh /\ \A c \in Co : c # t => co'[c] = co[c]
    BY <1>1, <2>2
  <2>4. ASSUME NEW c \in Co
        PROVE  /\ Life(co'[c]) /\ co'[c].parent # c
               /\ co'[c].parent \in Co => co'[co'[c].parent].status # "suspended"
               /\ \A z \in co'[c].zombies : Gone(co'[z])
    <3>1. CASE c = t
      BY <1>1, <1>2, <2>1, <2>3, <3>1 DEF Life
    <3>2. CASE c # t
      <4>1. \A z \in co[c].zombies : z \in Co /\ z # t /\ Gone(co[z])
        BY <1>1, <1>3 DEF LiveInv, CoCtx
      <4> QED
        BY <1>1, <1>3, <2>3, <3>2, <4>1 DEF LiveInv
    <3> QED
      BY <3>1, <3>2
  <2>5. LiveInv(co')
    BY <2>4 DEF LiveInv
  <2>6. Counted(co)' = Counted(co)
    <3>1. t \notin Counted(co)' /\ t \notin Counted(co)
      BY <1>2, <2>1, <2>2, <2>3 DEF Counted
    <3>2. \A c \in Co : c # t => (c \in Counted(co)' <=> c \in Counted(co))
      BY <2>2, <2>3, CoAssumption DEF Counted
    <3> QED
      BY <3>1, <3>2 DEF Counted
  <2>7. RunsLive'
    BY <1>1, <1>2, <2>2, <2>3 DEF RunsLive, CountInv
  <2> QED
    BY <1>1, <2>2, <2>5, <2>6, <2>7 DEF CountInv, UthreadsExact
<1>5. CASE Spawn(t)
  <2>1. /\ child.kind = "thread" /\ child.ref /\ child.parent = cur
        /\ child.status = "running" /\ child.pending = {}
        /\ child.zombies = {} /\ child.at = "run"
    BY DEF FreshCo
  <2>2. /\ q.kind = co[cur].kind /\ q.ref /\ q.parent = co[cur].parent
        /\ q.status = "running" /\ q.pending = co[cur].pending
        /\ q.zombies = co[cur].zombies /\ q.at = "spawn"
    BY <1>1 DEF CoCtx
  <2>3. /\ co' = [co EXCEPT ![cur].at = "spawn", ![t] = child]
        /\ uthreads' = uthreads + 1 /\ cur' = t /\ UNCHANGED <<mode, onAbort>>
    BY <1>5 DEF Spawn, FreshCo
  <2> HIDE DEF child
  <2>4. /\ co'[t] = child /\ co'[cur] = q
        /\ \A c \in Co : c # t /\ c # cur => co'[c] = co[c]
    BY <1>1, <1>2, <2>3
  <2> HIDE DEF q
  <2>5. ASSUME NEW c \in Co
        PROVE  /\ Life(co'[c]) /\ co'[c].parent # c
               /\ co'[c].parent \in Co => co'[co'[c].parent].status # "suspended"
               /\ Gone(co[c]) => Gone(co'[c])
    BY <1>1, <1>2, <1>3, <2>1, <2>2, <2>4 DEF LiveInv, Life, Gone
  <2>6. ASSUME NEW c \in Co, NEW z \in co'[c].zombies
        PROVE  Gone(co'[z])
    <3>1. z \in co[c].zombies /\ z \in Co
      BY <1>1, <2>1, <2>2, <2>4 DEF CoCtx
    <3> QED
      BY <1>1, <2>5, <3>1 DEF LiveInv
  <2>7. LiveInv(co')
    BY <2>5, <2>6 DEF LiveInv
  <2>8. Counted(co)' = Counted(co) \cup {t} /\ t \notin Counted(co)
    <3>1. t \notin Counted(co)
      BY <1>2 DEF Counted
    <3>2. t \in Counted(co)'
      BY <2>1, <2>4 DEF Counted
    <3>3. \A c \in Co : c # t => (c \in Counted(co)' <=> c \in Counted(co))
      BY <1>1, <2>2, <2>3, <2>4 DEF Counted
    <3> QED
      BY <3>1, <3>2, <3>3 DEF Counted
  <2>9. uthreads' = Cardinality(Counted(co)')
    BY <1>1, <2>3, <2>8, CountedFinite, FS_AddElement
  <2>10. RunsLive'
    BY <2>1, <2>3, <2>4 DEF RunsLive, CountInv
  <2> QED
    BY <2>7, <2>9, <2>10 DEF CountInv, UthreadsExact
<1> QED
  BY <1>4, <1>5

\* A counted thread that waits for nothing is deleted by the thread that runs
LEMMA CountDelete ==
    ASSUME TypeInv, CountInv, mode = "lua",
           NEW STATE s, s \in [Co -> CoCtx], LiveInv(s),
           Counted(s) = Counted(co),
           s[cur].status = "running", s[cur].ref, s[cur].at = "run",
           s[cur].kind # "none", "subreq" \notin s[cur].pending,
           NEW t \in Co, t # cur, t \in Counted(s), s[t].pending = {},
           co' = DelThreads(s, {t}), uthreads' = uthreads - 1,
           UNCHANGED <<mode, cur, onAbort>>
    PROVE  CountInv'
<1>1. cur \in Co /\ uthreads = Cardinality(Counted(co))
  BY RunsCount
<1>2. /\ LiveInv(co') /\ Counted(co') = Counted(s) \ {t}
      /\ co'[cur] = s[cur]
  BY <1>1, DelLive
<1>3. Counted(co)' = Counted(co) \ {t}
  BY <1>2 DEF Counted
<1>4. uthreads' = Cardinality(Counted(co)')
  BY <1>1, <1>3, CountedFinite, FS_RemoveElement
<1>5. RunsLive'
  BY <1>2 DEF RunsLive
<1> QED
  BY <1>2, <1>4, <1>5 DEF CountInv, UthreadsExact

LEMMA CountKill ==
    ASSUME TypeInv, CountInv, NEW t \in Co, Kill(t) \/ KillZombie(t)
    PROVE  CountInv'
<1>1. /\ co \in [Co -> CoCtx] /\ cur \in Co /\ LiveInv(co) /\ mode = "lua"
      /\ co[cur].status = "running" /\ co[cur].ref /\ co[cur].at = "run"
      /\ co[cur].kind # "none" /\ "subreq" \notin co[cur].pending
  BY RunsCount DEF Kill, KillZombie, Calls
<1>2. /\ co[t].kind = "thread" /\ co[t].parent = cur /\ Life(co[t])
      /\ co[t].parent # t
  BY <1>1 DEF Kill, KillZombie, IsMyThread, LiveInv
<1>3. UNCHANGED <<mode, cur, onAbort>> /\ uthreads' = uthreads - 1
  BY DEF Kill, KillZombie
<1>4. CASE Kill(t)
  <2> DEFINE D == {t} \cup Descendants(t)
             s == CancelOps(co, D)
  <2>1. /\ s \in [Co -> CoCtx] /\ LiveInv(s) /\ Counted(s) = Counted(co)
        /\ s[t].pending = {} /\ s[cur].ref = co[cur].ref
        /\ "subreq" \notin s[cur].pending
        /\ s[cur].status = co[cur].status /\ s[cur].kind = co[cur].kind
        /\ s[cur].at = co[cur].at
    <3>1. t \in D
      OBVIOUS
    <3> HIDE DEF D
    <3>2. /\ s \in [Co -> CoCtx] /\ LiveInv(s) /\ Counted(s) = Counted(co)
          /\ \A c \in Co : /\ c \in D => "op" \notin s[c].pending
                           /\ s[c].pending \subseteq co[c].pending
                           /\ s[c].ref = co[c].ref
                           /\ s[c].status = co[c].status
                           /\ s[c].kind = co[c].kind
                           /\ s[c].at = co[c].at
      BY <1>1, CancelLive
    <3> HIDE DEF s
    <3>3. s[t].pending \subseteq {"op", "subreq"} /\ "subreq" \notin co[t].pending
      BY <1>4, <3>2 DEF Kill, CoCtx
    <3> QED
      BY <1>1, <3>1, <3>2, <3>3
  <2>2. t \in Counted(co)
    BY <1>2, <1>4 DEF Kill, Alive, Counted, Life
  <2>3. co' = DelThreads(s, {t})
    BY <1>4 DEF Kill
  <2> HIDE DEF s
  <2> QED
    BY <1>1, <1>2, <1>3, <2>1, <2>2, <2>3, CountDelete
<1>5. CASE KillZombie(t)
  <2>1. t \in Counted(co) /\ co[t].pending = {}
    BY <1>2, <1>5 DEF KillZombie, Counted, Life
  <2>2. co' = DelThreads(co, {t})
    BY <1>5 DEF KillZombie
  <2> QED
    BY <1>1, <1>2, <1>3, <2>1, <2>2, CountDelete
<1> QED
  BY <1>4, <1>5

LEMMA HasSmallest ==
    ASSUME NEW S \in SUBSET Nat, S # {}
    PROVE  \E i \in S : \A j \in S : i <= j
<1> DEFINE R == OpToRel(<, Nat)
<1>1. PICK i \in S : \A j \in S : ~(<<j, i>> \in R)
  <2>1. IsWellFoundedOn(R, Nat)
    BY NatLessThanWellFounded
  <2> HIDE DEF R
  <2> QED
    BY <2>1, WFMin
<1>2. \A j \in S : <<j, i>> \in R <=> j < i
  BY DEF OpToRel
<1>3. \A j \in S : ~(j < i)
  <2> HIDE DEF R
  <2> QED
    BY <1>1, <1>2, Zenon
<1>4. \A j \in S : i <= j
  BY <1>3
<1> QED
  BY <1>4

LEMMA CountWait ==
    ASSUME TypeInv, CountInv, NEW args \in WaitArgs, Wait(args)
    PROVE  CountInv'
<1> DEFINE stops == {i \in DOMAIN args : StopsAt(args, i)}
           stop == IF stops = {} THEN Len(args) + 1
                   ELSE CHOOSE i \in stops : \A j \in stops : i <= j
           flag(c) == [co[c] EXCEPT !.waited = TRUE]
           flagged == [c \in Co |->
                          IF c \in Seen(args, stop) /\ co[c].status # "dead"
                          THEN flag(c) ELSE co[c]]
           t == args[stop]
           reaps == /\ stop <= Len(args) /\ IsMyThread(t)
                    /\ co[t].status = "zombie"
           r == [flagged[cur] EXCEPT !.at = "wait"]
<1> HIDE DEF stop
<1>1. /\ co \in [Co -> CoCtx] /\ cur \in Co /\ LiveInv(co) /\ mode = "lua"
      /\ co[cur].status = "running" /\ co[cur].ref /\ co[cur].at = "run"
      /\ co[cur].kind # "none" /\ uthreads = Cardinality(Counted(co))
      /\ "subreq" \notin co[cur].pending
  BY RunsCount DEF Wait, Calls
<1>2. ASSUME NEW c \in Co
      PROVE  /\ flagged[c] \in CoCtx
             /\ flagged[c].kind = co[c].kind
             /\ flagged[c].parent = co[c].parent
             /\ flagged[c].ref = co[c].ref
             /\ flagged[c].zombies = co[c].zombies
             /\ flagged[c].status = co[c].status
             /\ flagged[c].at = co[c].at
             /\ flagged[c].pending = co[c].pending
  <2>1. co[c] \in CoCtx
    BY <1>1
  <2>2. /\ flag(c) \in CoCtx
        /\ flag(c).kind = co[c].kind /\ flag(c).parent = co[c].parent
        /\ flag(c).ref = co[c].ref /\ flag(c).zombies = co[c].zombies
        /\ flag(c).status = co[c].status /\ flag(c).at = co[c].at
        /\ flag(c).pending = co[c].pending
    BY <2>1 DEF CoCtx
  <2> HIDE DEF flag
  <2> QED
    BY <2>1, <2>2
<1>3. flagged \in [Co -> CoCtx]
  <2>1. DOMAIN flagged = Co /\ flagged = [c \in Co |-> flagged[c]]
    OBVIOUS
  <2> HIDE DEF flagged
  <2> QED
    BY <1>2, <2>1
<1>4. \/ co' = Put(flagged, cur, r) /\ Again /\ UNCHANGED uthreads
      \/ /\ reaps /\ co' = DelThreads(flagged, {t})
         /\ uthreads' = uthreads - 1 /\ UNCHANGED <<mode, cur>>
      \/ co' = flagged /\ UNCHANGED <<mode, cur, uthreads>>
  BY DEF Wait, stop
<1>5. UNCHANGED <<onAbort>>
  BY DEF Wait
<1>6. args[stop] \in Co \/ ~reaps
  <2>1. SUFFICES ASSUME reaps PROVE args[stop] \in Co
    OBVIOUS
  <2>2. stops # {} => stop \in DOMAIN args
    <3>1. stops \subseteq Nat
      BY DEF WaitArgs
    <3>2. SUFFICES ASSUME stops # {} PROVE stop \in stops
      OBVIOUS
    <3>3. \E i \in stops : \A j \in stops : i <= j
      <4> HIDE DEF stops
      <4> QED
        BY <3>1, <3>2, HasSmallest
    <3> QED
      BY <3>2, <3>3 DEF stop
  <2> QED
    BY <2>1, <2>2 DEF WaitArgs, stop
<1> HIDE DEF flagged
<1>7. \A c \in Co : Mild(co[c], flagged[c])
  BY <1>1, <1>2 DEF Mild, Life, Gone, LiveInv
<1>8. LiveInv(flagged) /\ Counted(flagged) = Counted(co)
  BY <1>1, <1>3, <1>7, MildLive
<1>9. CASE co' = Put(flagged, cur, r) /\ Again /\ UNCHANGED uthreads
  <2>1. /\ r \in CoCtx /\ r.kind = flagged[cur].kind
        /\ r.parent = flagged[cur].parent /\ r.ref = flagged[cur].ref
        /\ r.zombies = flagged[cur].zombies
        /\ r.status = flagged[cur].status /\ r.at = "wait"
        /\ r.pending = flagged[cur].pending
    <3>1. flagged[cur] \in CoCtx
      BY <1>1, <1>3
    <3> QED
      BY <3>1 DEF CoCtx, Points
  <2> HIDE DEF r
  <2>2. Mild(flagged[cur], r)
    BY <1>1, <1>8, <2>1 DEF Mild, Life, Gone, LiveInv
  <2>3. LiveInv(co') /\ Counted(co') = Counted(flagged)
    BY <1>1, <1>3, <1>8, <1>9, <2>2, PutLive
  <2>4. Counted(co)' = Counted(co)
    BY <1>5, <1>8, <2>3 DEF Counted
  <2> QED
    BY <1>1, <1>9, <2>3, <2>4 DEF CountInv, UthreadsExact, RunsLive, Again
<1>10. CASE /\ reaps /\ co' = DelThreads(flagged, {t})
            /\ uthreads' = uthreads - 1 /\ UNCHANGED <<mode, cur>>
  <2>1. t \in Co /\ co[t].kind = "thread" /\ co[t].status = "zombie" /\ t # cur
    BY <1>1, <1>6, <1>10 DEF IsMyThread
  <2>2. t \in Counted(co) /\ co[t].pending = {}
    BY <1>1, <2>1 DEF Counted, LiveInv, Life
  <2>3. flagged[t].pending = {}
    BY <1>2, <2>1, <2>2
  <2>4. /\ flagged[cur].status = "running" /\ flagged[cur].ref
        /\ flagged[cur].at = "run" /\ flagged[cur].kind # "none"
        /\ "subreq" \notin flagged[cur].pending
    BY <1>1, <1>2
  <2> HIDE DEF t
  <2> QED
    BY <1>1, <1>3, <1>5, <1>8, <1>10, <2>1, <2>2, <2>3, <2>4, CountDelete
<1>11. CASE co' = flagged /\ UNCHANGED <<mode, cur, uthreads>>
  <2>1. Counted(co)' = Counted(co)
    BY <1>5, <1>8, <1>11 DEF Counted
  <2>2. RunsLive'
    BY <1>1, <1>2, <1>11 DEF RunsLive, CountInv
  <2> QED
    BY <1>1, <1>8, <1>11, <2>1, <2>2 DEF CountInv, UthreadsExact
<1> QED
  BY <1>4, <1>9, <1>10, <1>11

LEMMA CountStep ==
    ASSUME TypeInv, CountInv, OneAtATime => SuspInv, RunPosted \/ PostedDrained
    PROVE  CountInv'
<1>1. /\ co \in [Co -> CoCtx] /\ posted \in Seq(Co) /\ cur = NoCo
      /\ mode = "posted" /\ LiveInv(co)
      /\ uthreads = Cardinality(Counted(co))
  BY DEF TypeInv, TypeOK, CountInv, UthreadsExact, RunPosted, PostedDrained
<1>2. UNCHANGED <<uthreads, onAbort>>
  BY DEF RunPosted, PostedDrained
<1>3. CASE UNCHANGED <<co, cur>> /\ mode' \in {"posted", "idle"}
  BY <1>1, <1>2, <1>3 DEF CountInv, UthreadsExact, RunsLive, Counted
<1>4. CASE RunPosted /\ co[Head(posted)].status = "running"
  <2> DEFINE p == Head(posted)
  <2>1. p \in Co
    BY <1>1, <1>4 DEF RunPosted
  <2>2. /\ co' = Continue(co, p) /\ cur' = p /\ mode' = "lua"
    BY <1>4 DEF RunPosted
  <2>3. /\ co[p].kind # "none" /\ Alive(co, p) /\ co[p].status # "suspended"
    BY <1>1, <1>4, <2>1 DEF LiveInv, Life, Alive
  <2>4. "subreq" \notin co[p].pending
    BY <1>1, <1>4, <2>1, NoSubrequestCut DEF RunPosted
  <2> HIDE DEF p
  <2> QED
    BY <1>1, <1>2, <1>4, <2>1, <2>2, <2>3, <2>4, ResumesLive DEF p
<1> QED
  BY <1>1, <1>3, <1>4 DEF RunPosted, PostedDrained

LEMMA CountEvent ==
    ASSUME TypeInv, CountInv, NEW c \in Co, OpDone(c) \/ SubrequestDone(c)
    PROVE  CountInv'
<1> DEFINE op == IF OpDone(c) THEN "op" ELSE "subreq"
           r == [co[c] EXCEPT !.pending = @ \ {op}]
           s == Put(co, c, r)
<1>1. /\ co \in [Co -> CoCtx] /\ co[c] \in CoCtx /\ LiveInv(co)
      /\ Life(co[c]) /\ uthreads = Cardinality(Counted(co))
  BY DEF TypeInv, TypeOK, CountInv, UthreadsExact, LiveInv, OpDone, SubrequestDone
<1>2. /\ co[c].status = "running" /\ co[c].kind # "none" /\ co[c].pending = {op}
  BY <1>1 DEF Life, OpDone, SubrequestDone
<1>4. co' = Continue([co EXCEPT ![c] = r], c)
  BY <1>1 DEF OpDone, SubrequestDone
<1>5. /\ cur' = c /\ mode' = "lua" /\ UNCHANGED <<uthreads, onAbort>>
  BY DEF OpDone, SubrequestDone
<1> HIDE DEF op
<1>3. /\ r \in CoCtx /\ r.kind = co[c].kind /\ r.parent = co[c].parent
      /\ r.ref = co[c].ref /\ r.zombies = co[c].zombies
      /\ r.status = "running" /\ r.at = co[c].at /\ r.pending = {}
  BY <1>1, <1>2 DEF CoCtx
<1> HIDE DEF r
<1>6. Mild(co[c], r)
  BY <1>1, <1>2, <1>3 DEF Mild, Life, Gone
<1>7. [co EXCEPT ![c] = r] = s
  BY <1>1 DEF Put
<1>8. s \in [Co -> CoCtx] /\ LiveInv(s) /\ Counted(s) = Counted(co)
  BY <1>1, <1>6, PutLive
<1>9. s[c] = r
  BY DEF Put
<1>10. co' = Continue(s, c)
  BY <1>4, <1>7
<1> HIDE DEF s
<1>11. /\ Alive(s, c) /\ s[c].kind # "none" /\ s[c].status = "running"
       /\ "subreq" \notin s[c].pending
  BY <1>2, <1>3, <1>9 DEF Alive
<1> QED
  BY <1>1, <1>5, <1>8, <1>10, <1>11, ResumesLive

LEMMA CountClientAbort ==
    ASSUME TypeInv, CountInv, ClientAbort
    PROVE  CountInv'
<1>1. /\ co \in [Co -> CoCtx] /\ LiveInv(co)
      /\ uthreads = Cardinality(Counted(co))
  BY DEF TypeInv, TypeOK, CountInv, UthreadsExact, ClientAbort
<1>2. CASE FinalizeThreads(co, uthreads)
  BY <1>1, <1>2, FinalizeCount
<1>3. CASE /\ onAbort # NoCo /\ co[onAbort].status = "suspended"
           /\ co' = Continue([co EXCEPT ![onAbort].status = "running"], onAbort)
           /\ uthreads' = uthreads + 1 /\ cur' = onAbort /\ mode' = "lua"
           /\ UNCHANGED onAbort
  <2> DEFINE a == onAbort
             q == [co[a] EXCEPT !.status = "running", !.at = "run"]
  <2>1. /\ a \in Co /\ co[a].kind = "thread" /\ co[a] \in CoCtx
        /\ Life(co[a]) /\ co[a].status = "suspended"
    BY <1>1, <1>3 DEF TypeInv, TypeOK, LiveInv
  <2>2. co[a].ref /\ co[a].at \notin {"end", "fail"} /\ co[a].pending = {}
    BY <2>1 DEF Life
  <2>3. /\ q.kind = "thread" /\ q.parent = co[a].parent /\ q.ref
        /\ q.zombies = co[a].zombies /\ q.status = "running" /\ q.at = "run"
        /\ q.pending = {}
    BY <2>1, <2>2 DEF CoCtx
  <2>4. co' = Put(co, a, q)
    <3> DEFINE s == [co EXCEPT ![a].status = "running"]
    <3>1. s[a] = [co[a] EXCEPT !.status = "running"]
      BY <1>1, <2>1
    <3>2. s[a].at = co[a].at
      BY <2>1, <3>1 DEF CoCtx
    <3>3. [s[a] EXCEPT !.at = "run"] = q
      BY <2>1, <3>1 DEF CoCtx
    <3>4. co' = Put(s, a, [s[a] EXCEPT !.at = "run"])
      BY <1>3, <2>2, <3>2 DEF Continue
    <3> QED
      BY <1>1, <3>3, <3>4 DEF Put
  <2> HIDE DEF q
  <2>5. co'[a] = q /\ \A c \in Co : c # a => co'[c] = co[c]
    BY <2>1, <2>4 DEF Put
  <2>6. ~Gone(co[a])
    BY <2>1, <2>2 DEF Gone
  <2>7. ASSUME NEW c \in Co
        PROVE  /\ Life(co'[c]) /\ co'[c].parent # c
               /\ co'[c].parent \in Co => co'[co'[c].parent].status # "suspended"
               /\ Gone(co[c]) => Gone(co'[c])
    BY <1>1, <2>1, <2>3, <2>5, <2>6 DEF LiveInv, Life
  <2>8. ASSUME NEW c \in Co, NEW z \in co'[c].zombies
        PROVE  Gone(co'[z])
    <3>1. z \in co[c].zombies /\ z \in Co
      BY <1>1, <2>3, <2>5 DEF CoCtx
    <3> QED
      BY <1>1, <2>7, <3>1 DEF LiveInv
  <2>9. LiveInv(co')
    BY <2>7, <2>8 DEF LiveInv
  <2>10. Counted(co)' = Counted(co) \cup {a} /\ a \notin Counted(co)
    <3>1. a \notin Counted(co) /\ a \in Counted(co)'
      BY <1>3, <2>1, <2>3, <2>5 DEF Counted
    <3>2. \A c \in Co : c # a => (c \in Counted(co)' <=> c \in Counted(co))
      BY <1>3, <2>5 DEF Counted
    <3> QED
      BY <3>1, <3>2 DEF Counted
  <2>11. uthreads' = Cardinality(Counted(co)')
    BY <1>1, <1>3, <2>10, CountedFinite, FS_AddElement
  <2>12. RunsLive'
    BY <1>3, <2>3, <2>5 DEF RunsLive
  <2> QED
    BY <2>9, <2>11, <2>12 DEF CountInv, UthreadsExact
<1> QED
  BY <1>2, <1>3 DEF ClientAbort

LEMMA CountInit == Init => CountInv
<1> SUFFICES ASSUME Init PROVE CountInv
  OBVIOUS
<1> DEFINE r == [FreshCo EXCEPT !.kind = "entry", !.ref = TRUE,
                                !.status = "running", !.at = "run"]
<1>1. /\ r.kind = "entry" /\ r.ref /\ r.status = "running" /\ r.at = "run"
      /\ r.parent = NoCo /\ r.zombies = {} /\ r.pending = {}
  BY DEF FreshCo
<1>2. /\ FreshCo.kind = "none" /\ ~FreshCo.ref /\ FreshCo.status = "suspended"
      /\ FreshCo.at = "start" /\ FreshCo.parent = NoCo
      /\ FreshCo.zombies = {} /\ FreshCo.pending = {}
  BY DEF FreshCo
<1>3. /\ co[Entry] = r /\ cur = Entry /\ mode = "lua" /\ uthreads = 0
      /\ \A c \in Co : c = Entry \/ co[c] = FreshCo
  BY CoAssumption DEF Init
<1> HIDE DEF r
<1>4. LiveInv(co)
  BY <1>1, <1>2, <1>3, CoAssumption DEF LiveInv, Life
<1>5. Counted(co) = {}
  BY <1>1, <1>2, <1>3 DEF Counted
<1>6. UthreadsExact
  BY <1>3, <1>5, FS_EmptySet DEF UthreadsExact
<1> QED
  BY <1>1, <1>3, <1>4, <1>6 DEF CountInv, RunsLive

\* What the Lua code cannot do without coroutines and subrequests
LEMMA OnlyThreadCalls ==
    ASSUME OnlyThreads, TypeInv, CountInv
    PROVE  /\ ~YieldCoroutine /\ ~Propagate
           /\ \A x \in Co : ~Resume(x)
           /\ \A x \in Co, kind \in {"coro", "wrap"} : ~Create(x, kind)
<1>1. ~YieldCoroutine
  <2>1. mode = "lua" => IsThread(co, cur)
    BY RunsCount DEF IsThread
  <2> QED
    BY <2>1 DEF YieldCoroutine, Calls
<1>2. ~Propagate
  BY DEF Propagate, CountInv, RunsLive
<1>4. ASSUME NEW x \in Co PROVE ~Resume(x)
  BY DEF Resume, CountInv, LiveInv, Life
<1>5. ASSUME NEW x \in Co, NEW kind \in {"coro", "wrap"}
      PROVE  ~Create(x, kind)
  BY DEF Create, Calls, OnlyThreads
<1> QED
  BY <1>1, <1>2, <1>4, <1>5

LEMMA CountNext ==
    ASSUME OnlyThreads, TypeInv, CountInv, OneAtATime => SuspInv, [Next]_vars
    PROVE  CountInv'
<1>6. Sleep \/ Capture => CountInv'
  <2>1. Sleep => CountInv'
    <3> DEFINE op == "op"
    <3>1. op \in {"op", "subreq"} /\ op # "subreq"
      OBVIOUS
    <3> HIDE DEF op
    <3> QED
      BY <3>1, CountIO
  <2>2. Capture => CountInv'
    <3> DEFINE op == "subreq"
    <3>1. op \in {"op", "subreq"} /\ op # "op"
      OBVIOUS
    <3> HIDE DEF op
    <3> QED
      BY <3>1, CountIO
  <2> QED
    BY <2>1, <2>2
<1>1. CASE Lua
  BY <1>1, OnlyThreadCalls, CountNewThread, CountKill, CountWait,
     CountYieldThread, CountReturn, CountError, CountExit, <1>6
  DEF Lua
<1>2. CASE Step
  BY <1>2, OnlyThreadCalls, CountStep DEF Step
<1>3. CASE Event
  BY <1>3, CountEvent DEF Event
<1>4. CASE ClientAbort
  BY <1>4, CountClientAbort
<1>5. CASE UNCHANGED vars
  BY <1>5 DEF vars, CountInv, LiveInv, RunsLive, UthreadsExact, Counted
<1> QED
  BY <1>1, <1>2, <1>3, <1>4, <1>5 DEF Next

-----------------------------------------------------------------------------
(* Suspension.  A step moves at most two contexts: the one that had or gets  *)
(* the CPU, and the one that begins or wakes.  Quiet says what happens to    *)
(* all others.                                                               *)

Quiet(r, r2) ==
    /\ r2.at = r.at /\ r2.kind = r.kind /\ r2.parent = r.parent
    /\ r2.waited = r.waited /\ r2.pending \subseteq r.pending
    /\ r2.status \in {r.status, "dead"}

LEMMA QuietTransitive ==
    ASSUME NEW r1, NEW r2, NEW r3, Quiet(r1, r2), Quiet(r2, r3)
    PROVE  Quiet(r1, r3)
BY DEF Quiet

LEMMA QuietDel ==
    ASSUME NEW s \in [Co -> CoCtx], NEW D
    PROVE  \A c \in Co : Quiet(s[c], DelThreads(s, D)[c])
<1> TAKE c \in Co
<1> DEFINE r == [s[c] EXCEPT !.ref = FALSE, !.status = "dead"]
<1>1. Quiet(s[c], r) /\ Quiet(s[c], s[c])
  BY DEF CoCtx, Quiet
<1>2. DelThreads(s, D)[c] \in {r, s[c]}
  BY DEF DelThreads
<1> HIDE DEF r
<1> QED
  BY <1>1, <1>2

LEMMA QuietCancel ==
    ASSUME NEW s \in [Co -> CoCtx], NEW D
    PROVE  \A c \in Co : /\ Quiet(s[c], CancelOps(s, D)[c])
                         /\ c \in D => "op" \notin CancelOps(s, D)[c].pending
<1> TAKE c \in Co
<1> DEFINE r == [s[c] EXCEPT !.pending = @ \ {"op"}]
<1>1. Quiet(s[c], r) /\ Quiet(s[c], s[c]) /\ "op" \notin r.pending
  BY DEF CoCtx, Quiet
<1>2. CancelOps(s, D)[c] = IF c \in D THEN r ELSE s[c]
  BY DEF CancelOps
<1> HIDE DEF r
<1> QED
  BY <1>1, <1>2

LEMMA QuietFinalize ==
    ASSUME NEW STATE s, NEW STATE n, s \in [Co -> CoCtx], FinalizeThreads(s, n)
    PROVE  /\ \A c \in Co : /\ Quiet(s[c], co'[c])
                            /\ "op" \notin co'[c].pending
           /\ mode' = "done" /\ cur' = NoCo
<1> DEFINE s2 == CancelOps(s, Co)
<1>1. s2 \in [Co -> CoCtx]
  BY CancelOpsShape DEF SameShape
<1>2. \A c \in Co : Quiet(s[c], s2[c]) /\ "op" \notin s2[c].pending
  BY QuietCancel
<1>3. co' = DelThreads(s2, Co) /\ mode' = "done" /\ cur' = NoCo
  BY DEF FinalizeThreads
<1> HIDE DEF s2
<1>4. \A c \in Co : Quiet(s2[c], co'[c])
  BY <1>1, <1>3, QuietDel
<1> QED
  BY <1>2, <1>3, <1>4, QuietTransitive DEF Quiet

InQueue(c) == \E i \in DOMAIN posted : posted[i] = c

LEMMA NotQueued ==
    ASSUME SuspInv, NEW c,
           \/ co[c].status = "suspended"
           \/ co[c].status = "running" /\ co[c].at \notin {"spawn", "yield"}
    PROVE  ~InQueue(c)
BY DEF SuspInv, QueueRight, InQueue

LEMMA QueueKeeps ==
    ASSUME TypeInv, QueueRight(co, posted), NEW X,
           \A c \in Co : c \notin X => Quiet(co[c], co'[c]),
           \/ posted' = posted /\ \A x \in X : ~InQueue(x)
           \/ /\ posted # <<>> /\ posted' = Tail(posted)
              /\ \A x \in X : InQueue(x) => x = Head(posted)
           \/ /\ \A x \in X : ~InQueue(x)
              /\ \E x \in X \cap Co : /\ posted' = Append(posted, x)
                                      /\ co'[x].status = "running"
                                      /\ co'[x].at \in {"spawn", "yield"}
    PROVE  QueueRight(co, posted)'
<1>1. posted \in Seq(Co) /\ QueueRight(co, posted)
  BY DEF TypeInv, TypeOK
<1>2. ASSUME NEW i \in DOMAIN posted, posted[i] \notin X
      PROVE  /\ co'[posted[i]].status # "suspended"
             /\ co'[posted[i]].status = "running" => co'[posted[i]].at \in {"spawn", "yield"}
  <2>1. posted[i] \in Co
    BY <1>1
  <2>2. Quiet(co[posted[i]], co'[posted[i]])
    BY <1>2, <2>1
  <2> QED
    BY <1>1, <2>2 DEF Quiet, QueueRight
<1>3. CASE posted' = posted /\ \A x \in X : ~InQueue(x)
  <2>1. \A i \in DOMAIN posted : posted[i] \notin X
    BY <1>3 DEF InQueue
  <2> QED
    BY <1>1, <1>2, <1>3, <2>1 DEF QueueRight
<1>4. CASE /\ posted # <<>> /\ posted' = Tail(posted)
           /\ \A x \in X : InQueue(x) => x = Head(posted)
  <2>1. /\ DOMAIN posted = 1 .. Len(posted) /\ Len(posted) \in Nat \ {0}
        /\ Head(posted) = posted[1]
    BY <1>1, <1>4
  <2>2. /\ DOMAIN posted' = 1 .. Len(posted) - 1
        /\ \A i \in DOMAIN posted' : posted'[i] = posted[i + 1]
    <3>1. /\ Tail(posted) \in Seq(Co) /\ Len(Tail(posted)) = Len(posted) - 1
          /\ \A i \in 1 .. Len(Tail(posted)) : Tail(posted)[i] = posted[i + 1]
      BY <1>1, <1>4, HeadTailProperties
    <3>2. DOMAIN Tail(posted) = 1 .. Len(Tail(posted))
      BY <3>1, LenProperties
    <3> QED
      BY <1>4, <3>1, <3>2
  <2>3. ASSUME NEW i \in DOMAIN posted'
        PROVE  /\ i + 1 \in DOMAIN posted /\ posted'[i] = posted[i + 1]
               /\ posted[i + 1] \notin X
    <3>1. /\ i + 1 \in DOMAIN posted /\ posted'[i] = posted[i + 1]
          /\ i + 1 # 1 /\ 1 \in DOMAIN posted
      <4>1. i \in 1 .. Len(posted) - 1 /\ posted'[i] = posted[i + 1]
        BY <2>2
      <4> HIDE <2>2
      <4> QED
        BY <2>1, <4>1
    <3>2. posted[i + 1] # Head(posted)
      BY <1>1, <2>1, <3>1 DEF QueueRight
    <3>3. InQueue(posted[i + 1])
      BY <3>1 DEF InQueue
    <3> QED
      BY <1>4, <3>1, <3>2, <3>3
  <2>4. \A i, j \in DOMAIN posted' : posted'[i] = posted'[j] => i = j
    <3> TAKE i, j \in DOMAIN posted'
    <3>1. posted[i + 1] = posted[j + 1] => i + 1 = j + 1
      BY <1>1, <2>3 DEF QueueRight
    <3>2. i \in Nat /\ j \in Nat
      BY <2>2
    <3> QED
      BY <2>3, <3>1, <3>2
  <2>5. ASSUME NEW i \in DOMAIN posted'
        PROVE  /\ co'[posted'[i]].status # "suspended"
               /\ co'[posted'[i]].status = "running" => co'[posted'[i]].at \in {"spawn", "yield"}
    BY <1>2, <2>3
  <2> QED
    BY <2>4, <2>5 DEF QueueRight
<1>5. CASE /\ \A x \in X : ~InQueue(x)
           /\ \E x \in X \cap Co : /\ posted' = Append(posted, x)
                                   /\ co'[x].status = "running"
                                   /\ co'[x].at \in {"spawn", "yield"}
  <2>1. PICK x \in X \cap Co : /\ posted' = Append(posted, x)
                               /\ co'[x].status = "running"
                               /\ co'[x].at \in {"spawn", "yield"}
    BY <1>5
  <2>2. /\ DOMAIN posted = 1 .. Len(posted) /\ Len(posted) \in Nat
        /\ DOMAIN posted' = 1 .. Len(posted) + 1
        /\ posted'[Len(posted) + 1] = x
        /\ \A i \in DOMAIN posted : posted'[i] = posted[i]
    <3>1. /\ Append(posted, x) \in Seq(Co)
          /\ Len(Append(posted, x)) = Len(posted) + 1
          /\ \A i \in 1 .. Len(posted) : Append(posted, x)[i] = posted[i]
          /\ Append(posted, x)[Len(posted) + 1] = x
      BY <1>1, <2>1, AppendProperties
    <3>2. /\ DOMAIN posted = 1 .. Len(posted) /\ Len(posted) \in Nat
          /\ DOMAIN Append(posted, x) = 1 .. Len(Append(posted, x))
      BY <1>1, <3>1, LenProperties
    <3> QED
      BY <2>1, <3>1, <3>2
  <2>3. \A i \in DOMAIN posted : posted[i] \notin X /\ posted[i] # x
    BY <1>5, <2>1 DEF InQueue
  <2>4. \A i \in DOMAIN posted' : i \in DOMAIN posted \/ i = Len(posted) + 1
    <3> DEFINE m == Len(posted)
    <3>1. m \in Nat /\ DOMAIN posted = 1 .. m /\ DOMAIN posted' = 1 .. m + 1
      BY <2>2
    <3> HIDE DEF m
    <3>2. \A i \in 1 .. m + 1 : i \in 1 .. m \/ i = m + 1
      BY <3>1
    <3> QED
      BY <3>1, <3>2 DEF m
  <2>5. ASSUME NEW i \in DOMAIN posted'
        PROVE  /\ co'[posted'[i]].status # "suspended"
               /\ co'[posted'[i]].status = "running" => co'[posted'[i]].at \in {"spawn", "yield"}
    <3>1. CASE i \in DOMAIN posted
      BY <1>2, <2>2, <2>3, <3>1
    <3>2. CASE i = Len(posted) + 1
      BY <2>1, <2>2, <3>2
    <3> QED
      BY <2>4, <3>1, <3>2
  <2>6. \A i, j \in DOMAIN posted' : posted'[i] = posted'[j] => i = j
    BY <1>1, <2>2, <2>3, <2>4 DEF QueueRight
  <2> QED
    BY <2>5, <2>6 DEF QueueRight
<1> QED
  BY <1>3, <1>4, <1>5

LEMMA QueueMoves ==
    ASSUME TypeInv, SuspInv, NEW X,
           \A c \in Co : c \notin X => Quiet(co[c], co'[c]),
           \/ posted' = posted /\ \A x \in X : ~InQueue(x)
           \/ /\ posted # <<>> /\ posted' = Tail(posted)
              /\ \A x \in X : InQueue(x) => x = Head(posted)
           \/ /\ \A x \in X : ~InQueue(x)
              /\ \E x \in X \cap Co : /\ posted' = Append(posted, x)
                                      /\ co'[x].status = "running"
                                      /\ co'[x].at \in {"spawn", "yield"}
    PROVE  QueueRight(co, posted)'
BY QueueKeeps DEF SuspInv

Moves(x) ==
    /\ Stands(co'[x])
    /\ Awaited(co', x) => Awaited(co, x) /\ co'[x].parent = co[x].parent
    /\ co[x].at = "wait" =>
           \A t \in Co : Awaited(co, t) /\ Awaited(co', t) => co[t].parent # x

\* Who moves comes to stand where he waits, and nobody who is awaited moves
\* away from a parent who still waits for him
LEMMA SuspMoves ==
    ASSUME TypeInv, SuspInv, NEW X, X \subseteq Co,
           \A c \in Co : c \notin X => Quiet(co[c], co'[c]),
           \A x \in X : Moves(x),
           QueueRight(co, posted)',
           mode' = "done" => \A c \in Co : "op" \notin co'[c].pending
    PROVE  SuspInv'
<1>1. \A c \in Co : Stands(co'[c])
  BY DEF SuspInv, Stands, Quiet, Moves
<1>2. ASSUME NEW t \in Co, Awaited(co', t)
      PROVE  /\ Awaited(co, t) /\ co'[t].parent = co[t].parent
             /\ co[co[t].parent].at = "wait" /\ co[t].parent \in Co
  <2>1. Awaited(co, t) /\ co'[t].parent = co[t].parent
    BY <1>2 DEF Awaited, Alive, Quiet, Moves
  <2>2. co[t].parent \in Co
    BY <2>1 DEF Awaited, SuspInv, Stands, TypeInv, CoInv, Started
  <2> QED
    BY <2>1, <2>2 DEF SuspInv, WaitsRight
<1>3. \A t \in Co : Awaited(co', t) => co'[co'[t].parent].at = "wait"
  <2> SUFFICES ASSUME NEW t \in Co, Awaited(co', t)
               PROVE  co'[co[t].parent].at = "wait"
    BY <1>2
  <2>1. co[t].parent \notin X
    BY <1>2 DEF Moves
  <2> QED
    BY <1>2, <2>1 DEF Quiet
<1>4. \A t, u \in Co : /\ Awaited(co', t) /\ Awaited(co', u)
                       /\ co'[t].parent = co'[u].parent
                       => t = u
  BY <1>2 DEF SuspInv, WaitsRight
<1> QED
  BY <1>1, <1>3, <1>4 DEF SuspInv, WaitsRight, Awaited, Alive

\* What every step keeps: where everybody stands, and why who is woken is
Kept == /\ SuspInv'
        /\ \A c \in Co : co[c].at # "run" /\ co'[c].at = "run" => HasCause(c)

LEMMA SuspInit == Init => SuspInv
<1> SUFFICES ASSUME Init PROVE SuspInv
  OBVIOUS
<1> DEFINE r == [FreshCo EXCEPT !.kind = "entry", !.ref = TRUE,
                                !.status = "running", !.at = "run"]
<1>1. /\ r.kind = "entry" /\ r.status = "running" /\ r.at = "run"
      /\ ~r.waited /\ r.pending = {}
  BY DEF FreshCo
<1>2. /\ FreshCo.kind = "none" /\ FreshCo.status = "suspended"
      /\ FreshCo.at = "start" /\ ~FreshCo.waited /\ FreshCo.pending = {}
  BY DEF FreshCo
<1>3. /\ \A c \in Co : co[c] \in {r, FreshCo}
      /\ mode = "lua" /\ DOMAIN posted = {}
  BY DEF Init
<1> HIDE DEF r
<1> QED
  BY <1>1, <1>2, <1>3 DEF SuspInv, Stands, WaitsRight, Awaited, QueueRight

LEMMA SuspNewThread ==
    ASSUME TypeInv, CountInv, SuspInv, NEW t \in Co, Spawn(t) \/ OnAbort(t)
    PROVE  Kept
<1> DEFINE fresh == [FreshCo EXCEPT !.kind = "thread", !.ref = TRUE,
                                    !.parent = cur]
           child == [fresh EXCEPT !.status = "running", !.at = "run"]
           q == [co[cur] EXCEPT !.at = "spawn"]
<1>1. /\ co \in [Co -> CoCtx] /\ cur \in Co /\ co[cur] \in CoCtx
      /\ co[cur].status = "running" /\ LiveInv(co)
      /\ co[cur].kind \in {"entry", "thread"} /\ co[cur].at = "run"
      /\ mode = "lua" /\ Stands(co[cur])
  BY RunsCount DEF Spawn, OnAbort, Calls, SuspInv
<1>2. /\ co[t].kind = "none" /\ t # cur /\ co[t].status = "suspended"
      /\ co[t].at = "start" /\ Life(co[t])
  BY <1>1 DEF Spawn, OnAbort, Unborn, LiveInv, Life, SuspInv, Stands
<1>3. ~InQueue(t) /\ ~InQueue(cur)
  BY <1>1, <1>2, NotQueued
<1>4. CASE OnAbort(t)
  <2>1. /\ fresh.kind = "thread" /\ fresh.status = "suspended"
        /\ fresh.pending = {} /\ fresh.at = "start" /\ ~fresh.waited
    BY DEF FreshCo
  <2>2. /\ co' = [co EXCEPT ![t] = fresh] /\ UNCHANGED <<mode, posted>>
    BY <1>4 DEF OnAbort
  <2> HIDE DEF fresh
  <2>3. /\ co'[t] = fresh
        /\ \A c \in Co : c \notin {t} => co'[c] = co[c] /\ Quiet(co[c], co'[c])
    BY <1>1, <2>2 DEF Quiet
  <2>4. QueueRight(co, posted)'
    BY <1>3, <2>2, <2>3, QueueMoves
  <2>5. Stands(co'[t]) /\ ~Awaited(co', t) /\ co[t].at # "wait"
    BY <1>2, <2>1, <2>3 DEF Stands, Awaited
  <2>6. SuspInv'
    <3> DEFINE X == {t}
    <3>1. /\ X \subseteq Co /\ \A c \in Co : c \notin X => Quiet(co[c], co'[c])
          /\ \A x \in X : Moves(x)
      BY <2>3, <2>5 DEF Moves
    <3> HIDE DEF X
    <3> QED
      BY <1>1, <2>2, <2>4, <3>1, SuspMoves
  <2> QED
    BY <2>1, <2>3, <2>6 DEF Kept
<1>5. CASE Spawn(t)
  <2>1. /\ child.kind = "thread" /\ child.status = "running"
        /\ child.pending = {} /\ child.at = "run" /\ ~child.waited
    BY DEF FreshCo
  <2>2. /\ q.kind = co[cur].kind /\ q.parent = co[cur].parent
        /\ q.status = "running" /\ q.pending = co[cur].pending
        /\ q.at = "spawn" /\ q.waited = co[cur].waited
    BY <1>1 DEF CoCtx
  <2>3. /\ co' = [co EXCEPT ![cur].at = "spawn", ![t] = child]
        /\ posted' = Append(posted, cur) /\ UNCHANGED mode
    BY <1>5 DEF Spawn, FreshCo
  <2> HIDE DEF child
  <2>4. /\ co'[t] = child /\ co'[cur] = q
        /\ \A c \in Co : c \notin {cur, t} => co'[c] = co[c] /\ Quiet(co[c], co'[c])
    BY <1>1, <1>2, <2>3 DEF Quiet
  <2> HIDE DEF q
  <2>5. QueueRight(co, posted)'
    BY <1>1, <1>3, <2>2, <2>3, <2>4, QueueMoves
  <2>6. /\ Stands(co'[t]) /\ ~Awaited(co', t) /\ co[t].at # "wait"
        /\ Stands(co'[cur])
        /\ Awaited(co', cur) => Awaited(co, cur)
    BY <1>1, <1>2, <2>1, <2>2, <2>4 DEF Stands, Awaited, Alive
  <2>7. SuspInv'
    <3> DEFINE X == {cur, t}
    <3>1. /\ X \subseteq Co /\ \A c \in Co : c \notin X => Quiet(co[c], co'[c])
          /\ \A x \in X : Moves(x)
      <4>0. co'[cur].parent = co[cur].parent /\ co[cur].at # "wait"
        BY <1>1, <2>2, <2>4
      <4>1. Moves(cur)
        BY <2>6, <4>0 DEF Moves
      <4>2. Moves(t)
        BY <2>6 DEF Moves
      <4> QED
        BY <1>1, <2>4, <4>1, <4>2
    <3> HIDE DEF X
    <3> QED
      BY <1>1, <2>3, <2>5, <3>1, SuspMoves
  <2> QED
    BY <1>2, <2>2, <2>4, <2>7 DEF Kept, HasCause
<1> QED
  BY <1>4, <1>5

\* A step that moves nobody
LEMMA SuspQuiet ==
    ASSUME TypeInv, SuspInv, \A c \in Co : Quiet(co[c], co'[c]), UNCHANGED posted,
           mode' = "done" => \A c \in Co : "op" \notin co'[c].pending
    PROVE  Kept
<1>1. QueueRight(co, posted)'
  <2> DEFINE X == {}
  <2>1. \A c \in Co : c \notin X => Quiet(co[c], co'[c])
    OBVIOUS
  <2>2. posted' = posted /\ \A x \in X : ~InQueue(x)
    OBVIOUS
  <2> HIDE DEF X
  <2> QED
    BY <2>1, <2>2, QueueMoves
<1>2. SuspInv'
  <2> DEFINE X == {}
  <2>1. /\ X \subseteq Co /\ \A c \in Co : c \notin X => Quiet(co[c], co'[c])
        /\ \A x \in X : FALSE
    OBVIOUS
  <2> HIDE DEF X
  <2> QED
    BY <1>1, <2>1, SuspMoves
<1> QED
  BY <1>2 DEF Kept, Quiet

LEMMA SuspKill ==
    ASSUME TypeInv, CountInv, SuspInv, NEW t \in Co, Kill(t) \/ KillZombie(t)
    PROVE  Kept
<1>1. co \in [Co -> CoCtx] /\ mode = "lua" /\ UNCHANGED <<mode, posted>>
  BY RunsCount DEF Kill, KillZombie, Calls
<1>2. CASE Kill(t)
  <2> DEFINE D == {t} \cup Descendants(t)
             s == CancelOps(co, D)
  <2>1. s \in [Co -> CoCtx]
    BY <1>1, CancelOpsShape DEF SameShape
  <2>2. \A c \in Co : Quiet(co[c], s[c])
    BY <1>1, QuietCancel
  <2>3. co' = DelThreads(s, {t})
    BY <1>2 DEF Kill
  <2> HIDE DEF s
  <2>4. \A c \in Co : Quiet(s[c], co'[c])
    BY <2>1, <2>3, QuietDel
  <2>5. \A c \in Co : Quiet(co[c], co'[c])
    BY <2>2, <2>4, QuietTransitive
  <2> QED
    BY <1>1, <2>5, SuspQuiet
<1>3. CASE KillZombie(t)
  <2>1. \A c \in Co : Quiet(co[c], co'[c])
    BY <1>1, <1>3, QuietDel DEF KillZombie
  <2> QED
    BY <1>1, <2>1, SuspQuiet
<1> QED
  BY <1>2, <1>3

LEMMA ExitMoves ==
    ASSUME TypeInv, NEW forced, Exit(forced)
    PROVE  /\ \A c \in Co : Quiet(co[c], co'[c]) /\ "op" \notin co'[c].pending
           /\ UNCHANGED posted
<1> DEFINE s1 == WithStatus(co, cur, "dead")
           s == CancelOps(s1, {cur})
<1>1. co \in [Co -> CoCtx] /\ cur \in Co /\ UNCHANGED posted
  BY Runs DEF Exit, Calls
<1>2. s1 \in [Co -> CoCtx]
  BY <1>1, WithStatusShape DEF SameShape, Statuses
<1>3. \A c \in Co : Quiet(co[c], s1[c])
  <2> TAKE c \in Co
  <2> DEFINE r == [co[c] EXCEPT !.status = "dead"]
  <2>1. Quiet(co[c], r) /\ Quiet(co[c], co[c])
    BY <1>1 DEF CoCtx, Quiet
  <2>2. s1[c] \in {r, co[c]}
    BY DEF WithStatus, Put
  <2> HIDE DEF r, s1
  <2> QED
    BY <2>1, <2>2
<1>4. FinalizeThreads(s, uthreads)
  BY DEF Exit
<1> HIDE DEF s1
<1>5. s \in [Co -> CoCtx] /\ \A c \in Co : Quiet(s1[c], s[c])
  BY <1>2, CancelOpsShape, QuietCancel DEF SameShape
<1> HIDE DEF s
<1>6. \A c \in Co : Quiet(s[c], co'[c]) /\ "op" \notin co'[c].pending
  BY <1>4, <1>5, QuietFinalize
<1>7. \A c \in Co : Quiet(co[c], co'[c])
  BY <1>3, <1>5, <1>6, QuietTransitive
<1> QED
  BY <1>1, <1>6, <1>7

LEMMA SuspExit ==
    ASSUME TypeInv, CountInv, SuspInv, NEW forced, Exit(forced)
    PROVE  Kept
BY ExitMoves, SuspQuiet

\* A call that suspends the coroutine that runs, at the place of r
LEMMA SuspSuspends ==
    ASSUME TypeInv, CountInv, SuspInv, mode = "lua", NEW STATE r,
           co' = Put(co, cur, r), Again, Stands(r),
           r.waited = co[cur].waited, r.parent = co[cur].parent,
           r.at # "run", r.status = "running",
           \/ UNCHANGED posted
           \/ posted' = Append(posted, cur) /\ r.at = "yield"
    PROVE  Kept
<1>1. /\ cur \in Co /\ co[cur].at = "run" /\ co[cur].status = "running"
  BY RunsCount
<1>2. /\ co'[cur] = r
      /\ \A c \in Co : c \notin {cur} => co'[c] = co[c] /\ Quiet(co[c], co'[c])
  BY <1>1 DEF Put, Quiet
<1>3. ~InQueue(cur)
  BY <1>1, NotQueued
<1>4. QueueRight(co, posted)'
  <2> DEFINE X == {cur}
  <2>1. /\ \A c \in Co : c \notin X => Quiet(co[c], co'[c])
        /\ \A x \in X : ~InQueue(x)
        /\ cur \in X \cap Co
    BY <1>1, <1>2, <1>3
  <2> HIDE DEF X
  <2> QED
    BY <1>2, <2>1, QueueMoves
<1>5. Moves(cur)
  BY <1>1, <1>2 DEF Moves, Awaited, Alive
<1>6. SuspInv'
  <2> DEFINE X == {cur}
  <2>1. /\ X \subseteq Co /\ \A c \in Co : c \notin X => Quiet(co[c], co'[c])
        /\ \A x \in X : Moves(x)
    BY <1>1, <1>2, <1>5
  <2> HIDE DEF X
  <2> QED
    BY <1>4, <2>1, SuspMoves DEF Again
<1> QED
  BY <1>2, <1>6 DEF Kept

LEMMA SuspYield ==
    ASSUME TypeInv, CountInv, SuspInv, YieldThread
    PROVE  Kept
<1> DEFINE r == [co[cur] EXCEPT !.status = "running", !.at = "yield"]
<1>1. /\ co \in [Co -> CoCtx] /\ cur \in Co /\ co[cur] \in CoCtx
      /\ Stands(co[cur]) /\ co[cur].at = "run" /\ mode = "lua"
      /\ co[cur].kind \in {"entry", "thread"}
  BY RunsCount DEF YieldThread, Calls, SuspInv
<1>2. /\ r.kind = co[cur].kind /\ r.parent = co[cur].parent
      /\ r.status = "running" /\ r.at = "yield"
      /\ r.pending = co[cur].pending /\ r.waited = co[cur].waited
  BY <1>1 DEF CoCtx
<1>3. co' = Put(co, cur, r) /\ Again /\ posted' = Append(posted, cur)
  BY <1>1 DEF YieldThread, Put
<1> HIDE DEF r
<1>4. Stands(r)
  BY <1>1, <1>2 DEF Stands
<1> QED
  BY <1>1, <1>2, <1>3, <1>4, SuspSuspends

LEMMA SuspIO ==
    ASSUME TypeInv, CountInv, SuspInv, NEW op \in {"op", "subreq"},
           op = "op" => Sleep, op = "subreq" => Capture
    PROVE  Kept
<1> DEFINE r == [co[cur] EXCEPT !.pending = @ \cup {op}, !.at = "io"]
<1>1. /\ co \in [Co -> CoCtx] /\ cur \in Co /\ co[cur] \in CoCtx
      /\ Stands(co[cur]) /\ co[cur].at = "run" /\ mode = "lua"
      /\ co[cur].kind \in {"entry", "thread"} /\ co[cur].status = "running"
  BY RunsCount DEF Sleep, Capture, Calls, SuspInv
<1>2. /\ r.kind = co[cur].kind /\ r.parent = co[cur].parent
      /\ r.status = "running" /\ r.at = "io" /\ r.waited = co[cur].waited
  BY <1>1 DEF CoCtx
<1>3. /\ co' = Put(co, cur, r) /\ Again /\ UNCHANGED posted
  BY <1>1 DEF Sleep, Capture, Put
<1> HIDE DEF r
<1>4. Stands(r)
  BY <1>1, <1>2 DEF Stands
<1> QED
  BY <1>1, <1>2, <1>3, <1>4, SuspSuspends

\* Control goes to a thread that stood elsewhere than in ngx.thread.wait
LEMMA SuspWakes ==
    ASSUME TypeInv, CountInv, SuspInv, mode # "done", NEW STATE c, c \in Co,
           NEW STATE r,
           co' = Put(co, c, r), mode' # "done", r.at = "run", r.status = "running",
           r.kind = co[c].kind, r.parent = co[c].parent,
           r.waited = co[c].waited, r.pending = {},
           r.kind \in {"entry", "thread"}, Alive(co, c),
           \/ UNCHANGED posted /\ ~InQueue(c)
           \/ posted # <<>> /\ posted' = Tail(posted) /\ c = Head(posted),
           co[c].at # "wait", HasCause(c)
    PROVE  Kept
<1> DEFINE X == {c}
<1>1. /\ co'[c] = r
      /\ \A x \in Co : x \notin X => co'[x] = co[x] /\ Quiet(co[x], co'[x])
  BY DEF Put, Quiet
<1>2. \/ UNCHANGED posted /\ \A x \in X : ~InQueue(x)
      \/ /\ posted # <<>> /\ posted' = Tail(posted)
         /\ \A x \in X : InQueue(x) => x = Head(posted)
  OBVIOUS
<1>3. Stands(r)
  BY DEF SuspInv, Stands
<1>4. Moves(c)
  BY <1>1, <1>3 DEF Moves, Awaited, Alive
<1>5. X \subseteq Co /\ \A x \in X : Moves(x)
  BY <1>4
<1>6. \A x \in Co : x # c => co'[x] = co[x]
  BY <1>1
<1> HIDE DEF X
<1>7. QueueRight(co, posted)'
  BY <1>1, <1>2, QueueMoves
<1>8. SuspInv'
  BY <1>1, <1>5, <1>7, SuspMoves
<1> QED
  BY <1>6, <1>8 DEF Kept

LEMMA ContinueIs ==
    ASSUME NEW s \in [Co -> CoCtx], NEW c \in Co, s[c].at \notin {"end", "fail"}
    PROVE  /\ Continue(s, c) = Put(s, c, [s[c] EXCEPT !.at = "run"])
           /\ [s[c] EXCEPT !.at = "run"] \in CoCtx
           /\ [s[c] EXCEPT !.at = "run"].at = "run"
           /\ [s[c] EXCEPT !.at = "run"].status = s[c].status
           /\ [s[c] EXCEPT !.at = "run"].kind = s[c].kind
           /\ [s[c] EXCEPT !.at = "run"].parent = s[c].parent
           /\ [s[c] EXCEPT !.at = "run"].waited = s[c].waited
           /\ [s[c] EXCEPT !.at = "run"].pending = s[c].pending
           /\ [s[c] EXCEPT !.at = "run"].zombies = s[c].zombies
<1>1. s[c] \in CoCtx
  OBVIOUS
<1> QED
  BY <1>1 DEF Continue, CoCtx, Points

LEMMA SuspPosted ==
    ASSUME TypeInv, CountInv, SuspInv, RunPosted \/ PostedDrained
    PROVE  Kept
<1>1. /\ co \in [Co -> CoCtx] /\ posted \in Seq(Co) /\ mode = "posted"
      /\ LiveInv(co)
  BY DEF TypeInv, TypeOK, CountInv, RunPosted, PostedDrained
<1>2. CASE PostedDrained
  BY <1>1, <1>2, SuspQuiet DEF PostedDrained, Quiet
<1>3. CASE RunPosted /\ co[Head(posted)].status # "running"
  <2>1. /\ posted # <<>> /\ posted' = Tail(posted) /\ co' = co /\ mode' = mode
    BY <1>3 DEF RunPosted
  <2>2. QueueRight(co, posted)'
    <3> DEFINE X == {}
    <3>1. /\ \A c \in Co : c \notin X => Quiet(co[c], co'[c])
          /\ \A x \in X : InQueue(x) => x = Head(posted)
      BY <2>1 DEF Quiet
    <3> HIDE DEF X
    <3> QED
      BY <2>1, <3>1, QueueMoves
  <2> QED
    BY <1>1, <2>1, <2>2 DEF Kept, SuspInv
<1>4. CASE RunPosted /\ co[Head(posted)].status = "running"
  <2> DEFINE p == Head(posted)
             r == [co[p] EXCEPT !.at = "run"]
  <2>1. /\ posted # <<>> /\ posted' = Tail(posted) /\ co' = Continue(co, p)
        /\ mode' = "lua" /\ co[p].status = "running"
    BY <1>4 DEF RunPosted
  <2>2. p \in Co /\ p = posted[1] /\ 1 \in DOMAIN posted
    BY <1>1, <2>1
  <2>3. co[p].at \in {"spawn", "yield"}
    BY <2>1, <2>2 DEF SuspInv, QueueRight
  <2>4. /\ co[p].kind \in {"entry", "thread"} /\ co[p].pending = {}
        /\ Alive(co, p)
    BY <1>1, <2>1, <2>2, <2>3 DEF LiveInv, Life, SuspInv, Stands, Alive
  <2> HIDE DEF p
  <2>5. /\ co' = Put(co, p, r) /\ r.at = "run" /\ r.status = "running"
        /\ r.kind = co[p].kind /\ r.parent = co[p].parent
        /\ r.waited = co[p].waited /\ r.pending = {}
    BY <1>1, <2>1, <2>2, <2>3, <2>4, ContinueIs
  <2> HIDE DEF r
  <2>6. p = Head(posted) /\ HasCause(p)
    BY <2>1, <2>3 DEF p, HasCause
  <2> QED
    BY <1>1, <2>1, <2>2, <2>3, <2>4, <2>5, <2>6, SuspWakes
<1> QED
  BY <1>2, <1>3, <1>4

LEMMA SuspEvent ==
    ASSUME TypeInv, CountInv, SuspInv, NEW c \in Co, OpDone(c) \/ SubrequestDone(c)
    PROVE  Kept
<1> DEFINE op == IF OpDone(c) THEN "op" ELSE "subreq"
           q == [co[c] EXCEPT !.pending = @ \ {op}]
           s == [co EXCEPT ![c] = q]
           r == [s[c] EXCEPT !.at = "run"]
<1>1. /\ co \in [Co -> CoCtx] /\ co[c] \in CoCtx /\ LiveInv(co)
      /\ Life(co[c]) /\ mode = "idle"
  BY DEF TypeInv, TypeOK, CountInv, LiveInv, OpDone, SubrequestDone
<1>2. /\ co[c].status = "running" /\ co[c].kind \in {"entry", "thread"}
      /\ co[c].pending = {op} /\ co[c].at = "io"
  BY <1>1 DEF Life, OpDone, SubrequestDone, SuspInv, Stands
<1>3. co' = Continue(s, c) /\ mode' = "lua" /\ UNCHANGED posted
  BY <1>1 DEF OpDone, SubrequestDone
<1> HIDE DEF op
<1>4. /\ q \in CoCtx /\ q.kind = co[c].kind /\ q.parent = co[c].parent
      /\ q.status = "running" /\ q.at = "io" /\ q.pending = {}
      /\ q.waited = co[c].waited
  BY <1>1, <1>2 DEF CoCtx
<1> HIDE DEF q
<1>5. s \in [Co -> CoCtx] /\ s[c] = q /\ \A x \in Co : x # c => s[x] = co[x]
  BY <1>1, <1>4
<1> HIDE DEF s
<1>6. /\ co' = Put(s, c, r) /\ r.at = "run" /\ r.status = "running"
      /\ r.kind = co[c].kind /\ r.parent = co[c].parent
      /\ r.waited = co[c].waited /\ r.pending = {}
  BY <1>3, <1>4, <1>5, ContinueIs
<1> HIDE DEF r
<1>7. co' = Put(co, c, r)
  BY <1>5, <1>6 DEF Put
<1>8. co'[c].pending = {}
  BY <1>6, <1>7 DEF Put
<1>9. ~InQueue(c)
  BY <1>2, NotQueued
<1>10. HasCause(c) /\ Alive(co, c)
  BY <1>2, <1>8 DEF HasCause, Alive
<1> QED
  BY <1>1, <1>2, <1>3, <1>6, <1>7, <1>9, <1>10, SuspWakes

LEMMA SuspClientAbort ==
    ASSUME TypeInv, CountInv, SuspInv, ClientAbort
    PROVE  Kept
<1>1. /\ co \in [Co -> CoCtx] /\ LiveInv(co) /\ mode = "idle" /\ UNCHANGED posted
  BY DEF TypeInv, TypeOK, CountInv, ClientAbort
<1>2. CASE FinalizeThreads(co, uthreads)
  BY <1>1, <1>2, QuietFinalize, SuspQuiet
<1>3. CASE /\ onAbort # NoCo /\ co[onAbort].status = "suspended"
           /\ co' = Continue([co EXCEPT ![onAbort].status = "running"], onAbort)
           /\ mode' = "lua"
  <2> DEFINE a == onAbort
             q == [co[a] EXCEPT !.status = "running"]
             s == [co EXCEPT ![a] = q]
             r == [s[a] EXCEPT !.at = "run"]
  <2>1. /\ a \in Co /\ co[a].kind = "thread" /\ co[a] \in CoCtx
        /\ Life(co[a]) /\ co[a].status = "suspended" /\ Stands(co[a])
    BY <1>1, <1>3 DEF TypeInv, TypeOK, LiveInv, SuspInv
  <2>2. /\ co[a].pending = {} /\ co[a].at = "start"
    BY <2>1 DEF Life, Stands
  <2>3. co' = Continue(s, a)
    BY <1>1, <1>3
  <2> HIDE DEF a
  <2>4. /\ q \in CoCtx /\ q.kind = co[a].kind /\ q.parent = co[a].parent
        /\ q.status = "running" /\ q.at = "start" /\ q.pending = {}
        /\ q.waited = co[a].waited
    BY <2>1, <2>2 DEF CoCtx, Statuses
  <2> HIDE DEF q
  <2>5. s \in [Co -> CoCtx] /\ s[a] = q /\ \A x \in Co : x # a => s[x] = co[x]
    BY <1>1, <2>1, <2>4
  <2> HIDE DEF s
  <2>6. /\ co' = Put(s, a, r) /\ r.at = "run" /\ r.status = "running"
        /\ r.kind = co[a].kind /\ r.parent = co[a].parent
        /\ r.waited = co[a].waited /\ r.pending = {}
    BY <2>1, <2>3, <2>4, <2>5, ContinueIs
  <2> HIDE DEF r
  <2>7. co' = Put(co, a, r)
    BY <2>5, <2>6 DEF Put
  <2>8. ~InQueue(a)
    BY <2>1, NotQueued
  <2>9. HasCause(a) /\ Alive(co, a)
    BY <2>1, <2>2 DEF HasCause, Alive
  <2> QED
    BY <1>1, <1>3, <2>1, <2>2, <2>6, <2>7, <2>8, <2>9, SuspWakes
<1> QED
  BY <1>2, <1>3 DEF ClientAbort

\* What the end of thread c does to contexts s in which c is dead: it wakes
\* its parent, or moves nobody
LEMMA ThreadEndsMoves ==
    ASSUME NEW STATE s, NEW STATE n, NEW STATE c, NEW STATE p,
           s \in [Co -> CoCtx], c \in Co, p \in Co, p = s[c].parent, p # c,
           s[c].kind = "thread", s[c].status = "dead",
           Alive(s, p) => s[p].at \notin {"end", "fail"},
           ThreadEnds(s, n, c)
    PROVE  /\ \A x \in Co : x \notin {c, p} => Quiet(s[x], co'[x])
           /\ co'[c].at = s[c].at /\ co'[c].kind = s[c].kind
           /\ co'[c].pending \subseteq s[c].pending /\ co'[c].status \in {"dead", "zombie"}
           /\ co'[c].parent = p
           /\ co'[c].waited => s[c].waited
           /\ \/ /\ Alive(s, p) /\ s[c].waited /\ mode' = "lua" /\ cur' = p
                 /\ co'[p].at = "run" /\ co'[p].status = "running"
                 /\ co'[p].kind = s[p].kind /\ co'[p].parent = s[p].parent
                 /\ co'[p].waited = s[p].waited /\ co'[p].pending = s[p].pending
                 /\ co'[c].status = "dead"
              \/ /\ Quiet(s[p], co'[p]) /\ mode' \in {"posted", "done"}
                 /\ mode' = "done" => \A x \in Co : "op" \notin co'[x].pending
<1>1. s[c] \in CoCtx /\ s[p] \in CoCtx
  OBVIOUS
<1>2. CASE Alive(s, p) /\ s[c].waited
           /\ UserCoDone(Put(s, c, [s[c] EXCEPT !.waited = FALSE]), n, c)
  <2> DEFINE r == [s[c] EXCEPT !.waited = FALSE]
             w == Put(s, c, r)
             e == IF w[c].kind = "thread" /\ w[c].ref THEN DelThreads(w, {c}) ELSE w
             q == [e[p] EXCEPT !.status = "running"]
             f == Put(e, p, q)
             z == [f[p] EXCEPT !.at = "run"]
  <2>1. /\ r \in CoCtx /\ r.kind = s[c].kind /\ r.parent = p
        /\ r.status = "dead" /\ r.at = s[c].at /\ ~r.waited
        /\ r.pending = s[c].pending
    BY <1>1 DEF CoCtx
  <2>2. /\ co' = Continue(WithStatus(e, p, "running"), p)
        /\ mode' = "lua" /\ cur' = p
    <3>1. w[c].parent = p
      BY <2>1 DEF Put
    <3> QED
      BY <1>2, <3>1 DEF UserCoDone
  <2> HIDE DEF r
  <2>3. w \in [Co -> CoCtx] /\ w[c] = r /\ \A x \in Co : x # c => w[x] = s[x]
    BY <2>1 DEF Put
  <2> HIDE DEF w
  <2>4. /\ e \in [Co -> CoCtx] /\ \A x \in Co : Quiet(w[x], e[x])
        /\ \A x \in Co : x # c => e[x] = w[x]
    <3>1. /\ DelThreads(w, {c}) \in [Co -> CoCtx]
          /\ \A x \in Co : Quiet(w[x], DelThreads(w, {c})[x])
      BY <2>3, DelThreadsShape, QuietDel DEF SameShape
    <3>2. \A x \in Co : x # c => DelThreads(w, {c})[x] = w[x]
      BY DEF DelThreads
    <3>3. \A x \in Co : Quiet(w[x], w[x])
      BY DEF Quiet
    <3> QED
      BY <2>3, <3>1, <3>2, <3>3
  <2> HIDE DEF e
  <2>5. e[p] = s[p]
    BY <2>3, <2>4
  <2>6. /\ q \in CoCtx /\ q.at = s[p].at /\ q.status = "running"
        /\ q.kind = s[p].kind /\ q.parent = s[p].parent
        /\ q.waited = s[p].waited /\ q.pending = s[p].pending
    BY <1>1, <2>5 DEF CoCtx, Statuses
  <2>7. co' = Continue(f, p)
    BY <2>2 DEF WithStatus
  <2> HIDE DEF q
  <2>8. f \in [Co -> CoCtx] /\ f[p] = q /\ \A x \in Co : x # p => f[x] = e[x]
    BY <2>4, <2>6 DEF Put
  <2> HIDE DEF f
  <2>9. /\ co' = Put(f, p, z) /\ z.at = "run" /\ z.status = "running"
        /\ z.kind = s[p].kind /\ z.parent = s[p].parent
        /\ z.waited = s[p].waited /\ z.pending = s[p].pending
    BY <1>2, <2>6, <2>7, <2>8, ContinueIs
  <2> HIDE DEF z
  <2>10. co'[p] = z /\ \A x \in Co : x # p => co'[x] = e[x]
    BY <2>8, <2>9 DEF Put
  <2>11. \A x \in Co : x \notin {c, p} => Quiet(s[x], co'[x])
    BY <2>3, <2>4, <2>10 DEF Quiet
  <2>12. /\ co'[c].at = s[c].at /\ co'[c].kind = s[c].kind /\ co'[c].parent = p
         /\ co'[c].pending \subseteq s[c].pending /\ co'[c].status = "dead"
         /\ ~co'[c].waited
    BY <2>1, <2>3, <2>4, <2>10 DEF Quiet
  <2> QED
    BY <1>2, <2>2, <2>9, <2>10, <2>11, <2>12
<1>3. CASE /\ co' = WithStatus(Put(s, p, [s[p] EXCEPT !.zombies = @ \cup {c}]), c, "zombie")
           /\ Again
  <2> DEFINE r == [s[p] EXCEPT !.zombies = @ \cup {c}]
             q == [s[c] EXCEPT !.status = "zombie"]
  <2>1. Quiet(s[p], r)
    BY <1>1 DEF CoCtx, Quiet
  <2>2. /\ q.at = s[c].at /\ q.kind = s[c].kind /\ q.parent = p
        /\ q.status = "zombie" /\ q.pending = s[c].pending
        /\ q.waited = s[c].waited
    BY <1>1 DEF CoCtx
  <2>3. co' = [x \in Co |-> IF x = c THEN q ELSE IF x = p THEN r ELSE s[x]]
    BY <1>1, <1>3 DEF WithStatus, Put
  <2> HIDE DEF r, q
  <2>4. /\ co'[c] = q /\ co'[p] = r
        /\ \A x \in Co : x \notin {c, p} => co'[x] = s[x] /\ Quiet(s[x], co'[x])
    BY <2>3 DEF Quiet
  <2> QED
    BY <1>3, <2>1, <2>2, <2>4 DEF Again
<1>4. ASSUME NEW STATE d, d = DelThreads(s, {c}), \A x \in Co : Quiet(d[x], co'[x]),
             mode' \in {"posted", "done"},
             mode' = "done" => \A x \in Co : "op" \notin co'[x].pending
      PROVE  /\ \A x \in Co : Quiet(s[x], co'[x])
             /\ co'[c].at = s[c].at /\ co'[c].kind = s[c].kind
             /\ co'[c].pending \subseteq s[c].pending /\ co'[c].status = "dead"
             /\ co'[c].parent = p
             /\ co'[c].waited => s[c].waited
  <2>1. \A x \in Co : Quiet(s[x], co'[x])
    BY <1>4, QuietDel, QuietTransitive
  <2> QED
    BY <2>1 DEF Quiet
<1>5. CASE \E k : FinalizeThreads(DelThreads(s, {c}), k)
  <2>1. PICK k : FinalizeThreads(DelThreads(s, {c}), k)
    BY <1>5
  <2> DEFINE d == DelThreads(s, {c})
  <2>2. d \in [Co -> CoCtx] /\ FinalizeThreads(d, k) /\ d = DelThreads(s, {c})
    BY <2>1, DelThreadsShape DEF SameShape
  <2> HIDE DEF d
  <2>3. /\ \A x \in Co : Quiet(d[x], co'[x]) /\ "op" \notin co'[x].pending
        /\ mode' = "done"
    BY <2>2, QuietFinalize
  <2> QED
    BY <1>4, <2>2, <2>3
<1>6. CASE co' = DelThreads(s, {c}) /\ Again
  <2> DEFINE d == DelThreads(s, {c})
  <2>1. d = DelThreads(s, {c}) /\ \A x \in Co : Quiet(d[x], co'[x])
    BY <1>6 DEF Quiet
  <2>2. mode' = "posted"
    BY <1>6 DEF Again
  <2> HIDE DEF d
  <2> QED
    BY <1>4, <2>1, <2>2
<1> QED
  BY <1>2, <1>3, <1>5, <1>6 DEF ThreadEnds, IsWaitedFor

\* The coroutine that runs has ended, as s says of it, and moves nobody else
HasEnded(s) ==
    /\ s \in [Co -> CoCtx]
    /\ \A x \in Co : x # cur => Quiet(co[x], s[x])
    /\ s[cur].at = "end" /\ s[cur].kind = co[cur].kind /\ s[cur].ref
    /\ s[cur].parent = co[cur].parent /\ s[cur].waited = co[cur].waited
    /\ s[cur].pending = {} /\ s[cur].status = "dead"

LEMMA SuspGone ==
    ASSUME TypeInv, CountInv, SuspInv, mode = "lua",
           \A x \in Co : x # cur => Quiet(co[x], co'[x]),
           co'[cur].at = "end", co'[cur].kind = co[cur].kind,
           co'[cur].pending = {}, co'[cur].status \in {"dead", "zombie"},
           co'[cur].waited => co[cur].waited, UNCHANGED posted,
           mode' = "done" => \A x \in Co : "op" \notin co'[x].pending
    PROVE  Kept
<1> DEFINE X == {cur}
<1>1. /\ cur \in Co /\ co[cur].at = "run" /\ co[cur].status = "running"
      /\ Stands(co[cur]) /\ co[cur].kind \in {"entry", "thread"}
  BY RunsCount DEF SuspInv
<1>2. ~InQueue(cur)
  BY <1>1, NotQueued
<1>3. Moves(cur)
  BY <1>1 DEF Moves, Stands, Awaited, Alive
<1>4. /\ X \subseteq Co /\ \A c \in Co : c \notin X => Quiet(co[c], co'[c])
      /\ \A x \in X : Moves(x) /\ ~InQueue(x)
  BY <1>1, <1>2, <1>3
<1> HIDE DEF X
<1>5. QueueRight(co, posted)'
  BY <1>4, QueueMoves
<1>6. SuspInv'
  BY <1>4, <1>5, SuspMoves
<1>7. \A c \in Co : ~(co[c].at # "run" /\ co'[c].at = "run")
  BY <1>1 DEF Quiet
<1> QED
  BY <1>6, <1>7 DEF Kept

LEMMA SuspThreadEnds ==
    ASSUME TypeInv, CountInv, SuspInv, mode = "lua", UNCHANGED posted,
           NEW STATE s, NEW STATE n, HasEnded(s), s[cur].kind = "thread",
           ThreadEnds(s, n, cur)
    PROVE  Kept
<1> DEFINE p == co[cur].parent
<1>1. /\ co \in [Co -> CoCtx] /\ cur \in Co /\ co[cur].at = "run"
      /\ co[cur].status = "running" /\ Stands(co[cur]) /\ LiveInv(co)
  BY RunsCount DEF SuspInv
<1>2. /\ p \in Co /\ p # cur /\ Started(co, p) /\ co[p].status # "suspended"
      /\ Life(co[p]) /\ Stands(co[p])
  BY <1>1 DEF HasEnded, TypeInv, CoInv, Started, LiveInv, SuspInv
<1> HIDE DEF p
<1>3. Quiet(co[p], s[p]) /\ p = s[cur].parent
  BY <1>2 DEF HasEnded, p
<1>4. Alive(s, p) => /\ co[p].status = "running" /\ Alive(co, p)
                     /\ s[p].at \notin {"end", "fail"} /\ s[p].status = "running"
  <2>1. co[p] \in CoCtx
    BY <1>1, <1>2
  <2> QED
    BY <1>2, <1>3, <2>1 DEF Alive, Quiet, Life, Stands, CoCtx, Statuses
<1>5. /\ \A x \in Co : x \notin {cur, p} => Quiet(s[x], co'[x])
      /\ co'[cur].at = "end" /\ co'[cur].kind = "thread"
      /\ co'[cur].pending = {} /\ co'[cur].status \in {"dead", "zombie"}
      /\ co'[cur].parent = p
      /\ co'[cur].waited => co[cur].waited
      /\ \/ /\ Alive(s, p) /\ co[cur].waited /\ mode' = "lua" /\ cur' = p
            /\ co'[p].at = "run" /\ co'[p].status = "running"
            /\ co'[p].kind = s[p].kind /\ co'[p].parent = s[p].parent
            /\ co'[p].waited = s[p].waited /\ co'[p].pending = s[p].pending
            /\ co'[cur].status = "dead"
         \/ /\ Quiet(s[p], co'[p]) /\ mode' \in {"posted", "done"}
            /\ mode' = "done" => \A x \in Co : "op" \notin co'[x].pending
  BY <1>1, <1>2, <1>3, <1>4, ThreadEndsMoves DEF HasEnded
<1>6. \A x \in Co : x \notin {cur, p} => Quiet(co[x], co'[x])
  <2> TAKE x \in Co
  <2> HAVE x \notin {cur, p}
  <2>1. Quiet(co[x], s[x]) /\ Quiet(s[x], co'[x])
    BY <1>5 DEF HasEnded
  <2> QED
    BY <2>1, QuietTransitive
<1>7. CASE /\ Alive(s, p) /\ co[cur].waited /\ mode' = "lua" /\ cur' = p
           /\ co'[p].at = "run" /\ co'[p].status = "running"
           /\ co'[p].kind = s[p].kind /\ co'[p].parent = s[p].parent
           /\ co'[p].waited = s[p].waited /\ co'[p].pending = s[p].pending
           /\ co'[cur].status = "dead"
  <2> DEFINE X == {cur, p}
  <2>1. Awaited(co, cur) /\ co[p].at = "wait"
    BY <1>1, <1>7 DEF Awaited, Alive, SuspInv, WaitsRight, p
  <2>2. co'[p].pending = {}
    BY <1>2, <1>3, <1>7, <2>1 DEF Quiet, Stands
  <2>3. /\ co'[p].kind = co[p].kind /\ co'[p].waited = co[p].waited
        /\ co'[p].parent = co[p].parent /\ co[p].kind \in {"entry", "thread"}
    BY <1>2, <1>3, <1>7 DEF Quiet, Started, Life
  <2>4. Stands(co'[p])
    BY <1>2, <1>7, <2>2, <2>3 DEF Stands
  <2>5. Stands(co'[cur]) /\ ~Awaited(co', cur)
    BY <1>1, <1>5, <1>7 DEF Stands, Awaited, Alive
  <2>6. Awaited(co', p) => Awaited(co, p)
    BY <1>4, <1>7, <2>3 DEF Awaited
  <2>7. ASSUME NEW t \in Co, Awaited(co, t), Awaited(co', t)
        PROVE  co[t].parent # p
    BY <1>1, <2>1, <2>5, <2>7 DEF SuspInv, WaitsRight, p
  <2>8. Moves(cur) /\ Moves(p)
    BY <1>1, <2>3, <2>4, <2>5, <2>6, <2>7 DEF Moves
  <2>9. ~InQueue(cur) /\ ~InQueue(p)
    BY <1>1, <1>4, <1>7, <2>1, NotQueued
  <2>10. /\ X \subseteq Co /\ \A c \in Co : c \notin X => Quiet(co[c], co'[c])
         /\ \A x \in X : Moves(x) /\ ~InQueue(x)
    BY <1>1, <1>2, <1>6, <2>8, <2>9
  <2> HIDE DEF X
  <2>11. QueueRight(co, posted)'
    BY <2>10, QueueMoves
  <2>12. SuspInv'
    BY <1>7, <2>10, <2>11, SuspMoves
  <2>13. HasCause(p)
    BY <1>1, <1>5, <2>1 DEF HasCause, Awaited, Stands, p
  <2>14. \A c \in Co : co[c].at # "run" /\ co'[c].at = "run" => c = p
    BY <1>5, <1>6 DEF Quiet
  <2> QED
    BY <2>12, <2>13, <2>14 DEF Kept
<1>8. CASE /\ Quiet(s[p], co'[p]) /\ mode' \in {"posted", "done"}
           /\ mode' = "done" => \A x \in Co : "op" \notin co'[x].pending
  <2>1. Quiet(co[p], co'[p])
    BY <1>3, <1>8, QuietTransitive
  <2>2. \A x \in Co : x # cur => Quiet(co[x], co'[x])
    BY <1>6, <2>1
  <2>3. co'[cur].kind = co[cur].kind
    BY <1>5 DEF HasEnded
  <2> QED
    BY <1>5, <1>8, <2>2, <2>3, SuspGone
<1> QED
  BY <1>5, <1>7, <1>8

LEMMA SuspEntryEnds ==
    ASSUME TypeInv, CountInv, SuspInv, mode = "lua", UNCHANGED posted,
           NEW STATE s, HasEnded(s), \A x \in Co : Quiet(s[x], co'[x]),
           mode' = "done" => \A x \in Co : "op" \notin co'[x].pending
    PROVE  Kept
<1>1. cur \in Co
  BY RunsCount
<1>2. ASSUME NEW x \in Co, x # cur PROVE Quiet(co[x], co'[x])
  BY <1>2, QuietTransitive DEF HasEnded
<1>3. /\ co'[cur].at = "end" /\ co'[cur].kind = co[cur].kind
      /\ co'[cur].pending = {} /\ co'[cur].status = "dead"
      /\ co'[cur].waited = co[cur].waited
  BY <1>1 DEF HasEnded, Quiet
<1> QED
  BY <1>2, <1>3, SuspGone

LEMMA SuspError ==
    ASSUME TypeInv, CountInv, SuspInv, Error
    PROVE  Kept
<1> DEFINE s == Ended(cur)
<1>1. /\ cur \in Co /\ co[cur].kind \in {"entry", "thread"} /\ mode = "lua"
      /\ UNCHANGED posted
  BY RunsCount DEF Error
<1>2. HasEnded(s)
  <2>1. /\ s \in [Co -> CoCtx]
        /\ s[cur].kind = co[cur].kind /\ s[cur].ref
        /\ s[cur].status = "dead" /\ s[cur].pending = {}
        /\ s[cur].parent = co[cur].parent
        /\ s[cur].waited = co[cur].waited /\ s[cur].at = "end"
        /\ \A c \in Co : c # cur => s[c] = co[c]
    BY <1>1, EndedLive
  <2> HIDE DEF s
  <2> QED
    BY <2>1 DEF HasEnded, Quiet
<1>3. Raise(s, uthreads, cur)
  BY DEF Error
<1> HIDE DEF s
<1>4. \/ s[cur].kind = "thread" /\ ThreadEnds(s, uthreads, cur)
      \/ FinalizeThreads(s, uthreads)
  BY <1>1, <1>2, <1>3 DEF Raise, HasEnded
<1>5. CASE s[cur].kind = "thread" /\ ThreadEnds(s, uthreads, cur)
  BY <1>1, <1>2, <1>5, SuspThreadEnds
<1>6. CASE FinalizeThreads(s, uthreads)
  <2>1. /\ \A x \in Co : Quiet(s[x], co'[x]) /\ "op" \notin co'[x].pending
    BY <1>2, <1>6, QuietFinalize DEF HasEnded
  <2> QED
    BY <1>1, <1>2, <2>1, SuspEntryEnds
<1> QED
  BY <1>4, <1>5, <1>6

\* What a normal return makes of the contexts before anybody else is told
LEMMA ReturnedHasEnded ==
    ASSUME TypeInv, CountInv, mode = "lua"
    PROVE  LET s1 == DelThreads(Ended(cur), Reaped(cur))
           IN  HasEnded(Put(s1, cur, [s1[cur] EXCEPT !.zombies = {}]))
<1> DEFINE s0 == Ended(cur)
           R == Reaped(cur)
           s1 == DelThreads(s0, R)
           r == [s1[cur] EXCEPT !.zombies = {}]
           s == Put(s1, cur, r)
<1>1. /\ co \in [Co -> CoCtx] /\ cur \in Co /\ LiveInv(co) /\ co[cur].status = "running"
      /\ co[cur] \in CoCtx
  BY RunsCount
<1>2. /\ s0 \in [Co -> CoCtx]
      /\ s0[cur].kind = co[cur].kind /\ s0[cur].ref
      /\ s0[cur].status = "dead" /\ s0[cur].pending = {}
      /\ s0[cur].parent = co[cur].parent
      /\ s0[cur].waited = co[cur].waited /\ s0[cur].at = "end"
      /\ \A c \in Co : c # cur => s0[c] = co[c]
  BY EndedLive
<1>3. cur \notin R
  BY <1>1 DEF Reaped, LiveInv, Gone, CoCtx
<1> HIDE DEF s0, R
<1>4. /\ s1 \in [Co -> CoCtx] /\ \A x \in Co : Quiet(s0[x], s1[x])
  BY <1>2, DelThreadsShape, QuietDel DEF SameShape
<1>5. s1[cur] = s0[cur]
  BY <1>1, <1>3 DEF DelThreads
<1> HIDE DEF s1
<1>6. /\ r \in CoCtx /\ r.kind = co[cur].kind /\ r.ref /\ r.status = "dead"
      /\ r.pending = {} /\ r.parent = co[cur].parent
      /\ r.waited = co[cur].waited /\ r.at = "end"
  <2>1. s1[cur] \in CoCtx
    BY <1>1, <1>4
  <2> QED
    BY <1>2, <1>5, <2>1 DEF CoCtx
<1> HIDE DEF r
<1>7. s \in [Co -> CoCtx] /\ s[cur] = r /\ \A x \in Co : x # cur => s[x] = s1[x]
  BY <1>1, <1>4, <1>6 DEF Put
<1> HIDE DEF s
<1>8. ASSUME NEW x \in Co, x # cur PROVE Quiet(co[x], s[x])
  BY <1>2, <1>4, <1>7, <1>8
<1>9. HasEnded(s)
  BY <1>6, <1>7, <1>8 DEF HasEnded
<1> QED
  BY <1>9 DEF s, r, s1, s0, R

LEMMA SuspReturn ==
    ASSUME TypeInv, CountInv, SuspInv, Return
    PROVE  Kept
<1> DEFINE s1 == DelThreads(Ended(cur), Reaped(cur))
           s == Put(s1, cur, [s1[cur] EXCEPT !.zombies = {}])
           n == uthreads - Cardinality(Reaped(cur))
           d == DelThreads(s, {cur})
<1>1. /\ cur \in Co /\ co[cur].kind \in {"entry", "thread"} /\ mode = "lua"
      /\ UNCHANGED posted
  BY RunsCount DEF Return
<1>2. HasEnded(s)
  BY <1>1, ReturnedHasEnded
<1>3. \/ co[cur].kind = "thread" /\ ThreadEnds(s, n, cur)
      \/ FinalizeThreads(d, n)
      \/ co' = d /\ Again
  BY <1>1 DEF Return
<1> HIDE DEF s, n
<1>4. CASE co[cur].kind = "thread" /\ ThreadEnds(s, n, cur)
  <2>1. s[cur].kind = "thread"
    BY <1>2, <1>4 DEF HasEnded
  <2> QED
    BY <1>1, <1>2, <1>4, <2>1, SuspThreadEnds
<1>5. d \in [Co -> CoCtx] /\ \A x \in Co : Quiet(s[x], d[x])
  BY <1>2, DelThreadsShape, QuietDel DEF SameShape, HasEnded
<1> HIDE DEF d
<1>6. CASE FinalizeThreads(d, n)
  <2>1. /\ \A x \in Co : Quiet(d[x], co'[x]) /\ "op" \notin co'[x].pending
    BY <1>5, <1>6, QuietFinalize
  <2>2. \A x \in Co : Quiet(s[x], co'[x])
    BY <1>5, <2>1, QuietTransitive
  <2> QED
    BY <1>1, <1>2, <2>1, <2>2, SuspEntryEnds
<1>7. CASE co' = d /\ Again
  <2>1. \A x \in Co : Quiet(s[x], co'[x])
    BY <1>5, <1>7
  <2>2. mode' # "done"
    BY <1>7 DEF Again
  <2> QED
    BY <1>1, <1>2, <2>1, <2>2, SuspEntryEnds
<1> QED
  BY <1>3, <1>4, <1>6, <1>7

\* ngx.thread.wait for one thread: that thread is awaited from now on, and
\* nobody else is, since its parent ran until now
LEMMA SuspWait ==
    ASSUME OneAtATime, TypeInv, CountInv, SuspInv, NEW args \in WaitArgs, Wait(args)
    PROVE  Kept
<1> DEFINE stops == {i \in DOMAIN args : StopsAt(args, i)}
           stop == IF stops = {} THEN Len(args) + 1
                   ELSE CHOOSE i \in stops : \A j \in stops : i <= j
           flag(c) == [co[c] EXCEPT !.waited = TRUE]
           flagged == [c \in Co |->
                          IF c \in Seen(args, stop) /\ co[c].status # "dead"
                          THEN flag(c) ELSE co[c]]
           t == args[1]
           q == [co[cur] EXCEPT !.at = "wait"]
<1> HIDE DEF stop
<1>1. /\ co \in [Co -> CoCtx] /\ cur \in Co /\ LiveInv(co) /\ mode = "lua"
      /\ co[cur] \in CoCtx /\ co[cur].kind \in {"entry", "thread"}
      /\ co[cur].status = "running" /\ co[cur].at = "run"
      /\ Stands(co[cur]) /\ UNCHANGED posted
  BY RunsCount DEF Wait, Calls, SuspInv
<1>2. Len(args) = 1 /\ DOMAIN args = {1} /\ t \in Co /\ co[t].kind = "thread"
  <2>1. PICK n \in 1 .. MaxWait :
          args \in [1 .. n -> {x \in Co : co[x].kind = "thread" /\ x # onAbort}]
    BY DEF WaitArgs
  <2>2. n = 1
    BY WaitAssumption DEF OneAtATime
  <2> QED
    BY <2>1, <2>2
<1>3. CASE stops = {} /\ co' = Put(flagged, cur, [flagged[cur] EXCEPT !.at = "wait"])
           /\ Again
  <2>1. Seen(args, stop) = {t}
    <3>1. stop = 2
      BY <1>2, <1>3 DEF stop
    <3>2. 1 .. stop - 1 = {1}
      BY <3>1
    <3> QED
      BY <3>2 DEF Seen
  <2>2. /\ co[t].parent = cur /\ Alive(co, t) /\ t # cur
    <3>1. ~StopsAt(args, 1)
      BY <1>2, <1>3
    <3> QED
      BY <1>1, <1>2, <3>1 DEF StopsAt, IsMyThread, Alive, LiveInv
  <2> DEFINE r == flag(t)
  <2>3. /\ flagged[t] = r /\ \A c \in Co : c # t => flagged[c] = co[c]
    BY <1>2, <2>1, <2>2 DEF Alive
  <2> HIDE DEF flagged
  <2>4. /\ r.kind = co[t].kind /\ r.parent = co[t].parent /\ r.waited
        /\ r.status = co[t].status /\ r.at = co[t].at /\ r.pending = co[t].pending
    BY <1>1, <1>2 DEF CoCtx
  <2>5. /\ q.kind = co[cur].kind /\ q.parent = co[cur].parent
        /\ q.waited = co[cur].waited /\ q.status = co[cur].status
        /\ q.at = "wait" /\ q.pending = co[cur].pending
    BY <1>1 DEF CoCtx
  <2>6. /\ co'[t] = r /\ co'[cur] = q
        /\ \A c \in Co : c \notin {t, cur} => co'[c] = co[c]
    BY <1>1, <1>2, <1>3, <2>2, <2>3 DEF Put
  <2> HIDE DEF r, q
  <2>7. Stands(r) /\ Stands(q)
    BY <1>1, <1>2, <2>4, <2>5 DEF Stands, SuspInv
  <2>8. ASSUME NEW c \in Co, c # cur
        PROVE  /\ co'[c].status = co[c].status /\ co'[c].at = co[c].at
               /\ co'[c].parent = co[c].parent
               /\ c # t => (Awaited(co', c) <=> Awaited(co, c))
    BY <2>4, <2>6, <2>8 DEF Awaited, Alive
  <2>9. /\ co'[cur].status = co[cur].status /\ co'[cur].parent = co[cur].parent
        /\ Awaited(co', cur) <=> Awaited(co, cur)
    BY <2>5, <2>6 DEF Awaited, Alive
  <2>10. ASSUME NEW c \in Co, c # t, Awaited(co', c)
         PROVE  /\ Awaited(co, c) /\ co'[c].parent = co[c].parent
                /\ co[co[c].parent].at = "wait" /\ co[c].parent # cur
                /\ co[c].parent \in Co
    <3>1. Awaited(co, c) /\ co'[c].parent = co[c].parent
      BY <2>8, <2>9, <2>10
    <3>2. co[co[c].parent].at = "wait"
      BY <3>1 DEF SuspInv, WaitsRight
    <3>3. co[c].parent \in Co
      BY <3>1 DEF Awaited, SuspInv, Stands, TypeInv, CoInv, Started
    <3> QED
      BY <1>1, <3>1, <3>2, <3>3
  <2>11. co'[t].parent = cur
    BY <2>2, <2>4, <2>6
  <2>12. \A c \in Co : Awaited(co', c) => co'[co'[c].parent].at = "wait"
    BY <2>5, <2>6, <2>8, <2>10, <2>11
  <2>13. \A c, d \in Co : /\ Awaited(co', c) /\ Awaited(co', d)
                          /\ co'[c].parent = co'[d].parent
                          => c = d
    BY <2>10, <2>11 DEF SuspInv, WaitsRight
  <2>14. QueueRight(co', posted)
    <3>1. ~InQueue(cur)
      BY <1>1, NotQueued
    <3>2. \A i \in DOMAIN posted : posted[i] \in Co /\ posted[i] # cur
      BY <3>1 DEF TypeInv, TypeOK, InQueue
    <3> QED
      BY <2>8, <3>2 DEF SuspInv, QueueRight
  <2>15. \A c \in Co : Stands(co'[c])
    BY <2>6, <2>7 DEF SuspInv
  <2>16. mode' = "posted"
    BY <1>3 DEF Again
  <2>17. SuspInv'
    BY <1>1, <2>12, <2>13, <2>14, <2>15, <2>16 DEF SuspInv, WaitsRight, Awaited, Alive
  <2>18. \A c \in Co : ~(co[c].at # "run" /\ co'[c].at = "run")
    BY <2>5, <2>6, <2>8
  <2> QED
    BY <2>17, <2>18 DEF Kept
<1>4. CASE stops # {}
  <2>1. flagged = co
    <3>1. stops = {1}
      BY <1>2, <1>4
    <3> HIDE DEF stops
    <3>2. stop = 1
      BY <3>1 DEF stop
    <3>3. 1 .. stop - 1 = {}
      BY <3>2
    <3>4. Seen(args, stop) = {}
      BY <3>3 DEF Seen
    <3> QED
      BY <1>1, <3>4
  <2>2. /\ co' = DelThreads(co, {args[stop]}) \/ co' = co
        /\ UNCHANGED mode
    <3>1. \/ co' = DelThreads(flagged, {args[stop]}) /\ UNCHANGED mode
          \/ co' = flagged /\ UNCHANGED mode
      BY <1>4 DEF Wait, stop
    <3> QED
      BY <2>1, <3>1
  <2>3. \A c \in Co : Quiet(co[c], co'[c])
    <3>1. CASE co' = co
      BY <3>1 DEF Quiet
    <3>2. CASE co' = DelThreads(co, {args[stop]})
      BY <1>1, <3>2, QuietDel
    <3> QED
      BY <2>2, <3>1, <3>2
  <2> QED
    BY <1>1, <2>2, <2>3, SuspQuiet
<1> QED
  BY <1>3, <1>4 DEF Wait, stop

LEMMA SuspNext ==
    ASSUME OnlyThreads, OneAtATime, TypeInv, CountInv, SuspInv, Next
    PROVE  Kept
<1>1. Sleep \/ Capture => Kept
  <2>1. Sleep => Kept
    <3> DEFINE op == "op"
    <3>1. op \in {"op", "subreq"} /\ op # "subreq"
      OBVIOUS
    <3> HIDE DEF op
    <3> QED
      BY <3>1, SuspIO
  <2>2. Capture => Kept
    <3> DEFINE op == "subreq"
    <3>1. op \in {"op", "subreq"} /\ op # "op"
      OBVIOUS
    <3> HIDE DEF op
    <3> QED
      BY <3>1, SuspIO
  <2> QED
    BY <2>1, <2>2
<1>2. CASE Lua
  BY <1>1, <1>2, OnlyThreadCalls, SuspNewThread, SuspKill, SuspWait,
     SuspYield, SuspReturn, SuspError, SuspExit
  DEF Lua
<1>3. CASE Step
  BY <1>3, OnlyThreadCalls, SuspPosted DEF Step
<1>4. CASE Event
  BY <1>4, SuspEvent DEF Event
<1>5. CASE ClientAbort
  BY <1>5, SuspClientAbort
<1> QED
  BY <1>2, <1>3, <1>4, <1>5 DEF Next

LEMMA SuspStutter == SuspInv /\ UNCHANGED vars => SuspInv'
BY DEF vars, SuspInv, Stands, WaitsRight, Awaited, Alive, QueueRight

-----------------------------------------------------------------------------
(* Families.  Only the entry thread is of its kind, and a thread stands on  *)
(* the list of zombies of its own parent only.                              *)

Family(s) ==
    \A c \in Co : /\ s[c].kind = "entry" <=> c = Entry
                  /\ \A z \in s[c].zombies : s[z].parent = c

Kin(r, r2) ==
    r2.kind = r.kind /\ r2.parent = r.parent /\ r2.zombies \subseteq r.zombies

\* What may happen to a context without making an orphan
Tame(r, r2) ==
    /\ r2.parent = r.parent /\ r.zombies \subseteq r2.zombies
    /\ r2.status = "zombie" => r.status = "zombie" /\ (r2.waited => r.waited)
    /\ r.status \notin {"dead", "zombie"} => r2.status \notin {"dead", "zombie"}

Same(r, r2) == Kin(r, r2) /\ Tame(r, r2)

LEMMA SameTransitive ==
    ASSUME NEW r1, NEW r2, NEW r3
    PROVE  /\ Kin(r1, r2) /\ Kin(r2, r3) => Kin(r1, r3)
           /\ Tame(r1, r2) /\ Tame(r2, r3) => Tame(r1, r3)
BY DEF Kin, Tame

LEMMA KinDel ==
    ASSUME NEW s \in [Co -> CoCtx], NEW D
    PROVE  \A c \in Co : /\ Kin(s[c], DelThreads(s, D)[c])
                         /\ c \notin D \/ ~Alive(s, c) => Tame(s[c], DelThreads(s, D)[c])
<1> TAKE c \in Co
<1> DEFINE r == [s[c] EXCEPT !.ref = FALSE, !.status = "dead"]
<1>1. /\ Kin(s[c], r) /\ Same(s[c], s[c])
      /\ ~Alive(s, c) => Tame(s[c], r)
  BY DEF CoCtx, Same, Kin, Tame, Alive
<1>2. DelThreads(s, D)[c] = s[c] \/ (DelThreads(s, D)[c] = r /\ c \in D)
  BY DEF DelThreads
<1> HIDE DEF r
<1> QED
  BY <1>1, <1>2 DEF Same

LEMMA SameCancel ==
    ASSUME NEW s \in [Co -> CoCtx], NEW D
    PROVE  \A c \in Co : /\ Same(s[c], CancelOps(s, D)[c])
                         /\ CancelOps(s, D)[c].status = s[c].status
                         /\ CancelOps(s, D)[c].ref = s[c].ref
<1> TAKE c \in Co
<1> DEFINE r == [s[c] EXCEPT !.pending = @ \ {"op"}]
<1>1. Same(s[c], r) /\ Same(s[c], s[c]) /\ r.status = s[c].status /\ r.ref = s[c].ref
  BY DEF CoCtx, Same, Kin, Tame
<1>2. CancelOps(s, D)[c] \in {r, s[c]}
  BY DEF CancelOps
<1> HIDE DEF r
<1> QED
  BY <1>1, <1>2

\* At the end of the request there are no zombies
LEMMA KinFinalize ==
    ASSUME NEW STATE s, NEW STATE n, s \in [Co -> CoCtx], FinalizeThreads(s, n),
           \A c \in Co : s[c].status = "zombie" => s[c].ref
    PROVE  \A c \in Co : Kin(s[c], co'[c]) /\ co'[c].status # "zombie"
<1> DEFINE s2 == CancelOps(s, Co)
<1>1. s2 \in [Co -> CoCtx]
  BY CancelOpsShape DEF SameShape
<1>2. \A c \in Co : /\ Kin(s[c], s2[c])
                    /\ s2[c].status = s[c].status /\ s2[c].ref = s[c].ref
  BY SameCancel DEF Same
<1>3. co' = DelThreads(s2, Co)
  BY DEF FinalizeThreads
<1> HIDE DEF s2
<1>4. \A c \in Co : Kin(s2[c], co'[c])
  BY <1>1, <1>3, KinDel
<1>5. ASSUME NEW c \in Co PROVE co'[c].status # "zombie"
  <2>1. CASE s2[c].ref
    <3>1. co'[c] = [s2[c] EXCEPT !.ref = FALSE, !.status = "dead"] /\ s2[c] \in CoCtx
      BY <1>1, <1>3, <2>1 DEF DelThreads
    <3> QED
      BY <3>1 DEF CoCtx
  <2>2. CASE ~s2[c].ref
    BY <1>2, <1>3, <2>2 DEF DelThreads
  <2> QED
    BY <2>1, <2>2
<1> QED
  BY <1>2, <1>4, <1>5, SameTransitive

\* What every step keeps
Related == /\ Family(co')
           /\ \/ Orphans' \subseteq Orphans
              \/ Error \/ Propagate
              \/ \E t \in Co : Kill(t)

LEMMA KinStep ==
    ASSUME TypeInv, Family(co), \A c \in Co : Kin(co[c], co'[c])
    PROVE  Family(co')
<1>1. \A c \in Co : co[c].zombies \subseteq Co
  BY DEF TypeInv, TypeOK, CoCtx
<1> QED
  BY <1>1 DEF Family, Kin

LEMMA TameStep ==
    ASSUME \A z \in Co : co[z].status = "zombie" => co[z].parent \in Co,
           \A c \in Co : Tame(co[c], co'[c])
    PROVE  Orphans' \subseteq Orphans
<1> SUFFICES ASSUME NEW z \in Co, co'[z].status = "zombie",
                    Alive(co, co[z].parent), z \in co[co[z].parent].zombies,
                    ~co[z].waited
             PROVE  /\ Alive(co', co'[z].parent)
                    /\ z \in co'[co'[z].parent].zombies /\ ~co'[z].waited
  BY DEF Orphans, Tame
<1>1. co[z].parent \in Co
  BY DEF Tame
<1> QED
  BY <1>1 DEF Tame, Alive

LEMMA SameStep ==
    ASSUME TypeInv, LiveInv(co), Family(co), \A c \in Co : Same(co[c], co'[c])
    PROVE  Related
<1>1. \A z \in Co : co[z].status = "zombie" => co[z].parent \in Co
  BY DEF LiveInv, Life, TypeInv, CoInv, Started
<1> QED
  BY <1>1, KinStep, TameStep DEF Same, Related

LEMMA FinalizeStep ==
    ASSUME TypeInv, Family(co), NEW STATE s, NEW STATE n, s \in [Co -> CoCtx],
           FinalizeThreads(s, n), \A c \in Co : Kin(co[c], s[c]),
           \A c \in Co : s[c].status = "zombie" => s[c].ref
    PROVE  Related
<1>1. \A c \in Co : Kin(s[c], co'[c]) /\ co'[c].status # "zombie"
  BY KinFinalize
<1>2. \A c \in Co : Kin(co[c], co'[c])
  BY <1>1, SameTransitive
<1>3. Orphans' = {}
  BY <1>1 DEF Orphans
<1> QED
  BY <1>2, <1>3, KinStep DEF Related

LEMMA RelatedNewThread ==
    ASSUME TypeInv, CountInv, Family(co), NEW t \in Co, Spawn(t) \/ OnAbort(t)
    PROVE  Related
<1> DEFINE fresh == [FreshCo EXCEPT !.kind = "thread", !.ref = TRUE,
                                    !.parent = cur]
           child == [fresh EXCEPT !.status = "running", !.at = "run"]
           q == [co[cur] EXCEPT !.at = "spawn"]
<1>1. /\ co \in [Co -> CoCtx] /\ cur \in Co /\ co[cur] \in CoCtx /\ LiveInv(co)
      /\ co[cur].kind \in {"entry", "thread"}
  BY RunsCount DEF Spawn, OnAbort, Calls
<1>2. co[t].kind = "none" /\ t # cur /\ t # Entry /\ ~Started(co, t)
  BY <1>1 DEF Spawn, OnAbort, Unborn, Family, Started
<1>3. /\ fresh.kind = "thread" /\ fresh.zombies = {} /\ fresh.status = "suspended"
      /\ child.kind = "thread" /\ child.zombies = {} /\ child.status = "running"
  BY DEF FreshCo
<1>4. Same(co[cur], q)
  BY <1>1 DEF CoCtx, Same, Kin, Tame
<1>5. /\ co'[t] \in {fresh, child}
      /\ \A c \in Co : c # t => co'[c] \in {co[c], q} /\ (co'[c] = q => c = cur \/ q = co[c])
  <2>1. CASE OnAbort(t)
    <3>1. co' = [co EXCEPT ![t] = fresh]
      BY <2>1 DEF OnAbort
    <3> HIDE DEF fresh, child, q
    <3> QED
      BY <1>1, <3>1
  <2>2. CASE Spawn(t)
    <3>1. co' = [co EXCEPT ![cur] = q, ![t] = child]
      BY <1>1, <2>2 DEF Spawn, FreshCo
    <3> HIDE DEF fresh, child, q
    <3> QED
      BY <1>1, <1>2, <3>1
  <2> QED
    BY <2>1, <2>2
<1>6. ASSUME NEW c \in Co, c # t PROVE Same(co[c], co'[c])
  <2>1. Same(co[c], co[c])
    BY DEF Same, Kin, Tame
  <2> HIDE DEF q
  <2> QED
    BY <1>4, <1>5, <1>6, <2>1
<1>7. /\ co'[t].kind = "thread" /\ co'[t].zombies = {} /\ co'[t].status # "zombie"
  BY <1>3, <1>5
<1> HIDE DEF fresh, child, q
<1>8. Family(co')
  <2>1. \A c \in Co : co'[c].kind = "entry" <=> c = Entry
    BY <1>2, <1>6, <1>7 DEF Family, Same, Kin
  <2>2. ASSUME NEW c \in Co, NEW z \in co'[c].zombies
        PROVE  co'[z].parent = c
    <3>1. c # t /\ z \in co[c].zombies /\ z \in Co
      BY <1>1, <1>6, <1>7, <2>2 DEF Same, Kin, CoCtx
    <3>2. z # t
      BY <1>1, <1>2, <3>1 DEF LiveInv, Gone
    <3> QED
      BY <1>6, <3>1, <3>2 DEF Family, Same, Kin
  <2> QED
    BY <2>1, <2>2 DEF Family
<1>9. Orphans' \subseteq Orphans
  <2> SUFFICES ASSUME NEW z \in Co, co'[z].status = "zombie",
                      Alive(co, co[z].parent), z \in co[co[z].parent].zombies,
                      ~co[z].waited
               PROVE  /\ z # t /\ Alive(co', co'[z].parent)
                      /\ z \in co'[co'[z].parent].zombies /\ ~co'[z].waited
    BY <1>6, <1>7 DEF Orphans, Same, Tame
  <2>1. z # t /\ Same(co[z], co'[z])
    BY <1>6, <1>7
  <2>2. co[z].parent \in Co /\ co[z].parent # t
    BY <1>1, <1>2, <2>1 DEF Same, Tame, LiveInv, Life, TypeInv, CoInv, Started
  <2> QED
    BY <1>6, <2>1, <2>2 DEF Same, Tame, Alive
<1> QED
  BY <1>8, <1>9 DEF Related

LEMMA RelatedKill ==
    ASSUME TypeInv, CountInv, Family(co), NEW t \in Co, Kill(t) \/ KillZombie(t)
    PROVE  Related
<1>1. co \in [Co -> CoCtx] /\ LiveInv(co)
  BY RunsCount DEF Kill, KillZombie, Calls
<1>2. CASE Kill(t)
  <2> DEFINE D == {t} \cup Descendants(t)
             s == CancelOps(co, D)
  <2>1. s \in [Co -> CoCtx]
    BY <1>1, CancelOpsShape DEF SameShape
  <2>2. \A c \in Co : Kin(co[c], s[c])
    BY <1>1, SameCancel DEF Same
  <2>3. co' = DelThreads(s, {t})
    BY <1>2 DEF Kill
  <2> HIDE DEF s
  <2>4. \A c \in Co : Kin(s[c], co'[c])
    BY <2>1, <2>3, KinDel
  <2>5. \A c \in Co : Kin(co[c], co'[c])
    BY <2>2, <2>4, SameTransitive
  <2> QED
    BY <1>2, <2>5, KinStep DEF Related
<1>3. CASE KillZombie(t)
  <2>1. ~Alive(co, t) /\ co' = DelThreads(co, {t})
    BY <1>3 DEF KillZombie, Alive
  <2>2. \A c \in Co : Same(co[c], co'[c])
    BY <1>1, <2>1, KinDel DEF Same
  <2> QED
    BY <1>1, <2>2, SameStep
<1> QED
  BY <1>2, <1>3

LEMMA RelatedWait ==
    ASSUME TypeInv, CountInv, Family(co), NEW args \in WaitArgs, Wait(args)
    PROVE  Related
<1> DEFINE stops == {i \in DOMAIN args : StopsAt(args, i)}
           stop == IF stops = {} THEN Len(args) + 1
                   ELSE CHOOSE i \in stops : \A j \in stops : i <= j
           flag(c) == [co[c] EXCEPT !.waited = TRUE]
           flagged == [c \in Co |->
                          IF c \in Seen(args, stop) /\ co[c].status # "dead"
                          THEN flag(c) ELSE co[c]]
           t == args[stop]
           reaps == /\ stop <= Len(args) /\ IsMyThread(t)
                    /\ co[t].status = "zombie"
           r == [flagged[cur] EXCEPT !.at = "wait"]
<1> HIDE DEF stop
<1>1. co \in [Co -> CoCtx] /\ cur \in Co /\ LiveInv(co)
  BY RunsCount DEF Wait, Calls
<1>2. /\ DOMAIN args = 1 .. Len(args) /\ Len(args) \in Nat
      /\ stop \in Nat \ {0} /\ stop <= Len(args) + 1
      /\ \A i \in 1 .. stop - 1 : i \in DOMAIN args /\ ~StopsAt(args, i)
  <2>1. DOMAIN args = 1 .. Len(args) /\ Len(args) \in Nat
    BY DEF WaitArgs
  <2>2. CASE stops = {}
    BY <2>1, <2>2 DEF stop
  <2>3. CASE stops # {}
    <3>1. \E i \in stops : \A j \in stops : i <= j
      <4>1. stops \subseteq Nat
        BY <2>1
      <4> HIDE DEF stops
      <4> QED
        BY <2>3, <4>1, HasSmallest
    <3>2. stop \in stops /\ \A j \in stops : stop <= j
      BY <2>3, <3>1 DEF stop
    <3>3. stop \in 1 .. Len(args)
      BY <2>1, <3>2
    <3>4. \A i \in 1 .. stop - 1 : i \in DOMAIN args /\ ~(stop <= i)
      BY <2>1, <3>3
    <3> QED
      BY <2>1, <3>2, <3>3, <3>4
  <2> QED
    BY <2>2, <2>3
<1>3. \A c \in Seen(args, stop) : co[c].status # "zombie"
  BY <1>2 DEF Seen, StopsAt
<1>4. ASSUME NEW c \in Co PROVE Same(co[c], flagged[c])
  <2>1. c \in Seen(args, stop) => Same(co[c], flag(c))
    BY <1>1, <1>3 DEF CoCtx, Same, Kin, Tame
  <2>2. Same(co[c], co[c])
    BY DEF Same, Kin, Tame
  <2> HIDE DEF flag
  <2> QED
    BY <2>1, <2>2
<1>5. flagged \in [Co -> CoCtx] /\ \A c \in Co : flagged[c].status = co[c].status
  <2>1. ASSUME NEW c \in Co
        PROVE  /\ flag(c) \in CoCtx /\ co[c] \in CoCtx
               /\ flag(c).status = co[c].status
    <3>1. co[c] \in CoCtx
      BY <1>1
    <3> QED
      BY <3>1 DEF CoCtx
  <2> HIDE DEF flag
  <2> QED
    BY <2>1
<1>6. \/ co' = Put(flagged, cur, r)
      \/ reaps /\ co' = DelThreads(flagged, {t})
      \/ co' = flagged
  BY DEF Wait, stop
<1>7. reaps => t \in Co
  <2>1. SUFFICES ASSUME reaps PROVE t \in Co
    OBVIOUS
  <2>2. stop \in DOMAIN args
    BY <1>2, <2>1
  <2> QED
    BY <2>2 DEF WaitArgs
<1> HIDE DEF flagged
<1>8. ASSUME NEW c \in Co PROVE Same(flagged[c], co'[c])
  <2>1. Same(flagged[c], flagged[c])
    BY DEF Same, Kin, Tame
  <2>2. CASE co' = Put(flagged, cur, r)
    <3>1. Same(flagged[cur], r)
      BY <1>1, <1>5 DEF CoCtx, Same, Kin, Tame
    <3> HIDE DEF r
    <3> QED
      BY <2>1, <2>2, <3>1 DEF Put
  <2>3. CASE reaps /\ co' = DelThreads(flagged, {t})
    <3>1. ~Alive(flagged, t)
      BY <1>5, <1>7, <2>3 DEF Alive
    <3> HIDE DEF t
    <3> QED
      BY <1>5, <2>3, <3>1, KinDel DEF Same
  <2> QED
    BY <1>6, <2>1, <2>2, <2>3
<1>9. \A c \in Co : Same(co[c], co'[c])
  BY <1>4, <1>8, SameTransitive DEF Same
<1> QED
  BY <1>1, <1>9, SameStep

LEMMA RelatedSuspends ==
    ASSUME TypeInv, CountInv, Family(co), YieldThread \/ Sleep \/ Capture
    PROVE  Related
<1>1. /\ co \in [Co -> CoCtx] /\ cur \in Co /\ co[cur] \in CoCtx /\ LiveInv(co)
      /\ co[cur].status = "running"
  BY RunsCount DEF YieldThread, Sleep, Capture, Calls
<1>2. PICK r \in {[co[cur] EXCEPT !.status = "running", !.at = "yield"],
                  [co[cur] EXCEPT !.pending = @ \cup {"op"}, !.at = "io"],
                  [co[cur] EXCEPT !.pending = @ \cup {"subreq"}, !.at = "io"]} :
        co' = [co EXCEPT ![cur] = r]
  BY <1>1 DEF YieldThread, Sleep, Capture
<1>3. Same(co[cur], r)
  BY <1>1, <1>2 DEF CoCtx, Same, Kin, Tame
<1>4. \A c \in Co : Same(co[c], co'[c])
  BY <1>1, <1>2, <1>3 DEF Same, Kin, Tame
<1> QED
  BY <1>1, <1>4, SameStep

\* Control goes to c
LEMMA SameContinue ==
    ASSUME NEW s \in [Co -> CoCtx], NEW c \in Co
    PROVE  /\ \A x \in Co : Same(s[x], Continue(s, c)[x])
           /\ \A x \in Co : Continue(s, c)[x].status = s[x].status
<1> DEFINE r == [s[c] EXCEPT !.at = IF @ \in {"end", "fail"} THEN "fail" ELSE "run"]
<1>1. Same(s[c], r) /\ r.status = s[c].status
  BY DEF CoCtx, Same, Kin, Tame
<1>2. Continue(s, c) = Put(s, c, r)
  BY DEF Continue
<1> HIDE DEF r
<1> QED
  BY <1>1, <1>2 DEF Put, Same, Kin, Tame

LEMMA RelatedWakes ==
    ASSUME TypeInv, CountInv, Family(co),
           \/ RunPosted \/ PostedDrained
           \/ \E c \in Co : OpDone(c) \/ SubrequestDone(c)
           \/ ClientAbort
    PROVE  Related
<1>1. co \in [Co -> CoCtx] /\ LiveInv(co) /\ posted \in Seq(Co)
  BY DEF TypeInv, TypeOK, CountInv, RunPosted, PostedDrained, OpDone, SubrequestDone,
         ClientAbort
<1>2. ASSUME NEW c \in Co, NEW r \in CoCtx, Same(co[c], r),
             co' = Continue([co EXCEPT ![c] = r], c)
      PROVE  Related
  <2> DEFINE s == [co EXCEPT ![c] = r]
  <2>1. s \in [Co -> CoCtx] /\ \A x \in Co : Same(co[x], s[x])
    BY <1>1, <1>2 DEF Same, Kin, Tame
  <2>2. co' = Continue(s, c)
    BY <1>2
  <2> HIDE DEF s
  <2>3. \A x \in Co : Same(s[x], co'[x])
    BY <2>1, <2>2, SameContinue
  <2>4. \A x \in Co : Same(co[x], co'[x])
    BY <2>1, <2>3, SameTransitive DEF Same
  <2> QED
    BY <1>1, <2>4, SameStep
<1>3. CASE co' = co
  BY <1>1, <1>3, SameStep DEF Same, Kin, Tame
<1>4. CASE posted # <<>> /\ co' = Continue(co, Head(posted))
  <2>1. Head(posted) \in Co
    BY <1>1, <1>4
  <2>2. \A x \in Co : Same(co[x], co'[x])
    BY <1>1, <1>4, <2>1, SameContinue
  <2> QED
    BY <1>1, <2>2, SameStep
<1>5. ASSUME NEW c \in Co, OpDone(c) \/ SubrequestDone(c)
      PROVE  Related
  <2>1. PICK r \in {[co[c] EXCEPT !.pending = @ \ {"op"}],
                    [co[c] EXCEPT !.pending = @ \ {"subreq"}]} :
          co' = Continue([co EXCEPT ![c] = r], c)
    BY <1>1, <1>5 DEF OpDone, SubrequestDone
  <2>2. r \in CoCtx /\ Same(co[c], r)
    BY <1>1, <2>1 DEF CoCtx, Same, Kin, Tame
  <2> QED
    BY <1>2, <2>1, <2>2
<1>6. CASE ClientAbort
  <2>1. CASE FinalizeThreads(co, uthreads)
    <3>1. /\ \A c \in Co : Kin(co[c], co[c])
          /\ \A c \in Co : co[c].status = "zombie" => co[c].ref
      BY <1>1 DEF Kin, LiveInv, Life
    <3> QED
      BY <1>1, <2>1, <3>1, FinalizeStep
  <2>2. CASE /\ onAbort # NoCo /\ co[onAbort].status = "suspended"
             /\ co' = Continue([co EXCEPT ![onAbort].status = "running"], onAbort)
    <3> DEFINE r == [co[onAbort] EXCEPT !.status = "running"]
    <3>1. onAbort \in Co /\ co[onAbort] \in CoCtx
      BY <1>1, <2>2 DEF TypeInv, TypeOK
    <3>2. r \in CoCtx /\ Same(co[onAbort], r)
      BY <2>2, <3>1 DEF CoCtx, Statuses, Same, Kin, Tame
    <3>3. co' = Continue([co EXCEPT ![onAbort] = r], onAbort)
      BY <1>1, <2>2, <3>1
    <3> HIDE DEF r
    <3> QED
      BY <1>2, <3>1, <3>2, <3>3
  <2> QED
    BY <1>6, <2>1, <2>2 DEF ClientAbort
<1> QED
  BY <1>3, <1>4, <1>5, <1>6 DEF RunPosted, PostedDrained

LEMMA RelatedExit ==
    ASSUME TypeInv, CountInv, Family(co), NEW forced, Exit(forced)
    PROVE  Related
<1> DEFINE s1 == WithStatus(co, cur, "dead")
           s == CancelOps(s1, {cur})
<1>1. co \in [Co -> CoCtx] /\ cur \in Co /\ LiveInv(co)
  BY RunsCount DEF Exit, Calls
<1>2. s1 \in [Co -> CoCtx]
  BY <1>1, WithStatusShape DEF SameShape, Statuses
<1>3. \A c \in Co : Kin(co[c], s1[c]) /\ (s1[c].status = "zombie" => s1[c].ref)
  <2> TAKE c \in Co
  <2> DEFINE r == [co[c] EXCEPT !.status = "dead"]
  <2>1. Kin(co[c], r) /\ Kin(co[c], co[c]) /\ r.status = "dead"
    BY <1>1 DEF CoCtx, Kin
  <2>2. s1[c] \in {r, co[c]}
    BY DEF WithStatus, Put
  <2> HIDE DEF r, s1
  <2> QED
    BY <1>1, <2>1, <2>2 DEF LiveInv, Life
<1>4. FinalizeThreads(s, uthreads)
  BY DEF Exit
<1> HIDE DEF s1
<1>5. /\ s \in [Co -> CoCtx]
      /\ \A c \in Co : Kin(s1[c], s[c]) /\ s[c].status = s1[c].status /\ s[c].ref = s1[c].ref
  BY <1>2, CancelOpsShape, SameCancel DEF SameShape, Same
<1> HIDE DEF s
<1>6. \A c \in Co : Kin(co[c], s[c]) /\ (s[c].status = "zombie" => s[c].ref)
  BY <1>3, <1>5, SameTransitive
<1> QED
  BY <1>4, <1>5, <1>6, FinalizeStep

\* What the end of thread c does to the lists of zombies
LEMMA ThreadEndsKin ==
    ASSUME NEW STATE s, NEW STATE n, NEW STATE c, NEW STATE p,
           s \in [Co -> CoCtx], c \in Co, p \in Co, p = s[c].parent, p # c,
           s[c].kind = "thread", s[c].status = "dead" \/ s[c].ref,
           \A x \in Co : s[x].status = "zombie" => s[x].ref,
           ThreadEnds(s, n, c)
    PROVE  /\ \A x \in Co : x # p => Kin(s[x], co'[x])
           /\ co'[p].kind = s[p].kind /\ co'[p].parent = s[p].parent
           /\ co'[p].zombies \subseteq s[p].zombies \cup {c}
           /\ \/ \A x \in Co : co'[x].status # "zombie"
              \/ /\ \A x \in Co : x # c => Tame(s[x], co'[x])
                 /\ co'[c].status = "zombie" =>
                        Alive(s, p) /\ c \in co'[p].zombies /\ ~co'[c].waited
           /\ mode' = "done" => LastThread(s, IF s[c].ref THEN n - 1 ELSE n)
<1>1. s[c] \in CoCtx /\ s[p] \in CoCtx
  OBVIOUS
<1>2. ASSUME \A x \in Co : Kin(s[x], co'[x])
      PROVE  /\ \A x \in Co : x # p => Kin(s[x], co'[x])
             /\ co'[p].kind = s[p].kind /\ co'[p].parent = s[p].parent
             /\ co'[p].zombies \subseteq s[p].zombies \cup {c}
  BY <1>2 DEF Kin
<1>3. CASE Alive(s, p) /\ s[c].waited
           /\ UserCoDone(Put(s, c, [s[c] EXCEPT !.waited = FALSE]), n, c)
  <2> DEFINE r == [s[c] EXCEPT !.waited = FALSE]
             w == Put(s, c, r)
             e == IF w[c].kind = "thread" /\ w[c].ref THEN DelThreads(w, {c}) ELSE w
             q == [e[p] EXCEPT !.status = "running"]
             f == Put(e, p, q)
  <2>1. /\ r \in CoCtx /\ Kin(s[c], r) /\ r.parent = p
        /\ r.kind = "thread" /\ (r.status = "dead" \/ r.ref)
    BY <1>1 DEF CoCtx, Kin
  <2>2. co' = Continue(f, p) /\ mode' = "lua"
    <3>1. w[c].parent = p
      BY <2>1 DEF Put
    <3> QED
      BY <1>3, <3>1 DEF UserCoDone, WithStatus
  <2> HIDE DEF r
  <2>3. /\ w \in [Co -> CoCtx] /\ w[c] = r /\ \A x \in Co : x # c => w[x] = s[x]
    BY <2>1 DEF Put
  <2> HIDE DEF w
  <2>4. /\ e \in [Co -> CoCtx] /\ \A x \in Co : Kin(w[x], e[x])
        /\ \A x \in Co : x # c => e[x] = w[x]
        /\ e[c].status = "dead"
    <3>1. /\ DelThreads(w, {c}) \in [Co -> CoCtx]
          /\ \A x \in Co : Kin(w[x], DelThreads(w, {c})[x])
      BY <2>3, DelThreadsShape, KinDel DEF SameShape
    <3>2. \A x \in Co : x # c => DelThreads(w, {c})[x] = w[x]
      BY DEF DelThreads
    <3>3. \A x \in Co : Kin(w[x], w[x])
      BY DEF Kin
    <3>4. DelThreads(w, {c})[c].status = "dead"
      <4>1. /\ w[c] \in CoCtx /\ (w[c].status = "dead" \/ w[c].ref)
            /\ DelThreads(w, {c})[c] = IF w[c].ref
                                       THEN [w[c] EXCEPT !.ref = FALSE, !.status = "dead"]
                                       ELSE w[c]
        BY <2>1, <2>3 DEF DelThreads
      <4> QED
        BY <4>1 DEF CoCtx
    <3> QED
      BY <2>1, <2>3, <3>1, <3>2, <3>3, <3>4
  <2> HIDE DEF e
  <2>5. q \in CoCtx /\ Kin(e[p], q) /\ Tame(e[p], q)
    <3>1. e[p] \in CoCtx
      BY <2>4
    <3> QED
      BY <3>1 DEF CoCtx, Statuses, Kin, Tame
  <2> HIDE DEF q
  <2>6. f \in [Co -> CoCtx] /\ f[p] = q /\ \A x \in Co : x # p => f[x] = e[x]
    BY <2>4, <2>5 DEF Put
  <2> HIDE DEF f
  <2>7. \A x \in Co : Same(f[x], co'[x]) /\ co'[x].status = f[x].status
    BY <2>2, <2>6, SameContinue
  <2>8. ASSUME NEW x \in Co
        PROVE  /\ Kin(s[x], co'[x])
               /\ x # c => Tame(s[x], co'[x])
    <3>1. Kin(s[x], w[x]) /\ (x # c => w[x] = s[x])
      BY <2>1, <2>3 DEF Kin
    <3>2. Kin(w[x], e[x]) /\ (x # c => e[x] = w[x])
      BY <2>4
    <3>3. Kin(e[x], f[x]) /\ Tame(e[x], f[x])
      BY <2>5, <2>6 DEF Kin, Tame
    <3>4. Kin(f[x], co'[x]) /\ Tame(f[x], co'[x])
      BY <2>7 DEF Same
    <3>5. Kin(e[x], co'[x]) /\ Tame(e[x], co'[x])
      BY <3>3, <3>4, SameTransitive
    <3>6. Kin(s[x], e[x])
      BY <3>1, <3>2, SameTransitive
    <3> QED
      BY <3>1, <3>2, <3>5, <3>6, SameTransitive
  <2>9. co'[c].status = "dead"
    BY <2>4, <2>6, <2>7
  <2> QED
    BY <1>2, <2>2, <2>8, <2>9
<1>4. CASE Alive(s, p) /\ ~s[c].waited /\ Again
           /\ co' = WithStatus(Put(s, p, [s[p] EXCEPT !.zombies = @ \cup {c}]), c, "zombie")
  <2> DEFINE r == [s[p] EXCEPT !.zombies = @ \cup {c}]
             q == [s[c] EXCEPT !.status = "zombie"]
  <2>1. /\ r.kind = s[p].kind /\ r.parent = s[p].parent
        /\ r.zombies = s[p].zombies \cup {c} /\ Tame(s[p], r)
    BY <1>1 DEF CoCtx, Tame
  <2>2. Kin(s[c], q) /\ ~q.waited
    BY <1>1, <1>4 DEF CoCtx, Kin
  <2>3. co' = [x \in Co |-> IF x = c THEN q ELSE IF x = p THEN r ELSE s[x]]
    BY <1>1, <1>4 DEF WithStatus, Put
  <2>4. mode' # "done"
    BY <1>4 DEF Again
  <2> HIDE DEF r, q
  <2>5. /\ co'[c] = q /\ co'[p] = r
        /\ \A x \in Co : x \notin {c, p} => Kin(s[x], co'[x]) /\ Tame(s[x], co'[x])
    BY <2>3 DEF Kin, Tame
  <2> QED
    BY <1>4, <2>1, <2>2, <2>4, <2>5
<1>5. CASE FinalizeThreads(DelThreads(s, {c}), IF s[c].ref THEN n - 1 ELSE n)
           /\ LastThread(s, IF s[c].ref THEN n - 1 ELSE n)
  <2> DEFINE d == DelThreads(s, {c})
             m == IF s[c].ref THEN n - 1 ELSE n
  <2>1. /\ d \in [Co -> CoCtx] /\ FinalizeThreads(d, m)
        /\ \A x \in Co : Kin(s[x], d[x])
    BY <1>5, DelThreadsShape, KinDel DEF SameShape
  <2>2. \A x \in Co : d[x].status = "zombie" => d[x].ref
    <3>1. \A x \in Co : x # c => d[x] = s[x]
      BY DEF DelThreads
    <3>2. d[c].status = "dead"
      <4>1. d[c] = IF s[c].ref THEN [s[c] EXCEPT !.ref = FALSE, !.status = "dead"]
                               ELSE s[c]
        BY DEF DelThreads
      <4> QED
        BY <1>1, <4>1 DEF CoCtx
    <3> QED
      BY <3>1, <3>2
  <2> HIDE DEF d
  <2>3. \A x \in Co : Kin(d[x], co'[x]) /\ co'[x].status # "zombie"
    BY <2>1, <2>2, KinFinalize
  <2>4. \A x \in Co : Kin(s[x], co'[x])
    BY <2>1, <2>3, SameTransitive
  <2> QED
    BY <1>2, <1>5, <2>3, <2>4
<1>6. CASE co' = DelThreads(s, {c}) /\ Again
  <2>1. \A x \in Co : Kin(s[x], co'[x]) /\ (x # c => Tame(s[x], co'[x]))
    BY <1>6, KinDel
  <2>2. co'[c].status = "dead"
    <3>1. co'[c] = IF s[c].ref THEN [s[c] EXCEPT !.ref = FALSE, !.status = "dead"]
                               ELSE s[c]
      BY <1>6 DEF DelThreads
    <3> QED
      BY <1>1, <3>1 DEF CoCtx
  <2>3. mode' # "done"
    BY <1>6 DEF Again
  <2> QED
    BY <1>2, <2>1, <2>2, <2>3
<1> QED
  BY <1>3, <1>4, <1>5, <1>6 DEF ThreadEnds, IsWaitedFor

\* A list of zombies that grew by the thread that ended
LEMMA KinGrows ==
    ASSUME TypeInv, Family(co), NEW p \in Co, cur \in Co, co[cur].parent = p,
           \A x \in Co : x # p => Kin(co[x], co'[x]),
           co'[p].kind = co[p].kind, co'[p].parent = co[p].parent,
           co'[p].zombies \subseteq co[p].zombies \cup {cur}
    PROVE  Family(co')
<1>1. \A c \in Co : /\ co'[c].kind = co[c].kind /\ co'[c].parent = co[c].parent
                    /\ co[c].zombies \subseteq Co
                    /\ c # p => co'[c].zombies \subseteq co[c].zombies
  BY DEF TypeInv, TypeOK, CoCtx, Kin
<1>2. ASSUME NEW c \in Co, NEW z \in co'[c].zombies
      PROVE  co'[z].parent = c
  <2>1. z \in Co /\ co[z].parent = c
    BY <1>1 DEF Family
  <2> QED
    BY <1>1, <2>1
<1> QED
  BY <1>1, <1>2 DEF Family

\* What the accounts need of the invariant when the coroutine that runs ends
Holder ==
    /\ cur \in Co /\ co[cur].parent # cur /\ co[cur].status = "running"
    /\ co[cur].kind = "thread" => co[cur].ref
    /\ UthreadsExact
    /\ \A c \in Co : co[c].status = "zombie" => co[c].ref /\ co[c].kind = "thread"
    /\ \A z \in co[cur].zombies : Gone(co[z])

LEMMA CountHolder ==
    ASSUME TypeInv, CountInv, mode = "lua"
    PROVE  Holder
BY RunsCount DEF Holder, CountInv, LiveInv, Life

\* The coroutine that runs has ended and, if it returned, has reaped the
\* threads of R
Reaps(s, R) ==
    /\ s \in [Co -> CoCtx] /\ R \subseteq Reaped(cur)
    /\ \A x \in Co : /\ Kin(co[x], s[x])
                     /\ s[x].status = "zombie" => s[x].ref
                     /\ x # cur /\ x \notin R => s[x] = co[x]
                     /\ x \in R => s[x].status = "dead"
    /\ s[cur].status = "dead" /\ s[cur].ref = co[cur].ref

LEMMA ReturnReaps ==
    ASSUME TypeInv, CountInv, mode = "lua"
    PROVE  LET s1 == DelThreads(Ended(cur), Reaped(cur))
           IN  Reaps(Put(s1, cur, [s1[cur] EXCEPT !.zombies = {}]), Reaped(cur))
<1> DEFINE s0 == Ended(cur)
           R == Reaped(cur)
           s1 == DelThreads(s0, R)
           r == [s1[cur] EXCEPT !.zombies = {}]
           s == Put(s1, cur, r)
<1>1. /\ co \in [Co -> CoCtx] /\ cur \in Co /\ LiveInv(co) /\ co[cur].status = "running"
      /\ co[cur] \in CoCtx /\ co[cur].ref
  BY RunsCount
<1>2. /\ s0 \in [Co -> CoCtx]
      /\ s0[cur].kind = co[cur].kind /\ s0[cur].ref
      /\ s0[cur].status = "dead" /\ s0[cur].parent = co[cur].parent
      /\ s0[cur].zombies = co[cur].zombies
      /\ \A c \in Co : c # cur => s0[c] = co[c]
  BY EndedLive
<1>3. cur \notin R /\ \A x \in R : x \in Co /\ co[x].ref
  BY <1>1 DEF Reaped, LiveInv, Gone, CoCtx
<1>r. R = Reaped(cur)
  OBVIOUS
<1> HIDE DEF s0, R
<1>4. /\ s1 \in [Co -> CoCtx] /\ \A x \in Co : Kin(s0[x], s1[x])
  BY <1>2, DelThreadsShape, KinDel DEF SameShape
<1>5. /\ s1[cur] = s0[cur] /\ \A x \in Co : x \notin R => s1[x] = s0[x]
  BY <1>1, <1>3 DEF DelThreads
<1>6. ASSUME NEW x \in R PROVE s1[x].status = "dead"
  <2>1. x \in Co /\ x # cur /\ s0[x].ref /\ s0[x] \in CoCtx
    BY <1>2, <1>3
  <2>2. s1[x] = [s0[x] EXCEPT !.ref = FALSE, !.status = "dead"]
    BY <2>1 DEF DelThreads
  <2> QED
    BY <2>1, <2>2 DEF CoCtx
<1> HIDE DEF s1
<1>7. /\ r \in CoCtx /\ r.kind = co[cur].kind /\ r.ref /\ r.status = "dead"
      /\ r.parent = co[cur].parent /\ r.zombies = {}
  <2>1. s1[cur] \in CoCtx
    BY <1>1, <1>4
  <2> QED
    BY <1>2, <1>5, <2>1 DEF CoCtx
<1> HIDE DEF r
<1>8. s \in [Co -> CoCtx] /\ s[cur] = r /\ \A x \in Co : x # cur => s[x] = s1[x]
  BY <1>1, <1>4, <1>7 DEF Put
<1> HIDE DEF s
<1>9. ASSUME NEW x \in Co
      PROVE  /\ Kin(co[x], s[x])
             /\ s[x].status = "zombie" => s[x].ref
             /\ x # cur /\ x \notin R => s[x] = co[x]
             /\ x \in R => s[x].status = "dead"
  <2>1. CASE x = cur
    BY <1>3, <1>7, <1>8, <2>1 DEF Kin
  <2>2. CASE x # cur /\ x \in R
    BY <1>2, <1>4, <1>6, <1>8, <2>2
  <2>3. CASE x # cur /\ x \notin R
    BY <1>1, <1>2, <1>5, <1>8, <2>3 DEF Kin, LiveInv, Life
  <2> QED
    BY <2>1, <2>2, <2>3
<1>10. Reaps(s, R)
  BY <1>1, <1>r, <1>7, <1>8, <1>9 DEF Reaps
<1> QED
  BY <1>10 DEF s, r, s1, s0, R

LEMMA ErrorReaps ==
    ASSUME TypeInv, CountInv, mode = "lua"
    PROVE  Reaps(Ended(cur), {})
<1> DEFINE s == Ended(cur)
<1>1. /\ cur \in Co /\ LiveInv(co) /\ co[cur].ref
  BY RunsCount
<1>2. /\ s \in [Co -> CoCtx] /\ s[cur].kind = co[cur].kind /\ s[cur].ref
      /\ s[cur].status = "dead" /\ s[cur].parent = co[cur].parent
      /\ s[cur].zombies = co[cur].zombies
      /\ \A c \in Co : c # cur => s[c] = co[c]
  BY EndedLive
<1> HIDE DEF s
<1> QED
  BY <1>1, <1>2 DEF Reaps, Kin, LiveInv, Life, s

\* Somebody can still wait for zombie z
Tended(s, z) ==
    Alive(s, s[z].parent) /\ z \in s[s[z].parent].zombies /\ ~s[z].waited

\* All zombies that the coroutine leaves when it returns are reaped
LEMMA RelatedReap ==
    ASSUME TypeInv, Holder, NEW s, Reaps(s, Reaped(cur)),
           \A x \in Co : x # cur => Tame(s[x], co'[x]),
           co'[cur].parent = co[cur].parent,
           co'[cur].status = "zombie" =>
               /\ co[cur].parent \in Co \ {cur}
               /\ Alive(s, co[cur].parent)
               /\ cur \in co'[co[cur].parent].zombies /\ ~co'[cur].waited
    PROVE  Orphans' \subseteq Orphans
<1>1. /\ cur \in Co /\ co[cur].status = "running"
      /\ \A z \in Co : co[z].status = "zombie" => co[z].ref /\ co[z].parent \in Co
      /\ \A z \in co[cur].zombies : Gone(co[z])
  BY DEF Holder, TypeInv, CoInv, Started
<1>2. \A x \in Co : Tame(s[x], co'[x]) => co'[x].parent = co[x].parent
  BY DEF Tame, Reaps, Kin
<1>3. co'[cur].status = "zombie" => Tended(co', cur)
  <2> SUFFICES ASSUME co'[cur].status = "zombie" PROVE Tended(co', cur)
    OBVIOUS
  <2>1. co[cur].parent \in Co \ {cur} /\ Tame(s[co[cur].parent], co'[co[cur].parent])
    OBVIOUS
  <2> QED
    BY <2>1 DEF Tame, Alive, Tended
<1>4. ASSUME NEW z \in Co, co'[z].status = "zombie", z # cur
      PROVE  co[z].status = "zombie" /\ (Tended(co, z) => Tended(co', z))
  <2>1. Tame(s[z], co'[z]) /\ s[z].status = "zombie"
    BY <1>4 DEF Tame
  <2>2. z \notin Reaped(cur) /\ s[z] = co[z] /\ co[z].status = "zombie"
    BY <1>4, <2>1 DEF Reaps
  <2> SUFFICES ASSUME Tended(co, z) PROVE Tended(co', z)
    BY <2>2
  <2> DEFINE q == co[z].parent
  <2>3. /\ Alive(co, q) /\ z \in co[q].zombies /\ ~co[z].waited /\ q \in Co
    BY <1>1, <1>4, <2>2 DEF Tended
  <2>7. co'[z].parent = q
    BY <1>2, <2>1
  <2> HIDE DEF q
  <2>4. q # cur
    BY <1>1, <2>2, <2>3 DEF Reaped
  <2>5. q \notin Reaped(cur)
    BY <1>1, <2>3 DEF Reaped, Gone, Alive
  <2>6. s[q] = co[q] /\ Tame(s[q], co'[q])
    BY <2>3, <2>4, <2>5 DEF Reaps
  <2> QED
    BY <1>4, <2>1, <2>2, <2>3, <2>6, <2>7 DEF Tame, Alive, Tended
<1> QED
  BY <1>1, <1>3, <1>4 DEF Orphans, Tended

\* The end of cur when it is a thread: what becomes of families, and of the
\* zombies if it reaped its own
LEMMA RelatedThreadEnds ==
    ASSUME TypeInv, Holder, Family(co), NEW STATE s, NEW STATE n,
           NEW R, Reaps(s, R), co[cur].kind = "thread", ThreadEnds(s, n, cur)
    PROVE  /\ Family(co')
           /\ R = Reaped(cur) => Orphans' \subseteq Orphans
           /\ mode' = "done" => LastThread(s, n - 1)
<1> DEFINE p == co[cur].parent
<1>1. /\ cur \in Co /\ co[cur].ref /\ p \in Co /\ p # cur
  BY DEF Holder, TypeInv, CoInv, Started
<1>2. /\ s \in [Co -> CoCtx] /\ Kin(co[cur], s[cur]) /\ s[cur].ref
      /\ s[cur].status = "dead"
      /\ \A x \in Co : Kin(co[x], s[x]) /\ (s[x].status = "zombie" => s[x].ref)
  BY <1>1 DEF Reaps
<1>3. p = s[cur].parent /\ s[cur].kind = "thread"
  BY <1>2 DEF Kin
<1> HIDE DEF p
<1>4. /\ \A x \in Co : x # p => Kin(s[x], co'[x])
      /\ co'[p].kind = s[p].kind /\ co'[p].parent = s[p].parent
      /\ co'[p].zombies \subseteq s[p].zombies \cup {cur}
      /\ \/ \A x \in Co : co'[x].status # "zombie"
         \/ /\ \A x \in Co : x # cur => Tame(s[x], co'[x])
            /\ co'[cur].status = "zombie" =>
                   Alive(s, p) /\ cur \in co'[p].zombies /\ ~co'[cur].waited
      /\ mode' = "done" => LastThread(s, IF s[cur].ref THEN n - 1 ELSE n)
  BY <1>1, <1>2, <1>3, ThreadEndsKin
<1>5. Family(co')
  <2>1. /\ \A x \in Co : x # p => Kin(co[x], co'[x])
        /\ co'[p].kind = co[p].kind /\ co'[p].parent = co[p].parent
        /\ co'[p].zombies \subseteq co[p].zombies \cup {cur}
    BY <1>1, <1>2, <1>4 DEF Kin
  <2>2. co[cur].parent = p
    BY DEF p
  <2> QED
    BY <1>1, <2>1, <2>2, KinGrows
<1>6. R = Reaped(cur) => Orphans' \subseteq Orphans
  <2>1. CASE \A x \in Co : co'[x].status # "zombie"
    BY <2>1 DEF Orphans
  <2>2. CASE /\ \A x \in Co : x # cur => Tame(s[x], co'[x])
             /\ co'[cur].status = "zombie" =>
                    Alive(s, p) /\ cur \in co'[p].zombies /\ ~co'[cur].waited
    <3>1. co'[cur].parent = co[cur].parent
      BY <1>1, <1>2, <1>4 DEF Kin
    <3> QED
      BY <1>1, <2>2, <3>1, RelatedReap DEF p
  <2> QED
    BY <1>4, <2>1, <2>2
<1> QED
  BY <1>2, <1>4, <1>5, <1>6

LEMMA RelatedReturn ==
    ASSUME TypeInv, CountInv, Family(co), Return
    PROVE  Related
<1> DEFINE s1 == DelThreads(Ended(cur), Reaped(cur))
           s == Put(s1, cur, [s1[cur] EXCEPT !.zombies = {}])
           n == uthreads - Cardinality(Reaped(cur))
           d == DelThreads(s, {cur})
<1>1. /\ cur \in Co /\ co[cur].kind \in {"entry", "thread"} /\ mode = "lua"
      /\ co[cur].ref
  BY RunsCount DEF Return
<1>2. Reaps(s, Reaped(cur))
  BY <1>1, ReturnReaps
<1>3. \/ co[cur].kind = "thread" /\ ThreadEnds(s, n, cur)
      \/ FinalizeThreads(d, n)
      \/ co' = d
  BY <1>1 DEF Return
<1> HIDE DEF s, n
<1>4. CASE co[cur].kind = "thread" /\ ThreadEnds(s, n, cur)
  BY <1>1, <1>2, <1>4, CountHolder, RelatedThreadEnds DEF Related
<1>5. /\ d \in [Co -> CoCtx]
      /\ \A x \in Co : Kin(s[x], d[x]) /\ (x # cur => d[x] = s[x])
      /\ d[cur].status = "dead"
  <2>1. s \in [Co -> CoCtx] /\ s[cur].ref /\ s[cur] \in CoCtx
    BY <1>1, <1>2 DEF Reaps
  <2>2. \A x \in Co : x # cur => d[x] = s[x]
    BY DEF DelThreads
  <2>3. d[cur].status = "dead"
    <3>1. d[cur] = [s[cur] EXCEPT !.ref = FALSE, !.status = "dead"]
      BY <1>1, <2>1 DEF DelThreads
    <3> QED
      BY <2>1, <3>1 DEF CoCtx
  <2> QED
    BY <2>1, <2>2, <2>3, DelThreadsShape, KinDel DEF SameShape
<1> HIDE DEF d
<1>6. \A x \in Co : /\ Kin(co[x], d[x])
                    /\ d[x].status = "zombie" => d[x].ref
  BY <1>2, <1>5, SameTransitive DEF Reaps
<1>7. CASE FinalizeThreads(d, n)
  BY <1>5, <1>6, <1>7, FinalizeStep
<1>8. CASE co' = d
  <2>1. Family(co')
    BY <1>6, <1>8, KinStep
  <2>2. \A x \in Co : x # cur => Tame(s[x], co'[x])
    BY <1>5, <1>8 DEF Tame
  <2>3. co'[cur].parent = co[cur].parent /\ co'[cur].status = "dead"
    BY <1>1, <1>5, <1>6, <1>8 DEF Kin
  <2> QED
    BY <1>1, <1>2, <2>1, <2>2, <2>3, CountHolder, RelatedReap DEF Related
<1> QED
  BY <1>3, <1>4, <1>7, <1>8

LEMMA RelatedError ==
    ASSUME TypeInv, CountInv, Family(co), Error
    PROVE  Related
<1> DEFINE s == Ended(cur)
           R == {}
<1>1. /\ cur \in Co /\ co[cur].kind \in {"entry", "thread"} /\ mode = "lua"
  BY RunsCount DEF Error
<1>2. Reaps(s, R)
  BY <1>1, ErrorReaps
<1> HIDE DEF R
<1>3. Raise(s, uthreads, cur)
  BY DEF Error
<1> HIDE DEF s
<1>4. s[cur].kind = co[cur].kind
  BY <1>1, <1>2 DEF Reaps, Kin
<1>5. \/ co[cur].kind = "thread" /\ ThreadEnds(s, uthreads, cur)
      \/ FinalizeThreads(s, uthreads)
  BY <1>1, <1>3, <1>4 DEF Raise
<1>6. CASE co[cur].kind = "thread" /\ ThreadEnds(s, uthreads, cur)
  <2>1. Family(co')
    BY <1>1, <1>2, <1>6, CountHolder, RelatedThreadEnds
  <2> QED
    BY <2>1 DEF Related
<1>7. CASE FinalizeThreads(s, uthreads)
  BY <1>2, <1>7, FinalizeStep DEF Reaps
<1> QED
  BY <1>5, <1>6, <1>7

LEMMA FamilyInit == Init => Family(co)
<1> SUFFICES ASSUME Init PROVE Family(co)
  OBVIOUS
<1> DEFINE r == [FreshCo EXCEPT !.kind = "entry", !.ref = TRUE,
                                !.status = "running", !.at = "run"]
<1>1. r.kind = "entry" /\ r.zombies = {} /\ FreshCo.kind = "none" /\ FreshCo.zombies = {}
  BY DEF FreshCo
<1>2. \A c \in Co : co[c] = IF c = Entry THEN r ELSE FreshCo
  BY DEF Init
<1> HIDE DEF r
<1> QED
  BY <1>1, <1>2 DEF Family

LEMMA RelatedNext ==
    ASSUME OnlyThreads, TypeInv, CountInv, Family(co), Next
    PROVE  Related
<1>1. CASE Lua
  BY <1>1, OnlyThreadCalls, RelatedNewThread, RelatedKill, RelatedWait,
     RelatedSuspends, RelatedReturn, RelatedError, RelatedExit
  DEF Lua
<1>2. CASE Step
  BY <1>2, OnlyThreadCalls, RelatedWakes DEF Step
<1>3. CASE Event
  BY <1>3, RelatedWakes DEF Event
<1>4. CASE ClientAbort
  BY <1>4, RelatedWakes
<1> QED
  BY <1>1, <1>2, <1>3, <1>4 DEF Next

(* The end of the request.                                                   *)

EndsRight ==
    mode' = "done" /\ cur \in Co \ {Entry} /\ co'[cur].at = "end" =>
        /\ ~co[Entry].ref
        /\ \A c \in Counted(co) \ {cur} :
              co[c].status = "zombie" /\ co[c].parent = cur

\* The last thread takes all that is still counted with it
LEMMA LastTakesAll ==
    ASSUME TypeInv, Holder, Family(co), co[cur].kind = "thread",
           NEW s, NEW R, R \subseteq Reaped(cur), Reaps(s, R),
           LastThread(s, uthreads - Cardinality(R) - 1)
    PROVE  /\ ~co[Entry].ref
           /\ \A c \in Counted(co) \ {cur} :
                 co[c].status = "zombie" /\ co[c].parent = cur
<1>1. /\ cur \in Co /\ uthreads = Cardinality(Counted(co))
      /\ co[cur].ref /\ co[cur].status = "running" /\ co[cur] \in CoCtx
      /\ \A z \in co[cur].zombies : Gone(co[z])
  BY DEF Holder, UthreadsExact, TypeInv, TypeOK
<1>2. \A z \in R : /\ z \in Co /\ co[z].ref /\ co[z].status = "zombie"
                   /\ co[z].parent = cur /\ co[z].kind = "thread"
  BY <1>1 DEF Reaped, Gone, Family, CoCtx
<1>3. Entry \in Co /\ Entry # cur /\ Entry \notin R
  BY <1>2, CoAssumption DEF Family
<1>4. ~co[Entry].ref
  BY <1>3 DEF LastThread, Reaps
<1>5. cur \in Counted(co) /\ R \subseteq Counted(co) \ {cur}
  BY <1>1, <1>2 DEF Counted
<1>6. Counted(co) \ {cur} = R
  <2> DEFINE S == Counted(co) \ {cur}
  <2>1. IsFiniteSet(Counted(co)) /\ IsFiniteSet(S) /\ IsFiniteSet(R)
    BY <1>5, CountedFinite, FS_Subset
  <2>2. Cardinality(S) = Cardinality(Counted(co)) - 1
    BY <1>5, <2>1, FS_RemoveElement
  <2>3. Cardinality(Counted(co)) \in Nat /\ Cardinality(R) \in Nat
    BY <2>1, FS_CardinalityType
  <2>4. Cardinality(S) = Cardinality(R)
    <3> DEFINE k == Cardinality(Counted(co))
               m == Cardinality(R)
    <3>1. k - m - 1 = 0 /\ k \in Nat /\ m \in Nat /\ Cardinality(S) = k - 1
      BY <1>1, <2>2, <2>3 DEF LastThread
    <3> HIDE DEF k, m, S
    <3>2. m = k - 1
      BY <3>1
    <3> QED
      BY <3>1, <3>2 DEF m
  <2> HIDE DEF S
  <2>5. R \subseteq S
    BY <1>5 DEF S
  <2>6. S = R
    BY <2>1, <2>4, <2>5, FS_Subset
  <2> QED
    BY <2>6 DEF S
<1> QED
  BY <1>2, <1>4, <1>6

LEMMA EndsReturn ==
    ASSUME TypeInv, CountInv, Family(co), Return
    PROVE  EndsRight
<1> DEFINE R == Reaped(cur)
           s1 == DelThreads(Ended(cur), R)
           s == Put(s1, cur, [s1[cur] EXCEPT !.zombies = {}])
           n == uthreads - Cardinality(R)
<1> SUFFICES ASSUME mode' = "done", cur \in Co \ {Entry}
             PROVE  /\ ~co[Entry].ref
                    /\ \A c \in Counted(co) \ {cur} :
                          co[c].status = "zombie" /\ co[c].parent = cur
  BY DEF EndsRight
<1>1. mode = "lua" /\ co[cur].kind = "thread"
  <2>1. co[cur].kind \in {"entry", "thread"} /\ mode = "lua"
    BY RunsCount DEF Return
  <2> QED
    BY <2>1 DEF Family
<1>2. Reaps(s, R) /\ R \subseteq Reaped(cur)
  BY <1>1, ReturnReaps
<1>3. ThreadEnds(s, n, cur)
  BY <1>1 DEF Return
<1> HIDE DEF s
<1>4. LastThread(s, n - 1)
  BY <1>1, <1>2, <1>3, RelatedThreadEnds, CountHolder
<1> HIDE DEF R
<1> QED
  BY <1>1, <1>2, <1>4, LastTakesAll, CountHolder

LEMMA EndsError ==
    ASSUME TypeInv, CountInv, Family(co), Error
    PROVE  EndsRight
<1> DEFINE s == Ended(cur)
           R == {}
<1> SUFFICES ASSUME mode' = "done", cur \in Co \ {Entry}
             PROVE  /\ ~co[Entry].ref
                    /\ \A c \in Counted(co) \ {cur} :
                          co[c].status = "zombie" /\ co[c].parent = cur
  BY DEF EndsRight
<1>1. mode = "lua" /\ co[cur].kind = "thread" /\ uthreads = Cardinality(Counted(co))
  <2>1. /\ co[cur].kind \in {"entry", "thread"} /\ mode = "lua"
        /\ uthreads = Cardinality(Counted(co))
    BY RunsCount DEF Error
  <2> QED
    BY <2>1 DEF Family
<1>2. Reaps(s, R) /\ R \subseteq Reaped(cur)
  BY <1>1, ErrorReaps
<1>3. Raise(s, uthreads, cur)
  BY DEF Error
<1>4. Cardinality(R) = 0
  BY FS_EmptySet
<1> HIDE DEF s, R
<1>5. ThreadEnds(s, uthreads, cur)
  <2>1. s[cur].kind = "thread"
    BY <1>1, <1>2 DEF Reaps, Kin
  <2> QED
    BY <1>3, <2>1 DEF Raise
<1>6. LastThread(s, uthreads - 1)
  BY <1>1, <1>2, <1>5, RelatedThreadEnds, CountHolder
<1>7. uthreads - Cardinality(R) - 1 = uthreads - 1
  <2>1. uthreads \in Int
    BY DEF TypeInv, TypeOK
  <2> QED
    BY <1>4, <2>1
<1> QED
  BY <1>1, <1>2, <1>6, <1>7, LastTakesAll, CountHolder

LEMMA EndsNext ==
    ASSUME OnlyThreads, TypeInv, CountInv, Family(co), Next
    PROVE  EndsRight
<1>1. ASSUME NEW forced, Exit(forced) PROVE EndsRight
  <2>1. co'[cur].at = co[cur].at /\ co[cur].at = "run"
    BY <1>1, ExitMoves, RunsCount DEF Exit, Calls, Quiet
  <2> QED
    BY <2>1 DEF EndsRight
<1>2. CASE ClientAbort
  BY <1>2, CoAssumption DEF ClientAbort, EndsRight, TypeInv, TypeOK
<1>3. ASSUME mode' # "done" PROVE EndsRight
  BY <1>3 DEF EndsRight
<1>4. ASSUME NEW t \in Co, Spawn(t) \/ Kill(t) \/ KillZombie(t) \/ OnAbort(t)
      PROVE  mode' # "done"
  BY <1>4 DEF Spawn, Kill, KillZombie, OnAbort, Calls
<1>5. ASSUME NEW args \in WaitArgs, Wait(args)
      PROVE  mode' # "done"
  BY <1>5 DEF Wait, Calls, Again
<1>6. ASSUME YieldThread \/ Sleep \/ Capture
      PROVE  mode' # "done"
  BY <1>6 DEF YieldThread, Sleep, Capture, Again
<1>7. CASE Lua
  BY <1>1, <1>3, <1>4, <1>5, <1>6, <1>7, OnlyThreadCalls, EndsReturn, EndsError
  DEF Lua
<1>8. CASE Step \/ Event
  <2>1. mode' # "done"
    BY <1>8, OnlyThreadCalls DEF Step, Event, RunPosted, PostedDrained, OpDone,
       SubrequestDone
  <2> QED
    BY <1>3, <2>1
<1> QED
  BY <1>2, <1>7, <1>8 DEF Next

-----------------------------------------------------------------------------
(* User coroutines.  A coroutine that was resumed and the one that resumed  *)
(* it are a link of a chain: the one runs, or has resumed the next, and the *)
(* other is "normal" until it is yielded to, whatever the threads at the    *)
(* ends of the chains wait for.  A thread that is killed leaves its chain   *)
(* behind (section 7 of README.md), so here the Lua code kills no thread.   *)

NoKill == "kill" \notin Api /\ OneAtATime

IsCoroutine(r) == r.kind \in {"coro", "wrap"}

\* A coroutine that was resumed and has neither yielded nor ended; "left" is
\* one that an error has passed
Active(r) == IsCoroutine(r) /\ r.at # "left" /\ r.status \in {"running", "normal"}

\* A thread that has ended
Past(r) == r.kind = "thread" /\ r.status \in {"zombie", "dead"}

\* Where a context stands when its status is what it is
Posture(r) ==
    /\ r.kind = "none" => r.status = "suspended" /\ ~r.ref
    /\ r.kind \in {"entry", "thread"} /\ r.status \notin {"dead", "zombie"} => r.ref
    /\ r.status = "zombie" => r.kind = "thread"
    /\ r.status = "suspended" => r.at \in {"start", "yield"}
    /\ r.status = "normal" => r.at = "resume"
    /\ r.status = "running" => r.at \notin {"start", "end"}
    /\ r.at \in {"wait", "io", "spawn"} => r.status = "running"
    /\ r.at # "fail"
    /\ r.pending # {} => \E op \in {"op", "subreq"} : r.pending = {op}

LinksRight(s) ==
    /\ \A x \in Co : Active(s[x]) => s[s[x].parent].status = "normal"
    /\ \A x, y \in Co : /\ Active(s[x]) /\ Active(s[y])
                        /\ s[x].parent = s[y].parent
                        => x = y
    /\ \A c \in Co : s[c].status = "normal" =>
                        \E x \in Co : Active(s[x]) /\ s[x].parent = c

\* While the handler goes on
Going(s, q) ==
    /\ \A c \in Co : /\ Posture(s[c]) /\ s[c].parent # c
                     /\ \A z \in s[c].zombies : Past(s[z])
    /\ LinksRight(s)
    /\ \A i \in DOMAIN q : s[q[i]].status = "running"

\* What is recorded of who is suspended, also at the end
Recorded(r) == /\ r.pending # {} => r.at = "io"
               /\ r.waited => r.kind = "thread"

Parked ==
    /\ \A c \in Co : Recorded(co[c])
    /\ WaitsRight(co)
    /\ QueueRight(co, posted)
    /\ mode = "done" => \A c \in Co : "op" \notin co[c].pending

\* Who has the CPU
Ready ==
    /\ mode = "lua" => co[cur].status = "running" /\ co[cur].at = "run"
    /\ mode = "raise" => co[cur].status = "running" /\ co[cur].at = "resume"

CoroInv == (mode # "done" => Going(co, posted)) /\ Parked /\ Ready

\* What every step keeps: the invariant, and why who is woken is
Works == /\ CoroInv'
         /\ \A c \in Co : co[c].at # "run" /\ co'[c].at = "run" => HasCause(c)

\* What happens to a context that neither gets nor gives up the CPU: it may
\* be a zombie that is reaped, or be given one
Calm(r, r2) ==
    /\ r2.at = r.at /\ r2.kind = r.kind /\ r2.parent = r.parent
    /\ r2.waited = r.waited /\ r2.pending = r.pending
    /\ r2.status = r.status \/ (r.status = "zombie" /\ r2.status = "dead")
    /\ r2.ref = r.ref \/ r2.status = "dead"

Still(r, r2) == Calm(r, r2) /\ r2.zombies \subseteq r.zombies

LEMMA CalmQuiet ==
    ASSUME NEW r, NEW r2, Calm(r, r2)
    PROVE  Quiet(r, r2)
BY DEF Calm, Quiet

LEMMA StillSame ==
    ASSUME NEW r
    PROVE  Still(r, r)
BY DEF Still, Calm

LEMMA CalmPosture ==
    ASSUME NEW r, NEW r2, Posture(r), Calm(r, r2)
    PROVE  Posture(r2) /\ (Past(r) => Past(r2))
<1>1. /\ r2.at = r.at /\ r2.kind = r.kind /\ r2.pending = r.pending
      /\ r2.ref = r.ref \/ r2.status = "dead"
      /\ r2.status = r.status \/ (r.status = "zombie" /\ r2.status = "dead")
  BY DEF Calm
<1>2. CASE r2.status = r.status /\ r2.ref = r.ref
  BY <1>1, <1>2 DEF Posture, Past
<1>3. CASE r2.status = "dead" /\ r.status \in {"dead", "zombie"}
  BY <1>1, <1>3 DEF Posture, Past
<1> QED
  BY <1>1, <1>2, <1>3

\* How the queue changes when the contexts of X move
Queues(X) ==
    \/ posted' = posted /\ \A x \in X : ~InQueue(x)
    \/ /\ posted # <<>> /\ posted' = Tail(posted)
       /\ \A x \in X : InQueue(x) => x = Head(posted)
    \/ /\ \A x \in X : ~InQueue(x)
       /\ \E x \in X \cap Co : /\ posted' = Append(posted, x)
                               /\ co'[x].status = "running"
                               /\ co'[x].at \in {"spawn", "yield"}

\* Whoever is in the queue was there and has not moved, or has just come
LEMMA QueueFrom ==
    ASSUME TypeInv, QueueRight(co, posted), NEW X, Queues(X),
           NEW i \in DOMAIN posted'
    PROVE  \/ \E j \in DOMAIN posted : posted'[i] = posted[j] /\ posted[j] \notin X
           \/ co'[posted'[i]].status = "running"
<1>1. posted \in Seq(Co)
  BY DEF TypeInv, TypeOK
<1>2. CASE posted' = posted /\ \A x \in X : ~InQueue(x)
  BY <1>2 DEF InQueue
<1>3. CASE /\ posted # <<>> /\ posted' = Tail(posted)
           /\ \A x \in X : InQueue(x) => x = Head(posted)
  <2>1. /\ Tail(posted) \in Seq(Co) /\ Len(Tail(posted)) = Len(posted) - 1
        /\ \A k \in 1 .. Len(Tail(posted)) : Tail(posted)[k] = posted[k + 1]
        /\ Len(posted) \in Nat /\ DOMAIN posted = 1 .. Len(posted)
        /\ DOMAIN Tail(posted) = 1 .. Len(Tail(posted)) /\ Head(posted) = posted[1]
    BY <1>1, <1>3, HeadTailProperties, LenProperties
  <2>2. PICK n \in Nat : n = Len(posted)
    BY <2>1
  <2>3. /\ i \in 1 .. n - 1 /\ posted'[i] = posted[i + 1]
        /\ DOMAIN posted = 1 .. n
    BY <1>3, <2>1, <2>2
  <2>4. i + 1 \in DOMAIN posted /\ 1 \in DOMAIN posted /\ i + 1 # 1
    BY <2>2, <2>3
  <2>5. posted[i + 1] # Head(posted)
    BY <2>1, <2>4 DEF QueueRight
  <2>6. InQueue(posted[i + 1])
    BY <2>4 DEF InQueue
  <2> QED
    BY <1>3, <2>3, <2>4, <2>5, <2>6
<1>4. CASE /\ \A x \in X : ~InQueue(x)
           /\ \E x \in X \cap Co : /\ posted' = Append(posted, x)
                                   /\ co'[x].status = "running"
                                   /\ co'[x].at \in {"spawn", "yield"}
  <2>1. PICK x : /\ x \in X \cap Co /\ posted' = Append(posted, x)
                 /\ co'[x].status = "running"
    BY <1>4
  <2>2. /\ Append(posted, x) \in Seq(Co)
        /\ Len(Append(posted, x)) = Len(posted) + 1
        /\ \A k \in 1 .. Len(posted) : Append(posted, x)[k] = posted[k]
        /\ Append(posted, x)[Len(posted) + 1] = x
        /\ Len(posted) \in Nat /\ DOMAIN posted = 1 .. Len(posted)
    BY <1>1, <2>1, AppendProperties, LenProperties
  <2>3. DOMAIN posted' = 1 .. Len(Append(posted, x))
    BY <2>1, <2>2, LenProperties
  <2>4. PICK n \in Nat : n = Len(posted)
    BY <2>2
  <2>5. i \in 1 .. n + 1
    BY <2>2, <2>3, <2>4
  <2>6. i \in 1 .. n \/ i = n + 1
    BY <2>4, <2>5
  <2>7. CASE i \in 1 .. n
    BY <1>4, <2>1, <2>2, <2>4, <2>7 DEF InQueue
  <2>8. CASE i = n + 1
    BY <2>1, <2>2, <2>4, <2>8
  <2> QED
    BY <2>6, <2>7, <2>8
<1> QED
  BY <1>2, <1>3, <1>4 DEF Queues

LEMMA FreeOfQueue ==
    ASSUME CoroInv, mode # "done", NEW c,
           \/ co[c].status # "running"
           \/ co[c].at \notin {"spawn", "yield"}
    PROVE  ~InQueue(c)
BY DEF CoroInv, Going, Parked, QueueRight, InQueue

-----------------------------------------------------------------------------
\* Context x, which moves, takes its waiting with it: it is not awaited unless
\* it was, and nobody who stays awaited relies on its waiting
Shifts(x) ==
    /\ Recorded(co'[x])
    /\ Awaited(co', x) => Awaited(co, x) /\ co'[x].parent = co[x].parent
    /\ co[x].at = "wait" =>
           \A t \in Co : Awaited(co, t) /\ Awaited(co', t) => co[t].parent # x

LEMMA AwaitedBy ==
    ASSUME TypeInv, CoroInv, NEW t \in Co, Awaited(co, t)
    PROVE  co[t].parent \in Co /\ co[co[t].parent].at = "wait"
BY DEF Awaited, CoroInv, Parked, Recorded, WaitsRight, TypeInv, CoInv, Started

LEMMA Parks ==
    ASSUME TypeInv, CoroInv, NEW X, X \subseteq Co,
           \A c \in Co : c \notin X => Quiet(co[c], co'[c]),
           \A x \in X : Shifts(x),
           Queues(X),
           mode' = "done" => \A c \in Co : "op" \notin co'[c].pending
    PROVE  Parked'
<1>1. \A c \in Co : Recorded(co'[c])
  BY DEF CoroInv, Parked, Recorded, Quiet, Shifts
<1>2. ASSUME NEW t \in Co, Awaited(co', t)
      PROVE  /\ Awaited(co, t) /\ co'[t].parent = co[t].parent
             /\ co[co[t].parent].at = "wait" /\ co[t].parent \in Co
  <2>1. Awaited(co, t) /\ co'[t].parent = co[t].parent
    BY <1>2 DEF Awaited, Alive, Quiet, Shifts
  <2> QED
    BY <2>1, AwaitedBy
<1>3. \A t \in Co : Awaited(co', t) => co'[co'[t].parent].at = "wait"
  <2> SUFFICES ASSUME NEW t \in Co, Awaited(co', t)
               PROVE  co'[co[t].parent].at = "wait"
    BY <1>2
  <2>1. co[t].parent \notin X
    BY <1>2 DEF Shifts
  <2> QED
    BY <1>2, <2>1 DEF Quiet
<1>4. \A t, u \in Co : /\ Awaited(co', t) /\ Awaited(co', u)
                       /\ co'[t].parent = co'[u].parent
                       => t = u
  BY <1>2 DEF CoroInv, Parked, WaitsRight
<1>5. QueueRight(co, posted)'
  BY QueueKeeps DEF Queues, CoroInv, Parked
<1> QED
  BY <1>1, <1>3, <1>4, <1>5 DEF Parked, WaitsRight, Awaited, Alive

\* Context x, which moves, stands where its new status says; one that has
\* ended does not come back
Poses(x) ==
    /\ Posture(co'[x]) /\ co'[x].parent # x
    /\ Past(co[x]) => Past(co'[x])
    /\ \A z \in co'[x].zombies : z \in co[x].zombies \/ Past(co'[z])

\* The zombies of context c are what they were, or have just become one
Tends(c) == \A z \in co'[c].zombies : z \in co[c].zombies \/ Past(co'[z])

LEMMA GoesOn ==
    ASSUME TypeInv, CoroInv, mode # "done", NEW X, X \subseteq Co,
           \A c \in Co : c \notin X => Calm(co[c], co'[c]) /\ Tends(c),
           \A x \in X : Poses(x),
           LinksRight(co)', Queues(X), Parked', Ready'
    PROVE  CoroInv'
<1>1. co \in [Co -> CoCtx] /\ posted \in Seq(Co)
  BY DEF TypeInv, TypeOK
<1>2. \A c \in Co : Posture(co'[c]) /\ (Past(co[c]) => Past(co'[c]))
  <2> TAKE c \in Co
  <2>1. CASE c \in X
    BY <2>1 DEF Poses
  <2>2. CASE c \notin X
    <3>1. Posture(co[c]) /\ Calm(co[c], co'[c])
      BY <2>2 DEF CoroInv, Going
    <3> QED
      BY <3>1, CalmPosture
  <2> QED
    BY <2>1, <2>2
<1>3. \A c \in Co : co'[c].parent # c
  BY DEF Poses, Calm, CoroInv, Going
<1>4. \A c \in Co : \A z \in co'[c].zombies : Past(co'[z])
  <2> TAKE c \in Co
  <2> TAKE z \in co'[c].zombies
  <2>1. z \in co[c].zombies \/ Past(co'[z])
    BY DEF Poses, Tends
  <2>2. ASSUME z \in co[c].zombies PROVE Past(co'[z])
    <3>1. Past(co[z])
      BY <2>2 DEF CoroInv, Going
    <3>2. z \in Co
      BY <1>1, <2>2 DEF CoCtx
    <3> QED
      BY <1>2, <3>1, <3>2
  <2> QED
    BY <2>1, <2>2
<1>5. \A i \in DOMAIN posted' : co'[posted'[i]].status = "running"
  <2> TAKE i \in DOMAIN posted'
  <2>1. \/ \E j \in DOMAIN posted : posted'[i] = posted[j] /\ posted[j] \notin X
        \/ co'[posted'[i]].status = "running"
    BY QueueFrom DEF CoroInv, Parked
  <2>2. ASSUME NEW j \in DOMAIN posted, posted[j] \notin X
        PROVE  co'[posted[j]].status = "running"
    <3>1. posted[j] \in Co /\ co[posted[j]].status = "running"
      BY <1>1 DEF CoroInv, Going
    <3> QED
      BY <2>2, <3>1 DEF Calm
  <2> QED
    BY <2>1, <2>2
<1>6. Going(co, posted)'
  BY <1>2, <1>3, <1>4, <1>5 DEF Going, Posture, Past
<1> QED
  BY <1>6 DEF CoroInv

LEMMA Goes ==
    ASSUME TypeInv, CoroInv, mode # "done", NEW X, X \subseteq Co,
           \A c \in Co : c \notin X => Still(co[c], co'[c]),
           \A x \in X : Poses(x),
           LinksRight(co)', Queues(X), Parked', Ready'
    PROVE  CoroInv'
<1>1. \A c \in Co : c \notin X => Calm(co[c], co'[c]) /\ Tends(c)
  BY DEF Still, Tends
<1> QED
  BY <1>1, GoesOn

\* Nobody is linked to another by the step, or loses his link
SameLink(c) ==
    /\ Active(co'[c]) <=> Active(co[c])
    /\ Active(co[c]) => co'[c].parent = co[c].parent
    /\ co'[c].status = "normal" <=> co[c].status = "normal"

LEMMA CalmLink ==
    ASSUME NEW c, Calm(co[c], co'[c])
    PROVE  SameLink(c)
BY DEF Calm, SameLink, Active, IsCoroutine

LEMMA ActiveParent ==
    ASSUME TypeInv, CoroInv, mode # "done", NEW x \in Co, Active(co[x])
    PROVE  /\ co[x].parent \in Co /\ co[x].parent # x
           /\ co[co[x].parent].status = "normal"
           /\ co[co[x].parent].at = "resume"
           /\ \A y \in Co : Active(co[y]) /\ co[y].parent = co[x].parent => y = x
<1>1. /\ co[x].parent # x /\ Posture(co[x]) /\ LinksRight(co)
      /\ \A c \in Co : Posture(co[c])
  BY DEF CoroInv, Going
<1>2. co[x].parent \in Co
  BY <1>1 DEF Active, IsCoroutine, Posture, TypeInv, CoInv, Started
<1>3. co[co[x].parent].status = "normal"
  BY <1>1 DEF LinksRight
<1>4. \A y \in Co : Active(co[y]) /\ co[y].parent = co[x].parent => y = x
  BY <1>1 DEF LinksRight
<1> QED
  BY <1>1, <1>2, <1>3, <1>4 DEF Posture

LEMMA LinksKept ==
    ASSUME TypeInv, CoroInv, mode # "done", \A c \in Co : SameLink(c)
    PROVE  LinksRight(co)'
<1>1. LinksRight(co)
  BY DEF CoroInv, Going
<1>2. \A x \in Co : Active(co'[x]) => co'[co'[x].parent].status = "normal"
  BY ActiveParent DEF SameLink
<1>3. \A x, y \in Co : /\ Active(co'[x]) /\ Active(co'[y])
                       /\ co'[x].parent = co'[y].parent
                       => x = y
  BY <1>1 DEF LinksRight, SameLink
<1>4. \A c \in Co : co'[c].status = "normal" =>
                       \E x \in Co : Active(co'[x]) /\ co'[x].parent = c
  BY <1>1 DEF LinksRight, SameLink
<1> QED
  BY <1>2, <1>3, <1>4 DEF LinksRight, Active, IsCoroutine

\* The coroutine that runs resumes x
LEMMA LinksGrow ==
    ASSUME TypeInv, CoroInv, mode = "lua", NEW x \in Co, co[x].status = "suspended",
           \A c \in Co : c \notin {cur, x} => SameLink(c),
           Active(co'[x]), co'[x].parent = cur, co'[x].status # "normal",
           Active(co'[cur]) <=> Active(co[cur]),
           co'[cur].parent = co[cur].parent, co'[cur].status = "normal"
    PROVE  LinksRight(co)'
<1>1. /\ LinksRight(co) /\ cur \in Co /\ co[cur].status = "running" /\ x # cur
      /\ ~Active(co[x])
  BY Runs DEF CoroInv, Going, Ready, Active
<1>2. ASSUME NEW y \in Co, y # x, Active(co'[y])
      PROVE  /\ Active(co[y]) /\ co'[y].parent = co[y].parent
             /\ co[y].parent \in Co \ {cur, x}
             /\ co[co[y].parent].status = "normal"
  <2>1. Active(co[y]) /\ co'[y].parent = co[y].parent
    BY <1>1, <1>2 DEF SameLink
  <2> QED
    BY <1>1, <2>1, ActiveParent
<1>3. \A y \in Co : Active(co'[y]) => co'[co'[y].parent].status = "normal"
  BY <1>1, <1>2 DEF SameLink
<1>4. \A y, z \in Co : /\ Active(co'[y]) /\ Active(co'[z])
                       /\ co'[y].parent = co'[z].parent
                       => y = z
  BY <1>1, <1>2 DEF LinksRight
<1>5. ASSUME NEW c \in Co, co'[c].status = "normal"
      PROVE  \E y \in Co : Active(co'[y]) /\ co'[y].parent = c
  <2>1. CASE c = cur
    BY <2>1
  <2>2. CASE c # cur
    <3>1. co[c].status = "normal"
      BY <1>5, <2>2 DEF SameLink
    <3>2. PICK y \in Co : Active(co[y]) /\ co[y].parent = c
      BY <1>1, <3>1 DEF LinksRight
    <3>3. Active(co'[y]) /\ co'[y].parent = c
      BY <1>1, <3>2 DEF SameLink
    <3> QED
      BY <3>3
  <2> QED
    BY <2>1, <2>2
<1> QED
  BY <1>3, <1>4, <1>5 DEF LinksRight, Active, IsCoroutine

\* The coroutine that runs yields to the one that resumed it, or leaves it
LEMMA LinksShrink ==
    ASSUME TypeInv, CoroInv, mode # "done", cur \in Co, Active(co[cur]),
           \A c \in Co : c \notin {cur, co[cur].parent} => SameLink(c),
           ~Active(co'[cur]), co'[cur].status # "normal",
           co[cur].status # "normal",
           Active(co'[co[cur].parent]) <=> Active(co[co[cur].parent]),
           co'[co[cur].parent].parent = co[co[cur].parent].parent,
           co'[co[cur].parent].status # "normal"
    PROVE  LinksRight(co)'
<1> PICK p : p = co[cur].parent
  OBVIOUS
<1>1. /\ LinksRight(co) /\ p \in Co /\ p # cur /\ co[p].status = "normal"
      /\ \A y \in Co : Active(co[y]) /\ co[y].parent = p => y = cur
  BY ActiveParent DEF CoroInv, Going
<1>2. ASSUME NEW y \in Co, Active(co'[y])
      PROVE  /\ Active(co[y]) /\ co'[y].parent = co[y].parent /\ y # cur
             /\ co[y].parent \in Co \ {p}
             /\ co[co[y].parent].status = "normal"
  <2>1. Active(co[y]) /\ co'[y].parent = co[y].parent /\ y # cur
    BY <1>1, <1>2 DEF SameLink
  <2> QED
    BY <1>1, <2>1, ActiveParent
<1>3. \A y \in Co : Active(co'[y]) => co'[co'[y].parent].status = "normal"
  <2> TAKE y \in Co
  <2> HAVE Active(co'[y])
  <2>1. co[y].parent \in Co \ {p, cur} /\ co[co[y].parent].status = "normal"
    BY <1>2
  <2>2. co'[co[y].parent].status = "normal"
    BY <2>1 DEF SameLink
  <2> QED
    BY <1>2, <2>2
<1>4. \A y, z \in Co : /\ Active(co'[y]) /\ Active(co'[z])
                       /\ co'[y].parent = co'[z].parent
                       => y = z
  BY <1>1, <1>2 DEF LinksRight
<1>5. ASSUME NEW c \in Co, co'[c].status = "normal"
      PROVE  \E y \in Co : Active(co'[y]) /\ co'[y].parent = c
  <2>1. c \notin {cur, p} /\ co[c].status = "normal"
    BY <1>5 DEF SameLink
  <2>2. PICK y \in Co : Active(co[y]) /\ co[y].parent = c
    BY <1>1, <2>1 DEF LinksRight
  <2>3. y # cur
    BY <2>1, <2>2
  <2>4. Active(co'[y]) /\ co'[y].parent = c
    BY <1>1, <2>2, <2>3 DEF SameLink
  <2> QED
    BY <2>4
<1> QED
  BY <1>3, <1>4, <1>5 DEF LinksRight, Active, IsCoroutine

-----------------------------------------------------------------------------
\* What holds of the coroutine that makes an API call
LEMMA RunsCoro ==
    ASSUME TypeInv, CoroInv, mode = "lua"
    PROVE  /\ co \in [Co -> CoCtx] /\ cur \in Co /\ cur # NoCo
           /\ co[cur] \in CoCtx /\ Posture(co[cur]) /\ Recorded(co[cur])
           /\ co[cur].status = "running" /\ co[cur].at = "run"
           /\ co[cur].pending = {} /\ co[cur].kind # "none"
           /\ co[cur].parent # cur /\ ~InQueue(cur) /\ ~Past(co[cur])
           /\ \A z \in co[cur].zombies : Past(co[z])
<1>1. /\ co \in [Co -> CoCtx] /\ cur \in Co /\ cur # NoCo /\ co[cur] \in CoCtx
  BY Runs
<1>2. /\ Posture(co[cur]) /\ Recorded(co[cur]) /\ co[cur].parent # cur
      /\ co[cur].status = "running" /\ co[cur].at = "run"
      /\ \A z \in co[cur].zombies : Past(co[z])
  BY <1>1 DEF CoroInv, Going, Parked, Ready
<1>3. co[cur].pending = {} /\ co[cur].kind # "none" /\ ~Past(co[cur])
  BY <1>2 DEF Posture, Recorded, Past
<1>4. ~InQueue(cur)
  BY <1>2, FreeOfQueue
<1> QED
  BY <1>1, <1>2, <1>3, <1>4

\* A step that moves nobody
LEMMA NobodyMoves ==
    ASSUME TypeInv, CoroInv, mode # "done", \A c \in Co : Still(co[c], co'[c]),
           UNCHANGED posted, mode' # "done", Ready'
    PROVE  Works
<1> DEFINE X == {}
<1>1. /\ X \subseteq Co /\ \A x \in X : Shifts(x) /\ Poses(x)
      /\ \A c \in Co : c \notin X => /\ Quiet(co[c], co'[c])
                                     /\ Still(co[c], co'[c])
      /\ Queues(X)
  BY CalmQuiet DEF Queues, Still
<1> HIDE DEF X
<1>2. Parked'
  BY <1>1, Parks
<1>3. LinksRight(co)'
  BY CalmLink, LinksKept DEF Still
<1>4. CoroInv'
  BY <1>1, <1>2, <1>3, Goes
<1> QED
  BY <1>4 DEF Works, Still, Calm

\* A step that moves one context and leaves the links alone
LEMMA OneMoves ==
    ASSUME TypeInv, CoroInv, mode # "done", mode' # "done",
           NEW STATE c, c \in Co, NEW STATE r, co' = Put(co, c, r),
           Shifts(c), Poses(c), SameLink(c), Ready',
           \/ UNCHANGED posted /\ ~InQueue(c)
           \/ posted # <<>> /\ posted' = Tail(posted) /\ c = Head(posted)
           \/ /\ ~InQueue(c) /\ posted' = Append(posted, c)
              /\ r.status = "running" /\ r.at \in {"spawn", "yield"},
           co[c].at # "run" /\ r.at = "run" => HasCause(c)
    PROVE  Works
<1> DEFINE X == {c}
<1>1. co'[c] = r /\ \A x \in Co : x # c => co'[x] = co[x]
  BY DEF Put
<1>2. \A x \in Co : x # c => Still(co[x], co'[x]) /\ Quiet(co[x], co'[x])
  BY <1>1, StillSame, CalmQuiet DEF Still
<1>3. Queues(X)
  BY <1>1 DEF Queues
<1>4. /\ X \subseteq Co /\ \A x \in X : Shifts(x) /\ Poses(x)
      /\ \A x \in Co : x \notin X => /\ Quiet(co[x], co'[x])
                                     /\ Still(co[x], co'[x])
  BY <1>2
<1> HIDE DEF X
<1>5. Parked'
  BY <1>3, <1>4, Parks
<1>6. LinksRight(co)'
  <2>1. \A x \in Co : SameLink(x)
    BY <1>2, CalmLink DEF Still
  <2> QED
    BY <2>1, LinksKept
<1>7. CoroInv'
  BY <1>3, <1>4, <1>5, <1>6, Goes
<1> QED
  BY <1>1, <1>7 DEF Works

LEMMA CoroOnAbort ==
    ASSUME TypeInv, CoroInv, NEW t \in Co, OnAbort(t)
    PROVE  Works
<1> DEFINE r == [FreshCo EXCEPT !.kind = "thread", !.ref = TRUE, !.parent = cur]
<1>1. /\ co \in [Co -> CoCtx] /\ cur \in Co /\ mode = "lua"
      /\ co[cur].kind # "none" /\ co[cur].status = "running" /\ Ready
  BY RunsCoro DEF OnAbort, Calls, CoroInv
<1>2. /\ co[t].kind = "none" /\ t # cur /\ co[t].status = "suspended"
      /\ Posture(co[t]) /\ co[t].at # "wait"
  BY <1>1 DEF OnAbort, Unborn, CoroInv, Going, Posture
<1>3. /\ r.kind = "thread" /\ r.status = "suspended" /\ r.ref /\ r.parent = cur
      /\ r.pending = {} /\ r.at = "start" /\ ~r.waited /\ r.zombies = {}
  BY DEF FreshCo
<1>4. /\ co' = [co EXCEPT ![t] = r] /\ UNCHANGED <<mode, cur, posted>>
  BY DEF OnAbort
<1> HIDE DEF r
<1>5. co' = Put(co, t, r) /\ co'[t] = r /\ co'[cur] = co[cur]
  BY <1>1, <1>2, <1>4 DEF Put
<1>6. Shifts(t) /\ Poses(t) /\ SameLink(t)
  BY <1>1, <1>2, <1>3, <1>5 DEF Shifts, Recorded, Awaited, Poses, Posture, Past,
     SameLink, Active, IsCoroutine
<1>7. ~InQueue(t) /\ mode # "done" /\ mode' # "done"
  BY <1>1, <1>2, <1>4, FreeOfQueue
<1>8. Ready'
  BY <1>1, <1>4, <1>5 DEF Ready
<1> QED
  BY <1>3, <1>4, <1>5, <1>6, <1>7, <1>8, OneMoves

LEMMA CoroCreate ==
    ASSUME TypeInv, CoroInv, NEW x \in Co, NEW kind \in {"coro", "wrap"},
           Create(x, kind)
    PROVE  Works
<1> DEFINE r == [FreshCo EXCEPT !.kind = kind]
<1>1. /\ co \in [Co -> CoCtx] /\ cur \in Co /\ mode = "lua"
      /\ co[cur].kind # "none" /\ co[cur].status = "running" /\ Ready
  BY RunsCoro DEF Create, Calls, CoroInv
<1>2. /\ co[x].kind = "none" /\ x # cur /\ co[x].status = "suspended"
      /\ Posture(co[x]) /\ co[x].at # "wait"
  BY <1>1 DEF Create, Unborn, CoroInv, Going, Posture
<1>3. /\ r.kind = kind /\ r.status = "suspended" /\ ~r.ref /\ r.parent = NoCo
      /\ r.pending = {} /\ r.at = "start" /\ ~r.waited /\ r.zombies = {}
  BY DEF FreshCo
<1>4. /\ co' = [co EXCEPT ![x] = r] /\ UNCHANGED <<mode, cur, posted>>
  BY DEF Create
<1> HIDE DEF r
<1>5. co' = Put(co, x, r) /\ co'[x] = r /\ co'[cur] = co[cur]
  BY <1>1, <1>2, <1>4 DEF Put
<1>6. Shifts(x) /\ Poses(x) /\ SameLink(x)
  BY <1>1, <1>2, <1>3, <1>5, CoAssumption
  DEF Shifts, Recorded, Awaited, Poses, Posture, Past,
      SameLink, Active, IsCoroutine
<1>7. ~InQueue(x) /\ mode # "done" /\ mode' # "done"
  BY <1>1, <1>2, <1>4, FreeOfQueue
<1>8. Ready'
  BY <1>1, <1>4, <1>5 DEF Ready
<1> QED
  BY <1>3, <1>4, <1>5, <1>6, <1>7, <1>8, OneMoves

\* A call that suspends the coroutine that runs, at the place of r
LEMMA CoroSuspends ==
    ASSUME TypeInv, CoroInv, mode = "lua", NEW STATE r, co' = Put(co, cur, r),
           Again, r.kind = co[cur].kind, r.status = "running", r.ref = co[cur].ref,
           r.parent = co[cur].parent, r.waited = co[cur].waited,
           r.zombies = co[cur].zombies,
           \/ /\ UNCHANGED posted /\ r.at = "io"
              /\ \E op \in {"op", "subreq"} : r.pending = {op}
           \/ posted' = Append(posted, cur) /\ r.at = "yield" /\ r.pending = {}
    PROVE  Works
<1>1. /\ cur \in Co /\ Posture(co[cur]) /\ Recorded(co[cur])
      /\ co[cur].status = "running" /\ co[cur].at = "run"
      /\ co[cur].kind # "none" /\ co[cur].parent # cur /\ ~InQueue(cur)
      /\ ~Past(co[cur])
  BY RunsCoro
<1>2. co'[cur] = r /\ mode' = "posted"
  BY <1>1 DEF Put, Again
<1>3. Shifts(cur)
  BY <1>1, <1>2 DEF Shifts, Recorded, Awaited, Alive
<1>4. Posture(r)
  BY <1>1 DEF Posture
<1>5. Poses(cur)
  BY <1>1, <1>2, <1>4 DEF Poses
<1>6. SameLink(cur)
  BY <1>1, <1>2 DEF SameLink, Active, IsCoroutine
<1>7. Ready'
  BY <1>2 DEF Ready
<1> QED
  BY <1>1, <1>2, <1>3, <1>5, <1>6, <1>7, OneMoves

LEMMA CoroYieldThread ==
    ASSUME TypeInv, CoroInv, YieldThread
    PROVE  Works
<1> DEFINE r == [co[cur] EXCEPT !.status = "running", !.at = "yield"]
<1>1. /\ co \in [Co -> CoCtx] /\ cur \in Co /\ co[cur] \in CoCtx
      /\ mode = "lua" /\ co[cur].pending = {}
  BY RunsCoro DEF YieldThread, Calls
<1>2. /\ r.kind = co[cur].kind /\ r.parent = co[cur].parent
      /\ r.status = "running" /\ r.at = "yield" /\ r.ref = co[cur].ref
      /\ r.pending = {} /\ r.waited = co[cur].waited
      /\ r.zombies = co[cur].zombies
  BY <1>1 DEF CoCtx
<1>3. co' = Put(co, cur, r) /\ Again /\ posted' = Append(posted, cur)
  BY <1>1 DEF YieldThread, Put
<1> HIDE DEF r
<1> QED
  BY <1>1, <1>2, <1>3, CoroSuspends

LEMMA CoroIO ==
    ASSUME TypeInv, CoroInv, NEW op \in {"op", "subreq"},
           op = "op" => Sleep, op = "subreq" => Capture
    PROVE  Works
<1> DEFINE r == [co[cur] EXCEPT !.pending = @ \cup {op}, !.at = "io"]
<1>1. /\ co \in [Co -> CoCtx] /\ cur \in Co /\ co[cur] \in CoCtx
      /\ mode = "lua" /\ co[cur].pending = {} /\ co[cur].status = "running"
  BY RunsCoro DEF Sleep, Capture, Calls
<1>2. /\ r.kind = co[cur].kind /\ r.parent = co[cur].parent
      /\ r.status = "running" /\ r.at = "io" /\ r.ref = co[cur].ref
      /\ r.pending = {op} /\ r.waited = co[cur].waited
      /\ r.zombies = co[cur].zombies
  BY <1>1 DEF CoCtx
<1>3. co' = Put(co, cur, r) /\ Again /\ UNCHANGED posted
  BY <1>1 DEF Sleep, Capture, Put
<1> HIDE DEF r
<1> QED
  BY <1>1, <1>2, <1>3, CoroSuspends

LEMMA CoroSpawn ==
    ASSUME TypeInv, CoroInv, NEW t \in Co, Spawn(t)
    PROVE  Works
<1> DEFINE fresh == [FreshCo EXCEPT !.kind = "thread", !.ref = TRUE,
                                    !.status = "running", !.parent = cur,
                                    !.at = "run"]
           q == [co[cur] EXCEPT !.at = "spawn"]
           X == {cur, t}
<1>1. /\ co \in [Co -> CoCtx] /\ cur \in Co /\ mode = "lua"
      /\ co[cur] \in CoCtx /\ Posture(co[cur]) /\ Recorded(co[cur])
      /\ co[cur].status = "running" /\ co[cur].at = "run"
      /\ co[cur].pending = {} /\ co[cur].kind # "none"
      /\ co[cur].parent # cur /\ ~InQueue(cur) /\ ~Past(co[cur])
  BY RunsCoro DEF Spawn, Calls
<1>2. /\ co[t].kind = "none" /\ t # cur /\ co[t].status = "suspended"
      /\ Posture(co[t]) /\ co[t].at # "wait"
  BY <1>1 DEF Spawn, Unborn, CoroInv, Going, Posture
<1>3. /\ fresh.kind = "thread" /\ fresh.status = "running" /\ fresh.ref
      /\ fresh.parent = cur /\ fresh.pending = {} /\ fresh.at = "run"
      /\ ~fresh.waited /\ fresh.zombies = {}
  BY DEF FreshCo
<1>4. /\ q.kind = co[cur].kind /\ q.parent = co[cur].parent
      /\ q.status = "running" /\ q.at = "spawn" /\ q.ref = co[cur].ref
      /\ q.pending = {} /\ q.waited = co[cur].waited
      /\ q.zombies = co[cur].zombies
  BY <1>1 DEF CoCtx
<1>5. /\ co' = [co EXCEPT ![cur].at = "spawn", ![t] = fresh]
      /\ posted' = Append(posted, cur) /\ mode' = mode /\ cur' = t
  BY DEF Spawn
<1> HIDE DEF fresh
<1>6. /\ co'[t] = fresh /\ co'[cur] = q
      /\ \A c \in Co : c \notin {cur, t} => co'[c] = co[c]
  BY <1>1, <1>2, <1>5
<1> HIDE DEF q
<1>7. \A c \in Co : c \notin {cur, t} => Still(co[c], co'[c]) /\ Quiet(co[c], co'[c])
  BY <1>6, StillSame, CalmQuiet DEF Still
<1>8. ~InQueue(t) /\ mode # "done"
  BY <1>1, <1>2, FreeOfQueue
<1>9. Queues(X)
  BY <1>1, <1>4, <1>5, <1>6, <1>8 DEF Queues
<1>10. Shifts(cur) /\ Shifts(t)
  BY <1>1, <1>2, <1>3, <1>4, <1>6 DEF Shifts, Recorded, Awaited, Alive
<1>11. Posture(q) /\ Posture(fresh)
  BY <1>1, <1>3, <1>4 DEF Posture
<1>12. Poses(cur) /\ Poses(t)
  <2>1. Poses(cur)
    BY <1>1, <1>4, <1>6, <1>11 DEF Poses
  <2>2. Poses(t)
    BY <1>1, <1>2, <1>3, <1>6, <1>11 DEF Poses, Past
  <2> QED
    BY <2>1, <2>2
<1>13. SameLink(cur) /\ SameLink(t)
  BY <1>1, <1>2, <1>3, <1>4, <1>6 DEF SameLink, Active, IsCoroutine
<1>14. LinksRight(co)'
  <2>1. \A c \in Co : SameLink(c)
    BY <1>7, <1>13, CalmLink DEF Still
  <2> QED
    BY <1>8, <2>1, LinksKept
<1>15. Ready'
  BY <1>1, <1>3, <1>5, <1>6 DEF Ready
<1>16. /\ X \subseteq Co /\ \A x \in X : Shifts(x) /\ Poses(x)
       /\ \A c \in Co : c \notin X => /\ Quiet(co[c], co'[c])
                                      /\ Still(co[c], co'[c])
  BY <1>1, <1>7, <1>10, <1>12
<1> HIDE DEF X
<1>17. Parked'
  BY <1>1, <1>5, <1>8, <1>9, <1>16, Parks
<1>18. CoroInv'
  BY <1>8, <1>9, <1>14, <1>15, <1>16, <1>17, Goes
<1>19. ASSUME NEW c \in Co, co[c].at # "run", co'[c].at = "run"
       PROVE  HasCause(c)
  <2>1. c = t
    BY <1>1, <1>6, <1>19, <1>4
  <2> QED
    BY <1>2, <2>1 DEF HasCause, Posture
<1> QED
  BY <1>18, <1>19 DEF Works

\* Control goes to a context that stood elsewhere than in ngx.thread.wait
LEMMA CoroWakes ==
    ASSUME TypeInv, CoroInv, mode # "done", NEW STATE c, c \in Co, NEW STATE r,
           co' = Put(co, c, r), mode' = "lua", cur' = c,
           r.at = "run", r.status = "running",
           r.kind = co[c].kind, r.parent = co[c].parent, r.ref = co[c].ref,
           r.waited = co[c].waited, r.pending = {}, r.zombies = co[c].zombies,
           \/ co[c].status = "running" /\ co[c].at \in {"io", "spawn", "yield"}
           \/ co[c].status = "suspended" /\ co[c].kind = "thread",
           \/ UNCHANGED posted /\ ~InQueue(c)
           \/ posted # <<>> /\ posted' = Tail(posted) /\ c = Head(posted),
           HasCause(c)
    PROVE  Works
<1>1. co'[c] = r
  BY DEF Put
<1>2. /\ Posture(co[c]) /\ Recorded(co[c]) /\ co[c].parent # c
      /\ co[c].at \notin {"wait", "left"}
  BY DEF CoroInv, Going, Parked, Posture
<1>3. Shifts(c)
  BY <1>1, <1>2 DEF Shifts, Recorded, Awaited, Alive
<1>4. Posture(r)
  BY <1>2 DEF Posture
<1>5. Poses(c)
  BY <1>1, <1>2, <1>4 DEF Poses, Past
<1>6. SameLink(c)
  BY <1>1, <1>2 DEF SameLink, Active, IsCoroutine
<1>7. Ready'
  BY <1>1 DEF Ready
<1> QED
  BY <1>1, <1>3, <1>5, <1>6, <1>7, OneMoves

LEMMA CoroPosted ==
    ASSUME TypeInv, CoroInv, RunPosted \/ PostedDrained
    PROVE  Works
<1>1. co \in [Co -> CoCtx] /\ posted \in Seq(Co) /\ mode = "posted"
  BY DEF TypeInv, TypeOK, RunPosted, PostedDrained
<1>2. CASE PostedDrained
  <2>1. \A c \in Co : Still(co[c], co'[c])
    BY <1>2, StillSame DEF PostedDrained
  <2>2. mode' = "idle" /\ UNCHANGED posted
    BY <1>2 DEF PostedDrained
  <2> QED
    BY <1>1, <2>1, <2>2, NobodyMoves DEF Ready
<1>3. CASE RunPosted
  <2> DEFINE p == Head(posted)
             r == [co[p] EXCEPT !.at = "run"]
  <2>1. posted # <<>> /\ posted' = Tail(posted)
    BY <1>3 DEF RunPosted
  <2>2. p \in Co /\ p = posted[1] /\ 1 \in DOMAIN posted
    BY <1>1, <2>1
  <2>3. /\ co[p].status = "running" /\ co[p].at \in {"spawn", "yield"}
        /\ co[p].pending = {}
    BY <1>1, <2>2 DEF CoroInv, Going, Parked, QueueRight, Recorded
  <2>4. co' = Continue(co, p) /\ mode' = "lua" /\ cur' = p
    BY <1>3, <2>3 DEF RunPosted
  <2>5. HasCause(p)
    BY <2>1, <2>3 DEF HasCause
  <2>6. p = Head(posted)
    OBVIOUS
  <2> HIDE DEF p
  <2>7. /\ co' = Put(co, p, r) /\ r.at = "run" /\ r.status = "running"
        /\ r.kind = co[p].kind /\ r.parent = co[p].parent /\ r.ref = co[p].ref
        /\ r.waited = co[p].waited /\ r.pending = {}
        /\ r.zombies = co[p].zombies
    <3>1. co[p] \in CoCtx
      BY <1>1, <2>2
    <3>2. r.ref = co[p].ref
      BY <3>1 DEF CoCtx
    <3> QED
      BY <1>1, <2>2, <2>3, <2>4, <3>2, ContinueIs
  <2> HIDE DEF r
  <2> QED
    BY <1>1, <2>1, <2>2, <2>3, <2>4, <2>5, <2>6, <2>7, CoroWakes
<1> QED
  BY <1>2, <1>3

LEMMA CoroEvent ==
    ASSUME TypeInv, CoroInv, NEW c \in Co, OpDone(c) \/ SubrequestDone(c)
    PROVE  Works
<1> DEFINE op == IF OpDone(c) THEN "op" ELSE "subreq"
           q == [co[c] EXCEPT !.pending = @ \ {op}]
           s == [co EXCEPT ![c] = q]
           r == [s[c] EXCEPT !.at = "run"]
<1>1. /\ co \in [Co -> CoCtx] /\ co[c] \in CoCtx /\ mode = "idle"
      /\ Posture(co[c]) /\ Recorded(co[c])
  BY DEF TypeInv, TypeOK, CoroInv, Going, Parked, OpDone, SubrequestDone
<1>2. /\ co[c].pending = {op} /\ co[c].at = "io" /\ co[c].status = "running"
  BY <1>1 DEF Posture, Recorded, OpDone, SubrequestDone
<1>3. co' = Continue(s, c) /\ mode' = "lua" /\ cur' = c /\ UNCHANGED posted
  BY <1>1 DEF OpDone, SubrequestDone
<1> HIDE DEF op
<1>4. /\ q \in CoCtx /\ q.kind = co[c].kind /\ q.parent = co[c].parent
      /\ q.status = "running" /\ q.at = "io" /\ q.pending = {}
      /\ q.waited = co[c].waited /\ q.ref = co[c].ref
      /\ q.zombies = co[c].zombies
  BY <1>1, <1>2 DEF CoCtx
<1> HIDE DEF q
<1>5. s \in [Co -> CoCtx] /\ s[c] = q /\ \A x \in Co : x # c => s[x] = co[x]
  BY <1>1, <1>4
<1> HIDE DEF s
<1>6. /\ co' = Put(s, c, r) /\ r.at = "run" /\ r.status = "running"
      /\ r.kind = co[c].kind /\ r.parent = co[c].parent
      /\ r.waited = co[c].waited /\ r.pending = {}
      /\ r.zombies = co[c].zombies
  BY <1>3, <1>4, <1>5, ContinueIs
<1>7. r.ref = co[c].ref
  BY <1>4, <1>5 DEF CoCtx
<1> HIDE DEF r
<1>8. co' = Put(co, c, r)
  BY <1>5, <1>6 DEF Put
<1>9. co'[c].pending = {}
  BY <1>6, <1>8 DEF Put
<1>10. ~InQueue(c) /\ HasCause(c)
  BY <1>1, <1>2, <1>9, FreeOfQueue DEF HasCause
<1> QED
  BY <1>1, <1>2, <1>3, <1>6, <1>7, <1>8, <1>10, CoroWakes

\* The handler ends and nobody moves
LEMMA CoroDone ==
    ASSUME TypeInv, CoroInv, UNCHANGED posted, mode' = "done",
           \A c \in Co : Quiet(co[c], co'[c]) /\ "op" \notin co'[c].pending
    PROVE  Works
<1> DEFINE X == {}
<1>1. /\ X \subseteq Co /\ \A x \in X : Shifts(x)
      /\ \A c \in Co : c \notin X => Quiet(co[c], co'[c])
      /\ Queues(X)
  BY DEF Queues
<1> HIDE DEF X
<1>2. Parked'
  BY <1>1, Parks
<1> QED
  BY <1>2 DEF Works, CoroInv, Ready, Quiet

LEMMA CoroClientAbort ==
    ASSUME TypeInv, CoroInv, ClientAbort
    PROVE  Works
<1>1. co \in [Co -> CoCtx] /\ mode = "idle" /\ UNCHANGED posted
  BY DEF TypeInv, TypeOK, ClientAbort
<1>2. CASE FinalizeThreads(co, uthreads)
  BY <1>1, <1>2, QuietFinalize, CoroDone
<1>3. CASE /\ onAbort # NoCo /\ co[onAbort].status = "suspended"
           /\ co' = Continue([co EXCEPT ![onAbort].status = "running"], onAbort)
           /\ mode' = "lua" /\ cur' = onAbort
  <2> DEFINE a == onAbort
             q == [co[a] EXCEPT !.status = "running"]
             s == [co EXCEPT ![a] = q]
             r == [s[a] EXCEPT !.at = "run"]
  <2>1. /\ a \in Co /\ co[a].kind = "thread" /\ co[a] \in CoCtx
        /\ Posture(co[a]) /\ co[a].status = "suspended" /\ Recorded(co[a])
    BY <1>1, <1>3 DEF TypeInv, TypeOK, CoroInv, Going, Parked
  <2>2. /\ co[a].pending = {} /\ co[a].at \in {"start", "yield"}
    BY <2>1 DEF Posture, Recorded
  <2>3. co' = Continue(s, a) /\ cur' = a
    BY <1>1, <1>3
  <2> HIDE DEF a
  <2>4. /\ q \in CoCtx /\ q.kind = co[a].kind /\ q.parent = co[a].parent
        /\ q.status = "running" /\ q.at \in {"start", "yield"} /\ q.pending = {}
        /\ q.waited = co[a].waited /\ q.ref = co[a].ref
        /\ q.zombies = co[a].zombies
    BY <2>1, <2>2 DEF CoCtx, Statuses
  <2> HIDE DEF q
  <2>5. s \in [Co -> CoCtx] /\ s[a] = q /\ \A x \in Co : x # a => s[x] = co[x]
    BY <1>1, <2>1, <2>4
  <2> HIDE DEF s
  <2>6. /\ co' = Put(s, a, r) /\ r.at = "run" /\ r.status = "running"
        /\ r.kind = co[a].kind /\ r.parent = co[a].parent
        /\ r.waited = co[a].waited /\ r.pending = {}
        /\ r.zombies = co[a].zombies
    BY <2>1, <2>3, <2>4, <2>5, ContinueIs
  <2>7. r.ref = co[a].ref
    BY <2>4, <2>5 DEF CoCtx
  <2> HIDE DEF r
  <2>8. co' = Put(co, a, r)
    BY <2>5, <2>6 DEF Put
  <2>9. ~InQueue(a) /\ HasCause(a)
    BY <1>1, <2>1, <2>2, FreeOfQueue DEF HasCause
  <2> QED
    BY <1>1, <1>3, <2>1, <2>2, <2>3, <2>6, <2>7, <2>8, <2>9, CoroWakes
<1> QED
  BY <1>2, <1>3 DEF ClientAbort

LEMMA CoroExit ==
    ASSUME TypeInv, CoroInv, NEW forced, Exit(forced)
    PROVE  Works
<1>1. mode' = "done"
  BY DEF Exit, FinalizeThreads
<1> QED
  BY <1>1, ExitMoves, CoroDone

LEMMA CoroResume ==
    ASSUME TypeInv, CoroInv, NEW x \in Co, Resume(x)
    PROVE  Works
<1> DEFINE r == [co[cur] EXCEPT !.status = "normal", !.at = "resume"]
           s == [co EXCEPT ![cur] = r]
           q == [s[x] EXCEPT !.status = "running", !.parent = cur]
           s2 == [s EXCEPT ![x] = q]
           y == [s2[x] EXCEPT !.at = "run"]
           X == {cur, x}
<1>1. /\ co \in [Co -> CoCtx] /\ cur \in Co /\ mode = "lua"
      /\ co[cur] \in CoCtx /\ Posture(co[cur]) /\ Recorded(co[cur])
      /\ co[cur].status = "running" /\ co[cur].at = "run"
      /\ co[cur].pending = {} /\ co[cur].kind # "none"
      /\ co[cur].parent # cur /\ ~InQueue(cur) /\ ~Past(co[cur])
  BY RunsCoro DEF Resume
<1>2. /\ co[x].kind \in {"coro", "wrap"} /\ x # cur /\ co[x] \in CoCtx
      /\ co[x].status = "suspended" /\ Posture(co[x]) /\ Recorded(co[x])
      /\ co[x].at \in {"start", "yield"} /\ co[x].pending = {} /\ ~co[x].waited
  BY <1>1 DEF Resume, Resumable, CoroInv, Going, Parked, Posture, Recorded
<1>3. /\ r \in CoCtx /\ r.kind = co[cur].kind /\ r.parent = co[cur].parent
      /\ r.status = "normal" /\ r.at = "resume" /\ r.ref = co[cur].ref
      /\ r.pending = {} /\ r.waited = co[cur].waited
      /\ r.zombies = co[cur].zombies
  BY <1>1 DEF CoCtx, Statuses, Points
<1>4. co' = Continue(s2, x)
  BY <1>1 DEF Resume
<1>5. mode' = mode /\ cur' = x /\ posted' = posted
  BY DEF Resume
<1> HIDE DEF r
<1>6. /\ s \in [Co -> CoCtx] /\ s[cur] = r /\ s[x] = co[x]
      /\ \A c \in Co : c # cur => s[c] = co[c]
  BY <1>1, <1>2, <1>3
<1> HIDE DEF s
<1>7. /\ q \in CoCtx /\ q.kind = co[x].kind /\ q.parent = cur
      /\ q.status = "running" /\ q.at = co[x].at /\ q.ref = co[x].ref
      /\ q.pending = {} /\ ~q.waited /\ q.zombies = co[x].zombies
  BY <1>1, <1>2, <1>6 DEF CoCtx, Statuses
<1> HIDE DEF q
<1>8. /\ s2 \in [Co -> CoCtx] /\ s2[x] = q
      /\ \A c \in Co : c # x => s2[c] = s[c]
  BY <1>6, <1>7
<1> HIDE DEF s2
<1>9. /\ co' = Put(s2, x, y) /\ y.at = "run" /\ y.status = "running"
      /\ y.kind = co[x].kind /\ y.parent = cur
      /\ ~y.waited /\ y.pending = {} /\ y.zombies = co[x].zombies
  BY <1>2, <1>4, <1>7, <1>8, ContinueIs
<1>10. y.ref = co[x].ref
  BY <1>7, <1>8 DEF CoCtx
<1> HIDE DEF y
<1>11. /\ co'[x] = y /\ co'[cur] = r
       /\ \A c \in Co : c \notin {cur, x} => co'[c] = co[c]
  BY <1>1, <1>2, <1>6, <1>8, <1>9 DEF Put
<1>12. \A c \in Co : c \notin {cur, x} => Still(co[c], co'[c]) /\ Quiet(co[c], co'[c])
  BY <1>11, StillSame, CalmQuiet DEF Still
<1>13. ~InQueue(x) /\ mode # "done" /\ mode' # "done"
  BY <1>1, <1>2, <1>5, FreeOfQueue
<1>14. Queues(X)
  BY <1>1, <1>5, <1>13 DEF Queues
<1>15. Shifts(cur) /\ Shifts(x)
  BY <1>1, <1>2, <1>3, <1>9, <1>11 DEF Shifts, Recorded, Awaited, Alive
<1>16. Posture(r) /\ Posture(y)
  BY <1>1, <1>2, <1>3, <1>9, <1>10 DEF Posture
<1>17. Poses(cur) /\ Poses(x)
  <2>1. Poses(cur)
    BY <1>1, <1>3, <1>11, <1>16 DEF Poses
  <2>2. Poses(x)
    BY <1>1, <1>2, <1>9, <1>11, <1>16 DEF Poses, Past
  <2> QED
    BY <2>1, <2>2
<1>18. LinksRight(co)'
  <2>1. \A c \in Co : c \notin {cur, x} => SameLink(c)
    BY <1>12, CalmLink DEF Still
  <2>2. /\ Active(co'[x]) /\ co'[x].parent = cur /\ co'[x].status # "normal"
        /\ Active(co'[cur]) <=> Active(co[cur])
        /\ co'[cur].parent = co[cur].parent /\ co'[cur].status = "normal"
    BY <1>1, <1>2, <1>3, <1>9, <1>11 DEF Active, IsCoroutine
  <2> QED
    BY <1>1, <1>2, <2>1, <2>2, LinksGrow
<1>19. Ready'
  BY <1>1, <1>5, <1>9, <1>11 DEF Ready
<1>20. /\ X \subseteq Co /\ \A c \in X : Shifts(c) /\ Poses(c)
       /\ \A c \in Co : c \notin X => /\ Quiet(co[c], co'[c])
                                      /\ Still(co[c], co'[c])
  BY <1>1, <1>12, <1>15, <1>17
<1> HIDE DEF X
<1>21. Parked'
  BY <1>13, <1>14, <1>20, Parks
<1>22. CoroInv'
  BY <1>13, <1>14, <1>18, <1>19, <1>20, <1>21, Goes
<1>23. ASSUME NEW c \in Co, co[c].at # "run", co'[c].at = "run"
       PROVE  HasCause(c)
  <2>1. c = x
    BY <1>1, <1>3, <1>11, <1>23
  <2> QED
    BY <1>2, <2>1 DEF HasCause
<1> QED
  BY <1>22, <1>23 DEF Works

\* Control goes back to the coroutine that resumed the one that runs, which
\* yields, has ended, or has let an error out
LEMMA CoroBack ==
    ASSUME TypeInv, CoroInv, mode \in {"lua", "raise"}, IsCoroutine(co[cur]),
           UNCHANGED posted, mode' \in {"lua", "raise"},
           cur' = co[cur].parent,
           \A c \in Co : c \notin {cur, co[cur].parent} => Still(co[c], co'[c]),
           NEW STATE q, co'[cur] = q, Posture(q), q.kind = co[cur].kind,
           q.parent = co[cur].parent, q.waited = co[cur].waited,
           q.pending = {}, q.zombies \subseteq co[cur].zombies,
           q.status # "normal",
           q.at = "left" \/ q.status \in {"suspended", "dead"}, q.at # "run",
           NEW STATE r, co'[co[cur].parent] = r,
           r.status = "running", r.kind = co[co[cur].parent].kind,
           r.parent = co[co[cur].parent].parent, r.ref = co[co[cur].parent].ref,
           r.waited = co[co[cur].parent].waited,
           r.pending = co[co[cur].parent].pending,
           r.zombies \subseteq co[co[cur].parent].zombies,
           r.at = IF mode' = "lua" THEN "run" ELSE "resume"
    PROVE  Works
<1> PICK p : p = co[cur].parent
  OBVIOUS
<1> DEFINE X == {cur, p}
<1>1. /\ co \in [Co -> CoCtx] /\ cur \in Co /\ mode # "done" /\ mode' # "done"
      /\ co[cur].status = "running" /\ co[cur].at \in {"run", "resume"}
      /\ Active(co[cur]) /\ Recorded(co[cur])
  BY Runs DEF CoroInv, Ready, Parked, Active
<1>2. /\ p \in Co /\ p # cur /\ co[p].status = "normal" /\ co[p].at = "resume"
      /\ Posture(co[p]) /\ Recorded(co[p]) /\ co[p].parent # p
  BY <1>1, ActiveParent DEF CoroInv, Going, Parked
<1>3. co[p].pending = {} /\ ~co[cur].waited /\ co[p].kind # "none"
  BY <1>1, <1>2 DEF Recorded, Posture, Active, IsCoroutine
<1>4. \A c \in Co : c \notin X => Still(co[c], co'[c]) /\ Quiet(co[c], co'[c])
  BY CalmQuiet DEF Still
<1>5. ~InQueue(cur) /\ ~InQueue(p)
  BY <1>1, <1>2, FreeOfQueue
<1>6. Queues(X)
  BY <1>5 DEF Queues
<1>7. Shifts(cur) /\ Shifts(p)
  BY <1>1, <1>2, <1>3 DEF Shifts, Recorded, Awaited, Alive
<1>8. Posture(r)
  BY <1>2, <1>3 DEF Posture
<1>9. Poses(cur) /\ Poses(p)
  <2>1. Poses(cur)
    BY <1>2 DEF Poses, Past, IsCoroutine
  <2>2. Poses(p)
    BY <1>2, <1>8 DEF Poses, Past
  <2> QED
    BY <2>1, <2>2
<1>10. LinksRight(co)'
  <2>1. \A c \in Co : c \notin {cur, co[cur].parent} => SameLink(c)
    BY CalmLink DEF Still
  <2>2. /\ ~Active(co'[cur]) /\ co'[cur].status # "normal"
        /\ co[cur].status # "normal"
        /\ Active(co'[co[cur].parent]) <=> Active(co[co[cur].parent])
        /\ co'[co[cur].parent].parent = co[co[cur].parent].parent
        /\ co'[co[cur].parent].status # "normal"
    BY <1>1, <1>2 DEF Active, IsCoroutine
  <2> QED
    BY <1>1, <2>1, <2>2, LinksShrink
<1>11. Ready'
  BY DEF Ready
<1>12. /\ X \subseteq Co /\ \A c \in X : Shifts(c) /\ Poses(c)
       /\ \A c \in Co : c \notin X => /\ Quiet(co[c], co'[c])
                                      /\ Still(co[c], co'[c])
  BY <1>1, <1>2, <1>4, <1>7, <1>9
<1>13. ASSUME NEW c \in Co, co[c].at # "run", co'[c].at = "run"
       PROVE  HasCause(c)
  <2>1. c = p
    BY <1>4, <1>13 DEF Still, Calm
  <2> QED
    BY <1>2, <2>1 DEF HasCause
<1> HIDE DEF X
<1>14. Parked'
  BY <1>1, <1>6, <1>12, Parks
<1>15. CoroInv'
  BY <1>1, <1>6, <1>10, <1>11, <1>12, <1>14, Goes
<1> QED
  BY <1>13, <1>15 DEF Works

\* A coroutine that runs has a parent that waits for it
LEMMA RunningParent ==
    ASSUME TypeInv, CoroInv, mode \in {"lua", "raise"}, IsCoroutine(co[cur])
    PROVE  /\ cur \in Co /\ co[cur].parent \in Co /\ co[cur].parent # cur
           /\ co[co[cur].parent].status = "normal"
           /\ co[co[cur].parent].at = "resume"
<1>1. cur \in Co /\ mode # "done"
  BY Runs
<1>2. Active(co[cur])
  BY DEF CoroInv, Ready, Active
<1> QED
  BY <1>1, <1>2, ActiveParent

LEMMA CoroYieldCoroutine ==
    ASSUME TypeInv, CoroInv, YieldCoroutine
    PROVE  Works
<1> PICK p : p = co[cur].parent
  OBVIOUS
<1> DEFINE q == [co[cur] EXCEPT !.status = "suspended", !.at = "yield"]
           s == [co EXCEPT ![cur] = q]
           r == [s[p] EXCEPT !.status = "running"]
           s2 == [s EXCEPT ![p] = r]
           z == [s2[p] EXCEPT !.at = "run"]
<1>1. /\ co \in [Co -> CoCtx] /\ cur \in Co /\ mode = "lua"
      /\ co[cur] \in CoCtx /\ Posture(co[cur]) /\ co[cur].pending = {}
      /\ co[cur].kind # "none"
  BY RunsCoro DEF YieldCoroutine, Calls
<1>2. IsCoroutine(co[cur])
  BY <1>1 DEF YieldCoroutine, IsThread, IsCoroutine, CoCtx, Kinds
<1>3. /\ p \in Co /\ p # cur /\ co[p].status = "normal" /\ co[p].at = "resume"
      /\ co[p] \in CoCtx
  BY <1>1, <1>2, RunningParent
<1>4. /\ q \in CoCtx /\ q.kind = co[cur].kind /\ q.parent = p
      /\ q.status = "suspended" /\ q.at = "yield" /\ q.ref = co[cur].ref
      /\ q.pending = {} /\ q.waited = co[cur].waited
      /\ q.zombies = co[cur].zombies
  BY <1>1 DEF CoCtx, Statuses, Points
<1>5. co' = Continue(s2, p)
  <2>1. YieldTo(p) = s2
    BY <1>1, <1>3 DEF YieldTo
  <2> HIDE DEF s2
  <2> QED
    BY <2>1 DEF YieldCoroutine
<1>6. mode' = "lua" /\ cur' = p /\ UNCHANGED posted
  BY <1>1 DEF YieldCoroutine
<1> HIDE DEF q
<1>7. /\ s \in [Co -> CoCtx] /\ s[cur] = q /\ s[p] = co[p]
      /\ \A c \in Co : c # cur => s[c] = co[c]
  BY <1>1, <1>3, <1>4
<1> HIDE DEF s
<1>8. /\ r \in CoCtx /\ r.kind = co[p].kind /\ r.parent = co[p].parent
      /\ r.status = "running" /\ r.at = "resume" /\ r.ref = co[p].ref
      /\ r.pending = co[p].pending /\ r.waited = co[p].waited
      /\ r.zombies = co[p].zombies
  BY <1>3, <1>7 DEF CoCtx, Statuses
<1> HIDE DEF r
<1>9. /\ s2 \in [Co -> CoCtx] /\ s2[p] = r
      /\ \A c \in Co : c # p => s2[c] = s[c]
  BY <1>3, <1>7, <1>8
<1> HIDE DEF s2
<1>10. /\ co' = Put(s2, p, z) /\ z.at = "run" /\ z.status = "running"
       /\ z.kind = co[p].kind /\ z.parent = co[p].parent
       /\ z.waited = co[p].waited /\ z.pending = co[p].pending
       /\ z.zombies = co[p].zombies
  BY <1>3, <1>5, <1>8, <1>9, ContinueIs
<1>11. z.ref = co[p].ref
  BY <1>8, <1>9 DEF CoCtx
<1> HIDE DEF z
<1>12. /\ co'[p] = z /\ co'[cur] = q
       /\ \A c \in Co : c \notin {cur, p} => co'[c] = co[c]
  BY <1>1, <1>3, <1>7, <1>9, <1>10 DEF Put
<1>13. \A c \in Co : c \notin {cur, p} => Still(co[c], co'[c])
  BY <1>12, StillSame
<1>14. Posture(q)
  BY <1>1, <1>2, <1>4 DEF Posture, IsCoroutine
<1> QED
  BY <1>1, <1>2, <1>4, <1>6, <1>10, <1>11, <1>12, <1>13, <1>14, CoroBack

-----------------------------------------------------------------------------
(* The end of a coroutine.                                                  *)

\* The coroutine that runs has left the Lua VM, or stands in a call through
\* which an error passed: so s says of it before anybody else is told
HasLeft(s) ==
    /\ s \in [Co -> CoCtx]
    /\ \A x \in Co : x # cur => Still(co[x], s[x])
    /\ s[cur].kind = co[cur].kind /\ s[cur].parent = co[cur].parent
    /\ s[cur].waited = co[cur].waited /\ s[cur].ref = co[cur].ref
    /\ s[cur].zombies \subseteq co[cur].zombies /\ s[cur].pending = {}
    /\ \/ s[cur].at = "end" /\ s[cur].status = "dead"
       \/ s[cur].at = "left" /\ s[cur].status = "running"

LEMMA StillDel ==
    ASSUME NEW s \in [Co -> CoCtx], NEW D, \A x \in D : Past(s[x])
    PROVE  \A x \in Co : Still(s[x], DelThreads(s, D)[x])
<1> TAKE x \in Co
<1> DEFINE r == [s[x] EXCEPT !.ref = FALSE, !.status = "dead"]
<1>1. /\ r.at = s[x].at /\ r.kind = s[x].kind /\ r.parent = s[x].parent
      /\ r.waited = s[x].waited /\ r.pending = s[x].pending
      /\ r.zombies = s[x].zombies /\ r.status = "dead"
  BY DEF CoCtx
<1>2. DelThreads(s, D)[x] = IF x \in D /\ s[x].ref THEN r ELSE s[x]
  BY DEF DelThreads
<1> HIDE DEF r
<1> QED
  BY <1>1, <1>2 DEF Past, Still, Calm

\* What holds of the coroutine that has the CPU, also while an error passes
LEMMA HoldsCoro ==
    ASSUME TypeInv, CoroInv, mode \in {"lua", "raise"}
    PROVE  /\ co \in [Co -> CoCtx] /\ cur \in Co /\ cur # NoCo
           /\ co[cur] \in CoCtx /\ Posture(co[cur]) /\ Recorded(co[cur])
           /\ co[cur].status = "running" /\ co[cur].at \in {"run", "resume"}
           /\ co[cur].pending = {} /\ co[cur].kind # "none"
           /\ co[cur].parent # cur /\ ~InQueue(cur)
           /\ \A z \in co[cur].zombies : Past(co[z])
           /\ co[cur].kind \in {"entry", "thread"} => co[cur].ref
<1>1. /\ co \in [Co -> CoCtx] /\ cur \in Co /\ cur # NoCo /\ co[cur] \in CoCtx
  BY Runs
<1>2. /\ Posture(co[cur]) /\ Recorded(co[cur]) /\ co[cur].parent # cur
      /\ co[cur].status = "running" /\ co[cur].at \in {"run", "resume"}
      /\ \A z \in co[cur].zombies : Past(co[z])
  BY <1>1 DEF CoroInv, Going, Parked, Ready
<1>3. /\ co[cur].pending = {} /\ co[cur].kind # "none"
      /\ co[cur].kind \in {"entry", "thread"} => co[cur].ref
  BY <1>2 DEF Posture, Recorded
<1>4. ~InQueue(cur)
  BY <1>2, FreeOfQueue
<1> QED
  BY <1>1, <1>2, <1>3, <1>4

\* The handler goes on without the thread that had the CPU
LEMMA CoroGone ==
    ASSUME TypeInv, CoroInv, mode \in {"lua", "raise"}, UNCHANGED posted,
           mode' = "posted", co[cur].kind \in {"entry", "thread"},
           \A x \in Co : x # cur => Calm(co[x], co'[x]) /\ Tends(x),
           co'[cur].at \in {"end", "left"}, co'[cur].kind = co[cur].kind,
           co'[cur].parent = co[cur].parent,
           co'[cur].waited => co[cur].waited, co'[cur].pending = {},
           co'[cur].zombies \subseteq co[cur].zombies,
           \/ co'[cur].status = "dead"
           \/ co'[cur].status = "zombie" /\ co[cur].kind = "thread"
    PROVE  Works
<1> DEFINE X == {cur}
<1>1. /\ cur \in Co /\ Posture(co[cur]) /\ Recorded(co[cur])
      /\ co[cur].status = "running" /\ co[cur].at \in {"run", "resume"}
      /\ co[cur].parent # cur /\ ~InQueue(cur)
  BY HoldsCoro
<1>2. Shifts(cur)
  BY <1>1 DEF Shifts, Recorded, Awaited, Alive
<1>3. Posture(co'[cur])
  BY DEF Posture
<1>4. Poses(cur)
  BY <1>1, <1>3 DEF Poses, Past
<1>5. LinksRight(co)'
  <2>1. SameLink(cur)
    BY <1>1 DEF SameLink, Active, IsCoroutine
  <2>2. \A x \in Co : SameLink(x)
    BY <2>1, CalmLink
  <2> QED
    BY <2>2, LinksKept
<1>6. /\ X \subseteq Co /\ \A x \in X : Shifts(x) /\ Poses(x)
      /\ \A x \in Co : x \notin X => /\ Quiet(co[x], co'[x])
                                     /\ Calm(co[x], co'[x]) /\ Tends(x)
      /\ Queues(X)
  BY <1>1, <1>2, <1>4, CalmQuiet DEF Queues
<1>7. Ready'
  BY DEF Ready
<1>8. \A c \in Co : ~(co[c].at # "run" /\ co'[c].at = "run")
  BY <1>1 DEF Calm
<1> HIDE DEF X
<1>9. Parked'
  BY <1>6, Parks
<1>10. CoroInv'
  BY <1>5, <1>6, <1>7, <1>9, GoesOn
<1> QED
  BY <1>8, <1>10 DEF Works

\* The handler ends with the coroutine that had the CPU
LEMMA CoroLast ==
    ASSUME TypeInv, CoroInv, mode \in {"lua", "raise"}, UNCHANGED posted,
           mode' = "done", NEW STATE s, HasLeft(s),
           \A x \in Co : Quiet(s[x], co'[x]) /\ "op" \notin co'[x].pending
    PROVE  Works
<1> DEFINE X == {cur}
<1>1. /\ cur \in Co /\ Recorded(co[cur]) /\ co[cur].status = "running"
      /\ co[cur].at \in {"run", "resume"} /\ ~InQueue(cur)
  BY HoldsCoro
<1>2. \A x \in Co : x # cur => Quiet(co[x], co'[x])
  <2> TAKE x \in Co
  <2> HAVE x # cur
  <2>1. Quiet(co[x], s[x]) /\ Quiet(s[x], co'[x])
    BY CalmQuiet DEF HasLeft, Still
  <2> QED
    BY <2>1, QuietTransitive
<1>3. /\ co'[cur].kind = co[cur].kind /\ co'[cur].parent = co[cur].parent
      /\ co'[cur].waited = co[cur].waited /\ co'[cur].pending = {}
      /\ co'[cur].at # "run"
  BY <1>1 DEF HasLeft, Quiet
<1>4. Shifts(cur)
  BY <1>1, <1>3 DEF Shifts, Recorded, Awaited, Alive
<1>5. /\ X \subseteq Co /\ \A x \in X : Shifts(x)
      /\ \A x \in Co : x \notin X => Quiet(co[x], co'[x])
      /\ Queues(X)
  BY <1>1, <1>2, <1>4 DEF Queues
<1>6. \A c \in Co : ~(co[c].at # "run" /\ co'[c].at = "run")
  BY <1>2, <1>3 DEF Quiet
<1> HIDE DEF X
<1>7. Parked'
  BY <1>5, Parks
<1> QED
  BY <1>6, <1>7 DEF Works, CoroInv, Ready

\* ngx_http_lua_del_thread on one context
LEMMA DelOne ==
    ASSUME NEW s \in [Co -> CoCtx], NEW c \in Co, s[c].ref
    PROVE  LET d == DelThreads(s, {c})
           IN  /\ d \in [Co -> CoCtx] /\ \A x \in Co : x # c => d[x] = s[x]
               /\ d[c].at = s[c].at /\ d[c].kind = s[c].kind
               /\ d[c].parent = s[c].parent /\ d[c].waited = s[c].waited
               /\ d[c].pending = s[c].pending /\ d[c].zombies = s[c].zombies
               /\ d[c].status = "dead" /\ ~d[c].ref
<1> DEFINE r == [s[c] EXCEPT !.ref = FALSE, !.status = "dead"]
<1>1. /\ r.at = s[c].at /\ r.kind = s[c].kind /\ r.parent = s[c].parent
      /\ r.waited = s[c].waited /\ r.pending = s[c].pending
      /\ r.zombies = s[c].zombies /\ r.status = "dead" /\ ~r.ref
  <2>1. s[c] \in CoCtx
    OBVIOUS
  <2> QED
    BY <2>1 DEF CoCtx
<1>2. /\ DelThreads(s, {c})[c] = r
      /\ \A x \in Co : x # c => DelThreads(s, {c})[x] = s[x]
  BY DEF DelThreads
<1>3. DelThreads(s, {c}) \in [Co -> CoCtx]
  BY DelThreadsShape DEF SameShape
<1> HIDE DEF r
<1> QED
  BY <1>1, <1>2, <1>3

\* What the end of thread c does to contexts s: it wakes the parent, becomes a
\* zombie or is deleted, or ends the handler
Woke(s, c, p) ==
    /\ Alive(s, p) /\ s[c].waited /\ mode' = "lua" /\ cur' = p
    /\ \A x \in Co : x \notin {c, p} => co'[x] = s[x]
    /\ co'[p].at = "run" /\ co'[p].status = "running"
    /\ co'[p].kind = s[p].kind /\ co'[p].parent = s[p].parent
    /\ co'[p].ref = s[p].ref /\ co'[p].waited = s[p].waited
    /\ co'[p].pending = s[p].pending /\ co'[p].zombies = s[p].zombies
    /\ co'[c].status = "dead"

Rests(s, c, p) ==
    /\ mode' = "posted"
    /\ \A x \in Co : x \notin {c, p} => co'[x] = s[x]
    /\ Calm(s[p], co'[p]) /\ co'[p].zombies \subseteq s[p].zombies \cup {c}
    /\ co'[c].status \in {"zombie", "dead"}

Closes(s) ==
    /\ mode' = "done"
    /\ \A x \in Co : Quiet(s[x], co'[x]) /\ "op" \notin co'[x].pending

LEMMA ThreadEndsIn ==
    ASSUME NEW STATE s, NEW STATE n, NEW STATE c, NEW STATE p,
           s \in [Co -> CoCtx], c \in Co, p \in Co, p = s[c].parent, p # c,
           s[c].kind = "thread", s[c].ref,
           Alive(s, p) => s[p].at \notin {"end", "fail"},
           ThreadEnds(s, n, c)
    PROVE  \/ /\ Woke(s, c, p) \/ Rests(s, c, p)
              /\ co'[c].at = s[c].at /\ co'[c].kind = "thread"
              /\ co'[c].parent = p /\ co'[c].pending = s[c].pending
              /\ co'[c].zombies = s[c].zombies
              /\ co'[c].waited => s[c].waited
           \/ Closes(s)
<1>1. s[c] \in CoCtx /\ s[p] \in CoCtx
  OBVIOUS
<1>2. CASE Alive(s, p) /\ s[c].waited
           /\ UserCoDone(Put(s, c, [s[c] EXCEPT !.waited = FALSE]), n, c)
  <2> DEFINE r == [s[c] EXCEPT !.waited = FALSE]
             w == Put(s, c, r)
             e == DelThreads(w, {c})
             q == [e[p] EXCEPT !.status = "running"]
             f == Put(e, p, q)
             z == [f[p] EXCEPT !.at = "run"]
  <2>1. /\ r \in CoCtx /\ r.kind = "thread" /\ r.parent = p
        /\ r.status = s[c].status /\ r.at = s[c].at /\ ~r.waited /\ r.ref
        /\ r.pending = s[c].pending /\ r.zombies = s[c].zombies
    BY <1>1 DEF CoCtx
  <2>2. w[c] = r
    BY DEF Put
  <2>3. /\ co' = Continue(WithStatus(e, p, "running"), p)
        /\ mode' = "lua" /\ cur' = p
    <3> HIDE DEF r, e
    <3>1. w[c].parent = p /\ w[c].kind = "thread" /\ w[c].ref
      BY <2>1, <2>2
    <3> HIDE DEF w
    <3> QED
      BY <1>2, <3>1 DEF UserCoDone, e, w, r
  <2> HIDE DEF r
  <2>4. w \in [Co -> CoCtx] /\ w[c] = r /\ \A x \in Co : x # c => w[x] = s[x]
    BY <2>1 DEF Put
  <2> HIDE DEF w
  <2>5. /\ e \in [Co -> CoCtx] /\ \A x \in Co : x # c => e[x] = s[x]
        /\ e[c].at = s[c].at /\ e[c].kind = "thread" /\ e[c].parent = p
        /\ ~e[c].waited /\ e[c].pending = s[c].pending
        /\ e[c].zombies = s[c].zombies /\ e[c].status = "dead"
    BY <2>1, <2>4, DelOne
  <2> HIDE DEF e
  <2>6. /\ q \in CoCtx /\ q.at = s[p].at /\ q.status = "running"
        /\ q.kind = s[p].kind /\ q.parent = s[p].parent /\ q.ref = s[p].ref
        /\ q.waited = s[p].waited /\ q.pending = s[p].pending
        /\ q.zombies = s[p].zombies
    BY <1>1, <2>5 DEF CoCtx, Statuses
  <2>7. co' = Continue(f, p)
    BY <2>3 DEF WithStatus
  <2> HIDE DEF q
  <2>8. f \in [Co -> CoCtx] /\ f[p] = q /\ \A x \in Co : x # p => f[x] = e[x]
    BY <2>5, <2>6 DEF Put
  <2> HIDE DEF f
  <2>9. /\ co' = Put(f, p, z) /\ z.at = "run" /\ z.status = "running"
        /\ z.kind = s[p].kind /\ z.parent = s[p].parent
        /\ z.waited = s[p].waited /\ z.pending = s[p].pending
        /\ z.zombies = s[p].zombies
    BY <1>2, <2>6, <2>7, <2>8, ContinueIs
  <2>10. z.ref = s[p].ref
    BY <2>6, <2>8 DEF CoCtx
  <2> HIDE DEF z
  <2>11. co'[p] = z /\ \A x \in Co : x # p => co'[x] = e[x]
    BY <2>8, <2>9 DEF Put
  <2>12. Woke(s, c, p)
    BY <1>2, <2>3, <2>5, <2>9, <2>10, <2>11 DEF Woke
  <2> QED
    BY <2>5, <2>11, <2>12
<1>3. CASE /\ co' = WithStatus(Put(s, p, [s[p] EXCEPT !.zombies = @ \cup {c}]), c, "zombie")
           /\ Again
  <2> DEFINE r == [s[p] EXCEPT !.zombies = @ \cup {c}]
             q == [s[c] EXCEPT !.status = "zombie"]
  <2>1. Calm(s[p], r) /\ r.zombies = s[p].zombies \cup {c}
    BY <1>1 DEF CoCtx, Calm
  <2>2. /\ q.at = s[c].at /\ q.kind = s[c].kind /\ q.parent = p
        /\ q.status = "zombie" /\ q.pending = s[c].pending
        /\ q.waited = s[c].waited /\ q.zombies = s[c].zombies
    BY <1>1 DEF CoCtx
  <2>3. co' = [x \in Co |-> IF x = c THEN q ELSE IF x = p THEN r ELSE s[x]]
    BY <1>1, <1>3 DEF WithStatus, Put
  <2> HIDE DEF r, q
  <2>4. /\ co'[c] = q /\ co'[p] = r
        /\ \A x \in Co : x \notin {c, p} => co'[x] = s[x]
    BY <2>3
  <2>5. Rests(s, c, p)
    BY <1>3, <2>1, <2>2, <2>4 DEF Rests, Again
  <2> QED
    BY <2>2, <2>4, <2>5
<1>4. CASE \E k : FinalizeThreads(DelThreads(s, {c}), k)
  <2>1. PICK k : FinalizeThreads(DelThreads(s, {c}), k)
    BY <1>4
  <2> DEFINE d == DelThreads(s, {c})
  <2>2. d \in [Co -> CoCtx] /\ FinalizeThreads(d, k) /\ \A x \in Co : Quiet(s[x], d[x])
    BY <2>1, DelThreadsShape, QuietDel DEF SameShape
  <2> HIDE DEF d
  <2>3. /\ \A x \in Co : Quiet(d[x], co'[x]) /\ "op" \notin co'[x].pending
        /\ mode' = "done"
    BY <2>2, QuietFinalize
  <2>4. \A x \in Co : Quiet(s[x], co'[x])
    BY <2>2, <2>3, QuietTransitive
  <2> QED
    BY <2>3, <2>4 DEF Closes
<1>5. CASE co' = DelThreads(s, {c}) /\ Again
  <2>1. /\ \A x \in Co : x # c => co'[x] = s[x]
        /\ co'[c].at = s[c].at /\ co'[c].kind = s[c].kind
        /\ co'[c].parent = s[c].parent /\ co'[c].waited = s[c].waited
        /\ co'[c].pending = s[c].pending /\ co'[c].zombies = s[c].zombies
        /\ co'[c].status = "dead"
    BY <1>5, DelOne
  <2>2. Rests(s, c, p)
    BY <1>5, <2>1 DEF Rests, Again, Calm
  <2> QED
    BY <2>1, <2>2
<1> QED
  BY <1>2, <1>3, <1>4, <1>5 DEF ThreadEnds, IsWaitedFor

LEMMA CoroThreadEnds ==
    ASSUME TypeInv, CoroInv, mode \in {"lua", "raise"}, UNCHANGED posted,
           NEW STATE s, NEW STATE n, HasLeft(s), co[cur].kind = "thread",
           ThreadEnds(s, n, cur)
    PROVE  Works
<1> PICK p : p = co[cur].parent
  OBVIOUS
<1>1. /\ co \in [Co -> CoCtx] /\ cur \in Co /\ Posture(co[cur])
      /\ Recorded(co[cur]) /\ co[cur].status = "running" /\ co[cur].ref
      /\ co[cur].at \in {"run", "resume"} /\ co[cur].parent # cur
      /\ ~InQueue(cur) /\ mode # "done"
  BY HoldsCoro
<1>2. /\ p \in Co /\ p # cur /\ Posture(co[p]) /\ Recorded(co[p])
      /\ co[p].parent # p
  BY <1>1 DEF CoroInv, Going, Parked, TypeInv, CoInv, Started
<1>3. Still(co[p], s[p])
  BY <1>2 DEF HasLeft
<1>4. Alive(s, p) => /\ s[p].at \notin {"end", "fail"} /\ Alive(co, p)
                     /\ s[p].status = co[p].status /\ s[p].ref = co[p].ref
  <2>1. co[p] \in CoCtx
    BY <1>1, <1>2
  <2> QED
    BY <1>2, <1>3, <2>1 DEF Alive, Still, Calm, Posture, CoCtx, Statuses
<1>5. \/ /\ Woke(s, cur, p) \/ Rests(s, cur, p)
         /\ co'[cur].at = s[cur].at /\ co'[cur].kind = "thread"
         /\ co'[cur].parent = p /\ co'[cur].pending = s[cur].pending
         /\ co'[cur].zombies = s[cur].zombies
         /\ co'[cur].waited => s[cur].waited
      \/ Closes(s)
  BY <1>1, <1>2, <1>4, ThreadEndsIn DEF HasLeft
<1>6. CASE Closes(s)
  BY <1>6, CoroLast DEF Closes
<1>7. ASSUME co'[cur].at = s[cur].at, co'[cur].kind = "thread",
             co'[cur].parent = p, co'[cur].pending = s[cur].pending,
             co'[cur].zombies = s[cur].zombies,
             co'[cur].waited => s[cur].waited
      PROVE  /\ co'[cur].at \in {"end", "left"} /\ co'[cur].kind = co[cur].kind
             /\ co'[cur].parent = co[cur].parent
             /\ co'[cur].waited => co[cur].waited
             /\ co'[cur].pending = {}
             /\ co'[cur].zombies \subseteq co[cur].zombies
  BY <1>7 DEF HasLeft
<1>8. CASE Rests(s, cur, p) /\ co'[cur].at = s[cur].at /\ co'[cur].kind = "thread"
           /\ co'[cur].parent = p /\ co'[cur].pending = s[cur].pending
           /\ co'[cur].zombies = s[cur].zombies
           /\ (co'[cur].waited => s[cur].waited)
  <2>1. co'[cur].status \in {"zombie", "dead"} /\ mode' = "posted"
    BY <1>8 DEF Rests
  <2>2. Past(co'[cur])
    BY <1>8, <2>1 DEF Past
  <2>3. ASSUME NEW x \in Co, x # cur
        PROVE  Calm(co[x], co'[x]) /\ Tends(x)
    <3>1. Still(co[x], s[x])
      BY <2>3 DEF HasLeft
    <3>2. CASE x = p
      BY <1>8, <2>2, <3>1, <3>2 DEF Rests, Still, Calm, Tends
    <3>3. CASE x # p
      BY <1>8, <2>3, <3>1, <3>3 DEF Rests, Still, Tends
    <3> QED
      BY <3>2, <3>3
  <2> QED
    BY <1>7, <1>8, <2>1, <2>3, CoroGone
<1>9. CASE Woke(s, cur, p) /\ co'[cur].at = s[cur].at /\ co'[cur].kind = "thread"
           /\ co'[cur].parent = p /\ co'[cur].pending = s[cur].pending
           /\ co'[cur].zombies = s[cur].zombies
           /\ (co'[cur].waited => s[cur].waited)
  <2> DEFINE X == {cur, p}
  <2>1. Awaited(co, cur)
    BY <1>1, <1>9 DEF Woke, HasLeft, Awaited, Alive
  <2>2. co[p].at = "wait"
    BY <1>1, <2>1, AwaitedBy
  <2>3. co[p].status = "running" /\ co[p].pending = {} /\ ~InQueue(p)
    BY <1>1, <1>2, <2>2, FreeOfQueue DEF Posture, Recorded
  <2>4. /\ co'[p].at = "run" /\ co'[p].status = "running" /\ co'[p].pending = {}
        /\ co'[p].kind = co[p].kind /\ co'[p].parent = co[p].parent
        /\ co'[p].ref = co[p].ref /\ co'[p].waited = co[p].waited
        /\ co'[p].zombies \subseteq co[p].zombies
        /\ co'[cur].status = "dead" /\ mode' = "lua" /\ cur' = p
    BY <1>3, <1>4, <1>9, <2>3 DEF Woke, Still, Calm
  <2>5. \A x \in Co : x \notin X => Still(co[x], co'[x]) /\ Quiet(co[x], co'[x])
    BY <1>9, CalmQuiet DEF Woke, HasLeft, Still
  <2>6. Shifts(cur)
    BY <1>1, <1>7, <1>9, <2>4 DEF Shifts, Recorded, Awaited, Alive
  <2>7. ASSUME NEW t \in Co, Awaited(co, t), Awaited(co', t)
        PROVE  co[t].parent # p
    <3>1. t # cur
      BY <2>4, <2>7 DEF Awaited, Alive
    <3> QED
      BY <1>1, <2>1, <2>7, <3>1 DEF CoroInv, Parked, WaitsRight
  <2>8. Shifts(p)
    BY <1>2, <2>3, <2>4, <2>7 DEF Shifts, Recorded, Awaited, Alive
  <2>9. Posture(co'[cur]) /\ Posture(co'[p])
    BY <1>2, <1>7, <1>9, <2>3, <2>4 DEF Posture
  <2>10. Poses(cur) /\ Poses(p)
    <3>1. Poses(cur)
      BY <1>1, <1>7, <1>9, <2>4, <2>9 DEF Poses, Past
    <3>2. Poses(p)
      BY <1>2, <2>3, <2>4, <2>9 DEF Poses, Past
    <3> QED
      BY <3>1, <3>2
  <2>11. LinksRight(co)'
    <3>1. SameLink(cur) /\ SameLink(p)
      BY <1>1, <1>9, <2>2, <2>3, <2>4 DEF SameLink, Active, IsCoroutine
    <3>2. \A x \in Co : SameLink(x)
      BY <2>5, <3>1, CalmLink DEF Still
    <3> QED
      BY <1>1, <3>2, LinksKept
  <2>12. Ready'
    BY <2>4 DEF Ready
  <2>13. Queues(X)
    BY <1>1, <2>3 DEF Queues
  <2>14. ASSUME NEW c \in Co, co[c].at # "run", co'[c].at = "run"
         PROVE  HasCause(c)
    <3>1. c = p
      BY <1>7, <1>9, <2>5, <2>14 DEF Quiet
    <3>2. /\ co[cur].parent = p /\ co[cur].waited /\ co[cur].kind = "thread"
          /\ co[cur].at # co'[cur].at /\ co'[cur].at \in {"end", "left"}
      BY <1>1, <1>7, <1>9, <2>1 DEF Awaited
    <3> QED
      BY <1>1, <2>2, <3>1, <3>2 DEF HasCause
  <2>15. /\ X \subseteq Co /\ \A x \in X : Shifts(x) /\ Poses(x)
         /\ \A x \in Co : x \notin X => /\ Quiet(co[x], co'[x])
                                        /\ Still(co[x], co'[x])
    BY <1>1, <1>2, <2>5, <2>6, <2>8, <2>10
  <2> HIDE DEF X
  <2>16. Parked'
    BY <2>4, <2>13, <2>15, Parks
  <2>17. CoroInv'
    BY <1>1, <2>11, <2>12, <2>13, <2>15, <2>16, Goes
  <2> QED
    BY <2>14, <2>17 DEF Works
<1> QED
  BY <1>5, <1>6, <1>8, <1>9

\* A user coroutine has left: the one that resumed it goes on, or raises the
\* error in its turn
LEMMA CoroBackTo ==
    ASSUME TypeInv, CoroInv, mode \in {"lua", "raise"}, UNCHANGED posted,
           NEW STATE s, HasLeft(s), IsCoroutine(co[cur]),
           cur' = co[cur].parent,
           LET s1 == WithStatus(s, co[cur].parent, "running")
           IN  \/ mode' = "lua" /\ co' = Continue(s1, co[cur].parent)
               \/ mode' = "raise" /\ co' = s1
    PROVE  Works
<1> PICK p : p = co[cur].parent
  OBVIOUS
<1> DEFINE r == [s[p] EXCEPT !.status = "running"]
           s1 == Put(s, p, r)
           z == [s1[p] EXCEPT !.at = "run"]
<1>1. /\ co \in [Co -> CoCtx] /\ cur \in Co /\ Posture(co[cur])
      /\ co[cur].pending = {}
  BY HoldsCoro
<1>2. /\ p \in Co /\ p # cur /\ co[p].status = "normal" /\ co[p].at = "resume"
  BY RunningParent
<1>3. /\ s \in [Co -> CoCtx] /\ Still(co[p], s[p]) /\ s[p] \in CoCtx
      /\ \A x \in Co : x \notin {cur, p} => Still(co[x], s[x])
  BY <1>2 DEF HasLeft
<1>4. /\ r \in CoCtx /\ r.kind = co[p].kind /\ r.parent = co[p].parent
      /\ r.status = "running" /\ r.at = "resume" /\ r.ref = co[p].ref
      /\ r.pending = co[p].pending /\ r.waited = co[p].waited
      /\ r.zombies \subseteq co[p].zombies
  BY <1>2, <1>3 DEF CoCtx, Statuses, Still, Calm
<1>5. \/ mode' = "lua" /\ co' = Continue(s1, p)
      \/ mode' = "raise" /\ co' = s1
  BY DEF WithStatus
<1> HIDE DEF r
<1>6. /\ s1 \in [Co -> CoCtx] /\ s1[p] = r /\ \A x \in Co : x # p => s1[x] = s[x]
  BY <1>2, <1>3, <1>4 DEF Put
<1> HIDE DEF s1
<1>7. /\ Posture(s[cur]) /\ s[cur].kind = co[cur].kind
      /\ s[cur].parent = co[cur].parent /\ s[cur].waited = co[cur].waited
      /\ s[cur].pending = {} /\ s[cur].zombies \subseteq co[cur].zombies
      /\ s[cur].status # "normal" /\ s[cur].at # "run"
      /\ s[cur].at = "left" \/ s[cur].status \in {"suspended", "dead"}
  <2>1. Posture(s[cur])
    BY DEF HasLeft, Posture, IsCoroutine
  <2> QED
    BY <2>1 DEF HasLeft
<1>8. CASE mode' = "raise" /\ co' = s1
  <2>1. /\ co'[cur] = s[cur] /\ co'[p] = r
        /\ \A x \in Co : x \notin {cur, p} => Still(co[x], co'[x])
    BY <1>1, <1>2, <1>3, <1>6, <1>8
  <2> QED
    BY <1>4, <1>7, <1>8, <2>1, CoroBack
<1>9. CASE mode' = "lua" /\ co' = Continue(s1, p)
  <2>1. /\ co' = Put(s1, p, z) /\ z.at = "run" /\ z.status = "running"
        /\ z.kind = co[p].kind /\ z.parent = co[p].parent
        /\ z.waited = co[p].waited /\ z.pending = co[p].pending
        /\ z.zombies \subseteq co[p].zombies
    BY <1>2, <1>4, <1>6, <1>9, ContinueIs
  <2>2. z.ref = co[p].ref
    BY <1>4, <1>6 DEF CoCtx
  <2> HIDE DEF z
  <2>3. /\ co'[cur] = s[cur] /\ co'[p] = z
        /\ \A x \in Co : x \notin {cur, p} => Still(co[x], co'[x])
    BY <1>1, <1>2, <1>3, <1>6, <2>1 DEF Put
  <2> QED
    BY <1>7, <1>9, <2>1, <2>2, <2>3, CoroBack
<1> QED
  BY <1>5, <1>8, <1>9

\* The coroutine that runs, dead, before anybody is told
LEMMA EndedLeft ==
    ASSUME TypeInv, CoroInv, mode = "lua"
    PROVE  /\ HasLeft(Ended(cur)) /\ \A c \in Co : c # cur => Ended(cur)[c] = co[c]
           /\ Ended(cur)[cur].status = "dead"
<1> DEFINE q == [co[cur] EXCEPT !.status = "dead", !.at = "end"]
           w == [co EXCEPT ![cur] = q]
           r == [q EXCEPT !.pending = @ \ {"op"}]
           s == Ended(cur)
<1>1. /\ co \in [Co -> CoCtx] /\ cur \in Co /\ co[cur] \in CoCtx
      /\ co[cur].pending = {}
  BY RunsCoro
<1>2. /\ q \in CoCtx /\ q.kind = co[cur].kind /\ q.parent = co[cur].parent
      /\ q.ref = co[cur].ref /\ q.zombies = co[cur].zombies
      /\ q.status = "dead" /\ q.at = "end" /\ q.pending = {}
      /\ q.waited = co[cur].waited
  BY <1>1 DEF CoCtx, Statuses, Points
<1>3. s = CancelOps(w, {cur})
  BY <1>1 DEF Ended
<1> HIDE DEF q
<1>4. /\ r \in CoCtx /\ r.kind = co[cur].kind /\ r.parent = co[cur].parent
      /\ r.ref = co[cur].ref /\ r.zombies = co[cur].zombies
      /\ r.status = "dead" /\ r.at = "end" /\ r.pending = {}
      /\ r.waited = co[cur].waited
  BY <1>2 DEF CoCtx
<1>5. s = Put(co, cur, r)
  BY <1>1, <1>2, <1>3 DEF CancelOps, Put
<1> HIDE DEF r, s
<1>6. /\ s \in [Co -> CoCtx] /\ s[cur] = r
      /\ \A c \in Co : c # cur => s[c] = co[c]
  BY <1>1, <1>4, <1>5 DEF Put
<1>7. HasLeft(s)
  BY <1>4, <1>6, StillSame DEF HasLeft
<1> QED
  BY <1>4, <1>6, <1>7 DEF s

LEMMA CoroRaise ==
    ASSUME TypeInv, CoroInv, mode \in {"lua", "raise"}, UNCHANGED posted,
           NEW STATE s, HasLeft(s), Raise(s, uthreads, cur)
    PROVE  Works
<1>1. s[cur].kind = co[cur].kind /\ s[cur].parent = co[cur].parent
  BY DEF HasLeft
<1>2. CASE co[cur].kind = "thread" /\ ThreadEnds(s, uthreads, cur)
  BY <1>2, CoroThreadEnds
<1>3. CASE FinalizeThreads(s, uthreads)
  <2>1. /\ \A x \in Co : Quiet(s[x], co'[x]) /\ "op" \notin co'[x].pending
        /\ mode' = "done"
    BY <1>3, QuietFinalize DEF HasLeft
  <2> QED
    BY <2>1, CoroLast
<1>4. CASE /\ IsCoroutine(co[cur])
           /\ cur' = co[cur].parent
           /\ LET s1 == WithStatus(s, co[cur].parent, "running")
              IN  \/ mode' = "lua" /\ co' = Continue(s1, co[cur].parent)
                  \/ mode' = "raise" /\ co' = s1
  BY <1>4, CoroBackTo
<1> QED
  BY <1>1, <1>2, <1>3, <1>4 DEF Raise, IsCoroutine

LEMMA CoroError ==
    ASSUME TypeInv, CoroInv, Error
    PROVE  Works
<1> DEFINE s == Ended(cur)
<1>1. HasLeft(s) /\ Raise(s, uthreads, cur) /\ mode = "lua" /\ UNCHANGED posted
  BY EndedLeft DEF Error
<1> HIDE DEF s
<1> QED
  BY <1>1, CoroRaise

LEMMA CoroPropagate ==
    ASSUME TypeInv, CoroInv, Propagate
    PROVE  Works
<1> DEFINE r == [co[cur] EXCEPT !.at = "left"]
           s == [co EXCEPT ![cur] = r]
<1>1. /\ co \in [Co -> CoCtx] /\ cur \in Co /\ co[cur] \in CoCtx
      /\ co[cur].pending = {} /\ co[cur].status = "running"
      /\ mode = "raise" /\ UNCHANGED posted
  BY HoldsCoro DEF Propagate
<1>2. /\ r \in CoCtx /\ r.kind = co[cur].kind /\ r.parent = co[cur].parent
      /\ r.ref = co[cur].ref /\ r.zombies = co[cur].zombies
      /\ r.status = "running" /\ r.at = "left" /\ r.pending = {}
      /\ r.waited = co[cur].waited
  BY <1>1 DEF CoCtx, Points
<1>3. Raise(s, uthreads, cur)
  BY DEF Propagate
<1> HIDE DEF r
<1>4. HasLeft(s)
  <2>1. /\ s \in [Co -> CoCtx] /\ s[cur] = r
        /\ \A c \in Co : c # cur => s[c] = co[c]
    BY <1>1, <1>2
  <2> HIDE DEF s
  <2> QED
    BY <1>2, <2>1, StillSame DEF HasLeft
<1> HIDE DEF s
<1> QED
  BY <1>1, <1>3, <1>4, CoroRaise

LEMMA CoroReturn ==
    ASSUME TypeInv, CoroInv, Return
    PROVE  Works
<1> DEFINE s0 == Ended(cur)
           R == Reaped(cur)
           s1 == DelThreads(s0, R)
           r == [s1[cur] EXCEPT !.zombies = {}]
           s == Put(s1, cur, r)
           n == uthreads - Cardinality(R)
           d == DelThreads(s, {cur})
<1>1. /\ co \in [Co -> CoCtx] /\ cur \in Co /\ mode = "lua" /\ UNCHANGED posted
      /\ ~Past(co[cur]) /\ \A z \in co[cur].zombies : Past(co[z])
      /\ co[cur].kind # "none" /\ co[cur] \in CoCtx
      /\ co[cur].kind \in {"entry", "thread"} => co[cur].ref
  BY RunsCoro, HoldsCoro DEF Return
<1>2. /\ HasLeft(s0) /\ \A c \in Co : c # cur => s0[c] = co[c]
      /\ s0[cur].status = "dead"
  BY <1>1, EndedLeft
<1>3. /\ cur \notin R /\ R \subseteq Co /\ \A z \in R : Past(co[z])
  BY <1>1 DEF Reaped, CoCtx
<1>4. \/ co[cur].kind = "thread" /\ ThreadEnds(s, n, cur)
      \/ co[cur].kind \in {"coro", "wrap"} /\ UserCoDone(s, n, cur)
      \/ co[cur].kind = "entry" /\ FinalizeThreads(d, n)
      \/ co[cur].kind = "entry" /\ co' = d /\ Again
  BY DEF Return
<1> HIDE DEF s0, R, n
<1>5. s0 \in [Co -> CoCtx] /\ s1 \in [Co -> CoCtx]
  BY <1>2, DelThreadsShape DEF HasLeft, SameShape
<1>6. s1[cur] = s0[cur]
  BY <1>1, <1>3 DEF DelThreads
<1>7. \A x \in Co : x # cur => Still(co[x], s1[x])
  <2>1. \A x \in R : Past(s0[x])
    BY <1>2, <1>3
  <2>2. \A x \in Co : Still(s0[x], s1[x])
    BY <1>5, <2>1, StillDel
  <2> HIDE DEF s1
  <2> QED
    BY <1>2, <2>2
<1> HIDE DEF s1
<1>8. /\ r \in CoCtx /\ r.kind = co[cur].kind /\ r.parent = co[cur].parent
      /\ r.ref = co[cur].ref /\ r.zombies = {} /\ r.status = "dead"
      /\ r.at = "end" /\ r.pending = {} /\ r.waited = co[cur].waited
  <2>1. s1[cur] \in CoCtx
    BY <1>1, <1>5
  <2> QED
    BY <1>2, <1>6, <2>1 DEF HasLeft, CoCtx
<1> HIDE DEF r
<1>9. /\ s \in [Co -> CoCtx] /\ s[cur] = r
      /\ \A x \in Co : x # cur => s[x] = s1[x]
  BY <1>1, <1>5, <1>8 DEF Put
<1> HIDE DEF s
<1>10. HasLeft(s)
  BY <1>7, <1>8, <1>9 DEF HasLeft
<1>11. CASE co[cur].kind = "thread" /\ ThreadEnds(s, n, cur)
  BY <1>1, <1>10, <1>11, CoroThreadEnds
<1>12. CASE co[cur].kind \in {"coro", "wrap"} /\ UserCoDone(s, n, cur)
  <2>1. s[cur].kind # "thread" /\ s[cur].parent = co[cur].parent
    BY <1>8, <1>9, <1>12
  <2>2. /\ co' = Continue(WithStatus(s, co[cur].parent, "running"), co[cur].parent)
        /\ cur' = co[cur].parent /\ mode' = "lua"
    BY <1>12, <2>1 DEF UserCoDone
  <2> QED
    BY <1>1, <1>10, <1>12, <2>2, CoroBackTo DEF IsCoroutine
<1>13. co[cur].kind = "entry" =>
         /\ d \in [Co -> CoCtx] /\ \A x \in Co : x # cur => d[x] = s[x]
         /\ d[cur].at = s[cur].at /\ d[cur].kind = s[cur].kind
         /\ d[cur].parent = s[cur].parent /\ d[cur].waited = s[cur].waited
         /\ d[cur].pending = s[cur].pending /\ d[cur].zombies = s[cur].zombies
         /\ d[cur].status = "dead"
  BY <1>1, <1>8, <1>9, DelOne
<1> HIDE DEF d
<1>14. CASE co[cur].kind = "entry" /\ FinalizeThreads(d, n)
  <2>1. /\ \A x \in Co : Quiet(d[x], co'[x]) /\ "op" \notin co'[x].pending
        /\ mode' = "done"
    BY <1>13, <1>14, QuietFinalize
  <2>2. \A x \in Co : Quiet(s[x], d[x])
    BY <1>13, <1>14 DEF Quiet
  <2>3. \A x \in Co : Quiet(s[x], co'[x])
    BY <2>1, <2>2, QuietTransitive
  <2> QED
    BY <1>1, <1>10, <2>1, <2>3, CoroLast
<1>15. CASE co[cur].kind = "entry" /\ co' = d /\ Again
  <2>1. \A x \in Co : x # cur => Calm(co[x], co'[x]) /\ Tends(x)
    BY <1>7, <1>9, <1>13, <1>15 DEF Still, Tends
  <2>2. /\ co'[cur].at = "end" /\ co'[cur].kind = co[cur].kind
        /\ co'[cur].parent = co[cur].parent
        /\ co'[cur].waited = co[cur].waited /\ co'[cur].pending = {}
        /\ co'[cur].zombies = {} /\ co'[cur].status = "dead"
    BY <1>8, <1>9, <1>13, <1>15
  <2>3. mode' = "posted"
    BY <1>15 DEF Again
  <2> QED
    BY <1>1, <1>15, <2>1, <2>2, <2>3, CoroGone
<1> QED
  BY <1>4, <1>11, <1>12, <1>14, <1>15

\* ngx.thread.wait for one thread: that thread is awaited from now on, and
\* nobody else is, since its parent ran until now
LEMMA CoroWait ==
    ASSUME OneAtATime, TypeInv, CoroInv, NEW args \in WaitArgs, Wait(args)
    PROVE  Works
<1> DEFINE stops == {i \in DOMAIN args : StopsAt(args, i)}
           stop == IF stops = {} THEN Len(args) + 1
                   ELSE CHOOSE i \in stops : \A j \in stops : i <= j
           flag(c) == [co[c] EXCEPT !.waited = TRUE]
           flagged == [c \in Co |->
                          IF c \in Seen(args, stop) /\ co[c].status # "dead"
                          THEN flag(c) ELSE co[c]]
           t == args[1]
           q == [co[cur] EXCEPT !.at = "wait"]
<1> HIDE DEF stop
<1>1. /\ co \in [Co -> CoCtx] /\ cur \in Co /\ mode = "lua"
      /\ co[cur] \in CoCtx /\ Posture(co[cur]) /\ Recorded(co[cur])
      /\ co[cur].status = "running" /\ co[cur].at = "run"
      /\ co[cur].pending = {} /\ co[cur].kind # "none"
      /\ co[cur].parent # cur /\ ~InQueue(cur) /\ ~Past(co[cur])
      /\ UNCHANGED posted /\ Ready
  BY RunsCoro DEF Wait, Calls, CoroInv
<1>2. /\ Len(args) = 1 /\ DOMAIN args = {1} /\ t \in Co
      /\ co[t].kind = "thread" /\ Posture(co[t]) /\ Recorded(co[t])
      /\ co[t].parent # t
  <2>1. PICK n \in 1 .. MaxWait :
          args \in [1 .. n -> {x \in Co : co[x].kind = "thread" /\ x # onAbort}]
    BY DEF WaitArgs
  <2>2. n = 1
    BY WaitAssumption DEF OneAtATime
  <2>3. Len(args) = 1 /\ DOMAIN args = {1} /\ t \in Co /\ co[t].kind = "thread"
    BY <2>1, <2>2
  <2> QED
    BY <1>1, <2>3 DEF CoroInv, Going, Parked
<1>3. CASE stops = {} /\ co' = Put(flagged, cur, [flagged[cur] EXCEPT !.at = "wait"])
           /\ Again
  <2>1. Seen(args, stop) = {t}
    <3>1. stop = 2
      BY <1>2, <1>3 DEF stop
    <3>2. 1 .. stop - 1 = {1}
      BY <3>1
    <3> QED
      BY <3>2 DEF Seen
  <2>2. /\ co[t].parent = cur /\ Alive(co, t) /\ t # cur
    <3>1. ~StopsAt(args, 1)
      BY <1>2, <1>3
    <3> QED
      BY <1>1, <1>2, <3>1 DEF StopsAt, IsMyThread, Alive
  <2> DEFINE r == flag(t)
  <2>3. /\ flagged[t] = r /\ \A c \in Co : c # t => flagged[c] = co[c]
    BY <1>2, <2>1, <2>2 DEF Alive
  <2> HIDE DEF flagged
  <2>4. /\ r.kind = co[t].kind /\ r.parent = co[t].parent /\ r.waited
        /\ r.status = co[t].status /\ r.at = co[t].at /\ r.ref = co[t].ref
        /\ r.pending = co[t].pending /\ r.zombies = co[t].zombies
    BY <1>1, <1>2 DEF CoCtx
  <2>5. /\ q.kind = co[cur].kind /\ q.parent = co[cur].parent
        /\ q.waited = co[cur].waited /\ q.status = "running"
        /\ q.at = "wait" /\ q.pending = {} /\ q.ref = co[cur].ref
        /\ q.zombies = co[cur].zombies
    BY <1>1 DEF CoCtx
  <2>6. /\ co'[t] = r /\ co'[cur] = q
        /\ \A c \in Co : c \notin {t, cur} => co'[c] = co[c]
    BY <1>1, <1>2, <1>3, <2>2, <2>3 DEF Put
  <2> HIDE DEF r, q
  <2>7. ASSUME NEW c \in Co, c # cur
        PROVE  /\ co'[c].status = co[c].status /\ co'[c].at = co[c].at
               /\ co'[c].parent = co[c].parent /\ co'[c].pending = co[c].pending
               /\ co'[c].kind = co[c].kind
               /\ c # t => (Awaited(co', c) <=> Awaited(co, c))
    BY <2>4, <2>6, <2>7 DEF Awaited, Alive
  <2>8. /\ co'[cur].status = co[cur].status /\ co'[cur].parent = co[cur].parent
        /\ Awaited(co', cur) <=> Awaited(co, cur)
    BY <1>1, <2>5, <2>6 DEF Awaited, Alive
  <2>9. ASSUME NEW c \in Co, c # t, Awaited(co', c)
        PROVE  /\ Awaited(co, c) /\ co'[c].parent = co[c].parent
               /\ co[co[c].parent].at = "wait" /\ co[c].parent # cur
               /\ co[c].parent \in Co
    <3>1. Awaited(co, c) /\ co'[c].parent = co[c].parent
      BY <2>7, <2>8, <2>9
    <3> QED
      BY <1>1, <3>1, AwaitedBy
  <2>10. co'[t].parent = cur
    BY <2>2, <2>4, <2>6
  <2>11. \A c \in Co : Awaited(co', c) => co'[co'[c].parent].at = "wait"
    BY <2>5, <2>6, <2>7, <2>9, <2>10
  <2>12. \A c, d \in Co : /\ Awaited(co', c) /\ Awaited(co', d)
                          /\ co'[c].parent = co'[d].parent
                          => c = d
    BY <2>9, <2>10 DEF CoroInv, Parked, WaitsRight
  <2>13. \A i \in DOMAIN posted : posted[i] \in Co /\ posted[i] # cur
    BY <1>1 DEF TypeInv, TypeOK, InQueue
  <2>14. QueueRight(co', posted)
    BY <2>7, <2>13 DEF CoroInv, Parked, QueueRight
  <2>15. \A c \in Co : Recorded(co'[c])
    BY <1>1, <1>2, <2>4, <2>5, <2>6 DEF CoroInv, Parked, Recorded
  <2>16. mode' = "posted"
    BY <1>3 DEF Again
  <2>17. Parked'
    BY <1>1, <2>11, <2>12, <2>14, <2>15, <2>16
    DEF Parked, WaitsRight, Awaited, Alive
  <2>18. Posture(r) /\ Posture(q)
    BY <1>1, <1>2, <2>4, <2>5 DEF Posture
  <2>19. Going(co, posted)'
    <3>1. \A c \in Co : Posture(co'[c]) /\ co'[c].parent # c
      BY <1>1, <1>2, <2>4, <2>5, <2>6, <2>18 DEF CoroInv, Going
    <3>2. \A c \in Co : co'[c].zombies = co[c].zombies /\ (Past(co[c]) => Past(co'[c]))
      BY <1>1, <2>4, <2>5, <2>6 DEF Past
    <3>3. \A c \in Co : \A z \in co'[c].zombies : Past(co'[z])
      <4>1. \A c \in Co : \A z \in co[c].zombies : z \in Co /\ Past(co[z])
        BY <1>1 DEF CoroInv, Going, CoCtx
      <4> QED
        BY <3>2, <4>1
    <3>4. \A c \in Co : SameLink(c)
      BY <1>1, <2>4, <2>5, <2>6 DEF SameLink, Active, IsCoroutine
    <3>5. LinksRight(co)'
      BY <1>1, <3>4, LinksKept
    <3>6. \A i \in DOMAIN posted : co'[posted[i]].status = "running"
      BY <1>1, <2>7, <2>13 DEF CoroInv, Going
    <3> QED
      BY <1>1, <3>1, <3>3, <3>5, <3>6 DEF Going, Posture, Past
  <2>20. CoroInv'
    BY <2>16, <2>17, <2>19 DEF CoroInv, Ready
  <2>21. \A c \in Co : ~(co[c].at # "run" /\ co'[c].at = "run")
    BY <2>5, <2>6, <2>7
  <2> QED
    BY <2>20, <2>21 DEF Works
<1>4. CASE stops # {}
  <2>1. stops = {1} /\ stop = 1
    <3>1. stops = {1}
      BY <1>2, <1>4
    <3> HIDE DEF stops
    <3>2. stop = 1
      BY <3>1 DEF stop
    <3> QED
      BY <3>1, <3>2
  <2>2. flagged = co
    <3>1. 1 .. stop - 1 = {}
      BY <2>1
    <3>2. Seen(args, stop) = {}
      BY <3>1 DEF Seen
    <3> QED
      BY <1>1, <3>2
  <2>3. /\ \/ co[t].status = "zombie" /\ co' = DelThreads(co, {t})
           \/ co' = co
        /\ UNCHANGED <<mode, cur>>
    <3>1. \/ /\ co[args[stop]].status = "zombie"
             /\ co' = DelThreads(flagged, {args[stop]})
             /\ UNCHANGED <<mode, cur>>
          \/ co' = flagged /\ UNCHANGED <<mode, cur>>
      BY <1>4 DEF Wait, stop
    <3> HIDE DEF stops, flagged
    <3> QED
      BY <2>1, <2>2, <3>1
  <2>4. ASSUME co[t].status = "zombie", co' = DelThreads(co, {t})
        PROVE  \A c \in Co : Still(co[c], co'[c])
    <3>1. \A c \in {t} : Past(co[c])
      BY <1>2, <2>4 DEF Past
    <3> QED
      BY <1>1, <2>4, <3>1, StillDel
  <2>5. co' = co => \A c \in Co : Still(co[c], co'[c])
    BY StillSame
  <2>6. \A c \in Co : Still(co[c], co'[c])
    BY <2>3, <2>4, <2>5
  <2>7. Ready'
    BY <1>1, <2>3, <2>6 DEF Ready, Still, Calm
  <2> QED
    BY <1>1, <2>3, <2>6, <2>7, NobodyMoves
<1> QED
  BY <1>3, <1>4 DEF Wait, stop

LEMMA CoroInit == Init => CoroInv
<1> SUFFICES ASSUME Init PROVE CoroInv
  OBVIOUS
<1> DEFINE r == [FreshCo EXCEPT !.kind = "entry", !.ref = TRUE,
                                !.status = "running", !.at = "run"]
<1>1. /\ r.kind = "entry" /\ r.status = "running" /\ r.at = "run" /\ r.ref
      /\ ~r.waited /\ r.pending = {} /\ r.zombies = {} /\ r.parent = NoCo
  BY DEF FreshCo
<1>2. /\ FreshCo.kind = "none" /\ FreshCo.status = "suspended" /\ ~FreshCo.ref
      /\ FreshCo.at = "start" /\ ~FreshCo.waited /\ FreshCo.pending = {}
      /\ FreshCo.zombies = {} /\ FreshCo.parent = NoCo
  BY DEF FreshCo
<1>3. /\ \A c \in Co : co[c] \in {r, FreshCo}
      /\ mode = "lua" /\ DOMAIN posted = {} /\ co[cur] = r
  BY CoAssumption DEF Init
<1> HIDE DEF r
<1>4. \A c \in Co : /\ Posture(co[c]) /\ Recorded(co[c]) /\ ~Active(co[c])
                    /\ co[c].parent = NoCo /\ co[c].zombies = {}
                    /\ co[c].status # "normal" /\ ~co[c].waited
  BY <1>1, <1>2, <1>3 DEF Posture, Recorded, Active, IsCoroutine
<1>5. Going(co, posted)
  BY <1>3, <1>4, CoAssumption DEF Going, LinksRight
<1>6. Parked
  BY <1>3, <1>4 DEF Parked, WaitsRight, Awaited, QueueRight
<1> QED
  BY <1>1, <1>3, <1>5, <1>6 DEF CoroInv, Ready

LEMMA CoroStutter == CoroInv /\ UNCHANGED vars => CoroInv'
BY DEF vars, CoroInv, Going, Parked, Ready, Posture, Past, LinksRight, Active,
       IsCoroutine, Recorded, WaitsRight, Awaited, Alive, QueueRight

LEMMA CoroNext ==
    ASSUME NoKill, TypeInv, CoroInv, Next
    PROVE  Works
<1>1. Sleep \/ Capture => Works
  <2>1. Sleep => Works
    <3> DEFINE op == "op"
    <3>1. op \in {"op", "subreq"} /\ op # "subreq"
      OBVIOUS
    <3> HIDE DEF op
    <3> QED
      BY <3>1, CoroIO
  <2>2. Capture => Works
    <3> DEFINE op == "subreq"
    <3>1. op \in {"op", "subreq"} /\ op # "op"
      OBVIOUS
    <3> HIDE DEF op
    <3> QED
      BY <3>1, CoroIO
  <2> QED
    BY <2>1, <2>2
<1>2. OneAtATime /\ \A t \in Co : ~Kill(t) /\ ~KillZombie(t)
  BY DEF NoKill, Kill, KillZombie, Calls
<1>3. CASE Lua
  BY <1>1, <1>2, <1>3, CoroSpawn, CoroOnAbort, CoroWait, CoroCreate, CoroResume,
     CoroYieldThread, CoroYieldCoroutine, CoroReturn, CoroError, CoroExit
  DEF Lua
<1>4. CASE Step
  BY <1>4, CoroPropagate, CoroPosted DEF Step
<1>5. CASE Event
  BY <1>5, CoroEvent DEF Event
<1>6. CASE ClientAbort
  BY <1>6, CoroClientAbort
<1> QED
  BY <1>3, <1>4, <1>5, <1>6 DEF Next

LEMMA CoroInductive ==
    ASSUME NoKill
    PROVE  Spec => [](TypeInv /\ CoroInv)
<1>1. Init => TypeInv /\ CoroInv
  BY TypeInit, CoroInit
<1>2. TypeInv /\ CoroInv /\ [Next]_vars => (TypeInv /\ CoroInv)'
  BY TypeNext, CoroNext, CoroStutter DEF Works
<1> QED
  BY <1>1, <1>2, PTL DEF Spec

-----------------------------------------------------------------------------
(* The count with user coroutines.  A thread that is dead is no longer       *)
(* counted, a zombie still is; the coroutine h that is ending may be dead    *)
(* and counted until its parent is told.                                     *)

Marked(s, h) ==
    \A c \in Co : /\ s[c].status = "zombie" => s[c].ref
                  /\ s[c].kind = "thread" /\ s[c].status = "dead" /\ c # h => ~s[c].ref

\* Between two of its operators: n threads are counted in s
Tallied(s, n, h) == /\ s \in [Co -> CoCtx]
                    /\ n = Cardinality(Counted(s))
                    /\ Marked(s, h)

CoroTally == UthreadsExact /\ Marked(co, NoCo) /\ Family(co)

\* What a step keeps, and what it may never do
Accounts == /\ CoroTally'
            /\ Orphans' \subseteq Orphans \/ Error \/ Propagate
            /\ EndsRight

\* r2 counts as r does
Level(r, r2) ==
    /\ r2.kind = r.kind /\ r2.ref = r.ref
    /\ r.kind = "thread" => (r2.status = "suspended" <=> r.status = "suspended")

LEMMA LevelCounted ==
    ASSUME NEW s, NEW s2, \A c \in Co : Level(s[c], s2[c])
    PROVE  Counted(s2) = Counted(s)
BY DEF Level, Counted

LEMMA PutTallied ==
    ASSUME NEW s, NEW n, NEW h, Tallied(s, n, h), NEW c \in Co, NEW r \in CoCtx,
           Level(s[c], r), r.status = "zombie" => r.ref,
           r.kind = "thread" /\ r.status = "dead" /\ c # h => ~r.ref
    PROVE  Tallied(Put(s, c, r), n, h)
<1> DEFINE s2 == Put(s, c, r)
<1>1. s2 \in [Co -> CoCtx] /\ s2[c] = r /\ \A x \in Co : x # c => s2[x] = s[x]
  BY DEF Put, Tallied
<1> HIDE DEF s2
<1>2. \A x \in Co : Level(s[x], s2[x])
  BY <1>1 DEF Level
<1>3. Counted(s2) = Counted(s)
  BY <1>2, LevelCounted
<1>4. Tallied(s2, n, h)
  BY <1>1, <1>3 DEF Tallied, Marked
<1> QED
  BY <1>4 DEF s2

\* ngx_http_lua_del_thread takes a thread out of the count, if it was counted
LEMMA DelTallied ==
    ASSUME NEW s, NEW n, NEW h, Tallied(s, n, h), NEW D
    PROVE  Tallied(DelThreads(s, D), n - Cardinality(Counted(s) \cap D), h)
<1> DEFINE s2 == DelThreads(s, D)
           r(c) == [s[c] EXCEPT !.ref = FALSE, !.status = "dead"]
<1>1. s \in [Co -> CoCtx] /\ s2 \in [Co -> CoCtx]
  BY DelThreadsShape DEF Tallied, SameShape
<1>2. \A c \in Co : s2[c] = IF c \in D /\ s[c].ref THEN r(c) ELSE s[c]
  BY DEF DelThreads
<1>3. \A c \in Co : ~r(c).ref /\ r(c).status = "dead" /\ r(c).kind = s[c].kind
  BY <1>1 DEF CoCtx
<1> HIDE DEF s2, r
<1>4. Counted(s2) = Counted(s) \ D
  BY <1>2, <1>3 DEF Counted
<1>5. Marked(s2, h)
  BY <1>2, <1>3 DEF Marked, Tallied
<1>6. Cardinality(Counted(s) \ D) = Cardinality(Counted(s)) - Cardinality(Counted(s) \cap D)
  BY CountedFinite, FS_Difference
<1> QED
  BY <1>1, <1>4, <1>5, <1>6 DEF Tallied, s2

LEMMA DelOneTallied ==
    ASSUME NEW s, NEW n, NEW h, Tallied(s, n, h), NEW c \in Co
    PROVE  /\ c \in Counted(s) => Tallied(DelThreads(s, {c}), n - 1, h)
           /\ c \notin Counted(s) => Tallied(DelThreads(s, {c}), n, h)
<1> DEFINE m == Cardinality(Counted(s) \cap {c})
<1>1. Tallied(DelThreads(s, {c}), n - m, h) /\ n \in Nat
  BY DelTallied, CountedFinite DEF Tallied
<1>2. c \in Counted(s) => m = 1
  <2>1. c \in Counted(s) => Counted(s) \cap {c} = {c}
    OBVIOUS
  <2> QED
    BY <2>1, FS_Singleton
<1>3. c \notin Counted(s) => m = 0
  <2>1. c \notin Counted(s) => Counted(s) \cap {c} = {}
    OBVIOUS
  <2> QED
    BY <2>1, FS_EmptySet
<1> HIDE DEF m
<1>4. n - 0 = n
  BY <1>1
<1> QED
  BY <1>1, <1>2, <1>3, <1>4

LEMMA CancelTallied ==
    ASSUME NEW s, NEW n, NEW h, Tallied(s, n, h), NEW D
    PROVE  Tallied(CancelOps(s, D), n, h)
<1> DEFINE s2 == CancelOps(s, D)
<1>1. s \in [Co -> CoCtx] /\ s2 \in [Co -> CoCtx]
  BY CancelOpsShape DEF Tallied, SameShape
<1>2. \A c \in Co : /\ Same(s[c], s2[c])
                    /\ s2[c].status = s[c].status /\ s2[c].ref = s[c].ref
  BY <1>1, SameCancel
<1> HIDE DEF s2
<1>3. \A c \in Co : Level(s[c], s2[c]) /\ s2[c].kind = s[c].kind
  BY <1>2 DEF Same, Kin, Level
<1>4. Counted(s2) = Counted(s)
  BY <1>3, LevelCounted
<1>5. Tallied(s2, n, h)
  BY <1>1, <1>2, <1>3, <1>4 DEF Tallied, Marked
<1> QED
  BY <1>5 DEF s2

LEMMA ContinueTallied ==
    ASSUME NEW s, NEW n, NEW h, Tallied(s, n, h), NEW p \in Co
    PROVE  /\ s[p].status # "suspended" \/ s[p].kind # "thread" =>
                  Tallied(WithStatus(s, p, "running"), n, h)
           /\ Tallied(Continue(s, p), n, h)
<1> DEFINE q == [s[p] EXCEPT !.status = "running"]
           z == [s[p] EXCEPT !.at = IF @ \in {"end", "fail"} THEN "fail" ELSE "run"]
<1>1. s[p] \in CoCtx /\ Marked(s, h)
  BY DEF Tallied
<1>2. q \in CoCtx /\ q.kind = s[p].kind /\ q.ref = s[p].ref /\ q.status = "running"
  BY <1>1 DEF CoCtx, Statuses
<1>3. /\ z \in CoCtx /\ z.kind = s[p].kind /\ z.ref = s[p].ref
      /\ z.status = s[p].status
  BY <1>1 DEF CoCtx, Points
<1>4. WithStatus(s, p, "running") = Put(s, p, q) /\ Continue(s, p) = Put(s, p, z)
  BY DEF WithStatus, Continue
<1> HIDE DEF q, z
<1>5. s[p].status # "suspended" \/ s[p].kind # "thread" => Level(s[p], q)
  BY <1>2 DEF Level
<1>6. Level(s[p], z)
  BY <1>3 DEF Level
<1> QED
  BY <1>1, <1>2, <1>3, <1>4, <1>5, <1>6, PutTallied DEF Marked

\* The handler ends: nobody is counted any more
LEMMA FinalizeTallied ==
    ASSUME NEW STATE s, NEW STATE n, NEW STATE h, Tallied(s, n, h),
           FinalizeThreads(s, n)
    PROVE  UthreadsExact' /\ Marked(co', NoCo) /\ uthreads' = 0
<1>1. UthreadsExact' /\ uthreads' = 0
  BY FinalizeCount DEF Tallied, CountInv
<1> DEFINE s2 == CancelOps(s, Co)
<1>2. s2 \in [Co -> CoCtx] /\ co' = DelThreads(s2, Co)
  BY CancelOpsShape DEF Tallied, SameShape, FinalizeThreads
<1> HIDE DEF s2
<1>3. \A c \in Co : ~co'[c].ref
  <2> TAKE c \in Co
  <2>1. s2[c] \in CoCtx
    BY <1>2
  <2>2. co'[c] = IF s2[c].ref THEN [s2[c] EXCEPT !.ref = FALSE, !.status = "dead"]
                              ELSE s2[c]
    BY <1>2 DEF DelThreads
  <2> QED
    BY <2>1, <2>2 DEF CoCtx
<1>4. \A c \in Co : co'[c].status # "zombie"
  BY KinFinalize DEF Tallied, Marked
<1> QED
  BY <1>1, <1>3, <1>4 DEF Marked

\* The count is the one of the contexts a step ends with
LEMMA TallyEnds ==
    ASSUME NEW STATE s, NEW STATE n, Tallied(s, n, NoCo), co' = s, uthreads' = n,
           UNCHANGED onAbort
    PROVE  UthreadsExact' /\ Marked(co', NoCo)
BY DEF Tallied, UthreadsExact, Counted

\* What the end of thread c does to the count
LEMMA ThreadEndsTallied ==
    ASSUME NEW STATE s, NEW STATE n, NEW STATE c, NEW STATE p, Tallied(s, n, c),
           c \in Co, p \in Co, p = s[c].parent, p # c, s[c].kind = "thread",
           s[c].ref, s[c].status \in {"running", "dead"},
           s[c].waited => s[p].status # "suspended",
           ThreadEnds(s, n, c)
    PROVE  UthreadsExact' /\ Marked(co', NoCo)
<1> DEFINE d == DelThreads(s, {c})
<1>1. s \in [Co -> CoCtx] /\ s[c] \in CoCtx /\ s[p] \in CoCtx /\ Marked(s, c)
  BY DEF Tallied
<1>2. c \in Counted(s)
  BY DEF Counted
<1>3. ASSUME NEW w, NEW m, Tallied(w, m, c), w[c].kind = "thread" => w[c].status # "dead" \/ ~w[c].ref
      PROVE  Tallied(w, m, NoCo)
  BY <1>3 DEF Tallied, Marked
<1>4. Tallied(d, n - 1, NoCo)
  <2>1. Tallied(d, n - 1, c)
    BY <1>2, DelOneTallied
  <2>2. ~d[c].ref
    BY <1>1, DelOne
  <2> HIDE DEF d
  <2> QED
    BY <1>3, <2>1, <2>2
<1>5. CASE Alive(s, p) /\ s[c].waited
           /\ UserCoDone(Put(s, c, [s[c] EXCEPT !.waited = FALSE]), n, c)
  <2> DEFINE r == [s[c] EXCEPT !.waited = FALSE]
             w == Put(s, c, r)
             e == DelThreads(w, {c})
             f == WithStatus(e, p, "running")
  <2>1. /\ r \in CoCtx /\ r.kind = "thread" /\ r.parent = p
        /\ r.status = s[c].status /\ r.ref
    BY <1>1 DEF CoCtx
  <2>2. w[c] = r
    BY DEF Put
  <2>3. co' = Continue(f, p) /\ uthreads' = n - 1 /\ UNCHANGED onAbort
    <3> HIDE DEF r, e, f
    <3>1. w[c].parent = p /\ w[c].kind = "thread" /\ w[c].ref
      BY <2>1, <2>2
    <3> HIDE DEF w
    <3> QED
      BY <1>5, <3>1 DEF UserCoDone, e, f, w, r
  <2> HIDE DEF r
  <2>4. Tallied(w, n, c)
    <3>1. Level(s[c], r) /\ r.status # "zombie"
      BY <2>1 DEF Level
    <3> QED
      BY <2>1, <3>1, PutTallied
  <2>5. w[p] = s[p] /\ w \in [Co -> CoCtx] /\ c \in Counted(w)
    BY <2>1, <2>2, <2>4 DEF Put, Tallied, Counted
  <2> HIDE DEF w
  <2>6. Tallied(e, n - 1, c)
    BY <2>4, <2>5, DelOneTallied
  <2>7. e[p] = s[p] /\ ~e[c].ref
    BY <2>1, <2>2, <2>5, DelOne
  <2> HIDE DEF e
  <2>8. Tallied(e, n - 1, NoCo)
    BY <1>3, <2>6, <2>7
  <2>9. Tallied(f, n - 1, NoCo)
    BY <1>5, <2>7, <2>8, ContinueTallied
  <2> HIDE DEF f
  <2>10. Tallied(Continue(f, p), n - 1, NoCo)
    BY <2>9, ContinueTallied
  <2> QED
    BY <2>3, <2>10, TallyEnds
<1>6. CASE /\ co' = WithStatus(Put(s, p, [s[p] EXCEPT !.zombies = @ \cup {c}]), c, "zombie")
           /\ uthreads' = n /\ UNCHANGED onAbort
  <2> DEFINE r == [s[p] EXCEPT !.zombies = @ \cup {c}]
             w == Put(s, p, r)
             q == [w[c] EXCEPT !.status = "zombie"]
             f == Put(w, c, q)
  <2>1. /\ r \in CoCtx /\ Level(s[p], r) /\ r.status = s[p].status
        /\ r.ref = s[p].ref /\ r.kind = s[p].kind
    BY <1>1 DEF CoCtx, Level
  <2>2. w[c] = s[c]
    BY DEF Put
  <2>3. co' = f
    BY <1>6 DEF WithStatus
  <2> HIDE DEF r
  <2>4. Tallied(w, n, c)
    BY <1>1, <2>1, PutTallied DEF Marked
  <2> HIDE DEF w
  <2>5. /\ q \in CoCtx /\ q.status = "zombie" /\ q.ref /\ q.kind = "thread"
    BY <1>1, <2>2 DEF CoCtx, Statuses
  <2>6. Level(w[c], q)
    BY <2>2, <2>5 DEF Level
  <2>7. f[c] = q
    BY DEF Put
  <2> HIDE DEF q
  <2>8. Tallied(f, n, c)
    BY <2>4, <2>5, <2>6, PutTallied
  <2> HIDE DEF f
  <2>9. Tallied(f, n, NoCo)
    BY <1>3, <2>5, <2>7, <2>8
  <2> QED
    BY <1>6, <2>3, <2>9, TallyEnds
<1>7. CASE FinalizeThreads(d, n - 1)
  BY <1>4, <1>7, FinalizeTallied
<1>8. CASE co' = d /\ uthreads' = n - 1 /\ UNCHANGED onAbort
  BY <1>4, <1>8, TallyEnds
<1> QED
  BY <1>5, <1>6, <1>7, <1>8 DEF ThreadEnds, IsWaitedFor

\* The end of the entry thread, and of a coroutine
LEMMA BackTallied ==
    ASSUME NEW STATE s, NEW STATE n, NEW STATE h, Tallied(s, n, h),
           h \in Co, s[h].kind # "thread",
           \/ FinalizeThreads(s, n)
           \/ /\ UNCHANGED onAbort /\ uthreads' = n
              /\ \/ co' = s
                 \/ \E p \in Co :
                       /\ s[p].status # "suspended" \/ s[p].kind # "thread"
                       /\ \/ co' = WithStatus(s, p, "running")
                          \/ co' = Continue(WithStatus(s, p, "running"), p)
    PROVE  UthreadsExact' /\ Marked(co', NoCo)
<1>1. Tallied(s, n, NoCo)
  BY DEF Tallied, Marked
<1>2. CASE FinalizeThreads(s, n)
  BY <1>2, FinalizeTallied
<1>3. CASE UNCHANGED onAbort /\ uthreads' = n /\ co' = s
  BY <1>1, <1>3, TallyEnds
<1>4. ASSUME UNCHANGED onAbort, uthreads' = n, NEW p \in Co,
             s[p].status # "suspended" \/ s[p].kind # "thread",
             \/ co' = WithStatus(s, p, "running")
             \/ co' = Continue(WithStatus(s, p, "running"), p)
      PROVE  UthreadsExact' /\ Marked(co', NoCo)
  <2> DEFINE w == WithStatus(s, p, "running")
  <2>1. Tallied(w, n, NoCo)
    BY <1>1, <1>4, ContinueTallied
  <2>2. co' \in {w, Continue(w, p)}
    BY <1>4
  <2> HIDE DEF w
  <2>3. Tallied(Continue(w, p), n, NoCo)
    BY <2>1, ContinueTallied
  <2> QED
    BY <1>4, <2>1, <2>2, <2>3, TallyEnds
<1> QED
  BY <1>2, <1>3, <1>4

\* What the accounts need of these invariants
LEMMA CoroHolder ==
    ASSUME TypeInv, CoroInv, CoroTally, mode \in {"lua", "raise"}
    PROVE  Holder
<1>1. /\ co \in [Co -> CoCtx] /\ cur \in Co /\ co[cur] \in CoCtx
      /\ co[cur].status = "running" /\ co[cur].parent # cur
      /\ \A z \in co[cur].zombies : Past(co[z])
      /\ co[cur].kind \in {"entry", "thread"} => co[cur].ref
      /\ \A c \in Co : Posture(co[c])
  BY HoldsCoro DEF CoroInv, Going
<1>2. ASSUME NEW z \in co[cur].zombies PROVE Gone(co[z])
  <2>1. z \in Co /\ Past(co[z]) /\ z # NoCo
    BY <1>1, CoAssumption DEF CoCtx
  <2> QED
    BY <2>1 DEF CoroTally, Marked, Past, Gone
<1> QED
  BY <1>1, <1>2 DEF Holder, CoroTally, Marked, Posture

\* The thread that is told of the end is not one that has not begun
LEMMA ToldParent ==
    ASSUME TypeInv, CoroInv, mode \in {"lua", "raise"}, NEW STATE s, HasLeft(s),
           NEW STATE p, p = co[cur].parent,
           IsCoroutine(co[cur]) \/ co[cur].waited
    PROVE  s[p].status # "suspended" /\ p \in Co /\ p # cur
<1>1. /\ cur \in Co /\ Recorded(co[cur]) /\ co[cur].status = "running"
      /\ co[cur].parent # cur
      /\ WaitsRight(co) /\ \A c \in Co : Posture(co[c])
  BY HoldsCoro DEF CoroInv, Going, Parked
<1>2. CASE IsCoroutine(co[cur])
  <2>1. p \in Co /\ p # cur /\ co[p].status = "normal"
    BY <1>2, RunningParent
  <2> QED
    BY <2>1 DEF HasLeft, Still, Calm
<1>3. CASE co[cur].waited
  <2>1. Awaited(co, cur) /\ co[cur].kind = "thread"
    BY <1>1, <1>3 DEF Awaited, Alive, Recorded
  <2>2. p \in Co /\ p # cur /\ co[p].at = "wait"
    BY <1>1, <2>1 DEF WaitsRight, TypeInv, CoInv, Started
  <2>3. co[p].status = "running"
    BY <1>1, <2>2 DEF Posture
  <2> QED
    BY <2>2, <2>3 DEF HasLeft, Still, Calm
<1> QED
  BY <1>2, <1>3

\* Who had the CPU is gone, and his parent goes on
LEMMA BackKin ==
    ASSUME NEW s, s \in [Co -> CoCtx], NEW p \in Co, NEW s2,
           \/ s2 = WithStatus(s, p, "running")
           \/ s2 = Continue(WithStatus(s, p, "running"), p)
    PROVE  \A x \in Co : Same(s[x], s2[x])
<1> DEFINE q == [s[p] EXCEPT !.status = "running"]
           w == WithStatus(s, p, "running")
<1>1. q \in CoCtx /\ Same(s[p], q)
  <2>1. s[p] \in CoCtx
    OBVIOUS
  <2> QED
    BY <2>1 DEF CoCtx, Statuses, Same, Kin, Tame
<1>2. w = Put(s, p, q)
  BY DEF WithStatus
<1> HIDE DEF q
<1>3. w \in [Co -> CoCtx] /\ \A x \in Co : Same(s[x], w[x])
  BY <1>1, <1>2 DEF Put, Same, Kin, Tame
<1>4. s2 \in {w, Continue(w, p)}
  OBVIOUS
<1> HIDE DEF w
<1>5. \A x \in Co : Same(w[x], Continue(w, p)[x])
  BY <1>3, SameContinue
<1>6. \A x \in Co : Same(s[x], Continue(w, p)[x])
  BY <1>3, <1>5, SameTransitive DEF Same
<1> QED
  BY <1>3, <1>4, <1>6

\* The coroutine that had the CPU ends: n threads are counted in s, where it
\* has left
LEMMA LeavesTally ==
    ASSUME TypeInv, CoroInv, CoroTally, mode \in {"lua", "raise"},
           NEW STATE s, NEW STATE n, HasLeft(s), Tallied(s, n, cur),
           \/ co[cur].kind = "thread" /\ ThreadEnds(s, n, cur)
           \/ co[cur].kind # "thread" /\ FinalizeThreads(s, n)
           \/ /\ IsCoroutine(co[cur]) /\ UNCHANGED onAbort /\ uthreads' = n
              /\ \/ co' = WithStatus(s, co[cur].parent, "running")
                 \/ co' = Continue(WithStatus(s, co[cur].parent, "running"), co[cur].parent)
    PROVE  CoroTally'
<1> PICK p : p = co[cur].parent
  OBVIOUS
<1>1. /\ cur \in Co /\ co[cur].parent # cur
      /\ co[cur].kind \in {"entry", "thread"} => co[cur].ref
  BY HoldsCoro
<1>2. /\ s \in [Co -> CoCtx] /\ s[cur].kind = co[cur].kind /\ s[cur].parent = p
      /\ s[cur].waited = co[cur].waited /\ s[cur].ref = co[cur].ref
      /\ s[cur].status \in {"running", "dead"}
  BY DEF HasLeft
<1>3. /\ \A x \in Co : Kin(co[x], s[x])
      /\ \A x \in Co : s[x].status = "zombie" => s[x].ref
  BY DEF HasLeft, Still, Calm, Kin, Tallied, Marked
<1>4. CASE co[cur].kind = "thread" /\ ThreadEnds(s, n, cur)
  <2>1. p \in Co /\ p # cur
    BY <1>1, <1>4 DEF TypeInv, CoInv, Started
  <2>2. s[cur].waited => s[p].status # "suspended"
    BY <1>2, ToldParent
  <2>3. UthreadsExact' /\ Marked(co', NoCo)
    BY <1>1, <1>2, <1>4, <2>1, <2>2, ThreadEndsTallied
  <2>4. /\ \A x \in Co : x # p => Kin(s[x], co'[x])
        /\ co'[p].kind = s[p].kind /\ co'[p].parent = s[p].parent
        /\ co'[p].zombies \subseteq s[p].zombies \cup {cur}
    BY <1>1, <1>2, <1>3, <1>4, <2>1, ThreadEndsKin
  <2>5. /\ \A x \in Co : x # p => Kin(co[x], co'[x])
        /\ co'[p].kind = co[p].kind /\ co'[p].parent = co[p].parent
        /\ co'[p].zombies \subseteq co[p].zombies \cup {cur}
    BY <1>3, <2>1, <2>4 DEF Kin
  <2>6. Family(co')
    BY <1>1, <2>1, <2>5, KinGrows DEF CoroTally
  <2> QED
    BY <2>3, <2>6 DEF CoroTally
<1>5. CASE co[cur].kind # "thread" /\ FinalizeThreads(s, n)
  <2>1. UthreadsExact' /\ Marked(co', NoCo)
    BY <1>5, FinalizeTallied
  <2>2. \A x \in Co : Kin(s[x], co'[x])
    BY <1>2, <1>3, <1>5, KinFinalize
  <2>3. \A x \in Co : Kin(co[x], co'[x])
    BY <1>3, <2>2, SameTransitive
  <2>4. Family(co')
    BY <2>3, KinStep DEF CoroTally
  <2> QED
    BY <2>1, <2>4 DEF CoroTally
<1>6. CASE /\ IsCoroutine(co[cur]) /\ UNCHANGED onAbort /\ uthreads' = n
           /\ \/ co' = WithStatus(s, p, "running")
              \/ co' = Continue(WithStatus(s, p, "running"), p)
  <2>1. p \in Co /\ s[p].status # "suspended"
    BY <1>6, ToldParent
  <2>2. s[cur].kind # "thread"
    BY <1>2, <1>6 DEF IsCoroutine
  <2>3. UthreadsExact' /\ Marked(co', NoCo)
    BY <1>1, <1>6, <2>1, <2>2, BackTallied
  <2>4. \A x \in Co : Same(s[x], co'[x])
    BY <1>2, <1>6, <2>1, BackKin
  <2>5. \A x \in Co : Kin(co[x], co'[x])
    BY <1>3, <2>4, SameTransitive DEF Same
  <2>6. Family(co')
    BY <2>5, KinStep DEF CoroTally
  <2> QED
    BY <2>3, <2>6 DEF CoroTally
<1> QED
  BY <1>4, <1>5, <1>6

\* The coroutine that runs is dead, and still counted
LEMMA EndedTally ==
    ASSUME TypeInv, CoroInv, CoroTally, mode = "lua"
    PROVE  /\ HasLeft(Ended(cur)) /\ Tallied(Ended(cur), uthreads, cur)
           /\ \A c \in Co : c # cur => Ended(cur)[c] = co[c]
           /\ Ended(cur)[cur].status = "dead"
           /\ Reaps(Ended(cur), {})
<1> DEFINE s == Ended(cur)
<1>1. /\ HasLeft(s) /\ s[cur].status = "dead"
      /\ \A c \in Co : c # cur => s[c] = co[c]
  BY EndedLeft
<1>2. cur \in Co /\ co[cur].status = "running" /\ s \in [Co -> CoCtx]
  BY <1>1, RunsCoro DEF HasLeft
<1> HIDE DEF s
<1>3. \A c \in Co : Level(co[c], s[c])
  BY <1>1, <1>2 DEF Level, HasLeft
<1>4. Counted(s) = Counted(co)
  BY <1>3, LevelCounted
<1>5. Marked(s, cur)
  <2>1. \A c \in Co : c # NoCo
    BY CoAssumption
  <2> QED
    BY <1>1, <2>1 DEF CoroTally, Marked
<1>6. Tallied(s, uthreads, cur)
  BY <1>2, <1>4, <1>5 DEF Tallied, CoroTally, UthreadsExact
<1>7. Reaps(s, {})
  BY <1>1, <1>2, <1>5 DEF Reaps, HasLeft, Kin, Marked
<1> QED
  BY <1>1, <1>6, <1>7 DEF s

\* An error in a thread or a coroutine
LEMMA RaiseTally ==
    ASSUME TypeInv, CoroInv, CoroTally, mode \in {"lua", "raise"},
           NEW STATE s, HasLeft(s), Tallied(s, uthreads, cur),
           Raise(s, uthreads, cur)
    PROVE  /\ CoroTally'
           /\ mode' = "done" => \/ cur = Entry
                                \/ co[cur].kind = "thread" /\ ThreadEnds(s, uthreads, cur)
<1>1. s[cur].kind = co[cur].kind /\ s[cur].parent = co[cur].parent /\ cur \in Co
  BY HoldsCoro DEF HasLeft
<1>2. \/ co[cur].kind = "thread" /\ ThreadEnds(s, uthreads, cur)
      \/ co[cur].kind = "entry" /\ FinalizeThreads(s, uthreads)
      \/ /\ IsCoroutine(co[cur]) /\ UNCHANGED onAbort /\ uthreads' = uthreads
         /\ mode' # "done"
         /\ \/ co' = WithStatus(s, co[cur].parent, "running")
            \/ co' = Continue(WithStatus(s, co[cur].parent, "running"), co[cur].parent)
  BY <1>1 DEF Raise, IsCoroutine
<1>3. CoroTally'
  BY <1>2, LeavesTally
<1>4. co[cur].kind = "entry" => cur = Entry
  BY <1>1 DEF CoroTally, Family
<1> QED
  BY <1>2, <1>3, <1>4

LEMMA ErrorAccounts ==
    ASSUME TypeInv, CoroInv, CoroTally, Error
    PROVE  Accounts
<1> DEFINE s == Ended(cur)
           R == {}
<1>1. mode = "lua" /\ Raise(s, uthreads, cur)
  BY DEF Error
<1>2. HasLeft(s) /\ Tallied(s, uthreads, cur) /\ Reaps(s, R) /\ R \subseteq Reaped(cur)
  BY <1>1, EndedTally
<1>3. Cardinality(R) = 0
  BY FS_EmptySet
<1> HIDE DEF s, R
<1>4. Holder
  BY <1>1, CoroHolder
<1>5. /\ CoroTally'
      /\ mode' = "done" => \/ cur = Entry
                           \/ co[cur].kind = "thread" /\ ThreadEnds(s, uthreads, cur)
  BY <1>1, <1>2, RaiseTally
<1>6. ASSUME mode' = "done", cur # Entry
      PROVE  /\ ~co[Entry].ref
             /\ \A c \in Counted(co) \ {cur} :
                   co[c].status = "zombie" /\ co[c].parent = cur
  <2>1. co[cur].kind = "thread" /\ ThreadEnds(s, uthreads, cur)
    BY <1>5, <1>6
  <2>2. LastThread(s, uthreads - 1)
    BY <1>2, <1>4, <1>6, <2>1, RelatedThreadEnds DEF CoroTally
  <2>3. uthreads - Cardinality(R) - 1 = uthreads - 1
    <3>1. uthreads \in Int
      BY DEF TypeInv, TypeOK
    <3> QED
      BY <1>3, <3>1
  <2> QED
    BY <1>2, <1>4, <2>1, <2>2, <2>3, LastTakesAll DEF CoroTally
<1> QED
  BY <1>5, <1>6 DEF Accounts, EndsRight

LEMMA PropagateAccounts ==
    ASSUME TypeInv, CoroInv, CoroTally, Propagate
    PROVE  Accounts
<1> DEFINE r == [co[cur] EXCEPT !.at = "left"]
           s == [co EXCEPT ![cur] = r]
<1>1. /\ co \in [Co -> CoCtx] /\ cur \in Co /\ co[cur] \in CoCtx
      /\ co[cur].pending = {} /\ co[cur].status = "running"
      /\ mode = "raise" /\ co[cur].parent # cur
      /\ co[cur].kind \in {"entry", "thread"} => co[cur].ref
  BY HoldsCoro DEF Propagate
<1>2. /\ r \in CoCtx /\ r.kind = co[cur].kind /\ r.parent = co[cur].parent
      /\ r.ref = co[cur].ref /\ r.zombies = co[cur].zombies
      /\ r.status = "running" /\ r.at = "left" /\ r.pending = {}
      /\ r.waited = co[cur].waited
  BY <1>1 DEF CoCtx, Points
<1>3. Raise(s, uthreads, cur)
  BY DEF Propagate
<1> HIDE DEF r
<1>4. /\ s \in [Co -> CoCtx] /\ s[cur] = r
      /\ \A c \in Co : c # cur => s[c] = co[c]
  BY <1>1, <1>2
<1> HIDE DEF s
<1>5. HasLeft(s)
  BY <1>2, <1>4, StillSame DEF HasLeft
<1>6. Tallied(s, uthreads, cur)
  <2>1. \A c \in Co : Level(co[c], s[c])
    BY <1>1, <1>2, <1>4 DEF Level
  <2>2. Counted(s) = Counted(co)
    BY <2>1, LevelCounted
  <2>3. Marked(s, cur)
    <3>1. \A c \in Co : c # NoCo
      BY CoAssumption
    <3> QED
      BY <1>2, <1>4, <3>1 DEF CoroTally, Marked
  <2> QED
    BY <1>4, <2>2, <2>3 DEF Tallied, CoroTally, UthreadsExact
<1>7. /\ CoroTally'
      /\ mode' = "done" => \/ cur = Entry
                           \/ co[cur].kind = "thread" /\ ThreadEnds(s, uthreads, cur)
  BY <1>1, <1>3, <1>5, <1>6, RaiseTally
<1>8. ASSUME mode' = "done", co[cur].kind = "thread", ThreadEnds(s, uthreads, cur)
      PROVE  co'[cur].at # "end"
  <2>1. PICK p : p = co[cur].parent
    OBVIOUS
  <2>2. p \in Co /\ p # cur /\ p = s[cur].parent /\ s[cur].kind = "thread" /\ s[cur].ref
    BY <1>1, <1>2, <1>4, <1>8, <2>1 DEF TypeInv, CoInv, Started
  <2>3. Alive(s, p) => s[p].at \notin {"end", "fail"}
    <3>1. Posture(co[p]) /\ co[p] \in CoCtx /\ s[p] = co[p]
      BY <1>1, <1>4, <2>2 DEF CoroInv, Going
    <3> QED
      BY <3>1 DEF Alive, Posture, CoCtx, Statuses
  <2>4. Woke(s, cur, p) \/ Rests(s, cur, p) \/ Closes(s)
    BY <1>1, <1>4, <1>8, <2>2, <2>3, ThreadEndsIn
  <2>5. Closes(s)
    BY <1>8, <2>4 DEF Woke, Rests
  <2> QED
    BY <1>1, <1>2, <1>4, <2>5 DEF Closes, Quiet
<1> QED
  BY <1>7, <1>8 DEF Accounts, EndsRight

\* The coroutine that runs has returned, and the zombies on its list are gone
LEMMA ReturnedTally ==
    ASSUME TypeInv, CoroInv, CoroTally, mode = "lua",
           NEW STATE s, NEW STATE s1,
           s1 = DelThreads(Ended(cur), Reaped(cur)),
           s = Put(s1, cur, [s1[cur] EXCEPT !.zombies = {}])
    PROVE  /\ HasLeft(s) /\ Reaps(s, Reaped(cur))
           /\ Tallied(s, uthreads - Cardinality(Reaped(cur)), cur)
<1> DEFINE s0 == Ended(cur)
           R == Reaped(cur)
           r == [s1[cur] EXCEPT !.zombies = {}]
           n == uthreads - Cardinality(R)
<1>1. /\ HasLeft(s0) /\ Tallied(s0, uthreads, cur) /\ s0[cur].status = "dead"
      /\ \A c \in Co : c # cur => s0[c] = co[c]
  BY EndedTally
<1>2. /\ co \in [Co -> CoCtx] /\ cur \in Co /\ co[cur].status = "running"
      /\ co[cur] \in CoCtx /\ Holder
  BY RunsCoro, CoroHolder
<1>3. \A z \in R : /\ z \in Co /\ z # cur /\ co[z].ref
                   /\ co[z].kind = "thread" /\ co[z].status = "zombie"
  BY <1>2 DEF Reaped, Holder, Gone, CoCtx
<1>4. R = Reaped(cur) /\ R \subseteq Co /\ s1 = DelThreads(s0, R)
  BY <1>3
<1> HIDE DEF s0, R
<1>5. Tallied(s1, n, cur)
  <2>1. \A z \in R : z \in Counted(s0)
    BY <1>1, <1>3 DEF Counted
  <2>2. Counted(s0) \cap R = R
    BY <2>1
  <2> QED
    BY <1>1, <1>4, <2>2, DelTallied
<1>6. /\ s0 \in [Co -> CoCtx] /\ s1 \in [Co -> CoCtx] /\ s1[cur] = s0[cur]
      /\ \A x \in Co : x \notin R => s1[x] = s0[x]
  BY <1>1, <1>2, <1>3, <1>4, <1>5 DEF HasLeft, Tallied, DelThreads
<1>7. \A x \in Co : x # cur => Still(co[x], s1[x])
  <2>1. \A x \in R : Past(s0[x])
    BY <1>1, <1>3 DEF Past
  <2>2. \A x \in Co : Still(s0[x], s1[x])
    BY <1>4, <1>6, <2>1, StillDel
  <2> QED
    BY <1>1, <2>2
<1>8. \A x \in R : s1[x].status = "dead"
  <2> TAKE x \in R
  <2>1. s0[x].ref /\ s0[x] \in CoCtx /\ x \in Co
    BY <1>1, <1>3, <1>6
  <2>2. s1[x] = [s0[x] EXCEPT !.ref = FALSE, !.status = "dead"]
    BY <1>4, <2>1 DEF DelThreads
  <2> QED
    BY <2>1, <2>2 DEF CoCtx
<1>9. /\ r \in CoCtx /\ r.kind = co[cur].kind /\ r.parent = co[cur].parent
      /\ r.ref = co[cur].ref /\ r.zombies = {} /\ r.status = "dead"
      /\ r.at = "end" /\ r.pending = {} /\ r.waited = co[cur].waited
      /\ Level(s1[cur], r)
  <2>1. s1[cur] \in CoCtx
    BY <1>2, <1>6
  <2> QED
    BY <1>1, <1>6, <2>1 DEF HasLeft, CoCtx, Level
<1>10. s = Put(s1, cur, r)
  OBVIOUS
<1> HIDE DEF r
<1>11. Tallied(s, n, cur)
  BY <1>2, <1>5, <1>9, <1>10, PutTallied
<1>12. /\ s \in [Co -> CoCtx] /\ s[cur] = r
       /\ \A x \in Co : x # cur => s[x] = s1[x]
  BY <1>2, <1>10, <1>11 DEF Put, Tallied
<1>13. HasLeft(s)
  BY <1>7, <1>9, <1>12 DEF HasLeft
<1>14. Reaps(s, R)
  <2>1. \A x \in Co : Kin(co[x], s[x])
    BY <1>13 DEF HasLeft, Still, Calm, Kin
  <2>2. \A x \in Co : s[x].status = "zombie" => s[x].ref
    BY <1>11 DEF Tallied, Marked
  <2>3. ASSUME NEW x \in Co, x # cur, x \notin R PROVE s[x] = co[x]
    BY <1>1, <1>6, <1>12, <2>3
  <2>4. \A x \in R : s[x].status = "dead"
    BY <1>3, <1>8, <1>12
  <2>5. s[cur].status = "dead" /\ s[cur].ref = co[cur].ref
    BY <1>9, <1>12
  <2> QED
    BY <1>4, <1>12, <2>1, <2>2, <2>3, <2>4, <2>5 DEF Reaps
<1> QED
  BY <1>4, <1>11, <1>13, <1>14

LEMMA ReturnAccounts ==
    ASSUME TypeInv, CoroInv, CoroTally, Return
    PROVE  Accounts
<1> PICK p : p = co[cur].parent
  OBVIOUS
<1> DEFINE s1 == DelThreads(Ended(cur), Reaped(cur))
           s == Put(s1, cur, [s1[cur] EXCEPT !.zombies = {}])
           n == uthreads - Cardinality(Reaped(cur))
           d == DelThreads(s, {cur})
<1>1. /\ mode = "lua" /\ cur \in Co /\ co[cur].kind # "none" /\ co[cur].parent # cur
      /\ co[cur].kind \in {"entry", "thread"} => co[cur].ref
  BY RunsCoro, HoldsCoro DEF Return
<1>2. HasLeft(s) /\ Reaps(s, Reaped(cur)) /\ Tallied(s, n, cur)
  BY <1>1, ReturnedTally
<1>3. Holder
  BY <1>1, CoroHolder
<1>4. \/ co[cur].kind = "thread" /\ ThreadEnds(s, n, cur)
      \/ co[cur].kind \in {"coro", "wrap"} /\ UserCoDone(s, n, cur)
      \/ co[cur].kind = "entry" /\ FinalizeThreads(d, n)
      \/ co[cur].kind = "entry" /\ co' = d /\ uthreads' = n /\ Again /\ UNCHANGED onAbort
  BY DEF Return
<1>5. n = uthreads - Cardinality(Reaped(cur))
  OBVIOUS
<1> HIDE DEF s, n
<1>6. /\ s \in [Co -> CoCtx] /\ s[cur].kind = co[cur].kind /\ s[cur].parent = p
      /\ s[cur].ref = co[cur].ref /\ s[cur].status = "dead"
  BY <1>1, <1>2 DEF HasLeft, Reaps
<1>7. CASE co[cur].kind = "thread" /\ ThreadEnds(s, n, cur)
  <2>1. CoroTally'
    BY <1>1, <1>2, <1>7, LeavesTally
  <2>2. /\ Orphans' \subseteq Orphans
        /\ mode' = "done" => LastThread(s, n - 1)
    BY <1>2, <1>3, <1>7, RelatedThreadEnds DEF CoroTally
  <2>3. EndsRight
    <3> PICK R : R = Reaped(cur)
      OBVIOUS
    <3>1. mode' = "done" => LastThread(s, uthreads - Cardinality(R) - 1)
      BY <1>5, <2>2
    <3> QED
      BY <1>2, <1>3, <1>7, <3>1, LastTakesAll DEF CoroTally, EndsRight
  <2> QED
    BY <2>1, <2>2, <2>3 DEF Accounts
<1>8. CASE co[cur].kind \in {"coro", "wrap"} /\ UserCoDone(s, n, cur)
  <2>1. p \in Co /\ p # cur
    BY <1>8, RunningParent, <1>1 DEF IsCoroutine
  <2>2. /\ co' = Continue(WithStatus(s, p, "running"), p)
        /\ uthreads' = n /\ mode' = "lua" /\ UNCHANGED onAbort
    BY <1>6, <1>8 DEF UserCoDone
  <2>3. CoroTally'
    BY <1>1, <1>2, <1>8, <2>2, LeavesTally DEF IsCoroutine
  <2>4. \A x \in Co : Same(s[x], co'[x])
    BY <1>6, <2>1, <2>2, BackKin
  <2>5. co'[cur].parent = co[cur].parent /\ co'[cur].status # "zombie"
    BY <1>1, <1>6, <2>4 DEF Same, Kin, Tame
  <2>6. Orphans' \subseteq Orphans
    BY <1>2, <1>3, <2>4, <2>5, RelatedReap DEF Same
  <2> QED
    BY <2>2, <2>3, <2>6 DEF Accounts, EndsRight
<1>9. co[cur].kind = "entry" =>
        /\ Tallied(d, n, cur) /\ d[cur].kind = "entry"
        /\ \A x \in Co : Kin(s[x], d[x]) /\ (x # cur => d[x] = s[x])
        /\ d[cur].status = "dead" /\ d[cur].parent = p
  <2> SUFFICES ASSUME co[cur].kind = "entry"
               PROVE  /\ Tallied(d, n, cur) /\ d[cur].kind = "entry"
                      /\ \A x \in Co : Kin(s[x], d[x]) /\ (x # cur => d[x] = s[x])
                      /\ d[cur].status = "dead" /\ d[cur].parent = p
    OBVIOUS
  <2>1. cur \notin Counted(s)
    BY <1>6 DEF Counted
  <2>2. Tallied(d, n, cur)
    BY <1>1, <1>2, <2>1, DelOneTallied
  <2>3. /\ \A x \in Co : x # cur => d[x] = s[x]
        /\ d[cur].kind = "entry" /\ d[cur].status = "dead" /\ d[cur].parent = p
    BY <1>1, <1>6, DelOne
  <2>4. \A x \in Co : Kin(s[x], d[x])
    BY <1>6, KinDel
  <2> QED
    BY <2>2, <2>3, <2>4
<1> HIDE DEF d
<1>10. ASSUME co[cur].kind = "entry"
       PROVE  cur = Entry /\ \A x \in Co : Kin(co[x], d[x])
  <2>1. \A x \in Co : Kin(co[x], s[x]) /\ Kin(s[x], d[x])
    BY <1>2, <1>9, <1>10 DEF Reaps
  <2> QED
    BY <1>1, <1>10, <2>1, SameTransitive DEF CoroTally, Family
<1>11. CASE co[cur].kind = "entry" /\ FinalizeThreads(d, n)
  <2>1. UthreadsExact' /\ Marked(co', NoCo)
    BY <1>9, <1>11, FinalizeTallied
  <2>2. /\ d \in [Co -> CoCtx]
        /\ \A x \in Co : d[x].status = "zombie" => d[x].ref
    BY <1>9, <1>11 DEF Tallied, Marked
  <2>3. \A x \in Co : Kin(d[x], co'[x]) /\ co'[x].status # "zombie"
    BY <1>11, <2>2, KinFinalize
  <2>4. \A x \in Co : Kin(co[x], co'[x])
    BY <1>10, <1>11, <2>3, SameTransitive
  <2>5. Family(co')
    BY <2>4, KinStep DEF CoroTally
  <2>6. Orphans' = {}
    BY <2>3 DEF Orphans
  <2> QED
    BY <1>10, <1>11, <2>1, <2>5, <2>6 DEF Accounts, CoroTally, EndsRight
<1>12. CASE co[cur].kind = "entry" /\ co' = d /\ uthreads' = n /\ Again /\ UNCHANGED onAbort
  <2>1. UthreadsExact' /\ Marked(co', NoCo)
    BY <1>1, <1>9, <1>12, BackTallied
  <2>2. Family(co')
    BY <1>10, <1>12, KinStep DEF CoroTally
  <2>3. \A x \in Co : x # cur => Tame(s[x], co'[x])
    BY <1>9, <1>12 DEF Tame
  <2>4. co'[cur].parent = co[cur].parent /\ co'[cur].status = "dead"
    BY <1>9, <1>12
  <2>5. Orphans' \subseteq Orphans
    BY <1>2, <1>3, <2>3, <2>4, RelatedReap
  <2> QED
    BY <1>12, <2>1, <2>2, <2>5 DEF Accounts, CoroTally, EndsRight, Again
<1> QED
  BY <1>4, <1>7, <1>8, <1>11, <1>12

-----------------------------------------------------------------------------
\* What happens to a context that does not end: also to a coroutine that is
\* resumed, by another one than before
Steady(r, r2) ==
    /\ Level(r, r2) /\ r2.zombies = r.zombies
    /\ r.kind = "thread" => r2.parent = r.parent
    /\ r2.status = "zombie" => r.status = "zombie" /\ (r2.waited => r.waited)
    /\ r2.status = "dead" => r.status = "dead"

LEMMA SteadyTransitive ==
    ASSUME NEW r1, NEW r2, NEW r3, Steady(r1, r2), Steady(r2, r3)
    PROVE  Steady(r1, r3)
BY DEF Steady, Level

LEMMA SteadyContinue ==
    ASSUME NEW s \in [Co -> CoCtx], NEW c \in Co
    PROVE  \A x \in Co : Steady(s[x], Continue(s, c)[x])
<1> DEFINE r == [s[c] EXCEPT !.at = IF @ \in {"end", "fail"} THEN "fail" ELSE "run"]
<1>1. Steady(s[c], r)
  BY DEF CoCtx, Steady, Level
<1>2. Continue(s, c) = Put(s, c, r)
  BY DEF Continue
<1> HIDE DEF r
<1> QED
  BY <1>1, <1>2 DEF Put, Steady, Level

\* A context that is new
Begins(t) == /\ co[t].kind = "none" /\ co'[t].kind \in {"thread", "coro", "wrap"}
             /\ co'[t].zombies = {} /\ co'[t].status \in {"running", "suspended"}

LEMMA SteadyKeeps ==
    ASSUME TypeInv, CoroInv, CoroTally, mode # "done", NEW T,
           \A c \in Co : c \notin T => Steady(co[c], co'[c]),
           \A t \in Co \cap T : Begins(t)
    PROVE  Family(co') /\ Marked(co', NoCo) /\ Orphans' \subseteq Orphans
<1>1. \A c \in Co : /\ Posture(co[c]) /\ co[c].zombies \subseteq Co
                    /\ \A z \in co[c].zombies : Past(co[z])
  BY DEF CoroInv, Going, TypeInv, TypeOK, CoCtx
<1>2. /\ \A c \in Co : c # NoCo
      /\ \A c \in Co : co[c].status = "zombie" => co[c].ref
      /\ \A c \in Co : co[c].kind = "thread" /\ co[c].status = "dead" => ~co[c].ref
      /\ \A c \in Co : co[c].kind = "entry" <=> c = Entry
      /\ \A c \in Co : \A z \in co[c].zombies : co[z].parent = c
  BY CoAssumption DEF CoroTally, Marked, Family
<1>3. \A c \in Co : co'[c].kind = "entry" <=> c = Entry
  <2> TAKE c \in Co
  <2>1. c \in T => co[c].kind = "none" /\ co'[c].kind # "entry"
    BY DEF Begins
  <2>2. c \notin T => co'[c].kind = co[c].kind
    BY DEF Steady, Level
  <2> QED
    BY <1>2, <2>1, <2>2
<1>4. ASSUME NEW c \in Co, NEW z \in co'[c].zombies
      PROVE  co'[z].parent = c
  <2>1. c \notin T /\ z \in co[c].zombies
    BY <1>4 DEF Begins, Steady
  <2>2. z \in Co /\ co[z].kind = "thread" /\ co[z].parent = c
    BY <1>1, <1>2, <2>1 DEF Past
  <2>3. z \notin T
    BY <2>2 DEF Begins
  <2> QED
    BY <2>2, <2>3 DEF Steady
<1>5. Marked(co', NoCo)
  <2> SUFFICES ASSUME NEW c \in Co
               PROVE  /\ co'[c].status = "zombie" => co'[c].ref
                      /\ co'[c].kind = "thread" /\ co'[c].status = "dead" => ~co'[c].ref
    BY DEF Marked
  <2>1. CASE c \in T
    BY <2>1 DEF Begins
  <2>2. CASE c \notin T
    BY <1>2, <2>2 DEF Steady, Level
  <2> QED
    BY <2>1, <2>2
<1>6. ASSUME NEW z \in Co, co'[z].status = "zombie",
             Alive(co, co[z].parent), z \in co[co[z].parent].zombies,
             ~co[z].waited
      PROVE  /\ Alive(co', co'[z].parent)
             /\ z \in co'[co'[z].parent].zombies /\ ~co'[z].waited
  <2>1. z \notin T /\ co[z].status = "zombie"
    BY <1>6 DEF Begins, Steady
  <2>2. co[z].kind = "thread" /\ co'[z].parent = co[z].parent /\ ~co'[z].waited
    BY <1>1, <1>6, <2>1 DEF Posture, Steady
  <2>3. co[z].parent \in Co /\ co[co[z].parent].kind # "none"
    BY <2>2 DEF TypeInv, CoInv, Started
  <2>4. co[z].parent \notin T
    BY <2>3 DEF Begins
  <2> QED
    BY <1>6, <2>2, <2>3, <2>4 DEF Alive, Steady
<1>7. Orphans' \subseteq Orphans
  <2>1. \A z \in Co : co'[z].status = "zombie" => co[z].status = "zombie"
    BY DEF Begins, Steady
  <2> QED
    BY <1>6, <2>1 DEF Orphans
<1> QED
  BY <1>3, <1>4, <1>5, <1>7 DEF Family

LEMMA SteadyAccounts ==
    ASSUME TypeInv, CoroInv, CoroTally, mode # "done", mode' # "done",
           \A c \in Co : Steady(co[c], co'[c]), UNCHANGED <<uthreads, onAbort>>
    PROVE  Accounts
<1> DEFINE T == {}
<1>1. /\ \A c \in Co : c \notin T => Steady(co[c], co'[c])
      /\ \A t \in Co \cap T : Begins(t)
  OBVIOUS
<1> HIDE DEF T
<1>2. Family(co') /\ Marked(co', NoCo) /\ Orphans' \subseteq Orphans
  BY <1>1, SteadyKeeps
<1>3. Counted(co)' = Counted(co)
  BY DEF Counted, Steady, Level
<1>4. UthreadsExact'
  BY <1>3 DEF CoroTally, UthreadsExact
<1> QED
  BY <1>2, <1>4 DEF Accounts, CoroTally, EndsRight

LEMMA SteadyNew ==
    ASSUME TypeInv, CoroInv, CoroTally, mode # "done", NEW t \in Co, Begins(t),
           \A c \in Co : c # t => Steady(co[c], co'[c])
    PROVE  Family(co') /\ Marked(co', NoCo) /\ Orphans' \subseteq Orphans
<1> DEFINE T == {t}
<1>1. /\ \A c \in Co : c \notin T => Steady(co[c], co'[c])
      /\ \A x \in Co \cap T : Begins(x)
  OBVIOUS
<1> HIDE DEF T
<1> QED
  BY <1>1, SteadyKeeps

\* spawn, on_abort, create and wrap; only a thread that is spawned counts
LEMMA NewAccounts ==
    ASSUME TypeInv, CoroInv, CoroTally, mode = "lua", NEW t \in Co,
           \/ Spawn(t) \/ OnAbort(t)
           \/ \E kind \in {"coro", "wrap"} : Create(t, kind)
    PROVE  Accounts
<1> DEFINE fresh == [FreshCo EXCEPT !.kind = "thread", !.ref = TRUE, !.parent = cur]
           child == [FreshCo EXCEPT !.kind = "thread", !.ref = TRUE,
                                    !.status = "running", !.parent = cur, !.at = "run"]
           coro(kind) == [FreshCo EXCEPT !.kind = kind]
           q == [co[cur] EXCEPT !.at = "spawn"]
<1>1. /\ co \in [Co -> CoCtx] /\ cur \in Co /\ co[cur] \in CoCtx
      /\ co[cur].kind # "none"
  BY RunsCoro
<1>2. co[t].kind = "none" /\ t # cur
  BY <1>1 DEF Spawn, OnAbort, Create, Unborn
<1>3. /\ fresh.kind = "thread" /\ fresh.zombies = {} /\ fresh.status = "suspended"
      /\ child.kind = "thread" /\ child.zombies = {} /\ child.status = "running"
      /\ child.ref
      /\ \A kind : coro(kind).kind = kind /\ coro(kind).zombies = {}
                   /\ coro(kind).status = "suspended"
  BY DEF FreshCo
<1>4. Steady(co[cur], q)
  BY <1>1 DEF CoCtx, Steady, Level
<1>5. \A c \in Co : Steady(co[c], co[c])
  BY DEF Steady, Level
<1>6. CASE Spawn(t)
  <2>1. /\ co' = [co EXCEPT ![cur] = q, ![t] = child] /\ uthreads' = uthreads + 1
        /\ UNCHANGED <<mode, onAbort>>
    BY <1>1, <1>6 DEF Spawn
  <2> HIDE DEF child, q
  <2>2. co'[t] = child /\ \A c \in Co : c # t => Steady(co[c], co'[c])
    BY <1>1, <1>2, <1>4, <1>5, <2>1
  <2>3. Family(co') /\ Marked(co', NoCo) /\ Orphans' \subseteq Orphans
    <3>1. Begins(t)
      BY <1>2, <1>3, <2>2 DEF Begins
    <3>2. \A c \in Co : c # t => Steady(co[c], co'[c])
      BY <2>2
    <3> QED
      BY <3>1, <3>2, SteadyNew
  <2>4. Counted(co)' = Counted(co) \cup {t} /\ t \notin Counted(co)
    <3>1. ASSUME NEW c \in Co, c # t
          PROVE  c \in Counted(co)' <=> c \in Counted(co)
      <4>1. Level(co[c], co'[c]) /\ UNCHANGED onAbort
        BY <2>1, <2>2, <3>1 DEF Steady
      <4> QED
        BY <4>1 DEF Counted, Level
    <3>2. t \in Counted(co)' /\ t \notin Counted(co)
      BY <1>2, <1>3, <2>2 DEF Counted
    <3> QED
      BY <3>1, <3>2 DEF Counted
  <2>5. Cardinality(Counted(co) \cup {t}) = Cardinality(Counted(co)) + 1
    BY <2>4, CountedFinite, FS_AddElement
  <2>6. UthreadsExact'
    BY <2>1, <2>4, <2>5 DEF CoroTally, UthreadsExact
  <2> QED
    BY <2>1, <2>3, <2>6 DEF Accounts, CoroTally, EndsRight
<1>7. CASE OnAbort(t)
  <2>1. /\ co' = [co EXCEPT ![t] = fresh] /\ onAbort' = t /\ onAbort = NoCo
        /\ UNCHANGED <<mode, uthreads>>
    BY <1>1, <1>7 DEF OnAbort
  <2> HIDE DEF fresh
  <2>2. co'[t] = fresh /\ \A c \in Co : c # t => co'[c] = co[c]
    BY <1>1, <2>1
  <2>3. Family(co') /\ Marked(co', NoCo) /\ Orphans' \subseteq Orphans
    <3>1. Begins(t)
      BY <1>2, <1>3, <2>2 DEF Begins
    <3>2. \A c \in Co : c # t => Steady(co[c], co'[c])
      BY <1>5, <2>2
    <3> QED
      BY <3>1, <3>2, SteadyNew
  <2>4. Counted(co)' = Counted(co)
    BY <1>2, <1>3, <2>1, <2>2, CoAssumption DEF Counted
  <2>5. UthreadsExact'
    BY <2>1, <2>4 DEF CoroTally, UthreadsExact
  <2> QED
    BY <2>1, <2>3, <2>5 DEF Accounts, CoroTally, EndsRight
<1>8. ASSUME NEW kind \in {"coro", "wrap"}, Create(t, kind)
      PROVE  Accounts
  <2>1. co' = [co EXCEPT ![t] = coro(kind)] /\ UNCHANGED <<mode, uthreads, onAbort>>
    BY <1>1, <1>8 DEF Create
  <2> HIDE DEF coro
  <2>2. co'[t] = coro(kind) /\ \A c \in Co : c # t => co'[c] = co[c]
    BY <1>1, <2>1
  <2>3. Family(co') /\ Marked(co', NoCo) /\ Orphans' \subseteq Orphans
    <3>1. Begins(t)
      BY <1>2, <1>3, <2>2 DEF Begins
    <3>2. \A c \in Co : c # t => Steady(co[c], co'[c])
      BY <1>5, <2>2
    <3> QED
      BY <3>1, <3>2, SteadyNew
  <2>4. Counted(co)' = Counted(co)
    BY <1>2, <1>3, <2>1, <2>2 DEF Counted
  <2>5. UthreadsExact'
    BY <2>1, <2>4 DEF CoroTally, UthreadsExact
  <2> QED
    BY <2>1, <2>3, <2>5 DEF Accounts, CoroTally, EndsRight
<1> QED
  BY <1>6, <1>7, <1>8

\* r is what becomes of c, and it stays so if c goes on
LEMMA OneSteady ==
    ASSUME TypeInv, NEW c \in Co, NEW r \in CoCtx, Steady(co[c], r),
           NEW d \in Co,
           \/ co' = [co EXCEPT ![c] = r]
           \/ co' = Continue([co EXCEPT ![c] = r], d)
    PROVE  \A x \in Co : Steady(co[x], co'[x])
<1> DEFINE s == [co EXCEPT ![c] = r]
<1>1. co \in [Co -> CoCtx]
  BY DEF TypeInv, TypeOK
<1>2. s \in [Co -> CoCtx] /\ \A x \in Co : Steady(co[x], s[x])
  BY <1>1 DEF Steady, Level
<1>3. co' \in {s, Continue(s, d)}
  OBVIOUS
<1> HIDE DEF s
<1>4. \A x \in Co : Steady(s[x], Continue(s, d)[x])
  BY <1>2, SteadyContinue
<1>5. \A x \in Co : Steady(co[x], Continue(s, d)[x])
  BY <1>2, <1>4, SteadyTransitive
<1> QED
  BY <1>2, <1>3, <1>5

\* Calls that suspend the coroutine that runs
LEMMA SuspendAccounts ==
    ASSUME TypeInv, CoroInv, CoroTally, YieldThread \/ Sleep \/ Capture
    PROVE  Accounts
<1>1. /\ co \in [Co -> CoCtx] /\ cur \in Co /\ co[cur] \in CoCtx
      /\ co[cur].status = "running" /\ mode = "lua"
  BY RunsCoro DEF YieldThread, Sleep, Capture, Calls
<1>2. PICK P \in SUBSET {"op", "subreq"}, at \in Points :
        co' = [co EXCEPT ![cur] = [co[cur] EXCEPT !.status = "running",
                                                  !.pending = P, !.at = at]]
  <2>1. CASE YieldThread
    <3> DEFINE P == co[cur].pending
    <3>1. co' = [co EXCEPT ![cur] = [co[cur] EXCEPT !.status = "running",
                                                    !.pending = P, !.at = "yield"]]
      BY <1>1, <2>1 DEF YieldThread, CoCtx
    <3>2. P \in SUBSET {"op", "subreq"} /\ "yield" \in Points
      BY <1>1 DEF CoCtx, Points
    <3> QED
      BY <3>1, <3>2
  <2>2. ASSUME NEW op \in {"op", "subreq"},
               co' = [co EXCEPT ![cur].pending = @ \cup {op}, ![cur].at = "io"]
        PROVE  \E P \in SUBSET {"op", "subreq"}, at \in Points :
                 co' = [co EXCEPT ![cur] = [co[cur] EXCEPT !.status = "running",
                                                           !.pending = P, !.at = at]]
    <3> DEFINE P == co[cur].pending \cup {op}
    <3>1. co' = [co EXCEPT ![cur] = [co[cur] EXCEPT !.status = "running",
                                                    !.pending = P, !.at = "io"]]
      BY <1>1, <2>2 DEF CoCtx
    <3>2. P \in SUBSET {"op", "subreq"} /\ "io" \in Points
      BY <1>1 DEF CoCtx, Points
    <3> QED
      BY <3>1, <3>2
  <2> QED
    BY <2>1, <2>2 DEF Sleep, Capture
<1> DEFINE r == [co[cur] EXCEPT !.status = "running", !.pending = P, !.at = at]
<1>3. r \in CoCtx
  BY <1>1 DEF CoCtx, Statuses
<1>4. /\ r.kind = co[cur].kind /\ r.ref = co[cur].ref /\ r.status = "running"
      /\ r.zombies = co[cur].zombies /\ r.parent = co[cur].parent
  BY <1>1 DEF CoCtx
<1> HIDE DEF r
<1>5. Steady(co[cur], r)
  BY <1>1, <1>4 DEF Steady, Level
<1>6. \A x \in Co : Steady(co[x], co'[x])
  <2>1. co' = [co EXCEPT ![cur] = r]
    BY <1>2 DEF r
  <2> QED
    BY <1>1, <1>3, <1>5, <2>1, OneSteady
<1>7. mode' # "done" /\ UNCHANGED <<uthreads, onAbort>>
  BY DEF YieldThread, Sleep, Capture, Again
<1> QED
  BY <1>1, <1>6, <1>7, SteadyAccounts

\* Events, and the queue of posted threads
LEMMA WakeAccounts ==
    ASSUME TypeInv, CoroInv, CoroTally,
           RunPosted \/ PostedDrained \/ \E c \in Co : OpDone(c) \/ SubrequestDone(c)
    PROVE  Accounts
<1>1. /\ co \in [Co -> CoCtx] /\ posted \in Seq(Co) /\ mode # "done"
      /\ mode' # "done" /\ UNCHANGED <<uthreads, onAbort>>
  BY DEF TypeInv, TypeOK, RunPosted, PostedDrained, OpDone, SubrequestDone
<1>2. CASE co' = co
  BY <1>1, <1>2, SteadyAccounts DEF Steady, Level
<1>3. CASE posted # <<>> /\ co' = Continue(co, Head(posted))
  <2>1. Head(posted) \in Co
    BY <1>1, <1>3
  <2>2. \A x \in Co : Steady(co[x], co'[x])
    BY <1>1, <1>3, <2>1, SteadyContinue
  <2> QED
    BY <1>1, <2>2, SteadyAccounts
<1>4. ASSUME NEW c \in Co, OpDone(c) \/ SubrequestDone(c)
      PROVE  Accounts
  <2>1. PICK r \in {[co[c] EXCEPT !.pending = @ \ {"op"}],
                    [co[c] EXCEPT !.pending = @ \ {"subreq"}]} :
          co' = Continue([co EXCEPT ![c] = r], c)
    BY <1>1, <1>4 DEF OpDone, SubrequestDone
  <2>2. r \in CoCtx /\ Steady(co[c], r)
    BY <1>1, <2>1 DEF CoCtx, Steady, Level
  <2>3. \A x \in Co : Steady(co[x], co'[x])
    BY <2>1, <2>2, OneSteady
  <2> QED
    BY <1>1, <2>3, SteadyAccounts
<1> QED
  BY <1>2, <1>3, <1>4 DEF RunPosted, PostedDrained

\* Resume: neither the one nor the other is a thread that has not begun
LEMMA ResumeAccounts ==
    ASSUME TypeInv, CoroInv, CoroTally, NEW x \in Co, Resume(x)
    PROVE  Accounts
<1> DEFINE q == [co[cur] EXCEPT !.status = "normal", !.at = "resume"]
           r == [co[x] EXCEPT !.status = "running", !.parent = cur]
           s == [co EXCEPT ![cur] = q, ![x] = r]
<1>1. /\ co \in [Co -> CoCtx] /\ cur \in Co /\ co[cur] \in CoCtx /\ co[x] \in CoCtx
      /\ co[cur].status = "running" /\ mode = "lua"
      /\ co[x].kind \in {"coro", "wrap"} /\ co[x].status = "suspended"
      /\ mode' # "done" /\ UNCHANGED <<uthreads, onAbort>>
  BY RunsCoro DEF Resume, Resumable
<1>2. x # cur
  BY <1>1
<1>3. q \in CoCtx /\ r \in CoCtx /\ Steady(co[cur], q) /\ Steady(co[x], r)
  BY <1>1 DEF CoCtx, Points, Statuses, Steady, Level
<1>4. co' = Continue(s, x)
  BY <1>1, <1>2 DEF Resume
<1> HIDE DEF q, r
<1>5. s \in [Co -> CoCtx] /\ \A c \in Co : Steady(co[c], s[c])
  BY <1>1, <1>2, <1>3 DEF Steady, Level
<1> HIDE DEF s
<1>6. \A c \in Co : Steady(s[c], co'[c])
  BY <1>4, <1>5, SteadyContinue
<1>7. \A c \in Co : Steady(co[c], co'[c])
  BY <1>5, <1>6, SteadyTransitive
<1> QED
  BY <1>1, <1>7, SteadyAccounts

LEMMA YieldAccounts ==
    ASSUME TypeInv, CoroInv, CoroTally, YieldCoroutine
    PROVE  Accounts
<1> PICK p : p = co[cur].parent
  OBVIOUS
<1> DEFINE q == [co[cur] EXCEPT !.status = "suspended", !.at = "yield"]
           r == [co[p] EXCEPT !.status = "running"]
           s == [co EXCEPT ![cur] = q, ![p] = r]
<1>1. /\ co \in [Co -> CoCtx] /\ cur \in Co /\ co[cur] \in CoCtx
      /\ co[cur].status = "running" /\ mode = "lua" /\ co[cur].kind # "none"
      /\ co[cur].kind \notin {"entry", "thread"}
      /\ mode' # "done" /\ UNCHANGED <<uthreads, onAbort>>
  BY RunsCoro DEF YieldCoroutine, Calls, IsThread
<1>2. IsCoroutine(co[cur])
  BY <1>1 DEF CoCtx, Kinds, IsCoroutine
<1>3. p \in Co /\ p # cur /\ co[p].status = "normal" /\ co[p] \in CoCtx
  BY <1>1, <1>2, RunningParent
<1>4. q \in CoCtx /\ r \in CoCtx /\ Steady(co[cur], q) /\ Steady(co[p], r)
  BY <1>1, <1>3 DEF CoCtx, Points, Statuses, Steady, Level
<1>5. co' = Continue(s, p)
  BY <1>1, <1>3 DEF YieldCoroutine, YieldTo
<1> HIDE DEF q, r
<1>6. s \in [Co -> CoCtx] /\ \A c \in Co : Steady(co[c], s[c])
  BY <1>1, <1>3, <1>4 DEF Steady, Level
<1> HIDE DEF s
<1>7. \A c \in Co : Steady(s[c], co'[c])
  BY <1>3, <1>5, <1>6, SteadyContinue
<1>8. \A c \in Co : Steady(co[c], co'[c])
  BY <1>6, <1>7, SteadyTransitive
<1> QED
  BY <1>1, <1>8, SteadyAccounts

\* ngx.thread.wait: a flag, or a zombie that is reaped
LEMMA WaitAccounts ==
    ASSUME OneAtATime, TypeInv, CoroInv, CoroTally, NEW args \in WaitArgs, Wait(args)
    PROVE  Accounts
<1> DEFINE stops == {i \in DOMAIN args : StopsAt(args, i)}
           stop == IF stops = {} THEN Len(args) + 1
                   ELSE CHOOSE i \in stops : \A j \in stops : i <= j
           flag(c) == [co[c] EXCEPT !.waited = TRUE]
           flagged == [c \in Co |->
                          IF c \in Seen(args, stop) /\ co[c].status # "dead"
                          THEN flag(c) ELSE co[c]]
           t == args[1]
           q == [flagged[cur] EXCEPT !.at = "wait"]
<1> HIDE DEF stop
<1>1. /\ co \in [Co -> CoCtx] /\ cur \in Co /\ mode = "lua" /\ mode' # "done"
      /\ UNCHANGED onAbort
  BY RunsCoro DEF Wait, Calls, Again
<1>2. Len(args) = 1 /\ DOMAIN args = {1} /\ t \in Co /\ co[t].kind = "thread"
  <2>1. PICK n \in 1 .. MaxWait :
          args \in [1 .. n -> {x \in Co : co[x].kind = "thread" /\ x # onAbort}]
    BY DEF WaitArgs
  <2>2. n = 1
    BY WaitAssumption DEF OneAtATime
  <2> QED
    BY <2>1, <2>2
<1>3. CASE stops = {} /\ co' = Put(flagged, cur, q) /\ UNCHANGED uthreads
  <2>1. Seen(args, stop) = {t}
    <3>1. stop = 2
      BY <1>2, <1>3 DEF stop
    <3>2. 1 .. stop - 1 = {1}
      BY <3>1
    <3> QED
      BY <3>2 DEF Seen
  <2>2. co[t].status \notin {"dead", "zombie"}
    <3>1. ~StopsAt(args, 1)
      BY <1>2, <1>3
    <3> QED
      BY <1>2, <3>1 DEF StopsAt
  <2>3. flag(t) \in CoCtx /\ Steady(co[t], flag(t)) /\ \A c \in Co : Steady(co[c], co[c])
    <3>1. co[t] \in CoCtx
      BY <1>1, <1>2
    <3> QED
      BY <2>2, <3>1 DEF CoCtx, Steady, Level
  <2>4. flagged \in [Co -> CoCtx] /\ \A c \in Co : Steady(co[c], flagged[c])
    <3> HIDE DEF flag
    <3> QED
      BY <1>1, <2>1, <2>3
  <2> HIDE DEF flagged
  <2>5. Steady(flagged[cur], q)
    BY <1>1, <2>4 DEF CoCtx, Steady, Level
  <2> HIDE DEF q
  <2>6. \A c \in Co : Steady(flagged[c], co'[c])
    BY <1>3, <2>5 DEF Put, Steady, Level
  <2>7. \A c \in Co : Steady(co[c], co'[c])
    BY <2>4, <2>6, SteadyTransitive
  <2> QED
    BY <1>1, <1>3, <2>7, SteadyAccounts
<1>4. CASE stops # {}
  <2>1. stops = {1} /\ stop = 1
    <3>1. stops = {1}
      BY <1>2, <1>4
    <3> HIDE DEF stops
    <3>2. stop = 1
      BY <3>1 DEF stop
    <3> QED
      BY <3>1, <3>2
  <2>2. flagged = co
    <3>1. 1 .. stop - 1 = {}
      BY <2>1
    <3>2. Seen(args, stop) = {}
      BY <3>1 DEF Seen
    <3> QED
      BY <1>1, <3>2
  <2>3. \/ /\ co[t].status = "zombie" /\ co' = DelThreads(co, {t})
           /\ uthreads' = uthreads - 1
        \/ co' = co /\ UNCHANGED uthreads
    <3>1. \/ /\ co[args[stop]].status = "zombie"
             /\ co' = DelThreads(flagged, {args[stop]})
             /\ uthreads' = uthreads - 1
          \/ co' = flagged /\ UNCHANGED uthreads
      BY <1>4 DEF Wait, stop
    <3> HIDE DEF stops, flagged
    <3> QED
      BY <2>1, <2>2, <3>1
  <2>4. CASE co' = co /\ UNCHANGED uthreads
    BY <1>1, <2>4, SteadyAccounts DEF Steady, Level
  <2>5. CASE /\ co[t].status = "zombie" /\ co' = DelThreads(co, {t})
             /\ uthreads' = uthreads - 1
    <3> HIDE DEF t
    <3>1. Tallied(co, uthreads, NoCo)
      BY <1>1 DEF CoroTally, UthreadsExact, Tallied
    <3>2. t \in Counted(co)
      BY <1>2, <2>5, <3>1 DEF Tallied, Marked, Counted
    <3>3. Tallied(co', uthreads - 1, NoCo)
      BY <1>2, <2>5, <3>1, <3>2, DelOneTallied
    <3> DEFINE s == DelThreads(co, {t})
    <3>4. Tallied(s, uthreads - 1, NoCo) /\ co' = s
      BY <2>5, <3>3
    <3> HIDE DEF s
    <3>5. UthreadsExact' /\ Marked(co', NoCo)
      BY <1>1, <2>5, <3>4, TallyEnds
    <3>6. ~Alive(co, t)
      BY <2>5 DEF Alive
    <3>7. \A c \in Co : Same(co[c], co'[c])
      BY <1>1, <2>5, <3>6, KinDel DEF Same
    <3>8. Family(co')
      BY <3>7, KinStep DEF CoroTally, Same
    <3>9. \A z \in Co : co[z].status = "zombie" => co[z].parent \in Co
      BY <1>1 DEF TypeInv, CoInv, Started, CoroInv, Going, Posture
    <3>10. Orphans' \subseteq Orphans
      BY <3>7, <3>9, TameStep DEF Same
    <3> QED
      BY <1>1, <3>5, <3>8, <3>10 DEF Accounts, CoroTally, EndsRight
  <2> QED
    BY <2>3, <2>4, <2>5
<1> QED
  BY <1>3, <1>4 DEF Wait, stop

\* The end of the request by ngx.exit, or because the client has gone
LEMMA FinalizeAccounts ==
    ASSUME TypeInv, CoroTally, NEW STATE s, NEW STATE h, Tallied(s, uthreads, h),
           \A c \in Co : Kin(co[c], s[c]), FinalizeThreads(s, uthreads), EndsRight
    PROVE  Accounts
<1>1. UthreadsExact' /\ Marked(co', NoCo)
  BY FinalizeTallied
<1>2. /\ s \in [Co -> CoCtx]
      /\ \A c \in Co : s[c].status = "zombie" => s[c].ref
  BY DEF Tallied, Marked
<1>3. \A c \in Co : Kin(s[c], co'[c]) /\ co'[c].status # "zombie"
  BY <1>2, KinFinalize
<1>4. \A c \in Co : Kin(co[c], co'[c])
  BY <1>3, SameTransitive
<1>5. Family(co')
  BY <1>4, KinStep DEF CoroTally
<1>6. Orphans' = {}
  BY <1>3 DEF Orphans
<1> QED
  BY <1>1, <1>5, <1>6 DEF Accounts, CoroTally

LEMMA ExitAccounts ==
    ASSUME TypeInv, CoroInv, CoroTally, NEW forced, Exit(forced)
    PROVE  Accounts
<1> DEFINE r == [co[cur] EXCEPT !.status = "dead"]
           w == WithStatus(co, cur, "dead")
           s == CancelOps(w, {cur})
<1>1. /\ co \in [Co -> CoCtx] /\ cur \in Co /\ co[cur] \in CoCtx
      /\ co[cur].status = "running" /\ co[cur].at = "run"
  BY RunsCoro DEF Exit, Calls
<1>2. /\ r \in CoCtx /\ r.kind = co[cur].kind /\ r.ref = co[cur].ref
      /\ r.status = "dead" /\ r.parent = co[cur].parent
      /\ r.zombies = co[cur].zombies
  BY <1>1 DEF CoCtx, Statuses
<1>3. w = Put(co, cur, r)
  BY DEF WithStatus
<1> HIDE DEF r
<1>4. w \in [Co -> CoCtx] /\ w[cur] = r /\ \A c \in Co : c # cur => w[c] = co[c]
  BY <1>1, <1>2, <1>3 DEF Put
<1> HIDE DEF w
<1>5. \A c \in Co : Level(co[c], w[c]) /\ Kin(co[c], w[c])
  BY <1>1, <1>2, <1>4 DEF Level, Kin
<1>6. Counted(w) = Counted(co)
  BY <1>5, LevelCounted
<1>7. Marked(w, cur)
  <2>1. \A c \in Co : c # NoCo
    BY CoAssumption
  <2> QED
    BY <1>2, <1>4, <2>1 DEF CoroTally, Marked
<1>8. Tallied(w, uthreads, cur)
  BY <1>4, <1>6, <1>7 DEF Tallied, CoroTally, UthreadsExact
<1>9. FinalizeThreads(s, uthreads)
  BY DEF Exit, s, w
<1>10. Tallied(s, uthreads, cur) /\ \A c \in Co : Kin(w[c], s[c])
  BY <1>4, <1>8, CancelTallied, SameCancel DEF Same
<1> HIDE DEF s
<1>11. \A c \in Co : Kin(co[c], s[c])
  BY <1>5, <1>10, SameTransitive
<1>12. EndsRight
  <2>1. co'[cur].at = "run"
    BY <1>1, ExitMoves DEF Quiet
  <2> QED
    BY <2>1 DEF EndsRight
<1> QED
  BY <1>9, <1>10, <1>11, <1>12, FinalizeAccounts

LEMMA ClientAbortAccounts ==
    ASSUME TypeInv, CoroInv, CoroTally, ClientAbort
    PROVE  Accounts
<1>1. /\ co \in [Co -> CoCtx] /\ mode = "idle" /\ cur = NoCo /\ EndsRight
  BY CoAssumption DEF TypeInv, TypeOK, ClientAbort, EndsRight
<1>2. CASE FinalizeThreads(co, uthreads)
  <2> DEFINE s == co
  <2>1. /\ Tallied(s, uthreads, NoCo) /\ FinalizeThreads(s, uthreads)
        /\ \A c \in Co : Kin(co[c], s[c])
    BY <1>1, <1>2 DEF CoroTally, UthreadsExact, Tallied, Kin
  <2> DEFINE h == NoCo
  <2>2. Tallied(s, uthreads, h)
    BY <2>1
  <2> HIDE DEF s, h
  <2> QED
    BY <1>1, <2>1, <2>2, FinalizeAccounts
<1>3. CASE /\ onAbort # NoCo /\ co[onAbort].status = "suspended"
           /\ co' = Continue([co EXCEPT ![onAbort].status = "running"], onAbort)
           /\ uthreads' = uthreads + 1 /\ mode' = "lua"
           /\ UNCHANGED onAbort
  <2> DEFINE a == onAbort
             q == [co[a] EXCEPT !.status = "running"]
             s == [co EXCEPT ![a] = q]
  <2>1. /\ a \in Co /\ co[a].kind = "thread" /\ co[a] \in CoCtx
        /\ co[a].status = "suspended" /\ Posture(co[a])
    BY <1>1, <1>3 DEF TypeInv, TypeOK, CoroInv, Going
  <2>2. co[a].ref
    BY <2>1 DEF Posture
  <2>3. co' = Continue(s, a) /\ UNCHANGED a
    BY <1>1, <1>3
  <2> HIDE DEF a
  <2>4. /\ q \in CoCtx /\ q.kind = "thread" /\ q.parent = co[a].parent
        /\ q.status = "running" /\ q.ref /\ q.zombies = co[a].zombies
    BY <2>1, <2>2 DEF CoCtx, Statuses
  <2> HIDE DEF q
  <2>5. s \in [Co -> CoCtx] /\ s[a] = q /\ \A x \in Co : x # a => s[x] = co[x]
    BY <1>1, <2>1, <2>4
  <2> HIDE DEF s
  <2>6. /\ \A x \in Co : Steady(s[x], co'[x])
    BY <2>1, <2>3, <2>5, SteadyContinue
  <2>7. Same(co[a], s[a])
    BY <2>1, <2>4, <2>5 DEF Same, Kin, Tame
  <2>8. \A x \in Co : Same(co[x], s[x])
    BY <2>5, <2>7 DEF Same, Kin, Tame
  <2>9. \A x \in Co : Same(s[x], co'[x])
    BY <2>1, <2>3, <2>5, SameContinue
  <2>10. \A x \in Co : Same(co[x], co'[x])
    BY <2>8, <2>9, SameTransitive DEF Same
  <2>11. Family(co')
    BY <2>10, KinStep DEF CoroTally, Same
  <2>12. \A z \in Co : co[z].status = "zombie" => co[z].parent \in Co
    BY <1>1 DEF TypeInv, CoInv, Started, CoroInv, Going, Posture
  <2>13. Orphans' \subseteq Orphans
    BY <2>10, <2>12, TameStep DEF Same
  <2>14. /\ co'[a].status = "running" /\ co'[a].kind = "thread" /\ co'[a].ref
         /\ \A x \in Co : Level(s[x], co'[x]) /\ co'[x].status = s[x].status
    BY <2>1, <2>3, <2>4, <2>5, <2>6, SameContinue DEF Steady, Level
  <2>15. Marked(co', NoCo)
    <3> SUFFICES ASSUME NEW c \in Co
                 PROVE  /\ co'[c].status = "zombie" => co'[c].ref
                        /\ co'[c].kind = "thread" /\ co'[c].status = "dead" => ~co'[c].ref
      BY DEF Marked
    <3>1. c # NoCo
      BY CoAssumption
    <3>2. c # a => Level(co[c], co'[c]) /\ co'[c].status = co[c].status
      BY <2>5, <2>14
    <3> QED
      BY <2>14, <3>1, <3>2 DEF CoroTally, Marked, Level
  <2>16. Counted(co)' = Counted(co) \cup {a} /\ a \notin Counted(co)
    <3>1. a \notin Counted(co) /\ a \in Counted(co)'
      BY <2>1, <2>14 DEF Counted, a
    <3>2. ASSUME NEW c \in Co, c # a PROVE c \in Counted(co)' <=> c \in Counted(co)
      <4>1. co'[c].kind = co[c].kind /\ co'[c].ref = co[c].ref
        BY <2>5, <2>14, <3>2 DEF Level
      <4> QED
        BY <2>3, <3>2, <4>1 DEF Counted, a
    <3> QED
      BY <3>1, <3>2 DEF Counted
  <2>17. UthreadsExact'
    <3>1. Cardinality(Counted(co) \cup {a}) = Cardinality(Counted(co)) + 1
      BY <2>16, CountedFinite, FS_AddElement
    <3> QED
      BY <1>3, <2>16, <3>1 DEF CoroTally, UthreadsExact
  <2> QED
    BY <1>1, <2>11, <2>13, <2>15, <2>17 DEF Accounts, CoroTally
<1> QED
  BY <1>2, <1>3 DEF ClientAbort

LEMMA TallyInit == Init => CoroTally
<1> SUFFICES ASSUME Init PROVE CoroTally
  OBVIOUS
<1>1. UthreadsExact /\ Family(co)
  BY CountInit, FamilyInit DEF CountInv
<1>2. Marked(co, NoCo)
  BY DEF Init, FreshCo, Marked
<1> QED
  BY <1>1, <1>2 DEF CoroTally

LEMMA TallyStutter == CoroTally /\ UNCHANGED vars => CoroTally'
BY DEF vars, CoroTally, UthreadsExact, Counted, Marked, Family

LEMMA AccountsNext ==
    ASSUME NoKill, TypeInv, CoroInv, CoroTally, Next
    PROVE  Accounts
<1>1. OneAtATime /\ \A t \in Co : ~Kill(t) /\ ~KillZombie(t)
  BY DEF NoKill, Kill, KillZombie, Calls
<1>2. ASSUME NEW t \in Co, Spawn(t) \/ OnAbort(t)
      PROVE  Accounts
  BY <1>2, NewAccounts DEF Spawn, OnAbort, Calls
<1>3. ASSUME NEW x \in Co, NEW kind \in {"coro", "wrap"}, Create(x, kind)
      PROVE  Accounts
  BY <1>3, NewAccounts DEF Create, Calls
<1>4. CASE Lua
  BY <1>1, <1>2, <1>3, <1>4, WaitAccounts, ResumeAccounts, SuspendAccounts,
     YieldAccounts, ReturnAccounts, ErrorAccounts, ExitAccounts
  DEF Lua
<1>5. CASE Step \/ Event
  BY <1>5, PropagateAccounts, WakeAccounts DEF Step, Event
<1>6. CASE ClientAbort
  BY <1>6, ClientAbortAccounts
<1> QED
  BY <1>4, <1>5, <1>6 DEF Next

LEMMA TallyInductive ==
    ASSUME NoKill
    PROVE  Spec => [](TypeInv /\ CoroInv /\ CoroTally)
<1>1. Init => TypeInv /\ CoroInv /\ CoroTally
  BY TypeInit, CoroInit, TallyInit
<1>2. TypeInv /\ CoroInv /\ CoroTally /\ [Next]_vars
        => (TypeInv /\ CoroInv /\ CoroTally)'
  BY TypeNext, CoroNext, CoroStutter, AccountsNext, TallyStutter DEF Works, Accounts
<1> QED
  BY <1>1, <1>2, PTL DEF Spec

-----------------------------------------------------------------------------
(* The theorems.                                                             *)

LEMMA CountInductive ==
    ASSUME OnlyThreads
    PROVE  Spec => [](TypeInv /\ CountInv /\ (OneAtATime => SuspInv) /\ Family(co))
<1> DEFINE Inv == TypeInv /\ CountInv /\ (OneAtATime => SuspInv) /\ Family(co)
<1>1. Init => Inv
  BY TypeInit, CountInit, SuspInit, FamilyInit
<1>2. Inv /\ [Next]_vars => Inv'
  <2> SUFFICES ASSUME Inv, [Next]_vars PROVE Inv'
    OBVIOUS
  <2>1. TypeInv' /\ CountInv'
    BY TypeNext, CountNext
  <2>2. OneAtATime => SuspInv'
    BY SuspNext, SuspStutter DEF Kept
  <2>3. OneAtATime' <=> OneAtATime
    BY DEF OneAtATime
  <2>4. Family(co')
    <3>1. UNCHANGED vars => Family(co')
      BY DEF vars
    <3> QED
      BY <3>1, RelatedNext DEF Related
  <2> QED
    BY <2>1, <2>2, <2>3, <2>4 DEF Family
<1> QED
  BY <1>1, <1>2, PTL DEF Spec

\* However many threads are spawned, end, fail, are waited for (together or
\* one by one), killed, left as zombies or started by ngx.on_abort, and in
\* whatever order, ctx->uthreads is the number of threads still anchored: the
\* test "n == 0" that ends the request is neither too early nor too late, and
\* the assertion of ngx_http_lua_finalize_threads (util.c:3378) holds.
THEOREM CountCorrect ==
    ASSUME OnlyThreads
    PROVE  Spec => []UthreadsExact
<1>1. TypeInv /\ CountInv => UthreadsExact
  BY DEF CountInv
<1> QED
  BY <1>1, CountInductive, PTL

\* The CPU is only given to threads that are alive and still anchored: no
\* thread that was killed, has ended or was reaped runs again, although it may
\* still stand in the queue of posted threads when that happens.
THEOREM LiveRunsCorrect ==
    ASSUME OnlyThreads
    PROVE  Spec => []OnlyLiveRuns
<1>1. TypeInv /\ CountInv => OnlyLiveRuns
  <2> SUFFICES ASSUME TypeInv, CountInv, mode = "lua"
               PROVE  co[cur].ref /\ Alive(co, cur) /\ co[cur].at # "fail"
    BY DEF OnlyLiveRuns
  <2> QED
    BY RunsCount DEF Alive
<1> QED
  BY <1>1, CountInductive, PTL

\* When every ngx.thread.wait names one thread, what is recorded of a thread
\* is where it stands: waited_by_parent of a live thread (common.h:597) says
\* that its parent is inside that very wait, the queue of posted threads holds
\* nobody twice and will run only those who stand in the call that queued
\* them, and no operation is pending for a thread that stands elsewhere,
\* whatever else it has done, and whoever was killed, has failed or has ended.
THEOREM SuspensionCorrect ==
    ASSUME OnlyThreads, OneAtATime
    PROVE  Spec => []SuspensionExact
<1>1. TypeInv /\ SuspInv => SuspensionExact
  <2> SUFFICES ASSUME TypeInv, SuspInv PROVE SuspensionExact
    OBVIOUS
  <2>1. WaitedMeansWaiting
    BY DEF SuspInv, WaitsRight, Awaited, WaitedMeansWaiting
  <2>2. PostedExact
    BY DEF SuspInv, QueueRight, PostedExact
  <2>3. PendingExact
    BY DEF SuspInv, Stands, PendingExact
  <2> QED
    BY <2>1, <2>2, <2>3 DEF SuspensionExact, TypeInv
<1> QED
  BY <1>1, CountInductive, PTL

\* Under the same condition nobody is woken by what he does not wait for: a
\* thread inside an operation goes on when that operation is complete, one in
\* ngx.thread.wait at the end of the thread it named, one that has spawned a
\* thread when it is at the head of the queue.
THEOREM WakeCorrect ==
    ASSUME OnlyThreads, OneAtATime
    PROVE  Spec => WakeHasCause
<1> DEFINE Woken == \A c \in Co : co[c].at # "run" /\ co'[c].at = "run" => HasCause(c)
<1>1. TypeInv /\ CountInv /\ SuspInv /\ [Next]_vars => [Woken]_vars
  BY SuspNext DEF Kept
<1>2. TypeInv /\ CountInv /\ (OneAtATime => SuspInv) => TypeInv /\ CountInv /\ SuspInv
  OBVIOUS
<1> HIDE DEF Woken
<1>3. Spec => [][Woken]_vars
  BY <1>1, <1>2, CountInductive, PTL DEF Spec
<1> QED
  BY <1>3 DEF Woken, WakeHasCause

\* A zombie always has a live parent that can still wait for it, unless that
\* parent fails or is killed itself: a thread that returns reaps all zombies
\* it has not waited for, and a thread becomes a zombie on the list of a
\* parent that is alive, however long the two have been suspended.
THEOREM ZombieCorrect ==
    ASSUME OnlyThreads
    PROVE  Spec => ZombieHasParent
<1> DEFINE Spared == \/ Orphans' \subseteq Orphans
                     \/ Error \/ Propagate
                     \/ \E t \in Co : Kill(t)
<1>1. TypeInv /\ CountInv /\ Family(co) /\ [Next]_vars => [Spared]_vars
  BY RelatedNext DEF Related
<1> HIDE DEF Spared
<1>2. Spec => [][Spared]_vars
  BY <1>1, CountInductive, PTL DEF Spec
<1> QED
  BY <1>2 DEF Spared, ZombieHasParent

\* When the end of a user thread ends the request, the entry thread has ended
\* before and every other thread that is still counted is a zombie child that
\* this last thread has just reaped: nobody who could still run is cut off.
THEOREM EndCorrect ==
    ASSUME OnlyThreads
    PROVE  Spec => EndsWhenAllDone
<1>1. TypeInv /\ CountInv /\ Family(co) /\ [Next]_vars => [EndsRight]_vars
  BY EndsNext
<1>2. Spec => [][EndsRight]_vars
  BY <1>1, CountInductive, PTL DEF Spec
<1> QED
  BY <1>2 DEF EndsRight, EndsWhenAllDone

\* However light threads and user coroutines resume each other, yield, return,
\* fail, or let an error out through coroutine.wrap, and however the threads
\* below them are suspended in between: a coroutine whose status is "normal"
\* stands in the coroutine.resume it made, and exactly one coroutine will
\* continue it, the one it resumed; so no coroutine is resumed twice, and none
\* is left normal for ever.  Threads are waited for one by one and not killed.
THEOREM CoroutinesCorrect ==
    ASSUME NoKill
    PROVE  Spec => []NormalHasChild
<1>1. TypeInv /\ CoroInv => NormalHasChild
  <2> SUFFICES ASSUME TypeInv, CoroInv, NEW c \in Co, mode # "done",
                      co[c].status = "normal"
               PROVE  /\ co[c].at = "resume"
                      /\ Cardinality({x \in Co : /\ co[x].kind \in {"coro", "wrap"}
                                                 /\ co[x].parent = c /\ co[x].at # "left"
                                                 /\ co[x].status \in {"running", "normal"}}) = 1
    BY DEF NormalHasChild
  <2> DEFINE S == {x \in Co : /\ co[x].kind \in {"coro", "wrap"}
                              /\ co[x].parent = c /\ co[x].at # "left"
                              /\ co[x].status \in {"running", "normal"}}
  <2>1. Posture(co[c]) /\ LinksRight(co)
    BY DEF CoroInv, Going
  <2>2. PICK x \in Co : Active(co[x]) /\ co[x].parent = c
    BY <2>1 DEF LinksRight
  <2>3. S = {x}
    BY <2>1, <2>2 DEF LinksRight, Active, IsCoroutine
  <2>4. Cardinality(S) = 1
    BY <2>3, FS_Singleton
  <2> QED
    BY <2>1, <2>4 DEF Posture
<1> QED
  BY <1>1, CoroInductive, PTL

\* With user coroutines as without: what is recorded of a coroutine is where
\* it is suspended, and the queue of posted threads holds nobody twice.
THEOREM CoroutineSuspension ==
    ASSUME NoKill
    PROVE  Spec => []SuspensionExact
<1>1. TypeInv /\ CoroInv => SuspensionExact
  <2> SUFFICES ASSUME TypeInv, CoroInv PROVE SuspensionExact
    OBVIOUS
  <2>1. WaitedMeansWaiting
    BY DEF CoroInv, Parked, WaitsRight, Awaited, WaitedMeansWaiting
  <2>2. PostedExact
    BY DEF CoroInv, Parked, QueueRight, PostedExact
  <2>3. PendingExact
    BY DEF CoroInv, Parked, Recorded, PendingExact
  <2> QED
    BY <2>1, <2>2, <2>3 DEF SuspensionExact, TypeInv
<1> QED
  BY <1>1, CoroInductive, PTL

\* The CPU is only given to a coroutine or an anchored thread that has not
\* ended: lua_resume never fails because its coroutine is dead.
THEOREM CoroutineRuns ==
    ASSUME NoKill
    PROVE  Spec => []OnlyLiveRuns
<1>1. TypeInv /\ CoroInv => OnlyLiveRuns
  <2> SUFFICES ASSUME TypeInv, CoroInv, mode = "lua"
               PROVE  /\ IsThread(co, cur) => co[cur].ref
                      /\ Alive(co, cur) /\ co[cur].at # "fail"
    BY DEF OnlyLiveRuns
  <2> QED
    BY HoldsCoro DEF Alive, IsThread
<1> QED
  BY <1>1, CoroInductive, PTL

\* A coroutine that is suspended goes on by what it waits for and nothing
\* else: its operation, the end of the thread it waits for, its turn in the
\* queue, or the coroutine it resumed, which yields, ends or fails.
THEOREM CoroutineWakes ==
    ASSUME NoKill
    PROVE  Spec => WakeHasCause
<1> DEFINE Woken == \A c \in Co : co[c].at # "run" /\ co'[c].at = "run" => HasCause(c)
<1>1. TypeInv /\ CoroInv /\ [Next]_vars => [Woken]_vars
  BY CoroNext DEF Works
<1> HIDE DEF Woken
<1>2. Spec => [][Woken]_vars
  BY <1>1, CoroInductive, PTL DEF Spec
<1> QED
  BY <1>2 DEF Woken, WakeHasCause

\* The count of anchored threads stays exact when the threads run coroutines:
\* one that ends or fails inside another's resume, or lets an error out into a
\* thread, is never counted itself, and its thread is taken out of the count
\* once, when it ends, is reaped, or the request ends.
THEOREM CoroutineCount ==
    ASSUME NoKill
    PROVE  Spec => []UthreadsExact
<1>1. TypeInv /\ CoroInv /\ CoroTally => UthreadsExact
  BY DEF CoroTally
<1> QED
  BY <1>1, TallyInductive, PTL

\* A zombie keeps a live parent that may still wait for it, also when the
\* parent is a coroutine that is resumed by one thread and then by another.
THEOREM CoroutineZombies ==
    ASSUME NoKill
    PROVE  Spec => ZombieHasParent
<1> DEFINE Spared == \/ Orphans' \subseteq Orphans
                     \/ Error \/ Propagate
                     \/ \E t \in Co : Kill(t)
<1>1. TypeInv /\ CoroInv /\ CoroTally /\ [Next]_vars => [Spared]_vars
  BY AccountsNext DEF Accounts
<1> HIDE DEF Spared
<1>2. Spec => [][Spared]_vars
  BY <1>1, TallyInductive, PTL DEF Spec
<1> QED
  BY <1>2 DEF Spared, ZombieHasParent

\* The end of a thread ends the request only when nobody else could run: also
\* when threads were spawned by coroutines that other threads resume.
THEOREM CoroutineEnd ==
    ASSUME NoKill
    PROVE  Spec => EndsWhenAllDone
<1>1. TypeInv /\ CoroInv /\ CoroTally /\ [Next]_vars => [EndsRight]_vars
  BY AccountsNext DEF Accounts
<1>2. Spec => [][EndsRight]_vars
  BY <1>1, TallyInductive, PTL DEF Spec
<1> QED
  BY <1>2 DEF EndsRight, EndsWhenAllDone
=============================================================================
