------------------------------ MODULE PhasesProofs ------------------------------
(* The references to a request, the handlers that have run and the response  *)
(* that they have begun, for any requests, bounds and worker.                *)
EXTENDS Phases, TLAPS, FiniteSetTheorems

States == {"engine", "lua", "suspended", "flush", "body", "draining", "finished",
           "terminated", "log", "closed"}

\* Where control cannot come back to the phases from
Gone == {"draining", "finished", "terminated", "log", "closed"}

\* Where the Lua code of the handler has begun and has not returned
InLua == {"lua", "suspended", "flush"}

LuaContexts == [entered : SUBSET ToSet(Phases), waitingBody : BOOLEAN, bodyDone : BOOLEAN,
                fresh : BOOLEAN]

Requests ==
    [phase : 1..5, pos : 1..3, at : States, count : Nat, frames : Nat, uriChanged : BOOLEAN,
     haveBody : BOOLEAN, cut : BOOLEAN, logged : {0, 1}, pass : 1..MaxPasses, prints : Nat,
     ran : Seq((1..5) \X {"lua", "other"}), lua : LuaContexts, kind : Kinds]

\* The holders of a reference
Held(q) ==
    (IF q.kind.captured THEN 1 ELSE 0) + q.frames
    + (IF q.at \in {"finished", "log", "closed"} THEN 0 ELSE 1)
    + (IF q.lua.waitingBody /\ q.phase # 5 THEN 1 ELSE 0)

\* What is counted, while control is where it is
Counted(q) ==
    /\ q.count = IF q.cut /\ q.at \in {"log", "closed"} THEN 0 ELSE Held(q)
    /\ q.at \in {"log", "closed"} => q.frames = 0 /\ q.count = 0
    /\ q.logged = IF q.at = "closed" THEN 1 ELSE 0
    /\ q.uriChanged => q.pass < MaxPasses /\ q.phase = 2
    /\ q.frames < q.pass
    /\ q.lua.waitingBody => q.at \in {"body", "terminated", "log", "closed"}
    /\ q.at = "body" => q.lua.waitingBody
    /\ q.cut => q.at \in {"terminated", "log", "closed"}
    /\ q.at = "terminated" => q.cut

\* Handler h of phase p is in the history of this pass
Done(q, p, h) == \E i \in DOMAIN q.ran : q.ran[i] = <<p, h>>

\* The phases have run in order and no handler twice; behind the present phase
\* none is missing
Ordered(q) ==
    /\ \A i, j \in DOMAIN q.ran : i < j => q.ran[i][1] <= q.ran[j][1] /\ q.ran[i] # q.ran[j]
    /\ \A i \in DOMAIN q.ran : q.ran[i][1] <= q.phase
    /\ \A p \in 2..(q.phase - 1) :
          Phases[p] \in Movable /\ (Phases[p] = "access" => ~q.kind.captured) =>
              Done(q, p, "other") /\ (Phases[p] \in q.kind.has => Done(q, p, "lua"))

\* The places of the two handlers in the present phase, m moved
LuaPos(q, m) == IF Phase(q) \in m THEN 2 ELSE 1
OtherPos(q, m) == IF Phase(q) \in m THEN 1 ELSE 2

\* In the present phase the handlers before this place have run, the others
\* have not
Placed(q, m) ==
    /\ q.at \in {"engine", "body"} =>
          /\ q.pos <= LuaPos(q, m) => ~Done(q, q.phase, "lua")
          /\ Phase(q) \in Movable /\ q.pos <= OtherPos(q, m) => ~Done(q, q.phase, "other")
    /\ q.at \in InLua \cup {"engine", "body"} =>
          /\ q.pos > LuaPos(q, m) => Done(q, q.phase, "lua") \/ q.uriChanged \/ ~HasLua(q)
          /\ Phase(q) \in Movable /\ q.pos > OtherPos(q, m) => Done(q, q.phase, "other")
    /\ q.at \in InLua \cup {"body"} =>
          /\ q.pos = LuaPos(q, m) /\ HasLua(q)
          /\ Phase(q) \in Movable => Phase(q) \in m
    /\ q.at \in InLua => Done(q, q.phase, "lua")
    /\ q.at \in InLua \cup {"engine", "body"} /\ q.phase = 5 => ~Done(q, 5, "other")

RequestInv(q, m) == q \in Requests /\ Counted(q) /\ Ordered(q) /\ Placed(q, m)

\* A phase that may still run finds no response, if no code declines after it
Unresponded == Careful /\ rq.at \in {"engine", "body"} => ~Responded(resp)

\* The fields of a response
Fielded == {"sent", "status", "ctx"} \subseteq DOMAIN resp

Inv == RequestInv(rq, moved) /\ moved \subseteq Movable /\ Unresponded /\ Fielded

-------------------------------------------------------------------------------
(* The phases and their handlers.                                            *)

LEMMA PhaseNames ==
    ASSUME NEW q \in Requests
    PROVE  /\ q.phase = 1 => Phase(q) = "server_rewrite"
           /\ q.phase = 2 => Phase(q) = "rewrite"
           /\ q.phase = 3 => Phase(q) = "access"
           /\ q.phase = 4 => Phase(q) = "precontent"
           /\ q.phase = 5 => Phase(q) = "content"
           /\ q.phase \in 1..5
           /\ Phase(q) = Phases[q.phase]
BY DEF Phase, Phases, Requests

LEMMA Places ==
    ASSUME Inv
    PROVE  /\ Here = Phase(rq)
           /\ \A h : AtHandler(h) => /\ rq.at = "engine"
                                     /\ h = "lua" => rq.pos = LuaPos(rq, moved)
                                     /\ h = "other" => rq.pos = OtherPos(rq, moved) /\ Here \in Movable
           /\ rq.pos > Len(Handlers(Here)) => /\ rq.pos > LuaPos(rq, moved)
                                              /\ Here \in Movable => rq.pos > OtherPos(rq, moved)
<1>1. rq \in Requests /\ moved \subseteq Movable /\ rq.pos \in 1..3
  BY DEF Inv, RequestInv, Requests
<1>2. CASE Here \in Movable
  <2>1. Handlers(Here) = IF Here \in moved THEN <<"other", "lua">> ELSE <<"lua", "other">>
    BY <1>2 DEF Handlers
  <2> QED
    BY <1>1, <1>2, <2>1 DEF AtHandler, Handler, LuaPos, OtherPos, Here
<1>3. CASE Here \notin Movable
  <2>1. Handlers(Here) = <<"lua">> /\ Here \notin moved
    BY <1>1, <1>3 DEF Handlers
  <2> QED
    BY <1>1, <1>3, <2>1 DEF AtHandler, Handler, LuaPos, OtherPos, Here
<1> QED
  BY <1>2, <1>3

-------------------------------------------------------------------------------
(* The end of a request.                                                     *)

\* What becomes of a request that is finalized, but for a reference given back
Outcomes(q) == {Cut(q), [q EXCEPT !.at = "draining"], Dropped([q EXCEPT !.at = "finished"])}

LEMMA FinalizedOutcomes ==
    ASSUME NEW q, NEW o, NEW rc, rc # "done", NEW y \in Finalized(q, o, rc)
    PROVE  y.q \in Outcomes(q)
BY DEF Finalized, Terminated, Finished, Pair, Outcomes

LEMMA FinalizedDone ==
    ASSUME NEW q, NEW o, NEW y \in Finalized(q, o, "done")
    PROVE  y.q = Dropped(q) /\ y.o = o
BY DEF Finalized, Pair

LEMMA SameHistory ==
    ASSUME NEW q, Ordered(q), NEW r, r.ran = q.ran, r.phase = q.phase, r.kind = q.kind
    PROVE  /\ Ordered(r)
           /\ \A p, h : Done(r, p, h) = Done(q, p, h)
           /\ \A m : r.at \in Gone => Placed(r, m)
BY DEF Ordered, Done, Placed, Gone, InLua

LEMMA OutcomesInv ==
    ASSUME NEW q \in Requests, Counted(q), Ordered(q), NEW m,
           q.at \notin Gone \cup {"body"} \/ q.at = "draining", NEW r \in Outcomes(q)
    PROVE  RequestInv(r, m) /\ r.at \in Gone
<1>1. /\ q.count \in Nat /\ q.frames \in Nat /\ q.lua.waitingBody = FALSE
      /\ q.count = (IF q.kind.captured THEN 1 ELSE 0) + q.frames + 1
      /\ q.frames < q.pass /\ q.logged = 0 /\ (q.uriChanged => q.pass < MaxPasses /\ q.phase = 2)
      /\ q.cut = FALSE
  BY DEF Counted, Held, Gone, Requests, LuaContexts
<1>2. CASE r = Cut(q)
  <2>1. r = [q EXCEPT !.at = "terminated", !.cut = TRUE]
    BY <1>2 DEF Cut
  <2>2. /\ r \in Requests /\ r.at = "terminated" /\ r.cut = TRUE /\ r.count = q.count
        /\ r.frames = q.frames /\ r.kind = q.kind /\ r.lua = q.lua /\ r.phase = q.phase
        /\ r.ran = q.ran /\ r.logged = q.logged /\ r.uriChanged = q.uriChanged /\ r.pass = q.pass
    BY <2>1 DEF Requests, States
  <2>3. Counted(r)
    BY <1>1, <2>2 DEF Counted, Held
  <2> QED
    BY <2>2, <2>3, SameHistory DEF RequestInv, Gone
<1>3. CASE r = [q EXCEPT !.at = "draining"]
  <2>1. /\ r \in Requests /\ r.at = "draining" /\ r.cut = q.cut /\ r.count = q.count
        /\ r.frames = q.frames /\ r.kind = q.kind /\ r.lua = q.lua /\ r.phase = q.phase
        /\ r.ran = q.ran /\ r.logged = q.logged /\ r.uriChanged = q.uriChanged /\ r.pass = q.pass
    BY <1>3 DEF Requests, States
  <2>2. Counted(r)
    BY <1>1, <2>1 DEF Counted, Held
  <2> QED
    BY <2>1, <2>2, SameHistory DEF RequestInv, Gone
<1>4. CASE r = Dropped([q EXCEPT !.at = "finished"])
  <2>1. r = [q EXCEPT !.count = q.count - 1, !.at = IF q.count = 1 THEN "log" ELSE "finished"]
    BY <1>4 DEF Dropped, Requests
  <2>2. q.count - 1 \in Nat
    BY <1>1
  <2>3. /\ r \in Requests /\ r.at = (IF q.count = 1 THEN "log" ELSE "finished")
        /\ r.cut = q.cut /\ r.count = q.count - 1
        /\ r.frames = q.frames /\ r.kind = q.kind /\ r.lua = q.lua /\ r.phase = q.phase
        /\ r.ran = q.ran /\ r.logged = q.logged /\ r.uriChanged = q.uriChanged /\ r.pass = q.pass
    BY <2>1, <2>2 DEF Requests, States
  <2>4. Counted(r)
    BY <1>1, <2>3 DEF Counted, Held
  <2> QED
    BY <2>3, <2>4, SameHistory DEF RequestInv, Gone
<1> QED
  BY <1>2, <1>3, <1>4 DEF Outcomes

-------------------------------------------------------------------------------
(* What Lua code returns.                                                    *)

LEMMA ByChunkEnds ==
    ASSUME NEW p, NEW o, NEW rc, rc # "done", NEW x \in ByChunkEnd(p, o, rc)
    PROVE  /\ x.rc # "done"
           /\ x.rc = "declined" \/ (x.rc = "ok" /\ p = "access") =>
                 rc \in {"ok", "declined"} /\ (~Responded(x.o) \/ (rc = "declined" /\ x.o = o))
<1>1. ASSUME NEW else \in {"ok", "declined"}, NEW y \in UnlessResponded(o, else)
      PROVE  y.rc # "done" /\ (y.rc \in {"ok", "declined"} => y.rc = else /\ ~Responded(y.o))
  BY <1>1 DEF UnlessResponded, Result
<1>2. CASE rc = "ok"
  BY <1>1, <1>2 DEF ByChunkEnd, ServerRewriteEnd, RewriteEnd, AccessEnd, PrecontentEnd, ContentEnd, Result
<1>3. CASE rc = "declined"
  <2>1. x \in UnlessResponded(o, "declined") \/ (p # "access" /\ x = Result(o, "ok"))
            \/ x = Result(o, "declined")
    BY <1>3 DEF ByChunkEnd, ServerRewriteEnd, RewriteEnd, AccessEnd, PrecontentEnd, ContentEnd
  <2> QED
    BY <1>1, <1>3, <2>1 DEF Result
<1>4. CASE rc \notin {"ok", "declined"}
  <2>1. x = Result(o, rc)
    BY <1>4 DEF ByChunkEnd, ServerRewriteEnd, RewriteEnd, AccessEnd, PrecontentEnd, ContentEnd
  <2> QED
    BY <1>4, <2>1 DEF Result
<1> QED
  BY <1>2, <1>3, <1>4

\* The next handler of the phase
Next1(q) == [Left(q) EXCEPT !.at = "engine", !.pos = @ + 1]

LEMMA CheckedOutcomes ==
    ASSUME NEW q, NEW o, NEW rc, rc # "done",
           NEW x \in ByChunkEnd(Phase(q), o, rc), NEW y \in Checked(q, x.o, x.rc)
    PROVE  \/ y.q \in Outcomes(q)
           \/ /\ y.q = Next1(q) /\ rc \in {"ok", "declined"}
              /\ ~Responded(y.o) \/ (rc = "declined" /\ y.o = o)
<1>1. x.rc # "done"
  BY ByChunkEnds
<1>2. CASE x.rc = "declined" \/ (x.rc = "ok" /\ Phase(q) = "access")
  <2>1. y = Pair(Next1(q), x.o)
    BY <1>2 DEF Checked, Next1
  <2>2. rc \in {"ok", "declined"} /\ (~Responded(x.o) \/ (rc = "declined" /\ x.o = o))
    BY <1>2, ByChunkEnds
  <2> QED
    BY <2>1, <2>2 DEF Pair
<1>3. CASE ~(x.rc = "declined" \/ (x.rc = "ok" /\ Phase(q) = "access"))
  BY <1>1, <1>3, FinalizedOutcomes DEF Checked
<1> QED
  BY <1>2, <1>3

\* The Lua code of a handler that has begun goes on to the next handler
LEMMA NextHandlerInv ==
    ASSUME NEW q \in Requests, Counted(q), Ordered(q), NEW m \in SUBSET Movable, Placed(q, m),
           q.at = "lua"
    PROVE  RequestInv(Next1(q), m) /\ Next1(q).at = "engine"
<1> DEFINE r == Next1(q)
<1>1. q.pos \in {1, 2} /\ (q.pos = 2 => Phase(q) \in Movable)
  BY DEF Placed, LuaPos, InLua
<1>2. /\ Left(q) \in Requests /\ Left(q).lua.waitingBody = q.lua.waitingBody
      /\ Left(q).cut = q.cut /\ Left(q).count = q.count /\ Left(q).pos = q.pos
      /\ Left(q).frames = q.frames /\ Left(q).kind = q.kind /\ Left(q).phase = q.phase
      /\ Left(q).ran = q.ran /\ Left(q).logged = q.logged /\ Left(q).uriChanged = q.uriChanged
      /\ Left(q).pass = q.pass
  <2>1. CASE Phase(q) \in {"server_rewrite", "rewrite"}
    <3>1. Left(q) = [q EXCEPT !.lua = [q.lua EXCEPT !.entered = {}]]
      BY <2>1 DEF Left, Requests
    <3>2. /\ [q.lua EXCEPT !.entered = {}] \in LuaContexts
          /\ [q.lua EXCEPT !.entered = {}].waitingBody = q.lua.waitingBody
      BY DEF Requests, LuaContexts
    <3> DEFINE l == [q.lua EXCEPT !.entered = {}]
    <3> HIDE DEF l
    <3> QED
      BY <3>1, <3>2 DEF Requests, l
  <2>2. CASE Phase(q) \notin {"server_rewrite", "rewrite"}
    BY <2>2 DEF Left
  <2> QED
    BY <2>1, <2>2
<1>4. /\ r \in Requests /\ r.at = "engine" /\ r.pos = q.pos + 1
      /\ r.cut = q.cut /\ r.count = q.count /\ r.lua.waitingBody = q.lua.waitingBody
      /\ r.frames = q.frames /\ r.kind = q.kind /\ r.phase = q.phase
      /\ r.ran = q.ran /\ r.logged = q.logged /\ r.uriChanged = q.uriChanged /\ r.pass = q.pass
  <2> DEFINE l == Left(q)
  <2>1. /\ l \in Requests /\ l.lua.waitingBody = q.lua.waitingBody /\ l.cut = q.cut
        /\ l.count = q.count /\ l.frames = q.frames /\ l.kind = q.kind /\ l.phase = q.phase
        /\ l.ran = q.ran /\ l.logged = q.logged /\ l.uriChanged = q.uriChanged /\ l.pass = q.pass
    BY <1>2
  <2>2. r = [l EXCEPT !.at = "engine", !.pos = q.pos + 1]
    BY <1>2 DEF Next1, Requests
  <2>3. q.pos + 1 \in 1..3
    BY <1>1
  <2> HIDE DEF l, r
  <2>4. r \in Requests
    BY <2>1, <2>2, <2>3 DEF Requests, States
  <2> QED
    BY <2>1, <2>2, <2>4 DEF Requests
<1> HIDE DEF r
<1>5. Counted(r)
  BY <1>4 DEF Counted, Held
<1>6. Ordered(r) /\ \A p, h : Done(r, p, h) = Done(q, p, h)
  BY <1>4, SameHistory
<1>7. Phase(r) = Phase(q)
  BY <1>4 DEF Phase
<1>8. Placed(r, m)
  BY <1>1, <1>4, <1>6, <1>7 DEF Placed, LuaPos, OtherPos, InLua, HasLua
<1> QED
  BY <1>4, <1>5, <1>6, <1>8 DEF RequestInv, r

-------------------------------------------------------------------------------
(* The fields of the response.                                               *)

\* The results of an operator on o, whose fields are kept
Keeps(o, results) == \A x \in results : /\ DOMAIN x = {"o", "rc"} /\ DOMAIN x.o = DOMAIN o
                                        /\ x.rc # "done"

LEMMA KeepsResult ==
    ASSUME NEW o, NEW r, DOMAIN r = DOMAIN o
    PROVE  Keeps(o, Ok(r)) /\ \A rc : rc # "done" => Keeps(o, {Result(r, rc)})
BY DEF Keeps, Ok, Result

LEMMA KeepsWrite == ASSUME NEW o, NEW chain PROVE Keeps(o, Write(o, chain))
<1>1. ASSUME o.gone, NEW x \in Write(o, chain)
      PROVE  DOMAIN x = {"o", "rc"} /\ DOMAIN x.o = DOMAIN o /\ x.rc # "done"
  <2>1. x = Result([o EXCEPT !.error = TRUE], "error")
    BY <1>1 DEF Write
  <2> QED
    BY <2>1 DEF Result
<1>2. ASSUME ~o.gone, NEW x \in Write(o, chain)
      PROVE  DOMAIN x = {"o", "rc"} /\ DOMAIN x.o = DOMAIN o /\ x.rc # "done"
  <2>1. PICK b : x = Result([o EXCEPT !.wire = @ \o Shown(chain), !.buffered = b],
                            IF b THEN "again" ELSE "ok")
    BY <1>2 DEF Write
  <2> QED
    BY <2>1 DEF Result
<1> QED
  BY <1>1, <1>2 DEF Keeps

LEMMA KeepsCaptureBody == ASSUME NEW o, NEW chain PROVE Keeps(o, CaptureBodyFilter(o, chain))
BY KeepsWrite DEF Keeps, CaptureBodyFilter, Result, Ok

LEMMA KeepsHeaderFilter == ASSUME NEW o, NEW length PROVE Keeps(o, HeaderFilter(o, length))
<1>1. Keeps(o, CaptureHeaderFilter(o, length))
  <2> DEFINE q == [o EXCEPT !.ctx.capture = o.captured]
             h == [q EXCEPT !.sent = TRUE, !.headerOnly = @ \/ (o.captured /\ o.head),
                            !.heads = Append(@, [length |-> length, after |-> Len(o.wire)])]
  <2>1. DOMAIN h = DOMAIN o
    OBVIOUS
  <2>2. DOMAIN [h EXCEPT !.ctx.hdr = TRUE] = DOMAIN o /\ DOMAIN [h EXCEPT !.error = TRUE] = DOMAIN o
    BY <2>1
  <2>3. CaptureHeaderFilter(o, length) \in {Ok([h EXCEPT !.ctx.hdr = TRUE]),
                                            {Result([h EXCEPT !.error = TRUE], "error")}, Ok(h)}
    BY DEF CaptureHeaderFilter
  <2> HIDE DEF h
  <2>4. /\ Keeps(o, Ok([h EXCEPT !.ctx.hdr = TRUE])) /\ Keeps(o, Ok(h))
        /\ Keeps(o, {Result([h EXCEPT !.error = TRUE], "error")})
    BY <2>1, <2>2, KeepsResult
  <2> QED
    BY <2>3, <2>4
<1> QED
  BY <1>1 DEF Keeps, HeaderFilter, Result

LEMMA KeepsUpdated == ASSUME NEW o, NEW R, Keeps(o, R) PROVE Keeps(o, Updated(R))
<1> SUFFICES ASSUME NEW x \in R
             PROVE  LET y == [x EXCEPT !.o.ctx.busy = x.o.buffered /\ ~x.o.ctx.capture]
                    IN DOMAIN y = {"o", "rc"} /\ DOMAIN y.o = DOMAIN o /\ y.rc # "done"
  BY DEF Keeps, Updated
<1> QED
  BY DEF Keeps

LEMMA KeepsRunFilter == ASSUME NEW o PROVE Keeps(o, RunFilter(o))
<1> DEFINE ran == [o EXCEPT !.ctx.fin = <<>>, !.seen = @ \o DataOf(o.ctx.fin)]
           After(f) == [ran EXCEPT !.ctx.seenLast = f.seenLast, !.cleared = @ \/ f.cleared]
           Handed(f) == IF f.chain = <<>> THEN Ok(After(f))
                        ELSE Updated(CaptureBodyFilter(After(f), f.chain))
           Seen == UNION {Handed(f) : f \in BodyFilterByChunk(o)}
           Failing == {Result(ran, "error") : why \in FilterFails \cap {"body"}}
<1>1. DOMAIN ran = DOMAIN o /\ \A f : DOMAIN After(f) = DOMAIN o
  OBVIOUS
<1>2. \A q, chain : DOMAIN q = DOMAIN o => Keeps(o, Updated(CaptureBodyFilter(q, chain)))
  BY KeepsUpdated, KeepsCaptureBody DEF Keeps
<1>3. \A f : Keeps(o, Handed(f))
  BY <1>1, <1>2, KeepsResult
<1>4. Keeps(o, {Result(ran, "error")})
  BY <1>1, KeepsResult
<1>5. o.ctx.fin = <<>> => RunFilter(o) = Updated(CaptureBodyFilter(o, <<>>))
  BY DEF RunFilter
<1>6. o.ctx.fin # <<>> =>
          RunFilter(o) = (UNION {Handed(f) : f \in BodyFilterByChunk(o)}) \cup Failing
  BY DEF RunFilter
<1> HIDE DEF ran, After, Handed
<1>7. CASE o.ctx.fin = <<>>
  BY <1>2, <1>5, <1>7
<1>8. CASE o.ctx.fin # <<>>
  <2>1. SUFFICES ASSUME NEW x \in RunFilter(o)
                 PROVE  DOMAIN x = {"o", "rc"} /\ DOMAIN x.o = DOMAIN o /\ x.rc # "done"
    BY DEF Keeps
  <2>2. CASE x = Result(ran, "error")
    BY <1>4, <2>2 DEF Keeps
  <2>3. CASE x # Result(ran, "error")
    <3>1. x \notin Failing
      BY <2>3
    <3>2. x \in Seen
      <4> HIDE DEF Failing
      <4> QED
        BY <1>6, <1>8, <3>1
    <3>3. PICK f \in BodyFilterByChunk(o) : x \in Handed(f)
      BY <3>2
    <3> QED
      BY <1>3, <3>3 DEF Keeps
  <2> QED
    BY <2>2, <2>3
<1> QED
  BY <1>7, <1>8


LEMMA KeepsOutputFilter == ASSUME NEW o, NEW chain PROVE Keeps(o, OutputFilter(o, chain))
<1>1. Keeps(o, BodyFilter(o, chain))
  <2> DEFINE t == Taken(o, chain)
             W == IF t.ctx.busy /\ t.buffered THEN Updated(CaptureBodyFilter(t, <<>>)) ELSE Ok(t)
             F(p) == IF p.ctx.busy /\ p.buffered THEN {Result(p, "again")} ELSE RunFilter(p)
  <2>1. CASE ~o.filters \/ o.headerOnly
    BY <2>1, KeepsCaptureBody DEF BodyFilter
  <2>2. CASE ~(~o.filters \/ o.headerOnly)
    <3>1. DOMAIN t = DOMAIN o
      BY DEF Taken
    <3>2. Keeps(o, W)
      BY <3>1, KeepsUpdated, KeepsCaptureBody, KeepsResult DEF Keeps
    <3>3. \A q : DOMAIN q = DOMAIN o => Keeps(o, F(q))
      BY KeepsResult, KeepsRunFilter DEF Keeps
    <3>4. BodyFilter(o, chain) = UNION {IF x.rc = "error" THEN {x} ELSE F(x.o) : x \in W}
      BY <2>2 DEF BodyFilter, Then
    <3> HIDE DEF W, F
    <3> QED
      BY <3>2, <3>3, <3>4 DEF Keeps
  <2> QED
    BY <2>1, <2>2
<1> QED
  BY <1>1 DEF Keeps, OutputFilter, Result

LEMMA KeepsSendHeader == ASSUME NEW o, NEW length PROVE Keeps(o, SendHeader(o, length))
BY KeepsHeaderFilter, KeepsResult DEF SendHeader

LEMMA KeepsSendHeaderIfNeeded == ASSUME NEW o PROVE Keeps(o, SendHeaderIfNeeded(o))
<1> DEFINE p == [o EXCEPT !.status = TRUE]
<1>1. DOMAIN p = DOMAIN o
  OBVIOUS
<1>2. Keeps(o, Ok(o)) /\ Keeps(o, Ok(p))
  BY <1>1, KeepsResult
<1>3. Keeps(o, SendHeader(p, NoLength))
  BY <1>1, KeepsSendHeader DEF Keeps
<1>4. SendHeaderIfNeeded(o) \in {Ok(o), Ok(p), {[x EXCEPT !.o.ctx.hdr = TRUE] : x \in SendHeader(p, NoLength)}}
  BY DEF SendHeaderIfNeeded
<1>5. Keeps(o, {[x EXCEPT !.o.ctx.hdr = TRUE] : x \in SendHeader(p, NoLength)})
  BY <1>3 DEF Keeps
<1> QED
  BY <1>2, <1>4, <1>5

LEMMA KeepsSendHttp10Headers == ASSUME NEW o PROVE Keeps(o, SendHttp10Headers(o))
<1>1. \A n : Keeps(o, SendHeader(o, n))
  BY KeepsSendHeader
<1>2. Keeps(o, Ok(o))
  BY KeepsResult
<1> QED
  BY <1>1, <1>2 DEF Keeps, SendHttp10Headers

LEMMA KeepsSendOut == ASSUME NEW o PROVE Keeps(o, SendOut(o))
<1>1. Keeps(o, OutputFilter(o, o.ctx.out)) /\ Keeps(o, Ok(o))
  BY KeepsOutputFilter, KeepsResult
<1> DEFINE F(p) == Ok([p EXCEPT !.ctx.out = <<>>])
<1>2. \A p : DOMAIN p = DOMAIN o => Keeps(o, F(p))
  BY DEF Keeps, Ok, Result
<1>3. SendOut(o) \in {Ok(o), UNION {IF x.rc = "error" THEN {x} ELSE F(x.o) : x \in OutputFilter(o, o.ctx.out)}}
  BY DEF SendOut, Then
<1> HIDE DEF F
<1>4. Keeps(o, UNION {IF x.rc = "error" THEN {x} ELSE F(x.o) : x \in OutputFilter(o, o.ctx.out)})
  BY <1>1, <1>2 DEF Keeps
<1> QED
  BY <1>1, <1>3, <1>4

LEMMA KeepsSendChainLink == ASSUME NEW o, NEW chain PROVE Keeps(o, SendChainLink(o, chain))
<1> DEFINE Same(p) == DOMAIN p = DOMAIN o
           Only(p) == LET q == [p EXCEPT !.ctx.eof = TRUE]
                      IN IF q.ctx.buffering THEN SendHttp10Headers(q) ELSE Ok(q)
           More(p) == IF p.ctx.buffering THEN Ok([p EXCEPT !.ctx.out = @ \o chain])
                      ELSE OutputFilter(p, chain)
           Http10(p) == UNION {IF x.rc = "error" THEN {x} ELSE SendOut(x.o) : x \in SendHttp10Headers(p)}
           Begun(p) == IF p.ctx.buffering THEN Http10(p) ELSE Ok(p)
           Finish(p) == UNION {IF x.rc = "error" THEN {x} ELSE SendSpecial(x.o) : x \in Begun(p)}
           F(p) == IF p.headerOnly THEN Only(p) ELSE IF chain # <<>> THEN More(p) ELSE Finish(p)
<1>1. \A p : Same(p) => Keeps(o, Only(p))
  BY KeepsSendHttp10Headers, KeepsResult DEF Keeps
<1>2. \A p : Same(p) => Keeps(o, More(p))
  BY KeepsOutputFilter, KeepsResult DEF Keeps
<1>3. \A p : Same(p) => Keeps(o, Http10(p))
  BY KeepsSendHttp10Headers, KeepsSendOut DEF Keeps
<1>4. \A p : Same(p) => Keeps(o, Begun(p))
  <2> HIDE DEF Http10
  <2> QED
    BY <1>3, KeepsResult DEF Keeps
<1>5. \A p : Same(p) => Keeps(o, Finish(p))
  <2>1. \A p : Same(p) => Keeps(o, SendSpecial(p))
    BY KeepsOutputFilter DEF SendSpecial, Keeps
  <2> HIDE DEF Begun
  <2> QED
    BY <1>4, <2>1 DEF Keeps
<1>6. \A p : Same(p) => Keeps(o, F(p))
  <2> HIDE DEF Only, More, Finish
  <2> QED
    BY <1>1, <1>2, <1>5
<1>7. Same(Prepared(o))
  BY DEF Prepared
<1>8. Keeps(o, SendHeaderIfNeeded(Prepared(o)))
  BY <1>7, KeepsSendHeaderIfNeeded DEF Keeps
<1>9. SendChainLink(o, chain) \in
          {Ok(o), UNION {IF x.rc = "error" THEN {x} ELSE F(x.o) : x \in SendHeaderIfNeeded(Prepared(o))}}
  BY DEF SendChainLink, Then
<1> HIDE DEF F
<1>10. Keeps(o, UNION {IF x.rc = "error" THEN {x} ELSE F(x.o) : x \in SendHeaderIfNeeded(Prepared(o))})
  BY <1>6, <1>8 DEF Keeps
<1> QED
  BY <1>9, <1>10, KeepsResult

LEMMA KeepsRespond == ASSUME NEW o PROVE Keeps(o, Respond(o))
<1> DEFINE p == [o EXCEPT !.status = TRUE, !.headerOnly = @ \/ o.head]
           F(q) == IF q.headerOnly THEN Ok(q)
                   ELSE OutputFilter(q, <<[Buf(<<Page>>) EXCEPT !.last = TRUE]>>)
<1>1. DOMAIN p = DOMAIN o
  OBVIOUS
<1>2. Keeps(o, SendHeader(p, NoLength))
  <2> HIDE DEF p
  <2>1. Keeps(p, SendHeader(p, NoLength))
    BY KeepsSendHeader
  <2> QED
    BY <1>1, <2>1 DEF Keeps
<1>3. \A q : DOMAIN q = DOMAIN o => Keeps(o, F(q))
  BY KeepsResult, KeepsOutputFilter DEF Keeps
<1>4. Respond(o) = UNION {IF x.rc = "error" THEN {x} ELSE F(x.o) : x \in SendHeader(p, NoLength)}
  BY DEF Respond, Then
<1> HIDE DEF p, F
<1> QED
  BY <1>2, <1>3, <1>4 DEF Keeps

\* The response after a request is finalized
LEMMA FinalizedKeeps ==
    ASSUME NEW q, NEW o, NEW rc, NEW y \in Finalized(q, o, rc)
    PROVE  DOMAIN y.o = DOMAIN o
<1> DEFINE R == IF o.captured THEN PostSubrequest(o, rc)
                ELSE IF rc = "special" THEN Respond(o) ELSE {Result(o, rc)}
           G(x) == IF x.rc \in {"error", "close"} THEN Terminated(q, x.o) ELSE Finished(q, x.o)
<1>1. rc # "done" => Keeps(o, R)
  BY KeepsResult, KeepsRespond, KeepsSendHeaderIfNeeded DEF PostSubrequest, Keeps
<1>2. \A x : \A z \in G(x) : z.o = x.o
  BY DEF Terminated, Finished, Pair
<1>3. CASE rc = "done"
  BY <1>3, FinalizedDone
<1>4. CASE rc # "done"
  <2>1. Finalized(q, o, rc) = UNION {G(x) : x \in R}
    BY <1>4 DEF Finalized
  <2> HIDE DEF G, R
  <2>2. PICK x \in R : y \in G(x)
    BY <2>1
  <2> QED
    BY <1>1, <1>2, <1>4, <2>2 DEF Keeps
<1> QED
  BY <1>3, <1>4

LEMMA CheckedKeeps ==
    ASSUME NEW q, NEW o, NEW rc, NEW x \in ByChunkEnd(Phase(q), o, rc), NEW y \in Checked(q, x.o, x.rc)
    PROVE  DOMAIN y.o = DOMAIN o
<1>1. ASSUME NEW else, NEW z \in UnlessResponded(o, else) PROVE DOMAIN z.o = DOMAIN o
  BY <1>1, KeepsSendChainLink DEF UnlessResponded, Result, Keeps
<1>2. DOMAIN x.o = DOMAIN o
  BY <1>1 DEF ByChunkEnd, ServerRewriteEnd, RewriteEnd, AccessEnd, PrecontentEnd, ContentEnd, Result
<1> QED
  BY <1>2, FinalizedKeeps DEF Checked, Pair

-------------------------------------------------------------------------------
(* The steps of Lua code.                                                    *)

\* The Lua code of a handler returns
LEMMA ReturnedInv ==
    ASSUME Inv, rq.at = "lua", NEW o, DOMAIN o = DOMAIN resp,
           NEW rc, rc # "done", Careful /\ rc = "declined" => ~Responded(o),
           NEW q \in Requests, q.at = "lua",
           Counted(q), Ordered(q), Placed(q, moved), Phase(q) = Here,
           NEW x \in ByChunkEnd(Here, o, rc), NEW y \in Checked(q, x.o, x.rc),
           rq' = y.q, resp' = y.o, moved' = moved
    PROVE  Inv'
<1>1. rq' \in Outcomes(q) \/ (rq' = Next1(q) /\ (Careful => ~Responded(resp')))
  BY CheckedOutcomes
<1>2. RequestInv(rq', moved)
  BY <1>1, OutcomesInv, NextHandlerInv DEF Inv, Gone
<1>3. rq' \in Outcomes(q) => rq'.at \in Gone
  BY OutcomesInv DEF Gone
<1>4. Unresponded'
  BY <1>1, <1>3 DEF Unresponded, Gone
<1>5. Fielded'
  BY CheckedKeeps DEF Inv, Fielded
<1> QED
  BY <1>2, <1>4, <1>5 DEF Inv

LEMMA EndsInv == ASSUME Inv, Ends PROVE Inv'
<1>1. Keeps(resp, RunDone(resp))
  <2>1. Keeps(resp, SendChainLink(resp, <<>>)) /\ Keeps(resp, Ok(resp))
    BY KeepsSendChainLink, KeepsResult
  <2>2. Keeps(resp, {IF x.rc = "error" THEN x ELSE Result(x.o, "ok") : x \in SendChainLink(resp, <<>>)})
    BY <2>1 DEF Keeps, Result
  <2> QED
    BY <2>1, <2>2 DEF RunDone
<1>2. PICK x \in RunDone(resp) : Returned(x.o, x.rc)
  BY DEF Ends
<1>3. x.rc \in {"ok", "error"} /\ DOMAIN x.o = DOMAIN resp
  BY <1>1 DEF RunDone, Ok, Result, Keeps
<1>4. Inv /\ rq.at = "lua" /\ Phase(rq) = Here
  BY DEF Ends, Here
<1>5. PICK z \in ByChunkEnd(Here, x.o, x.rc) : \E y \in Checked(rq, z.o, z.rc) :
          rq' = y.q /\ resp' = y.o /\ UNCHANGED moved
  BY <1>2 DEF Returned
<1> QED
  BY <1>3, <1>4, <1>5, ReturnedInv DEF Inv, RequestInv

LEMMA FailsInv == ASSUME Inv, Fails PROVE Inv'
<1> DEFINE rc == IF resp.sent \/ resp.ctx.hdr THEN "error" ELSE "special"
<1>1. PICK z \in ByChunkEnd(Here, resp, rc) : \E y \in Checked(rq, z.o, z.rc) :
          rq' = y.q /\ resp' = y.o /\ UNCHANGED moved
  BY DEF Fails, Returned
<1>2. rq.at = "lua" /\ Phase(rq) = Here /\ rc \notin {"done", "declined"}
  BY DEF Fails, Here
<1> HIDE DEF rc
<1> QED
  BY <1>1, <1>2, ReturnedInv DEF Inv, RequestInv

LEMMA HandleExitKeeps ==
    ASSUME NEW o, NEW code, code # "done", NEW x \in HandleExit(o, code)
    PROVE  /\ DOMAIN x.o = DOMAIN o /\ x.rc \in {code, "ok", "200", "error"}
           /\ code = "declined" /\ ~HasBegun(o) /\ {"sent", "status", "ctx"} \subseteq DOMAIN o =>
                 ~Responded(x.o)
<1> DEFINE p == [o EXCEPT !.status = @ \/ code \in {"200", "special"}]
           last == {IF z.rc = "error" THEN z ELSE Result(z.o, "ok") : z \in SendChainLink(p, <<>>)}
           Code(r) == IF (r.sent \/ r.ctx.hdr) /\ code \in {"200", "special"}
                      THEN {Result(r, IF InContent(rq) THEN "ok" ELSE "200")}
                      ELSE {Result(r, code)}
           Buffered == {IF z.rc = "error" THEN z ELSE Result(z.o, IF code \in {"ok", "declined"} THEN code ELSE "200") : z \in last}
           First == IF code = "200" \/ (code = "ok" /\ InContent(rq)) THEN last ELSE Ok(p)
<1>1. DOMAIN p = DOMAIN o
  OBVIOUS
<1>2. Keeps(o, last) /\ \A z \in last : z.rc \in {"ok", "error"}
  BY <1>1, KeepsSendChainLink DEF Keeps, Result
<1>3. Keeps(o, Buffered) /\ \A z \in Buffered : z.rc \in {code, "ok", "200", "error"}
  <2> HIDE DEF last
  <2> QED
    BY <1>2 DEF Keeps, Result
<1>4. \A q : \A z \in Code(q) : z.o = q /\ z.rc \in {code, "ok", "200"}
  BY DEF Result
<1>5. Keeps(o, First) /\ \A z \in First : z.rc \in {"ok", "error"}
  <2>1. Keeps(o, Ok(p)) /\ \A z \in Ok(p) : z.rc = "ok"
    BY <1>1 DEF Keeps, Ok, Result
  <2> HIDE DEF p, last
  <2> QED
    BY <1>2, <2>1
<1>6. x \in Buffered \/ x \in UNION {IF z.rc = "error" THEN {z} ELSE Code(z.o) : z \in First}
  BY DEF HandleExit, Then
<1>7. ASSUME code = "declined", ~HasBegun(o), {"sent", "status", "ctx"} \subseteq DOMAIN o
      PROVE  ~Responded(x.o)
  <2>5. p.ctx = o.ctx /\ p.sent = o.sent
    OBVIOUS
  <2>6. p.status = (o.status \/ code \in {"200", "special"})
    BY <1>7
  <2>1. p.ctx = o.ctx /\ p.sent = o.sent /\ (p.status <=> o.status) /\ First = Ok(p)
    BY <1>7, <2>5, <2>6
  <2>2. ~p.ctx.buffering /\ ~Responded(p)
    BY <1>7, <2>1 DEF HasBegun, Responded
  <2>3. x \in UNION {IF z.rc = "error" THEN {z} ELSE Code(z.o) : z \in First}
    BY <2>2 DEF HandleExit, Then
  <2>4. First = {Result(p, "ok")}
    BY <2>1 DEF Ok
  <2> HIDE DEF p, First, Code
  <2>7. x \in Code(p)
    BY <2>3, <2>4 DEF Result
  <2> QED
    BY <1>4, <2>2, <2>7
<1> HIDE DEF Buffered, First, Code
<1>8. DOMAIN x.o = DOMAIN o /\ x.rc \in {code, "ok", "200", "error"}
  BY <1>3, <1>4, <1>5, <1>6 DEF Keeps
<1> QED
  BY <1>7, <1>8

LEMMA ExitsInv == ASSUME Inv, Exits PROVE Inv'
<1>1. PICK code \in Codes : /\ Careful /\ code = "declined" => ~HasBegun(resp)
                           /\ \E x \in HandleExit(resp, Exit(code)) : Returned(x.o, x.rc)
  BY DEF Exits
<1>2. Exit(code) # "done" /\ (Exit(code) = "declined" => code = "declined")
  BY PhasesAssumption DEF Exit
<1>3. PICK x \in HandleExit(resp, Exit(code)) : Returned(x.o, x.rc)
  BY <1>1
<1>4. /\ DOMAIN x.o = DOMAIN resp /\ x.rc # "done"
      /\ Careful /\ x.rc = "declined" => ~Responded(x.o)
  BY <1>1, <1>2, <1>3, HandleExitKeeps DEF Inv, Fielded
<1>5. PICK z \in ByChunkEnd(Here, x.o, x.rc) : \E y \in Checked(rq, z.o, z.rc) :
          rq' = y.q /\ resp' = y.o /\ UNCHANGED moved
  BY <1>3 DEF Returned
<1>6. rq.at = "lua" /\ Phase(rq) = Here
  BY DEF Exits, Here
<1> QED
  BY <1>4, <1>5, <1>6, ReturnedInv DEF Inv, RequestInv

LEMMA JumpsInv == ASSUME Inv, Jumps PROVE Inv'
<1> DEFINE q == [rq EXCEPT !.uriChanged = TRUE]
<1>1. rq \in Requests /\ rq.at = "lua" /\ Here = "rewrite" /\ Phase(rq) = "rewrite" /\ rq.pass < MaxPasses
  BY DEF Jumps, Inv, RequestInv, Here
<1>2. rq.phase = 2
  BY <1>1, PhaseNames
<1>3. /\ q \in Requests /\ q.at = "lua" /\ q.uriChanged = TRUE /\ q.pos = rq.pos
      /\ q.cut = rq.cut /\ q.count = rq.count /\ q.lua = rq.lua
      /\ q.frames = rq.frames /\ q.kind = rq.kind /\ q.phase = rq.phase
      /\ q.ran = rq.ran /\ q.logged = rq.logged /\ q.pass = rq.pass
  BY <1>1 DEF Requests
<1>4. PICK x \in ByChunkEnd(Here, resp, "ok") : \E y \in Checked(q, x.o, x.rc) :
          rq' = y.q /\ resp' = y.o /\ UNCHANGED moved
  BY DEF Jumps
<1> HIDE DEF q
<1>5. Counted(q)
  BY <1>1, <1>2, <1>3 DEF Inv, RequestInv, Counted, Held
<1>6. Ordered(q) /\ \A p, h : Done(q, p, h) = Done(rq, p, h)
  BY <1>3, SameHistory DEF Inv, RequestInv
<1>7. Phase(q) = Here
  BY <1>3 DEF Phase, Here
<1>8. Placed(q, moved)
  BY <1>1, <1>3, <1>6, <1>7 DEF Inv, RequestInv, Placed, LuaPos, OtherPos, InLua, HasLua
<1> QED
  BY <1>1, <1>3, <1>4, <1>5, <1>6, <1>7, <1>8, ReturnedInv

\* Lua code calls something, suspends, or is resumed
LEMMA InLuaInv ==
    ASSUME NEW m, NEW q, RequestInv(q, m), NEW r \in Requests, q.at \in InLua, r.at \in InLua,
           r.pos = q.pos, r.cut = q.cut, r.count = q.count, r.lua.waitingBody = q.lua.waitingBody,
           r.frames = q.frames, r.kind = q.kind, r.phase = q.phase, r.ran = q.ran,
           r.logged = q.logged, r.uriChanged = q.uriChanged, r.pass = q.pass
    PROVE  RequestInv(r, m)
<1>1. Ordered(r) /\ \A p, h : Done(r, p, h) = Done(q, p, h)
  BY SameHistory DEF RequestInv
<1>2. Phase(r) = Phase(q)
  BY DEF Phase
<1>3. Placed(r, m)
  BY <1>1, <1>2 DEF RequestInv, Placed, LuaPos, OtherPos, InLua, HasLua
<1>4. Counted(r)
  BY DEF RequestInv, Counted, Held, InLua
<1> QED
  BY <1>1, <1>3, <1>4 DEF RequestInv

\* The response is another one with the same fields
LEMMA FieldedNext ==
    ASSUME Fielded, DOMAIN resp' = DOMAIN resp
    PROVE  Fielded'
BY DEF Fielded

LEMMA PrintsInv == ASSUME Inv, Prints PROVE Inv'
<1>1. /\ rq' = [rq EXCEPT !.prints = @ + 1] /\ rq.at = "lua" /\ moved' = moved
      /\ rq \in Requests
  BY DEF Prints, Inv, RequestInv
<1>2. \E x \in Echo(resp, rq.prints + 1) : resp' = x.o
  BY DEF Prints
<1>3. DOMAIN resp' = DOMAIN resp
  BY <1>2, KeepsSendChainLink, KeepsResult DEF Echo, Keeps
<1>4. /\ rq' \in Requests /\ rq'.at = "lua" /\ rq'.pos = rq.pos /\ rq'.cut = rq.cut
      /\ rq'.count = rq.count /\ rq'.lua = rq.lua /\ rq'.frames = rq.frames
      /\ rq'.kind = rq.kind /\ rq'.phase = rq.phase /\ rq'.ran = rq.ran
      /\ rq'.logged = rq.logged /\ rq'.uriChanged = rq.uriChanged /\ rq'.pass = rq.pass
  <2>1. rq.prints + 1 \in Nat
    BY <1>1 DEF Requests
  <2>2. rq' \in Requests
    BY <1>1, <2>1 DEF Requests
  <2> QED
    BY <1>1, <2>2 DEF Requests
<1>5. RequestInv(rq', moved)
  BY <1>1, <1>4, InLuaInv DEF Inv, InLua
<1> QED
  BY <1>1, <1>3, <1>4, <1>5, FieldedNext DEF Inv, Unresponded

LEMMA SendsInv == ASSUME Inv, SendsHeaders \/ SendsEof PROVE Inv'
<1>1. rq' = rq /\ moved' = moved /\ rq.at = "lua"
  BY DEF SendsHeaders, SendsEof
<1>2. DOMAIN resp' = DOMAIN resp
  BY KeepsSendHeaderIfNeeded, KeepsSendChainLink DEF SendsHeaders, SendsEof, SendHeaders, Eof, Keeps
<1> QED
  BY <1>1, <1>2, FieldedNext DEF Inv, Unresponded

LEMMA SuspendedInv ==
    ASSUME Inv, rq.at = "lua", NEW o, DOMAIN o = DOMAIN resp, NEW at \in InLua, Suspended(o, at)
    PROVE  Inv'
<1> DEFINE q == [rq EXCEPT !.at = at, !.lua.fresh = FALSE]
           l == [rq.lua EXCEPT !.fresh = FALSE]
<1>1. rq \in Requests /\ rq.count \in Nat /\ rq.count # 0
  BY DEF Inv, RequestInv, Requests, Counted, Held
<1>2. l \in LuaContexts /\ l.waitingBody = rq.lua.waitingBody
  BY <1>1 DEF Requests, LuaContexts
<1>3. /\ q \in Requests /\ q.at = at /\ q.pos = rq.pos /\ q.cut = rq.cut /\ q.count = rq.count
      /\ q.lua.waitingBody = rq.lua.waitingBody /\ q.frames = rq.frames /\ q.kind = rq.kind
      /\ q.phase = rq.phase /\ q.ran = rq.ran /\ q.logged = rq.logged
      /\ q.uriChanged = rq.uriChanged /\ q.pass = rq.pass
  <2>1. q = [rq EXCEPT !.at = at, !.lua = l]
    BY <1>1 DEF Requests
  <2> HIDE DEF l, q
  <2> QED
    BY <1>1, <1>2, <2>1 DEF Requests, InLua, States
<1>4. rq' = q \/ \E y \in ContentRunPosted(q) : rq' = y.q
  BY DEF Suspended
<1>5. resp' = o /\ moved' = moved
  BY DEF Suspended
<1> HIDE DEF q
<1>6. RequestInv(rq', moved) /\ rq'.at \in InLua
  <2>1. CASE rq' = q
    BY <1>1, <1>3, <2>1, InLuaInv DEF Inv, InLua
  <2>2. CASE rq' = Dropped([q EXCEPT !.count = @ + 1])
    <3> DEFINE c == [q EXCEPT !.count = q.count + 1]
    <3>3. /\ c.count = q.count + 1 /\ c.at = at /\ q.count + 1 # 1 /\ (q.count + 1) - 1 = q.count
          /\ DOMAIN c = DOMAIN q
      BY <1>1, <1>3 DEF Requests
    <3>4. Dropped(c) = [c EXCEPT !.count = q.count, !.at = at]
      BY <3>3 DEF Dropped
    <3>1. Dropped([q EXCEPT !.count = @ + 1]) = [q EXCEPT !.count = q.count, !.at = at]
      BY <1>3, <3>4 DEF Requests
    <3>2. /\ rq' \in Requests /\ rq'.at = at /\ rq'.pos = rq.pos /\ rq'.cut = rq.cut
          /\ rq'.count = rq.count /\ rq'.lua.waitingBody = rq.lua.waitingBody
          /\ rq'.frames = rq.frames /\ rq'.kind = rq.kind /\ rq'.phase = rq.phase
          /\ rq'.ran = rq.ran /\ rq'.logged = rq.logged
          /\ rq'.uriChanged = rq.uriChanged /\ rq'.pass = rq.pass
      BY <1>3, <2>2, <3>1 DEF Requests
    <3> QED
      BY <3>2, InLuaInv DEF Inv, InLua
  <2> QED
    BY <1>4, <2>1, <2>2, FinalizedDone DEF ContentRunPosted
<1> QED
  BY <1>5, <1>6, FieldedNext DEF Inv, Unresponded, InLua

LEMMA SleepsInv == ASSUME Inv, Sleeps PROVE Inv'
BY SuspendedInv DEF Sleeps, InLua

LEMMA FlushesInv == ASSUME Inv, Flushes PROVE Inv'
<1>1. Keeps(resp, Flush(resp))
  <2>1. Keeps(resp, Ok(resp)) /\ Keeps(resp, SendChainLink(resp, <<FlushBuf>>))
    BY KeepsSendChainLink, KeepsResult
  <2> QED
    BY <2>1 DEF Flush, Keeps
<1>2. PICK x \in Flush(resp) : IF x.rc = "again" THEN Suspended(x.o, "flush")
                               ELSE resp' = x.o /\ UNCHANGED <<rq, moved>>
  BY DEF Flushes
<1>3. DOMAIN x.o = DOMAIN resp /\ rq.at = "lua"
  BY <1>1 DEF Keeps, Flushes
<1>4. CASE x.rc = "again"
  BY <1>2, <1>3, <1>4, SuspendedInv DEF InLua
<1>5. CASE x.rc # "again"
  BY <1>2, <1>3, <1>5, FieldedNext DEF Inv, Unresponded
<1> QED
  BY <1>4, <1>5

LEMMA ExecsInv == ASSUME Inv, Execs PROVE Inv'
<1> DEFINE q(first) == [rq EXCEPT !.frames = @ + 1, !.count = @ + 1, !.at = "engine", !.phase = first,
                                  !.pos = 1, !.pass = @ + 1, !.ran = <<>>, !.lua = FreshLua,
                                  !.uriChanged = FALSE]
<1> DEFINE y(first, s) == HandleExec(rq, [resp EXCEPT !.printed = s], first)
<1>0. PICK first \in {1, 2} : \E s : rq' = y(first, s).q /\ resp' = y(first, s).o
  BY DEF Execs
<1>10. PICK s : rq' = y(first, s).q /\ resp' = y(first, s).o
  BY <1>0
<1> DEFINE o == [resp EXCEPT !.printed = s]
<1>1. /\ rq' = q(first) /\ resp' = [o EXCEPT !.ctx = FreshCtx]
      /\ DOMAIN o = DOMAIN resp /\ o.sent = resp.sent
  <2>1. DOMAIN o = DOMAIN resp /\ o.sent = resp.sent
    BY DEF Inv, Fielded
  <2>2. y(first, s).q = q(first) /\ y(first, s).o = [o EXCEPT !.ctx = FreshCtx]
    BY DEF HandleExec, Pair
  <2> HIDE DEF q, y, o
  <2> QED
    BY <1>10, <2>1, <2>2
<1> HIDE DEF o, y
<1>2. rq \in Requests /\ rq.at = "lua" /\ ~resp.sent /\ rq.pass < MaxPasses /\ moved' = moved
  BY DEF Execs, Inv, RequestInv
<1>3. FreshLua \in LuaContexts /\ FreshLua.waitingBody = FALSE /\ <<>> \in Seq((1..5) \X {"lua", "other"})
  BY DEF LuaContexts, FreshLua
<1>4. /\ rq.count + 1 \in Nat /\ rq.frames + 1 \in Nat /\ rq.pass + 1 \in 1..MaxPasses /\ first \in 1..5
      /\ rq.count \in Nat /\ rq.frames \in Nat /\ rq.pass \in Nat
  BY <1>2, PhasesAssumption DEF Requests
<1>5. /\ rq' \in Requests /\ rq'.at = "engine" /\ rq'.pos = 1 /\ rq'.cut = rq.cut
      /\ rq'.count = rq.count + 1 /\ rq'.lua = FreshLua /\ rq'.frames = rq.frames + 1
      /\ rq'.kind = rq.kind /\ rq'.phase = first /\ rq'.ran = <<>>
      /\ rq'.logged = rq.logged /\ rq'.uriChanged = FALSE /\ rq'.pass = rq.pass + 1
  <2> DEFINE l == FreshLua
             none == <<>>
  <2>1. rq' = [rq EXCEPT !.frames = rq.frames + 1, !.count = rq.count + 1, !.at = "engine",
                         !.phase = first, !.pos = 1, !.pass = rq.pass + 1, !.ran = none,
                         !.lua = l, !.uriChanged = FALSE]
    BY <1>1, <1>2 DEF Requests
  <2>2. l \in LuaContexts /\ none \in Seq((1..5) \X {"lua", "other"})
    BY <1>3
  <2>5. ASSUME NEW f \in Nat, NEW c \in Nat, NEW p \in 1..MaxPasses, NEW u \in LuaContexts,
               NEW h \in Seq((1..5) \X {"lua", "other"}), NEW n \in 1..5
        PROVE  [rq EXCEPT !.frames = f, !.count = c, !.at = "engine", !.phase = n, !.pos = 1,
                          !.pass = p, !.ran = h, !.lua = u, !.uriChanged = FALSE] \in Requests
    <3> DEFINE a == [rq EXCEPT !.frames = f, !.count = c, !.at = "engine", !.phase = n]
               b == [a EXCEPT !.pos = 1, !.pass = p]
    <3>1. a \in Requests
      BY <1>2, <2>5 DEF Requests, States
    <3>2. b \in Requests
      <4>1. p \in 1..MaxPasses /\ 1 \in 1..3
        BY <2>5
      <4> HIDE DEF a
      <4> QED
        BY <3>1, <4>1 DEF Requests
    <3>3. [b EXCEPT !.ran = h, !.lua = u, !.uriChanged = FALSE] \in Requests
      <4> HIDE DEF b
      <4> QED
        BY <2>5, <3>2 DEF Requests
    <3> QED
      BY <3>3
  <2>3. rq' \in Requests
    BY <1>4, <2>1, <2>2, <2>5
  <2> HIDE DEF l, none
  <2>4. /\ rq'.at = "engine" /\ rq'.pos = 1 /\ rq'.cut = rq.cut
        /\ rq'.count = rq.count + 1 /\ rq'.lua = l /\ rq'.frames = rq.frames + 1
        /\ rq'.kind = rq.kind /\ rq'.phase = first /\ rq'.ran = none
        /\ rq'.logged = rq.logged /\ rq'.uriChanged = FALSE /\ rq'.pass = rq.pass + 1
    BY <1>2, <2>1 DEF Requests
  <2> QED
    BY <2>3, <2>4 DEF l, none
<1>6. Counted(rq')
  BY <1>2, <1>3, <1>4, <1>5 DEF Inv, RequestInv, Counted, Held
<1>7. Ordered(rq') /\ \A p, h : ~Done(rq', p, h)
  BY <1>5 DEF Ordered, Done
<1>8. Placed(rq', moved)
  BY <1>5, <1>7 DEF Placed, LuaPos, OtherPos, InLua
<1>9. Unresponded' /\ Fielded'
  BY <1>1, <1>2 DEF Inv, Fielded, Unresponded, Responded, FreshCtx
<1> QED
  BY <1>2, <1>5, <1>6, <1>7, <1>8, <1>9 DEF Inv, RequestInv

-------------------------------------------------------------------------------
(* The steps of the engine.                                                  *)

\* A handler of the present phase has run
LEMMA RanInv ==
    ASSUME NEW q \in Requests, Ordered(q), NEW h \in {"lua", "other"}, ~Done(q, q.phase, h),
           NEW r, r.ran = Append(q.ran, <<q.phase, h>>), r.phase = q.phase, r.kind = q.kind
    PROVE  /\ Ordered(r) /\ r.ran \in Seq((1..5) \X {"lua", "other"})
           /\ \A p, g : Done(r, p, g) <=> Done(q, p, g) \/ (p = q.phase /\ g = h)
<1> DEFINE n == Len(q.ran)
<1>1. /\ q.ran \in Seq((1..5) \X {"lua", "other"}) /\ q.phase \in 1..5
      /\ n \in Nat /\ DOMAIN q.ran = 1..n
  BY DEF Requests
<1>7. \A i \in 1..n : q.ran[i] \in (1..5) \X {"lua", "other"}
  BY <1>1
<1>8. \A i \in 1..n : q.ran[i][1] \in 1..5 /\ q.ran[i][1] <= q.phase
  BY <1>1, <1>7 DEF Ordered
<1>9. \A i, j \in 1..n : i < j => q.ran[i][1] <= q.ran[j][1] /\ q.ran[i] # q.ran[j]
  BY <1>1 DEF Ordered
<1>2. /\ r.ran \in Seq((1..5) \X {"lua", "other"}) /\ DOMAIN r.ran = 1..(n + 1)
      /\ r.ran[n + 1] = <<q.phase, h>> /\ \A i \in 1..n : r.ran[i] = q.ran[i]
  BY <1>1
<1>3. \A p, g : Done(r, p, g) <=> Done(q, p, g) \/ (p = q.phase /\ g = h)
  <2> TAKE p, g
  <2>1. Done(q, p, g) => Done(r, p, g)
    BY <1>1, <1>2 DEF Done
  <2>2. p = q.phase /\ g = h => Done(r, p, g)
    BY <1>1, <1>2 DEF Done
  <2>3. ASSUME NEW i \in 1..(n + 1), r.ran[i] = <<p, g>>
        PROVE  Done(q, p, g) \/ (p = q.phase /\ g = h)
    <3>1. CASE i = n + 1
      BY <1>2, <2>3, <3>1
    <3>2. CASE i \in 1..n
      BY <1>1, <1>2, <2>3, <3>2 DEF Done
    <3> QED
      BY <1>1, <3>1, <3>2
  <2> QED
    BY <1>2, <2>1, <2>2, <2>3 DEF Done
<1>4. \A i \in 1..(n + 1) : r.ran[i][1] <= r.phase
  <2> TAKE i \in 1..(n + 1)
  <2>1. CASE i = n + 1
    BY <1>1, <1>2, <2>1
  <2>2. CASE i \in 1..n
    BY <1>2, <1>8, <2>2
  <2> QED
    BY <1>1, <2>1, <2>2
<1>5. \A i, j \in 1..(n + 1) : i < j => r.ran[i][1] <= r.ran[j][1] /\ r.ran[i] # r.ran[j]
  <2> SUFFICES ASSUME NEW i \in 1..(n + 1), NEW j \in 1..(n + 1), i < j
               PROVE  r.ran[i][1] <= r.ran[j][1] /\ r.ran[i] # r.ran[j]
    OBVIOUS
  <2>1. CASE j \in 1..n
    <3>1. i \in 1..n
      BY <1>1, <2>1
    <3> QED
      BY <1>2, <1>9, <2>1, <3>1
  <2>2. CASE j = n + 1
    <3>1. i \in 1..n /\ r.ran[i] = q.ran[i] /\ r.ran[j] = <<q.phase, h>>
      BY <1>1, <1>2, <2>2
    <3>2. q.ran[i] # <<q.phase, h>> /\ q.ran[i][1] <= q.phase
      BY <1>1, <3>1 DEF Ordered, Done
    <3> QED
      BY <3>1, <3>2
  <2> QED
    BY <1>1, <2>1, <2>2
<1>6. \A p \in 2..(r.phase - 1) :
          Phases[p] \in Movable /\ (Phases[p] = "access" => ~r.kind.captured) =>
              Done(r, p, "other") /\ (Phases[p] \in r.kind.has => Done(r, p, "lua"))
  BY <1>3 DEF Ordered
<1> QED
  BY <1>2, <1>3, <1>4, <1>5, <1>6 DEF Ordered

LEMMA NextPhaseInv == ASSUME Inv, NextPhase PROVE Inv'
<1>1. /\ rq \in Requests /\ rq.at = "engine" /\ Here # "content" /\ moved' = moved /\ resp' = resp
      /\ rq.pos > LuaPos(rq, moved) /\ (Here \in Movable => rq.pos > OtherPos(rq, moved))
      /\ Here = Phase(rq) /\ Placed(rq, moved) /\ Ordered(rq) /\ Counted(rq)
      /\ moved \subseteq Movable
  BY Places DEF NextPhase, Inv, RequestInv
<1>2. rq.phase \in 1..4 /\ (Here = "rewrite" <=> rq.phase = 2)
  BY <1>1, PhaseNames
<1>3. CASE rq.uriChanged /\ Here = "rewrite"
  <2> DEFINE none == <<>>
  <2>1. rq' = [rq EXCEPT !.pos = 1, !.uriChanged = FALSE, !.pass = rq.pass + 1, !.ran = none]
    BY <1>1, <1>3 DEF NextPhase, Requests
  <2>2. none \in Seq((1..5) \X {"lua", "other"}) /\ rq.pass + 1 \in 1..MaxPasses /\ 1 \in 1..3
    BY <1>1, <1>3, PhasesAssumption DEF Counted, Requests
  <2>3. \A p, h : ~\E i \in DOMAIN none : none[i] = <<p, h>>
    OBVIOUS
  <2>4. DOMAIN none = {}
    OBVIOUS
  <2> HIDE DEF none
  <2>5. /\ rq' \in Requests /\ rq'.at = "engine" /\ rq'.pos = 1 /\ rq'.cut = rq.cut
        /\ rq'.count = rq.count /\ rq'.lua = rq.lua /\ rq'.frames = rq.frames
        /\ rq'.kind = rq.kind /\ rq'.phase = rq.phase /\ rq'.ran = none
        /\ rq'.logged = rq.logged /\ rq'.uriChanged = FALSE /\ rq'.pass = rq.pass + 1
    BY <1>1, <2>1, <2>2 DEF Requests
  <2>6. Counted(rq')
    BY <1>1, <2>5 DEF Counted, Held, Requests
  <2>7. \A p, h : ~Done(rq', p, h)
    BY <2>3, <2>5 DEF Done
  <2>8. Ordered(rq')
    <3>1. rq'.phase = 2
      BY <1>2, <1>3, <2>5
    <3>2. DOMAIN rq'.ran = {}
      BY <2>4, <2>5
    <3> QED
      BY <3>1, <3>2 DEF Ordered
  <2>9. Placed(rq', moved)
    BY <2>5, <2>7 DEF Placed, LuaPos, OtherPos, InLua
  <2> QED
    BY <1>1, <2>5, <2>6, <2>8, <2>9 DEF Inv, RequestInv, Unresponded, Fielded
<1>4. CASE ~(rq.uriChanged /\ Here = "rewrite")
  <2> DEFINE n == rq.phase + IF Here = "rewrite" /\ rq.kind.captured THEN 2 ELSE 1
  <2>1. rq' = [rq EXCEPT !.pos = 1, !.phase = n]
    BY <1>1, <1>4 DEF NextPhase, Requests
  <2>2. /\ n \in 1..5 /\ 1 \in 1..3 /\ rq.phase < n /\ n <= rq.phase + 2
        /\ (n = rq.phase + 2 => rq.phase = 2 /\ rq.kind.captured)
        /\ ~rq.uriChanged
    BY <1>1, <1>2, <1>4 DEF Counted
  <2> HIDE DEF n
  <2>3. /\ rq' \in Requests /\ rq'.at = "engine" /\ rq'.pos = 1 /\ rq'.cut = rq.cut
        /\ rq'.count = rq.count /\ rq'.lua = rq.lua /\ rq'.frames = rq.frames
        /\ rq'.kind = rq.kind /\ rq'.phase = n /\ rq'.ran = rq.ran
        /\ rq'.logged = rq.logged /\ rq'.uriChanged = rq.uriChanged /\ rq'.pass = rq.pass
    BY <1>1, <2>1, <2>2 DEF Requests
  <2>4. Counted(rq')
    BY <1>1, <2>2, <2>3 DEF Counted, Held
  <2>5. \A p, h : Done(rq', p, h) = Done(rq, p, h)
    BY <2>3 DEF Done
  <2>6. \A h : ~Done(rq', n, h)
    <3> SUFFICES ASSUME NEW h, NEW i \in DOMAIN rq.ran, rq.ran[i] = <<n, h>>
                 PROVE  FALSE
      BY <2>5 DEF Done
    <3>1. rq.ran[i][1] = n /\ rq.ran[i][1] <= rq.phase
      BY <1>1 DEF Ordered
    <3> QED
      BY <1>2, <2>2, <3>1
  <2>7. Phases[rq.phase] = Here /\ Phases[3] = "access"
    BY DEF Here, Phase, Phases
  <2>8. ASSUME NEW p \in 2..(n - 1), Phases[p] \in Movable, Phases[p] = "access" => ~rq.kind.captured
        PROVE  Done(rq, p, "other") /\ (Phases[p] \in rq.kind.has => Done(rq, p, "lua"))
    <3>1. CASE p < rq.phase
      BY <1>1, <1>2, <2>8, <3>1 DEF Ordered
    <3>2. CASE p = rq.phase
      BY <1>1, <2>2, <2>7, <2>8, <3>2 DEF Placed, HasLua
    <3>3. CASE p > rq.phase
      BY <1>2, <2>2, <2>7, <2>8, <3>3
    <3> QED
      BY <1>2, <3>1, <3>2, <3>3
  <2>9. Ordered(rq')
    <3>1. \A i \in DOMAIN rq.ran : rq.ran[i][1] <= n
      BY <1>1, <1>2, <2>2 DEF Ordered, Requests
    <3> QED
      BY <1>1, <2>3, <2>5, <2>8, <3>1 DEF Ordered
  <2>10. Placed(rq', moved)
    BY <2>3, <2>6 DEF Placed, LuaPos, OtherPos, InLua
  <2> QED
    BY <1>1, <2>3, <2>4, <2>9, <2>10 DEF Inv, RequestInv, Unresponded, Fielded
<1> QED
  BY <1>3, <1>4

LEMMA OtherHandlerInv == ASSUME Inv, OtherHandler PROVE Inv'
<1>1. /\ rq \in Requests /\ rq.at = "engine" /\ moved' = moved /\ resp' = resp
      /\ rq.pos = OtherPos(rq, moved) /\ Here \in Movable
      /\ Here = Phase(rq) /\ Placed(rq, moved) /\ Ordered(rq) /\ Counted(rq)
      /\ moved \subseteq Movable
  BY Places DEF OtherHandler, Inv, RequestInv
<1>2. PICK changed \in IF Here = "rewrite" /\ rq.pass < MaxPasses THEN BOOLEAN ELSE {FALSE} :
          rq' = [Ran("other") EXCEPT !.pos = @ + 1, !.uriChanged = @ \/ changed]
  BY DEF OtherHandler
<1> DEFINE u == rq.uriChanged \/ changed
           h == Append(rq.ran, <<rq.phase, "other">>)
<1>3. rq' = [rq EXCEPT !.ran = h, !.pos = rq.pos + 1, !.uriChanged = u]
  BY <1>1, <1>2 DEF Ran, Requests
<1>4. ~Done(rq, rq.phase, "other")
  <2>1. rq.pos <= OtherPos(rq, moved)
    BY <1>1 DEF Requests
  <2> QED
    BY <1>1, <2>1 DEF Placed
<1>5. /\ h \in Seq((1..5) \X {"lua", "other"}) /\ rq.pos + 1 \in 1..3 /\ u \in BOOLEAN
      /\ (u => rq.uriChanged \/ (Here = "rewrite" /\ rq.pass < MaxPasses))
      /\ (rq.uriChanged => u)
  <2>1. rq.ran \in Seq((1..5) \X {"lua", "other"}) /\ rq.phase \in 1..5
    BY <1>1 DEF Requests
  <2>2. h \in Seq((1..5) \X {"lua", "other"})
    BY <2>1
  <2>3. rq.pos + 1 \in 1..3
    BY <1>1 DEF OtherPos
  <2>4. changed \in BOOLEAN /\ (changed => Here = "rewrite" /\ rq.pass < MaxPasses)
    BY <1>2
  <2>5. rq.uriChanged \in BOOLEAN
    BY <1>1 DEF Requests
  <2> HIDE DEF h
  <2> QED
    BY <2>2, <2>3, <2>4, <2>5
<1> HIDE DEF u, h
<1>6. /\ rq' \in Requests /\ rq'.at = "engine" /\ rq'.pos = rq.pos + 1 /\ rq'.cut = rq.cut
      /\ rq'.count = rq.count /\ rq'.lua = rq.lua /\ rq'.frames = rq.frames
      /\ rq'.kind = rq.kind /\ rq'.phase = rq.phase /\ rq'.ran = h
      /\ rq'.logged = rq.logged /\ rq'.uriChanged = u /\ rq'.pass = rq.pass
  BY <1>1, <1>3, <1>5 DEF Requests
<1>7. Counted(rq')
  BY <1>1, <1>5, <1>6, PhaseNames DEF Counted, Held
<1>8. /\ Ordered(rq')
      /\ \A p, g : Done(rq', p, g) <=> Done(rq, p, g) \/ (p = rq.phase /\ g = "other")
  BY <1>1, <1>4, <1>6, RanInv DEF h
<1>9. Phase(rq') = Phase(rq) /\ rq.phase # 5
  BY <1>1, <1>6, PhaseNames DEF Phase, Movable
<1>10. Placed(rq', moved)
  BY <1>1, <1>5, <1>6, <1>8, <1>9 DEF Placed, LuaPos, OtherPos, InLua, HasLua
<1> QED
  BY <1>1, <1>6, <1>7, <1>8, <1>10 DEF Inv, RequestInv, Unresponded, Fielded

\* A request that has run through Begins is there, in the phase and in Lua code
LEMMA BeginsInv ==
    ASSUME Inv, AtHandler("lua"), HasLua(rq), Here \in Movable => Here \in moved
    PROVE  RequestInv(Begins, moved) /\ Begins.at = "lua"
<1> DEFINE h == Append(rq.ran, <<rq.phase, "lua">>)
           l == [Entered(rq.lua, Here) EXCEPT !.bodyDone = @ \/ ForcesBody]
           b == rq.haveBody \/ ForcesBody
<1>1. /\ rq \in Requests /\ rq.at = "engine" /\ rq.pos = LuaPos(rq, moved)
      /\ Here = Phase(rq) /\ Placed(rq, moved) /\ Ordered(rq) /\ Counted(rq)
      /\ moved \subseteq Movable
  BY Places DEF Inv, RequestInv
<1>2. Begins = [rq EXCEPT !.ran = h, !.at = "lua", !.lua = l, !.haveBody = b]
  <2> DEFINE r == Ran("lua")
  <2>1. r = [rq EXCEPT !.ran = h] /\ r.lua = rq.lua /\ r.haveBody = rq.haveBody
    BY <1>1 DEF Ran, Requests
  <2>2. Begins = [r EXCEPT !.at = "lua", !.haveBody = b, !.lua = l]
    BY DEF Begins
  <2> HIDE DEF h, l, b, r
  <2> QED
    BY <2>1, <2>2
<1>3. ~Done(rq, rq.phase, "lua")
  <2>1. rq.pos <= LuaPos(rq, moved)
    BY <1>1 DEF Requests
  <2> QED
    BY <1>1, <2>1 DEF Placed
<1>4. h \in Seq((1..5) \X {"lua", "other"})
  <2>1. rq.ran \in Seq((1..5) \X {"lua", "other"}) /\ rq.phase \in 1..5
    BY <1>1 DEF Requests
  <2> QED
    BY <2>1
<1>5. l \in LuaContexts /\ l.waitingBody = rq.lua.waitingBody
  <2>1. Here \in ToSet(Phases)
    <3>1. Here = Phases[rq.phase] /\ rq.phase \in 1..5
      BY <1>1 DEF Here, Phase, Requests
    <3> QED
      BY <3>1 DEF ToSet, Phases
  <2>2. rq.lua \in LuaContexts
    BY <1>1 DEF Requests
  <2>3. /\ Entered(rq.lua, Here) \in LuaContexts
        /\ Entered(rq.lua, Here).waitingBody = rq.lua.waitingBody
    BY <2>1, <2>2 DEF Entered, ResetCtx, LuaContexts
  <2> DEFINE e == Entered(rq.lua, Here)
             d == e.bodyDone \/ ForcesBody
  <2>4. d \in BOOLEAN /\ l = [e EXCEPT !.bodyDone = d]
    OBVIOUS
  <2> HIDE DEF e, d
  <2> QED
    BY <2>3, <2>4 DEF LuaContexts, e
<1>6. b \in BOOLEAN
  OBVIOUS
<1> HIDE DEF h, l, b
<1>7. /\ Begins \in Requests /\ Begins.at = "lua" /\ Begins.pos = rq.pos /\ Begins.cut = rq.cut
      /\ Begins.count = rq.count /\ Begins.lua = l /\ Begins.frames = rq.frames
      /\ Begins.kind = rq.kind /\ Begins.phase = rq.phase /\ Begins.ran = h
      /\ Begins.logged = rq.logged /\ Begins.uriChanged = rq.uriChanged /\ Begins.pass = rq.pass
  BY <1>1, <1>2, <1>4, <1>5, <1>6 DEF Requests, States
<1>8. Counted(Begins)
  BY <1>1, <1>5, <1>7 DEF Counted, Held
<1>9. /\ Ordered(Begins)
      /\ \A p, g : Done(Begins, p, g) <=> Done(rq, p, g) \/ (p = rq.phase /\ g = "lua")
  BY <1>1, <1>3, <1>7, RanInv DEF h
<1>10. Phase(Begins) = Phase(rq)
  BY <1>7 DEF Phase
<1>11. Placed(Begins, moved)
  BY <1>1, <1>7, <1>9, <1>10 DEF Placed, LuaPos, OtherPos, InLua, HasLua
<1> QED
  BY <1>7, <1>8, <1>9, <1>11 DEF RequestInv

\* The body is read: the request counts n more
LEMMA ReadsBodyInv ==
    ASSUME Inv, AtHandler("lua"), HasLua(rq), Here \in Movable => Here \in moved, NEW q \in Requests,
           q.at = "body", q.lua.waitingBody = TRUE, q.pos = rq.pos, q.cut = rq.cut,
           q.count = rq.count + (IF rq.phase = 5 THEN 0 ELSE 1),
           q.frames = rq.frames, q.kind = rq.kind, q.phase = rq.phase, q.ran = rq.ran,
           q.logged = rq.logged, q.uriChanged = rq.uriChanged, q.pass = rq.pass
    PROVE  RequestInv(q, moved)
<1>1. /\ rq \in Requests /\ rq.at = "engine" /\ rq.pos = LuaPos(rq, moved)
      /\ Here = Phase(rq) /\ Placed(rq, moved) /\ Ordered(rq) /\ Counted(rq)
      /\ rq.count \in Nat /\ rq.frames \in Nat
  BY Places DEF Inv, RequestInv, Requests
<1>2. Counted(q)
  BY <1>1 DEF Counted, Held
<1>3. Ordered(q) /\ \A p, h : Done(q, p, h) = Done(rq, p, h)
  BY <1>1, SameHistory
<1>4. Phase(q) = Phase(rq)
  BY DEF Phase
<1>5. Placed(q, moved)
  BY <1>1, <1>3, <1>4 DEF Placed, LuaPos, OtherPos, InLua, HasLua
<1> QED
  BY <1>2, <1>3, <1>5 DEF RequestInv

LEMMA ReadsBodyIs ==
    ASSUME Inv, AtHandler("lua")
    PROVE  /\ ReadsBody \in Requests /\ ReadsBody.at = "body" /\ ReadsBody.lua.waitingBody = TRUE
           /\ ReadsBody.pos = rq.pos /\ ReadsBody.cut = rq.cut /\ ReadsBody.count = rq.count + 1
           /\ ReadsBody.frames = rq.frames /\ ReadsBody.kind = rq.kind
           /\ ReadsBody.phase = rq.phase /\ ReadsBody.ran = rq.ran
           /\ ReadsBody.logged = rq.logged /\ ReadsBody.uriChanged = rq.uriChanged
           /\ ReadsBody.pass = rq.pass
<1> DEFINE l == [rq.lua EXCEPT !.waitingBody = TRUE]
<1>1. rq \in Requests /\ rq.count + 1 \in Nat /\ rq.lua \in LuaContexts
  BY DEF Inv, RequestInv, Requests
<1>2. l \in LuaContexts /\ l.waitingBody = TRUE
  BY <1>1 DEF LuaContexts
<1>3. ReadsBody = [rq EXCEPT !.at = "body", !.lua = l, !.count = rq.count + 1]
  BY <1>1 DEF ReadsBody, Requests
<1> HIDE DEF l
<1> QED
  BY <1>1, <1>2, <1>3 DEF Requests, States

LEMMA CallsHandlerInv ==
    ASSUME Inv, NEW p \in {"server_rewrite", "rewrite", "access", "precontent"}, CallsHandler(p)
    PROVE  Inv'
<1>1. /\ AtHandler("lua") /\ HasLua(rq) /\ (Here \in Movable => Here \in moved) /\ Here # "content"
      /\ rq' \in Called /\ resp' = resp /\ moved' = moved
  BY DEF CallsHandler
<1>2. rq.phase # 5 /\ rq.at = "engine"
  BY <1>1, PhaseNames, Places DEF Inv, RequestInv, Here
<1>3. rq' = Begins \/ rq' = ReadsBody
  BY <1>1 DEF Called
<1>4. RequestInv(rq', moved)
  BY <1>1, <1>2, <1>3, BeginsInv, ReadsBodyIs, ReadsBodyInv
<1> QED
  BY <1>1, <1>2, <1>4 DEF Inv, Unresponded, Fielded

LEMMA ContentHandlerInv == ASSUME Inv, ContentHandler PROVE Inv'
<1>1. /\ AtHandler("lua") /\ HasLua(rq) /\ Here = "content" /\ Here \notin Movable /\ moved' = moved
  BY DEF ContentHandler, Movable
<1>2. rq.phase = 5 /\ rq.at = "engine" /\ rq \in Requests /\ rq.count # 0 /\ rq.count \in Nat
  BY <1>1, PhaseNames, Places DEF Inv, RequestInv, Here, Requests, Counted, Held
<1>3. PICK q \in Called : IF q.at = "body" THEN \E y \in Finalized(q, resp, "done") : rq' = y.q /\ resp' = y.o
                          ELSE rq' = q /\ UNCHANGED resp
  BY DEF ContentHandler
<1>4. CASE q = Begins
  <2>1. RequestInv(q, moved) /\ q.at = "lua"
    BY <1>1, <1>4, BeginsInv
  <2> QED
    BY <1>1, <1>3, <2>1 DEF Inv, Unresponded, Fielded
<1>5. CASE q = ReadsBody
  <2>1. /\ q \in Requests /\ q.at = "body" /\ q.lua.waitingBody = TRUE /\ q.pos = rq.pos
        /\ q.cut = rq.cut /\ q.count = rq.count + 1 /\ q.frames = rq.frames /\ q.kind = rq.kind
        /\ q.phase = rq.phase /\ q.ran = rq.ran
        /\ q.logged = rq.logged /\ q.uriChanged = rq.uriChanged /\ q.pass = rq.pass
    BY <1>1, <1>5, ReadsBodyIs
  <2>2. rq' = Dropped(q) /\ resp' = resp
    BY <1>3, <2>1, FinalizedDone
  <2>3. q.count # 1 /\ q.count - 1 = rq.count
    BY <1>2, <2>1
  <2>4. rq' = [q EXCEPT !.count = rq.count, !.at = "body"]
    BY <2>1, <2>2, <2>3 DEF Dropped, Requests
  <2>5. /\ rq' \in Requests /\ rq'.at = "body" /\ rq'.lua.waitingBody = TRUE /\ rq'.pos = rq.pos
        /\ rq'.cut = rq.cut /\ rq'.count = rq.count /\ rq'.frames = rq.frames /\ rq'.kind = rq.kind
        /\ rq'.phase = rq.phase /\ rq'.ran = rq.ran
        /\ rq'.logged = rq.logged /\ rq'.uriChanged = rq.uriChanged /\ rq'.pass = rq.pass
    BY <1>2, <2>1, <2>4 DEF Requests
  <2>6. rq'.count = rq.count + (IF rq.phase = 5 THEN 0 ELSE 1)
    BY <1>2, <2>5
  <2>7. RequestInv(rq', moved)
    BY <1>1, <2>5, <2>6, ReadsBodyInv
  <2> QED
    BY <1>1, <1>2, <2>2, <2>7 DEF Inv, Unresponded, Fielded
<1> QED
  BY <1>3, <1>4, <1>5 DEF Called

LEMMA LoadFailsInv == ASSUME Inv, NEW p, LoadFails(p) PROVE Inv'
<1>1. AtHandler("lua") /\ Returned(resp, "special")
  BY DEF LoadFails
<1>2. rq.at = "engine" /\ rq \in Requests /\ Here = Phase(rq)
  BY <1>1, Places DEF Inv, RequestInv
<1>3. PICK x \in ByChunkEnd(Here, resp, "special") : \E y \in Checked(rq, x.o, x.rc) :
          rq' = y.q /\ resp' = y.o /\ UNCHANGED moved
  BY <1>1 DEF Returned
<1>6. PICK y \in Checked(rq, x.o, x.rc) : rq' = y.q /\ resp' = y.o /\ UNCHANGED moved
  BY <1>3
<1>4. rq' \in Outcomes(rq) /\ DOMAIN resp' = DOMAIN resp
  BY <1>2, <1>6, CheckedOutcomes, CheckedKeeps
<1>5. RequestInv(rq', moved) /\ rq'.at \in Gone
  BY <1>2, <1>4, OutcomesInv DEF Inv, RequestInv, Gone
<1> QED
  BY <1>3, <1>4, <1>5, FieldedNext DEF Inv, Unresponded, Gone

LEMMA OtherContentInv == ASSUME Inv, OtherContent PROVE Inv'
<1> DEFINE h == Append(rq.ran, <<rq.phase, "other">>)
           q == Ran("other")
<1>1. /\ rq \in Requests /\ rq.at = "engine" /\ Here = "content" /\ Here = Phase(rq)
      /\ Placed(rq, moved) /\ Ordered(rq) /\ Counted(rq) /\ moved' = moved
  BY Places DEF OtherContent, Inv, RequestInv
<1>2. ~Done(rq, rq.phase, "other")
  <2>1. rq.phase = 5
    BY <1>1, PhaseNames
  <2> QED
    BY <1>1, <2>1 DEF Placed
<1>3. h \in Seq((1..5) \X {"lua", "other"})
  <2>1. rq.ran \in Seq((1..5) \X {"lua", "other"}) /\ rq.phase \in 1..5
    BY <1>1 DEF Requests
  <2> QED
    BY <2>1
<1>4. q = [rq EXCEPT !.ran = h]
  BY DEF Ran
<1>5. PICK x \in Respond(resp) : \E y \in Finalized(q, x.o, x.rc) : rq' = y.q /\ resp' = y.o
  BY DEF OtherContent
<1>6. DOMAIN x.o = DOMAIN resp /\ x.rc # "done"
  BY KeepsRespond, <1>5 DEF Keeps
<1> HIDE DEF h, q
<1>7. /\ q \in Requests /\ q.at = "engine" /\ q.cut = rq.cut
      /\ q.count = rq.count /\ q.lua = rq.lua /\ q.frames = rq.frames
      /\ q.kind = rq.kind /\ q.phase = rq.phase /\ q.ran = h
      /\ q.logged = rq.logged /\ q.uriChanged = rq.uriChanged /\ q.pass = rq.pass
  BY <1>1, <1>3, <1>4 DEF Requests
<1>8. Counted(q)
  BY <1>1, <1>7 DEF Counted, Held
<1>9. Ordered(q)
  BY <1>1, <1>2, <1>7, RanInv DEF h
<1>10. rq' \in Outcomes(q) /\ DOMAIN resp' = DOMAIN resp
  BY <1>5, <1>6, FinalizedOutcomes, FinalizedKeeps
<1>11. RequestInv(rq', moved) /\ rq'.at \in Gone
  BY <1>7, <1>8, <1>9, <1>10, OutcomesInv DEF Gone
<1> QED
  BY <1>1, <1>10, <1>11, FieldedNext DEF Inv, Unresponded, Gone

LEMMA MoveHandlerInv == ASSUME Inv, MoveHandler PROVE Inv'
<1>1. /\ AtHandler("lua") /\ Here \in Movable \ moved /\ rq' = rq /\ moved' = moved \cup {Here}
      /\ resp' = resp
  BY DEF MoveHandler, Redo
<1>2. rq.pos = 1 /\ rq.at = "engine" /\ Here = Phase(rq) /\ Placed(rq, moved)
  BY <1>1, Places DEF Inv, RequestInv, LuaPos
<1>3. Placed(rq, moved \cup {Here})
  BY <1>1, <1>2 DEF Placed, LuaPos, OtherPos, InLua
<1> QED
  BY <1>1, <1>3 DEF Inv, RequestInv, Unresponded, Fielded

LEMMA SkipsInv == ASSUME Inv, Skips PROVE Inv'
<1>1. /\ rq' = [rq EXCEPT !.pos = @ + 1] /\ resp' = resp /\ moved' = moved
      /\ AtHandler("lua") /\ (rq.uriChanged \/ ~HasLua(rq))
      /\ (Here \in Movable => Here \in moved \/ (Here = "rewrite" /\ rq.uriChanged))
  BY DEF Skips
<1>2. /\ rq \in Requests /\ rq.at = "engine" /\ rq.pos = LuaPos(rq, moved)
      /\ Here = Phase(rq) /\ Placed(rq, moved) /\ Ordered(rq) /\ Counted(rq)
      /\ moved \subseteq Movable
  BY <1>1, Places DEF Inv, RequestInv
<1>3. rq.pos + 1 \in 1..3 /\ rq.pos \in {1, 2}
  BY <1>2 DEF LuaPos
<1>4. /\ rq' \in Requests /\ rq'.at = "engine" /\ rq'.pos = rq.pos + 1 /\ rq'.cut = rq.cut
      /\ rq'.count = rq.count /\ rq'.lua = rq.lua /\ rq'.frames = rq.frames
      /\ rq'.kind = rq.kind /\ rq'.phase = rq.phase /\ rq'.ran = rq.ran
      /\ rq'.logged = rq.logged /\ rq'.uriChanged = rq.uriChanged /\ rq'.pass = rq.pass
  BY <1>1, <1>2, <1>3 DEF Requests
<1>5. Counted(rq')
  BY <1>2, <1>4 DEF Counted, Held
<1>6. Ordered(rq') /\ \A p, h : Done(rq', p, h) = Done(rq, p, h)
  BY <1>2, <1>4, SameHistory
<1>7. Phase(rq') = Phase(rq) /\ HasLua(rq') = HasLua(rq)
  BY <1>4 DEF Phase, HasLua
<1>8. Placed(rq', moved)
  BY <1>1, <1>2, <1>3, <1>4, <1>6, <1>7 DEF Placed, LuaPos, OtherPos, InLua
<1> QED
  BY <1>1, <1>2, <1>4, <1>5, <1>6, <1>8 DEF Inv, RequestInv, Unresponded, Fielded

LEMMA UnwindsInv == ASSUME Inv, Unwinds PROVE Inv'
<1> DEFINE q == [rq EXCEPT !.frames = @ - 1]
<1>1. /\ rq \in Requests /\ Counted(rq) /\ Ordered(rq) /\ Placed(rq, moved) /\ rq.count \in Nat
      /\ rq.frames \in Nat /\ rq.frames > 0 /\ rq.at \notin {"engine", "lua"} /\ moved' = moved
      /\ rq.at \in States
  BY DEF Unwinds, Inv, RequestInv, Requests
<1>2. rq' = Dropped(q) /\ resp' = resp
  BY FinalizedDone DEF Unwinds, FinalizeRequest
<1>3. /\ rq.at \notin {"log", "closed"} /\ rq.count = Held(rq) /\ rq.count \in Nat \ {0}
      /\ (rq.count = 1 => rq.at = "finished" /\ rq.frames = 1 /\ ~rq.kind.captured)
  BY <1>1 DEF Counted, Held
<1>4. rq' = [rq EXCEPT !.frames = rq.frames - 1, !.count = rq.count - 1,
                       !.at = IF rq.count = 1 THEN "log" ELSE rq.at]
  BY <1>1, <1>2 DEF Dropped, Requests
<1>5. rq.frames - 1 \in Nat /\ rq.count - 1 \in Nat
  BY <1>1, <1>3
<1>6. /\ rq' \in Requests /\ rq'.at = (IF rq.count = 1 THEN "log" ELSE rq.at) /\ rq'.pos = rq.pos
      /\ rq'.cut = rq.cut /\ rq'.count = rq.count - 1 /\ rq'.lua = rq.lua /\ rq'.frames = rq.frames - 1
      /\ rq'.kind = rq.kind /\ rq'.phase = rq.phase /\ rq'.ran = rq.ran
      /\ rq'.logged = rq.logged /\ rq'.uriChanged = rq.uriChanged /\ rq'.pass = rq.pass
  BY <1>1, <1>4, <1>5 DEF Requests, States
<1>7. Counted(rq')
  <2>1. rq.pass \in Nat
    BY <1>1 DEF Requests
  <2>2. CASE rq.count = 1
    BY <1>1, <1>3, <1>6, <2>1, <2>2 DEF Counted, Held
  <2>3. CASE rq.count # 1
    BY <1>1, <1>3, <1>6, <2>1, <2>3 DEF Counted, Held
  <2> QED
    BY <2>2, <2>3
<1>8. Ordered(rq') /\ \A p, h : Done(rq', p, h) = Done(rq, p, h)
  BY <1>1, <1>6, SameHistory
<1>9. Phase(rq') = Phase(rq) /\ HasLua(rq') = HasLua(rq)
  BY <1>6 DEF Phase, HasLua
<1>10. Placed(rq', moved)
  BY <1>1, <1>3, <1>6, <1>8, <1>9 DEF Placed, LuaPos, OtherPos, InLua
<1> QED
  BY <1>1, <1>2, <1>3, <1>6, <1>7, <1>8, <1>10 DEF Inv, RequestInv, Unresponded, Fielded

LEMMA LogPhaseInv == ASSUME Inv, LogPhase PROVE Inv'
<1>1. /\ rq \in Requests /\ Counted(rq) /\ Ordered(rq) /\ rq.at = "log" /\ resp' = resp
      /\ moved' = moved
  BY DEF LogPhase, Inv, RequestInv
<1>5. rq.logged = 0
  BY <1>1 DEF Counted
<1>2. rq' = [rq EXCEPT !.logged = 1, !.at = "closed"]
  BY <1>1, <1>5 DEF LogPhase, LogHandler, Requests
<1>3. /\ rq' \in Requests /\ rq'.at = "closed" /\ rq'.cut = rq.cut /\ rq'.count = rq.count
      /\ rq'.lua = rq.lua /\ rq'.frames = rq.frames /\ rq'.kind = rq.kind /\ rq'.phase = rq.phase
      /\ rq'.ran = rq.ran /\ rq'.logged = 1 /\ rq'.uriChanged = rq.uriChanged /\ rq'.pass = rq.pass
  BY <1>1, <1>2 DEF Requests, States
<1>4. Counted(rq')
  BY <1>1, <1>3 DEF Counted, Held
<1>6. Ordered(rq') /\ Placed(rq', moved)
  BY <1>1, <1>3, SameHistory DEF Gone
<1> QED
  BY <1>1, <1>3, <1>4, <1>6 DEF Inv, RequestInv, Unresponded, Fielded

LEMMA TerminatesInv == ASSUME Inv, Terminates PROVE Inv'
<1>1. /\ rq \in Requests /\ Counted(rq) /\ Ordered(rq) /\ rq.at = "terminated" /\ rq.frames = 0
      /\ resp' = resp /\ moved' = moved
  BY DEF Terminates, Inv, RequestInv
<1>4. rq' = [rq EXCEPT !.count = 0, !.at = "log"]
  BY DEF Terminates
<1>2. /\ rq' \in Requests /\ rq'.at = "log" /\ rq'.cut = rq.cut /\ rq'.count = 0
      /\ rq'.lua = rq.lua /\ rq'.frames = 0 /\ rq'.kind = rq.kind /\ rq'.phase = rq.phase
      /\ rq'.ran = rq.ran /\ rq'.logged = rq.logged /\ rq'.uriChanged = rq.uriChanged
      /\ rq'.pass = rq.pass
  BY <1>1, <1>4 DEF Requests, States
<1>3. Counted(rq')
  BY <1>1, <1>2 DEF Counted, Held
<1>6. Ordered(rq') /\ Placed(rq', moved)
  BY <1>1, <1>2, SameHistory DEF Gone
<1> QED
  BY <1>1, <1>2, <1>3, <1>6 DEF Inv, RequestInv, Unresponded, Fielded

-------------------------------------------------------------------------------
(* The events.                                                               *)

\* Lua code is resumed; the response may have changed
LEMMA ResumedInv ==
    ASSUME Inv, rq.at \in InLua, rq' = [rq EXCEPT !.at = "lua"], moved' = moved,
           DOMAIN resp' = DOMAIN resp
    PROVE  Inv'
<1>1. rq \in Requests
  BY DEF Inv, RequestInv
<1>2. /\ rq' \in Requests /\ rq'.at = "lua" /\ rq'.pos = rq.pos /\ rq'.cut = rq.cut
      /\ rq'.count = rq.count /\ rq'.lua = rq.lua /\ rq'.frames = rq.frames
      /\ rq'.kind = rq.kind /\ rq'.phase = rq.phase /\ rq'.ran = rq.ran
      /\ rq'.logged = rq.logged /\ rq'.uriChanged = rq.uriChanged /\ rq'.pass = rq.pass
  BY <1>1 DEF Requests, States
<1>3. RequestInv(rq', moved)
  BY <1>2, InLuaInv DEF Inv, InLua
<1> QED
  BY <1>2, <1>3, FieldedNext DEF Inv, Unresponded

\* The request is over, or its response waits to be sent
LEMMA GoneInv ==
    ASSUME Inv, rq.at \in InLua \cup {"draining"}, rq' \in Outcomes(rq), moved' = moved,
           DOMAIN resp' = DOMAIN resp
    PROVE  Inv'
<1>1. RequestInv(rq', moved) /\ rq'.at \in Gone
  BY OutcomesInv DEF Inv, RequestInv, Gone, InLua
<1> QED
  BY <1>1, FieldedNext DEF Inv, Unresponded, Gone

LEMMA BodyArrivesInv == ASSUME Inv, BodyArrives PROVE Inv'
<1> DEFINE l == [rq.lua EXCEPT !.waitingBody = FALSE, !.bodyDone = TRUE]
           n == rq.count - IF Here = "content" THEN 0 ELSE 1
<1>1. /\ rq \in Requests /\ Counted(rq) /\ Ordered(rq) /\ Placed(rq, moved) /\ rq.at = "body"
      /\ rq.lua.waitingBody /\ rq.lua \in LuaContexts /\ rq.count \in Nat /\ rq.frames \in Nat
      /\ resp' = resp /\ moved' = moved
  BY DEF BodyArrives, Inv, RequestInv, Requests, Counted
<1>2. l \in LuaContexts /\ l.waitingBody = FALSE
  BY <1>1 DEF LuaContexts
<1>3. Here = "content" <=> rq.phase = 5
  BY <1>1, PhaseNames DEF Here
<1>4. rq.count = (IF rq.kind.captured THEN 1 ELSE 0) + rq.frames + 1 + (IF Here = "content" THEN 0 ELSE 1)
  BY <1>1, <1>3 DEF Counted, Held
<1>5. n \in Nat /\ n = (IF rq.kind.captured THEN 1 ELSE 0) + rq.frames + 1
  BY <1>1, <1>4
<1>6. rq' = [rq EXCEPT !.lua = l, !.haveBody = TRUE, !.at = "engine", !.count = n]
  <2> DEFINE b == BodyThere(rq)
  <2>1. b = [rq EXCEPT !.lua = l, !.haveBody = TRUE, !.at = "engine"]
    BY <1>1 DEF BodyThere, Requests
  <2>2. b.count = rq.count /\ "count" \in DOMAIN rq
    BY <1>1, <2>1 DEF Requests
  <2>3. rq' = IF Here = "content" THEN b ELSE [b EXCEPT !.count = b.count - 1]
    BY DEF BodyArrives, PostRead, ContentPostRead
  <2>4. CASE Here = "content"
    <3>1. n = rq.count
      BY <1>1, <2>4
    <3> HIDE DEF l, n
    <3>2. rq' = [rq EXCEPT !.lua = l, !.haveBody = TRUE, !.at = "engine"]
      BY <2>1, <2>3, <2>4
    <3> QED
      BY <1>1, <3>1, <3>2 DEF Requests
  <2>5. CASE Here # "content"
    <3>1. n = b.count - 1
      BY <2>2, <2>5
    <3> HIDE DEF l, n, b
    <3> QED
      BY <1>1, <2>1, <2>3, <2>5, <3>1 DEF Requests
  <2> QED
    BY <2>4, <2>5
<1> HIDE DEF l, n
<1>7. /\ rq' \in Requests /\ rq'.at = "engine" /\ rq'.pos = rq.pos /\ rq'.cut = rq.cut
      /\ rq'.count = n /\ rq'.lua = l /\ rq'.frames = rq.frames
      /\ rq'.kind = rq.kind /\ rq'.phase = rq.phase /\ rq'.ran = rq.ran
      /\ rq'.logged = rq.logged /\ rq'.uriChanged = rq.uriChanged /\ rq'.pass = rq.pass
  BY <1>1, <1>2, <1>5, <1>6 DEF Requests, States
<1>8. Counted(rq')
  BY <1>1, <1>2, <1>5, <1>7 DEF Counted, Held
<1>9. Ordered(rq') /\ \A p, h : Done(rq', p, h) = Done(rq, p, h)
  BY <1>1, <1>7, SameHistory
<1>10. Phase(rq') = Phase(rq) /\ HasLua(rq') = HasLua(rq)
  BY <1>7 DEF Phase, HasLua
<1>11. Placed(rq', moved)
  BY <1>1, <1>7, <1>9, <1>10 DEF Placed, LuaPos, OtherPos, InLua
<1> QED
  BY <1>1, <1>7, <1>8, <1>9, <1>11 DEF Inv, RequestInv, Unresponded, Fielded

LEMMA BodyFailsInv == ASSUME Inv, BodyFails PROVE Inv'
<1>1. /\ rq \in Requests /\ Counted(rq) /\ Ordered(rq) /\ rq.at = "body" /\ rq.frames = 0
      /\ resp' = resp /\ moved' = moved
  BY DEF BodyFails, Cut, Inv, RequestInv
<1>4. rq' = [rq EXCEPT !.at = "terminated", !.cut = TRUE]
  BY DEF BodyFails, Cut
<1>2. /\ rq' \in Requests /\ rq'.at = "terminated" /\ rq'.cut = TRUE /\ rq'.count = rq.count
      /\ rq'.lua = rq.lua /\ rq'.frames = rq.frames /\ rq'.kind = rq.kind /\ rq'.phase = rq.phase
      /\ rq'.ran = rq.ran /\ rq'.logged = rq.logged /\ rq'.uriChanged = rq.uriChanged
      /\ rq'.pass = rq.pass
  BY <1>1, <1>4 DEF Requests, States
<1>3. Counted(rq')
  BY <1>1, <1>2 DEF Counted, Held
<1>6. Ordered(rq') /\ Placed(rq', moved)
  BY <1>1, <1>2, SameHistory DEF Gone
<1> QED
  BY <1>1, <1>2, <1>3, <1>6 DEF Inv, RequestInv, Unresponded, Fielded

LEMMA DrainsInv == ASSUME Inv, Drains PROVE Inv'
<1>0. PICK chain : \E x \in OutputFilter(resp, chain) :
          IF rq.at = "flush"
          THEN /\ resp' = x.o
               /\ rq' = IF x.rc = "error" \/ ~x.o.buffered THEN [rq EXCEPT !.at = "lua"] ELSE rq
          ELSE \E y \in Finished(rq, x.o) : rq' = y.q /\ resp' = y.o
  BY DEF Drains
<1>1. PICK x \in OutputFilter(resp, chain) :
          IF rq.at = "flush"
          THEN /\ resp' = x.o
               /\ rq' = IF x.rc = "error" \/ ~x.o.buffered THEN [rq EXCEPT !.at = "lua"] ELSE rq
          ELSE \E y \in Finished(rq, x.o) : rq' = y.q /\ resp' = y.o
  BY <1>0
<1>2. DOMAIN x.o = DOMAIN resp /\ moved' = moved /\ rq.at \in {"flush", "draining"}
  BY KeepsOutputFilter DEF Keeps, Drains
<1>3. CASE rq.at = "flush" /\ rq' = [rq EXCEPT !.at = "lua"]
  BY <1>1, <1>2, <1>3, ResumedInv DEF InLua
<1>4. CASE rq.at = "flush" /\ rq' = rq
  BY <1>1, <1>2, <1>4, FieldedNext DEF Inv, Unresponded
<1>5. CASE rq.at = "draining"
  <2>1. PICK y \in Finished(rq, x.o) : rq' = y.q /\ resp' = y.o
    BY <1>1, <1>5
  <2>2. y.q \in Outcomes(rq) /\ y.o = x.o
    BY DEF Finished, Terminated, Pair, Outcomes
  <2> QED
    BY <1>2, <1>5, <2>1, <2>2, GoneInv
<1> QED
  BY <1>1, <1>2, <1>3, <1>4, <1>5

LEMMA EventsInv == ASSUME Inv, Resumes \/ TimesOut \/ ClientGoes \/ ClientAborts PROVE Inv'
<1>1. CASE Resumes
  BY <1>1, ResumedInv DEF Resumes, InLua
<1>2. CASE TimesOut
  BY <1>2, ResumedInv, GoneInv DEF TimesOut, InLua, Outcomes
<1>3. CASE ClientGoes
  BY <1>3, FieldedNext DEF ClientGoes, Waits, Inv, Unresponded, Responded, Fielded
<1>4. CASE ClientAborts
  <2>1. PICK y \in Finalized(rq, resp, "close") : rq' = y.q /\ resp' = y.o /\ UNCHANGED moved
    BY <1>4 DEF ClientAborts, FinalizeRequest
  <2>2. rq' \in Outcomes(rq) /\ DOMAIN resp' = DOMAIN resp /\ rq.at \in InLua
    BY <1>4, <2>1, FinalizedOutcomes, FinalizedKeeps DEF ClientAborts, InLua
  <2> QED
    BY <2>1, <2>2, GoneInv
<1> QED
  BY <1>1, <1>2, <1>3, <1>4

-------------------------------------------------------------------------------
(* The theorems.                                                             *)

LEMMA InitInv == Init => Inv
<1> SUFFICES ASSUME NEW kind \in Kinds, rq = NewRequest(kind), resp = NewResponse(kind),
                    moved \in {{}, Movable}
             PROVE  Inv
  BY DEF Init
<1>1. FreshLua \in LuaContexts /\ FreshLua.waitingBody = FALSE
  BY DEF LuaContexts, FreshLua
<1>2. MaxPasses \in Nat \ {0} /\ 1 \in 1..MaxPasses
  BY PhasesAssumption
<1>3. /\ rq \in Requests /\ rq.at = "engine" /\ rq.pos = 1 /\ rq.cut = FALSE
      /\ rq.count = (IF kind.captured THEN 2 ELSE 1) /\ rq.lua = FreshLua /\ rq.frames = 0
      /\ rq.kind = kind /\ rq.phase = 1 /\ rq.ran = <<>>
      /\ rq.logged = 0 /\ rq.uriChanged = FALSE /\ rq.pass = 1
  <2> HIDE DEF FreshLua
  <2> QED
    BY <1>1, <1>2 DEF NewRequest, Requests, States
<1>4. Counted(rq)
  BY <1>1, <1>3 DEF Counted, Held
<1>5. Ordered(rq) /\ \A p, h : ~Done(rq, p, h)
  BY <1>3 DEF Ordered, Done
<1>6. Placed(rq, moved)
  BY <1>3, <1>5 DEF Placed, LuaPos, OtherPos, InLua
<1>7. Unresponded /\ Fielded
  BY DEF Unresponded, Fielded, NewResponse, Responded
<1> QED
  BY <1>3, <1>4, <1>5, <1>6, <1>7 DEF Inv, RequestInv, Movable

LEMMA NextInv == Inv /\ [Next]_vars => Inv'
<1> SUFFICES ASSUME Inv, [Next]_vars PROVE Inv'
  OBVIOUS
<1>1. CASE UNCHANGED vars
  BY <1>1 DEF vars, Inv, Unresponded, Fielded
<1>2. CASE LuaHandler
  BY <1>2, CallsHandlerInv, ContentHandlerInv, LoadFailsInv
     DEF LuaHandler, ServerRewriteHandler, RewriteHandler, AccessHandler, PrecontentHandler,
         ServerRewriteLoadFails, RewriteLoadFails, AccessLoadFails, PrecontentLoadFails,
         ContentLoadFails
<1>3. CASE Engine
  BY <1>2, <1>3, NextPhaseInv, OtherHandlerInv, OtherContentInv, MoveHandlerInv, SkipsInv,
     UnwindsInv, LogPhaseInv, TerminatesInv DEF Engine
<1>4. CASE Lua
  BY <1>4, PrintsInv, SendsInv, FlushesInv, SleepsInv, EndsInv, FailsInv, ExitsInv, JumpsInv,
     ExecsInv DEF Lua
<1>5. CASE Events
  BY <1>5, BodyArrivesInv, BodyFailsInv, DrainsInv, EventsInv DEF Events
<1> QED
  BY <1>1, <1>3, <1>4, <1>5 DEF Next, Stopped

LEMMA AlwaysInv == Spec => []Inv
BY InitInv, NextInv, PTL DEF Spec

\* Every reference to the request has its holder until it is freed, whatever its
\* handlers do: any kinds of request, any number of passes.
THEOREM CountCorrect == Spec => []CountExact
<1>1. Inv => CountExact
  <2> SUFFICES ASSUME Inv PROVE CountExact
    OBVIOUS
  <2>1. /\ rq \in Requests /\ Counted(rq) /\ moved \subseteq Movable
        /\ MaxPasses \in Nat /\ (Here # "content" <=> rq.phase # 5)
    BY PhasesAssumption, PhaseNames DEF Inv, RequestInv, Here
  <2>2. /\ rq.at \in States /\ rq.count \in Nat /\ rq.frames \in Nat /\ rq.pass \in 1..MaxPasses
        /\ rq.logged \in {0, 1}
    BY <2>1 DEF Requests
  <2>3. rq.frames < MaxPasses /\ rq.frames \in 0..MaxPasses
    BY <2>1, <2>2 DEF Counted
  <2>4. rq.count \in 0..(2 + MaxPasses)
    BY <2>1, <2>2, <2>3 DEF Counted, Held
  <2>5. TypeOK
    BY <2>1, <2>2, <2>3, <2>4 DEF TypeOK, States
  <2> QED
    BY <2>1, <2>5 DEF CountExact, Counted, Held
<1> QED
  BY <1>1, AlwaysInv, PTL

\* Each handler of each phase that the request has passed ran once and in order,
\* wherever the worker's first request is when it moves them.
THEOREM OnceCorrect == Spec => []EachOnce
<1> DEFINE HasRun(p, h) == Cardinality({i \in DOMAIN rq.ran : rq.ran[i] = <<p, h>>})
<1>1. ASSUME Inv, NEW p, NEW h, Done(rq, p, h)
      PROVE  HasRun(p, h) = 1
  <2>1. PICK i \in DOMAIN rq.ran : rq.ran[i] = <<p, h>>
    BY <1>1 DEF Done
  <2>2. \A j \in DOMAIN rq.ran : j < i \/ j = i \/ i < j
    BY <1>1 DEF Inv, RequestInv, Requests
  <2>3. {j \in DOMAIN rq.ran : rq.ran[j] = <<p, h>>} = {i}
    BY <1>1, <2>1, <2>2 DEF Inv, RequestInv, Ordered
  <2>4. Cardinality({i}) = 1
    BY FS_Singleton
  <2> QED
    BY <2>3, <2>4
<1>2. Inv => EachOnce
  <2> SUFFICES ASSUME Inv PROVE EachOnce
    OBVIOUS
  <2>1. rq \in Requests /\ Ordered(rq) /\ Counted(rq)
    BY DEF Inv, RequestInv
  <2>2. \A i \in DOMAIN rq.ran : rq.ran[i] = <<rq.ran[i][1], rq.ran[i][2]>>
    <3>1. \A i \in DOMAIN rq.ran : rq.ran[i] \in (1..5) \X {"lua", "other"}
      BY <2>1 DEF Requests
    <3> QED
      BY <3>1
  <2>3. \A i, j \in DOMAIN rq.ran : i < j => rq.ran[i][1] <= rq.ran[j][1]
    BY <2>1 DEF Ordered
  <2>4. \A i \in DOMAIN rq.ran : HasRun(rq.ran[i][1], rq.ran[i][2]) = 1
    <3> TAKE i \in DOMAIN rq.ran
    <3>1. Done(rq, rq.ran[i][1], rq.ran[i][2])
      BY <2>2 DEF Done
    <3> HIDE DEF HasRun
    <3> QED
      BY <1>1, <3>1
  <2>5. \A p \in 2..(rq.phase - 1) :
            Phases[p] \in Movable /\ (Phases[p] = "access" => ~rq.kind.captured) =>
                /\ HasRun(p, "other") = 1
                /\ (Phases[p] \in rq.kind.has /\ ~rq.uriChanged) => HasRun(p, "lua") = 1
    BY <1>1, <2>1 DEF Ordered
  <2> QED
    BY <2>3, <2>4, <2>5 DEF EachOnce
<1> QED
  BY <1>2, AlwaysInv, PTL

LEMMA DroppedRan ==
    ASSUME NEW q, {"ran", "count", "at", "cut"} \subseteq DOMAIN q
    PROVE  Dropped(q).ran = q.ran /\ \A r \in Outcomes(q) : r.ran = q.ran
BY DEF Dropped, Outcomes, Cut

LEMMA CheckedRan ==
    ASSUME NEW q \in Requests, NEW o, NEW rc, NEW y \in Checked(q, o, rc)
    PROVE  y.q.ran = q.ran
<1>1. Dropped(q).ran = q.ran /\ Next1(q).ran = q.ran /\ \A r \in Outcomes(q) : r.ran = q.ran
  BY DEF Dropped, Next1, Left, Outcomes, Cut, Requests
<1>2. y.q \in {Dropped(q), Next1(q)} \cup Outcomes(q)
  BY FinalizedOutcomes, FinalizedDone DEF Checked, Pair, Next1
<1> QED
  BY <1>1, <1>2

\* Only the engine calls handlers
LEMMA OnlyEngine ==
    ASSUME Inv, Next, rq.at # "engine"
    PROVE  rq'.ran \in {rq.ran, <<>>}
<1>1. rq \in Requests
  BY DEF Inv, RequestInv
<1>2. ASSUME NEW o, NEW rc, Returned(o, rc) PROVE rq'.ran = rq.ran
  BY <1>1, <1>2, CheckedRan DEF Returned
<1>3. ASSUME NEW o, NEW at, Suspended(o, at) PROVE rq'.ran = rq.ran
  <2> DEFINE q == [rq EXCEPT !.at = at, !.lua.fresh = FALSE]
             c == [q EXCEPT !.count = @ + 1]
  <2>1. DOMAIN q = DOMAIN rq /\ q.ran = rq.ran
    BY <1>1 DEF Requests
  <2>2. rq' = q \/ \E y \in Finalized(c, resp, "done") : rq' = y.q
    BY <1>3 DEF Suspended, ContentRunPosted
  <2> HIDE DEF q
  <2>3. DOMAIN c = DOMAIN rq /\ c.ran = rq.ran
    BY <1>1, <2>1 DEF Requests
  <2> HIDE DEF c
  <2>4. Dropped(c).ran = rq.ran
    BY <1>1, <2>3, DroppedRan DEF Requests
  <2> QED
    BY <2>1, <2>2, <2>4, FinalizedDone
<1>4. CASE Engine
  <2>1. CASE Unwinds
    <3> DEFINE q == [rq EXCEPT !.frames = @ - 1]
    <3>1. \E y \in Finalized(q, resp, "done") : rq' = y.q
      BY <2>1 DEF Unwinds, FinalizeRequest
    <3>2. DOMAIN q = DOMAIN rq /\ q.ran = rq.ran
      BY <1>1 DEF Requests
    <3> HIDE DEF q
    <3>3. Dropped(q).ran = rq.ran
      BY <1>1, <3>2, DroppedRan DEF Requests
    <3> QED
      BY <3>1, <3>3, FinalizedDone
  <2>2. CASE LogPhase \/ Terminates
    BY <1>1, <2>2 DEF LogPhase, LogHandler, Terminates, Requests
  <2>3. ~LuaHandler
    BY DEF LuaHandler, ServerRewriteHandler, RewriteHandler, AccessHandler, PrecontentHandler,
           ServerRewriteLoadFails, RewriteLoadFails, AccessLoadFails, PrecontentLoadFails,
           ContentLoadFails, CallsHandler, ContentHandler, LoadFails, AtHandler
  <2> QED
    BY <1>4, <2>1, <2>2, <2>3
       DEF Engine, NextPhase, OtherHandler, OtherContent, MoveHandler, Skips, AtHandler
<1>5. CASE Prints \/ SendsHeaders \/ SendsEof
  BY <1>1, <1>5 DEF Prints, SendsHeaders, SendsEof, Requests
<1>6. CASE Flushes \/ Sleeps
  BY <1>3, <1>6 DEF Flushes, Sleeps
<1>7. CASE Ends \/ Fails \/ Exits
  BY <1>2, <1>7 DEF Ends, Fails, Exits
<1>8. CASE Jumps
  <2> DEFINE q == [rq EXCEPT !.uriChanged = TRUE]
  <2>1. q \in Requests /\ q.ran = rq.ran
    BY <1>1 DEF Requests
  <2>2. PICK x \in ByChunkEnd(Here, resp, "ok") : \E y \in Checked(q, x.o, x.rc) : rq' = y.q
    BY <1>8 DEF Jumps
  <2> HIDE DEF q
  <2> QED
    BY <2>1, <2>2, CheckedRan
<1>9. CASE Execs
  BY <1>1, <1>9 DEF Execs, HandleExec, Pair, Requests
<1>10. CASE Events
  <2>1. CASE Drains
    <3>1. \E chain : \E x \in OutputFilter(resp, chain) :
              rq' \in {[rq EXCEPT !.at = "lua"], rq} \/ \E y \in Finished(rq, x.o) : rq' = y.q
      BY <2>1 DEF Drains
    <3>2. \A o : \A y \in Finished(rq, o) : y.q \in Outcomes(rq)
      BY DEF Finished, Terminated, Pair, Outcomes
    <3>3. \A r \in Outcomes(rq) \cup {[rq EXCEPT !.at = "lua"], rq} : r.ran = rq.ran
      BY <1>1, DroppedRan DEF Requests
    <3> QED
      BY <3>1, <3>2, <3>3
  <2>2. CASE ClientAborts
    <3>1. PICK y \in Finalized(rq, resp, "close") : rq' = y.q
      BY <2>2 DEF ClientAborts, FinalizeRequest
    <3>2. y.q \in Outcomes(rq)
      BY FinalizedOutcomes
    <3> QED
      BY <1>1, <3>1, <3>2, DroppedRan DEF Requests
  <2> QED
    BY <1>1, <1>10, <2>1, <2>2
       DEF Events, Resumes, BodyArrives, BodyFails, TimesOut, ClientGoes, Cut, BodyThere, PostRead,
           ContentPostRead, Requests
<1> QED
  BY <1>4, <1>5, <1>6, <1>7, <1>8, <1>9, <1>10 DEF Next, Lua, Stopped, vars

\* No handler runs once the request has responded, for every step, provided that
\* no Lua code calls ngx.exit(ngx.DECLINED) once it has begun the response.
THEOREM ResponseCorrect == ASSUME Careful PROVE Spec => NoSecondResponse
<1>1. Inv /\ [Next]_vars => [(rq.ran # rq'.ran /\ rq'.ran # <<>>) => ~Responded(resp)]_vars
  <2> SUFFICES ASSUME Inv, [Next]_vars, rq.ran # rq'.ran, rq'.ran # <<>>, Responded(resp)
               PROVE  FALSE
    BY DEF vars
  <2>1. rq.at # "engine"
    BY DEF Inv, Unresponded
  <2>2. Next
    BY DEF vars
  <2> QED
    BY <2>1, <2>2, OnlyEngine
<1> QED
  BY <1>1, AlwaysInv, PTL DEF Spec, NoSecondResponse
===============================================================================
