---------------------------- MODULE TlsHooksProofs ----------------------------
(* Invariants of the hooks of a TLS handshake, for any number of connections *)
(* and subrequests, where the code copes with the request (Careful).         *)
EXTENDS TlsHooks, TLAPS

Handshake == [side : {"client", "upstream"}, pos : 1 .. 5, posted : BOOLEAN, tries : Nat,
              at : {"run", "peer", "hook", "failed", "over", "closed"}]

Context == [entered : SUBSET Hooks, done : BOOLEAN, aborted : BOOLEAN, code : {0, 1},
            armed : Hooks \cup {Nil}, pool : BOOLEAN, count : Nat]

Request == [count : Nat, siblings : Nat, ended : BOOLEAN, cleanup : {"request", "pool", Nil}]

\* The state, and where in the sequence of hooks the handshake may be
Types ==
    /\ hs \in Handshake
    /\ hs.pos <= Len(Of(hs.side)) + 1
    /\ hs.at # "over" => hs.pos <= Len(Of(hs.side))
    /\ cctx \in Context
    /\ fake \subseteq Hooks /\ lua \in Hooks \cup {Nil}
    /\ answer \in [Hooks -> {"ok", "error", Nil}]
    /\ req \in Request

\* A handshake that waits for a hook has entered it, and what the context of
\* the connection holds is the answer of this hook, once there is one
Waits ==
    /\ hs.at = "hook" => /\ Hook \in cctx.entered
                         /\ lua = Nil <=> cctx.done
                         /\ cctx.done => answer[Hook] = IF cctx.code = 1 THEN "ok" ELSE "error"
                         /\ ~cctx.done => cctx.code = 1
    /\ cctx.aborted => hs.at = "closed"

\* A hook is entered when the handshake comes to it, and not before; the one
\* that cannot suspend is never entered
EnteredInTurn ==
    /\ \A h \in cctx.entered : \E n \in 1 .. hs.pos :
          h = Of(hs.side)[n] /\ (n = hs.pos => hs.at \notin {"run", "peer", "over"})
    /\ "sess_store" \notin cctx.entered

\* While a hook of the upstream is suspended the pool of the hook has the
\* cleanup handler, and no reference was taken that would defer its end; beside
\* the handshake of a client there are no subrequests
Guarded ==
    /\ hs.side = "upstream" /\ lua # Nil => req.cleanup = "pool" /\ req.count <= cctx.count
    /\ hs.side = "client" => req.siblings = 0

Inv == Types /\ Waits /\ EnteredInTurn /\ Guarded /\ AnswersDecide /\ NothingOutlives

-------------------------------------------------------------------------------
(* The sequences of hooks.                                                   *)

LEMMA HooksAre ==
    /\ Hooks = {"client_hello", "sess_fetch", "cert", "sess_store", "proxy_verify", "proxy_cert"}
    /\ Len(Of("client")) = 4 /\ Len(Of("upstream")) = 2
    /\ Of("client")[1] = "client_hello" /\ Of("client")[2] = "sess_fetch"
    /\ Of("client")[3] = "cert" /\ Of("client")[4] = "sess_store"
    /\ Of("upstream")[1] = "proxy_verify" /\ Of("upstream")[2] = "proxy_cert"
<1>1. /\ ToSet(ClientHooks) = {"client_hello", "sess_fetch", "cert", "sess_store"}
      /\ ToSet(UpstreamHooks) = {"proxy_verify", "proxy_cert"}
  BY DEF ToSet, ClientHooks, UpstreamHooks
<1>2. /\ Len(ClientHooks) = 4 /\ Len(UpstreamHooks) = 2
      /\ ClientHooks[1] = "client_hello" /\ ClientHooks[2] = "sess_fetch"
      /\ ClientHooks[3] = "cert" /\ ClientHooks[4] = "sess_store"
      /\ UpstreamHooks[1] = "proxy_verify" /\ UpstreamHooks[2] = "proxy_cert"
  BY DEF ClientHooks, UpstreamHooks
<1> QED
  BY <1>1, <1>2 DEF Hooks, Of

LEMMA LengthOf ==
    ASSUME NEW side \in {"client", "upstream"}
    PROVE  Len(Of(side)) \in Nat /\ Len(Of(side)) >= 1 /\ Len(Of(side)) <= 4
<1>1. CASE side = "client"
  <2>1. Len(Of(side)) = 4
    BY <1>1, HooksAre
  <2> QED
    BY <2>1
<1>2. CASE side = "upstream"
  <2>1. Len(Of(side)) = 2
    BY <1>2, HooksAre
  <2> QED
    BY <2>1
<1> QED
  BY <1>1, <1>2

\* Every place of a sequence has a hook of its own
LEMMA HookOfPlace ==
    ASSUME NEW side \in {"client", "upstream"}, NEW m \in 1 .. Len(Of(side))
    PROVE  /\ m \in {1, 2, 3, 4}
           /\ Of(side)[m] \in Hooks /\ Of(side)[m] # Nil
           /\ \A n \in 1 .. Len(Of(side)) : Of(side)[n] = Of(side)[m] => n = m
           /\ Of(side)[m] = "sess_store" <=> side = "client" /\ m = 4
           /\ Of(side)[m] \in {"proxy_verify", "proxy_cert"} <=> side = "upstream"
<1>1. CASE side = "client"
  <2>1. Len(Of(side)) = 4
    BY <1>1, HooksAre
  <2>2. m \in {1, 2, 3, 4}
    BY <2>1
  <2> QED
    BY <1>1, <2>1, <2>2, HooksAre, NilAssumption
<1>2. CASE side = "upstream"
  <2>1. Len(Of(side)) = 2
    BY <1>2, HooksAre
  <2>2. m \in {1, 2}
    BY <2>1
  <2> QED
    BY <1>2, <2>1, <2>2, HooksAre, NilAssumption
<1> QED
  BY <1>1, <1>2

\* What the handshake may make of the value of a hook
LEMMA ReturnsShape ==
    ASSUME Types, hs.at \in {"run", "hook"}, NEW v \in {Retry, 0, 1}, Returns(v)
    PROVE  /\ hs'.side = hs.side /\ hs'.tries = hs.tries
           /\ hs' \in Handshake
           /\ hs'.pos <= Len(Of(hs'.side)) + 1
           /\ hs'.at # "over" => hs'.pos <= Len(Of(hs'.side))
           /\ v = Retry => hs'.pos = hs.pos /\ hs'.at = "hook"
           /\ v = 0 => hs'.pos = hs.pos /\ hs'.at = "failed"
           /\ v = 1 => hs'.pos = hs.pos + 1 /\ hs'.at \in {"run", "peer", "over"}
<1>1. /\ hs.pos <= Len(Of(hs.side)) /\ hs.pos \in 1 .. 5 /\ hs \in Handshake
      /\ hs.side \in {"client", "upstream"} /\ hs.tries \in Nat
  BY DEF Types, Handshake
<1>2. Len(Of(hs.side)) \in Nat /\ Len(Of(hs.side)) <= 4
  BY <1>1, LengthOf
<1>3. CASE v = Retry
  <2>1. hs' = [hs EXCEPT !.at = "hook", !.posted = FALSE]
    BY <1>3 DEF Returns, Retry
  <2>2. /\ hs'.side = hs.side /\ hs'.tries = hs.tries /\ hs'.pos = hs.pos
        /\ hs'.at = "hook" /\ hs' \in Handshake
    BY <1>1, <2>1 DEF Handshake
  <2> QED
    BY <1>1, <1>2, <1>3, <2>2 DEF Retry
<1>4. CASE v = 0
  <2>1. hs' = [hs EXCEPT !.at = "failed", !.posted = FALSE]
    BY <1>4 DEF Returns, Retry
  <2>2. /\ hs'.side = hs.side /\ hs'.tries = hs.tries /\ hs'.pos = hs.pos
        /\ hs'.at = "failed" /\ hs' \in Handshake
    BY <1>1, <2>1 DEF Handshake
  <2> QED
    BY <1>1, <1>2, <1>4, <2>2 DEF Retry
<1>5. CASE v = 1
  <2>1. PICK next \in {"run", "peer", "over"} :
            /\ hs' = [Goes EXCEPT !.at = next, !.posted = FALSE]
            /\ next # "over" => hs.pos # Len(Of(hs.side))
    BY <1>5 DEF Returns, Retry
  <2>2. hs.pos + 1 \in 1 .. 5
    BY <1>1, <1>2
  <2>3. /\ hs'.side = hs.side /\ hs'.tries = hs.tries /\ hs'.pos = hs.pos + 1
        /\ hs'.at = next /\ hs' \in Handshake
    BY <1>1, <2>1, <2>2 DEF Handshake, Goes
  <2> QED
    BY <1>1, <1>2, <1>5, <2>1, <2>3 DEF Retry
<1> QED
  BY <1>3, <1>4, <1>5

\* The hook of a handshake that runs or waits
LEMMA HookIs ==
    ASSUME Types, hs.at # "over"
    PROVE  /\ Hook \in Hooks /\ Hook # Nil
           /\ hs.pos \in 1 .. Len(Of(hs.side)) /\ hs.side \in {"client", "upstream"}
           /\ Len(Of(hs.side)) \in Nat
           /\ \A n \in 1 .. Len(Of(hs.side)) : Of(hs.side)[n] = Hook => n = hs.pos
           /\ Hook = "sess_store" => hs.side = "client" /\ hs.pos = 4
           /\ Hook \in {"proxy_verify", "proxy_cert"} <=> hs.side = "upstream"
<1>1. Len(Of(hs.side)) \in {2, 4} /\ hs.side \in {"client", "upstream"}
  BY HooksAre DEF Types, Handshake
<1>2. hs.pos \in 1 .. Len(Of(hs.side))
  BY <1>1 DEF Types, Handshake
<1> QED
  BY <1>1, <1>2, HookOfPlace DEF Hook

\* The parts of the invariant that are about the places of the handshake, when
\* it goes on with an answer or does not
LEMMA PlacesInv ==
    ASSUME Inv, hs.at \in {"run", "hook"}, NEW v \in {Retry, 0, 1}, Returns(v),
           cctx'.entered \in {cctx.entered, cctx.entered \cup {Hook}},
           "sess_store" \notin cctx'.entered,
           v = Retry => Hook \in cctx'.entered,
           \A h \in Hooks \ {Hook} : answer'[h] = answer[h],
           v = 1 /\ Hook \in cctx'.entered =>
               answer'[Hook] = "ok" \/ (Advises(Hook) /\ answer'[Hook] = "error")
    PROVE  EnteredInTurn' /\ AnswersDecide'
<1>1. Types
  BY DEF Inv
<1>2. /\ hs'.side = hs.side /\ hs.pos \in 1 .. Len(Of(hs.side))
      /\ Len(Of(hs.side)) \in Nat
      /\ hs.side \in {"client", "upstream"}
      /\ v = Retry => hs'.pos = hs.pos /\ hs'.at = "hook"
      /\ v = 0 => hs'.pos = hs.pos /\ hs'.at = "failed"
      /\ v = 1 => hs'.pos = hs.pos + 1 /\ hs'.at \in {"run", "peer", "over"}
  BY <1>1, HookIs, ReturnsShape
<1>3. EnteredInTurn'
  <2>1. SUFFICES ASSUME NEW h \in cctx'.entered
                 PROVE  \E n \in 1 .. hs'.pos :
                            h = Of(hs.side)[n] /\ (n = hs'.pos => hs'.at \notin {"run", "peer", "over"})
    BY <1>2 DEF EnteredInTurn
  <2>2. PICK n \in 1 .. hs.pos : h = Of(hs.side)[n]
    <3>1. CASE h = Hook
      BY <1>2, <3>1 DEF Hook
    <3>2. CASE h \in cctx.entered
      BY <3>2 DEF Inv, EnteredInTurn
    <3> QED
      BY <3>1, <3>2
  <2> QED
    BY <1>2, <2>2 DEF Retry
<1>4. AnswersDecide'
  <2>1. SUFFICES ASSUME NEW n \in 1 .. (hs'.pos - 1), Of(hs.side)[n] \in cctx'.entered
                 PROVE  \/ answer'[Of(hs.side)[n]] = "ok"
                        \/ Advises(Of(hs.side)[n]) /\ answer'[Of(hs.side)[n]] = "error"
    BY <1>2 DEF AnswersDecide
  <2>2. CASE n = hs.pos
    BY <1>2, <2>1, <2>2 DEF Retry, Hook
  <2>3. CASE n # hs.pos
    <3>1. n \in 1 .. (hs.pos - 1)
      BY <1>2, <2>3 DEF Retry
    <3>2. Of(hs.side)[n] \in Hooks \ {Hook}
      BY <1>1, <1>2, <2>3, <3>1, HookIs, HookOfPlace
    <3> QED
      BY <2>1, <3>1, <3>2 DEF Inv, AnswersDecide
  <2> QED
    BY <2>2, <2>3
<1> QED
  BY <1>3, <1>4

-------------------------------------------------------------------------------
(* The hooks.                                                                *)

LEMMA EnteredFields ==
    ASSUME Types, NEW h \in Hooks, NEW o \in Outcomes
    PROVE  LET x == FinalizedFake(Entered(h), o)
           IN  /\ x \in Context
               /\ x.entered = cctx.entered \cup {h} /\ ~x.done
               /\ x.code = IF o = "error" THEN 0 ELSE 1
               /\ x.aborted = cctx.aborted /\ x.armed = cctx.armed
               /\ x.pool = cctx.pool /\ x.count = cctx.count
BY DEF Types, Context, FinalizedFake, Entered

LEMMA FinalizedFields ==
    ASSUME NEW y \in Context, NEW o
    PROVE  LET x == FinalizedFake(y, o)
           IN  /\ x \in Context
               /\ x.code = IF o = "error" THEN 0 ELSE y.code
               /\ x.entered = y.entered /\ x.done = y.done
               /\ x.aborted = y.aborted /\ x.armed = y.armed
               /\ x.pool = y.pool /\ x.count = y.count
BY DEF Context, FinalizedFake

LEMMA DoneFields ==
    ASSUME NEW x \in Context, ~x.aborted
    PROVE  /\ Done(x) \in Context /\ Done(x).done /\ Done(x).armed = Nil
           /\ Done(x).entered = x.entered /\ Done(x).code = x.code
           /\ Done(x).aborted = x.aborted /\ Done(x).pool = x.pool
           /\ Done(x).count = x.count
BY DEF Context, Done

\* A handshake that comes to a hook: nothing is left of the hooks before
LEMMA AtRun ==
    ASSUME Inv, hs.at \in {"run", "hook"}, Hook \notin cctx.entered
    PROVE  /\ hs.at = "run" /\ lua = Nil /\ cctx.armed = Nil /\ fake = {}
           /\ ~cctx.pool /\ ~cctx.aborted
BY DEF Inv, Waits, NothingOutlives

LEMMA EnteredBefore ==
    ASSUME Inv, hs.at \in {"run", "peer"}
    PROVE  Hook \notin cctx.entered
<1>1. /\ hs.pos \in 1 .. Len(Of(hs.side)) /\ Len(Of(hs.side)) \in Nat
      /\ \A n \in 1 .. Len(Of(hs.side)) : Of(hs.side)[n] = Hook => n = hs.pos
  BY HookIs DEF Inv
<1>2. SUFFICES ASSUME Hook \in cctx.entered PROVE FALSE
  OBVIOUS
<1>3. PICK n \in 1 .. hs.pos : Hook = Of(hs.side)[n] /\ n # hs.pos
  BY <1>2 DEF Inv, EnteredInTurn
<1> QED
  BY <1>1, <1>3

\* A hook is called for the first time: its Lua code has ended, with an answer,
\* or is suspended
LEMMA FirstAnswerInv ==
    ASSUME Inv, hs.at \in {"run", "hook"}, Hook \notin cctx.entered, Hook # "sess_store",
           NEW o \in Outcomes, NEW v \in {Retry, 0, 1}, Returns(v),
           IF Ends(o) THEN v = cctx'.code \/ (v = 1 /\ Advises(Hook)) ELSE v = Retry,
           cctx' \in Context, cctx'.entered = cctx.entered \cup {Hook}, ~cctx'.aborted,
           cctx'.code = IF o = "error" THEN 0 ELSE 1, cctx'.done <=> Ends(o),
           cctx'.armed = lua', cctx'.pool <=> hs.side = "upstream" /\ ~Ends(o),
           lua' = IF Ends(o) THEN Nil ELSE Hook,
           fake' = IF hs.side = "client" /\ ~Ends(o) THEN {Hook} ELSE {},
           answer' = IF Ends(o) THEN [answer EXCEPT ![Hook] = o] ELSE answer,
           req' \in Request, req'.count = req.count, req'.siblings = req.siblings,
           req'.ended = req.ended,
           hs.side = "upstream" /\ ~Ends(o) => req'.cleanup = "pool" /\ req.count <= cctx'.count
    PROVE  Inv'
<1>1. Types
  BY DEF Inv
<1>2. /\ Hook \in Hooks /\ Hook # Nil
      /\ hs'.side = hs.side /\ hs'.tries = hs.tries /\ hs' \in Handshake
      /\ hs'.pos <= Len(Of(hs'.side)) + 1
      /\ hs'.at # "over" => hs'.pos <= Len(Of(hs'.side))
      /\ v = Retry => hs'.pos = hs.pos /\ hs'.at = "hook"
      /\ v = 0 => hs'.pos = hs.pos /\ hs'.at = "failed"
      /\ v = 1 => hs'.pos = hs.pos + 1 /\ hs'.at \in {"run", "peer", "over"}
  BY <1>1, HookIs, ReturnsShape
<1>3. v # Retry <=> Ends(o)
  BY DEF Retry, Ends, Context
<1>4. Types'
  <2>1. answer' \in [Hooks -> {"ok", "error", Nil}] /\ lua' \in Hooks \cup {Nil}
    BY <1>1, <1>2 DEF Types, Ends, Outcomes
  <2>2. fake' \subseteq Hooks
    BY <1>2
  <2> QED
    BY <1>2, <2>1, <2>2 DEF Types
<1>5. EnteredInTurn' /\ AnswersDecide'
  <2>1. "sess_store" \notin cctx'.entered
    BY DEF Inv, EnteredInTurn
  <2>2. \A h \in Hooks \ {Hook} : answer'[h] = answer[h]
    BY <1>1 DEF Types
  <2>3. ASSUME v = 1
        PROVE  answer'[Hook] = "ok" \/ (Advises(Hook) /\ answer'[Hook] = "error")
    <3>1. Ends(o) /\ answer'[Hook] = o
      BY <1>1, <1>2, <1>3, <2>3 DEF Types, Retry
    <3> QED
      BY <2>3, <3>1 DEF Outcomes, Ends
  <2> QED
    BY <1>2, <2>1, <2>2, <2>3, PlacesInv
<1>6. v = Retry => Hook' = Hook
  BY <1>2 DEF Hook
<1>7. Waits'
  <2>1. hs'.at = "hook" <=> v = Retry
    BY <1>2
  <2>2. ASSUME v = Retry
        PROVE  Hook' \in cctx'.entered /\ lua' # Nil /\ ~cctx'.done /\ cctx'.code = 1
    BY <1>2, <1>3, <1>6, <2>2 DEF Ends
  <2> QED
    BY <2>1, <2>2 DEF Waits
<1>8. Guarded'
  BY <1>2, <1>3 DEF Inv, Guarded
<1>9. NothingOutlives'
  <2>1. TypeOK'
    BY <1>4 DEF Types, TypeOK, Handshake, Context, Request
  <2>2. hs'.at = "hook" <=> v = Retry
    BY <1>2
  <2>3. hs'.side = "upstream" => ~req'.ended /\ req'.count = 1 + req'.siblings
    BY <1>2 DEF Inv, NothingOutlives
  <2> QED
    BY <1>2, <1>3, <1>6, <2>1, <2>2, <2>3 DEF NothingOutlives
<1> QED
  BY <1>4, <1>5, <1>7, <1>8, <1>9 DEF Inv

\* The hook of a client is called for the first time
LEMMA FirstCallInv ==
    ASSUME Inv, NEW h, Called(h), h \notin cctx.entered, hs.side = "client", h # "sess_store",
           NEW value, value = Deciding \/ (value = Advising /\ Advises(h)), FirstCall(h, value)
    PROVE  Inv'
<1>1. /\ hs.at \in {"run", "hook"} /\ Hook = h /\ Types /\ h \in Hooks /\ h # Nil
      /\ lua = Nil /\ cctx.armed = Nil /\ fake = {} /\ ~cctx.pool /\ ~cctx.aborted
      /\ cctx \in Context /\ req \in Request
  BY AtRun, HookIs DEF Inv, Called, Types
<1>2. PICK o \in Outcomes : LET x == FinalizedFake(Entered(h), o) IN
          /\ FakeByChunk(h, o)
          /\ cctx' = IF Ends(o) THEN Done(x) ELSE [x EXCEPT !.armed = h]
          /\ Returns(IF Ends(o) THEN value[x.code] ELSE Retry)
  BY DEF FirstCall
<1> DEFINE x == FinalizedFake(Entered(h), o)
           v == IF Ends(o) THEN value[x.code] ELSE Retry
<1>3. /\ x \in Context
      /\ x.entered = cctx.entered \cup {h} /\ ~x.done
      /\ x.code = IF o = "error" THEN 0 ELSE 1
      /\ ~x.aborted /\ x.armed = Nil /\ ~x.pool
  BY <1>1, EnteredFields
<1> HIDE DEF x
<1>4. /\ cctx' \in Context /\ cctx'.entered = x.entered /\ ~cctx'.aborted
      /\ cctx'.code = x.code /\ (cctx'.done <=> Ends(o)) /\ ~cctx'.pool
      /\ cctx'.armed = IF Ends(o) THEN Nil ELSE h
  <2>1. CASE Ends(o)
    BY <1>2, <1>3, <2>1, DoneFields DEF x
  <2>2. CASE ~Ends(o)
    <3>1. cctx' = [x EXCEPT !.armed = h]
      BY <1>2, <2>2 DEF x
    <3> QED
      BY <1>1, <1>3, <2>2, <3>1 DEF Context
  <2> QED
    BY <2>1, <2>2
<1>5. /\ v \in {Retry, 0, 1}
      /\ IF Ends(o) THEN v = cctx'.code \/ (v = 1 /\ Advises(h)) ELSE v = Retry
  <2>1. x.code \in {0, 1}
    BY <1>3 DEF Context
  <2> QED
    BY <1>4, <2>1 DEF Deciding, Advising
<1>6. Returns(v)
  BY <1>2 DEF x
<1>7. /\ lua' = IF Ends(o) THEN Nil ELSE h
      /\ fake' = IF Ends(o) THEN {} ELSE {h}
      /\ answer' = IF Ends(o) THEN [answer EXCEPT ![h] = o] ELSE answer
      /\ req' = req
  BY <1>1, <1>2 DEF FakeByChunk, FreedFake, CreatedFake
<1> HIDE DEF v
<1> QED
  BY <1>1, <1>3, <1>4, <1>5, <1>6, <1>7, FirstAnswerInv

\* A hook is called again: the handshake goes on if the Lua code has ended
LEMMA NextCallInv ==
    ASSUME Inv, NEW h, Called(h), h \in cctx.entered,
           NEW value, value = Deciding \/ (value = Advising /\ Advises(h)), NextCall(h, value)
    PROVE  Inv'
<1>1. /\ hs.at \in {"run", "hook"} /\ Hook = h /\ Types /\ h \in Hooks /\ h # Nil
      /\ hs.pos \in 1 .. Len(Of(hs.side)) /\ Len(Of(hs.side)) \in Nat
      /\ \A n \in 1 .. Len(Of(hs.side)) : Of(hs.side)[n] = Hook => n = hs.pos
  BY HookIs DEF Inv, Called
<1>2. hs.at = "hook"
  <2>1. PICK n \in 1 .. hs.pos : h = Of(hs.side)[n] /\ (n = hs.pos => hs.at \notin {"run", "peer", "over"})
    BY DEF Inv, EnteredInTurn
  <2> QED
    BY <1>1, <2>1
<1>3. /\ lua = Nil <=> cctx.done
      /\ cctx.done => answer[h] = IF cctx.code = 1 THEN "ok" ELSE "error"
      /\ ~cctx.done => cctx.code = 1
      /\ ~cctx.aborted /\ cctx.code \in {0, 1}
  BY <1>1, <1>2 DEF Inv, Waits, Types, Context
<1> DEFINE v == IF cctx.done THEN value[cctx.code] ELSE Retry
<1>4. /\ v \in {Retry, 0, 1}
      /\ IF cctx.done THEN v = cctx.code \/ (v = 1 /\ Advises(h)) ELSE v = Retry
  BY <1>3 DEF Deciding, Advising
<1>5. Returns(v) /\ UNCHANGED <<cctx, fake, lua, answer, req>>
  BY DEF NextCall
<1> HIDE DEF v
<1>6. v = Retry <=> ~cctx.done
  BY <1>3, <1>4 DEF Retry
<1>7. /\ hs'.side = hs.side /\ hs'.tries = hs.tries /\ hs' \in Handshake
      /\ hs'.pos <= Len(Of(hs'.side)) + 1
      /\ hs'.at # "over" => hs'.pos <= Len(Of(hs'.side))
      /\ v = Retry => hs'.pos = hs.pos /\ hs'.at = "hook"
      /\ v = 0 => hs'.pos = hs.pos /\ hs'.at = "failed"
      /\ v = 1 => hs'.pos = hs.pos + 1 /\ hs'.at \in {"run", "peer", "over"}
  BY <1>1, <1>4, <1>5, ReturnsShape
<1>8. Types'
  BY <1>1, <1>5, <1>7 DEF Types
<1>9. EnteredInTurn' /\ AnswersDecide'
  <2>1. "sess_store" \notin cctx'.entered
    BY <1>5 DEF Inv, EnteredInTurn
  <2>2. ASSUME v = 1
        PROVE  answer'[Hook] = "ok" \/ (Advises(Hook) /\ answer'[Hook] = "error")
    BY <1>1, <1>3, <1>4, <1>5, <1>6, <2>2 DEF Retry
  <2> QED
    BY <1>1, <1>4, <1>5, <2>1, <2>2, PlacesInv
<1>10. v = Retry => Hook' = Hook
  BY <1>7 DEF Hook
<1>11. hs'.at = "hook" <=> v = Retry
  BY <1>4, <1>7
<1>12. Waits'
  BY <1>1, <1>3, <1>5, <1>6, <1>10, <1>11 DEF Waits
<1>13. Guarded'
  BY <1>5, <1>7 DEF Inv, Guarded
<1>14. NothingOutlives'
  <2>1. TypeOK'
    BY <1>8 DEF Types, TypeOK, Handshake, Context, Request
  <2>2. hs'.at # "closed"
    BY <1>4, <1>7
  <2> QED
    BY <1>2, <1>3, <1>5, <1>6, <1>7, <1>10, <1>11, <2>1, <2>2 DEF Inv, NothingOutlives
<1> QED
  BY <1>8, <1>9, <1>12, <1>13, <1>14 DEF Inv

\* The handshake passes a hook that it does not enter
LEMMA PassedInv ==
    ASSUME Inv, hs.at \in {"run", "hook"}, Hook \notin cctx.entered,
           NEW v \in {0, 1}, Returns(v), cctx' \in Context,
           cctx'.entered = cctx.entered, cctx'.aborted = cctx.aborted,
           cctx'.armed = cctx.armed, cctx'.pool = cctx.pool, cctx'.count = cctx.count,
           answer' \in [Hooks -> {"ok", "error", Nil}],
           \A h \in Hooks \ {Hook} : answer'[h] = answer[h],
           UNCHANGED <<fake, lua, req>>
    PROVE  Inv'
<1>1. /\ Types /\ lua = Nil /\ hs.at = "run" /\ ~cctx.aborted
  BY AtRun DEF Inv
<1>2. /\ hs'.side = hs.side /\ hs'.tries = hs.tries /\ hs' \in Handshake
      /\ hs'.pos <= Len(Of(hs'.side)) + 1
      /\ hs'.at # "over" => hs'.pos <= Len(Of(hs'.side))
      /\ hs'.at \in {"failed", "run", "peer", "over"}
  BY <1>1, ReturnsShape
<1>3. Types'
  BY <1>1, <1>2 DEF Types
<1>4. EnteredInTurn' /\ AnswersDecide'
  <2>1. "sess_store" \notin cctx'.entered /\ v # Retry
    BY DEF Inv, EnteredInTurn, Retry
  <2> QED
    BY <2>1, PlacesInv
<1>5. Waits'
  BY <1>1, <1>2 DEF Waits
<1>6. Guarded'
  BY <1>1, <1>2 DEF Inv, Guarded
<1>7. NothingOutlives'
  <2>1. TypeOK'
    BY <1>3 DEF Types, TypeOK, Handshake, Context, Request
  <2> QED
    BY <1>1, <1>2, <2>1 DEF Inv, NothingOutlives
<1> QED
  BY <1>3, <1>4, <1>5, <1>6, <1>7 DEF Inv

LEMMA RefusedInv ==
    ASSUME Inv, hs.at \in {"run", "hook"}, Hook \notin cctx.entered, Refused
    PROVE  Inv'
<1>1. Returns(0) /\ UNCHANGED <<cctx, fake, lua, answer, req>>
  BY DEF Refused
<1> QED
  BY <1>1, PassedInv DEF Inv, Types

LEMMA SkipsInv == ASSUME Inv, Skips PROVE Inv'
<1>1. hs.at = "run" /\ Returns(1) /\ UNCHANGED <<cctx, fake, lua, answer, req>>
  BY DEF Skips
<1>2. Hook \notin cctx.entered
  BY <1>1, EnteredBefore
<1> QED
  BY <1>1, <1>2, PassedInv DEF Inv, Types

LEMMA SessStoreInv == ASSUME Inv, SessStoreHandler PROVE Inv'
<1>1. /\ hs.at \in {"run", "hook"} /\ Hook = "sess_store" /\ Returns(1) /\ Types
      /\ cctx' = [cctx EXCEPT !.done = TRUE] /\ UNCHANGED <<fake, lua, req>>
  BY DEF SessStoreHandler, Called, StoreByChunk, Inv
<1>2. PICK o \in Outcomes \ {"yields"} : answer' = [answer EXCEPT !["sess_store"] = o]
  BY DEF SessStoreHandler, StoreByChunk
<1>3. Hook \notin cctx.entered
  BY <1>1 DEF Inv, EnteredInTurn
<1>4. /\ cctx' \in Context /\ cctx'.entered = cctx.entered /\ cctx'.aborted = cctx.aborted
      /\ cctx'.armed = cctx.armed /\ cctx'.pool = cctx.pool /\ cctx'.count = cctx.count
  BY <1>1 DEF Types, Context
<1>5. /\ answer' \in [Hooks -> {"ok", "error", Nil}]
      /\ \A h \in Hooks \ {Hook} : answer'[h] = answer[h]
  BY <1>1, <1>2 DEF Types, Outcomes
<1> QED
  BY <1>1, <1>3, <1>4, <1>5, PassedInv

LEMMA ClientHandlerInv ==
    ASSUME Inv, ClientHelloHandler \/ SessFetchHandler \/ CertHandler
    PROVE  Inv'
<1>1. PICK h \in {"client_hello", "sess_fetch", "cert"} :
          /\ Called(h)
          /\ \/ /\ h \in cctx.entered
                /\ NextCall(h, Deciding) \/ (NextCall(h, Advising) /\ Advises(h))
             \/ /\ h \notin cctx.entered
                /\ FirstCall(h, Deciding) \/ (FirstCall(h, Advising) /\ Advises(h)) \/ Refused
  BY DEF ClientHelloHandler, SessFetchHandler, CertHandler, Advises
<1>2. CASE h \in cctx.entered
  BY <1>1, <1>2, NextCallInv
<1>3. CASE h \notin cctx.entered
  <2>1. hs.side = "client"
    BY <1>1, HookIs DEF Inv, Types, Handshake, Called
  <2>2. CASE FirstCall(h, Deciding) \/ (FirstCall(h, Advising) /\ Advises(h))
    BY <1>1, <1>3, <2>1, <2>2, FirstCallInv
  <2>3. CASE Refused
    BY <1>1, <1>3, <2>3, RefusedInv DEF Called
  <2> QED
    BY <1>1, <1>3, <2>2, <2>3
<1> QED
  BY <1>2, <1>3

\* The hook of an upstream is called for the first time
LEMMA ProxyFirstCallInv ==
    ASSUME Careful, Inv, NEW h, Called(h), h \notin cctx.entered, hs.side = "upstream",
           ProxyFirstCall(h)
    PROVE  Inv'
<1>1. /\ hs.at \in {"run", "hook"} /\ Hook = h /\ Types /\ h \in Hooks /\ h # Nil
      /\ h # "sess_store"
      /\ lua = Nil /\ cctx.armed = Nil /\ fake = {} /\ ~cctx.pool /\ ~cctx.aborted
      /\ cctx \in Context /\ req \in Request
  BY AtRun, HookIs DEF Inv, Called, Types
<1>2. PICK o \in Outcomes : LET x == [FinalizedFake(Entered(h), o) EXCEPT !.count = req.count] IN
          /\ Careful /\ req.cleanup = "request" => Ends(o)
          /\ ProxyByChunk(h, o)
          /\ cctx' = IF Ends(o) THEN Done(x) ELSE [x EXCEPT !.armed = h, !.pool = TRUE]
          /\ Returns(IF Ends(o) THEN x.code ELSE Retry)
  BY DEF ProxyFirstCall
<1> DEFINE x == [FinalizedFake(Entered(h), o) EXCEPT !.count = req.count]
           v == IF Ends(o) THEN x.code ELSE Retry
<1>3. /\ x \in Context
      /\ x.entered = cctx.entered \cup {h} /\ ~x.done
      /\ x.code = IF o = "error" THEN 0 ELSE 1
      /\ ~x.aborted /\ x.armed = Nil /\ ~x.pool /\ x.count = req.count
  <2>1. req.count \in Nat
    BY <1>1 DEF Request
  <2> DEFINE y == FinalizedFake(Entered(h), o)
  <2>2. /\ y \in Context
        /\ y.entered = cctx.entered \cup {h} /\ ~y.done
        /\ y.code = IF o = "error" THEN 0 ELSE 1
        /\ ~y.aborted /\ y.armed = Nil /\ ~y.pool
    BY <1>1, EnteredFields
  <2> HIDE DEF y
  <2> QED
    BY <2>1, <2>2 DEF y, Context
<1> HIDE DEF x
<1>4. /\ cctx' \in Context /\ cctx'.entered = x.entered /\ ~cctx'.aborted
      /\ cctx'.code = x.code /\ (cctx'.done <=> Ends(o)) /\ (cctx'.pool <=> ~Ends(o))
      /\ cctx'.armed = (IF Ends(o) THEN Nil ELSE h) /\ cctx'.count = req.count
  <2>1. CASE Ends(o)
    BY <1>2, <1>3, <2>1, DoneFields DEF x
  <2>2. CASE ~Ends(o)
    <3>1. cctx' = [x EXCEPT !.armed = h, !.pool = TRUE]
      BY <1>2, <2>2 DEF x
    <3> QED
      BY <1>1, <1>3, <2>2, <3>1 DEF Context
  <2> QED
    BY <2>1, <2>2
<1>5. /\ v \in {Retry, 0, 1}
      /\ IF Ends(o) THEN v = cctx'.code ELSE v = Retry
  <2>1. x.code \in {0, 1}
    BY <1>3 DEF Context
  <2> QED
    BY <1>4, <2>1
<1>6. Returns(v)
  BY <1>2 DEF x
<1>7. /\ lua' = IF Ends(o) THEN Nil ELSE h
      /\ fake' = {}
      /\ answer' = IF Ends(o) THEN [answer EXCEPT ![h] = o] ELSE answer
      /\ req' = [req EXCEPT !.cleanup = IF Ends(o) \/ @ # Nil THEN @ ELSE "pool"]
  BY <1>1, <1>2 DEF ProxyByChunk
<1>8. /\ req' \in Request /\ req'.count = req.count /\ req'.siblings = req.siblings
      /\ req'.ended = req.ended /\ (~Ends(o) => req'.cleanup = "pool")
  BY <1>1, <1>2, <1>7 DEF Request
<1>9. ~Ends(o) => req'.cleanup = "pool" /\ req.count <= cctx'.count
  BY <1>1, <1>4, <1>8 DEF Request
<1> HIDE DEF v
<1> QED
  BY <1>1, <1>3, <1>4, <1>5, <1>6, <1>7, <1>8, <1>9, FirstAnswerInv

LEMMA ProxyHandlerInv ==
    ASSUME Careful, Inv, ProxyVerifyHandler \/ ProxyCertHandler
    PROVE  Inv'
<1>1. PICK h \in {"proxy_verify", "proxy_cert"} :
          /\ Called(h)
          /\ \/ h \in cctx.entered /\ NextCall(h, Deciding)
             \/ h \notin cctx.entered /\ (ProxyFirstCall(h) \/ Refused)
  BY DEF ProxyVerifyHandler, ProxyCertHandler
<1>2. CASE h \in cctx.entered
  BY <1>1, <1>2, NextCallInv
<1>3. CASE h \notin cctx.entered
  <2>1. hs.side = "upstream"
    BY <1>1, HookIs DEF Inv, Called
  <2>2. CASE ProxyFirstCall(h)
    BY <1>1, <1>3, <2>1, <2>2, ProxyFirstCallInv
  <2>3. CASE Refused
    BY <1>1, <1>3, <2>3, RefusedInv DEF Called
  <2> QED
    BY <1>1, <1>3, <2>2, <2>3
<1> QED
  BY <1>2, <1>3

LEMMA PeerAnswersInv == ASSUME Inv, PeerAnswers PROVE Inv'
<1>1. /\ hs.at = "peer" /\ hs' = [hs EXCEPT !.at = "run"] /\ hs \in Handshake /\ Types
      /\ UNCHANGED <<cctx, fake, lua, answer, req>>
  BY DEF PeerAnswers, Inv, Types
<1>2. /\ hs' \in Handshake /\ hs'.side = hs.side /\ hs'.pos = hs.pos /\ hs'.at = "run"
  BY <1>1 DEF Handshake
<1>3. Types'
  BY <1>1, <1>2 DEF Types
<1>4. EnteredInTurn' /\ AnswersDecide'
  BY <1>1, <1>2 DEF Inv, EnteredInTurn, AnswersDecide
<1>5. Waits' /\ Guarded'
  BY <1>1, <1>2 DEF Inv, Waits, Guarded
<1>6. NothingOutlives'
  <2>1. TypeOK'
    BY <1>3 DEF Types, TypeOK, Handshake, Context, Request
  <2> QED
    BY <1>1, <1>2, <2>1 DEF Inv, NothingOutlives
<1> QED
  BY <1>3, <1>4, <1>5, <1>6 DEF Inv

-------------------------------------------------------------------------------
(* The Lua code that was suspended ends.                                     *)

\* The state once the Lua code of the hook has ended with o, when the pool or
\* the fake request of the hook is gone
LEMMA LuaEndedInv ==
    ASSUME Inv, lua # Nil, NEW o \in {"ok", "error"},
           cctx' \in Context, cctx'.entered = cctx.entered, ~cctx'.aborted, cctx'.done,
           cctx'.armed = Nil, ~cctx'.pool, cctx'.code = IF o = "error" THEN 0 ELSE 1,
           hs' = Posted(cctx'), lua' = Nil, fake' = {},
           answer' = [answer EXCEPT ![lua] = o],
           req' \in Request, req'.count = req.count, req'.siblings = req.siblings,
           req'.ended = req.ended
    PROVE  Inv'
<1>1. /\ hs.at = "hook" /\ lua = Hook /\ Types /\ lua \in Hooks
  BY DEF Inv, NothingOutlives, Types
<1>2. /\ hs' \in Handshake /\ hs'.side = hs.side /\ hs'.pos = hs.pos /\ hs'.at = "hook"
  BY <1>1 DEF Posted, Types, Handshake
<1>3. /\ Hook' = Hook /\ answer'[Hook] = o /\ answer' \in [Hooks -> {"ok", "error", Nil}]
      /\ \A h \in Hooks \ {Hook} : answer'[h] = answer[h]
  BY <1>1, <1>2 DEF Hook, Types
<1>4. Types'
  BY <1>1, <1>2, <1>3 DEF Types
<1>5. EnteredInTurn'
  BY <1>1, <1>2 DEF Inv, EnteredInTurn
<1>6. AnswersDecide'
  <2>1. SUFFICES ASSUME NEW n \in 1 .. (hs.pos - 1), Of(hs.side)[n] \in cctx.entered
                 PROVE  \/ answer'[Of(hs.side)[n]] = "ok"
                        \/ Advises(Of(hs.side)[n]) /\ answer'[Of(hs.side)[n]] = "error"
    BY <1>2 DEF AnswersDecide
  <2>2. Of(hs.side)[n] \in Hooks \ {Hook}
    <3>1. hs.pos \in 1 .. Len(Of(hs.side)) /\ Len(Of(hs.side)) \in Nat
      BY <1>1, HookIs
    <3>2. n \in 1 .. Len(Of(hs.side)) /\ n # hs.pos
      BY <3>1
    <3> QED
      BY <1>1, <3>2, HookIs, HookOfPlace
  <2> QED
    BY <1>3, <2>1, <2>2 DEF Inv, AnswersDecide
<1>7. Waits' /\ Guarded'
  BY <1>1, <1>2, <1>3 DEF Inv, Waits, Guarded
<1>8. NothingOutlives'
  <2>1. TypeOK'
    BY <1>4 DEF Types, TypeOK, Handshake, Context, Request
  <2> QED
    BY <1>1, <1>2, <2>1 DEF Inv, NothingOutlives
<1> QED
  BY <1>4, <1>5, <1>6, <1>7, <1>8 DEF Inv

\* A hook that is suspended
LEMMA Suspended ==
    ASSUME Inv, lua # Nil
    PROVE  /\ hs.at = "hook" /\ lua = Hook /\ lua \in Hooks /\ cctx \in Context /\ req \in Request
           /\ ~cctx.done /\ ~cctx.aborted /\ cctx.code = 1 /\ cctx.armed = lua
           /\ hs.side \in {"client", "upstream"}
           /\ lua \in {"proxy_verify", "proxy_cert"} <=> hs.side = "upstream"
           /\ hs.side = "client" => fake = {lua} /\ ~cctx.pool
           /\ hs.side = "upstream" => fake = {} /\ cctx.pool /\ req.cleanup = "pool"
                                      /\ req.count <= cctx.count
BY HookIs DEF Inv, Types, Waits, Guarded, NothingOutlives, Handshake

LEMMA FakeLuaEndsInv ==
    ASSUME Inv, ClientHelloDone \/ SessFetchDone \/ CertDone
    PROVE  Inv'
<1>1. PICK h \in {"client_hello", "sess_fetch", "cert"}, o \in {"ok", "error"} :
          /\ lua = h /\ FakeByChunk(h, o)
          /\ cctx' = Done(FinalizedFake(cctx, o)) /\ hs' = Posted(cctx')
  BY DEF ClientHelloDone, SessFetchDone, CertDone, FakeLuaEnds
<1>2. lua # Nil /\ Ends(o)
  BY <1>1, HooksAre, NilAssumption DEF Ends
<1>3. hs.side = "client"
  BY <1>1, <1>2, Suspended
<1>4. /\ cctx' \in Context /\ cctx'.entered = cctx.entered /\ ~cctx'.aborted /\ cctx'.done
      /\ cctx'.armed = Nil /\ ~cctx'.pool /\ cctx'.code = IF o = "error" THEN 0 ELSE 1
  BY <1>1, <1>2, <1>3, Suspended, FinalizedFields, DoneFields
<1>5. lua' = Nil /\ fake' = {} /\ answer' = [answer EXCEPT ![lua] = o] /\ req' = req
  BY <1>1, <1>2, <1>3, Suspended DEF FakeByChunk, FreedFake
<1>6. req \in Request
  BY DEF Inv, Types
<1> QED
  BY <1>1, <1>2, <1>4, <1>5, <1>6, LuaEndedInv

LEMMA ProxyLuaEndsInv ==
    ASSUME Inv, ProxyVerifyDone \/ ProxyCertDone
    PROVE  Inv'
<1>1. PICK h \in {"proxy_verify", "proxy_cert"}, o \in {"ok", "error"} :
          /\ lua = h /\ lua' = Nil /\ answer' = [answer EXCEPT ![h] = o] /\ fake' = fake
          /\ IF cctx.pool THEN Intercepted(cctx, o) /\ hs' = Posted(cctx')
             ELSE req' = [req EXCEPT !.ended = TRUE] /\ UNCHANGED <<cctx, hs>>
  BY DEF ProxyVerifyDone, ProxyCertDone, ProxyLuaEnds
<1>2. lua # Nil
  BY <1>1, HooksAre, NilAssumption
<1>3. hs.side = "upstream" /\ cctx.pool /\ ~(req.count > cctx.count)
  BY <1>1, <1>2, Suspended DEF Request, Context
<1> DEFINE y == IF o = "error" THEN [cctx EXCEPT !.code = 0] ELSE cctx
<1>4. /\ y \in Context /\ ~y.aborted /\ y.entered = cctx.entered
      /\ y.code = IF o = "error" THEN 0 ELSE 1
  BY <1>2, Suspended DEF Context
<1>5. /\ cctx' = [Done(y) EXCEPT !.pool = FALSE]
      /\ req' = [req EXCEPT !.cleanup = IF @ = "pool" THEN Nil ELSE @]
      /\ hs' = Posted(cctx')
  BY <1>1, <1>3 DEF Intercepted
<1> HIDE DEF y
<1>6. /\ cctx' \in Context /\ cctx'.entered = cctx.entered /\ ~cctx'.aborted /\ cctx'.done
      /\ cctx'.armed = Nil /\ ~cctx'.pool /\ cctx'.code = IF o = "error" THEN 0 ELSE 1
  <2>1. /\ Done(y) \in Context /\ Done(y).done /\ Done(y).armed = Nil
        /\ Done(y).entered = y.entered /\ Done(y).code = y.code /\ ~Done(y).aborted
    BY <1>4, DoneFields
  <2> QED
    BY <1>4, <1>5, <2>1 DEF Context
<1>7. /\ req' \in Request /\ req'.count = req.count /\ req'.siblings = req.siblings
      /\ req'.ended = req.ended
  BY <1>2, <1>5, Suspended DEF Request
<1>8. fake' = {}
  BY <1>1, <1>2, <1>3, Suspended
<1> QED
  BY <1>1, <1>2, <1>5, <1>6, <1>7, <1>8, LuaEndedInv

\* Other subrequests take and drop their references to the request
LEMMA SiblingInv == ASSUME Careful, Inv, SiblingBegins \/ SiblingEnds PROVE Inv'
<1>1. /\ Types /\ req \in Request /\ req.count \in Nat /\ req.siblings \in Nat
      /\ UNCHANGED <<hs, cctx, fake, lua, answer>>
      /\ hs.side = "upstream" => ~req.ended /\ req.count = 1 + req.siblings
  BY DEF Inv, Types, Request, SiblingBegins, SiblingEnds, NothingOutlives
<1>2. PICK d \in {1, -1} :
          /\ req' = [req EXCEPT !.siblings = @ + d, !.count = @ + d]
          /\ d = 1 => hs.side = "upstream" /\ lua = Nil
          /\ d = -1 => req.siblings > 0
  <2>1. CASE SiblingBegins
    <3>1. /\ req' = [req EXCEPT !.siblings = @ + 1, !.count = @ + 1]
          /\ hs.side = "upstream" /\ lua = Nil
      BY <2>1 DEF SiblingBegins
    <3> QED
      BY <3>1
  <2>2. CASE SiblingEnds
    <3>1. /\ req' = [req EXCEPT !.siblings = @ - 1, !.count = @ - 1]
          /\ req.siblings > 0
      BY <2>2 DEF SiblingEnds
    <3>2. req' = [req EXCEPT !.siblings = @ + (-1), !.count = @ + (-1)]
      BY <1>1, <3>1
    <3> QED
      BY <3>1, <3>2
  <2> QED
    BY <2>1, <2>2
<1>3. req.siblings + d \in Nat
  BY <1>1, <1>2
<1>4. CASE hs.side = "upstream"
  <2>1. /\ req' \in Request /\ req'.count = req.count + d /\ req'.siblings = req.siblings + d
        /\ req'.ended = req.ended /\ req'.cleanup = req.cleanup
    <3>1. req.count + d \in Nat
      BY <1>1, <1>3, <1>4
    <3> QED
      BY <1>1, <1>2, <1>3, <3>1 DEF Request
  <2>2. Types'
    BY <1>1, <2>1 DEF Types
  <2>3. Waits' /\ EnteredInTurn' /\ AnswersDecide'
    BY <1>1 DEF Inv, Waits, EnteredInTurn, AnswersDecide, Hook
  <2>4. Guarded'
    <3>1. CASE lua = Nil
      BY <1>1, <1>4, <3>1 DEF Guarded
    <3>2. CASE lua # Nil
      <4>1. d = -1 /\ req.cleanup = "pool" /\ req.count <= cctx.count /\ cctx.count \in Nat
        BY <1>2, <1>4, <3>2 DEF Inv, Guarded, Types, Context
      <4> QED
        BY <1>1, <1>4, <2>1, <4>1 DEF Guarded, Request
    <3> QED
      BY <3>1, <3>2
  <2>5. NothingOutlives'
    <3>1. TypeOK'
      BY <2>2 DEF Types, TypeOK, Handshake, Context, Request
    <3>2. ~req'.ended /\ req'.count = 1 + req'.siblings
      BY <1>1, <1>2, <1>4, <2>1
    <3> QED
      BY <1>1, <3>1, <3>2 DEF Inv, NothingOutlives, Hook
  <2> QED
    BY <2>2, <2>3, <2>4, <2>5 DEF Inv
<1> QED
  BY <1>1, <1>2, <1>4 DEF Inv, Guarded, Types, Handshake

-------------------------------------------------------------------------------
(* The connection is closed.                                                 *)

LEMMA ClosesInv == ASSUME Inv, Closes PROVE Inv'
<1>1. /\ hs.at \in {"peer", "hook", "failed"} /\ hs' = [hs EXCEPT !.at = "closed", !.posted = FALSE]
      /\ hs \in Handshake /\ cctx \in Context /\ req \in Request /\ Types /\ answer' = answer
  BY DEF Closes, Inv, Types
<1>2. /\ hs' \in Handshake /\ hs'.side = hs.side /\ hs'.pos = hs.pos /\ hs'.at = "closed"
  BY <1>1 DEF Handshake
<1>3. /\ cctx' \in Context /\ cctx'.entered = cctx.entered /\ ~cctx'.pool
      /\ fake' = {} /\ lua' = Nil
      /\ req' \in Request /\ req'.count = req.count /\ req'.siblings = req.siblings
      /\ req'.ended = req.ended
  <2>1. CASE lua = Nil
    <3>1. cctx.armed = Nil
      BY <1>1, <2>1 DEF Inv, NothingOutlives
    <3>2. UNCHANGED <<cctx, fake, lua, req>>
      BY <3>1 DEF Closes
    <3> QED
      BY <1>1, <2>1, <3>2 DEF Inv, NothingOutlives
  <2>2. CASE lua # Nil
    <3>1. cctx.armed # Nil /\ ~cctx.done
      BY <2>2, Suspended
    <3>2. CASE hs.side = "client"
      <4>1. FakeAborted
        BY <3>1, <3>2 DEF Closes
      <4> QED
        BY <1>1, <2>2, <3>2, <4>1, Suspended DEF FakeAborted, FreedFake, Context
    <3>3. CASE hs.side = "upstream"
      <4>1. ProxyAborted
        BY <3>1, <3>3 DEF Closes
      <4>2. /\ cctx' = [cctx EXCEPT !.aborted = TRUE, !.code = 0, !.pool = FALSE]
            /\ lua' = KillsWithPool /\ fake' = fake
            /\ req' = [req EXCEPT !.cleanup = IF @ = "pool" THEN Nil ELSE @]
        BY <4>1 DEF ProxyAborted
      <4>3. cctx' \in Context /\ cctx'.entered = cctx.entered /\ ~cctx'.pool
        BY <1>1, <4>2 DEF Context
      <4>4. fake' = {} /\ lua' = Nil
        BY <2>2, <3>3, <4>2, Suspended DEF KillsWithPool
      <4>5. /\ req' \in Request /\ req'.count = req.count /\ req'.siblings = req.siblings
            /\ req'.ended = req.ended
        BY <1>1, <4>2 DEF Request
      <4> QED
        BY <4>3, <4>4, <4>5
    <3> QED
      BY <1>1, <3>2, <3>3 DEF Handshake
  <2> QED
    BY <2>1, <2>2
<1>4. Types'
  BY <1>1, <1>2, <1>3 DEF Types
<1>5. EnteredInTurn' /\ AnswersDecide'
  BY <1>1, <1>2, <1>3 DEF Inv, EnteredInTurn, AnswersDecide
<1>6. Waits' /\ Guarded'
  BY <1>2, <1>3 DEF Inv, Waits, Guarded
<1>7. NothingOutlives'
  <2>1. TypeOK'
    BY <1>4 DEF Types, TypeOK, Handshake, Context, Request
  <2> QED
    BY <1>2, <1>3, <2>1 DEF Inv, NothingOutlives
<1> QED
  BY <1>4, <1>5, <1>6, <1>7 DEF Inv

\* A new handshake, with nothing suspended
Fresh ==
    /\ hs \in Handshake /\ hs.pos = 1 /\ hs.at = "peer" /\ cctx = NoCctx
    /\ fake = {} /\ lua = Nil /\ answer = [h \in Hooks |-> Nil] /\ req \in Request
    /\ IF hs.side = "upstream" THEN ~req.ended /\ req.count = 1 + req.siblings
       ELSE req.siblings = 0

LEMMA FreshInv == Fresh => Inv
<1> SUFFICES ASSUME Fresh PROVE Inv
  OBVIOUS
<1>1. /\ hs \in Handshake /\ hs.pos = 1 /\ hs.at = "peer" /\ hs.side \in {"client", "upstream"}
  BY DEF Fresh, Handshake
<1>2. /\ cctx \in Context /\ cctx.entered = {} /\ ~cctx.aborted /\ ~cctx.pool /\ cctx.armed = Nil
      /\ fake = {} /\ lua = Nil /\ answer = [h \in Hooks |-> Nil] /\ req \in Request
  BY DEF Fresh, NoCctx, Context
<1>3. Len(Of(hs.side)) \in Nat /\ Len(Of(hs.side)) >= 1
  BY <1>1, LengthOf
<1>4. Types
  BY <1>1, <1>2, <1>3 DEF Types
<1>5. Waits /\ EnteredInTurn /\ Guarded /\ AnswersDecide
  BY <1>1, <1>2 DEF Waits, EnteredInTurn, Guarded, AnswersDecide, Fresh, Handshake
<1>6. NothingOutlives
  <2>1. TypeOK
    BY <1>4 DEF Types, TypeOK, Handshake, Context, Request
  <2> QED
    BY <1>1, <1>2, <2>1 DEF NothingOutlives, Fresh
<1> QED
  BY <1>4, <1>5, <1>6 DEF Inv

LEMMA NextUpstreamInv == ASSUME Inv, NextUpstream PROVE Fresh'
<1>1. /\ hs' = [NewHandshake("upstream") EXCEPT !.tries = hs.tries + 1]
      /\ cctx' = NoCctx /\ answer' = [h \in Hooks |-> Nil] /\ UNCHANGED <<fake, lua, req>>
      /\ hs.at = "closed" /\ hs.side = "upstream"
  BY DEF NextUpstream
<1>2. /\ lua = Nil /\ fake = {} /\ req \in Request /\ hs.tries + 1 \in Nat
      /\ ~req.ended /\ req.count = 1 + req.siblings
  BY <1>1 DEF Inv, NothingOutlives, Types, Handshake
<1>3. hs' = [side |-> "upstream", pos |-> 1, at |-> "peer", posted |-> FALSE, tries |-> hs.tries + 1]
  BY <1>1 DEF NewHandshake
<1>4. hs' \in Handshake /\ hs'.pos = 1 /\ hs'.at = "peer" /\ hs'.side = "upstream"
  BY <1>2, <1>3 DEF Handshake
<1> QED
  BY <1>1, <1>2, <1>4 DEF Fresh

LEMMA InitFresh == Init => Fresh
<1> SUFFICES ASSUME Init PROVE Fresh
  OBVIOUS
<1>1. PICK side \in {"client", "upstream"} : hs = NewHandshake(side)
  BY TlsAssumption DEF Init
<1>2. hs \in Handshake /\ hs.pos = 1 /\ hs.at = "peer"
  BY <1>1 DEF NewHandshake, Handshake
<1>3. req \in Request /\ ~req.ended /\ req.count = 1 + req.siblings /\ req.siblings = 0
  BY DEF Init, Request
<1> QED
  BY <1>2, <1>3 DEF Init, Fresh

LEMMA StutterInv == ASSUME Inv, UNCHANGED vars PROVE Inv'
BY DEF vars, Inv, Types, Waits, EnteredInTurn, Guarded, AnswersDecide, NothingOutlives, TypeOK, Hook

LEMMA NextInv == ASSUME Careful PROVE Inv /\ [Next]_vars => Inv' \/ Fresh'
<1> SUFFICES ASSUME Inv, [Next]_vars PROVE Inv' \/ Fresh'
  OBVIOUS
<1>1. CASE Skips \/ PeerAnswers
  BY <1>1, SkipsInv, PeerAnswersInv
<1>2. CASE Handler
  BY <1>2, ClientHandlerInv, SessStoreInv, ProxyHandlerInv DEF Handler
<1>3. CASE LuaEnds
  BY <1>3, FakeLuaEndsInv, ProxyLuaEndsInv DEF LuaEnds
<1>4. CASE SiblingBegins \/ SiblingEnds
  BY <1>4, SiblingInv
<1>5. CASE Closes \/ NextUpstream
  BY <1>5, ClosesInv, NextUpstreamInv
<1>6. CASE Stops \/ UNCHANGED vars
  BY <1>6, StutterInv DEF Stops
<1> QED
  BY <1>1, <1>2, <1>3, <1>4, <1>5, <1>6 DEF Next

-------------------------------------------------------------------------------

\* Where the code copes with the request, the handshake never goes past a hook
\* but with the answer of the Lua code of that hook, for any number of
\* connections and of subrequests beside.
THEOREM AnswersCorrect ==
    ASSUME Careful
    PROVE  Spec => []AnswersDecide
<1>1. Inv => AnswersDecide
  BY DEF Inv
<1> QED
  BY <1>1, InitFresh, FreshInv, NextInv, PTL DEF Spec

\* And the coroutine, the fake request or the pool of a hook, and the handler
\* that aborts it, are there exactly while the handshake waits for the hook.
THEOREM OutlivesCorrect ==
    ASSUME Careful
    PROVE  Spec => []NothingOutlives
<1>1. Inv => NothingOutlives
  BY DEF Inv
<1> QED
  BY <1>1, InitFresh, FreshInv, NextInv, PTL DEF Spec
===============================================================================
