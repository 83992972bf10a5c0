-------------------------------- MODULE TlsHooks --------------------------------
(***************************************************************************)
(* The Lua handlers that take part in a TLS handshake: of a client with    *)
(* the server (ssl_client_hello_by_lua, ssl_session_fetch_by_lua,          *)
(* ssl_certificate_by_lua, ssl_session_store_by_lua), which run in fake    *)
(* requests, and of a proxied request with its upstream                    *)
(* (proxy_ssl_verify_by_lua, proxy_ssl_certificate_by_lua), which run in   *)
(* the request itself.  OpenSSL calls a hook; when its Lua code suspends,  *)
(* the handshake stops and OpenSSL calls the hook again, whenever the      *)
(* connection has an event, until the hook has an answer.                  *)
(*                                                                         *)
(* OpenSSL and nginx are external: which hooks a handshake calls, when it  *)
(* waits for the peer, and when its connection is closed.  A Lua handler   *)
(* suspends any number of times; what it does to the certificates is left  *)
(* out.                                                                    *)
(*                                                                         *)
(* Careful: in a request that has run Lua code before it is proxied, and   *)
(* while other subrequests of its main request begin, the hooks of the     *)
(* upstream do not suspend.                                                *)
(***************************************************************************)
EXTENDS Integers, Sequences, SequencesExt, FiniteSets

CONSTANTS Sides,         \* "client" and "upstream" connections
          MaxConnections,\* bound: upstream connections a request tries
          Siblings,      \* bound: subrequests of the same request, at one time
          Careful,       \* TRUE: what the code does not cope with is left out
          Nil

ASSUME TlsAssumption ==
    /\ Sides \subseteq {"client", "upstream"} /\ Careful \in BOOLEAN
    /\ MaxConnections \in Nat \ {0} /\ Siblings \in Nat

VARIABLES hs,       \* the handshake of the current connection
          cctx,     \* ngx_http_lua_ssl_ctx_t of the connection
          fake,     \* the hooks whose fake request exists
          lua,      \* the hook whose Lua code is suspended, Nil
          answer,   \* what the Lua code of a hook has answered, per connection
          req       \* the proxied request

vars == <<hs, cctx, fake, lua, answer, req>>

ClientHooks == <<"client_hello", "sess_fetch", "cert", "sess_store">>
UpstreamHooks == <<"proxy_verify", "proxy_cert">>
Hooks == ToSet(ClientHooks) \cup ToSet(UpstreamHooks)
ASSUME NilAssumption == Nil \notin Hooks \cup {"ok", "error", "pool", "request"}

Of(side) == IF side = "client" THEN ClientHooks ELSE UpstreamHooks

\* The hook whose result does not decide the handshake.
Advises(h) == h \in {"sess_fetch", "sess_store"}

\* ngx_http_lua_ssl_ctx_t, zeroed.  armed: the hook whose handler `aborted`
\* is in the one cleanup slot of the connection.
NoCctx == [entered |-> {}, done |-> FALSE, aborted |-> FALSE, code |-> 0, armed |-> Nil,
           pool |-> FALSE, count |-> 0]

NewHandshake(side) == [side |-> side, pos |-> 1, at |-> "peer", posted |-> FALSE, tries |-> 1]

Init == /\ \E side \in Sides : hs = NewHandshake(side)
        /\ cctx = NoCctx /\ fake = {} /\ lua = Nil
        /\ answer = [h \in Hooks |-> Nil]
        /\ \E cleanup \in {Nil, "request"} :   \* "request": it has run Lua code before
              req = [count |-> 1, siblings |-> 0, ended |-> FALSE, cleanup |-> cleanup]

Hook == Of(hs.side)[hs.pos]

-------------------------------------------------------------------------------
(* What OpenSSL does with the value that a hook returns: the handshake goes  *)
(* on, to the next hook or to wait for the peer, or fails, or stops.         *)

Goes == [hs EXCEPT !.pos = @ + 1]

Retry == -1

\* external
Returns(value) ==
    \/ value = Retry /\ hs' = [hs EXCEPT !.at = "hook", !.posted = FALSE]
    \/ value = 0 /\ hs' = [hs EXCEPT !.at = "failed", !.posted = FALSE]
    \/ /\ value = 1 /\ hs.pos = Len(Of(hs.side))
       /\ hs' = [Goes EXCEPT !.at = "over", !.posted = FALSE]
    \/ /\ value = 1 /\ hs.pos # Len(Of(hs.side))
       /\ \E next \in {"run", "peer"} : hs' = [Goes EXCEPT !.at = next, !.posted = FALSE]

\* external: the hook is not configured or not called in this handshake, such
\* as the two for sessions with TLS 1.3.
Skips == /\ hs.at = "run" /\ Returns(1)
         /\ UNCHANGED <<cctx, fake, lua, answer, req>>

PeerAnswers == /\ hs.at = "peer" /\ hs' = [hs EXCEPT !.at = "run"]
               /\ UNCHANGED <<cctx, fake, lua, answer, req>>

-------------------------------------------------------------------------------
(* The hooks.  An outcome is what the Lua code does until control returns:   *)
(* it ends ("ok"), fails or exits with an error ("error"), or suspends       *)
(* ("yields").                                                               *)

Outcomes == {"ok", "error", "yields"}
Ends(o) == o # "yields"

\* done is left from the hook before
BadEntered(h) == [cctx EXCEPT !.entered = @ \cup {h}, !.code = 1]

\* What the handler of hook h stores before it runs the Lua code first.
Entered(h) == [cctx EXCEPT !.entered = @ \cup {h}, !.code = 1, !.done = FALSE]

\* ngx_http_lua_ssl_cert_done
Done(x) == IF x.aborted THEN x ELSE [x EXCEPT !.done = TRUE, !.armed = Nil]

\* ngx_http_lua_finalize_fake_request: an error is the answer of whatever hook
\* the connection is in.
FinalizedFake(x, o) == IF o = "error" THEN [x EXCEPT !.code = 0] ELSE x

\* ngx_http_lua_create_fake_connection, ngx_http_lua_create_fake_request.
CreatedFake(h) == fake \cup {h}

\* ngx_http_lua_free_fake_request, with its coroutines and its pool.
FreedFake(h) == fake \ {h}

\* ngx_http_lua_ssl_cert_by_chunk: the request is freed when the code ends.
FakeByChunk(h, o) ==
    /\ fake' = IF Ends(o) THEN FreedFake(h) ELSE CreatedFake(h)
    /\ lua' = IF Ends(o) THEN Nil ELSE h
    /\ answer' = IF Ends(o) THEN [answer EXCEPT ![h] = o] ELSE answer
    /\ UNCHANGED req

\* ngx_http_lua_ssl_sess_store_by_chunk: the code cannot suspend.
StoreByChunk(o) ==
    /\ o # "yields"
    /\ answer' = [answer EXCEPT !["sess_store"] = o]
    /\ UNCHANGED <<fake, lua, req>>

\* With no memory, or no such handler, the hook is not entered; and no Lua code
\* runs when the default verification of an upstream's certificate, which comes
\* first, fails (proxy_ssl_verifyby.c:275): the handshake fails with it.
Refused == Returns(0) /\ UNCHANGED <<cctx, fake, lua, answer, req>>

\* The hook of a client's handshake is called for the first time.
FirstCall(h, value) == \E o \in Outcomes : LET x == FinalizedFake(Entered(h), o) IN
    /\ FakeByChunk(h, o)
    /\ cctx' = IF Ends(o) THEN Done(x) ELSE [x EXCEPT !.armed = h]
    /\ Returns(IF Ends(o) THEN value[x.code] ELSE Retry)

\* It is called again.
NextCall(h, value) ==
    /\ Returns(IF cctx.done THEN value[cctx.code] ELSE Retry)
    /\ UNCHANGED <<cctx, fake, lua, answer, req>>

Deciding == [code \in {0, 1} |-> code]
Advising == [code \in {0, 1} |-> 1]

\* Called by the handshake as it runs, or again by an event of the connection
\* while it waits for the hook.
Called(h) == hs.at \in {"run", "hook"} /\ hs.pos <= Len(Of(hs.side)) /\ Hook = h

ClientHelloHandler ==
    LET h == "client_hello" IN
    Called(h) /\ IF h \in cctx.entered THEN NextCall(h, Deciding)
                 ELSE FirstCall(h, Deciding) \/ Refused

SessFetchHandler ==
    LET h == "sess_fetch" IN
    Called(h) /\ IF h \in cctx.entered THEN NextCall(h, Advising) ELSE FirstCall(h, Advising)

CertHandler ==
    LET h == "cert" IN
    Called(h) /\ IF h \in cctx.entered THEN NextCall(h, Deciding)
                 ELSE FirstCall(h, Deciding) \/ Refused

SessStoreHandler ==
    /\ Called("sess_store")
    /\ \E o \in Outcomes : StoreByChunk(o)
    /\ cctx' = [cctx EXCEPT !.done = TRUE]
    /\ Returns(1)

-------------------------------------------------------------------------------
(* The hooks of a proxied request, which run in the request.                 *)

\* What becomes of the coroutine when the pool of the hook is destroyed.
KillsWithPool == IF req.cleanup = "pool" THEN Nil ELSE lua

\* ngx_http_lua_finalize_request, as it is called in a hook: a reference that
\* was taken while the hook runs is dropped, the last one ends the hook.
Intercepted(x, o) ==
    LET y == IF o = "error" THEN [x EXCEPT !.code = 0] ELSE x IN
    IF req.count > x.count
    THEN cctx' = y /\ req' = [req EXCEPT !.count = @ - 1]
    ELSE /\ cctx' = [Done(y) EXCEPT !.pool = FALSE]
         /\ req' = [req EXCEPT !.cleanup = IF @ = "pool" THEN Nil ELSE @]

\* ngx_http_lua_proxy_ssl_verify_by_chunk.  A suspension takes a reference
\* and drops it at once.  The cleanup handler of the coroutines belongs to
\* the pool of the hook unless the request has one already.
ProxyByChunk(h, o) ==
    /\ lua' = IF Ends(o) THEN Nil ELSE h
    /\ answer' = IF Ends(o) THEN [answer EXCEPT ![h] = o] ELSE answer
    /\ req' = [req EXCEPT !.cleanup = IF Ends(o) \/ @ # Nil THEN @ ELSE "pool"]
    /\ UNCHANGED fake

ProxyFirstCall(h) == \E o \in Outcomes :
    LET x == [FinalizedFake(Entered(h), o) EXCEPT !.count = req.count] IN
    /\ Careful /\ req.cleanup = "request" => Ends(o)
    /\ ProxyByChunk(h, o)
    /\ cctx' = IF Ends(o) THEN Done(x) ELSE [x EXCEPT !.armed = h, !.pool = TRUE]
    /\ Returns(IF Ends(o) THEN x.code ELSE Retry)

ProxyVerifyHandler ==
    LET h == "proxy_verify" IN
    Called(h) /\ IF h \in cctx.entered THEN NextCall(h, Deciding)
                 ELSE ProxyFirstCall(h) \/ Refused

ProxyCertHandler ==
    LET h == "proxy_cert" IN
    Called(h) /\ IF h \in cctx.entered THEN NextCall(h, Deciding)
                 ELSE ProxyFirstCall(h) \/ Refused

-------------------------------------------------------------------------------
(* The Lua code that was suspended ends.                                     *)

Quiet == hs.at \notin {"run", "failed"}

\* the connection is not told
BadPosted(x) == hs

\* ngx_http_lua_proxy_ssl_verify_done: the connection is given an event.
Posted(x) == IF x.done THEN [hs EXCEPT !.posted = TRUE] ELSE hs

FakeLuaEnds(h) == \E o \in {"ok", "error"} :
    /\ Quiet /\ lua = h
    /\ FakeByChunk(h, o)
    /\ cctx' = Done(FinalizedFake(cctx, o))
    /\ hs' = Posted(cctx')

ClientHelloDone == FakeLuaEnds("client_hello")
SessFetchDone == FakeLuaEnds("sess_fetch")
CertDone == FakeLuaEnds("cert")

\* Of a hook whose connection is gone: the request itself is finalized.
ProxyLuaEnds(h) == \E o \in {"ok", "error"} :
    /\ Quiet /\ lua = h
    /\ lua' = Nil
    /\ answer' = [answer EXCEPT ![h] = o]
    /\ IF cctx.pool THEN Intercepted(cctx, o) /\ hs' = Posted(cctx')
       ELSE req' = [req EXCEPT !.ended = TRUE] /\ UNCHANGED <<cctx, hs>>
    /\ UNCHANGED fake

ProxyVerifyDone == ProxyLuaEnds("proxy_verify")
ProxyCertDone == ProxyLuaEnds("proxy_cert")

LuaEnds == ClientHelloDone \/ SessFetchDone \/ CertDone \/ ProxyVerifyDone \/ ProxyCertDone

\* A subrequest of the same request begins or ends in the meantime.
SiblingBegins == /\ Quiet /\ hs.side = "upstream" /\ req.siblings < Siblings
                 /\ Careful => lua = Nil
                 /\ req' = [req EXCEPT !.siblings = @ + 1, !.count = @ + 1]
                 /\ UNCHANGED <<hs, cctx, fake, lua, answer>>

SiblingEnds == /\ Quiet /\ req.siblings > 0
               /\ req' = [req EXCEPT !.siblings = @ - 1, !.count = @ - 1]
               /\ UNCHANGED <<hs, cctx, fake, lua, answer>>

-------------------------------------------------------------------------------
(* The connection is closed: the handshake failed or timed out, or the peer  *)
(* or the request is gone.                                                   *)

\* the fake request is not finalized
BadFakeAborted == cctx' = [cctx EXCEPT !.aborted = TRUE] /\ UNCHANGED <<fake, lua, req>>

\* ngx_http_lua_ssl_cert_aborted
FakeAborted ==
    /\ cctx' = [cctx EXCEPT !.aborted = TRUE]
    /\ fake' = FreedFake(cctx.armed) /\ lua' = Nil
    /\ UNCHANGED req

\* ngx_http_lua_proxy_ssl_verify_aborted
ProxyAborted ==
    /\ cctx' = [cctx EXCEPT !.aborted = TRUE, !.code = 0, !.pool = FALSE]
    /\ lua' = KillsWithPool
    /\ req' = [req EXCEPT !.cleanup = IF @ = "pool" THEN Nil ELSE @]
    /\ UNCHANGED fake

Closes == /\ hs.at \in {"peer", "hook", "failed"}
          /\ hs' = [hs EXCEPT !.at = "closed", !.posted = FALSE]
          /\ IF cctx.armed = Nil \/ cctx.done THEN UNCHANGED <<cctx, fake, lua, req>>
             ELSE IF hs.side = "client" THEN FakeAborted ELSE ProxyAborted
          /\ UNCHANGED answer

\* external: ngx_http_upstream_next
NextUpstream == /\ hs.at = "closed" /\ hs.side = "upstream" /\ ~req.ended
                /\ hs.tries < MaxConnections
                /\ hs' = [NewHandshake("upstream") EXCEPT !.tries = hs.tries + 1]
                /\ cctx' = NoCctx /\ answer' = [h \in Hooks |-> Nil]
                /\ UNCHANGED <<fake, lua, req>>

Stops == hs.at \in {"over", "closed"} /\ lua = Nil /\ UNCHANGED vars

Handler == \/ ClientHelloHandler \/ SessFetchHandler \/ CertHandler \/ SessStoreHandler
           \/ ProxyVerifyHandler \/ ProxyCertHandler

Next == \/ Skips \/ PeerAnswers \/ Handler \/ LuaEnds
        \/ SiblingBegins \/ SiblingEnds \/ Closes \/ NextUpstream \/ Stops

Spec == Init /\ [][Next]_vars

\* Lua code that is suspended ends at last, and an event that was posted is
\* handled.  Nothing is assumed of the peer or of a timer.
Fairness == /\ WF_vars(LuaEnds)
            /\ WF_vars(hs.posted /\ Handler)
            /\ WF_vars(hs.at = "run" /\ (Handler \/ Skips))
FairSpec == Spec /\ Fairness

-------------------------------------------------------------------------------
(* Properties.                                                               *)

TypeOK ==
    /\ hs.side \in {"client", "upstream"} /\ hs.pos \in 1..5
    /\ hs.at \in {"run", "peer", "hook", "failed", "over", "closed"}
    /\ cctx.entered \subseteq Hooks /\ cctx.armed \in Hooks \cup {Nil} /\ cctx.code \in {0, 1}
    /\ fake \subseteq Hooks /\ lua \in Hooks \cup {Nil}
    /\ req.count \in Nat

\* The handshake goes past a hook that was called only with the answer of the
\* Lua code of that hook, never with the one of the hook before: it waits
\* until the code has ended, and it ends when the code has failed.
AnswersDecide ==
    \A n \in 1..(hs.pos - 1) : LET h == Of(hs.side)[n] IN
        h \in cctx.entered => answer[h] = "ok" \/ (Advises(h) /\ answer[h] = "error")

\* A hook lasts as long as the handshake waits for it.  Its coroutine, its
\* fake request, or its pool, and the handler that aborts it exist exactly
\* then: none is left when the connection is closed, and none is touched after
\* that.  The request that is proxied is ended by its upstream only.
NothingOutlives ==
    /\ TypeOK
    /\ lua # Nil => hs.at = "hook" /\ lua = Hook
    /\ hs.at = "hook" => (lua # Nil <=> ~cctx.done)
    /\ fake = IF hs.side = "client" /\ lua # Nil THEN {lua} ELSE {}
    /\ hs.at # "closed" => cctx.armed = lua
    /\ cctx.pool <=> (hs.side = "upstream" /\ lua # Nil)
    /\ hs.side = "upstream" => ~req.ended /\ req.count = 1 + req.siblings

\* A handshake that waits for a hook goes on when the Lua code has ended: it
\* does not need another event of its connection, nor a timeout.
HookEnds == (hs.at = "hook") ~> (hs.at # "hook")

===============================================================================
