--------------------------------- MODULE Phases ---------------------------------
(***************************************************************************)
(* One request, or one subrequest of ngx.location.capture, on its way      *)
(* through the phases of nginx with the Lua handlers of each               *)
(* (server_rewrite_by_lua to log_by_lua): when a handler runs, suspends,   *)
(* is entered again, waits for the request body, ends the request with     *)
(* ngx.exit or ngx.redirect, or sends it elsewhere with ngx.exec; what     *)
(* each value that a handler returns makes of the request; and who holds a *)
(* reference to it (r->main->count).                                       *)
(*                                                                         *)
(* The phase engine, the other module of each phase, the reading of the    *)
(* body and the finalization are external (nginx).  The Lua code of a      *)
(* handler is any sequence of the calls below; threads within it are the   *)
(* subject of LightThreads.                                                *)
(***************************************************************************)
EXTENDS Output

CONSTANTS Kinds,      \* the requests: what a run starts with
          MaxPrints,  \* bound: calls of ngx.print with data
          MaxPasses,  \* bound: walks through the phases, after ngx.exec or a rewrite
          Codes,      \* the arguments of ngx.exit
          Careful     \* no Lua code calls ngx.exit(ngx.DECLINED) once it has begun a response

VARIABLES rq,    \* the request and its way through the engine
          resp,  \* the response, see Output
          moved  \* the phases at whose end the worker has put the Lua handler

vars == <<rq, resp, moved>>

Phases == <<"server_rewrite", "rewrite", "access", "precontent", "content">>
Movable == {"rewrite", "access", "precontent"}

ASSUME PhasesAssumption ==
    /\ MaxPrints \in Nat /\ MaxPasses \in Nat \ {0}
    /\ Codes \subseteq {"ok", "200", "special", "error", "close", "declined"} /\ Careful \in BOOLEAN
    /\ \A k \in Kinds : k.has \subseteq ToSet(Phases)

\* The handlers of a phase; "other" is that of another module.
Handlers(p) == IF p \notin Movable THEN <<"lua">>
               ELSE IF p \in moved THEN <<"other", "lua">> ELSE <<"lua", "other">>

\* The fields of ngx_http_lua_ctx_t about the phases, zeroed.
FreshLua == [entered |-> {}, waitingBody |-> FALSE, bodyDone |-> FALSE, fresh |-> TRUE]

\* at: where control is.  frames: the calls of the phase engine that ngx.exec
\* has nested in a Lua handler.  ran, cut: history, the handlers that ran in this
\* pass, and whether the request was cut off (terminated).
NewRequest(kind) ==
    [phase |-> 1, pos |-> 1, at |-> "engine", count |-> IF kind.captured THEN 2 ELSE 1,
     frames |-> 0, uriChanged |-> FALSE, haveBody |-> FALSE, cut |-> FALSE, logged |-> 0,
     pass |-> 1, prints |-> 0, ran |-> <<>>, lua |-> FreshLua, kind |-> kind]

Init == \E kind \in Kinds : /\ rq = NewRequest(kind) /\ resp = NewResponse(kind)
                            /\ moved \in {{}, Movable}

Phase(q) == Phases[q.phase]
Here == Phase(rq)
Handler == Handlers(Here)[rq.pos]
HasLua(q) == Phase(q) \in q.kind.has
InContent(q) == "content" \in q.lua.entered

-------------------------------------------------------------------------------
(* The end of a request.                                                     *)

\* external: ngx_http_close_request; the last reference frees it, after the
\* log phase.
Dropped(q) == [q EXCEPT !.count = @ - 1, !.at = IF q.count = 1 THEN "log" ELSE @]

Pair(q, o) == [q |-> q, o |-> o]
Cut(q) == [q EXCEPT !.at = "terminated", !.cut = TRUE]
Terminated(q, o) == {Pair(Cut(q), o)}

\* external: a response that is complete is waited for until it is sent.
Finished(q, o) ==
    IF o.error THEN Terminated(q, o)
    ELSE IF o.buffered THEN {Pair([q EXCEPT !.at = "draining"], o)}
    ELSE {Pair(Dropped([q EXCEPT !.at = "finished"]), o)}

\* ngx_http_lua_post_subrequest: what has gone wrong in a captured subrequest
\* is told to the parent, and is not answered by nginx; it is forgotten when the
\* Lua code has set a header of the response (ctx->headers_set).
PostSubrequest(o, rc) ==
    Ok(o) \cup IF rc \notin {"error", "special"} THEN {Result(o, rc)}
               ELSE IF rc = "error" /\ o.status THEN {}
               ELSE SendHeaderIfNeeded(o)

\* external: ngx_http_finalize_request
Finalized(q, o, rc) ==
    IF rc = "done" THEN {Pair(Dropped(q), o)}
    ELSE UNION {IF x.rc \in {"error", "close"} THEN Terminated(q, x.o) ELSE Finished(q, x.o) :
                   x \in IF o.captured THEN PostSubrequest(o, rc)
                         ELSE IF rc = "special" THEN Respond(o) ELSE {Result(o, rc)}}

\* ngx_http_lua_finalize_request, for a request that has no proxy_ssl hook.
FinalizeRequest(q, o, rc) == Finalized(q, o, rc)

\* ngx_http_lua_log_handler, log_by_chunk: it runs in a context of its own
\* when there is none; its errors do not matter.
LogHandler(q) == [q EXCEPT !.logged = @ + 1]

LogPhase == /\ rq.at = "log" /\ rq.frames = 0
            /\ rq' = [LogHandler(rq) EXCEPT !.at = "closed"] /\ UNCHANGED <<resp, moved>>

\* external: ngx_http_terminate_handler, as a posted request.
Terminates == /\ rq.at = "terminated" /\ rq.frames = 0
              /\ rq' = [rq EXCEPT !.count = 0, !.at = "log"] /\ UNCHANGED <<resp, moved>>

-------------------------------------------------------------------------------
(* What the handler of each phase returns for what its Lua code returned.    *)

BadUnlessResponded(o, else) == Ok(o)

\* The response is ended when the Lua code has begun it; else the request goes
\* on with the value of the phase.
UnlessResponded(o, else) ==
    IF ~Responded(o) THEN {Result(o, else)}
    ELSE IF o.ctx.eof THEN {Result(o, "200")}
    ELSE {IF x.rc = "error" THEN x ELSE Result(x.o, "200") : x \in SendChainLink(o, <<>>)}

\* ngx_http_lua_server_rewrite_by_chunk, the end of it
ServerRewriteEnd(o, rc) ==
    IF rc \in {"ok", "declined"} THEN UnlessResponded(o, "declined") ELSE {Result(o, rc)}

\* ngx_http_lua_rewrite_by_chunk, the end of it
RewriteEnd(o, rc) == IF rc \in {"ok", "declined"} THEN UnlessResponded(o, "declined") ELSE {Result(o, rc)}

\* ngx_http_lua_access_by_chunk, the end of it; a code that declines is not asked
\* whether it has responded.
AccessEnd(o, rc) == IF rc = "ok" THEN UnlessResponded(o, "ok") ELSE {Result(o, rc)}

\* ngx_http_lua_precontent_by_chunk, the end of it: the same
PrecontentEnd(o, rc) == IF rc = "ok" THEN UnlessResponded(o, "declined") ELSE {Result(o, rc)}

\* ngx_http_lua_content_by_chunk, the end of it; code that was suspended is
\* finalized with what it returns.
ContentEnd(o, rc) == {Result(o, IF rc = "declined" /\ rq.lua.fresh THEN "ok" ELSE rc)}

ByChunkEnd(p, o, rc) ==
    CASE p = "server_rewrite" -> ServerRewriteEnd(o, rc)
      [] p = "rewrite" -> RewriteEnd(o, rc)
      [] p = "access" -> AccessEnd(o, rc)
      [] p = "precontent" -> PrecontentEnd(o, rc)
      [] OTHER -> ContentEnd(o, rc)

\* Only the rewrite handlers may be called again in the same context, after
\* the URI was rewritten.
Left(q) == IF Phase(q) \in {"server_rewrite", "rewrite"} THEN [q EXCEPT !.lua.entered = {}] ELSE q

\* external: the checker of the phase; DECLINED goes to the next handler, also
\* from the content handler, through ngx_http_finalize_request.
Checked(q, o, rc) ==
    IF rc = "declined" \/ (rc = "ok" /\ Phase(q) = "access")
    THEN {Pair([Left(q) EXCEPT !.at = "engine", !.pos = @ + 1], o)}
    ELSE Finalized(q, o, rc)

\* The Lua code of the current handler has returned.
Returned(o, rc) ==
    \E x \in ByChunkEnd(Here, o, rc) : \E y \in Checked(rq, x.o, x.rc) :
        rq' = y.q /\ resp' = y.o /\ UNCHANGED moved

-------------------------------------------------------------------------------
(* The engine and the handlers.                                              *)

Ran(h) == [rq EXCEPT !.ran = Append(@, <<rq.phase, h>>)]

\* external: the end of a phase.  A rewritten URI finds another location; a
\* subrequest skips the access phase.
NextPhase ==
    /\ rq.at = "engine" /\ Here # "content" /\ rq.pos > Len(Handlers(Here))
    /\ rq' = IF rq.uriChanged /\ Here = "rewrite"
             THEN [rq EXCEPT !.pos = 1, !.uriChanged = FALSE, !.pass = @ + 1, !.ran = <<>>]
             ELSE [rq EXCEPT !.pos = 1, !.phase = @ + IF Here = "rewrite" /\ rq.kind.captured
                                                     THEN 2 ELSE 1]
    /\ UNCHANGED <<resp, moved>>

AtHandler(h) == rq.at = "engine" /\ rq.pos <= Len(Handlers(Here)) /\ Handler = h

\* external: the handler of another module; in the rewrite phase it may change
\* the URI.
OtherHandler ==
    /\ AtHandler("other")
    /\ \E changed \in IF Here = "rewrite" /\ rq.pass < MaxPasses THEN BOOLEAN ELSE {FALSE} :
          rq' = [Ran("other") EXCEPT !.pos = @ + 1, !.uriChanged = @ \/ changed]
    /\ UNCHANGED <<resp, moved>>

\* external: the content handler of another module.
OtherContent ==
    /\ rq.at = "engine" /\ Here = "content" /\ (HasLua(rq) => rq.pos > 1)
    /\ \E x \in Respond(resp) : \E y \in Finalized(Ran("other"), x.o, x.rc) : rq' = y.q /\ resp' = y.o
    /\ UNCHANGED moved

BadRedo(q) == [q EXCEPT !.pos = @ + 1]

\* The phase engine goes on with the handler that has taken this place.
Redo(q) == q

\* The head of the handlers of three phases: the first request of the worker
\* moves the handler behind those of the other modules.
MoveHandler ==
    /\ AtHandler("lua") /\ Here \in Movable \ moved
    /\ Here = "rewrite" => ~rq.uriChanged
    /\ rq' = Redo(rq) /\ moved' = moved \cup {Here} /\ UNCHANGED resp

Skips == /\ AtHandler("lua") /\ (Here \in Movable => Here \in moved \/ (Here = "rewrite" /\ rq.uriChanged))
         /\ \/ ~HasLua(rq) /\ Here # "content"
            \/ Here \in {"server_rewrite", "rewrite"} /\ rq.uriChanged
         /\ rq' = [rq EXCEPT !.pos = @ + 1] /\ UNCHANGED <<resp, moved>>

\* ngx_http_lua_reset_ctx
ResetCtx(lua) == [lua EXCEPT !.entered = {}, !.fresh = TRUE]

\* the flag of the phase is not set
BadEntered(lua, p) == ResetCtx(lua)

\* The start of ngx_http_lua_rewrite_by_chunk, and of the others.
Entered(lua, p) == [ResetCtx(lua) EXCEPT !.entered = {p}]

ForcesBody == rq.kind.body /\ ~rq.lua.bodyDone

Begins == LET entered == Entered(rq.lua, Here)
          IN [Ran("lua") EXCEPT !.at = "lua", !.haveBody = rq.haveBody \/ ForcesBody,
                                !.lua = [entered EXCEPT !.bodyDone = @ \/ ForcesBody]]

\* external: ngx_http_read_client_request_body takes a reference until all of
\* the body is there.
ReadsBody == [rq EXCEPT !.at = "body", !.lua.waitingBody = TRUE, !.count = @ + 1]

\* lua_need_request_body, or the body is there, and the code begins.
Called == {Begins} \cup IF ForcesBody /\ ~rq.haveBody THEN {ReadsBody} ELSE {}

\* The phases before the content: the first call.
CallsHandler(p) ==
    /\ AtHandler("lua") /\ Here = p /\ HasLua(rq) /\ ~rq.uriChanged
    /\ p \in Movable => p \in moved
    /\ p \notin rq.lua.entered
    /\ rq' \in Called
    /\ UNCHANGED <<resp, moved>>

\* ngx_http_lua_server_rewrite_handler
ServerRewriteHandler == CallsHandler("server_rewrite")
\* ngx_http_lua_rewrite_handler
RewriteHandler == CallsHandler("rewrite")
\* ngx_http_lua_access_handler
AccessHandler == CallsHandler("access")
\* ngx_http_lua_precontent_handler
PrecontentHandler == CallsHandler("precontent")

\* ngx_http_lua_content_handler; while it waits for the body nginx is told
\* that it is done, and drops a reference.
ContentHandler ==
    /\ AtHandler("lua") /\ Here = "content" /\ HasLua(rq)
    /\ \E q \in Called :
          IF q.at = "body" THEN \E y \in Finalized(q, resp, "done") : rq' = y.q /\ resp' = y.o
          ELSE rq' = q /\ UNCHANGED resp
    /\ UNCHANGED moved

\* The code of a phase cannot be loaded: the handler returns 500, and nothing
\* of the context has changed.
LoadFails(p) == /\ AtHandler("lua") /\ Here = p /\ HasLua(rq) /\ ~rq.uriChanged
                /\ p \in Movable => p \in moved
                /\ p \notin rq.lua.entered /\ ~ForcesBody
                /\ Returned(resp, "special")

\* ngx_http_lua_server_rewrite_handler_inline, _file
ServerRewriteLoadFails == LoadFails("server_rewrite")
\* ngx_http_lua_rewrite_handler_inline, _file
RewriteLoadFails == LoadFails("rewrite")
\* ngx_http_lua_access_handler_inline, _file
AccessLoadFails == LoadFails("access")
\* ngx_http_lua_precontent_handler_inline, _file
PrecontentLoadFails == LoadFails("precontent")
\* ngx_http_lua_content_handler_inline, _file
ContentLoadFails == LoadFails("content")

LuaHandler == ServerRewriteHandler \/ RewriteHandler \/ AccessHandler \/ PrecontentHandler
              \/ ContentHandler
              \/ ServerRewriteLoadFails \/ RewriteLoadFails \/ AccessLoadFails
              \/ PrecontentLoadFails \/ ContentLoadFails

BodyThere(q) == [q EXCEPT !.lua.waitingBody = FALSE, !.lua.bodyDone = TRUE, !.haveBody = TRUE,
                         !.at = "engine"]

\* ngx_http_lua_generic_phase_post_read, then the engine is run again.
PostRead(q) == [BodyThere(q) EXCEPT !.count = @ - 1]

\* ngx_http_lua_content_phase_post_read calls the handler itself and finalizes
\* with what it returns, as the engine does.
ContentPostRead(q) == BodyThere(q)

BodyArrives ==
    /\ rq.at = "body" /\ rq.frames = 0 /\ ~resp.gone
    /\ rq' = IF Here = "content" THEN ContentPostRead(rq) ELSE PostRead(rq)
    /\ UNCHANGED <<resp, moved>>

\* external: nginx gives up reading the body.
BodyFails == /\ rq.at = "body" /\ rq.frames = 0
             /\ rq' = Cut(rq) /\ UNCHANGED <<resp, moved>>

-------------------------------------------------------------------------------
(* The Lua code of a handler.                                                *)

\* ngx_http_lua_run_thread, done: only the content handler ends the response.
RunDone(o) == IF InContent(rq) THEN {IF x.rc = "error" THEN x ELSE Result(x.o, "ok") : x \in SendChainLink(o, <<>>)}
              ELSE Ok(o)

Ends == rq.at = "lua" /\ \E x \in RunDone(resp) : Returned(x.o, x.rc)

\* The entry thread is aborted by an error.
Fails == /\ rq.at = "lua"
         /\ Returned(resp, IF resp.sent \/ resp.ctx.hdr THEN "error" ELSE "special")

Prints ==
    /\ rq.at = "lua" /\ rq.prints < MaxPrints
    /\ \E x \in Echo(resp, rq.prints + 1) : resp' = x.o
    /\ rq' = [rq EXCEPT !.prints = @ + 1] /\ UNCHANGED moved

SendsHeaders == /\ rq.at = "lua" /\ \E x \in SendHeaders(resp) : resp' = x.o
                /\ UNCHANGED <<rq, moved>>

SendsEof == /\ rq.at = "lua" /\ \E x \in Eof(resp) : resp' = x.o
            /\ UNCHANGED <<rq, moved>>

BadRunPosted(q) == {Pair(Dropped(q), resp)}

\* ngx_http_lua_content_run_posted_threads with n = 0, and the engine, that is
\* told DONE: the suspended code keeps the reference.
ContentRunPosted(q) == Finalized([q EXCEPT !.count = @ + 1], resp, "done")

\* The Lua code suspends: in the content handler at its first run, else the
\* phase engine or the event handler returns.
Suspended(o, at) ==
    LET q == [rq EXCEPT !.at = at, !.lua.fresh = FALSE]
    IN /\ resp' = o /\ UNCHANGED moved
       /\ IF Here = "content" /\ rq.lua.fresh THEN \E y \in ContentRunPosted(q) : rq' = y.q
          ELSE rq' = q

Sleeps == rq.at = "lua" /\ Suspended(resp, "suspended")

Flushes ==
    /\ rq.at = "lua"
    /\ \E x \in Flush(resp) : IF x.rc = "again" THEN Suspended(x.o, "flush")
                              ELSE resp' = x.o /\ UNCHANGED <<rq, moved>>

\* An event: before the content the phase engine calls the handler, which
\* finds its flag set and resumes the Lua code.
Resumes ==
    /\ rq.at = "suspended" /\ rq.frames = 0
    /\ Here \in rq.lua.entered
    /\ rq' = [rq EXCEPT !.at = "lua"] /\ UNCHANGED <<resp, moved>>

\* ngx_http_lua_handle_exit
HandleExit(o, code) ==
    LET p == [o EXCEPT !.status = @ \/ code \in {"200", "special"}]
        last == {IF x.rc = "error" THEN x ELSE Result(x.o, "ok") : x \in SendChainLink(p, <<>>)}
        Code(r) == IF (r.sent \/ r.ctx.hdr) /\ code \in {"200", "special"}
                   THEN {Result(r, IF InContent(rq) THEN "ok" ELSE "200")}
                   ELSE {Result(r, code)}
    IN IF p.ctx.buffering /\ p.status /\ code \notin {"error", "close"}
       THEN {IF x.rc = "error" THEN x ELSE Result(x.o, IF code \in {"ok", "declined"} THEN code ELSE "200") : x \in last}
       ELSE Then(IF code = "200" \/ (code = "ok" /\ InContent(rq)) THEN last ELSE Ok(p), Code)

\* Lua code has begun a response, if only in the buffer for HTTP/1.0.
HasBegun(o) == Responded(o) \/ o.ctx.buffering

\* ngx_http_lua_ffi_exit: after the header a code for an error page counts as 200.
Exit(code) == IF (resp.sent \/ resp.ctx.hdr) /\ code = "special" THEN "200" ELSE code

\* ngx.exit; ngx.redirect is ngx.exit with a code of its own, and refuses
\* once the header is sent.
Exits == /\ rq.at = "lua"
         /\ \E code \in Codes :
               /\ Careful /\ code = "declined" => ~HasBegun(resp)
               /\ \E x \in HandleExit(resp, Exit(code)) : Returned(x.o, x.rc)

\* ngx.req.set_uri with jump, ngx_http_lua_handle_rewrite_jump
Jumps ==
    /\ rq.at = "lua" /\ Here = "rewrite" /\ rq.pass < MaxPasses
    /\ \E x \in ByChunkEnd(Here, resp, "ok") : \E y \in Checked([rq EXCEPT !.uriChanged = TRUE], x.o, x.rc) :
          rq' = y.q /\ resp' = y.o
    /\ UNCHANGED moved

\* ngx_http_lua_handle_exec: nginx takes a reference, clears the contexts of
\* the modules and runs the phases, all within the Lua handler.
HandleExec(q, o, first) ==
    Pair([q EXCEPT !.frames = @ + 1, !.count = @ + 1, !.at = "engine", !.phase = first, !.pos = 1,
                   !.pass = @ + 1, !.ran = <<>>, !.lua = FreshLua, !.uriChanged = FALSE],
         [o EXCEPT !.ctx = FreshCtx])

\* ngx.exec, to a URI or to a named location; what is buffered for HTTP/1.0 is
\* dropped.
Execs ==
    /\ rq.at = "lua" /\ ~(resp.sent \/ resp.ctx.hdr) /\ rq.pass < MaxPasses
    /\ \E first \in {1, 2} :
          LET dropped == Len(resp.printed) - Len(resp.ctx.out)
              y == HandleExec(rq, [resp EXCEPT !.printed = SubSeq(@, 1, dropped)], first)
          IN rq' = y.q /\ resp' = y.o
    /\ UNCHANGED moved

\* The nested phases have returned: the handler that called ngx.exec finalizes
\* with DONE.
Unwinds ==
    /\ rq.frames > 0 /\ rq.at \notin {"engine", "lua"}
    /\ \E y \in FinalizeRequest([rq EXCEPT !.frames = @ - 1], resp, "done") :
          rq' = y.q /\ resp' = y.o
    /\ UNCHANGED moved

-------------------------------------------------------------------------------
(* The client.                                                               *)

Waits == rq.frames = 0 /\ rq.at \in {"suspended", "flush", "body", "draining"}

\* The write event: ngx_http_lua_wev_handler or ngx_http_writer.  Only when no
\* buffer of the code itself is busy is the connection given one that flushes.
Drains ==
    /\ Waits /\ rq.at \in {"flush", "draining"}
    /\ \E chain \in IF rq.at = "flush" THEN {<<>>, <<FlushBuf>>} ELSE {<<>>} :
       \E x \in OutputFilter(resp, chain) :
          IF rq.at = "flush"
          THEN /\ resp' = x.o
               /\ rq' = IF x.rc = "error" \/ ~x.o.buffered THEN [rq EXCEPT !.at = "lua"] ELSE rq
          ELSE \E y \in Finished(rq, x.o) : rq' = y.q /\ resp' = y.o
    /\ UNCHANGED moved

Drained == Drains /\ ~resp'.buffered

\* The client takes nothing for send_timeout.
TimesOut ==
    /\ Waits /\ rq.at \in {"flush", "draining"}
    /\ rq' = IF rq.at = "flush" THEN [rq EXCEPT !.at = "lua"] ELSE Cut(rq)
    /\ UNCHANGED <<resp, moved>>

ClientGoes == /\ Waits /\ ~resp.gone /\ ~resp.captured
              /\ resp' = [resp EXCEPT !.gone = TRUE] /\ UNCHANGED <<rq, moved>>

\* ngx_http_lua_rd_check_broken_connection, with lua_check_client_abort and no
\* ngx.on_abort handler.
ClientAborts ==
    /\ resp.gone /\ rq.frames = 0 /\ rq.at \in {"suspended", "flush"} /\ rq.kind.abort
    /\ \E y \in FinalizeRequest(rq, resp, "close") : rq' = y.q /\ resp' = y.o
    /\ UNCHANGED moved

-------------------------------------------------------------------------------
Engine == NextPhase \/ OtherHandler \/ OtherContent \/ MoveHandler \/ Skips \/ LuaHandler
          \/ Unwinds \/ LogPhase \/ Terminates
Lua == Prints \/ SendsHeaders \/ SendsEof \/ Flushes \/ Sleeps \/ Ends \/ Fails \/ Exits \/ Jumps \/ Execs
Events == Resumes \/ BodyArrives \/ BodyFails \/ Drains \/ TimesOut \/ ClientGoes \/ ClientAborts

Over == rq.at = "closed" \/ (rq.at = "finished" /\ rq.frames = 0)
Stopped == Over /\ UNCHANGED vars

Next == Engine \/ Lua \/ Events \/ Stopped

Spec == Init /\ [][Next]_vars

\* nginx runs; a body comes or its reading fails; a client takes all that is to
\* be sent, in finitely many writes, or times out; the Lua code is resumed, and
\* returns at last.
FairSpec == /\ Spec /\ WF_vars(Engine) /\ WF_vars(Resumes) /\ SF_vars(Ends)
            /\ WF_vars(BodyArrives \/ BodyFails) /\ SF_vars(Drained \/ TimesOut)

-------------------------------------------------------------------------------
(* Properties.                                                               *)

TypeOK ==
    /\ rq.at \in {"engine", "lua", "suspended", "flush", "body", "draining", "finished",
                  "terminated", "log", "closed"}
    /\ rq.count \in 0..(2 + MaxPasses) /\ rq.frames \in 0..MaxPasses
    /\ rq.logged \in {0, 1} /\ moved \subseteq Movable

\* Every reference to the request has its holder: the parent of a subrequest,
\* the request itself until it is finished, each handler in which ngx.exec is
\* still running, and the reading of the body; so it is freed exactly once,
\* when nobody holds it (ngx_http_lua_content_run_posted_threads, handle_exec,
\* generic_phase_post_read).
CountExact ==
    /\ TypeOK
    /\ ~rq.cut =>
        rq.count = (IF rq.kind.captured THEN 1 ELSE 0) + rq.frames
                   + (IF rq.at \in {"finished", "log", "closed"} THEN 0 ELSE 1)
                   + (IF rq.lua.waitingBody /\ Here # "content" THEN 1 ELSE 0)

\* No filter has failed, and the client is there.
Healthy == ~resp.error /\ ~resp.failed

\* Each handler of each phase that the request has passed ran once, in order,
\* though the worker's first request moves them (ngx_http_lua_rewrite_handler
\* and the others: postponed_to_rewrite_phase_end).
EachOnce ==
    LET Phased(i) == rq.ran[i][1]
        HasRun(p, h) == Cardinality({i \in DOMAIN rq.ran : rq.ran[i] = <<p, h>>})
    IN /\ \A i, j \in DOMAIN rq.ran : i < j => Phased(i) <= Phased(j)
       /\ \A i \in DOMAIN rq.ran : HasRun(Phased(i), rq.ran[i][2]) = 1
       /\ \A p \in 2..(rq.phase - 1) :
             Phases[p] \in Movable /\ (Phases[p] = "access" => ~rq.kind.captured) =>
                 /\ HasRun(p, "other") = 1
                 /\ (Phases[p] \in rq.kind.has /\ ~rq.uriChanged) => HasRun(p, "lua") = 1

\* No handler runs once the request has responded: a handler that has begun
\* the response ends it (rewriteby.c and the others: "no longer safe to
\* proceed to later phases").  It is so when Careful: the handlers of access and
\* precontent do not look at the response when their code declines.
NoSecondResponse ==
    [][(rq.ran # rq'.ran /\ rq'.ran # <<>>) => ~Responded(resp)]_vars


\* What Lua code printed reaches the body filter, or the client when there is
\* none, once and in order; what is not there yet waits in the filter or in
\* the buffer for HTTP/1.0, and no longer waits once all is sent
\* (ngx_http_lua_body_filter, filter_in_bufs and filter_busy_bufs).
NothingLost ==
    LET Own(s) == SelectSeq(s, LAMBDA t : t > 0)
        got == IF resp.filters THEN Own(resp.seen) \o Own(DataOf(resp.ctx.fin)) ELSE Own(DataOf(resp.wire))
    IN Healthy =>
       /\ resp.ctx.seenLast \/ got \o Own(DataOf(resp.ctx.out)) = resp.printed
       /\ rq.at \in {"finished", "log", "closed"} /\ ~rq.cut => resp.ctx.fin = <<>>

\* Every request ends, and is logged, whatever its handlers do.
RequestEnds == <>Over
================================================================================
