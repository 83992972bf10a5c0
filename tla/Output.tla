--------------------------------- MODULE Output ---------------------------------
(***************************************************************************)
(* The response of one request, from the Lua functions that produce it     *)
(* (ngx.print, ngx.send_headers, ngx.flush, ngx.eof) through the Lua       *)
(* filters (header_filter_by_lua, body_filter_by_lua) to the connection    *)
(* or, in a subrequest of ngx.location.capture, to the memory of the       *)
(* parent.                                                                 *)
(*                                                                         *)
(* What is printed is a token, a number for each call; a buffer is a       *)
(* sequence of tokens with the flags of ngx_buf_t.  The rest of nginx is   *)
(* external: it takes what the last filter hands it, and either sends it   *)
(* or keeps it (connection.buffered); it fails once the client is gone.    *)
(*                                                                         *)
(* Every operator takes the response o and gives the set of the results    *)
(* that are possible, [o |-> the response after, rc |-> "ok", "again" or   *)
(* "error"].                                                               *)
(***************************************************************************)
EXTENDS Integers, Sequences, SequencesExt, FiniteSets

CONSTANTS FilterSteps,  \* what body_filter_by_lua does with arg[1]: "keep", "discard", "replace"
          LastFlags,    \* and with arg[2]: "leave", "set", "clear"
          FilterFails   \* SUBSET {"header", "body"}: the filters whose Lua code may fail

ASSUME OutputAssumption ==
    /\ FilterSteps \subseteq {"keep", "discard", "replace"}
    /\ LastFlags \subseteq {"leave", "set", "clear"}
    /\ FilterFails \subseteq {"header", "body"}

\* Tokens that no Lua handler prints: an error page, and what a filter makes.
Page == 0
New == -1

Buf(data) == [data |-> data, last |-> FALSE, flush |-> FALSE]
LastBuf == [Buf(<<>>) EXCEPT !.last = TRUE]
FlushBuf == [Buf(<<>>) EXCEPT !.flush = TRUE]

DataOf(chain) == FlattenSeq([i \in DOMAIN chain |-> chain[i].data])
HasLast(chain) == \E b \in ToSet(chain) : b.last
HasFlush(chain) == \E b \in ToSet(chain) : b.flush

\* The part of the response that is in ngx_http_lua_ctx_t, zeroed.
FreshCtx == [hdr |-> FALSE, eof |-> FALSE, buffering |-> FALSE, out |-> <<>>,
             capture |-> FALSE, fin |-> <<>>, busy |-> FALSE, seenLast |-> FALSE]

\* ngx_http_request_t and ngx_connection_t, with the history: wire, what the
\* last filter handed on; printed, what Lua was told is accepted; seen, what
\* body_filter_by_lua was run over; failed, header_filter_by_lua has failed;
\* cleared, a filter has taken an end back.
NewResponse(kind) ==
    [captured |-> kind.captured, http10 |-> kind.http10, head |-> kind.head,
     filters |-> kind.filters, sent |-> FALSE, status |-> FALSE, headerOnly |-> FALSE,
     buffered |-> FALSE, gone |-> FALSE, error |-> FALSE, failed |-> FALSE, cleared |-> FALSE, heads |-> <<>>, wire |-> <<>>,
     printed |-> <<>>, seen |-> <<>>, ctx |-> [FreshCtx EXCEPT !.capture = kind.captured]]

Result(o, rc) == [o |-> o, rc |-> rc]
Ok(o) == {Result(o, "ok")}
Then(results, F(_)) == UNION {IF x.rc = "error" THEN {x} ELSE F(x.o) : x \in results}

-------------------------------------------------------------------------------
(* Behind the last filter of the module.                                     *)

\* What the client sees of a chain.
Shown(chain) == SelectSeq(chain, LAMBDA b : b.data # <<>> \/ b.last)

\* external: ngx_http_write_filter and the filters before it.
Write(o, chain) ==
    IF o.gone THEN {Result([o EXCEPT !.error = TRUE], "error")}
    ELSE {Result([o EXCEPT !.wire = @ \o Shown(chain), !.buffered = b], IF b THEN "again" ELSE "ok") :
             b \in IF chain = <<>> /\ ~o.buffered THEN {FALSE} ELSE BOOLEAN}

\* ngx_http_lua_capture_body_filter: a copy for the parent.
CaptureBodyFilter(o, chain) ==
    IF chain = <<>> \/ ~o.ctx.capture THEN Write(o, chain)
    ELSE Ok([o EXCEPT !.wire = @ \o Shown(chain)])

\* ngx_http_lua_capture_header_filter; an internal redirect has cleared ctx,
\* and what it said about the capture is found in the data of the parent.
CaptureHeaderFilter(o, length) ==
    LET r == [o EXCEPT !.ctx.capture = o.captured]
        h == [r EXCEPT !.sent = TRUE, !.headerOnly = @ \/ (o.captured /\ o.head),
                       !.heads = Append(@, [length |-> length, after |-> Len(o.wire)])]
    IN IF r.ctx.capture THEN Ok([h EXCEPT !.ctx.hdr = TRUE])
       ELSE IF o.gone THEN {Result([h EXCEPT !.error = TRUE], "error")} ELSE Ok(h)

-------------------------------------------------------------------------------
(* header_filter_by_lua and body_filter_by_lua.                              *)

\* ngx_http_lua_header_filter: the code ends or fails (it does not call
\* ngx.exit).
HeaderFilterByChunk == IF "header" \in FilterFails THEN {"ok", "error"} ELSE {"ok"}

HeaderFilter(o, length) ==
    UNION {IF rc = "error" THEN {Result([o EXCEPT !.failed = TRUE], "error")} ELSE CaptureHeaderFilter(o, length) :
              rc \in IF o.filters THEN HeaderFilterByChunk ELSE {"ok"}}

\* external: ngx_http_send_header.
SendHeader(o, length) == IF o.sent THEN {Result(o, "error")} ELSE HeaderFilter(o, length)

\* The new chain instead of chain, which is consumed: the flags are kept, in
\* a buffer of their own when there is no data.
Made(data, chain) ==
    IF data = <<>> /\ ~HasLast(chain) /\ ~HasFlush(chain) THEN <<>>
    ELSE <<[data |-> data, last |-> HasLast(chain), flush |-> HasFlush(chain)]>>

\* ngx_http_lua_body_filter_param_set, arg[1].
SetData(step, f) ==
    IF step = "keep" THEN f
    ELSE [chain |-> Made(IF step = "discard" THEN <<>> ELSE <<New>>, f.chain),
          seenLast |-> f.seenLast \/ HasLast(f.chain)]

\* ngx_http_lua_body_filter_param_set, arg[2].
SetLast(flag, f) ==
    CASE flag = "leave" -> f
      [] flag = "set" ->
           LET c == IF f.chain = <<>> THEN <<Buf(<<>>)>> ELSE f.chain
           IN [chain |-> [c EXCEPT ![Len(c)].last = TRUE], seenLast |-> TRUE]
      [] flag = "clear" ->
           [chain |-> [i \in DOMAIN f.chain |-> [f.chain[i] EXCEPT !.last = FALSE]],
            seenLast |-> FALSE]

\* ngx_http_lua_body_filter_by_chunk over what is waiting; lmcf->body_filter_chain
\* is .chain.  (It makes no data of nothing.)
BodyFilterByChunk(o) ==
    {[cleared |-> flag = "clear"]
         @@ SetLast(flag, SetData(step, [chain |-> o.ctx.fin, seenLast |-> o.ctx.seenLast])) :
        step \in IF DataOf(o.ctx.fin) = <<>> THEN FilterSteps \ {"replace"} ELSE FilterSteps,
        flag \in LastFlags}

\* The buffers that the connection has not sent are busy.
Updated(results) == {[x EXCEPT !.o.ctx.busy = x.o.buffered /\ ~x.o.ctx.capture] : x \in results}

RunFilter(o) ==
    LET ran == [o EXCEPT !.ctx.fin = <<>>, !.seen = @ \o DataOf(o.ctx.fin)]
    IN IF o.ctx.fin = <<>> THEN Updated(CaptureBodyFilter(o, <<>>))
       ELSE (UNION {LET p == [ran EXCEPT !.ctx.seenLast = f.seenLast, !.cleared = @ \/ f.cleared]
                    IN IF f.chain = <<>> THEN Ok(p) ELSE Updated(CaptureBodyFilter(p, f.chain)) :
                       f \in BodyFilterByChunk(o)})
            \cup {Result(ran, "error") : why \in FilterFails \cap {"body"}}

\* the input that comes while the filter waits is lost
BadTaken(o, chain) == IF o.ctx.seenLast \/ o.ctx.busy THEN o ELSE [o EXCEPT !.ctx.fin = @ \o chain]

\* What comes after the last buffer is consumed unseen.  (Of buffers that only
\* flush and wait one behind the other, one is kept.)
Taken(o, chain) ==
    IF o.ctx.seenLast \/ (chain = <<FlushBuf>> /\ o.ctx.fin # <<>> /\ Last(o.ctx.fin) = FlushBuf) THEN o
    ELSE [o EXCEPT !.ctx.fin = @ \o chain]

\* ngx_http_lua_body_filter: it does not run while the connection is full.
BodyFilter(o, chain) ==
    IF ~o.filters \/ o.headerOnly THEN CaptureBodyFilter(o, chain)
    ELSE LET t == Taken(o, chain)
             Waits(p) == p.ctx.busy /\ p.buffered
         IN Then(IF Waits(t) THEN Updated(CaptureBodyFilter(t, <<>>)) ELSE Ok(t),
                 LAMBDA p : IF Waits(p) THEN {Result(p, "again")} ELSE RunFilter(p))

\* ngx_http_lua_output_filter, and ngx_http_output_filter around the filters.
OutputFilter(o, chain) ==
    {IF x.rc = "error" THEN Result([x.o EXCEPT !.error = TRUE], "error") ELSE x :
        x \in BodyFilter(o, chain)}

-------------------------------------------------------------------------------
(* Sending.                                                                  *)

NoLength == -1

\* ngx_http_lua_send_header_if_needed
SendHeaderIfNeeded(o) ==
    IF o.sent \/ o.ctx.hdr THEN Ok(o)
    ELSE LET p == [o EXCEPT !.status = TRUE]
         IN IF p.ctx.buffering THEN Ok(p)
            ELSE {[x EXCEPT !.o.ctx.hdr = TRUE] : x \in SendHeader(p, NoLength)}


\* ngx_http_lua_send_http10_headers: with the length of all that is buffered.
SendHttp10Headers(o) ==
    IF o.sent \/ o.ctx.hdr THEN Ok(o)
    ELSE {[x EXCEPT !.o.ctx.hdr = TRUE] :
             x \in SendHeader(o, IF o.headerOnly THEN NoLength ELSE Len(DataOf(o.ctx.out)))}

SendOut(o) ==
    IF o.ctx.out = <<>> THEN Ok(o)
    ELSE Then(OutputFilter(o, o.ctx.out), LAMBDA p : Ok([p EXCEPT !.ctx.out = <<>>]))

\* ngx_http_lua_send_special
SendSpecial(o) == OutputFilter([o EXCEPT !.ctx.eof = TRUE], <<LastBuf>>)

\* The tests before the header: HEAD, and the buffering for HTTP/1.0.
Prepared(o) ==
    [o EXCEPT !.headerOnly = @ \/ o.head,
              !.ctx.buffering = @ \/ (o.http10 /\ ~o.sent /\ ~o.ctx.hdr)]

Ended(o) == o.ctx.eof

\* ngx_http_lua_send_chain_link; an empty chain (NULL) ends the response.
SendChainLink(o, chain) ==
    IF Ended(o) THEN Ok(o)
    ELSE Then(SendHeaderIfNeeded(Prepared(o)), LAMBDA p :
         IF p.headerOnly THEN
             LET q == [p EXCEPT !.ctx.eof = TRUE]
             IN IF q.ctx.buffering THEN SendHttp10Headers(q) ELSE Ok(q)
         ELSE IF chain # <<>> THEN
             IF p.ctx.buffering THEN Ok([p EXCEPT !.ctx.out = @ \o chain])
             ELSE OutputFilter(p, chain)
         ELSE Then(IF p.ctx.buffering THEN Then(SendHttp10Headers(p), SendOut) ELSE Ok(p),
                   SendSpecial))

-------------------------------------------------------------------------------
(* The Lua functions.                                                        *)

Refuses(o) == o.headerOnly \/ o.ctx.eof

\* ngx_http_lua_ngx_echo: ngx.print and ngx.say.  HEAD sends the header and
\* drops the data.
Echo(o, token) ==
    IF Refuses(o) THEN Ok(o)
    ELSE {IF x.rc = "error" \/ x.o.headerOnly THEN x
          ELSE [x EXCEPT !.o.printed = Append(@, token)] :
             x \in SendChainLink(o, <<Buf(<<token>>)>>)}

\* ngx_http_lua_ngx_echo without data, ngx_http_lua_ngx_send_headers: even
\* for HTTP/1.0 the header is sent at once.
SendHeaders(o) == SendHeaderIfNeeded(o)

\* ngx_http_lua_ngx_eof
Eof(o) == SendChainLink(o, <<>>)

\* ngx_http_lua_ngx_flush(true): it waits, for "again".
Flush(o) ==
    IF Refuses(o) \/ o.ctx.buffering \/ ~(o.sent \/ o.ctx.hdr) \/ o.captured THEN Ok(o)
    ELSE {IF x.rc # "error" THEN [x EXCEPT !.rc = IF x.o.buffered THEN "again" ELSE "ok"] ELSE x :
             x \in SendChainLink(o, <<FlushBuf>>)}

\* external: ngx_http_special_response_handler, or any other handler of nginx
\* that responds: a header, a body and its end.
Respond(o) ==
    Then(SendHeader([o EXCEPT !.status = TRUE, !.headerOnly = @ \/ o.head], NoLength), LAMBDA p :
         IF p.headerOnly THEN Ok(p)
         ELSE OutputFilter(p, <<[Buf(<<Page>>) EXCEPT !.last = TRUE]>>))

\* The response has begun: no later phase may respond.
Responded(o) == o.sent \/ (o.status /\ o.ctx.out # <<>>)
================================================================================
