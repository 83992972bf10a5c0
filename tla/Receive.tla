-------------------------------- MODULE Receive --------------------------------
(***************************************************************************)
(* Reading from a stream cosocket: receive, receiveany and the iterators   *)
(* of receiveuntil, on a connection to an upstream, and on the connection  *)
(* of the client as the body of the request or raw.                        *)
(*                                                                         *)
(* ngx_http_lua_socket_tcp_read takes what arrives into a buffer and runs  *)
(* an input filter over it.  The buffer that is read into (buf_in) holds   *)
(* the data to return (dpos to dlast) and behind it what has been read     *)
(* from the connection and not been looked at (pos to the end).  An        *)
(* iterator keeps what it has seen of its pattern as a state: these bytes  *)
(* are in no region, and have to be returned as data when the match fails, *)
(* also after the buffer that held them is gone.                           *)
(*                                                                         *)
(* One call runs at a time; another one is refused as busy.  Nothing runs  *)
(* between the iterations of the loop and of the filters, which are steps  *)
(* of their own only to keep them small.                                   *)
(***************************************************************************)
EXTENDS Integers, Sequences, FiniteSets, SequencesExt

CONSTANTS Nil, Itself,  \* the cosocket as its own filter context
          LF, CR,
          Streams,       \* byte sequences that a peer sends
          Patterns,      \* of the iterators
          Sizes,         \* number arguments
          BufferSize,    \* lua_socket_buffer_size
          Kinds,         \* a subset of {"upstream", "raw", "body"}
          Careful        \* a cosocket is connected again only when its iterators
                         \* are at their start: they keep the state of their pattern

ASSUME ReceiveAssumption ==
    /\ \A p \in Patterns : Len(p) > 0
    /\ Sizes \subseteq Nat \ {0} /\ BufferSize \in Nat \ {0}
    /\ Kinds \subseteq {"upstream", "raw", "body"} /\ Careful \in BOOLEAN

Reader == [pattern : Patterns, inclusive : BOOLEAN]

VARIABLES
    peer,      \* the connection: what arrives, how much of it is in header_in,
               \* how much of it belongs to the body, whether it ends after it
    conf,      \* its kind and lua_check_client_abort
    u,         \* the cosocket's buffer and its flags
    cp,        \* the compiled patterns: [state, upstream]
    call,      \* the call that runs, or Nil
    before,    \* history: what there was to read when the last call started
    answer     \* what the last call returned

vars == <<peer, conf, u, cp, call, before, answer>>

Fresh == [mem |-> <<>>, cap |-> BufferSize, pos |-> 0, dpos |-> 0, dlast |-> 0,
          data |-> <<>>,           \* of the buffers before buf_in
          ctx |-> Nil,             \* input_filter_ctx
          eof |-> FALSE, closed |-> FALSE]

Peers(kind) ==
    {[bytes |-> s, preread |-> n, rest |-> r] : s \in Streams,
       n \in IF kind = "upstream" THEN {0} ELSE {0, 2}, r \in IF kind = "body" THEN {3} ELSE {0}}

Init == /\ conf \in [kind : Kinds, check : BOOLEAN]
        /\ conf.kind = "upstream" => ~conf.check
        /\ peer \in Peers(conf.kind) /\ peer.preread <= Len(peer.bytes)
        /\ u = Fresh /\ call = Nil /\ before = Nil /\ answer = Nil
        /\ cp = [q \in Reader |-> [state |-> 0, upstream |-> FALSE]]

Downstream == conf.kind # "upstream"
Unread == SubSeq(u.mem, u.pos + 1, Len(u.mem))
BodyRead == conf.kind = "body" /\ peer.rest = 0

-------------------------------------------------------------------------------
(* ngx_http_lua_socket_compile_pattern: for every shift i of the pattern the *)
(* state in which it stops to match itself, and the state to go on with.     *)

Recoveries(p) ==
    {<<i + z, p[z + 1], z + 1>> : <<i, z>> \in
       {iz \in (1..Len(p)) \X (1..Len(p)) :
          LET i == iz[1] z == iz[2] IN
          /\ z <= Len(p) - i - 1
          /\ SubSeq(p, 1, z) = SubSeq(p, i + 1, i + z)
          /\ p[z + 1] # p[i + z + 1]}}

\* The state that byte c recovers to, 0 when there is none.
BadRecovered(p, state, c) == 0

Recovered(p, state, c) ==
    LET new == {e[3] : e \in {e \in Recoveries(p) : e[1] = state /\ e[2] = c}}
    IN IF new = {} THEN 0 ELSE CHOOSE s \in new : \A x \in new : x <= s

-------------------------------------------------------------------------------
(* The buffers.                                                              *)

\* ngx_http_lua_socket_push_input_data: what the call returns,
Collected(v) == v.data \o SubSeq(v.mem, v.dpos + 1, v.dlast)

\* and the buffers after it.
BadPushed(v) == [v EXCEPT !.dpos = v.pos, !.dlast = v.pos]

Pushed(v) ==
    LET empty == v.pos = Len(v.mem)
        pos == IF empty THEN 0 ELSE v.pos
    IN [v EXCEPT !.data = <<>>, !.mem = IF empty THEN <<>> ELSE @,
                 !.pos = pos, !.dpos = pos, !.dlast = pos]

\* ngx_http_lua_socket_add_input_buffer, when the buffer is full.
WithRoom(v) == IF Len(v.mem) < v.cap THEN v
               ELSE [v EXCEPT !.data = Collected(v), !.mem = <<>>, !.cap = BufferSize,
                              !.pos = 0, !.dpos = 0, !.dlast = 0]

\* ngx_http_lua_socket_add_pending_data: the first n bytes of the pattern
\* become data.  They are behind the data when state bytes lie between it and
\* at; otherwise a buffer with them is inserted before this one.
AddPending(v, p, at, n, state) ==
    IF at - v.dlast = state THEN [v EXCEPT !.dlast = @ + n]
    ELSE [v EXCEPT !.data = @ \o SubSeq(p, 1, n), !.dpos = at, !.dlast = at]

\* ngx_http_lua_socket_tcp_read_prepare: another filter takes over, and the
\* bytes that are pending in a pattern are unread again.
UnreadAgain(v, q, n) ==
    IF v.pos >= n THEN [v EXCEPT !.pos = @ - n, !.dpos = v.pos - n, !.dlast = v.pos - n]
    ELSE LET m == SubSeq(q.pattern, 1, n) \o SubSeq(v.mem, v.dpos + 1, v.dpos + Len(Unread))
         IN [v EXCEPT !.mem = m, !.cap = Len(m), !.pos = 0, !.dpos = 0, !.dlast = 0]

IsReader(x) == x \in Reader

Prepared(ctx) == IF u.ctx = ctx \/ ~IsReader(u.ctx) \/ cp[u.ctx].state <= 0
                 THEN [u EXCEPT !.ctx = ctx]
                 ELSE [UnreadAgain(u, u.ctx, cp[u.ctx].state) EXCEPT !.ctx = ctx]

PreparedPatterns(ctx) ==
    IF u.ctx = ctx \/ ~IsReader(u.ctx) THEN cp
    ELSE [cp EXCEPT ![u.ctx] = [state |-> IF @.state > 0 THEN 0 ELSE @.state, upstream |-> FALSE]]

\* What can be read, in order: pending in the pattern, unread and to arrive.
Pending == IF IsReader(u.ctx) /\ cp[u.ctx].state > 0
           THEN SubSeq(u.ctx.pattern, 1, cp[u.ctx].state) ELSE <<>>
Arriving == IF conf.kind = "body" /\ peer.rest < Len(peer.bytes)
            THEN SubSeq(peer.bytes, 1, peer.rest) ELSE peer.bytes
Stream == IF u.closed THEN <<>> ELSE Pending \o Unread \o Arriving

-------------------------------------------------------------------------------
(* The calls.                                                                *)

Call(filter, reader, size) ==
    [filter |-> filter, reader |-> reader, length |-> size, rest |-> size,
     at |-> "loop", read |-> FALSE, i |-> 0, state |-> 0]

Starts(c, ctx, patterns) ==
    /\ call = Nil /\ ~u.closed
    /\ before' = Stream
    /\ u' = Prepared(ctx) /\ cp' = patterns
    /\ call' = c /\ answer' = Nil
    /\ UNCHANGED <<peer, conf>>

\* ngx_http_lua_socket_tcp_receive and ..._receiveany.
Receive == \/ \E n \in Sizes, f \in {"chunk", "any"} :
                 Starts(Call(f, Nil, n), Itself, PreparedPatterns(Itself))
           \/ \E f \in {"line", "all"} : Starts(Call(f, Nil, 0), Itself, PreparedPatterns(Itself))

\* ngx_http_lua_socket_receiveuntil_iterator: an iterator that has returned
\* the last of the chunks before its pattern is reset;
Iterate(q) ==
    /\ cp[q].state # -1
    /\ \E n \in Sizes \cup {0} :
          Starts(Call("until", q, n), q, [PreparedPatterns(q) EXCEPT ![q].upstream = TRUE])

IterateEnd(q) ==
    /\ call = Nil /\ ~u.closed /\ cp[q].state = -1
    /\ cp' = [cp EXCEPT ![q].state = 0] /\ answer' = Nil
    /\ UNCHANGED <<peer, conf, u, call, before>>

\* ngx_http_lua_socket_cleanup_compiled_pattern: the iterator is collected.
Collect(q) ==
    /\ call = Nil
    /\ IF cp[q].upstream THEN u' = [Prepared(Nil) EXCEPT !.ctx = Nil] ELSE UNCHANGED u
    /\ cp' = [cp EXCEPT ![q] = [state |-> 0, upstream |-> FALSE]]
    /\ answer' = Nil /\ UNCHANGED <<peer, conf, call, before>>

\* A new connection for the same cosocket.
Reconnect ==
    /\ u.closed /\ conf.kind = "upstream"
    /\ Careful => \A q \in Reader : cp[q].state = 0
    /\ peer' \in Peers("upstream")
    /\ u' = Fresh /\ before' = Nil /\ answer' = Nil /\ UNCHANGED <<conf, cp, call>>

-------------------------------------------------------------------------------
(* The returns.                                                              *)

\* ngx_http_lua_socket_handle_read_success.
Succeeds(v, patterns) ==
    /\ answer' = [err |-> "", data |-> Collected(v), call |-> call]
    /\ u' = Pushed(v) /\ cp' = patterns /\ call' = Nil
    /\ UNCHANGED <<conf, before>>

\* ngx_http_lua_socket_tcp_receive_retval_handler with an error: but for a
\* timeout the reading part is closed.
Fails(v, patterns, err) ==
    /\ answer' = [err |-> err, data |-> Collected(v), call |-> call]
    /\ u' = IF err = "timeout" THEN Pushed(v) ELSE [Fresh EXCEPT !.closed = TRUE]
    /\ cp' = IF err = "timeout" \/ ~IsReader(v.ctx) THEN patterns
             ELSE [patterns EXCEPT ![v.ctx].upstream = FALSE]
    /\ call' = Nil
    /\ UNCHANGED <<conf, before>>

\* A client that has gone is noticed with the last bytes of the body.
Broken == conf.check /\ BodyRead /\ peer.bytes = <<>>

Done(v, patterns) ==
    /\ \/ Succeeds(v, patterns)
       \/ Broken /\ v.pos = Len(v.mem) /\ Fails(v, patterns, "client aborted")
    /\ UNCHANGED peer

\* The filter wants more.
Again(v, patterns, i, state) ==
    /\ u' = IF BodyRead THEN [v EXCEPT !.eof = TRUE] ELSE v
    /\ cp' = patterns
    /\ call' = [call EXCEPT !.at = "loop"]
    /\ UNCHANGED <<peer, conf, before, answer>>

-------------------------------------------------------------------------------
(* The input filters.                                                        *)

Filtering == call # Nil /\ call.at = "loop" /\ (Unread # <<>> \/ u.eof)
Bytes == Len(Unread)
Taken(n) == [u EXCEPT !.dlast = @ + n, !.pos = @ + n]

\* No more bytes will come.
AtEof == /\ Filtering /\ Bytes = 0
         /\ IF call.filter = "all" THEN Done(u, cp) ELSE Fails(u, cp, "closed") /\ UNCHANGED peer

ReadChunk ==
    /\ Filtering /\ Bytes > 0 /\ call.filter = "chunk"
    /\ IF Bytes >= call.rest THEN Done(Taken(call.rest), cp)
       ELSE /\ u' = [Taken(Bytes) EXCEPT !.eof = @ \/ BodyRead]
            /\ call' = [call EXCEPT !.rest = @ - Bytes]
            /\ UNCHANGED <<peer, conf, cp, before, answer>>

ReadAll == /\ Filtering /\ Bytes > 0 /\ call.filter = "all"
           /\ Again(Taken(Bytes), cp, 0, 0)

ReadAny == /\ Filtering /\ Bytes > 0 /\ call.filter = "any"
           /\ Done(Taken(IF Bytes >= call.rest THEN call.rest ELSE Bytes), cp)

\* ngx_http_lua_read_line drops each carriage return, and moves the bytes
\* behind it.
Line == LET c == Unread[1] next == [u EXCEPT !.pos = @ + 1] IN
        CASE c = LF -> Done(next, cp)
          [] c = CR -> Again(next, cp, 0, 0)
          [] OTHER -> Again([next EXCEPT !.mem[u.dlast + 1] = c, !.dlast = @ + 1], cp, 0, 0)

ReadLine == Filtering /\ Bytes > 0 /\ call.filter = "line" /\ Line

\* ngx_http_lua_socket_read_until, which looks at byte i with the first state
\* bytes of the pattern seen.
StartUntil == /\ Filtering /\ Bytes > 0 /\ call.filter = "until"
              /\ call' = [call EXCEPT !.at = "scan", !.i = 0, !.state = cp[call.reader].state]
              /\ UNCHANGED <<peer, conf, u, cp, before, answer>>

Scanning == call # Nil /\ call.at = "scan" /\ call.i < Bytes
Pat == call.reader.pattern
This == Unread[call.i + 1]
At == u.pos + call.i
Matches == This = Pat[call.state + 1]
Whole == call.state + 1 = Len(Pat)
Sized == call.length > 0

Scans(v, state) == /\ u' = v /\ call' = [call EXCEPT !.i = @ + 1, !.state = state]
                   /\ UNCHANGED <<peer, conf, cp, before, answer>>

\* Byte i is looked at again.
Rescans(v, rest) == /\ u' = v /\ call' = [call EXCEPT !.state = 0, !.rest = rest]
                    /\ UNCHANGED <<peer, conf, cp, before, answer>>

\* The chunk is full; the iterator goes on in state.
ChunkFull(v, i, state) == Done([v EXCEPT !.pos = @ + i], [cp EXCEPT ![call.reader].state = state])

UntilMatch == Scanning /\ Matches /\ ~Whole /\ Scans(u, call.state + 1)

UntilWhole ==
    /\ Scanning /\ Matches /\ Whole
    /\ LET v == [u EXCEPT !.pos = At + 1] IN
       Done(IF call.reader.inclusive THEN AddPending(v, Pat, At + 1, Len(Pat), Len(Pat)) ELSE v,
            [cp EXCEPT ![call.reader].state = IF Sized THEN -1 ELSE 0])

UntilPlain ==
    /\ Scanning /\ ~Matches /\ call.state = 0
    /\ LET v == [u EXCEPT !.dlast = @ + 1] IN
       IF Sized /\ call.rest = 1 THEN ChunkFull(v, call.i + 1, 0)
       ELSE /\ u' = v
            /\ call' = [call EXCEPT !.i = @ + 1, !.rest = IF Sized THEN @ - 1 ELSE @]
            /\ UNCHANGED <<peer, conf, cp, before, answer>>

\* Another prefix of the pattern ends with this byte.
UntilRecover ==
    LET new == Recovered(Pat, call.state, This)
        n == call.state + 1 - new
        v == AddPending(u, Pat, At, n, call.state)
    IN /\ Scanning /\ ~Matches /\ call.state > 0 /\ new > 0
       /\ IF Sized /\ call.rest <= n THEN ChunkFull(v, call.i + 1, new)
          ELSE /\ u' = v
               /\ call' = [call EXCEPT !.i = @ + 1, !.state = new,
                                       !.rest = IF Sized THEN @ - n ELSE @]
               /\ UNCHANGED <<peer, conf, cp, before, answer>>

UntilMismatch ==
    LET v == AddPending(u, Pat, At, call.state, call.state)
    IN /\ Scanning /\ ~Matches /\ call.state > 0 /\ Recovered(Pat, call.state, This) = 0
       /\ IF Sized /\ call.rest <= call.state THEN ChunkFull(v, call.i, 0)
          ELSE Rescans(v, IF Sized THEN call.rest - call.state ELSE call.rest)

UntilEnd == /\ call # Nil /\ call.at = "scan" /\ call.i = Bytes
            /\ Again([u EXCEPT !.pos = @ + call.i], [cp EXCEPT ![call.reader].state = call.state], 0, 0)

Filter == \/ AtEof \/ ReadChunk \/ ReadAll \/ ReadAny \/ ReadLine
          \/ StartUntil \/ UntilMatch \/ UntilWhole \/ UntilPlain \/ UntilRecover
          \/ UntilMismatch \/ UntilEnd

-------------------------------------------------------------------------------
(* ngx_http_lua_socket_tcp_read.                                             *)

Reading == call # Nil /\ call.at = "loop" /\ Unread = <<>> /\ ~u.eof

\* n bytes are taken from header_in or from the connection.
Least(S) == CHOOSE x \in S : \A y \in S : x <= y

Limit == Least({WithRoom(u).cap - Len(WithRoom(u).mem), Len(peer.bytes)}
               \cup (IF conf.kind = "body" THEN {peer.rest} ELSE {}))

Takes(n, preread) ==
    /\ u' = [WithRoom(u) EXCEPT !.mem = @ \o SubSeq(peer.bytes, 1, n)]
    /\ peer' = [peer EXCEPT !.bytes = SubSeq(@, n + 1, Len(@)),
                            !.preread = IF preread THEN @ - n ELSE @,
                            !.rest = IF conf.kind = "body" THEN @ - n ELSE @]
    /\ call' = [call EXCEPT !.read = @ \/ ~preread]
    /\ UNCHANGED <<conf, cp, before, answer>>

Preread == /\ Reading /\ peer.preread > 0 /\ ~BodyRead
           /\ Takes(Least({Limit, peer.preread}), TRUE)

Recv == /\ Reading /\ peer.preread = 0 /\ ~BodyRead
        /\ \E n \in 1..Limit : Takes(n, FALSE)

\* The body has been read to its end before.
BodyEof == /\ Reading /\ BodyRead
           /\ u' = [WithRoom(u) EXCEPT !.eof = TRUE]
           /\ UNCHANGED <<peer, conf, cp, call, before, answer>>

\* recv returns 0.
PeerEof ==
    /\ Reading /\ peer.bytes = <<>> /\ ~BodyRead
    /\ IF Downstream /\ (conf.check \/ conf.kind = "body")
       THEN Fails(WithRoom(u), cp, "client aborted") /\ UNCHANGED peer
       ELSE /\ u' = [WithRoom(u) EXCEPT !.eof = TRUE]
            /\ call' = [call EXCEPT !.read = TRUE]
            /\ UNCHANGED <<peer, conf, cp, before, answer>>

RecvError == /\ Reading /\ peer.preread = 0 /\ ~BodyRead
             /\ Fails(WithRoom(u), cp, "error") /\ UNCHANGED peer

\* Nothing has arrived: the coroutine is suspended until the next event.
RecvAgain == /\ Reading /\ peer.preread = 0 /\ (call.read \/ ~BodyRead)
             /\ u' = IF call.read THEN u ELSE WithRoom(u)
             /\ call' = [call EXCEPT !.at = "wait"]
             /\ UNCHANGED <<peer, conf, cp, before, answer>>

\* ngx_http_lua_socket_read_handler.
ReadEvent == /\ call # Nil /\ call.at = "wait"
             /\ call' = [call EXCEPT !.at = "loop", !.read = FALSE]
             /\ UNCHANGED <<peer, conf, u, cp, before, answer>>

ReadTimeout == /\ call # Nil /\ call.at = "wait"
               /\ Fails(u, cp, "timeout") /\ UNCHANGED peer

TcpRead == \/ Preread \/ Recv \/ BodyEof \/ PeerEof \/ RecvError \/ RecvAgain
           \/ ReadEvent \/ ReadTimeout

\* Nothing is left to be called.
Closed == u.closed /\ UNCHANGED vars

Next == \/ Receive \/ (\E q \in Reader : Iterate(q) \/ IterateEnd(q) \/ Collect(q))
        \/ Reconnect \/ Filter \/ TcpRead \/ Closed

Spec == Init /\ [][Next]_vars

-------------------------------------------------------------------------------
(* Properties.                                                               *)

TypeOK == /\ u.pos \in 0..Len(u.mem) /\ u.dpos \in 0..u.dlast /\ u.dlast \in 0..Len(u.mem)
          /\ Len(u.mem) <= u.cap
          /\ \A q \in Reader : /\ cp[q].state \in -1..(Len(q.pattern) - 1)
                               /\ cp[q].upstream <=> u.ctx = q
          /\ peer.rest >= 0

WithoutCR(s) == SelectSeq(s, LAMBDA c : c # CR)
Start(s, n) == SubSeq(s, 1, n)
Rest(s, n) == SubSeq(s, n + 1, Len(s))

\* Where the first occurrence of p in s ends; 0 when there is none.
FirstEnd(s, p) ==
    LET ends == {n \in Len(p)..Len(s) : SubSeq(s, n - Len(p) + 1, n) = p}
    IN IF ends = {} THEN 0 ELSE Least(ends)

\* The data d may be returned by an iterator of q that found s and left r.
UntilRight(q, s, r, size, d) ==
    LET n == FirstEnd(s, q.pattern)
        head == IF n = 0 THEN s ELSE Start(s, n - Len(q.pattern))
    IN \/ /\ n > 0 /\ r = Rest(s, n)
          /\ d = IF q.inclusive THEN Start(s, n) ELSE head
          /\ size > 0 => Len(head) < size
       \/ /\ size > 0 /\ Len(d) \in size..Len(head) /\ Len(d) < size + Len(q.pattern)
          /\ d = Start(s, Len(d)) /\ r = Rest(s, Len(d))

\* A call that succeeds returns what its argument asks for, whatever the
\* pieces in which it arrived and the calls before it, and what is left can
\* be read.
Right(c, s, r, d) ==
    CASE c.filter = "chunk" -> Len(s) >= c.length /\ d = Start(s, c.length) /\ r = Rest(s, c.length)
      [] c.filter = "any" -> Len(d) \in 1..c.length /\ d = Start(s, Len(d)) /\ r = Rest(s, Len(d))
      [] c.filter = "all" -> d = s /\ r = <<>>
      [] c.filter = "line" -> LET n == FirstEnd(s, <<LF>>) IN
                              n > 0 /\ d = WithoutCR(Start(s, n - 1)) /\ r = Rest(s, n)
      [] c.filter = "until" -> UntilRight(c.reader, s, r, c.length, d)

Succeeded == answer # Nil /\ answer.err = ""
AnswersRight == Succeeded => Right(answer.call, before, Stream, answer.data)

\* The regions of the buffer lie in it, and an iterator that has not finished
\* its pattern, and no other, is the one that the cosocket points to; after a
\* timeout what was returned and what is left is all there was: the next call,
\* of any kind, goes on where this one stopped.
TimedOut == answer # Nil /\ answer.err = "timeout"
NothingLost ==
    /\ TypeOK
    /\ TimedOut => LET n == Len(before) - Len(Stream) IN
                   /\ Stream = Rest(before, n)
                   /\ answer.data = IF answer.call.filter = "line" THEN WithoutCR(Start(before, n))
                                    ELSE Start(before, n)

================================================================================
