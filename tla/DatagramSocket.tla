---------------------------- MODULE DatagramSocket ----------------------------
(***************************************************************************)
(* One datagram cosocket (ngx.socket.udp) that the coroutines of a request *)
(* share: setpeername waits for the resolver, receive for a datagram.  The *)
(* upstream has one flag for both, waiting, and co_ctx is the coroutine    *)
(* that waited last.  A peer that is an address needs no resolver.  Failed *)
(* allocations are left out.                                               *)
(***************************************************************************)
EXTENDS Coroutines

VARIABLE udp

NewUdp == [conn |-> FALSE, waiting |-> FALSE, co |-> Nil, resolving |-> FALSE,
           reading |-> FALSE]

UdpInit == udp = NewUdp

UdpSlots == {<<"udp", "resolve">>, <<"udp", "receive">>}

\* ngx_http_lua_socket_udp_finalize; the resolver's context is freed.
FinalizedUdp == [udp EXCEPT !.conn = FALSE, !.waiting = FALSE, !.resolving = FALSE,
                            !.reading = FALSE]

\* handle_success and handle_error clear the cleanup handler of the
\* coroutine that waited last, whether or not it waits now.
ForgetsCleanup == cleanup' = IF udp.co = Nil THEN cleanup ELSE [cleanup EXCEPT ![udp.co] = Nil]

\* ngx_http_lua_socket_udp_connect.
Connects(u) == {[u EXCEPT !.conn = ok] : ok \in BOOLEAN}

\* ngx_http_lua_socket_udp_resume.
UdpResume == Resumes(udp.co)

\* setpeername with an address: an open connection is finalized, the
\* upstream is cleared and connected.
SetPeerAddress(c) == /\ Runs(c) /\ ~udp.waiting
                     /\ udp' \in Connects(NewUdp)
                     /\ UNCHANGED coVars

\* setpeername with a name that is not in the resolver's cache.
SetPeerName(c) == /\ Runs(c) /\ ~udp.waiting
                  /\ udp' = [NewUdp EXCEPT !.co = c, !.waiting = TRUE, !.resolving = TRUE]
                  /\ Suspends(c, <<"udp", "resolve">>)

\* ngx_http_lua_socket_resolve_handler, then udp_connect.
ResolveHandler == /\ udp.resolving
                  /\ udp' \in Connects([udp EXCEPT !.waiting = FALSE, !.resolving = FALSE])
                  /\ IF udp.waiting THEN UdpResume
                     ELSE ForgetsCleanup /\ UNCHANGED <<at, alive>>

\* Sending is refused while a coroutine waits; else the flag that it clears
\* was not set.
UdpSend(c) == /\ Runs(c) /\ udp.conn /\ ~udp.waiting
              /\ udp' = [udp EXCEPT !.waiting = FALSE]
              /\ UNCHANGED coVars

\* A datagram, or an error, is there at once.
ReceiveNow(c) == /\ Runs(c) /\ udp.conn /\ ~udp.waiting
                 /\ udp' = [udp EXCEPT !.reading = FALSE]
                 /\ ForgetsCleanup /\ UNCHANGED <<at, alive>>

UdpFree == ~udp.waiting

ReceiveBlocks(c) == /\ Runs(c) /\ udp.conn /\ UdpFree
                    /\ udp' = [udp EXCEPT !.waiting = TRUE, !.co = c, !.reading = TRUE]
                    /\ Suspends(c, <<"udp", "receive">>)

\* ngx_http_lua_socket_udp_read_handler: a datagram, an error or the timer.
ReadHandled == [udp EXCEPT !.waiting = FALSE, !.reading = FALSE]

UdpReadHandler == /\ udp.conn /\ udp.reading
                  /\ udp' = ReadHandled
                  /\ IF udp.waiting THEN UdpResume
                     ELSE ForgetsCleanup /\ UNCHANGED <<at, alive>>

UdpClose(c) == /\ Runs(c) /\ udp.conn /\ ~udp.waiting
               /\ udp' = FinalizedUdp
               /\ UNCHANGED coVars

\* ngx_http_lua_udp_resolve_cleanup leaves the flag, the answer is thrown away;
\* ngx_http_lua_udp_socket_cleanup closes the socket.
UdpCleanup(dir) == IF dir = "resolve" THEN [udp EXCEPT !.resolving = FALSE] ELSE FinalizedUdp

UdpCall(c) == \/ SetPeerAddress(c) \/ SetPeerName(c) \/ UdpSend(c) \/ ReceiveNow(c)
              \/ ReceiveBlocks(c) \/ UdpClose(c)
UdpEvent == ResolveHandler \/ UdpReadHandler

===============================================================================
