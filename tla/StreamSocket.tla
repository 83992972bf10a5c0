----------------------------- MODULE StreamSocket -----------------------------
(***************************************************************************)
(* One connected stream cosocket (ngx.socket.tcp) that the coroutines of a *)
(* request share.  One may read while another writes; a TLS handshake has  *)
(* the socket for itself and uses the writer's fields.  What is read and   *)
(* written is left to the nondeterministic outcome of the system calls;    *)
(* connecting is modelled in SocketPool.                                   *)
(***************************************************************************)
EXTENDS Coroutines

VARIABLE tcp

Dirs == {"conn", "read", "write"}

Connected == [conn |-> TRUE, readClosed |-> FALSE, writeClosed |-> FALSE,
              waiting |-> [d \in Dirs |-> FALSE], readCo |-> Nil, writeCo |-> Nil]

TcpInit == tcp = Connected

TcpSlots == {<<"tcp", d>> : d \in Dirs}

WaiterOf(d) == IF d = "read" THEN tcp.readCo ELSE tcp.writeCo

\* ngx_http_lua_socket_tcp_check_busy.
Busy(ds) == \E d \in ds : tcp.waiting[d]

\* ngx_http_lua_socket_tcp_finalize: both parts, and the connection.
TcpFinalized(u) == [u EXCEPT !.conn = FALSE, !.readClosed = TRUE, !.writeClosed = TRUE]

\* ngx_http_lua_socket_tcp_finalize_read_part, _write_part.
ReadPartClosed(u) == [u EXCEPT !.readClosed = TRUE]
WritePartClosed(u) == [u EXCEPT !.writeClosed = TRUE]

NotWaiting(u, d) == IF d = "read" THEN [u EXCEPT !.waiting["read"] = FALSE, !.readCo = Nil]
                    ELSE [u EXCEPT !.waiting[d] = FALSE, !.writeCo = Nil]

Waits(u, d, c) == IF d = "read" THEN [u EXCEPT !.waiting["read"] = TRUE, !.readCo = c]
                  ELSE [u EXCEPT !.waiting[d] = TRUE, !.writeCo = c]

\* ngx_http_lua_socket_tcp_resume_helper.
TcpResume(d) == Resumes(WaiterOf(d))

-------------------------------------------------------------------------------
(* The TLS handshake.                                                        *)

CanShake == tcp.conn /\ ~tcp.readClosed /\ ~tcp.writeClosed /\ ~Busy(Dirs)

\* It completes at once, well or badly; write_co_ctx is set before it starts.
HandshakeNow(c) == /\ Runs(c) /\ CanShake
                   /\ \/ tcp' = [tcp EXCEPT !.writeCo = c]
                      \/ tcp' = TcpFinalized([tcp EXCEPT !.writeCo = c])
                   /\ UNCHANGED coVars

HandshakeBlocks(c) == /\ Runs(c) /\ CanShake
                      /\ tcp' = Waits(tcp, "conn", c)
                      /\ Suspends(c, <<"tcp", "conn">>)

\* ngx_http_lua_ssl_handshake_handler: success.
HandshakeDone == /\ tcp.conn /\ tcp.waiting["conn"]
                 /\ tcp' = NotWaiting(tcp, "conn")
                 /\ TcpResume("conn")

\* Timeout, failure or a certificate that does not verify.
HandshakeFailed(u) == NotWaiting(TcpFinalized(u), "conn")

HandshakeError == /\ tcp.conn /\ tcp.waiting["conn"]
                  /\ tcp' = HandshakeFailed(tcp)
                  /\ TcpResume("conn")

-------------------------------------------------------------------------------
(* Reading.                                                                  *)

CanRead == tcp.conn /\ ~tcp.readClosed /\ ~Busy({"conn", "read"})

\* The data are there, or the call ends in an error that closes the part.
ReadNow(c) == /\ Runs(c) /\ CanRead
              /\ \/ tcp' = [tcp EXCEPT !.readCo = Nil]
                 \/ tcp' = ReadPartClosed([tcp EXCEPT !.readCo = Nil])
              /\ UNCHANGED coVars

ReadBlocks(c) == /\ Runs(c) /\ CanRead
                 /\ tcp' = Waits(tcp, "read", c)
                 /\ Suspends(c, <<"tcp", "read">>)

\* ngx_http_lua_socket_handle_read_success, or the timer: a timeout leaves
\* the part open.
ReadDone == /\ tcp.conn /\ tcp.waiting["read"]
            /\ tcp' = NotWaiting(tcp, "read")
            /\ TcpResume("read")

\* ngx_http_lua_socket_handle_read_error.
ReadError == /\ tcp.conn /\ tcp.waiting["read"]
             /\ tcp' = ReadPartClosed(NotWaiting(tcp, "read"))
             /\ TcpResume("read")

-------------------------------------------------------------------------------
(* Writing.                                                                  *)

\* ngx_http_lua_socket_handle_write_error: every error, a timeout too, closes
\* the part.
WriteFailed(u) == WritePartClosed(NotWaiting(u, "write"))

CanWrite == tcp.conn /\ ~tcp.writeClosed /\ ~Busy({"conn", "write"})

WriteNow(c) == /\ Runs(c) /\ CanWrite
               /\ \/ tcp' = NotWaiting(tcp, "write")
                  \/ tcp' = WriteFailed(tcp)
               /\ UNCHANGED coVars

WriteBlocks(c) == /\ Runs(c) /\ CanWrite
                  /\ tcp' = Waits(tcp, "write", c)
                  /\ Suspends(c, <<"tcp", "write">>)

WriteDone == /\ tcp.conn /\ tcp.waiting["write"]
             /\ tcp' \in {NotWaiting(tcp, "write"), WriteFailed(tcp)}
             /\ TcpResume("write")

-------------------------------------------------------------------------------
\* ngx_http_lua_socket_tcp_close.
TcpClose(c) == /\ Runs(c) /\ tcp.conn /\ ~(tcp.readClosed /\ tcp.writeClosed) /\ ~Busy(Dirs)
               /\ tcp' = TcpFinalized(tcp)
               /\ UNCHANGED coVars

\* ngx_http_lua_coctx_cleanup: whatever the coroutine waited for, the whole
\* socket is finalized, and no flag is cleared.
TcpCleanup == TcpFinalized(tcp)

TcpCall(c) == \/ HandshakeNow(c) \/ HandshakeBlocks(c) \/ ReadNow(c) \/ ReadBlocks(c)
              \/ WriteNow(c) \/ WriteBlocks(c) \/ TcpClose(c)
TcpEvent == HandshakeDone \/ HandshakeError \/ ReadDone \/ ReadError \/ WriteDone

===============================================================================
