------------------------------- MODULE ClientIO -------------------------------
(***************************************************************************)
(* What a request's coroutines wait for on the client's connection: the    *)
(* request body (ngx.req.read_body) and output that is still buffered      *)
(* (ngx.flush(true)).  The coroutines are numbered in the order in which   *)
(* they were created; the first is the entry thread.                       *)
(***************************************************************************)
EXTENDS Coroutines

CONSTANT MaxFlushing   \* bound: the count of flushing coroutines at which a flush
                       \* whose write event cannot be armed is left out
ASSUME ClientAssumption == MaxFlushing \in Nat

VARIABLES
    body,      \* the request body and the coroutine that waits for it
    out        \* the pending output and the coroutines that wait for it

clientVars == <<body, out>>

ClientSlots == {<<"client", "body">>, <<"client", "flush">>}

ClientInit ==
    /\ body = [started |-> FALSE, complete |-> FALSE, waiting |-> FALSE, co |-> Nil]
    /\ out = [buffered |-> FALSE, timer |-> FALSE, flushing |-> {}, coros |-> 0,
              left |-> 0, from |-> 0]

\* A pass of process_flushing_coroutines is under way and no event is handled;
\* until it has resumed its first coroutine, no Lua code runs either.
InPass == out.from # 0
PassBegins == out.from = 1

-------------------------------------------------------------------------------
(* The request body.                                                         *)

ReadBodyNow(c) == /\ Runs(c) /\ ~body.started
                  /\ body' = [body EXCEPT !.started = TRUE, !.complete = TRUE]
                  /\ UNCHANGED <<coVars, out>>

ReadBodyBlocks(c) == /\ Runs(c) /\ ~body.started
                     /\ body' = [body EXCEPT !.started = TRUE, !.waiting = TRUE, !.co = c]
                     /\ Suspends(c, <<"client", "body">>)
                     /\ UNCHANGED out

\* ngx_http_lua_req_body_post_read: nothing when nobody waits any more.
PostRead == IF body.waiting THEN Resumes(body.co) ELSE UNCHANGED coVars

\* nginx has begun to read the body already and calls the handler at once.
ReadBodyAgain(c) == /\ Runs(c) /\ body.started
                    /\ PostRead
                    /\ body' = [body EXCEPT !.waiting = FALSE]
                    /\ UNCHANGED out

BodyComplete == /\ alive /\ body.started /\ ~body.complete /\ ~InPass
                /\ PostRead
                /\ body' = [body EXCEPT !.waiting = FALSE, !.complete = TRUE]
                /\ UNCHANGED out

\* ngx_http_lua_req_body_cleanup.
BodyCleanup == [body EXCEPT !.waiting = FALSE]

-------------------------------------------------------------------------------
(* Output.                                                                   *)

\* Everything is sent, or the call does not wait.
FlushNow(c) == /\ Runs(c)
               /\ out' \in {[out EXCEPT !.buffered = b] : b \in {out.buffered, TRUE}}
               /\ UNCHANGED <<coVars, body>>

FlushBlocks(c) == /\ Runs(c)
                  /\ out' = [out EXCEPT !.buffered = TRUE, !.timer = TRUE,
                                        !.flushing = @ \cup {c}, !.coros = @ + 1]
                  /\ Suspends(c, <<"client", "flush">>)
                  /\ UNCHANGED body

\* The output is buffered and the write event cannot be armed: the coroutine is
\* flagged and counted, but it goes on, with an error; the timer is deleted.
FlushBroken(c) == /\ Runs(c) /\ out.coros < MaxFlushing
                  /\ out' = [out EXCEPT !.buffered = TRUE, !.timer = FALSE,
                                        !.flushing = @ \cup {c}, !.coros = @ + 1]
                  /\ UNCHANGED <<coVars, body>>

\* ngx_http_lua_wev_handler: the client has taken everything, the timer of
\* the connection has expired, or the connection is broken; the coroutines
\* that flush are to be resumed one after the other.
BadStartsPass(o) == [o EXCEPT !.left = o.coros - 1, !.from = IF o.coros > 1 THEN 1 ELSE 0]

StartsPass(o) == [o EXCEPT !.left = o.coros, !.from = IF o.coros > 0 THEN 1 ELSE 0]

WriteEvent == /\ alive /\ ~InPass /\ out.buffered
              /\ \E sent \in BOOLEAN :
                    out' = StartsPass([out EXCEPT !.timer = FALSE, !.buffered = ~sent])
              /\ UNCHANGED <<coVars, body>>

SendTimeout == /\ alive /\ ~InPass /\ out.timer
               /\ out' = StartsPass([out EXCEPT !.timer = FALSE])
               /\ UNCHANGED <<coVars, body>>

\* One round of process_flushing_coroutines: the next one in the list that is
\* flagged, wherever it is.
Flushed(c) == [out EXCEPT !.flushing = @ \ {c}, !.coros = @ - 1, !.left = @ - 1,
                          !.from = IF out.left = 1 THEN 0 ELSE c + 1]

FlushResume == \E c \in out.flushing :
    /\ alive /\ InPass /\ c >= out.from
    /\ \A d \in out.flushing : d < out.from \/ c <= d
    /\ out' = Flushed(c)
    /\ Resumes(c)
    /\ UNCHANGED body

\* The list ends although some were still expected: they have been killed
\* by those that ran before them, or were counted twice.
PassEnds == /\ InPass /\ \A c \in out.flushing : c < out.from
            /\ out' = [out EXCEPT !.left = 0, !.from = 0]
            /\ UNCHANGED <<coVars, body>>

\* ngx_http_lua_flush_cleanup: the timer is deleted for all of them.
FlushCleanup(c) == [out EXCEPT !.flushing = @ \ {c}, !.timer = FALSE, !.coros = @ - 1]

-------------------------------------------------------------------------------
\* FlushBroken is a call of its own: what the program does next matters.
ClientCall(c) == \/ ReadBodyNow(c) \/ ReadBodyBlocks(c) \/ ReadBodyAgain(c)
                 \/ FlushNow(c) \/ FlushBlocks(c)
ClientEvent == BodyComplete \/ WriteEvent \/ SendTimeout \/ FlushResume \/ PassEnds

===============================================================================
