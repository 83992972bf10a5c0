------------------------------- MODULE RequestIO -------------------------------
(***************************************************************************)
(* The coroutines of one request, the objects they wait on, and what ends  *)
(* a wait from outside: a coroutine is killed, or the request ends.  Any   *)
(* coroutine may call any operation of any object the request uses.        *)
(*                                                                         *)
(* Careful = TRUE leaves out what the code does not cope with, each named  *)
(* below (Copes, EndCopes, ReadsAgain, and what FlushFails says);          *)
(* Careful = FALSE leaves out nothing.                                     *)
(***************************************************************************)
EXTENDS Pipe, WorkerThread, DatagramSocket, StreamSocket, ClientIO

CONSTANTS Together,      \* which sets of objects a request uses
          Careful
ASSUME RequestIOAssumption ==
    /\ Together \subseteq SUBSET {"pipe", "thread", "udp", "tcp", "client"}
    /\ Careful \in BOOLEAN

VARIABLES
    uses,      \* the objects of the request
    failing    \* the coroutine that ends the request now, since its flush failed

vars == <<coVars, pipeVars, threadVars, udp, tcp, clientVars, uses, failing>>

Init == /\ CoInit /\ PipeInit /\ ThreadInit /\ UdpInit /\ TcpInit /\ ClientInit
        /\ uses \in Together /\ failing = Nil

Slots == PipeSlots \cup ThreadSlots \cup UdpSlots \cup TcpSlots \cup ClientSlots
ASSUME SlotsAssumption == Nil \notin Slots

Suspended(c) == at[c] \notin {Ready, Dead}

-------------------------------------------------------------------------------
(* ngx_http_lua_cleanup_pending_operation: the handler of the slot s.        *)

PipeCleaned(s) ==
    IF s[1] # "pipe" THEN UNCHANGED <<pipe, chan>>
    ELSE IF s[2] = "wait" THEN pipe' = WaitCleanup(pipe) /\ UNCHANGED chan
    ELSE chan' = [chan EXCEPT ![s[2]] = ChannelCleanup(s[2])] /\ UNCHANGED pipe

OtherCleaned(s, c) ==
    /\ udp' = IF s[1] = "udp" THEN UdpCleanup(s[2]) ELSE udp
    /\ tcp' = IF s[1] = "tcp" THEN TcpCleanup ELSE tcp
    /\ task' = IF s[1] = "thread" THEN [task EXCEPT ![s[2]] = ThreadCleanup(s[2])] ELSE task
    /\ body' = IF s = <<"client", "body">> THEN BodyCleanup ELSE body
    /\ out' = IF s = <<"client", "flush">> THEN FlushCleanup(c) ELSE out

\* The cleanup handler of a coroutine that waits may be lost: a pipe operation
\* is armed again without one (pipe.c:2463), and a datagram cosocket clears
\* that of the coroutine that waited there last, wherever it waits now
\* (socket_udp.c:1396, 1443).
Intact(d) == Suspended(d) => cleanup[d] = at[d]

\* What a careful program does not do: kill a coroutine whose cleanup handler
\* was lost, or one that shares a stream cosocket, or the client's timer, with
\* another one that waits.
Copes(c) == \/ ~Careful
            \/ /\ Intact(c)
               /\ \A d \in Coroutine \ {c} : at[d][1] \in {"tcp", "client"} => at[c][1] # at[d][1]

\* ngx.thread.kill.
Kill(c) ==
    /\ alive /\ failing = Nil /\ Suspended(c) /\ Copes(c)
    /\ at' = [at EXCEPT ![c] = Dead]
    /\ cleanup' = [cleanup EXCEPT ![c] = Nil]
    /\ IF cleanup[c] = Nil THEN UNCHANGED <<pipe, chan, udp, tcp, task, body, out>>
       ELSE PipeCleaned(cleanup[c]) /\ OtherCleaned(cleanup[c], c)
    /\ UNCHANGED <<alive, uses, failing, child, sigchld, fds, childFds, ctxpool, vmCount>>

-------------------------------------------------------------------------------
(* The request ends: the cleanup handlers of its coroutines run, and the     *)
(* cleanup handlers of its pool destroy the objects, in either order.        *)

Pending == {cleanup[c] : c \in Coroutine} \ {Nil}

EndOfPipe ==
    LET waits == <<"pipe", "wait">> \in Pending IN
    IF ~pipe.open THEN UNCHANGED <<child, sigchld, pipe, chan, fds>>
    ELSE /\ \/ pipe' = [DestroyedPipe EXCEPT !.sleep = IF waits THEN Nil ELSE pipe.sleep]
            \/ pipe' = IF waits THEN WaitCleanup(DestroyedPipe) ELSE DestroyedPipe
         /\ chan' = DestroyedChannels
         /\ fds' = {}
         /\ child' = IF ~pipe.dead /\ child = "running" THEN "zombie" ELSE child
         /\ sigchld' = (sigchld \/ child' # child)

\* Nor does its request end while somebody waits without a cleanup handler for
\* a child process or a worker thread, which outlive the request.
EndCopes == \A d \in Coroutine : at[d][1] \in {"pipe", "thread"} => Intact(d)

RequestEnd ==
    /\ alive /\ alive' = FALSE /\ failing' = Nil /\ (Careful => EndCopes)
    /\ at' = [c \in Coroutine |-> Dead] /\ cleanup' = [c \in Coroutine |-> Nil]
    /\ EndOfPipe
    /\ udp' = [FinalizedUdp EXCEPT !.waiting = FALSE]
    /\ tcp' = TcpFinalized(tcp)
    /\ task' = [v \in VM |-> IF <<"thread", v>> \in Pending THEN ThreadCleanup(v) ELSE task[v]]
    /\ body' = BodyCleanup
    /\ out' = [out EXCEPT !.flushing = {}, !.coros = 0, !.timer = FALSE, !.left = 0, !.from = 0]
    /\ UNCHANGED <<uses, childFds, ctxpool, vmCount>>

-------------------------------------------------------------------------------
Others(obj) ==
    /\ obj # "pipe" => UNCHANGED pipeVars
    /\ obj # "thread" => UNCHANGED threadVars
    /\ obj # "udp" => UNCHANGED udp
    /\ obj # "tcp" => UNCHANGED tcp
    /\ obj # "client" => UNCHANGED <<clientVars, failing>>
    /\ UNCHANGED uses

Uses(obj) == obj \in uses /\ failing = Nil /\ Others(obj)

\* A careful program does not read the body again while another coroutine
\* waits for it.
ReadsAgain == body.waiting /\ ~body'.waiting

\* It ends the request as soon as a flush has failed, before anything happens
\* on the connection.
FlushFails(c) == /\ FlushBroken(c) /\ (Careful => EndCopes)
                 /\ failing' = IF Careful THEN c ELSE Nil

Call(c) == \/ Uses("pipe") /\ PipeCall(c)
           \/ Uses("thread") /\ ThreadCall(c)
           \/ Uses("udp") /\ UdpCall(c)
           \/ Uses("tcp") /\ TcpCall(c)
           \/ Uses("client") /\ ClientCall(c) /\ failing' = Nil /\ ~(Careful /\ ReadsAgain)
           \/ Uses("client") /\ FlushFails(c)

Event == \/ Uses("pipe") /\ PipeEvent
         \/ Uses("thread") /\ ThreadEvents
         \/ Uses("udp") /\ UdpEvent
         \/ Uses("tcp") /\ TcpEvent
         \/ Uses("client") /\ ClientEvent /\ failing' = Nil

Stops == (\A c \in Coroutine : at[c] = Dead) /\ UNCHANGED vars

Next == \/ \E c \in Coroutine : ~PassBegins /\ (Call(c) \/ Kill(c))
        \/ ~PassBegins /\ RequestEnd
        \/ Event \/ Stops

-------------------------------------------------------------------------------
\* What is armed fires: its timer, at the latest.  Nothing is assumed of the
\* client, of the child process, or of the timer of the coroutine that waits
\* for it.
Resumption(c) == /\ Event /\ Suspended(c) /\ at'[c] = Ready
                 /\ at[c] = <<"pipe", "wait">> => pipe.posted

Fairness == /\ \A c \in Coroutine : WF_vars(Resumption(c))
            /\ WF_vars(Uses("pipe") /\ ReapTimer)
            /\ \A v \in VM : WF_vars(Uses("thread") /\ (ThreadRuns(v) \/ ThreadEvent(v)))
            /\ WF_vars(Uses("client") /\ SendTimeout /\ failing' = Nil)
            /\ WF_vars(Uses("client") /\ PassEnds /\ failing' = Nil)
            /\ SF_vars(Uses("client") /\ BodyComplete /\ failing' = Nil)    \* a pass only delays it
            /\ WF_vars(failing # Nil /\ RequestEnd)       \* the same Lua code goes on

Spec == Init /\ [][Next]_vars
FairSpec == Spec /\ Fairness

-------------------------------------------------------------------------------
(* Properties.                                                               *)

TypeOK ==
    /\ at \in [Coroutine -> Slots \cup {Ready, Dead}]
    /\ cleanup \in [Coroutine -> Slots \cup {Nil}]
    /\ child \in {"none", "running", "zombie", "reaped"}
    /\ \A f \in Channels : chan[f].co \in Coroutine \cup {Nil}
    /\ ctxpool \subseteq VM /\ vmCount \in 0..MaxVMs
    /\ {udp.co, tcp.readCo, tcp.writeCo, body.co} \subseteq Coroutine \cup {Nil}
    /\ out.flushing \subseteq Coroutine /\ out.coros \in Nat

\* The coroutines that the fields of the objects say are waiting.
Only(p, c) == IF p THEN {c} ELSE {}

Waiters(s) ==
    CASE s[1] = "pipe" /\ s[2] # "wait" -> Only(chan[s[2]].co # Nil, chan[s[2]].co)
      [] s = <<"pipe", "wait">>      -> Only(pipe.sleep # Nil, pipe.sleep)
      [] s[1] = "thread"             -> Only(Holds(s[2]) /\ ~task[s[2]].abort, task[s[2]].co)
      [] s = <<"udp", "resolve">>    -> Only(udp.waiting /\ udp.resolving, udp.co)
      [] s = <<"udp", "receive">>    -> Only(udp.waiting /\ udp.reading, udp.co)
      [] s[1] = "tcp"                -> Only(tcp.conn /\ tcp.waiting[s[2]], WaiterOf(s[2]))
      [] s = <<"client", "body">>    -> Only(body.waiting, body.co)
      [] OTHER                       -> out.flushing \ {failing}

\* The flags and pointers of all these objects implement the one contract of
\* Suspension: no coroutine is resumed for what another one waits for, or
\* twice, or after it was killed, or after the request has ended.
Contract == INSTANCE Suspension
                WITH Slot <- Slots, Shared <- {<<"client", "flush">>},
                     waiters <- [s \in Slots |-> Waiters(s)]
Refines == Contract!Spec

\* A coroutine that is suspended is resumed, or killed, or its request ends:
\* what it waits for fires or times out.  One that waits for a child process
\* is resumed when the process has exited, although the signal may be lost.
WaitsEnd == \A c \in Coroutine :
    (Suspended(c) /\ (at[c] = <<"pipe", "wait">> => child # "running")) ~> ~Suspended(c)

\* The worker holds the parent's ends that its channels still use and no
\* other descriptor of the child's streams, whatever failed when the process
\* was spawned; the child holds none of them, so that it sees the end of its
\* input and the worker the end of its output.
FdsExact == /\ fds \subseteq {ParentEnd(f) : f \in Channels}
            /\ ~pipe.open => fds = {}
            /\ \A f \in Channels : chan[f].made => (chan[f].conn <=> ParentEnd(f) \in fds)
            /\ \A f \in Channels : ParentEnd(f) \notin childFds

\* A signal is sent only to a child that has not been reaped: its number may
\* belong to another process afterwards.
PidValid == pipe.open /\ ~pipe.dead => child # "reaped"

\* Every Lua VM that was made is free or held by one task, and there are not
\* more than the limit.
VmsExact == /\ vmCount = Cardinality(Made)
            /\ \A v \in VM : v \in ctxpool => ~Holds(v)

\* A channel that is armed belongs to a coroutine that waits there.
NoStaleEvent == \A f \in Channels : chan[f].co # Nil => at[chan[f].co] = <<"pipe", f>>

\* The write handler expects as many coroutines as are flagged; more only when
\* one was counted twice, after its write event could not be armed.
FlushExact == /\ Cardinality(out.flushing) <= out.coros
              /\ Careful => out.coros = Cardinality(out.flushing)

\* What the request's objects share with others is accounted for: descriptors,
\* the child process, the VMs of worker threads and the count of flushers.
ResourcesExact == TypeOK /\ FdsExact /\ PidValid /\ VmsExact /\ FlushExact

===============================================================================
