--------------------------------- MODULE Pipe ---------------------------------
(***************************************************************************)
(* ngx.pipe: one child process of a request, the descriptors of its        *)
(* standard streams, and the coroutines that read, write and wait.         *)
(*                                                                         *)
(* A channel is the parent's end of one stream.  Its connection is made at *)
(* its first use; it is armed while its event handler is not the dummy     *)
(* handler, and then remembers the coroutine to run.  What is read and     *)
(* written is left to the nondeterministic outcome of the system call.     *)
(* Timeouts are not 0, so that an armed event always has a timer.  Failed  *)
(* allocations and failed registrations of events are left out.            *)
(***************************************************************************)
EXTENDS Coroutines

CONSTANT Channels          \* the streams that are not merged into another
ASSUME ChannelsAssumption == /\ {"stdin", "stdout"} \subseteq Channels
                             /\ Channels \subseteq {"stdin", "stdout", "stderr"}

VARIABLES
    child,     \* the child process: "none", "running", "zombie", "reaped"
    sigchld,   \* a SIGCHLD is waiting to be read
    pipe,      \* proc->pipe
    chan,      \* the channels
    fds,       \* the descriptors open in the worker
    childFds   \* the descriptors open in the child beside 0, 1 and 2

pipeVars == <<child, sigchld, pipe, chan, fds, childFds>>

Merged == "stderr" \notin Channels

\* The two ends of each stream, <<stream, 0>> for reading.
Ends == Channels \X {0, 1}
ParentEnd(f) == <<f, IF f = "stdin" THEN 1 ELSE 0>>
ChildEnd(f)  == <<f, IF f = "stdin" THEN 0 ELSE 1>>

PipeSlots == {<<"pipe", f>> : f \in Channels} \cup {<<"pipe", "wait">>}

NoPipe == [open |-> FALSE, dead |-> FALSE, closed |-> FALSE, node |-> FALSE,
           reason |-> FALSE, waitco |-> Nil, sleep |-> Nil, posted |-> FALSE]
NewPipe == [NoPipe EXCEPT !.open = TRUE, !.node = TRUE]

NewChannel == [made |-> FALSE, conn |-> FALSE, co |-> Nil, posted |-> FALSE,
               err |-> "none"]

PipeInit == /\ child = "none" /\ sigchld = FALSE
            /\ pipe = NoPipe
            /\ chan = [f \in Channels |-> NewChannel]
            /\ fds = {} /\ childFds = {}

-------------------------------------------------------------------------------
(* ngx_http_lua_ffi_pipe_spawn.  The streams are opened one after another;   *)
(* the worker then closes the child's ends and makes its own nonblocking.    *)

Order(f) == CASE f = "stdin" -> 1 [] f = "stdout" -> 2 [] OTHER -> 3

\* The descriptors open in the worker when the step fails at the stream f.
OpenAt(step, f) ==
    CASE step = "pipe" -> {e \in Ends : Order(e[1]) < Order(f)}
      [] step = "fork" -> Ends
      [] step = "nonblocking" -> Ends \ {ChildEnd(g) : g \in {h \in Channels : Order(h) <= Order(f)}}

\* The label to which the failing step goes.
BadLabel(step, f) == IF step = "pipe" THEN "free_pool" ELSE "close_in_out_err_fd"

Label(step, f) ==
    IF step # "pipe" THEN "close_in_out_err_fd"
    ELSE CASE f = "stdin" -> "free_pool"
           [] f = "stdout" -> "close_in_fd"
           [] OTHER -> "close_in_out_fd"

\* The streams whose ends are closed there and at the labels behind it, as far
\* as they are still open.
Unwinds(label) == CASE label = "free_pool" -> {}
                    [] label = "close_in_fd" -> {"stdin"}
                    [] label = "close_in_out_fd" -> {"stdin", "stdout"}
                    [] OTHER -> Channels

Unwound(opened, label) == {e \in opened : e[1] \notin Unwinds(label)}

\* The child's part: it closes the worker's ends, moves its own to 0, 1 and 2.
ChildKeeps == Ends \ ({ChildEnd(f) : f \in Channels} \cup {ParentEnd(f) : f \in Channels})

Spawn(c) == /\ Runs(c) /\ child = "none"
            /\ child' = "running" /\ childFds' = ChildKeeps
            /\ pipe' = NewPipe
            /\ fds' = {ParentEnd(f) : f \in Channels}
            /\ UNCHANGED <<coVars, sigchld, chan>>

SpawnFails(c) == \E step \in {"pipe", "fork", "nonblocking"}, f \in Channels :
    /\ Runs(c) /\ child = "none"
    /\ fds' = Unwound(OpenAt(step, f), Label(step, f))
    /\ IF step = "nonblocking" THEN child' = "running" /\ childFds' = ChildKeeps
                               ELSE UNCHANGED <<child, childFds>>
    /\ UNCHANGED <<coVars, sigchld, pipe, chan>>

-------------------------------------------------------------------------------
(* Reading and writing.                                                      *)

\* The connection of a channel is closed with its descriptor, timer and
\* posted event.
CloseConn(ch) == [ch EXCEPT !.conn = FALSE, !.co = Nil, !.posted = FALSE]

\* ngx_http_lua_pipe_init_ctx, or the error of the last operation forgotten:
\* both come before the checks of the call.
Entered(f) == IF chan[f].made THEN [chan[f] EXCEPT !.err = "none"]
              ELSE [chan[f] EXCEPT !.made = TRUE, !.conn = TRUE]

Usable(f) == pipe.open /\ ~pipe.closed /\ (chan[f].made \/ ParentEnd(f) \in fds)

\* "closed" or "pipe busy reading", "pipe busy writing".
Refused(c, f) == /\ Runs(c) /\ Usable(f)
                 /\ ~Entered(f).conn \/ Entered(f).co # Nil
                 /\ chan' = [chan EXCEPT ![f] = Entered(f)]
                 /\ UNCHANGED <<coVars, child, sigchld, pipe, fds, childFds>>

Idle(f) == Entered(f).conn /\ Entered(f).co = Nil

\* ngx_http_lua_pipe_read and _write, but for "again".
ReadResults == {"none", "closed", "syscall"}
WriteResults == {"none", "closed", "syscall"}

\* The call reads or writes at once.
Transfers(c, f) == /\ Runs(c) /\ Usable(f) /\ Idle(f)
                   /\ \E e \in IF f = "stdin" THEN WriteResults ELSE ReadResults :
                         chan' = [chan EXCEPT ![f] = [Entered(f) EXCEPT !.err = e]]
                   /\ UNCHANGED <<coVars, child, sigchld, pipe, fds, childFds>>

\* The system call would block.
Blocks(c, f) == /\ Runs(c) /\ Usable(f) /\ Idle(f)
                /\ chan' = [chan EXCEPT ![f] = [Entered(f) EXCEPT !.co = c]]
                /\ Suspends(c, <<"pipe", f>>)
                /\ UNCHANGED <<child, sigchld, pipe, fds, childFds>>

\* ngx_http_lua_pipe_resume: the value is ready and the coroutine runs.
PipeResume(c) == Resumes(c)

\* ngx_http_lua_pipe_clear_event.
Cleared(ch) == [ch EXCEPT !.co = Nil, !.posted = FALSE]

\* The timer of the event: the operation returns "timeout".
TransferTimeout(f) == /\ chan[f].co # Nil
                      /\ chan' = [chan EXCEPT ![f] = [Cleared(@) EXCEPT !.err = "timeout"]]
                      /\ PipeResume(chan[f].co)
                      /\ UNCHANGED <<child, sigchld, pipe, fds, childFds>>

\* The event was posted by a shutdown: the connection is closed now.
TransferAborted(f) == /\ chan[f].co # Nil /\ chan[f].err = "aborted"
                      /\ chan' = [chan EXCEPT ![f] = CloseConn(@)]
                      /\ fds' = fds \ {ParentEnd(f)}
                      /\ PipeResume(chan[f].co)
                      /\ UNCHANGED <<child, sigchld, pipe, childFds>>

\* The descriptor is ready, or the event was posted when the process had
\* exited: the system call returns data, the end or an error.
TransferReady(f) ==
    /\ chan[f].co # Nil /\ chan[f].err # "aborted"
    /\ \E e \in {chan[f].err, "closed", "syscall"} :
          chan' = [chan EXCEPT ![f] = [Cleared(@) EXCEPT !.err = e]]
    /\ PipeResume(chan[f].co)
    /\ UNCHANGED <<child, sigchld, pipe, fds, childFds>>

\* ... or the system call has less than the caller wants: the event is armed
\* again, and the cleanup handler is not set again.
TransferAgain(f) == /\ chan[f].co # Nil /\ chan[f].err # "aborted"
                    /\ chan' = [chan EXCEPT ![f].posted = FALSE]
                    /\ Rearms(chan[f].co)
                    /\ UNCHANGED <<child, sigchld, pipe, fds, childFds>>

\* ngx_http_lua_pipe_proc_read_stdout_cleanup, _read_stderr_, _write_.
ChannelCleanup(f) == IF pipe.open /\ chan[f].conn THEN Cleared(chan[f]) ELSE chan[f]

-------------------------------------------------------------------------------
(* Closing.                                                                  *)

\* ngx_http_lua_pipe_close_helper.
CloseHelper(ch, dead) ==
    IF ch.co # Nil
    THEN [ch EXCEPT !.posted = TRUE, !.err = IF dead THEN "closed" ELSE "aborted"]
    ELSE CloseConn(ch)

\* ngx_http_lua_pipe_close_stdin, _stdout, _stderr.
CloseChannel(ch, dead) == IF ch.conn THEN CloseHelper(ch, dead) ELSE ch

\* The descriptor is closed unless the connection stays open.
Remaining(chs) == {e \in fds : \E f \in Channels : e = ParentEnd(f) /\ chs[f].conn}

Shutdown(c, f) ==
    /\ Runs(c) /\ pipe.open /\ ~pipe.closed
    /\ LET ch == CloseChannel(chan[f], pipe.dead) IN
       /\ chan' = [chan EXCEPT ![f] = ch]
       /\ fds' = IF ch.conn THEN fds ELSE fds \ {ParentEnd(f)}
    /\ UNCHANGED <<coVars, child, sigchld, pipe, childFds>>

\* ngx_http_lua_pipe_proc_finalize.
FinalizedPipe == [pipe EXCEPT !.node = FALSE, !.dead = TRUE, !.closed = TRUE, !.waitco = Nil]
FinalizedChannels == [f \in Channels |-> CloseChannel(chan[f], TRUE)]

\* ngx_http_lua_ffi_pipe_proc_destroy: what is still open is closed as well.
DestroyedChannels == [f \in Channels |-> CloseConn(FinalizedChannels[f])]
DestroyedPipe == [FinalizedPipe EXCEPT !.open = FALSE]

Destroy == /\ pipe.open
           /\ pipe' = DestroyedPipe
           /\ chan' = DestroyedChannels
           /\ fds' = {}
           /\ child' = IF ~pipe.dead /\ child = "running" THEN "zombie" ELSE child
           /\ sigchld' = (sigchld \/ child' # child)
           /\ UNCHANGED childFds

\* The process object is collected when no coroutine that waits refers to it.
PipeGC == /\ alive /\ \A c \in Coroutine : at[c] \notin PipeSlots
          /\ Destroy /\ UNCHANGED coVars

-------------------------------------------------------------------------------
(* The child, its exit and the coroutine that waits for it.                  *)

ChildExit == /\ child = "running" /\ child' = "zombie"
             /\ sigchld' \in {TRUE, sigchld}        \* the notification may be lost
             /\ UNCHANGED <<coVars, pipe, chan, fds, childFds>>

\* ngx_http_lua_ffi_pipe_proc_kill.
SignalChild(c) == /\ Runs(c) /\ pipe.open /\ ~pipe.dead /\ child = "running"
                  /\ child' = "zombie" /\ sigchld' = TRUE
                  /\ UNCHANGED <<coVars, pipe, chan, fds, childFds>>

\* ngx_http_lua_pipe_reap_pids.
ReapPids == /\ child' = IF child = "zombie" THEN "reaped" ELSE child
            /\ pipe' = IF child = "zombie" /\ pipe.node
                       THEN [pipe EXCEPT !.reason = TRUE, !.dead = TRUE, !.posted = pipe.waitco # Nil]
                       ELSE pipe

SigchldEvent == /\ sigchld /\ sigchld' = FALSE
                /\ ReapPids
                /\ UNCHANGED <<coVars, chan, fds, childFds>>

\* The timer of a second that reaps what no signal announced.
ReapTimer == /\ child = "zombie"
             /\ ReapPids
             /\ UNCHANGED <<coVars, sigchld, chan, fds, childFds>>

\* The process runs, and nobody waits for it yet.
Wait(c) == /\ Runs(c) /\ pipe.open /\ ~pipe.closed /\ pipe.waitco = Nil /\ ~pipe.reason
           /\ pipe' = [pipe EXCEPT !.waitco = c, !.sleep = c, !.posted = FALSE]
           /\ Suspends(c, <<"pipe", "wait">>)
           /\ UNCHANGED <<child, sigchld, chan, fds, childFds>>

\* The process has exited.
WaitDone(c) == /\ Runs(c) /\ pipe.open /\ ~pipe.closed /\ pipe.waitco = Nil /\ pipe.reason
               /\ pipe' = FinalizedPipe
               /\ chan' = FinalizedChannels
               /\ fds' = Remaining(FinalizedChannels)
               /\ UNCHANGED <<coVars, child, sigchld, childFds>>

\* The event posted by the reaper.
WaitEvent == /\ pipe.sleep # Nil /\ pipe.posted
             /\ pipe' = [FinalizedPipe EXCEPT !.sleep = Nil, !.posted = FALSE]
             /\ chan' = FinalizedChannels
             /\ fds' = Remaining(FinalizedChannels)
             /\ PipeResume(pipe.sleep)
             /\ UNCHANGED <<child, sigchld, childFds>>

\* Its timer, which may come first although the process has exited.
WaitTimeout == /\ pipe.sleep # Nil
               /\ pipe' = [pipe EXCEPT !.sleep = Nil, !.posted = FALSE, !.waitco = Nil]
               /\ PipeResume(pipe.sleep)
               /\ UNCHANGED <<child, sigchld, chan, fds, childFds>>

\* ngx_http_lua_pipe_proc_wait_cleanup, after pipe_proc_destroy or not.
BadWaitCleanup(p) == IF p.open THEN [p EXCEPT !.waitco = Nil, !.sleep = Nil, !.posted = FALSE]
                     ELSE p

WaitCleanup(p) == IF p.open THEN [p EXCEPT !.waitco = Nil, !.sleep = Nil, !.posted = FALSE]
                  ELSE [p EXCEPT !.sleep = Nil, !.posted = FALSE]

-------------------------------------------------------------------------------
PipeCall(c) == \/ Spawn(c) \/ SpawnFails(c) \/ SignalChild(c) \/ Wait(c) \/ WaitDone(c)
               \/ \E f \in Channels : Refused(c, f) \/ Transfers(c, f) \/ Blocks(c, f) \/ Shutdown(c, f)

PipeEvent == \/ ChildExit \/ SigchldEvent \/ ReapTimer \/ WaitEvent \/ WaitTimeout \/ PipeGC
             \/ \E f \in Channels : \/ TransferTimeout(f) \/ TransferAborted(f)
                                    \/ TransferReady(f) \/ TransferAgain(f)

===============================================================================
