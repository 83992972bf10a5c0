---------------------------- MODULE RequestIOProofs ----------------------------
(* The flags and pointers of the objects on which the coroutines of a        *)
(* request wait implement the contract of Suspension, if the program is      *)
(* careful; the resources are accounted for whether it is or not.            *)
EXTENDS RequestIO, TLAPS, FiniteSetTheorems

MaybeCoroutine == Coroutine \cup {Nil}

Processes == [open : BOOLEAN, dead : BOOLEAN, closed : BOOLEAN, node : BOOLEAN, reason : BOOLEAN,
              waitco : MaybeCoroutine, sleep : MaybeCoroutine, posted : BOOLEAN]
ChannelStates == [made : BOOLEAN, conn : BOOLEAN, co : MaybeCoroutine, posted : BOOLEAN,
                  err : {"none", "closed", "syscall", "timeout", "aborted"}]
Tasks == [co : MaybeCoroutine, ran : BOOLEAN, abort : BOOLEAN]
Datagrams == [conn : BOOLEAN, waiting : BOOLEAN, co : MaybeCoroutine, resolving : BOOLEAN,
              reading : BOOLEAN]
Streams == [conn : BOOLEAN, readClosed : BOOLEAN, writeClosed : BOOLEAN, waiting : [Dirs -> BOOLEAN],
            readCo : MaybeCoroutine, writeCo : MaybeCoroutine]
Bodies == [started : BOOLEAN, complete : BOOLEAN, waiting : BOOLEAN, co : MaybeCoroutine]

CoroutineTypes == /\ at \in [Coroutine -> Slots \cup {Ready, Dead}]
                  /\ cleanup \in [Coroutine -> Slots \cup {Nil}]

-------------------------------------------------------------------------------
(* What each object keeps to.                                                *)

\* A descriptor belongs to a connection, a coroutine to an armed channel; a
\* child is reaped under the eyes of its node.
PipeKeeps ==
    /\ pipe \in Processes /\ chan \in [Channels -> ChannelStates]
    /\ child \in {"none", "running", "zombie", "reaped"}
    /\ FdsExact /\ PidValid
    /\ child = "none" => ~pipe.open /\ pipe.sleep = Nil /\ \A f \in Channels : chan[f] = NewChannel
    /\ pipe.open /\ pipe.sleep # Nil => pipe.waitco # Nil
    /\ Careful => pipe.open \/ pipe.sleep = Nil
    /\ pipe.open /\ ~pipe.dead => pipe.node
    /\ \A f \in Channels : /\ chan[f].conn => chan[f].made
                           /\ chan[f].co # Nil => chan[f].conn

ThreadKeeps ==
    /\ ctxpool \subseteq VM /\ vmCount \in Nat /\ task \in [VM -> Tasks]
    /\ VmsExact
    /\ \A v \in VM : task[v].co = Nil => task[v] = NoTask

UdpKeeps ==
    /\ udp \in Datagrams
    /\ udp.waiting => udp.co # Nil
    /\ udp.resolving => udp.waiting /\ ~udp.conn /\ ~udp.reading

\* A handshake has the socket for itself.
TcpKeeps ==
    /\ tcp \in Streams
    /\ tcp.conn => /\ tcp.waiting["conn"] => ~tcp.waiting["read"] /\ ~tcp.waiting["write"]
                   /\ \A d \in Dirs : tcp.waiting[d] => WaiterOf(d) # Nil

OutFields == {"flushing", "coros", "buffered", "timer", "left", "from"}

ClientKeeps ==
    /\ body \in Bodies
    /\ body.waiting => body.started /\ body.co # Nil
    /\ OutFields \subseteq DOMAIN out
    /\ out.flushing \subseteq Coroutine /\ out.coros \in Nat
    /\ FlushExact

ObjectsKeep == PipeKeeps /\ ThreadKeeps /\ UdpKeeps /\ TcpKeeps /\ ClientKeeps

-------------------------------------------------------------------------------
(* What binds the objects to the coroutines.                                 *)

\* The objects whose fields no coroutine changes for another one
Sure == ThreadSlots \cup {<<"client", "flush">>}

\* The cleanup handler is lost, or belongs to the place of the coroutine
Guarded ==
    \A c \in Coroutine : /\ cleanup[c] \in {Nil, at[c]}
                         /\ \A s \in Sure : cleanup[c] = s => c \in Waiters(s)

\* In a careful program the objects know exactly who waits.
Matched == \A s \in Slots : Waiters(s) = {c \in Coroutine : at[c] = s}

Inv == CoroutineTypes /\ ObjectsKeep /\ Guarded /\ (Careful => Matched)

-------------------------------------------------------------------------------
(* The slots and who waits there.                                            *)

LEMMA SlotKinds ==
    /\ Ready \notin Slots /\ Dead \notin Slots /\ Ready # Dead /\ Nil \notin Slots
    /\ \A f \in Channels : <<"pipe", f>> \in Slots /\ f # "wait"
    /\ <<"pipe", "wait">> \in Slots
    /\ \A v \in VM : <<"thread", v>> \in Slots
    /\ <<"udp", "resolve">> \in Slots /\ <<"udp", "receive">> \in Slots
    /\ \A d \in Dirs : <<"tcp", d>> \in Slots
    /\ <<"client", "body">> \in Slots /\ <<"client", "flush">> \in Slots
<1>1. \A s \in Slots : s[1] \in {"pipe", "thread", "udp", "tcp", "client"}
  BY DEF Slots, PipeSlots, ThreadSlots, UdpSlots, TcpSlots, ClientSlots
<1>2. Ready[1] = "ready" /\ Dead[1] = "dead"
  BY DEF Ready, Dead
<1>3. Ready # Dead /\ Ready \notin Slots /\ Dead \notin Slots
  BY <1>1, <1>2
<1> QED
  BY <1>3, SlotsAssumption, ChannelsAssumption
     DEF Slots, PipeSlots, ThreadSlots, UdpSlots, TcpSlots, ClientSlots

\* A slot is one of these
LEMMA SlotCases ==
    ASSUME NEW s \in Slots
    PROVE  \/ \E f \in Channels : s = <<"pipe", f>>
           \/ s = <<"pipe", "wait">>
           \/ \E v \in VM : s = <<"thread", v>>
           \/ s \in {<<"udp", "resolve">>, <<"udp", "receive">>}
           \/ \E d \in Dirs : s = <<"tcp", d>>
           \/ s \in {<<"client", "body">>, <<"client", "flush">>}
BY DEF Slots, PipeSlots, ThreadSlots, UdpSlots, TcpSlots, ClientSlots

LEMMA WaitersAre ==
    /\ \A f \in Channels : Waiters(<<"pipe", f>>) = Only(chan[f].co # Nil, chan[f].co)
    /\ Waiters(<<"pipe", "wait">>) = Only(pipe.sleep # Nil, pipe.sleep)
    /\ \A v : Waiters(<<"thread", v>>) = Only(Holds(v) /\ ~task[v].abort, task[v].co)
    /\ Waiters(<<"udp", "resolve">>) = Only(udp.waiting /\ udp.resolving, udp.co)
    /\ Waiters(<<"udp", "receive">>) = Only(udp.waiting /\ udp.reading, udp.co)
    /\ \A d \in Dirs : Waiters(<<"tcp", d>>) = Only(tcp.conn /\ tcp.waiting[d], WaiterOf(d))
    /\ Waiters(<<"client", "body">>) = Only(body.waiting, body.co)
    /\ Waiters(<<"client", "flush">>) = out.flushing \ {failing}
BY SlotKinds DEF Waiters

LEMMA WaitersAreNext ==
    /\ \A f \in Channels : Waiters(<<"pipe", f>>)' = Only(chan'[f].co # Nil, chan'[f].co)
    /\ Waiters(<<"pipe", "wait">>)' = Only(pipe'.sleep # Nil, pipe'.sleep)
    /\ \A v : Waiters(<<"thread", v>>)' = Only(task'[v] # NoTask /\ ~task'[v].abort, task'[v].co)
    /\ Waiters(<<"udp", "resolve">>)' = Only(udp'.waiting /\ udp'.resolving, udp'.co)
    /\ Waiters(<<"udp", "receive">>)' = Only(udp'.waiting /\ udp'.reading, udp'.co)
    /\ \A d \in Dirs : Waiters(<<"tcp", d>>)' = Only(tcp'.conn /\ tcp'.waiting[d], WaiterOf(d)')
    /\ Waiters(<<"client", "body">>)' = Only(body'.waiting, body'.co)
    /\ Waiters(<<"client", "flush">>)' = out'.flushing \ {failing'}
BY SlotKinds DEF Waiters, Only, Holds

\* An object that is left alone resumes whom it would
LEMMA OthersSame ==
    ASSUME NEW obj, Others(obj), NEW s \in Slots, s[1] # obj
    PROVE  Waiters(s)' = Waiters(s)
<1>1. CASE \E f \in Channels : s = <<"pipe", f>>
  BY <1>1, WaitersAre, WaitersAreNext DEF Others, pipeVars
<1>2. CASE s = <<"pipe", "wait">>
  BY <1>2, WaitersAre, WaitersAreNext DEF Others, pipeVars
<1>3. CASE \E v \in VM : s = <<"thread", v>>
  BY <1>3, WaitersAre, WaitersAreNext DEF Others, threadVars, Holds
<1>4. CASE s \in {<<"udp", "resolve">>, <<"udp", "receive">>}
  BY <1>4, WaitersAre, WaitersAreNext DEF Others
<1>5. CASE \E d \in Dirs : s = <<"tcp", d>>
  BY <1>5, WaitersAre, WaitersAreNext DEF Others, WaiterOf
<1>6. CASE s \in {<<"client", "body">>, <<"client", "flush">>}
  BY <1>6, WaitersAre, WaitersAreNext DEF Others, clientVars
<1> QED
  BY <1>1, <1>2, <1>3, <1>4, <1>5, <1>6, SlotCases

-------------------------------------------------------------------------------
(* What a step is for the coroutines and those who resume them.              *)

Starts(c, s) ==
    /\ at[c] = Ready /\ s \in Slots
    /\ at' = [at EXCEPT ![c] = s] /\ cleanup' = [cleanup EXCEPT ![c] = s]
    /\ s # <<"client", "flush">> => Waiters(s) = {}
    /\ Waiters(s)' = Waiters(s) \cup {c}
    /\ \A t \in Slots \ {s} : Waiters(t)' = Waiters(t)

Wakes(c, s) ==
    /\ s \in Slots /\ c \in Waiters(s)
    /\ at' = [at EXCEPT ![c] = Ready] /\ cleanup' = [cleanup EXCEPT ![c] = Nil]
    /\ Waiters(s)' = Waiters(s) \ {c}
    /\ \A t \in Slots \ {s} : Waiters(t)' = Waiters(t)

Stays ==
    /\ at' = at /\ cleanup' \in [Coroutine -> Slots \cup {Nil}]
    /\ \A c \in Coroutine : cleanup'[c] \in {Nil, cleanup[c]}
    /\ \A s \in Slots : /\ Careful => Waiters(s)' = Waiters(s)
                        /\ s \in Sure => Waiters(s) \subseteq Waiters(s)'

Dies(c) ==
    /\ at[c] \in Slots
    /\ at' = [at EXCEPT ![c] = Dead] /\ cleanup' = [cleanup EXCEPT ![c] = Nil]
    /\ \A s \in Slots : /\ s \in Sure => Waiters(s) \ {c} \subseteq Waiters(s)'
                        /\ Careful => Waiters(s)' = Waiters(s) \ {c}

AllDie ==
    /\ at' = [c \in Coroutine |-> Dead] /\ cleanup' = [c \in Coroutine |-> Nil]
    /\ Careful => \A s \in Slots : Waiters(s)' = {}

Moves == \/ \E c \in Coroutine, s \in Slots : Starts(c, s) \/ Wakes(c, s)
         \/ \E c \in Coroutine : Dies(c)
         \/ Stays \/ AllDie

Agree == CoroutineTypes /\ Guarded /\ (Careful => Matched)

LEMMA StartsKeeps ==
    ASSUME Agree, NEW c \in Coroutine, NEW s \in Slots, Starts(c, s)
    PROVE  Agree'
<1>1. CoroutineTypes'
  BY DEF Agree, CoroutineTypes, Starts
<1>2. /\ \A d \in Coroutine : d # c => at'[d] = at[d] /\ cleanup'[d] = cleanup[d]
      /\ at'[c] = s /\ cleanup'[c] = s /\ at[c] = Ready /\ Ready \notin Slots /\ Ready # Dead
  BY SlotKinds DEF Agree, CoroutineTypes, Starts
<1>4. Guarded'
  <2>1. \A d \in Coroutine : cleanup'[d] \in {Nil, at'[d]}
    BY <1>2 DEF Agree, Guarded
  <2>2. \A d \in Coroutine : \A t \in Sure : cleanup'[d] = t => d \in Waiters(t)'
    BY <1>2 DEF Agree, Guarded, Starts, Sure, Slots, ClientSlots
  <2> QED
    BY <2>1, <2>2 DEF Guarded, Sure
<1>5. Careful => Matched'
  BY <1>2 DEF Agree, Matched, Starts
<1> QED
  BY <1>1, <1>4, <1>5 DEF Agree

LEMMA WakesKeeps ==
    ASSUME Agree, NEW c \in Coroutine, NEW s \in Slots, Wakes(c, s)
    PROVE  Agree'
<1>1. CoroutineTypes'
  BY DEF Agree, CoroutineTypes, Wakes
<1>2. /\ \A d \in Coroutine : d # c => at'[d] = at[d] /\ cleanup'[d] = cleanup[d]
      /\ at'[c] = Ready /\ cleanup'[c] = Nil /\ Ready \notin Slots /\ Ready # Dead /\ Nil \notin Slots
  BY SlotKinds DEF Agree, CoroutineTypes, Wakes
<1>4. Guarded'
  <2>1. \A d \in Coroutine : cleanup'[d] \in {Nil, at'[d]}
    BY <1>2 DEF Agree, Guarded
  <2>2. \A d \in Coroutine : \A t \in Sure : cleanup'[d] = t => d \in Waiters(t)'
    BY <1>2 DEF Agree, Guarded, Wakes, Sure, Slots, ClientSlots
  <2> QED
    BY <2>1, <2>2 DEF Guarded, Sure
<1>5. Careful => Matched'
  BY <1>2 DEF Agree, Matched, Wakes
<1> QED
  BY <1>1, <1>4, <1>5 DEF Agree

LEMMA StaysKeeps == ASSUME Agree, Stays PROVE Agree'
<1>1. CoroutineTypes'
  BY DEF Agree, CoroutineTypes, Stays
<1>2. Sure \subseteq Slots /\ Nil \notin Slots
  BY SlotKinds DEF Sure, Slots, ClientSlots
<1>4. Guarded'
  <2>1. \A d \in Coroutine : cleanup'[d] \in {Nil, at'[d]}
    BY DEF Agree, Guarded, Stays
  <2>2. \A d \in Coroutine : \A t \in Sure : cleanup'[d] = t => d \in Waiters(t)'
    BY <1>2 DEF Agree, Guarded, Stays
  <2> QED
    BY <2>1, <2>2 DEF Guarded, Sure
<1>5. Careful => Matched'
  BY DEF Agree, Matched, Stays
<1> QED
  BY <1>1, <1>4, <1>5 DEF Agree

LEMMA DiesKeeps == ASSUME Agree, NEW c \in Coroutine, Dies(c) PROVE Agree'
<1>1. CoroutineTypes'
  BY DEF Agree, CoroutineTypes, Dies
<1>2. /\ \A d \in Coroutine : d # c => at'[d] = at[d] /\ cleanup'[d] = cleanup[d]
      /\ at'[c] = Dead /\ cleanup'[c] = Nil /\ Dead \notin Slots /\ Nil \notin Slots
      /\ Sure \subseteq Slots
  BY SlotKinds DEF Agree, CoroutineTypes, Dies, Sure, Slots, ClientSlots
<1>4. Guarded'
  <2>1. \A d \in Coroutine : cleanup'[d] \in {Nil, at'[d]}
    BY <1>2 DEF Agree, Guarded
  <2>2. \A d \in Coroutine : \A t \in Sure : cleanup'[d] = t => d \in Waiters(t)'
    BY <1>2 DEF Agree, Guarded, Dies
  <2> QED
    BY <2>1, <2>2 DEF Guarded, Sure
<1>5. Careful => Matched'
  BY <1>2 DEF Agree, Matched, Dies
<1> QED
  BY <1>1, <1>4, <1>5 DEF Agree

LEMMA AllDieKeeps == ASSUME Agree, AllDie PROVE Agree'
<1>1. CoroutineTypes'
  BY DEF Agree, CoroutineTypes, AllDie
<1>2. /\ \A d \in Coroutine : at'[d] = Dead /\ cleanup'[d] = Nil
      /\ Dead \notin Slots /\ Nil \notin Slots /\ Sure \subseteq Slots
  BY SlotKinds DEF AllDie, Sure, Slots, ClientSlots
<1>4. Guarded'
  <2>1. \A d \in Coroutine : cleanup'[d] \in {Nil, at'[d]}
    BY <1>2
  <2>2. \A d \in Coroutine : \A t \in Sure : cleanup'[d] = t => d \in Waiters(t)'
    BY <1>2
  <2> QED
    BY <2>1, <2>2 DEF Guarded, Sure
<1>5. Careful => Matched'
  BY <1>2 DEF Matched, AllDie
<1> QED
  BY <1>1, <1>4, <1>5 DEF Agree

LEMMA MovesKeeps == ASSUME Agree, Moves PROVE Agree'
BY StartsKeeps, WakesKeeps, StaysKeeps, DiesKeeps, AllDieKeeps DEF Moves

\* In a careful program a step is one of the contract, or none of it
LEMMA MovesContract ==
    ASSUME Agree, Careful, Moves
    PROVE  Contract!Next \/ UNCHANGED <<at, [s \in Slots |-> Waiters(s)]>>
<1> DEFINE w == [s \in Slots |-> Waiters(s)]
<1>1. \A s \in Slots : w[s] = Waiters(s) /\ w'[s] = Waiters(s)'
  OBVIOUS
<1>2. CASE \E c \in Coroutine, s \in Slots : Starts(c, s)
  <2>1. PICK c \in Coroutine, s \in Slots : Starts(c, s)
    BY <1>2
  <2>2. w' = [w EXCEPT ![s] = @ \cup {c}]
    BY <1>1, <2>1 DEF Starts
  <2>3. Contract!Begin(c, s)
    BY <1>1, <2>1, <2>2 DEF Starts, Contract!Begin
  <2> QED
    BY <2>3 DEF Contract!Next
<1>3. CASE \E c \in Coroutine, s \in Slots : Wakes(c, s)
  <2>1. PICK c \in Coroutine, s \in Slots : Wakes(c, s)
    BY <1>3
  <2>2. w' = [w EXCEPT ![s] = @ \ {c}]
    BY <1>1, <2>1 DEF Wakes
  <2>3. Contract!End(c, s)
    BY <1>1, <2>1, <2>2 DEF Wakes, Contract!End
  <2> QED
    BY <2>3 DEF Contract!Next
<1>4. CASE \E c \in Coroutine : Dies(c)
  <2>1. PICK c \in Coroutine : Dies(c)
    BY <1>4
  <2>2. PICK s \in Slots : s = at[c] /\ c \in Waiters(s)
    BY <2>1 DEF Dies, Agree, Matched
  <2>3. \A t \in Slots : t # s => Waiters(t)' = Waiters(t)
    BY <2>1, <2>2 DEF Dies, Agree, Matched
  <2>4. w' = [w EXCEPT ![s] = @ \ {c}]
    BY <1>1, <2>1, <2>2, <2>3 DEF Dies
  <2>5. Contract!Kill(c, s)
    BY <1>1, <2>1, <2>2, <2>4 DEF Dies, Contract!Kill
  <2> QED
    BY <2>2, <2>5 DEF Contract!Next
<1>5. CASE AllDie
  <2>1. w' = [s \in Slots |-> {}]
    BY <1>5 DEF AllDie
  <2> QED
    BY <1>5, <2>1 DEF AllDie, Contract!Next, Contract!Finish
<1>6. CASE Stays
  BY <1>6 DEF Stays
<1> QED
  BY <1>2, <1>3, <1>4, <1>5, <1>6 DEF Moves

\* Such a step from what one object does
LEMMA StartsIf ==
    ASSUME CoroutineTypes, NEW c \in Coroutine, NEW s \in Slots, Runs(c), Suspends(c, s), Others(s[1]),
           s # <<"client", "flush">> => Waiters(s) = {},
           Waiters(s)' = Waiters(s) \cup {c},
           \A t \in Slots \ {s} : t[1] = s[1] => Waiters(t)' = Waiters(t)
    PROVE  Moves
<1>1. \A t \in Slots \ {s} : Waiters(t)' = Waiters(t)
  BY OthersSame
<1> QED
  BY <1>1 DEF Moves, Starts, Runs, Suspends

LEMMA WakesIf ==
    ASSUME CoroutineTypes, NEW c \in Coroutine, NEW s \in Slots, c \in Waiters(s), Resumes(c), Others(s[1]),
           Waiters(s)' = Waiters(s) \ {c},
           \A t \in Slots \ {s} : t[1] = s[1] => Waiters(t)' = Waiters(t)
    PROVE  Moves
<1>1. \A t \in Slots \ {s} : Waiters(t)' = Waiters(t)
  BY OthersSame
<1> QED
  BY <1>1 DEF Moves, Wakes, Resumes

LEMMA StaysIf ==
    ASSUME CoroutineTypes, NEW obj, Others(obj), at' = at,
           cleanup' = cleanup \/ \E c : cleanup' = [cleanup EXCEPT ![c] = Nil],
           \A s \in Slots : s[1] = obj => /\ Careful => Waiters(s)' = Waiters(s)
                                          /\ s \in Sure => Waiters(s) \subseteq Waiters(s)'
    PROVE  Moves
<1>1. \A s \in Slots : s[1] # obj => Waiters(s)' = Waiters(s)
  BY OthersSame
<1>2. cleanup' \in [Coroutine -> Slots \cup {Nil}] /\ \A c \in Coroutine : cleanup'[c] \in {Nil, cleanup[c]}
  BY DEF CoroutineTypes
<1> QED
  BY <1>1, <1>2 DEF Moves, Stays

-------------------------------------------------------------------------------
(* The pipe.                                                                 *)

LEMMA PipeSame ==
    ASSUME NEW s \in Slots, s[1] = "pipe", \A f \in Channels : chan'[f].co = chan[f].co,
           pipe'.sleep = pipe.sleep
    PROVE  Waiters(s)' = Waiters(s)
<1>1. s = <<"pipe", "wait">> \/ \E f \in Channels : s = <<"pipe", f>>
  BY SlotCases
<1> QED
  BY <1>1, WaitersAre, WaitersAreNext

LEMMA ParentEnds ==
    /\ \A f, g \in Channels : ParentEnd(f) = ParentEnd(g) => f = g
    /\ \A f \in Channels : ParentEnd(f) \in Ends
BY DEF ParentEnd, Ends

LEMMA ChannelOps ==
    ASSUME NEW ch \in ChannelStates
    PROVE  /\ CloseConn(ch) \in ChannelStates /\ CloseConn(ch).co = Nil /\ ~CloseConn(ch).conn
           /\ CloseConn(ch).made = ch.made
           /\ Cleared(ch) \in ChannelStates /\ Cleared(ch).co = Nil /\ Cleared(ch).made = ch.made
           /\ Cleared(ch).conn = ch.conn
           /\ \A dead \in BOOLEAN :
                 /\ CloseChannel(ch, dead) \in ChannelStates /\ CloseChannel(ch, dead).made = ch.made
                 /\ CloseChannel(ch, dead).conn => ch.conn
                 /\ (ch.co # Nil => ch.conn) =>
                       /\ CloseChannel(ch, dead).co = ch.co
                       /\ CloseChannel(ch, dead).co # Nil => CloseChannel(ch, dead).conn
<1>1. /\ CloseConn(ch) \in ChannelStates /\ CloseConn(ch).co = Nil /\ ~CloseConn(ch).conn
      /\ CloseConn(ch).made = ch.made
      /\ Cleared(ch) \in ChannelStates /\ Cleared(ch).co = Nil /\ Cleared(ch).made = ch.made
      /\ Cleared(ch).conn = ch.conn
  BY DEF CloseConn, Cleared, ChannelStates, MaybeCoroutine
<1>2. ASSUME NEW dead \in BOOLEAN
      PROVE  /\ CloseChannel(ch, dead) \in ChannelStates /\ CloseChannel(ch, dead).made = ch.made
             /\ CloseChannel(ch, dead).conn => ch.conn
             /\ (ch.co # Nil => ch.conn) =>
                   /\ CloseChannel(ch, dead).co = ch.co
                   /\ CloseChannel(ch, dead).co # Nil => CloseChannel(ch, dead).conn
  <2> DEFINE p == [ch EXCEPT !.posted = TRUE, !.err = IF dead THEN "closed" ELSE "aborted"]
  <2>1. p \in ChannelStates /\ p.made = ch.made /\ p.co = ch.co /\ p.conn = ch.conn
    BY DEF ChannelStates
  <2>2. CloseChannel(ch, dead) = IF ~ch.conn THEN ch ELSE IF ch.co # Nil THEN p ELSE CloseConn(ch)
    BY DEF CloseChannel, CloseHelper
  <2> HIDE DEF p
  <2> QED
    BY <1>1, <2>1, <2>2
<1> QED
  BY <1>1, <1>2

\* One channel changes, with its descriptor
LEMMA ChannelKeeps ==
    ASSUME PipeKeeps, child # "none", NEW f \in Channels, NEW x \in ChannelStates,
           chan' = [chan EXCEPT ![f] = x], UNCHANGED <<pipe, child, childFds>>,
           fds' = fds \/ fds' = fds \ {ParentEnd(f)},
           x.conn => x.made, x.co # Nil => x.conn,
           x.made => (x.conn <=> ParentEnd(f) \in fds')
    PROVE  PipeKeeps'
<1>1. \A g \in Channels : g # f => chan'[g] = chan[g] /\ (ParentEnd(g) \in fds' <=> ParentEnd(g) \in fds)
  BY ParentEnds DEF PipeKeeps
<1>2. chan'[f] = x /\ chan' \in [Channels -> ChannelStates]
  BY DEF PipeKeeps
<1>3. FdsExact'
  BY <1>1, <1>2 DEF PipeKeeps, FdsExact, ParentEnd
<1>4. \A g \in Channels : /\ chan'[g].conn => chan'[g].made
                          /\ chan'[g].co # Nil => chan'[g].conn
  BY <1>1, <1>2 DEF PipeKeeps
<1> QED
  BY <1>2, <1>3, <1>4 DEF PipeKeeps, PidValid

LEMMA EnteredIs ==
    ASSUME PipeKeeps, NEW f \in Channels, Usable(f)
    PROVE  /\ Entered(f) \in ChannelStates /\ Entered(f).co = chan[f].co /\ Entered(f).made
           /\ Entered(f).co # Nil => Entered(f).conn
           /\ Entered(f).conn <=> ParentEnd(f) \in fds
           /\ child # "none"
<1>1. chan[f] \in ChannelStates
  BY DEF PipeKeeps
<1>2. CASE chan[f].made
  <2>1. Entered(f) = [chan[f] EXCEPT !.err = "none"]
    BY <1>2 DEF Entered
  <2> QED
    BY <1>1, <1>2, <2>1 DEF PipeKeeps, FdsExact, Usable, ChannelStates
<1>3. CASE ~chan[f].made
  <2>1. Entered(f) = [chan[f] EXCEPT !.made = TRUE, !.conn = TRUE]
    BY <1>3 DEF Entered
  <2> QED
    BY <1>1, <1>3, <2>1 DEF PipeKeeps, FdsExact, Usable, ChannelStates
<1> QED
  BY <1>2, <1>3

LEMMA ChannelCalls ==
    ASSUME Inv, Others("pipe"), NEW c \in Coroutine, NEW f \in Channels,
           Refused(c, f) \/ Transfers(c, f) \/ Blocks(c, f) \/ Shutdown(c, f)
    PROVE  Moves /\ PipeKeeps'
<1>1. PipeKeeps /\ CoroutineTypes /\ chan \in [Channels -> ChannelStates] /\ <<"pipe", f>> \in Slots
  BY SlotKinds DEF Inv, ObjectsKeep, PipeKeeps
<1>2. CASE Refused(c, f)
  <2>1. PipeKeeps'
    BY <1>1, <1>2, EnteredIs, ChannelKeeps DEF Refused
  <2>2. \A g \in Channels : chan'[g].co = chan[g].co
    BY <1>1, <1>2, EnteredIs DEF Refused
  <2> QED
    BY <1>1, <1>2, <2>1, <2>2, PipeSame, StaysIf DEF Refused, coVars
<1>3. CASE Transfers(c, f)
  <2>1. PICK e \in {"none", "closed", "syscall"} : chan' = [chan EXCEPT ![f] = [Entered(f) EXCEPT !.err = e]]
    BY <1>3 DEF Transfers, WriteResults, ReadResults
  <2>2. Usable(f) /\ UNCHANGED <<coVars, pipe, child, childFds, fds>>
    BY <1>3 DEF Transfers
  <2> DEFINE x == [Entered(f) EXCEPT !.err = e]
  <2>3. x \in ChannelStates /\ x.co = chan[f].co /\ x.made /\ x.conn = Entered(f).conn
    BY <1>1, <2>2, EnteredIs DEF ChannelStates
  <2> HIDE DEF x
  <2>4. PipeKeeps'
    BY <1>1, <2>1, <2>2, <2>3, EnteredIs, ChannelKeeps DEF x
  <2>5. \A g \in Channels : chan'[g].co = chan[g].co
    BY <1>1, <2>1, <2>3 DEF x
  <2> QED
    BY <1>1, <2>2, <2>4, <2>5, PipeSame, StaysIf DEF coVars
<1>4. CASE Blocks(c, f)
  <2> DEFINE x == [Entered(f) EXCEPT !.co = c]
  <2>1. /\ chan' = [chan EXCEPT ![f] = x] /\ Usable(f) /\ UNCHANGED <<pipe, child, childFds, fds>>
        /\ chan[f].co = Nil /\ Entered(f).conn
    BY <1>1, <1>4, EnteredIs DEF Blocks, Idle
  <2>3. x \in ChannelStates /\ x.co = c /\ x.made /\ x.conn
    BY <1>1, <2>1, EnteredIs DEF ChannelStates, MaybeCoroutine
  <2> HIDE DEF x
  <2>4. PipeKeeps'
    BY <1>1, <2>1, <2>3, EnteredIs, ChannelKeeps
  <2>5. Waiters(<<"pipe", f>>) = {} /\ Waiters(<<"pipe", f>>)' = {c}
    BY <1>1, <2>1, <2>3, WaitersAre, WaitersAreNext, CoroutineAssumption DEF Only
  <2>6. \A t \in Slots \ {<<"pipe", f>>} : t[1] = "pipe" => Waiters(t)' = Waiters(t)
    BY <1>1, <2>1, SlotCases, WaitersAre, WaitersAreNext
  <2> QED
    BY <1>1, <1>4, <2>4, <2>5, <2>6, StartsIf DEF Blocks
<1>5. CASE Shutdown(c, f)
  <2> DEFINE x == CloseChannel(chan[f], pipe.dead)
  <2>1. /\ chan' = [chan EXCEPT ![f] = x] /\ fds' = (IF x.conn THEN fds ELSE fds \ {ParentEnd(f)})
        /\ pipe.open /\ UNCHANGED <<coVars, pipe, child, childFds>>
    BY <1>5 DEF Shutdown
  <2>2. /\ chan[f] \in ChannelStates /\ pipe.dead \in BOOLEAN /\ child # "none"
        /\ (chan[f].co # Nil => chan[f].conn) /\ (chan[f].conn => chan[f].made)
        /\ (chan[f].made => (chan[f].conn <=> ParentEnd(f) \in fds))
    BY <1>1, <2>1 DEF PipeKeeps, Processes, FdsExact
  <2>3. /\ x \in ChannelStates /\ x.made = chan[f].made /\ x.co = chan[f].co
        /\ (x.co # Nil => x.conn) /\ (x.conn => chan[f].conn)
    BY <2>2, ChannelOps
  <2> HIDE DEF x
  <2>4. PipeKeeps'
    BY <1>1, <2>1, <2>2, <2>3, ChannelKeeps
  <2>5. \A g \in Channels : chan'[g].co = chan[g].co
    BY <1>1, <2>1, <2>3
  <2> QED
    BY <1>1, <2>1, <2>4, <2>5, PipeSame, StaysIf DEF coVars
<1> QED
  BY <1>2, <1>3, <1>4, <1>5

LEMMA TransfersMove ==
    ASSUME Inv, Others("pipe"), NEW f \in Channels,
           TransferTimeout(f) \/ TransferAborted(f) \/ TransferReady(f) \/ TransferAgain(f)
    PROVE  Moves /\ PipeKeeps'
<1> DEFINE c == chan[f].co
           s == <<"pipe", f>>
<1>1. /\ PipeKeeps /\ CoroutineTypes /\ chan \in [Channels -> ChannelStates] /\ s \in Slots
      /\ chan[f] \in ChannelStates
  BY SlotKinds DEF Inv, ObjectsKeep, PipeKeeps
<1>2. /\ c \in Coroutine /\ chan[f].conn /\ chan[f].made /\ child # "none" /\ ParentEnd(f) \in fds
      /\ UNCHANGED <<pipe, child, childFds>> /\ Waiters(s) = {c} /\ c # Nil
  <2>1. c # Nil /\ UNCHANGED <<pipe, child, childFds>>
    BY DEF TransferTimeout, TransferAborted, TransferReady, TransferAgain
  <2>2. c \in Coroutine /\ chan[f].conn /\ chan[f].made /\ child # "none"
    BY <1>1, <2>1 DEF PipeKeeps, ChannelStates, MaybeCoroutine, NewChannel
  <2> QED
    BY <1>1, <2>1, <2>2, WaitersAre DEF PipeKeeps, FdsExact, Only
<1>3. ASSUME NEW x \in ChannelStates, chan' = [chan EXCEPT ![f] = x], Resumes(c), x.co = Nil
      PROVE  Moves
  <2>1. Waiters(s)' = {}
    BY <1>1, <1>3, WaitersAreNext DEF Only
  <2>2. \A t \in Slots \ {s} : t[1] = "pipe" => Waiters(t)' = Waiters(t)
    BY <1>1, <1>2, <1>3, SlotCases, WaitersAre, WaitersAreNext
  <2> HIDE DEF c
  <2> QED
    BY <1>1, <1>2, <1>3, <2>1, <2>2, WakesIf
<1>4. CASE TransferAborted(f)
  <2> DEFINE x == CloseConn(chan[f])
  <2>1. chan' = [chan EXCEPT ![f] = x] /\ fds' = fds \ {ParentEnd(f)} /\ Resumes(c)
    BY <1>1, <1>4 DEF TransferAborted, PipeResume
  <2>2. x \in ChannelStates /\ x.co = Nil /\ ~x.conn
    BY <1>1, ChannelOps
  <2> HIDE DEF x, c
  <2> QED
    BY <1>1, <1>2, <1>3, <2>1, <2>2, ChannelKeeps
<1>5. ASSUME NEW e \in {"none", "closed", "syscall", "timeout", "aborted"}, fds' = fds, Resumes(c),
             chan' = [chan EXCEPT ![f] = [Cleared(chan[f]) EXCEPT !.err = e]]
      PROVE  Moves /\ PipeKeeps'
  <2> DEFINE x == [Cleared(chan[f]) EXCEPT !.err = e]
  <2>1. x \in ChannelStates /\ x.co = Nil /\ x.made /\ x.conn
    <3> DEFINE y == Cleared(chan[f])
    <3>1. y \in ChannelStates /\ y.co = Nil /\ y.made /\ y.conn
      BY <1>1, <1>2, ChannelOps
    <3> HIDE DEF y
    <3>2. [y EXCEPT !.err = e] \in ChannelStates /\ [y EXCEPT !.err = e].co = Nil
      BY <3>1 DEF ChannelStates
    <3>3. [y EXCEPT !.err = e].made /\ [y EXCEPT !.err = e].conn
      BY <3>1 DEF ChannelStates
    <3> QED
      BY <3>2, <3>3 DEF y
  <2> HIDE DEF x, c
  <2> QED
    BY <1>1, <1>2, <1>3, <1>5, <2>1, ChannelKeeps DEF x
<1>6. CASE TransferTimeout(f)
  BY <1>1, <1>5, <1>6 DEF TransferTimeout, PipeResume
<1>7. CASE TransferReady(f)
  <2>1. chan[f].err \in {"none", "closed", "syscall", "timeout", "aborted"}
    BY <1>1 DEF ChannelStates
  <2> QED
    BY <1>1, <1>5, <1>7, <2>1 DEF TransferReady, PipeResume
<1>8. CASE TransferAgain(f)
  <2> DEFINE x == [chan[f] EXCEPT !.posted = FALSE]
  <2>1. chan' = [chan EXCEPT ![f] = x] /\ fds' = fds /\ Rearms(c)
    BY <1>1, <1>8 DEF TransferAgain
  <2>2. x \in ChannelStates /\ x.co = chan[f].co /\ x.conn = chan[f].conn /\ x.made = chan[f].made
    BY <1>1 DEF ChannelStates
  <2> HIDE DEF x
  <2>3. \A g \in Channels : chan'[g].co = chan[g].co
    BY <1>1, <2>1, <2>2
  <2>4. PipeKeeps'
    BY <1>1, <1>2, <2>1, <2>2, ChannelKeeps
  <2> QED
    BY <1>1, <1>2, <2>1, <2>3, <2>4, PipeSame, StaysIf DEF Rearms
<1> QED
  BY <1>4, <1>6, <1>7, <1>8

LEMMA SpawnsMove ==
    ASSUME Inv, Others("pipe"), NEW c \in Coroutine, Spawn(c) \/ SpawnFails(c)
    PROVE  Moves /\ PipeKeeps'
<1>1. /\ PipeKeeps /\ CoroutineTypes /\ child = "none" /\ ~pipe.open /\ pipe.sleep = Nil /\ chan' = chan
      /\ \A f \in Channels : chan[f] = NewChannel
  BY DEF Inv, ObjectsKeep, PipeKeeps, Spawn, SpawnFails
<1>2. CASE Spawn(c)
  <2>1. /\ child' = "running" /\ childFds' = ChildKeeps /\ pipe' = NewPipe /\ UNCHANGED coVars
        /\ fds' = {ParentEnd(f) : f \in Channels}
    BY <1>2 DEF Spawn
  <2>2. pipe' \in Processes /\ pipe'.sleep = Nil /\ pipe'.node
    BY <2>1 DEF NewPipe, NoPipe, Processes, MaybeCoroutine
  <2>3. FdsExact' /\ PidValid'
    BY <1>1, <2>1 DEF FdsExact, PidValid, ChildKeeps, NewChannel, NewPipe, NoPipe
  <2>4. PipeKeeps'
    BY <1>1, <2>1, <2>2, <2>3 DEF PipeKeeps
  <2> QED
    BY <1>1, <2>1, <2>2, <2>4, PipeSame, StaysIf DEF coVars
<1>3. CASE SpawnFails(c)
  <2>1. PICK step \in {"pipe", "fork", "nonblocking"}, f \in Channels :
            /\ fds' = Unwound(OpenAt(step, f), Label(step, f))
            /\ IF step = "nonblocking" THEN child' = "running" /\ childFds' = ChildKeeps
                                       ELSE UNCHANGED <<child, childFds>>
    BY <1>3 DEF SpawnFails
  <2>2. UNCHANGED <<coVars, pipe>>
    BY <1>3 DEF SpawnFails
  <2>3. fds' = {}
    <3>1. \A e \in OpenAt(step, f) : e[1] \in Channels
      BY DEF OpenAt, Ends
    <3>2. CASE step = "pipe"
      <4>1. \A e \in OpenAt(step, f) : Order(e[1]) < Order(f)
        BY <3>2 DEF OpenAt
      <4>2. f = "stdin" => Order(f) = 1 /\ Unwinds(Label(step, f)) = {}
        BY <3>2 DEF Order, Label, Unwinds
      <4>3. f = "stdout" => Order(f) = 2 /\ Unwinds(Label(step, f)) = {"stdin"}
        BY <3>2 DEF Order, Label, Unwinds
      <4>4. f = "stderr" => Order(f) = 3 /\ Unwinds(Label(step, f)) = {"stdin", "stdout"}
        BY <3>2 DEF Order, Label, Unwinds
      <4>5. ASSUME NEW e \in OpenAt(step, f) PROVE e[1] \in Unwinds(Label(step, f))
        <5>1. e[1] \in {"stdin", "stdout", "stderr"} /\ f \in {"stdin", "stdout", "stderr"}
          BY <3>1, ChannelsAssumption
        <5>2. Order(e[1]) < Order(f)
          BY <4>1
        <5>3. e[1] = "stderr" => Order(e[1]) = 3
          BY DEF Order
        <5>4. e[1] = "stdout" => Order(e[1]) = 2
          BY DEF Order
        <5>5. e[1] = "stdin" => Order(e[1]) = 1
          BY DEF Order
        <5> QED
          BY <4>2, <4>3, <4>4, <5>1, <5>2, <5>3, <5>4, <5>5
      <4> QED
        BY <2>1, <4>5 DEF Unwound
    <3>3. CASE step # "pipe"
      <4>1. Unwinds(Label(step, f)) = Channels
        BY <3>3 DEF Label, Unwinds
      <4> QED
        BY <2>1, <3>1, <4>1 DEF Unwound
    <3> QED
      BY <3>2, <3>3
  <2>4. FdsExact' /\ PidValid'
    BY <1>1, <2>1, <2>2, <2>3 DEF PipeKeeps, FdsExact, PidValid, ChildKeeps, NewChannel
  <2>5. PipeKeeps'
    BY <1>1, <2>1, <2>2, <2>4 DEF PipeKeeps
  <2> QED
    BY <1>1, <2>2, <2>5, PipeSame, StaysIf DEF coVars
<1> QED
  BY <1>2, <1>3

LEMMA ChildMoves ==
    ASSUME Inv, Others("pipe"),
           ChildExit \/ SigchldEvent \/ ReapTimer \/ \E c \in Coroutine : SignalChild(c)
    PROVE  Moves /\ PipeKeeps'
<1>1. /\ PipeKeeps /\ CoroutineTypes /\ UNCHANGED <<coVars, chan, fds, childFds>>
      /\ pipe \in Processes
  BY DEF Inv, ObjectsKeep, PipeKeeps, ChildExit, SigchldEvent, ReapTimer, SignalChild
<1>2. CASE ChildExit \/ \E c \in Coroutine : SignalChild(c)
  <2>1. child = "running" /\ child' = "zombie" /\ pipe' = pipe
    BY <1>2 DEF ChildExit, SignalChild
  <2>2. PipeKeeps'
    BY <1>1, <2>1 DEF PipeKeeps, FdsExact, PidValid
  <2> QED
    BY <1>1, <2>1, <2>2, PipeSame, StaysIf DEF coVars
<1>3. CASE SigchldEvent \/ ReapTimer
  <2>1. ReapPids
    BY <1>3 DEF SigchldEvent, ReapTimer
  <2> DEFINE p == [pipe EXCEPT !.reason = TRUE, !.dead = TRUE, !.posted = pipe.waitco # Nil]
  <2>2. /\ p \in Processes /\ p.sleep = pipe.sleep /\ p.waitco = pipe.waitco /\ p.dead
        /\ p.node = pipe.node /\ p.open = pipe.open
    BY <1>1 DEF Processes
  <2>3. /\ child' = IF child = "zombie" THEN "reaped" ELSE child
        /\ pipe' = IF child = "zombie" /\ pipe.node THEN p ELSE pipe
    BY <2>1 DEF ReapPids
  <2> HIDE DEF p
  <2>4. PipeKeeps'
    <3>1. FdsExact'
      BY <1>1, <2>2, <2>3 DEF PipeKeeps, FdsExact
    <3>2. PidValid'
      BY <1>1, <2>2, <2>3 DEF PipeKeeps, PidValid
    <3> QED
      BY <1>1, <2>2, <2>3, <3>1, <3>2 DEF PipeKeeps
  <2> QED
    BY <1>1, <2>2, <2>3, <2>4, PipeSame, StaysIf DEF coVars
<1> QED
  BY <1>2, <1>3

LEMMA FinalizedAre ==
    ASSUME PipeKeeps
    PROVE  /\ FinalizedPipe \in Processes /\ FinalizedPipe.sleep = pipe.sleep /\ FinalizedPipe.dead
           /\ FinalizedPipe.open = pipe.open
           /\ DestroyedPipe \in Processes /\ DestroyedPipe.sleep = pipe.sleep /\ ~DestroyedPipe.open
           /\ FinalizedChannels \in [Channels -> ChannelStates]
           /\ DestroyedChannels \in [Channels -> ChannelStates]
           /\ \A f \in Channels :
                 /\ FinalizedChannels[f].made = chan[f].made /\ FinalizedChannels[f].co = chan[f].co
                 /\ FinalizedChannels[f].co # Nil => FinalizedChannels[f].conn
                 /\ FinalizedChannels[f].conn => chan[f].conn
                 /\ ~DestroyedChannels[f].conn /\ DestroyedChannels[f].co = Nil
<1>1. pipe \in Processes /\ \A f \in Channels : chan[f] \in ChannelStates
  BY DEF PipeKeeps
<1>2. /\ FinalizedPipe \in Processes /\ FinalizedPipe.sleep = pipe.sleep /\ FinalizedPipe.dead
      /\ FinalizedPipe.open = pipe.open
  BY <1>1 DEF FinalizedPipe, Processes, MaybeCoroutine
<1>3. DestroyedPipe \in Processes /\ DestroyedPipe.sleep = pipe.sleep /\ ~DestroyedPipe.open
  BY <1>2 DEF DestroyedPipe, Processes
<1>4. ASSUME NEW f \in Channels
      PROVE  /\ FinalizedChannels[f] \in ChannelStates
             /\ FinalizedChannels[f].made = chan[f].made /\ FinalizedChannels[f].co = chan[f].co
             /\ FinalizedChannels[f].co # Nil => FinalizedChannels[f].conn
             /\ FinalizedChannels[f].conn => chan[f].conn
  BY <1>1, ChannelOps DEF FinalizedChannels, PipeKeeps
<1>5. ASSUME NEW f \in Channels
      PROVE  /\ DestroyedChannels[f] \in ChannelStates
             /\ ~DestroyedChannels[f].conn /\ DestroyedChannels[f].co = Nil
  BY <1>4, ChannelOps DEF DestroyedChannels
<1> QED
  BY <1>2, <1>3, <1>4, <1>5 DEF FinalizedChannels, DestroyedChannels

LEMMA FinalizedKeeps ==
    ASSUME PipeKeeps, child # "none", chan' = FinalizedChannels, fds' = Remaining(FinalizedChannels),
           UNCHANGED <<child, childFds>>, pipe' \in Processes, pipe'.dead, pipe'.open = pipe.open,
           pipe'.sleep = Nil
    PROVE  PipeKeeps'
<1>1. \A f \in Channels : ParentEnd(f) \in fds' <=> ParentEnd(f) \in fds /\ FinalizedChannels[f].conn
  BY ParentEnds DEF Remaining
<1>2. FdsExact'
  BY <1>1, FinalizedAre DEF PipeKeeps, FdsExact, Remaining, ParentEnd
<1> QED
  BY <1>2, FinalizedAre DEF PipeKeeps, PidValid

LEMMA DestroyedKeeps ==
    ASSUME PipeKeeps, child # "none", chan' = DestroyedChannels, fds' = {}, childFds' = childFds,
           child' \in {child, "zombie"}, pipe' \in Processes, ~pipe'.open, Careful => pipe'.sleep = Nil
    PROVE  PipeKeeps'
<1>1. FdsExact'
  BY FinalizedAre DEF PipeKeeps, FdsExact, ParentEnd
<1> QED
  BY <1>1, FinalizedAre DEF PipeKeeps, PidValid

LEMMA WaitMoves ==
    ASSUME Inv, Others("pipe"), NEW c \in Coroutine, Wait(c) \/ WaitDone(c)
    PROVE  Moves /\ PipeKeeps'
<1>1. /\ PipeKeeps /\ CoroutineTypes /\ pipe \in Processes /\ pipe.open /\ pipe.waitco = Nil
      /\ pipe.sleep = Nil /\ child # "none" /\ <<"pipe", "wait">> \in Slots
  BY SlotKinds DEF Inv, ObjectsKeep, PipeKeeps, Wait, WaitDone
<1>2. CASE Wait(c)
  <2>1. /\ pipe' = [pipe EXCEPT !.waitco = c, !.sleep = c, !.posted = FALSE]
        /\ UNCHANGED <<child, chan, fds, childFds>>
    BY <1>2 DEF Wait
  <2>2. /\ pipe' \in Processes /\ pipe'.sleep = c /\ pipe'.waitco = c /\ pipe'.open /\ c # Nil
        /\ pipe'.dead = pipe.dead /\ pipe'.node = pipe.node
    BY <1>1, <2>1, CoroutineAssumption DEF Processes, MaybeCoroutine
  <2>3. PipeKeeps'
    BY <1>1, <2>1, <2>2 DEF PipeKeeps, FdsExact, PidValid
  <2>4. Waiters(<<"pipe", "wait">>) = {} /\ Waiters(<<"pipe", "wait">>)' = {c}
    BY <1>1, <2>2, WaitersAre, WaitersAreNext DEF Only
  <2>5. \A t \in Slots \ {<<"pipe", "wait">>} : t[1] = "pipe" => Waiters(t)' = Waiters(t)
    BY <2>1, SlotCases, WaitersAre, WaitersAreNext
  <2> QED
    BY <1>1, <1>2, <2>3, <2>4, <2>5, StartsIf DEF Wait
<1>3. CASE WaitDone(c)
  <2>1. /\ pipe' = FinalizedPipe /\ chan' = FinalizedChannels /\ fds' = Remaining(FinalizedChannels)
        /\ UNCHANGED <<coVars, child, childFds>>
    BY <1>3 DEF WaitDone
  <2>2. PipeKeeps'
    BY <1>1, <2>1, FinalizedAre, FinalizedKeeps
  <2> QED
    BY <1>1, <2>1, <2>2, FinalizedAre, PipeSame, StaysIf DEF coVars
<1> QED
  BY <1>2, <1>3

LEMMA WaitEventsMove ==
    ASSUME Inv, Others("pipe"), WaitEvent \/ WaitTimeout
    PROVE  Moves /\ PipeKeeps'
<1> DEFINE c == pipe.sleep
           s == <<"pipe", "wait">>
<1>1. /\ PipeKeeps /\ CoroutineTypes /\ pipe \in Processes /\ c \in Coroutine /\ s \in Slots
      /\ child # "none" /\ Waiters(s) = {c} /\ Resumes(c)
  <2>1. PipeKeeps /\ CoroutineTypes /\ c # Nil /\ Resumes(c)
    BY DEF Inv, ObjectsKeep, WaitEvent, WaitTimeout, PipeResume
  <2>2. pipe \in Processes /\ c \in Coroutine /\ child # "none"
    BY <2>1 DEF PipeKeeps, Processes, MaybeCoroutine
  <2> QED
    BY <2>1, <2>2, SlotKinds, WaitersAre DEF Only
<1>2. ASSUME pipe'.sleep = Nil, \A f \in Channels : chan'[f].co = chan[f].co
      PROVE  Moves
  <2>1. Waiters(s)' = {}
    BY <1>2, WaitersAreNext DEF Only
  <2>2. \A t \in Slots \ {s} : t[1] = "pipe" => Waiters(t)' = Waiters(t)
    BY <1>2, SlotCases, WaitersAre, WaitersAreNext
  <2> HIDE DEF c
  <2> QED
    BY <1>1, <2>1, <2>2, WakesIf
<1>3. CASE WaitEvent
  <2>1. /\ pipe' = [FinalizedPipe EXCEPT !.sleep = Nil, !.posted = FALSE] /\ chan' = FinalizedChannels
        /\ fds' = Remaining(FinalizedChannels) /\ UNCHANGED <<child, childFds>>
    BY <1>3 DEF WaitEvent
  <2>2. pipe' \in Processes /\ pipe'.sleep = Nil /\ pipe'.dead /\ pipe'.open = pipe.open
    BY <1>1, <2>1, FinalizedAre DEF Processes, MaybeCoroutine
  <2> QED
    BY <1>1, <1>2, <2>1, <2>2, FinalizedAre, FinalizedKeeps
<1>4. CASE WaitTimeout
  <2>1. /\ pipe' = [pipe EXCEPT !.sleep = Nil, !.posted = FALSE, !.waitco = Nil]
        /\ UNCHANGED <<child, chan, fds, childFds>>
    BY <1>4 DEF WaitTimeout
  <2>2. /\ pipe' \in Processes /\ pipe'.sleep = Nil /\ pipe'.open = pipe.open
        /\ pipe'.dead = pipe.dead /\ pipe'.node = pipe.node
    BY <1>1, <2>1 DEF Processes, MaybeCoroutine
  <2>3. PipeKeeps'
    BY <1>1, <2>1, <2>2 DEF PipeKeeps, FdsExact, PidValid
  <2> QED
    BY <1>2, <2>1, <2>2, <2>3
<1> QED
  BY <1>3, <1>4

LEMMA PipeGCMoves == ASSUME Inv, Others("pipe"), PipeGC PROVE Moves /\ PipeKeeps'
<1>1. /\ PipeKeeps /\ CoroutineTypes /\ pipe.open /\ child # "none" /\ pipe' = DestroyedPipe
      /\ chan' = DestroyedChannels /\ fds' = {} /\ childFds' = childFds /\ UNCHANGED coVars
      /\ child' \in {child, "zombie"}
  BY DEF Inv, ObjectsKeep, PipeKeeps, PipeGC, Destroy
<1>2. PipeKeeps'
  <2>1. <<"pipe", "wait">> \in Slots /\ <<"pipe", "wait">> \in PipeSlots
    BY SlotKinds DEF PipeSlots
  <2>2. Careful => Waiters(<<"pipe", "wait">>) = {}
    BY <2>1 DEF Inv, Matched, PipeGC
  <2>3. Careful => pipe.sleep = Nil
    BY <2>2, WaitersAre DEF Only
  <2> QED
    BY <1>1, <2>3, FinalizedAre, DestroyedKeeps
<1>3. ASSUME NEW s \in Slots, s[1] = "pipe"
      PROVE  Waiters(s)' \subseteq Waiters(s) /\ s \notin Sure /\ (Careful => Waiters(s) = {})
  <2>1. s \in PipeSlots /\ s \notin Sure
    BY <1>3 DEF Slots, PipeSlots, ThreadSlots, UdpSlots, TcpSlots, ClientSlots, Sure
  <2>2. Careful => Waiters(s) = {}
    BY <2>1 DEF Inv, Matched, PipeGC
  <2>3. Waiters(s)' \subseteq Waiters(s)
    <3>1. CASE \E f \in Channels : s = <<"pipe", f>>
      <4>1. PICK f \in Channels : s = <<"pipe", f>>
        BY <3>1
      <4>2. chan'[f].co = Nil
        BY <1>1, FinalizedAre
      <4>3. Waiters(s)' = Only(chan'[f].co # Nil, chan'[f].co)
        BY <4>1, WaitersAreNext
      <4> QED
        BY <4>2, <4>3 DEF Only
    <3>2. CASE s = <<"pipe", "wait">>
      BY <1>1, <3>2, FinalizedAre, WaitersAre, WaitersAreNext
    <3> QED
      BY <1>3, <3>1, <3>2, SlotCases
  <2> QED
    BY <2>1, <2>2, <2>3
<1> QED
  BY <1>1, <1>2, <1>3, StaysIf DEF coVars

LEMMA PipeMoves ==
    ASSUME Inv, Others("pipe"), PipeEvent \/ \E c \in Coroutine : PipeCall(c)
    PROVE  Moves /\ PipeKeeps'
BY ChannelCalls, TransfersMove, SpawnsMove, ChildMoves, WaitMoves, WaitEventsMove, PipeGCMoves
   DEF PipeCall, PipeEvent

-------------------------------------------------------------------------------
(* The worker threads.                                                       *)

LEMMA TasksAre ==
    ASSUME ThreadKeeps, NEW v \in VM
    PROVE  /\ Holds(v) <=> task[v].co # Nil
           /\ task[v] \in Tasks
           /\ Waiters(<<"thread", v>>) = Only(Holds(v) /\ ~task[v].abort, task[v].co)
<1>1. (Holds(v) <=> task[v].co # Nil) /\ task[v] \in Tasks
  BY DEF ThreadKeeps, Holds, NoTask
<1> QED
  BY <1>1, WaitersAre

LEMMA ThreadSame ==
    ASSUME NEW s \in Slots, s[1] = "thread",
           NEW v \in VM, s # <<"thread", v>>, \A u \in VM \ {v} : task'[u] = task[u]
    PROVE  Waiters(s)' = Waiters(s)
<1>1. PICK u \in VM : s = <<"thread", u>>
  BY SlotCases
<1>2. u # v
  BY <1>1
<1> QED
  BY <1>1, <1>2, WaitersAre, WaitersAreNext DEF Holds

LEMMA VmsKept ==
    ASSUME ThreadKeeps, Made' = Made, vmCount' = vmCount, \A v \in ctxpool' : task'[v] = NoTask
    PROVE  VmsExact'
BY DEF ThreadKeeps, VmsExact, Holds

LEMMA VmMade ==
    ASSUME ThreadKeeps, NEW v \in VM, GetTaskCtx(v), Made' = Made \cup {v},
           \A u \in ctxpool' : task'[u] = NoTask
    PROVE  VmsExact' /\ vmCount' \in Nat
<1>1. IsFiniteSet(Made)
  <2>1. Made \subseteq VM
    BY DEF Made, ThreadKeeps
  <2> QED
    BY <2>1, VMAssumption, FS_Subset
<1>2. CASE v \in ctxpool
  <2>1. Made' = Made /\ vmCount' = vmCount
    BY <1>2 DEF Made, GetTaskCtx
  <2> QED
    BY <2>1, VmsKept DEF ThreadKeeps
<1>3. CASE v \notin ctxpool
  <2>1. v \notin Made /\ vmCount' = vmCount + 1
    BY <1>3 DEF GetTaskCtx
  <2>2. Cardinality(Made \cup {v}) = Cardinality(Made) + 1
    BY <1>1, <2>1, FS_AddElement
  <2> QED
    BY <2>1, <2>2 DEF VmsExact, ThreadKeeps, Holds
<1> QED
  BY <1>2, <1>3

LEMMA ThreadMoves ==
    ASSUME Inv, Others("thread"), ThreadEvents \/ \E c \in Coroutine : ThreadCall(c)
    PROVE  Moves /\ ThreadKeeps'
<1>1. ThreadKeeps /\ CoroutineTypes /\ task \in [VM -> Tasks] /\ ctxpool \subseteq VM /\ vmCount \in Nat
  BY DEF Inv, ObjectsKeep, ThreadKeeps
<1>2. CASE \E c \in Coroutine : RunWorkerThread(c)
  <2>1. PICK c \in Coroutine, v \in VM :
            /\ Runs(c) /\ GetTaskCtx(v) /\ ctxpool' = ctxpool \ {v}
            /\ task' = [task EXCEPT ![v] = Posted(c)] /\ Suspends(c, <<"thread", v>>)
    BY <1>2 DEF RunWorkerThread
  <2>2. Posted(c) \in Tasks /\ Posted(c).co = c /\ c # Nil /\ ~Posted(c).abort /\ Posted(c) # NoTask
    BY CoroutineAssumption DEF Posted, Tasks, MaybeCoroutine, NoTask
  <2>3. ~Holds(v)
    BY <1>1, <2>1 DEF GetTaskCtx, ThreadKeeps, VmsExact, Made
  <2>4. task' \in [VM -> Tasks] /\ task'[v] = Posted(c) /\ \A u \in VM \ {v} : task'[u] = task[u]
    BY <1>1, <2>1, <2>2
  <2>5. Made' = Made \cup {v} /\ \A u \in ctxpool' : task'[u] = NoTask
    <3>1. {u \in VM : Holds(u)}' = {u \in VM : Holds(u)} \cup {v}
      BY <2>2, <2>4 DEF Holds
    <3> QED
      BY <1>1, <2>1, <2>4, <3>1 DEF Made, ThreadKeeps, VmsExact, Holds
  <2>6. VmsExact' /\ vmCount' \in Nat
    BY <1>1, <2>1, <2>5, VmMade
  <2>7. \A u \in VM : task'[u].co = Nil => task'[u] = NoTask
    BY <1>1, <2>2, <2>4 DEF ThreadKeeps
  <2>8. ThreadKeeps'
    BY <1>1, <2>1, <2>4, <2>6, <2>7 DEF ThreadKeeps
  <2> DEFINE s == <<"thread", v>>
  <2>9. s \in Slots /\ Waiters(s) = {} /\ Waiters(s)' = {c}
    <3>1. Waiters(s) = Only(Holds(v) /\ ~task[v].abort, task[v].co)
      BY WaitersAre
    <3>2. Waiters(s)' = Only(task'[v] # NoTask /\ ~task'[v].abort, task'[v].co)
      BY WaitersAreNext
    <3>3. Waiters(s) = {}
      BY <2>3, <3>1 DEF Only
    <3>4. Waiters(s)' = {c}
      BY <2>2, <2>4, <3>2 DEF Only
    <3> QED
      BY <3>3, <3>4, SlotKinds
  <2>10. \A t \in Slots \ {s} : t[1] = "thread" => Waiters(t)' = Waiters(t)
    BY <2>4, ThreadSame
  <2> QED
    BY <1>1, <2>1, <2>8, <2>9, <2>10, StartsIf
<1>3. CASE \E c \in Coroutine : RunFails(c)
  <2>1. PICK v \in VM : GetTaskCtx(v) /\ ctxpool' = FreeTaskCtx(v) /\ UNCHANGED <<coVars, task>>
    BY <1>3 DEF RunFails
  <2>2. Made' = Made \cup {v} /\ \A u \in ctxpool' : task'[u] = NoTask
    BY <1>1, <2>1 DEF Made, Holds, FreeTaskCtx, GetTaskCtx, ThreadKeeps, VmsExact
  <2>3. VmsExact' /\ vmCount' \in Nat
    BY <1>1, <2>1, <2>2, VmMade
  <2>4. ThreadKeeps'
    BY <1>1, <2>1, <2>3 DEF ThreadKeeps, FreeTaskCtx
  <2>5. \A s \in Slots : s[1] = "thread" => Waiters(s)' = Waiters(s)
    BY <2>1, SlotCases, WaitersAre, WaitersAreNext DEF Holds
  <2> QED
    BY <1>1, <2>1, <2>4, <2>5, StaysIf DEF coVars
<1>4. CASE \E v \in VM : ThreadRuns(v)
  <2>1. PICK v \in VM : /\ Holds(v) /\ task' = [task EXCEPT ![v].ran = TRUE]
                        /\ UNCHANGED <<coVars, ctxpool, vmCount>>
    BY <1>4 DEF ThreadRuns
  <2> DEFINE x == [task[v] EXCEPT !.ran = TRUE]
  <2>2. x \in Tasks /\ x.co = task[v].co /\ x.abort = task[v].abort /\ x # NoTask
    BY <1>1 DEF Tasks, NoTask
  <2>3. task' \in [VM -> Tasks] /\ task'[v] = x /\ \A u \in VM \ {v} : task'[u] = task[u]
    BY <1>1, <2>1, <2>2
  <2> HIDE DEF x
  <2>4. Made' = Made /\ \A u \in ctxpool' : task'[u] = NoTask
    <3>1. {u \in VM : Holds(u)}' = {u \in VM : Holds(u)}
      BY <2>1, <2>2, <2>3 DEF Holds
    <3> QED
      BY <1>1, <2>1, <2>3, <3>1 DEF Made, ThreadKeeps, VmsExact, Holds
  <2>5. ThreadKeeps'
    <3>1. \A u \in VM : task'[u].co = Nil => task'[u] = NoTask
      BY <1>1, <2>1, <2>2, <2>3, TasksAre DEF ThreadKeeps
    <3> QED
      BY <1>1, <2>1, <2>3, <2>4, <3>1, VmsKept DEF ThreadKeeps
  <2>6. Waiters(<<"thread", v>>)' = Waiters(<<"thread", v>>)
    <3>1. Waiters(<<"thread", v>>) = Only(Holds(v) /\ ~task[v].abort, task[v].co)
      BY WaitersAre
    <3>2. Waiters(<<"thread", v>>)' = Only(task'[v] # NoTask /\ ~task'[v].abort, task'[v].co)
      BY WaitersAreNext
    <3> QED
      BY <2>1, <2>2, <2>3, <3>1, <3>2 DEF Only, Holds
  <2>7. \A s \in Slots : s[1] = "thread" => Waiters(s)' = Waiters(s)
    BY <2>3, <2>6, ThreadSame
  <2> QED
    BY <1>1, <2>1, <2>5, <2>7, StaysIf DEF coVars
<1>5. CASE \E v \in VM : ThreadEvent(v)
  <2>1. PICK v \in VM : ThreadEvent(v)
    BY <1>5
  <2>2. /\ task' = [task EXCEPT ![v] = NoTask] /\ ctxpool' = ctxpool \cup {v} /\ vmCount' = vmCount
        /\ Holds(v) /\ task[v].co \in Coroutine
    <3>1. task[v] \in Tasks /\ task[v].ran
      BY <1>1, <2>1 DEF ThreadEvent
    <3>2. Holds(v)
      BY <3>1 DEF Holds, NoTask
    <3> QED
      BY <1>1, <2>1, <3>1, <3>2, TasksAre DEF ThreadEvent, FreeTaskCtx, Tasks, MaybeCoroutine
  <2>3. task' \in [VM -> Tasks] /\ task'[v] = NoTask /\ \A u \in VM \ {v} : task'[u] = task[u]
    BY <1>1, <2>2 DEF NoTask, Tasks, MaybeCoroutine
  <2>4. Made' = Made /\ \A u \in ctxpool' : task'[u] = NoTask
    <3>1. {u \in VM : Holds(u)}' = {u \in VM : Holds(u)} \ {v}
      BY <2>3 DEF Holds
    <3> QED
      BY <1>1, <2>2, <2>3, <3>1 DEF Made, ThreadKeeps, VmsExact, Holds
  <2>5. ThreadKeeps'
    <3>1. \A u \in VM : task'[u].co = Nil => task'[u] = NoTask
      BY <1>1, <2>3 DEF ThreadKeeps
    <3> QED
      BY <1>1, <2>2, <2>3, <2>4, <3>1, VmsKept DEF ThreadKeeps
  <2> DEFINE s == <<"thread", v>>
             c == task[v].co
  <2>6. s \in Slots /\ Waiters(s)' = {} /\ Waiters(s) = Only(~task[v].abort, c)
    BY <2>2, <2>3, SlotKinds, WaitersAre, WaitersAreNext DEF Only
  <2>7. \A t \in Slots \ {s} : t[1] = "thread" => Waiters(t)' = Waiters(t)
    BY <2>3, ThreadSame
  <2> HIDE DEF c
  <2>8. CASE task[v].abort
    <3>1. UNCHANGED coVars /\ Waiters(s)' = Waiters(s)
      BY <2>1, <2>6, <2>8 DEF ThreadEvent, Only
    <3>2. \A t \in Slots : t[1] = "thread" => Waiters(t)' = Waiters(t)
      BY <2>7, <3>1
    <3> QED
      BY <1>1, <2>5, <3>1, <3>2, StaysIf DEF coVars
  <2>9. CASE ~task[v].abort
    <3>1. Resumes(c) /\ Waiters(s) = {c} /\ c \in Coroutine
      BY <2>1, <2>2, <2>6, <2>9 DEF ThreadEvent, Only, c
    <3> QED
      BY <1>1, <2>5, <2>6, <2>7, <3>1, WakesIf
  <2> QED
    BY <2>8, <2>9
<1> QED
  BY <1>2, <1>3, <1>4, <1>5 DEF ThreadEvents, ThreadCall

-------------------------------------------------------------------------------
(* The datagram cosocket.                                                    *)

LEMMA UdpSame ==
    ASSUME udp'.waiting /\ udp'.resolving <=> udp.waiting /\ udp.resolving,
           udp'.waiting /\ udp'.reading <=> udp.waiting /\ udp.reading,
           udp'.co = udp.co \/ ~udp.waiting \/ ~(udp.resolving \/ udp.reading)
    PROVE  \A s \in Slots : s[1] = "udp" => Waiters(s)' = Waiters(s)
<1> SUFFICES ASSUME NEW s \in Slots, s[1] = "udp" PROVE Waiters(s)' = Waiters(s)
  OBVIOUS
<1>1. s \in {<<"udp", "resolve">>, <<"udp", "receive">>}
  BY SlotCases
<1> QED
  BY <1>1, WaitersAre, WaitersAreNext DEF Only

LEMMA UdpMoves ==
    ASSUME Inv, Others("udp"),
           UdpEvent \/ \E c \in Coroutine : UdpCall(c)
    PROVE  Moves /\ UdpKeeps'
<1>1. /\ UdpKeeps /\ CoroutineTypes /\ udp \in Datagrams
      /\ <<"udp", "resolve">> \in Slots /\ <<"udp", "receive">> \in Slots
      /\ udp.co \in MaybeCoroutine
  BY SlotKinds DEF Inv, ObjectsKeep, UdpKeeps, Datagrams
<1>2. NewUdp \in Datagrams /\ ~NewUdp.waiting /\ ~NewUdp.resolving /\ ~NewUdp.reading /\ ~NewUdp.conn
  BY DEF NewUdp, Datagrams, MaybeCoroutine
<1>3. CASE \E c \in Coroutine : SetPeerAddress(c) \/ UdpClose(c)
  <2>1. ~udp.waiting /\ UNCHANGED coVars
    BY <1>3 DEF SetPeerAddress, UdpClose
  <2>2. udp' \in Datagrams /\ ~udp'.waiting /\ ~udp'.resolving
    BY <1>1, <1>2, <1>3 DEF SetPeerAddress, UdpClose, Connects, FinalizedUdp, Datagrams
  <2>3. UdpKeeps'
    BY <2>2 DEF UdpKeeps
  <2> QED
    BY <1>1, <2>1, <2>2, <2>3, UdpSame, StaysIf DEF coVars
<1>4. CASE \E c \in Coroutine : UdpSend(c)
  <2>1. udp.conn /\ UNCHANGED coVars /\ udp' = [udp EXCEPT !.waiting = FALSE] /\ ~udp.waiting
    BY <1>4 DEF UdpSend
  <2>2. /\ udp' \in Datagrams /\ ~udp'.waiting /\ ~udp.resolving /\ ~udp'.resolving
        /\ Careful => ~udp.waiting
    BY <1>1, <2>1 DEF Datagrams, UdpKeeps
  <2>3. UdpKeeps'
    BY <2>2 DEF UdpKeeps
  <2>4. \A s \in Slots : s[1] = "udp" => /\ Waiters(s)' \subseteq Waiters(s) /\ s \notin Sure
                                         /\ Careful => Waiters(s)' = Waiters(s)
    <3> SUFFICES ASSUME NEW s \in Slots, s[1] = "udp"
                 PROVE  /\ Waiters(s)' \subseteq Waiters(s) /\ s \notin Sure
                        /\ Careful => Waiters(s)' = Waiters(s)
      OBVIOUS
    <3>1. s \in {<<"udp", "resolve">>, <<"udp", "receive">>}
      BY SlotCases
    <3>2. Waiters(s)' = {} /\ (Careful => Waiters(s) = {})
      BY <2>2, <3>1, WaitersAre, WaitersAreNext DEF Only
    <3> QED
      BY <3>1, <3>2 DEF Sure, ThreadSlots
  <2> QED
    BY <1>1, <2>1, <2>3, <2>4, StaysIf DEF coVars
<1>5. CASE \E c \in Coroutine : ReceiveNow(c)
  <2>1. ~udp.waiting /\ udp' = [udp EXCEPT !.reading = FALSE] /\ ForgetsCleanup /\ at' = at
    BY <1>5 DEF ReceiveNow
  <2>2. udp' \in Datagrams /\ ~udp'.waiting /\ ~udp.resolving /\ ~udp'.resolving
    BY <1>1, <2>1 DEF Datagrams, UdpKeeps
  <2>3. UdpKeeps'
    BY <2>2 DEF UdpKeeps
  <2> QED
    BY <1>1, <2>1, <2>2, <2>3, UdpSame, StaysIf DEF ForgetsCleanup
<1>6. CASE \E c \in Coroutine : SetPeerName(c) \/ ReceiveBlocks(c)
  <2>1. PICK c \in Coroutine : SetPeerName(c) \/ ReceiveBlocks(c)
    BY <1>6
  <2>2. PICK s \in {<<"udp", "resolve">>, <<"udp", "receive">>} :
            /\ Runs(c) /\ ~udp.waiting /\ Suspends(c, s) /\ udp' \in Datagrams /\ udp'.waiting
            /\ udp'.co = c /\ c # Nil /\ (s = <<"udp", "resolve">> <=> udp'.resolving)
            /\ (s = <<"udp", "receive">> <=> udp'.reading)
            /\ udp'.resolving => ~udp'.conn /\ ~udp'.reading
    <3>1. CASE SetPeerName(c)
      <4>1. udp' = [NewUdp EXCEPT !.co = c, !.waiting = TRUE, !.resolving = TRUE]
        BY <3>1 DEF SetPeerName
      <4>2. /\ udp' \in Datagrams /\ udp'.waiting /\ udp'.co = c /\ c # Nil /\ udp'.resolving
            /\ ~udp'.reading /\ ~udp'.conn
        BY <1>2, <4>1, CoroutineAssumption DEF Datagrams, MaybeCoroutine
      <4> QED
        BY <3>1, <4>2 DEF SetPeerName
    <3>2. CASE ReceiveBlocks(c)
      <4>1. udp' = [udp EXCEPT !.waiting = TRUE, !.co = c, !.reading = TRUE] /\ udp.conn
        BY <3>2 DEF ReceiveBlocks
      <4>2. /\ udp' \in Datagrams /\ udp'.waiting /\ udp'.co = c /\ c # Nil /\ ~udp'.resolving
            /\ udp'.reading
        BY <1>1, <4>1, CoroutineAssumption DEF Datagrams, MaybeCoroutine, UdpKeeps
      <4> QED
        BY <3>2, <4>2 DEF ReceiveBlocks, UdpFree
    <3> QED
      BY <2>1, <3>1, <3>2
  <2>3. UdpKeeps'
    BY <2>2 DEF UdpKeeps
  <2>4. s \in Slots /\ s[1] = "udp" /\ Waiters(s) = {} /\ Waiters(s)' = {c}
    BY <1>1, <2>2, WaitersAre, WaitersAreNext DEF Only
  <2>5. \A t \in Slots \ {s} : t[1] = "udp" => Waiters(t)' = Waiters(t)
    <3> SUFFICES ASSUME NEW t \in Slots \ {s}, t[1] = "udp" PROVE Waiters(t)' = Waiters(t)
      OBVIOUS
    <3>1. t \in {<<"udp", "resolve">>, <<"udp", "receive">>} \ {s}
      BY SlotCases
    <3>2. Waiters(t) = {} /\ Waiters(t)' = {}
      BY <1>1, <2>2, <3>1, WaitersAre, WaitersAreNext DEF Only
    <3> QED
      BY <3>2
  <2> QED
    BY <1>1, <2>2, <2>3, <2>4, <2>5, StartsIf
<1>7. CASE ResolveHandler \/ UdpReadHandler
  <2>1. PICK s \in {<<"udp", "resolve">>, <<"udp", "receive">>} :
            /\ udp' \in Datagrams /\ ~udp'.waiting /\ ~udp'.resolving
            /\ s = <<"udp", "resolve">> => udp.resolving /\ ~udp.reading
            /\ s = <<"udp", "receive">> => udp.reading /\ ~udp.resolving
            /\ IF udp.waiting THEN UdpResume ELSE ForgetsCleanup /\ UNCHANGED <<at, alive>>
    <3>1. CASE ResolveHandler
      <4>1. PICK ok \in BOOLEAN :
                udp' = [[udp EXCEPT !.waiting = FALSE, !.resolving = FALSE] EXCEPT !.conn = ok]
        BY <3>1 DEF ResolveHandler, Connects
      <4>2. udp' \in Datagrams /\ ~udp'.waiting /\ ~udp'.resolving
        BY <1>1, <4>1 DEF Datagrams
      <4> QED
        BY <1>1, <3>1, <4>2 DEF ResolveHandler, UdpKeeps
    <3>2. CASE UdpReadHandler
      <4>1. udp' = [udp EXCEPT !.waiting = FALSE, !.reading = FALSE] /\ ~udp.resolving
        BY <1>1, <3>2 DEF UdpReadHandler, ReadHandled, UdpKeeps
      <4>2. udp' \in Datagrams /\ ~udp'.waiting /\ ~udp'.resolving
        BY <1>1, <4>1 DEF Datagrams
      <4> QED
        BY <3>2, <4>1, <4>2 DEF UdpReadHandler
    <3> QED
      BY <1>7, <3>1, <3>2
  <2>2. UdpKeeps'
    BY <2>1 DEF UdpKeeps
  <2>3. CASE udp.waiting
    <3> DEFINE c == udp.co
    <3>1. c \in Coroutine /\ Resumes(c) /\ Waiters(s) = {c} /\ Waiters(s)' = {} /\ s \in Slots /\ s[1] = "udp"
      BY <1>1, <2>1, <2>3, WaitersAre, WaitersAreNext DEF Only, UdpResume, UdpKeeps, MaybeCoroutine
    <3>2. \A t \in Slots \ {s} : t[1] = "udp" => Waiters(t)' = Waiters(t)
      <4> SUFFICES ASSUME NEW t \in Slots \ {s}, t[1] = "udp" PROVE Waiters(t)' = Waiters(t)
        OBVIOUS
      <4>1. t \in {<<"udp", "resolve">>, <<"udp", "receive">>} \ {s}
        BY SlotCases
      <4>2. Waiters(t) = {} /\ Waiters(t)' = {}
        BY <1>1, <2>1, <4>1, WaitersAre, WaitersAreNext DEF Only
      <4> QED
        BY <4>2
    <3> HIDE DEF c
    <3> QED
      BY <1>1, <2>2, <3>1, <3>2, WakesIf
  <2>4. CASE ~udp.waiting
    BY <1>1, <2>1, <2>2, <2>4, UdpSame, StaysIf DEF ForgetsCleanup
  <2> QED
    BY <2>3, <2>4
<1> QED
  BY <1>3, <1>4, <1>5, <1>6, <1>7 DEF UdpCall, UdpEvent
-------------------------------------------------------------------------------
(* The stream cosocket.                                                      *)

CoOf(u, d) == IF d = "read" THEN u.readCo ELSE u.writeCo

LEMMA ClosedIs ==
    ASSUME NEW u \in Streams
    PROVE  /\ TcpFinalized(u) \in Streams /\ ~TcpFinalized(u).conn
           /\ TcpFinalized(u).waiting = u.waiting
           /\ \A d \in Dirs : CoOf(TcpFinalized(u), d) = CoOf(u, d)
           /\ ReadPartClosed(u) \in Streams /\ ReadPartClosed(u).conn = u.conn
           /\ ReadPartClosed(u).waiting = u.waiting
           /\ \A d \in Dirs : CoOf(ReadPartClosed(u), d) = CoOf(u, d)
           /\ WritePartClosed(u) \in Streams /\ WritePartClosed(u).conn = u.conn
           /\ WritePartClosed(u).waiting = u.waiting
           /\ \A d \in Dirs : CoOf(WritePartClosed(u), d) = CoOf(u, d)
<1>1. /\ TcpFinalized(u) \in Streams /\ ~TcpFinalized(u).conn /\ TcpFinalized(u).waiting = u.waiting
      /\ \A d \in Dirs : CoOf(TcpFinalized(u), d) = CoOf(u, d)
  BY DEF TcpFinalized, Streams, CoOf
<1>2. /\ ReadPartClosed(u) \in Streams /\ ReadPartClosed(u).conn = u.conn
      /\ ReadPartClosed(u).waiting = u.waiting
      /\ \A d \in Dirs : CoOf(ReadPartClosed(u), d) = CoOf(u, d)
  BY DEF ReadPartClosed, Streams, CoOf
<1>3. /\ WritePartClosed(u) \in Streams /\ WritePartClosed(u).conn = u.conn
      /\ WritePartClosed(u).waiting = u.waiting
      /\ \A d \in Dirs : CoOf(WritePartClosed(u), d) = CoOf(u, d)
  BY DEF WritePartClosed, Streams, CoOf
<1> QED
  BY <1>1, <1>2, <1>3

LEMMA NotWaitingIs ==
    ASSUME NEW u \in Streams, NEW d \in Dirs
    PROVE  /\ NotWaiting(u, d) \in Streams /\ NotWaiting(u, d).conn = u.conn
           /\ NotWaiting(u, d).waiting = [u.waiting EXCEPT ![d] = FALSE]
           /\ \A e \in Dirs : (e = "read") # (d = "read") => CoOf(NotWaiting(u, d), e) = CoOf(u, e)
<1> DEFINE w == [u.waiting EXCEPT ![d] = FALSE]
<1>1. w \in [Dirs -> BOOLEAN] /\ u.conn \in BOOLEAN
  BY DEF Streams
<1>2. NotWaiting(u, d) = IF d = "read" THEN [u EXCEPT !.waiting = w, !.readCo = Nil]
                         ELSE [u EXCEPT !.waiting = w, !.writeCo = Nil]
  BY DEF NotWaiting, Streams
<1> HIDE DEF w
<1>3. CASE d = "read"
  <2> DEFINE n == [u EXCEPT !.waiting = w, !.readCo = Nil]
  <2>1. n \in Streams /\ n.conn = u.conn /\ n.waiting = w /\ n.writeCo = u.writeCo
    BY <1>1 DEF Streams, MaybeCoroutine
  <2>2. NotWaiting(u, d) = n
    BY <1>2, <1>3
  <2> HIDE DEF n
  <2> QED
    BY <1>3, <2>1, <2>2 DEF w, CoOf
<1>4. CASE d # "read"
  <2> DEFINE n == [u EXCEPT !.waiting = w, !.writeCo = Nil]
  <2>1. n \in Streams /\ n.conn = u.conn /\ n.waiting = w /\ n.readCo = u.readCo
    BY <1>1 DEF Streams, MaybeCoroutine
  <2>2. NotWaiting(u, d) = n
    BY <1>2, <1>4
  <2> HIDE DEF n
  <2> QED
    BY <1>4, <2>1, <2>2 DEF w, CoOf
<1> QED
  BY <1>3, <1>4

LEMMA WaitsIs ==
    ASSUME NEW u \in Streams, NEW d \in Dirs, NEW c \in Coroutine
    PROVE  /\ Waits(u, d, c) \in Streams /\ Waits(u, d, c).conn = u.conn
           /\ Waits(u, d, c).waiting = [u.waiting EXCEPT ![d] = TRUE]
<1> DEFINE w == [u.waiting EXCEPT ![d] = TRUE]
<1>1. w \in [Dirs -> BOOLEAN] /\ u.conn \in BOOLEAN
  BY DEF Streams
<1>2. Waits(u, d, c) = IF d = "read" THEN [u EXCEPT !.waiting = w, !.readCo = c]
                       ELSE [u EXCEPT !.waiting = w, !.writeCo = c]
  BY DEF Waits, Streams
<1> HIDE DEF w
<1>3. CASE d = "read"
  <2> DEFINE n == [u EXCEPT !.waiting = w, !.readCo = c]
  <2>1. n \in Streams /\ n.conn = u.conn /\ n.waiting = w
    BY <1>1 DEF Streams, MaybeCoroutine
  <2>2. Waits(u, d, c) = n
    BY <1>2, <1>3
  <2> HIDE DEF n
  <2> QED
    BY <1>3, <2>1, <2>2 DEF w
<1>4. CASE d # "read"
  <2> DEFINE n == [u EXCEPT !.waiting = w, !.writeCo = c]
  <2>1. n \in Streams /\ n.conn = u.conn /\ n.waiting = w
    BY <1>1 DEF Streams, MaybeCoroutine
  <2>2. Waits(u, d, c) = n
    BY <1>2, <1>4
  <2> HIDE DEF n
  <2> QED
    BY <1>4, <2>1, <2>2 DEF w
<1> QED
  BY <1>3, <1>4

LEMMA WaitsCo ==
    ASSUME NEW u \in Streams, NEW d \in Dirs, NEW c \in Coroutine
    PROVE  /\ d = "read" => Waits(u, d, c).readCo = c /\ Waits(u, d, c).writeCo = u.writeCo
           /\ d # "read" => Waits(u, d, c).writeCo = c /\ Waits(u, d, c).readCo = u.readCo
<1> DEFINE w == [u.waiting EXCEPT ![d] = TRUE]
<1>1. w \in [Dirs -> BOOLEAN] /\ u.conn \in BOOLEAN
  BY DEF Streams
<1>2. Waits(u, d, c) = IF d = "read" THEN [u EXCEPT !.waiting = w, !.readCo = c]
                       ELSE [u EXCEPT !.waiting = w, !.writeCo = c]
  BY DEF Waits, Streams
<1> HIDE DEF w
<1>3. CASE d = "read"
  <2> DEFINE n == [u EXCEPT !.waiting = w, !.readCo = c]
  <2>1. n.readCo = c /\ n.writeCo = u.writeCo
    BY <1>1 DEF Streams, MaybeCoroutine
  <2>2. Waits(u, d, c) = n
    BY <1>2, <1>3
  <2> HIDE DEF n
  <2> QED
    BY <1>3, <2>1, <2>2
<1>4. CASE d # "read"
  <2> DEFINE n == [u EXCEPT !.waiting = w, !.writeCo = c]
  <2>1. n.writeCo = c /\ n.readCo = u.readCo
    BY <1>1 DEF Streams, MaybeCoroutine
  <2>2. Waits(u, d, c) = n
    BY <1>2, <1>4
  <2> HIDE DEF n
  <2> QED
    BY <1>4, <2>1, <2>2
<1> QED
  BY <1>3, <1>4

LEMMA TcpWaiters ==
    ASSUME NEW d \in Dirs
    PROVE  /\ Waiters(<<"tcp", d>>) = Only(tcp.conn /\ tcp.waiting[d], CoOf(tcp, d))
           /\ Waiters(<<"tcp", d>>)' = Only(tcp'.conn /\ tcp'.waiting[d], CoOf(tcp', d))
<1>1. Waiters(<<"tcp", d>>) = Only(tcp.conn /\ tcp.waiting[d], CoOf(tcp, d))
  BY WaitersAre DEF WaiterOf, CoOf
<1>2. Waiters(<<"tcp", d>>)' = Only(tcp'.conn /\ tcp'.waiting[d], CoOf(tcp', d))
  BY WaitersAreNext DEF WaiterOf, CoOf
<1> QED
  BY <1>1, <1>2

\* A coroutine begins to wait
LEMMA TcpStarts ==
    ASSUME Inv, Others("tcp"), NEW c \in Coroutine, NEW d \in Dirs,
           Runs(c), Suspends(c, <<"tcp", d>>), tcp' = Waits(tcp, d, c),
           tcp.conn, ~tcp.waiting["conn"], ~tcp.waiting[d],
           d = "conn" => ~tcp.waiting["read"] /\ ~tcp.waiting["write"]
    PROVE  Moves /\ TcpKeeps'
<1> DEFINE s == <<"tcp", d>>
<1>1. TcpKeeps /\ CoroutineTypes /\ s \in Slots /\ tcp \in Streams /\ c # Nil
  BY SlotKinds, CoroutineAssumption DEF Inv, ObjectsKeep, TcpKeeps
<1>2. /\ tcp' \in Streams /\ tcp'.conn /\ CoOf(tcp', d) = c /\ tcp'.waiting[d]
      /\ \A e \in Dirs : e # d => tcp'.waiting[e] = tcp.waiting[e]
      /\ \A e \in Dirs : (e = "read") # (d = "read") => CoOf(tcp', e) = CoOf(tcp, e)
  <2>1. tcp.waiting \in [Dirs -> BOOLEAN]
    BY <1>1 DEF Streams
  <2> DEFINE n == Waits(tcp, d, c)
  <2>2. /\ n \in Streams /\ n.conn = tcp.conn /\ n.waiting = [tcp.waiting EXCEPT ![d] = TRUE]
        /\ CoOf(n, d) = c
        /\ \A e \in Dirs : (e = "read") # (d = "read") => CoOf(n, e) = CoOf(tcp, e)
    <3>1. n \in Streams /\ n.conn = tcp.conn
      BY <1>1, WaitsIs
    <3>2. n.waiting = [tcp.waiting EXCEPT ![d] = TRUE]
      BY <1>1, WaitsIs
    <3>3. /\ d = "read" => n.readCo = c /\ n.writeCo = tcp.writeCo
          /\ d # "read" => n.writeCo = c /\ n.readCo = tcp.readCo
      BY <1>1, WaitsCo
    <3> HIDE DEF n
    <3> QED
      BY <3>1, <3>2, <3>3 DEF CoOf
  <2>3. tcp' = n
    OBVIOUS
  <2> HIDE DEF n
  <2>4. tcp' \in Streams /\ tcp'.conn /\ tcp'.waiting = [tcp.waiting EXCEPT ![d] = TRUE]
    BY <2>2, <2>3
  <2>5. /\ CoOf(tcp', d) = c
        /\ \A e \in Dirs : (e = "read") # (d = "read") => CoOf(tcp', e) = CoOf(tcp, e)
    BY <2>2, <2>3 DEF CoOf
  <2> QED
    BY <2>1, <2>4, <2>5
<1>3. \A e \in Dirs : \/ e = d
                      \/ ~tcp.waiting[e] /\ ~tcp'.waiting[e]
                      \/ CoOf(tcp', e) = CoOf(tcp, e)
  BY <1>1, <1>2 DEF Dirs, TcpKeeps
<1>4. TcpKeeps'
  <2>1. \A e \in Dirs : tcp'.waiting[e] => CoOf(tcp', e) # Nil
    BY <1>1, <1>2, <1>3 DEF TcpKeeps, CoOf, WaiterOf
  <2>2. tcp'.waiting["conn"] => ~tcp'.waiting["read"] /\ ~tcp'.waiting["write"]
    BY <1>2 DEF Dirs
  <2> QED
    BY <1>2, <2>1, <2>2 DEF TcpKeeps, CoOf, WaiterOf
<1>5. Waiters(s) = {} /\ Waiters(s)' = {c}
  BY <1>2, TcpWaiters DEF Only
<1>6. \A t \in Slots \ {s} : t[1] = "tcp" => Waiters(t)' = Waiters(t)
  <2> SUFFICES ASSUME NEW t \in Slots \ {s}, t[1] = "tcp" PROVE Waiters(t)' = Waiters(t)
    OBVIOUS
  <2>1. PICK e \in Dirs : t = <<"tcp", e>>
    BY SlotCases
  <2>2. e # d
    BY <2>1
  <2> QED
    BY <1>2, <1>3, <2>1, <2>2, TcpWaiters DEF Only
<1> QED
  BY <1>1, <1>4, <1>5, <1>6, StartsIf

\* A coroutine is resumed, and a failed handshake closes the socket
LEMMA TcpWakes ==
    ASSUME Inv, Others("tcp"), NEW d \in Dirs, tcp.conn, tcp.waiting[d], TcpResume(d),
           tcp' \in Streams, tcp'.conn \/ d = "conn",
           tcp'.waiting = [tcp.waiting EXCEPT ![d] = FALSE],
           \A e \in Dirs : (e = "read") # (d = "read") => CoOf(tcp', e) = CoOf(tcp, e)
    PROVE  Moves /\ TcpKeeps'
<1> DEFINE s == <<"tcp", d>>
           c == CoOf(tcp, d)
<1>1. TcpKeeps /\ CoroutineTypes /\ s \in Slots /\ tcp \in Streams
  BY SlotKinds DEF Inv, ObjectsKeep, TcpKeeps
<1>2. ~tcp'.waiting[d] /\ \A e \in Dirs : e # d => tcp'.waiting[e] = tcp.waiting[e]
  BY <1>1 DEF Streams
<1>3. \A e \in Dirs : \/ e = d
                      \/ ~tcp.waiting[e] /\ ~tcp'.waiting[e]
                      \/ CoOf(tcp', e) = CoOf(tcp, e) /\ tcp'.conn
  BY <1>1, <1>2 DEF Dirs, TcpKeeps
<1>4. TcpKeeps'
  <2>1. \A e \in Dirs : tcp'.waiting[e] => CoOf(tcp', e) # Nil
    BY <1>1, <1>2, <1>3 DEF TcpKeeps, CoOf, WaiterOf
  <2>2. tcp'.waiting["conn"] => ~tcp'.waiting["read"] /\ ~tcp'.waiting["write"]
    BY <1>1, <1>2 DEF Dirs, TcpKeeps
  <2> QED
    BY <2>1, <2>2 DEF TcpKeeps, CoOf, WaiterOf
<1>5. c \in Coroutine /\ Resumes(c)
  <2>1. c # Nil /\ Resumes(c)
    BY <1>1 DEF TcpKeeps, CoOf, WaiterOf, TcpResume
  <2> QED
    BY <1>1, <2>1 DEF CoOf, Streams, MaybeCoroutine
<1>6. Waiters(s) = {c} /\ Waiters(s)' = {}
  BY <1>2, TcpWaiters DEF Only
<1>7. \A t \in Slots \ {s} : t[1] = "tcp" => Waiters(t)' = Waiters(t)
  <2> SUFFICES ASSUME NEW t \in Slots \ {s}, t[1] = "tcp" PROVE Waiters(t)' = Waiters(t)
    OBVIOUS
  <2>1. PICK e \in Dirs : t = <<"tcp", e>>
    BY SlotCases
  <2>2. e # d
    BY <2>1
  <2> QED
    BY <1>2, <1>3, <2>1, <2>2, TcpWaiters DEF Only
<1> HIDE DEF c
<1> QED
  BY <1>1, <1>4, <1>5, <1>6, <1>7, WakesIf

\* Nobody is concerned
LEMMA TcpStays ==
    ASSUME Inv, Others("tcp"), UNCHANGED coVars, tcp' \in Streams, tcp.conn,
           tcp'.conn \/ \A e \in Dirs : ~tcp.waiting[e],
           \A e \in Dirs : tcp'.waiting[e] = tcp.waiting[e],
           \A e \in Dirs : tcp.waiting[e] => CoOf(tcp', e) = CoOf(tcp, e)
    PROVE  Moves /\ TcpKeeps'
<1>1. TcpKeeps /\ CoroutineTypes
  BY DEF Inv, ObjectsKeep
<1>2. TcpKeeps'
  BY <1>1 DEF TcpKeeps, CoOf, WaiterOf, Dirs
<1>3. \A t \in Slots : t[1] = "tcp" => Waiters(t)' = Waiters(t)
  <2> SUFFICES ASSUME NEW t \in Slots, t[1] = "tcp" PROVE Waiters(t)' = Waiters(t)
    OBVIOUS
  <2>1. PICK e \in Dirs : t = <<"tcp", e>>
    BY SlotCases
  <2> QED
    BY <2>1, TcpWaiters DEF Only
<1> QED
  BY <1>1, <1>2, <1>3, StaysIf DEF coVars

LEMMA TcpMoves ==
    ASSUME Inv, Others("tcp"), TcpEvent \/ \E c \in Coroutine : TcpCall(c)
    PROVE  Moves /\ TcpKeeps'
<1>1. TcpKeeps /\ tcp \in Streams /\ tcp.waiting \in [Dirs -> BOOLEAN] /\ {"conn", "read", "write"} = Dirs
  BY DEF Inv, ObjectsKeep, TcpKeeps, Streams, Dirs
<1>2. CASE \E c \in Coroutine : HandshakeBlocks(c) \/ ReadBlocks(c) \/ WriteBlocks(c)
  <2>1. PICK c \in Coroutine : HandshakeBlocks(c) \/ ReadBlocks(c) \/ WriteBlocks(c)
    BY <1>2
  <2>2. CASE HandshakeBlocks(c)
    BY <1>1, <2>2, TcpStarts DEF HandshakeBlocks, CanShake, Busy
  <2>3. CASE ReadBlocks(c)
    BY <1>1, <2>3, TcpStarts DEF ReadBlocks, CanRead, Busy
  <2>4. CASE WriteBlocks(c)
    BY <1>1, <2>4, TcpStarts DEF WriteBlocks, CanWrite, Busy
  <2> QED
    BY <2>1, <2>2, <2>3, <2>4
<1>3. CASE TcpEvent
  <2>1. PICK d \in Dirs : /\ tcp.conn /\ tcp.waiting[d] /\ TcpResume(d)
                          /\ \/ tcp' = NotWaiting(tcp, d)
                             \/ tcp' = ReadPartClosed(NotWaiting(tcp, d))
                             \/ tcp' = WritePartClosed(NotWaiting(tcp, d))
                             \/ d = "conn" /\ tcp' = NotWaiting(TcpFinalized(tcp), d)
    BY <1>1, <1>3 DEF TcpEvent, HandshakeDone, HandshakeError, HandshakeFailed, ReadDone, ReadError,
                      WriteDone, WriteFailed
  <2> DEFINE n == NotWaiting(tcp, d)
  <2>2. /\ n \in Streams /\ n.conn = tcp.conn /\ n.waiting = [tcp.waiting EXCEPT ![d] = FALSE]
        /\ \A e \in Dirs : (e = "read") # (d = "read") => CoOf(n, e) = CoOf(tcp, e)
    BY <1>1, NotWaitingIs
  <2> DEFINE f == TcpFinalized(tcp)
             m == NotWaiting(f, d)
  <2>3. /\ m \in Streams /\ m.waiting = [tcp.waiting EXCEPT ![d] = FALSE]
        /\ \A e \in Dirs : (e = "read") # (d = "read") => CoOf(m, e) = CoOf(tcp, e)
    <3>1. f \in Streams /\ f.waiting = tcp.waiting /\ \A e \in Dirs : CoOf(f, e) = CoOf(tcp, e)
      BY <1>1, ClosedIs
    <3> HIDE DEF f
    <3> QED
      BY <3>1, NotWaitingIs
  <2>4. tcp' = n \/ tcp' = ReadPartClosed(n) \/ tcp' = WritePartClosed(n) \/ (d = "conn" /\ tcp' = m)
    BY <2>1
  <2> HIDE DEF n, m, f
  <2>5. /\ tcp' \in Streams /\ (tcp'.conn \/ d = "conn")
        /\ tcp'.waiting = [tcp.waiting EXCEPT ![d] = FALSE]
        /\ \A e \in Dirs : (e = "read") # (d = "read") => CoOf(tcp', e) = CoOf(tcp, e)
    <3>1. CASE tcp' = n
      <4>1. tcp' \in Streams /\ (tcp'.conn \/ d = "conn")
        BY <2>1, <2>2, <3>1
      <4>2. tcp'.waiting = [tcp.waiting EXCEPT ![d] = FALSE]
        BY <2>1, <2>2, <3>1
      <4>3. \A e \in Dirs : (e = "read") # (d = "read") => CoOf(tcp', e) = CoOf(tcp, e)
        BY <2>1, <2>2, <3>1 DEF CoOf
      <4> QED
        BY <4>1, <4>2, <4>3
    <3>2. CASE tcp' = ReadPartClosed(n)
      <4>1. tcp' \in Streams /\ (tcp'.conn \/ d = "conn")
        BY <2>1, <2>2, <3>2, ClosedIs
      <4>2. tcp'.waiting = [tcp.waiting EXCEPT ![d] = FALSE]
        BY <2>1, <2>2, <3>2, ClosedIs
      <4>3. \A e \in Dirs : (e = "read") # (d = "read") => CoOf(tcp', e) = CoOf(tcp, e)
        BY <2>1, <2>2, <3>2, ClosedIs DEF CoOf
      <4> QED
        BY <4>1, <4>2, <4>3
    <3>3. CASE tcp' = WritePartClosed(n)
      <4>1. tcp' \in Streams /\ (tcp'.conn \/ d = "conn")
        BY <2>1, <2>2, <3>3, ClosedIs
      <4>2. tcp'.waiting = [tcp.waiting EXCEPT ![d] = FALSE]
        BY <2>1, <2>2, <3>3, ClosedIs
      <4>3. \A e \in Dirs : (e = "read") # (d = "read") => CoOf(tcp', e) = CoOf(tcp, e)
        BY <2>1, <2>2, <3>3, ClosedIs DEF CoOf
      <4> QED
        BY <4>1, <4>2, <4>3
    <3>4. CASE d = "conn" /\ tcp' = m
      <4>1. tcp' \in Streams /\ (tcp'.conn \/ d = "conn")
        BY <2>3, <3>4
      <4>2. tcp'.waiting = [tcp.waiting EXCEPT ![d] = FALSE]
        BY <2>3, <3>4
      <4>3. \A e \in Dirs : (e = "read") # (d = "read") => CoOf(tcp', e) = CoOf(tcp, e)
        BY <2>3, <3>4 DEF CoOf
      <4> QED
        BY <4>1, <4>2, <4>3
    <3> QED
      BY <2>4, <3>1, <3>2, <3>3, <3>4
  <2> QED
    BY <2>1, <2>5, TcpWakes
<1>4. CASE \E c \in Coroutine : HandshakeNow(c)
  <2>1. PICK c \in Coroutine : HandshakeNow(c)
    BY <1>4
  <2> DEFINE n == [tcp EXCEPT !.writeCo = c]
  <2>2. n \in Streams /\ n.conn = tcp.conn /\ n.waiting = tcp.waiting
    BY <1>1 DEF Streams, MaybeCoroutine
  <2>3. /\ UNCHANGED coVars /\ (tcp' = n \/ tcp' = TcpFinalized(n))
        /\ tcp.conn /\ \A e \in Dirs : ~tcp.waiting[e]
    BY <2>1 DEF HandshakeNow, CanShake, Busy
  <2> HIDE DEF n
  <2>4. tcp' \in Streams /\ tcp'.waiting = tcp.waiting
    BY <2>2, <2>3, ClosedIs
  <2> QED
    BY <2>3, <2>4, TcpStays
<1>5. CASE \E c \in Coroutine : ReadNow(c)
  <2> DEFINE n == [tcp EXCEPT !.readCo = Nil]
  <2>1. n \in Streams /\ n.conn = tcp.conn /\ n.waiting = tcp.waiting /\ n.writeCo = tcp.writeCo
    BY <1>1 DEF Streams, MaybeCoroutine
  <2>2. UNCHANGED coVars /\ (tcp' = n \/ tcp' = ReadPartClosed(n)) /\ tcp.conn /\ ~tcp.waiting["read"]
    BY <1>5 DEF ReadNow, CanRead, Busy
  <2>3. \A e \in Dirs : tcp.waiting[e] => CoOf(n, e) = CoOf(tcp, e)
    BY <2>1, <2>2 DEF CoOf
  <2> HIDE DEF n
  <2>4. tcp' \in Streams /\ tcp'.conn /\ tcp'.waiting = tcp.waiting
    BY <2>1, <2>2, ClosedIs
  <2>5. \A e \in Dirs : CoOf(tcp', e) = CoOf(n, e)
    BY <2>1, <2>2, ClosedIs DEF CoOf
  <2> QED
    BY <2>2, <2>3, <2>4, <2>5, TcpStays
<1>6. CASE \E c \in Coroutine : WriteNow(c)
  <2> DEFINE n == NotWaiting(tcp, "write")
  <2>1. UNCHANGED coVars /\ (tcp' = n \/ tcp' = WritePartClosed(n)) /\ tcp.conn
        /\ ~tcp.waiting["write"] /\ ~tcp.waiting["conn"]
    BY <1>6 DEF WriteNow, CanWrite, Busy, WriteFailed
  <2>2. /\ n \in Streams /\ n.conn = tcp.conn /\ \A e \in Dirs : n.waiting[e] = tcp.waiting[e]
        /\ CoOf(n, "read") = CoOf(tcp, "read")
    <3>1. n.waiting = [tcp.waiting EXCEPT !["write"] = FALSE] /\ "read" \in Dirs /\ "write" \in Dirs
      BY <1>1, NotWaitingIs
    <3>2. n \in Streams /\ n.conn = tcp.conn /\ CoOf(n, "read") = CoOf(tcp, "read")
      BY <1>1, <3>1, NotWaitingIs
    <3> QED
      BY <1>1, <2>1, <3>1, <3>2
  <2>3. \A e \in Dirs : tcp.waiting[e] => CoOf(n, e) = CoOf(tcp, e)
    BY <2>1, <2>2 DEF Dirs
  <2> HIDE DEF n
  <2>4. tcp' \in Streams /\ tcp'.conn
    <3>1. CASE tcp' = n
      BY <2>1, <2>2, <3>1
    <3>2. CASE tcp' = WritePartClosed(n)
      BY <2>1, <2>2, <3>2, ClosedIs
    <3> QED
      BY <2>1, <3>1, <3>2
  <2>6. tcp'.waiting = n.waiting
    BY <2>1, <2>2, ClosedIs
  <2>5. \A e \in Dirs : CoOf(tcp', e) = CoOf(n, e)
    BY <2>1, <2>2, ClosedIs DEF CoOf
  <2> QED
    BY <2>1, <2>2, <2>3, <2>4, <2>5, <2>6, TcpStays
<1>7. CASE \E c \in Coroutine : TcpClose(c)
  <2>1. UNCHANGED coVars /\ tcp' = TcpFinalized(tcp) /\ tcp.conn /\ \A e \in Dirs : ~tcp.waiting[e]
    BY <1>7 DEF TcpClose, Busy
  <2> QED
    BY <1>1, <2>1, ClosedIs, TcpStays
<1> QED
  BY <1>2, <1>3, <1>4, <1>5, <1>6, <1>7 DEF TcpCall

-------------------------------------------------------------------------------
(* The client's connection.                                                  *)

LEMMA BodyAlone ==
    ASSUME NEW t \in Slots, t[1] = "client", t # <<"client", "body">>, out'.flushing = out.flushing,
           failing' = failing
    PROVE  Waiters(t)' = Waiters(t)
<1>1. t = <<"client", "flush">>
  BY SlotCases
<1> QED
  BY <1>1, WaitersAre, WaitersAreNext

LEMMA FlushAlone ==
    ASSUME NEW t \in Slots, t[1] = "client", t # <<"client", "flush">>, body' = body
    PROVE  Waiters(t)' = Waiters(t)
<1>1. t = <<"client", "body">>
  BY SlotCases
<1> QED
  BY <1>1, WaitersAre, WaitersAreNext

LEMMA BodyMoves ==
    ASSUME Inv, Others("client"), failing' = failing,
           BodyComplete \/ \E c \in Coroutine : ReadBodyNow(c) \/ ReadBodyBlocks(c) \/ ReadBodyAgain(c)
    PROVE  Moves /\ ClientKeeps'
<1> DEFINE s == <<"client", "body">>
<1>1. ClientKeeps /\ CoroutineTypes /\ body \in Bodies /\ s \in Slots /\ out' = out
  BY SlotKinds DEF Inv, ObjectsKeep, ClientKeeps, BodyComplete, ReadBodyNow, ReadBodyBlocks, ReadBodyAgain
<1>2. Waiters(s) = Only(body.waiting, body.co) /\ Waiters(s)' = Only(body'.waiting, body'.co)
  BY WaitersAre, WaitersAreNext
<1>3. ASSUME body' \in Bodies, body'.waiting => body'.started /\ body'.co # Nil
      PROVE  ClientKeeps'
  BY <1>1, <1>3 DEF ClientKeeps, FlushExact
<1>4. CASE \E c \in Coroutine : ReadBodyNow(c)
  <2>1. body' = [body EXCEPT !.started = TRUE, !.complete = TRUE] /\ UNCHANGED coVars /\ ~body.started
    BY <1>4 DEF ReadBodyNow
  <2>2. body' \in Bodies /\ ~body.waiting /\ ~body'.waiting
    BY <1>1, <2>1 DEF ClientKeeps, Bodies
  <2>3. Waiters(s)' = Waiters(s)
    BY <1>2, <2>2 DEF Only
  <2>4. \A t \in Slots : t[1] = "client" => Waiters(t)' = Waiters(t)
    BY <1>1, <2>3, BodyAlone
  <2> QED
    BY <1>1, <1>3, <2>1, <2>2, <2>4, StaysIf DEF coVars
<1>5. CASE \E c \in Coroutine : ReadBodyBlocks(c)
  <2>1. PICK c \in Coroutine : /\ body' = [body EXCEPT !.started = TRUE, !.waiting = TRUE, !.co = c]
                               /\ Runs(c) /\ ~body.started /\ Suspends(c, s)
    BY <1>5 DEF ReadBodyBlocks
  <2>2. body' \in Bodies /\ body'.started /\ body'.waiting /\ body'.co = c /\ c # Nil
    BY <1>1, <2>1, CoroutineAssumption DEF Bodies, MaybeCoroutine
  <2>3. Waiters(s) = {} /\ Waiters(s)' = {c}
    BY <1>1, <1>2, <2>1, <2>2 DEF Only, ClientKeeps
  <2> QED
    BY <1>1, <1>3, <2>1, <2>2, <2>3, BodyAlone, StartsIf
<1>6. CASE BodyComplete \/ \E c \in Coroutine : ReadBodyAgain(c)
  <2>1. PICK b \in BOOLEAN : PostRead /\ body' = [body EXCEPT !.waiting = FALSE, !.complete = b]
    <3>1. body = [body EXCEPT !.complete = body.complete] /\ body.complete \in BOOLEAN
      BY <1>1 DEF Bodies
    <3>2. [body EXCEPT !.waiting = FALSE] = [body EXCEPT !.waiting = FALSE, !.complete = body.complete]
      BY <1>1 DEF Bodies
    <3> QED
      BY <1>6, <3>1, <3>2 DEF BodyComplete, ReadBodyAgain
  <2>2. body' \in Bodies /\ ~body'.waiting
    BY <1>1, <2>1 DEF Bodies
  <2>3. CASE body.waiting
    <3> DEFINE c == body.co
    <3>1. c \in Coroutine /\ Resumes(c)
      BY <1>1, <2>1, <2>3 DEF PostRead, ClientKeeps, Bodies, MaybeCoroutine
    <3>2. Waiters(s) = {c} /\ Waiters(s)' = {}
      BY <1>2, <2>2, <2>3 DEF Only
    <3> HIDE DEF c
    <3> QED
      BY <1>1, <1>3, <2>2, <3>1, <3>2, BodyAlone, WakesIf
  <2>4. CASE ~body.waiting
    <3>1. UNCHANGED coVars /\ Waiters(s)' = Waiters(s)
      BY <1>2, <2>1, <2>2, <2>4 DEF PostRead, Only
    <3>2. \A t \in Slots : t[1] = "client" => Waiters(t)' = Waiters(t)
      BY <1>1, <3>1, BodyAlone
    <3> QED
      BY <1>1, <1>3, <2>2, <3>1, <3>2, StaysIf DEF coVars
  <2> QED
    BY <2>3, <2>4
<1> QED
  BY <1>4, <1>5, <1>6

LEMMA StartsPassIs ==
    ASSUME NEW o, OutFields \subseteq DOMAIN o
    PROVE  /\ OutFields \subseteq DOMAIN StartsPass(o)
           /\ StartsPass(o).flushing = o.flushing /\ StartsPass(o).coros = o.coros
BY DEF StartsPass, OutFields

\* A coroutine is flagged and counted
LEMMA FlaggedIs ==
    ASSUME NEW o, OutFields \subseteq DOMAIN o, NEW f, NEW n,
           out' = [o EXCEPT !.flushing = f, !.coros = n]
    PROVE  OutFields \subseteq DOMAIN out' /\ out'.flushing = f /\ out'.coros = n
BY DEF OutFields

LEMMA FlaggedKeeps ==
    ASSUME out.flushing \subseteq Coroutine, out.coros \in Nat, FlushExact, NEW c \in Coroutine,
           Careful => c \notin out.flushing, out'.flushing = out.flushing \cup {c},
           out'.coros = out.coros + 1
    PROVE  out'.flushing \subseteq Coroutine /\ out'.coros \in Nat /\ FlushExact'
<1>1. IsFiniteSet(out.flushing) /\ Cardinality(out.flushing) \in Nat
  BY CoroutineAssumption, FS_Subset, FS_CardinalityType
<1>2. Cardinality(out.flushing \cup {c}) = IF c \in out.flushing THEN Cardinality(out.flushing)
                                          ELSE Cardinality(out.flushing) + 1
  BY <1>1, FS_AddElement
<1> QED
  BY <1>1, <1>2 DEF FlushExact

\* and is flagged no more
LEMMA UnflaggedKeeps ==
    ASSUME out.flushing \subseteq Coroutine, out.coros \in Nat, FlushExact, NEW c \in out.flushing,
           out'.flushing = out.flushing \ {c}, out'.coros = out.coros - 1
    PROVE  out'.flushing \subseteq Coroutine /\ out'.coros \in Nat /\ FlushExact'
<1>1. IsFiniteSet(out.flushing) /\ Cardinality(out.flushing) \in Nat
  BY CoroutineAssumption, FS_Subset, FS_CardinalityType
<1>2. /\ Cardinality(out.flushing \ {c}) = Cardinality(out.flushing) - 1
      /\ Cardinality(out.flushing \ {c}) \in Nat
  BY <1>1, FS_RemoveElement, FS_CardinalityType
<1> QED
  BY <1>1, <1>2 DEF FlushExact

LEMMA FlushMoves ==
    ASSUME Inv, Others("client"), failing = Nil,
           \/ /\ failing' = Nil
              /\ \/ WriteEvent \/ SendTimeout \/ FlushResume \/ PassEnds
                 \/ \E c \in Coroutine : FlushNow(c) \/ FlushBlocks(c)
           \/ \E c \in Coroutine : FlushFails(c)
    PROVE  Moves /\ ClientKeeps'
<1> DEFINE s == <<"client", "flush">>
<1>1. /\ ClientKeeps /\ CoroutineTypes /\ s \in Slots /\ body' = body /\ OutFields \subseteq DOMAIN out
      /\ out.flushing \subseteq Coroutine /\ out.coros \in Nat /\ FlushExact
  BY SlotKinds DEF Inv, ObjectsKeep, ClientKeeps, WriteEvent, SendTimeout, FlushResume, PassEnds,
                   FlushNow, FlushBlocks, FlushFails, FlushBroken
<1>2. /\ Waiters(s) = out.flushing /\ Waiters(s)' = out'.flushing \ {failing'}
      /\ out'.flushing \subseteq Coroutine /\ failing' = Nil => Waiters(s)' = out'.flushing
  BY <1>1, WaitersAre, WaitersAreNext, CoroutineAssumption
<1>4. ASSUME OutFields \subseteq DOMAIN out', out'.flushing = out.flushing, out'.coros = out.coros,
             failing' = Nil, UNCHANGED coVars
      PROVE  Moves /\ ClientKeeps'
  <2>1. ClientKeeps'
    BY <1>1, <1>4 DEF ClientKeeps, FlushExact
  <2>2. \A t \in Slots : t[1] = "client" => Waiters(t)' = Waiters(t)
    BY <1>1, <1>2, <1>4, FlushAlone
  <2> QED
    BY <1>1, <1>4, <2>1, <2>2, StaysIf DEF coVars
<1>5. CASE failing' = Nil /\ ((\E c \in Coroutine : FlushNow(c)) \/ PassEnds)
  <2>1. /\ UNCHANGED coVars
        /\ (\E b : out' = [out EXCEPT !.buffered = b]) \/ out' = [out EXCEPT !.left = 0, !.from = 0]
    BY <1>5 DEF FlushNow, PassEnds
  <2>2. OutFields \subseteq DOMAIN out' /\ out'.flushing = out.flushing /\ out'.coros = out.coros
    BY <1>1, <2>1 DEF OutFields
  <2> QED
    BY <1>4, <1>5, <2>1, <2>2
<1>6. CASE failing' = Nil /\ (WriteEvent \/ SendTimeout)
  <2>1. PICK o : /\ out' = StartsPass(o) /\ UNCHANGED coVars
                 /\ \/ \E b : o = [out EXCEPT !.timer = FALSE, !.buffered = b]
                    \/ o = [out EXCEPT !.timer = FALSE]
    BY <1>6 DEF WriteEvent, SendTimeout
  <2>2. OutFields \subseteq DOMAIN o /\ o.flushing = out.flushing /\ o.coros = out.coros
    BY <1>1, <2>1 DEF OutFields
  <2> QED
    BY <1>4, <1>6, <2>1, <2>2, StartsPassIs
<1>7. CASE failing' = Nil /\ \E c \in Coroutine : FlushBlocks(c)
  <2>1. PICK c \in Coroutine : /\ out' = [out EXCEPT !.buffered = TRUE, !.timer = TRUE,
                                                     !.flushing = out.flushing \cup {c},
                                                     !.coros = out.coros + 1]
                               /\ Runs(c) /\ Suspends(c, s)
    BY <1>7 DEF FlushBlocks
  <2>2. Careful => c \notin out.flushing
    BY <1>1, <1>2, <2>1, SlotKinds DEF Inv, Matched, Runs
  <2>3. /\ OutFields \subseteq DOMAIN out' /\ out'.flushing = out.flushing \cup {c}
        /\ out'.coros = out.coros + 1
    <3> DEFINE o == [out EXCEPT !.buffered = TRUE, !.timer = TRUE]
    <3>1. OutFields \subseteq DOMAIN o /\ out' = [o EXCEPT !.flushing = out.flushing \cup {c},
                                                         !.coros = out.coros + 1]
      BY <1>1, <2>1
    <3> HIDE DEF o
    <3> QED
      BY <3>1, FlaggedIs
  <2>5. ClientKeeps'
    BY <1>1, <2>2, <2>3, FlaggedKeeps DEF ClientKeeps
  <2> QED
    BY <1>1, <1>2, <1>7, <2>1, <2>3, <2>5, FlushAlone, StartsIf
<1>9. CASE \E c \in Coroutine : FlushFails(c)
  <2>1. PICK c \in Coroutine : /\ out' = [out EXCEPT !.buffered = TRUE, !.timer = FALSE,
                                                     !.flushing = out.flushing \cup {c},
                                                     !.coros = out.coros + 1]
                               /\ Runs(c) /\ UNCHANGED coVars
                               /\ failing' = IF Careful THEN c ELSE Nil
    BY <1>9 DEF FlushFails, FlushBroken
  <2>2. Careful => c \notin out.flushing
    BY <1>1, <1>2, <2>1, SlotKinds DEF Inv, Matched, Runs
  <2>3. /\ OutFields \subseteq DOMAIN out' /\ out'.flushing = out.flushing \cup {c}
        /\ out'.coros = out.coros + 1
    <3> DEFINE o == [out EXCEPT !.buffered = TRUE, !.timer = FALSE]
    <3>1. OutFields \subseteq DOMAIN o /\ out' = [o EXCEPT !.flushing = out.flushing \cup {c},
                                                         !.coros = out.coros + 1]
      BY <1>1, <2>1
    <3> HIDE DEF o
    <3> QED
      BY <3>1, FlaggedIs
  <2>4. ClientKeeps'
    BY <1>1, <2>2, <2>3, FlaggedKeeps DEF ClientKeeps
  <2>5. (Careful => Waiters(s)' = Waiters(s)) /\ Waiters(s) \subseteq Waiters(s)'
    BY <1>1, <1>2, <2>1, <2>2, <2>3, CoroutineAssumption
  <2>6. \A t \in Slots : t[1] = "client" => /\ Careful => Waiters(t)' = Waiters(t)
                                            /\ Waiters(t) \subseteq Waiters(t)'
    BY <1>1, <2>5, FlushAlone
  <2> QED
    BY <1>1, <2>1, <2>4, <2>6, StaysIf DEF coVars
<1>8. CASE failing' = Nil /\ FlushResume
  <2>1. PICK c \in out.flushing : out' = Flushed(c) /\ Resumes(c)
    BY <1>8 DEF FlushResume
  <2>2. OutFields \subseteq DOMAIN out' /\ out'.flushing = out.flushing \ {c} /\ out'.coros = out.coros - 1
    BY <1>1, <2>1 DEF OutFields, Flushed
  <2>4. ClientKeeps'
    BY <1>1, <2>2, UnflaggedKeeps DEF ClientKeeps
  <2> QED
    BY <1>1, <1>2, <1>8, <2>1, <2>2, <2>4, FlushAlone, WakesIf
<1> QED
  BY <1>5, <1>6, <1>7, <1>8, <1>9

LEMMA ClientMoves ==
    ASSUME Inv, Others("client"), failing = Nil,
           \/ failing' = Nil /\ (ClientEvent \/ \E c \in Coroutine : ClientCall(c))
           \/ \E c \in Coroutine : FlushFails(c)
    PROVE  Moves /\ ClientKeeps'
BY BodyMoves, FlushMoves DEF ClientEvent, ClientCall

-------------------------------------------------------------------------------
(* What is left alone keeps to what it kept.                                 *)

LEMMA OthersKeep ==
    ASSUME ObjectsKeep, NEW obj, Others(obj)
    PROVE  /\ obj # "pipe" => PipeKeeps'
           /\ obj # "thread" => ThreadKeeps'
           /\ obj # "udp" => UdpKeeps'
           /\ obj # "tcp" => TcpKeeps'
           /\ obj # "client" => ClientKeeps'
<1>1. ASSUME obj # "pipe" PROVE PipeKeeps'
  BY <1>1 DEF Others, ObjectsKeep, pipeVars, PipeKeeps, FdsExact, PidValid
<1>2. ASSUME obj # "thread" PROVE ThreadKeeps'
  BY <1>2 DEF Others, ObjectsKeep, threadVars, ThreadKeeps, VmsExact, Made, Holds
<1>3. ASSUME obj # "udp" PROVE UdpKeeps'
  BY <1>3 DEF Others, ObjectsKeep, UdpKeeps
<1>4. ASSUME obj # "tcp" PROVE TcpKeeps'
  BY <1>4 DEF Others, ObjectsKeep, TcpKeeps, WaiterOf
<1>5. ASSUME obj # "client" PROVE ClientKeeps'
  BY <1>5 DEF Others, ObjectsKeep, clientVars, ClientKeeps, FlushExact
<1> QED
  BY <1>1, <1>2, <1>3, <1>4, <1>5

-------------------------------------------------------------------------------
(* A coroutine is killed.                                                    *)

KillsAt(c, s) == Kill(c) /\ at[c] = s /\ cleanup[c] = s

LEMMA KillIs ==
    ASSUME Inv, NEW c \in Coroutine, NEW s \in Slots, KillsAt(c, s)
    PROVE  /\ Others(s[1]) /\ PipeCleaned(s) /\ OtherCleaned(s, c)
           /\ UNCHANGED <<child, sigchld, fds, childFds, ctxpool, vmCount>>
           /\ s \in Sure \/ Careful => c \in Waiters(s)
           /\ \A t \in Slots :
                 Careful /\ t # s /\ t[1] = s[1] /\ s[1] \in {"tcp", "client"} => Waiters(t) = {}
<1>1. PipeCleaned(s) /\ OtherCleaned(s, c)
  BY SlotKinds DEF KillsAt, Kill
<1>2. UNCHANGED <<child, sigchld, fds, childFds, ctxpool, vmCount, uses, failing>>
  BY DEF KillsAt, Kill
<1>3. Others(s[1])
  BY <1>1, <1>2 DEF PipeCleaned, OtherCleaned, Others, pipeVars, threadVars, clientVars
<1>4. s \in Sure \/ Careful => c \in Waiters(s)
  BY DEF Inv, Guarded, Matched, KillsAt
<1>5. ASSUME Careful, NEW t \in Slots, t # s, t[1] = s[1], s[1] \in {"tcp", "client"}, NEW d \in Waiters(t)
      PROVE  FALSE
  <2>1. d \in Coroutine /\ at[d] = t /\ d # c
    BY <1>5 DEF Inv, Matched, KillsAt
  <2> QED
    BY <1>5, <2>1 DEF KillsAt, Kill, Copes
<1> QED
  BY <1>1, <1>2, <1>3, <1>4, <1>5

LEMMA DiesIf ==
    ASSUME Inv, NEW c \in Coroutine, NEW s \in Slots, KillsAt(c, s),
           \A t \in Slots : t[1] = s[1] =>
               /\ t \in Sure => Waiters(t) \ {c} \subseteq Waiters(t)'
               /\ Careful => Waiters(t)' = Waiters(t) \ {c}
    PROVE  Moves
<1>1. ASSUME NEW t \in Slots, t[1] # s[1] PROVE Waiters(t)' = Waiters(t) /\ (Careful => c \notin Waiters(t))
  <2>1. Waiters(t)' = Waiters(t)
    BY <1>1, KillIs, OthersSame
  <2>2. Careful => c \notin Waiters(t)
    BY <1>1, SlotKinds DEF Inv, Matched, KillsAt
  <2> QED
    BY <2>1, <2>2
<1>2. Dies(c)
  BY <1>1 DEF Dies, KillsAt, Kill
<1> QED
  BY <1>2 DEF Moves

LEMMA KillReader ==
    ASSUME Inv, NEW c \in Coroutine, NEW f \in Channels, KillsAt(c, <<"pipe", f>>)
    PROVE  Moves /\ PipeKeeps'
<1> DEFINE s == <<"pipe", f>>
<1>1. /\ PipeKeeps /\ s \in Slots /\ chan \in [Channels -> ChannelStates] /\ f # "wait"
      /\ s \notin Sure
  BY SlotKinds DEF Inv, ObjectsKeep, PipeKeeps, Sure, ThreadSlots
<1>2. /\ chan' = [chan EXCEPT ![f] = ChannelCleanup(f)] /\ UNCHANGED <<pipe, child, fds, childFds>>
      /\ Careful => c \in Waiters(s)
  BY <1>1, KillIs DEF PipeCleaned
<1>3. chan[f] \in ChannelStates /\ (chan[f].co # Nil => pipe.open /\ chan[f].conn)
  BY <1>1 DEF PipeKeeps, FdsExact
<1>4. \A t \in Slots \ {s} : t[1] = "pipe" => Waiters(t)' = Waiters(t) /\ (Careful => c \notin Waiters(t))
  <2> SUFFICES ASSUME NEW t \in Slots \ {s}, t[1] = "pipe"
               PROVE  Waiters(t)' = Waiters(t) /\ (Careful => c \notin Waiters(t))
    OBVIOUS
  <2>1. Waiters(t)' = Waiters(t)
    BY <1>1, <1>2, SlotCases, WaitersAre, WaitersAreNext
  <2>2. Careful => c \notin Waiters(t)
    BY <1>1, SlotKinds DEF Inv, Matched, KillsAt
  <2> QED
    BY <2>1, <2>2
<1>5. CASE pipe.open /\ chan[f].conn
  <2> DEFINE x == Cleared(chan[f])
  <2>1. x \in ChannelStates /\ x.co = Nil /\ x.conn = chan[f].conn /\ x.made = chan[f].made
    BY <1>3, ChannelOps
  <2>2. chan' = [chan EXCEPT ![f] = x]
    BY <1>2, <1>5 DEF ChannelCleanup
  <2> HIDE DEF x
  <2>3. child # "none" /\ chan[f].made /\ ParentEnd(f) \in fds
    BY <1>1, <1>5 DEF PipeKeeps, FdsExact
  <2>4. PipeKeeps'
    BY <1>1, <1>2, <1>5, <2>1, <2>2, <2>3, ChannelKeeps
  <2>5. Waiters(s)' = {} /\ Waiters(s) \subseteq {chan[f].co}
    BY <1>1, <2>1, <2>2, WaitersAre, WaitersAreNext DEF Only
  <2> QED
    BY <1>1, <1>2, <1>4, <2>4, <2>5, DiesIf
<1>6. CASE ~(pipe.open /\ chan[f].conn)
  <2>1. chan' = chan /\ chan[f].co = Nil
    BY <1>1, <1>2, <1>3, <1>6 DEF ChannelCleanup
  <2>2. PipeKeeps'
    BY <1>1, <1>2, <2>1 DEF PipeKeeps, FdsExact, PidValid
  <2>3. Waiters(s)' = {} /\ Waiters(s) = {}
    BY <1>1, <2>1, WaitersAre, WaitersAreNext DEF Only
  <2> QED
    BY <1>1, <1>2, <1>4, <2>2, <2>3, DiesIf
<1> QED
  BY <1>5, <1>6

LEMMA KillWaiter ==
    ASSUME Inv, NEW c \in Coroutine, KillsAt(c, <<"pipe", "wait">>)
    PROVE  Moves /\ PipeKeeps'
<1> DEFINE s == <<"pipe", "wait">>
<1>1. PipeKeeps /\ pipe \in Processes /\ s \in Slots /\ s \notin Sure
  BY SlotKinds DEF Inv, ObjectsKeep, PipeKeeps, Sure, ThreadSlots
<1>2. /\ pipe' = WaitCleanup(pipe) /\ UNCHANGED <<chan, child, fds, childFds>>
      /\ Careful => c \in Waiters(s)
  BY <1>1, KillIs DEF PipeCleaned
<1>3. /\ pipe' \in Processes /\ pipe'.sleep = Nil /\ pipe'.open = pipe.open
      /\ pipe'.dead = pipe.dead /\ pipe'.node = pipe.node
  <2>1. CASE pipe.open
    <3>1. pipe' = [pipe EXCEPT !.waitco = Nil, !.sleep = Nil, !.posted = FALSE]
      BY <1>2, <2>1 DEF WaitCleanup
    <3> QED
      BY <1>1, <3>1 DEF Processes, MaybeCoroutine
  <2>2. CASE ~pipe.open
    <3>1. pipe' = [pipe EXCEPT !.sleep = Nil, !.posted = FALSE]
      BY <1>2, <2>2 DEF WaitCleanup
    <3> QED
      BY <1>1, <3>1 DEF Processes, MaybeCoroutine
  <2> QED
    BY <2>1, <2>2
<1>4. PipeKeeps'
  BY <1>1, <1>2, <1>3 DEF PipeKeeps, FdsExact, PidValid
<1>5. Waiters(s)' = {} /\ Waiters(s) \subseteq {pipe.sleep}
  BY <1>3, WaitersAre, WaitersAreNext DEF Only
<1>6. \A t \in Slots \ {s} : t[1] = "pipe" => Waiters(t)' = Waiters(t) /\ (Careful => c \notin Waiters(t))
  <2> SUFFICES ASSUME NEW t \in Slots \ {s}, t[1] = "pipe"
               PROVE  Waiters(t)' = Waiters(t) /\ (Careful => c \notin Waiters(t))
    OBVIOUS
  <2>1. Waiters(t)' = Waiters(t)
    BY <1>2, SlotCases, WaitersAre, WaitersAreNext
  <2>2. Careful => c \notin Waiters(t)
    BY <1>1, SlotKinds DEF Inv, Matched, KillsAt
  <2> QED
    BY <2>1, <2>2
<1> QED
  BY <1>1, <1>2, <1>4, <1>5, <1>6, DiesIf

LEMMA AbortKeeps ==
    ASSUME ThreadKeeps, UNCHANGED <<ctxpool, vmCount>>, task' \in [VM -> Tasks],
           \A v \in VM : task'[v] = task[v] \/ (Holds(v) /\ task'[v] = ThreadCleanup(v))
    PROVE  ThreadKeeps'
<1>1. \A v \in VM : /\ task'[v].co = Nil => task'[v] = NoTask
                    /\ (task[v] # NoTask) <=> (task'[v] # NoTask)
  <2> SUFFICES ASSUME NEW v \in VM
               PROVE  /\ task'[v].co = Nil => task'[v] = NoTask
                      /\ (task[v] # NoTask) <=> (task'[v] # NoTask)
    OBVIOUS
  <2>1. CASE task'[v] = task[v]
    BY <2>1 DEF ThreadKeeps
  <2>2. CASE Holds(v) /\ task'[v] = ThreadCleanup(v)
    <3>1. ThreadCleanup(v).co = task[v].co /\ task[v].co # Nil
      BY <2>2, TasksAre DEF ThreadCleanup, Tasks
    <3> QED
      BY <2>2, <3>1 DEF Holds, NoTask
  <2> QED
    BY <2>1, <2>2
<1>2. {v \in VM : Holds(v)}' = {v \in VM : Holds(v)}
  BY <1>1 DEF Holds
<1>3. Made' = Made /\ \A v \in ctxpool' : task'[v] = NoTask
  BY <1>1, <1>2 DEF Made, ThreadKeeps, VmsExact, Holds
<1> QED
  BY <1>1, <1>3, VmsKept DEF ThreadKeeps

LEMMA KillTask ==
    ASSUME Inv, NEW c \in Coroutine, NEW v \in VM, KillsAt(c, <<"thread", v>>)
    PROVE  Moves /\ ThreadKeeps'
<1> DEFINE s == <<"thread", v>>
           x == ThreadCleanup(v)
<1>1. ThreadKeeps /\ task \in [VM -> Tasks] /\ s \in Slots /\ s \in Sure
  BY SlotKinds DEF Inv, ObjectsKeep, ThreadKeeps, Sure, ThreadSlots
<1>2. task' = [task EXCEPT ![v] = x] /\ UNCHANGED <<ctxpool, vmCount>> /\ c \in Waiters(s)
  BY <1>1, KillIs DEF OtherCleaned
<1>3. Holds(v) /\ Waiters(s) = {c} /\ task[v] \in Tasks
  BY <1>1, <1>2, TasksAre DEF Only
<1>4. x \in Tasks /\ x.abort
  BY <1>3 DEF ThreadCleanup, Tasks
<1> HIDE DEF x
<1>5. task' \in [VM -> Tasks] /\ task'[v] = x /\ \A u \in VM \ {v} : task'[u] = task[u]
  BY <1>1, <1>2, <1>4
<1>6. ThreadKeeps'
  BY <1>1, <1>2, <1>3, <1>5, AbortKeeps DEF x
<1>7. Waiters(s)' = {}
  BY <1>4, <1>5, WaitersAreNext DEF Only
<1>8. \A t \in Slots \ {s} : t[1] = "thread" => Waiters(t)' = Waiters(t) /\ (Careful => c \notin Waiters(t))
  <2> SUFFICES ASSUME NEW t \in Slots \ {s}, t[1] = "thread"
               PROVE  Waiters(t)' = Waiters(t) /\ (Careful => c \notin Waiters(t))
    OBVIOUS
  <2>1. Waiters(t)' = Waiters(t)
    BY <1>5, ThreadSame
  <2>2. Careful => c \notin Waiters(t)
    BY <1>1, SlotKinds DEF Inv, Matched, KillsAt
  <2> QED
    BY <2>1, <2>2
<1> QED
  BY <1>1, <1>3, <1>6, <1>7, <1>8, DiesIf

LEMMA KillUdp ==
    ASSUME Inv, NEW c \in Coroutine, NEW s \in {<<"udp", "resolve">>, <<"udp", "receive">>}, KillsAt(c, s)
    PROVE  Moves /\ UdpKeeps'
<1>1. UdpKeeps /\ udp \in Datagrams /\ s \in Slots /\ s[1] = "udp"
  BY SlotKinds DEF Inv, ObjectsKeep, UdpKeeps
<1>2. udp' = UdpCleanup(s[2]) /\ (Careful => c \in Waiters(s))
  BY <1>1, KillIs DEF OtherCleaned
<1>3. /\ udp' \in Datagrams /\ udp'.co = udp.co /\ ~udp'.resolving
      /\ IF s = <<"udp", "resolve">> THEN udp'.waiting = udp.waiting /\ udp'.reading = udp.reading
                                     ELSE ~udp'.waiting
  <2>1. CASE s = <<"udp", "resolve">>
    <3>1. udp' = [udp EXCEPT !.resolving = FALSE]
      BY <1>2, <2>1 DEF UdpCleanup
    <3> QED
      BY <1>1, <2>1, <3>1 DEF Datagrams
  <2>2. CASE s = <<"udp", "receive">>
    <3>1. udp' = [udp EXCEPT !.conn = FALSE, !.waiting = FALSE, !.resolving = FALSE, !.reading = FALSE]
      BY <1>2, <2>2 DEF UdpCleanup, FinalizedUdp
    <3> QED
      BY <1>1, <2>2, <3>1 DEF Datagrams
  <2> QED
    BY <2>1, <2>2
<1>4. UdpKeeps'
  BY <1>1, <1>3 DEF UdpKeeps
<1>5. ASSUME NEW t \in Slots, t[1] = "udp"
      PROVE  /\ Waiters(t)' \subseteq Waiters(t) /\ t \notin Sure
             /\ Careful => Waiters(t)' = Waiters(t) \ {c}
  <2>1. t \in {<<"udp", "resolve">>, <<"udp", "receive">>} /\ t \notin Sure
    BY <1>5, SlotCases DEF Sure, ThreadSlots
  <2>2. /\ Waiters(<<"udp", "resolve">>)' = {}
        /\ s = <<"udp", "resolve">> => Waiters(<<"udp", "receive">>)' = Waiters(<<"udp", "receive">>)
        /\ s = <<"udp", "receive">> => Waiters(<<"udp", "receive">>)' = {}
    BY <1>1, <1>3, WaitersAre, WaitersAreNext DEF Only
  <2>3. Careful => c \in Waiters(s) /\ Waiters(s) \subseteq {udp.co}
    BY <1>1, <1>2, WaitersAre DEF Only
  <2>4. Waiters(<<"udp", "resolve">>) = {} \/ Waiters(<<"udp", "receive">>) = {}
    BY <1>1, WaitersAre DEF Only, UdpKeeps
  <2>5. \A u \in Slots : Careful /\ u # s => c \notin Waiters(u)
    BY SlotKinds DEF Inv, Matched, KillsAt
  <2> QED
    BY <1>1, <2>1, <2>2, <2>3, <2>4, <2>5
<1> QED
  BY <1>1, <1>4, <1>5, DiesIf

LEMMA KillTcp ==
    ASSUME Inv, NEW c \in Coroutine, NEW d \in Dirs, KillsAt(c, <<"tcp", d>>)
    PROVE  Moves /\ TcpKeeps'
<1> DEFINE s == <<"tcp", d>>
<1>1. TcpKeeps /\ tcp \in Streams /\ s \in Slots
  BY SlotKinds DEF Inv, ObjectsKeep, TcpKeeps
<1>2. /\ tcp' = TcpFinalized(tcp) /\ (Careful => c \in Waiters(s))
      /\ \A t \in Slots : Careful /\ t # s /\ t[1] = "tcp" => Waiters(t) = {}
  BY <1>1, KillIs DEF OtherCleaned, TcpCleanup
<1>3. tcp' \in Streams /\ ~tcp'.conn
  BY <1>1, <1>2, ClosedIs
<1>4. TcpKeeps'
  BY <1>3 DEF TcpKeeps
<1>5. ASSUME NEW t \in Slots, t[1] = "tcp"
      PROVE  /\ Waiters(t)' = {} /\ t \notin Sure
             /\ Careful => Waiters(t) \subseteq {c}
  <2>1. PICK e \in Dirs : t = <<"tcp", e>>
    BY <1>5, SlotCases
  <2>2. t \notin Sure
    BY <2>1 DEF Sure, ThreadSlots
  <2>3. Waiters(t)' = {}
    BY <1>3, <2>1, TcpWaiters DEF Only
  <2>4. Careful => Waiters(t) \subseteq {c}
    <3>1. \E x : Waiters(t) \subseteq {x}
      BY <2>1, TcpWaiters DEF Only
    <3> QED
      BY <1>2, <1>5, <3>1
  <2> QED
    BY <2>2, <2>3, <2>4
<1> QED
  BY <1>1, <1>4, <1>5, DiesIf

LEMMA KillBody ==
    ASSUME Inv, NEW c \in Coroutine, KillsAt(c, <<"client", "body">>)
    PROVE  Moves /\ ClientKeeps'
<1> DEFINE s == <<"client", "body">>
<1>1. ClientKeeps /\ body \in Bodies /\ s \in Slots /\ s \notin Sure
  BY SlotKinds DEF Inv, ObjectsKeep, ClientKeeps, Sure, ThreadSlots
<1>2. body' = [body EXCEPT !.waiting = FALSE] /\ out' = out /\ (Careful => c \in Waiters(s))
  BY <1>1, KillIs DEF OtherCleaned, BodyCleanup
<1>3. body' \in Bodies /\ ~body'.waiting
  BY <1>1, <1>2 DEF Bodies
<1>4. ClientKeeps'
  BY <1>1, <1>2, <1>3 DEF ClientKeeps, FlushExact
<1>5. Waiters(s)' = {} /\ Waiters(s) \subseteq {body.co}
  BY <1>3, WaitersAre, WaitersAreNext DEF Only
<1>6. \A t \in Slots \ {s} : t[1] = "client" => Waiters(t)' = Waiters(t) /\ (Careful => c \notin Waiters(t))
  BY <1>2, BodyAlone, SlotKinds DEF Inv, Matched, KillsAt, Kill
<1> QED
  BY <1>1, <1>2, <1>4, <1>5, <1>6, DiesIf

LEMMA KillFlush ==
    ASSUME Inv, NEW c \in Coroutine, KillsAt(c, <<"client", "flush">>)
    PROVE  Moves /\ ClientKeeps'
<1> DEFINE s == <<"client", "flush">>
<1>1. /\ ClientKeeps /\ OutFields \subseteq DOMAIN out /\ out.flushing \subseteq Coroutine
      /\ out.coros \in Nat /\ FlushExact /\ s \in Slots /\ s \in Sure
  BY SlotKinds DEF Inv, ObjectsKeep, ClientKeeps, Sure
<1>2. out' = FlushCleanup(c) /\ body' = body /\ c \in Waiters(s)
  BY <1>1, KillIs DEF OtherCleaned
<1>3. /\ Waiters(s) = out.flushing
      /\ out'.flushing \subseteq Coroutine => Waiters(s)' = out'.flushing
  BY <1>1, WaitersAre, WaitersAreNext, CoroutineAssumption DEF KillsAt, Kill
<1>5. OutFields \subseteq DOMAIN out' /\ out'.flushing = out.flushing \ {c} /\ out'.coros = out.coros - 1
  <2> DEFINE f == out.flushing \ {c}
             n == out.coros - 1
  <2>1. out' = [out EXCEPT !.flushing = f, !.timer = FALSE, !.coros = n]
    BY <1>2 DEF FlushCleanup
  <2> HIDE DEF f, n
  <2>2. OutFields \subseteq DOMAIN out' /\ out'.flushing = f /\ out'.coros = n
    BY <1>1, <2>1 DEF OutFields
  <2> QED
    BY <2>2 DEF f, n
<1>7. ClientKeeps'
  BY <1>1, <1>2, <1>3, <1>5, UnflaggedKeeps DEF ClientKeeps
<1>8. \A t \in Slots \ {s} : t[1] = "client" => Waiters(t)' = Waiters(t) /\ (Careful => c \notin Waiters(t))
  BY <1>2, FlushAlone, SlotKinds DEF Inv, Matched, KillsAt
<1> QED
  BY <1>1, <1>3, <1>5, <1>7, <1>8, DiesIf

LEMMA KillMoves == ASSUME Inv, NEW c \in Coroutine, Kill(c) PROVE Moves /\ ObjectsKeep'
<1>1. /\ ObjectsKeep /\ CoroutineTypes /\ at[c] \in Slots /\ cleanup[c] \in {Nil, at[c]} /\ Nil \notin Slots
  BY SlotKinds DEF Inv, CoroutineTypes, Guarded, Kill, Suspended
<1>2. CASE cleanup[c] = at[c]
  <2> DEFINE s == at[c]
  <2>1. KillsAt(c, s) /\ Others(s[1])
    BY <1>1, <1>2, KillIs DEF KillsAt
  <2>2. /\ s[1] # "pipe" => PipeKeeps'
        /\ s[1] # "thread" => ThreadKeeps'
        /\ s[1] # "udp" => UdpKeeps'
        /\ s[1] # "tcp" => TcpKeeps'
        /\ s[1] # "client" => ClientKeeps'
    BY <1>1, <2>1, OthersKeep
  <2> HIDE DEF s
  <2>3. CASE \E f \in Channels : s = <<"pipe", f>>
    BY <2>1, <2>2, <2>3, KillReader DEF ObjectsKeep
  <2>4. CASE s = <<"pipe", "wait">>
    BY <2>1, <2>2, <2>4, KillWaiter DEF ObjectsKeep
  <2>5. CASE \E v \in VM : s = <<"thread", v>>
    BY <2>1, <2>2, <2>5, KillTask DEF ObjectsKeep
  <2>6. CASE s \in {<<"udp", "resolve">>, <<"udp", "receive">>}
    BY <2>1, <2>2, <2>6, KillUdp DEF ObjectsKeep
  <2>7. CASE \E d \in Dirs : s = <<"tcp", d>>
    BY <2>1, <2>2, <2>7, KillTcp DEF ObjectsKeep
  <2>8. CASE s = <<"client", "body">>
    BY <2>1, <2>2, <2>8, KillBody DEF ObjectsKeep
  <2>9. CASE s = <<"client", "flush">>
    BY <2>1, <2>2, <2>9, KillFlush DEF ObjectsKeep
  <2>10. s \in Slots
    BY <1>1 DEF s
  <2> QED
    BY <2>3, <2>4, <2>5, <2>6, <2>7, <2>8, <2>9, <2>10, SlotCases
<1>3. CASE cleanup[c] # at[c]
  <2>1. /\ ~Careful /\ cleanup[c] = Nil
        /\ UNCHANGED <<pipe, chan, udp, tcp, task, body, out, uses, failing>>
        /\ UNCHANGED <<child, sigchld, fds, childFds, ctxpool, vmCount>>
    BY <1>1, <1>3 DEF Kill, Copes, Intact
  <2>2. Others("none")
    BY <2>1 DEF Others, pipeVars, threadVars, clientVars
  <2>3. ObjectsKeep'
    BY <1>1, <2>2, OthersKeep DEF ObjectsKeep
  <2>4. \A t \in Slots : t[1] # "none"
    BY DEF Slots, PipeSlots, ThreadSlots, UdpSlots, TcpSlots, ClientSlots
  <2>5. \A t \in Slots : Waiters(t)' = Waiters(t)
    BY <2>2, <2>4, OthersSame
  <2>6. Dies(c)
    BY <1>1, <2>1, <2>5 DEF Dies, Kill
  <2> QED
    BY <2>3, <2>6 DEF Moves
<1> QED
  BY <1>2, <1>3

-------------------------------------------------------------------------------
(* The request ends.                                                         *)

LEMMA EndOfPipeIs ==
    ASSUME Inv, EndOfPipe, childFds' = childFds, Careful => EndCopes
    PROVE  /\ PipeKeeps'
           /\ pipe'.sleep \in {pipe.sleep, Nil} /\ (Careful => pipe'.sleep = Nil)
           /\ \A f \in Channels : chan'[f].co = Nil
<1>1. PipeKeeps /\ pipe \in Processes
  BY DEF Inv, ObjectsKeep, PipeKeeps
<1>2. CASE ~pipe.open
  <2>1. UNCHANGED <<child, pipe, chan, fds>>
    BY <1>2 DEF EndOfPipe
  <2>2. PipeKeeps'
    BY <1>1, <2>1 DEF PipeKeeps, FdsExact, PidValid
  <2>3. \A f \in Channels : chan[f].co = Nil
    BY <1>1, <1>2 DEF PipeKeeps, FdsExact
  <2> QED
    BY <1>1, <1>2, <2>1, <2>2, <2>3 DEF PipeKeeps
<1>3. CASE pipe.open
  <2> DEFINE waits == <<"pipe", "wait">> \in Pending
  <2>1. /\ \/ pipe' = [DestroyedPipe EXCEPT !.sleep = IF waits THEN Nil ELSE pipe.sleep]
           \/ pipe' = IF waits THEN WaitCleanup(DestroyedPipe) ELSE DestroyedPipe
        /\ chan' = DestroyedChannels /\ fds' = {} /\ child' \in {child, "zombie"} /\ child # "none"
    BY <1>1, <1>3 DEF EndOfPipe, PipeKeeps
  <2>2. Careful /\ pipe.sleep # Nil => waits
    <3>1. SUFFICES ASSUME Careful, pipe.sleep # Nil PROVE waits
      OBVIOUS
    <3>2. pipe.sleep \in Waiters(<<"pipe", "wait">>) /\ <<"pipe", "wait">> \in Slots
      BY <3>1, WaitersAre, SlotKinds DEF Only
    <3>3. pipe.sleep \in Coroutine /\ at[pipe.sleep] = <<"pipe", "wait">>
      BY <3>1, <3>2 DEF Inv, Matched
    <3>4. cleanup[pipe.sleep] = <<"pipe", "wait">>
      BY <3>1, <3>2, <3>3, SlotKinds DEF EndCopes, Intact, Suspended
    <3> QED
      BY <3>2, <3>3, <3>4, SlotKinds DEF Pending
  <2> DEFINE p == DestroyedPipe
  <2>3. p \in Processes /\ p.sleep = pipe.sleep /\ ~p.open
    BY <1>1, FinalizedAre
  <2> HIDE DEF waits, p
  <2>4. pipe' \in Processes /\ ~pipe'.open /\ pipe'.sleep = IF waits THEN Nil ELSE pipe.sleep
    <3> DEFINE z == IF waits THEN Nil ELSE pipe.sleep
    <3>1. CASE pipe' = [p EXCEPT !.sleep = z]
      <4>1. z \in MaybeCoroutine
        BY <1>1 DEF Processes, MaybeCoroutine
      <4> HIDE DEF z
      <4>2. pipe' \in Processes /\ ~pipe'.open /\ pipe'.sleep = z
        BY <2>3, <3>1, <4>1 DEF Processes
      <4> QED
        BY <4>2 DEF z
    <3>2. CASE pipe' = IF waits THEN WaitCleanup(p) ELSE p
      <4>1. CASE waits
        <5>1. pipe' = [p EXCEPT !.sleep = Nil, !.posted = FALSE]
          BY <2>3, <3>2, <4>1 DEF WaitCleanup
        <5>2. pipe' \in Processes /\ ~pipe'.open /\ pipe'.sleep = Nil
          BY <2>3, <5>1 DEF Processes, MaybeCoroutine
        <5> QED
          BY <4>1, <5>2
      <4>2. CASE ~waits
        BY <2>3, <3>2, <4>2
      <4> QED
        BY <4>1, <4>2
    <3> QED
      BY <2>1, <3>1, <3>2 DEF p
  <2>5. pipe'.sleep \in {pipe.sleep, Nil} /\ (Careful => pipe'.sleep = Nil)
    BY <2>2, <2>4
  <2>6. PipeKeeps'
    BY <1>1, <2>1, <2>4, <2>5, DestroyedKeeps
  <2> QED
    BY <1>1, <2>1, <2>5, <2>6, FinalizedAre
<1> QED
  BY <1>2, <1>3

LEMMA RequestEndMoves == ASSUME Inv, RequestEnd PROVE Moves /\ ObjectsKeep'
<1>1. /\ ObjectsKeep /\ EndOfPipe /\ udp' = [FinalizedUdp EXCEPT !.waiting = FALSE]
      /\ tcp' = TcpFinalized(tcp) /\ body' = BodyCleanup
      /\ UNCHANGED <<childFds, ctxpool, vmCount>> /\ (Careful => EndCopes)
  BY DEF Inv, RequestEnd
<1>2. /\ at' = [c \in Coroutine |-> Dead] /\ cleanup' = [c \in Coroutine |-> Nil]
      /\ task' = [v \in VM |-> IF <<"thread", v>> \in Pending THEN ThreadCleanup(v) ELSE task[v]]
      /\ out' = [out EXCEPT !.flushing = {}, !.coros = 0, !.timer = FALSE, !.left = 0, !.from = 0]
  BY DEF RequestEnd
<1>3. /\ PipeKeeps'
      /\ \A s \in Slots : Careful /\ s[1] = "pipe" => Waiters(s)' = {}
  <2>1. /\ PipeKeeps' /\ pipe'.sleep \in {pipe.sleep, Nil} /\ (Careful => pipe'.sleep = Nil)
        /\ \A f \in Channels : chan'[f].co = Nil
    BY <1>1, EndOfPipeIs
  <2>2. ASSUME NEW s \in Slots, s[1] = "pipe"
        PROVE  Careful => Waiters(s)' = {}
    <3>1. CASE s = <<"pipe", "wait">>
      BY <2>1, <3>1, WaitersAre, WaitersAreNext DEF Only
    <3>2. CASE \E f \in Channels : s = <<"pipe", f>>
      BY <2>1, <3>2, WaitersAreNext DEF Only
    <3> QED
      BY <2>2, <3>1, <3>2, SlotCases
  <2> QED
    BY <2>1, <2>2
<1>4. /\ ThreadKeeps'
      /\ \A s \in Slots : Careful /\ s[1] = "thread" => Waiters(s)' = {}
  <2>1. ThreadKeeps /\ \A v \in VM : task[v] \in Tasks
    BY <1>1, TasksAre DEF ObjectsKeep
  <2>2. ASSUME NEW v \in VM, <<"thread", v>> \in Pending
        PROVE  Holds(v) /\ task'[v] = ThreadCleanup(v) /\ task'[v] \in Tasks /\ task'[v].abort
    <3>1. PICK c \in Coroutine : cleanup[c] = <<"thread", v>>
      BY <2>2 DEF Pending
    <3>2. c \in Waiters(<<"thread", v>>)
      BY <3>1 DEF Inv, Guarded, Sure, ThreadSlots
    <3>3. Holds(v)
      BY <3>2, <2>1, TasksAre DEF Only
    <3>4. task'[v] = ThreadCleanup(v)
      BY <1>2, <2>2
    <3>5. ThreadCleanup(v) \in Tasks /\ ThreadCleanup(v).abort
      BY <2>1 DEF ThreadCleanup, Tasks
    <3> QED
      BY <3>3, <3>4, <3>5
  <2>3. \A v \in VM : <<"thread", v>> \notin Pending => task'[v] = task[v]
    BY <1>2
  <2>4. ThreadKeeps'
    <3>1. task' \in [VM -> Tasks]
      BY <1>2, <2>1, <2>2, <2>3
    <3> QED
      BY <1>1, <2>1, <2>2, <2>3, <3>1, AbortKeeps
  <2>5. ASSUME NEW s \in Slots, s[1] = "thread"
        PROVE  Careful => Waiters(s)' = {}
    <3>1. PICK v \in VM : s = <<"thread", v>>
      BY <2>5, SlotCases
    <3>2. CASE s \in Pending
      BY <2>2, <3>1, <3>2, WaitersAreNext DEF Only
    <3>3. CASE s \notin Pending
      <4>1. Waiters(s)' = Waiters(s)
        BY <2>3, <3>1, <3>3, WaitersAre, WaitersAreNext DEF Holds
      <4>2. ASSUME Careful, NEW c \in Waiters(s) PROVE FALSE
        <5>1. c \in Coroutine /\ at[c] = s
          BY <4>2 DEF Inv, Matched
        <5>2. cleanup[c] = s
          BY <1>1, <2>5, <4>2, <5>1, SlotKinds DEF EndCopes, Intact, Suspended
        <5> QED
          BY <3>3, <5>1, <5>2, SlotKinds DEF Pending
      <4> QED
        BY <4>1, <4>2
    <3> QED
      BY <3>2, <3>3
  <2> QED
    BY <2>4, <2>5
<1>5. UdpKeeps' /\ \A s \in Slots : s[1] = "udp" => Waiters(s)' = {}
  <2>1. udp \in Datagrams
    BY <1>1 DEF ObjectsKeep, UdpKeeps
  <2>2. FinalizedUdp \in Datagrams /\ ~FinalizedUdp.resolving
    BY <2>1 DEF FinalizedUdp, Datagrams
  <2>3. udp' \in Datagrams /\ ~udp'.waiting /\ ~udp'.resolving
    BY <1>1, <2>2 DEF Datagrams
  <2>4. UdpKeeps'
    BY <2>3 DEF UdpKeeps
  <2>5. ASSUME NEW s \in Slots, s[1] = "udp" PROVE Waiters(s)' = {}
    <3>1. s \in {<<"udp", "resolve">>, <<"udp", "receive">>}
      BY <2>5, SlotCases
    <3> QED
      BY <2>3, <3>1, WaitersAreNext DEF Only
  <2> QED
    BY <2>4, <2>5
<1>6. TcpKeeps' /\ \A s \in Slots : s[1] = "tcp" => Waiters(s)' = {}
  <2>1. tcp' \in Streams /\ ~tcp'.conn
    BY <1>1, ClosedIs DEF ObjectsKeep, TcpKeeps
  <2>2. TcpKeeps'
    BY <2>1 DEF TcpKeeps
  <2>3. ASSUME NEW s \in Slots, s[1] = "tcp" PROVE Waiters(s)' = {}
    <3>1. PICK d \in Dirs : s = <<"tcp", d>>
      BY <2>3, SlotCases
    <3> QED
      BY <2>1, <3>1, TcpWaiters DEF Only
  <2> QED
    BY <2>2, <2>3
<1>7. ClientKeeps' /\ \A s \in Slots : s[1] = "client" => Waiters(s)' = {}
  <2>1. body \in Bodies /\ OutFields \subseteq DOMAIN out
    BY <1>1 DEF ObjectsKeep, ClientKeeps
  <2>2. body' \in Bodies /\ ~body'.waiting
    BY <1>1, <2>1 DEF BodyCleanup, Bodies
  <2>3. OutFields \subseteq DOMAIN out' /\ out'.flushing = {} /\ out'.coros = 0
    BY <1>2, <2>1 DEF OutFields
  <2>4. ClientKeeps'
    BY <2>2, <2>3, FS_EmptySet DEF ClientKeeps, FlushExact
  <2>5. ASSUME NEW s \in Slots, s[1] = "client" PROVE Waiters(s)' = {}
    <3>1. s \in {<<"client", "body">>, <<"client", "flush">>}
      BY <2>5, SlotCases
    <3> QED
      BY <2>2, <2>3, <3>1, WaitersAreNext DEF Only
  <2> QED
    BY <2>4, <2>5
<1>8. AllDie
  <2>1. \A s \in Slots : s[1] \in {"pipe", "thread", "udp", "tcp", "client"}
    BY DEF Slots, PipeSlots, ThreadSlots, UdpSlots, TcpSlots, ClientSlots
  <2>2. Careful => \A s \in Slots : Waiters(s)' = {}
    BY <1>3, <1>4, <1>5, <1>6, <1>7, <2>1
  <2> QED
    BY <1>2, <2>2 DEF AllDie
<1> QED
  BY <1>3, <1>4, <1>5, <1>6, <1>7, <1>8 DEF Moves, ObjectsKeep

-------------------------------------------------------------------------------
(* The whole request.                                                        *)

LEMMA OneObject ==
    ASSUME Inv, NEW obj \in {"pipe", "thread", "udp", "tcp", "client"}, Others(obj),
           /\ obj = "pipe" => PipeKeeps'
           /\ obj = "thread" => ThreadKeeps'
           /\ obj = "udp" => UdpKeeps'
           /\ obj = "tcp" => TcpKeeps'
           /\ obj = "client" => ClientKeeps'
    PROVE  ObjectsKeep'
BY OthersKeep DEF Inv, ObjectsKeep

LEMMA NextMoves == ASSUME Inv, Next PROVE (Moves /\ ObjectsKeep') \/ UNCHANGED vars
<1>1. CASE \E c \in Coroutine : Kill(c)
  BY <1>1, KillMoves
<1>2. CASE RequestEnd
  BY <1>2, RequestEndMoves
<1>3. CASE Stops
  BY <1>3 DEF Stops
<1>4. CASE \/ Uses("pipe") /\ PipeEvent
           \/ \E c \in Coroutine : Uses("pipe") /\ PipeCall(c)
  BY <1>4, PipeMoves, OneObject DEF Uses
<1>5. CASE \/ Uses("thread") /\ ThreadEvents
           \/ \E c \in Coroutine : Uses("thread") /\ ThreadCall(c)
  BY <1>5, ThreadMoves, OneObject DEF Uses
<1>6. CASE \/ Uses("udp") /\ UdpEvent
           \/ \E c \in Coroutine : Uses("udp") /\ UdpCall(c)
  BY <1>6, UdpMoves, OneObject DEF Uses
<1>7. CASE \/ Uses("tcp") /\ TcpEvent
           \/ \E c \in Coroutine : Uses("tcp") /\ TcpCall(c)
  BY <1>7, TcpMoves, OneObject DEF Uses
<1>8. CASE \/ Uses("client") /\ ClientEvent /\ failing' = Nil
           \/ \E c \in Coroutine : /\ Uses("client")
                                   /\ (ClientCall(c) /\ failing' = Nil) \/ FlushFails(c)
  BY <1>8, ClientMoves, OneObject DEF Uses
<1> QED
  BY <1>1, <1>2, <1>3, <1>4, <1>5, <1>6, <1>7, <1>8 DEF Next, Call, Event

LEMMA SameWaiters ==
    ASSUME UNCHANGED vars
    PROVE  \A s \in Slots : Waiters(s)' = Waiters(s)
<1>1. Others("none")
  BY DEF vars, Others, pipeVars, threadVars, clientVars
<1>2. \A s \in Slots : s[1] # "none"
  BY DEF Slots, PipeSlots, ThreadSlots, UdpSlots, TcpSlots, ClientSlots
<1> QED
  BY <1>1, <1>2, OthersSame

LEMMA StutterInv == ASSUME Inv, UNCHANGED vars PROVE Inv'
<1>1. Others("none")
  BY DEF vars, Others, pipeVars, threadVars, clientVars
<1>2. ObjectsKeep'
  BY <1>1, OthersKeep DEF Inv, ObjectsKeep
<1>3. UNCHANGED <<at, cleanup>>
  BY DEF vars, coVars
<1>4. Sure \subseteq Slots
  BY SlotKinds DEF Sure, Slots
<1>5. CoroutineTypes' /\ Guarded' /\ (Careful => Matched')
  BY <1>3, <1>4, SameWaiters DEF Inv, CoroutineTypes, Guarded, Matched
<1> QED
  BY <1>2, <1>5 DEF Inv

LEMMA NextInv == Inv /\ [Next]_vars => Inv'
<1> SUFFICES ASSUME Inv, [Next]_vars PROVE Inv'
  OBVIOUS
<1>1. CASE UNCHANGED vars
  BY <1>1, StutterInv
<1>2. CASE Moves /\ ObjectsKeep'
  BY <1>2, MovesKeeps DEF Inv, Agree
<1> QED
  BY <1>1, <1>2, NextMoves

LEMMA InitInv == Init => Inv
<1> SUFFICES ASSUME Init PROVE Inv
  OBVIOUS
<1>1. /\ at = [c \in Coroutine |-> Ready] /\ cleanup = [c \in Coroutine |-> Nil]
      /\ PipeInit /\ ThreadInit /\ UdpInit /\ TcpInit /\ ClientInit
  BY DEF Init, CoInit
<1>2. CoroutineTypes
  BY <1>1 DEF CoroutineTypes
<1>3. PipeKeeps
  <2>1. NewChannel \in ChannelStates /\ NoPipe \in Processes
    BY DEF NewChannel, ChannelStates, NoPipe, Processes, MaybeCoroutine
  <2>2. FdsExact /\ PidValid
    BY <1>1 DEF PipeInit, NoPipe, NewChannel, FdsExact, PidValid
  <2> QED
    BY <1>1, <2>1, <2>2 DEF PipeInit, PipeKeeps, NoPipe, NewChannel
<1>4. ThreadKeeps
  <2>1. task \in [VM -> Tasks] /\ \A v \in VM : task[v] = NoTask
    BY <1>1 DEF ThreadInit, NoTask, Tasks, MaybeCoroutine
  <2>2. Made = {} /\ ctxpool = {} /\ vmCount = 0
    BY <1>1, <2>1 DEF ThreadInit, Made, Holds
  <2>3. VmsExact
    BY <2>2, FS_EmptySet DEF VmsExact
  <2> QED
    BY <2>1, <2>2, <2>3 DEF ThreadKeeps
<1>5. UdpKeeps
  BY <1>1 DEF UdpInit, NewUdp, UdpKeeps, Datagrams, MaybeCoroutine
<1>6. TcpKeeps
  BY <1>1 DEF TcpInit, Connected, TcpKeeps, Streams, MaybeCoroutine, Dirs
<1>7. ClientKeeps
  BY <1>1, FS_EmptySet DEF ClientInit, ClientKeeps, Bodies, MaybeCoroutine, OutFields, FlushExact
<1>8. \A s \in Slots : Waiters(s) = {}
  <2> SUFFICES ASSUME NEW s \in Slots PROVE Waiters(s) = {}
    OBVIOUS
  <2>1. CASE \E f \in Channels : s = <<"pipe", f>>
    BY <1>1, <2>1, WaitersAre DEF PipeInit, NewChannel, Only
  <2>2. CASE s = <<"pipe", "wait">>
    BY <1>1, <2>2, WaitersAre DEF PipeInit, NoPipe, Only
  <2>3. CASE \E v \in VM : s = <<"thread", v>>
    BY <1>1, <2>3, WaitersAre DEF ThreadInit, Holds, Only
  <2>4. CASE s \in {<<"udp", "resolve">>, <<"udp", "receive">>}
    BY <1>1, <2>4, WaitersAre DEF UdpInit, NewUdp, Only
  <2>5. CASE \E d \in Dirs : s = <<"tcp", d>>
    BY <1>1, <2>5, WaitersAre DEF TcpInit, Connected, Only
  <2>6. CASE s \in {<<"client", "body">>, <<"client", "flush">>}
    BY <1>1, <2>6, WaitersAre DEF ClientInit, Only
  <2> QED
    BY <2>1, <2>2, <2>3, <2>4, <2>5, <2>6, SlotCases
<1>9. Guarded /\ Matched
  BY <1>1, <1>8, SlotKinds DEF Guarded, Matched, Sure, ThreadSlots
<1> QED
  BY <1>2, <1>3, <1>4, <1>5, <1>6, <1>7, <1>9 DEF Inv, ObjectsKeep

LEMMA AlwaysInv == Spec => []Inv
BY InitInv, NextInv, PTL DEF Spec

-------------------------------------------------------------------------------
\* Whatever coroutines call, kill each other or end the request, and whatever
\* fails, flushes whose write event cannot be armed among it: the descriptors
\* of the child, its number and the VMs of the threads are accounted for, and
\* no coroutine is flagged as flushing that is not counted.
THEOREM ResourcesCorrect == Spec => []ResourcesExact
<1>1. Inv => ResourcesExact
  <2> SUFFICES ASSUME Inv PROVE ResourcesExact
    OBVIOUS
  <2>1. CoroutineTypes /\ PipeKeeps /\ ThreadKeeps /\ UdpKeeps /\ TcpKeeps /\ ClientKeeps
    BY DEF Inv, ObjectsKeep
  <2>2. /\ \A f \in Channels : chan[f].co \in Coroutine \cup {Nil}
        /\ {udp.co, tcp.readCo, tcp.writeCo, body.co} \subseteq Coroutine \cup {Nil}
    BY <2>1 DEF PipeKeeps, ChannelStates, UdpKeeps, Datagrams, TcpKeeps, Streams, ClientKeeps, Bodies,
                MaybeCoroutine
  <2>3. vmCount \in 0..MaxVMs
    <3>1. Made \subseteq VM /\ vmCount = Cardinality(Made)
      BY <2>1 DEF ThreadKeeps, Made, VmsExact
    <3>2. Cardinality(Made) \in Nat /\ Cardinality(VM) \in Nat /\ Cardinality(Made) <= Cardinality(VM)
      BY <3>1, VMAssumption, FS_Subset, FS_CardinalityType
    <3> QED
      BY <3>1, <3>2 DEF MaxVMs
  <2>5. TypeOK
    BY <2>1, <2>2, <2>3 DEF TypeOK, CoroutineTypes, PipeKeeps, ThreadKeeps, ClientKeeps
  <2> QED
    BY <2>1, <2>5 DEF ResourcesExact, PipeKeeps, ThreadKeeps, ClientKeeps
<1> QED
  BY <1>1, AlwaysInv, PTL

\* Every step of the objects is a step of the contract, or none of it: nobody
\* is resumed for another one, twice, after he was killed, or after the request
\* has ended.  Four things are excepted, which the code does not cope with: a
\* kill of a coroutine that waits without its cleanup handler or on a shared
\* object (Copes), an end of the request while one waits so for a process or a
\* thread (EndCopes), a second read of the body while one waits (ReadsAgain),
\* and a program that goes on when a flush has failed, and does not end the
\* request (FlushFails).
THEOREM RefinementCorrect ==
    ASSUME Careful
    PROVE  Spec => Refines
<1>1. Init => Contract!Init
  <2> SUFFICES ASSUME Init PROVE Contract!Init
    OBVIOUS
  <2>1. Inv
    BY InitInv
  <2>2. at = [c \in Coroutine |-> Ready]
    BY DEF Init, CoInit
  <2>3. \A s \in Slots : Waiters(s) = {}
    BY <2>1, <2>2, SlotKinds DEF Inv, Matched
  <2> QED
    BY <2>2, <2>3 DEF Contract!Init
<1>2. Inv /\ [Next]_vars => [Contract!Next]_<<at, [s \in Slots |-> Waiters(s)]>>
  <2> SUFFICES ASSUME Inv, [Next]_vars
               PROVE  Contract!Next \/ UNCHANGED <<at, [s \in Slots |-> Waiters(s)]>>
    OBVIOUS
  <2>1. CASE UNCHANGED vars
    BY <2>1, SameWaiters DEF vars, coVars
  <2>2. CASE Moves
    BY <2>2, MovesContract DEF Inv, Agree
  <2> QED
    BY <2>1, <2>2, NextMoves
<1> QED
  BY <1>1, <1>2, AlwaysInv, PTL DEF Spec, Refines, Contract!Spec

===============================================================================
