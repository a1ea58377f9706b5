------------------------------- MODULE Engine -------------------------------
(***************************************************************************)
(* The engine of esma: the main loop                                       *)
(*     while (1) { ret = exec(); if (ret) break; wait(); }                 *)
(* its message queue, its reactor and its dispatcher, running a set of     *)
(* state machines whose callbacks (enter, leave and action functions) are  *)
(* arbitrary: a callback may send messages, may reconfigure the machine's  *)
(* I/O channel, and may succeed or fail.                                   *)
(*                                                                         *)
(* A message sent by a machine names its destination and a code.  A        *)
(* message of the operating system names a channel, and its channel is     *)
(* READ when the message is dispatched, not when it was reported: timers   *)
(* and signals are descriptors whose read() needs something to read.       *)
(*                                                                         *)
(* The message queue is a FIFO sequence here; RingBuffer says when the     *)
(* code's queue is one.  The reactor's table is a set of polled channels;  *)
(* PollReactor models the table.                                           *)
(***************************************************************************)
EXTENDS Integers, Sequences

CONSTANTS
    Machine,    \* the machines of the engine
    State,      \* the states of their templates
    InitState,  \* [Machine -> State], __INIT__
    HasLeave,   \* the states with a leave function
    Code,       \* codes of self transitions
    selfNext,   \* [State -> [Code -> Target]]: state->trans
    dataNext,   \* [State -> [{"pollin", "pollout", "pollerr"} -> Target]]
    tickCap,    \* [State -> Nat]: capacity of the state's tick_trans array
    Tick,       \* timer channels, one for each machine and timer transition
    Sign,       \* signal channels
    owner,      \* [Hard -> Machine]: ch->owner
    home,       \* [Hard -> State]: the state whose array holds the channel
    pos,        \* [Hard -> Nat]: its position in that array
    hardNext,   \* [Hard -> State \cup {Mealy}]
    Periodic,   \* the timers armed with ESMA_TM_PERIODIC
    signo,      \* [Sign -> Signal]
    Signal,     \* the signals some signalfd blocks
    Slot0,      \* the channel at index 0 of the reactor's table
    Mealy,      \* next_state is NULL and action is set
    Undefined,  \* a zeroed transition: next_state and action are NULL
    Reactor,    \* "poll" or "epoll"
    IoUser,     \* the machines whose callbacks use the io channel
    Sends,      \* the messages callbacks send, <<machine, code>>
    MaxSend,    \* bound: messages sent by the callbacks of one dispatch
    MaxQueue    \* bound: length of the queue, at least one entry per channel

Hard   == Tick \cup Sign
Target == State \cup {Mealy, Undefined}
Event  == {"in", "out", "err", "hup"}
Masks  == SUBSET {"in", "out"}
NoIo   == {"none"}              \* io_channel.type is ESMA_CH_NONE

ASSUME TemplateAssumption ==
    /\ InitState \in [Machine -> State]
    /\ HasLeave \subseteq State
    /\ selfNext \in [State -> [Code -> Target]]
    /\ dataNext \in [State -> [{"pollin", "pollout", "pollerr"} -> Target]]
    /\ tickCap \in [State -> Nat]
    /\ owner \in [Hard -> Machine]
    /\ home \in [Hard -> State]
    /\ pos \in [Hard -> Nat]
    /\ hardNext \in [Hard -> State \cup {Mealy}]
    /\ Periodic \subseteq Tick
    /\ signo \in [Sign -> Signal]

ASSUME DistinctAssumption ==
    /\ Tick \cap Sign = {}
    /\ Machine \cap Hard = {}
    /\ Mealy \notin State /\ Undefined \notin State /\ Mealy # Undefined

ASSUME EngineAssumption ==
    /\ Reactor \in {"poll", "epoll"}
    /\ Sign # {} => Slot0 \in Hard
    /\ IoUser \subseteq Machine
    /\ Sends \subseteq Machine \X Code
    /\ MaxSend \in Nat /\ MaxQueue \in Nat

VARIABLES
    pc,       \* where the process is: "boot", "exec", "wait" or a member of Halted
    queue,    \* engine->queue
    cur,      \* current_state of each machine
    armed,    \* timers that will expire
    expired,  \* timers with an unread expiration
    polled,   \* hard channels whose event mask has POLLIN
    pending,  \* signals no signalfd has read yet
    io,       \* each machine's io_channel: NoIo, or its event mask
    batch     \* the channels the wait in progress has reported

vars == <<pc, queue, cur, armed, expired, polled, pending, io, batch>>

Halted  == {"stopped", "hung", "crashed"}
OsMsg   == [from: {"os"}, to: Hard \cup Machine, code: Event]
SelfMsg == [from: {"machine"}, to: Machine, code: Code]

Init ==
    /\ pc = "boot"
    /\ queue = <<>>
    /\ cur = InitState
    /\ armed = {} /\ expired = {} /\ polled = {} /\ pending = {}
    /\ io = [m \in Machine |-> NoIo]
    /\ batch = {}

----------------------------------------------------------------------------
(* What the callbacks of one dispatch do.                                  *)

\* Messages the callbacks append to what is left of the queue, q.
BUG_Sent(q) ==      \* newest first
    \E n \in 0..MaxSend : \E out \in [1..n -> Sends] :
        /\ Len(q) + n <= MaxQueue
        /\ queue' = [i \in 1..n |->
              [from |-> "machine", to |-> out[i][1], code |-> out[i][2]]] \o q
Sent(q) ==
    \E n \in 0..MaxSend : \E out \in [1..n -> Sends] :
        /\ Len(q) + n <= MaxQueue
        /\ queue' = q \o [i \in 1..n |->
              [from |-> "machine", to |-> out[i][1], code |-> out[i][2]]]

\* init, mod and free of the machine's own io channel, in any order.  A mask
\* may be anything after init: the poll reactor adds it without setting it.
BUG_IoStates(m) == IF m \in IoUser THEN SUBSET Event ELSE {io[m]}
IoStates(m) == IF m \in IoUser THEN Masks \cup {NoIo} ELSE {io[m]}

Callbacks(m, q) ==
    /\ Sent(q)
    /\ \E x \in IoStates(m) : io' = [io EXCEPT ![m] = x]

\* main() runs the machines before its loop: __INIT__ is entered, its channels
\* are not started, and the result of enter is ignored.
Boot ==
    /\ pc = "boot"
    /\ pc' = "exec"
    /\ Sent(queue)
    /\ \E x \in [IoUser -> Masks \cup {NoIo}] :
          io' = [m \in Machine |-> IF m \in IoUser THEN x[m] ELSE NoIo]
    /\ UNCHANGED <<cur, armed, expired, polled, pending, batch>>

----------------------------------------------------------------------------
(* The reactor.                                                            *)

\* The queue is empty: exec returns 0 and main calls wait.
Drained ==
    /\ pc = "exec" /\ queue = <<>>
    /\ pc' = "wait" /\ batch' = {}
    /\ UNCHANGED <<queue, cur, armed, expired, polled, pending, io>>

BUG_Ready == Hard \cap polled      \* reports what it polls
Ready == {c \in Hard \cap polled :
              IF c \in Tick THEN c \in expired ELSE signo[c] \in pending}

BUG_Report(c, e) ==     \* one message per event, not per descriptor
    /\ pc = "wait"
    /\ Len(queue) < MaxQueue
    /\ queue' = Append(queue, [from |-> "os", to |-> c, code |-> e])
    /\ batch' = batch \cup {c}
    /\ UNCHANGED <<pc, cur, armed, expired, polled, pending, io>>
Report(c, e) ==
    /\ pc = "wait" /\ c \notin batch
    /\ Len(queue) < MaxQueue
    /\ queue' = Append(queue, [from |-> "os", to |-> c, code |-> e])
    /\ batch' = batch \cup {c}
    /\ UNCHANGED <<pc, cur, armed, expired, polled, pending, io>>

\* One message for each ready timer or signal.
ReportHard(c) == c \in Ready /\ Report(c, "in")

\* The kernel reports errors and hang-ups whatever the mask says.
ReportIo(m) ==
    /\ io[m] # NoIo
    /\ \E e \in io[m] \cup {"err", "hup"} : Report(m, e)

BUG_WaitReturns ==      \* returns with the first event
    /\ pc = "wait" /\ queue # <<>>
    /\ pc' = "exec"
    /\ UNCHANGED <<queue, cur, armed, expired, polled, pending, io, batch>>
\* poll() returned everything that was ready.  An interrupted wait reports
\* nothing and main repeats it: that is no step here.
WaitReturns ==
    /\ pc = "wait" /\ queue # <<>>
    /\ Ready \subseteq batch
    /\ pc' = "exec"
    /\ UNCHANGED <<queue, cur, armed, expired, polled, pending, io, batch>>

----------------------------------------------------------------------------
(* The dispatcher.                                                         *)

Msg == Head(queue)
Dst == IF Msg.to \in Hard THEN owner[Msg.to] ELSE Msg.to

DataTrans == IF Msg.code = "in" THEN "pollin"
             ELSE IF Msg.code = "out" THEN "pollout" ELSE "pollerr"

\* The transition a message selects.  A hard channel brings its own, the
\* others are looked up in the current state of the destination.
Trans == IF Msg.from = "machine" THEN selfNext[cur[Dst]][Msg.code]
         ELSE IF Msg.to \in Hard THEN hardNext[Msg.to]
         ELSE dataNext[cur[Dst]][DataTrans]

\* read() of the message's channel has something to return.
Readable ==
    Msg.from = "os" =>
        /\ Msg.to \in Tick => Msg.to \in expired
        /\ Msg.to \in Sign => signo[Msg.to] \in pending

\* The io channel was freed after it was reported: memset cleared its owner.
OwnerIsNull == Msg.from = "os" /\ Msg.to \in Machine /\ io[Msg.to] = NoIo

Unread    == expired \ {Msg.to}
UnreadSig == IF Msg.to \in Sign THEN pending \ {signo[Msg.to]} ELSE pending

Dispatching == pc = "exec" /\ queue # <<>>

\* Timerfds and signalfds block under the poll reactor; the epoll reactor
\* made them non-blocking, so that read() fails and exec returns 1.
ReadFails ==
    /\ Dispatching /\ ~OwnerIsNull /\ ~Readable
    /\ pc' = IF Reactor = "poll" THEN "hung" ELSE "stopped"
    /\ queue' = Tail(queue)
    /\ UNCHANGED <<cur, armed, expired, polled, pending, io, batch>>

\* ioctl(FIONREAD) fails.
IoctlFails ==
    /\ Dispatching /\ ~OwnerIsNull
    /\ Msg.from = "os" /\ Msg.to \in Machine
    /\ pc' = "stopped"
    /\ queue' = Tail(queue)
    /\ UNCHANGED <<cur, armed, expired, polled, pending, io, batch>>

\* A NULL owner, or a call of a NULL action.
Crashes ==
    /\ Dispatching
    /\ OwnerIsNull \/ (Readable /\ Trans = Undefined)
    /\ pc' = "crashed"
    /\ queue' = Tail(queue)
    /\ UNCHANGED <<cur, armed, expired, polled, pending, io, batch>>

Selected(t) == Dispatching /\ Readable /\ ~OwnerIsNull /\ Trans = t

\* The action of a Mealy transition; its result is exec's.
MealyStep ==
    /\ Selected(Mealy)
    /\ Callbacks(Dst, Tail(queue))
    /\ pc' \in {"exec", "stopped"}
    /\ expired' = Unread /\ pending' = UnreadSig
    /\ UNCHANGED <<cur, armed, polled, batch>>

Ticks(m, s) == {c \in Tick : owner[c] = m /\ home[c] = s}
Signs(m, s) == {c \in Sign : owner[c] = m /\ home[c] = s}

\* __stop_channels disarms the timers, then runs over the positions of the
\* signal transitions and disables the channel the TIMER array holds there:
\* a timer, or a zeroed entry whose reactor index is 0, or nothing at all.
SignPos(m, s)   == {pos[c] : c \in Signs(m, s)}
TickPos(m, s)   == {pos[c] : c \in Ticks(m, s)}
ZeroEntry(m, s) == \E i \in SignPos(m, s) \ TickPos(m, s) : i < tickCap[s]
PastArray(m, s) == \E i \in SignPos(m, s) : i >= tickCap[s]
OwnDisabled(m, s) == {c \in Ticks(m, s) : pos[c] \in SignPos(m, s)}
Disabled(m, s)    == OwnDisabled(m, s)
                       \cup (IF ZeroEntry(m, s) THEN {Slot0} ELSE {})

\* epoll_ctl(MOD) of the zeroed entry's descriptor fails.
StopFails(m, s)   == Reactor = "epoll" /\ ZeroEntry(m, s)
StopCrashes(m, s) == ~StopFails(m, s) /\ PastArray(m, s)

\* timerfd_settime(0) also forgets an unread expiration.
BUG_Stopped(m, s) == Ticks(m, s) \cap Periodic
Stopped(m, s) == Ticks(m, s)

\* __start_channels arms the timers and polls timers and signals.
BUG_Started(m, t) == Signs(m, t)
Started(m, t) == Ticks(m, t) \cup Signs(m, t)

\* A Moore transition to t up to the point where it fails: in
\* __stop_channels, in leave (the machine stays in its state with its timers
\* stopped) or in enter (it is in t with no timer started).
MooreFails(t) ==
    LET m == Dst  s == cur[Dst] IN
    /\ Selected(t)
    /\ armed' = armed \ Stopped(m, s)
    /\ expired' = Unread \ Stopped(m, s)
    /\ pending' = UnreadSig
    /\ batch' = batch
    /\ \/ /\ StopFails(m, s)
          /\ pc' = "stopped" /\ queue' = Tail(queue)
          /\ polled' = polled \ OwnDisabled(m, s)
          /\ UNCHANGED <<cur, io>>
       \/ /\ StopCrashes(m, s)
          /\ pc' = "crashed" /\ queue' = Tail(queue)
          /\ polled' = polled \ Disabled(m, s)
          /\ UNCHANGED <<cur, io>>
       \/ /\ ~StopFails(m, s) /\ ~StopCrashes(m, s) /\ s \in HasLeave
          /\ pc' = "stopped" /\ Callbacks(m, Tail(queue))
          /\ polled' = polled \ Disabled(m, s)
          /\ UNCHANGED cur
       \/ /\ ~StopFails(m, s) /\ ~StopCrashes(m, s)
          /\ pc' = "stopped" /\ Callbacks(m, Tail(queue))
          /\ polled' = polled \ Disabled(m, s)
          /\ cur' = [cur EXCEPT ![m] = t]

\* The whole Moore transition: stop channels, leave, enter, start channels.
MooreStep(t) ==
    LET m == Dst  s == cur[Dst] IN
    /\ Selected(t)
    /\ ~StopFails(m, s) /\ ~StopCrashes(m, s)
    /\ Callbacks(m, Tail(queue))
    /\ cur' = [cur EXCEPT ![m] = t]
    /\ armed' = (armed \ Stopped(m, s)) \cup Ticks(m, t)
    /\ expired' = (Unread \ Stopped(m, s)) \ Ticks(m, t)
    /\ pending' = UnreadSig
    /\ polled' = (polled \ Disabled(m, s)) \cup Started(m, t)
    /\ UNCHANGED <<pc, batch>>

Dispatch ==
    \/ ReadFails \/ IoctlFails \/ Crashes \/ MealyStep
    \/ \E t \in State : MooreFails(t) \/ MooreStep(t)

----------------------------------------------------------------------------
(* The kernel, at any time while the process lives.                        *)

Expire(c) ==
    /\ c \in armed
    /\ expired' = expired \cup {c}
    /\ armed' = IF c \in Periodic THEN armed ELSE armed \ {c}
    /\ UNCHANGED <<pc, queue, cur, polled, pending, io, batch>>

Raise(s) ==
    /\ s \notin pending
    /\ pending' = pending \cup {s}
    /\ UNCHANGED <<pc, queue, cur, armed, expired, polled, io, batch>>

Kernel ==
    /\ pc \notin Halted
    /\ (\E c \in Tick : Expire(c)) \/ (\E s \in Signal : Raise(s))

Wait == (\E c \in Hard : ReportHard(c)) \/ (\E m \in Machine : ReportIo(m))
          \/ WaitReturns

Next == Boot \/ Drained \/ Wait \/ Dispatch \/ Kernel

Spec == Init /\ [][Next]_vars

\* One thread runs the loop and is scheduled again and again; poll reports
\* every ready descriptor of its snapshot.  Nothing is assumed of the kernel's
\* timers and signals, nor that callbacks send or succeed.
FairSpec ==
    /\ Spec
    /\ WF_vars(Boot) /\ WF_vars(Drained) /\ WF_vars(Dispatch)
    /\ WF_vars(WaitReturns)
    /\ \A c \in Hard : WF_vars(ReportHard(c))

----------------------------------------------------------------------------
(* Properties.                                                             *)

TypeOK ==
    /\ pc \in {"boot", "exec", "wait"} \cup Halted
    /\ queue \in Seq(OsMsg \cup SelfMsg)
    /\ cur \in [Machine -> State]
    /\ armed \subseteq Tick /\ expired \subseteq Tick
    /\ polled \subseteq Hard
    /\ pending \subseteq Signal
    /\ io \in [Machine -> Masks \cup {NoIo}]
    /\ batch \subseteq Hard \cup Machine

\* A timer runs, and an expiration can be read, only while its machine is in
\* the state that declares the timer, whatever callback failed before.
TimersOfCurrentState ==
    \A c \in armed \cup expired : cur[owner[c]] = home[c]

\* No timer runs unheard: what is armed, or has expired, is in the set the
\* reactor polls.
TimersArePolled == pc \notin Halted => armed \cup expired \subseteq polled

\* A state change an expiration causes leaves the state that declares the
\* timer, although the dispatcher never compares the two.
ExpirationLeavesItsState ==
    [][ (queue # <<>> /\ Msg.to \in Tick /\ cur' # cur)
          => cur[owner[Msg.to]] = home[Msg.to] ]_vars

\* The engine thread never blocks in the read() of a channel it dispatches.
NeverHangs == pc # "hung"

\* The signals of a state are polled only while the machine is in it.
SignalsOfCurrentState ==
    pc = "wait" => \A c \in Sign \cap polled : cur[owner[c]] = home[c]

\* As long as the loop keeps coming back to wait, no expiration is forgotten.
ExpirationsAreHandled ==
    \A c \in Tick :
        []<>(pc = "wait") =>
            ((c \in expired) ~> (c \notin expired \/ pc \in Halted))

\* No message starves behind the messages that later callbacks send.
MessagesReachTheHead ==
    \A d \in Sends :
        LET M == [from |-> "machine", to |-> d[1], code |-> d[2]]
        IN (\E i \in DOMAIN queue : queue[i] = M)
              ~> (pc \in Halted \/ (queue # <<>> /\ Msg = M))

\* Design rules of a template.  Operating-system events only run actions, a
\* change of state is asked for by a message; no signal is shared.
EventsAreMealy ==
    /\ \A c \in Hard : hardNext[c] = Mealy
    /\ \A s \in State : \A d \in DOMAIN dataNext[s] : dataNext[s][d] \notin State
PrivateSignals == \A c, d \in Sign : signo[c] = signo[d] => c = d
\* Each state has at least as many timer as signal transitions.
SignsCovered == \A m \in Machine, s \in State : SignPos(m, s) \subseteq TickPos(m, s)

\* Under the first two rules a message of the operating system is never stale:
\* events come before the messages sent while they wait, each channel is
\* reported once, and what it was reported for is still there to be read.
EventsAreFresh ==
    /\ \A i, j \in DOMAIN queue :
          i < j /\ queue[j].from = "os" => queue[i].from = "os"
    /\ \A i, j \in DOMAIN queue :
          queue[i].from = "os" /\ queue[j].from = "os" /\ i # j
              => queue[i].to # queue[j].to
    /\ \A i \in DOMAIN queue :
          queue[i].from = "os" =>
              /\ queue[i].to \in Tick => queue[i].to \in expired
              /\ queue[i].to \in Sign => signo[queue[i].to] \in pending
=============================================================================
