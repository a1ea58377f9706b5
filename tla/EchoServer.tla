----------------------------- MODULE EchoServer -----------------------------
(***************************************************************************)
(* programs/esma_echo_server: a master that listens and gives each client  *)
(* to a slave of its pool, and slaves that receive a line and send it      *)
(* back.  All machines share the engine's queue; main() drains it, then    *)
(* waits in poll().                                                        *)
(*                                                                         *)
(* The callbacks are those of master.c and slave.c, the transitions those  *)
(* of master.esma and slave.esma.  Allocations succeed.  The master's      *)
(* periodic timer and its signals only log, and are left out.  A slave     *)
(* has one timer here: its two timers (of recv and of send) run only in    *)
(* their own state, as Engine's TimersOfCurrentState says.  The bytes of   *)
(* the lines are EchoLine's subject.  The engine runs on poll(), which      *)
(* leaves sockets blocking.                                                *)
(***************************************************************************)
EXTENDS Integers, Sequences, FiniteSets

CONSTANTS
    Slave,
    Master,
    Racing,         \* may poll() report a slave's timer and its client at once?
    MaxBacklog,     \* bound: clients in the listen queue (128 in the code)
    MaxPool         \* bound: entries of the pool, at least one per slave

ASSUME EchoAssumption ==
    /\ IsFiniteSet(Slave)
    /\ Master \notin Slave /\ "os" \notin Slave \cup {Master}
    /\ Racing \in BOOLEAN
    /\ MaxBacklog \in Nat /\ MaxPool \in Nat

VARIABLES
    pc,         \* where main() is: "exec", "wait", or a member of Halted
    queue,      \* engine->queue
    st,         \* current_state of each machine
    pool,       \* mi->slaves, the last item on top
    sock,       \* slaves whose si->socket is open
    io,         \* [Slave -> event mask of the io channel, or "none"]
    peer,       \* [Slave -> what the client did that was not read yet]
    timer,      \* [Slave -> the timer of the current state]
    backlog     \* clients in the listen queue

vars == <<pc, queue, st, pool, sock, io, peer, timer, backlog>>

Halted  == {"stopped", "hung", "blocked", "crashed"}
Machine == Slave \cup {Master}
States  == {"init", "idle", "recv", "send", "done", "work"}
Codes   == {0, 1, 3}
Events  == {"in", "out", "err", "tick"}

\* Messages of the operating system, and messages of machines with the state
\* their sender was in.
OsMsg   == [from: {"os"}, to: Machine, code: Events]
SelfMsg == [from: Machine, to: Machine, code: Codes, at: States]

Os(m, e) == [from |-> "os", to |-> m, code |-> e]
Sent(from, to, c, state) == [from |-> from, to |-> to, code |-> c, at |-> state]

\* The sequences that list a set, each member once.
Listings(S) ==
    {q \in [1..Cardinality(S) -> S] : \A i, j \in DOMAIN q : q[i] = q[j] => i = j}

\* After master_init_enter: every slave is in the pool and has run its own
\* init_enter, and the master listens.
Init ==
    /\ pc = "exec"
    /\ pool \in Listings(Slave)
    /\ queue = [i \in DOMAIN pool |-> Sent(pool[i], pool[i], 0, "init")]
                 \o <<Sent(Master, Master, 0, "init")>>
    /\ st = [m \in Machine |-> "init"]
    /\ sock = {}
    /\ io = [s \in Slave |-> "none"]
    /\ peer = [s \in Slave |-> "quiet"]
    /\ timer = [s \in Slave |-> "off"]
    /\ backlog = 0

----------------------------------------------------------------------------
(* The dispatcher.                                                         *)

Msg == Head(queue)

\* A message of a machine with code c reaches m in one of the states S.
Gets(m, S, c) ==
    /\ pc = "exec" /\ queue # <<>>
    /\ Msg.from # "os" /\ Msg.to = m /\ st[m] \in S /\ Msg.code = c

\* The states with a transition for event e.  That of a timer is kept with its
\* channel, whatever the state.
HeardIn(m, e) ==
    IF m = Master THEN {"work"}
                  ELSE CASE e = "in"   -> {"recv"}
                         [] e = "out"  -> {"send"}
                         [] e = "err"  -> {"recv", "send"}
                         [] e = "tick" -> States

\* The channel still has an owner, or the timer something to read.
Alive(m, e) ==
    CASE m = Master -> TRUE
      [] m # Master /\ e = "tick" -> timer[m] = "expired"
      [] OTHER -> io[m] # "none"

\* The operating system's event e reaches m.
Hears(m, e) ==
    /\ pc = "exec" /\ queue # <<>>
    /\ Msg.from = "os" /\ Msg.to = m /\ Msg.code = e
    /\ st[m] \in HeardIn(m, e) /\ Alive(m, e)

\* The message is gone and the callback sent q.
BUG_Consume(q) == queue' = q \o Tail(queue)     \* its messages come first
Consume(q) == queue' = Tail(queue) \o q

Go(m, state) == st' = [st EXCEPT ![m] = state]

----------------------------------------------------------------------------
(* The slaves.                                                             *)

InitToIdle(s) ==
    /\ Gets(s, {"init"}, 0) /\ Consume(<<>>) /\ Go(s, "idle")
    /\ UNCHANGED <<pc, pool, sock, io, peer, timer, backlog>>

\* slave_idle_1: accept() takes a client, or fails (NoAccept).  Only the master
\* sends the listening socket with the message, and accept() blocks when nobody
\* waits.
Accept(s) ==
    /\ Gets(s, {"idle"}, 1) /\ Msg.from = Master /\ backlog > 0
    /\ sock' = sock \cup {s}
    /\ peer' = [peer EXCEPT ![s] = "quiet"]
    /\ io' = [io EXCEPT ![s] = IF io[s] = "none" THEN "off" ELSE io[s]]
    /\ backlog' = backlog - 1
    /\ Consume(<<Sent(s, s, 0, "idle")>>)
    /\ UNCHANGED <<pc, st, pool, timer>>
BUG_NoAccept(s) ==      \* returns without message 3
    /\ Gets(s, {"idle"}, 1)
    /\ pc' = IF Msg.from = Master /\ backlog = 0 THEN "hung" ELSE pc
    /\ Consume(<<>>)
    /\ UNCHANGED <<st, pool, sock, io, peer, timer, backlog>>
NoAccept(s) ==
    /\ Gets(s, {"idle"}, 1)
    /\ pc' = IF Msg.from = Master /\ backlog = 0 THEN "hung" ELSE pc
    /\ Consume(<<Sent(s, s, 3, "idle")>>)
    /\ UNCHANGED <<st, pool, sock, io, peer, timer, backlog>>

\* mod_io_channel does nothing for a slave without io channel.
Poll(s, mask) == io' = [io EXCEPT ![s] = IF io[s] = "none" THEN "none" ELSE mask]

\* Entering recv or send: recv_enter and send_enter, and the state's timer.
Start(s) == timer' = [timer EXCEPT ![s] = "armed"]

ToRecv(s) ==
    /\ Gets(s, {"idle", "send"}, 0) /\ Consume(<<>>) /\ Go(s, "recv")
    /\ Poll(s, "in") /\ Start(s)
    /\ UNCHANGED <<pc, pool, sock, peer, backlog>>
ToSend(s) ==
    /\ Gets(s, {"recv"}, 0) /\ Consume(<<>>) /\ Go(s, "send")
    /\ Poll(s, "out") /\ Start(s)
    /\ UNCHANGED <<pc, pool, sock, peer, backlog>>

BUG_TickCode(s) ==      \* a code no state declares
    /\ Hears(s, "tick")
    /\ Consume(<<Sent(s, s, 2, st[s])>>)
    /\ timer' = [timer EXCEPT ![s] = "off"]
    /\ UNCHANGED <<pc, st, pool, sock, io, peer, backlog>>
BUG_Tick(s) ==          \* the slave only logs the timeout
    /\ Hears(s, "tick") /\ Consume(<<>>)
    /\ timer' = [timer EXCEPT ![s] = "off"]
    /\ UNCHANGED <<pc, st, pool, sock, io, peer, backlog>>
\* slave_recv_tick_0 and slave_send_tick_0: time is up.
Tick(s) ==
    /\ Hears(s, "tick")
    /\ Consume(<<Sent(s, s, 1, st[s])>>)
    /\ timer' = [timer EXCEPT ![s] = "off"]
    /\ UNCHANGED <<pc, st, pool, sock, io, peer, backlog>>

BUG_Receive(s) ==       \* no return between sending 0 and __done
    /\ Hears(s, "in")
    /\ Consume(IF peer[s] = "part" THEN <<>>
               ELSE <<Sent(s, s, 0, "recv"), Sent(s, s, 1, "recv")>>)
    /\ peer' = [peer EXCEPT ![s] = IF @ \in {"line", "part"} THEN "quiet" ELSE @]
    /\ UNCHANGED <<pc, st, pool, sock, io, timer, backlog>>
\* slave_recv_data_0: the end of a line, the middle of one, or the end of the
\* connection (no bytes to read).
Receive(s) ==
    /\ Hears(s, "in")
    /\ Consume(CASE peer[s] = "line" -> <<Sent(s, s, 0, "recv")>>
                 [] peer[s] = "part" -> <<>>
                 [] OTHER            -> <<Sent(s, s, 1, "recv")>>)
    /\ peer' = [peer EXCEPT ![s] = IF @ \in {"line", "part"} THEN "quiet" ELSE @]
    /\ UNCHANGED <<pc, st, pool, sock, io, timer, backlog>>

\* slave_recv_data_0 cannot get the memory for what has arrived.
NoRoom(s) ==
    /\ Hears(s, "in") /\ peer[s] \in {"line", "part"}
    /\ Consume(<<Sent(s, s, 1, "recv")>>)
    /\ UNCHANGED <<pc, st, pool, sock, io, peer, timer, backlog>>

\* slave_send_data_0.  write() takes the whole line, or a part of it (the
\* connection breaks in the middle), or fails.
WriteAll(s) ==
    /\ Hears(s, "out")
    /\ Poll(s, "off") /\ Consume(<<Sent(s, s, 0, "send")>>)
    /\ UNCHANGED <<pc, st, pool, sock, peer, timer, backlog>>
WriteSome(s) ==
    /\ Hears(s, "out") /\ Consume(<<>>)
    /\ UNCHANGED <<pc, st, pool, sock, io, peer, timer, backlog>>
WriteFails(s) ==
    /\ Hears(s, "out") /\ Consume(<<Sent(s, s, 1, "send")>>)
    /\ UNCHANGED <<pc, st, pool, sock, io, peer, timer, backlog>>

\* The line is longer than the room poll() reported, and the client does not
\* read: write() blocks, and with it the server.
WriteBlocks(s) ==
    /\ Hears(s, "out")
    /\ pc' = "blocked" /\ Consume(<<>>)
    /\ UNCHANGED <<st, pool, sock, io, peer, timer, backlog>>

\* The client has closed and refused what it was sent last: the next write()
\* raises SIGPIPE, which nobody blocks or handles.
Killed(s) ==
    /\ Hears(s, "out") /\ peer[s] = "gone"
    /\ pc' = "stopped" /\ Consume(<<>>)
    /\ UNCHANGED <<st, pool, sock, io, peer, timer, backlog>>

\* slave_recv_data_1 gives up; slave_send_data_1 does nothing.
Error(s) ==
    /\ Hears(s, "err")
    /\ Consume(IF st[s] = "recv" THEN <<Sent(s, s, 1, "recv")>> ELSE <<>>)
    /\ UNCHANGED <<pc, st, pool, sock, io, peer, timer, backlog>>

\* slave_done_enter: hang up and go back to the pool.
BUG_ToDone(s) ==        \* the socket stays open
    /\ Gets(s, {"recv", "send"}, 1) \/ Gets(s, {"idle"}, 3)
    /\ Len(pool) < MaxPool
    /\ Go(s, "done")
    /\ timer' = [timer EXCEPT ![s] = "off"]
    /\ io' = [io EXCEPT ![s] = "none"]
    /\ peer' = [peer EXCEPT ![s] = "quiet"]
    /\ pool' = Append(pool, s)
    /\ Consume(<<Sent(s, s, 0, "done")>>)
    /\ UNCHANGED <<pc, sock, backlog>>
ToDone(s) ==
    /\ Gets(s, {"recv", "send"}, 1) \/ Gets(s, {"idle"}, 3)
    /\ Len(pool) < MaxPool
    /\ Go(s, "done")
    /\ timer' = [timer EXCEPT ![s] = "off"]
    /\ io' = [io EXCEPT ![s] = "none"]
    /\ sock' = sock \ {s}
    /\ peer' = [peer EXCEPT ![s] = "quiet"]
    /\ pool' = Append(pool, s)
    /\ Consume(<<Sent(s, s, 0, "done")>>)
    /\ UNCHANGED <<pc, backlog>>

DoneToIdle(s) ==
    /\ Gets(s, {"done"}, 0) /\ Consume(<<>>) /\ Go(s, "idle")
    /\ UNCHANGED <<pc, pool, sock, io, peer, timer, backlog>>

----------------------------------------------------------------------------
(* The master.                                                             *)

MasterToWork ==
    /\ Gets(Master, {"init"}, 0) /\ Consume(<<>>) /\ Go(Master, "work")
    /\ UNCHANGED <<pc, pool, sock, io, peer, timer, backlog>>

BUG_BothCalled ==       \* the client is given to two slaves
    /\ Hears(Master, "in") /\ pool # <<>>
    /\ pool' = <<>>
    /\ Consume([i \in DOMAIN pool |-> Sent(Master, pool[i], 1, "work")])
    /\ UNCHANGED <<pc, st, sock, io, peer, timer, backlog>>
BUG_NewClient ==        \* the slave stays in the pool
    /\ Hears(Master, "in") /\ pool # <<>>
    /\ Consume(<<Sent(Master, pool[Len(pool)], 1, "work")>>)
    /\ UNCHANGED <<pc, st, pool, sock, io, peer, timer, backlog>>
\* master_work_data_0: the client is for the slave on top of the pool.
NewClient ==
    /\ Hears(Master, "in") /\ pool # <<>>
    /\ pool' = SubSeq(pool, 1, Len(pool) - 1)
    /\ Consume(<<Sent(Master, pool[Len(pool)], 1, "work")>>)
    /\ UNCHANGED <<pc, st, sock, io, peer, timer, backlog>>

\* No slave is left: the client is accepted and closed; if accept() fails the
\* server exits, and if nobody waits any more it blocks.
TurnAway ==
    /\ Hears(Master, "in") /\ pool = <<>>
    /\ Consume(<<>>)
    /\ \/ backlog > 0 /\ backlog' = backlog - 1 /\ pc' = pc
       \/ pc' = (IF backlog = 0 THEN "hung" ELSE "stopped") /\ UNCHANGED backlog
    /\ UNCHANGED <<st, pool, sock, io, peer, timer>>

\* master_work_data_1.
ListenFails ==
    /\ Hears(Master, "err")
    /\ Consume(<<Sent(Master, Master, 3, "work")>>)
    /\ UNCHANGED <<pc, st, pool, sock, io, peer, timer, backlog>>

\* Codes for which the state's array of transitions is set; what is left of
\* it is zero, and what is behind it NULL: the dispatcher calls or reads NULL.
Defined(state) ==
    CASE state = "init" -> {0, 3}
      [] state = "idle" -> {0, 1, 3}
      [] state = "done" -> {0}
      [] state = "work" -> {3}
      [] OTHER          -> {0, 1}
Expected(m) ==
    IF m.from = "os" THEN st[m.to] \in HeardIn(m.to, m.code) /\ Alive(m.to, m.code)
                     ELSE m.code \in Defined(st[m.to])

\* A dispatch that ends the server: the master goes to fini, by tick_3 or by
\* message 3, and master_fini_enter returns 1; or the transition or the owner is
\* NULL; or read() of a timer that was disarmed waits for ever.
Ends ==
    /\ pc = "exec" /\ queue # <<>>
    /\ ~Expected(Msg) \/ Hears(Master, "tick") \/ Gets(Master, {"work"}, 3)
    /\ pc' = IF Expected(Msg) THEN "stopped"
             ELSE IF Msg = Os(Msg.to, "tick") THEN "hung" ELSE "crashed"
    /\ Consume(<<>>)
    /\ UNCHANGED <<st, pool, sock, io, peer, timer, backlog>>

----------------------------------------------------------------------------
(* poll(), clients and time.                                               *)

Drained ==
    /\ pc = "exec" /\ queue = <<>>
    /\ pc' = "wait"
    /\ UNCHANGED <<queue, st, pool, sock, io, peer, timer, backlog>>

\* What poll() may report of a slave's io channel, and what it cannot miss:
\* whether a socket has room to write is up to the kernel.
IoEvents(s) ==
    (IF io[s] = "in" /\ peer[s] # "quiet" THEN {"in"} ELSE {})
      \cup (IF io[s] = "out" THEN {"out"} ELSE {})
      \cup (IF io[s] # "none" /\ peer[s] = "error" THEN {"err"} ELSE {})
Unmissable(s) == IoEvents(s) \ {"out"} # {}

MasterEvents ==
    IF backlog > 0 THEN {<<Os(Master, "in")>>}
                   ELSE {<<>>, <<Os(Master, "err")>>}

\* One message per ready descriptor, in the order of the reactor's table: the
\* master's timer and socket, the slaves' timers, the slaves' sockets.
Wait ==
    /\ pc = "wait"
    /\ \E time \in {<<>>, <<Os(Master, "tick")>>}, master \in MasterEvents,
          ticks \in Listings({Os(s, "tick") : s \in {t \in Slave : timer[t] = "expired"}}),
          R \in SUBSET {s \in Slave : IoEvents(s) # {}} :
          /\ {s \in Slave : Unmissable(s)} \subseteq R
          /\ ~Racing => \A s \in R : timer[s] # "expired"
          /\ \E e \in [R -> Events] :
                /\ \A s \in R : e[s] \in IoEvents(s)
                /\ \E ios \in Listings({Os(s, e[s]) : s \in R}) :
                      queue' = time \o master \o ticks \o ios
    /\ queue' # <<>>
    /\ pc' = "exec"
    /\ UNCHANGED <<st, pool, sock, io, peer, timer, backlog>>

Arrive ==
    /\ backlog < MaxBacklog
    /\ backlog' = backlog + 1
    /\ UNCHANGED <<pc, queue, st, pool, sock, io, peer, timer>>

\* A client sends, closes, or its connection fails.
PeerActs(s) ==
    /\ s \in sock /\ peer[s] \in {"quiet", "part", "line"}
    /\ ~Racing => timer[s] # "expired"
    /\ \E p \in {"part", "line", "error"}
                  \cup (IF peer[s] = "quiet" THEN {"gone"} ELSE {}) :
          peer' = [peer EXCEPT ![s] = p]
    /\ UNCHANGED <<pc, queue, st, pool, sock, io, timer, backlog>>

\* Ten seconds are over.
Expire(s) ==
    /\ timer[s] = "armed"
    /\ ~Racing => ~Unmissable(s)
    /\ timer' = [timer EXCEPT ![s] = "expired"]
    /\ UNCHANGED <<pc, queue, st, pool, sock, io, peer, backlog>>

SlaveStep(s) ==
    \/ InitToIdle(s) \/ Accept(s) \/ NoAccept(s)
    \/ ToRecv(s) \/ ToSend(s) \/ Tick(s) \/ Receive(s) \/ NoRoom(s) \/ Error(s)
    \/ WriteAll(s) \/ WriteSome(s) \/ WriteFails(s) \/ WriteBlocks(s) \/ Killed(s)
    \/ ToDone(s) \/ DoneToIdle(s)
MasterStep ==
    MasterToWork \/ NewClient \/ TurnAway \/ ListenFails
Dispatch == Ends \/ MasterStep \/ \E s \in Slave : SlaveStep(s)

Outside == pc \notin Halted /\ (Arrive \/ \E s \in Slave : PeerActs(s) \/ Expire(s))

Next == Drained \/ Wait \/ Dispatch \/ Outside

Spec == Init /\ [][Next]_vars

\* The loop runs; armed timers expire.
FairSpec ==
    /\ Spec
    /\ WF_vars(Drained) /\ WF_vars(Wait) /\ WF_vars(Dispatch)
    /\ \A s \in Slave : WF_vars(Expire(s))

----------------------------------------------------------------------------
(* Properties.                                                             *)

TypeOK ==
    /\ pc \in {"exec", "wait"} \cup Halted
    /\ queue \in Seq(OsMsg \cup SelfMsg)
    /\ st \in [Machine -> States]
    /\ pool \in Seq(Slave)
    /\ sock \subseteq Slave
    /\ io \in [Slave -> {"none", "off", "in", "out"}]
    /\ peer \in [Slave -> {"quiet", "part", "line", "gone", "error"}]
    /\ timer \in [Slave -> {"off", "armed", "expired"}]
    /\ backlog \in 0..MaxBacklog

Free == {pool[i] : i \in DOMAIN pool}
Awaited(s) == \E i \in DOMAIN queue : queue[i].to = s

\* The pool holds each slave once, and only slaves without a client that
\* nobody has given one to.
PoolIsFree ==
    /\ \A i, j \in DOMAIN pool : pool[i] = pool[j] => i = j
    /\ \A s \in Free : s \notin sock /\ st[s] \in {"init", "idle", "done"}
    /\ \A i \in DOMAIN queue : queue[i].from = Master => queue[i].to \notin Free

\* No slave is forgotten: outside the pool it works for a client, or a message
\* for it is on the way.
NoSlaveForgotten ==
    \A s \in Slave \ Free :
        Awaited(s) \/ (s \in sock /\ st[s] \in {"recv", "send"})

\* A message a machine sends itself is taken in the state that sent it: it
\* selects the transition its sender meant.
TakenWhereSent ==
    queue # <<>> /\ Msg.from = Msg.to => Msg.at = st[Msg.to]

\* No message finds a state without transition for it.
NeverCrashes == pc # "crashed"

\* accept() is called only when a client waits, and read() of a timer only
\* when it has expired, whatever the timers do.
NeverHangs == pc # "hung"

\* What poll() has reported is still true when it is dispatched: the slave is
\* in the state that was polled for, its io channel has not been freed and its
\* timer not been read or disarmed by a message dispatched in between.
EventsAreHeard ==
    queue # <<>> /\ Msg.from = "os" => Expected(Msg)

\* A slave has an io channel exactly while its socket is open, and accept()
\* never overwrites an open socket.
SocketsAreTracked ==
    \A s \in Slave :
        /\ (io[s] # "none") <=> s \in sock
        /\ Gets(s, {"idle"}, 1) => s \notin sock

\* recv and send end: ten seconds without a line, or with a line not sent,
\* are the most a client can hold a slave in them, unless the server halts; a
\* write() that blocks halts it, and no timer helps.  (A full pool is a bound
\* of this module: the code's pool grows.)
PhasesEnd ==
    \A s \in Slave, p \in {"recv", "send"} :
        st[s] = p ~> (st[s] # p \/ pc \in Halted \/ Len(pool) = MaxPool)

W == INSTANCE Workers WITH Worker <- Slave, MaxWaiting <- MaxBacklog,
        free <- Free, serving <- sock, waiting <- backlog
ImplementsWorkers == W!Spec
=============================================================================
