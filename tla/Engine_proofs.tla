--------------------------- MODULE Engine_proofs ---------------------------
(***************************************************************************)
(* Proofs about Engine, for every set of machines, every template and any  *)
(* bound.                                                                  *)
(***************************************************************************)
EXTENDS Engine, TLAPS

Msgs == OsMsg \cup SelfMsg

\* What callbacks append to the queue are messages of machines.
LEMMA SentType ==
    ASSUME NEW q \in Seq(Msgs), Sent(q)
    PROVE  /\ queue' \in Seq(Msgs)
           /\ Len(queue') >= Len(q)
           /\ \A i \in 1..Len(q) : queue'[i] = q[i]
           /\ \A i \in 1..Len(queue') : i > Len(q) => queue'[i] \in SelfMsg
<1>1. PICK n \in 0..MaxSend : \E out \in [1..n -> Sends] :
        queue' = q \o [i \in 1..n |->
              [from |-> "machine", to |-> out[i][1], code |-> out[i][2]]]
  BY DEF Sent
<1>2. PICK out \in [1..n -> Sends] :
        queue' = q \o [i \in 1..n |->
              [from |-> "machine", to |-> out[i][1], code |-> out[i][2]]]
  BY <1>1
<1> DEFINE o == [i \in 1..n |->
              [from |-> "machine", to |-> out[i][1], code |-> out[i][2]]]
<1>3. n \in Nat
  BY EngineAssumption
<1>4. \A i \in 1..n : o[i] \in SelfMsg
  BY EngineAssumption DEF SelfMsg
<1>5. o \in Seq(SelfMsg) /\ Len(o) = n
  BY <1>3, <1>4
<1>6. o \in Seq(Msgs)
  BY <1>5 DEF Msgs
<1> HIDE DEF o
<1>7. queue' = q \o o
  BY <1>2 DEF o
<1>8. QED
  BY <1>3, <1>4, <1>5, <1>6, <1>7

\* The message being dispatched, and what remains behind it.
LEMMA HeadType ==
    ASSUME TypeOK, Dispatching
    PROVE  /\ Msg \in Msgs /\ Dst \in Machine
           /\ Tail(queue) \in Seq(Msgs)
           /\ Len(Tail(queue)) = Len(queue) - 1
           /\ \A i \in 1..Len(Tail(queue)) : Tail(queue)[i] = queue[i + 1]
           /\ Msg = queue[1] /\ Len(queue) \in Nat /\ Len(queue) >= 1
<1>1. queue \in Seq(Msgs) /\ queue # <<>>
  BY DEF TypeOK, Dispatching, Msgs
<1>2. Msg \in Msgs
  BY <1>1 DEF Msg
<1>3. Dst \in Machine
  BY <1>2, TemplateAssumption DEF Msgs, OsMsg, SelfMsg, Dst, Hard
<1>4. QED
  BY <1>1, <1>2, <1>3 DEF Msg

\* What the callbacks of a dispatch leave is well typed.
LEMMA CallbacksType ==
    ASSUME TypeOK, NEW m \in Machine, NEW q \in Seq(Msgs), Callbacks(m, q)
    PROVE  queue' \in Seq(Msgs) /\ io' \in [Machine -> Masks \cup {NoIo}]
<1>1. queue' \in Seq(Msgs)
  BY SentType DEF Callbacks
<1>2. PICK x \in IoStates(m) : io' = [io EXCEPT ![m] = x]
  BY DEF Callbacks
<1>3. x \in Masks \cup {NoIo}
  BY DEF IoStates, TypeOK
<1>4. QED
  BY <1>1, <1>2, <1>3 DEF TypeOK

USE TemplateAssumption, DistinctAssumption, EngineAssumption

\* A dispatch keeps every variable's type.
LEMMA DispatchType == TypeOK /\ Dispatch => TypeOK'
<1> SUFFICES ASSUME TypeOK, Dispatch PROVE TypeOK'
  OBVIOUS
<1>1. Dispatching
  BY DEF Dispatch, ReadFails, IoctlFails, Crashes, MealyStep, MooreFails,
         MooreStep, Selected
<1>2. Tail(queue) \in Seq(Msgs) /\ Dst \in Machine /\ Msg \in Msgs
  BY <1>1, HeadType
<1>3. Unread \subseteq Tick /\ UnreadSig \subseteq Signal
  BY DEF TypeOK, Unread, UnreadSig
<1>4. CASE ReadFails \/ IoctlFails \/ Crashes
  <2>1. queue' = Tail(queue)
    BY <1>4 DEF ReadFails, IoctlFails, Crashes
  <2>2. QED
    BY <1>2, <1>4, <2>1 DEF TypeOK, Msgs, Halted, ReadFails, IoctlFails, Crashes
<1>5. CASE MealyStep
  <2>1. queue' \in Seq(Msgs) /\ io' \in [Machine -> Masks \cup {NoIo}]
    BY <1>2, <1>5, CallbacksType DEF MealyStep
  <2>2. QED
    BY <1>3, <1>5, <2>1 DEF TypeOK, Msgs, Halted, MealyStep
<1>6. ASSUME NEW t \in State, MooreFails(t) PROVE TypeOK'
  <2>1. queue' \in Seq(Msgs) /\ io' \in [Machine -> Masks \cup {NoIo}]
    BY <1>2, <1>6, CallbacksType DEF MooreFails, TypeOK
  <2>2. pc' \in Halted /\ (cur' = cur \/ cur' = [cur EXCEPT ![Dst] = t])
    BY <1>6 DEF MooreFails, Halted
  <2>6. cur' \in [Machine -> State]
    BY <1>2, <2>2 DEF TypeOK
  <2>3. armed' \subseteq Tick /\ expired' \subseteq Tick /\ polled' \subseteq Hard
    BY <1>3, <1>6 DEF MooreFails, TypeOK
  <2>4. pending' \subseteq Signal /\ batch' = batch
    BY <1>3, <1>6 DEF MooreFails
  <2>5. QED
    BY <2>1, <2>2, <2>3, <2>4, <2>6 DEF TypeOK, Msgs
<1>7. ASSUME NEW t \in State, MooreStep(t) PROVE TypeOK'
  <2>1. queue' \in Seq(Msgs) /\ io' \in [Machine -> Masks \cup {NoIo}]
    BY <1>2, <1>7, CallbacksType DEF MooreStep
  <2>2. cur' \in [Machine -> State]
    BY <1>2, <1>7 DEF MooreStep, TypeOK
  <2>3. armed' \subseteq Tick /\ expired' \subseteq Tick /\ polled' \subseteq Hard
    BY <1>3, <1>7 DEF MooreStep, TypeOK, Ticks, Signs, Started, Hard
  <2>4. pending' \subseteq Signal /\ batch' = batch /\ pc' = pc
    BY <1>3, <1>7 DEF MooreStep
  <2>5. QED
    BY <2>1, <2>2, <2>3, <2>4 DEF TypeOK, Msgs
<1>8. QED
  BY <1>4, <1>5, <1>6, <1>7 DEF Dispatch

\* Every variable keeps its type, whatever the callbacks do.
THEOREM TypeCorrect == Spec => []TypeOK
<1>1. Init => TypeOK
  BY DEF Init, TypeOK, Msgs
<1>2. TypeOK /\ [Next]_vars => TypeOK'
  <2> SUFFICES ASSUME TypeOK, [Next]_vars PROVE TypeOK'
    OBVIOUS
  <2>1. CASE Boot
    <3>1. queue' \in Seq(Msgs)
      BY <2>1, SentType DEF Boot, TypeOK, Msgs
    <3>2. io' \in [Machine -> Masks \cup {NoIo}]
      BY <2>1 DEF Boot
    <3>3. QED
      BY <2>1, <3>1, <3>2 DEF Boot, TypeOK, Msgs
  <2>2. CASE Drained
    BY <2>2 DEF Drained, TypeOK
  <2>3. CASE Wait
    <3>1. ASSUME NEW c \in Hard \cup Machine, NEW e \in Event, Report(c, e)
          PROVE  TypeOK'
      <4>1. [from |-> "os", to |-> c, code |-> e] \in OsMsg \cup SelfMsg
        BY DEF OsMsg
      <4>2. QED
        BY <3>1, <4>1 DEF Report, TypeOK
    <3>2. CASE WaitReturns
      BY <3>2 DEF WaitReturns, TypeOK
    <3>3. ASSUME NEW c \in Hard, ReportHard(c) PROVE TypeOK'
      BY <3>1, <3>3 DEF ReportHard, Event
    <3>4. ASSUME NEW m \in Machine, ReportIo(m) PROVE TypeOK'
      <4>1. io[m] \subseteq Event
        BY <3>4 DEF ReportIo, TypeOK, Masks, Event
      <4>2. QED
        BY <3>1, <3>4, <4>1 DEF ReportIo, Event
    <3>5. QED
      BY <2>3, <3>2, <3>3, <3>4 DEF Wait
  <2>4. CASE Dispatch
    BY <2>4, DispatchType
  <2>5. CASE Kernel
    BY <2>5 DEF Kernel, Expire, Raise, TypeOK
  <2>6. CASE UNCHANGED vars
    BY <2>6 DEF vars, TypeOK
  <2>7. QED
    BY <2>1, <2>2, <2>3, <2>4, <2>5, <2>6 DEF Next
<1>3. QED
  BY <1>1, <1>2, PTL DEF Spec

----------------------------------------------------------------------------
\* The dispatcher never lets a timer outlive the state that declares it.
LEMMA DispatchKeepsTimers ==
    TypeOK /\ TimersOfCurrentState /\ Dispatch => TimersOfCurrentState'
<1> SUFFICES ASSUME TypeOK, TimersOfCurrentState, Dispatch
             PROVE  TimersOfCurrentState'
  OBVIOUS
<1>1. Dispatching
  BY DEF Dispatch, ReadFails, IoctlFails, Crashes, MealyStep, MooreFails,
         MooreStep, Selected
<1>2. Dst \in Machine
  BY <1>1, HeadType
<1>3. CASE ReadFails \/ IoctlFails \/ Crashes
  BY <1>3 DEF ReadFails, IoctlFails, Crashes, TimersOfCurrentState
<1>4. CASE MealyStep
  BY <1>4 DEF MealyStep, Unread, TimersOfCurrentState
<1>5. ASSUME NEW c \in armed \cup expired, c \notin Ticks(Dst, cur[Dst])
      PROVE  owner[c] # Dst /\ cur[owner[c]] = home[c]
  BY <1>5 DEF TimersOfCurrentState, Ticks, TypeOK
<1>6. ASSUME NEW t \in State, MooreFails(t) PROVE TimersOfCurrentState'
  <2>1. armed' \cup expired' \subseteq (armed \cup expired) \ Ticks(Dst, cur[Dst])
    BY <1>6 DEF MooreFails, Unread, Stopped
  <2>2. cur' = cur \/ cur' = [cur EXCEPT ![Dst] = t]
    BY <1>6 DEF MooreFails
  <2>3. \A c \in armed' \cup expired' : cur'[owner[c]] = cur[owner[c]]
    BY <1>2, <1>5, <2>1, <2>2 DEF TypeOK, Hard
  <2>4. QED
    BY <1>5, <2>1, <2>3 DEF TimersOfCurrentState
<1>7. ASSUME NEW t \in State, MooreStep(t) PROVE TimersOfCurrentState'
  <2>1. armed' \cup expired' \subseteq
            ((armed \cup expired) \ Ticks(Dst, cur[Dst])) \cup Ticks(Dst, t)
    BY <1>7 DEF MooreStep, Unread, Stopped
  <2>2. cur' = [cur EXCEPT ![Dst] = t]
    BY <1>7 DEF MooreStep
  <2>3. \A c \in (armed \cup expired) \ Ticks(Dst, cur[Dst]) :
            cur'[owner[c]] = home[c]
    BY <1>2, <1>5, <2>2 DEF TypeOK, Hard
  <2>4. \A c \in Ticks(Dst, t) : cur'[owner[c]] = home[c]
    BY <1>2, <2>2 DEF TypeOK, Ticks
  <2>5. QED
    BY <2>1, <2>3, <2>4 DEF TimersOfCurrentState
<1>8. QED
  BY <1>3, <1>4, <1>6, <1>7 DEF Dispatch

\* A timer is armed, or has an expiration to read, only while its machine is
\* in the state that declares it.
THEOREM TimersCorrect == Spec => []TimersOfCurrentState
<1>1. Init => TimersOfCurrentState
  BY DEF Init, TimersOfCurrentState
<1>2. TypeOK /\ TimersOfCurrentState /\ [Next]_vars => TimersOfCurrentState'
  <2> SUFFICES ASSUME TypeOK, TimersOfCurrentState, [Next]_vars
               PROVE  TimersOfCurrentState'
    OBVIOUS
  <2>1. CASE Dispatch
    BY <2>1, DispatchKeepsTimers
  <2>2. CASE Kernel
    BY <2>2 DEF Kernel, Expire, Raise, TimersOfCurrentState
  <2>3. CASE Wait
    BY <2>3 DEF Wait, ReportHard, ReportIo, Report, WaitReturns,
                TimersOfCurrentState
  <2>4. CASE Boot \/ Drained \/ UNCHANGED vars
    BY <2>4 DEF Boot, Drained, vars, TimersOfCurrentState
  <2>5. QED
    BY <2>1, <2>2, <2>3, <2>4 DEF Next
<1>3. QED
  BY <1>1, <1>2, TypeCorrect, PTL DEF Spec

\* A state change an expiration causes leaves the state declaring the timer.
THEOREM ExpirationsLeaveTheirState == Spec => ExpirationLeavesItsState
<1>1. TypeOK /\ TimersOfCurrentState /\ [Next]_vars
        => [ (queue # <<>> /\ Msg.to \in Tick /\ cur' # cur)
               => cur[owner[Msg.to]] = home[Msg.to] ]_vars
  <2> SUFFICES ASSUME TypeOK, TimersOfCurrentState, [Next]_vars,
                      queue # <<>>, Msg.to \in Tick, cur' # cur
               PROVE  cur[owner[Msg.to]] = home[Msg.to]
    OBVIOUS
  <2>1. PICK t \in State : MooreFails(t) \/ MooreStep(t)
    BY DEF Next, vars, Boot, Drained, Wait, ReportHard, ReportIo, Report,
           WaitReturns, Kernel, Expire, Raise, Dispatch, ReadFails,
           IoctlFails, Crashes, MealyStep
  <2>2. Readable /\ Dispatching
    BY <2>1 DEF MooreFails, MooreStep, Selected
  <2>3. Msg.from = "os"
    BY <2>2, HeadType DEF Msgs, OsMsg, SelfMsg, Hard
  <2>4. QED
    BY <2>2, <2>3 DEF Readable, TimersOfCurrentState
<1>2. QED
  BY <1>1, TypeCorrect, TimersCorrect, PTL DEF Spec, ExpirationLeavesItsState

\* If every state has as many timers as signals, the reactor polls every timer
\* that runs: __stop_channels then disables no channel but the state's own.
THEOREM TimersHeard ==
    ASSUME SignsCovered
    PROVE  Spec => []TimersArePolled
<1>1. Init => TimersArePolled
  BY DEF Init, TimersArePolled
<1>2. TypeOK /\ TimersArePolled /\ [Next]_vars => TimersArePolled'
  <2> SUFFICES ASSUME TypeOK, TimersArePolled, [Next]_vars
               PROVE  TimersArePolled'
    OBVIOUS
  <2>1. ASSUME NEW t \in State, MooreStep(t) PROVE TimersArePolled'
    <3>1. Dst \in Machine /\ cur[Dst] \in State
      BY <2>1, HeadType DEF MooreStep, Selected, TypeOK
    <3>2. Disabled(Dst, cur[Dst]) \subseteq Ticks(Dst, cur[Dst])
      BY <3>1 DEF SignsCovered, Disabled, OwnDisabled, ZeroEntry
    <3>3. armed \cup expired \subseteq polled
      BY <2>1 DEF TimersArePolled, MooreStep, Selected, Dispatching, Halted
    <3>4. QED
      BY <2>1, <3>2, <3>3
         DEF MooreStep, TimersArePolled, Unread, Stopped, Started
  <2>2. ASSUME NEW t \in State, MooreFails(t) PROVE TimersArePolled'
    <3>1. pc' \in Halted
      BY <2>2 DEF MooreFails, Halted
    <3>2. QED
      BY <3>1 DEF TimersArePolled
  <2>3. CASE ReadFails \/ IoctlFails \/ Crashes
    BY <2>3 DEF ReadFails, IoctlFails, Crashes, TimersArePolled, Halted
  <2>4. CASE MealyStep
    BY <2>4 DEF MealyStep, Selected, Dispatching, Unread, TimersArePolled, Halted
  <2>5. CASE Kernel
    <3>1. armed \cup expired \subseteq polled /\ pc' = pc /\ polled' = polled
      BY <2>5 DEF Kernel, Expire, Raise, TimersArePolled
    <3>2. armed' \cup expired' \subseteq armed \cup expired
      BY <2>5 DEF Kernel, Expire, Raise
    <3>3. QED
      BY <3>1, <3>2 DEF TimersArePolled
  <2>6. CASE Wait
    BY <2>6 DEF Wait, ReportHard, ReportIo, Report, WaitReturns,
                TimersArePolled, Halted
  <2>7. CASE Boot \/ Drained \/ UNCHANGED vars
    BY <2>7 DEF Boot, Drained, vars, TimersArePolled, Halted
  <2>8. QED
    BY <2>1, <2>2, <2>3, <2>4, <2>5, <2>6, <2>7 DEF Next, Dispatch
<1>3. QED
  BY <1>1, <1>2, TypeCorrect, PTL DEF Spec

----------------------------------------------------------------------------
(* No message of the operating system is stale if events only run actions. *)

\* EventsAreFresh is not inductive: a wait adds to the queue, so the queue must
\* be known to hold nothing but what this wait reported.
BatchIsQueued ==
    /\ pc = "boot" => queue = <<>>
    /\ pc = "wait" =>
          \A i \in DOMAIN queue : queue[i].from = "os" /\ queue[i].to \in batch

FreshInv == TypeOK /\ EventsAreFresh /\ BatchIsQueued /\ NeverHangs

\* A dispatch takes the first message and appends messages of machines.
Popped ==
    /\ queue' \in Seq(Msgs)
    /\ Len(queue') >= Len(queue) - 1
    /\ \A i \in 1..(Len(queue) - 1) : queue'[i] = queue[i + 1]
    /\ \A i \in 1..Len(queue') : i > Len(queue) - 1 => queue'[i] \in SelfMsg

\* A dispatch takes the oldest message and only appends others.
LEMMA DispatchPops == TypeOK /\ Dispatch => Popped
<1> SUFFICES ASSUME TypeOK, Dispatch PROVE Popped
  OBVIOUS
<1>1. Dispatching
  BY DEF Dispatch, ReadFails, IoctlFails, Crashes, MealyStep, MooreFails,
         MooreStep, Selected
<1>2. /\ Tail(queue) \in Seq(Msgs) /\ Len(Tail(queue)) = Len(queue) - 1
      /\ \A i \in 1..Len(Tail(queue)) : Tail(queue)[i] = queue[i + 1]
      /\ Len(queue) \in Nat /\ Len(queue) >= 1
  BY <1>1, HeadType
<1>3. queue' = Tail(queue) \/ Sent(Tail(queue))
  BY DEF Dispatch, ReadFails, IoctlFails, Crashes, MealyStep, MooreFails,
         MooreStep, Callbacks
<1>4. CASE queue' = Tail(queue)
  BY <1>2, <1>4 DEF Popped
<1>5. CASE Sent(Tail(queue))
  <2>1. /\ queue' \in Seq(Msgs)
        /\ Len(queue') >= Len(Tail(queue))
        /\ \A i \in 1..Len(Tail(queue)) : queue'[i] = Tail(queue)[i]
        /\ \A i \in 1..Len(queue') : i > Len(Tail(queue)) => queue'[i] \in SelfMsg
    BY <1>2, <1>5, SentType
  <2>2. QED
    BY <1>2, <2>1 DEF Popped
<1>6. QED
  BY <1>3, <1>4, <1>5

\* The messages still waiting were there before, in the same order.
LEMMA PoppedEvents ==
    ASSUME TypeOK, Dispatching, Popped,
           NEW i \in DOMAIN queue', queue'[i].from = "os"
    PROVE  i \in 1..(Len(queue) - 1) /\ i + 1 \in DOMAIN queue
             /\ queue'[i] = queue[i + 1]
<1>1. DOMAIN queue' = 1..Len(queue') /\ DOMAIN queue = 1..Len(queue)
  BY DEF Popped, TypeOK
<1>2. Len(queue) \in Nat /\ Len(queue') \in Nat
  BY DEF Popped, TypeOK
<1>3. queue'[i] \notin SelfMsg
  BY DEF SelfMsg
<1>4. QED
  BY <1>1, <1>2, <1>3 DEF Popped

\* A dispatch reads only what it was called for.
LEMMA DispatchKeepsFresh ==
    ASSUME EventsAreMealy, PrivateSignals, FreshInv, Dispatch
    PROVE  EventsAreFresh' /\ NeverHangs'
<1>1. Dispatching /\ TypeOK
  BY DEF FreshInv, Dispatch, ReadFails, IoctlFails, Crashes, MealyStep,
         MooreFails, MooreStep, Selected
<1>2. Popped
  BY <1>1, DispatchPops
<1>3. /\ Msg = queue[1] /\ Len(queue) \in Nat /\ Len(queue) >= 1
      /\ DOMAIN queue = 1..Len(queue) /\ 1 \in DOMAIN queue
      /\ DOMAIN queue' = 1..Len(queue') /\ Len(queue') \in Nat
      /\ Msg \in Msgs
  BY <1>1, <1>2, HeadType DEF TypeOK, Popped
<1>4. \A i \in DOMAIN queue' : queue'[i].from = "os" =>
          /\ i \in 1..(Len(queue) - 1)
          /\ i + 1 \in DOMAIN queue /\ queue'[i] = queue[i + 1]
  BY <1>1, <1>2, PoppedEvents
<1>5. \A i, j \in DOMAIN queue' :
          i < j /\ queue'[j].from = "os" => queue'[i].from = "os"
  <2> SUFFICES ASSUME NEW i \in DOMAIN queue', NEW j \in DOMAIN queue',
                      i < j, queue'[j].from = "os"
               PROVE  queue'[i].from = "os"
    OBVIOUS
  <2>1. /\ j + 1 \in DOMAIN queue /\ queue[j + 1].from = "os"
        /\ j \in 1..(Len(queue) - 1)
    BY <1>4
  <2>2. i \in 1..(Len(queue) - 1) /\ i + 1 \in 1..Len(queue) /\ i + 1 < j + 1
    BY <1>3, <2>1
  <2>3. queue'[i] = queue[i + 1]
    BY <1>2, <2>2 DEF Popped
  <2>4. queue[i + 1].from = "os"
    BY <1>3, <2>1, <2>2 DEF FreshInv, EventsAreFresh
  <2>5. QED
    BY <2>3, <2>4
<1>6. \A i, j \in DOMAIN queue' :
          queue'[i].from = "os" /\ queue'[j].from = "os" /\ i # j
              => queue'[i].to # queue'[j].to
  <2> SUFFICES ASSUME NEW i \in DOMAIN queue', NEW j \in DOMAIN queue', i # j,
                      queue'[i].from = "os", queue'[j].from = "os"
               PROVE  queue'[i].to # queue'[j].to
    OBVIOUS
  <2>1. i + 1 \in DOMAIN queue /\ queue'[i] = queue[i + 1]
    BY <1>4
  <2>2. j + 1 \in DOMAIN queue /\ queue'[j] = queue[j + 1]
    BY <1>4
  <2>3. i + 1 # j + 1
    BY <1>3
  <2>4. QED
    BY <2>1, <2>2, <2>3 DEF FreshInv, EventsAreFresh
<1>7. Readable
  BY <1>3 DEF Readable, FreshInv, EventsAreFresh
<1>8. pc' # "hung"
  BY <1>1, <1>7 DEF Dispatch, Dispatching, ReadFails, IoctlFails, Crashes,
         MealyStep, MooreFails, MooreStep
<1>9. ASSUME NEW i \in DOMAIN queue', queue'[i].from = "os"
      PROVE  /\ queue'[i].to \in Tick => queue'[i].to \in expired'
             /\ queue'[i].to \in Sign => signo[queue'[i].to] \in pending'
  <2>1. i + 1 \in DOMAIN queue /\ queue'[i] = queue[i + 1] /\ i \in Nat /\ i >= 1
    BY <1>3, <1>4, <1>9
  <2>2. 1 < i + 1 /\ queue[i + 1].from = "os"
    BY <1>9, <2>1
  <2>9. queue[1].from = "os"
    BY <1>3, <2>1, <2>2 DEF FreshInv, EventsAreFresh
  <2>10. queue[1].to # queue[i + 1].to
    <3>1. \A a, b \in DOMAIN queue :
              queue[a].from = "os" /\ queue[b].from = "os" /\ a # b
                  => queue[a].to # queue[b].to
      BY DEF FreshInv, EventsAreFresh
    <3>2. i + 1 # 1
      BY <2>1
    <3>3. QED
      BY <1>3, <2>1, <2>2, <2>9, <3>1, <3>2
  <2>3. Msg.from = "os" /\ Msg.to # queue[i + 1].to
    BY <1>3, <2>9, <2>10
  <2>4. /\ queue'[i].to \in Tick => queue'[i].to \in expired
        /\ queue'[i].to \in Sign => signo[queue'[i].to] \in pending
    BY <2>1, <2>2 DEF FreshInv, EventsAreFresh
  <2>5. Trans \notin State
    BY <1>1, <1>3, <2>3, HeadType
       DEF Trans, EventsAreMealy, TypeOK, Msgs, OsMsg, SelfMsg, DataTrans
  <2>6. CASE ReadFails \/ IoctlFails \/ Crashes
    BY <2>4, <2>6 DEF ReadFails, IoctlFails, Crashes
  <2>7. CASE MealyStep
    <3>1. expired' = expired \ {Msg.to} /\ pending' = UnreadSig
      BY <2>7 DEF MealyStep, Unread
    <3>2. queue'[i].to \in Sign => signo[queue'[i].to] \in UnreadSig
      BY <2>1, <2>3, <2>4 DEF UnreadSig, PrivateSignals
    <3>3. QED
      BY <2>1, <2>3, <2>4, <3>1, <3>2
  <2>8. QED
    BY <2>5, <2>6, <2>7 DEF Dispatch, MooreFails, MooreStep, Selected
<1>10. QED
  BY <1>5, <1>6, <1>8, <1>9 DEF EventsAreFresh, NeverHangs

\* The reactor reports only what is readable, one message a channel.
LEMMA ReportKeepsFresh ==
    ASSUME FreshInv, NEW c \in Hard \cup Machine, NEW e \in Event, Report(c, e),
           c \in Hard => c \in Ready
    PROVE  EventsAreFresh' /\ BatchIsQueued'
<1> DEFINE msg == [from |-> "os", to |-> c, code |-> e]
<1>1. queue \in Seq(Msgs) /\ queue' = Append(queue, msg) /\ pc = "wait"
  BY DEF FreshInv, TypeOK, Msgs, Report
<1>2. /\ DOMAIN queue = 1..Len(queue) /\ DOMAIN queue' = 1..(Len(queue) + 1)
      /\ Len(queue) \in Nat
      /\ \A i \in 1..Len(queue) : queue'[i] = queue[i]
      /\ queue'[Len(queue) + 1] = msg
  BY <1>1
<1>3. \A i \in DOMAIN queue : queue[i].from = "os" /\ queue[i].to \in batch
  BY <1>1 DEF FreshInv, BatchIsQueued
<1>4. c \notin batch /\ batch' = batch \cup {c} /\ pc' = pc
      /\ expired' = expired /\ pending' = pending
  BY DEF Report
<1>5. /\ msg.to \in Tick => msg.to \in expired
      /\ msg.to \in Sign => signo[msg.to] \in pending
  BY DEF Ready, Hard
<1> HIDE DEF msg
<1>6. msg.from = "os" /\ msg.to = c
  BY DEF msg
<1>11. \A i \in DOMAIN queue' : i \in DOMAIN queue \/ i = Len(queue) + 1
  <2>1. \A n \in Nat : \A i \in 1..(n + 1) : i \in 1..n \/ i = n + 1
    OBVIOUS
  <2>2. QED
    BY <1>2, <2>1
<1>7. \A i \in DOMAIN queue' : queue'[i].from = "os" /\ queue'[i].to \in batch'
  BY <1>2, <1>3, <1>4, <1>6, <1>11
<1>8. \A i, j \in DOMAIN queue' : i # j => queue'[i].to # queue'[j].to
  <2>1. \A i, j \in DOMAIN queue : i # j => queue[i].to # queue[j].to
    BY <1>3 DEF FreshInv, EventsAreFresh
  <2>2. \A i \in DOMAIN queue : queue[i].to # c
    BY <1>3, <1>4
  <2>3. SUFFICES ASSUME NEW i \in DOMAIN queue', NEW j \in DOMAIN queue', i # j
                 PROVE  queue'[i].to # queue'[j].to
    OBVIOUS
  <2>4. CASE i \in DOMAIN queue /\ j \in DOMAIN queue
    BY <1>2, <2>1, <2>3, <2>4
  <2>5. CASE i \in DOMAIN queue /\ j = Len(queue) + 1
    BY <1>2, <1>6, <2>2, <2>5
  <2>6. CASE i = Len(queue) + 1 /\ j \in DOMAIN queue
    BY <1>2, <1>6, <2>2, <2>6
  <2>7. QED
    BY <1>11, <2>3, <2>4, <2>5, <2>6
<1>9. \A i \in DOMAIN queue' :
          /\ queue'[i].to \in Tick => queue'[i].to \in expired'
          /\ queue'[i].to \in Sign => signo[queue'[i].to] \in pending'
  <2>1. \A i \in DOMAIN queue :
          /\ queue[i].to \in Tick => queue[i].to \in expired
          /\ queue[i].to \in Sign => signo[queue[i].to] \in pending
    BY <1>3 DEF FreshInv, EventsAreFresh
  <2>2. QED
    BY <1>2, <1>4, <1>5, <1>11, <2>1
<1>10. QED
  BY <1>1, <1>4, <1>7, <1>8, <1>9 DEF EventsAreFresh, BatchIsQueued

\* Every step keeps the waiting events readable.
LEMMA NextKeepsFresh ==
    ASSUME EventsAreMealy, PrivateSignals, FreshInv, [Next]_vars, TypeOK'
    PROVE  FreshInv'
<1>1. CASE Dispatch
  <2>1. pc = "exec"
    BY <1>1 DEF Dispatch, ReadFails, IoctlFails, Crashes, MealyStep,
                MooreFails, MooreStep, Selected, Dispatching
  <2>2. pc' \notin {"boot", "wait"}
    BY <1>1, <2>1 DEF Dispatch, ReadFails, IoctlFails, Crashes, MealyStep,
                MooreFails, MooreStep
  <2>3. QED
    BY <1>1, <2>2, DispatchKeepsFresh DEF FreshInv, BatchIsQueued
<1>2. CASE Kernel
  BY <1>2 DEF Kernel, Expire, Raise, FreshInv, EventsAreFresh, BatchIsQueued,
              NeverHangs
<1>3. CASE Boot
  <2>1. queue = <<>> /\ Sent(queue) /\ pc' = "exec"
    BY <1>3 DEF Boot, FreshInv, BatchIsQueued
  <2>2. queue \in Seq(Msgs) /\ Len(queue) = 0
    BY <2>1
  <2>3. queue' \in Seq(Msgs)
        /\ \A i \in 1..Len(queue') : i > Len(queue) => queue'[i] \in SelfMsg
    BY <2>1, <2>2, SentType
  <2>4. DOMAIN queue' = 1..Len(queue')
    BY <2>3
  <2>5. \A i \in DOMAIN queue' : queue'[i].from # "os"
    BY <2>2, <2>3, <2>4 DEF SelfMsg
  <2>6. QED
    BY <2>1, <2>5 DEF FreshInv, EventsAreFresh, BatchIsQueued, NeverHangs
<1>4. CASE Drained
  BY <1>4 DEF Drained, FreshInv, EventsAreFresh, BatchIsQueued, NeverHangs
<1>5. CASE WaitReturns
  BY <1>5 DEF WaitReturns, FreshInv, EventsAreFresh, BatchIsQueued, NeverHangs
<1>6. ASSUME NEW c \in Hard, ReportHard(c) PROVE FreshInv'
  BY <1>6, ReportKeepsFresh DEF ReportHard, Report, Event, FreshInv, NeverHangs
<1>7. ASSUME NEW m \in Machine, ReportIo(m) PROVE FreshInv'
  <2>1. PICK e \in io[m] \cup {"err", "hup"} : Report(m, e)
    BY <1>7 DEF ReportIo
  <2>2. e \in Event
    BY <1>7 DEF ReportIo, FreshInv, TypeOK, Masks, Event
  <2>3. m \notin Hard
    OBVIOUS
  <2>4. QED
    BY <2>1, <2>2, <2>3, ReportKeepsFresh DEF Report, FreshInv, NeverHangs
<1>8. CASE UNCHANGED vars
  BY <1>8 DEF vars, FreshInv, EventsAreFresh, BatchIsQueued, NeverHangs
<1>9. QED
  BY <1>1, <1>2, <1>3, <1>4, <1>5, <1>6, <1>7, <1>8 DEF Next, Wait

\* If events only run actions and no two channels share a signal, then every
\* message of the operating system finds what it was reported for.
THEOREM EventsStayFresh ==
    ASSUME EventsAreMealy, PrivateSignals
    PROVE  Spec => []EventsAreFresh
<1>1. Init => FreshInv
  BY DEF Init, FreshInv, TypeOK, EventsAreFresh, BatchIsQueued, NeverHangs
<1>2. FreshInv /\ [Next]_vars /\ TypeOK' => FreshInv'
  BY NextKeepsFresh
<1>3. FreshInv => EventsAreFresh
  BY DEF FreshInv
<1>4. QED
  BY <1>1, <1>2, <1>3, TypeCorrect, PTL DEF Spec

\* Under the same rules the engine never blocks in a read, with either reactor.
THEOREM NeverBlocks ==
    ASSUME EventsAreMealy, PrivateSignals
    PROVE  Spec => []NeverHangs
<1>1. Init => FreshInv
  BY DEF Init, FreshInv, TypeOK, EventsAreFresh, BatchIsQueued, NeverHangs
<1>2. FreshInv /\ [Next]_vars /\ TypeOK' => FreshInv'
  BY NextKeepsFresh
<1>3. FreshInv => NeverHangs
  BY DEF FreshInv
<1>4. QED
  BY <1>1, <1>2, <1>3, TypeCorrect, PTL DEF Spec
=============================================================================
