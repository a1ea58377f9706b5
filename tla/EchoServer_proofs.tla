-------------------------- MODULE EchoServer_proofs --------------------------
(***************************************************************************)
(* Theorems about EchoServer, for any number of slaves, any bounds, and    *)
(* with timeouts that race data.                                           *)
(***************************************************************************)
EXTENDS EchoServer, FiniteSetTheorems, TLAPS

AnyMsg == OsMsg \cup SelfMsg

----------------------------------------------------------------------------
(* Messages and sequences of messages.                                     *)

\* A message a machine sends is a message.
LEMMA SentType ==
    ASSUME NEW m \in Machine, NEW n \in Machine, NEW c \in Codes, NEW a \in States
    PROVE  Sent(m, n, c, a) \in AnyMsg
BY DEF Sent, AnyMsg, SelfMsg

\* An event of the operating system is a message.
LEMMA OsType ==
    ASSUME NEW m \in Machine, NEW e \in Events
    PROVE  Os(m, e) \in AnyMsg
BY DEF Os, AnyMsg, OsMsg

\* A listing is a sequence.
LEMMA ListingsAreSeqs ==
    ASSUME NEW S, IsFiniteSet(S), NEW q \in Listings(S)
    PROVE  q \in Seq(S)
<1>1. Cardinality(S) \in Nat
  BY FS_CardinalityType
<1>2. QED
  BY <1>1 DEF Listings

\* Handling a message leaves a sequence of messages.
LEMMA ConsumeType ==
    ASSUME queue \in Seq(AnyMsg), queue # <<>>, NEW q \in Seq(AnyMsg), Consume(q)
    PROVE  queue' \in Seq(AnyMsg)
<1>1. Tail(queue) \in Seq(AnyMsg)
  OBVIOUS
<1>2. QED
  BY <1>1 DEF Consume

\* The sets a wait lists are finite.
LEMMA FiniteReports ==
    ASSUME NEW R \in SUBSET Slave, NEW e \in [R -> Events]
    PROVE  /\ IsFiniteSet({Os(s, e[s]) : s \in R})
           /\ {Os(s, e[s]) : s \in R} \subseteq AnyMsg
<1>1. IsFiniteSet(R)
  BY EchoAssumption, FS_Subset
<1>2. IsFiniteSet({Os(s, e[s]) : s \in R})
  <2> DEFINE T == {Os(s, e[s]) : s \in R}
             f == [s \in R |-> Os(s, e[s])]
  <2>1. f \in Surjection(R, T)
    BY DEF Surjection
  <2>2. QED
    BY <1>1, <2>1, FS_Surjection
<1>3. QED
  BY <1>2, OsType DEF Machine

\* The items of a concatenation.
LEMMA Items ==
    ASSUME NEW S, NEW a \in Seq(S), NEW b \in Seq(S)
    PROVE  /\ a \o b \in Seq(S)
           /\ Len(a \o b) = Len(a) + Len(b)
           /\ \A i \in 1..Len(a) : (a \o b)[i] = a[i]
           /\ \A i \in (Len(a) + 1)..(Len(a) + Len(b)) : (a \o b)[i] = b[i - Len(a)]
OBVIOUS

\* An item of a concatenation is one of either part.
LEMMA TwoParts ==
    ASSUME NEW S, NEW a \in Seq(S), NEW b \in Seq(S), NEW i \in 1..Len(a \o b)
    PROVE  \/ i \in 1..Len(a) /\ (a \o b)[i] = a[i]
           \/ i > Len(a) /\ i - Len(a) \in 1..Len(b) /\ (a \o b)[i] = b[i - Len(a)]
<1>1. Len(a) \in Nat /\ Len(b) \in Nat /\ Len(a \o b) = Len(a) + Len(b)
  OBVIOUS
<1>2. CASE i \in 1..Len(a)
  BY <1>2, Items
<1>3. CASE i \in (Len(a) + 1)..(Len(a) + Len(b))
  BY <1>1, <1>3, Items
<1>4. QED
  BY <1>1, <1>2, <1>3

----------------------------------------------------------------------------
(* Type correctness.                                                       *)

\* A report of poll() that is true when it is made, of the master, of a slave's
\* timer, and of a slave's channel.
MasterReport(m) ==
    \/ m \in {Os(Master, "tick"), Os(Master, "err")}
    \/ m = Os(Master, "in") /\ backlog > 0
TimerReport(m) == \E s \in Slave : m = Os(s, "tick") /\ timer[s] = "expired"
IoReport(m) ==
    \E s \in Slave, e \in {"in", "out", "err"} : m = Os(s, e) /\ e \in IoEvents(s)

\* The parts of what a wait reports.
LEMMA WaitParts ==
    ASSUME TypeOK, Wait
    PROVE  \E a, b, c \in Seq(AnyMsg) :
              /\ queue' = (a \o b) \o c
              /\ \A i \in 1..Len(a) : MasterReport(a[i])
              /\ Len(a) <= 1 \/ (Len(a) = 2 /\ a[1] = Os(Master, "tick") /\ a[2] # a[1])
              /\ \A i \in 1..Len(b) : TimerReport(b[i])
              /\ \A i, j \in 1..Len(b) : b[i] = b[j] => i = j
              /\ \A i \in 1..Len(c) : IoReport(c[i])
              /\ \A i, j \in 1..Len(c) : c[i].to = c[j].to => i = j
              /\ ~Racing => \A i \in 1..Len(c) : timer[c[i].to] # "expired"
<1>a. PICK time \in {<<>>, <<Os(Master, "tick")>>}, master \in MasterEvents,
           ticks \in Listings({Os(s, "tick") : s \in {t \in Slave : timer[t] = "expired"}}),
           R \in SUBSET {s \in Slave : IoEvents(s) # {}} :
           /\ ~Racing => \A s \in R : timer[s] # "expired"
           /\ \E e \in [R -> Events] :
              /\ \A s \in R : e[s] \in IoEvents(s)
              /\ \E ios \in Listings({Os(s, e[s]) : s \in R}) :
                    queue' = time \o master \o ticks \o ios
  BY DEF Wait
<1>b. PICK e \in [R -> Events] :
              /\ \A s \in R : e[s] \in IoEvents(s)
              /\ \E ios \in Listings({Os(s, e[s]) : s \in R}) :
                    queue' = time \o master \o ticks \o ios
  BY <1>a
<1>c. PICK ios \in Listings({Os(s, e[s]) : s \in R}) :
              queue' = time \o master \o ticks \o ios
  BY <1>b
<1> DEFINE E == {t \in Slave : timer[t] = "expired"}
           f == [t \in E |-> "tick"]
           T == {Os(s, "tick") : s \in E}
           I == {Os(s, e[s]) : s \in R}
           a == time \o master
<1>1. /\ Os(Master, "tick") \in AnyMsg
      /\ Os(Master, "in") \in AnyMsg
      /\ Os(Master, "err") \in AnyMsg
  BY OsType DEF Machine, Events
<1>2. /\ a \in Seq(AnyMsg)
      /\ \A i \in 1..Len(a) : MasterReport(a[i])
      /\ Len(a) <= 1 \/ (Len(a) = 2 /\ a[1] = Os(Master, "tick") /\ a[2] # a[1])
  <2>1. ASSUME NEW m \in AnyMsg
        PROVE  <<m>> \in Seq(AnyMsg) /\ Len(<<m>>) = 1 /\ <<m>>[1] = m
    OBVIOUS
  <2>2. <<>> \in Seq(AnyMsg) /\ Len(<<>>) = 0
    OBVIOUS
  <2>3. /\ time \in Seq(AnyMsg) /\ Len(time) \in {0, 1}
        /\ \A i \in 1..Len(time) : time[i] = Os(Master, "tick")
    <3>1. CASE time = <<>>
      BY <2>2, <3>1
    <3>2. CASE time = <<Os(Master, "tick")>>
      BY <1>1, <2>1, <3>2
    <3>3. QED
      BY <3>1, <3>2
  <2>4. /\ master \in Seq(AnyMsg) /\ Len(master) \in {0, 1}
        /\ \A i \in 1..Len(master) : MasterReport(master[i]) /\ master[i] # Os(Master, "tick")
    <3>1. CASE master = <<>>
      BY <2>2, <3>1
    <3>2. ASSUME NEW m \in {Os(Master, "in"), Os(Master, "err")}, master = <<m>>, MasterReport(m)
          PROVE  <2>4
      <4>1. m \in AnyMsg /\ m # Os(Master, "tick")
        BY <1>1 DEF Os
      <4>2. QED
        BY <2>1, <3>2, <4>1
    <3>3. \/ master = <<>>
          \/ \E m \in {Os(Master, "in"), Os(Master, "err")} : master = <<m>> /\ MasterReport(m)
      BY DEF MasterEvents, MasterReport
    <3>4. QED
      BY <3>1, <3>2, <3>3
  <2>5. MasterReport(Os(Master, "tick"))
    BY DEF MasterReport
  <2>6. /\ a \in Seq(AnyMsg) /\ Len(a) = Len(time) + Len(master)
        /\ \A i \in 1..Len(a) : MasterReport(a[i])
    <3>1. a \in Seq(AnyMsg) /\ Len(a) = Len(time) + Len(master)
      BY <2>3, <2>4
    <3>2. QED
      BY <2>3, <2>4, <2>5, <3>1, TwoParts
  <2>7. Len(a) = 2 => a[1] = Os(Master, "tick") /\ a[2] # a[1]
    <3>1. ASSUME Len(a) = 2
          PROVE  a[1] = time[1] /\ a[2] = master[1] /\ Len(time) = 1 /\ Len(master) = 1
      BY <2>3, <2>4, <2>6, <3>1, Items
    <3>2. QED
      BY <2>3, <2>4, <3>1
  <2>8. QED
    BY <2>3, <2>4, <2>6, <2>7
<1>3. /\ ticks \in Seq(AnyMsg)
      /\ \A i \in 1..Len(ticks) : TimerReport(ticks[i])
      /\ \A i, j \in 1..Len(ticks) : ticks[i] = ticks[j] => i = j
  <2>1. E \in SUBSET Slave /\ f \in [E -> Events]
    BY DEF Events
  <2>2. {Os(s, f[s]) : s \in E} = T
    OBVIOUS
  <2>3. IsFiniteSet(T) /\ T \subseteq AnyMsg
    BY <2>1, <2>2, FiniteReports
  <2>4. ticks \in Seq(T) /\ DOMAIN ticks = 1..Len(ticks)
    BY <2>3, ListingsAreSeqs
  <2>5. \A m \in T : TimerReport(m)
    BY DEF TimerReport
  <2>6. \A i, j \in DOMAIN ticks : ticks[i] = ticks[j] => i = j
    BY DEF Listings
  <2>7. QED
    BY <2>3, <2>4, <2>5, <2>6
<1>4. /\ ios \in Seq(AnyMsg)
      /\ \A i \in 1..Len(ios) : IoReport(ios[i])
      /\ \A i, j \in 1..Len(ios) : ios[i].to = ios[j].to => i = j
      /\ ~Racing => \A i \in 1..Len(ios) : timer[ios[i].to] # "expired"
  <2>1. R \in SUBSET Slave
    OBVIOUS
  <2>2. IsFiniteSet(I) /\ I \subseteq AnyMsg
    BY <2>1, FiniteReports
  <2>3. ios \in Seq(I) /\ DOMAIN ios = 1..Len(ios)
    BY <2>2, ListingsAreSeqs
  <2>4. \A m \in I : IoReport(m)
    <3>1. \A s \in R : e[s] \in IoEvents(s) /\ IoEvents(s) \subseteq {"in", "out", "err"}
      BY <1>b DEF IoEvents
    <3>2. QED
      BY <2>1, <3>1 DEF IoReport
  <2>5. \A m \in I : m.to \in R /\ m = Os(m.to, e[m.to])
    BY DEF Os
  <2>6. \A i, j \in DOMAIN ios : ios[i] = ios[j] => i = j
    BY DEF Listings
  <2>7. \A i \in 1..Len(ios) : ios[i] \in I
    BY <2>3
  <2>8. \A i, j \in 1..Len(ios) : ios[i].to = ios[j].to => i = j
    BY <2>3, <2>5, <2>6, <2>7
  <2>9. ~Racing => \A i \in 1..Len(ios) : timer[ios[i].to] # "expired"
    BY <1>a, <2>5, <2>7
  <2>10. ios \in Seq(AnyMsg) /\ \A i \in 1..Len(ios) : IoReport(ios[i])
    BY <2>2, <2>3, <2>4, <2>7
  <2>11. QED
    BY <2>8, <2>9, <2>10
<1>5. queue' = (a \o ticks) \o ios
  BY <1>c
<1>6. QED
  BY <1>2, <1>3, <1>4, <1>5

\* What a wait reports: messages of the operating system.
LEMMA WaitType ==
    ASSUME TypeOK, Wait
    PROVE  queue' \in Seq(AnyMsg)
<1>1. PICK a, b, c \in Seq(AnyMsg) : queue' = (a \o b) \o c
  BY WaitParts
<1>2. QED
  BY <1>1

\* One own message, or none, is a sequence of messages.
LEMMA OneSent ==
    ASSUME NEW m \in Machine, NEW n \in Machine, NEW c \in Codes, NEW a \in States
    PROVE  <<Sent(m, n, c, a)>> \in Seq(AnyMsg) /\ <<>> \in Seq(AnyMsg)
BY SentType

\* The first states are well typed.
LEMMA InitType == ASSUME Init PROVE TypeOK
<1>1. pool \in Seq(Slave)
  BY EchoAssumption, ListingsAreSeqs DEF Init
<1>2. [i \in DOMAIN pool |-> Sent(pool[i], pool[i], 0, "init")] \in Seq(AnyMsg)
  <2>1. \A i \in DOMAIN pool : Sent(pool[i], pool[i], 0, "init") \in AnyMsg
    BY <1>1, SentType DEF Machine, Codes, States
  <2>2. DOMAIN pool = 1..Len(pool) /\ Len(pool) \in Nat
    BY <1>1
  <2>3. QED
    BY <2>1, <2>2
<1>3. <<Sent(Master, Master, 0, "init")>> \in Seq(AnyMsg)
  BY OneSent DEF Machine, Codes, States
<1>4. queue \in Seq(AnyMsg)
  BY <1>2, <1>3 DEF Init
<1>5. QED
  BY <1>1, <1>4, EchoAssumption DEF Init, TypeOK, AnyMsg, States
\* What a slave's step leaves well typed.
LEMMA SlaveType ==
    ASSUME TypeOK, NEW s \in Slave, SlaveStep(s)
    PROVE  TypeOK'
<1> DEFINE Only(c) == \E a \in States : c = <<>> \/ \E k \in Codes : c = <<Sent(s, s, k, a)>>
<1>1. s \in Machine /\ st[s] \in States
  BY DEF TypeOK, Machine
<1>2. pc = "exec" /\ queue # <<>> /\ queue \in Seq(AnyMsg)
  BY DEF SlaveStep, InitToIdle, Accept, NoAccept, ToRecv, ToSend, Tick, Receive, NoRoom,
         Error, WriteAll, WriteSome, WriteFails, WriteBlocks, Killed, ToDone, DoneToIdle,
         Gets, Hears, TypeOK, AnyMsg
<1>3. \E c : Consume(c) /\ Only(c)
  BY <1>1 DEF SlaveStep, InitToIdle, Accept, NoAccept, ToRecv, ToSend, Tick, Receive, NoRoom,
         Error, WriteAll, WriteSome, WriteFails, WriteBlocks, Killed, ToDone, DoneToIdle,
         States, Codes
<1>4. queue' \in Seq(AnyMsg)
  <2>1. ASSUME NEW c, Only(c)
        PROVE  c \in Seq(AnyMsg)
    <3>1. PICK a \in States : c = <<>> \/ \E k \in Codes : c = <<Sent(s, s, k, a)>>
      BY <2>1
    <3>2. CASE c = <<>>
      BY <3>2
    <3>3. CASE \E k \in Codes : c = <<Sent(s, s, k, a)>>
      BY <1>1, <3>3, OneSent
    <3>4. QED
      BY <3>1, <3>2, <3>3
  <2>2. QED
    BY <1>2, <1>3, <2>1, ConsumeType
<1>5. pc' \in {"exec", "wait"} \cup Halted
  BY DEF SlaveStep, InitToIdle, Accept, NoAccept, ToRecv, ToSend, Tick, Receive, NoRoom,
         Error, WriteAll, WriteSome, WriteFails, WriteBlocks, Killed, ToDone, DoneToIdle,
         TypeOK, Halted
<1>6. st' \in [Machine -> States]
  BY <1>1 DEF SlaveStep, InitToIdle, Accept, NoAccept, ToRecv, ToSend, Tick, Receive, NoRoom,
         Error, WriteAll, WriteSome, WriteFails, WriteBlocks, Killed, ToDone, DoneToIdle,
         Go, TypeOK, States
<1>7a. pool' \in Seq(Slave)
  <2>1. pool' = pool \/ pool' = Append(pool, s)
    BY DEF SlaveStep, InitToIdle, Accept, NoAccept, ToRecv, ToSend, Tick, Receive, NoRoom,
           Error, WriteAll, WriteSome, WriteFails, WriteBlocks, Killed, ToDone, DoneToIdle
  <2>2. pool \in Seq(Slave)
    BY DEF TypeOK
  <2>3. QED
    BY <2>1, <2>2
<1>7b. sock' \subseteq Slave
  BY DEF SlaveStep, InitToIdle, Accept, NoAccept, ToRecv, ToSend, Tick, Receive, NoRoom,
         Error, WriteAll, WriteSome, WriteFails, WriteBlocks, Killed, ToDone, DoneToIdle, TypeOK
<1>7. pool' \in Seq(Slave) /\ sock' \subseteq Slave /\ backlog' \in 0..MaxBacklog
  <2>1. backlog' = backlog \/ (backlog > 0 /\ backlog' = backlog - 1)
    BY DEF SlaveStep, InitToIdle, Accept, NoAccept, ToRecv, ToSend, Tick, Receive, NoRoom,
           Error, WriteAll, WriteSome, WriteFails, WriteBlocks, Killed, ToDone, DoneToIdle
  <2>2. QED
    BY <1>7a, <1>7b, <2>1, EchoAssumption DEF TypeOK
<1>8. io' \in [Slave -> {"none", "off", "in", "out"}]
  BY DEF SlaveStep, InitToIdle, Accept, NoAccept, ToRecv, ToSend, Tick, Receive, NoRoom,
         Error, WriteAll, WriteSome, WriteFails, WriteBlocks, Killed, ToDone, DoneToIdle,
         Poll, TypeOK
<1>9. peer' \in [Slave -> {"quiet", "part", "line", "gone", "error"}]
  BY DEF SlaveStep, InitToIdle, Accept, NoAccept, ToRecv, ToSend, Tick, Receive, NoRoom,
         Error, WriteAll, WriteSome, WriteFails, WriteBlocks, Killed, ToDone, DoneToIdle, TypeOK
<1>10. timer' \in [Slave -> {"off", "armed", "expired"}]
  BY DEF SlaveStep, InitToIdle, Accept, NoAccept, ToRecv, ToSend, Tick, Receive, NoRoom,
         Error, WriteAll, WriteSome, WriteFails, WriteBlocks, Killed, ToDone, DoneToIdle,
         Start, TypeOK
<1>11. QED
  BY <1>4, <1>5, <1>6, <1>7, <1>8, <1>9, <1>10 DEF TypeOK, AnyMsg

\* What a step of the master leaves well typed.
LEMMA MasterType ==
    ASSUME TypeOK, MasterStep
    PROVE  TypeOK'
<1>1. Master \in Machine /\ Slave \subseteq Machine
  BY DEF Machine
<1>n. <<>> \in Seq(AnyMsg)
  OBVIOUS
<1>2. queue \in Seq(AnyMsg) /\ queue # <<>> /\ pool \in Seq(Slave)
  BY DEF MasterStep, MasterToWork, NewClient, TurnAway, ListenFails,
         Gets, Hears, TypeOK, AnyMsg
<1>3. CASE MasterToWork
  <2>1. queue' \in Seq(AnyMsg)
    BY <1>n, <1>2, <1>3, ConsumeType DEF MasterToWork
  <2>2. QED
    BY <1>3, <2>1 DEF MasterToWork, Go, TypeOK, AnyMsg, States
<1>4. CASE NewClient
  <2>1. pool[Len(pool)] \in Slave /\ pool' \in Seq(Slave)
    BY <1>2, <1>4 DEF NewClient
  <2>2. <<Sent(Master, pool[Len(pool)], 1, "work")>> \in Seq(AnyMsg)
    BY <1>1, <2>1, OneSent DEF Codes, States
  <2>3. queue' \in Seq(AnyMsg)
    BY <1>2, <1>4, <2>2, ConsumeType DEF NewClient
  <2>4. QED
    BY <1>4, <2>1, <2>3 DEF NewClient, TypeOK, AnyMsg
<1>5. CASE TurnAway
  <2>1. queue' \in Seq(AnyMsg)
    BY <1>n, <1>2, <1>5, ConsumeType DEF TurnAway
  <2>2. backlog' \in 0..MaxBacklog /\ pc' \in {"exec", "wait"} \cup Halted
    BY <1>5, EchoAssumption DEF TurnAway, TypeOK, Halted
  <2>3. QED
    BY <1>5, <2>1, <2>2 DEF TurnAway, TypeOK, AnyMsg
<1>6. CASE ListenFails
  <2>1. <<Sent(Master, Master, 3, "work")>> \in Seq(AnyMsg)
    BY <1>1, OneSent DEF Codes, States
  <2>2. queue' \in Seq(AnyMsg)
    BY <1>2, <1>6, <2>1, ConsumeType DEF ListenFails
  <2>3. QED
    BY <1>6, <2>2 DEF ListenFails, TypeOK, AnyMsg
<1>7. QED
  BY <1>3, <1>4, <1>5, <1>6 DEF MasterStep

\* Every step keeps the types.
LEMMA TypeStep == ASSUME TypeOK, [Next]_vars PROVE TypeOK'
<1>1. CASE Drained
  BY <1>1 DEF Drained, TypeOK
<1>2. CASE Wait
  BY <1>2, WaitType DEF Wait, TypeOK, AnyMsg
<1>3. CASE Ends
  <2>n. <<>> \in Seq(AnyMsg) /\ queue \in Seq(AnyMsg)
    BY DEF TypeOK, AnyMsg
  <2>1. queue' \in Seq(AnyMsg)
    BY <1>3, <2>n, ConsumeType DEF Ends
  <2>2. pc' \in Halted
    BY <1>3 DEF Ends, Halted
  <2>3. QED
    BY <1>3, <2>1, <2>2 DEF Ends, TypeOK, AnyMsg
<1>4. CASE Arrive
  BY <1>4, EchoAssumption DEF Arrive, TypeOK
<1>5. ASSUME NEW s \in Slave, PeerActs(s) PROVE TypeOK'
  BY <1>5 DEF PeerActs, TypeOK
<1>6. ASSUME NEW s \in Slave, Expire(s) PROVE TypeOK'
  BY <1>6 DEF Expire, TypeOK
<1>7. CASE UNCHANGED vars
  BY <1>7 DEF vars, TypeOK
<1>8. QED
  BY <1>1, <1>2, <1>3, <1>4, <1>5, <1>6, <1>7, SlaveType, MasterType
     DEF Next, Dispatch, Outside

\* The variables of the echo server keep their types.
THEOREM TypeCorrect == Spec => []TypeOK
BY InitType, TypeStep, PTL DEF Spec

----------------------------------------------------------------------------
(* The inductive invariant.                                                *)

Queued(q) == {q[i] : i \in 1..Len(q)}

\* The claim on one waiting client: the report of the listening socket, then
\* the message that gives the client to a slave.
IsClaim(m) == m = Os(Master, "in") \/ (m.from = Master /\ m.to # Master)

\* Reports are in front of messages, each timer's once.
OsFirst(q) ==
    \A i, j \in 1..Len(q) : i < j /\ q[j].from = "os" => q[i].from = "os"
OneTick(q) ==
    \A i, j \in 1..Len(q) : q[i] = q[j] /\ q[i].from = "os" /\ q[i].code = "tick" => i = j

\* At most one claim, in front of the other messages, and nothing has been sent
\* since the wait that reported it.
OneClaim(q) ==
    \A i, j \in 1..Len(q) : IsClaim(q[i]) /\ IsClaim(q[j]) => i = j
ClaimFirst(q) ==
    \A i, j \in 1..Len(q) : IsClaim(q[i]) /\ j < i => q[j].from = "os"
FreshClaim(q) ==
    \A i, j \in 1..Len(q) :
        q[i] = Os(Master, "in") =>
            q[j].from = "os" /\ (j < i => q[j] = Os(Master, "tick"))

Order(q) == OsFirst(q) /\ OneTick(q) /\ OneClaim(q) /\ ClaimFirst(q) /\ FreshClaim(q)

ReportsHold == \A m \in Queued(queue) : m.from = "os" => Expected(m)

MasterStarts ==
    /\ st[Master] \in {"init", "work"}
    /\ pc \notin Halted /\ st[Master] = "init" =>
          Sent(Master, Master, 0, "init") \in Queued(queue)

ClaimsHold == \A m \in Queued(queue) : IsClaim(m) => backlog > 0

\* What a slave's state says of its timer, its socket and its channel.
SlaveShape(s) ==
    /\ st[s] # "work"
    /\ timer[s] # "off" => st[s] \in {"recv", "send"}
    /\ io[s] # "none" <=> s \in sock
    /\ st[s] \in {"init", "done"} => s \notin sock
    /\ io[s] = "in" => st[s] = "recv"
    /\ io[s] = "out" => st[s] = "send"

\* While a claim is out nothing else is on the way to an idle slave; a slave
\* with its new client waits for its own message, and for nothing else.
IdleShape(s) ==
    /\ st[s] = "idle" /\ (\E m \in Queued(queue) : IsClaim(m)) =>
          \A m \in Queued(queue) : m.to = s => IsClaim(m)
    /\ st[s] = "idle" /\ s \in sock /\ pc \notin Halted =>
          /\ \A m \in Queued(queue) : ~IsClaim(m)
          /\ Sent(s, s, 0, "idle") \in Queued(queue)
    /\ st[s] = "idle" /\ s \in sock =>
          \A m \in Queued(queue) : m.to = s => m = Sent(s, s, 0, "idle")

IInv ==
    /\ TypeOK
    /\ pc # "hung"
    /\ pc = "wait" => queue = <<>>
    /\ Order(queue)
    /\ ReportsHold /\ MasterStarts /\ ClaimsHold
    /\ \A s \in Slave : SlaveShape(s) /\ IdleShape(s)

\* Taking the head off a queue and adding nothing or one item.
LEMMA Pop ==
    ASSUME NEW q \in Seq(AnyMsg), q # <<>>
    PROVE  /\ Head(q) = q[1] /\ Head(q) \in AnyMsg
           /\ Tail(q) \in Seq(AnyMsg)
           /\ Len(Tail(q)) = Len(q) - 1 /\ Len(q) \in Nat \ {0}
           /\ \A i \in 1..Len(Tail(q)) : Tail(q)[i] = q[i + 1]
           /\ Queued(q) = {Head(q)} \cup Queued(Tail(q))
<1>1. /\ Head(q) = q[1] /\ Head(q) \in AnyMsg
      /\ Tail(q) \in Seq(AnyMsg)
      /\ Len(Tail(q)) = Len(q) - 1 /\ Len(q) \in Nat \ {0}
      /\ \A i \in 1..Len(Tail(q)) : Tail(q)[i] = q[i + 1]
  OBVIOUS
<1>2. Queued(q) \subseteq {Head(q)} \cup Queued(Tail(q))
  <2>1. ASSUME NEW i \in 1..Len(q) PROVE q[i] \in {Head(q)} \cup Queued(Tail(q))
    <3>1. CASE i = 1
      BY <1>1, <3>1
    <3>2. CASE i # 1
      <4>1. i - 1 \in 1..Len(Tail(q)) /\ (i - 1) + 1 = i
        BY <1>1, <3>2
      <4>2. q[i] = Tail(q)[i - 1]
        BY <1>1, <4>1
      <4>3. QED
        BY <4>1, <4>2 DEF Queued
    <3>3. QED
      BY <3>1, <3>2
  <2>2. QED
    BY <2>1 DEF Queued
<1>3. {Head(q)} \cup Queued(Tail(q)) \subseteq Queued(q)
  <2>1. Head(q) \in Queued(q)
    BY <1>1 DEF Queued
  <2>2. ASSUME NEW i \in 1..Len(Tail(q)) PROVE Tail(q)[i] \in Queued(q)
    <3>1. i + 1 \in 1..Len(q)
      BY <1>1
    <3>2. QED
      BY <1>1, <3>1 DEF Queued
  <2>3. QED
    BY <2>1, <2>2 DEF Queued
<1>4. QED
  BY <1>1, <1>2, <1>3

\* Adding an item at the end.
LEMMA Push ==
    ASSUME NEW q \in Seq(AnyMsg), NEW x \in AnyMsg
    PROVE  /\ q \o <<>> = q
           /\ Len(q) \in Nat /\ Len(q \o <<x>>) = Len(q) + 1
           /\ \A i \in 1..Len(q) : (q \o <<x>>)[i] = q[i]
           /\ (q \o <<x>>)[Len(q) + 1] = x
           /\ Queued(q \o <<x>>) = Queued(q) \cup {x}
<1>1. /\ q \o <<>> = q
      /\ Len(q) \in Nat /\ Len(q \o <<x>>) = Len(q) + 1
      /\ \A i \in 1..Len(q) : (q \o <<x>>)[i] = q[i]
      /\ (q \o <<x>>)[Len(q) + 1] = x
  OBVIOUS
<1> DEFINE r == q \o <<x>>
<1>2. 1..Len(r) = (1..Len(q)) \cup {Len(q) + 1}
  BY <1>1
<1>3. Queued(r) = {r[i] : i \in 1..Len(q)} \cup {r[Len(q) + 1]}
  BY <1>2 DEF Queued
<1>4. {r[i] : i \in 1..Len(q)} = {q[i] : i \in 1..Len(q)}
  BY <1>1
<1>5. QED
  BY <1>1, <1>3, <1>4 DEF Queued

\* What the order of a queue says of its head and of what is behind it.
LEMMA HeadFacts ==
    ASSUME NEW q \in Seq(AnyMsg), q # <<>>, Order(q)
    PROVE  /\ Head(q).from # "os" => \A m \in Queued(Tail(q)) : m.from # "os"
           /\ Head(q).from # "os" => \A m \in Queued(Tail(q)) : ~IsClaim(m)
           /\ IsClaim(Head(q)) => \A m \in Queued(Tail(q)) : ~IsClaim(m)
           /\ Head(q) = Os(Master, "in") => \A m \in Queued(Tail(q)) : m.from = "os"
           /\ Os(Master, "in") \in Queued(Tail(q)) => Head(q) = Os(Master, "tick")
           /\ Head(q).from = "os" /\ Head(q).code = "tick" => Head(q) \notin Queued(Tail(q))
<1>1. /\ Head(q) = q[1] /\ 1 \in 1..Len(q) /\ Len(q) \in Nat
      /\ \A m \in Queued(Tail(q)) : \E i \in 2..Len(q) : m = q[i]
  <2>1. ASSUME NEW i \in 1..Len(Tail(q)) PROVE i + 1 \in 2..Len(q) /\ Tail(q)[i] = q[i + 1]
    BY Pop
  <2>2. QED
    BY Pop, <2>1 DEF Queued
<1>2. ASSUME NEW m \in Queued(Tail(q))
      PROVE  /\ Head(q).from # "os" => m.from # "os"
             /\ Head(q).from # "os" => ~IsClaim(m)
             /\ IsClaim(Head(q)) => ~IsClaim(m)
             /\ Head(q) = Os(Master, "in") => m.from = "os"
             /\ m = Os(Master, "in") => Head(q) = Os(Master, "tick")
             /\ Head(q).from = "os" /\ Head(q).code = "tick" => Head(q) # m
  <2>1. PICK i \in 2..Len(q) : m = q[i]
    BY <1>1
  <2>2. i \in 1..Len(q) /\ 1 < i /\ 1 # i
    BY <1>1
  <2>3. QED
    BY <1>1, <2>1, <2>2
       DEF Order, OsFirst, OneTick, OneClaim, ClaimFirst, FreshClaim
<1>3. QED
  BY <1>2

\* The order stays when the head goes.
LEMMA OrderTail ==
    ASSUME NEW q \in Seq(AnyMsg), q # <<>>, Order(q)
    PROVE  Order(Tail(q))
<1> DEFINE r == Tail(q)
<1>1. ASSUME NEW i \in 1..Len(r), NEW j \in 1..Len(r)
      PROVE  /\ r[i] = q[i + 1] /\ r[j] = q[j + 1]
             /\ i + 1 \in 1..Len(q) /\ j + 1 \in 1..Len(q)
             /\ i < j <=> i + 1 < j + 1
             /\ j < i <=> j + 1 < i + 1
             /\ i = j <=> i + 1 = j + 1
  BY Pop
<1>2. OsFirst(r)
  BY <1>1 DEF Order, OsFirst
<1>3. OneTick(r)
  BY <1>1 DEF Order, OneTick
<1>4. OneClaim(r)
  BY <1>1 DEF Order, OneClaim
<1>5. ClaimFirst(r)
  BY <1>1 DEF Order, ClaimFirst
<1>6. FreshClaim(r)
  BY <1>1 DEF Order, FreshClaim
<1>7. QED
  BY <1>2, <1>3, <1>4, <1>5, <1>6 DEF Order

\* The order stays when a message of a machine comes behind: one that is no
\* claim, or the only claim, behind reports.
LEMMA OrderPush ==
    ASSUME NEW q \in Seq(AnyMsg), Order(q), NEW x \in AnyMsg, x.from # "os",
           Os(Master, "in") \notin Queued(q),
           IsClaim(x) => \A m \in Queued(q) : m.from = "os" /\ ~IsClaim(m)
    PROVE  Order(q \o <<x>>)
<1> DEFINE r == q \o <<x>>
<1>1. /\ Len(q) \in Nat /\ Len(r) = Len(q) + 1
      /\ \A i \in 1..Len(q) : r[i] = q[i] /\ q[i] \in Queued(q)
      /\ r[Len(q) + 1] = x
  BY Push DEF Queued
<1>2. ASSUME NEW i \in 1..Len(r)
      PROVE  \/ i \in 1..Len(q) /\ i < Len(q) + 1 /\ r[i] = q[i] /\ r[i] \in Queued(q)
             \/ i = Len(q) + 1 /\ r[i] = x
  BY <1>1
<1>3. x # Os(Master, "in")
  BY DEF Os
<1>4. OsFirst(r)
  BY <1>1, <1>2 DEF Order, OsFirst
<1>5. OneTick(r)
  BY <1>1, <1>2 DEF Order, OneTick
<1>6. OneClaim(r)
  BY <1>1, <1>2 DEF Order, OneClaim
<1>7. ClaimFirst(r)
  BY <1>1, <1>2 DEF Order, ClaimFirst
<1>8. FreshClaim(r)
  BY <1>1, <1>2, <1>3 DEF Order, FreshClaim
<1>9. QED
  BY <1>4, <1>5, <1>6, <1>7, <1>8 DEF Order

\* Handling the head: the callback sends nothing.
LEMMA Handled ==
    ASSUME IInv, queue # <<>>, Consume(<<>>)
    PROVE  /\ Order(queue')
           /\ Queued(queue') = Queued(Tail(queue))
           /\ Queued(queue) = {Msg} \cup Queued(Tail(queue))
<1>1. queue \in Seq(AnyMsg) /\ Order(queue)
  BY DEF IInv, TypeOK, AnyMsg
<1>2. Tail(queue) \in Seq(AnyMsg)
  BY <1>1
<1>3. Tail(queue) \o <<>> = Tail(queue)
  BY <1>2
<1>4. queue' = Tail(queue)
  BY <1>3 DEF Consume
<1>5. QED
  BY <1>1, <1>4, OrderTail, Pop DEF Msg

\* Handling the head: the callback sends x.
LEMMA Answered ==
    ASSUME IInv, queue # <<>>, NEW x \in AnyMsg, x.from # "os", Consume(<<x>>),
           Msg # Os(Master, "tick"),
           IsClaim(x) => Msg = Os(Master, "in")
    PROVE  /\ Order(queue')
           /\ Queued(queue') = Queued(Tail(queue)) \cup {x}
           /\ Queued(queue) = {Msg} \cup Queued(Tail(queue))
<1>1. queue \in Seq(AnyMsg) /\ Order(queue)
  BY DEF IInv, TypeOK, AnyMsg
<1>2. Tail(queue) \in Seq(AnyMsg)
  BY <1>1
<1>3. queue' = Tail(queue) \o <<x>>
  BY DEF Consume
<1>4. Order(Tail(queue))
  BY <1>1, OrderTail
<1>5. Os(Master, "in") \notin Queued(Tail(queue))
  BY <1>1, HeadFacts DEF Msg
<1>6. IsClaim(x) => \A m \in Queued(Tail(queue)) : m.from = "os" /\ ~IsClaim(m)
  BY <1>1, HeadFacts DEF Msg, IsClaim
<1>7. Order(queue')
  BY <1>2, <1>3, <1>4, <1>5, <1>6, OrderPush
<1>8. QED
  BY <1>1, <1>2, <1>3, <1>7, Pop, Push DEF Msg

\* A message a machine sends itself is no claim, and no report.
LEMMA OwnMessage ==
    ASSUME NEW m \in Machine, NEW x, x.from = m, x.to = m
    PROVE  x.from # "os" /\ ~IsClaim(x)
<1>1. m # "os"
  BY EchoAssumption DEF Machine
<1>2. x # Os(Master, "in")
  BY <1>1 DEF Os
<1>3. QED
  BY <1>1, <1>2 DEF IsClaim

\* A step of slave s handles a message, or a report, and sends the messages X.
TakesMessage(s) == pc = "exec" /\ queue # <<>> /\ Msg.from # "os" /\ Msg.to = s
TakesReport(s)  == pc = "exec" /\ queue # <<>> /\ Msg.from = "os" /\ Msg.to = s
Sends(s, X) ==
    /\ X \subseteq AnyMsg
    /\ \/ Consume(<<>>) /\ X = {}
       \/ \E x \in AnyMsg : x.from = s /\ x.to = s /\ Consume(<<x>>) /\ X = {x}

\* What the queue becomes when a slave handles its message.
LEMMA SlaveQueue ==
    ASSUME IInv, queue # <<>>, NEW s \in Slave, Msg.to = s, NEW X, Sends(s, X)
    PROVE  /\ Order(queue')
           /\ Queued(queue') = Queued(Tail(queue)) \cup X
           /\ Queued(queue) = {Msg} \cup Queued(Tail(queue))
           /\ \A x \in X : x.from = s /\ x.to = s /\ x.from # "os" /\ ~IsClaim(x)
<1>1. CASE Consume(<<>>) /\ X = {}
  BY <1>1, Handled
<1>2. CASE \E x \in AnyMsg : x.from = s /\ x.to = s /\ Consume(<<x>>) /\ X = {x}
  <2>1. PICK x \in AnyMsg : x.from = s /\ x.to = s /\ Consume(<<x>>) /\ X = {x}
    BY <1>2
  <2>2. x.from # "os" /\ ~IsClaim(x)
    BY <2>1, OwnMessage DEF Machine
  <2>3. Msg # Os(Master, "tick")
    BY EchoAssumption DEF Os
  <2>4. QED
    BY <2>1, <2>2, <2>3, Answered
<1>3. QED
  BY <1>1, <1>2 DEF Sends

OthersKept(s) ==
    /\ \A m \in Machine \ {s} : st'[m] = st[m]
    /\ \A t \in Slave \ {s} :
          timer'[t] = timer[t] /\ io'[t] = io[t] /\ (t \in sock' <=> t \in sock)

\* The part of the invariant that a slave keeps when it handles a message of
\* another machine or its own, if it leaves the other machines alone.
LEMMA SlaveMessage ==
    ASSUME IInv, TypeOK', NEW s \in Slave, TakesMessage(s), NEW X, Sends(s, X),
           OthersKept(s), pc' = "exec", SlaveShape(s)',
           st'[s] = "idle" /\ s \in sock' =>
               /\ X = {Sent(s, s, 0, "idle")}
               /\ \A m \in Queued(Tail(queue)) : m.to # s
    PROVE  IInv'
<1> DEFINE R == Queued(Tail(queue))
<1>1. /\ Order(queue')
      /\ Queued(queue') = R \cup X
      /\ Queued(queue) = {Msg} \cup R
      /\ \A x \in X : x.from = s /\ x.to = s /\ x.from # "os" /\ ~IsClaim(x)
  BY SlaveQueue DEF TakesMessage
<1>2. \A m \in R : m.from # "os" /\ ~IsClaim(m)
  BY HeadFacts DEF TakesMessage, Msg, IInv, TypeOK, AnyMsg
<1>3. \A m \in Queued(queue') : m.from # "os" /\ ~IsClaim(m)
  BY <1>1, <1>2
<1>4. ReportsHold' /\ ClaimsHold'
  BY <1>3 DEF ReportsHold, ClaimsHold
<1>5. Master # s /\ Master \in Machine /\ Slave \subseteq Machine
  BY EchoAssumption DEF Machine
<1>6. MasterStarts'
  <2>1. Sent(Master, Master, 0, "init") # Msg
    BY <1>5 DEF TakesMessage, Sent
  <2>2. QED
    BY <1>1, <1>5, <2>1 DEF TakesMessage, OthersKept, IInv, MasterStarts, Halted
<1>7. ASSUME NEW t \in Slave \ {s} PROVE SlaveShape(t)' /\ IdleShape(t)'
  <2>1. st'[t] = st[t] /\ SlaveShape(t) /\ IdleShape(t)
    BY <1>5 DEF OthersKept, IInv
  <2>2. SlaveShape(t)'
    BY <2>1 DEF OthersKept, SlaveShape
  <2>3. Sent(t, t, 0, "idle") # Msg
    BY DEF TakesMessage, Sent
  <2>4. st'[t] = "idle" /\ t \in sock' =>
          /\ \A m \in Queued(queue') : ~IsClaim(m)
          /\ Sent(t, t, 0, "idle") \in Queued(queue')
          /\ \A m \in Queued(queue') : m.to = t => m = Sent(t, t, 0, "idle")
    BY <1>1, <1>3, <2>1, <2>3 DEF TakesMessage, OthersKept, IdleShape, Halted
  <2>5. QED
    BY <1>3, <2>2, <2>4 DEF IdleShape
<1>8. IdleShape(s)'
  BY <1>1, <1>3 DEF IdleShape
<1>9. QED
  BY <1>1, <1>4, <1>6, <1>7, <1>8 DEF IInv

\* A report is determined by its machine and its event.
LEMMA ReportIs ==
    ASSUME NEW m \in AnyMsg, m.from = "os"
    PROVE  m = Os(m.to, m.code) /\ m.to \in Machine
<1>1. "os" \notin Machine
  BY EchoAssumption DEF Machine
<1>2. m \in OsMsg
  BY <1>1 DEF AnyMsg, SelfMsg
<1>3. QED
  BY <1>2 DEF OsMsg, Os

\* The part of the invariant that a slave keeps when it handles a report: it
\* stays in its state and with its socket.
LEMMA SlaveReport ==
    ASSUME IInv, TypeOK', NEW s \in Slave, TakesReport(s), st[s] \in {"recv", "send"},
           NEW X, Sends(s, X), OthersKept(s),
           pc' \in {"exec", "blocked", "stopped"},
           st' = st, sock' = sock, backlog' = backlog,
           timer'[s] = timer[s] \/ (Msg = Os(s, "tick") /\ timer'[s] = "off"),
           io'[s] = io[s] \/ (io[s] # "none" /\ io'[s] = "off")
    PROVE  IInv'
<1> DEFINE R == Queued(Tail(queue))
<1>1. /\ Order(queue')
      /\ Queued(queue') = R \cup X
      /\ Queued(queue) = {Msg} \cup R
      /\ \A x \in X : x.from = s /\ x.to = s /\ x.from # "os" /\ ~IsClaim(x)
  BY SlaveQueue DEF TakesReport
<1>2. Master # s /\ Master \in Machine /\ Slave \subseteq Machine /\ "os" \notin Machine
  BY EchoAssumption DEF Machine
<1>3. \A m \in R : m \in AnyMsg
  BY Pop DEF TakesReport, Queued, IInv, TypeOK, AnyMsg
<1>4. ReportsHold'
  <2>1. ASSUME NEW m \in R, m.from = "os" PROVE Expected(m)'
    <3>1. Expected(m) /\ m = Os(m.to, m.code) /\ m.to \in Machine
      BY <1>1, <1>3, <2>1, ReportIs DEF IInv, ReportsHold
    <3>2. ASSUME m.to = s, m.code = "tick", Msg = Os(s, "tick") PROVE FALSE
      <4>1. Msg \notin R
        BY <3>2, HeadFacts DEF TakesReport, Os, Msg, IInv, TypeOK, AnyMsg
      <4>2. QED
        BY <2>1, <3>1, <3>2, <4>1
    <3>3. QED
      BY <2>1, <3>1, <3>2, <1>2 DEF OthersKept, Expected, HeardIn, Alive, Machine
  <2>2. QED
    BY <1>1, <2>1 DEF ReportsHold
<1>5. ClaimsHold'
  BY <1>1 DEF ClaimsHold, IInv
<1>6. MasterStarts'
  <2>1. Sent(Master, Master, 0, "init") # Msg
    BY <1>2 DEF TakesReport, Sent
  <2>2. QED
    BY <1>1, <1>2, <2>1 DEF TakesReport, IInv, MasterStarts, Halted
<1>7. ASSUME NEW t \in Slave PROVE SlaveShape(t)' /\ IdleShape(t)'
  <2>1. st'[t] = st[t] /\ SlaveShape(t) /\ IdleShape(t) /\ (st[t] = "idle" => t # s)
    BY DEF IInv
  <2>2. SlaveShape(t)'
    BY <2>1 DEF OthersKept, SlaveShape
  <2>3. Sent(t, t, 0, "idle") # Msg
    BY <1>2 DEF TakesReport, Sent
  <2>4. QED
    BY <1>1, <2>1, <2>2, <2>3 DEF TakesReport, IdleShape, Halted
<1>8. QED
  BY <1>1, <1>4, <1>5, <1>6, <1>7 DEF IInv

\* The steps of a slave that handle a message, and those that handle a report.
MessageStep(s) ==
    InitToIdle(s) \/ DoneToIdle(s) \/ Accept(s) \/ NoAccept(s) \/ ToRecv(s) \/ ToSend(s) \/ ToDone(s)
ReportStep(s) ==
    \/ Tick(s) \/ Receive(s) \/ NoRoom(s) \/ Error(s)
    \/ WriteAll(s) \/ WriteSome(s) \/ WriteFails(s) \/ WriteBlocks(s) \/ Killed(s)

\* Handling a message keeps the invariant.
LEMMA MessageInv ==
    ASSUME IInv, TypeOK', NEW s \in Slave, MessageStep(s)
    PROVE  IInv'
<1>1. /\ TypeOK /\ s \in Machine /\ Master # s /\ st[s] \in States
      /\ SlaveShape(s) /\ IdleShape(s)
  BY EchoAssumption DEF IInv, TypeOK, Machine
<1>2. ASSUME NEW k \in Codes, NEW a \in States, Consume(<<Sent(s, s, k, a)>>)
      PROVE  Sends(s, {Sent(s, s, k, a)})
  <2>1. Sent(s, s, k, a) \in AnyMsg
    BY <1>1, SentType
  <2>2. QED
    BY <1>2, <2>1 DEF Sends, Sent
<1>3. Consume(<<>>) => Sends(s, {})
  BY DEF Sends
<1>4. TakesMessage(s)
  BY DEF MessageStep, InitToIdle, DoneToIdle, Accept, NoAccept, ToRecv, ToSend, ToDone,
         Gets, TakesMessage
<1>5. OthersKept(s)
  BY <1>1 DEF MessageStep, InitToIdle, DoneToIdle, Accept, NoAccept, ToRecv, ToSend, ToDone,
         OthersKept, Go, Poll, Start, TypeOK
<1>6. Msg \in Queued(queue)
  BY <1>4, Pop DEF TakesMessage, Msg, IInv, TypeOK, AnyMsg
<1>7. CASE InitToIdle(s) \/ DoneToIdle(s)
  <2>1. SlaveShape(s)' /\ s \notin sock' /\ Sends(s, {}) /\ pc' = "exec"
    BY <1>1, <1>3, <1>7 DEF InitToIdle, DoneToIdle, Gets, Go, SlaveShape, TypeOK
  <2>2. QED
    BY <1>4, <1>5, <2>1, SlaveMessage
<1>8. CASE Accept(s)
  <2>1. Sends(s, {Sent(s, s, 0, "idle")}) /\ pc' = "exec"
    BY <1>2, <1>8 DEF Accept, Gets, Codes, States
  <2>2. IsClaim(Msg)
    BY <1>1, <1>8 DEF Accept, Gets, IsClaim
  <2>3. queue # <<>> /\ queue \in Seq(AnyMsg) /\ Order(queue)
    BY <1>4 DEF TakesMessage, IInv, TypeOK, AnyMsg
  <2>4. \A m \in Queued(Tail(queue)) : ~IsClaim(m) /\ m \in Queued(queue)
    BY <2>2, <2>3, HeadFacts, Pop DEF Msg
  <2>5. \A m \in Queued(Tail(queue)) : m.to # s
    BY <1>1, <1>6, <1>8, <2>2, <2>4 DEF Accept, Gets, IdleShape
  <2>6. SlaveShape(s)'
    BY <1>1, <1>8 DEF Accept, Gets, SlaveShape, TypeOK
  <2>7. QED
    BY <1>4, <1>5, <2>1, <2>5, <2>6, SlaveMessage
<1>9. CASE NoAccept(s)
  <2>1. Sends(s, {Sent(s, s, 3, "idle")})
    BY <1>2, <1>9 DEF NoAccept, Codes, States
  <2>2. pc' = "exec"
    BY <1>1, <1>6, <1>9 DEF NoAccept, Gets, IsClaim, IInv, ClaimsHold, TypeOK
  <2>3. s \notin sock
    BY <1>1, <1>6, <1>9 DEF NoAccept, Gets, IdleShape, Sent
  <2>4. SlaveShape(s)' /\ s \notin sock'
    BY <1>1, <1>9, <2>3 DEF NoAccept, SlaveShape
  <2>5. QED
    BY <1>4, <1>5, <2>1, <2>2, <2>4, SlaveMessage
<1>10. CASE ToRecv(s) \/ ToSend(s)
  <2>1. st'[s] # "idle" /\ Sends(s, {}) /\ pc' = "exec"
    BY <1>1, <1>3, <1>10 DEF ToRecv, ToSend, Gets, Go, TypeOK
  <2>2. SlaveShape(s)'
    BY <1>1, <1>10 DEF ToRecv, ToSend, Gets, Go, Poll, Start, SlaveShape, TypeOK
  <2>3. QED
    BY <1>4, <1>5, <2>1, <2>2, SlaveMessage
<1>11. CASE ToDone(s)
  <2>1. Sends(s, {Sent(s, s, 0, "done")}) /\ pc' = "exec"
    BY <1>2, <1>4, <1>11 DEF ToDone, TakesMessage, Codes, States
  <2>2. SlaveShape(s)' /\ s \notin sock'
    BY <1>1, <1>11 DEF ToDone, Go, SlaveShape, TypeOK
  <2>3. QED
    BY <1>4, <1>5, <2>1, <2>2, SlaveMessage
<1>12. QED
  BY <1>7, <1>8, <1>9, <1>10, <1>11 DEF MessageStep

\* Handling a report keeps the invariant.
LEMMA ReportInv ==
    ASSUME IInv, TypeOK', NEW s \in Slave, ReportStep(s)
    PROVE  IInv'
<1>1. /\ TypeOK /\ s \in Machine /\ Master # s /\ st[s] \in States /\ SlaveShape(s)
  BY EchoAssumption DEF IInv, TypeOK, Machine
<1>2. \E k \in {0, 1}, a \in {st[s], "recv", "send"} :
          Consume(<<>>) \/ Consume(<<Sent(s, s, k, a)>>)
  BY DEF ReportStep, Tick, Receive, NoRoom, Error, WriteAll, WriteSome, WriteFails,
         WriteBlocks, Killed
<1>3. \E X : Sends(s, X)
  <2>1. PICK k \in {0, 1}, a \in {st[s], "recv", "send"} :
          Consume(<<>>) \/ Consume(<<Sent(s, s, k, a)>>)
    BY <1>2
  <2>2. CASE Consume(<<>>)
    <3>1. Sends(s, {})
      BY <2>2 DEF Sends
    <3>2. QED
      BY <3>1
  <2>3. CASE Consume(<<Sent(s, s, k, a)>>)
    <3>1. k \in Codes /\ a \in States
      BY <1>1 DEF Codes, States
    <3>2. Sent(s, s, k, a) \in AnyMsg
      BY <1>1, <3>1, SentType
    <3>3. Sends(s, {Sent(s, s, k, a)})
      BY <2>3, <3>2 DEF Sends, Sent
    <3>4. QED
      BY <3>3
  <2>4. QED
    BY <2>1, <2>2, <2>3
<1>4. \E e \in Events : Hears(s, e)
  BY DEF ReportStep, Tick, Receive, NoRoom, Error, WriteAll, WriteSome, WriteFails,
         WriteBlocks, Killed, Events
<1>5. TakesReport(s)
  BY <1>4 DEF Hears, TakesReport
<1>6. st[s] \in {"recv", "send"}
  BY <1>1, <1>4 DEF Hears, HeardIn, Alive, Events, SlaveShape
<1>7. /\ OthersKept(s) /\ pc' \in {"exec", "blocked", "stopped"}
      /\ st' = st /\ sock' = sock /\ backlog' = backlog
  BY <1>1, <1>5 DEF ReportStep, Tick, Receive, NoRoom, Error, WriteAll, WriteSome, WriteFails,
         WriteBlocks, Killed, OthersKept, Poll, TypeOK, TakesReport
<1>8. timer'[s] = timer[s] \/ (Msg = Os(s, "tick") /\ timer'[s] = "off")
  <2>1. CASE Tick(s)
    <3>1. Msg \in AnyMsg /\ Msg.from = "os" /\ Msg.to = s /\ Msg.code = "tick"
      BY <1>5, <2>1, Pop DEF Tick, Hears, TakesReport, Msg, TypeOK, IInv, AnyMsg
    <3>2. timer'[s] = "off"
      BY <1>1, <2>1 DEF Tick, TypeOK
    <3>3. QED
      BY <3>1, <3>2, ReportIs
  <2>2. CASE ~Tick(s)
    BY <2>2 DEF ReportStep, Receive, NoRoom, Error, WriteAll, WriteSome, WriteFails,
         WriteBlocks, Killed
  <2>3. QED
    BY <2>1, <2>2
<1>9. io'[s] = io[s] \/ (io[s] # "none" /\ io'[s] = "off")
  BY <1>1 DEF ReportStep, Tick, Receive, NoRoom, Error, WriteAll, WriteSome, WriteFails,
         WriteBlocks, Killed, Poll, TypeOK
<1>10. QED
  BY <1>3, <1>5, <1>6, <1>7, <1>8, <1>9, SlaveReport

\* The head is replaced by the messages X of the master to itself.
Posts(X) ==
    /\ Order(queue')
    /\ Queued(queue') = Queued(Tail(queue)) \cup X
    /\ Queued(queue) = {Msg} \cup Queued(Tail(queue))
    /\ \A x \in X : x.from = Master /\ x.to = Master
MachinesAside == UNCHANGED <<st, sock, io, timer>>

\* The part of the invariant that a step keeps which changes the queue, and
\* nothing of the machines' states, sockets, channels and timers.
LEMMA MachinesKept ==
    ASSUME IInv, TypeOK', queue # <<>>, pc = "exec", NEW X, Posts(X), MachinesAside,
           UNCHANGED backlog \/ \A m \in Queued(Tail(queue)) : ~IsClaim(m),
           pc' \notin {"wait", "hung"},
           pc' \in Halted \/ Msg.from = "os"
    PROVE  IInv'
<1> DEFINE R == Queued(Tail(queue))
<1> USE DEF Posts, MachinesAside
<1>1. \A x \in X : x.from # "os" /\ ~IsClaim(x)
  BY OwnMessage DEF Machine
<1>2. ReportsHold'
  <2>1. ASSUME NEW m \in R, m.from = "os" PROVE Expected(m)'
    <3>1. Expected(m)
      BY <2>1 DEF IInv, ReportsHold
    <3>2. QED
      BY <2>1, <3>1 DEF Expected, HeardIn, Alive
  <2>2. QED
    BY <1>1, <2>1 DEF ReportsHold
<1>3. ClaimsHold'
  BY <1>1 DEF IInv, ClaimsHold
<1>4. \A m \in Machine : Sent(m, m, 0, "init") # Msg \/ Msg.from # "os"
  BY EchoAssumption DEF Sent, Machine
<1>5. Master \in Machine /\ Slave \subseteq Machine /\ Master \notin Slave /\ "os" \notin Machine
  BY EchoAssumption DEF Machine
<1>6. MasterStarts'
  BY <1>4, <1>5 DEF IInv, MasterStarts, Halted
<1>7. ASSUME NEW t \in Slave PROVE SlaveShape(t)' /\ IdleShape(t)'
  <2>1. SlaveShape(t) /\ IdleShape(t)
    BY DEF IInv
  <2>2. SlaveShape(t)'
    BY <2>1 DEF SlaveShape
  <2>3. Sent(t, t, 0, "idle") # Msg \/ Msg.from # "os"
    BY <1>5 DEF Sent
  <2>4. QED
    BY <1>1, <1>5, <2>1, <2>2, <2>3 DEF IdleShape, Halted
<1>8. QED
  BY <1>2, <1>3, <1>6, <1>7 DEF IInv

\* The steps of the master keep the invariant.
LEMMA MasterInv == ASSUME IInv, TypeOK', MasterStep PROVE IInv'
<1> DEFINE R == Queued(Tail(queue))
<1>1. /\ pc = "exec" /\ queue # <<>> /\ Msg.to = Master
      /\ queue \in Seq(AnyMsg) /\ Order(queue) /\ TypeOK
      /\ Master \in Machine /\ "os" \notin Machine /\ Master \notin Slave
  BY EchoAssumption DEF MasterStep, MasterToWork, NewClient, TurnAway, ListenFails,
         Gets, Hears, IInv, TypeOK, AnyMsg, Machine
<1>2. /\ Msg \in AnyMsg /\ Msg \in Queued(queue)
      /\ \A e \in Events : Hears(Master, e) => Msg = Os(Master, e)
  <2>1. Msg \in AnyMsg /\ Msg \in Queued(queue)
    BY <1>1, Pop DEF Msg
  <2>2. QED
    BY <2>1, ReportIs DEF Hears
<1>3. CASE MasterToWork
  <2>1. /\ Order(queue') /\ Queued(queue') = R /\ Queued(queue) = {Msg} \cup R
        /\ \A m \in R : m.from # "os" /\ ~IsClaim(m)
    BY <1>1, <1>3, Handled, HeadFacts DEF MasterToWork, Gets, Msg
  <2>2. ReportsHold' /\ ClaimsHold'
    BY <2>1 DEF ReportsHold, ClaimsHold
  <2>3. MasterStarts' /\ pc' = "exec"
    BY <1>1, <1>3 DEF MasterToWork, Go, MasterStarts, TypeOK
  <2>4. ASSUME NEW t \in Slave PROVE SlaveShape(t)' /\ IdleShape(t)'
    <3>1. SlaveShape(t) /\ IdleShape(t) /\ st'[t] = st[t]
      BY <1>1, <1>3 DEF IInv, MasterToWork, Go, TypeOK, Machine
    <3>2. Sent(t, t, 0, "idle") # Msg
      BY <1>1 DEF Sent
    <3>3. QED
      BY <1>1, <1>3, <2>1, <3>1, <3>2 DEF MasterToWork, SlaveShape, IdleShape, Halted
  <2>5. QED
    BY <2>1, <2>2, <2>3, <2>4 DEF IInv
<1>4. CASE NewClient
  <2> DEFINE x == Sent(Master, pool[Len(pool)], 1, "work")
  <2>1. Msg = Os(Master, "in") /\ pool[Len(pool)] \in Slave /\ Consume(<<x>>)
    BY <1>1, <1>2, <1>4 DEF NewClient, Events, TypeOK
  <2>2. x \in AnyMsg /\ x.from # "os" /\ x.to \in Slave /\ x.to # Master /\ x.from = Master
    BY <1>1, <2>1, SentType DEF Sent, Machine, Codes, States
  <2>3. Msg # Os(Master, "tick") /\ IsClaim(Msg)
    BY <2>1 DEF Os, IsClaim
  <2>4. Order(queue') /\ Queued(queue') = R \cup {x} /\ Queued(queue) = {Msg} \cup R
    BY <1>1, <2>1, <2>2, <2>3, Answered
  <2>5. \A m \in R : m.from = "os" /\ ~IsClaim(m)
    BY <1>1, <2>1, <2>3, HeadFacts DEF Msg
  <2>6. IsClaim(x)
    BY <2>2 DEF IsClaim
  <2>7. ReportsHold'
    <3>1. ASSUME NEW m \in R PROVE Expected(m)'
      BY <1>4, <2>4, <2>5 DEF NewClient, IInv, ReportsHold, Expected, HeardIn, Alive
    <3>2. QED
      BY <2>2, <2>4, <3>1 DEF ReportsHold
  <2>8. ClaimsHold'
    BY <1>2, <1>4, <2>3 DEF NewClient, IInv, ClaimsHold
  <2>9. MasterStarts' /\ pc' = "exec"
    <3>1. st[Master] = "work"
      BY <1>4 DEF NewClient, Hears, HeardIn
    <3>2. QED
      BY <1>1, <1>4, <3>1 DEF NewClient, MasterStarts
  <2>10. ASSUME NEW t \in Slave PROVE SlaveShape(t)' /\ IdleShape(t)'
    <3>1. SlaveShape(t) /\ IdleShape(t)
      BY DEF IInv
    <3>2. st[t] = "idle" => (\A m \in R : m.to # t) /\ t \notin sock
      BY <1>1, <1>2, <2>3, <2>4, <2>5, <3>1 DEF IdleShape, Halted
    <3>3. QED
      BY <1>4, <2>4, <2>6, <3>1, <3>2 DEF NewClient, SlaveShape, IdleShape
  <2>11. QED
    BY <2>4, <2>7, <2>8, <2>9, <2>10 DEF IInv
<1>5. CASE TurnAway
  <2>1. Posts({})
    BY <1>1, <1>5, Handled DEF TurnAway, Posts
  <2>2. Msg = Os(Master, "in")
    BY <1>2, <1>5 DEF TurnAway, Events
  <2>3. IsClaim(Msg)
    BY <2>2 DEF IsClaim
  <2>4. \A m \in R : ~IsClaim(m)
    BY <1>1, <2>3, HeadFacts DEF Msg
  <2>5. backlog > 0
    BY <1>2, <2>3 DEF IInv, ClaimsHold
  <2>6. pc' \notin {"wait", "hung"} /\ Msg.from = "os" /\ MachinesAside
    BY <1>1, <1>5, <2>5 DEF MachinesAside, TurnAway, Hears, TypeOK
  <2>7. QED
    BY <1>1, <2>1, <2>4, <2>6, MachinesKept
<1>6. CASE ListenFails
  <2> DEFINE x == Sent(Master, Master, 3, "work")
  <2>1. Msg = Os(Master, "err") /\ Consume(<<x>>)
    BY <1>2, <1>6 DEF ListenFails, Events
  <2>2. x \in AnyMsg /\ x.from = Master /\ x.to = Master
    BY <1>1, SentType DEF Sent, Codes, States
  <2>3. x.from # "os" /\ ~IsClaim(x)
    BY <1>1, <2>2, OwnMessage
  <2>4. Msg # Os(Master, "tick")
    BY <2>1 DEF Os
  <2>5. Posts({x})
    BY <1>1, <2>1, <2>2, <2>3, <2>4, Answered DEF Posts
  <2>6. /\ pc' \notin {"wait", "hung"} /\ Msg.from = "os"
        /\ MachinesAside /\ UNCHANGED backlog
    BY <1>1, <1>6 DEF MachinesAside, ListenFails, Hears
  <2>7. QED
    BY <1>1, <2>5, <2>6, MachinesKept
<1>7. QED
  BY <1>3, <1>4, <1>5, <1>6 DEF MasterStep

\* The last dispatch keeps the invariant: a report is never unexpected.
LEMMA EndsInv == ASSUME IInv, TypeOK', Ends PROVE IInv'
<1>1. pc = "exec" /\ queue # <<>> /\ queue \in Seq(AnyMsg)
  BY DEF Ends, IInv, TypeOK, AnyMsg
<1>2. Msg.from = "os" => Expected(Msg)
  BY <1>1, Pop DEF IInv, ReportsHold, Msg
<1>3. pc' \in {"crashed", "stopped"}
  BY <1>2 DEF Ends, Os
<1>4. Posts({})
  BY <1>1, Handled DEF Ends, Posts
<1>5. MachinesAside /\ UNCHANGED backlog
  BY DEF Ends, MachinesAside
<1>6. QED
  BY <1>1, <1>3, <1>4, <1>5, MachinesKept DEF Halted

\* Steps of the outside, and the step of the loop to poll(), keep the invariant.
LEMMA OutsideInv ==
    ASSUME IInv, TypeOK', Drained \/ Outside \/ UNCHANGED vars
    PROVE  IInv'
<1>1. CASE Drained
  <2>1. /\ UNCHANGED <<queue, st, sock, io, timer, backlog>>
        /\ pc = "exec" /\ pc' = "wait" /\ queue = <<>>
    BY <1>1 DEF Drained
  <2>2. \A m : Expected(m)' <=> Expected(m)
    BY <2>1 DEF Expected, HeardIn, Alive
  <2>3. QED
    BY <2>1, <2>2 DEF IInv, ReportsHold, MasterStarts, ClaimsHold, SlaveShape, IdleShape, Halted
<1>2. CASE UNCHANGED vars
  <2>1. UNCHANGED <<pc, queue, st, sock, io, timer, backlog>>
    BY <1>2 DEF vars
  <2>2. \A m : Expected(m)' <=> Expected(m)
    BY <2>1 DEF Expected, HeardIn, Alive
  <2>3. QED
    BY <2>1, <2>2 DEF IInv, ReportsHold, MasterStarts, ClaimsHold, SlaveShape, IdleShape, Halted
<1>3. CASE Outside
  <2>1. /\ UNCHANGED <<pc, queue, st, sock, io>>
        /\ backlog' >= backlog /\ backlog \in Nat /\ backlog' \in Nat
        /\ \A t \in Slave : timer'[t] = timer[t] \/ (timer[t] = "armed" /\ timer'[t] = "expired")
    BY <1>3, EchoAssumption DEF Outside, Arrive, PeerActs, Expire, IInv, TypeOK
  <2>2. \A m \in AnyMsg : m.from = "os" /\ Expected(m) => Expected(m)'
    BY <2>1, ReportIs DEF Expected, HeardIn, Alive, Machine
  <2>3. \A m \in Queued(queue) : m \in AnyMsg
    BY DEF Queued, IInv, TypeOK, AnyMsg
  <2>4. ReportsHold'
    BY <2>1, <2>2, <2>3 DEF IInv, ReportsHold
  <2>5. ClaimsHold'
    BY <2>1 DEF IInv, ClaimsHold
  <2>6. \A t \in Slave : SlaveShape(t)'
    BY <2>1 DEF IInv, SlaveShape
  <2>7. QED
    BY <2>1, <2>4, <2>5, <2>6 DEF IInv, MasterStarts, IdleShape
<1>4. QED
  BY <1>1, <1>2, <1>3

\* A wait reports what is true, in order.
LEMMA WaitReports ==
    ASSUME TypeOK, Wait
    PROVE  /\ Order(queue')
           /\ \A m \in Queued(queue') : MasterReport(m) \/ TimerReport(m) \/ IoReport(m)
<1>1. PICK a, b, c \in Seq(AnyMsg) :
              /\ queue' = (a \o b) \o c
              /\ \A i \in 1..Len(a) : MasterReport(a[i])
              /\ Len(a) <= 1 \/ (Len(a) = 2 /\ a[1] = Os(Master, "tick") /\ a[2] # a[1])
              /\ \A i \in 1..Len(b) : TimerReport(b[i])
              /\ \A i, j \in 1..Len(b) : b[i] = b[j] => i = j
              /\ \A i \in 1..Len(c) : IoReport(c[i])
  BY WaitParts
<1> DEFINE d == a \o b
           q == d \o c
<1>2. /\ d \in Seq(AnyMsg) /\ Len(a) \in Nat /\ Len(b) \in Nat /\ Len(c) \in Nat
      /\ Len(d) = Len(a) + Len(b)
  BY <1>1
<1>3. Master # "os" /\ Master \notin Slave /\ "os" \notin Slave
  BY EchoAssumption
<1>4. ASSUME NEW m
      PROVE  /\ MasterReport(m) => m.from = "os" /\ m.to = Master
             /\ TimerReport(m) => m.from = "os" /\ m.to \in Slave /\ m.code = "tick"
             /\ IoReport(m) => m.from = "os" /\ m.to \in Slave /\ m.code # "tick"
  BY DEF MasterReport, TimerReport, IoReport, Os
<1>5. ASSUME NEW i \in 1..Len(q)
      PROVE  \/ i \in 1..Len(a) /\ q[i] = a[i] /\ MasterReport(q[i])
             \/ i > Len(a) /\ i - Len(a) \in 1..Len(b) /\ q[i] = b[i - Len(a)] /\ TimerReport(q[i])
             \/ i > Len(a) /\ IoReport(q[i])
  <2>1. CASE i \in 1..Len(d) /\ q[i] = d[i]
    BY <1>1, <1>2, <2>1, TwoParts
  <2>2. CASE i > Len(d) /\ i - Len(d) \in 1..Len(c) /\ q[i] = c[i - Len(d)]
    BY <1>1, <1>2, <2>2
  <2>3. QED
    BY <1>2, <2>1, <2>2, TwoParts
<1>6. \A i \in 1..Len(q) : q[i].from = "os"
  BY <1>4, <1>5
<1>7. ASSUME NEW i \in 1..Len(a), NEW j \in 1..Len(a), a[i] = a[j]
      PROVE  i = j
  <2>1. CASE Len(a) <= 1
    BY <1>2, <2>1
  <2>2. CASE Len(a) = 2 /\ a[2] # a[1]
    <3>1. i \in {1, 2} /\ j \in {1, 2}
      BY <2>2
    <3>2. QED
      BY <1>7, <2>2, <3>1
  <2>3. QED
    BY <1>1, <2>1, <2>2
<1>8. OsFirst(q) /\ ClaimFirst(q)
  BY <1>6 DEF OsFirst, ClaimFirst
<1>9. OneTick(q)
  <2>1. ASSUME NEW i \in 1..Len(q), NEW j \in 1..Len(q), q[i] = q[j], q[i].code = "tick"
        PROVE  i = j
    <3>1. CASE MasterReport(q[i])
      BY <1>3, <1>4, <1>5, <1>7, <2>1, <3>1
    <3>2. CASE TimerReport(q[i])
      <4>1. TimerReport(q[j])
        BY <2>1, <3>2
      <4>2. /\ i - Len(a) \in 1..Len(b) /\ q[i] = b[i - Len(a)]
            /\ j - Len(a) \in 1..Len(b) /\ q[j] = b[j - Len(a)]
        BY <1>3, <1>4, <1>5, <3>2, <4>1
      <4>3. i - Len(a) = j - Len(a)
        BY <1>1, <2>1, <4>2
      <4>4. QED
        BY <1>2, <4>3
    <3>3. QED
      BY <1>4, <1>5, <2>1, <3>1, <3>2
  <2>2. QED
    BY <2>1 DEF OneTick
<1>10. ASSUME NEW i \in 1..Len(q), IsClaim(q[i])
       PROVE  i \in 1..Len(a) /\ q[i] = a[i] /\ q[i] = Os(Master, "in")
  <2>1. q[i] = Os(Master, "in")
    BY <1>3, <1>6, <1>10 DEF IsClaim
  <2>2. q[i].to = Master
    BY <2>1 DEF Os
  <2>3. QED
    BY <1>3, <1>4, <1>5, <2>1, <2>2
<1>11. OneClaim(q)
  BY <1>7, <1>10 DEF OneClaim
<1>12. FreshClaim(q)
  <2>1. ASSUME NEW i \in 1..Len(q), NEW j \in 1..Len(q), q[i] = Os(Master, "in"), j < i
        PROVE  q[j] = Os(Master, "tick")
    <3>1. i \in 1..Len(a) /\ j \in 1..Len(a) /\ j = 1 /\ i = 2
      BY <1>1, <1>2, <1>10, <2>1 DEF IsClaim
    <3>2. q[j] = a[j]
      BY <1>2, <1>5, <3>1
    <3>3. QED
      BY <1>1, <3>1, <3>2
  <2>2. QED
    BY <1>6, <2>1 DEF FreshClaim
<1>13. QED
  BY <1>1, <1>5, <1>8, <1>9, <1>11, <1>12 DEF Order, Queued

\* A wait keeps the invariant.
LEMMA WaitInv == ASSUME IInv, TypeOK', Wait PROVE IInv'
<1>1. /\ TypeOK /\ pc = "wait" /\ pc' = "exec" /\ queue = <<>>
      /\ UNCHANGED <<st, sock, io, timer, backlog>>
  BY DEF Wait, IInv
<1>2. Queued(queue) = {}
  BY <1>1 DEF Queued
<1>3. Order(queue') /\ \A m \in Queued(queue') : MasterReport(m) \/ TimerReport(m) \/ IoReport(m)
  BY <1>1, WaitReports
<1>4. Master \notin Slave /\ Master # "os" /\ "os" \notin Slave
  BY EchoAssumption
<1>5. st[Master] = "work"
  BY <1>1, <1>2 DEF IInv, MasterStarts, Halted
<1>6. ASSUME NEW s \in Slave
      PROVE  /\ io[s] # "none" => st[s] \in {"recv", "send"}
             /\ timer[s] # "off" => st[s] \in {"recv", "send"}
             /\ io[s] = "in" => st[s] = "recv"
             /\ io[s] = "out" => st[s] = "send"
  <2>1. st[s] \in States /\ SlaveShape(s) /\ IdleShape(s)
    BY DEF IInv, TypeOK, Machine
  <2>2. st[s] = "idle" => s \notin sock
    BY <1>1, <1>2, <2>1 DEF IdleShape, Halted
  <2>3. QED
    BY <2>1, <2>2 DEF SlaveShape, States
<1>7. ASSUME NEW m \in Queued(queue')
      PROVE  Expected(m)' /\ (IsClaim(m) => backlog' > 0) /\ (\A s \in Slave : st[s] = "idle" => m.to # s)
  <2>1. CASE MasterReport(m)
    <3>1. m.from = "os" /\ m.to = Master
      BY <2>1 DEF MasterReport, Os
    <3>2. Expected(m)'
      BY <1>1, <1>5, <3>1 DEF Expected, HeardIn, Alive
    <3>3. IsClaim(m) => m = Os(Master, "in")
      BY <1>4, <3>1 DEF IsClaim
    <3>4. Os(Master, "in") # Os(Master, "tick") /\ Os(Master, "in") # Os(Master, "err")
      BY DEF Os
    <3>5. QED
      BY <1>1, <1>4, <2>1, <3>1, <3>2, <3>3, <3>4 DEF MasterReport
  <2>2. CASE TimerReport(m)
    <3>1. PICK s \in Slave : m = Os(s, "tick") /\ timer[s] = "expired"
      BY <2>2 DEF TimerReport
    <3>2. m.from = "os" /\ m.to = s /\ m.code = "tick"
      BY <3>1 DEF Os
    <3>3. st[s] \in {"recv", "send"} /\ st[s] \in States
      BY <1>6, <3>1 DEF States
    <3>4. Expected(m)'
      BY <1>1, <1>4, <3>1, <3>2, <3>3 DEF Expected, HeardIn, Alive
    <3>5. ~IsClaim(m)
      BY <1>4, <3>2 DEF IsClaim, Os
    <3>6. QED
      BY <3>2, <3>3, <3>4, <3>5
  <2>3. CASE IoReport(m)
    <3>1. PICK s \in Slave, e \in {"in", "out", "err"} : m = Os(s, e) /\ e \in IoEvents(s)
      BY <2>3 DEF IoReport
    <3>2. m.from = "os" /\ m.to = s /\ m.code = e
      BY <3>1 DEF Os
    <3>3. /\ io[s] # "none" /\ st[s] \in {"recv", "send"}
          /\ e = "in" => st[s] = "recv"
          /\ e = "out" => st[s] = "send"
      BY <1>6, <3>1 DEF IoEvents
    <3>4. Expected(m)'
      BY <1>1, <1>4, <3>1, <3>2, <3>3 DEF Expected, HeardIn, Alive
    <3>5. ~IsClaim(m)
      BY <1>4, <3>2 DEF IsClaim, Os
    <3>6. QED
      BY <3>2, <3>3, <3>4, <3>5
  <2>4. QED
    BY <1>3, <2>1, <2>2, <2>3
<1>8. ReportsHold' /\ ClaimsHold' /\ MasterStarts'
  BY <1>1, <1>5, <1>7 DEF ReportsHold, ClaimsHold, MasterStarts
<1>9. ASSUME NEW s \in Slave PROVE SlaveShape(s)' /\ IdleShape(s)'
  <2>1. SlaveShape(s)' /\ (st[s] = "idle" => s \notin sock)
    BY <1>1, <1>6 DEF IInv, SlaveShape
  <2>2. QED
    BY <1>1, <1>7, <2>1 DEF IdleShape
<1>10. QED
  BY <1>1, <1>3, <1>8, <1>9 DEF IInv

\* The invariant holds at first: the queue has the machines' first messages.
LEMMA InitInv == ASSUME Init PROVE IInv
<1> DEFINE firsts == [i \in DOMAIN pool |-> Sent(pool[i], pool[i], 0, "init")]
           last == <<Sent(Master, Master, 0, "init")>>
<1>1. TypeOK /\ pool \in Seq(Slave) /\ queue = firsts \o last /\ queue \in Seq(AnyMsg)
  BY InitType DEF Init, TypeOK, AnyMsg
<1>2. \A m \in Machine : Sent(m, m, 0, "init").from # "os" /\ ~IsClaim(Sent(m, m, 0, "init"))
  BY OwnMessage DEF Sent
<1>3. /\ firsts \in Seq(AnyMsg) /\ last \in Seq(AnyMsg)
      /\ Len(firsts) \in Nat /\ Len(last) = 1 /\ last[1] = Sent(Master, Master, 0, "init")
      /\ \A i \in 1..Len(firsts) : \E s \in Slave : firsts[i] = Sent(s, s, 0, "init")
  <2>1. \A i \in DOMAIN pool : pool[i] \in Slave /\ Sent(pool[i], pool[i], 0, "init") \in AnyMsg
    BY <1>1, SentType DEF Machine, Codes, States
  <2>2. DOMAIN pool = 1..Len(pool) /\ Len(pool) \in Nat
    BY <1>1
  <2>3. firsts \in Seq(AnyMsg) /\ Len(firsts) = Len(pool)
    BY <2>1, <2>2
  <2>4. Sent(Master, Master, 0, "init") \in AnyMsg
    BY SentType DEF Machine, Codes, States
  <2>5. last \in Seq(AnyMsg) /\ Len(last) = 1 /\ last[1] = Sent(Master, Master, 0, "init")
    BY <2>4
  <2>6. QED
    BY <2>1, <2>2, <2>3, <2>5
<1>4. \A i \in 1..Len(queue) : \E m \in Machine : queue[i] = Sent(m, m, 0, "init")
  <2>1. ASSUME NEW i \in 1..Len(queue) PROVE \E m \in Machine : queue[i] = Sent(m, m, 0, "init")
    <3>1. CASE i \in 1..Len(firsts) /\ queue[i] = firsts[i]
      BY <1>3, <3>1 DEF Machine
    <3>2. CASE i > Len(firsts) /\ i - Len(firsts) \in 1..Len(last) /\ queue[i] = last[i - Len(firsts)]
      <4>1. i - Len(firsts) = 1
        BY <1>3, <3>2
      <4>2. QED
        BY <1>3, <3>2, <4>1 DEF Machine
    <3>3. QED
      BY <1>1, <1>3, <3>1, <3>2, TwoParts
  <2>2. QED
    BY <2>1
<1>5. \A m \in Queued(queue) : m.from # "os" /\ ~IsClaim(m)
  BY <1>2, <1>4 DEF Queued
<1>6. \A i \in 1..Len(queue) : queue[i].from # "os" /\ ~IsClaim(queue[i])
  BY <1>2, <1>4
<1>7. Order(queue)
  <2>1. IsClaim(Os(Master, "in"))
    BY DEF IsClaim
  <2>2. QED
    BY <1>6, <2>1 DEF Order, OsFirst, OneTick, OneClaim, ClaimFirst, FreshClaim
<1>8. ReportsHold /\ ClaimsHold
  BY <1>5 DEF ReportsHold, ClaimsHold
<1>9. MasterStarts
  <2>1. Len(queue) = Len(firsts) + 1 /\ queue[Len(firsts) + 1] = last[1]
    <3>1. /\ Len(queue) = Len(firsts) + Len(last)
          /\ \A i \in (Len(firsts) + 1)..(Len(firsts) + Len(last)) : queue[i] = last[i - Len(firsts)]
      BY <1>1, <1>3, Items
    <3>2. Len(firsts) + 1 \in (Len(firsts) + 1)..(Len(firsts) + Len(last))
          /\ (Len(firsts) + 1) - Len(firsts) = 1
      BY <1>3
    <3>3. QED
      BY <1>3, <3>1, <3>2
  <2>2. Sent(Master, Master, 0, "init") \in Queued(queue)
    BY <1>3, <2>1 DEF Queued
  <2>3. st[Master] = "init"
    BY DEF Init, Machine
  <2>4. QED
    BY <2>2, <2>3 DEF MasterStarts
<1>10. ASSUME NEW s \in Slave PROVE SlaveShape(s) /\ IdleShape(s)
  BY DEF Init, Machine, SlaveShape, IdleShape
<1>11. QED
  BY <1>1, <1>7, <1>8, <1>9, <1>10 DEF Init, IInv

\* The invariant is inductive.
LEMMA InvStep == ASSUME IInv, [Next]_vars PROVE IInv'
<1>1. TypeOK'
  BY TypeStep DEF IInv
<1>2. CASE Wait
  BY <1>1, <1>2, WaitInv
<1>3. CASE Dispatch
  <2>1. CASE Ends
    BY <1>1, <2>1, EndsInv
  <2>2. CASE MasterStep
    BY <1>1, <2>2, MasterInv
  <2>3. ASSUME NEW s \in Slave, SlaveStep(s) PROVE IInv'
    <3>1. MessageStep(s) \/ ReportStep(s)
      BY <2>3 DEF SlaveStep, MessageStep, ReportStep
    <3>2. QED
      BY <1>1, <3>1, MessageInv, ReportInv
  <2>4. QED
    BY <1>3, <2>1, <2>2, <2>3 DEF Dispatch
<1>4. QED
  BY <1>1, <1>2, <1>3, OutsideInv DEF Next

\* The invariant holds always.
THEOREM EchoInvariant == Spec => []IInv
BY InitInv, InvStep, PTL DEF Spec

\* Whatever order poll() reports in and whatever happens between its return
\* and a dispatch, a report is never dispatched to a slave that has left the
\* state it was polled for, or freed its channel.
THEOREM ReportsAreHeard == Spec => []EventsAreHeard
<1>1. ASSUME IInv PROVE EventsAreHeard
  BY <1>1, Pop DEF EventsAreHeard, IInv, ReportsHold, Msg, TypeOK, AnyMsg
<1>2. QED
  BY <1>1, EchoInvariant, PTL

\* However many slaves there are, accept() is called for a client that waits.
THEOREM ServerNeverHangs == Spec => []NeverHangs
<1>1. ASSUME IInv PROVE NeverHangs
  BY <1>1 DEF NeverHangs, IInv
<1>2. QED
  BY <1>1, EchoInvariant, PTL

\* No slave overwrites its open socket with the next client's.
THEOREM SocketsTracked == Spec => []SocketsAreTracked
<1>1. ASSUME IInv PROVE SocketsAreTracked
  <2>1. ASSUME NEW s \in Slave, Gets(s, {"idle"}, 1) PROVE s \notin sock
    <3>1. Msg \in Queued(queue)
      BY <1>1, <2>1, Pop DEF Gets, Msg, IInv, TypeOK, AnyMsg
    <3>2. IdleShape(s)
      BY <1>1 DEF IInv
    <3>3. Msg.to = s /\ Msg.code = 1 /\ st[s] = "idle"
      BY <2>1 DEF Gets
    <3>4. Sent(s, s, 0, "idle").code = 0
      BY DEF Sent
    <3>5. QED
      BY <3>1, <3>2, <3>3, <3>4 DEF IdleShape
  <2>2. QED
    BY <1>1, <2>1 DEF SocketsAreTracked, IInv, SlaveShape
<1>2. QED
  BY <1>1, EchoInvariant, PTL

=============================================================================
