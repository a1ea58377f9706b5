--------------------------- MODULE EchoCalm_proofs ---------------------------
(***************************************************************************)
(* Theorems about EchoServer for any number of slaves, when no poll()      *)
(* reports a slave's timer together with its client (Racing = FALSE).      *)
(***************************************************************************)
EXTENDS EchoServer_proofs

----------------------------------------------------------------------------
(* The inductive invariant, on top of IInv.                                *)

\* Two messages for one machine.  The master's timer ends the server and
\* competes with nothing.
Rivals(m, n) == m.to = n.to /\ m # Os(Master, "tick") /\ n # Os(Master, "tick")
OnePer(q) == \A i, j \in 1..Len(q) : Rivals(q[i], q[j]) => i = j

\* The codes a slave may have sent itself in its state.
OwnCodes(s) ==
    {c \in Codes :
        \/ st[s] \in {"init", "done"} /\ c = 0
        \/ st[s] = "idle" /\ s \notin Free /\ c = IF s \in sock THEN 0 ELSE 3
        \/ st[s] \in {"recv", "send"} /\ c \in {0, 1}}

\* A message finds its slave as its sender left it.
Fits(m) ==
    \/ m.from = "os" /\ st[m.to] \in {"recv", "send"}
    \/ /\ m = Sent(Master, m.to, 1, "work")
       /\ st[m.to] = "idle" /\ m.to \notin Free \cup sock
    \/ m.from = m.to /\ m.at = st[m.to] /\ m.code \in OwnCodes(m.to)

\* A slave in the pool has no client; outside it waits for one or has one.
Placed(s) ==
    /\ s \in Free => s \notin sock /\ st[s] \in {"init", "idle", "done"}
    /\ s \notin Free => st[s] \in {"idle", "recv", "send"}
    /\ st[s] \in {"recv", "send"} => s \in sock

\* The slave is on its way to the pool's idle slaves or to its client, and only
\* a message can take it there.
Underway(s) == IF s \in Free THEN st[s] # "idle" ELSE st[s] = "idle"

SlaveCalm(s) ==
    /\ Placed(s)
    /\ Underway(s) => \E m \in Queued(queue) : m.to = s
    /\ \A m \in Queued(queue) : m.to = s => Fits(m)

MasterCalm ==
    \A m \in Queued(queue) :
        m.to = Master /\ m.from # "os" =>
            /\ m \in {Sent(Master, Master, 0, "init"), Sent(Master, Master, 3, "work")}
            /\ m.at = st[Master]

Once(p) == \A i, j \in DOMAIN p : p[i] = p[j] => i = j

CInv ==
    /\ pc # "crashed"
    /\ OnePer(queue) /\ Once(pool)
    /\ MasterCalm /\ \A s \in Slave : SlaveCalm(s)

----------------------------------------------------------------------------
(* The queue and the pool.                                                 *)

\* When the head goes, nothing for its machine is left.
LEMMA OneTail ==
    ASSUME NEW q \in Seq(AnyMsg), q # <<>>, OnePer(q)
    PROVE  /\ OnePer(Tail(q))
           /\ \A m \in Queued(Tail(q)) : ~Rivals(Head(q), m)
<1>1. ASSUME NEW i \in 1..Len(Tail(q))
      PROVE  i + 1 \in 1..Len(q) /\ Tail(q)[i] = q[i + 1] /\ i + 1 # 1 /\ 1 \in 1..Len(q)
  BY Pop
<1>2. OnePer(Tail(q))
  BY <1>1 DEF OnePer
<1>3. ASSUME NEW i \in 1..Len(Tail(q)) PROVE ~Rivals(Head(q), Tail(q)[i])
  BY <1>1, Pop DEF OnePer
<1>4. QED
  BY <1>2, <1>3 DEF Queued

\* A message for a machine nothing is queued for may come behind.
LEMMA OnePush ==
    ASSUME NEW q \in Seq(AnyMsg), OnePer(q), NEW x \in AnyMsg,
           \A m \in Queued(q) : ~Rivals(m, x)
    PROVE  OnePer(q \o <<x>>)
<1> DEFINE r == q \o <<x>>
<1>1. ASSUME NEW i \in 1..Len(r)
      PROVE  \/ i \in 1..Len(q) /\ r[i] = q[i] /\ r[i] \in Queued(q)
             \/ i = Len(q) + 1 /\ r[i] = x
  BY Push DEF Queued
<1>2. \A m : Rivals(x, m) => Rivals(m, x)
  BY DEF Rivals
<1>3. QED
  BY <1>1, <1>2 DEF OnePer

\* A slave that is not in the pool goes on top.
LEMMA PoolPush ==
    ASSUME TypeOK, Once(pool), NEW s \in Slave, s \notin Free, pool' = Append(pool, s)
    PROVE  Free' = Free \cup {s} /\ Once(pool')
<1>1. /\ pool \in Seq(Slave) /\ Len(pool) \in Nat
      /\ DOMAIN pool = 1..Len(pool) /\ DOMAIN pool' = 1..(Len(pool) + 1)
      /\ \A i \in 1..Len(pool) : pool'[i] = pool[i]
      /\ pool'[Len(pool) + 1] = s
  BY DEF TypeOK
<1>2. 1..(Len(pool) + 1) = (1..Len(pool)) \cup {Len(pool) + 1}
  BY <1>1
<1>3. Free' = {pool'[i] : i \in 1..Len(pool)} \cup {s}
  BY <1>1, <1>2 DEF Free
<1>4. {pool'[i] : i \in 1..Len(pool)} = Free
  BY <1>1 DEF Free
<1>5. \A i \in 1..Len(pool) : pool[i] \in Free
  BY <1>1 DEF Free
<1>6. Once(pool')
  BY <1>1, <1>2, <1>5 DEF Once
<1>7. QED
  BY <1>3, <1>4, <1>6

\* The slave on top leaves the pool.
LEMMA PoolPop ==
    ASSUME TypeOK, Once(pool), pool # <<>>, pool' = SubSeq(pool, 1, Len(pool) - 1)
    PROVE  /\ pool[Len(pool)] \in Slave /\ pool[Len(pool)] \in Free
           /\ Free' = Free \ {pool[Len(pool)]} /\ Once(pool')
<1> DEFINE n == Len(pool)
<1>1. /\ pool \in Seq(Slave) /\ n \in Nat \ {0}
      /\ DOMAIN pool = 1..n /\ DOMAIN pool' = 1..(n - 1)
      /\ \A i \in 1..(n - 1) : pool'[i] = pool[i]
      /\ n \in 1..n /\ pool[n] \in Slave
  BY DEF TypeOK
<1>2. 1..(n - 1) = (1..n) \ {n}
  BY <1>1
<1>3. \A i \in 1..(n - 1) : pool[i] # pool[n]
  BY <1>1, <1>2 DEF Once
<1>4. Free' = {pool[i] : i \in 1..(n - 1)}
  BY <1>1 DEF Free
<1>5. Free = {pool[i] : i \in 1..(n - 1)} \cup {pool[n]}
  BY <1>1, <1>2 DEF Free
<1>6. Once(pool')
  BY <1>1, <1>2 DEF Once
<1>7. QED
  BY <1>1, <1>3, <1>4, <1>5, <1>6

\* The pool has slaves only.
LEMMA FreeSlaves == ASSUME TypeOK PROVE Free \subseteq Slave
BY DEF TypeOK, Free

----------------------------------------------------------------------------
(* Steps of slaves.                                                        *)

\* What a slave's turn leaves alone.
OthersCalm(s) ==
    /\ \A m \in Machine \ {s} : st'[m] = st[m]
    /\ \A t \in Slave \ {s} : (t \in sock' <=> t \in sock) /\ (t \in Free' <=> t \in Free)

\* A slave's turn keeps the invariant when it leaves the slave well placed and
\* the message it sent fits.
LEMMA SlaveTurn ==
    ASSUME IInv, CInv, queue # <<>>, NEW s \in Slave, Msg.to = s, NEW X, Sends(s, X),
           OthersCalm(s), Once(pool'), pc' # "crashed",
           Placed(s)', Underway(s)' => X # {}, \A x \in X : Fits(x)'
    PROVE  CInv'
<1> DEFINE R == Queued(Tail(queue))
<1>1. /\ queue \in Seq(AnyMsg) /\ Tail(queue) \in Seq(AnyMsg) /\ OnePer(queue)
      /\ Queued(queue') = R \cup X
      /\ Queued(queue) = {Msg} \cup R
      /\ \A x \in X : x.from = s /\ x.to = s /\ x.from # "os"
  BY SlaveQueue, Pop DEF IInv, CInv, TypeOK, AnyMsg
<1>2. s # Master /\ Master \in Machine /\ Slave \subseteq Machine
  BY EchoAssumption DEF Machine
<1>3. \A m : m.to = s => m # Os(Master, "tick")
  BY <1>2 DEF Os
<1>4. OnePer(Tail(queue)) /\ \A m \in R : m.to # s
  BY <1>1, <1>3, OneTail DEF Msg, Rivals
<1>5. OnePer(queue')
  <2>1. CASE Consume(<<>>)
    <3>1. queue' = Tail(queue)
      BY <1>1, <2>1 DEF Consume
    <3>2. QED
      BY <1>4, <3>1
  <2>2. CASE \E x \in AnyMsg : x.from = s /\ x.to = s /\ Consume(<<x>>) /\ X = {x}
    <3>1. PICK x \in AnyMsg : x.to = s /\ Consume(<<x>>)
      BY <2>2
    <3>2. \A m \in R : ~Rivals(m, x)
      BY <1>4, <3>1 DEF Rivals
    <3>3. QED
      BY <1>1, <1>4, <3>1, <3>2, OnePush DEF Consume
  <2>3. QED
    BY <2>1, <2>2 DEF Sends
<1>6. MasterCalm'
  BY <1>1, <1>2 DEF CInv, MasterCalm, OthersCalm
<1>7. SlaveCalm(s)'
  <2>1. \A m \in Queued(queue') : m.to = s => m \in X
    BY <1>1, <1>4
  <2>2. X # {} => \E m \in Queued(queue') : m.to = s
    BY <1>1
  <2>3. QED
    BY <2>1, <2>2 DEF SlaveCalm
<1>8. ASSUME NEW t \in Slave \ {s} PROVE SlaveCalm(t)'
  <2>1. /\ SlaveCalm(t) /\ st'[t] = st[t]
        /\ (t \in sock' <=> t \in sock) /\ (t \in Free' <=> t \in Free)
    BY <1>2 DEF CInv, OthersCalm
  <2>2. \A m : m.to = t => (m \in Queued(queue') <=> m \in Queued(queue))
    BY <1>1
  <2>3. \A m : m.to = t /\ Fits(m) => Fits(m)'
    BY <2>1 DEF Fits, OwnCodes
  <2>4. Placed(t)' /\ (Underway(t)' => Underway(t))
    BY <2>1 DEF SlaveCalm, Placed, Underway
  <2>5. QED
    BY <2>1, <2>2, <2>3, <2>4 DEF SlaveCalm
<1>9. QED
  BY <1>5, <1>6, <1>7, <1>8 DEF CInv

\* The message at the head, for a slave.
LEMMA HeadFits ==
    ASSUME IInv, CInv, queue # <<>>, NEW s \in Slave, Msg.to = s
    PROVE  Fits(Msg) /\ Placed(s)
<1>1. Msg \in Queued(queue)
  BY Pop DEF Msg, IInv, TypeOK, AnyMsg
<1>2. QED
  BY <1>1 DEF CInv, SlaveCalm

\* Sending one message to oneself, or none.
LEMMA SlaveSends ==
    ASSUME NEW s \in Slave, NEW k \in Codes, NEW a \in States
    PROVE  /\ Consume(<<>>) => Sends(s, {})
           /\ Consume(<<Sent(s, s, k, a)>>) => Sends(s, {Sent(s, s, k, a)})
<1>1. Sent(s, s, k, a) \in AnyMsg
  BY SentType DEF Machine
<1>2. QED
  BY <1>1 DEF Sends, Sent

\* Handling a message keeps the invariant.
LEMMA MessageCalm ==
    ASSUME IInv, CInv, TypeOK', NEW s \in Slave, MessageStep(s)
    PROVE  CInv'
<1>1. /\ TypeOK /\ s \in Machine /\ Master # s /\ st[s] \in States /\ Once(pool)
      /\ pc = "exec" /\ queue # <<>> /\ Msg.from # "os" /\ Msg.to = s
  BY EchoAssumption DEF IInv, CInv, TypeOK, Machine, MessageStep, InitToIdle, DoneToIdle,
     Accept, NoAccept, ToRecv, ToSend, ToDone, Gets
<1>2. Fits(Msg) /\ Placed(s)
  BY <1>1, HeadFits
<1>3. \/ Msg.code = 1 /\ Msg.from = Master /\ st[s] = "idle" /\ s \notin Free \cup sock
      \/ Msg.from = s /\ Msg.code \in OwnCodes(s)
  BY <1>1, <1>2 DEF Fits, Sent
<1>4. ASSUME UNCHANGED pool PROVE Free' = Free /\ Once(pool')
  BY <1>1, <1>4 DEF Free
<1>5. CASE InitToIdle(s) \/ DoneToIdle(s)
  <2>1. /\ Sends(s, {}) /\ pc' = "exec" /\ UNCHANGED <<pool, sock>>
        /\ st[s] \in {"init", "done"} /\ st' = [st EXCEPT ![s] = "idle"]
    BY <1>1, <1>5, SlaveSends DEF InitToIdle, DoneToIdle, Gets, Go, Codes, States
  <2>2. OthersCalm(s) /\ st'[s] = "idle"
    BY <1>1, <1>4, <2>1 DEF OthersCalm, TypeOK
  <2>3. Placed(s)' /\ ~Underway(s)'
    BY <1>2, <1>4, <2>1, <2>2 DEF Placed, Underway
  <2>4. QED
    BY <1>1, <1>4, <2>1, <2>2, <2>3, SlaveTurn
<1>6. CASE Accept(s)
  <2> DEFINE x == Sent(s, s, 0, "idle")
  <2>1. /\ Sends(s, {x}) /\ pc' = "exec" /\ UNCHANGED <<pool, st>>
        /\ sock' = sock \cup {s}
        /\ st[s] = "idle" /\ s \notin Free
    BY <1>1, <1>3, <1>6, SlaveSends DEF Accept, Gets, Codes, States
  <2>2. OthersCalm(s)
    BY <1>4, <2>1 DEF OthersCalm
  <2>3. Placed(s)'
    BY <1>4, <2>1 DEF Placed
  <2>4. Fits(x)'
    BY <1>4, <2>1 DEF Fits, OwnCodes, Sent, Codes
  <2>5. QED
    BY <1>1, <1>4, <2>1, <2>2, <2>3, <2>4, SlaveTurn
<1>7. CASE NoAccept(s)
  <2> DEFINE x == Sent(s, s, 3, "idle")
  <2>1. /\ Sends(s, {x}) /\ pc' # "crashed" /\ UNCHANGED <<pool, st, sock>>
        /\ st[s] = "idle" /\ Msg.code = 1
    BY <1>1, <1>7, SlaveSends DEF NoAccept, Gets, Codes, States
  <2>2. s \notin Free \cup sock
    BY <1>3, <2>1 DEF OwnCodes
  <2>3. OthersCalm(s)
    BY <1>4, <2>1 DEF OthersCalm
  <2>4. Placed(s)'
    BY <1>4, <2>1, <2>2 DEF Placed
  <2>5. Fits(x)'
    BY <1>4, <2>1, <2>2 DEF Fits, OwnCodes, Sent, Codes
  <2>6. QED
    BY <1>1, <1>4, <2>1, <2>3, <2>4, <2>5, SlaveTurn
<1>8. CASE ToRecv(s) \/ ToSend(s)
  <2>1. /\ Sends(s, {}) /\ pc' = "exec" /\ UNCHANGED <<pool, sock>>
        /\ st[s] \in {"idle", "recv", "send"} /\ Msg.code = 0
        /\ \E a \in {"recv", "send"} : st' = [st EXCEPT ![s] = a]
    BY <1>1, <1>8, SlaveSends DEF ToRecv, ToSend, Gets, Go, Codes, States
  <2>2. OthersCalm(s) /\ st'[s] \in {"recv", "send"}
    BY <1>1, <1>4, <2>1 DEF OthersCalm, TypeOK
  <2>3. s \in sock /\ s \notin Free
    BY <1>2, <1>3, <2>1 DEF Placed, OwnCodes
  <2>4. Placed(s)' /\ ~Underway(s)'
    BY <1>4, <2>1, <2>2, <2>3 DEF Placed, Underway
  <2>5. QED
    BY <1>1, <1>4, <2>1, <2>2, <2>4, SlaveTurn
<1>9. CASE ToDone(s)
  <2> DEFINE x == Sent(s, s, 0, "done")
  <2>1. /\ Sends(s, {x}) /\ pc' = "exec"
        /\ st' = [st EXCEPT ![s] = "done"] /\ sock' = sock \ {s}
        /\ pool' = Append(pool, s)
        /\ st[s] \in {"recv", "send"} \/ (st[s] = "idle" /\ Msg.code = 3)
    BY <1>1, <1>9, SlaveSends DEF ToDone, Gets, Go, Codes, States
  <2>2. s \notin Free
    BY <1>2, <1>3, <2>1 DEF Placed, OwnCodes
  <2>3. Free' = Free \cup {s} /\ Once(pool')
    BY <1>1, <2>1, <2>2, PoolPush
  <2>4. OthersCalm(s) /\ st'[s] = "done"
    BY <1>1, <2>1, <2>3 DEF OthersCalm, TypeOK
  <2>5. Placed(s)'
    BY <2>1, <2>3, <2>4 DEF Placed
  <2>6. Fits(x)'
    BY <2>4 DEF Fits, OwnCodes, Sent, Codes
  <2>7. PICK X : X = {x}
    OBVIOUS
  <2>8. Sends(s, X) /\ pc' # "crashed" /\ X # {} /\ \A y \in X : Fits(y)'
    BY <2>1, <2>6, <2>7
  <2>9. Once(pool')
    BY <2>3
  <2>10. QED
    BY <1>1, <2>4, <2>5, <2>8, <2>9, SlaveTurn
<1>10. QED
  BY <1>5, <1>6, <1>7, <1>8, <1>9 DEF MessageStep

\* Handling a report keeps the invariant.
LEMMA ReportCalm ==
    ASSUME IInv, CInv, TypeOK', NEW s \in Slave, ReportStep(s)
    PROVE  CInv'
<1>1. /\ TypeOK /\ s \in Machine /\ Master # s /\ st[s] \in States /\ Once(pool)
      /\ pc = "exec" /\ queue # <<>> /\ Msg.from = "os" /\ Msg.to = s
  BY EchoAssumption DEF IInv, CInv, TypeOK, Machine, ReportStep, Tick, Receive, NoRoom, Error,
     WriteAll, WriteSome, WriteFails, WriteBlocks, Killed, Hears
<1>2. Fits(Msg) /\ Placed(s)
  BY <1>1, HeadFits
<1>3. st[s] \in {"recv", "send"} /\ s \notin Free /\ s \in sock
  BY <1>1, <1>2, EchoAssumption DEF Fits, Sent, Placed
<1>4. /\ UNCHANGED <<st, pool, sock>> /\ pc' # "crashed"
      /\ \E k \in {0, 1} : Consume(<<>>) \/ Consume(<<Sent(s, s, k, st[s])>>)
  BY <1>1 DEF ReportStep, Tick, Receive, NoRoom, Error, WriteAll, WriteSome, WriteFails,
     WriteBlocks, Killed, Hears, HeardIn
<1>5. Free' = Free /\ Once(pool')
  BY <1>1, <1>4 DEF Free
<1>6. OthersCalm(s)
  BY <1>4, <1>5 DEF OthersCalm
<1>7. Placed(s)' /\ ~Underway(s)'
  BY <1>2, <1>3, <1>4, <1>5 DEF Placed, Underway
<1>8. PICK a \in States : a = st[s]
  BY <1>1
<1>9. PICK k \in {0, 1} : Consume(<<>>) \/ Consume(<<Sent(s, s, k, a)>>)
  BY <1>4, <1>8
<1>10. CASE Consume(<<>>)
  <2>1. Sends(s, {})
    BY <1>10, SlaveSends DEF Codes, States
  <2>2. QED
    BY <1>1, <1>4, <1>5, <1>6, <1>7, <2>1, SlaveTurn
<1>11. CASE Consume(<<Sent(s, s, k, a)>>)
  <2>1. Sends(s, {Sent(s, s, k, a)})
    BY <1>11, SlaveSends DEF Codes
  <2>2. Fits(Sent(s, s, k, a))'
    BY <1>3, <1>4, <1>8 DEF Fits, OwnCodes, Sent, Codes
  <2>3. QED
    BY <1>1, <1>4, <1>5, <1>6, <1>7, <2>1, <2>2, SlaveTurn
<1>12. QED
  BY <1>9, <1>10, <1>11


----------------------------------------------------------------------------
(* Steps of the master, of the loop and of the outside.                    *)

\* The messages behind one for the master.
LEMMA BehindMaster ==
    ASSUME IInv, CInv, queue # <<>>, Msg.to = Master, Msg # Os(Master, "tick")
    PROVE  \A m \in Queued(Tail(queue)) : m.to = Master => m = Os(Master, "tick")
<1>1. queue \in Seq(AnyMsg) /\ OnePer(queue)
  BY DEF IInv, CInv, TypeOK, AnyMsg
<1>2. QED
  BY <1>1, OneTail DEF Msg, Rivals

\* A message for the master that only takes the head off the queue.
LEMMA MasterTurn ==
    ASSUME IInv, CInv, queue # <<>>, Msg.to = Master, Consume(<<>>), pc' # "crashed",
           \A t \in Slave : st'[t] = st[t], UNCHANGED <<pool, sock>>,
           st'[Master] = st[Master] \/ Msg.from # "os"
    PROVE  CInv'
<1> DEFINE R == Queued(Tail(queue))
<1>1. /\ queue \in Seq(AnyMsg) /\ Tail(queue) \in Seq(AnyMsg) /\ OnePer(queue)
      /\ Queued(queue') = R /\ Queued(queue) = {Msg} \cup R
  BY Handled, Pop DEF IInv, CInv, TypeOK, AnyMsg
<1>2. Master \notin Slave /\ Master # "os"
  BY EchoAssumption
<1>3. OnePer(queue')
  <2>1. queue' = Tail(queue)
    BY <1>1 DEF Consume
  <2>2. QED
    BY <1>1, <2>1, OneTail
<1>4. MasterCalm'
  <2>1. CASE st'[Master] = st[Master]
    BY <1>1, <2>1 DEF CInv, MasterCalm
  <2>2. CASE Msg.from # "os"
    <3>1. Msg # Os(Master, "tick")
      BY <2>2 DEF Os
    <3>2. \A m \in R : m.to = Master => m.from = "os"
      BY <3>1, BehindMaster DEF Os
    <3>3. QED
      BY <1>1, <3>2 DEF MasterCalm
  <2>3. QED
    BY <2>1, <2>2
<1>5. Free' = Free /\ Once(pool')
  BY DEF Free, CInv
<1>6. ASSUME NEW t \in Slave PROVE SlaveCalm(t)'
  <2>1. SlaveCalm(t) /\ st'[t] = st[t]
    BY DEF CInv
  <2>2. \A m : m.to = t => (m \in Queued(queue') <=> m \in Queued(queue))
    BY <1>1, <1>2
  <2>3. \A m : m.to = t /\ Fits(m) => Fits(m)'
    BY <1>5, <2>1 DEF Fits, OwnCodes
  <2>4. QED
    BY <1>5, <2>1, <2>2, <2>3 DEF SlaveCalm, Placed, Underway
<1>7. QED
  BY <1>3, <1>4, <1>5, <1>6 DEF CInv

\* The slave on top of the pool waits for a client, and for nothing else.
LEMMA TopIsIdle ==
    ASSUME IInv, CInv, NewClient, NEW w \in Slave, w \in Free
    PROVE  st[w] = "idle" /\ \A m \in Queued(queue) : m.to # w
<1>1. /\ queue \in Seq(AnyMsg) /\ Order(queue) /\ queue # <<>>
      /\ Msg.from = "os" /\ Msg.to = Master /\ Msg.code = "in"
  BY DEF IInv, TypeOK, AnyMsg, NewClient, Hears
<1>2. Msg = Os(Master, "in")
  BY <1>1, Pop, ReportIs DEF Msg
<1>3. \A m \in Queued(queue) : m.from = "os"
  BY <1>1, <1>2, HeadFacts, Pop DEF Msg
<1>4. SlaveCalm(w) /\ w # "os" /\ Master # "os"
  BY EchoAssumption DEF CInv
<1>5. ASSUME NEW m \in Queued(queue), m.to = w PROVE FALSE
  <2>1. Fits(m) /\ m.from = "os"
    BY <1>3, <1>4, <1>5 DEF SlaveCalm
  <2>2. st[w] \in {"recv", "send"}
    BY <1>4, <1>5, <2>1 DEF Fits, Sent
  <2>3. QED
    BY <1>4, <2>2 DEF SlaveCalm, Placed
<1>6. QED
  BY <1>4, <1>5 DEF SlaveCalm, Underway

\* Giving a client away keeps the invariant.
LEMMA NewClientCalm == ASSUME IInv, CInv, NewClient PROVE CInv'
<1> DEFINE R == Queued(Tail(queue))
<1>1. PICK w \in Slave : w = pool[Len(pool)] /\ w \in Free /\ Free' = Free \ {w} /\ Once(pool')
  BY PoolPop DEF NewClient, IInv, CInv
<1> DEFINE x == Sent(Master, w, 1, "work")
<1>2. /\ TypeOK /\ queue \in Seq(AnyMsg) /\ queue # <<>> /\ Tail(queue) \in Seq(AnyMsg)
      /\ OnePer(queue) /\ Consume(<<x>>) /\ UNCHANGED <<pc, st, sock>>
      /\ Msg.from = "os" /\ Msg.to = Master /\ Msg.code = "in"
  BY <1>1 DEF IInv, CInv, TypeOK, AnyMsg, NewClient, Hears
<1>3. Master \notin Slave /\ Master # "os" /\ Master \in Machine /\ Slave \subseteq Machine
  BY EchoAssumption DEF Machine
<1>4. x \in AnyMsg /\ x.from = Master /\ x.to = w
  BY <1>3, SentType DEF Sent, Codes, States
<1>5. queue' = Tail(queue) \o <<x>> /\ Queued(queue') = R \cup {x} /\ Queued(queue) = {Msg} \cup R
  BY <1>2, <1>4, Pop, Push DEF Consume, Msg
<1>6. st[w] = "idle" /\ \A m \in Queued(queue) : m.to # w
  BY <1>1, TopIsIdle
<1>7. OnePer(queue')
  <2>1. \A m \in R : ~Rivals(m, x)
    BY <1>4, <1>5, <1>6 DEF Rivals
  <2>2. QED
    BY <1>2, <1>4, <1>5, <2>1, OneTail, OnePush
<1>8. MasterCalm'
  BY <1>2, <1>3, <1>4, <1>5 DEF CInv, MasterCalm
<1>9. SlaveCalm(w)'
  <2>1. w \notin Free' \cup sock'
    BY <1>1, <1>2 DEF CInv, SlaveCalm, Placed
  <2>2. Fits(x)'
    BY <1>2, <1>4, <1>6, <2>1 DEF Fits
  <2>3. \A m \in Queued(queue') : m.to = w => m = x
    BY <1>5, <1>6
  <2>4. QED
    BY <1>2, <1>4, <1>5, <1>6, <2>1, <2>2, <2>3 DEF SlaveCalm, Placed
<1>10. ASSUME NEW t \in Slave \ {w} PROVE SlaveCalm(t)'
  <2>1. SlaveCalm(t) /\ (t \in Free' <=> t \in Free)
    BY <1>1 DEF CInv
  <2>2. \A m : m.to = t => (m \in Queued(queue') <=> m \in Queued(queue))
    BY <1>2, <1>3, <1>4, <1>5
  <2>3. \A m : m.to = t /\ Fits(m) => Fits(m)'
    BY <1>2, <2>1 DEF Fits, OwnCodes
  <2>4. QED
    BY <1>2, <2>1, <2>2, <2>3 DEF SlaveCalm, Placed, Underway
<1>11. QED
  BY <1>1, <1>2, <1>7, <1>8, <1>9, <1>10 DEF CInv

\* The master gives up its socket.
LEMMA ListenFailsCalm == ASSUME IInv, CInv, ListenFails PROVE CInv'
<1> DEFINE R == Queued(Tail(queue))
           x == Sent(Master, Master, 3, "work")
<1>1. /\ TypeOK /\ queue \in Seq(AnyMsg) /\ queue # <<>> /\ Tail(queue) \in Seq(AnyMsg)
      /\ OnePer(queue) /\ Consume(<<x>>) /\ UNCHANGED <<pc, st, pool, sock>>
      /\ Msg.from = "os" /\ Msg.to = Master /\ Msg.code = "err" /\ st[Master] = "work"
  BY DEF IInv, CInv, TypeOK, AnyMsg, ListenFails, Hears, HeardIn
<1>2. Master \notin Slave /\ Master \in Machine
  BY EchoAssumption DEF Machine
<1>3. x \in AnyMsg /\ x.to = Master /\ x.at = "work"
  BY <1>2, SentType DEF Sent, Codes, States
<1>4. queue' = Tail(queue) \o <<x>> /\ Queued(queue') = R \cup {x} /\ Queued(queue) = {Msg} \cup R
  BY <1>1, <1>3, Pop, Push DEF Consume, Msg
<1>5. Msg # Os(Master, "tick")
  BY <1>1 DEF Os
<1>6. \A m \in R : m.to = Master => m = Os(Master, "tick")
  BY <1>1, <1>5, BehindMaster
<1>7. OnePer(queue')
  <2>1. \A m \in R : ~Rivals(m, x)
    BY <1>3, <1>6 DEF Rivals
  <2>2. QED
    BY <1>1, <1>3, <1>4, <2>1, OneTail, OnePush
<1>8. MasterCalm'
  BY <1>1, <1>3, <1>4, <1>6 DEF MasterCalm, Os
<1>9. Free' = Free /\ Once(pool')
  BY <1>1 DEF Free, CInv
<1>10. ASSUME NEW t \in Slave PROVE SlaveCalm(t)'
  <2>1. SlaveCalm(t)
    BY DEF CInv
  <2>2. \A m : m.to = t => (m \in Queued(queue') <=> m \in Queued(queue))
    BY <1>1, <1>2, <1>3, <1>4
  <2>3. \A m : m.to = t /\ Fits(m) => Fits(m)'
    BY <1>1, <1>9 DEF Fits, OwnCodes
  <2>4. QED
    BY <1>1, <1>9, <2>1, <2>2, <2>3 DEF SlaveCalm, Placed, Underway
<1>11. QED
  BY <1>1, <1>7, <1>8, <1>9, <1>10 DEF CInv

\* Every message that is queued has a transition.
LEMMA AllExpected ==
    ASSUME IInv, CInv, queue # <<>>
    PROVE  Expected(Msg) /\ (Msg.from # "os" /\ Msg.from = Msg.to => Msg.at = st[Msg.to])
<1>1. Msg \in Queued(queue) /\ Msg \in AnyMsg
  BY Pop DEF Msg, IInv, TypeOK, AnyMsg
<1>2. Master \notin Slave /\ Master # "os" /\ "os" \notin Slave
  BY EchoAssumption
<1>3. CASE Msg.from = "os"
  BY <1>1, <1>3 DEF IInv, ReportsHold
<1>4. CASE Msg.from # "os" /\ Msg.to = Master
  <2>1. /\ Msg \in {Sent(Master, Master, 0, "init"), Sent(Master, Master, 3, "work")}
        /\ Msg.at = st[Master]
    BY <1>1, <1>4 DEF CInv, MasterCalm
  <2>2. QED
    BY <1>4, <2>1 DEF Expected, Defined, Sent
<1>5. CASE Msg.from # "os" /\ Msg.to \in Slave
  <2>1. Fits(Msg) /\ Placed(Msg.to)
    BY <1>5, HeadFits
  <2>2. CASE Msg = Sent(Master, Msg.to, 1, "work") /\ st[Msg.to] = "idle"
    BY <1>2, <1>5, <2>2 DEF Expected, Defined, Sent
  <2>3. CASE Msg.from = Msg.to /\ Msg.at = st[Msg.to] /\ Msg.code \in OwnCodes(Msg.to)
    BY <1>5, <2>3 DEF Expected, Defined, OwnCodes
  <2>4. QED
    BY <1>5, <2>1, <2>2, <2>3 DEF Fits
<1>6. QED
  BY <1>1, <1>3, <1>4, <1>5 DEF AnyMsg, OsMsg, SelfMsg, Machine

\* The other dispatches keep the invariant.
LEMMA MasterStepCalm == ASSUME IInv, CInv, MasterStep \/ Ends PROVE CInv'
<1>1. Master \notin Slave /\ TypeOK /\ Slave \subseteq Machine
  BY EchoAssumption DEF Machine, IInv
<1>2. CASE MasterToWork
  <2>1. /\ queue # <<>> /\ Msg.to = Master /\ Msg.from # "os" /\ Consume(<<>>)
        /\ pc' = "exec" /\ UNCHANGED <<pool, sock>>
        /\ \A t \in Slave : st'[t] = st[t]
    BY <1>1, <1>2 DEF MasterToWork, Gets, Go, TypeOK
  <2>2. QED
    BY <2>1, MasterTurn
<1>3. CASE TurnAway
  <2>1. /\ queue # <<>> /\ Msg.to = Master /\ Consume(<<>>)
        /\ pc' # "crashed" /\ UNCHANGED <<st, pool, sock>>
    BY <1>3 DEF TurnAway, Hears
  <2>2. QED
    BY <2>1, MasterTurn
<1>4. CASE Ends
  <2>1. Expected(Msg)
    BY <1>4, AllExpected DEF Ends
  <2>2. /\ queue # <<>> /\ Msg.to = Master /\ Consume(<<>>)
        /\ pc' # "crashed" /\ UNCHANGED <<st, pool, sock>>
    BY <1>4, <2>1 DEF Ends, Hears, Gets
  <2>3. QED
    BY <2>2, MasterTurn
<1>5. QED
  BY <1>2, <1>3, <1>4, NewClientCalm, ListenFailsCalm DEF MasterStep


\* The loop's step to poll() and the outside touch nothing of the invariant.
LEMMA OutsideCalm == ASSUME IInv, CInv, Drained \/ Outside \/ UNCHANGED vars PROVE CInv'
<1>1. UNCHANGED <<queue, st, pool, sock>> /\ pc' # "crashed"
  BY DEF Drained, Outside, Arrive, PeerActs, Expire, vars, CInv
<1>2. Free' = Free
  BY <1>1 DEF Free
<1>3. \A m : Fits(m) => Fits(m)'
  BY <1>1, <1>2 DEF Fits, OwnCodes
<1>4. ASSUME NEW t \in Slave PROVE SlaveCalm(t)'
  BY <1>1, <1>2, <1>3 DEF CInv, SlaveCalm, Placed, Underway
<1>5. QED
  BY <1>1, <1>4 DEF CInv, MasterCalm

\* Of a calm wait each machine hears once, the master's timer aside.
LEMMA WaitOne ==
    ASSUME Racing = FALSE, TypeOK, Wait
    PROVE  OnePer(queue')
<1>1. PICK a, b, c \in Seq(AnyMsg) :
              /\ queue' = (a \o b) \o c
              /\ \A i \in 1..Len(a) : MasterReport(a[i])
              /\ Len(a) <= 1 \/ (Len(a) = 2 /\ a[1] = Os(Master, "tick") /\ a[2] # a[1])
              /\ \A i \in 1..Len(b) : TimerReport(b[i])
              /\ \A i, j \in 1..Len(b) : b[i] = b[j] => i = j
              /\ \A i \in 1..Len(c) : IoReport(c[i])
              /\ \A i, j \in 1..Len(c) : c[i].to = c[j].to => i = j
              /\ \A i \in 1..Len(c) : timer[c[i].to] # "expired"
  BY WaitParts
<1> DEFINE d == a \o b
           q == d \o c
<1>2. /\ d \in Seq(AnyMsg) /\ Len(a) \in Nat /\ Len(b) \in Nat /\ Len(c) \in Nat
      /\ Len(d) = Len(a) + Len(b)
  BY <1>1
<1>3. Master \notin Slave
  BY EchoAssumption
<1>4. ASSUME NEW m
      PROVE  /\ MasterReport(m) => m.to = Master
             /\ TimerReport(m) => m.to \in Slave /\ timer[m.to] = "expired" /\ m = Os(m.to, "tick")
             /\ IoReport(m) => m.to \in Slave
  BY DEF MasterReport, TimerReport, IoReport, Os
<1>5. ASSUME NEW i \in 1..Len(q)
      PROVE  \/ i \in 1..Len(a) /\ q[i] = a[i] /\ MasterReport(q[i])
             \/ /\ i - Len(a) \in 1..Len(b) /\ q[i] = b[i - Len(a)]
                /\ TimerReport(q[i])
             \/ /\ i - Len(d) \in 1..Len(c) /\ q[i] = c[i - Len(d)]
                /\ IoReport(q[i]) /\ timer[q[i].to] # "expired"
  <2>1. CASE i \in 1..Len(d) /\ q[i] = d[i]
    BY <1>1, <1>2, <2>1, TwoParts
  <2>2. CASE i > Len(d) /\ i - Len(d) \in 1..Len(c) /\ q[i] = c[i - Len(d)]
    BY <1>1, <2>2
  <2>3. QED
    BY <1>1, <1>2, <2>1, <2>2, TwoParts
<1>6. ASSUME NEW i \in 1..Len(q), NEW j \in 1..Len(q), Rivals(q[i], q[j])
      PROVE  i = j
  <2>1. q[i].to = q[j].to /\ q[i] # Os(Master, "tick") /\ q[j] # Os(Master, "tick")
    BY <1>6 DEF Rivals
  <2>2. CASE MasterReport(q[i])
    <3>1. i \in 1..Len(a) /\ q[i] = a[i] /\ j \in 1..Len(a) /\ q[j] = a[j]
      BY <1>3, <1>4, <1>5, <2>1, <2>2
    <3>2. CASE Len(a) <= 1
      BY <1>2, <3>1, <3>2
    <3>3. CASE Len(a) = 2 /\ a[1] = Os(Master, "tick")
      BY <2>1, <3>1, <3>3
    <3>4. QED
      BY <1>1, <3>2, <3>3
  <2>3. CASE TimerReport(q[i])
    <3>1. q[i].to \in Slave /\ timer[q[i].to] = "expired" /\ q[i] = Os(q[i].to, "tick")
      BY <1>4, <2>3
    <3>2. q[j].to \in Slave /\ timer[q[j].to] = "expired"
      BY <2>1, <3>1
    <3>3. j - Len(a) \in 1..Len(b) /\ q[j] = b[j - Len(a)] /\ TimerReport(q[j])
      BY <1>3, <1>4, <1>5, <3>2
    <3>4. i - Len(a) \in 1..Len(b) /\ q[i] = b[i - Len(a)]
      BY <1>3, <1>4, <1>5, <3>1
    <3>5. q[i] = q[j]
      BY <1>4, <2>1, <3>1, <3>3
    <3>6. i - Len(a) = j - Len(a)
      BY <1>1, <3>3, <3>4, <3>5
    <3>7. QED
      BY <1>2, <3>6
  <2>4. CASE IoReport(q[i]) /\ timer[q[i].to] # "expired"
    <3>1. q[i].to \in Slave /\ q[j].to \in Slave /\ timer[q[j].to] # "expired"
      BY <1>4, <2>1, <2>4
    <3>2. i - Len(d) \in 1..Len(c) /\ q[i] = c[i - Len(d)]
      BY <1>3, <1>4, <1>5, <2>4, <3>1
    <3>3. j - Len(d) \in 1..Len(c) /\ q[j] = c[j - Len(d)]
      BY <1>3, <1>4, <1>5, <3>1
    <3>4. i - Len(d) = j - Len(d)
      BY <1>1, <2>1, <3>2, <3>3
    <3>5. QED
      BY <1>2, <3>4
  <2>5. QED
    BY <1>5, <2>2, <2>3, <2>4
<1>7. QED
  BY <1>1, <1>6 DEF OnePer

\* A calm wait keeps the invariant.
LEMMA WaitCalm == ASSUME Racing = FALSE, IInv, CInv, Wait PROVE CInv'
<1>1. /\ TypeOK /\ queue = <<>> /\ pc' = "exec"
      /\ UNCHANGED <<st, pool, sock, io, timer>>
  BY DEF Wait, IInv
<1>2. Queued(queue) = {}
  BY <1>1 DEF Queued
<1>3. OnePer(queue')
  BY <1>1, WaitOne
<1>4. \A m \in Queued(queue') : MasterReport(m) \/ TimerReport(m) \/ IoReport(m)
  BY <1>1, WaitReports
<1>5. Master \notin Slave
  BY EchoAssumption
<1>6. Free' = Free /\ Once(pool')
  BY <1>1 DEF Free, CInv
<1>7. ASSUME NEW s \in Slave
      PROVE  /\ Placed(s) /\ ~Underway(s)
             /\ timer[s] # "off" \/ io[s] # "none" => st[s] \in {"recv", "send"}
  <2>1. Placed(s) /\ ~Underway(s) /\ SlaveShape(s)
    BY <1>2 DEF CInv, SlaveCalm, IInv
  <2>2. io[s] # "none" => st[s] \in {"recv", "send"}
    BY <2>1 DEF Placed, Underway, SlaveShape
  <2>3. QED
    BY <2>1, <2>2 DEF SlaveShape
<1>8. ASSUME NEW m \in Queued(queue')
      PROVE  m.from = "os" /\ (m.to \in Slave => Fits(m)')
  <2>1. CASE MasterReport(m)
    BY <1>5, <2>1 DEF MasterReport, Os
  <2>2. CASE TimerReport(m)
    BY <1>1, <1>7, <2>2 DEF TimerReport, Os, Fits
  <2>3. CASE IoReport(m)
    BY <1>1, <1>7, <2>3 DEF IoReport, IoEvents, Os, Fits
  <2>4. QED
    BY <1>4, <2>1, <2>2, <2>3
<1>9. MasterCalm'
  BY <1>8 DEF MasterCalm
<1>10. ASSUME NEW s \in Slave PROVE SlaveCalm(s)'
  <2>1. Placed(s)' /\ ~Underway(s)'
    BY <1>1, <1>6, <1>7 DEF Placed, Underway
  <2>2. QED
    BY <1>8, <2>1 DEF SlaveCalm
<1>11. QED
  BY <1>1, <1>3, <1>6, <1>9, <1>10 DEF CInv

\* At first every slave is in the pool.
LEMMA PoolIsFull == ASSUME Init PROVE Free = Slave /\ Once(pool)
<1> DEFINE n == Cardinality(Slave)
<1>1. IsFiniteSet(Slave) /\ n \in Nat
  BY EchoAssumption, FS_CardinalityType
<1>2. pool \in [1..n -> Slave] /\ Once(pool)
  BY DEF Init, Listings, Once
<1>3. Free \subseteq Slave /\ DOMAIN pool = 1..n
  BY <1>2 DEF Free
<1>4. pool \in Bijection(1..n, Free)
  <2>1. pool \in Surjection(1..n, Free)
    BY <1>2, <1>3 DEF Surjection, Free
  <2>2. QED
    BY <1>2, <1>3, <2>1 DEF Bijection, Injection, Surjection, Once, IsInjective
<1>5. IsFiniteSet(1..n) /\ Cardinality(1..n) = n
  BY <1>1, FS_Interval
<1>6. Cardinality(Free) = n
  BY <1>4, <1>5, FS_Bijection DEF ExistsBijection
<1>7. QED
  BY <1>1, <1>2, <1>3, <1>6, FS_Subset

\* The invariant holds at first.
LEMMA InitCalm == ASSUME Init PROVE CInv
<1> DEFINE firsts == [i \in DOMAIN pool |-> Sent(pool[i], pool[i], 0, "init")]
           x == Sent(Master, Master, 0, "init")
<1>1. TypeOK /\ pool \in Seq(Slave) /\ DOMAIN pool = 1..Len(pool) /\ Len(pool) \in Nat
  BY InitType DEF TypeOK
<1>2. Free = Slave /\ Once(pool)
  BY PoolIsFull
<1>3. /\ Master \notin Slave /\ Master \in Machine /\ Slave \subseteq Machine
      /\ Master # "os" /\ "os" \notin Slave
  BY EchoAssumption DEF Machine
<1>4. x \in AnyMsg
  BY <1>3, SentType DEF Codes, States
<1>5. firsts \in Seq(AnyMsg) /\ Len(firsts) = Len(pool)
  <2>1. \A i \in 1..Len(pool) : pool[i] \in Slave
    BY <1>1
  <2>2. \A i \in 1..Len(pool) : Sent(pool[i], pool[i], 0, "init") \in AnyMsg
    BY <1>3, <2>1, SentType DEF Codes, States
  <2>3. QED
    BY <1>1, <2>2
<1>6. Queued(firsts) = {Sent(s, s, 0, "init") : s \in Slave}
  BY <1>1, <1>2, <1>5 DEF Queued, Free
<1>7. queue = firsts \o <<x>> /\ Queued(queue) = Queued(firsts) \cup {x}
  BY <1>4, <1>5, Push DEF Init
<1>8. OnePer(queue)
  <2>1. OnePer(firsts)
    BY <1>1, <1>2, <1>5 DEF OnePer, Once, Rivals, Sent
  <2>2. \A m \in Queued(firsts) : ~Rivals(m, x)
    BY <1>3, <1>6 DEF Rivals, Sent
  <2>3. QED
    BY <1>4, <1>5, <1>7, <2>1, <2>2, OnePush
<1>9. st = [m \in Machine |-> "init"] /\ sock = {} /\ pc = "exec"
  BY DEF Init
<1>10. MasterCalm
  BY <1>3, <1>6, <1>7, <1>9 DEF MasterCalm, Sent
<1>11. ASSUME NEW s \in Slave PROVE SlaveCalm(s)
  <2>1. Placed(s)
    BY <1>2, <1>3, <1>9 DEF Placed
  <2>2. Sent(s, s, 0, "init") \in Queued(queue) /\ Sent(s, s, 0, "init").to = s
    BY <1>6, <1>7 DEF Sent
  <2>3. \A m \in Queued(queue) : m.to = s => m = Sent(s, s, 0, "init")
    BY <1>3, <1>6, <1>7 DEF Sent
  <2>4. Fits(Sent(s, s, 0, "init"))
    BY <1>3, <1>9 DEF Fits, OwnCodes, Codes, Sent
  <2>5. QED
    BY <2>1, <2>2, <2>3, <2>4 DEF SlaveCalm
<1>12. QED
  BY <1>2, <1>8, <1>9, <1>10, <1>11 DEF CInv

\* The invariant is inductive.
LEMMA CalmStep ==
    ASSUME Racing = FALSE, IInv, CInv, TypeOK', [Next]_vars
    PROVE  CInv'
<1>1. CASE Wait
  BY <1>1, WaitCalm
<1>2. CASE Dispatch
  <2>1. CASE Ends \/ MasterStep
    BY <2>1, MasterStepCalm
  <2>2. ASSUME NEW s \in Slave, SlaveStep(s) PROVE CInv'
    <3>1. MessageStep(s) \/ ReportStep(s)
      BY <2>2 DEF SlaveStep, MessageStep, ReportStep
    <3>2. QED
      BY <3>1, MessageCalm, ReportCalm
  <2>3. QED
    BY <1>2, <2>1, <2>2 DEF Dispatch
<1>3. QED
  BY <1>1, <1>2, OutsideCalm DEF Next


----------------------------------------------------------------------------
(* The theorems.                                                           *)

\* The invariant holds always.
THEOREM CalmInvariant ==
    ASSUME Racing = FALSE
    PROVE  Spec => [](IInv /\ CInv)
<1>1. Init => IInv /\ CInv
  BY InitInv, InitCalm
<1>2. IInv /\ CInv /\ [Next]_vars => (IInv /\ CInv)'
  <2> SUFFICES ASSUME IInv, CInv, [Next]_vars PROVE IInv' /\ CInv'
    OBVIOUS
  <2>1. IInv' /\ TypeOK'
    BY InvStep DEF IInv
  <2>2. QED
    BY <2>1, CalmStep
<1>3. QED
  BY <1>1, <1>2, PTL DEF Spec

\* However many slaves there are: the pool (mi->slaves) never holds a slave
\* twice, one with a client, or one that a client was just given to.
THEOREM PoolCorrect ==
    ASSUME Racing = FALSE
    PROVE  Spec => []PoolIsFree
<1>1. ASSUME IInv, CInv PROVE PoolIsFree
  <2>1. \A s \in Free : s \notin sock /\ st[s] \in {"init", "idle", "done"}
    BY <1>1, FreeSlaves DEF IInv, CInv, SlaveCalm, Placed
  <2>2. ASSUME NEW i \in DOMAIN queue, queue[i].from = Master, queue[i].to \in Free
        PROVE  FALSE
    <3>1. queue[i] \in Queued(queue) /\ queue[i].to \in Slave
      BY <1>1, <2>2, FreeSlaves DEF Queued, IInv, TypeOK
    <3>2. Fits(queue[i])
      BY <1>1, <3>1 DEF CInv, SlaveCalm
    <3>3. QED
      BY <2>2, <3>1, <3>2, EchoAssumption DEF Fits
  <2>3. QED
    BY <1>1, <2>1, <2>2 DEF PoolIsFree, CInv, Once
<1>2. QED
  BY <1>1, CalmInvariant, PTL

\* No slave gets lost between the pool and its clients: one that is in neither
\* place has a message on the way.
THEOREM SlavesComeBack ==
    ASSUME Racing = FALSE
    PROVE  Spec => []NoSlaveForgotten
<1>1. ASSUME IInv, CInv PROVE NoSlaveForgotten
  <2>1. ASSUME NEW s \in Slave, s \notin Free
        PROVE  Awaited(s) \/ (s \in sock /\ st[s] \in {"recv", "send"})
    <3>1. SlaveCalm(s) /\ queue \in Seq(AnyMsg)
      BY <1>1 DEF CInv, IInv, TypeOK, AnyMsg
    <3>2. (\E m \in Queued(queue) : m.to = s) => Awaited(s)
      BY <3>1 DEF Queued, Awaited
    <3>3. QED
      BY <2>1, <3>1, <3>2 DEF SlaveCalm, Placed, Underway
  <2>2. QED
    BY <2>1 DEF NoSlaveForgotten
<1>2. QED
  BY <1>1, CalmInvariant, PTL

\* A message a machine sends itself selects the transition its sender meant.
THEOREM MessagesFit ==
    ASSUME Racing = FALSE
    PROVE  Spec => []TakenWhereSent
<1>1. ASSUME IInv, CInv PROVE TakenWhereSent
  <2>1. queue # <<>> => Msg.to # "os"
    BY <1>1, Pop, EchoAssumption DEF IInv, TypeOK, Msg, AnyMsg, OsMsg, SelfMsg, Machine
  <2>2. QED
    BY <1>1, <2>1, AllExpected DEF TakenWhereSent
<1>2. QED
  BY <1>1, CalmInvariant, PTL

\* The dispatcher never meets a transition or an owner that is NULL.
THEOREM ServerNeverCrashes ==
    ASSUME Racing = FALSE
    PROVE  Spec => []NeverCrashes
<1>1. IInv /\ CInv => NeverCrashes
  BY DEF CInv, NeverCrashes
<1>2. QED
  BY <1>1, CalmInvariant, PTL

----------------------------------------------------------------------------
(* The server implements Workers.                                          *)

AbstractVars == <<Free, sock, backlog>>

\* A slave serves, comes free, or does nothing its clients could see.
LEMMA SlaveImplements ==
    ASSUME IInv, CInv, NEW s \in Slave, SlaveStep(s)
    PROVE  W!Next \/ UNCHANGED AbstractVars
<1>1. /\ TypeOK /\ Once(pool) /\ queue # <<>> /\ Msg.to = s
  BY DEF IInv, CInv, SlaveStep, InitToIdle, Accept, NoAccept, ToRecv, ToSend, Tick, Receive,
     NoRoom, Error, WriteAll, WriteSome, WriteFails, WriteBlocks, Killed, ToDone, DoneToIdle,
     Gets, Hears
<1>2. Fits(Msg) /\ Placed(s) /\ s # Master
  BY <1>1, HeadFits, EchoAssumption
<1>3. CASE Accept(s)
  <2>1. s \notin Free \cup sock
    BY <1>2, <1>3 DEF Accept, Gets, Fits
  <2>2. Free' = Free
    BY <1>3 DEF Accept, Free
  <2>3. W!Serve(s)
    BY <1>3, <2>1, <2>2 DEF Accept, W!Serve
  <2>4. QED
    BY <2>3 DEF W!Next
<1>4. CASE ToDone(s)
  <2>1. s \notin Free
    BY <1>2, <1>4 DEF ToDone, Gets, Fits, Sent, Placed, OwnCodes
  <2>2. Free' = Free \cup {s}
    BY <1>1, <1>4, <2>1, PoolPush DEF ToDone
  <2>3. W!Release(s)
    BY <1>4, <2>1, <2>2 DEF ToDone, W!Release
  <2>4. QED
    BY <2>3 DEF W!Next
<1>5. CASE ~Accept(s) /\ ~ToDone(s)
  <2>1. UNCHANGED <<pool, sock, backlog>>
    BY <1>5 DEF SlaveStep, InitToIdle, NoAccept, ToRecv, ToSend, Tick, Receive,
       NoRoom, Error, WriteAll, WriteSome, WriteFails, WriteBlocks, Killed, DoneToIdle
  <2>2. QED
    BY <2>1 DEF AbstractVars, Free
<1>6. QED
  BY <1>3, <1>4, <1>5

\* The master chooses, turns away, or does nothing its clients could see.
LEMMA MasterImplements ==
    ASSUME IInv, CInv, MasterStep
    PROVE  W!Next \/ UNCHANGED AbstractVars
<1>1. CASE NewClient
  <2>1. PICK w \in Slave : w \in Free /\ Free' = Free \ {w}
    BY <1>1, PoolPop DEF NewClient, IInv, CInv
  <2>2. backlog > 0
    <3>1. queue \in Seq(AnyMsg) /\ queue # <<>> /\ Msg.from = "os" /\ Msg.to = Master /\ Msg.code = "in"
      BY <1>1 DEF NewClient, Hears, IInv, TypeOK, AnyMsg
    <3>2. Msg = Os(Master, "in") /\ Msg \in Queued(queue)
      BY <3>1, Pop, ReportIs DEF Msg
    <3>3. QED
      BY <3>2 DEF IInv, ClaimsHold, IsClaim
  <2>3. W!Choose(w)
    BY <1>1, <2>1, <2>2 DEF NewClient, W!Choose
  <2>4. QED
    BY <2>3 DEF W!Next
<1>2. CASE TurnAway
  <2>1. Free = {} /\ Free' = {}
    BY <1>2 DEF TurnAway, Free
  <2>2. \/ backlog > 0 /\ backlog' = backlog - 1 /\ sock' = sock
        \/ UNCHANGED <<sock, backlog>>
    BY <1>2 DEF TurnAway
  <2>3. QED
    BY <2>1, <2>2 DEF W!Next, W!Refuse, AbstractVars
<1>3. CASE MasterToWork \/ ListenFails
  BY <1>3 DEF MasterToWork, ListenFails, AbstractVars, Free
<1>4. QED
  BY <1>1, <1>2, <1>3 DEF MasterStep

\* Every step is one of Workers, or is not seen.
LEMMA StepImplements ==
    ASSUME IInv, CInv, [Next]_vars
    PROVE  W!Next \/ UNCHANGED AbstractVars
<1>1. CASE Arrive
  <2>1. Free' = Free
    BY <1>1 DEF Arrive, Free
  <2>2. QED
    BY <1>1, <2>1 DEF Arrive, W!Next, W!Arrive
<1>2. CASE Drained \/ Wait \/ Ends \/ UNCHANGED vars
  BY <1>2 DEF Drained, Wait, Ends, vars, AbstractVars, Free
<1>3. ASSUME NEW s \in Slave, PeerActs(s) \/ Expire(s)
      PROVE  UNCHANGED AbstractVars
  BY <1>3 DEF PeerActs, Expire, AbstractVars, Free
<1>4. QED
  BY <1>1, <1>2, <1>3, SlaveImplements, MasterImplements DEF Next, Dispatch, Outside

\* The echo server keeps what its comments promise the clients: each waiting
\* client is given to a free slave or, when there is none, turned away, and a
\* slave serves one client at a time.
THEOREM ServerImplementsWorkers ==
    ASSUME Racing = FALSE
    PROVE  Spec => ImplementsWorkers
<1>1. Init => W!Init
  BY PoolIsFull DEF Init, W!Init
<1>2. IInv /\ CInv /\ [Next]_vars => [W!Next]_<<Free, sock, backlog>>
  BY StepImplements DEF AbstractVars
<1>3. QED
  BY <1>1, <1>2, CalmInvariant, PTL DEF Spec, ImplementsWorkers, W!Spec

=============================================================================
