--------------------------- MODULE EchoLine_proofs ---------------------------
(***************************************************************************)
(* Theorems about EchoLine: for any number of slaves, lines of any length  *)
(* in any pieces, and timeouts that race data.                             *)
(***************************************************************************)
EXTENDS EchoLine, EchoServer_proofs

----------------------------------------------------------------------------
(* The server with bytes is the server.                                    *)

\* Every step on bytes is a step of the server.
LEMMA LineStepIsStep == ASSUME [LineNext]_lineVars PROVE [Next]_vars
<1>1. CASE LineDispatch
  BY <1>1 DEF LineDispatch, LineSlaveStep, LineReceive, LineNoRoom, LineToRecv, LineToDone,
     LineError, LineWriteAll, LineWriteSome, LineWriteFails, Next, Dispatch, SlaveStep
<1>2. CASE LineDrained \/ LineWait \/ LineOutside
  BY <1>2 DEF LineDrained, LineWait, LineOutside, LinePeerActs, Next, Outside
<1>3. ASSUME NEW s \in Slave, LineExpire(s) PROVE Next
  BY <1>3 DEF LineExpire, Next, Outside
<1>4. CASE UNCHANGED lineVars
  BY <1>4 DEF lineVars, vars
<1>5. QED
  BY <1>1, <1>2, <1>3, <1>4 DEF LineNext

\* What is proved of the server holds of it with its lines: no hang, no leaked
\* socket, no stale event.
THEOREM LinesUseServer == LineSpec => Spec /\ [](IInv)
<1>1. LineInit => Init
  BY DEF LineInit
<1>2. [LineNext]_lineVars => [Next]_vars
  BY LineStepIsStep
<1>3. QED
  BY <1>1, <1>2, EchoInvariant, PTL DEF LineSpec, Spec

----------------------------------------------------------------------------
(* The buffers.                                                            *)

Cells  == UNION {[0..(n - 1) -> Nat] : n \in Nat}
Buffer == [pos : Nat, cnt : Nat, len : Nat, cell : Cells]
Turn   == [got : Nat, pieces : Nat, back : Seq(Nat)]

\* The memory a buffer says it has is the memory it has.
Backed(d) == d.cell \in [0..(d.len - 1) -> Nat]

LineTypes ==
    /\ dbuf \in [Slave -> Buffer]
    /\ inq \in [Slave -> Nat]
    /\ turn \in [Slave -> Turn]

\* While a slave receives, what it has is in front of pos or begins there, and
\* in the buffer.
Fitting(s) ==
    /\ Backed(dbuf[s])
    /\ st[s] = "recv" => dbuf[s].pos <= dbuf[s].cnt /\ dbuf[s].cnt <= dbuf[s].len

FitInv == TypeOK /\ LineTypes /\ \A s \in Slave : Fitting(s)

\* A cleared buffer.
LEMMA ClearedOK ==
    ASSUME NEW n \in Nat
    PROVE  /\ Cleared(n) \in Buffer /\ Backed(Cleared(n))
           /\ Cleared(n).pos = 0 /\ Cleared(n).cnt = 0 /\ Cleared(n).len = n
<1>1. [i \in 0..(n - 1) |-> 0] \in [0..(n - 1) -> Nat]
  OBVIOUS
<1>2. QED
  BY <1>1 DEF Cleared, Buffer, Cells, Backed

\* A cell of a buffer.
LEMMA CellOK ==
    ASSUME NEW d \in Buffer, Backed(d), NEW i \in Int
    PROVE  /\ Cell(d, i) \in Nat
           /\ i \in 0..(d.len - 1) => Cell(d, i) = d.cell[i]
BY DEF Cell, Backed, Buffer

\* Room for n more units.
LEMMA ExpandedOK ==
    ASSUME NEW d \in Buffer, Backed(d), NEW n \in Nat, d.cnt <= d.len
    PROVE  LET e == Expanded(d, n) IN
           /\ e \in Buffer /\ Backed(e)
           /\ e.pos = d.pos /\ e.cnt = d.cnt
           /\ d.cnt + n <= e.len
           /\ \A i \in 0..(d.len - 1) : i \in DOMAIN e.cell /\ e.cell[i] = d.cell[i]
<1> DEFINE m == d.len + n - (d.len - d.cnt)
           c == [i \in 0..(m - 1) |-> Cell(d, i)]
<1>1. d.len \in Nat /\ d.cnt \in Nat /\ m \in Nat /\ m = d.cnt + n
  BY DEF Buffer
<1>2. CASE n <= d.len - d.cnt
  <2>1. Expanded(d, n) = d
    BY <1>2 DEF Expanded
  <2>2. QED
    BY <1>1, <1>2, <2>1 DEF Backed
<1>3. CASE ~(n <= d.len - d.cnt)
  <2>1. Expanded(d, n) = [d EXCEPT !.len = m, !.cell = c]
    BY <1>3 DEF Expanded
  <2>2. c \in [0..(m - 1) -> Nat] /\ c \in Cells
    <3>1. \A i \in 0..(m - 1) : Cell(d, i) \in Nat
      BY CellOK
    <3>2. c \in [0..(m - 1) -> Nat]
      BY <3>1
    <3>3. QED
      BY <1>1, <3>2 DEF Cells
  <2>3. \A i \in 0..(d.len - 1) : i \in 0..(m - 1) /\ c[i] = d.cell[i]
    <3>1. \A i \in 0..(d.len - 1) : i \in 0..(m - 1)
      BY <1>1, <1>3
    <3>2. \A i \in 0..(d.len - 1) : Cell(d, i) = d.cell[i]
      BY <1>1, CellOK
    <3>3. QED
      BY <3>1, <3>2
  <2> HIDE DEF c
  <2>4. LET e == Expanded(d, n) IN
        e \in Buffer /\ e.pos = d.pos /\ e.cnt = d.cnt /\ e.len = m /\ e.cell = c
    BY <1>1, <2>1, <2>2 DEF Buffer
  <2>5. QED
    BY <1>1, <2>2, <2>3, <2>4 DEF Backed
<1>4. QED
  BY <1>2, <1>3

\* n units read at pos, into a buffer with room for them.
LEMMA FilledOK ==
    ASSUME NEW d \in Buffer, Backed(d), NEW n \in Nat, NEW first \in Nat,
           NEW complete \in BOOLEAN, d.pos + n <= d.len
    PROVE  LET e == Filled(d, n, first, complete) IN
           /\ e \in Buffer /\ Backed(e)
           /\ e.pos = (IF complete THEN d.pos ELSE d.pos + n)
           /\ e.cnt = d.cnt + n /\ e.len = d.len
           /\ \A i \in 0..(d.len - 1) :
                e.cell[i] = IF i \in d.pos..(d.pos + n - 1) THEN first + i - d.pos
                                                            ELSE d.cell[i]
<1> DEFINE D == DOMAIN d.cell \cup d.pos..(d.pos + n - 1)
           c == [i \in D |-> IF i \in d.pos..(d.pos + n - 1) THEN first + i - d.pos
                                                              ELSE Cell(d, i)]
           p == IF complete THEN d.pos ELSE d.pos + n
<1>1. d.len \in Nat /\ d.cnt \in Nat /\ d.pos \in Nat /\ D = 0..(d.len - 1) /\ p \in Nat
  BY DEF Buffer, Backed
<1>2. c \in [0..(d.len - 1) -> Nat] /\ c \in Cells
  <2>1. \A i \in D : c[i] \in Nat
    <3>1. ASSUME NEW i \in D, i \in d.pos..(d.pos + n - 1) PROVE first + i - d.pos \in Nat
      BY <1>1, <3>1
    <3>2. \A i \in D : Cell(d, i) \in Nat
      BY <1>1, CellOK
    <3>3. QED
      BY <3>1, <3>2
  <2>2. c \in [D -> Nat]
    BY <2>1
  <2>3. QED
    BY <1>1, <2>2 DEF Cells
<1>3. \A i \in 0..(d.len - 1) :
         c[i] = IF i \in d.pos..(d.pos + n - 1) THEN first + i - d.pos ELSE d.cell[i]
  BY <1>1, CellOK
<1>4. Filled(d, n, first, complete) = [d EXCEPT !.cell = c, !.cnt = d.cnt + n, !.pos = p]
  BY DEF Filled
<1> HIDE DEF c, p
<1>5. LET e == Filled(d, n, first, complete) IN
      e \in Buffer /\ e.pos = p /\ e.cnt = d.cnt + n /\ e.len = d.len /\ e.cell = c
  <2>1. PICK k \in Nat : k = d.cnt + n
    BY <1>1
  <2>2. PICK e : e = [d EXCEPT !.cell = c, !.cnt = k, !.pos = p]
    OBVIOUS
  <2>3. d \in [pos : Nat, cnt : Nat, len : Nat, cell : Cells]
    BY DEF Buffer
  <2>4. /\ e \in [pos : Nat, cnt : Nat, len : Nat, cell : Cells]
        /\ e.pos = p /\ e.cnt = k /\ e.len = d.len /\ e.cell = c
    BY <1>1, <1>2, <2>2, <2>3
  <2>5. QED
    BY <1>4, <2>1, <2>2, <2>4 DEF Buffer
<1>6. QED
  BY <1>2, <1>3, <1>5 DEF Backed, p

----------------------------------------------------------------------------
(* What a slave's step does to its buffer.                                 *)

\* Slave s goes on with buffer d and turn u.
Sets(s, d, u) ==
    /\ d \in Buffer /\ Backed(d) /\ u \in Turn
    /\ dbuf' = [dbuf EXCEPT ![s] = d]
    /\ turn' = [turn EXCEPT ![s] = u]

\* n units have come, which make the line complete or not.
Fills(s, d, u, n, complete) ==
    /\ Hears(s, "in") /\ st[s] = "recv" /\ st' = st
    /\ Consume(IF complete THEN <<Sent(s, s, 0, "recv")>> ELSE <<>>)
    /\ d = Filled(Expanded(dbuf[s], n), n, turn[s].got + 1, complete)
    /\ u.got = turn[s].got + n /\ u.pieces = turn[s].pieces + 1 /\ u.back = turn[s].back
    /\ d.pos = (IF complete THEN dbuf[s].pos ELSE dbuf[s].pos + n)
    /\ d.cnt = dbuf[s].cnt + n /\ d.cnt <= d.len

\* The connection has failed.
Rewinds(s, d, u) ==
    /\ Hears(s, "err") /\ st[s] = "recv" /\ st' = st
    /\ Consume(<<Sent(s, s, 1, "recv")>>)
    /\ d.pos = 0 /\ d.cnt = dbuf[s].cnt /\ d.len = dbuf[s].len /\ d.cell = dbuf[s].cell
    /\ u = turn[s]

Stays(s, d, u) == st' = st /\ d = dbuf[s] /\ u = turn[s]
Enters(s, d, u) == d.pos = 0 /\ d.cnt = 0 /\ u.got = 0

\* Nothing is set.
LEMMA SetsSame ==
    ASSUME FitInv, NEW s \in Slave, UNCHANGED <<dbuf, turn>>
    PROVE  Sets(s, dbuf[s], turn[s])
BY DEF FitInv, LineTypes, Fitting, Sets

\* Reading bytes.
LEMMA ReceiveSets ==
    ASSUME FitInv, NEW s \in Slave, LineReceive(s)
    PROVE  /\ inq' \in [Slave -> Nat]
           /\ \E d, u : /\ Sets(s, d, u)
                        /\ \/ \E n \in Nat, complete \in BOOLEAN : Fills(s, d, u, n, complete)
                           \/ Stays(s, d, u)
<1>1. /\ dbuf[s] \in Buffer /\ Backed(dbuf[s]) /\ turn[s] \in Turn /\ inq[s] \in Nat
      /\ Fitting(s) /\ turn[s].got \in Nat /\ turn[s].pieces \in Nat
      /\ s # Master
  BY EchoAssumption DEF FitInv, LineTypes, Fitting, Turn
<1>2. st[s] = "recv" /\ st' = st /\ Hears(s, "in")
  BY <1>1 DEF LineReceive, Receive, Hears, HeardIn
<1>3. CASE peer[s] \notin {"part", "line"}
  <2>1. UNCHANGED <<dbuf, turn, inq>>
    BY <1>3 DEF LineReceive, bytes
  <2>2. Sets(s, dbuf[s], turn[s]) /\ Stays(s, dbuf[s], turn[s])
    BY <1>2, <2>1, SetsSame DEF Stays
  <2>3. QED
    BY <2>1, <2>2 DEF FitInv, LineTypes
<1>4. CASE peer[s] \in {"part", "line"}
  <2> DEFINE n == inq[s]
             complete == peer[s] = "line"
             x == Expanded(dbuf[s], n)
             d == Filled(x, n, turn[s].got + 1, complete)
             u == [turn[s] EXCEPT !.got = turn[s].got + n, !.pieces = turn[s].pieces + 1]
  <2>1. /\ x \in Buffer /\ Backed(x) /\ x.pos = dbuf[s].pos /\ x.cnt = dbuf[s].cnt
        /\ dbuf[s].cnt + n <= x.len /\ dbuf[s].pos + n <= x.len
    <3>1. dbuf[s].cnt <= dbuf[s].len /\ dbuf[s].pos <= dbuf[s].cnt
      BY <1>1, <1>2 DEF Fitting
    <3>2. /\ x \in Buffer /\ Backed(x) /\ x.pos = dbuf[s].pos /\ x.cnt = dbuf[s].cnt
          /\ dbuf[s].cnt + n <= x.len
      BY <1>1, <3>1, ExpandedOK
    <3>3. dbuf[s].pos \in Nat /\ dbuf[s].cnt \in Nat /\ x.len \in Nat
      BY <1>1, <3>2 DEF Buffer
    <3>4. QED
      BY <1>1, <3>1, <3>2, <3>3
  <2>2. turn[s].got + 1 \in Nat /\ complete \in BOOLEAN
    BY <1>1
  <2> HIDE DEF x
  <2>3. /\ d \in Buffer /\ Backed(d)
        /\ d.pos = (IF complete THEN dbuf[s].pos ELSE dbuf[s].pos + n)
        /\ d.cnt = dbuf[s].cnt + n /\ d.cnt <= d.len
    <3>1. x.pos + n <= x.len /\ x.cnt + n <= x.len
      BY <2>1
    <3>2. PICK k \in Nat, c \in BOOLEAN : k = turn[s].got + 1 /\ c = complete
      BY <2>2
    <3>3. LET e == Filled(x, n, k, c) IN
          /\ e \in Buffer /\ Backed(e)
          /\ e.pos = (IF c THEN x.pos ELSE x.pos + n)
          /\ e.cnt = x.cnt + n /\ e.len = x.len
      BY <1>1, <2>1, <3>1, FilledOK
    <3>4. d = Filled(x, n, k, c)
      BY <3>2
    <3> HIDE DEF d
    <3>5. QED
      BY <2>1, <3>1, <3>2, <3>3, <3>4
  <2>4. dbuf' = [dbuf EXCEPT ![s] = d]
    BY <1>4 DEF LineReceive, x
  <2>5. /\ u \in Turn /\ u.got = turn[s].got + n
        /\ u.pieces = turn[s].pieces + 1 /\ u.back = turn[s].back
    <3>1. PICK g \in Nat, p \in Nat : g = turn[s].got + n /\ p = turn[s].pieces + 1
      BY <1>1
    <3>2. PICK v : v = [turn[s] EXCEPT !.got = g, !.pieces = p]
      OBVIOUS
    <3>3. v \in Turn /\ v.got = g /\ v.pieces = p /\ v.back = turn[s].back
      BY <1>1, <3>2 DEF Turn
    <3>4. QED
      BY <3>1, <3>2, <3>3
  <2>6. turn' = [turn EXCEPT ![s] = u]
    BY <1>1, <1>4 DEF LineReceive, FitInv, LineTypes
  <2>7. inq' \in [Slave -> Nat]
    BY <1>4 DEF LineReceive, FitInv, LineTypes
  <2>8. Consume(IF complete THEN <<Sent(s, s, 0, "recv")>> ELSE <<>>)
    BY <1>4 DEF LineReceive, Receive
  <2>9. Fills(s, d, u, n, complete) /\ Sets(s, d, u)
    BY <1>2, <2>3, <2>4, <2>5, <2>6, <2>8 DEF Fills, Sets, x
  <2>10. QED
    BY <1>1, <2>2, <2>7, <2>9
<1>5. QED
  BY <1>3, <1>4

\* Entering recv.
LEMMA ToRecvSets ==
    ASSUME FitInv, NEW s \in Slave, LineToRecv(s)
    PROVE  /\ inq' \in [Slave -> Nat]
           /\ \E d, u : Sets(s, d, u) /\ Enters(s, d, u)
<1>1. dbuf[s].len \in Nat
  BY DEF FitInv, LineTypes, Buffer
<1>2. NewTurn \in Turn /\ NewTurn.got = 0
  BY DEF NewTurn, Turn
<1>3. Sets(s, Cleared(dbuf[s].len), NewTurn) /\ Enters(s, Cleared(dbuf[s].len), NewTurn)
  BY <1>1, <1>2, ClearedOK DEF LineToRecv, Sets, Enters
<1>4. QED
  BY <1>3 DEF LineToRecv, FitInv, LineTypes

\* The connection fails, in recv or in send.
LEMMA ErrorSets ==
    ASSUME FitInv, NEW s \in Slave, LineError(s)
    PROVE  /\ inq' \in [Slave -> Nat]
           /\ \E d, u : Sets(s, d, u) /\ (Rewinds(s, d, u) \/ Stays(s, d, u))
<1>1. /\ dbuf[s] \in Buffer /\ Backed(dbuf[s]) /\ turn[s] \in Turn
      /\ dbuf \in [Slave -> Buffer] /\ turn \in [Slave -> Turn]
  BY DEF FitInv, LineTypes, Fitting
<1>2. st' = st /\ Hears(s, "err") /\ turn' = turn /\ inq' = inq
  BY DEF LineError, Error
<1>3. PICK d : d = [dbuf[s] EXCEPT !.pos = 0]
  OBVIOUS
<1>4. /\ d \in Buffer /\ d.pos = 0 /\ d.cnt = dbuf[s].cnt
      /\ d.len = dbuf[s].len /\ d.cell = dbuf[s].cell
  BY <1>1, <1>3 DEF Buffer
<1>5. CASE st[s] = "recv"
  <2>1. dbuf' = [dbuf EXCEPT ![s] = d]
    BY <1>1, <1>3, <1>5 DEF LineError
  <2>2. Sets(s, d, turn[s])
    BY <1>1, <1>2, <1>4, <2>1 DEF Sets, Backed
  <2>3. Consume(<<Sent(s, s, 1, "recv")>>)
    BY <1>5 DEF LineError, Error
  <2>4. Rewinds(s, d, turn[s])
    BY <1>2, <1>4, <1>5, <2>3 DEF Rewinds
  <2>5. QED
    BY <1>2, <2>2, <2>4 DEF FitInv, LineTypes
<1>6. CASE st[s] # "recv"
  <2>1. dbuf' = [dbuf EXCEPT ![s].pos = dbuf[s].pos]
    BY <1>6 DEF LineError
  <2>2. [dbuf[s] EXCEPT !.pos = dbuf[s].pos] = dbuf[s]
    BY <1>1 DEF Buffer
  <2>3. dbuf' = dbuf
    BY <1>1, <2>1, <2>2
  <2>4. Sets(s, dbuf[s], turn[s]) /\ Stays(s, dbuf[s], turn[s])
    BY <1>2, <2>3, SetsSame DEF Stays
  <2>5. QED
    BY <1>2, <2>4 DEF FitInv, LineTypes
<1>7. QED
  BY <1>5, <1>6

\* Sending the line, or a part of it, or nothing: the slave is in send.
LEMMA WriteSets ==
    ASSUME FitInv, NEW s \in Slave, LineWriteAll(s) \/ LineWriteSome(s) \/ LineWriteFails(s)
    PROVE  /\ inq' \in [Slave -> Nat]
           /\ \E d, u : Sets(s, d, u) /\ st'[s] # "recv"
<1>1. /\ dbuf[s] \in Buffer /\ Backed(dbuf[s]) /\ turn[s] \in Turn /\ s # Master
      /\ dbuf \in [Slave -> Buffer] /\ turn \in [Slave -> Turn] /\ inq' = inq
      /\ dbuf[s].pos \in Nat /\ dbuf[s].cnt \in Nat /\ turn[s].back \in Seq(Nat)
  BY EchoAssumption
     DEF FitInv, LineTypes, Fitting, Buffer, Turn, LineWriteAll, LineWriteSome, LineWriteFails, BackBy
<1>2. st'[s] # "recv"
  BY <1>1 DEF LineWriteAll, LineWriteSome, LineWriteFails, WriteAll, WriteSome, WriteFails,
     Hears, HeardIn
<1>3. ASSUME NEW n \in Nat, BackBy(s, n)
      PROVE  \E u \in Turn : turn' = [turn EXCEPT ![s] = u]
  <2>1. \A i \in 1..n : Cell(dbuf[s], dbuf[s].pos + i - 1) \in Nat
    <3>1. \A i \in 1..n : dbuf[s].pos + i - 1 \in Int
      BY <1>1
    <3>2. QED
      BY <1>1, <3>1, CellOK
  <2>2. Out(dbuf[s], n) \in Seq(Nat)
    BY <2>1 DEF Out
  <2>3. turn[s].back \o Out(dbuf[s], n) \in Seq(Nat)
    BY <1>1, <2>2
  <2>4. PICK b \in Seq(Nat) : b = turn[s].back \o Out(dbuf[s], n)
    BY <2>3
  <2>5. turn' = [turn EXCEPT ![s] = [turn[s] EXCEPT !.back = b]]
    BY <1>1, <1>3, <2>4 DEF BackBy
  <2>6. [turn[s] EXCEPT !.back = b] \in Turn
    BY <1>1 DEF Turn
  <2>7. QED
    BY <2>5, <2>6
<1>4. CASE LineWriteAll(s)
  <2>1. PICK u \in Turn : turn' = [turn EXCEPT ![s] = u]
    BY <1>1, <1>3, <1>4 DEF LineWriteAll
  <2>2. Sets(s, dbuf[s], u)
    BY <1>1, <1>4, <2>1 DEF LineWriteAll, Sets
  <2>3. QED
    BY <1>1, <1>2, <2>2 DEF FitInv, LineTypes
<1>5. CASE LineWriteSome(s)
  <2>1. PICK n \in 1..(dbuf[s].cnt - 1) :
            /\ BackBy(s, n)
            /\ dbuf' = [dbuf EXCEPT ![s].pos = @ + n, ![s].cnt = @ - n]
    BY <1>5 DEF LineWriteSome
  <2>2. n \in Nat /\ dbuf[s].pos + n \in Nat /\ dbuf[s].cnt - n \in Nat
    BY <1>1
  <2>3. PICK u \in Turn : turn' = [turn EXCEPT ![s] = u]
    BY <1>3, <2>1, <2>2
  <2>4. PICK p \in Nat, c \in Nat : p = dbuf[s].pos + n /\ c = dbuf[s].cnt - n
    BY <2>2
  <2>5. PICK d : d = [dbuf[s] EXCEPT !.pos = p, !.cnt = c]
    OBVIOUS
  <2>6. d \in Buffer /\ d.len = dbuf[s].len /\ d.cell = dbuf[s].cell
    BY <1>1, <2>5 DEF Buffer
  <2>7. dbuf' = [dbuf EXCEPT ![s] = d]
    BY <1>1, <2>1, <2>4, <2>5
  <2>8. Sets(s, d, u)
    BY <1>1, <2>3, <2>6, <2>7 DEF Sets, Backed
  <2>9. QED
    BY <1>1, <1>2, <2>8 DEF FitInv, LineTypes
<1>6. CASE LineWriteFails(s)
  <2>1. PICK d : d = [dbuf[s] EXCEPT !.cnt = 0, !.pos = 0]
    OBVIOUS
  <2>2. d \in Buffer /\ d.len = dbuf[s].len /\ d.cell = dbuf[s].cell
    BY <1>1, <2>1 DEF Buffer
  <2>3. dbuf' = [dbuf EXCEPT ![s] = d] /\ turn' = [turn EXCEPT ![s] = turn[s]]
    BY <1>1, <1>6, <2>1 DEF LineWriteFails
  <2>4. Sets(s, d, turn[s])
    BY <1>1, <2>2, <2>3 DEF Sets, Backed
  <2>5. QED
    BY <1>1, <1>2, <2>4 DEF FitInv, LineTypes
<1>7. QED
  BY <1>4, <1>5, <1>6

\* The other steps leave buffer and turn alone, and enter recv never.
LEMMA OtherSets ==
    ASSUME FitInv, NEW s \in Slave,
           \/ LineNoRoom(s) \/ LineToDone(s)
           \/ InitToIdle(s) \/ Accept(s) \/ NoAccept(s) \/ ToSend(s) \/ Tick(s)
           \/ WriteBlocks(s) \/ Killed(s) \/ DoneToIdle(s),
           LineToDone(s) \/ UNCHANGED bytes
    PROVE  /\ inq' \in [Slave -> Nat]
           /\ \E d, u : Sets(s, d, u) /\ (st'[s] # "recv" \/ Stays(s, d, u))
<1>1. UNCHANGED <<dbuf, turn>> /\ inq' \in [Slave -> Nat]
  BY DEF LineToDone, bytes, FitInv, LineTypes
<1>2. Sets(s, dbuf[s], turn[s])
  BY <1>1, SetsSame
<1>3. st \in [Machine -> States] /\ s \in Machine /\ s # Master
  BY EchoAssumption DEF FitInv, TypeOK, Machine
<1>4. st'[s] # "recv" \/ st' = st
  BY <1>3 DEF LineNoRoom, NoRoom, LineToDone, ToDone, InitToIdle, Accept, NoAccept, ToSend,
     Tick, WriteBlocks, Killed, DoneToIdle, Go
<1>5. QED
  BY <1>1, <1>2, <1>4 DEF Stays

\* All steps of a slave.
LEMMA SlaveSets ==
    ASSUME FitInv, NEW s \in Slave, LineSlaveStep(s)
    PROVE  /\ inq' \in [Slave -> Nat]
           /\ \E d, u :
                /\ Sets(s, d, u)
                /\ \/ \E n \in Nat, complete \in BOOLEAN : Fills(s, d, u, n, complete)
                   \/ Rewinds(s, d, u) \/ Enters(s, d, u) \/ Stays(s, d, u)
                   \/ st'[s] # "recv"
<1>1. CASE LineReceive(s)
  BY <1>1, ReceiveSets
<1>2. CASE LineToRecv(s)
  BY <1>2, ToRecvSets
<1>3. CASE LineError(s)
  BY <1>3, ErrorSets
<1>4. CASE LineWriteAll(s) \/ LineWriteSome(s) \/ LineWriteFails(s)
  BY <1>4, WriteSets
<1>5. CASE ~LineReceive(s) /\ ~LineToRecv(s) /\ ~LineError(s)
           /\ ~(LineWriteAll(s) \/ LineWriteSome(s) \/ LineWriteFails(s))
  <2>1. /\ \/ LineNoRoom(s) \/ LineToDone(s)
           \/ InitToIdle(s) \/ Accept(s) \/ NoAccept(s) \/ ToSend(s) \/ Tick(s)
           \/ WriteBlocks(s) \/ Killed(s) \/ DoneToIdle(s)
        /\ LineToDone(s) \/ UNCHANGED bytes
    BY <1>5 DEF LineSlaveStep, LineNoRoom
  <2>2. QED
    BY <2>1, OtherSets
<1>6. QED
  BY <1>1, <1>2, <1>3, <1>4, <1>5

\* Steps of the others: no buffer changes, and no slave's state.
QuietStep ==
    \/ Drained \/ Wait \/ Ends \/ MasterStep \/ Arrive
    \/ \E s \in Slave : PeerActs(s) \/ Expire(s)
    \/ UNCHANGED lineVars
LEMMA StepKinds ==
    ASSUME FitInv, [LineNext]_lineVars
    PROVE  \/ \E s \in Slave : LineSlaveStep(s)
           \/ /\ QuietStep
              /\ UNCHANGED <<dbuf, turn>> /\ inq' \in [Slave -> Nat]
              /\ \A t \in Slave : st'[t] = st[t]
<1>1. /\ inq \in [Slave -> Nat] /\ st \in [Machine -> States]
      /\ Master \notin Slave /\ Slave \subseteq Machine
  BY EchoAssumption DEF FitInv, LineTypes, TypeOK, Machine
<1>2. ASSUME NEW s \in Slave, LinePeerActs(s)
      PROVE  /\ PeerActs(s) /\ UNCHANGED <<dbuf, turn>> /\ inq' \in [Slave -> Nat]
             /\ st' = st
  <2>1. PeerActs(s) /\ UNCHANGED <<dbuf, turn>> /\ st' = st
    BY <1>2 DEF LinePeerActs, PeerActs
  <2>2. inq[s] \in Nat /\ 0 \in Nat
    BY <1>1
  <2>3. inq[s] + 1 \in Nat
    BY <2>2
  <2>4. inq' = [inq EXCEPT ![s] = inq[s] + 1] \/ inq' = [inq EXCEPT ![s] = 0]
    BY <1>2 DEF LinePeerActs
  <2>5. inq' \in [Slave -> Nat]
    BY <1>1, <2>2, <2>3, <2>4
  <2>6. QED
    BY <2>1, <2>5
<1>3. ASSUME NEW s \in Slave, LineExpire(s)
      PROVE  Expire(s) /\ UNCHANGED bytes /\ st' = st
  BY <1>3 DEF LineExpire, Expire
<1>4. ASSUME Drained \/ Wait \/ Ends \/ MasterStep \/ Arrive \/ UNCHANGED lineVars
      PROVE  \A t \in Slave : st'[t] = st[t]
  BY <1>1, <1>4 DEF Drained, Wait, Ends, MasterStep, MasterToWork, NewClient, TurnAway,
     ListenFails, Arrive, lineVars, vars, Go
<1>5. CASE \E s \in Slave : LinePeerActs(s) \/ LineExpire(s)
  BY <1>1, <1>2, <1>3, <1>5 DEF QuietStep, bytes
<1>6. CASE /\ UNCHANGED bytes
           /\ Drained \/ Wait \/ Ends \/ MasterStep \/ Arrive \/ UNCHANGED lineVars
  BY <1>1, <1>4, <1>6 DEF QuietStep, bytes
<1>7. QED
  BY <1>5, <1>6 DEF LineNext, LineDrained, LineWait, LineDispatch, LineOutside, lineVars

\* A slave's step changes no state of another slave.
LEMMA OneState ==
    ASSUME FitInv, NEW s \in Slave, LineSlaveStep(s), NEW t \in Slave, t # s
    PROVE  st'[t] = st[t]
<1>1. st \in [Machine -> States] /\ s \in Machine /\ t \in Machine
  BY DEF FitInv, TypeOK, Machine
<1>2. SlaveStep(s)
  BY DEF LineSlaveStep, LineReceive, LineNoRoom, LineToRecv, LineToDone, LineError,
     LineWriteAll, LineWriteSome, LineWriteFails, SlaveStep
<1>3. QED
  BY <1>1, <1>2 DEF SlaveStep, InitToIdle, Accept, NoAccept, ToRecv, ToSend, Tick, Receive,
     NoRoom, Error, WriteAll, WriteSome, WriteFails, WriteBlocks, Killed, ToDone, DoneToIdle, Go

\* At first the buffers are empty.
LEMMA InitFits == ASSUME LineInit PROVE FitInv
<1>1. DBytes \in Nat /\ NewTurn \in Turn
  BY LineAssumption DEF NewTurn, Turn
<1>2. Init /\ TypeOK
  BY InitType DEF LineInit
<1>3. \A s \in Slave : st[s] = "init"
  BY <1>2 DEF Init, Machine
<1>4. QED
  BY <1>1, <1>2, <1>3, ClearedOK DEF LineInit, FitInv, LineTypes, Fitting

\* Every step leaves what was received in the buffer.
LEMMA FitStep == ASSUME FitInv, [LineNext]_lineVars PROVE FitInv'
<1>1. TypeOK'
  BY LineStepIsStep, TypeStep DEF FitInv
<1>2. ASSUME NEW s \in Slave, LineSlaveStep(s) PROVE FitInv'
  <2>1. /\ dbuf \in [Slave -> Buffer] /\ turn \in [Slave -> Turn]
        /\ \A t \in Slave : Fitting(t)
    BY DEF FitInv, LineTypes
  <2>2. inq' \in [Slave -> Nat]
    BY <1>2, SlaveSets
  <2>3. PICK d, u :
                /\ Sets(s, d, u)
                /\ \/ \E n \in Nat, complete \in BOOLEAN : Fills(s, d, u, n, complete)
                   \/ Rewinds(s, d, u) \/ Enters(s, d, u) \/ Stays(s, d, u)
                   \/ st'[s] # "recv"
    BY <1>2, SlaveSets
  <2>4. LineTypes' /\ dbuf'[s] = d /\ \A t \in Slave : t # s => dbuf'[t] = dbuf[t]
    BY <2>1, <2>2, <2>3 DEF Sets, LineTypes
  <2>5. /\ d.pos \in Nat /\ d.cnt \in Nat /\ d.len \in Nat
        /\ dbuf[s].pos \in Nat /\ dbuf[s].cnt \in Nat
    BY <2>1, <2>3 DEF Sets, Buffer
  <2>6. st'[s] = "recv" => d.pos <= d.cnt /\ d.cnt <= d.len
    <3>1. ASSUME NEW n \in Nat, NEW complete \in BOOLEAN, Fills(s, d, u, n, complete)
          PROVE  d.pos <= d.cnt /\ d.cnt <= d.len
      <4>1. dbuf[s].pos <= dbuf[s].cnt
        BY <2>1, <3>1 DEF Fills, Fitting
      <4>2. QED
        BY <2>5, <3>1, <4>1 DEF Fills
    <3>2. CASE Rewinds(s, d, u) \/ Enters(s, d, u) \/ Stays(s, d, u)
      BY <2>1, <2>5, <3>2 DEF Rewinds, Enters, Stays, Fitting
    <3>3. QED
      BY <2>3, <3>1, <3>2
  <2>7. Fitting(s)'
    BY <2>3, <2>4, <2>6 DEF Fitting, Sets, Backed
  <2>8. \A t \in Slave : t # s => Fitting(t)'
    BY <1>2, <2>1, <2>4, OneState DEF Fitting, Backed
  <2>9. QED
    BY <1>1, <2>4, <2>7, <2>8 DEF FitInv
<1>3. CASE /\ UNCHANGED <<dbuf, turn>> /\ inq' \in [Slave -> Nat]
           /\ \A t \in Slave : st'[t] = st[t]
  BY <1>1, <1>3 DEF FitInv, LineTypes, Fitting, Backed
<1>4. QED
  BY <1>2, <1>3, StepKinds

\* For lines of any length, cut and sent back in any pieces: read() never goes
\* past the end of the buffer that slave_recv_data_0 has made room in.
THEOREM ReadsStayInBuffer == LineSpec => []ReadsFit
<1>1. FitInv => ReadsFit
  <2> SUFFICES ASSUME FitInv, NEW s \in Slave, NEW i \in DOMAIN dbuf[s].cell
               PROVE  i < dbuf[s].len
    BY DEF ReadsFit
  <2>1. Backed(dbuf[s]) /\ dbuf[s].len \in Nat
    BY DEF FitInv, LineTypes, Fitting, Buffer
  <2>2. QED
    BY <2>1 DEF Backed
<1>2. LineInit => FitInv
  BY InitFits
<1>3. FitInv /\ [LineNext]_lineVars => FitInv'
  BY FitStep
<1>4. QED
  BY <1>1, <1>2, <1>3, PTL DEF LineSpec

\* Buffers and lines are of their types: a piece is never of negative length,
\* and what is sent back is a list of bytes.
THEOREM LineTypeCorrect == LineSpec => []LineTypeOK
<1>1. ASSUME FitInv PROVE LineTypeOK
  <2>1. TypeOK /\ inq \in [Slave -> Nat] /\ turn \in [Slave -> Turn] /\ dbuf \in [Slave -> Buffer]
    BY <1>1 DEF FitInv, LineTypes
  <2>2. ASSUME NEW s \in Slave
        PROVE  /\ dbuf[s].pos \in Nat /\ dbuf[s].cnt \in Nat /\ dbuf[s].len \in Nat
               /\ \A i \in DOMAIN dbuf[s].cell : i \in Nat /\ dbuf[s].cell[i] \in Nat
               /\ turn[s].got \in Nat /\ turn[s].pieces \in Nat /\ turn[s].back \in Seq(Nat)
    <3>1. dbuf[s] \in Buffer /\ turn[s] \in Turn /\ Backed(dbuf[s])
      BY <1>1, <2>1 DEF FitInv, Fitting
    <3>2. dbuf[s].len \in Nat /\ dbuf[s].cell \in [0..(dbuf[s].len - 1) -> Nat]
      BY <3>1 DEF Buffer, Backed
    <3>3. \A i \in DOMAIN dbuf[s].cell : i \in Nat /\ dbuf[s].cell[i] \in Nat
      BY <3>2
    <3>4. QED
      BY <3>1, <3>3 DEF Buffer, Turn
  <2>3. QED
    BY <2>1, <2>2 DEF LineTypeOK
<1>2. LineInit => FitInv
  BY InitFits
<1>3. FitInv /\ [LineNext]_lineVars => FitInv'
  BY FitStep
<1>4. QED
  BY <1>1, <1>2, <1>3, PTL DEF LineSpec

----------------------------------------------------------------------------
(* What is received is kept.                                               *)

\* A report of a slave's channel: a wait makes at most one of each slave's.
SlaveIo(m) == m.from = "os" /\ m.to \in Slave /\ m.code # "tick"
OneIo(q) ==
    \A i, j \in 1..Len(q) : SlaveIo(q[i]) /\ SlaveIo(q[j]) /\ q[i].to = q[j].to => i = j

\* The messages with which a slave leaves recv.
Leaving(s, m) == \E c \in {0, 1} : m = Sent(s, s, c, "recv")

\* A slave whose pos is not behind what it has received is about to leave, and
\* reads no more before it does.
Leaves(s) ==
    st[s] = "recv" /\ dbuf[s].pos # dbuf[s].cnt =>
        /\ \E m \in Queued(queue) : Leaving(s, m)
        /\ Os(s, "in") \notin Queued(queue)

\* The first cnt cells are what was received.
Kept(s) ==
    st[s] = "recv" =>
        /\ dbuf[s].cnt = turn[s].got
        /\ \A i \in 0..(dbuf[s].cnt - 1) : dbuf[s].cell[i] = i + 1

KeptInv == OneIo(queue) /\ \A s \in Slave : Leaves(s) /\ Kept(s)

\* A dispatch takes the head off the queue and appends one message or none.
Moves(X) ==
    /\ queue # <<>> /\ X \subseteq AnyMsg
    /\ \A x \in X : x.from # "os"
    /\ \/ Consume(<<>>) /\ X = {}
       \/ \E x \in X : Consume(<<x>>) /\ X = {x}

\* Appending one message of a machine, or none.
LEMMA OneMove ==
    ASSUME queue # <<>>
    PROVE  /\ Consume(<<>>) => Moves({})
           /\ \A m, n \in Machine, k \in Codes, a \in States :
                 Consume(<<Sent(m, n, k, a)>>) => Moves({Sent(m, n, k, a)})
<1>1. ASSUME NEW m \in Machine, NEW n \in Machine, NEW k \in Codes, NEW a \in States,
             Consume(<<Sent(m, n, k, a)>>)
      PROVE  Moves({Sent(m, n, k, a)})
  <2>1. m # "os"
    BY EchoAssumption DEF Machine
  <2>2. Sent(m, n, k, a) \in AnyMsg /\ Sent(m, n, k, a).from # "os"
    BY <2>1, SentType DEF Sent
  <2>3. QED
    BY <1>1, <2>2 DEF Moves
<1>2. QED
  BY <1>1 DEF Moves

\* A message that takes a slave on, from recv to send or back.
Zero(s, m) == m.from # "os" /\ m.to = s /\ m.code = 0

\* A slave sends to itself.
LEMMA SlaveMoves ==
    ASSUME TypeOK, NEW s \in Slave, SlaveStep(s)
    PROVE  \E X : Moves(X) /\ \A x \in X : x.to = s
<1>1. queue # <<>> /\ s \in Machine /\ st[s] \in States
  BY DEF SlaveStep, InitToIdle, Accept, NoAccept, ToRecv, ToSend, Tick, Receive,
     NoRoom, Error, WriteAll, WriteSome, WriteFails, WriteBlocks, Killed, ToDone, DoneToIdle,
     Gets, Hears, TypeOK, Machine
<1>2. Consume(<<>>) \/ \E k \in Codes, a \in States : Consume(<<Sent(s, s, k, a)>>)
  BY <1>1 DEF SlaveStep, InitToIdle, Accept, NoAccept, ToRecv, ToSend, Tick, Receive,
     NoRoom, Error, WriteAll, WriteSome, WriteFails, WriteBlocks, Killed, ToDone, DoneToIdle,
     States, Codes
<1>3. CASE Consume(<<>>)
  <2>1. Moves({})
    BY <1>1, <1>3, OneMove
  <2>2. QED
    BY <2>1
<1>4. ASSUME NEW k \in Codes, NEW a \in States, Consume(<<Sent(s, s, k, a)>>)
      PROVE  \E X : Moves(X) /\ \A x \in X : x.to = s
  <2>1. Moves({Sent(s, s, k, a)}) /\ Sent(s, s, k, a).to = s
    BY <1>1, <1>4, OneMove DEF Sent
  <2>2. QED
    BY <2>1
<1>5. QED
  BY <1>2, <1>3, <1>4

\* Nobody else sends a slave a message that takes it on.
LEMMA OtherMoves ==
    ASSUME TypeOK, Ends \/ MasterStep
    PROVE  \E X : Moves(X) /\ \A x \in X, s \in Slave : ~Zero(s, x)
<1>1. queue # <<>> /\ Master \in Machine /\ Slave \subseteq Machine /\ Master \notin Slave
  BY EchoAssumption DEF Ends, MasterStep, MasterToWork, NewClient, TurnAway, ListenFails,
     Gets, Hears, Machine
<1>2. "work" \in States /\ 1 \in Codes /\ 3 \in Codes
  BY DEF States, Codes
<1>3. CASE NewClient
  <2> DEFINE x == Sent(Master, pool[Len(pool)], 1, "work")
  <2>1. pool[Len(pool)] \in Slave /\ Consume(<<x>>)
    BY <1>3 DEF NewClient, TypeOK
  <2>2. Moves({x}) /\ x.code = 1
    BY <1>1, <1>2, <2>1, OneMove DEF Sent
  <2>3. QED
    BY <2>2 DEF Zero
<1>4. CASE ListenFails
  <2> DEFINE x == Sent(Master, Master, 3, "work")
  <2>1. Moves({x}) /\ x.code = 3
    BY <1>1, <1>2, <1>4, OneMove DEF ListenFails, Sent
  <2>2. QED
    BY <2>1 DEF Zero
<1>5. CASE Ends \/ MasterToWork \/ TurnAway
  BY <1>1, <1>5, OneMove DEF Ends, MasterToWork, TurnAway
<1>6. QED
  BY <1>3, <1>4, <1>5 DEF MasterStep

LEMMA QueueMoves ==
    ASSUME TypeOK, [Next]_vars, ~Wait
    PROVE  queue' = queue \/ (Dispatch /\ \E X : Moves(X))
<1>1. CASE Ends \/ MasterStep
  BY <1>1, OtherMoves DEF Dispatch
<1>2. ASSUME NEW s \in Slave, SlaveStep(s) PROVE Dispatch /\ \E X : Moves(X)
  BY <1>2, SlaveMoves DEF Dispatch
<1>3. CASE Drained \/ Outside \/ UNCHANGED vars
  BY <1>3 DEF Drained, Outside, Arrive, PeerActs, Expire, vars
<1>4. QED
  BY <1>1, <1>2, <1>3 DEF Next, Dispatch

\* What a dispatch leaves in the queue.
LEMMA Moved ==
    ASSUME TypeOK, NEW X, Moves(X), OneIo(queue)
    PROVE  /\ OneIo(queue')
           /\ Queued(queue') = Queued(Tail(queue)) \cup X
           /\ Queued(queue) = {Msg} \cup Queued(Tail(queue))
           /\ SlaveIo(Msg) => \A m \in Queued(queue') : SlaveIo(m) => m.to # Msg.to
<1> DEFINE r == Tail(queue)
<1>1. /\ queue \in Seq(AnyMsg) /\ queue # <<>>
      /\ Msg = queue[1] /\ r \in Seq(AnyMsg)
      /\ Len(r) = Len(queue) - 1 /\ Len(queue) \in Nat \ {0}
      /\ \A i \in 1..Len(r) : r[i] = queue[i + 1]
      /\ Queued(queue) = {Msg} \cup Queued(r)
  BY Pop DEF Moves, TypeOK, AnyMsg, Msg
<1>2. OneIo(r)
  BY <1>1 DEF OneIo
<1>3. SlaveIo(Msg) => \A m \in Queued(r) : SlaveIo(m) => m.to # Msg.to
  <2>1. ASSUME NEW i \in 1..Len(r), SlaveIo(Msg), SlaveIo(r[i]) PROVE r[i].to # Msg.to
    <3>1. i + 1 \in 1..Len(queue) /\ 1 \in 1..Len(queue) /\ i + 1 # 1
      BY <1>1
    <3>2. QED
      BY <1>1, <2>1, <3>1 DEF OneIo
  <2>2. QED
    BY <2>1 DEF Queued
<1>4. CASE Consume(<<>>) /\ X = {}
  <2>1. queue' = r
    BY <1>1, <1>4 DEF Consume
  <2>2. QED
    BY <1>1, <1>2, <1>3, <1>4, <2>1
<1>5. CASE \E x \in X : Consume(<<x>>) /\ X = {x}
  <2>1. PICK x \in X : Consume(<<x>>) /\ X = {x}
    BY <1>5
  <2>2. x \in AnyMsg /\ ~SlaveIo(x)
    BY DEF Moves, SlaveIo
  <2>3. queue' = r \o <<x>>
    BY <2>1 DEF Consume
  <2> HIDE DEF r
  <2>4. /\ Len(queue') = Len(r) + 1 /\ Len(r) \in Nat
        /\ \A i \in 1..Len(r) : queue'[i] = r[i]
        /\ queue'[Len(r) + 1] = x
        /\ Queued(queue') = Queued(r) \cup {x}
    BY <1>1, <2>2, <2>3, Push
  <2>5. \A i \in 1..Len(queue') : SlaveIo(queue'[i]) => i \in 1..Len(r) /\ queue'[i] = r[i]
    BY <2>2, <2>4
  <2>6. OneIo(queue')
    BY <1>2, <2>5 DEF OneIo
  <2>7. QED
    BY <1>1, <1>3, <2>1, <2>2, <2>4, <2>6 DEF r
<1>6. QED
  BY <1>4, <1>5 DEF Moves

\* A slave takes a message it sent in recv or in send by leaving.
LEMMA LeavesAtOnce ==
    ASSUME TypeOK, NEW s \in Slave, NEW a \in {"recv", "send"}, NEW c \in {0, 1},
           st[s] = a, Msg = Sent(s, s, c, a), Dispatch
    PROVE  st'[s] # a
<1>1. /\ Msg.to = s /\ Msg.from = s /\ Msg.code \in {0, 1}
      /\ s # Master /\ s # "os" /\ st \in [Machine -> States] /\ s \in Machine
  BY EchoAssumption DEF Sent, TypeOK, Machine
<1>2. Expected(Msg)
  BY <1>1 DEF Expected, Defined
<1>3. ~Ends /\ ~MasterStep
  BY <1>1, <1>2 DEF Ends, MasterStep, MasterToWork, NewClient, TurnAway, ListenFails, Gets, Hears
<1>4. SlaveStep(s)
  <2>1. PICK t \in Slave : SlaveStep(t)
    BY <1>3 DEF Dispatch
  <2>2. Msg.to = t
    BY <2>1 DEF SlaveStep, InitToIdle, Accept, NoAccept, ToRecv, ToSend, Tick, Receive, NoRoom,
       Error, WriteAll, WriteSome, WriteFails, WriteBlocks, Killed, ToDone, DoneToIdle,
       Gets, Hears
  <2>3. QED
    BY <1>1, <2>1, <2>2
<1>5. \/ ToDone(s)
      \/ ToSend(s) /\ a = "recv"
      \/ ToRecv(s) /\ a = "send"
  BY <1>1, <1>4 DEF SlaveStep, InitToIdle, Accept, NoAccept, ToRecv, ToSend, Tick, Receive, NoRoom,
     Error, WriteAll, WriteSome, WriteFails, WriteBlocks, Killed, DoneToIdle, Gets, Hears
<1>6. QED
  BY <1>1, <1>5 DEF ToRecv, ToSend, ToDone, Go

\* A slave that stays in its state with its buffer as it was.
LEMMA LeavesStays ==
    ASSUME TypeOK, OneIo(queue), [Next]_vars, ~Wait, NEW s \in Slave, Leaves(s),
           st'[s] = st[s], dbuf'[s] = dbuf[s]
    PROVE  Leaves(s)'
<1> SUFFICES ASSUME st[s] = "recv", dbuf[s].pos # dbuf[s].cnt
             PROVE  /\ \E m \in Queued(queue') : Leaving(s, m)
                    /\ Os(s, "in") \notin Queued(queue')
  BY DEF Leaves, Leaving
<1>1. CASE queue' = queue
  BY <1>1 DEF Leaves
<1>2. ASSUME Dispatch, NEW X, Moves(X)
      PROVE  /\ \E m \in Queued(queue') : Leaving(s, m)
             /\ Os(s, "in") \notin Queued(queue')
  <2>1. /\ Queued(queue') = Queued(Tail(queue)) \cup X
        /\ Queued(queue) = {Msg} \cup Queued(Tail(queue))
    BY <1>2, Moved
  <2>2. PICK m \in Queued(queue) : Leaving(s, m)
    BY DEF Leaves
  <2>3. m # Msg
    BY <1>2, <2>2, LeavesAtOnce DEF Leaving
  <2>4. Os(s, "in") \notin X
    BY <1>2 DEF Moves, Os
  <2>5. QED
    BY <2>1, <2>2, <2>3, <2>4 DEF Leaves
<1>3. QED
  BY <1>1, <1>2, QueueMoves

\* The step of a slave keeps what it has received.
LEMMA KeptSlave ==
    ASSUME FitInv, KeptInv, NEW s \in Slave, LineSlaveStep(s)
    PROVE  Leaves(s)' /\ Kept(s)'
<1>1. /\ TypeOK /\ OneIo(queue) /\ Leaves(s) /\ Kept(s) /\ Fitting(s)
      /\ dbuf[s] \in Buffer /\ Backed(dbuf[s]) /\ turn[s].got \in Nat
      /\ dbuf[s].pos \in Nat /\ dbuf[s].cnt \in Nat /\ dbuf[s].len \in Nat
  BY DEF FitInv, LineTypes, KeptInv, Fitting, Buffer, Turn
<1>2. /\ SlaveStep(s) /\ [Next]_vars /\ ~Wait
  <2>1. SlaveStep(s)
    BY DEF LineSlaveStep, LineReceive, LineNoRoom, LineToRecv, LineToDone, LineError,
       LineWriteAll, LineWriteSome, LineWriteFails, SlaveStep
  <2>2. pc = "exec"
    BY <2>1 DEF SlaveStep, InitToIdle, Accept, NoAccept, ToRecv, ToSend, Tick, Receive, NoRoom,
       Error, WriteAll, WriteSome, WriteFails, WriteBlocks, Killed, ToDone, DoneToIdle,
       Gets, Hears
  <2>3. QED
    BY <2>1, <2>2 DEF Next, Dispatch, Wait
<1>3. PICK d, u :
         /\ Sets(s, d, u)
         /\ \/ \E n \in Nat, complete \in BOOLEAN : Fills(s, d, u, n, complete)
            \/ Rewinds(s, d, u) \/ Enters(s, d, u) \/ Stays(s, d, u)
            \/ st'[s] # "recv"
  BY SlaveSets
<1>4. dbuf'[s] = d /\ turn'[s] = u
  BY <1>3 DEF Sets, FitInv, LineTypes
\* The slave has heard event e and its message c is on the way: it reads no more.
<1>5. ASSUME NEW e \in {"in", "err"}, NEW c \in {0, 1}, Hears(s, e),
             Consume(<<Sent(s, s, c, "recv")>>)
      PROVE  /\ \E m \in Queued(queue') : Leaving(s, m)
             /\ Os(s, "in") \notin Queued(queue')
  <2> DEFINE x == Sent(s, s, c, "recv")
  <2>1. x \in AnyMsg /\ x.from # "os"
    <3>1. s # "os" /\ s \in Machine
      BY EchoAssumption DEF Machine
    <3>2. QED
      BY <3>1, SentType DEF Sent, Codes, States
  <2>2. Moves({x})
    BY <1>5, <2>1 DEF Moves, Hears
  <2>3. SlaveIo(Msg) /\ Msg.to = s
    BY <1>5 DEF Hears, SlaveIo
  <2>4. SlaveIo(Os(s, "in")) /\ Os(s, "in").to = s
    BY DEF SlaveIo, Os
  <2>5. Leaving(s, x) /\ x \in Queued(queue')
    BY <1>1, <2>2, Moved DEF Leaving
  <2>6. QED
    BY <1>1, <2>2, <2>3, <2>4, <2>5, Moved
<1>6. ASSUME NEW n \in Nat, NEW complete \in BOOLEAN, Fills(s, d, u, n, complete)
      PROVE  Leaves(s)' /\ Kept(s)'
  <2>1. st[s] = "recv" /\ Hears(s, "in")
    BY <1>6 DEF Fills
  <2>2. dbuf[s].pos = dbuf[s].cnt
    <3>1. Msg = Os(s, "in")
      <4>1. Msg \in AnyMsg
        BY <2>1, Pop DEF Hears, Msg, TypeOK, FitInv, AnyMsg
      <4>2. QED
        BY <2>1, <4>1, ReportIs DEF Hears
    <3>2. Msg \in Queued(queue)
      BY <2>1, Pop DEF Hears, Msg, TypeOK, FitInv, AnyMsg
    <3>3. QED
      BY <1>1, <2>1, <3>1, <3>2 DEF Leaves
  <2>3. dbuf[s].cnt = turn[s].got /\ dbuf[s].cnt <= dbuf[s].len
    BY <1>1, <2>1 DEF Kept, Fitting
  <2>4. PICK k \in Nat : k = turn[s].got + 1
    BY <1>1
  <2> DEFINE x == Expanded(dbuf[s], n)
  <2>5. /\ x \in Buffer /\ Backed(x) /\ x.pos = dbuf[s].pos /\ x.cnt = dbuf[s].cnt
        /\ dbuf[s].cnt + n <= x.len /\ x.len \in Nat
        /\ \A i \in 0..(dbuf[s].len - 1) : i \in DOMAIN x.cell /\ x.cell[i] = dbuf[s].cell[i]
    BY <1>1, <2>3, ExpandedOK DEF Buffer
  <2>6. d = Filled(x, n, k, complete)
    BY <1>6, <2>4 DEF Fills
  <2> HIDE DEF x
  <2>7. \A i \in 0..(x.len - 1) :
           d.cell[i] = IF i \in x.pos..(x.pos + n - 1) THEN k + i - x.pos ELSE x.cell[i]
    BY <2>2, <2>5, <2>6, FilledOK
  <2>8. d.cnt = dbuf[s].cnt + n /\ u.got = turn[s].got + n
        /\ d.pos = (IF complete THEN dbuf[s].pos ELSE dbuf[s].pos + n)
    BY <1>6 DEF Fills
  <2>9. ASSUME NEW i \in 0..(d.cnt - 1) PROVE d.cell[i] = i + 1
    <3>1. i \in 0..(x.len - 1)
      BY <1>1, <2>5, <2>8
    <3>2. CASE i < dbuf[s].cnt
      <4>1. i \in 0..(dbuf[s].len - 1) /\ i \in 0..(dbuf[s].cnt - 1) /\ i \notin x.pos..(x.pos + n - 1)
        BY <1>1, <2>2, <2>3, <2>5, <3>2
      <4>2. d.cell[i] = dbuf[s].cell[i]
        BY <2>5, <2>7, <3>1, <4>1
      <4>3. QED
        BY <1>1, <2>1, <4>1, <4>2 DEF Kept
    <3>3. CASE ~(i < dbuf[s].cnt)
      <4>1. i \in x.pos..(x.pos + n - 1)
        BY <1>1, <2>2, <2>5, <2>8, <3>3
      <4>2. d.cell[i] = k + i - x.pos
        BY <2>7, <3>1, <4>1
      <4>3. QED
        BY <1>1, <2>2, <2>3, <2>4, <2>5, <4>2
    <3>4. QED
      BY <3>2, <3>3
  <2>10. Kept(s)'
    BY <1>4, <2>3, <2>8, <2>9 DEF Kept
  <2>11. Leaves(s)'
    <3>1. CASE complete
      <4>1. Consume(<<Sent(s, s, 0, "recv")>>)
        BY <1>6, <3>1 DEF Fills
      <4>2. QED
        BY <1>5, <2>1, <4>1 DEF Leaves, Leaving
    <3>2. CASE ~complete
      BY <1>4, <2>2, <2>8, <3>2 DEF Leaves
    <3>3. QED
      BY <3>1, <3>2
  <2>12. QED
    BY <2>10, <2>11
<1>7. CASE Rewinds(s, d, u)
  <2>1. Leaves(s)'
    BY <1>5, <1>7 DEF Rewinds, Leaves, Leaving
  <2>2. Kept(s)'
    BY <1>1, <1>4, <1>7 DEF Rewinds, Kept
  <2>3. QED
    BY <2>1, <2>2
<1>8. CASE Enters(s, d, u)
  BY <1>4, <1>8 DEF Enters, Leaves, Kept
<1>9. CASE Stays(s, d, u)
  <2>1. Leaves(s)'
    BY <1>1, <1>2, <1>4, <1>9, LeavesStays DEF Stays
  <2>2. Kept(s)'
    BY <1>1, <1>4, <1>9 DEF Stays, Kept
  <2>3. QED
    BY <2>1, <2>2
<1>10. CASE st'[s] # "recv"
  BY <1>10 DEF Leaves, Kept
<1>11. QED
  BY <1>3, <1>6, <1>7, <1>8, <1>9, <1>10

\* A wait reports each channel once, and finds no slave about to leave.
LEMMA KeptWait ==
    ASSUME FitInv, KeptInv, pc = "wait" => queue = <<>>, Wait,
           UNCHANGED <<dbuf, turn>>
    PROVE  KeptInv'
<1>1. TypeOK /\ queue = <<>> /\ st' = st
  BY DEF FitInv, Wait
<1>2. PICK a, b, c \in Seq(AnyMsg) :
         /\ queue' = (a \o b) \o c
         /\ \A i \in 1..Len(a) : MasterReport(a[i])
         /\ \A i \in 1..Len(b) : TimerReport(b[i])
         /\ \A i, j \in 1..Len(c) : c[i].to = c[j].to => i = j
  BY <1>1, WaitParts
<1>3. \A i \in 1..Len(a) : ~SlaveIo(a[i])
  BY <1>2, EchoAssumption DEF MasterReport, SlaveIo, Os
<1>4. \A i \in 1..Len(b) : ~SlaveIo(b[i])
  <2>1. ASSUME NEW m, TimerReport(m) PROVE ~SlaveIo(m)
    BY <2>1 DEF TimerReport, SlaveIo, Os
  <2>2. QED
    BY <1>2, <2>1
<1> DEFINE ab == a \o b
<1>5. ab \in Seq(AnyMsg) /\ \A i \in 1..Len(ab) : ~SlaveIo(ab[i])
  <2>1. ab \in Seq(AnyMsg) /\ Len(a) \in Nat
    OBVIOUS
  <2>2. QED
    BY <1>3, <1>4, <2>1, TwoParts
<1> HIDE DEF ab
<1>6. \A i \in 1..Len(queue') :
         SlaveIo(queue'[i]) => i - Len(ab) \in 1..Len(c) /\ queue'[i] = c[i - Len(ab)]
  BY <1>2, <1>5, TwoParts DEF ab
<1>7. OneIo(queue')
  <2> SUFFICES ASSUME NEW i \in 1..Len(queue'), NEW j \in 1..Len(queue'),
                      SlaveIo(queue'[i]), SlaveIo(queue'[j]), queue'[i].to = queue'[j].to
               PROVE  i = j
    BY DEF OneIo
  <2>1. i - Len(ab) = j - Len(ab)
    BY <1>2, <1>6
  <2>2. QED
    BY <1>5, <2>1
<1>8. \A s \in Slave : dbuf[s].pos # dbuf[s].cnt => st[s] # "recv"
  <2>1. Queued(queue) = {}
    BY <1>1 DEF Queued
  <2>2. QED
    BY <2>1 DEF KeptInv, Leaves
<1>9. QED
  BY <1>1, <1>7, <1>8 DEF KeptInv, Leaves, Kept

\* Every step keeps what was received.
LEMMA KeptStep ==
    ASSUME IInv, FitInv, KeptInv, [LineNext]_lineVars
    PROVE  KeptInv'
<1>1. TypeOK /\ OneIo(queue) /\ [Next]_vars /\ (pc = "wait" => queue = <<>>)
  BY LineStepIsStep DEF FitInv, KeptInv, IInv
<1>2. ~Wait => OneIo(queue')
  <2>1. ASSUME ~Wait, NEW X, Moves(X) PROVE OneIo(queue')
    BY <1>1, <2>1, Moved
  <2>2. QED
    BY <1>1, <2>1, QueueMoves
<1>3. ASSUME NEW s \in Slave, LineSlaveStep(s) PROVE KeptInv'
  <2>1. Leaves(s)' /\ Kept(s)'
    BY <1>3, KeptSlave
  <2>2. ~Wait
    BY <1>3 DEF LineSlaveStep, LineReceive, LineNoRoom, LineToRecv, LineToDone, LineError,
       LineWriteAll, LineWriteSome, LineWriteFails, InitToIdle, Accept, NoAccept,
       ToRecv, ToSend, Tick, Receive, NoRoom, Error, WriteAll, WriteSome, WriteFails, WriteBlocks,
       Killed, ToDone, DoneToIdle, Gets, Hears, Wait
  <2>3. ASSUME NEW t \in Slave, t # s PROVE Leaves(t)' /\ Kept(t)'
    <3>1. dbuf'[t] = dbuf[t] /\ turn'[t] = turn[t]
      BY <1>3, <2>3, SlaveSets DEF Sets, FitInv, LineTypes
    <3>2. st'[t] = st[t]
      BY <1>3, <2>3, OneState
    <3>3. Leaves(t) /\ Kept(t)
      BY DEF KeptInv
    <3>4. QED
      BY <1>1, <2>2, <3>1, <3>2, <3>3, LeavesStays DEF Kept
  <2>4. QED
    BY <1>2, <2>1, <2>2, <2>3 DEF KeptInv
<1>4. CASE UNCHANGED <<dbuf, turn>> /\ \A t \in Slave : st'[t] = st[t]
  <2>1. CASE Wait
    BY <1>1, <1>4, <2>1, KeptWait
  <2>2. CASE ~Wait
    <3>1. ASSUME NEW t \in Slave PROVE Leaves(t)' /\ Kept(t)'
      <4>1. Leaves(t) /\ Kept(t) /\ dbuf'[t] = dbuf[t] /\ st'[t] = st[t] /\ turn' = turn
        BY <1>4 DEF KeptInv
      <4>2. QED
        BY <1>1, <2>2, <4>1, LeavesStays DEF Kept
    <3>2. QED
      BY <1>2, <2>2, <3>1 DEF KeptInv
  <2>3. QED
    BY <2>1, <2>2
<1>5. QED
  BY <1>3, <1>4, StepKinds

\* At first no slave receives, and no channel is reported.
LEMMA InitKept == ASSUME LineInit PROVE KeptInv
<1>1. Init /\ TypeOK
  BY InitType DEF LineInit
<1>2. \A s \in Slave : st[s] = "init"
  BY <1>1 DEF Init, Machine
<1>3. \A i \in 1..Len(queue) : queue[i].from # "os"
  <2> DEFINE firsts == [i \in DOMAIN pool |-> Sent(pool[i], pool[i], 0, "init")]
             last == <<Sent(Master, Master, 0, "init")>>
  <2>1. pool \in Seq(Slave) /\ DOMAIN pool = 1..Len(pool) /\ Len(pool) \in Nat
    BY <1>1 DEF TypeOK
  <2>2. firsts \in Seq(AnyMsg) /\ Len(firsts) = Len(pool)
    <3>1. \A i \in DOMAIN pool : Sent(pool[i], pool[i], 0, "init") \in AnyMsg
      BY <2>1, SentType DEF Machine, Codes, States
    <3>2. QED
      BY <2>1, <3>1
  <2>3. last \in Seq(AnyMsg) /\ Len(last) = 1 /\ last[1] = Sent(Master, Master, 0, "init")
    BY SentType DEF Machine, Codes, States
  <2>4. \A m \in Machine : m # "os"
    BY EchoAssumption DEF Machine
  <2>5. \A i \in 1..Len(firsts) : firsts[i].from # "os"
    BY <2>1, <2>2, <2>4 DEF Sent, Machine
  <2>6. \A i \in 1..Len(last) : last[i].from # "os"
    BY <2>3, <2>4 DEF Sent, Machine
  <2> HIDE DEF firsts, last
  <2>7. queue = firsts \o last
    BY <1>1 DEF Init, firsts, last
  <2>8. QED
    BY <2>2, <2>3, <2>5, <2>6, <2>7, TwoParts
<1>4. OneIo(queue)
  BY <1>3 DEF OneIo, SlaveIo
<1>5. QED
  BY <1>2, <1>4 DEF KeptInv, Leaves, Kept

\* For lines of any length, in any pieces, and however the buffer grew: while a
\* slave receives, the first cnt cells of its buffer are what its client sent,
\* in order, so that the last byte is the one esma_dbuf_get_last tests.
THEOREM LinesAreKept == LineSpec => []LineIsKept
<1> DEFINE Inv == IInv /\ FitInv /\ KeptInv
<1>1. LineInit => Inv
  BY InitInv, InitFits, InitKept DEF LineInit
<1>2. Inv /\ [LineNext]_lineVars => Inv'
  BY InvStep, FitStep, KeptStep, LineStepIsStep
<1>3. Inv => LineIsKept
  <2> SUFFICES ASSUME Inv, NEW s \in Slave, st[s] = "recv"
               PROVE  /\ dbuf[s].cnt = turn[s].got
                      /\ \A i \in 0..(dbuf[s].cnt - 1) : Cell(dbuf[s], i) = i + 1
    BY DEF LineIsKept
  <2>1. Kept(s) /\ Fitting(s) /\ dbuf[s] \in Buffer /\ dbuf[s].len \in Nat /\ dbuf[s].cnt \in Nat
    BY DEF KeptInv, FitInv, LineTypes, Buffer
  <2>2. ASSUME NEW i \in 0..(dbuf[s].cnt - 1) PROVE Cell(dbuf[s], i) = dbuf[s].cell[i]
    <3>1. Backed(dbuf[s]) /\ i \in Int /\ i \in 0..(dbuf[s].len - 1)
      BY <2>1 DEF Fitting
    <3>2. QED
      BY <2>1, <3>1, CellOK
  <2>3. QED
    BY <2>1, <2>2 DEF Kept
<1>4. QED
  BY <1>1, <1>2, <1>3, PTL DEF LineSpec

----------------------------------------------------------------------------
(* What is sent back.                                                      *)

\* What is left in the buffer follows what was sent back.
Rest(s) ==
    LET t == turn[s]  d == dbuf[s] IN
    /\ Len(t.back) + d.cnt = t.got
    /\ \A i \in 1..d.cnt : Cell(d, d.pos + i - 1) = Len(t.back) + i

\* In send there is that rest, or no write will follow: all has been sent, or
\* the slave has given up and is about to hang up.
Sending(s) ==
    \/ io[s] # "off" /\ Rest(s)
    \/ /\ Os(s, "out") \notin Queued(queue)
       /\ \/ io[s] = "off" /\ Len(turn[s].back) = turn[s].got
          \/ io[s] # "off" /\ Sent(s, s, 1, "send") \in Queued(queue)

\* The turn of a slave that has read at most one piece.
Whole(s) ==
    turn[s].pieces <= 1 =>
        /\ Len(turn[s].back) <= turn[s].got
        /\ \A i \in 1..Len(turn[s].back) : turn[s].back[i] = i
        /\ st[s] = "recv" =>
              turn[s].back = <<>> /\ (turn[s].pieces = 0 => dbuf[s].pos = 0)
        /\ st[s] = "send" => Sending(s)

\* A slave about to send has read its last piece, and if it was the only one
\* pos is where the line begins.
LastPiece(s) ==
    st[s] = "recv" /\ (\E m \in Queued(queue) : Zero(s, m)) =>
        /\ Os(s, "in") \notin Queued(queue)
        /\ turn[s].pieces <= 1 => dbuf[s].pos = 0

WholeInv == \A s \in Slave : Whole(s) /\ LastPiece(s)

\* A slave that stays in its state, hears of its channel's mask or buffer no
\* change that matters, and is sent nothing that takes it on.
LEMMA WholeMoves ==
    ASSUME TypeOK, OneIo(queue), NEW s \in Slave, Whole(s), LastPiece(s),
           \/ queue' = queue
           \/ Dispatch /\ \E X : Moves(X) /\ \A x \in X : ~Zero(s, x),
           st'[s] = st[s], io'[s] = io[s], turn'[s] = turn[s],
           dbuf'[s] = dbuf[s] \/ (st[s] = "recv" /\ dbuf'[s].pos = 0)
    PROVE  Whole(s)' /\ LastPiece(s)'
<1>1. /\ \A m \in Queued(queue') : m.from = "os" \/ Zero(s, m) => m \in Queued(queue)
      /\ st[s] = "send" /\ Sent(s, s, 1, "send") \in Queued(queue) =>
            Sent(s, s, 1, "send") \in Queued(queue')
  <2>1. CASE queue' = queue
    BY <2>1
  <2>2. ASSUME Dispatch, NEW X, Moves(X), \A x \in X : ~Zero(s, x)
        PROVE  <1>1
    <3>1. /\ Queued(queue') = Queued(Tail(queue)) \cup X
          /\ Queued(queue) = {Msg} \cup Queued(Tail(queue))
      BY <2>2, Moved
    <3>2. \A x \in X : x.from # "os"
      BY <2>2 DEF Moves
    <3>3. st[s] = "send" => Msg # Sent(s, s, 1, "send")
      BY <2>2, LeavesAtOnce
    <3>4. QED
      BY <2>2, <3>1, <3>2, <3>3
  <2>3. QED
    BY <2>1, <2>2
<1>2. Os(s, "in").from = "os" /\ Os(s, "out").from = "os"
  BY DEF Os
<1>3. LastPiece(s)'
  BY <1>1, <1>2 DEF LastPiece, Zero
<1>4. st[s] = "send" /\ Sending(s) => Sending(s)'
  <2>1. Rest(s) /\ st[s] = "send" => Rest(s)'
    BY DEF Rest
  <2>2. QED
    BY <1>1, <1>2, <2>1 DEF Sending
<1>5. Whole(s)'
  BY <1>4 DEF Whole
<1>6. QED
  BY <1>3, <1>5

\* A slave that is neither in recv nor in send afterwards.
LEMMA WholeAway ==
    ASSUME NEW s \in Slave, Whole(s), st'[s] \notin {"recv", "send"}, turn'[s] = turn[s]
    PROVE  Whole(s)' /\ LastPiece(s)'
BY DEF Whole, LastPiece

\* Steps of a slave that send nothing, or that it is to hang up.
LEMMA WholeHears ==
    ASSUME TypeOK, OneIo(queue), NEW s \in Slave, Whole(s), LastPiece(s), SlaveStep(s),
           Consume(<<>>) \/ \E a \in States : Consume(<<Sent(s, s, 1, a)>>),
           st'[s] = st[s], io'[s] = io[s], turn'[s] = turn[s],
           dbuf'[s] = dbuf[s] \/ (st[s] = "recv" /\ dbuf'[s].pos = 0)
    PROVE  Whole(s)' /\ LastPiece(s)'
<1>1. queue # <<>> /\ s \in Machine
  BY DEF SlaveStep, InitToIdle, Accept, NoAccept, ToRecv, ToSend, Tick, Receive,
     NoRoom, Error, WriteAll, WriteSome, WriteFails, WriteBlocks, Killed, ToDone, DoneToIdle,
     Gets, Hears, Machine
<1>2. CASE Consume(<<>>)
  <2>1. Moves({})
    BY <1>1, <1>2, OneMove
  <2>2. QED
    BY <2>1, WholeMoves DEF Dispatch
<1>3. ASSUME NEW a \in States, Consume(<<Sent(s, s, 1, a)>>)
      PROVE  Whole(s)' /\ LastPiece(s)'
  <2>1. Moves({Sent(s, s, 1, a)}) /\ Sent(s, s, 1, a).code = 1
    BY <1>1, <1>3, OneMove DEF Sent, Codes
  <2>2. \A x \in {Sent(s, s, 1, a)} : ~Zero(s, x)
    BY <2>1 DEF Zero
  <2>3. QED
    BY <2>1, <2>2, WholeMoves DEF Dispatch
<1>4. QED
  BY <1>2, <1>3

\* Entering recv and send.
LEMMA WholeEnters ==
    ASSUME IInv, FitInv, KeptInv, NEW s \in Slave, Whole(s), LastPiece(s),
           LineToRecv(s) \/ (ToSend(s) /\ UNCHANGED bytes)
    PROVE  Whole(s)' /\ LastPiece(s)'
<1>1. /\ TypeOK /\ OneIo(queue) /\ queue \in Seq(AnyMsg) /\ queue # <<>> /\ s \in Machine
      /\ st \in [Machine -> States] /\ io \in [Slave -> {"none", "off", "in", "out"}]
      /\ turn[s].got \in Nat /\ turn[s].pieces \in Nat /\ dbuf[s] \in Buffer
      /\ dbuf[s].cnt \in Nat /\ dbuf[s].len \in Nat
      /\ Consume(<<>>) /\ Msg.from # "os"
  BY DEF IInv, KeptInv, TypeOK, AnyMsg, Machine, FitInv, LineTypes, Turn, Buffer,
     LineToRecv, ToRecv, ToSend, Gets
<1>2. /\ Queued(queue') = Queued(Tail(queue))
      /\ Queued(queue) = {Msg} \cup Queued(Tail(queue))
  <2> DEFINE X == {}
  <2>1. Moves(X)
    BY <1>1, OneMove
  <2>2. \A m : m \notin X
    OBVIOUS
  <2> HIDE DEF X
  <2>3. /\ Queued(queue') = Queued(Tail(queue)) \cup X
        /\ Queued(queue) = {Msg} \cup Queued(Tail(queue))
    BY <1>1, <2>1, Moved
  <2>4. QED
    BY <2>2, <2>3
<1>3. CASE LineToRecv(s)
  <2>1. turn'[s] = NewTurn /\ dbuf'[s] = Cleared(dbuf[s].len)
    BY <1>3 DEF LineToRecv, FitInv, LineTypes
  <2>2. dbuf'[s].pos = 0
    BY <1>1, <2>1, ClearedOK
  <2>3. Os(s, "in") \notin Queued(queue')
    <3>1. \A m \in Queued(Tail(queue)) : m.from # "os"
      BY <1>1, HeadFacts DEF IInv, Msg
    <3>2. QED
      BY <1>2, <3>1 DEF Os
  <2>4. st'[s] = "recv"
    BY <1>1, <1>3 DEF LineToRecv, ToRecv, Go
  <2>5. Len(<<>>) = 0 /\ turn'[s].back = <<>> /\ turn'[s].got = 0
    BY <2>1 DEF NewTurn
  <2>6. QED
    BY <2>2, <2>3, <2>4, <2>5 DEF Whole, LastPiece
<1>4. CASE ToSend(s) /\ UNCHANGED bytes
  <2>1. /\ st[s] = "recv" /\ st'[s] = "send" /\ io'[s] # "off"
        /\ turn' = turn /\ dbuf' = dbuf /\ Zero(s, Msg)
    BY <1>1, <1>4 DEF ToSend, Gets, Go, Poll, bytes, Zero
  <2>2. ASSUME turn[s].pieces <= 1 PROVE Rest(s)
    <3>1. turn[s].back = <<>> /\ dbuf[s].pos = 0
      BY <1>2, <2>1, <2>2 DEF Whole, LastPiece
    <3>2. /\ dbuf[s].cnt = turn[s].got /\ dbuf[s].cnt <= dbuf[s].len /\ Backed(dbuf[s])
          /\ \A i \in 0..(dbuf[s].cnt - 1) : dbuf[s].cell[i] = i + 1
      BY <2>1 DEF KeptInv, Kept, FitInv, Fitting
    <3>3. ASSUME NEW i \in 1..dbuf[s].cnt PROVE Cell(dbuf[s], dbuf[s].pos + i - 1) = i
      <4>1. PICK j \in 0..(dbuf[s].cnt - 1) : j = i - 1 /\ dbuf[s].pos + i - 1 = j
        BY <1>1, <3>1
      <4>2. j \in 0..(dbuf[s].len - 1) /\ j \in Int
        BY <1>1, <3>2
      <4>3. Cell(dbuf[s], j) = dbuf[s].cell[j]
        BY <1>1, <3>2, <4>2, CellOK
      <4>4. QED
        BY <3>2, <4>1, <4>3
    <3>4. Len(<<>>) = 0
      OBVIOUS
    <3>5. QED
      BY <1>1, <3>1, <3>2, <3>3, <3>4 DEF Rest
  <2>3. turn[s].pieces <= 1 => Sending(s)'
    BY <2>1, <2>2 DEF Sending, Rest
  <2>4. QED
    BY <2>1, <2>3 DEF Whole, LastPiece
<1>5. QED
  BY <1>3, <1>4

\* b is the beginning of a line, and the next n units in buffer d follow it.
Begins(b) == \A i \in 1..Len(b) : b[i] = i
Follow(d, n, b) == \A i \in 1..n : Cell(d, d.pos + i - 1) = Len(b) + i

\* n units are sent back that follow what was.
LEMMA BackGrows ==
    ASSUME NEW d, NEW b \in Seq(Nat), NEW n \in Nat, Begins(b), Follow(d, n, b)
    PROVE  Len(b \o Out(d, n)) = Len(b) + n /\ Begins(b \o Out(d, n))
<1> DEFINE o == Out(d, n)
<1>1. Len(b) \in Nat
  OBVIOUS
<1>2. o \in Seq(Nat) /\ Len(o) = n /\ \A i \in 1..n : o[i] = Len(b) + i
  <2>1. o = [i \in 1..n |-> Cell(d, d.pos + i - 1)]
    BY DEF Out
  <2>2. \A i \in 1..n : Cell(d, d.pos + i - 1) = Len(b) + i
    BY DEF Follow
  <2>3. \A i \in 1..n : Cell(d, d.pos + i - 1) \in Nat
    BY <1>1, <2>2
  <2> HIDE DEF o
  <2>4. QED
    BY <2>1, <2>2, <2>3
<1> HIDE DEF o
<1>3. Len(b \o o) = Len(b) + n
  <2>1. Len(b \o o) = Len(b) + Len(o)
    BY <1>2, Items
  <2>2. QED
    BY <1>2, <2>1
<1>4. ASSUME NEW i \in 1..(Len(b) + n) PROVE (b \o o)[i] = i
  <2>1. CASE i \in 1..Len(b)
    BY <1>2, <2>1, Items DEF Begins
  <2>2. CASE i \notin 1..Len(b)
    <3>1. i \in (Len(b) + 1)..(Len(b) + Len(o)) /\ i - Len(b) \in 1..n
      BY <1>1, <1>2, <2>2
    <3>2. (b \o o)[i] = o[i - Len(b)]
      BY <1>2, <3>1, Items
    <3>3. QED
      BY <1>1, <1>2, <3>1, <3>2
  <2>3. QED
    BY <2>1, <2>2
<1>5. QED
  BY <1>3, <1>4 DEF o, Begins

\* Hearing of a channel: the report is gone, and there is no other of it.
LEMMA ReportGone ==
    ASSUME TypeOK, OneIo(queue), NEW s \in Slave, NEW e \in {"in", "out", "err"}, Hears(s, e),
           NEW X, Moves(X)
    PROVE  /\ Os(s, e) \in Queued(queue) /\ Msg = Os(s, e)
           /\ \A f \in {"in", "out", "err"} : Os(s, f) \notin Queued(queue')
           /\ Queued(queue') = Queued(Tail(queue)) \cup X
           /\ Queued(queue) = {Msg} \cup Queued(Tail(queue))
<1>1. Msg \in AnyMsg /\ Msg.from = "os" /\ Msg.to = s /\ Msg.code = e
  BY Pop DEF Hears, Msg, TypeOK, AnyMsg
<1>2. Msg = Os(s, e)
  BY <1>1, ReportIs
<1>3. SlaveIo(Msg) /\ \A f \in {"in", "out", "err"} : SlaveIo(Os(s, f)) /\ Os(s, f).to = s
  BY <1>1 DEF SlaveIo, Os
<1>4. /\ Queued(queue') = Queued(Tail(queue)) \cup X
      /\ Queued(queue) = {Msg} \cup Queued(Tail(queue))
      /\ SlaveIo(Msg) => \A m \in Queued(queue') : SlaveIo(m) => m.to # Msg.to
  BY Moved
<1>5. QED
  BY <1>1, <1>2, <1>3, <1>4

\* A piece is read.
LEMMA WholeReads ==
    ASSUME FitInv, KeptInv, NEW s \in Slave, Whole(s), LastPiece(s), LineReceive(s)
    PROVE  Whole(s)' /\ LastPiece(s)'
<1>1. /\ TypeOK /\ OneIo(queue) /\ queue # <<>> /\ s \in Machine /\ SlaveStep(s)
      /\ Hears(s, "in") /\ st' = st /\ io' = io
      /\ turn \in [Slave -> Turn] /\ turn[s].pieces \in Nat /\ turn[s].got \in Nat
  BY DEF FitInv, KeptInv, LineTypes, Turn, LineReceive, Receive, SlaveStep, Machine, Hears
<1>2. CASE peer[s] \notin {"part", "line"}
  <2>1. Consume(<<Sent(s, s, 1, "recv")>>) /\ UNCHANGED <<dbuf, turn>>
    BY <1>2 DEF LineReceive, Receive, bytes
  <2>2. QED
    BY <1>1, <2>1, WholeHears DEF States
<1>3. CASE peer[s] \in {"part", "line"}
  <2>1. PICK d, u : /\ Sets(s, d, u)
                    /\ \/ \E n \in Nat, complete \in BOOLEAN : Fills(s, d, u, n, complete)
                       \/ Stays(s, d, u)
    BY ReceiveSets
  <2>2. dbuf'[s] = d /\ turn'[s] = u /\ u.got \in Nat
    BY <2>1 DEF Sets, FitInv, LineTypes, Turn
  <2>3. turn'[s].pieces = turn[s].pieces + 1
    BY <1>1, <1>3 DEF LineReceive, Turn
  <2>4. ~Stays(s, d, u)
    BY <1>1, <2>2, <2>3 DEF Stays
  <2>5. PICK n \in Nat, complete \in BOOLEAN : Fills(s, d, u, n, complete)
    BY <2>1, <2>4
  <2>6. st[s] = "recv" /\ u.back = turn[s].back
    BY <2>5 DEF Fills
  <2>7. u.pieces <= 1 => turn[s].pieces = 0 /\ turn[s].back = <<>> /\ dbuf[s].pos = 0
    BY <1>1, <2>2, <2>3, <2>6 DEF Whole
  <2>8. Whole(s)'
    <3>1. Len(<<>>) = 0
      OBVIOUS
    <3>2. u.pieces # 0
      BY <1>1, <2>2, <2>3
    <3>3. QED
      BY <1>1, <2>2, <2>6, <2>7, <3>1, <3>2 DEF Whole
  <2>9. LastPiece(s)'
    <3>1. CASE complete
      <4>1. Moves({Sent(s, s, 0, "recv")})
        BY <1>1, <2>5, <3>1, OneMove DEF Fills, Codes, States
      <4>2. Os(s, "in") \notin Queued(queue')
        BY <1>1, <4>1, ReportGone
      <4>3. d.pos = dbuf[s].pos
        BY <2>5, <3>1 DEF Fills
      <4>4. QED
        BY <2>2, <2>7, <4>2, <4>3 DEF LastPiece
    <3>2. CASE ~complete
      <4> DEFINE X == {}
      <4>1. Moves(X)
        BY <1>1, <2>5, <3>2, OneMove DEF Fills
      <4>2. \A m : m \notin X
        OBVIOUS
      <4> HIDE DEF X
      <4>3. /\ Os(s, "in") \in Queued(queue)
            /\ Queued(queue') = Queued(Tail(queue)) \cup X
            /\ Queued(queue) = {Msg} \cup Queued(Tail(queue))
        BY <1>1, <4>1, ReportGone
      <4>4. \A m \in Queued(queue') : ~Zero(s, m)
        BY <2>6, <4>2, <4>3 DEF LastPiece
      <4>5. QED
        BY <4>4 DEF LastPiece, Zero
    <3>3. QED
      BY <3>1, <3>2
  <2>10. QED
    BY <2>8, <2>9
<1>4. QED
  BY <1>2, <1>3

\* Some of the rest is sent back, or all, or nothing ever again.
LEMMA WholeWrites ==
    ASSUME FitInv, KeptInv, NEW s \in Slave, Whole(s), LastPiece(s),
           LineWriteAll(s) \/ LineWriteSome(s) \/ LineWriteFails(s)
    PROVE  Whole(s)' /\ LastPiece(s)'
<1>1. /\ TypeOK /\ OneIo(queue) /\ queue # <<>> /\ s \in Machine /\ s # Master
      /\ Hears(s, "out") /\ st' = st /\ io \in [Slave -> {"none", "off", "in", "out"}]
      /\ dbuf \in [Slave -> Buffer] /\ turn \in [Slave -> Turn]
      /\ turn[s].back \in Seq(Nat) /\ turn[s].got \in Nat /\ Len(turn[s].back) \in Nat
      /\ dbuf[s].pos \in Nat /\ dbuf[s].cnt \in Nat
  <2>1. TypeOK /\ OneIo(queue) /\ s \in Machine /\ s # Master
    BY EchoAssumption DEF FitInv, KeptInv, Machine
  <2>2. /\ Hears(s, "out") /\ st' = st
        /\ io \in [Slave -> {"none", "off", "in", "out"}]
    BY <2>1 DEF TypeOK, LineWriteAll, LineWriteSome, LineWriteFails, WriteAll, WriteSome, WriteFails
  <2>3. dbuf \in [Slave -> Buffer] /\ turn \in [Slave -> Turn]
    BY DEF FitInv, LineTypes
  <2>4. dbuf[s] \in Buffer /\ turn[s] \in Turn
    BY <2>3
  <2>5. /\ turn[s].back \in Seq(Nat) /\ turn[s].got \in Nat
        /\ dbuf[s].pos \in Nat /\ dbuf[s].cnt \in Nat
    BY <2>4 DEF Turn, Buffer
  <2>6. Len(turn[s].back) \in Nat
    BY <2>5
  <2>7. QED
    BY <2>1, <2>2, <2>3, <2>5, <2>6 DEF Hears
<1>2. st[s] = "send" /\ io[s] # "none"
  BY <1>1 DEF Hears, HeardIn, Alive
<1>3. /\ LineWriteAll(s) => Moves({Sent(s, s, 0, "send")})
      /\ LineWriteSome(s) => Moves({})
      /\ LineWriteFails(s) => Moves({Sent(s, s, 1, "send")})
  BY <1>1, OneMove DEF LineWriteAll, LineWriteSome, LineWriteFails,
     WriteAll, WriteSome, WriteFails, Codes, States
<1>4. Os(s, "out") \in Queued(queue) /\ Os(s, "out") \notin Queued(queue')
  BY <1>1, <1>3, ReportGone
<1>5. turn[s].pieces <= 1 => Rest(s) /\ io[s] # "off"
  BY <1>2, <1>4 DEF Whole, Sending
<1>6. LastPiece(s)'
  BY <1>1, <1>2 DEF LastPiece
<1>7. ASSUME NEW n \in 0..dbuf[s].cnt, BackBy(s, n), turn[s].pieces <= 1
      PROVE  /\ turn'[s].got = turn[s].got
             /\ Len(turn'[s].back) = Len(turn[s].back) + n
             /\ Len(turn'[s].back) <= turn[s].got
             /\ \A i \in 1..Len(turn'[s].back) : turn'[s].back[i] = i
  <2> DEFINE b == turn[s].back \o Out(dbuf[s], n)
  <2>1. turn'[s].back = b /\ turn'[s].got = turn[s].got
    BY <1>1, <1>7 DEF BackBy, Turn
  <2>2. /\ \A i \in 1..Len(turn[s].back) : turn[s].back[i] = i
        /\ \A i \in 1..n : Cell(dbuf[s], dbuf[s].pos + i - 1) = Len(turn[s].back) + i
        /\ Len(turn[s].back) + dbuf[s].cnt = turn[s].got
    <3>1. 1..n \subseteq 1..dbuf[s].cnt
      BY <1>1
    <3>2. QED
      BY <1>5, <1>7, <3>1 DEF Whole, Rest
  <2>3. /\ Len(b) = Len(turn[s].back) + n
        /\ \A i \in 1..(Len(turn[s].back) + n) : b[i] = i
    <3>1. n \in Nat
      BY <1>1
    <3>2. Begins(turn[s].back) /\ Follow(dbuf[s], n, turn[s].back)
      BY <2>2 DEF Begins, Follow
    <3>3. Len(b) = Len(turn[s].back) + n /\ Begins(b)
      BY <1>1, <3>1, <3>2, BackGrows
    <3> HIDE DEF b
    <3>4. QED
      BY <3>3 DEF Begins
  <2> HIDE DEF b
  <2>4. QED
    BY <1>1, <2>1, <2>2, <2>3
<1>8. CASE LineWriteAll(s)
  <2>1. BackBy(s, dbuf[s].cnt) /\ io'[s] = "off"
    BY <1>1, <1>2, <1>8 DEF LineWriteAll, WriteAll, Poll
  <2>2. turn'[s].pieces = turn[s].pieces
    BY <1>1, <2>1 DEF BackBy, Turn
  <2>3. ASSUME turn[s].pieces <= 1
        PROVE  /\ Len(turn'[s].back) <= turn'[s].got
               /\ \A i \in 1..Len(turn'[s].back) : turn'[s].back[i] = i
               /\ Sending(s)'
    <3>1. /\ turn'[s].got = turn[s].got
          /\ Len(turn'[s].back) = Len(turn[s].back) + dbuf[s].cnt
          /\ Len(turn'[s].back) <= turn[s].got
          /\ \A i \in 1..Len(turn'[s].back) : turn'[s].back[i] = i
      BY <1>1, <1>7, <2>1, <2>3
    <3>2. Len(turn'[s].back) = turn'[s].got
      BY <1>5, <2>3, <3>1 DEF Rest
    <3>3. QED
      BY <1>4, <2>1, <3>1, <3>2 DEF Sending
  <2>4. QED
    BY <1>1, <1>2, <1>6, <2>2, <2>3 DEF Whole
<1>9. CASE LineWriteSome(s)
  <2>1. PICK n \in 1..(dbuf[s].cnt - 1) :
            /\ BackBy(s, n)
            /\ dbuf' = [dbuf EXCEPT ![s].pos = @ + n, ![s].cnt = @ - n]
    BY <1>9 DEF LineWriteSome
  <2>2. /\ turn'[s].pieces = turn[s].pieces /\ io' = io
        /\ dbuf'[s].pos = dbuf[s].pos + n /\ dbuf'[s].cnt = dbuf[s].cnt - n
        /\ dbuf'[s].cell = dbuf[s].cell
    <3>1. turn'[s].pieces = turn[s].pieces /\ io' = io
      <4>1. io' = io
        BY <1>9 DEF LineWriteSome, WriteSome
      <4>2. QED
        BY <1>1, <2>1, <4>1 DEF BackBy, Turn
    <3>2. PICK p, c : p = dbuf[s].pos + n /\ c = dbuf[s].cnt - n
      OBVIOUS
    <3>3. dbuf[s] \in [pos : Nat, cnt : Nat, len : Nat, cell : Cells]
      BY <1>1 DEF Buffer
    <3>4. dbuf'[s] = [dbuf[s] EXCEPT !.pos = p, !.cnt = c]
      BY <1>1, <2>1, <3>2
    <3>5. dbuf'[s].pos = p /\ dbuf'[s].cnt = c /\ dbuf'[s].cell = dbuf[s].cell
      BY <3>3, <3>4
    <3>6. QED
      BY <3>1, <3>2, <3>5
  <2>3. ASSUME turn[s].pieces <= 1
        PROVE  /\ Len(turn'[s].back) <= turn'[s].got
               /\ \A i \in 1..Len(turn'[s].back) : turn'[s].back[i] = i
               /\ Sending(s)'
    <3>1. /\ turn'[s].got = turn[s].got
          /\ Len(turn'[s].back) = Len(turn[s].back) + n
          /\ Len(turn'[s].back) <= turn[s].got
          /\ \A i \in 1..Len(turn'[s].back) : turn'[s].back[i] = i
      BY <1>1, <1>7, <2>1, <2>3
    <3>2. Rest(s) /\ io[s] # "off"
      BY <1>5, <2>3
    <3>3. Len(turn'[s].back) + dbuf'[s].cnt = turn'[s].got
      <4>1. Len(turn[s].back) + dbuf[s].cnt = turn[s].got
        BY <3>2 DEF Rest
      <4>2. n \in Nat
        BY <1>1
      <4>3. (Len(turn[s].back) + n) + (dbuf[s].cnt - n) = turn[s].got
        <5>1. PICK k \in Nat, l \in Nat, g \in Nat :
                k = Len(turn[s].back) /\ l = dbuf[s].cnt /\ g = turn[s].got
          BY <1>1
        <5>2. k + l = g
          BY <4>1, <5>1
        <5>3. (k + n) + (l - n) = g
          BY <4>2, <5>2
        <5>4. QED
          BY <5>1, <5>3
      <4>4. QED
        BY <2>2, <3>1, <4>3
    <3>4. ASSUME NEW i \in 1..dbuf'[s].cnt
          PROVE  Cell(dbuf'[s], dbuf'[s].pos + i - 1) = Len(turn'[s].back) + i
      <4>1. i + n \in 1..dbuf[s].cnt /\ dbuf'[s].pos + i - 1 = dbuf[s].pos + (i + n) - 1
        BY <1>1, <2>1, <2>2
      <4>2. Cell(dbuf[s], dbuf[s].pos + (i + n) - 1) = Len(turn[s].back) + (i + n)
        BY <3>2, <4>1 DEF Rest
      <4>3. Cell(dbuf'[s], dbuf'[s].pos + i - 1) = Cell(dbuf[s], dbuf[s].pos + (i + n) - 1)
        BY <2>2, <4>1 DEF Cell
      <4>4. QED
        BY <1>1, <2>1, <3>1, <4>2, <4>3
    <3>5. QED
      BY <2>2, <3>1, <3>2, <3>3, <3>4 DEF Sending, Rest
  <2>4. QED
    BY <1>1, <1>2, <1>6, <2>2, <2>3 DEF Whole
<1>10. CASE LineWriteFails(s)
  <2>1. turn' = turn /\ io' = io
    BY <1>10 DEF LineWriteFails, WriteFails
  <2>2. Sent(s, s, 1, "send") \in Queued(queue')
    <3>1. Moves({Sent(s, s, 1, "send")})
      BY <1>3, <1>10
    <3>2. QED
      BY <1>1, <3>1, ReportGone
  <2>3. turn[s].pieces <= 1 => Sending(s)'
    BY <1>4, <1>5, <2>1, <2>2 DEF Sending
  <2>4. QED
    BY <1>1, <1>2, <1>6, <2>1, <2>3 DEF Whole
<1>11. QED
  BY <1>8, <1>9, <1>10

\* The step of a slave.
LEMMA WholeSlave ==
    ASSUME IInv, FitInv, KeptInv, NEW s \in Slave, Whole(s), LastPiece(s), LineSlaveStep(s)
    PROVE  Whole(s)' /\ LastPiece(s)'
<1>1. /\ TypeOK /\ OneIo(queue) /\ s \in Machine /\ st \in [Machine -> States]
      /\ dbuf \in [Slave -> Buffer]
  BY DEF FitInv, LineTypes, KeptInv, TypeOK, Machine
<1>2. CASE LineReceive(s)
  BY <1>2, WholeReads
<1>3. CASE LineWriteAll(s) \/ LineWriteSome(s) \/ LineWriteFails(s)
  BY <1>3, WholeWrites
<1>4. CASE LineToRecv(s) \/ (ToSend(s) /\ UNCHANGED bytes)
  BY <1>4, WholeEnters
<1>5. CASE \/ LineNoRoom(s)
           \/ (Tick(s) \/ WriteBlocks(s) \/ Killed(s)) /\ UNCHANGED bytes
  <2>1. /\ SlaveStep(s) /\ st' = st /\ io' = io /\ UNCHANGED <<dbuf, turn>>
        /\ Consume(<<>>) \/ \E a \in States : Consume(<<Sent(s, s, 1, a)>>)
    BY <1>1, <1>5 DEF LineNoRoom, NoRoom, Tick, WriteBlocks, Killed, SlaveStep, bytes, States
  <2>2. QED
    BY <1>1, <2>1, WholeHears
<1>6. CASE LineError(s)
  <2>1. /\ SlaveStep(s) /\ st' = st /\ io' = io /\ turn' = turn
        /\ Consume(<<>>) \/ \E a \in States : Consume(<<Sent(s, s, 1, a)>>)
    BY <1>6 DEF LineError, Error, SlaveStep, States
  <2>2. dbuf'[s] = dbuf[s] \/ (st[s] = "recv" /\ dbuf'[s].pos = 0)
    <3>1. dbuf[s] \in Buffer /\ [dbuf[s] EXCEPT !.pos = dbuf[s].pos] = dbuf[s]
      BY <1>1 DEF Buffer
    <3>2. st[s] = "recv" => dbuf'[s].pos = 0
      BY <1>1, <1>6, <3>1 DEF LineError, Buffer
    <3>3. st[s] # "recv" => dbuf'[s] = dbuf[s]
      BY <1>1, <1>6, <3>1 DEF LineError
    <3>4. QED
      BY <1>1, <1>6, <3>2, <3>3 DEF LineError, Error, Hears, HeardIn
  <2>3. QED
    BY <1>1, <2>1, <2>2, WholeHears
<1>7. CASE \/ LineToDone(s)
           \/ (InitToIdle(s) \/ Accept(s) \/ NoAccept(s) \/ DoneToIdle(s)) /\ UNCHANGED bytes
  <2>1. s # Master
    BY EchoAssumption
  <2>2. st'[s] \notin {"recv", "send"} /\ turn' = turn
    BY <1>1, <1>7, <2>1 DEF LineToDone, ToDone, InitToIdle, Accept, NoAccept, DoneToIdle,
       Gets, Go, bytes
  <2>3. QED
    BY <2>2, WholeAway
<1>8. QED
  BY <1>2, <1>3, <1>4, <1>5, <1>6, <1>7 DEF LineSlaveStep

\* The step of a slave is no matter of the others.
LEMMA WholeOther ==
    ASSUME FitInv, KeptInv, NEW s \in Slave, LineSlaveStep(s),
           NEW t \in Slave, t # s, Whole(t), LastPiece(t)
    PROVE  Whole(t)' /\ LastPiece(t)'
<1>1. TypeOK /\ OneIo(queue) /\ io \in [Slave -> {"none", "off", "in", "out"}]
  BY DEF FitInv, KeptInv, TypeOK
<1>2. SlaveStep(s)
  BY DEF LineSlaveStep, LineReceive, LineNoRoom, LineToRecv, LineToDone, LineError,
     LineWriteAll, LineWriteSome, LineWriteFails, SlaveStep
<1>3. io'[t] = io[t]
  BY <1>1, <1>2 DEF SlaveStep, InitToIdle, Accept, NoAccept, ToRecv, ToSend, Tick, Receive,
     NoRoom, Error, WriteAll, WriteSome, WriteFails, WriteBlocks, Killed, ToDone, DoneToIdle, Poll
<1>4. st'[t] = st[t]
  BY OneState
<1>5. dbuf'[t] = dbuf[t] /\ turn'[t] = turn[t]
  BY SlaveSets DEF Sets, FitInv, LineTypes
<1>6. Dispatch /\ \E X : Moves(X) /\ \A x \in X : ~Zero(t, x)
  <2>1. PICK X : Moves(X) /\ \A x \in X : x.to = s
    BY <1>1, <1>2, SlaveMoves
  <2>2. QED
    BY <1>2, <2>1 DEF Dispatch, Zero
<1>7. QED
  BY <1>1, <1>3, <1>4, <1>5, <1>6, WholeMoves

\* A wait reports a channel only as its mask and its client allow.
LEMMA WholeWait ==
    ASSUME IInv, Wait, UNCHANGED <<dbuf, turn>>, NEW s \in Slave, Whole(s), LastPiece(s)
    PROVE  Whole(s)' /\ LastPiece(s)'
<1>1. TypeOK /\ queue = <<>> /\ st' = st /\ io' = io /\ s # Master /\ Master # "os"
  BY EchoAssumption DEF IInv, Wait
<1>2. Queued(queue) = {}
  BY <1>1 DEF Queued
<1>3. \A m \in Queued(queue') : MasterReport(m) \/ TimerReport(m) \/ IoReport(m)
  BY <1>1, WaitReports
<1>4. \A m \in Queued(queue') : ~Zero(s, m)
  BY <1>3 DEF MasterReport, TimerReport, IoReport, Os, Zero
<1>5. io[s] = "off" => Os(s, "out") \notin Queued(queue')
  <2>1. SUFFICES ASSUME io[s] = "off", Os(s, "out") \in Queued(queue') PROVE FALSE
    OBVIOUS
  <2>2. ~MasterReport(Os(s, "out")) /\ ~TimerReport(Os(s, "out"))
    BY <1>1 DEF MasterReport, TimerReport, Os
  <2>3. PICK t \in Slave, e \in {"in", "out", "err"} : Os(s, "out") = Os(t, e) /\ e \in IoEvents(t)
    BY <1>3, <2>1, <2>2 DEF IoReport
  <2>4. t = s /\ e = "out"
    BY <2>3 DEF Os
  <2>5. QED
    BY <2>1, <2>3, <2>4 DEF IoEvents
<1>6. Sending(s) => Sending(s)'
  <2>1. Rest(s) => Rest(s)'
    BY DEF Rest
  <2>2. QED
    BY <1>1, <1>2, <1>5, <2>1 DEF Sending
<1>7. QED
  BY <1>1, <1>4, <1>6 DEF Whole, LastPiece, Zero

\* Every step keeps a line that came in one piece whole on its way back.
LEMMA WholeStep ==
    ASSUME IInv, FitInv, KeptInv, WholeInv, [LineNext]_lineVars
    PROVE  WholeInv'
<1>1. TypeOK /\ OneIo(queue) /\ \A s \in Slave : Whole(s) /\ LastPiece(s)
  BY DEF FitInv, KeptInv, WholeInv
<1>2. ASSUME NEW s \in Slave, LineSlaveStep(s) PROVE WholeInv'
  BY <1>1, <1>2, WholeSlave, WholeOther DEF WholeInv
<1>3. ASSUME QuietStep, UNCHANGED <<dbuf, turn>>, \A t \in Slave : st'[t] = st[t]
      PROVE  WholeInv'
  <2>1. CASE Wait
    BY <1>1, <1>3, <2>1, WholeWait DEF WholeInv
  <2>2. CASE Ends \/ MasterStep
    <3>1. PICK X : Moves(X) /\ \A x \in X, s \in Slave : ~Zero(s, x)
      BY <1>1, <2>2, OtherMoves
    <3>2. io' = io /\ Dispatch
      BY <2>2 DEF Ends, MasterStep, MasterToWork, NewClient, TurnAway, ListenFails, Dispatch
    <3>3. QED
      BY <1>1, <1>3, <3>1, <3>2, WholeMoves DEF WholeInv
  <2>3. CASE \/ Drained \/ Arrive \/ UNCHANGED lineVars
             \/ \E s \in Slave : PeerActs(s) \/ Expire(s)
    <3>1. queue' = queue /\ io' = io
      BY <2>3 DEF Drained, Arrive, PeerActs, Expire, lineVars, vars
    <3>2. QED
      BY <1>1, <1>3, <3>1, WholeMoves DEF WholeInv
  <2>4. QED
    BY <1>3, <2>1, <2>2, <2>3 DEF QuietStep
<1>4. QED
  BY <1>2, <1>3, StepKinds

\* At first no slave has read or sent anything.
LEMMA InitWhole == ASSUME LineInit PROVE WholeInv
<1>1. \A s \in Slave : st[s] = "init" /\ turn[s] = NewTurn
  BY DEF LineInit, Init, Machine
<1>2. Len(<<>>) = 0
  OBVIOUS
<1>3. QED
  BY <1>1, <1>2 DEF WholeInv, Whole, LastPiece, NewTurn

\* A line that came in one piece goes back whole and in order, whatever pieces
\* write() takes, and slave_send_data_0 stops when all of it is sent, not before.
THEOREM WholeLinesEchoed == LineSpec => []EchoedIfWhole
<1> DEFINE Inv == IInv /\ FitInv /\ KeptInv /\ WholeInv
<1>1. LineInit => Inv
  BY InitInv, InitFits, InitKept, InitWhole DEF LineInit
<1>2. Inv /\ [LineNext]_lineVars => Inv'
  BY InvStep, FitStep, KeptStep, WholeStep, LineStepIsStep
<1>3. Inv => EchoedIfWhole
  <2> SUFFICES ASSUME Inv, NEW s \in Slave, turn[s].pieces <= 1 PROVE Echoed(s)
    BY DEF EchoedIfWhole
  <2>1. Whole(s) /\ turn[s].back \in Seq(Nat)
    BY DEF WholeInv, FitInv, LineTypes, Turn
  <2>2. /\ Len(turn[s].back) <= turn[s].got
        /\ \A i \in 1..Len(turn[s].back) : turn[s].back[i] = i
        /\ st[s] = "send" => Sending(s)
    BY <2>1 DEF Whole
  <2>3. turn[s].back = [i \in DOMAIN turn[s].back |-> i]
    <3>1. PICK b \in Seq(Nat) : b = turn[s].back
      BY <2>1
    <3>2. b \in [1..Len(b) -> Nat] /\ DOMAIN b = 1..Len(b)
      OBVIOUS
    <3>3. \A i \in 1..Len(b) : b[i] = i
      BY <2>2, <3>1
    <3>4. b = [i \in DOMAIN b |-> i]
      BY <3>2, <3>3
    <3>5. QED
      BY <3>1, <3>4
  <2>4. st[s] = "send" /\ io[s] = "off" => Len(turn[s].back) = turn[s].got
    BY <2>2 DEF Sending
  <2>5. QED
    BY <2>2, <2>3, <2>4 DEF Echoed
<1>4. QED
  BY <1>1, <1>2, <1>3, PTL DEF LineSpec
=============================================================================
