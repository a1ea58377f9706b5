------------------------------ MODULE EchoLine ------------------------------
(***************************************************************************)
(* EchoServer with the bytes of the lines: each slave's esma_dbuf          *)
(* (core/esma_dbuf.c), which recv fills at pos and send empties from pos.  *)
(*                                                                         *)
(* A unit is what the kernel reads or writes in one piece, some bytes; the *)
(* units a slave reads in one turn, from entering recv until it leaves     *)
(* send, are numbered, and 0 is anything else memory may hold.  Only the   *)
(* last byte of what was read decides whether the line is complete, so     *)
(* that EchoServer's "part" and "line" are all there is to know of it.     *)
(***************************************************************************)
EXTENDS EchoServer

CONSTANTS
    DBytes,     \* the buffer's first length (1024 in the code)
    MaxLine     \* bound: units in a buffer and on the way to it

ASSUME LineAssumption == DBytes \in Nat \ {0} /\ MaxLine \in Nat \ {0}

VARIABLES
    dbuf,       \* [Slave -> the buffer: pos - loc, cnt, len, and its cells]
    inq,        \* [Slave -> units sent by the client and not read yet]
    turn        \* history: units and pieces read in this turn, units sent back

bytes == <<dbuf, inq, turn>>
lineVars == <<vars, bytes>>

\* esma_dbuf_init and esma_dbuf_clear; when the buffer is cleared a turn begins
\* and what the cells hold belongs to none of its units.
Cleared(len) == [pos |-> 0, cnt |-> 0, len |-> len, cell |-> [i \in 0..(len - 1) |-> 0]]
NewTurn == [got |-> 0, pieces |-> 0, back |-> <<>>]

LineInit ==
    /\ Init
    /\ dbuf = [s \in Slave |-> Cleared(DBytes)]
    /\ inq = [s \in Slave |-> 0]
    /\ turn = [s \in Slave |-> NewTurn]

Cell(d, i) == IF i \in DOMAIN d.cell THEN d.cell[i] ELSE 0

\* slave_recv_data_0 makes room for n more units: realloc keeps what was there.
BUG_Expanded(d, n) ==   \* the space left is taken for the space there is
    IF n <= d.len THEN d
    ELSE [d EXCEPT !.len = n, !.cell = [i \in 0..(n - 1) |-> Cell(d, i)]]
Expanded(d, n) ==
    LET space == d.len - d.cnt  newLen == d.len + n - space IN
    IF n <= space THEN d
    ELSE [d EXCEPT !.len = newLen, !.cell = [i \in 0..(newLen - 1) |-> Cell(d, i)]]

\* read() puts n units at pos, the first of them with number first.  pos moves
\* on unless the line is complete.
BUG_Filled(d, n, first, complete) ==    \* pos never moves
    [d EXCEPT
        !.cell = [i \in DOMAIN d.cell \cup d.pos..(d.pos + n - 1) |->
                     IF i \in d.pos..(d.pos + n - 1) THEN first + i - d.pos ELSE Cell(d, i)],
        !.cnt = d.cnt + n]
Filled(d, n, first, complete) ==
    [d EXCEPT
        !.cell = [i \in DOMAIN d.cell \cup d.pos..(d.pos + n - 1) |->
                     IF i \in d.pos..(d.pos + n - 1) THEN first + i - d.pos ELSE Cell(d, i)],
        !.cnt = d.cnt + n,
        !.pos = IF complete THEN d.pos ELSE d.pos + n]

LineReceive(s) ==
    /\ Receive(s)
    /\ IF peer[s] \in {"part", "line"}
       THEN /\ dbuf' = [dbuf EXCEPT ![s] =
                  Filled(Expanded(@, inq[s]), inq[s], turn[s].got + 1, peer[s] = "line")]
            /\ turn' = [turn EXCEPT ![s].got = @ + inq[s], ![s].pieces = @ + 1]
            /\ inq' = [inq EXCEPT ![s] = 0]
       ELSE UNCHANGED bytes

\* esma_dbuf_expand is called, and fails.
LineNoRoom(s) == NoRoom(s) /\ inq[s] > dbuf[s].len - dbuf[s].cnt /\ UNCHANGED bytes

\* write() takes n units from pos on.
Out(d, n) == [i \in 1..n |-> Cell(d, d.pos + i - 1)]
BackBy(s, n) == turn' = [turn EXCEPT ![s].back = @ \o Out(dbuf[s], n)] /\ UNCHANGED inq

LineWriteAll(s)  == WriteAll(s) /\ BackBy(s, dbuf[s].cnt) /\ UNCHANGED dbuf
LineWriteSome(s) ==
    /\ WriteSome(s)
    /\ \E n \in 1..(dbuf[s].cnt - 1) :
          /\ BackBy(s, n)
          /\ dbuf' = [dbuf EXCEPT ![s].pos = @ + n, ![s].cnt = @ - n]
LineWriteFails(s) ==
    /\ WriteFails(s)
    /\ dbuf' = [dbuf EXCEPT ![s] = [@ EXCEPT !.cnt = 0, !.pos = 0]]
    /\ UNCHANGED <<inq, turn>>

\* recv_enter clears the buffer.
BUG_LineToRecv(s) ==    \* the count is kept, the position reset
    /\ ToRecv(s)
    /\ dbuf' = [dbuf EXCEPT ![s] = [Cleared(dbuf[s].len) EXCEPT !.cnt = dbuf[s].cnt]]
    /\ turn' = [turn EXCEPT ![s] = NewTurn]
    /\ UNCHANGED inq
LineToRecv(s) ==
    /\ ToRecv(s)
    /\ dbuf' = [dbuf EXCEPT ![s] = Cleared(dbuf[s].len)]
    /\ turn' = [turn EXCEPT ![s] = NewTurn]
    /\ UNCHANGED inq

\* slave_recv_data_1 goes back to the start of the buffer.
LineError(s) ==
    /\ Error(s)
    /\ dbuf' = [dbuf EXCEPT ![s].pos = IF st[s] = "recv" THEN 0 ELSE @]
    /\ UNCHANGED <<inq, turn>>

\* What the client had sent is lost with the connection.
LineToDone(s) == ToDone(s) /\ inq' = [inq EXCEPT ![s] = 0] /\ UNCHANGED <<dbuf, turn>>

\* The client sends one more unit, or no more.
LinePeerActs(s) ==
    /\ PeerActs(s)
    /\ IF peer'[s] \in {"part", "line"}
       THEN inq[s] + dbuf[s].cnt < MaxLine /\ inq' = [inq EXCEPT ![s] = @ + 1]
       ELSE inq' = [inq EXCEPT ![s] = 0]
    /\ UNCHANGED <<dbuf, turn>>

LineSlaveStep(s) ==
    \/ LineReceive(s) \/ LineNoRoom(s) \/ LineToRecv(s) \/ LineToDone(s) \/ LineError(s)
    \/ LineWriteAll(s) \/ LineWriteSome(s) \/ LineWriteFails(s)
    \/ /\ \/ InitToIdle(s) \/ Accept(s) \/ NoAccept(s) \/ ToSend(s) \/ Tick(s)
          \/ WriteBlocks(s) \/ Killed(s) \/ DoneToIdle(s)
       /\ UNCHANGED bytes
LineDispatch ==
    \/ (Ends \/ MasterStep) /\ UNCHANGED bytes
    \/ \E s \in Slave : LineSlaveStep(s)
LineDrained   == Drained /\ UNCHANGED bytes
LineWait      == Wait /\ UNCHANGED bytes
LineExpire(s) == pc \notin Halted /\ Expire(s) /\ UNCHANGED bytes
LineOutside ==
    /\ pc \notin Halted
    /\ (Arrive /\ UNCHANGED bytes) \/ \E s \in Slave : LinePeerActs(s)

LineNext ==
    \/ LineDrained \/ LineWait \/ LineDispatch \/ LineOutside
    \/ \E s \in Slave : LineExpire(s)

LineSpec == LineInit /\ [][LineNext]_lineVars

LineFairSpec ==
    /\ LineSpec
    /\ WF_lineVars(LineDrained) /\ WF_lineVars(LineWait) /\ WF_lineVars(LineDispatch)
    /\ \A s \in Slave : WF_lineVars(LineExpire(s))

----------------------------------------------------------------------------
(* Properties.                                                             *)

LineTypeOK ==
    /\ TypeOK
    /\ \A s \in Slave :
          /\ dbuf[s].pos \in Nat /\ dbuf[s].cnt \in Nat /\ dbuf[s].len \in Nat
          /\ \A i \in DOMAIN dbuf[s].cell : i \in Nat /\ dbuf[s].cell[i] \in Nat
          /\ turn[s].got \in Nat /\ turn[s].pieces \in Nat /\ turn[s].back \in Seq(Nat)
    /\ inq \in [Slave -> Nat]

\* read() never goes past the end of the buffer, however a line is cut into
\* pieces and however the buffer grew before.
ReadsFit == \A s \in Slave : \A i \in DOMAIN dbuf[s].cell : i < dbuf[s].len

\* The byte esma_dbuf_get_last tests for the end of the line is the last one
\* that was received, and the first cnt cells hold all that was.
LineIsKept ==
    \A s \in Slave : st[s] = "recv" /\ turn[s].got > 0 =>
        /\ dbuf[s].cnt = turn[s].got
        /\ \A i \in 0..(dbuf[s].cnt - 1) : Cell(dbuf[s], i) = i + 1

\* What a slave has sent back by the time it asks for the next line is the line
\* it was sent, whole and in order.
Echoed(s) ==
    LET t == turn[s] IN
    /\ t.back = [i \in DOMAIN t.back |-> i] /\ Len(t.back) <= t.got
    /\ st[s] = "send" /\ io[s] = "off" => Len(t.back) = t.got
EchoedLine == \A s \in Slave : Echoed(s)

\* That much is true of lines received in one piece, whatever pieces they are
\* sent back in.
EchoedIfWhole == \A s \in Slave : turn[s].pieces <= 1 => Echoed(s)
=============================================================================
