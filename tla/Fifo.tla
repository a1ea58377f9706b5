-------------------------------- MODULE Fifo --------------------------------
(***************************************************************************)
(* What the message queue of the engine promises (msg_queue_ops: put, get  *)
(* and nothing else): items come out in the order they went in, none is    *)
(* lost and none is made up.                                               *)
(***************************************************************************)
EXTENDS Sequences

CONSTANTS Item, None

VARIABLES
    fifo,   \* items put and not yet got
    out     \* the item the last get returned

Init == fifo = <<>> /\ out = None

Put(x) == fifo' = Append(fifo, x) /\ UNCHANGED out

Get == fifo # <<>> /\ out' = Head(fifo) /\ fifo' = Tail(fifo)

Next == Get \/ \E x \in Item : Put(x)

Spec == Init /\ [][Next]_<<fifo, out>>
=============================================================================
