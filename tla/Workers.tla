------------------------------ MODULE Workers ------------------------------
(***************************************************************************)
(* What the echo server promises its clients (the comments of master.esma  *)
(* and slave.esma): the master gives a new client to a slave that is free  *)
(* and keeps listening; a slave works for one client at a time and is free *)
(* again when it has finished.                                             *)
(***************************************************************************)
EXTENDS Naturals

CONSTANTS Worker, MaxWaiting

VARIABLES
    free,       \* workers the master may give a client to
    serving,    \* workers connected to a client
    waiting     \* clients not yet accepted

Init == free = Worker /\ serving = {} /\ waiting = 0

Arrive == waiting < MaxWaiting /\ waiting' = waiting + 1 /\ UNCHANGED <<free, serving>>

\* The master picks a worker for a waiting client.
Choose(w) == w \in free /\ waiting > 0 /\ free' = free \ {w} /\ UNCHANGED <<serving, waiting>>

\* The worker picked accepts the client.
Serve(w) ==
    /\ w \notin free \cup serving /\ waiting > 0
    /\ serving' = serving \cup {w}
    /\ waiting' = waiting - 1
    /\ UNCHANGED free

\* A client is turned away only when no worker is free.
Refuse == free = {} /\ waiting > 0 /\ waiting' = waiting - 1 /\ UNCHANGED <<free, serving>>

\* The worker has finished, or could not accept.
Release(w) ==
    /\ w \notin free
    /\ free' = free \cup {w}
    /\ serving' = serving \ {w}
    /\ UNCHANGED waiting

Next == Arrive \/ Refuse \/ \E w \in Worker : Choose(w) \/ Serve(w) \/ Release(w)

Spec == Init /\ [][Next]_<<free, serving, waiting>>
=============================================================================
