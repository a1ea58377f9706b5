----------------------------- MODULE MC_Engine -----------------------------
(***************************************************************************)
(* Instances of Engine for TLC.  All machines share one template: state A  *)
(* is entered from I by code 0, code 0 then alternates between A and B,    *)
(* code 1 is an action of A.  The instances differ in their channels:      *)
(*   Quiet: events only run actions, as in the echo server's templates;    *)
(*   Eager: expirations, signals and data change states, and state B has   *)
(*          signals where the array of its timers has none.                *)
(***************************************************************************)
EXTENDS Engine, TLC

CONSTANTS m1, m2,           \* machines
          I, A, B,          \* states
          a1, a2,           \* timers
          s1, s2, s3,       \* signal channels
          U1                \* a signal

MCInitState == [m \in Machine |-> I]
MCSelfNext  == [s \in State |-> [c \in Code |->
    CASE c = 0 /\ s = A -> B
      [] c = 0 /\ s # A -> A
      [] c = 1 /\ s = A -> Mealy
      [] OTHER          -> Undefined]]

Data(in, out, err) == [pollin |-> in, pollout |-> out, pollerr |-> err]
NoData == Data(Undefined, Undefined, Undefined)
AllMealy == [c \in Hard |-> Mealy]

\* Quiet: two machines, m1 with an io channel and a signal
QuietDataNext == [s \in State |->
    IF s = A THEN Data(Mealy, Undefined, Mealy) ELSE NoData]
QuietTickCap  == [s \in State |-> IF s = A THEN 2 ELSE 1]
QuietOwner    == [c \in Hard |-> m1]
QuietHome     == [c \in Hard |-> A]
QuietPos      == [c \in Hard |-> 0]
QuietSigno    == [c \in Sign |-> U1]
QuietSends    == {<<m1, 0>>, <<m2, 0>>}

\* Eager: m1 has two timers and a signal in A and a signal without a timer in
\* B; m2 has one signal, behind the timers' array of B
EagerDataNext == [s \in State |-> IF s = A THEN Data(B, Mealy, Mealy) ELSE NoData]
EagerTickCap  == [s \in State |-> IF s = A THEN 2 ELSE 1]
EagerOwner    == [c \in Hard |-> IF c = s3 THEN m2 ELSE m1]
EagerHome     == [c \in Hard |-> IF c \in {s2, s3} THEN B ELSE A]
EagerPos      == [c \in Hard |-> IF c \in {a2, s3} THEN 1 ELSE 0]
EagerHardNext == [c \in Hard |->
    CASE c = a1 -> B [] c = s1 -> I [] OTHER -> Mealy]
EagerSigno    == [c \in Sign |-> U1]
EagerSends    == {<<m1, 0>>, <<m1, 1>>, <<m2, 0>>}
=============================================================================
