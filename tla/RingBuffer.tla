----------------------------- MODULE RingBuffer -----------------------------
(***************************************************************************)
(* core/esma_ring_buffer.c without locks, the queue of the engine.         *)
(*                                                                         *)
(* put returns the address of a slot which its caller fills at once, and   *)
(* get the address of a slot its caller reads at once: with one thread the *)
(* two halves are one step.  An allocation that fails changes nothing (put *)
(* then returns NULL), and get of an empty buffer returns NULL: both are   *)
(* stuttering steps.                                                       *)
(***************************************************************************)
EXTENDS Integers, Sequences

CONSTANTS
    Item,       \* what callers put
    None,       \* out before the first get
    Garbage,    \* bytes nobody wrote as one item: fresh or torn memory
    Request,    \* capacities asked for
    DefaultCap, \* RB_DEFAULT_SIZE, 128
    Word,       \* 2^32, the range of the u32 indices
    ItemSize,   \* bytes of a slot, a multiple of 8
    MaxCap      \* bound: realloc gives no larger buffer

IsPowerOf2(n) == \E k \in 0..n : 2^k = n

ASSUME RingAssumption ==
    /\ Request \subseteq Nat
    /\ MaxCap \in Nat /\ Word \in Nat /\ MaxCap < Word
    /\ DefaultCap \in 2..MaxCap
    /\ \A c \in Request : IsPowerOf2(c) => c <= MaxCap
    /\ ItemSize \in Nat \ {0}
    /\ Garbage \notin Item

VARIABLES data, tail, head, mask, size, cap, out

vars == <<data, tail, head, mask, size, cap, out>>

\* i & m, for a mask m of the form 2^k - 1.
And(i, m) == i % (m + 1)
\* ++i with wrap-around of the u32, then the mask.
BUG_Incr(i, m) == (i + 1) % Word        \* mask forgotten
Incr(i, m) == And((i + 1) % Word, m)

CapFor(c) == IF c > 1 /\ IsPowerOf2(c) THEN c ELSE DefaultCap

Init ==
    /\ \E c \in Request : cap = CapFor(c)
    /\ data = [i \in 0..(cap - 1) |-> Garbage]
    /\ tail = 0 /\ head = Word - 1 /\ size = 0
    /\ mask = cap - 1
    /\ out = None

\* _put with room.
Put(x) ==
    /\ size # cap
    /\ size' = size + 1
    /\ head' = Incr(head, mask)
    /\ data' = [data EXCEPT ![head'] = x]
    /\ UNCHANGED <<tail, mask, cap, out>>

\* What realloc leaves of slot i: the old slots, then fresh memory.
Kept(i) == IF i < cap THEN data[i] ELSE Garbage

BUG_GrowPut(x) ==       \* head is masked with the old mask
    /\ size = cap /\ head = cap - 1 /\ 2 * cap <= MaxCap
    /\ cap' = 2 * cap /\ mask' = 2 * cap - 1
    /\ size' = size + 1
    /\ head' = Incr(head, mask)
    /\ data' = [i \in 0..mask' |-> IF i = head' THEN x ELSE Kept(i)]
    /\ UNCHANGED <<tail, out>>
\* _put into a full buffer, when the newest item is in the last slot.
GrowPut(x) ==
    /\ size = cap /\ head = cap - 1 /\ 2 * cap <= MaxCap
    /\ cap' = 2 * cap /\ mask' = 2 * cap - 1
    /\ size' = size + 1
    /\ head' = Incr(head, mask')
    /\ data' = [i \in 0..mask' |-> IF i = head' THEN x ELSE Kept(i)]
    /\ UNCHANGED <<tail, out>>

\* memmove of the slots from head on, delta BYTES down.
Shifted(i) ==
    LET delta == cap - head
    IN  IF ~(head <= i /\ i < cap) THEN Kept(i)
        ELSE IF delta % ItemSize # 0 THEN Garbage
        ELSE Kept(i + delta \div ItemSize)

\* _put into a full buffer whose contents wrap: "shift unread messages".  The
\* memmove works on the OLD address: it reaches the new buffer only if realloc
\* did not move it.
ShiftPut(x) ==
    /\ size = cap /\ head # cap - 1 /\ 2 * cap <= MaxCap
    /\ cap' = 2 * cap /\ mask' = 2 * cap - 1
    /\ size' = size + 1
    /\ head' = Incr(cap, mask')         \* head += delta, then head++
    /\ \E moved \in BOOLEAN :
          data' = [i \in 0..mask' |->
              IF i = head' THEN x ELSE IF moved THEN Kept(i) ELSE Shifted(i)]
    /\ UNCHANGED <<tail, out>>

BUG_Get ==              \* size is only counted up
    /\ size # 0
    /\ out' = data[tail]
    /\ tail' = Incr(tail, mask)
    /\ UNCHANGED <<data, head, mask, size, cap>>
Get ==
    /\ size # 0
    /\ out' = data[tail]
    /\ size' = size - 1
    /\ tail' = Incr(tail, mask)
    /\ UNCHANGED <<data, head, mask, cap>>

AlignedNext == Get \/ \E x \in Item : Put(x) \/ GrowPut(x)
Next == AlignedNext \/ \E x \in Item : ShiftPut(x)

Spec == Init /\ [][Next]_vars
\* The buffer only grows while its contents start at slot 0, as they do when
\* the first messages are all put before the first is got.
AlignedSpec == Init /\ [][AlignedNext]_vars

----------------------------------------------------------------------------
(* Properties.                                                             *)

TypeOK ==
    /\ cap \in 2..MaxCap /\ mask = cap - 1
    /\ data \in [0..mask -> Item \cup {Garbage}]
    /\ size \in 0..cap
    /\ tail \in 0..mask
    /\ head \in 0..mask \cup {Word - 1}
    /\ out \in Item \cup {Garbage, None}

\* The k-th slot from the tail.
Slot(k) == IF tail + k - 1 < cap THEN tail + k - 1 ELSE tail + k - 1 - cap

Unread == [k \in 1..size |-> data[Slot(k)]]

\* The unread items fill the window from tail to head: head is where the last
\* of them is, and just behind tail when there is none.
WindowOK ==
    IF head = Word - 1 THEN size = 0 /\ tail = 0
                       ELSE head = Slot(IF size = 0 THEN cap ELSE size)

\* No slot of the window is memory that nobody wrote.
NothingMadeUp == \A k \in 1..size : Unread[k] \in Item

\* Whatever happened before, even a shift that broke the contents, put and get
\* return slots inside the buffer and never more of them than it has.
SlotsInBuffer ==
    /\ size <= cap /\ tail < cap
    /\ DOMAIN data = 0..(cap - 1)
    /\ size > 0 => head < cap

\* "shift unread messages": when the buffer grows, its unread items are still
\* unread, in their order, in front of the one just put.
UnreadSurvivesGrowth ==
    [][ cap' # cap => \E x \in Item : Unread' = Append(Unread, x) ]_vars

F == INSTANCE Fifo WITH fifo <- Unread
ImplementsFifo == F!Spec
=============================================================================
