------------------------- MODULE RingBuffer_proofs -------------------------
(***************************************************************************)
(* Proofs about RingBuffer, for every capacity, word and item size.        *)
(***************************************************************************)
EXTENDS RingBuffer, SequenceTheorems, TLAPS

USE RingAssumption

\* The mask wraps an index at the capacity, and takes ~0 to slot 0.
LEMMA IncrWraps ==
    ASSUME NEW m \in Nat, m < Word - 1
    PROVE  /\ Incr(Word - 1, m) = 0
           /\ \A i \in 0..m : Incr(i, m) = IF i = m THEN 0 ELSE i + 1
<1>1. Word % Word = 0 /\ 0 % (m + 1) = 0
  OBVIOUS
<1>2. Incr(Word - 1, m) = 0
  BY <1>1 DEF Incr, And
<1>3. ASSUME NEW i \in 0..m PROVE Incr(i, m) = IF i = m THEN 0 ELSE i + 1
  <2>1. (i + 1) % Word = i + 1
    OBVIOUS
  <2>2. CASE i = m
    BY <2>1, <2>2 DEF Incr, And
  <2>3. CASE i # m
    BY <2>1, <2>3 DEF Incr, And
  <2>4. QED
    BY <2>2, <2>3
<1>4. QED
  BY <1>2, <1>3

\* The indices stay in the buffer, and a buffer nothing was put into is empty;
\* this much survives ShiftPut.
SafeInv == TypeOK /\ (head = Word - 1 => size = 0)

\* esma_ring_buffer_init establishes it.
LEMMA InitSafe == Init => SafeInv
<1> SUFFICES ASSUME Init PROVE SafeInv
  OBVIOUS
<1>1. cap \in 2..MaxCap
  BY DEF Init, CapFor
<1>2. QED
  BY <1>1 DEF Init, SafeInv, TypeOK

\* Every operation preserves it, ShiftPut included.
LEMMA NextSafe == SafeInv /\ [Next]_vars => SafeInv'
<1> SUFFICES ASSUME SafeInv, [Next]_vars PROVE SafeInv'
  OBVIOUS
<1>0. mask \in Nat /\ mask < Word - 1 /\ mask = cap - 1 /\ cap \in 2..MaxCap
  BY DEF SafeInv, TypeOK
<1>1. /\ Incr(Word - 1, mask) = 0
      /\ \A i \in 0..mask : Incr(i, mask) \in 0..mask
  BY <1>0, IncrWraps
<1>2. ASSUME NEW x \in Item, Put(x) PROVE SafeInv'
  <2>1. head' \in 0..mask
    BY <1>1, <1>2 DEF Put, SafeInv, TypeOK
  <2>2. data' \in [0..mask -> Item \cup {Garbage}]
    BY <1>2, <2>1 DEF Put, SafeInv, TypeOK
  <2>3. QED
    BY <1>0, <1>2, <2>1, <2>2 DEF Put, SafeInv, TypeOK
<1>3. ASSUME NEW x \in Item, GrowPut(x) PROVE SafeInv'
  <2>1. /\ cap' = 2 * cap /\ mask' = cap' - 1 /\ cap' \in 2..MaxCap
        /\ head \in 0..mask'
    BY <1>0, <1>3 DEF GrowPut
  <2>2. head' \in 0..mask'
    BY <1>3, <2>1, IncrWraps DEF GrowPut
  <2>3. data' \in [0..mask' -> Item \cup {Garbage}]
    BY <1>0, <1>3, <2>1 DEF GrowPut, Kept, SafeInv, TypeOK
  <2>4. QED
    BY <1>0, <1>3, <2>1, <2>2, <2>3 DEF GrowPut, SafeInv, TypeOK
<1>4. ASSUME NEW x \in Item, ShiftPut(x) PROVE SafeInv'
  <2>1. /\ cap' = 2 * cap /\ mask' = cap' - 1 /\ cap' \in 2..MaxCap
        /\ cap \in 0..mask' /\ head \in 0..mask
    BY <1>0, <1>4 DEF ShiftPut, SafeInv, TypeOK
  <2>2. head' \in 0..mask'
    BY <1>4, <2>1, IncrWraps DEF ShiftPut
  <2>3. \A i \in 0..mask' : Kept(i) \in Item \cup {Garbage}
    BY <1>0, <2>1 DEF Kept, SafeInv, TypeOK
  <2>4. \A i \in 0..mask' : Shifted(i) \in Item \cup {Garbage}
    <3>1. SUFFICES ASSUME NEW i \in 0..mask',
                          head <= i, i < cap, (cap - head) % ItemSize = 0
                   PROVE  Kept(i + (cap - head) \div ItemSize)
                            \in Item \cup {Garbage}
      BY <2>3 DEF Shifted
    <3>2. (cap - head) \div ItemSize \in Nat
      BY <1>0, <2>1
    <3>3. QED
      BY <1>0, <3>2 DEF Kept, SafeInv, TypeOK
  <2>5. data' \in [0..mask' -> Item \cup {Garbage}]
    BY <1>4, <2>3, <2>4 DEF ShiftPut
  <2>6. QED
    BY <1>0, <1>4, <2>1, <2>2, <2>5 DEF ShiftPut, SafeInv, TypeOK
<1>5. CASE Get
  <2>1. tail' \in 0..mask /\ data[tail] \in Item \cup {Garbage}
    BY <1>1, <1>5 DEF Get, SafeInv, TypeOK
  <2>2. QED
    BY <1>0, <1>5, <2>1 DEF Get, SafeInv, TypeOK
<1>6. CASE UNCHANGED vars
  BY <1>6 DEF vars, SafeInv, TypeOK
<1>7. QED
  BY <1>2, <1>3, <1>4, <1>5, <1>6 DEF Next, AlignedNext

\* The buffer is what esma_ring_buffer.c takes it for, whatever a shift did to
\* its contents: mask is one less than the slots, and the indices are in it.
THEOREM RingTypeCorrect == Spec => []TypeOK
<1>1. SafeInv => TypeOK
  BY DEF SafeInv
<1>2. QED
  BY <1>1, InitSafe, NextSafe, PTL DEF Spec

\* put and get return addresses inside the buffer, whatever happened before.
THEOREM SlotsStayInBuffer == Spec => []SlotsInBuffer
<1>1. SafeInv => SlotsInBuffer
  BY DEF SafeInv, TypeOK, SlotsInBuffer
<1>2. QED
  BY <1>1, InitSafe, NextSafe, PTL DEF Spec

----------------------------------------------------------------------------
(* While the buffer only grows unwrapped it is the queue it stands for.    *)

\* Inductive under AlignedNext: the window of unread items, each of them put.
WindowInv == SafeInv /\ WindowOK /\ NothingMadeUp

\* esma_ring_buffer_init leaves an empty window.
LEMMA InitWindow == Init => WindowInv
BY InitSafe DEF Init, WindowInv, WindowOK, NothingMadeUp

\* Where put and get are, seen from the window.
LEMMA WindowFacts ==
    ASSUME WindowInv
    PROVE  /\ mask \in Nat /\ mask < Word - 1 /\ mask = cap - 1
           /\ cap \in 2..MaxCap /\ size \in 0..cap /\ tail \in 0..mask
           /\ data \in [0..mask -> Item \cup {Garbage}]
           /\ size < cap => Incr(head, mask) = Slot(size + 1)
           /\ Incr(tail, mask) = Slot(2)
           /\ \A k \in 1..cap : Slot(k) \in 0..mask
           /\ \A k, l \in 1..cap : Slot(k) = Slot(l) => k = l
           /\ Unread \in [1..size -> Item]
<1>1. /\ mask \in Nat /\ mask < Word - 1 /\ mask = cap - 1
      /\ cap \in 2..MaxCap /\ size \in 0..cap /\ tail \in 0..mask
      /\ data \in [0..mask -> Item \cup {Garbage}]
      /\ head \in 0..mask \cup {Word - 1}
  BY DEF WindowInv, SafeInv, TypeOK
<1>2. /\ Incr(Word - 1, mask) = 0
      /\ \A i \in 0..mask : Incr(i, mask) = IF i = mask THEN 0 ELSE i + 1
  BY <1>1, IncrWraps
<1>3. size < cap => Incr(head, mask) = Slot(size + 1)
  BY <1>1, <1>2 DEF WindowInv, WindowOK, Slot
<1>4. Incr(tail, mask) = Slot(2)
  BY <1>1, <1>2 DEF Slot
<1>5. /\ \A k \in 1..cap : Slot(k) \in 0..mask
      /\ \A k, l \in 1..cap : Slot(k) = Slot(l) => k = l
  BY <1>1 DEF Slot
<1>6. Unread \in [1..size -> Item]
  BY <1>1 DEF WindowInv, NothingMadeUp, Unread
<1>7. QED
  BY <1>1, <1>3, <1>4, <1>5, <1>6

\* A sequence is the function of its items.
LEMMA SeqIs ==
    ASSUME NEW S, NEW s \in Seq(S)
    PROVE  s = [k \in 1..Len(s) |-> s[k]]
OBVIOUS

\* What Append does, item by item: what put must do to the unread items.
LEMMA AppendIs ==
    ASSUME NEW S, NEW s \in Seq(S), NEW x \in S
    PROVE  Append(s, x) = [k \in 1..(Len(s) + 1) |->
                              IF k = Len(s) + 1 THEN x ELSE s[k]]
<1>1. /\ Append(s, x) \in Seq(S) /\ Len(Append(s, x)) = Len(s) + 1
      /\ \A k \in 1..Len(s) : Append(s, x)[k] = s[k]
      /\ Append(s, x)[Len(s) + 1] = x
  BY AppendProperties
<1>2. DOMAIN Append(s, x) = 1..(Len(s) + 1) /\ Len(s) \in Nat
  BY <1>1
<1>3. Append(s, x) = [k \in 1..(Len(s) + 1) |-> Append(s, x)[k]]
  BY <1>1, SeqIs
<1>4. \A k \in 1..(Len(s) + 1) :
          Append(s, x)[k] = IF k = Len(s) + 1 THEN x ELSE s[k]
  BY <1>1, <1>2
<1>5. [k \in 1..(Len(s) + 1) |-> Append(s, x)[k]]
        = [k \in 1..(Len(s) + 1) |-> IF k = Len(s) + 1 THEN x ELSE s[k]]
  BY <1>4
<1>6. QED
  BY <1>3, <1>5, Zenon

\* What Tail does, item by item: what get must do to the unread items.
LEMMA TailIs ==
    ASSUME NEW S, NEW s \in Seq(S), Len(s) # 0
    PROVE  /\ s # <<>> /\ Head(s) = s[1]
           /\ Tail(s) = [k \in 1..(Len(s) - 1) |-> s[k + 1]]
<1>1. s # <<>> /\ Head(s) = s[1]
  OBVIOUS
<1>2. /\ Tail(s) \in Seq(S) /\ Len(Tail(s)) = Len(s) - 1
      /\ \A k \in 1..Len(Tail(s)) : Tail(s)[k] = s[k + 1]
  BY <1>1, HeadTailProperties
<1>3. Tail(s) = [k \in 1..(Len(s) - 1) |-> Tail(s)[k]]
  BY <1>2, SeqIs
<1>4. [k \in 1..(Len(s) - 1) |-> Tail(s)[k]]
        = [k \in 1..(Len(s) - 1) |-> s[k + 1]]
  BY <1>2
<1>5. QED
  BY <1>1, <1>3, <1>4, Zenon

\* A put with room appends to the unread items.
LEMMA PutAppends ==
    ASSUME WindowInv, NEW x \in Item, Put(x)
    PROVE  Unread' = Append(Unread, x) /\ WindowOK'
<1>1. /\ head' = Slot(size + 1) /\ size' = size + 1 /\ size + 1 \in 1..cap
      /\ data' = [data EXCEPT ![head'] = x]
      /\ tail' = tail /\ cap' = cap /\ mask' = mask
  BY WindowFacts DEF Put
<1>2. \A k \in 1..(size + 1) : Slot(k)' = Slot(k) /\ k \in 1..cap
  BY <1>1, WindowFacts DEF Slot
<1>3. \A k \in 1..size : data'[Slot(k)] = data[Slot(k)]
  BY <1>1, <1>2, WindowFacts
<1>4. data'[Slot(size + 1)] = x
  BY <1>1, <1>2, WindowFacts
<1>5. Unread' = [k \in 1..(size + 1) |-> data'[Slot(k)]]
  BY <1>1, <1>2 DEF Unread
<1>6. Unread \in Seq(Item) /\ Len(Unread) = size
  <2>1. Unread \in [1..size -> Item] /\ size \in Nat
    BY WindowFacts
  <2>2. QED
    BY <2>1
<1>7. Append(Unread, x) = [k \in 1..(size + 1) |->
                              IF k = size + 1 THEN x ELSE Unread[k]]
  BY <1>6, AppendIs
<1>8. \A k \in 1..(size + 1) :
          data'[Slot(k)] = IF k = size + 1 THEN x ELSE Unread[k]
  BY <1>3, <1>4, WindowFacts DEF Unread
<1>9. Unread' = Append(Unread, x)
  BY <1>5, <1>7, <1>8
<1>10. WindowOK'
  BY <1>1, <1>2, WindowFacts DEF WindowOK
<1>11. QED
  BY <1>9, <1>10

\* A put that grows an unwrapped buffer appends too.
LEMMA GrowPutAppends ==
    ASSUME WindowInv, NEW x \in Item, GrowPut(x)
    PROVE  Unread' = Append(Unread, x) /\ WindowOK'
<1>1. /\ size = cap /\ head = cap - 1 /\ cap' = 2 * cap /\ mask' = cap' - 1
      /\ size' = cap + 1 /\ tail' = tail /\ cap' \in 2..MaxCap
      /\ head' = Incr(head, mask')
      /\ data' = [i \in 0..mask' |-> IF i = head' THEN x ELSE Kept(i)]
  BY WindowFacts DEF GrowPut
<1>0. cap \in 2..MaxCap /\ tail \in 0..(cap - 1)
  BY WindowFacts
<1>2. tail = 0
  <2>1. cap - 1 # Word - 1
    BY <1>0
  <2>2. head = Slot(cap)
    BY <1>0, <1>1, <2>1 DEF WindowInv, WindowOK
  <2>3. QED
    BY <1>0, <1>1, <2>2 DEF Slot
<1>3. head' = cap
  <2>1. /\ mask' \in Nat /\ mask' < Word - 1
        /\ head \in 0..mask' /\ head # mask' /\ head + 1 = cap
    BY <1>0, <1>1
  <2>2. QED
    BY <1>1, <2>1, IncrWraps
<1>4. \A k \in 1..cap : Slot(k) = k - 1
  BY <1>2, WindowFacts DEF Slot
<1>5. \A k \in 1..(cap + 1) : Slot(k)' = k - 1
  BY <1>1, <1>2, WindowFacts DEF Slot
<1>6. \A k \in 1..(cap + 1) :
          data'[k - 1] = IF k = cap + 1 THEN x ELSE Unread[k]
  <2> SUFFICES ASSUME NEW k \in 1..(cap + 1)
               PROVE  data'[k - 1] = IF k = cap + 1 THEN x ELSE Unread[k]
    OBVIOUS
  <2>1. k - 1 \in 0..mask'
    BY <1>0, <1>1
  <2>2. data'[k - 1] = IF k - 1 = cap THEN x ELSE Kept(k - 1)
    BY <1>1, <1>3, <2>1
  <2>3. CASE k = cap + 1
    BY <1>0, <2>2, <2>3
  <2>4. CASE k # cap + 1
    <3>1. Kept(k - 1) = data[k - 1] /\ k \in 1..cap /\ k - 1 # cap
      BY <1>0, <2>4 DEF Kept
    <3>2. Unread[k] = data[k - 1]
      BY <1>1, <1>4, <3>1 DEF Unread
    <3>3. QED
      BY <2>2, <2>4, <3>1, <3>2
  <2>5. QED
    BY <2>3, <2>4
<1>7. Unread' = [k \in 1..(cap + 1) |-> data'[k - 1]]
  BY <1>1, <1>5 DEF Unread
<1>8. Unread \in Seq(Item) /\ Len(Unread) = cap
  <2>1. Unread \in [1..size -> Item] /\ size \in Nat
    BY WindowFacts
  <2>2. QED
    BY <1>1, <2>1
<1>9. Append(Unread, x) = [k \in 1..(cap + 1) |->
                              IF k = cap + 1 THEN x ELSE Unread[k]]
  BY <1>8, AppendIs
<1>10. Unread' = Append(Unread, x)
  BY <1>6, <1>7, <1>9
<1>11. WindowOK'
  <2>1. size' # 0 /\ head' = size' - 1
    BY <1>0, <1>1, <1>3
  <2>2. head' # Word - 1
    BY <1>0, <1>1, <1>3
  <2>3. (IF tail + size - 1 < cap THEN tail + size - 1 ELSE tail + size - 1 - cap)' = size' - 1
    BY <1>0, <1>1, <1>2
  <2>4. QED
    BY <2>1, <2>2, <2>3 DEF WindowOK, Slot
<1>12. QED
  BY <1>10, <1>11

\* A get takes the oldest unread item.
LEMMA GetTakesHead ==
    ASSUME WindowInv, Get
    PROVE  /\ Unread # <<>> /\ out' = Head(Unread) /\ Unread' = Tail(Unread)
           /\ WindowOK'
<1>1. /\ size # 0 /\ out' = data[tail] /\ size' = size - 1
      /\ tail' = Slot(2) /\ data' = data /\ head' = head /\ cap' = cap
  BY WindowFacts DEF Get
<1>0. /\ cap \in 2..MaxCap /\ tail \in 0..(cap - 1) /\ size \in 1..cap
      /\ Unread \in [1..size -> Item]
  BY <1>1, WindowFacts
<1>2. \A k \in 1..(cap - 1) : Slot(k)' = Slot(k + 1)
  BY <1>0, <1>1 DEF Slot
<1>3. Unread \in Seq(Item) /\ Len(Unread) = size
  BY <1>0
<1>4. Unread # <<>> /\ Head(Unread) = data[tail]
  <2>1. Slot(1) = tail
    BY <1>0 DEF Slot
  <2>2. Unread[1] = data[tail]
    BY <1>0, <2>1 DEF Unread
  <2>3. QED
    BY <1>0, <1>3, <2>2, TailIs
<1>5. Tail(Unread) = [k \in 1..(size - 1) |-> Unread[k + 1]]
  BY <1>0, <1>3, TailIs
<1>6. Unread' = [k \in 1..(size - 1) |-> data[Slot(k + 1)]]
  BY <1>0, <1>1, <1>2 DEF Unread
<1>7. \A k \in 1..(size - 1) : Unread[k + 1] = data[Slot(k + 1)]
  BY <1>0 DEF Unread
<1>8. Unread' = Tail(Unread)
  BY <1>5, <1>6, <1>7
<1>9. WindowOK'
  <2>1. head # Word - 1 /\ head = Slot(size)
    BY <1>0 DEF WindowInv, WindowOK
  <2> DEFINE last == IF size - 1 = 0 THEN cap ELSE size - 1
  <2>2. head = IF tail' + last - 1 < cap THEN tail' + last - 1
                                         ELSE tail' + last - 1 - cap
    BY <1>0, <1>1, <2>1 DEF Slot
  <2>3. QED
    BY <1>1, <2>1, <2>2 DEF WindowOK, Slot
<1>10. QED
  BY <1>1, <1>4, <1>8, <1>9

\* Every operation of AlignedSpec preserves the window.
LEMMA NextWindow == WindowInv /\ [AlignedNext]_vars => WindowInv'
<1> SUFFICES ASSUME WindowInv, [AlignedNext]_vars PROVE WindowInv'
  OBVIOUS
<1>1. SafeInv'
  BY NextSafe DEF WindowInv, Next
<1>2. Unread \in Seq(Item) /\ Len(Unread) = size /\ size \in Nat
  BY WindowFacts
<1>3. ASSUME NEW x \in Item, Put(x) \/ GrowPut(x) PROVE WindowInv'
  <2>1. Unread' = Append(Unread, x) /\ WindowOK' /\ size' = size + 1
    BY <1>3, PutAppends, GrowPutAppends DEF Put, GrowPut
  <2>2. NothingMadeUp'
    BY <1>2, <2>1 DEF NothingMadeUp
  <2>3. QED
    BY <1>1, <2>1, <2>2 DEF WindowInv
<1>4. CASE Get
  <2>1. /\ Unread' = Tail(Unread) /\ Unread # <<>> /\ WindowOK'
        /\ size' = size - 1
    BY <1>4, GetTakesHead DEF Get
  <2>2. NothingMadeUp'
    BY <1>2, <2>1 DEF NothingMadeUp
  <2>3. QED
    BY <1>1, <2>1, <2>2 DEF WindowInv
<1>5. CASE UNCHANGED vars
  BY <1>1, <1>5 DEF vars, WindowInv, WindowOK, NothingMadeUp, Unread, Slot
<1>6. QED
  BY <1>3, <1>4, <1>5 DEF AlignedNext

\* The unread items fill the window from tail to head.
THEOREM WindowCorrect == AlignedSpec => []WindowOK
<1>1. WindowInv => WindowOK
  BY DEF WindowInv
<1>2. QED
  BY <1>1, InitWindow, NextWindow, PTL DEF AlignedSpec

\* Nothing is read that nobody put: growing by realloc (esma_ring_buffer.c:77)
\* leaves the slots it adds behind the window.
THEOREM ReadsWhatWasPut == AlignedSpec => []NothingMadeUp
<1>1. WindowInv => NothingMadeUp
  BY DEF WindowInv
<1>2. QED
  BY <1>1, InitWindow, NextWindow, PTL DEF AlignedSpec

\* The ring buffer implements the queue: first in, first out, nothing lost.
THEOREM RingImplementsFifo == AlignedSpec => ImplementsFifo
<1>1. Init => F!Init
  <2> SUFFICES ASSUME Init PROVE F!Init
    OBVIOUS
  <2>1. size = 0 /\ out = None
    BY DEF Init
  <2>2. Unread = <<>>
    BY <2>1 DEF Unread
  <2>3. QED
    BY <2>1, <2>2 DEF F!Init
<1>2. WindowInv /\ [AlignedNext]_vars => [F!Next]_<<Unread, out>>
  <2> SUFFICES ASSUME WindowInv, [AlignedNext]_vars
               PROVE  F!Next \/ UNCHANGED <<Unread, out>>
    OBVIOUS
  <2>1. ASSUME NEW x \in Item, Put(x) \/ GrowPut(x) PROVE F!Next
    <3>1. Unread' = Append(Unread, x) /\ UNCHANGED out
      BY <2>1, PutAppends, GrowPutAppends DEF Put, GrowPut
    <3>2. QED
      BY <3>1 DEF F!Next, F!Put
  <2>2. CASE Get
    BY <2>2, GetTakesHead DEF F!Next, F!Get
  <2>3. CASE UNCHANGED vars
    BY <2>3 DEF vars, Unread, Slot
  <2>4. QED
    BY <2>1, <2>2, <2>3 DEF AlignedNext
<1>3. QED
  BY <1>1, <1>2, InitWindow, NextWindow, PTL
     DEF AlignedSpec, ImplementsFifo, F!Spec
=============================================================================
