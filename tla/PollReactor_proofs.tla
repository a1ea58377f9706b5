------------------------- MODULE PollReactor_proofs -------------------------
(***************************************************************************)
(* Proofs about PollReactor, for every set of channels and any capacity.   *)
(***************************************************************************)
EXTENDS PollReactor, TLAPS

USE PollAssumption

\* TypeOK and TableOK together are inductive.
Inv == TypeOK /\ TableOK

\* poll_reactor__init establishes it.
LEMMA InitInv == Init => Inv
BY DEF Init, Inv, TypeOK, TableOK, Cleared, Entry, Mask

\* What the invariant says of the entry of a channel in use.
LEMMA EntryFacts ==
    ASSUME Inv, NEW c \in used
    PROVE  /\ index[c] \in 0..(nitems - 1) /\ index[c] \in 0..(cap - 1)
           /\ channels[index[c]] = c /\ list[index[c]].fd = c
           /\ list[index[c]] \in Entry /\ c \in Channel
           /\ list[index[c]] = [fd |-> c, events |-> list[index[c]].events]
           /\ list[index[c]].events \in Mask
           /\ \A d \in used : index[d] = index[c] => d = c
<1>1. /\ index[c] \in 0..(nitems - 1) /\ index[c] \in 0..(cap - 1)
      /\ channels[index[c]] = c /\ list[index[c]].fd = c /\ c \in Channel
  BY DEF Inv, TypeOK, TableOK
<1>2. list[index[c]] \in Entry
  BY <1>1 DEF Inv, TypeOK
<1>3. \A d \in used : index[d] = index[c] => d = c
  BY DEF Inv, TableOK
<1>4. QED
  BY <1>1, <1>2, <1>3 DEF Entry

\* add: every entry that was there stays, and one more is right.
LEMMA AddKeeps ==
    ASSUME Inv, NEW c \in Channel, NEW m \in Mask, Add(c, m)
    PROVE  /\ Inv'
           /\ \A d \in used : list'[index'[d]] = list[index[d]]
           /\ list'[index'[c]].events \in Mask
<1>1. /\ c \notin used /\ cap' = Room /\ cap' <= MaxCap
      /\ channels' = [i \in 0..(cap' - 1) |->
                         IF i = nitems THEN c ELSE KeptChannel(i)]
      /\ nitems' = nitems + 1 /\ index' = [index EXCEPT ![c] = nitems]
      /\ used' = used \cup {c}
  BY DEF Add
<1>2. PICK junk \in Mask : list' = [i \in 0..(cap' - 1) |->
          IF i # nitems THEN Kept(i, junk)
          ELSE [fd |-> c, events |-> IF m = {} THEN Kept(i, junk).events ELSE m]]
  BY DEF Add
<1>3. /\ cap \in Nat /\ cap >= 1 /\ nitems \in 0..cap /\ cap >= InitCap
      /\ cap' \in InitCap..MaxCap /\ cap' >= cap /\ nitems \in 0..(cap' - 1)
  BY <1>1 DEF Inv, TypeOK, Room
<1>4. \A i \in 0..(cap' - 1) : Kept(i, junk) \in Entry
  BY <1>3 DEF Inv, TypeOK, Kept, Entry
<1>5. \A i \in 0..(cap' - 1) : KeptChannel(i) \in Channel \cup {Nobody}
  BY <1>3 DEF Inv, TypeOK, KeptChannel
<1>6. /\ list'[nitems].fd = c /\ list'[nitems].events \in Mask
      /\ list'[nitems] \in Entry /\ channels'[nitems] = c
  BY <1>1, <1>2, <1>3, <1>4 DEF Entry
<1>7. \A i \in 0..(nitems - 1) : list'[i] = list[i] /\ channels'[i] = channels[i]
  BY <1>1, <1>2, <1>3 DEF Kept, KeptChannel
<1>8. list' \in [0..(cap' - 1) -> Entry]
  <2>1. \A i \in 0..(cap' - 1) : list'[i] \in Entry
    BY <1>2, <1>4, <1>6
  <2>2. QED
    BY <1>2, <2>1
<1>9. index'[c] = nitems /\ \A d \in used : index'[d] = index[d]
  BY <1>1 DEF Inv, TypeOK
<1>10. TypeOK'
  <2>1. channels' \in [0..(cap' - 1) -> Channel \cup {Nobody}]
    BY <1>1, <1>5
  <2>2. index' \in [Channel -> Nat]
    <3>1. /\ index \in [Channel -> Nat]
          /\ nitems \in Nat
      BY <1>3 DEF Inv, TypeOK
    <3>2. QED
      BY <1>1, <3>1
  <2>3. QED
    BY <1>1, <1>3, <1>8, <2>1, <2>2 DEF Inv, TypeOK
<1>11. TableOK'
  <2>1. ASSUME NEW d \in used' 
        PROVE  index'[d] < nitems' /\ channels'[index'[d]] = d
                 /\ list'[index'[d]].fd = d
    <3>1. CASE d = c
      BY <1>1, <1>3, <1>6, <1>9, <3>1
    <3>2. CASE d # c
      <4>1. d \in used
        BY <1>1, <3>2
      <4>2. /\ index[d] \in 0..(nitems - 1) /\ channels[index[d]] = d
            /\ list[index[d]].fd = d
        BY <4>1, EntryFacts
      <4>3. index'[d] = index[d] /\ index[d] < nitems'
        BY <1>1, <1>3, <1>9, <4>1, <4>2
      <4>4. /\ list'[index[d]] = list[index[d]]
            /\ channels'[index[d]] = channels[index[d]]
        BY <1>7, <4>2
      <4>5. QED
        BY <4>2, <4>3, <4>4
    <3>3. QED
      BY <3>1, <3>2
  <2>2. ASSUME NEW i \in 0..(nitems' - 1)
        PROVE  channels'[i] \in used' /\ index'[channels'[i]] = i
    <3>1. CASE i = nitems
      BY <1>1, <1>6, <1>9, <3>1
    <3>2. CASE i # nitems
      <4>1. i \in 0..(nitems - 1)
        BY <1>1, <1>3, <3>2
      <4>2. channels[i] \in used /\ index[channels[i]] = i
        BY <4>1 DEF Inv, TableOK
      <4>3. channels'[i] = channels[i]
        BY <1>7, <4>1
      <4>4. index'[channels[i]] = index[channels[i]] /\ channels[i] \in used'
        BY <1>1, <1>9, <4>2
      <4>5. QED
        BY <4>2, <4>3, <4>4
    <3>3. QED
      BY <3>1, <3>2
  <2>3. QED
    BY <2>1, <2>2 DEF TableOK
<1>12. \A d \in used : list'[index'[d]] = list[index[d]]
  BY <1>7, <1>9, EntryFacts
<1>13. QED
  BY <1>6, <1>9, <1>10, <1>11, <1>12 DEF Inv

\* del: the entries of the other channels move at most together with their
\* channel's index.
LEMMA DelKeeps ==
    ASSUME Inv, NEW c \in Io, Del(c)
    PROVE  Inv' /\ \A d \in used' : list'[index'[d]] = list[index[d]]
<1> DEFINE i == index[c]  last == nitems - 1  mover == channels[last]
<1>1. /\ c \in used /\ nitems' = last /\ used' = used \ {c}
      /\ list' = [list EXCEPT ![last] = Cleared, ![i] = list[last]]
      /\ channels' = [channels EXCEPT ![last] = Nobody, ![i] = mover]
      /\ index' = [index EXCEPT ![mover] = i, ![c] = 0]
      /\ cap' = cap
  BY DEF Del
<1>2. /\ i \in 0..last /\ last \in 0..(cap - 1) /\ i \in 0..(cap - 1)
      /\ cap \in InitCap..MaxCap /\ nitems \in Nat /\ c \in Channel
  <2>1. /\ i \in 0..(nitems - 1) /\ i \in 0..(cap - 1) /\ c \in Channel
    BY <1>1, EntryFacts
  <2>2. cap \in InitCap..MaxCap /\ nitems \in 0..cap
    BY DEF Inv, TypeOK
  <2> HIDE DEF i
  <2>3. QED
    BY <2>1, <2>2
<1>3. mover \in used /\ index[mover] = last /\ channels[i] = c
  BY <1>1, <1>2, EntryFacts DEF Inv, TableOK
<1>4. used \subseteq Channel /\ list \in [0..(cap - 1) -> Entry]
      /\ channels \in [0..(cap - 1) -> Channel \cup {Nobody}]
      /\ index \in [Channel -> Nat]
  BY DEF Inv, TypeOK
<1> HIDE DEF i, last, mover
<1>5. /\ list'[i] = list[last] /\ channels'[i] = mover
      /\ \A j \in 0..(last - 1) :
            j # i => list'[j] = list[j] /\ channels'[j] = channels[j]
  BY <1>1, <1>2, <1>4
<1>6. /\ mover # c => index'[mover] = i
      /\ \A d \in used : d # c /\ d # mover => index'[d] = index[d]
  BY <1>1, <1>3, <1>4
<1>7. TypeOK'
  <2>1. Cleared \in Entry /\ list[last] \in Entry /\ i \in Nat
    BY <1>2, <1>4 DEF Cleared, Entry, Mask
  <2>2. list' \in [0..(cap' - 1) -> Entry]
    BY <1>1, <1>4, <2>1
  <2>3. channels' \in [0..(cap' - 1) -> Channel \cup {Nobody}]
    BY <1>1, <1>3, <1>4
  <2>4. index' \in [Channel -> Nat]
    BY <1>1, <1>4, <2>1
  <2>5. QED
    BY <1>1, <1>2, <2>2, <2>3, <2>4 DEF Inv, TypeOK
<1>8. ASSUME NEW d \in used'
      PROVE  /\ index'[d] \in 0..(last - 1) /\ channels'[index'[d]] = d
             /\ list'[index'[d]] = list[index[d]]
  <2>1. d \in used /\ d # c
    BY <1>1
  <2>2. index[d] \in 0..last /\ channels[index[d]] = d /\ index[d] # i
    BY <1>1, <2>1, EntryFacts DEF i, last
  <2>3. CASE d = mover
    BY <1>2, <1>3, <1>5, <1>6, <2>1, <2>2, <2>3
  <2>4. CASE d # mover
    <3>1. index[d] # last
      BY <1>3, <2>1, <2>4, EntryFacts
    <3>2. QED
      BY <1>2, <1>5, <1>6, <2>1, <2>2, <2>4, <3>1
  <2>5. QED
    BY <2>3, <2>4
<1>9. ASSUME NEW j \in 0..(last - 1)
      PROVE  channels'[j] \in used' /\ index'[channels'[j]] = j
  <2>1. CASE j = i
    <3>1. mover # c
      BY <1>2, <1>3, <2>1 DEF i
    <3>2. QED
      BY <1>1, <1>3, <1>5, <1>6, <2>1, <3>1
  <2>2. CASE j # i
    <3>1. channels[j] \in used /\ index[channels[j]] = j
      BY <1>2 DEF Inv, TableOK, last
    <3>2. channels[j] # c /\ channels[j] # mover
      BY <1>2, <1>3, <2>2, <3>1 DEF i
    <3>3. channels'[j] = channels[j]
      BY <1>5, <2>2
    <3>4. index'[channels[j]] = index[channels[j]] /\ channels[j] \in used'
      BY <1>1, <1>6, <3>1, <3>2
    <3>5. QED
      BY <3>1, <3>3, <3>4
  <2>3. QED
    BY <2>1, <2>2
<1>10. TableOK'
  <2>1. \A d \in used' : list[index[d]].fd = d
    BY <1>1, EntryFacts
  <2>2. last \in Int /\ nitems' = last
    BY <1>1, <1>2
  <2>3. ASSUME NEW d \in used'
        PROVE  index'[d] < nitems' /\ channels'[index'[d]] = d
                 /\ list'[index'[d]].fd = d
    BY <1>8, <2>1, <2>2
  <2>4. \A j \in 0..(nitems' - 1) : channels'[j] \in used' /\ index'[channels'[j]] = j
    BY <1>9, <2>2
  <2>5. QED
    BY <2>3, <2>4 DEF TableOK
<1>11. QED
  BY <1>7, <1>8, <1>10 DEF Inv

\* mod: one entry gets another mask.
LEMMA ModKeeps ==
    ASSUME Inv, NEW c \in Channel, NEW m \in Mask, Mod(c, m)
    PROVE  /\ Inv' /\ list'[index[c]].events = m
           /\ \A d \in used : d # c => list'[index[d]] = list[index[d]]
<1>1. /\ c \in used /\ list' = [list EXCEPT ![index[c]].events = m]
      /\ channels' = channels /\ cap' = cap /\ nitems' = nitems
      /\ index' = index /\ used' = used
  BY DEF Mod
<1>2. /\ list \in [0..(cap - 1) -> Entry] /\ index[c] \in 0..(cap - 1)
      /\ list[index[c]] \in Entry /\ list[index[c]].fd = c
  BY <1>1, EntryFacts DEF Inv, TypeOK
<1>3. /\ list'[index[c]] = [list[index[c]] EXCEPT !.events = m]
      /\ \A j \in 0..(cap - 1) : j # index[c] => list'[j] = list[j]
  BY <1>1, <1>2
<1>4. /\ list'[index[c]].fd = c /\ list'[index[c]].events = m
      /\ list'[index[c]] \in Entry
  BY <1>2, <1>3 DEF Entry
<1>5. list' \in [0..(cap - 1) -> Entry]
  BY <1>1, <1>2, <1>4
<1>6. \A d \in used : d # c => list'[index[d]] = list[index[d]]
  BY <1>1, <1>3, EntryFacts
<1>7. TypeOK'
  BY <1>1, <1>5 DEF Inv, TypeOK
<1>8. TableOK'
  <2>1. \A d \in used : list'[index[d]].fd = d
    BY <1>4, <1>6, EntryFacts
  <2>2. QED
    BY <1>1, <2>1 DEF Inv, TableOK
<1>9. QED
  BY <1>4, <1>6, <1>7, <1>8 DEF Inv

\* Every operation keeps the table right.
LEMMA NextInv == Inv /\ [Next]_vars => Inv'
<1> SUFFICES ASSUME Inv, [Next]_vars PROVE Inv'
  OBVIOUS
<1>1. ASSUME NEW c \in Channel, NEW m \in Mask, Add(c, m) PROVE Inv'
  BY <1>1, AddKeeps
<1>2. ASSUME NEW c \in Channel, NEW m \in Mask, Mod(c, m) PROVE Inv'
  BY <1>2, ModKeeps
<1>3. ASSUME NEW c \in Io, Del(c) PROVE Inv'
  BY <1>3, DelKeeps
<1>4. CASE UNCHANGED vars
  BY <1>4 DEF vars, Inv, TypeOK, TableOK
<1>5. QED
  BY <1>1, <1>2, <1>3, <1>4 DEF Next

\* The table holds each channel in use once, at its index: what poll() reports
\* of an entry reaches the channel whose descriptor it is.
THEOREM TableCorrect == Spec => [](TypeOK /\ TableOK)
<1>1. Inv => TypeOK /\ TableOK
  BY DEF Inv
<1>2. QED
  BY <1>1, InitInv, NextInv, PTL DEF Spec

\* Swap-removal and growth cannot be seen from outside: the poll reactor
\* watches what was added and not deleted, with the masks mod gave.
THEOREM PollIsReactor == Spec => ImplementsReactor
<1> DEFINE w == [c \in used |-> list[index[c]].events]
<1>1. Init => R!Init
  BY DEF Init, R!Init
<1>2. Inv /\ [Next]_vars => [R!Next]_w
  <2> SUFFICES ASSUME Inv, [Next]_vars PROVE R!Next \/ w' = w
    OBVIOUS
  <2>0. w' = [c \in used' |-> list'[index'[c]].events]
    OBVIOUS
  <2>1. ASSUME NEW c \in Channel, NEW m \in Mask, Add(c, m) PROVE R!Next
    <3>1. used' = used \cup {c} /\ c \notin used
      BY <2>1 DEF Add
    <3>2. /\ \A d \in used : list'[index'[d]] = list[index[d]]
          /\ list'[index'[c]].events \in Mask
      BY <2>1, AddKeeps
    <3>3. w' = [d \in DOMAIN w \cup {c} |->
                   IF d = c THEN list'[index'[c]].events ELSE w[d]]
      BY <2>0, <3>1, <3>2
    <3>4. R!Add(c)
      BY <3>1, <3>2, <3>3 DEF R!Add
    <3>5. QED
      BY <3>4 DEF R!Next
  <2>2. ASSUME NEW c \in Channel, NEW m \in Mask, Mod(c, m) PROVE R!Next
    <3>1. used' = used /\ index' = index /\ c \in used
      BY <2>2 DEF Mod
    <3>2. /\ list'[index[c]].events = m
          /\ \A d \in used : d # c => list'[index[d]] = list[index[d]]
      BY <2>2, ModKeeps
    <3>3. w' = [w EXCEPT ![c] = m]
      BY <2>0, <3>1, <3>2
    <3>4. R!Mod(c, m)
      BY <3>1, <3>3 DEF R!Mod
    <3>5. QED
      BY <3>4 DEF R!Next
  <2>3. ASSUME NEW c \in Io, Del(c) PROVE R!Next
    <3>1. used' = used \ {c} /\ c \in used
      BY <2>3 DEF Del
    <3>2. \A d \in used' : list'[index'[d]] = list[index[d]]
      BY <2>3, DelKeeps
    <3>3. w' = [d \in DOMAIN w \ {c} |-> w[d]]
      BY <2>0, <3>1, <3>2
    <3>4. R!Del(c) /\ c \in Channel
      BY <3>1, <3>3 DEF R!Del, Channel
    <3>5. QED
      BY <3>4 DEF R!Next
  <2>4. CASE UNCHANGED vars
    BY <2>4 DEF vars
  <2>5. QED
    BY <2>1, <2>2, <2>3, <2>4 DEF Next
<1>3. QED
  BY <1>1, <1>2, InitInv, NextInv, PTL DEF Spec, ImplementsReactor, R!Spec
=============================================================================
