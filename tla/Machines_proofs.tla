--------------------------- MODULE Machines_proofs ---------------------------
(***************************************************************************)
(* Proofs about Mempool and Machines: machines use the reactor and the     *)
(* pool as the modules of these expect, so what is proved there holds      *)
(* here; and what the reactor watches stays with its machine, as long as   *)
(* the machine is not deleted.                                             *)
(***************************************************************************)
EXTENDS Machines, PollReactor_proofs

USE PoolAssumption, MachineAssumption

----------------------------------------------------------------------------
(* The pool of the machines, for pages of any size and any number of them. *)

PoolInv == PoolTypeOK /\ BlocksOnce

\* The head and the rest of a basket.
LEMMA BasketTail ==
    ASSUME PoolInv, basket # <<>>
    PROVE  /\ Head(basket) \in Block /\ Tail(basket) \in Seq(Block)
           /\ \A i, j \in DOMAIN Tail(basket) : Tail(basket)[i] = Tail(basket)[j] => i = j
           /\ Basket = {Head(basket)} \cup {Tail(basket)[i] : i \in DOMAIN Tail(basket)}
           /\ \A i \in DOMAIN Tail(basket) : Tail(basket)[i] # Head(basket)
<1> DEFINE t == Tail(basket)
<1>1. /\ basket \in Seq(Block) /\ Head(basket) = basket[1] /\ Head(basket) \in Block
      /\ t \in Seq(Block) /\ Len(basket) \in Nat \ {0}
      /\ DOMAIN basket = 1..Len(basket) /\ DOMAIN t = 1..(Len(basket) - 1)
      /\ \A i \in DOMAIN t : t[i] = basket[i + 1] /\ i + 1 \in DOMAIN basket
  BY DEF PoolInv, PoolTypeOK
<1>2. \A i, j \in DOMAIN basket : basket[i] = basket[j] => i = j
  BY DEF PoolInv, BlocksOnce
<1>3. \A i, j \in DOMAIN t : t[i] = t[j] => i = j
  BY <1>1, <1>2
<1>4. \A i \in DOMAIN t : t[i] # Head(basket)
  BY <1>1, <1>2
<1>5. Basket = {Head(basket)} \cup {t[i] : i \in DOMAIN t}
  <2>1. ASSUME NEW i \in DOMAIN basket PROVE i = 1 \/ (i - 1 \in DOMAIN t /\ basket[i] = t[i - 1])
    <3>1. CASE i # 1
      <4>1. i - 1 \in DOMAIN t /\ (i - 1) + 1 = i
        BY <1>1, <3>1
      <4>2. QED
        BY <1>1, <4>1
    <3>2. QED
      BY <3>1
  <2>2. 1 \in DOMAIN basket
    BY <1>1
  <2>3. Basket \subseteq {Head(basket)} \cup {t[i] : i \in DOMAIN t}
    <3>1. ASSUME NEW i \in DOMAIN basket
          PROVE  basket[i] \in {Head(basket)} \cup {t[j] : j \in DOMAIN t}
      BY <1>1, <2>1
    <3>2. QED
      BY <3>1 DEF Basket
  <2>4. {Head(basket)} \subseteq Basket /\ {t[i] : i \in DOMAIN t} \subseteq Basket
    BY <1>1, <2>2 DEF Basket
  <2>5. QED
    BY <2>3, <2>4
<1>6. QED
  BY <1>1, <1>3, <1>4, <1>5

\* A basket with one more block on top.
LEMMA BasketPush ==
    ASSUME PoolInv, NEW b \in Block, b \notin Basket
    PROVE  /\ <<b>> \o basket \in Seq(Block)
           /\ \A i, j \in DOMAIN (<<b>> \o basket) :
                 (<<b>> \o basket)[i] = (<<b>> \o basket)[j] => i = j
           /\ {(<<b>> \o basket)[i] : i \in DOMAIN (<<b>> \o basket)} = {b} \cup Basket
<1> DEFINE p == <<b>> \o basket
<1>1. /\ basket \in Seq(Block) /\ p \in Seq(Block)
      /\ Len(basket) \in Nat
      /\ DOMAIN basket = 1..Len(basket) /\ DOMAIN p = 1..(Len(basket) + 1)
      /\ p[1] = b
      /\ \A i \in DOMAIN p \ {1} : p[i] = basket[i - 1] /\ i - 1 \in DOMAIN basket
      /\ \A i \in DOMAIN basket : i + 1 \in DOMAIN p \ {1} /\ (i + 1) - 1 = i
      /\ 1 \in DOMAIN p
  BY DEF PoolInv, PoolTypeOK
<1>2. \A i \in DOMAIN basket : basket[i] # b
  BY DEF Basket
<1>3. \A i, j \in DOMAIN basket : basket[i] = basket[j] => i = j
  BY DEF PoolInv, BlocksOnce
<1>4. ASSUME NEW i \in DOMAIN p, NEW j \in DOMAIN p, p[i] = p[j] PROVE i = j
  <2>1. CASE i = 1 \/ j = 1
    BY <1>1, <1>2, <1>4, <2>1
  <2>2. CASE i # 1 /\ j # 1
    <3>1. i - 1 = j - 1
      BY <1>1, <1>3, <1>4, <2>2
    <3>2. QED
      BY <1>1, <3>1
  <2>3. QED
    BY <2>1, <2>2
<1>5. {p[i] : i \in DOMAIN p} = {b} \cup Basket
  <2>1. \A i \in DOMAIN basket : \E j \in DOMAIN p : p[j] = basket[i]
    BY <1>1
  <2>2. QED
    BY <1>1, <2>1 DEF Basket
<1>6. QED
  BY <1>1, <1>4, <1>5

\* The first page: every block is in the chain.
LEMMA PoolInitInv == PoolInit => PoolInv
BY DEF PoolInit, PoolInv, PoolTypeOK, BlocksOnce, Basket, Chain

\* Every operation keeps each block in one place.
LEMMA PoolStep == PoolInv /\ [PoolNext]_poolVars => PoolInv'
<1> SUFFICES ASSUME PoolInv, [PoolNext]_poolVars PROVE PoolInv'
  OBVIOUS
<1>1. /\ naddr \in 1..MaxPages /\ blocks \in 0..NBLOCKS
      /\ basket \in Seq(Block) /\ taken \subseteq Block
      /\ Basket \cap taken = {} /\ Chain \cap (Basket \cup taken) = {}
      /\ Chain \cup Basket \cup taken = (1..naddr) \X (0..(NBLOCKS - 1))
      /\ nblocks = NBLOCKS - blocks
      /\ \A i, j \in DOMAIN basket : basket[i] = basket[j] => i = j
  BY DEF PoolInv, PoolTypeOK, BlocksOnce
<1>2. ASSUME NEW b \in Block, FromBasket(b) PROVE PoolInv'
  <2>1. /\ b \in Basket /\ Basket' = Basket \ {b} /\ basket' \in Seq(Block)
        /\ \A i, j \in DOMAIN basket' : basket'[i] = basket'[j] => i = j
    BY <1>2, BasketTail DEF FromBasket, Basket
  <2>2. Chain' = Chain /\ taken' = taken \cup {b}
    BY <1>2 DEF FromBasket, Chain
  <2>3. UNCHANGED <<naddr, addr, blocks, nblocks>>
    BY <1>2 DEF FromBasket
  <2>4. QED
    BY <1>1, <2>1, <2>2, <2>3 DEF PoolInv, PoolTypeOK, BlocksOnce
<1>3. ASSUME NEW b \in Block, FromChain(b) PROVE PoolInv'
  <2>1. /\ blocks \in 0..(NBLOCKS - 1) /\ b = <<naddr, blocks>>
        /\ blocks..(NBLOCKS - 1) = {blocks} \cup ((blocks + 1)..(NBLOCKS - 1))
        /\ blocks \notin (blocks + 1)..(NBLOCKS - 1)
    BY <1>1, <1>3 DEF FromChain
  <2>2. b \in Chain /\ Chain' = Chain \ {b} /\ Basket' = Basket
    BY <1>3, <2>1 DEF FromChain, Chain, Basket
  <2>3. QED
    BY <1>1, <1>3, <2>1, <2>2 DEF FromChain, PoolInv, PoolTypeOK, BlocksOnce
<1>4. ASSUME NEW b \in Block, FromNewPage(b) PROVE PoolInv'
  <2>1. /\ naddr' = naddr + 1 /\ naddr' \in 1..MaxPages /\ b = <<naddr + 1, 0>>
        /\ blocks' = 1 /\ nblocks' = NBLOCKS - 1 /\ basket = <<>> /\ blocks = NBLOCKS
        /\ taken' = taken \cup {b} /\ UNCHANGED <<addr, basket>>
    BY <1>1, <1>4 DEF FromNewPage, NeedsPage
  <2>2. Chain = {} /\ Basket = {} /\ Basket' = {} /\ Chain' = {naddr + 1} \X (1..(NBLOCKS - 1))
    BY <2>1 DEF Chain, Basket
  <2>3. taken = (1..naddr) \X (0..(NBLOCKS - 1))
    BY <1>1, <2>2
  <2>4. 0..(NBLOCKS - 1) = {0} \cup (1..(NBLOCKS - 1)) /\ 1..(naddr + 1) = (1..naddr) \cup {naddr + 1}
    BY <1>1
  <2>5. Chain' \cup taken' = (1..(naddr + 1)) \X (0..(NBLOCKS - 1))
    BY <2>1, <2>2, <2>3, <2>4
  <2>6. Chain' \cap taken' = {}
    <3>1. naddr + 1 \notin 1..naddr /\ 0 \notin 1..(NBLOCKS - 1)
      BY <1>1
    <3>2. QED
      BY <2>1, <2>2, <2>3, <3>1
  <2>7. QED
    BY <1>1, <1>4, <2>1, <2>2, <2>5, <2>6 DEF PoolInv, PoolTypeOK, BlocksOnce
<1>5. ASSUME NEW b \in Block, PutBlock(b) PROVE PoolInv'
  <2>1. b \in taken /\ b \notin Basket
    BY <1>1, <1>5 DEF PutBlock
  <2>2. /\ Basket' = {b} \cup Basket /\ basket' \in Seq(Block)
        /\ \A i, j \in DOMAIN basket' : basket'[i] = basket'[j] => i = j
    <3>1. basket' = <<b>> \o basket
      BY <1>5 DEF PutBlock
    <3>2. Basket' = {(<<b>> \o basket)[i] : i \in DOMAIN (<<b>> \o basket)}
      BY <3>1 DEF Basket
    <3>3. QED
      BY <2>1, <3>1, <3>2, BasketPush
  <2>3. Chain' = Chain /\ taken' = taken \ {b} /\ UNCHANGED <<naddr, addr, blocks, nblocks>>
    BY <1>5 DEF PutBlock, Chain
  <2>4. QED
    BY <1>1, <2>1, <2>2, <2>3 DEF PoolInv, PoolTypeOK, BlocksOnce
<1>6. CASE NoBlock
  <2>1. Chain' = Chain /\ Basket' = Basket /\ UNCHANGED <<naddr, blocks, nblocks, basket, taken>>
    BY <1>6 DEF NoBlock, Chain, Basket
  <2>2. addr' \in {"live", "freed", "undefined"}
    BY <1>6 DEF NoBlock
  <2>3. QED
    BY <2>1, <2>2 DEF PoolInv, PoolTypeOK, BlocksOnce
<1>7. CASE UNCHANGED poolVars
  BY <1>7 DEF poolVars, PoolInv, PoolTypeOK, BlocksOnce, Chain, Basket
<1>8. QED
  BY <1>2, <1>3, <1>4, <1>5, <1>6, <1>7 DEF PoolNext, GetBlock

\* Whatever is taken and put back, in any order, and whichever allocation
\* fails: no block has two holders, and none is lost.
THEOREM BlocksInOnePlace == PoolSpec => [](PoolTypeOK /\ BlocksOnce)
<1>1. PoolInv => PoolTypeOK /\ BlocksOnce
  BY DEF PoolInv
<1>2. QED
  BY PoolInitInv, PoolStep, <1>1, PTL DEF PoolSpec

----------------------------------------------------------------------------
(* The machines.                                                           *)

\* What is needed beside the properties: a block without machine has no channel
\* of a timer, and if its io channel is watched it was left.
Owned ==
    /\ life \in [Block -> Lives]
    /\ hard \in [Block -> SUBSET Hard]
    /\ left \subseteq Channel /\ sound \in BOOLEAN
    /\ \A b \in Block : life[b] = "none" => hard[b] = {}
    /\ ChannelsHaveOwners

MachineInv == Inv /\ PoolInv /\ Owned

\* What a step of the machines is for the reactor.
LEMMA ReactorStep == ASSUME Owned, [MachineNext]_machineVars PROVE [Next]_vars
<1>1. {} \in Mask /\ Hard \subseteq Channel /\ Block \subseteq Channel
  BY DEF Mask, Channel
<1>2. ASSUME NEW c \in Channel, NEW m \in Mask, Add(c, m) \/ Mod(c, m) PROVE Next
  BY <1>2 DEF Next
<1>3. ASSUME NEW c \in Io, Del(c) PROVE Next
  BY <1>3 DEF Next
<1>4. CASE UNCHANGED machineVars
  BY <1>4 DEF machineVars
<1>5. ASSUME NoMachine \/ FailedStates \/ Breaks PROVE [Next]_vars
  BY <1>5 DEF NoMachine, FailedStates, Breaks, vars
<1>6. ASSUME NEW b \in Block, NewMachine(b) \/ FailedMachine(b) PROVE [Next]_vars
  BY <1>1, <1>2, <1>6 DEF NewMachine, FailedMachine
<1>7. ASSUME NEW b \in Block, DelMachine(b) \/ RunMachine(b) \/ Ends(b) \/ RestartMachine(b)
      PROVE  [Next]_vars
  BY <1>7 DEF DelMachine, RunMachine, Ends, RestartMachine
<1>8. ASSUME NEW b \in Block, InitIo(b) PROVE [Next]_vars
  <2>1. Add(b, {}) \/ Breaks
    BY <1>8 DEF InitIo
  <2>2. QED
    BY <1>1, <1>2, <1>5, <2>1
<1>9. ASSUME NEW b \in Block, FreeIo(b) PROVE [Next]_vars
  <2>1. Del(b) \/ Breaks
    BY <1>9 DEF FreeIo
  <2>2. QED
    BY <1>3, <1>5, <2>1
<1>10. ASSUME NEW b \in Block, NEW m \in Mask, ModIo(b, m) PROVE [Next]_vars
  BY <1>1, <1>2, <1>10 DEF ModIo
<1>11. ASSUME NEW b \in Block, NEW m \in Mask, NEW c \in hard[b], ModHard(b, c, m)
       PROVE  [Next]_vars
  BY <1>1, <1>2, <1>11 DEF ModHard, Owned
<1>12. QED
  BY <1>4, <1>5, <1>6, <1>7, <1>8, <1>9, <1>10, <1>11 DEF MachineNext

\* What a step of the machines is for the pool.
LEMMA BlockStep == ASSUME [MachineNext]_machineVars PROVE [PoolNext]_poolVars
<1>1. CASE UNCHANGED machineVars
  BY <1>1 DEF machineVars
<1>2. CASE MachineNext
  <2>1. addr # "undefined"
    BY <1>2 DEF MachineNext
  <2>2. \/ NoBlock \/ UNCHANGED poolVars
        \/ \E b \in Block : GetBlock(b) \/ PutBlock(b)
    <3>1. ASSUME NoMachine \/ FailedStates PROVE NoBlock \/ UNCHANGED poolVars
      BY <3>1 DEF NoMachine, FailedStates, Breaks
    <3>2. ASSUME NEW b \in Block,
                 \/ NewMachine(b) \/ FailedMachine(b) \/ DelMachine(b)
                 \/ RunMachine(b) \/ Ends(b) \/ RestartMachine(b)
                 \/ InitIo(b) \/ FreeIo(b)
                 \/ \E m \in Mask : ModIo(b, m) \/ \E c \in hard[b] : ModHard(b, c, m)
          PROVE  UNCHANGED poolVars \/ GetBlock(b) \/ PutBlock(b)
      BY <3>2 DEF NewMachine, FailedMachine, DelMachine, RunMachine, Ends, RestartMachine,
                  InitIo, FreeIo, Breaks, ModIo, ModHard
    <3>3. QED
      BY <1>2, <3>1, <3>2 DEF MachineNext
  <2>3. QED
    BY <2>1, <2>2 DEF PoolNext
<1>3. QED
  BY <1>1, <1>2

\* A block is taken when the pool gives it, and not before.
LEMMA GivenOnce ==
    ASSUME PoolInv, NEW b \in Block, GetBlock(b)
    PROVE  b \notin taken /\ taken' = taken \cup {b}
<1>1. CASE FromBasket(b)
  BY <1>1, BasketTail DEF FromBasket, PoolInv, BlocksOnce
<1>2. CASE FromChain(b)
  <2>1. b \in Chain
    <3>1. blocks \in blocks..(NBLOCKS - 1) /\ b = <<naddr, blocks>>
      BY <1>2, PoolAssumption DEF FromChain, PoolInv, PoolTypeOK
    <3>2. QED
      BY <3>1 DEF Chain
  <2>2. QED
    BY <1>2, <2>1 DEF FromChain, PoolInv, BlocksOnce
<1>3. CASE FromNewPage(b)
  <2>1. b = <<naddr + 1, 0>> /\ taken \subseteq (1..naddr) \X (0..(NBLOCKS - 1)) /\ naddr \in Nat
    BY <1>3 DEF FromNewPage, PoolInv, PoolTypeOK, BlocksOnce
  <2>2. QED
    BY <1>3, <2>1 DEF FromNewPage
<1>4. QED
  BY <1>1, <1>2, <1>3 DEF GetBlock

\* Every step leaves the channels with their machines, or is the deletion of
\* their machine.
LEMMA OwnedStep ==
    ASSUME MachineInv, [MachineNext]_machineVars
    PROVE  Owned'
<1> USE DEF MachineInv
<1>1. /\ life \in [Block -> Lives] /\ hard \in [Block -> SUBSET Hard]
      /\ left \subseteq Channel /\ sound \in BOOLEAN
      /\ \A b \in Block : hard[b] \subseteq used \ left
      /\ \A b \in Block : life[b] = "none" => hard[b] = {}
      /\ \A c \in (used \ left) \cap Io : Live(c)
      /\ \A c \in (used \ left) \cap Hard : \E b \in taken : c \in hard[b]
      /\ \A a, b \in Block : a # b => hard[a] \cap hard[b] = {}
      /\ \A b \in Block : b \in taken <=> life[b] # "none"
      /\ left \subseteq used
      /\ Hard \cap Block = {} /\ taken \subseteq Block /\ used \subseteq Channel
  BY PollAssumption DEF Owned, ChannelsHaveOwners, PoolInv, PoolTypeOK, Inv, TypeOK
<1>2. ASSUME NEW b \in Block, NEW l \in {"new", "lost"}, GetBlock(b), Becomes(b, l),
             UNCHANGED <<left, sound>>,
             \/ UNCHANGED <<vars, hard>>
             \/ \E c \in Hard : Add(c, {}) /\ hard' = [hard EXCEPT ![b] = {c}]
      PROVE  Owned'
  <2>1. b \notin taken /\ taken' = taken \cup {b} /\ hard[b] = {} /\ b \notin used \ left
    BY <1>1, <1>2, GivenOnce DEF Live
  <2>2. life' = [life EXCEPT ![b] = l] /\ left' = left /\ sound' = sound
    BY <1>2 DEF Becomes
  <2>3. CASE UNCHANGED <<vars, hard>>
    <3>1. used' = used /\ hard' = hard
      BY <2>3 DEF vars
    <3>2. QED
      BY <1>1, <2>1, <2>2, <3>1 DEF Owned, ChannelsHaveOwners, Live, Lives
  <2>4. ASSUME NEW c \in Hard, Add(c, {}), hard' = [hard EXCEPT ![b] = {c}] PROVE Owned'
    <3>1. used' = used \cup {c} /\ c \notin used /\ c \notin left
      BY <1>1, <2>4 DEF Add
    <3>2. hard'[b] = {c} /\ \A a \in Block \ {b} : hard'[a] = hard[a] /\ c \notin hard[a]
      BY <1>1, <2>4, <3>1
    <3>3. hard' \in [Block -> SUBSET Hard]
      BY <1>1, <2>4
    <3>4. life' \in [Block -> Lives] /\ life'[b] # "none"
          /\ \A a \in Block \ {b} : life'[a] = life[a]
      BY <1>1, <2>2 DEF Lives
    <3>5. \A d \in (used' \ left') \cap Io : Live(d)'
      BY <1>1, <2>1, <2>2, <3>1, <3>4 DEF Live
    <3>6. \A d \in (used' \ left') \cap Hard : \E a \in taken' : d \in hard'[a]
      BY <1>1, <2>1, <2>2, <3>1, <3>2
    <3>7. \A a \in Block : hard'[a] \subseteq used' \ left'
      BY <1>1, <2>2, <3>1, <3>2
    <3>8. QED
      BY <1>1, <2>1, <2>2, <3>1, <3>2, <3>3, <3>4, <3>5, <3>6, <3>7
      DEF Owned, ChannelsHaveOwners
  <2>5. QED
    BY <1>2, <2>3, <2>4
<1>3. ASSUME NEW b \in Block, DelMachine(b) PROVE Owned'
  <2>1. /\ life' = [life EXCEPT ![b] = "none"] /\ taken' = taken \ {b}
        /\ used' = used /\ hard' = [hard EXCEPT ![b] = {}]
        /\ left' = left \cup hard[b] \cup ({b} \cap used) /\ sound' = sound
    BY <1>3 DEF DelMachine, Becomes, PutBlock, vars
  <2>2. hard'[b] = {} /\ \A a \in Block \ {b} : hard'[a] = hard[a]
    BY <1>1, <2>1
  <2>3. life'[b] = "none" /\ \A a \in Block \ {b} : life'[a] = life[a]
    BY <1>1, <2>1
  <2>4. left' \subseteq used' /\ left' \subseteq Channel
    BY <1>1, <2>1
  <2>5. \A a \in Block : hard'[a] \subseteq used' \ left'
    <3>1. ASSUME NEW a \in Block, a # b PROVE hard'[a] \subseteq used' \ left'
      BY <1>1, <2>1, <2>2, <3>1
    <3>2. QED
      BY <2>2, <3>1
  <2>6. \A c \in (used' \ left') \cap Io : Live(c)'
    <3>1. ASSUME NEW c \in (used' \ left') \cap Io PROVE Live(c)'
      <4>1. c \in (used \ left) \cap Io /\ c # b
        BY <2>1, <3>1
      <4>2. QED
        BY <1>1, <2>3, <4>1 DEF Live
    <3>2. QED
      BY <3>1
  <2>7. \A c \in (used' \ left') \cap Hard : \E a \in taken' : c \in hard'[a]
    <3>1. ASSUME NEW c \in (used' \ left') \cap Hard
          PROVE  \E a \in taken' : c \in hard'[a]
      <4>1. c \in (used \ left) \cap Hard /\ c \notin hard[b]
        BY <2>1, <3>1
      <4>2. PICK a \in taken : c \in hard[a]
        BY <1>1, <4>1
      <4>3. a # b /\ a \in taken' /\ c \in hard'[a]
        BY <1>1, <2>1, <2>2, <4>1, <4>2
      <4>4. QED
        BY <4>3
    <3>2. QED
      BY <3>1
  <2>8. /\ life' \in [Block -> Lives] /\ hard' \in [Block -> SUBSET Hard]
        /\ \A a \in Block : life'[a] = "none" => hard'[a] = {}
        /\ \A a \in Block : a \in taken' <=> life'[a] # "none"
        /\ \A a, d \in Block : a # d => hard'[a] \cap hard'[d] = {}
    <3>1. life' \in [Block -> Lives] /\ hard' \in [Block -> SUBSET Hard]
      BY <1>1, <2>1 DEF Lives
    <3>2. QED
      BY <1>1, <2>1, <2>2, <2>3, <3>1
  <2>9. QED
    BY <1>1, <2>1, <2>4, <2>5, <2>6, <2>7, <2>8 DEF Owned, ChannelsHaveOwners
<1>4. ASSUME NEW b \in Block, RunMachine(b) \/ Ends(b) \/ RestartMachine(b) PROVE Owned'
  <2>1. /\ \E l \in {"work", "fini"} : life' = [life EXCEPT ![b] = l]
        /\ Live(b) /\ taken' = taken /\ used' = used /\ hard' = hard
        /\ left' = left /\ sound' = sound
    BY <1>4 DEF RunMachine, Ends, RestartMachine, Becomes, Live, vars, poolVars
  <2>2. QED
    BY <1>1, <2>1 DEF Owned, ChannelsHaveOwners, Live, Lives
<1>5. ASSUME NoMachine \/ FailedStates \/ Breaks \/ UNCHANGED machineVars PROVE Owned'
  <2>1. taken' = taken /\ used' = used /\ UNCHANGED <<life, hard, left>> /\ sound' \in BOOLEAN
    BY <1>1, <1>5 DEF NoMachine, FailedStates, Breaks, NoBlock, machineVars, vars, poolVars
  <2>2. QED
    BY <1>1, <2>1 DEF Owned, ChannelsHaveOwners, Live
<1>6. ASSUME NEW b \in Block, InitIo(b) PROVE Owned'
  <2>1. CASE Breaks
    BY <1>5, <2>1
  <2>2. CASE Add(b, {}) /\ UNCHANGED <<poolVars, life, hard, left, sound>>
    <3>1. /\ Live(b) /\ taken' = taken /\ used' = used \cup {b} /\ b \notin left
          /\ UNCHANGED <<life, hard, left, sound>>
      BY <1>1, <1>6, <2>2 DEF InitIo, Add, poolVars
    <3>2. QED
      BY <1>1, <3>1 DEF Owned, ChannelsHaveOwners, Live
  <2>3. QED
    BY <1>6, <2>1, <2>2 DEF InitIo
<1>7. ASSUME NEW b \in Block, FreeIo(b) PROVE Owned'
  <2>1. CASE Breaks
    BY <1>5, <2>1
  <2>2. CASE Del(b) /\ left' = left \ {b} /\ UNCHANGED <<poolVars, life, hard, sound>>
    <3>1. taken' = taken /\ used' = used \ {b} /\ left' = left \ {b}
          /\ UNCHANGED <<life, hard, sound>>
      BY <2>2 DEF Del, poolVars
    <3>2. \A a \in Block : b \notin hard[a]
      BY <1>1
    <3>3. QED
      BY <1>1, <3>1, <3>2 DEF Owned, ChannelsHaveOwners, Live
  <2>3. QED
    BY <1>7, <2>1, <2>2 DEF FreeIo
<1>8. ASSUME NEW b \in Block, NEW m \in Mask, ModIo(b, m) \/ \E c \in hard[b] : ModHard(b, c, m)
      PROVE  Owned'
  <2>1. taken' = taken /\ used' = used /\ UNCHANGED <<life, hard, left, sound>>
    BY <1>8 DEF ModIo, ModHard, Mod, poolVars
  <2>2. QED
    BY <1>1, <2>1 DEF Owned, ChannelsHaveOwners, Live
<1>9. ASSUME NEW b \in Block, NewMachine(b) PROVE Owned'
  BY <1>2, <1>9 DEF NewMachine
<1>10. ASSUME NEW b \in Block, FailedMachine(b) PROVE Owned'
  BY <1>2, <1>10 DEF FailedMachine
<1>11. QED
  BY <1>3, <1>4, <1>5, <1>6, <1>7, <1>8, <1>9, <1>10 DEF MachineNext

\* The invariant is inductive.
LEMMA MachineStart == MachineInit => MachineInv
<1> SUFFICES ASSUME MachineInit PROVE MachineInv
  OBVIOUS
<1>1. Inv /\ PoolInv
  BY InitInv, PoolInitInv DEF MachineInit
<1>2. Owned
  BY DEF MachineInit, Init, PoolInit, Owned, ChannelsHaveOwners, Lives, Live
<1>3. QED
  BY <1>1, <1>2 DEF MachineInv
LEMMA MachineStep == MachineInv /\ [MachineNext]_machineVars => MachineInv' /\ [Next]_vars
<1> SUFFICES ASSUME MachineInv, [MachineNext]_machineVars PROVE MachineInv' /\ [Next]_vars
  OBVIOUS
<1>1. [Next]_vars /\ [PoolNext]_poolVars /\ Owned'
  BY ReactorStep, BlockStep, OwnedStep DEF MachineInv
<1>2. QED
  BY <1>1, NextInv, PoolStep DEF MachineInv

\* Machines, blocks and channels are what the code declares them to be,
\* whichever allocation or descriptor cannot be had.
THEOREM MachineTypeCorrect == MachineSpec => []MachineTypeOK
<1>1. MachineInv => MachineTypeOK
  BY DEF MachineInv, Inv, PoolInv, Owned, MachineTypeOK
<1>2. QED
  BY MachineStart, MachineStep, <1>1, PTL DEF MachineSpec

\* The table of the reactor is right and each block in one place, whatever the
\* machines do with them, the deletion of a machine that the reactor still
\* watches included, until a step frees or writes memory that is not its own;
\* and only esma_machine_del leaves a channel behind.
THEOREM MachinesCorrect == MachineSpec => [](TableOK /\ BlocksOnce /\ ChannelsHaveOwners)
<1>1. MachineInv => TableOK /\ BlocksOnce /\ ChannelsHaveOwners
  BY DEF MachineInv, Inv, PoolInv, Owned
<1>2. QED
  BY MachineStart, MachineStep, <1>1, PTL DEF MachineSpec

\* To the reactor every run of the machines is a run of its own module: the
\* machines' channels are watched as the abstract reactor promises.
THEOREM MachinesUseReactor == MachineSpec => Spec /\ ImplementsReactor
<1>1. MachineInit => Init
  BY DEF MachineInit
<1>2. QED
  BY <1>1, MachineStart, MachineStep, PollIsReactor, PTL DEF MachineSpec, Spec
=============================================================================
