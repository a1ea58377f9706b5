------------------------------- MODULE Mempool -------------------------------
(***************************************************************************)
(* core/esma_mempool.c: a pool of blocks of one size.  Memory comes in     *)
(* pages of NBLOCKS blocks; the chain is what is left of the newest page,  *)
(* and the basket holds the blocks that were put back.                     *)
(*                                                                         *)
(* A block is its page and its place in it.  Callers put a block back      *)
(* once.  The functions for several blocks have no callers and are left    *)
(* out.                                                                    *)
(***************************************************************************)
EXTENDS Integers, Sequences

CONSTANTS
    NBLOCKS,        \* blocks of a page, 1024
    MaxPages        \* bound: pages

ASSUME PoolAssumption == NBLOCKS \in Nat \ {0} /\ MaxPages \in Nat \ {0}

VARIABLES
    naddr,      \* pages
    addr,       \* the array of pages: "live", "freed" or, after that, "undefined"
    blocks,     \* place of the chain's first block, NBLOCKS for NULL
    nblocks,    \* mp->nblocks
    basket,     \* the blocks of the basket, the first on top
    taken       \* blocks their callers hold

poolVars == <<naddr, addr, blocks, nblocks, basket, taken>>

Block == (1..MaxPages) \X (0..(NBLOCKS - 1))

\* _esma_mempool_init_blocks links the blocks of a page in their order, so the
\* chain is the rest of the newest page.
Chain  == {naddr} \X (blocks..(NBLOCKS - 1))
Basket == {basket[i] : i \in DOMAIN basket}

\* esma_mempool_init takes the first page; the basket is zero, as the engine is.
PoolInit ==
    /\ naddr = 1 /\ addr = "live"
    /\ blocks = 0 /\ nblocks = NBLOCKS
    /\ basket = <<>>
    /\ taken = {}

\* esma_mempool_get_block: from the basket, else from the chain, else the first
\* block of a new page.
BUG_FromBasket(b) ==    \* the block stays in the basket
    /\ basket # <<>> /\ b = Head(basket)
    /\ taken' = taken \cup {b}
    /\ UNCHANGED <<naddr, addr, blocks, nblocks, basket>>
FromBasket(b) ==
    /\ basket # <<>> /\ b = Head(basket)
    /\ basket' = Tail(basket)
    /\ taken' = taken \cup {b}
    /\ UNCHANGED <<naddr, addr, blocks, nblocks>>

FromChain(b) ==
    /\ basket = <<>> /\ blocks # NBLOCKS /\ b = <<naddr, blocks>>
    /\ blocks' = blocks + 1
    /\ nblocks' = nblocks - 1
    /\ taken' = taken \cup {b}
    /\ UNCHANGED <<naddr, addr, basket>>

NeedsPage == basket = <<>> /\ blocks = NBLOCKS /\ addr = "live"

FromNewPage(b) ==
    /\ NeedsPage /\ naddr < MaxPages
    /\ naddr' = naddr + 1 /\ b = <<naddr', 0>>
    /\ blocks' = 1
    /\ nblocks' = NBLOCKS - 1
    /\ taken' = taken \cup {b}
    /\ UNCHANGED <<addr, basket>>

GetBlock(b) == FromBasket(b) \/ FromChain(b) \/ FromNewPage(b)

\* No block: realloc() fails, or malloc() does after it, and the array of pages
\* is freed but not forgotten.  The next call that needs a page gives the freed
\* array to realloc(), and everything after that is undefined.
NoBlock ==
    /\ basket = <<>> /\ blocks = NBLOCKS
    /\ addr' \in (IF addr = "live" THEN {"live", "freed"} ELSE {"undefined"})
    /\ UNCHANGED <<naddr, blocks, nblocks, basket, taken>>

\* esma_mempool_put_block.
PutBlock(b) ==
    /\ b \in taken
    /\ basket' = <<b>> \o basket
    /\ taken' = taken \ {b}
    /\ UNCHANGED <<naddr, addr, blocks, nblocks>>

PoolNext == addr # "undefined" /\ (NoBlock \/ \E b \in Block : GetBlock(b) \/ PutBlock(b))

PoolSpec == PoolInit /\ [][PoolNext]_poolVars

----------------------------------------------------------------------------
(* Properties.                                                             *)

PoolTypeOK ==
    /\ naddr \in 1..MaxPages /\ addr \in {"live", "freed", "undefined"}
    /\ blocks \in 0..NBLOCKS /\ nblocks \in Nat
    /\ basket \in Seq(Block)
    /\ taken \subseteq Block

\* Every block of the pages is in one place: held by one caller, or once in the
\* basket, or in the chain, whose length nblocks counts.  So no block is handed
\* out to two callers, and none is lost.
BlocksOnce ==
    /\ \A i, j \in DOMAIN basket : basket[i] = basket[j] => i = j
    /\ Basket \cap taken = {} /\ Chain \cap (Basket \cup taken) = {}
    /\ Chain \cup Basket \cup taken = (1..naddr) \X (0..(NBLOCKS - 1))
    /\ nblocks = NBLOCKS - blocks
=============================================================================
