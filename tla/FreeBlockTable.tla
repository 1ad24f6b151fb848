--------------------------- MODULE FreeBlockTable ---------------------------
(***************************************************************************)
(* The free block table under any sequence of calls its users make: blocks  *)
(* are taken with INDEX_FreeBlock_Get, given back with INDEX_FreeBlock_Put  *)
(* (with any erase count: an area or index block's own, a data block's plus *)
(* the wear-levelling threshold, or INVALID_EC for a block whose program    *)
(* failed) and exchanged with INDEX_FreeBlock_SwapMaxECBlock.               *)
(***************************************************************************)
EXTENDS FbtOps, FiniteSets

CONSTANTS
  Block,      \* the blocks that go through the table
  InitFree,   \* those INDEX_Format puts in it, with erase count 0
  MaxEc,      \* bound on the erase counts of good blocks
  Threshold   \* STATIC_WL_THRESHOLD

ASSUME TableAssumption ==
  /\ Block \subseteq Nat
  /\ INVALID_BLOCK \notin Block
  /\ IsFiniteSet(Block)
  /\ InitFree \subseteq Block
  /\ Cardinality(Block) < FREE_BLOCK_COUNT
  /\ MaxEc \in Nat /\ MaxEc < INVALID_EC
  /\ Threshold \in Nat

VARIABLES
  fbt,    \* free_block_table and free_block_ect
  held,   \* the blocks the users of the table hold
  bad     \* the blocks whose erase or program failed

vars == <<fbt, held, bad>>

Ecs == 0 .. MaxEc
Entries == [block : Block \cup {INVALID_BLOCK}, ec : Ecs \cup {INVALID_EC}]

TypeOK ==
  /\ fbt \in [Slots -> Entries]
  /\ held \subseteq Block
  /\ bad \subseteq Block
-----------------------------------------------------------------------------
\* INDEX_Format: the good blocks in ascending order, then unused entries.
Rank(b) == Cardinality({c \in InitFree : c < b})

Init ==
  /\ fbt = [i \in Slots |->
              IF \E b \in InitFree : Rank(b) = i
                THEN Entry(CHOOSE b \in InitFree : Rank(b) = i, 0)
                ELSE NoEntry]
  /\ held = Block \ InitFree
  /\ bad = {}

\* One round of INDEX_FreeBlock_Get: the block it tries is erased and handed
\* out, or the erase fails and the block is discarded.
Get(die) ==
  LET i == PickSlot(fbt, die)
      b == fbt[i].block
  IN  /\ b # INVALID_BLOCK
      /\ \/ fbt[i].ec < MaxEc /\ held' = held \cup {b} /\ bad' = bad
         \/ held' = held /\ bad' = bad \cup {b}
      /\ fbt' = FbtRemove(fbt, i)

\* INDEX_FreeBlock_Put of a good block.
Put(b, e) ==
  /\ fbt' = FbtPut(fbt, b, e)
  /\ held' = held \ {b}
  /\ bad' = bad

\* Wrong variant: a block whose program failed is put back as good.
PutBadAsFresh(b) ==
  /\ fbt' = FbtPut(fbt, b, 0)
  /\ held' = held \ {b}
  /\ bad' = bad \cup {b}

\* INDEX_FreeBlock_Put of an index or area block whose program failed.
PutBad(b) ==
  /\ fbt' = FbtPut(fbt, b, INVALID_EC)
  /\ held' = held \ {b}
  /\ bad' = bad \cup {b}

\* UBI_SWL exchanges a block in use with the most worn free one.
Swap(b, e) ==
  LET top == MaxEcSlot(fbt)
  IN  /\ top > 0
      /\ fbt[top].ec > e /\ fbt[top].ec - e > Threshold
      /\ fbt' = FbtSwap(fbt, b, e, Threshold)
      /\ held' = (held \ {b}) \cup {fbt[top].block}
      /\ bad' = bad

Next ==
  \/ \E die \in 0 .. TOTAL_DIE_COUNT - 1 : Get(die)
  \/ \E b \in held : (\E e \in Ecs : Put(b, e) \/ Swap(b, e)) \/ PutBad(b)

Spec == Init /\ [][Next]_vars
-----------------------------------------------------------------------------
(* Properties *)

\* The table is sorted by erase count, so the first block of a die that
\* INDEX_FreeBlock_Get meets is the least worn one of that die.
Sorted == \A i, j \in Slots : i < j => fbt[i].ec <= fbt[j].ec

GoodSlots == {i \in Slots : fbt[i].ec # INVALID_EC}

\* No block is lost by the shifting of INDEX_FreeBlock_Put, _Get and
\* _SwapMaxECBlock, and none is in two places: a block that never failed is
\* either in exactly one slot or held by exactly one user.
Conserved ==
  /\ \A i \in GoodSlots : fbt[i].block \in Block \ (held \cup bad)
  /\ \A i, j \in GoodSlots : fbt[i].block = fbt[j].block => i = j
  /\ Block \ bad = held \cup {fbt[i].block : i \in GoodSlots}

\* A block discarded because a program or an erase failed is never handed
\* out again, although INDEX_FreeBlock_Put writes it into the table.
BadNeverHandedOut == held \cap bad = {}

\* INDEX_FreeBlock_Get finds a block of the wanted die whenever a good one is
\* in the table, and reports too many bad blocks only when none is left.
GetFinds ==
  /\ GoodSlots # {} => fbt[0].block # INVALID_BLOCK
  /\ \A die \in 0 .. TOTAL_DIE_COUNT - 1 :
       LET ofDie == {i \in GoodSlots : fbt[i].block % TOTAL_DIE_COUNT = die}
           got == PickSlot(fbt, die)
       IN  ofDie # {} => got \in ofDie /\ \A i \in ofDie : fbt[got].ec <= fbt[i].ec
=============================================================================
