------------------------------- MODULE FbtOps -------------------------------
(***************************************************************************)
(* The free block table of core/ubi/ubi_index.c as operators: an array of   *)
(* FREE_BLOCK_COUNT entries, each a block and its erase count, kept sorted  *)
(* by erase count; unused entries hold INVALID_BLOCK and INVALID_EC, the    *)
(* largest count.  Every operator gives the array after the loops of the C  *)
(* function, entry by entry.                                                *)
(***************************************************************************)
EXTENDS Integers

CONSTANTS
  FREE_BLOCK_COUNT,
  TOTAL_DIE_COUNT,
  INVALID_BLOCK,
  INVALID_EC

ASSUME FbtAssumption ==
  /\ FREE_BLOCK_COUNT \in Nat /\ FREE_BLOCK_COUNT >= 2
  /\ TOTAL_DIE_COUNT \in Nat \ {0}
  /\ INVALID_EC \in Nat
  /\ INVALID_BLOCK \in Nat

Slots == 0 .. FREE_BLOCK_COUNT - 1
Entry(b, e) == [block |-> b, ec |-> e]
NoEntry == Entry(INVALID_BLOCK, INVALID_EC)

IsLargest(i, S) == i \in S /\ \A j \in S : j <= i
IsSmallest(i, S) == i \in S /\ \A j \in S : i <= j

\* Wrong variant: the insertion looks at the first entry only.
PutSlotFirst(fbt, e) ==
  IF fbt[0].ec > e THEN 0 ELSE 1

\* Where INDEX_FreeBlock_Put inserts: after the last entry from slot 1 to the
\* last but one whose count is not larger; else before or after entry 0.
PutSlot(fbt, e) ==
  LET notLarger == {i \in 1 .. FREE_BLOCK_COUNT - 2 : ~(fbt[i].ec > e)}
  IN  IF notLarger # {}
        THEN 1 + (CHOOSE i \in notLarger : IsLargest(i, notLarger))
        ELSE IF fbt[0].ec > e THEN 0 ELSE 1

\* Wrong variant: the entry at slot k is overwritten, not moved up.
InsertOver(fbt, k, x) ==
  [j \in Slots |-> IF j < k THEN fbt[j] ELSE IF j = k THEN x ELSE fbt[j]]

\* The entries from slot k on move up by one and the last one is dropped.
InsertAt(fbt, k, x) ==
  [j \in Slots |-> IF j < k THEN fbt[j] ELSE IF j = k THEN x ELSE fbt[j - 1]]

\* INDEX_FreeBlock_Put.
FbtPut(fbt, b, e) == InsertAt(fbt, PutSlot(fbt, e), Entry(b, e))

\* Wrong variant: the wanted die is ignored.
PickSlotAnyDie(fbt, die) == 0

\* INDEX_FreeBlock_Get, the choice: the first entry of the wanted die before
\* the first unused entry, else entry 0.
PickSlot(fbt, die) ==
  LET stops == {i \in Slots : \/ fbt[i].block = INVALID_BLOCK
                              \/ fbt[i].block % TOTAL_DIE_COUNT = die}
      first == CHOOSE i \in stops : IsSmallest(i, stops)
  IN  IF stops # {} /\ fbt[first].block # INVALID_BLOCK THEN first ELSE 0

\* INDEX_FreeBlock_Get, the removal: later entries move down by one.
FbtRemove(fbt, i) ==
  [j \in Slots |-> IF j < i THEN fbt[j]
                   ELSE IF j < FREE_BLOCK_COUNT - 1 THEN fbt[j + 1]
                   ELSE NoEntry]

\* The sum of two erase counts; ERASE_COUNT wraps around.
EcPlus(e, n) == (e + n) % (INVALID_EC + 1)

\* The erase count INDEX_FreeBlock_Get returns.
EcAfterErase(e) == EcPlus(e, 1)

\* The last used slot, as INDEX_FreeBlock_GetMaxECBlock and
\* INDEX_FreeBlock_SwapMaxECBlock look for it: slot 0 is not looked at.
UsedSlots(fbt) == {i \in Slots \ {0} : fbt[i].ec # INVALID_EC}
MaxEcSlot(fbt) ==
  IF UsedSlots(fbt) = {} THEN 0
  ELSE CHOOSE i \in UsedSlots(fbt) : IsLargest(i, UsedSlots(fbt))

\* INDEX_FreeBlock_SwapMaxECBlock: the entry with the largest count makes
\* room for a block with a count smaller by more than the threshold.
FbtSwap(fbt, b, e, threshold) ==
  LET top == MaxEcSlot(fbt)
      notLarger == {i \in 1 .. top - 1 : ~(fbt[i].ec > e)}
      k == IF notLarger # {}
             THEN 1 + (CHOOSE i \in notLarger : IsLargest(i, notLarger))
             ELSE IF fbt[0].ec > e THEN 0 ELSE 1
  IN  IF top > 0 /\ fbt[top].ec > e /\ fbt[top].ec - e > threshold
        THEN [j \in Slots |-> IF j < k THEN fbt[j]
                              ELSE IF j = k THEN Entry(b, e)
                              ELSE IF j <= top THEN fbt[j - 1]
                              ELSE fbt[j]]
        ELSE fbt

\* The blocks in the table.
FbtBlocks(fbt) == {fbt[i].block : i \in Slots} \ {INVALID_BLOCK}
=============================================================================
