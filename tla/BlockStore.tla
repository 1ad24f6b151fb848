---------------------------- MODULE BlockStore -----------------------------
(***************************************************************************)
(* What the UBI layer promises the FTL: logical blocks that are erased as a *)
(* whole and written page by page, in order.  A call takes effect in one    *)
(* step or not at all; moving a block, a bad block, a power loss and        *)
(* UBI_Init are not seen here.  UbiTables (core/ubi) is shown to implement  *)
(* it.                                                                      *)
(***************************************************************************)
EXTENDS Naturals, Sequences

CONSTANTS Block,     \* the logical blocks
          Size,      \* the pages of a block
          Page       \* what can be written to a page

VARIABLE store       \* store[l]: the pages that a restart would find in block l

Init == store = [l \in Block |-> <<>>]

\* UBI_Erase.
Erase(l) == store' = [store EXCEPT ![l] = <<>>]

\* UBI_Write of the next page.
Write(l) ==
  /\ Len(store[l]) < Size
  /\ \E p \in Page : store' = [store EXCEPT ![l] = Append(@, p)]

Next == \E l \in Block : Erase(l) \/ Write(l)

Spec == Init /\ [][Next]_store
=============================================================================
