---------------------------- MODULE TableSearch ----------------------------
(***************************************************************************)
(* TABLE_Read (core/ubi/ubi_table.c): the search for the last table in a    *)
(* block, by halving the range between a page known to hold one and a page  *)
(* known not to.  ANCHOR_Init, INDEX_Init and AREA_Init all find the table  *)
(* to start from with it.                                                   *)
(*                                                                          *)
(* One step is one MTD_Read.  The block is any block the table writers can  *)
(* leave: a prefix of valid pages, then possibly one page that a power loss *)
(* or a bad block made unreadable, then erased pages.  With Overwritten, a  *)
(* restart has programmed that unreadable page again, as INDEX_Init and     *)
(* AREA_Update do, without making it readable, and more pages follow it.    *)
(***************************************************************************)
EXTENDS Integers

CONSTANTS
  PAGE_PER_PHY_BLOCK,
  Overwritten     \* TRUE: an unreadable page may be followed by valid ones

ASSUME SearchAssumption ==
  /\ PAGE_PER_PHY_BLOCK \in Nat \ {0}
  /\ Overwritten \in BOOLEAN

INVALID_PAGE == -1
Pages == 0 .. PAGE_PER_PHY_BLOCK - 1
Range0 == 0 .. PAGE_PER_PHY_BLOCK

VARIABLES
  page,          \* what MTD_Read finds: "valid", "blank" (all Fs) or "error"
  head, tail,    \* the range of the search
  result,        \* *page on return; INVALID_PAGE with a failure
  pc             \* "loop", "read" (the final read) or "done"

vars == <<page, head, tail, result, pc>>

\* Wrong variant: the pages are tried one after the other.
midNext == head + 1

\* The page in the middle of the range.
mid == (head + tail) \div 2

\* The first n pages are valid.
Prefix(f, n) == \A p \in Pages : f[p] = "valid" <=> p < n

\* An unreadable page k among n programmed ones.
Holed(f, n, k) ==
  /\ k < n
  /\ \A p \in Pages : f[p] = IF p = k THEN "error" ELSE IF p < n THEN "valid" ELSE "blank"

Init ==
  /\ page \in [Pages -> {"valid", "blank", "error"}]
  /\ \/ \E n \in Range0 : Prefix(page, n)
     \/ Overwritten /\ \E n \in Range0, k \in Pages : Holed(page, n, k)
  /\ head = 0
  /\ tail = PAGE_PER_PHY_BLOCK
  /\ result = INVALID_PAGE
  /\ pc = "loop"

\* Wrong variant: the range moves the other way on an unreadable page.
ProbeErrorDown ==
  /\ pc = "loop"
  /\ mid # head /\ mid # tail
  /\ IF page[mid] # "blank" THEN head' = mid /\ UNCHANGED tail
                            ELSE tail' = mid /\ UNCHANGED head
  /\ UNCHANGED <<page, result, pc>>

\* Wrong variant: the range does not shrink on a valid page.
ProbeStuck ==
  /\ pc = "loop"
  /\ mid # head /\ mid # tail
  /\ IF page[mid] = "valid" THEN head' = head /\ UNCHANGED tail
                            ELSE tail' = mid /\ UNCHANGED head
  /\ UNCHANGED <<page, result, pc>>

\* The body of the loop: read the footprint of the page in the middle.
Probe ==
  /\ pc = "loop"
  /\ mid # head /\ mid # tail
  /\ IF page[mid] = "valid" THEN head' = mid /\ UNCHANGED tail
                            ELSE tail' = mid /\ UNCHANGED head
  /\ UNCHANGED <<page, result, pc>>

\* The loop ends.
Leave ==
  /\ pc = "loop"
  /\ mid = head \/ mid = tail
  /\ result' = mid
  /\ pc' = "read"
  /\ UNCHANGED <<page, head, tail>>

\* Read the page found; a blank or unreadable one is a failure.
ReadTable ==
  /\ pc = "read"
  /\ result' = IF page[result] = "valid" THEN result ELSE INVALID_PAGE
  /\ pc' = "done"
  /\ UNCHANGED <<page, head, tail>>

Next == Probe \/ Leave \/ ReadTable

Spec == Init /\ [][Next]_vars
FairSpec == Spec /\ WF_vars(Next)
-----------------------------------------------------------------------------
(* Properties *)

TypeOK ==
  /\ page \in [Pages -> {"valid", "blank", "error"}]
  /\ head \in Pages
  /\ tail \in 1 .. PAGE_PER_PHY_BLOCK
  /\ result \in Pages \cup {INVALID_PAGE}
  /\ pc \in {"loop", "read", "done"}

\* TABLE_Read returns the last table written to the block, and fails exactly
\* when there is none: no older table is taken for the current one.
FindsLast ==
  pc = "done" =>
    /\ result = INVALID_PAGE => \A p \in Pages : page[p] # "valid"
    /\ result # INVALID_PAGE => /\ page[result] = "valid"
                                /\ \A p \in Pages : p > result => page[p] # "valid"

\* The search ends.
Terminates == <>(pc = "done")

\* Every probe at least halves the range, so that a block is searched in
\* log2(PAGE_PER_PHY_BLOCK) reads.
Halves == [][pc = "loop" /\ pc' = "loop" => 2 * (tail' - head') <= tail - head + 1]_vars
=============================================================================
