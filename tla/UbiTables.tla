----------------------------- MODULE UbiTables -----------------------------
(***************************************************************************)
(* The UBI layer: where a logical block is, and how that survives a power   *)
(* loss or a bad block.  core/ubi/ubi_index.c, ubi_area.c, ubi_table.c and  *)
(* the operations of ubi_api.c that move blocks.                            *)
(*                                                                          *)
(*   anchor -> index table -> area tables -> physical block of each logical *)
(*                                                                          *)
(* An index or area table is written to the next page of its block; a full  *)
(* block is replaced by a free one.  The index table also carries the free  *)
(* block table and the last area update (area_update_plr), from which       *)
(* UBI_Init redoes an area write that a power loss prevented.               *)
(*                                                                          *)
(* One step is one NAND operation or the code up to the next one; `todo' is *)
(* the rest of the current call.  The power can fail before or after every  *)
(* NAND operation (a program is complete or has not begun: the faults of    *)
(* the simulated NAND).  The anchor table is a durable cell here; AnchorRing *)
(* models it.  Programs are synchronous: UbiWrite's die buffers are not part *)
(* of this module.                                                          *)
(***************************************************************************)
EXTENDS FbtOps, Sequences, FiniteSets

CONSTANTS
  P,             \* PAGE_PER_PHY_BLOCK
  PER_AREA,      \* CFG_PHY_BLOCK_PER_AREA
  LogCount,      \* number of logical blocks
  PhyCount,      \* number of physical blocks after the anchor region
  Threshold,     \* STATIC_WL_THRESHOLD
  MaxOps,        \* bound on the number of UBI calls
  Campaigns      \* what happens, one of these in a behaviour: which UBI calls
                 \* ("erase", "write", "swl"), how many power losses, and how
                 \* many failures of which NAND operations ("erase", "area",
                 \* "index", "data")

LogBlock == 0 .. LogCount - 1
Phy == 0 .. PhyCount - 1
AREA_INDEX(l) == l \div PER_AREA
Area == {AREA_INDEX(l) : l \in LogBlock}
OfArea(a) == {l \in LogBlock : AREA_INDEX(l) = a}
LastArea == AREA_INDEX(LogCount - 1)
NONE == -1       \* INVALID_BLOCK for a logical block, INVALID_AREA

ASSUME UbiAssumption ==
  /\ P \in Nat /\ P >= 2
  /\ PER_AREA \in Nat \ {0}
  /\ LogCount \in Nat \ {0}
  /\ PhyCount \in Nat /\ PhyCount > LogCount + Cardinality(Area) + 1
  /\ PhyCount <= INVALID_BLOCK
  /\ Threshold \in Nat
  /\ MaxOps \in Nat
  /\ \A c \in Campaigns :
       /\ c.calls \subseteq {"erase", "write", "swl"}
       /\ c.losses \in Nat /\ c.bad \in Nat
       /\ c.kinds \subseteq {"erase", "area", "index", "data"}

VARIABLES
  nand,                \* nand[b]: the pages programmed in block b since its erase
  anchorFlash,         \* what ANCHOR_Init would load
  anchor_table,        \* its copy in RAM
  index_table,         \* free block table, area index table, area_update_plr
  index_block,         \* the index block and its erase count
  index_next_page,
  is_updating_area,
  area_offset_table,   \* the current page of each area table
  cached_area_number,
  cached_area_table,
  todo,                \* what is left of the call being made
  local,               \* its local variables
  powered,
  content,             \* history: what the callers have stored in each block
  clobbered,           \* history: a block was erased that flash still needed
  failed,              \* history: the blocks in which an erase or program failed
  ops,                 \* the number of calls so far
  losses,              \* the power losses still to come
  campaign             \* the calls, and the failures still to come

flashVars == <<nand, anchorFlash>>
indexVars == <<index_table, index_block, index_next_page, is_updating_area>>
areaVars == <<area_offset_table, cached_area_number, cached_area_table>>
ramVars == <<anchor_table, indexVars, areaVars>>
history == <<content, clobbered, failed>>
faults == <<losses, campaign>>
vars == <<flashVars, ramVars, todo, local, powered, history, ops, faults>>
-----------------------------------------------------------------------------
(* Pages and tables *)

IndexPage(t) == [kind |-> "index", table |-> t]
AreaPage(t) == [kind |-> "area", table |-> t]
DataPage(n) == [kind |-> "data", table |-> n]    \* n tells the writes apart
BlankPage == [kind |-> "blank", table |-> NONE]  \* programmed with all Fs
StalePage == [kind |-> "stale", table |-> NONE]  \* what a failed read left in
                                                 \* tmp_data_buffer
BadPage == [kind |-> "bad", table |-> NONE]      \* program failed, unreadable

\* TABLE_Read: the number of pages up to the last readable one.
TablePages(b) ==
  LET s == nand[b]
  IN  IF s # <<>> /\ s[Len(s)].kind = "bad" THEN Len(s) - 1 ELSE Len(s)

LastTable(b) == nand[b][TablePages(b)]

\* MTD_Program of page p (from 0) of block b.
ProgramAt(b, p, pg) ==
  [nand EXCEPT ![b] = IF p < Len(@) THEN [@ EXCEPT ![p + 1] = pg]
                                    ELSE Append(@, pg)]

NoPlr == [log |-> NONE, block |-> INVALID_BLOCK, ec |-> INVALID_EC]
NoLocal == [op |-> "none", log |-> NONE, got |-> NoEntry, from |-> NoEntry,
            new |-> NoEntry, page |-> 0, area_reclaim |-> FALSE]
-----------------------------------------------------------------------------
(* UBI_Format on a chip without bad blocks: per area its data blocks and    *)
(* its table, then the index block, then the free blocks.                   *)

FormatBlock(l) == l + AREA_INDEX(l)
FormatAreaBlock(a) == Cardinality({l \in LogBlock : AREA_INDEX(l) <= a}) + a
FormatIndexBlock == LogCount + Cardinality(Area)

FormatAreaTable(a) == [l \in OfArea(a) |-> Entry(FormatBlock(l), 0)]
FormatIndex ==
  [fbt  |-> [i \in Slots |-> IF FormatIndexBlock + 1 + i < PhyCount
                               THEN Entry(FormatIndexBlock + 1 + i, 0) ELSE NoEntry],
   area |-> [a \in Area |-> Entry(FormatAreaBlock(a), 0)],
   plr  |-> NoPlr]
FormatAnchor == [new |-> Entry(FormatIndexBlock, 0), old |-> NoEntry,
                 swl_current_area |-> 0, bad |-> {}]

Init ==
  /\ nand = [b \in Phy |->
       IF b = FormatIndexBlock THEN <<IndexPage(FormatIndex)>>
       ELSE IF \E a \in Area : b = FormatAreaBlock(a)
         THEN <<AreaPage(FormatAreaTable(CHOOSE a \in Area : b = FormatAreaBlock(a)))>>
       ELSE <<>>]
  /\ anchorFlash = FormatAnchor
  /\ anchor_table = FormatAnchor
  /\ index_table = FormatIndex
  /\ index_block = Entry(FormatIndexBlock, 0)
  /\ index_next_page = 1
  /\ is_updating_area = FALSE
  /\ area_offset_table = [a \in Area |-> 0]
  /\ cached_area_number = LastArea
  /\ cached_area_table = FormatAreaTable(LastArea)
  /\ todo = <<>>
  /\ local = NoLocal
  /\ powered = TRUE
  /\ content = [l \in LogBlock |-> <<>>]
  /\ clobbered = FALSE
  /\ failed = {}
  /\ ops = 0
  /\ \E c \in Campaigns :
       /\ losses = c.losses
       /\ campaign = [calls |-> c.calls, bad |-> c.bad, kinds |-> c.kinds,
                      doubled |-> FALSE]
-----------------------------------------------------------------------------
(* What UBI_Init would find if the power failed now *)

FlashIndexBlock ==
  IF TablePages(anchorFlash.new.block) > 0 THEN anchorFlash.new.block
                                           ELSE anchorFlash.old.block

FlashMountable ==
  /\ FlashIndexBlock # INVALID_BLOCK
  /\ TablePages(FlashIndexBlock) > 0
  /\ LastTable(FlashIndexBlock).kind = "index"
  /\ \A a \in Area :
       LET b == LastTable(FlashIndexBlock).table.area[a].block
       IN  TablePages(b) > 0 /\ LastTable(b).kind = "area"

FlashIndex == LastTable(FlashIndexBlock).table

\* The area table with the update UBI_Init would redo.
FlashMap(l) ==
  IF FlashIndex.plr.log = l THEN FlashIndex.plr.block
  ELSE LastTable(FlashIndex.area[AREA_INDEX(l)].block).table[l].block

NeededByFlash ==
  IF FlashMountable
    THEN {FlashIndexBlock} \cup {FlashIndex.area[a].block : a \in Area}
                           \cup {FlashMap(l) : l \in LogBlock}
    ELSE {}
-----------------------------------------------------------------------------
(* Steps *)

Step(s) == powered /\ todo # <<>> /\ Head(todo) = s
Idle == powered /\ todo = <<>>
Rest == Tail(todo)

\* Fault budget: a NAND operation of kind k may fail.
MayFail(k) == k \in campaign.kinds /\ campaign.bad > 0

\* AREA_Read: the table of area a, and the cache afterwards.
AreaTable(a) ==
  IF a = cached_area_number THEN cached_area_table
  ELSE nand[index_table.area[a].block][area_offset_table[a] + 1].table

ReadArea(a) ==
  /\ cached_area_number' = a
  /\ cached_area_table' = AreaTable(a)

\* AREA_GetBlock and AREA_GetEC.
Mapped(l) == AreaTable(AREA_INDEX(l))[l]

\* Wrong variant: the block is not put back.
PutBackNothing(t, e) == t

\* INDEX_FreeBlock_Put, INDEX_Update_AreaUpdate.
PutBack(t, e) == [t EXCEPT !.fbt = FbtPut(@, e.block, e.ec)]
WithPlr(t, l, e) == [t EXCEPT !.plr = [log |-> l, block |-> e.block, ec |-> e.ec]]

\* The die INDEX_FreeBlock_Get is asked for.
WantedDie ==
  CASE Head(todo) = "getErase"   -> local.log % TOTAL_DIE_COUNT
    [] Head(todo) = "getArea"    ->
         index_table.area[AREA_INDEX(index_table.plr.log)].block % TOTAL_DIE_COUNT
    [] Head(todo) = "getIndex"   -> index_block.block % TOTAL_DIE_COUNT
    [] Head(todo) = "getReclaim" -> local.from.block % TOTAL_DIE_COUNT

Getting == powered /\ todo # <<>>
             /\ Head(todo) \in {"getErase", "getArea", "getIndex", "getReclaim"}
Candidate == index_table.fbt[PickSlot(index_table.fbt, WantedDie)]

\* Wrong variant: the block stays in the table.
TakenNot == index_table

Taken == [index_table EXCEPT !.fbt = FbtRemove(@, PickSlot(@, WantedDie))]

\* What erasing block b does to the history.
Erasing(b) == clobbered' = (clobbered \/ b \in NeededByFlash)

\* ANCHOR_LogBadBlock.
LogBadBlock(t, b) == [t EXCEPT !.bad = @ \cup {b}]

\* The failure of a NAND operation on block b.
Failing(kind, b) ==
  /\ MayFail(kind)
  /\ campaign' = [campaign EXCEPT !.bad = @ - 1]
  /\ failed' = failed \cup {b}

\* INDEX_FreeBlock_Get: the block is erased and leaves the table.
Get ==
  /\ Getting
  /\ Candidate.block # INVALID_BLOCK
  /\ nand' = [nand EXCEPT ![Candidate.block] = <<>>]
  /\ Erasing(Candidate.block)
  /\ index_table' = Taken
  /\ local' = [local EXCEPT !.got = Entry(Candidate.block, EcAfterErase(Candidate.ec))]
  /\ todo' = Rest
  /\ UNCHANGED <<anchorFlash, anchor_table, index_block, index_next_page,
                 is_updating_area, areaVars, powered, content, failed, ops, faults>>

\* The erase fails: the block is discarded, logged, and another one is tried.
GetBadBlock ==
  /\ Getting
  /\ Candidate.block # INVALID_BLOCK
  /\ Failing("erase", Candidate.block)
  /\ Erasing(Candidate.block)
  /\ index_table' = Taken
  /\ anchor_table' = LogBadBlock(anchor_table, Candidate.block)
  /\ UNCHANGED <<flashVars, index_block, index_next_page, is_updating_area,
                 areaVars, todo, local, powered, content, ops, losses>>

\* Wrong variant: the search goes on for ever.
GetTooManyNever ==
  /\ Getting
  /\ Candidate.block = INVALID_BLOCK
  /\ UNCHANGED vars

\* STATUS_TOOMANY_BADBLOCK: no free block is left and the call fails.  INDEX_Init
\* ignores that in the index block it found current; every other caller gives
\* up.  What is done with a worn-out chip afterwards is not modelled.
GetTooMany ==
  /\ Getting
  /\ Candidate.block = INVALID_BLOCK
  /\ IF local.op = "mountNew"
       THEN todo' = <<"mountAreas">> /\ local' = NoLocal
       ELSE todo' = <<"worn">> /\ UNCHANGED local
  /\ UNCHANGED <<flashVars, ramVars, powered, history, ops, faults>>
-----------------------------------------------------------------------------
(* INDEX_Update_Commit *)

\* Wrong variant: a new area block is entered in the index before it is written.
CommitCallsIndexFirst(full, reclaim) ==
  (IF full THEN <<"getArea", "areaUse">> ELSE <<>>) \o <<"indexUpdate", "areaWrite">>

\* With a full area block the new one is written first and the index last;
\* otherwise the index, which logs the update, comes first.
CommitCalls(full, reclaim) ==
  (IF full THEN <<"getArea", "areaUse">> ELSE <<"indexUpdate">>)
    \o <<"areaWrite">>
    \o (IF reclaim THEN <<"indexUpdate">> ELSE <<>>)

\* AREA_IsFull.
AreaFull(a) == area_offset_table[a] = P - 1

\* The head of its loop.
Commit ==
  /\ Step("commit")
  /\ LET a == AREA_INDEX(index_table.plr.log)
         full == AreaFull(a)
         reclaim == local.area_reclaim \/ full
     IN  /\ todo' = CommitCalls(full, reclaim) \o <<"commitDone">> \o Rest
         /\ ReadArea(a)
         /\ local' = [local EXCEPT !.area_reclaim = reclaim]
  /\ UNCHANGED <<flashVars, anchor_table, indexVars, area_offset_table, powered,
                 history, ops, faults>>

\* What follows the running INDEX_Update_Commit.
InCommit == \E i \in 1 .. Len(todo) : todo[i] = "commitDone"
AfterCommit ==
  LET n == CHOOSE i \in 1 .. Len(todo) : todo[i] = "commitDone"
  IN  SubSeq(todo, n + 1, Len(todo))

\* INDEX_Update_AreaReclaim.
AreaUse ==
  /\ Step("areaUse")
  /\ LET a == AREA_INDEX(index_table.plr.log)
     IN  index_table' = [PutBack(index_table, index_table.area[a])
                           EXCEPT !.area[a] = local.got]
  /\ todo' = Rest
  /\ UNCHANGED <<flashVars, anchor_table, index_block, index_next_page,
                 is_updating_area, areaVars, local, powered, history, ops, faults>>

\* Wrong variant: the update is not entered.
UpdatedTableNot(plr) == AreaTable(AREA_INDEX(plr.log))

\* The area table with the update entered.
UpdatedTable(plr) ==
  [AreaTable(AREA_INDEX(plr.log)) EXCEPT ![plr.log] = Entry(plr.block, plr.ec)]

\* AREA_Update: the area table goes to its next page; on a bad block the loop
\* of INDEX_Update_Commit starts again, with the area block treated as full.
AreaWrite ==
  /\ Step("areaWrite")
  /\ LET plr == index_table.plr
         a == AREA_INDEX(plr.log)
         page == (area_offset_table[a] + 1) % P
         table == UpdatedTable(plr)
         block == index_table.area[a].block
     IN  /\ cached_area_number' = a
         /\ cached_area_table' = table
         /\ \/ /\ nand' = ProgramAt(block, page, AreaPage(table))
               /\ area_offset_table' = [area_offset_table EXCEPT ![a] = page]
               /\ todo' = Rest
               /\ UNCHANGED <<index_table, campaign, failed>>
            \/ /\ Failing("area", block)
               /\ nand' = ProgramAt(block, page, BadPage)
               /\ area_offset_table' = [area_offset_table EXCEPT ![a] = P - 1]
               /\ index_table' = [index_table EXCEPT !.area[a].ec = INVALID_EC]
               /\ todo' = <<"commit">> \o AfterCommit
  /\ UNCHANGED <<anchorFlash, anchor_table, index_block, index_next_page,
                 is_updating_area, local, powered, content, clobbered, ops, losses>>

\* index_update: a full index block is replaced first.
IndexUpdate ==
  /\ Step("indexUpdate")
  /\ todo' = (IF index_next_page = P THEN <<"getIndex", "anchorWrite">> ELSE <<>>)
               \o <<"indexWrite">> \o Rest
  /\ UNCHANGED <<flashVars, ramVars, local, powered, history, ops, faults>>

\* ANCHOR_IndexReclaim and ANCHOR_Update, then the old index block is freed.
AnchorWrite ==
  /\ Step("anchorWrite")
  /\ anchor_table' = [anchor_table EXCEPT !.new = local.got, !.old = index_block]
  /\ anchorFlash' = anchor_table'
  /\ index_table' = PutBack(index_table, index_block)
  /\ index_block' = local.got
  /\ index_next_page' = 0
  /\ todo' = Rest
  /\ UNCHANGED <<nand, is_updating_area, areaVars, local, powered, history, ops,
                 faults>>

\* TABLE_Write of the index table.
IndexWrite ==
  /\ Step("indexWrite")
  /\ nand' = ProgramAt(index_block.block, index_next_page, IndexPage(index_table))
  /\ index_next_page' = index_next_page + 1
  /\ todo' = Rest
  /\ UNCHANGED <<anchorFlash, anchor_table, index_table, index_block,
                 is_updating_area, areaVars, local, powered, history, ops, faults>>

\* The program fails: INDEX_Update_Commit starts over with another index block.
\* INDEX_Init ignores the failure when it found the index in the new block and
\* fails otherwise.
IndexWriteBad ==
  /\ Step("indexWrite")
  /\ Failing("index", index_block.block)
  /\ nand' = ProgramAt(index_block.block, index_next_page, BadPage)
  /\ index_next_page' = P
  /\ index_block' = [index_block EXCEPT !.ec = INVALID_EC]
  /\ todo' = IF InCommit THEN <<"commit">> \o AfterCommit
             ELSE IF local.op = "mountNew" THEN Rest ELSE <<"worn">>
  /\ UNCHANGED <<anchorFlash, anchor_table, index_table, is_updating_area, areaVars,
                 local, powered, content, clobbered, ops, losses>>

\* The end of INDEX_Update_Commit; the call it belongs to is complete unless
\* UBI_Write or UBI_Init has more to do.
CommitDone ==
  /\ Step("commitDone")
  /\ is_updating_area' = FALSE
  /\ todo' = Rest
  /\ content' = IF local.op = "erase"
                  THEN [content EXCEPT ![local.log] = <<>>] ELSE content
  /\ local' = IF Rest = <<>> THEN NoLocal ELSE [local EXCEPT !.area_reclaim = FALSE]
  /\ clobbered' = FALSE    \* flash refers to the blocks that RAM refers to
  /\ UNCHANGED <<flashVars, anchor_table, index_table, index_block, index_next_page,
                 areaVars, powered, failed, ops, faults>>
-----------------------------------------------------------------------------
(* The calls of the FTL *)

Calling(op) == Idle /\ op \in campaign.calls /\ ops < MaxOps /\ ops' = ops + 1

\* UBI_Read and UBI_ReadStatus look up the block, which may change the cache.
UbiRead(l) ==
  /\ Idle
  /\ ReadArea(AREA_INDEX(l))
  /\ UNCHANGED <<flashVars, anchor_table, indexVars, area_offset_table, todo, local,
                 powered, history, ops, faults>>

\* UBI_Erase(l): flush, then INDEX_FreeBlock_Get.
UbiErase(l) ==
  /\ Calling("erase")
  /\ todo' = <<"getErase", "eraseUse">>
  /\ local' = [NoLocal EXCEPT !.op = "erase", !.log = l]
  /\ UNCHANGED <<flashVars, ramVars, powered, history, faults>>

\* UBI_Erase, continued: free the old block, log the update, commit.
EraseUse ==
  /\ Step("eraseUse")
  /\ index_table' = WithPlr(PutBack(index_table, Mapped(local.log)), local.log, local.got)
  /\ is_updating_area' = TRUE
  /\ ReadArea(AREA_INDEX(local.log))
  /\ todo' = <<"commit">>
  /\ UNCHANGED <<flashVars, anchor_table, index_block, index_next_page,
                 area_offset_table, local, powered, history, ops, faults>>

\* Synchronous UBI_Write of the next page of l (the FTL writes the pages of a
\* block in order).  A failed program is followed by ubi_reclaim_badblock.
UbiWrite(l) ==
  LET b == Mapped(l).block
      page == Len(content[l])
  IN  /\ Calling("write")
      /\ page < P
      /\ ReadArea(AREA_INDEX(l))
      /\ \/ /\ nand' = ProgramAt(b, page, DataPage(ops'))
            /\ content' = [content EXCEPT ![l] = Append(@, DataPage(ops'))]
            /\ UNCHANGED <<todo, local, campaign, failed>>
         \/ /\ Failing("data", b)
            /\ nand' = ProgramAt(b, page, BadPage)
            /\ todo' = <<"getReclaim", "copy">>
            /\ local' = [NoLocal EXCEPT !.op = "write", !.log = l,
                                        !.from = Mapped(l), !.page = page]
            /\ UNCHANGED content
      /\ UNCHANGED <<anchorFlash, anchor_table, indexVars, area_offset_table,
                     powered, clobbered, losses>>

\* MTD_Read of page p of block b into tmp_data_buffer, whatever it returns.
ReadBack(b, p) ==
  IF p >= Len(nand[b]) THEN BlankPage
  ELSE IF nand[b][p + 1].kind = "bad" THEN StalePage ELSE nand[b][p + 1]

\* Wrong variant: nothing is copied.
CopyPagesNone(b, n) == <<>>

CopyPages(b, n) == [i \in 1 .. n |-> ReadBack(b, i - 1)]

\* ubi_reclaim_badblock: copy the pages before the bad one, free the bad block
\* with a higher erase count, commit.  (A power loss inside the copy is one
\* before it: nothing refers to the new block yet.)
Copy ==
  /\ Step("copy")
  /\ nand' = [nand EXCEPT ![local.got.block] = CopyPages(local.from.block, local.page)]
  /\ index_table' = WithPlr(PutBack(index_table, Entry(local.from.block,
                                                       EcPlus(local.from.ec, Threshold))),
                            local.log, local.got)
  /\ is_updating_area' = TRUE
  /\ local' = [local EXCEPT !.new = local.got]
  /\ todo' = <<"commit", "reprogram">>
  /\ UNCHANGED <<anchorFlash, anchor_table, index_block, index_next_page, areaVars,
                 powered, history, ops, faults>>

\* A program fails in the copy: UBI_Write tries again with another block.
CopyBad ==
  /\ Step("copy")
  /\ local.page > 0
  /\ Failing("data", local.got.block)
  /\ todo' = <<"getReclaim", "copy">>
  /\ UNCHANGED <<flashVars, ramVars, local, powered, content, clobbered, ops, losses>>

\* UBI_Write programs the page in the new block; when that fails too, it
\* reclaims the block it looked up at the start once more.
Reprogram ==
  /\ Step("reprogram")
  /\ \/ /\ nand' = ProgramAt(local.new.block, local.page, DataPage(ops))
        /\ content' = [content EXCEPT ![local.log] = Append(@, DataPage(ops))]
        /\ todo' = <<>>
        /\ local' = NoLocal
        /\ UNCHANGED <<campaign, failed>>
     \/ /\ MayFail("data")
        /\ campaign' = [campaign EXCEPT !.bad = @ - 1, !.doubled = TRUE]
        /\ failed' = failed \cup {local.new.block}
        /\ nand' = ProgramAt(local.new.block, local.page, BadPage)
        /\ todo' = <<"getReclaim", "copy">>
        /\ UNCHANGED <<content, local>>
  /\ UNCHANGED <<anchorFlash, ramVars, powered, clobbered, ops, losses>>

\* AREA_FindMinECBlock: the first block of the area with the least count.
MinEcOf(a) ==
  LET t == AreaTable(a)
  IN  CHOOSE l \in OfArea(a) :
        \A k \in OfArea(a) : t[l].ec < t[k].ec \/ (t[l].ec = t[k].ec /\ l <= k)

\* UBI_SWL, the check.  (With fewer than two free blocks the code would read
\* uninitialised variables; the model does not call it then.)
UbiSwl ==
  LET a == anchor_table.swl_current_area
      l == MinEcOf(a)
      min == AreaTable(a)[l]
      max == index_table.fbt[MaxEcSlot(index_table.fbt)]
  IN  /\ Calling("swl")
      /\ UsedSlots(index_table.fbt) # {}
      /\ ReadArea(a)
      /\ IF max.ec > min.ec /\ max.ec - min.ec > Threshold
           THEN /\ todo' = <<"swlErase">>
                /\ local' = [NoLocal EXCEPT !.op = "swl", !.log = l,
                                            !.from = min, !.got = max]
                /\ UNCHANGED anchor_table
           ELSE /\ anchor_table' = [anchor_table EXCEPT !.swl_current_area =
                                      (a + 1) % Cardinality(Area)]
                /\ UNCHANGED <<todo, local>>
      /\ UNCHANGED <<flashVars, indexVars, area_offset_table, powered, history, faults>>

\* UBI_SWL erases the worn free block.
SwlErase ==
  /\ Step("swlErase")
  /\ Erasing(local.got.block)
  /\ \/ /\ nand' = [nand EXCEPT ![local.got.block] = <<>>]
        /\ todo' = <<"swlCopy">>
        /\ UNCHANGED <<local, campaign, failed>>
     \/ /\ Failing("erase", local.got.block)
        /\ todo' = <<>>
        /\ local' = NoLocal
        /\ UNCHANGED nand
  /\ UNCHANGED <<anchorFlash, ramVars, powered, content, ops, losses>>

\* It copies every page of the other, maps the logical block to it, puts the
\* other in the free block table in its place and commits; when a program
\* fails it returns.
SwlCopy ==
  /\ Step("swlCopy")
  /\ \/ /\ nand' = [nand EXCEPT ![local.got.block] = CopyPages(local.from.block, P)]
        /\ index_table' = [WithPlr(index_table, local.log, local.got) EXCEPT
             !.fbt = FbtSwap(@, local.from.block, local.from.ec, Threshold)]
        /\ is_updating_area' = TRUE
        /\ todo' = <<"commit">>
        /\ UNCHANGED <<local, campaign, failed>>
     \/ /\ Failing("data", local.got.block)
        /\ todo' = <<>>
        /\ local' = NoLocal
        /\ UNCHANGED <<nand, index_table, is_updating_area>>
  /\ UNCHANGED <<anchorFlash, anchor_table, index_block, index_next_page, areaVars,
                 powered, content, clobbered, ops, losses>>
-----------------------------------------------------------------------------
(* Power losses and UBI_Init *)

\* The pages a reader of block b gets: its leading data pages.
IsStored(b, n) ==
  /\ \A i \in 1 .. n : nand[b][i].kind = "data"
  /\ n < Len(nand[b]) => nand[b][n + 1].kind # "data"
Stored(b) ==
  LET n == CHOOSE n \in 0 .. Len(nand[b]) : IsStored(b, n) IN SubSeq(nand[b], 1, n)

\* RAM is lost; UBI_Init assigns all of it.  The call that was interrupted has
\* happened or not: the history takes over what the flash says.
PowerLoss ==
  /\ powered
  /\ losses > 0
  /\ losses' = losses - 1
  /\ ~clobbered
  /\ powered' = FALSE
  /\ anchor_table' = FormatAnchor
  /\ index_table' = FormatIndex
  /\ index_block' = NoEntry
  /\ index_next_page' = 0
  /\ is_updating_area' = FALSE
  /\ area_offset_table' = [a \in Area |-> 0]
  /\ cached_area_number' = NONE
  /\ cached_area_table' = FormatAreaTable(LastArea)
  /\ todo' = <<>>
  /\ local' = NoLocal
  /\ content' = IF FlashMountable THEN [l \in LogBlock |-> Stored(FlashMap(l))]
                                  ELSE content
  /\ UNCHANGED <<flashVars, clobbered, failed, ops, campaign>>

IndexFound == FlashIndexBlock # INVALID_BLOCK /\ TablePages(FlashIndexBlock) > 0

\* Wrong variant: the page just read is taken for the next page.
MountPageSame(isNew) == IF isNew THEN TablePages(FlashIndexBlock) - 1 ELSE P

MountPage(isNew) == IF isNew THEN TablePages(FlashIndexBlock) ELSE P

\* UBI_Init: ANCHOR_Init, then INDEX_Init reads the index table from the new
\* index block or, if it has none, from the old one (which it treats as full),
\* and calls index_update.
Mount ==
  LET isNew == TablePages(anchorFlash.new.block) > 0
  IN  /\ ~powered
      /\ IndexFound
      /\ powered' = TRUE
      /\ anchor_table' = anchorFlash
      /\ index_table' = FlashIndex
      /\ index_block' = IF isNew THEN anchorFlash.new ELSE anchorFlash.old
      /\ index_next_page' = MountPage(isNew)
      /\ todo' = <<"indexUpdate", "mountAreas">>
      /\ local' = [NoLocal EXCEPT !.op = IF isNew THEN "mountNew" ELSE "mountOld"]
      /\ UNCHANGED <<flashVars, is_updating_area, areaVars, history, ops, faults>>

\* Wrong variant: the last area update is not checked.
UpdateMissingNever(plr, t) == FALSE

\* AREA_CheckUpdatePLR: table t lacks the last area update.
UpdateMissing(plr, t) == plr.log # NONE /\ t[plr.log] # Entry(plr.block, plr.ec)

\* AREA_Init of every area; AREA_CheckUpdatePLR of the one last updated: if the
\* update is missing in its table it is done again, with INDEX_Update_Commit.
MountAreas ==
  LET plr == index_table.plr
      a == IF plr.log = NONE THEN LastArea ELSE AREA_INDEX(plr.log)
      table(k) == LastTable(index_table.area[k].block).table
      redo == UpdateMissing(plr, table(a))
  IN  /\ Step("mountAreas")
      /\ \A k \in Area : TablePages(index_table.area[k].block) > 0
      /\ area_offset_table' =
           [k \in Area |-> TablePages(index_table.area[k].block) - 1]
      /\ IF redo
           THEN /\ cached_area_number' = a
                /\ cached_area_table' =
                     [table(a) EXCEPT ![plr.log] = Entry(plr.block, plr.ec)]
                /\ is_updating_area' = TRUE
                /\ todo' = <<"commit", "mountRest">>
                /\ local' = [NoLocal EXCEPT !.op = "mountOld"]
           ELSE /\ cached_area_number' = LastArea
                /\ cached_area_table' = table(LastArea)
                /\ todo' = <<>>
                /\ local' = NoLocal
                /\ UNCHANGED is_updating_area
      /\ UNCHANGED <<flashVars, anchor_table, index_table, index_block,
                     index_next_page, powered, history, ops, faults>>

\* AREA_Init of the areas after the one updated again.
MountRest ==
  /\ Step("mountRest")
  /\ ReadArea(LastArea)
  /\ todo' = <<>>
  /\ local' = NoLocal
  /\ UNCHANGED <<flashVars, anchor_table, indexVars, area_offset_table, powered,
                 history, ops, faults>>
-----------------------------------------------------------------------------
Running ==
  \/ Get \/ GetBadBlock \/ GetTooMany
  \/ Commit \/ AreaUse \/ AreaWrite \/ IndexUpdate \/ AnchorWrite \/ IndexWrite
  \/ IndexWriteBad \/ CommitDone
  \/ EraseUse
  \/ Copy \/ CopyBad \/ Reprogram
  \/ SwlErase \/ SwlCopy
  \/ Mount \/ MountAreas \/ MountRest

Next ==
  \/ Running
  \/ \E l \in LogBlock : UbiRead(l) \/ UbiErase(l) \/ UbiWrite(l)
  \/ UbiSwl
  \/ PowerLoss

Spec == Init /\ [][Next]_vars

\* A call once made is continued, and the chip is mounted again after a power
\* loss: nothing in the code waits for anyone else.
FairSpec == Spec /\ WF_vars(Running)
-----------------------------------------------------------------------------
(* Properties *)

\* The slots of the free block table INDEX_FreeBlock_Get can hand out.
GoodSlots == {i \in Slots : index_table.fbt[i].ec # INVALID_EC}
FreeBlocks == {index_table.fbt[i].block : i \in GoodSlots}
DataBlocks == {Mapped(l).block : l \in LogBlock}
TableBlocks == {index_block.block} \cup {index_table.area[a].block : a \in Area}

\* Between two calls no physical block has two owners: it is mapped to one
\* logical block, or is one area's table, or the index block, or is in one slot
\* of the free block table.  Get, Put, Swap and the recovery of UBI_Init hand
\* blocks over one by one, in RAM and on flash at different times.  (`doubled'
\* is the exception: Reprogram has reclaimed the same block a second time.)
OwnersDisjoint ==
  Idle /\ ~campaign.doubled =>
    /\ \A i, j \in GoodSlots :
         index_table.fbt[i].block = index_table.fbt[j].block => i = j
    /\ FreeBlocks \cap (DataBlocks \cup TableBlocks) = {}
    /\ Cardinality(DataBlocks \cup TableBlocks)
         = LogCount + Cardinality(Area) + 1

\* Between two calls every block that never failed has an owner: power losses
\* and bad blocks leak nothing ("neither used, nor lost", ubi_index.c).
NoLeak == Idle => Phy \ failed \subseteq FreeBlocks \cup DataBlocks \cup TableBlocks

\* What a logical block may hold if the power fails now: what was stored before
\* the running call, or what that call is storing.
Acceptable(l) ==
  {content[l]} \cup
    (IF local.log # l THEN {}
     ELSE IF local.op = "erase" THEN {<<>>} ELSE {Append(content[l], DataPage(ops))})

\* Whatever the moment of a power loss, UBI_Init finds an index table and every
\* area table, and every logical block holds all that was stored in it and at
\* most the effect of the interrupted call.  (`clobbered' is the exception that
\* RecoverAlways is about.)
RecoverDurable ==
  ~clobbered =>
    /\ FlashMountable
    /\ \A l \in LogBlock : Stored(FlashMap(l)) \in Acceptable(l)

\* The same without the exception: an update that has to replace the area block
\* or the index block has "no PLR issue" (ubi_index.c).
RecoverAlways ==
  /\ FlashMountable
  /\ \A l \in LogBlock : Stored(FlashMap(l)) \in Acceptable(l)

\* Between two calls UBI_Read returns what was stored, whichever area table is
\* in the cache.
ReadsCurrent == Idle => \A l \in LogBlock : Stored(Mapped(l).block) = content[l]

\* Index and area tables go to the first page that was not programmed.
TablesProgramErased ==
  /\ Step("indexWrite") => index_next_page = Len(nand[index_block.block])
  /\ Step("areaWrite") =>
       LET a == AREA_INDEX(index_table.plr.log)
       IN  (area_offset_table[a] + 1) % P = Len(nand[index_table.area[a].block])

\* UBI_Write finds the next page of a block erased.
DataProgramErased ==
  Idle => \A l \in LogBlock : Len(nand[Mapped(l).block]) = Len(content[l])

\* Every call returns and every power loss is followed by a completed mount,
\* unless INDEX_FreeBlock_Get has reported that no free block is left.
CallsReturn == ~Idle ~> (Idle \/ Step("worn"))
-----------------------------------------------------------------------------
(* What the calls promise *)

\* The pages that UBI_Init would find in each logical block.  (`clobbered' is the
\* exception again: those before the running call.)
StoreView ==
  [l \in LogBlock |-> IF clobbered THEN content[l] ELSE Stored(FlashMap(l))]

\* Every UBI call takes effect in one step, or not at all: the other steps of a
\* call, moves of blocks, power losses and mounts change no logical block.
Store == INSTANCE BlockStore
           WITH store <- StoreView, Block <- LogBlock, Size <- P,
                Page <- {DataPage(n) : n \in 0 .. MaxOps}
=============================================================================
