----------------------------- MODULE OnfmStack ------------------------------
(***************************************************************************)
(* The whole stack from a sector of the host down to the NAND: the front    *)
(* end (core/onfm.c) with its read cache, the page buffers and the merging  *)
(* of partial pages (core/buf/buf_api.c), the data journals in the order    *)
(* DATA_Write fills them (core/ftl/ftl_data.c), the asynchronous writes of  *)
(* UBI and their recovery from bad blocks (core/ubi/ubi_api.c), and MtdNand *)
(* below.  The stack is sequential: a call is one step.                     *)
(*                                                                          *)
(* What is not the subject here is kept in its plainest form: the FTL maps  *)
(* pages by a function and reclaims only blocks without valid pages         *)
(* (FtlPages has the table, the cache and the copying), its metadata is one *)
(* table block (FtlMeta), and the index and area commit of UBI is atomic    *)
(* (UbiTables).                                                             *)
(***************************************************************************)
EXTENDS BufferPool, MtdNand, FiniteSets

CONSTANTS
  FREE_BLOCK_COUNT, INVALID_BLOCK, INVALID_EC,
  STATIC_WL_THRESHOLD,
  PageCount,        \* pages of the logical space
  MaxCalls,         \* bound on the number of calls
  Faults,           \* the sets of status reads that may fail in one call
  MaxArmed          \* bound on the number of calls with a fault

ASSUME StackAssumption ==
  /\ PageCount \in Nat \ {0} /\ MaxCalls \in Nat /\ MaxArmed \in Nat
  /\ \A f \in Faults : Cardinality(f) < MTD_MAX_RETRY_TIMES
  /\ BUFFER_COUNT = TOTAL_DIE_COUNT * 2 + 2

Fbt == INSTANCE FbtOps

VARIABLES
  s,           \* RAM and flash, see Init
  expect,      \* ghost: the value last written to each sector
  calls, faults     \* counters for the bounds

vars == <<s, expect, calls, faults>>

NONE == -1                                   \* INVALID_LSADDR, INVALID_PAGE
Sectors == 0 .. PageCount * SECTOR_PER_MPP - 1
PageAddrs == 0 .. PageCount - 1
PageOf(x) == x \div SECTOR_PER_MPP
J == TOTAL_DIE_COUNT                         \* JOURNAL_BLOCK_COUNT

\* Log block 0 stands for the blocks of the FTL's tables.  There are as many
\* data blocks besides the journals as there are pages that can be valid.
TableBlock == 0
DataBlocks == 1 .. J + PageCount
LogBlocks == {TableBlock} \cup DataBlocks
Unmapped == [block |-> NONE, page |-> NONE]

\* An entry of dice_hold: a write whose status is not known yet.
NoHold(log) == [log |-> log, phy |-> INVALID_BLOCK, ec |-> 0, page |-> NONE, buffer |-> NULL]

Fine(x) == x.st = "ok" /\ Good(x)
With(x, Op(_)) == Op(x)
Then(x, Op(_)) == IF Fine(x) THEN Op(x) ELSE x      \* if (ret == STATUS_SUCCESS)
-----------------------------------------------------------------------------
(* UBI *)

AREA_GetBlock(x, log) == x.area[log].block

\* INDEX_FreeBlock_Get: the block, erased, in `got'.
INDEX_FreeBlock_Get(x, die) ==
  LET i == Fbt!PickSlot(x.fbt, die % TOTAL_DIE_COUNT)
      e == x.fbt[i]
  IN  IF e.block = INVALID_BLOCK THEN Return(x, "TOOMANY_BADBLOCK")
      ELSE [MTD_Erase(x, e.block) EXCEPT
              !.fbt = Fbt!FbtRemove(@, i),
              !.got = Fbt!Entry(e.block, Fbt!EcAfterErase(e.ec))]

\* INDEX_FreeBlock_Put, INDEX_Update_AreaUpdate and INDEX_Update_Commit.
Replace(x, log, old) ==
  [x EXCEPT !.fbt = Fbt!FbtPut(@, old.block, old.ec), !.area[log] = x.got]

CopyPage(x, from, page) ==
  Then(x, LAMBDA y :
    MTD_WaitReady(
      With(MTD_Read(y, from, page), LAMBDA z : MTD_Program(z, z.got.block, page, z.data)),
      y.got.block))

\* ubi_reclaim_badblock: move the pages below the bad one to a new block.
ubi_reclaim_badblock(x, log, phy, ec, badPage) ==
  Then(Each(INDEX_FreeBlock_Get(x, phy), badPage,
            LAMBDA y, i : CopyPage(y, phy, i)),
       LAMBDA y : Replace(y, log, Fbt!Entry(phy, ec + STATIC_WL_THRESHOLD)))

\* ubi_find_die_buffer: the first write in flight with the same high bits of
\* the block number, which the comment takes for the die; {} is the assertion.
ubi_find_die_buffer(x, phy) ==
  LET same == {i \in 0 .. TOTAL_DIE_COUNT - 1 :
                 /\ x.hold[i].phy # INVALID_BLOCK
                 /\ x.hold[i].phy \div BLOCK_PER_PLANE = phy \div BLOCK_PER_PLANE}
  IN  {i \in same : \A j \in same : i <= j}

\* while (ret == STATUS_BADBLOCK): a round consumes at least one fault.
WhileBad(x, Op(_)) ==
  Each(x, MTD_MAX_RETRY_TIMES,
       LAMBDA y, i : IF y.st = "ok" /\ Bad(y) THEN Op(y) ELSE y)

\* One round for the write that is held for die d.
RecoverHold(x, d) ==
  LET h == x.hold[d]
      Again(y) == MTD_WaitReady(
                    MTD_Program([y EXCEPT !.hold[d].phy = y.got.block,
                                          !.hold[d].ec = y.got.ec],
                                y.got.block, h.page, y.mem[h.buffer]),
                    y.got.block)
  IN  Then([ubi_reclaim_badblock(x, h.log, h.phy, h.ec, h.page) EXCEPT
              !.reclaimed = h.log, !.die = d],
           Again)

RecoverDie(x, phy) ==
  LET d == ubi_find_die_buffer(x, phy)
  IN  IF d = {} THEN Require(x, FALSE, "assert")
      ELSE RecoverHold(x, CHOOSE i \in d : TRUE)

\* Wrong variant: the buffer goes back to the pool but the write stays.
ReleaseKeepsHold(x, d) ==
  IF x.hold[d].phy = INVALID_BLOCK THEN x
  ELSE [x EXCEPT !.used = BUF_Free(@, x.hold[d].buffer)]

\* The write that was in flight is done: give its buffer back.
Release(x, d) ==
  IF x.hold[d].phy = INVALID_BLOCK THEN x
  ELSE Require([x EXCEPT !.used = BUF_Free(@, x.hold[d].buffer),
                         !.hold[d] = NoHold(@.log)],
               FreeAsserts(x.used, x.hold[d].buffer), "assert")

\* UBI_Write up to the program: the status of what is in flight.  die_index is
\* 0 unless a bad block was met.
Settle(x, log) ==
  LET phy == AREA_GetBlock(x, log)
  IN  Then(WhileBad(MTD_WaitReady([x EXCEPT !.die = 0, !.reclaimed = NONE], phy),
                    LAMBDA y : RecoverDie(y, phy)),
           LAMBDA y : Release(y, y.die))

\* UBI_Write of a page, synchronously: `data' is memory outside the pool.  The
\* block is looked up once, before Settle; `stale' says that the number is used
\* after the block was replaced, by Settle or by an earlier round of the loop.
WriteSync(x, log, page, data) ==
  LET at == x.area[log]
      Again(y) == Then(ubi_reclaim_badblock([y EXCEPT !.stale = @ \/ y.area[log] # at],
                                            log, at.block, at.ec, page),
                       LAMBDA z : MTD_WaitReady(
                                    MTD_Program(z, z.got.block, page, data),
                                    z.got.block))
  IN  Then(Settle(x, log), LAMBDA y :
        WhileBad(MTD_WaitReady(
                   MTD_Program([y EXCEPT !.stale = @ \/ y.reclaimed = log],
                               at.block, page, data),
                   at.block),
                 Again))

\* UBI_Write of a page buffer, asynchronously.
WriteAsync(x, log, page, buffer) ==
  LET at == x.area[log]
  IN  Then(Settle(x, log), LAMBDA y :
        MTD_Program(
          [y EXCEPT !.stale = @ \/ y.reclaimed = log,
                    !.hold[y.die] = [log |-> log, phy |-> at.block, ec |-> at.ec,
                                     page |-> page, buffer |-> buffer]],
          at.block, page, y.mem[buffer]))

\* UBI_Write(dice_hold[i].log_block, INVALID_PAGE, ...), for every die.
UBI_Flush(x) ==
  Each(x, TOTAL_DIE_COUNT,
       LAMBDA y, i : Then(y, LAMBDA z : Settle(z, z.hold[i].log)))

UBI_Erase(x, log, die) ==
  Then(Then(Settle(x, x.hold[die].log), LAMBDA y : INDEX_FreeBlock_Get(y, die)),
       LAMBDA y : Replace(y, log, y.area[log]))

UBI_Read(x, at) ==
  IF at = Unmapped THEN [Return(x, "SUCCESS") EXCEPT !.data = Fill(0)]
  ELSE MTD_Read(x, AREA_GetBlock(x, at.block), at.page)

UBI_ReadStatus(x, log) == MTD_ReadStatus(x, AREA_GetBlock(x, log))
-----------------------------------------------------------------------------
(* FTL *)

FTL_Read(x, a) == UBI_Read(x, x.map[a])

\* DATA_Write looks for a journal block that is not full and whose die is idle.
Idle(x, i) ==
  IF x.pick # NONE \/ x.journal[i].page >= P - 1 THEN x
  ELSE With(UBI_ReadStatus(x, x.journal[i].block),
            LAMBDA y : IF Good(y) THEN [y EXCEPT !.pick = i] ELSE y)

PickJournal(x) ==
  With(Each([Return(x, "SUCCESS") EXCEPT !.pick = NONE], J, Idle),
       LAMBDA y : Require(y, Good(y), "assert"))

\* After the last data page of a block comes the page with its metadata.
Advance(x, a) ==
  LET at == x.journal[x.pick]
      y == [x EXCEPT !.map[a] = at, !.journal[x.pick].page = @ + 1]
  IN  IF at.page + 1 = P - 1 THEN WriteSync(y, at.block, P - 1, Fill(0)) ELSE y

DATA_Write(x, a, buffer) ==
  Then(Then(PickJournal(x), LAMBDA y :
         WriteAsync(y, y.journal[y.pick].block, y.journal[y.pick].page, buffer)),
       LAMBDA y : Advance(y, a))

\* The commit writes its tables synchronously, and starts the block again when
\* it is full.
DATA_Commit(x) ==
  Then(IF x.tablePage = P
         THEN [UBI_Erase(x, TableBlock, 0) EXCEPT !.tablePage = 0] ELSE x,
       LAMBDA y : [WriteSync(y, TableBlock, y.tablePage, Fill(0)) EXCEPT !.tablePage = @ + 1])

\* DATA_Reclaim: a block without valid pages for every journal.
Reusable(x) == DataBlocks \ {x.map[a].block : a \in PageAddrs}
NextJournal(x, i) ==
  Then(x, LAMBDA y :
    LET taken == {y.journal[j].block : j \in 0 .. i - 1}
        b == CHOOSE c \in Reusable(y) \ taken : \A d \in Reusable(y) \ taken : c <= d
    IN  [UBI_Erase(y, b, i) EXCEPT !.journal[i] = [block |-> b, page |-> 0]])
DATA_Reclaim(x) == Each(UBI_Flush(x), J, NextJournal)

DATA_IsFull(x) == \A i \in 0 .. J - 1 : x.journal[i].page >= P - 1

FTL_Write(x, a, buffer) ==
  Then(DATA_Write(x, a, buffer), LAMBDA y :
    IF DATA_IsFull(y) THEN Then(DATA_Reclaim(y), DATA_Commit) ELSE y)

FTL_Flush(x) == Then(DATA_Commit(x), UBI_Flush)
-----------------------------------------------------------------------------
(* The buffer of partial pages *)

BUF_Init ==
  [used |-> {BUF_Allocate({})}, wb |-> BUF_Allocate({}), written |-> {},
   bufPage |-> NONE]

BUF_PutSector(x, sector, v) ==
  LET page == IF x.bufPage = NONE THEN PageOf(sector) ELSE x.bufPage
  IN  Require([x EXCEPT !.bufPage = page,
                        !.mem[x.wb][sector % SECTOR_PER_MPP] = v,
                        !.written = @ \cup {sector % SECTOR_PER_MPP}],
              PageOf(sector) = page, "assert")

\* Wrong variant: the sectors that were not written come from an old buffer.
MergeNothing(x, merge) ==
  [x EXCEPT !.mem[merge] = [i \in DOMAIN @ |->
                              IF i \in x.written THEN x.mem[x.wb][i] ELSE @[i]]]

\* The page read back, with the written sectors on top if the read succeeded.
Merge(x, merge) ==
  [x EXCEPT !.mem[merge] = [i \in DOMAIN @ |-> IF Good(x) /\ i \in x.written
                                              THEN x.mem[x.wb][i] ELSE x.data[i]]]

NewWriteBuffer(x) ==
  LET b == BUF_Allocate(x.used)
  IN  [x EXCEPT !.used = @ \cup {b}, !.wb = b, !.written = {}, !.bufPage = NONE]

\* BUF_GetPage: the buffer of the whole page in `out'.
BUF_GetPage(x) ==
  LET merge == BUF_Allocate(x.used)
      Merged(y) == [Merge(y, merge) EXCEPT !.out = merge,
                                           !.used = BUF_Free(@ \cup {merge}, x.wb)]
  IN  IF x.written = 0 .. SECTOR_PER_MPP - 1
        THEN NewWriteBuffer([x EXCEPT !.out = x.wb])
        ELSE NewWriteBuffer(Merged(FTL_Read(x, x.bufPage)))
-----------------------------------------------------------------------------
(* The front end *)

\* onfm_write_sector(-1, NULL): write the buffered page, if there is one.
FlushSectors(x) ==
  IF x.starting = NONE THEN x
  ELSE Then(With(BUF_GetPage(x), LAMBDA y : FTL_Write(y, PageOf(x.starting), y.out)),
            LAMBDA y : [y EXCEPT !.starting = NONE])

\* onfm_write_sector: a sector of the next page first writes the page before.
onfm_write_sector(x, sector, v) ==
  LET start == PageOf(sector) * SECTOR_PER_MPP
      Put(y) == BUF_PutSector([y EXCEPT !.starting = start], sector, v)
  IN  IF x.starting \in {NONE, start} THEN Put(x)
      ELSE Then(Require(FlushSectors(x), sector = x.starting + SECTOR_PER_MPP, "assert"),
                Put)

\* onfm_read_sector.  The value goes to the caller's list `in'.
Cached(x, sector) ==
  x.cache.start # NONE /\ sector \in x.cache.start .. x.cache.start + SECTOR_PER_MPP - 1

FillCache(x, sector) ==
  LET start == PageOf(sector) * SECTOR_PER_MPP
      y == FTL_Read(x, PageOf(sector))
  IN  IF Cached(x, sector) THEN x
      ELSE [y EXCEPT !.cache = [start |-> IF Good(y) THEN start ELSE NONE, data |-> y.data]]

onfm_read_sector(x, sector) ==
  Then(FillCache(Return(x, "SUCCESS"), sector),
       LAMBDA y : [y EXCEPT !.in = Append(@, y.cache.data[sector - y.cache.start])])

Aligned(sector, count) == sector % SECTOR_PER_MPP = 0 /\ count = SECTOR_PER_MPP

\* A whole page comes in a buffer of the pool, as the USB interrupt fills it,
\* and passes to UBI with it.
FilledBuffer(x, v) ==
  LET b == BUF_Allocate(x.used)
  IN  [x EXCEPT !.used = @ \cup {b}, !.mem[b] = Fill(v), !.out = b]

ForgetCache(x) == [Return(x, "SUCCESS") EXCEPT !.cache.start = NONE]

ONFM_Write(x, sector, count, v) ==
  IF Aligned(sector, count)
    THEN With(FilledBuffer(ForgetCache(x), v),
              LAMBDA y : FTL_Write(y, PageOf(sector), y.out))
    ELSE Then(Each(ForgetCache(x), count, LAMBDA y, i :
                Then(y, LAMBDA z : onfm_write_sector(z, sector + i, v))),
              FlushSectors)

ONFM_Read(x, sector, count) ==
  With(IF Aligned(sector, count)
         THEN With(FTL_Read(Return(x, "SUCCESS"), PageOf(sector)),
                   LAMBDA y : [y EXCEPT !.in = [i \in 1 .. count |-> y.data[i - 1]]])
         ELSE Each(Return(x, "SUCCESS"), count,
                   LAMBDA y, i : Then(y, LAMBDA z : onfm_read_sector(z, sector + i))),
       LAMBDA y : Require(y, Good(y), "assert"))

\* ONFM_Mount after an orderly ONFM_Unmount.
ONFM_Mount(x) ==
  MTD_Init([x EXCEPT !.cache.start = NONE, !.used = BUF_Init.used,
                     !.wb = BUF_Init.wb, !.written = BUF_Init.written,
                     !.bufPage = BUF_Init.bufPage,
                     !.hold = [i \in DOMAIN @ |-> NoHold(@[i].log)]])
-----------------------------------------------------------------------------
(* The calls *)

\* The fields that only carry results between two procedures of one call.
Clear(x) ==
  [x EXCEPT !.got = Fbt!NoEntry, !.data = Fill(0), !.die = 0, !.reclaimed = NONE,
            !.pick = NONE, !.out = NULL, !.in = <<>>, !.ret = "SUCCESS", !.armed = {},
            !.st = IF @ = "ok" /\ ~Good(x) THEN "failed" ELSE @]

Usable == s.st = "ok" /\ s.mounted /\ ~s.stale /\ calls < MaxCalls

\* The status reads of the call that will fail.
Armed(f) ==
  /\ f = {} \/ faults < MaxArmed
  /\ faults' = IF f = {} THEN faults ELSE faults + 1
  /\ calls' = calls + 1

Spans == {r \in Sectors \X (1 .. SECTOR_PER_MPP + 1) : r[1] + r[2] - 1 \in Sectors}

Write(sector, count, f) ==
  /\ Usable /\ Armed(f)
  /\ s' = Clear(ONFM_Write([s EXCEPT !.armed = f], sector, count, calls + 1))
  /\ expect' = [x \in Sectors |->
                  IF x \in sector .. sector + count - 1 THEN calls + 1 ELSE expect[x]]

\* Whether the read delivered something else than was written.
Differs(y, sector) == \E i \in 1 .. Len(y.in) : y.in[i] # expect[sector + i - 1]

Read(sector, count, f) ==
  /\ Usable /\ Armed(f)
  /\ s' = With(ONFM_Read([s EXCEPT !.armed = f], sector, count),
               LAMBDA y : [Clear(y) EXCEPT !.wrong = @ \/ Differs(y, sector)])
  /\ UNCHANGED expect

Unmount(f) ==
  /\ Usable /\ Armed(f)
  /\ s' = [Clear(FTL_Flush([s EXCEPT !.armed = f])) EXCEPT !.mounted = FALSE]
  /\ UNCHANGED expect

Mount ==
  /\ s.st = "ok" /\ ~s.mounted /\ ~s.stale
  /\ s' = [ONFM_Mount(s) EXCEPT !.mounted = TRUE]
  /\ UNCHANGED <<expect, calls, faults>>

\* A formatted device, mounted.  The first blocks are in use, the rest free.
Init ==
  /\ s = [rows |-> NAND_Init.rows, chip |-> NAND_Init.chip, state |-> NAND_Init.state,
          row |-> NAND_Init.row, armed |-> {}, ret |-> "SUCCESS", data |-> Fill(0),
          st |-> "ok",
          area |-> [b \in LogBlocks |-> Fbt!Entry(b, 0)],
          fbt |-> [i \in 0 .. FREE_BLOCK_COUNT - 1 |->
                     IF Cardinality(LogBlocks) + i < CFG_LOG_BLOCK_COUNT
                       THEN Fbt!Entry(Cardinality(LogBlocks) + i, 0) ELSE Fbt!NoEntry],
          hold |-> [i \in 0 .. TOTAL_DIE_COUNT - 1 |-> NoHold(TableBlock)],
          got |-> Fbt!NoEntry, die |-> 0, reclaimed |-> NONE, stale |-> FALSE,
          map |-> [a \in PageAddrs |-> Unmapped],
          journal |-> [i \in 0 .. J - 1 |-> [block |-> i + 1, page |-> 0]],
          tablePage |-> 0, pick |-> NONE,
          used |-> BUF_Init.used, wb |-> BUF_Init.wb, written |-> BUF_Init.written,
          bufPage |-> BUF_Init.bufPage,
          mem |-> [b \in Buffers |-> Fill(0)], out |-> NULL,
          starting |-> NONE, cache |-> [start |-> NONE, data |-> Fill(0)],
          in |-> <<>>, mounted |-> TRUE, wrong |-> FALSE]
  /\ expect = [x \in Sectors |-> 0]
  /\ calls = 0 /\ faults = 0

Next ==
  \/ \E r \in Spans, f \in Faults \cup {{}} : Write(r[1], r[2], f)
  \/ \E r \in Spans, f \in Faults \cup {{}} : Read(r[1], r[2], f)
  \/ \E f \in Faults \cup {{}} : Unmount(f)
  \/ Mount

Spec == Init /\ [][Next]_vars
-----------------------------------------------------------------------------
(* Properties *)

Quiet == s.st = "ok" /\ ~s.stale

\* Every sector reads back what was last written to it, through the read cache,
\* the merging of partial pages, the writes in flight, the recovery from bad
\* blocks and the addressing of chips, dies and planes; no read has failed to.
\* (`stale' marks the loss the code has: UBI_Write goes on with the block
\* number it looked up before it replaced that very block.)
SectorsReadBack ==
  Quiet => /\ ~s.wrong
           /\ \A x \in Sectors :
                FTL_Read(s, PageOf(x)).data[x % SECTOR_PER_MPP] = expect[x]

\* Between two calls the buffers in use are the write buffer and those of the
\* writes in flight: BUF_GetPage, UBI_Write and the recovery neither lose a
\* buffer nor free one twice, and the page of a write in flight is still in
\* its buffer, so that it can be programmed again elsewhere.
PoolExact ==
  Quiet =>
    LET held == {i \in DOMAIN s.hold : s.hold[i].phy # INVALID_BLOCK}
    IN  /\ s.used = {s.wb} \cup {s.hold[i].buffer : i \in held}
        /\ Cardinality(s.used) = 1 + Cardinality(held)
        /\ \A i \in held :
             MTD_Read(s, s.hold[i].phy, s.hold[i].page).data = s.mem[s.hold[i].buffer]

\* No page is programmed twice between two erases (the assertion of
\* NAND_SendData), and no block is at once in use and free or used twice.
ProgramsErased ==
  s.st # "nand" /\ (Quiet =>
    LET inUse == {s.area[b].block : b \in LogBlocks}
        free == {i \in DOMAIN s.fbt : s.fbt[i].block # INVALID_BLOCK}
    IN  /\ Cardinality(inUse) = Cardinality(LogBlocks)
        /\ inUse \cap Fbt!FbtBlocks(s.fbt) = {}
        /\ Cardinality(free) = Cardinality(Fbt!FbtBlocks(s.fbt)))
=============================================================================
