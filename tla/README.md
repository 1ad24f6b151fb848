# A verification development for OpenNFM

OpenNFM manages raw NAND flash and offers it as a disk of sectors, over USB mass
storage on the LPC313x or to a test program on a simulated NAND. Its README
claims that "both UBI and FTL are power-loss-recoverable (PLR)" and that bad
blocks are handled (BBR). These modules model the whole path from a USB token to
a row of the NAND, check it with TLC on small chips, and prove with TLAPS, for every
geometry, the parts that make tables and stored blocks durable. `PROJECT.json` lists the runs, the
source lines behind every definition, the hazards and the theorems.

## The system

```
  USB core, device controller (usbcore.c, lpc313x_usbdcd.c)   endpoints, requests, interrupts
  USB mass storage (mscuser.c), main loop (main.c)  commands; an interrupt and a loop
  ONFM (core/onfm.c), BUF (core/buf)             sector cache, page buffers
  FTL (core/ftl): API, DATA, PMT, HDI, BDT, ROOT  logical pages -> pages of logical blocks
  UBI (core/ubi): API, INDEX, AREA, ANCHOR, TABLE logical blocks -> physical blocks; wear, bad blocks
  MTD (core/mtd/mtd_api.c)                       pages and blocks of dice, planes, chips
  NAND (mtd_nand_sim.c, csp/drv_nand.c)          the chip, real or simulated
```

Below USB everything is one thread: a call runs to its end. What makes it hard is
that the power can fail between any two operations of the chip, or inside one,
that an erase or a program can fail, and that a failure of an asynchronous program
is only learnt by a later call. Every update of a table is a chain of operations,
and each prefix of the chain is a state a restart may begin from. Above it the USB
interrupt and the main loop share a queue, buffers and stages without a lock, and
the host sends its tokens when it likes.

| Component | State | Operations | Hard because | Correct when | Module |
|---|---|---|---|---|---|
| ROOT `ftl_root.c` | root table, block, page, edition | Format, Init, Commit | loss between erase and first write; losses in Init | durable, atomic, never older | `RootTable` |
| BDT, HDI, DATA_Commit | dirty counts, hot-page hash, journal places | Init, Commit | three tables must be of one commit | consistent at every moment | `FtlMeta` |
| DATA, PMT, FTL API | journals, cache of mapping nodes, dirty counts | Write, Trim, Read, Flush, Reclaim, Replay, Load, Commit | commits and reclaims inside writes; replay | a page reads as last written; counts exact | `FtlPages` |
| Free block table `ubi_index.c` | sorted array of blocks and erase counts | Get, Put, GetMaxEC, SwapMaxEC | shifting arrays, INVALID_EC, dice | sorted, nothing lost or doubled | `FbtOps`, `FreeBlockTable` |
| INDEX, AREA, UBI API | index table, area tables, cache | Erase, Write, SWL, Init, Commit | two tables on flash change one after the other; retries on bad blocks | each block one owner; every stored page found again | `UbiTables` |
| TABLE `ubi_table.c` | none | Read, Write | boundaries of a binary search | the last table is found | `TableSearch` |
| ANCHOR `ubi_anchor.c` | ring of blocks, bad block table | Update, Init, LogBad | two blocks with tables after a loss | durable, last table kept | `AnchorRing` |
| ONFM, BUF, asynchronous UBI_Write | cached page, partial page, one held write per die | Read, Write, Mount, Unmount, Flush | status of a write read late; buffers change hands | sectors read back, pool conserved | `OnfmStack`, `BufferPool` |
| MTD, simulated NAND | command and row latches | Read, Program, Erase, status | dice, planes, chips in one number | a page programmed once per erase | `MtdNand` |
| USB MSC, main loop | `ut_list`, stages, bulk buffers | four endpoint events, loop | interrupt between test and use; pool empty | data lands, reads right, every command ends | `UsbMsc`, `UsbDevice` |
| USB core, DCD | endpoint registers, EP0 data, address, halt bits | requests, USB_ISR | SETUP cuts a transfer; NAK and completion together | control reads right, address right | `UsbCore`, `UsbDcd` |

## The modules

**DurableCell** is the abstract promise of a power-loss-recoverable table: one
value in RAM, one a restart brings back, and a commit that replaces the second by
the first in one piece. **BlockStore** is the abstract promise of UBI to the FTL:
logical blocks that are erased as a whole and written page by page, each call in one
step or not at all.

**RootTable** models `ftl_root.c`. `rootFlash` holds the two blocks; the static
variables of the file keep their names; `rootPc` says whether ROOT_Commit is
running. `acked` and `attempt` are history. A commit is `CommitCall`, perhaps
`CommitErase` (or `CommitEraseFails`), `CommitWrite`; `PowerLoss` can come between
any two and `PowerLossInWrite` inside the write; `RootInit` is the scan and leaves
the code inside the ROOT_Commit that ROOT_Init makes. `Cell` is the refinement
mapping to DurableCell: the durable value is what ROOT_Init would load.

**FtlMeta** composes RootTable with the tables of `ftl_bdt.c` and `ftl_hdi.c`.
DATA_Commit and FTL_Init are lists of calls (`todo`); contents are version
numbers, since the property is that the three belong together.

**FtlPages** is the page level: `ftl_data.c`, `ftl_pmt.c`, `ftl_api.c`. The code is
sequential, so a call is one step; every procedure is an operator from state to
state with the name it has in the code, and `Then` is the code's
`if (ret == STATUS_SUCCESS)`. The state carries a `fuse`, the number of UBI writes
and erases until the power fails, chosen when the call begins: so a call may stop
at any UBI operation, as the test engine of `mtd_api.c` makes it. `ubi` and
`committed` survive. HDI, BDT and ROOT become durable together with the write of
the root, which FtlMeta justifies; UBI calls are all or nothing, which the theorem
`UbiImplementsStore` justifies. HDI_IsHotPage, a hash of past accesses, is a free choice for the pages
in `HotPages`.

**FbtOps / FreeBlockTable** give the loops of INDEX_FreeBlock_Get, _Put,
_GetMaxECBlock and _SwapMaxECBlock as operators on an array, and run them in any
order.

**UbiTables** models INDEX, AREA and the operations of `ubi_api.c` that move
blocks. A step is one NAND operation with the code up to the next one; `todo` is
the rest of the call, so the retry loops of INDEX_Update_Commit and UBI_Write and
the order of index and area writes are explicit. `nand[b]` is the sequence of pages
programmed since the last erase. `Flash...` operators say what UBI_Init would find
if the power failed now. `content` records what callers stored, `failed` the
blocks that failed. Data writes are synchronous and in page order, as the FTL makes
them. `StoreView` is the refinement mapping to BlockStore: the pages a restart would
find in each logical block.

**TableSearch** is TABLE_Read, one step per MTD_Read. **AnchorRing** is
`ubi_anchor.c`, one step per NAND operation; in UbiTables the anchor is a durable
cell.

**OnfmStack** composes the sequential stack from a sector to the NAND: the read
cache and the partial page of `onfm.c`, the pool and the merge of `buf_api.c`
(**BufferPool**), the way DATA_Write picks a journal on an idle die, `dice_hold` and
the recovery of a held write in `ubi_api.c`, the free block table (FbtOps), and
**MtdNand**, the MTD driver on the simulated NAND with its command and address
latches. A call is one step. `armed` is the test engine: which status reads from
now on fail. `expect` is the value last written to each sector. The mapping of
pages, the metadata and the index commit are in their plainest form here, since
FtlPages, FtlMeta and UbiTables are about them.

**UsbDevice** composes the interrupt with the main loop and a host. **UsbDcd** has
the bits of the endpoint registers and the one transfer descriptor per endpoint,
**UsbMsc** the four events of endpoint 1, **UsbCore** endpoint 0 and the pieces of
USB_ISR. The routine stops the main loop, but the controller goes on meanwhile: it
is split where a token may come between two of its accesses to the registers, after
the SETUP packet (`IsrEntry`), after the completions are read (`IsrTakeStep`),
between a handler that primed its endpoint and the clearing of the bit
(`IsrHandlerStep`, `IsrClearStep`), and around each handler of a NAK (`IsrNakStep`);
`isr` says where it is. The main loop is three steps per task: the test, the call of
ONFM, and what follows it, so an interrupt may come between. Each token of the host
is a step and may come at any point of both. The host sends commands by the
bulk-only protocol, clears stalls, recovers by a reset, may time out, cut a control
transfer short and reset the bus; a control transfer that is not to cut another
short begins when the one before it has ended on the bus, served or not. Lengths
are in units, a sector being two.

The `MC*` modules give the sets of inputs; the configurations give the constants.
A `Campaign` (UbiTables, AnchorRing, UsbDevice) is what may happen in a behaviour:
which calls, how many losses, which failures; Init chooses one of a set, so that a
run can explore different kinds of trouble without their product. Operators whose
comment says "wrong variant" or "mutant" are used by no specification: they are the
deliberate errors named in `PROJECT.json` with which it is tested that a property
can fail.

### Fault model

* The power fails before or after a NAND operation: the test engine of
  `mtd_api.c` does the same in `mtd_readstatus`. RootTable and FtlMeta can also
  leave the page being written half programmed (`Torn`, `TornTables`); such a page
  cannot be read, and programming it again may or may not help.
* An erase or program reports failure, a bounded number of times, of chosen kinds;
  in UbiTables and AnchorRing a page whose program failed cannot be read. In
  OnfmStack the status read fails as the test engine makes it, once or twice in a
  call, and fewer times than MTD_MAX_RETRY_TIMES.
* RAM is lost in a power loss.
* The host may give up, reset, and cut transfers; packets themselves are neither
  lost nor corrupted, since the controller repeats them.

### What is excepted, and why

Some properties are stated up to a point the code does not recover from. Each such
point is marked by a history variable, so that it is visible what is not claimed:

| Mark | Set when | Source |
|---|---|---|
| `clobbered` (UbiTables) | a block was erased that the tables on flash still need; until the commit during which that happened is complete | `ubi_index.c:587`, run `ubi_clobber` |
| `doubled` (UbiTables) | a synchronous write failed twice and its first block is freed a second time | `ubi_api.c:321` |
| `unsound` (AnchorRing) | a program of the anchor, or the erase of an old anchor block, has failed | `ubi_anchor.c:270`, a TODO in ANCHOR_Init |
| `gap` (FtlPages) | the power failed in a `window` (a PMT page, a meta page or an erase that the root on flash does not know of), or a PMT meta page was written from a `meta_data` that no mount rebuilds | `ftl_api.c:136`, `ftl_pmt.c:378` |
| `stale` (OnfmStack) | UBI_Write goes on with a block number it looked up before that block was replaced | `ubi_api.c:309` |
| `OthersLeft` fails (AnchorRing, no history) | all blocks of the ring but the one in use are bad, which the code then erases | `ubi_anchor.c:304` |
| `spoilt` (UsbDevice) | a reset while a command is under way, a VERIFY with data, or an OUT NAK whose handler primes the buffer again before what it received has been served | `mscuser.c:100`, `mscuser.c:202`, `lpc313x_usbdcd.c:751` |
| `upset` (UsbDevice), until a reset of the device; only CommandsEnd, and what the host takes for a passed command | `lost`: a transfer ended while the completion bit of the one before it was set, and one clear serves both; `again`: an IN NAK noted inside the routine sends the page again; `stale`: CLEAR_FEATURE sends a status no command waits for | `lpc313x_usbdcd.c:733`, `:740`, `usbcore.c:276` |
| `cutaddr` (UsbDevice) | a SETUP or a bus reset came while an address was pending; only the clause on the address | `usbcore.c:1294` |

## The runs

| Run | Bounds | States | Shows |
|---|---|---|---|
| `meta` | 3 pages, 2 host writes, edition up to 7 | 1.9 M | the root is a durable cell that never goes back; root, BDT and HDI of one commit at every moment; no page programmed twice; erases may fail |
| `fbt` | 6 entries, 5 blocks, 2 dice, counts 0..3 and INVALID_EC | 72 k | sorted, conserved, bad blocks stay out, Get finds the least worn block of the die |
| `ubi_plr` | 2 areas of one block, 2 pages, 3 free blocks, 2 dice, 5 calls, 2 losses, 1 failure | 4.1 M | one owner per block, none leaked, everything stored is recovered and read |
| `ubi_bad` | 2 free blocks, 4 calls; 3 failing erases and programs of tables without loss, or 2 failing erases and programs of data with 2 losses | 144 k | the same after the retries, until the chip is worn out; every call returns |
| `ubi_clobber` | 3 free blocks, 4 erases | | violated, see below |
| `search` | 6 pages, every content a writer can leave | 662 | TABLE_Read finds the last table, halves its range, ends |
| `anchor` | 4 blocks of 2 pages; 6 updates and 3 losses, or 4 updates, 2 losses and 1 bad block, or 9 updates and 3 failures, as many as there are other blocks | 734 k | the anchor is found again after losses; failed blocks are left out and the last table is kept, around the ring and beyond, as long as another block is good |
| `anchor_wrap` | 8 updates, 1 loss | | violated, see below |
| `ftl` | 3 pages per block, hot and cold journal of one block, 3 PMT and 4 data blocks, 2 logical pages in 2 clusters, a cache of one, 7 calls, 1 loss at any of 12 UBI calls | 251 k | pages read back, dirty counts exact, no assertion, no failure, no page programmed twice |
| `ftl_replay` | the same, and the mount goes on after any loss | | violated, see below |
| `onfm` | 2 dice, 2 planes, 3 pages, 2 logical pages of 2 sectors, 4 calls, one of them with one or two failing statuses | 254 k | sectors read back, pool exact, pages programmed once |
| `usb` | pages of 2 sectors, 4 sectors, pool of 4; 3 data commands, or 2 of all commands, or 2 with a timeout, or 2 commands and 2 requests that halt the IN endpoint or end the halt, or 2 control requests with cuts and a bus reset, of a configured device or (with a command) a new one | 1.1 M | writes land, reads are right, buffers have one owner, control reads are right, every served command ends |

The bounds are small but every limit is met in each run. With two pages per block
and five calls, the area blocks and the index block are replaced several times, also
both in one commit, and mounts write too; two losses allow one in the recovery from
the other. In `ftl` a journal block holds two pages, so seven calls fill both
journals, reclaim data and PMT blocks with and without valid pages, and a cache of
one slot makes nearly every access commit. In `onfm` the journals fill twice and every die has a write in flight.
In `usb` the pool holds fewer pages than two write commands bring, so the OUT
endpoint has to wait when the loop lags behind. The counters end the behaviours, which is why
those runs say CHECK_DEADLOCK FALSE; in `ubi_plr` UBI_Read stays possible and
deadlock is checked.

Fairness is used for three properties. `CallsReturn` (weak fairness of `Running`)
and `Terminates` (weak fairness of `Next`): the code is a single thread that waits
for nobody, so a call that has begun continues, and a chip that lost power is
mounted again at some time. `CommandsEnd`: a pending interrupt is taken and its
routine goes on (weak fairness of `Interrupt`), and the host goes on with the
transfer it has begun; it need not begin one, and it need not time out. The main
loop has strong fairness: it cannot run during an interrupt, and a host that polls
an endpoint causes one after the other, but between two of them the processor
returns to the loop.

### Where the code and its comments disagree

* `ubi_clobber`: with area block and index block full in the same commit, the old
  area block is already in the free block table when index_update takes a free
  block, and may be the one it takes and erases. Until the index is written, the
  index on flash names an erased area block; `ubi_index.c:275` says there is "no
  PLR issue between writing these two blocks".
* `anchor_wrap`: once the ring has wrapped, the updated block has the lower number;
  ANCHOR_Init then keeps the table it read last, the old one, in RAM.
  `ubi_index.c:41` says the anchor is "self-PLR-safe".
* `ftl_replay`: the power fails in the reclaim of a full journal. The root on flash
  still names the old journal, whose block was erased or filled anew, so that its
  pages have other editions than DATA_Replay waits for; it passes over them without
  progress and FTL_Init never returns. `ftl_api.c:136` says "handle reclaim PLR:
  start reclaim again".

Others were met while the bounds of the runs were chosen, and can be reproduced by
changing constants: `RootDurable` with Torn = TRUE; `MetaConsistent` with TornTables
= {"hdi"} (HDI_Init ends in BDT_Commit under the comment "skip one page for possible
PLR issue", `ftl_hdi.c:111`, so the torn HDI page is programmed again); `FindsLast`
with Overwritten = TRUE; `RecoverDurable` with failing index programs and a loss
(the bad block becomes index_old_block); `TablesProgramErased` with failing area
programs and a loss; `DataProgramErased` with wear levelling and six calls (blank
pages are programmed); `AnchorKept` without `OthersLeft` and with three failures
(the block in use is erased); in FtlPages JOURNAL_BLOCK_COUNT = 2 makes DATA_Replay restore
MAX_UINT32 as the edition (`ftl_data.c:562`), and a page written cold and then hot
comes back older after a loss, since the hot journal is replayed first. In UsbDevice
a READ past the end and a command that is not supported but has a data phase are
not answered as the protocol wants (`Served` leaves them out of `CommandsEnd`).

The controller that goes on during USB_ISR shows four more, none of which a comment
of the code speaks of. Each is a mark of the table above, and without it TLC finds a
counterexample:

* lost: the IN handler primes the next transfer, for instance the CSW, the host
  reads it at once, and `lpc313x_usbdcd.c:733` clears its completion with that of the
  transfer before. BulkStage stays MSC_BS_CSW, and the next CBW is answered with NAK
  for ever.
* again: the host polls the IN endpoint between the read of the completions (717) and
  the handler; the NAK handler called at `:740` then sends the page in Read_BulkBuf
  again, and sets the status of the CSW.
* an OUT NAK that was noted in the same window primes the OUT endpoint before its
  last transfer has been served, which is then overwritten (`spoilt`).
* stale: CLEAR_FEATURE of a halt that no command caused sends the old CSW
  (`usbcore.c:276`); the next command of the host gets it as its status.

## What is proved

All theorems hold for every value of the constants that satisfies the ASSUME of
the module and the hypotheses named below. Each module first proves an inductive
invariant, one step per action, and draws the properties of the runs from it; the
invariants were model-checked on the constants of the runs before they were proved.

**RootTable_proofs.** Hypothesis: pages are not half programmed (Torn = FALSE;
with them the property fails). RootDurable is not inductive: it says what ROOT_Init
would load now, not why. The invariant `IInv` names the block and page after which the
next table goes, says that this block is a prefix of tables whose editions increase
by one and end just below `root_edition`, that the other block is erased at its
first page or begins with a lower edition, and relates `acked`, `attempt` and the
last table for each value of `rootPc`. `RecoveredIsLast` shows that on such a layout
the scan of ROOT_Init ends at the table written last; one step per action shows that
the layout is kept, through an erase (the full block stays the newest until the
first write into the other) and through a power loss anywhere. From it follow
`RootTyped`, `RootIsDurable`, `RootProgramsErased`, `RootNoRollback` and the
refinement `RootImplementsCell`.

**FtlMeta_proofs.** Hypotheses: Torn = FALSE, TornTables = {}, and P >= 3.
`MetaInv` is the invariant of RootTable together with, for BDT and HDI each, where
its pages are relative to the place the recovered root names (`Positioned`,
`Ahead`), and, for each remaining list of calls, which of the tables has been
written at the new version already. `MetaIsConsistent`, `MetaRamConsistent` and
`MetaProgramsErased` follow; `MetaImplementsRoot` shows that the composition does
nothing to the root that RootTable does not allow, so that `MetaImplementsCell` is
inherited. P >= 3 is needed: a mount commits the BDT twice and the next DATA_Commit
once more before it writes a root, and in blocks of two pages these three commits
erase the page the root on flash names (TLC shows MetaConsistent violated with P = 2
in 15 states). PAGE_PER_PHY_BLOCK is far larger in every build.

**FreeBlockTable_proofs.** `IInv`: the table is sorted, its good entries, the held
and the discarded blocks share out all blocks without overlap, and an entry with
INVALID_EC is unused or a discarded block's. The last part is what makes the
dropping of the last slot in INDEX_FreeBlock_Put harmless: there are more slots than
blocks, so by counting (`LastSlotUnused`) the slot is unused. The loops are handled
by the lemmas on the smallest and the largest element of a set of slots.
`TableTypes`, `TableSorted`, `TableConserved`, `TableDiscards`, `TableGetFinds`.

**TableSearch_proofs.** Hypothesis: Overwritten = FALSE. The invariant says that
every page below `head` is valid, that `head` is valid unless it is 0, and that no
page from `tail` on is valid. It gives `SearchFindsLast` and, with the arithmetic of
the middle page, `SearchHalves` for every PAGE_PER_PHY_BLOCK.

**AnchorRing_proofs.** Two invariants, for the two situations the code copes with.
`RingInv` is for power losses: a campaign may have any number of losses at any
moment and failures of any kind, as long as its updates and the pages of the blocks
that may fail fit into the ring (`NoWrap`); beyond that the run `anchor_wrap` shows
the code wrong. The budget left is compared with the pages of the blocks ahead
(`Room`, `Fits`), so that the block in use and its successor are always the highest
ones with tables, which is what ANCHOR_Init decides by. It gives `AnchorIsDurable`
and `AnchorPairLinked`. `KeptInv` is for failures: with no power loss and fewer
failures than the ring has other blocks (`Quiet`), the ring may be gone around any
number of times; the search for the next block is shown to end before it comes back
to the block in use by counting the useless blocks on the arc searched so far
(`Arc`, `Spare`). It gives `AnchorIsKept` and `AnchorErasedPage`, which also hold for
campaigns with losses in which only erases of a new block fail (`Steady`). Of the
three campaigns of the run `anchor` the first two satisfy NoWrap and the first Steady;
the third has one failure more than Quiet allows, so that the ring can be exhausted,
where nothing is claimed (`OthersLeft`). `AnchorKept` with as many failures as other
blocks, of which one is still good, and with losses and a failing erase of the previous
block, is only model-checked.

**UbiTables_proofs**, on the invariant of **UbiInvariant** and the lemmas on the free
block table of **FbtOps_proofs**. Hypothesis (`Benign`): in every campaign only
erases fail, any number of times, or besides them one failure whose kind may be a
program of data; any calls, any number of them and of power losses, every number of
areas, pages, dies and free blocks, also tables with fewer slots than there are free
blocks. The campaign of `ubi_plr` is such a one. None of the properties is inductive:
each is about the tables in RAM or about those on flash, and a commit changes them one
after the other. `UbiInv` has three parts.

* `Ram`, for every step at which a call may be: the rest of the call is the plan that
  belongs to the step (`Stage`); free blocks, area blocks, the index block, the mapped
  blocks and the block in hand are pairwise different (`Owners`, `Layout`); every area
  block ends in a table and `area_offset_table` names it, except a new area block that
  is not written yet (`AreaBlocks`); the cache agrees with flash or is ahead of it by
  the update in `area_update_plr` (`Cache`); every mapped block holds the stored pages
  (`RamData`).
* `FlashTables` and `FlashData`: the same for what the anchor on flash leads to. They
  are claimed while nothing is `clobbered`.
* `Refs`: outside a commit, and until its first write, flash names the blocks that RAM
  names (`IsSettled`); in between, the blocks a step writes are not needed by flash
  unless `clobbered` is set.

There is one lemma per action. The interesting ones are `GetKeeps` (the erased block
is in the free block table of RAM, but may still be needed by flash: that is exactly
`clobbered`), `IndexWriteKeeps` (the moment at which flash takes over the references of
RAM), `AreaWriteKeeps` (the mapping does not change when the logged update enters
its area table) and `MountAreasKeeps` (the redo of that update after a power loss).
From the invariant follow `UbiOwnersDisjoint`, `UbiReadsCurrent`, `UbiRecoverDurable`
and `UbiTablesProgramErased`.

`UbiNoLeak` needs two more hypotheses, without which it is false. `EnoughSlots` is the
ASSERT of INDEX_Format (`ubi_index.c:111`): the free blocks of a new chip fit in the
free block table; with fewer slots INDEX_FreeBlock_Put drops one. `Unworn`, an
assumption on the behaviour, says that no free block has reached the erase count
INVALID_EC (the largest of its 32 bits, `cmn.h:214`), which the loops of the table take
for the mark of an unused slot. The invariant is again in two: at each step of a call every block that never
failed is free, in hand or referred to by the tables in RAM (`OwnedByRam`), and, while
flash says where every block is (`Intact`), the same of the tables on flash
(`OwnedByFlash`), from which UBI_Init starts; in both the used slots come first
(`Packed`). Most steps only need what the lemma of the action says besides `UbiInv'`:
which blocks are referred to (`RefsKept`, `TakesOver`, `Swaps`) and what flash says
(`FlashKept`) afterwards. That Put has room for the block that is replaced is a count
(`RoomForOne`): a call that holds a free block leaves at least one slot unused.

`UbiImplementsStore` says that UbiTables implements BlockStore. UBI_Erase takes effect
with the write of the index table (`IndexWriteShows`), UBI_Write with the program of
the page, in the block it was mapped to (`UbiWriteShows`) or in the replacement
(`ReprogramShows`); every other step, among them the area writes, a power loss and
the whole of UBI_Init, leaves `StoreView` as it is. While a commit has `clobbered`
what flash needs, a restart need not find the blocks at all; `StoreView` then keeps
what was stored before the call, and an erase takes effect when that commit is
complete (`CommitDoneShows`). TLC has explored this refinement on the instance of
`ubi_plr` only in part (0.8 M states, depth 31, no violation): a step costs it too
much for a run, so that it rests on the proof.

Only model-checked:

* the liveness properties (`Terminates`, `CallsReturn`, `CommandsEnd`),
  which are out of the prover's reach;
* UbiTables with failing programs of index and area tables and with two failing
  programs of data (run `ubi_bad`);
* FtlPages and OnfmStack: a call is a fold over UBI operations, so that what it
  computes needs induction over data, also out of reach;
* UsbDevice.

## Not modelled

* The vendor drivers and the board support: register programming without protocol
  state. `drv_nand.c` gives the real chip the commands that MtdNand gives the
  simulated one; that a real chip is busy, and keeps a failed status until it is
  reset, is left out.
* The host tools under `mpt/` (file I/O), the tests (read for the expected
  behaviour and the faults they inject).
* MTD_ReadID, MTD_CheckBlock and so a chip with bad blocks at format time; ECC
  errors and the retries of MTD_Read (`mtd_api.c:190` moves the buffer pointer in a
  retry), so that no read fails and the branch of BUF_GetPage for a failing FTL_Read
  (`buf_api.c:139`), though modelled, is never taken; FTL
  over-provision, which is 0 on small chips.
* The RAM-disk build of the main loop, USB suspend and resume, other USB classes,
  the contents of descriptors and of the answers to INQUIRY and the like.

## Plan

1. (done) All components from USB to the NAND.
2. (done) The proofs of RootTable, FtlMeta, FreeBlockTable, TableSearch, AnchorRing and
   UbiTables.
3. Left: UbiTables with failing programs of tables and no power loss; an invariant of
   UsbDevice that relates the queue, the stages and the owners of the buffers.
