------------------------------ MODULE FtlPages ------------------------------
(***************************************************************************)
(* The page level of the FTL: the data journals (core/ftl/ftl_data.c), the  *)
(* page mapping table and its cache (ftl_pmt.c) and the calls of the        *)
(* front end (ftl_api.c).                                                   *)
(*                                                                          *)
(* The FTL is sequential, so a call is one step; what makes it hard is      *)
(* where it stops.  Each procedure is an operator from the state before to  *)
(* the state after it, and the state carries a `fuse', the number of UBI    *)
(* writes and erases before the power fails (the test engine of mtd_api.c   *)
(* works the same way).  When it has burnt down nothing more happens, and   *)
(* only `ubi' and `committed' survive.                                      *)
(*                                                                          *)
(* UBI_Write and UBI_Erase are all or nothing here (UbiTables), and HDI,    *)
(* BDT and ROOT are committed together by the write of the root (FtlMeta).  *)
(* The blocks of those three tables are left out.                           *)
(***************************************************************************)
EXTENDS Integers, Sequences, FiniteSets, SequencesExt

CONSTANTS
  P,                     \* PAGE_PER_PHY_BLOCK
  JOURNAL_BLOCK_COUNT,
  PMT_BLOCK_COUNT,
  DATA_BLOCK_COUNT,      \* number of blocks from DATA_START_BLOCK on
  PM_PER_NODE,
  PMT_CACHE_COUNT,
  HotPages,              \* the pages HDI_IsHotPage may call hot
  ReadPages, TrimPages,  \* the pages that are read and trimmed
  MaxCalls,              \* bound on the number of calls
  MaxLosses,             \* bound on the number of power losses
  MaxFuse,               \* bound on the UBI calls before a power loss
  MountAfterGap          \* whether to go on after a loss in `window'

ASSUME FtlAssumption ==
  /\ P \in Nat /\ P >= 3
  /\ JOURNAL_BLOCK_COUNT \in Nat \ {0}
  /\ PMT_BLOCK_COUNT \in Nat /\ DATA_BLOCK_COUNT \in Nat
  /\ DATA_BLOCK_COUNT > 3 * JOURNAL_BLOCK_COUNT
  /\ PM_PER_NODE \in Nat \ {0}
  /\ PMT_CACHE_COUNT \in Nat \ {0}
  /\ MaxCalls \in Nat /\ MaxLosses \in Nat /\ MaxFuse \in Nat
  /\ MountAfterGap \in BOOLEAN
  /\ ReadPages \subseteq Nat /\ TrimPages \subseteq Nat

VARIABLES
  ftl,       \* RAM and flash, see Init
  mode,      \* "up", "off", or why the FTL stopped: "hang", "assert", "fail"
  calls, losses    \* counters for the bounds

vars == <<ftl, mode, calls, losses>>

Unlimited == 1000             \* a fuse that never burns down
NONE == -1                    \* INVALID_PM_NODE, INVALID_CLUSTER
MAX_EDITION == -2             \* MAX_UINT32: the spare of a page written without one
J == JOURNAL_BLOCK_COUNT
Journals == 0 .. J - 1
PmtBlocks == 0 .. PMT_BLOCK_COUNT - 1
DATA_START_BLOCK == PMT_BLOCK_COUNT
DataBlocks == DATA_START_BLOCK .. DATA_START_BLOCK + DATA_BLOCK_COUNT - 1
MAX_DIRTY_PAGES == P - 1
Pages == 0 .. P - 1

\* FTL_Capacity (without over provision, which is 0 for less than 100 blocks).
FTL_Capacity == (DATA_BLOCK_COUNT - 3 * J) * (P - 1)
Addrs == 0 .. FTL_Capacity - 1
CLUSTER_INDEX(a) == a \div PM_PER_NODE
PAGE_IN_CLUSTER(a) == a % PM_PER_NODE
Clusters == {CLUSTER_INDEX(a) : a \in Addrs}
Slots == 0 .. PMT_CACHE_COUNT - 1

At(b, p) == [block |-> b, page |-> p]
Nowhere == At(NONE, NONE)                  \* INVALID_PM_NODE
EmptyNode == [i \in 0 .. PM_PER_NODE - 1 |-> Nowhere]

\* An entry of page_mapping_nodes: a place on flash, or a slot of the cache.
OnFlash(at) == [cached |-> FALSE, at |-> at, slot |-> NONE, dirty |-> FALSE]
InCache(i) == [cached |-> TRUE, at |-> Nowhere, slot |-> i, dirty |-> FALSE]
NoPending == [addr |-> NONE, val |-> NONE]     \* no write or trim under way
Mounting == [addr |-> NONE, val |-> 0]         \* power up under way
EmptySlot == [origin |-> Nowhere, cluster |-> NONE, node |-> EmptyNode]

\* Pages.  A data page carries its address and edition in the spare area; meta
\* pages list the addresses or clusters of the pages before them.
ErasedPage == [kind |-> "erased"]
DataPage(a, v, e) == [kind |-> "data", addr |-> a, val |-> v, edition |-> e]
NodePage(c, n) == [kind |-> "node", cluster |-> c, node |-> n]
MetaPage(list) == [kind |-> "meta", list |-> list]
ErasedBlock == [p \in Pages |-> ErasedPage]

ReadPage(s, at) == s.ubi[at.block][at.page]      \* UBI_Read
Readable(s, at) == ReadPage(s, at).kind # "erased"
EditionOf(pg) == IF pg.kind = "data" THEN pg.edition ELSE MAX_EDITION

Running(s) == s.st = "ok"
Stop(s, why) == IF Running(s) THEN [s EXCEPT !.st = why] ELSE s

\* `if (ret == STATUS_SUCCESS)': go on with Op unless something went wrong.
Then(s, Op(_)) == IF Running(s) THEN Op(s) ELSE s
ForEach(s, n, Op(_, _)) ==                         \* i = 0 .. n - 1
  FoldLeft(LAMBDA x, i : Op(x, i - 1), s, [i \in 1 .. n |-> i])

\* A UBI call that changes flash, with the state t after it.
Flash(s, t) ==
  IF ~Running(s) THEN s
  ELSE IF s.fuse = 0 THEN [s EXCEPT !.st = "dead"]
  ELSE [t EXCEPT !.fuse = s.fuse - 1]

\* The simulated NAND stops at a page that is programmed twice.
UBI_Write(s, at, pg) ==
  Flash(s, [s EXCEPT !.ubi[at.block][at.page] = pg,
                     !.twice = @ \/ Readable(s, at)])

UBI_Erase(s, b) ==
  Flash(s, [s EXCEPT !.ubi[b] = ErasedBlock, !.window = TRUE])
-----------------------------------------------------------------------------
(* The commit and the page mapping table *)

\* The dirtiest of some blocks; of several the first.
Dirtiest(s, blocks) ==
  CHOOSE b \in blocks :
    \A c \in blocks : s.bdt[c] < s.bdt[b] \/ (s.bdt[c] = s.bdt[b] /\ b <= c)

\* One more page of block b is out of date (the code asserts the bound).
Dirtied(s, b) ==
  IF ~Running(s) THEN s
  ELSE IF s.bdt[b] = MAX_DIRTY_PAGES THEN Stop(s, "assert")
  ELSE [s EXCEPT !.bdt[b] = @ + 1]

\* Where the table in RAM says the PMT page of cluster c is on flash; a dirty
\* one will be written again.
CleanPlace(s, c) ==
  LET n == s.root.nodes[c]
  IN  IF ~n.cached THEN n.at
      ELSE IF n.dirty THEN Nowhere ELSE s.cache[n.slot].origin

\* pmt_reclaim_blocks, one page: copy it if it is the current one.  `to' is the
\* next page of the reclaim block.
PmtCopyPage(s, from, c) ==
  LET n == s.root.nodes[c]
      to == s.root.pmt_reclaim
  IN  IF ~Running(s) \/ CleanPlace(s, c) # from THEN s
      ELSE Then(UBI_Write(s, to, ReadPage(s, from)), LAMBDA w :
             [w EXCEPT !.root.nodes[c] = OnFlash(to),
                       !.root.pmt_reclaim.page = @ + 1,
                       !.pmt_meta[to.page] = c,
                       !.cache = IF n.cached THEN [@ EXCEPT ![n.slot] = EmptySlot]
                                             ELSE @])

\* The block is erased; the reclaim block becomes the journal.
PmtSwap(s, b) ==
  LET r == s.root.pmt_reclaim
  IN  Then(UBI_Erase(s, b), LAMBDA e :
        [e EXCEPT !.root.pmt_current = r, !.root.pmt_reclaim = At(b, 0),
                  !.bdt[r.block] = 0, !.bdt[b] = 0])

\* pmt_reclaim_blocks: of the dirtiest block what is current is copied to the
\* reclaim block.
PmtReclaimBlock(s, b) ==
  LET meta == ReadPage(s, At(b, P - 1))
  IN  IF s.bdt[b] = MAX_DIRTY_PAGES
        THEN Then(UBI_Erase(s, b), LAMBDA e :
               [e EXCEPT !.root.pmt_current = At(b, 0), !.bdt[b] = 0])
      ELSE IF meta.kind # "meta" THEN Stop(s, "fail")
      ELSE PmtSwap(ForEach(s, P - 1, LAMBDA x, p : PmtCopyPage(x, At(b, p), meta.list[p])), b)

PmtReclaim(s) == Then(s, LAMBDA t : PmtReclaimBlock(t, Dirtiest(t, PmtBlocks)))

\* Whether the meta page lists what the pages of the block hold.
MetaRight(s, b) ==
  \A p \in 0 .. P - 2 : ReadPage(s, At(b, p)).cluster = s.pmt_meta[p]

\* The journal of PMT pages is full: write its meta page and reclaim.
PmtFull(s) ==
  LET cur == s.root.pmt_current
  IN  IF ~Running(s) \/ cur.page # P - 1 THEN s
      ELSE PmtReclaim(UBI_Write([s EXCEPT !.gap = @ \/ ~MetaRight(s, cur.block)],
                                cur, MetaPage(s.pmt_meta)))

\* PMT_Commit, a dirty node of the cache.
PmtWriteNode(s, slot, cur) ==
  Then(UBI_Write([s EXCEPT !.window = TRUE], cur, NodePage(slot.cluster, slot.node)), LAMBDA w :
    PmtFull(Dirtied([w EXCEPT !.pmt_meta[cur.page] = slot.cluster,
                              !.root.nodes[slot.cluster] = OnFlash(cur),
                              !.root.pmt_current.page = @ + 1], slot.origin.block)))

\* PMT_Commit, one slot of the cache.
PmtCommitSlot(s, i) ==
  LET slot == s.cache[i]
  IN  IF ~Running(s) \/ slot.cluster = NONE THEN s
      ELSE IF ~s.root.nodes[slot.cluster].dirty
        THEN [s EXCEPT !.root.nodes[slot.cluster] = OnFlash(slot.origin)]
      ELSE IF s.root.pmt_current.page = P - 1 THEN Stop(s, "assert")
      ELSE PmtWriteNode(s, slot, s.root.pmt_current)

\* PMT_Commit writes the dirty nodes back and empties the cache (PMT_Init).
PMT_Init(s) == [s EXCEPT !.cache = [i \in Slots |-> EmptySlot]]
PMT_Commit(s) == Then(ForEach(s, PMT_CACHE_COUNT, PmtCommitSlot), PMT_Init)

\* DATA_Commit: HDI, PMT, BDT and last ROOT.  (`since': what a page may hold if
\* the power fails from now on; `window': see ReadsBack.)
ROOT_Commit(s) ==
  Then(Flash(s, [s EXCEPT !.committed = [root |-> s.root, bdt |-> s.bdt]]), LAMBDA r :
    [r EXCEPT !.edition = [hot |-> 0, cold |-> 0],
              !.since = IF r.pending = Mounting THEN @
                        ELSE [a \in Addrs |-> {r.latest[a]} \cup
                                (IF a = r.pending.addr THEN {r.pending.val} ELSE {})],
              !.window = r.busy])
CommitNoEdition(s) ==                             \* mutant of DATA_Commit
  LET r == ROOT_Commit(PMT_Commit(s)) IN [r EXCEPT !.edition = s.edition]
DATA_Commit(s) == ROOT_Commit(PMT_Commit(s))

\* PMT_Load: a full cache is committed first, and so emptied.
EmptySlots(s) == {i \in Slots : s.cache[i].origin = Nowhere}
PmtRead(s, c, at) ==
  LET i == CHOOSE i \in EmptySlots(s) : \A k \in EmptySlots(s) : i <= k
  IN  IF ReadPage(s, at).kind # "node" THEN Stop(s, "fail")
      ELSE [s EXCEPT !.cache[i] = [origin |-> at, cluster |-> c,
                                   node |-> ReadPage(s, at).node],
                     !.root.nodes[c] = InCache(i)]
PMT_Load(s, c) ==
  Then(IF EmptySlots(s) = {} THEN DATA_Commit(s) ELSE s,
       LAMBDA t : PmtRead(t, c, t.root.nodes[c].at))

\* PMT_Update and PMT_Search load the node unless it is in the cache.
Loaded(s, a) ==
  Then(s, LAMBDA t : IF t.root.nodes[CLUSTER_INDEX(a)].cached THEN t
                     ELSE PMT_Load(t, CLUSTER_INDEX(a)))

\* PMT_Search: the place of page a according to its node in the cache.
Cached(s, a) ==
  s.cache[s.root.nodes[CLUSTER_INDEX(a)].slot].node[PAGE_IN_CLUSTER(a)]

SetPlaceClean(s, a, at) ==                        \* mutant of SetPlace
  [s EXCEPT !.cache[s.root.nodes[CLUSTER_INDEX(a)].slot].node[PAGE_IN_CLUSTER(a)] = at]
SetPlace(s, a, at) ==
  [s EXCEPT !.cache[s.root.nodes[CLUSTER_INDEX(a)].slot].node[PAGE_IN_CLUSTER(a)] = at,
            !.root.nodes[CLUSTER_INDEX(a)].dirty = TRUE]

PMT_Update(s, a, at) ==
  Then(Loaded(s, a), LAMBDA t :
    Then(IF Cached(t, a) = Nowhere THEN t ELSE Dirtied(t, Cached(t, a).block),
         LAMBDA u : SetPlace(u, a, at)))
-----------------------------------------------------------------------------
(* The data journals; k is "hot" or "cold" *)

Other(k) == IF k = "hot" THEN "cold" ELSE "hot"
JournalBlocks(s, k) == {s.root[k][j].block : j \in Journals}

DATA_IsFull(s, k) == \A j \in Journals : s.root[k][j].page >= P - 1

\* The journal has filled a block: the meta page goes to its last page.
WriteMeta(s, k, j) ==
  LET at == s.root[k][j]
  IN  IF ~Running(s) \/ at.page # P - 1 THEN s
      ELSE UBI_Write([s EXCEPT !.window = TRUE], at, MetaPage(s.meta[k][j]))

\* DATA_Write with a buffer, to journal block j.
WriteTo(s, a, v, k, j, at) ==
  Then(PMT_Update(UBI_Write([s EXCEPT !.busy = TRUE,
                                      !.pending = [addr |-> a, val |-> v],
                                      !.since[a] = @ \cup {v},
                                      !.meta[k][j][at.page] = a,
                                      !.edition[k] = @ + 1],
                            at, DataPage(a, v, s.edition[k])), a, at),
       LAMBDA u : WriteMeta([u EXCEPT !.latest[a] = v, !.busy = FALSE,
                                      !.root[k][j].page = @ + 1], k, j))

\* The first journal block with room.
DATA_Write(s, a, v, k) ==
  LET room == {j \in Journals : s.root[k][j].page < P - 1}
      j == CHOOSE j \in room : \A i \in room : j <= i
  IN  IF room = {} THEN Stop(s, "assert") ELSE WriteTo(s, a, v, k, j, s.root[k][j])

\* DATA_Write without a buffer: a trim, which no journal records.
DATA_Trim(s, a) ==
  Then(PMT_Update([s EXCEPT !.pending = [addr |-> a, val |-> 0],
                            !.since[a] = @ \cup {0}], a, Nowhere),
       LAMBDA u : [u EXCEPT !.latest[a] = 0])

\* The J dirtiest data blocks that are not in the other journal.
DirtyBlocks(s, k) ==
  LET d[j \in Journals] ==
        Dirtiest(s, DataBlocks \ (JournalBlocks(s, Other(k)) \cup
                                  {d[i] : i \in 0 .. j - 1}))
  IN  d

ValidPages(s, d) ==
  FoldLeft(LAMBDA n, j : n + MAX_DIRTY_PAGES - s.bdt[d[j]], 0, [j \in 1 .. J |-> j - 1])

\* DATA_Reclaim, one page: copy it to the reclaim journal if it is valid.  The
\* edition of the journal counts the pages copied.
CopyTo(s, k, j, pg, to) ==
  Then(PMT_Update(UBI_Write(s, to, [pg EXCEPT !.edition = s.copied]), pg.addr, to), LAMBDA u :
    [u EXCEPT !.meta[k][j][to.page] = pg.addr, !.copied = @ + 1,
              !.root.reclaim[j].page = @ + 1])

CopyPage(s, k, j, from, a) ==
  Then(Loaded(s, a), LAMBDA t :
    IF Cached(t, a) # from THEN t
    ELSE CopyTo(t, k, j, ReadPage(t, from), t.root.reclaim[j]))

\* One dirty block; a block without a meta page has nothing to copy.
CopyBlock(s, k, j, b) ==
  LET meta == ReadPage(s, At(b, P - 1))
  IN  IF meta.kind # "meta" THEN s
      ELSE ForEach([s EXCEPT !.root.reclaim[j].page = 0], P - 1,
                   LAMBDA x, p : CopyPage(x, k, j, At(b, p), meta.list[p]))

\* A dirty block is erased; the reclaim block becomes the journal and the
\* dirty one the reclaim block, or the dirty one the journal.
EraseNoReset(s, k, j, b, copied) ==               \* mutant of EraseDirty: BDT
  LET r == s.root.reclaim[j]
  IN  Then(UBI_Erase(s, b), LAMBDA e :
        IF copied THEN [e EXCEPT !.root[k][j] = r, !.root.reclaim[j] = At(b, 0)]
                  ELSE [e EXCEPT !.root[k][j] = At(b, 0)])
EraseFromZero(s, k, j, b, copied) ==              \* mutant of EraseDirty: page
  LET r == s.root.reclaim[j]
  IN  Then(UBI_Erase(s, b), LAMBDA e :
        [e EXCEPT !.root[k][j] = At(IF copied THEN r.block ELSE b, 0),
                  !.root.reclaim[j] = At(IF copied THEN b ELSE r.block, 0),
                  !.bdt[b] = 0, !.bdt[r.block] = 0])
EraseDirty(s, k, j, b, copied) ==
  LET r == s.root.reclaim[j]
  IN  Then(UBI_Erase(s, b), LAMBDA e :
        IF copied THEN [e EXCEPT !.root[k][j] = r, !.root.reclaim[j] = At(b, 0),
                                 !.bdt[b] = 0, !.bdt[r.block] = 0]
                  ELSE [e EXCEPT !.root[k][j] = At(b, 0), !.bdt[b] = 0])

\* d are the dirty blocks, n the pages the BDT says are valid in them.
ReclaimBlocks(s, k, d, n) ==
  Then(IF n = 0 THEN s ELSE ForEach(s, J, LAMBDA x, j : CopyBlock(x, k, j, d[j])), LAMBDA t :
    IF t.copied # n THEN Stop(t, "assert")
    ELSE Then(ForEach(t, J, LAMBDA x, j : EraseDirty(x, k, j, d[j], n # 0)), LAMBDA e :
           [e EXCEPT !.edition[k] = n, !.busy = FALSE, !.copied = 0]))

DATA_Reclaim(s, k) ==
  ReclaimBlocks([s EXCEPT !.busy = TRUE], k, DirtyBlocks(s, k),
                ValidPages(s, DirtyBlocks(s, k)))

\* What follows a write and a mount.
ReclaimIfFull(s, k) ==
  Then(s, LAMBDA t : IF DATA_IsFull(t, k) THEN DATA_Commit(DATA_Reclaim(t, k)) ELSE t)
-----------------------------------------------------------------------------
(* Power up *)

\* DATA_Replay, the page at the head of journal j: it is replayed when it has
\* the edition that is due, passed over when it has another one, and an erased
\* page ends the replay.  `round': whether the round has replayed a page.
ReplayAt(s, k, j, at, pg) ==
  IF pg.kind = "erased"
    THEN [s EXCEPT !.edition[k] = s.due, !.due = MAX_EDITION]
  ELSE IF EditionOf(pg) # s.due THEN s
  ELSE IF pg.kind # "data" THEN Stop(s, "assert")
  ELSE Then(PMT_Update(s, pg.addr, at), LAMBDA u :
         [u EXCEPT !.root[k][j].page = @ + 1, !.due = @ + 1, !.round = TRUE])

ReplayOne(s, k, j) ==
  IF s.round \/ ~Running(s) THEN s
  ELSE ReplayAt(s, k, j, s.root[k][j], ReadPage(s, s.root[k][j]))

ReplayRound(s, k) ==
  IF s.due = MAX_EDITION \/ ~Running(s) THEN s
  ELSE ForEach([s EXCEPT !.round = FALSE], J, LAMBDA x, j : ReplayOne(x, k, j))

\* The meta table of a journal block, from the spare areas of its pages.
RebuildMeta(s, k, j) ==
  LET b == s.root[k][j].block
      written == {p \in 0 .. P - 2 : \A q \in 0 .. p : Readable(s, At(b, q))}
      list == [p \in 0 .. P - 2 |->
                 IF p \in written THEN ReadPage(s, At(b, p)).addr ELSE s.meta[k][j][p]]
  IN  IF ~Running(s) THEN s
      ELSE IF written = 0 .. P - 2 /\ ~Readable(s, At(b, P - 1))
        THEN UBI_Write([s EXCEPT !.meta[k][j] = list, !.window = TRUE],
                       At(b, P - 1), MetaPage(list))
        ELSE [s EXCEPT !.meta[k][j] = list]

\* A round without a page to replay and without an erased one repeats forever.
DATA_Replay(s, k) ==
  Then(ForEach([s EXCEPT !.busy = TRUE, !.due = 0], J * P + 1,
               LAMBDA x, i : ReplayRound(x, k)), LAMBDA t :
    IF t.due # MAX_EDITION THEN Stop(t, "hang")
    ELSE ForEach([t EXCEPT !.busy = FALSE, !.due = 0, !.round = FALSE], J,
                 LAMBDA x, j : RebuildMeta(x, k, j)))

\* FTL_Init: the tables of the last commit (PMT_Init empties the cache), the
\* hot journal, the cold journal, and the reclaim that was due.
FTL_Init(s) ==
  ReclaimIfFull(ReclaimIfFull(
    DATA_Replay(DATA_Replay(PMT_Init([s EXCEPT !.root = s.committed.root,
                                               !.bdt = s.committed.bdt]),
                            "hot"), "cold"), "hot"), "cold")
-----------------------------------------------------------------------------
(* The calls *)

FTL_Write(s, a, v, k) == ReclaimIfFull(DATA_Write(s, a, v, k), k)
FTL_TrimPage(s, a, k) == ReclaimIfFull(DATA_Trim(s, a), k)
FTL_Read(s, a) == Loaded(s, a)
FTL_Flush(s) == DATA_Commit(s)

\* PMT_Format and DATA_Format.  Node c is the c-th page that is not a last one.
FormatAt(c) == At(c \div (P - 1), c % (P - 1))
NodeCount == Cardinality(Clusters)
FormatCurrent == FormatAt(NodeCount)

FormatMeta(b) == [p \in 0 .. P - 2 |->
                    LET c == b * (P - 1) + p IN IF c \in Clusters THEN c ELSE 0]

FormatUbi ==
  [b \in PmtBlocks \cup DataBlocks |->
     [p \in Pages |->
        IF b \notin PmtBlocks THEN ErasedPage
        ELSE IF p = P - 1
          THEN IF b < FormatCurrent.block THEN MetaPage(FormatMeta(b)) ELSE ErasedPage
        ELSE IF b * (P - 1) + p \in Clusters THEN NodePage(b * (P - 1) + p, EmptyNode)
        ELSE ErasedPage]]

FormatRoot ==
  [hot |-> [j \in Journals |-> At(DATA_START_BLOCK + j, 0)],
   cold |-> [j \in Journals |-> At(DATA_START_BLOCK + J + j, 0)],
   reclaim |-> [j \in Journals |-> At(DATA_START_BLOCK + 2 * J + j, 0)],
   pmt_current |-> FormatCurrent,
   pmt_reclaim |-> At(FormatCurrent.block + 1, 0),
   nodes |-> [c \in Clusters |-> OnFlash(FormatAt(c))]]

FormatBdt ==
  [b \in PmtBlocks \cup DataBlocks |->
     IF b <= FormatCurrent.block + 1
        \/ b \in DATA_START_BLOCK .. DATA_START_BLOCK + 3 * J - 1
     THEN 0 ELSE MAX_DIRTY_PAGES]

\* PMT_Format leaves the clusters of the last, unfinished block in its meta_data
\* over those of the block before it.
FormatPmtMeta == [p \in 0 .. P - 2 |->
  LET c == FormatCurrent.block * (P - 1) + p
  IN  IF c \in Clusters THEN c
      ELSE IF c - (P - 1) \in Clusters THEN c - (P - 1) ELSE 0]

NoMeta == [k \in {"hot", "cold"} |-> [j \in Journals |-> [p \in 0 .. P - 2 |-> 0]]]

Formatted ==
  [ubi |-> FormatUbi, committed |-> [root |-> FormatRoot, bdt |-> FormatBdt],
   root |-> FormatRoot, bdt |-> FormatBdt,
   cache |-> [i \in Slots |-> EmptySlot], pmt_meta |-> FormatPmtMeta,
   meta |-> NoMeta, edition |-> [hot |-> 0, cold |-> 0],
   st |-> "ok", fuse |-> Unlimited, busy |-> FALSE, window |-> FALSE,
   copied |-> 0, due |-> 0, round |-> FALSE,
   gap |-> FALSE, twice |-> FALSE,
   latest |-> [a \in Addrs |-> 0], since |-> [a \in Addrs |-> {0}],
   pending |-> NoPending]
-----------------------------------------------------------------------------
(* What the flash holds *)

PlaceOf(s, a) ==
  LET n == s.root.nodes[CLUSTER_INDEX(a)]
      node == IF n.cached THEN s.cache[n.slot].node ELSE ReadPage(s, n.at).node
  IN  node[PAGE_IN_CLUSTER(a)]

\* The content of page a: 0 when it is unmapped, NONE when the place is wrong.
Lookup(s, a) ==
  LET n == s.root.nodes[CLUSTER_INDEX(a)]
      at == PlaceOf(s, a)
      pg == ReadPage(s, at)
  IN  IF ~n.cached /\ ReadPage(s, n.at).kind # "node" THEN NONE
      ELSE IF at = Nowhere THEN 0
      ELSE IF pg.kind = "data" /\ pg.addr = a THEN pg.val ELSE NONE
-----------------------------------------------------------------------------
(* The machine *)

\* RAM after a power loss.
PoweredOff(s) ==
  [s EXCEPT !.root = s.committed.root, !.bdt = s.committed.bdt,
            !.cache = [i \in Slots |-> EmptySlot],
            !.pmt_meta = [p \in 0 .. P - 2 |-> 0],
            !.meta = NoMeta, !.edition = [hot |-> 0, cold |-> 0],
            !.st = "ok", !.fuse = Unlimited, !.busy = FALSE,
            !.copied = 0, !.due = 0, !.round = FALSE,
            !.window = FALSE, !.gap = s.gap \/ s.window, !.pending = NoPending]

\* The end of a call that left state t.
Finish(t) ==
  IF t.st = "dead"
  THEN /\ ftl' = PoweredOff(t)
       /\ mode' = "off"
       /\ losses' = losses + 1
  ELSE /\ ftl' = [t EXCEPT !.fuse = Unlimited, !.pending = NoPending]
       /\ mode' = IF Running(t) THEN "up" ELSE t.st
       /\ UNCHANGED losses

Fuses == {Unlimited} \cup (IF losses < MaxLosses THEN 0 .. MaxFuse ELSE {})

Call(op(_)) ==
  /\ mode = "up" /\ calls < MaxCalls
  /\ calls' = calls + 1
  /\ \E f \in Fuses : Finish(op([ftl EXCEPT !.fuse = f]))

\* HDI_IsHotPage: a hash of past accesses decides.
Temperature(a) == IF a \in HotPages THEN {"hot", "cold"} ELSE {"cold"}

Write == \E a \in Addrs : \E k \in Temperature(a) :
           Call(LAMBDA s : FTL_Write(s, a, IF s.latest[a] = 1 THEN 2 ELSE 1, k))
Trim == \E a \in TrimPages : \E k \in Temperature(a) : Call(LAMBDA s : FTL_TrimPage(s, a, k))
Read == \E a \in ReadPages : Call(LAMBDA s : FTL_Read(s, a))
FlushAll == Call(FTL_Flush)

PowerLoss ==
  /\ mode = "up" /\ losses < MaxLosses
  /\ ftl' = PoweredOff(ftl)
  /\ mode' = "off"
  /\ losses' = losses + 1
  /\ UNCHANGED calls

\* The next power up.  A page may come back with any value it was given since
\* the last commit.
Mount ==
  /\ mode = "off"
  /\ ftl.gap => MountAfterGap
  /\ \E f \in Fuses :
       LET t == FTL_Init([ftl EXCEPT !.fuse = f, !.pending = Mounting])
           back == [a \in Addrs |-> IF Lookup(t, a) \in t.since[a]
                                    THEN Lookup(t, a) ELSE NONE]
       IN  Finish(IF Running(t) THEN [t EXCEPT !.latest = back] ELSE t)
  /\ UNCHANGED calls

Init ==
  /\ ftl = FTL_Init(Formatted)
  /\ mode = "up"
  /\ calls = 0 /\ losses = 0

Next == Write \/ Trim \/ Read \/ FlushAll \/ PowerLoss \/ Mount

Spec == Init /\ [][Next]_vars
-----------------------------------------------------------------------------
(* Properties *)

\* A page reads back as it was last written or trimmed, whatever commits and
\* reclaims of data and PMT blocks came in between; after a power loss it holds
\* something it was given since the last commit.  Excepted (`gap') is what the
\* code cannot recover from: see `window' and README.md.
ReadsBack ==
  (mode = "up" /\ ~ftl.gap) => \A a \in Addrs : Lookup(ftl, a) = ftl.latest[a]

\* The block dirty table counts exactly the out-of-date pages of every data and
\* PMT block; DATA_Reclaim and pmt_reclaim_blocks rely on it.
Filled(b) ==
  IF \E k \in {"hot", "cold"}, j \in Journals : ftl.root[k][j].block = b
  THEN (CHOOSE at \in {ftl.root[k][j] : k \in {"hot", "cold"}, j \in Journals} :
          at.block = b).page
  ELSE IF b \in JournalBlocks(ftl, "reclaim") THEN 0
  ELSE IF b = ftl.root.pmt_current.block THEN ftl.root.pmt_current.page
  ELSE P - 1

NodePlace(c) == LET n == ftl.root.nodes[c]
                IN  IF n.cached THEN ftl.cache[n.slot].origin ELSE n.at

Valid(b) == IF b \in PmtBlocks
            THEN Cardinality({c \in Clusters : NodePlace(c).block = b})
            ELSE Cardinality({a \in Addrs : PlaceOf(ftl, a).block = b})

DirtyExact ==
  (mode = "up" /\ ~ftl.gap) =>
    \A b \in PmtBlocks \cup DataBlocks :
      b # ftl.root.pmt_reclaim.block => ftl.bdt[b] = Filled(b) - Valid(b)

\* No call trips an assertion of the code, fails or loops forever.
CallsSucceed == ~ftl.gap => mode \in {"up", "off"}

\* No page is programmed twice between erases, across power losses too.
ProgramsOnce == ~ftl.gap => ~ftl.twice

\* ``handle reclaim PLR: start reclaim again'' (FTL_Init): whenever the power
\* fails, the next mount comes to an end.
MountEnds == mode # "hang"
=============================================================================
