----------------------------- MODULE AnchorRing -----------------------------
(***************************************************************************)
(* The anchor table, core/ubi/ubi_anchor.c: the first thing UBI_Init reads, *)
(* at a place that cannot move.  ANCHOR_Update writes it to the next page   *)
(* of one of a few reserved blocks; a full or bad block is left for the     *)
(* next good one of the ring, which is written before the previous one is   *)
(* erased.  ANCHOR_Init may therefore find two blocks with tables and tells *)
(* them apart by the field previous_anchor_block.                           *)
(*                                                                          *)
(* One step is one NAND operation; the power can fail between any two.      *)
(***************************************************************************)
EXTENDS Integers, Sequences, FiniteSets

CONSTANTS
  P,            \* PAGE_PER_PHY_BLOCK
  First, Last,  \* ANCHOR_FIRST_BLOCK, ANCHOR_LAST_BLOCK
  Body,         \* what anchor_table can hold besides the fields modelled
  Body0,        \* what UBI_Format puts there
  Campaigns     \* what a behaviour may meet: the numbers of updates, of power
                \* losses and of NAND operations that fail, and their kinds

ASSUME AnchorAssumption ==
  /\ P \in Nat \ {0}
  /\ First \in Nat /\ Last \in Nat /\ First < Last
  /\ Body0 \in Body
  /\ Campaigns \subseteq [updates : Nat, losses : Nat, bad : Nat,
                          kinds : SUBSET {"find", "program", "previous"}]

VARIABLES
  flash,               \* flash[b]: the pages programmed in anchor block b
  anchor_table,        \* body, previous_anchor_block, bad_block_table
  anchor_block,
  anchor_next_page,
  anchor_reclaimed,    \* local of ANCHOR_Update
  next_block,          \* local of anchor_find_next_block
  pc,
  acked,               \* history: body of the last successful ANCHOR_Update
  campaign,            \* what the behaviour may still meet
  unsound              \* history: a program or the erase of an old block failed

vars == <<flash, anchor_table, anchor_block, anchor_next_page, anchor_reclaimed,
          next_block, pc, acked, campaign, unsound>>

INVALID_BLOCK == -1
Blocks == First .. Last

Table(v, prev, bad) == [body |-> v, previous_anchor_block |-> prev, bad |-> bad]
BadPage == [bad_page |-> TRUE]        \* the program failed: unreadable
IsTable(pg) == pg # BadPage
-----------------------------------------------------------------------------
\* UBI_Format: ANCHOR_Format erases the ring and writes the first table.
Init ==
  /\ flash = [b \in Blocks |->
                IF b = First THEN <<Table(Body0, INVALID_BLOCK, {})>> ELSE <<>>]
  /\ anchor_table = Table(Body0, INVALID_BLOCK, {})
  /\ anchor_block = First
  /\ anchor_next_page = 1
  /\ anchor_reclaimed = FALSE
  /\ next_block = First
  /\ pc = "idle"
  /\ acked = Body0
  /\ campaign \in Campaigns
  /\ unsound = FALSE

history == <<campaign, unsound>>

\* A NAND operation of kind k may fail.
Failing(k) ==
  /\ k \in campaign.kinds
  /\ campaign.bad > 0
  /\ campaign' = [campaign EXCEPT !.bad = @ - 1]
  /\ unsound' = (unsound \/ k # "find")

\* ANCHOR_IndexReclaim, UBI_SWL or ANCHOR_LogBadBlock change the table, and
\* ANCHOR_Update is called.
Update(v) ==
  /\ pc = "idle"
  /\ campaign.updates > 0
  /\ campaign' = [campaign EXCEPT !.updates = @ - 1]
  /\ anchor_table' = [anchor_table EXCEPT !.body = v]
  /\ anchor_reclaimed' = FALSE
  /\ pc' = "loop"
  /\ UNCHANGED <<flash, anchor_block, anchor_next_page, next_block, acked,
                 unsound>>

\* Wrong variant: the new block does not name its predecessor.
ReclaimUnlinked ==
  /\ pc = "loop"
  /\ anchor_next_page = P
  /\ anchor_table' = [anchor_table EXCEPT !.previous_anchor_block = @]
  /\ next_block' = anchor_block
  /\ pc' = "find"
  /\ UNCHANGED <<flash, anchor_block, anchor_next_page, anchor_reclaimed, acked,
                 history>>

\* The block is full: look for the next one.
Reclaim ==
  /\ pc = "loop"
  /\ anchor_next_page = P
  /\ anchor_table' = [anchor_table EXCEPT !.previous_anchor_block = anchor_block]
  /\ next_block' = anchor_block
  /\ pc' = "find"
  /\ UNCHANGED <<flash, anchor_block, anchor_next_page, anchor_reclaimed, acked,
                 history>>

Following(b) == IF b + 1 > Last THEN First ELSE b + 1

\* anchor_find_next_block leaves the loop with block n erased.
Found(n) ==
  IF n # anchor_block
    THEN /\ anchor_block' = n
         /\ anchor_next_page' = 0
         /\ anchor_reclaimed' = TRUE
         /\ pc' = "loop"
    ELSE /\ pc' = "idle"
         /\ UNCHANGED <<anchor_block, anchor_next_page, anchor_reclaimed>>

\* It goes on after block n, or ANCHOR_Update fails: the ring has been tried.
NotFound(n) ==
  /\ pc' = IF n # anchor_block THEN "find" ELSE "idle"
  /\ UNCHANGED <<flash, anchor_block, anchor_next_page, anchor_reclaimed>>

\* ANCHOR_IsBadBlock.
IsBadBlock(n) == n \in anchor_table.bad

\* ANCHOR_LogBadBlock.
LogBadBlock(t, n) == [t EXCEPT !.bad = @ \cup {n}]

\* anchor_find_next_block, one round: the next block is skipped if it is known
\* to be bad, else erased, and logged if that fails.
FindNext ==
  LET n == Following(next_block)
  IN  /\ pc = "find"
      /\ next_block' = n
      /\ \/ /\ IsBadBlock(n)
            /\ NotFound(n)
            /\ UNCHANGED <<anchor_table, history>>
         \/ /\ ~IsBadBlock(n)
            /\ flash' = [flash EXCEPT ![n] = <<>>]
            /\ Found(n)
            /\ UNCHANGED <<anchor_table, history>>
         \/ /\ ~IsBadBlock(n)
            /\ Failing("find")
            /\ anchor_table' = LogBadBlock(anchor_table, n)
            /\ NotFound(n)
      /\ UNCHANGED acked

\* MTD_Program of the next page of a block.
Programmed(pages, pg) == Append(SubSeq(pages, 1, anchor_next_page), pg)

\* TABLE_Write succeeds; the previous block is erased if this one is new.
Write ==
  /\ pc = "loop"
  /\ anchor_next_page < P
  /\ flash' = [flash EXCEPT ![anchor_block] = Programmed(@, anchor_table)]
  /\ IF anchor_reclaimed
       THEN /\ pc' = "erasePrevious"
            /\ UNCHANGED <<anchor_next_page, acked>>
       ELSE /\ pc' = "idle"
            /\ anchor_next_page' = anchor_next_page + 1
            /\ acked' = anchor_table.body
  /\ UNCHANGED <<anchor_table, anchor_block, anchor_reclaimed, next_block, history>>

\* TABLE_Write fails: the loop treats the block as full.
WriteBad ==
  /\ pc = "loop"
  /\ anchor_next_page < P
  /\ Failing("program")
  /\ flash' = [flash EXCEPT ![anchor_block] = Programmed(@, BadPage)]
  /\ anchor_next_page' = P
  /\ UNCHANGED <<anchor_table, anchor_block, anchor_reclaimed, next_block, pc, acked>>

\* Wrong variant: the block just written is erased.
EraseCurrent ==
  /\ pc = "erasePrevious"
  /\ \/ /\ flash' = [flash EXCEPT ![anchor_block] = <<>>]
        /\ UNCHANGED history
     \/ Failing("previous") /\ UNCHANGED flash
  /\ anchor_next_page' = anchor_next_page + 1
  /\ pc' = "idle"
  /\ acked' = anchor_table.body
  /\ UNCHANGED <<anchor_table, anchor_block, anchor_reclaimed, next_block>>

\* The previous block is erased, whatever MTD_Erase returns.
ErasePrevious ==
  /\ pc = "erasePrevious"
  /\ \/ /\ flash' = [flash EXCEPT ![anchor_table.previous_anchor_block] = <<>>]
        /\ UNCHANGED history
     \/ Failing("previous") /\ UNCHANGED flash
  /\ anchor_next_page' = anchor_next_page + 1
  /\ pc' = "idle"
  /\ acked' = anchor_table.body
  /\ UNCHANGED <<anchor_table, anchor_block, anchor_reclaimed, next_block>>

\* The power fails; RAM is lost.
PowerLoss ==
  /\ pc # "off"
  /\ campaign.losses > 0
  /\ campaign' = [campaign EXCEPT !.losses = @ - 1]
  /\ pc' = "off"
  /\ anchor_table' = Table(Body0, INVALID_BLOCK, {})
  /\ anchor_block' = First
  /\ anchor_next_page' = 0
  /\ anchor_reclaimed' = FALSE
  /\ next_block' = First
  /\ UNCHANGED <<flash, acked, unsound>>
-----------------------------------------------------------------------------
(* ANCHOR_Init *)

\* TABLE_Read of block b: the last page that can be read.
LastPage(b) ==
  LET n == Len(flash[b]) IN IF n > 0 /\ ~IsTable(flash[b][n]) THEN n - 1 ELSE n
Written == {b \in Blocks : LastPage(b) > 0}
LastTable(b) == flash[b][LastPage(b)]

LowestOf(S) == CHOOSE b \in S : \A c \in S : b <= c
Found1 == LowestOf(Written)
Found2 == LowestOf(Written \ {Found1})
IsPair == Cardinality(Written) > 1

\* Wrong variant: the successor is taken for the predecessor.
FirstIsNewerReversed == LastTable(Found2).previous_anchor_block = Found1

\* The first block found was written after the second one.
FirstIsNewer == LastTable(Found1).previous_anchor_block = Found2

CurrentBlock == IF IsPair /\ ~FirstIsNewer THEN Found2 ELSE Found1
OldBlock == IF FirstIsNewer THEN Found2 ELSE LastTable(Found2).previous_anchor_block

\* anchor_table after the scan: the table read last.
Loaded == LastTable(IF IsPair THEN Found2 ELSE Found1)

\* Wrong variant: the page just read is taken for the next page.
NextPageSame == LastPage(CurrentBlock) - 1

NextPage == LastPage(CurrentBlock)

\* The scan, the erase of the out of date block, and what is left in RAM.
AnchorInit ==
  /\ pc = "off"
  /\ Written # {}
  /\ anchor_block' = CurrentBlock
  /\ anchor_next_page' = NextPage
  /\ IF IsPair /\ OldBlock # INVALID_BLOCK
       THEN \/ /\ flash' = [flash EXCEPT ![OldBlock] = <<>>]
               /\ anchor_table' = Loaded
               /\ UNCHANGED history
            \/ /\ Failing("previous")
               /\ anchor_table' = LogBadBlock(Loaded, OldBlock)
               /\ UNCHANGED flash
       ELSE anchor_table' = Loaded /\ UNCHANGED <<flash, history>>
  /\ acked' = Loaded.body
  /\ pc' = "idle"
  /\ UNCHANGED <<anchor_reclaimed, next_block>>

Next ==
  \/ \E v \in Body : Update(v)
  \/ Reclaim \/ FindNext \/ Write \/ WriteBad \/ ErasePrevious
  \/ PowerLoss
  \/ AnchorInit

Spec == Init /\ [][Next]_vars
-----------------------------------------------------------------------------
(* Properties *)

\* A block besides the one in use is not known to be bad.  When there is none,
\* anchor_find_next_block comes back to the block in use and erases it.
OthersLeft == \E b \in (First .. Last) \ {anchor_block} : ~IsBadBlock(b)

\* Whatever the moment of the power loss, ANCHOR_Init finds a table and it is
\* the last one whose ANCHOR_Update returned success or the one being written;
\* between two updates it is the former.  Blocks whose erase fails while the
\* next one is looked for do not matter until they are all but the one in use;
\* a failed program or a failed erase of the out of date block does matter (the
\* TODO of ANCHOR_Init).
AnchorDurable ==
  ~unsound /\ OthersLeft =>
    /\ Written # {}
    /\ pc \in {"loop", "find", "erasePrevious"} =>
         Loaded.body \in {acked, anchor_table.body}
    /\ pc = "idle" => Loaded.body = acked

\* The assertion of ANCHOR_Init: of two blocks with tables one names the other
\* as its predecessor.
PairLinked ==
  ~unsound /\ IsPair /\ ~FirstIsNewer =>
    LastTable(Found2).previous_anchor_block = Found1

\* Between two updates the block being written holds the last acknowledged
\* table, as long as another block of the ring is good: programs and erases that
\* fail, in the block in use or in the next ones, do not make ANCHOR_Update lose
\* it.  When all others are bad the code erases the block in use, and nothing is
\* claimed.
AnchorKept ==
  pc = "idle" /\ OthersLeft => LastPage(anchor_block) > 0 /\ LastTable(anchor_block).body = acked

\* ANCHOR_Update programs the first page after the programmed ones.
AnchorProgramsErased ==
  pc = "loop" /\ anchor_next_page < P => anchor_next_page = Len(flash[anchor_block])
=============================================================================
