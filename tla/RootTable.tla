----------------------------- MODULE RootTable -----------------------------
(***************************************************************************)
(* The FTL root table, core/ftl/ftl_root.c.  The table is written to the    *)
(* next page of one of two logical blocks; when the block is full the other *)
(* one is erased and becomes current.  ROOT_Init picks the block whose      *)
(* first page has the higher edition, scans it for the first page it cannot *)
(* read and loads the page before.                                          *)
(*                                                                          *)
(* One step is one UBI call (erase, write), so the power can fail between   *)
(* any two of them and inside a write.  The UBI layer below is taken at its *)
(* word: UBI_Erase is all or nothing, a page that was not written or that   *)
(* was torn by a power loss reads with an error.                            *)
(* UBI_Write moves the block when a program fails; that no block is left to *)
(* move it to, so that UBI_Write fails itself, is not modelled.             *)
(***************************************************************************)
EXTENDS Naturals

CONSTANTS
  P,             \* PAGE_PER_PHY_BLOCK
  Body,          \* what root_table can hold apart from its edition
  Body0,         \* what FTL_Format puts there
  EditionLimit,  \* bound on root_edition (a UINT32 in the code)
  Torn           \* TRUE: a power loss may leave a half programmed page

ASSUME RootAssumption ==
  /\ P \in Nat \ {0}
  /\ Body0 \in Body
  /\ EditionLimit \in Nat \ {0}
  /\ Torn \in BOOLEAN

VARIABLES
  rootFlash,           \* the pages of ROOT_BLOCK0 and ROOT_BLOCK1
  root_table,          \* the table in RAM: its body and its edition
  root_current_block,
  root_current_page,
  root_edition,
  rootPc,              \* where the code is
  acked,               \* history: body of the last ROOT_Commit that returned OK
  attempt              \* history: body of the last ROOT_Commit that was entered

ramVars == <<root_table, root_current_block, root_current_page, root_edition>>
rootVars == <<rootFlash, ramVars, rootPc, acked, attempt>>

Blocks == {0, 1}
Pages == 0 .. P - 1

\* root_current_block ^ 1
Other(b) == 1 - b

ErasedPage == [st |-> "erased", edition |-> 0, body |-> Body0]
TornPage == [st |-> "torn", edition |-> 0, body |-> Body0]
WrittenPage(e, v) == [st |-> "ok", edition |-> e, body |-> v]

PageSet == [st : {"erased", "torn", "ok"}, edition : Nat, body : Body]

\* UBI_Read succeeds.
Readable(b, p) == rootFlash[b][p].st = "ok"

TypeOK ==
  /\ rootFlash \in [Blocks -> [Pages -> PageSet]]
  /\ root_table \in [edition : Nat, body : Body]
  /\ root_current_block \in Blocks
  /\ root_current_page \in 0 .. P
  /\ root_edition \in Nat
  /\ rootPc \in {"idle", "commit", "off"}
  /\ acked \in Body
  /\ attempt \in Body
-----------------------------------------------------------------------------
\* ROOT_Format has run after UBI_Format: one table in page 0 of ROOT_BLOCK0.
Init ==
  /\ rootFlash = [b \in Blocks |-> [p \in Pages |->
                    IF b = 0 /\ p = 0 THEN WrittenPage(0, Body0) ELSE ErasedPage]]
  /\ root_table = [edition |-> 0, body |-> Body0]
  /\ root_current_block = 0
  /\ root_current_page = 1
  /\ root_edition = 1
  /\ rootPc = "idle"
  /\ acked = Body0
  /\ attempt = Body0

\* DATA, PMT, BDT and HDI change root_table in RAM between two commits.
SetBody(v) ==
  /\ rootPc = "idle"
  /\ root_table' = [root_table EXCEPT !.body = v]
  /\ UNCHANGED <<rootFlash, root_current_block, root_current_page,
                 root_edition, rootPc, acked, attempt>>

\* ROOT_Commit is called.
CommitCall ==
  /\ rootPc = "idle"
  /\ root_edition < EditionLimit
  /\ rootPc' = "commit"
  /\ attempt' = root_table.body
  /\ UNCHANGED <<rootFlash, ramVars, acked>>

\* The current block is full: erase the other one and make it current.
CommitErase ==
  /\ rootPc = "commit"
  /\ root_current_page = P
  /\ rootFlash' = [rootFlash EXCEPT ![Other(root_current_block)] =
                                       [p \in Pages |-> ErasedPage]]
  /\ root_current_block' = Other(root_current_block)
  /\ root_current_page' = 0
  /\ UNCHANGED <<root_table, root_edition, rootPc, acked, attempt>>

\* UBI_Erase fails: ROOT_Commit returns without having changed anything.
CommitEraseFails ==
  /\ rootPc = "commit"
  /\ root_current_page = P
  /\ rootPc' = "idle"
  /\ UNCHANGED <<rootFlash, ramVars, acked, attempt>>

\* What programming the current page leaves in it.  Programming a page that
\* a power loss has torn may or may not make it readable.
Programmed ==
  LET old == rootFlash[root_current_block][root_current_page].st
  IN  {WrittenPage(root_edition, root_table.body)}
        \cup (IF old = "torn" THEN {TornPage} ELSE {})

\* The synchronous UBI_Write and the return of ROOT_Commit.
CommitWrite ==
  /\ rootPc = "commit"
  /\ root_current_page < P
  /\ \E pg \in Programmed :
       rootFlash' = [rootFlash EXCEPT
                       ![root_current_block][root_current_page] = pg]
  /\ root_table' = [root_table EXCEPT !.edition = root_edition]
  /\ root_edition' = root_edition + 1
  /\ root_current_page' = root_current_page + 1
  /\ rootPc' = "idle"
  /\ acked' = root_table.body
  /\ UNCHANGED <<root_current_block, attempt>>

\* The contents of RAM are gone; ROOT_Init assigns all of it before it is
\* read again.
RamLost ==
  /\ root_table' = [edition |-> 0, body |-> Body0]
  /\ root_current_block' = 0
  /\ root_current_page' = 0
  /\ root_edition' = 0

\* The power fails between two UBI calls, in any state of the code.
PowerLoss ==
  /\ rootPc \in {"idle", "commit"}
  /\ rootPc' = "off"
  /\ RamLost
  /\ UNCHANGED <<rootFlash, acked, attempt>>

\* The power fails inside UBI_Write: the page is complete or torn.
PowerLossInWrite ==
  /\ rootPc = "commit"
  /\ root_current_page < P
  /\ \E pg \in Programmed \cup (IF Torn THEN {TornPage} ELSE {}) :
       rootFlash' = [rootFlash EXCEPT
                       ![root_current_block][root_current_page] = pg]
  /\ rootPc' = "off"
  /\ RamLost
  /\ UNCHANGED <<acked, attempt>>

\* Wrong variant: the older of the two blocks is chosen.
LatestBlockReversed ==
  IF Readable(0, 0)
    THEN IF Readable(1, 0) /\ ~(rootFlash[0][0].edition < rootFlash[1][0].edition)
           THEN 1 ELSE 0
    ELSE 1

\* ROOT_Init, the choice of the block.
LatestBlock ==
  IF Readable(0, 0)
    THEN IF Readable(1, 0) /\ ~(rootFlash[0][0].edition > rootFlash[1][0].edition)
           THEN 1 ELSE 0
    ELSE 1

\* ROOT_Init, the scan for the first page that cannot be read.
IsFirstUnreadable(b, i) ==
  /\ \A j \in 0 .. i - 1 : Readable(b, j)
  /\ i = P \/ ~Readable(b, i)

\* Wrong variant: the scan ends one page early.
FirstUnreadableEarly(b) == CHOOSE i \in 0 .. P - 1 : IsFirstUnreadable(b, i + 1)

FirstUnreadable(b) == CHOOSE i \in 0 .. P : IsFirstUnreadable(b, i)

\* The page ROOT_Init would load (its precondition: FirstUnreadable > 0).
Recovered == rootFlash[LatestBlock][FirstUnreadable(LatestBlock) - 1]

\* Wrong variant: the edition starts again.
NextEditionReset == 0

NextEdition == Recovered.edition + 1

\* ROOT_Init loads the table and calls ROOT_Commit, to skip one page.  (That
\* there is a page to load is the first conjunct of RootDurable.)
RootInit ==
  /\ rootPc = "off"
  /\ FirstUnreadable(LatestBlock) > 0
  /\ Recovered.edition + 1 < EditionLimit
  /\ root_table' = [edition |-> Recovered.edition, body |-> Recovered.body]
  /\ root_current_block' = LatestBlock
  /\ root_current_page' = FirstUnreadable(LatestBlock)
  /\ root_edition' = NextEdition
  /\ rootPc' = "commit"
  /\ acked' = Recovered.body
  /\ attempt' = Recovered.body
  /\ UNCHANGED rootFlash

Next ==
  \/ \E v \in Body : SetBody(v)
  \/ CommitCall
  \/ CommitErase
  \/ CommitEraseFails
  \/ CommitWrite
  \/ PowerLoss
  \/ PowerLossInWrite
  \/ RootInit

Spec == Init /\ [][Next]_rootVars
-----------------------------------------------------------------------------
(* Properties *)

\* Whatever the moment of the power loss, ROOT_Init would find a table and it
\* is the last one whose ROOT_Commit returned success or the one being
\* committed; with no commit running or interrupted since, it is the former.
RootDurable ==
  /\ FirstUnreadable(LatestBlock) > 0
  /\ Recovered.body \in {acked, attempt}
  /\ rootPc = "idle" => Recovered.body = acked

\* ROOT_Commit programs only pages that were erased (the simulated NAND,
\* core/mtd/mtd_nand_sim.c, treats anything else as a fatal error).
ProgramsErasedPage ==
  rootPc = "commit" /\ root_current_page < P
    => rootFlash[root_current_block][root_current_page].st = "erased"

\* What a restart would load never goes back to an earlier edition, whatever
\* erases, commits, power losses and restarts happen in between.
NoRollback ==
  [][Recovered.edition <= Recovered'.edition]_rootVars

\* The two-block scheme implements an atomic, durable cell.
Cell == INSTANCE DurableCell WITH
          Value <- Body,
          ram <- IF rootPc = "off" THEN Recovered.body ELSE root_table.body,
          durable <- Recovered.body,
          up <- rootPc # "off"

ImplementsCell == Cell!Spec
=============================================================================
