------------------------------ MODULE MtdNand -------------------------------
(***************************************************************************)
(* The MTD driver (core/mtd/mtd_api.c) on the simulated NAND                *)
(* (core/mtd/mtd_nand_sim.c), as operators on a record s with the fields    *)
(*   rows     what is programmed: a function on pairs <<chip, row>>         *)
(*   chip, state, row   the latches of the simulated chips                  *)
(*   armed    the test engine: how many status reads are still to come      *)
(*            before each injected failure (MTD_TestBBR arms one of them)   *)
(*   ret      the status the last call returned                             *)
(*   data     the page the last read delivered                              *)
(*   st       "ok", or "nand" when an assertion of the NAND failed          *)
(* A page buffer is a function from sectors to values; the spare area,      *)
(* which FtlPages models, is left out.                                      *)
(***************************************************************************)
EXTENDS Integers, Sequences, SequencesExt, TLC

CONSTANTS
  DIE_PER_CHIP, CHIP_COUNT, PLANE_PER_DIE,
  BLOCK_PER_PLANE, PAGE_PER_PHY_BLOCK,
  SECTOR_PER_PAGE        \* sectors of one plane's page

ASSUME MtdAssumption ==
  /\ DIE_PER_CHIP \in {1, 2} /\ PLANE_PER_DIE \in {1, 2}
  /\ CHIP_COUNT \in Nat \ {0} /\ BLOCK_PER_PLANE \in Nat \ {0}
  /\ PAGE_PER_PHY_BLOCK \in Nat \ {0} /\ SECTOR_PER_PAGE \in Nat \ {0}

P == PAGE_PER_PHY_BLOCK
TOTAL_DIE_COUNT == DIE_PER_CHIP * CHIP_COUNT
CFG_LOG_BLOCK_COUNT == BLOCK_PER_PLANE * TOTAL_DIE_COUNT
SECTOR_PER_MPP == PLANE_PER_DIE * SECTOR_PER_PAGE
MTD_MAX_RETRY_TIMES == 3
Fill(v) == [i \in 0 .. SECTOR_PER_MPP - 1 |-> v]    \* memset of a page

\* The part of a page buffer that goes to one plane.
PlanePart(page, plane) ==
  [i \in 0 .. SECTOR_PER_PAGE - 1 |-> page[plane * SECTOR_PER_PAGE + i]]

\* Wrong variant: the die is added to the block instead of placed above it.
TRANS_PHY_BLOCK_Added(b) == b \div TOTAL_DIE_COUNT + (b % TOTAL_DIE_COUNT)

\* A physical block carries its die in the low bits; a row carries it on top.
TRANS_PHY_BLOCK(b) ==
  (b % TOTAL_DIE_COUNT) * BLOCK_PER_PLANE + b \div TOTAL_DIE_COUNT
MTD_ROW_ADDRESS(b, plane, page) ==
  (TRANS_PHY_BLOCK(b) * PLANE_PER_DIE + plane) * PAGE_PER_PHY_BLOCK + page
MTD_DIE_NUM(b) == b % DIE_PER_CHIP
MTD_CHIP_NUM(b) == (b \div DIE_PER_CHIP) % CHIP_COUNT

Require(s, ok, why) == IF ok THEN s ELSE [s EXCEPT !.st = why]
Return(s, status) == [s EXCEPT !.ret = status]
Good(s) == s.ret = "SUCCESS"
Bad(s) == s.ret = "BADBLOCK"
-----------------------------------------------------------------------------
(* The simulated NAND *)

NAND_Init == [rows |-> <<>>, chip |-> 0, state |-> "read", row |-> 0]

NAND_SelectChip(s, c) == [s EXCEPT !.chip = c]

CommandState ==
  [READ |-> "read", READ_COMMIT |-> "read", RESET |-> "reset",
   PAGE_PROGRAM |-> "program", PROGRAM_FAKE_COMMIT |-> "program",
   PAGE_FAKE_PROGRAM |-> "program", PAGE_PROGRAM_COMMIT |-> "program",
   BLOCK_ERASE |-> "erase", BLOCK_ERASE_COMMIT |-> "erase",
   READ_STATUS |-> "status", READ_STATUS_DIE1 |-> "status",
   READ_STATUS_DIE2 |-> "status"]

NAND_SendCMD(s, cmd) ==
  [s EXCEPT !.state = CommandState[cmd],
            !.row = IF cmd = "RESET" THEN 0 ELSE @]

\* In the erase state the row address alone erases the block.
NAND_SendAddr(s, row) ==
  LET gone == {<<s.chip, row + i>> : i \in 0 .. P - 1}
  IN  [s EXCEPT !.row = row,
                !.rows = IF s.state = "erase"
                           THEN [x \in DOMAIN @ \ gone |-> @[x]] ELSE @]

\* A page is programmed once between two erases of its block.
NAND_SendData(s, part) ==
  Require([s EXCEPT !.rows = (<<s.chip, s.row>> :> part) @@ @],
         s.state = "program" /\ <<s.chip, s.row>> \notin DOMAIN s.rows, "nand")

\* The read of an erased page delivers ones and fails the ECC check, which
\* NAND_ECCStatus then says cannot be corrected.
Ones == -1
NAND_ReceiveData(s, plane) ==
  LET at == <<s.chip, s.row>>
      erased == at \notin DOMAIN s.rows
      got(i) == IF erased THEN Ones ELSE s.rows[at][i % SECTOR_PER_PAGE]
  IN  Require([s EXCEPT
                !.state = "read",
                !.ret = IF erased THEN "FAILURE" ELSE "SUCCESS",
                !.data = [i \in DOMAIN @ |->
                            IF i \div SECTOR_PER_PAGE = plane
                              THEN got(i) ELSE @[i]]],
             s.state \in {"read", "status"}, "nand")

NAND_ReceiveStatus(s) == Require(s, s.state = "status", "nand")
-----------------------------------------------------------------------------
(* The MTD driver *)

Each(s, n, Op(_, _)) ==                  \* for (i = 0; i < n; i++)
  FoldLeft(LAMBDA x, i : Op(x, i - 1), s, [i \in 1 .. n |-> i])

MTD_Reset(s) ==
  Each(s, CHIP_COUNT,
       LAMBDA x, c : NAND_SendCMD(NAND_SelectChip(x, c), "RESET"))

\* MTD_Init: the driver starts anew and no fault is armed.  NAND_Init makes the
\* simulated chip forget its pages; the pages of a real one stay, as here.
MTD_Init(s) ==
  MTD_Reset([s EXCEPT !.chip = NAND_Init.chip, !.state = NAND_Init.state,
                      !.row = NAND_Init.row, !.armed = {}])

\* mtd_readstatus and MTD_ReadStatus.  An injected failure is returned without
\* a word to the chip; the simulated chip itself is never busy and never fails.
DieStatus(b) ==
  IF DIE_PER_CHIP = 1 THEN "READ_STATUS"
  ELSE IF MTD_DIE_NUM(b) = 0 THEN "READ_STATUS_DIE1" ELSE "READ_STATUS_DIE2"

Counted(s) == [s EXCEPT !.armed = {n - 1 : n \in @ \ {0}}]

MTD_ReadStatus(s, b) ==
  IF 0 \in s.armed THEN Return(Counted(s), "BADBLOCK")
  ELSE Return(NAND_ReceiveStatus(
                NAND_SendCMD(NAND_SelectChip(Counted(s), MTD_CHIP_NUM(b)),
                             DieStatus(b))),
              "SUCCESS")

\* The poll ends at once: the simulated chip is never busy.
MTD_WaitReady(s, b) == Require(MTD_ReadStatus(s, b), b < CFG_LOG_BLOCK_COUNT, "assert")

\* One plane after the other, until one fails; three tries, which in the
\* simulated NAND end alike.  The status of the wait is thrown away.
ReadPlane(s, b, page, plane) ==
  IF Good(s)
    THEN NAND_ReceiveData(
           NAND_SendCMD(
             NAND_SendAddr(
               NAND_SendCMD(NAND_SelectChip(s, MTD_CHIP_NUM(b)), "READ"),
               MTD_ROW_ADDRESS(b, plane, page)),
             "READ_COMMIT"),
           plane)
    ELSE s

MTD_Read(s, b, page) ==
  Each(Return(MTD_WaitReady(s, b), "SUCCESS"), PLANE_PER_DIE,
       LAMBDA x, plane : ReadPlane(x, b, page, plane))

ProgramPlane(s, b, page, plane, buffer) ==
  LET start == IF plane = 0
                 THEN NAND_SendCMD(NAND_SelectChip(s, MTD_CHIP_NUM(b)), "PAGE_PROGRAM")
                 ELSE NAND_SendCMD(NAND_SendCMD(s, "PROGRAM_FAKE_COMMIT"),
                                   "PAGE_FAKE_PROGRAM")
  IN  NAND_SendData(NAND_SendAddr(start, MTD_ROW_ADDRESS(b, plane, page)),
                    PlanePart(buffer, plane))

MTD_Program(s, b, page, buffer) ==
  Return(NAND_SendCMD(
           Each(s, PLANE_PER_DIE,
                LAMBDA x, plane : ProgramPlane(x, b, page, plane, buffer)),
           "PAGE_PROGRAM_COMMIT"),
         "SUCCESS")

ErasePlane(s, b, plane) ==
  NAND_SendAddr(
    NAND_SendCMD(IF plane = 0 THEN NAND_SelectChip(s, MTD_CHIP_NUM(b)) ELSE s,
                 "BLOCK_ERASE"),
    MTD_ROW_ADDRESS(b, plane, 0))

EraseOnce(s, b) ==
  MTD_ReadStatus(
    NAND_SendCMD(Each(s, PLANE_PER_DIE, LAMBDA x, plane : ErasePlane(x, b, plane)),
                 "BLOCK_ERASE_COMMIT"), b)

\* Up to three tries.
MTD_Erase(s, b) ==
  Each(Return(s, "BADBLOCK"), MTD_MAX_RETRY_TIMES,
       LAMBDA x, i : IF Good(x) THEN x ELSE EraseOnce(x, b))
=============================================================================
