------------------------------- MODULE UsbMsc -------------------------------
(***************************************************************************)
(* The mass storage class (usb/mscuser.c): what the interrupts of endpoint 1 *)
(* do.  Reads and writes of ONFM are only queued here, on ut_list; the main  *)
(* loop (UsbDevice) takes them off.                                          *)
(*                                                                          *)
(* Fields of the device state: stage (BulkStage), cbw, csw, Offset, Length,  *)
(* BulkBuf, BulkLen, rdlen (Read_BulkLen), merge (merge_stage), mcount,      *)
(* ut (ut_list from ut_pop to ut_push), used (pb_pool_used), halt and keep   *)
(* (USB_EndPointHalt, USB_EndPointStall), failed (an ASSERT does not hold).  *)
(***************************************************************************)
EXTENDS UsbDcd, BufferPool

CONSTANTS
  SECTOR_PER_MPP,
  MSC_BlockCount       \* ONFM_Capacity()

ASSUME MscAssumption ==
  /\ SECTOR_PER_MPP \in Nat \ {0}
  /\ MSC_BlockCount \in Nat \ {0} /\ MSC_BlockCount % SECTOR_PER_MPP = 0

MSC_BlockSize == 2                   \* units of a sector
CBW_SIZE == 1
MPP_SIZE == SECTOR_PER_MPP * MSC_BlockSize
UT_LIST_SIZE == BUFFER_COUNT * 2
Reads == {"READ10", "READ12"}
Writes == {"WRITE10", "WRITE12"}

PageStart(s) == (s \div SECTOR_PER_MPP) * SECTOR_PER_MPP
MinOf(a, b) == IF a <= b THEN a ELSE b

\* Sectors from Offset on in its page, and no more than Length.
InPage(d) == MinOf(SECTOR_PER_MPP - (d.Offset % SECTOR_PER_MPP), d.Length)

MSC_SetStallEP(d, e) == [USB_SetStallEP(d, e) EXCEPT !.halt = @ \cup {e}]
StallFor(d) == MSC_SetStallEP(d, IF d.cbw.in THEN MSC_EP_IN ELSE MSC_EP_OUT)

MSC_SetCSW(d) ==
  [USB_WriteEP(d, MSC_EP_IN, <<"csw", 0>>, 0, 1)
     EXCEPT !.csw.sig = TRUE, !.stage = "CSW"]

\* Nothing is buffered, merged or queued.
MSC_Init(d) ==
  [d EXCEPT !.BulkBuf = NULL, !.rdlen = 0, !.merge = "NONE", !.mcount = 0, !.ut = <<>>]

EndWith(d, status) == MSC_SetCSW([d EXCEPT !.csw.status = status])

\* MSC_Reset: only the stage.  The queue, a merge and the endpoints go on.
MSC_Reset(d) == [d EXCEPT !.keep = {}, !.csw.sig = FALSE, !.stage = "CBW"]

\* A task at the end of ut_list, which must not become full.
Task(type, offset, length, buffer) ==
  [type |-> type, offset |-> offset, length |-> length, buffer |-> buffer]
PushTask(d, task) ==
  [d EXCEPT !.ut = Append(@, task),
            !.failed = @ \/ Len(d.ut) + 1 = UT_LIST_SIZE]
-----------------------------------------------------------------------------
(* The data phases *)

\* (mutant) Read_BulkLen keeps the length of the page before.
QueueReadKeep(d, n) ==
  [PushTask(d, Task("READ", d.Offset, n, NULL))
     EXCEPT !.Offset = @ + n, !.Length = @ - n, !.csw.residue = @ - n * MSC_BlockSize]

\* The read of the rest of a page is queued; the IN NAK interrupt sends it.
QueueRead(d, n) ==
  [PushTask(d, Task("READ", d.Offset, n, NULL))
     EXCEPT !.rdlen = 0, !.Offset = @ + n, !.Length = @ - n,
            !.csw.residue = @ - n * MSC_BlockSize]

MSC_MemoryRead(d) ==
  IF d.Offset + InPage(d) > MSC_BlockCount
  THEN QueueRead([d EXCEPT !.stage = "DATA_IN_LAST_STALL"], MSC_BlockCount - d.Offset)
  ELSE QueueRead(d, InPage(d))

QueueWrite(d, n) ==
  [PushTask(d, Task("WRITE", PageStart(d.Offset), SECTOR_PER_MPP, d.BulkBuf))
     EXCEPT !.Offset = @ + n, !.Length = @ - n,
            !.csw.residue = @ - d.BulkLen]

\* (mutant) The status is sent only after a transfer past the end.
EndWritePastEnd(d) == IF d.stage = "CSW" THEN EndWith(d, "passed") ELSE d

EndWrite(d) == IF d.Length = 0 \/ d.stage = "CSW" THEN EndWith(d, "passed") ELSE d

\* The page that has arrived is queued; past the last sector the transfer ends.
MSC_MemoryWrite(d) ==
  LET n == d.BulkLen \div MSC_BlockSize
  IN  IF d.BulkLen % MSC_BlockSize # 0 THEN d
      ELSE IF d.Offset + n > MSC_BlockCount
      THEN EndWrite(QueueWrite(MSC_SetStallEP(
             [d EXCEPT !.BulkLen = (MSC_BlockCount - d.Offset) * MSC_BlockSize,
                       !.stage = "CSW"], MSC_EP_OUT), n))
      ELSE EndWrite(QueueWrite(d, n))

MSC_MemoryVerify(d) ==
  EndWith([d EXCEPT !.Offset = @ + d.Length, !.Length = 0, !.csw.residue = 0], "passed")

\* MSC_RWSetup ends the command unless the lengths agree (RWSetupTrue: it returns
\* TRUE).
RWSetupTrue(d) == d.cbw.len # 0 /\ d.cbw.len = d.cbw.n * MSC_BlockSize
Located(d) == [d EXCEPT !.Offset = d.cbw.off, !.Length = d.cbw.n]
MSC_RWSetup(d) ==
  IF RWSetupTrue(d) THEN Located(d)
  ELSE EndWith(IF d.cbw.len = 0 THEN Located(d) ELSE StallFor(Located(d)), "failed")

\* The command asked for the other direction.
WrongWay(d) == EndWith(StallFor(d), "phase")

StartRead(d) ==
  IF ~RWSetupTrue(d) THEN MSC_RWSetup(d)
  ELSE IF ~d.cbw.in THEN WrongWay(MSC_RWSetup(d))
  ELSE MSC_MemoryRead([MSC_RWSetup(d) EXCEPT !.stage = "DATA_IN"])
StartWrite(d) ==
  IF ~RWSetupTrue(d) THEN MSC_RWSetup(d)
  ELSE IF d.cbw.in THEN WrongWay(MSC_RWSetup(d))
  ELSE [MSC_RWSetup(d) EXCEPT !.stage = "DATA_OUT"]

MSC_TestUnitReady(d) == EndWith(IF d.cbw.len # 0 THEN StallFor(d) ELSE d, "passed")

\* MSC_RequestSense, _Inquiry, _ModeSense6, _ModeSense10, _ReadCapacity and
\* _ReadFormatCapacity: DataIn_Format, the answer, DataIn_Transfer.
DataIn_Transfer(d) ==
  [USB_WriteEP(d, MSC_EP_IN, <<"cmd", 0>>, 0, MinOf(1, d.cbw.len))
     EXCEPT !.BulkLen = MinOf(1, d.cbw.len), !.stage = "DATA_IN_LAST",
            !.csw.residue = 0, !.csw.status = "passed"]

DataInCommand(d) ==
  IF d.cbw.len = 0 THEN EndWith(d, "phase")
  ELSE IF ~d.cbw.in THEN WrongWay(d)
  ELSE DataIn_Transfer(d)

\* An invalid CBW stalls both endpoints until a reset.
InvalidCBW(d) ==
  [MSC_SetStallEP(MSC_SetStallEP(d, MSC_EP_IN), MSC_EP_OUT)
     EXCEPT !.keep = @ \cup {MSC_EP_IN, MSC_EP_OUT}, !.stage = "ERROR"]

Command(d) ==
  CASE ~d.cbw.ok -> EndWith(d, "failed")
    [] d.cbw.op = "TEST_UNIT_READY" -> MSC_TestUnitReady(d)
    [] d.cbw.op = "INQUIRY" -> DataInCommand(d)
    [] d.cbw.op \in Reads -> StartRead(d)
    [] d.cbw.op \in Writes -> StartWrite(d)
    [] d.cbw.op = "VERIFY10" /\ ~d.cbw.bytchk -> EndWith(d, "passed")
    [] d.cbw.op = "VERIFY10" -> StartWrite(d)
    [] OTHER -> EndWith(d, "failed")

MSC_GetCBW(d) ==
  IF d.BulkLen = CBW_SIZE /\ d.cbw.sig
  THEN Command([d EXCEPT !.csw.tag = d.cbw.tag, !.csw.residue = d.cbw.len])
  ELSE InvalidCBW(d)
-----------------------------------------------------------------------------
(* The four events of endpoint 1 *)

\* Read_BulkLen tells that the main loop has filled Read_BulkBuf.
MSC_BulkInNak(d) ==
  LET last == d.Length = 0
      out == USB_WriteEP(d, MSC_EP_IN, <<"read", 0>>, 0, d.rdlen)
  IN  IF d.rdlen = 0 THEN d
      ELSE [out EXCEPT !.stage = IF last THEN "DATA_IN_LAST" ELSE @,
                       !.csw.status = IF last \/ d.stage # "DATA_IN" THEN "passed" ELSE @]

MSC_BulkIn(d) ==
  CASE d.stage = "DATA_IN" /\ d.cbw.op \in Reads -> MSC_MemoryRead(d)
    [] d.stage = "DATA_IN_LAST" -> MSC_SetCSW(d)
    [] d.stage = "DATA_IN_LAST_STALL" -> MSC_SetCSW(MSC_SetStallEP(d, MSC_EP_IN))
    [] d.stage = "CSW" -> [d EXCEPT !.stage = "CBW"]
    [] OTHER -> d

\* (mutant) The rest of a page that is written in part is not read back.
NextPageUnmerged(d) ==
  IF d.BulkBuf = NULL THEN d
  ELSE USB_ReadReqEP(d, MSC_EP_OUT, <<"pool", d.BulkBuf>>, d.Offset % SECTOR_PER_MPP,
                     InPage(d) * MSC_BlockSize)

\* A buffer for the next page: a part of a page is first read back, by a task.
NextPage(d) ==
  IF d.BulkBuf = NULL THEN d
  ELSE IF InPage(d) # SECTOR_PER_MPP
  THEN [PushTask(d, Task("MERGE", PageStart(d.Offset), SECTOR_PER_MPP, d.BulkBuf))
          EXCEPT !.merge = "START", !.mcount = InPage(d)]
  ELSE USB_ReadReqEP(d, MSC_EP_OUT, <<"pool", d.BulkBuf>>, 0, MPP_SIZE)

\* (mutant) A NAK while the page is read back takes another buffer.
MSC_BulkOutNakEager(d) ==
  CASE d.stage = "DATA_OUT" /\ d.merge # "FINISH" ->
         NextPage([d EXCEPT !.BulkBuf = BUF_Allocate(d.used),
                            !.used = @ \cup ({BUF_Allocate(d.used)} \ {NULL})])
    [] d.stage = "DATA_OUT" ->
         [USB_ReadReqEP(d, MSC_EP_OUT, <<"pool", d.BulkBuf>>,
                        d.Offset % SECTOR_PER_MPP, d.mcount * MSC_BlockSize)
            EXCEPT !.merge = "NONE", !.mcount = 0]
    [] d.stage = "CBW" -> USB_ReadReqEP(d, MSC_EP_OUT, <<"cbw", 0>>, 0, CBW_SIZE)
    [] OTHER -> d

MSC_BulkOutNak(d) ==
  CASE d.stage = "DATA_OUT" /\ d.merge = "NONE" ->
         NextPage([d EXCEPT !.BulkBuf = BUF_Allocate(d.used),
                            !.used = @ \cup ({BUF_Allocate(d.used)} \ {NULL})])
    [] d.stage = "DATA_OUT" /\ d.merge = "FINISH" ->
         [USB_ReadReqEP(d, MSC_EP_OUT, <<"pool", d.BulkBuf>>,
                        d.Offset % SECTOR_PER_MPP, d.mcount * MSC_BlockSize)
            EXCEPT !.merge = "NONE", !.mcount = 0]
    [] d.stage = "CBW" -> USB_ReadReqEP(d, MSC_EP_OUT, <<"cbw", 0>>, 0, CBW_SIZE)
    [] OTHER -> d

DataOut(d) ==
  CASE d.stage = "CBW" -> MSC_GetCBW(d)
    [] d.stage = "DATA_OUT" /\ d.cbw.op \in Writes -> MSC_MemoryWrite(d)
    [] d.stage = "DATA_OUT" /\ d.cbw.op = "VERIFY10" -> MSC_MemoryVerify(d)
    [] d.stage \in {"DATA_OUT", "CSW"} -> d
    [] OTHER -> EndWith(MSC_SetStallEP(d, MSC_EP_OUT), "phase")

MSC_BulkOut(d) == DataOut([d EXCEPT !.BulkLen = USB_ReadEP(d, MSC_EP_OUT)])

USB_EndPoint1(d, event) ==
  CASE event = "OUT_NAK" -> MSC_BulkOutNak(d)
    [] event = "OUT" -> MSC_BulkOut(d)
    [] event = "IN_NAK" -> MSC_BulkInNak(d)
    [] event = "IN" -> MSC_BulkIn(d)
=============================================================================
