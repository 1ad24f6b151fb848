------------------------------ MODULE UsbDevice ------------------------------
(***************************************************************************)
(* The device as the host sees it: the USB interrupt (UsbCore, UsbMsc), the  *)
(* main loop (usb_user_task_loop of main.c) that it interrupts at any point, *)
(* and a host that sends commands by the bulk-only protocol and control      *)
(* requests.                                                                 *)
(*                                                                          *)
(* The interrupt routine stops the main loop, but not the controller: it is  *)
(* split where a token of the host may come between two of its accesses to   *)
(* the registers.  The main loop is three steps per task: the test, the call *)
(* of ONFM, and what follows the call.  Every token of the host is a step    *)
(* and may find the device at any point.                                     *)
(*                                                                          *)
(* `spoilt' marks what the code does not recover from: a reset while a       *)
(* command is under way, VERIFY with data, which keeps its buffer, and an    *)
(* endpoint that is primed before what it received has been served.          *)
(* `upset' marks what a host that is faster than the routine brings about,   *)
(* until the device is reset:                                                *)
(*   lost    a transfer ended while the bit of the one before it was set,    *)
(*           and the routine clears the bit for both;                        *)
(*   again   the handler of a NAK sent a page that had been sent before;     *)
(*   stale   CLEAR_FEATURE sent a status for which no command waits.         *)
(***************************************************************************)
EXTENDS UsbCore

CONSTANTS
  Campaigns            \* what the host does, see Init

VARIABLES
  dev,      \* registers and RAM that the interrupt uses
  isr,      \* USB_ISR: pc; val (of endptnak), left (endpoints to serve), naki (of disr)
  loop,     \* the main loop: pc
  disk,     \* the content of the sectors
  held,     \* the pool buffer that UBI still holds (dice_hold)
  host,     \* the host's side of the bulk pipes
  ctl,      \* the host's side of the control pipe
  plan,     \* the campaign
  spoilt,
  upset     \* "lost", "again", "stale"

vars == <<dev, isr, loop, disk, held, host, ctl, plan, spoilt, upset>>

Sectors == 0 .. MSC_BlockCount + SECTOR_PER_MPP - 1      \* with the spare page
InMpp == 0 .. SECTOR_PER_MPP - 1

NoCommand == [op |-> "none", sig |-> TRUE, ok |-> TRUE, bytchk |-> FALSE,
              off |-> 0, n |-> 0, len |-> 0, in |-> FALSE, tag |-> 0]

\* RAM and registers after USB_Init and ONFM_Mount (BUF_Init keeps one buffer).
PowerOn ==
  [ep |-> [e \in Endpoints |-> IdleEndpoint], setup |-> NoPacket, hwaddr |-> 0,
   reset |-> FALSE, pkt |-> NoPacket, src |-> SrcAt(<<"none", 0>>, 0), count |-> 0,
   wakeup |-> FALSE, selfpowered |-> FALSE, address |-> 0, newaddr |-> NoAddress,
   config |-> 0, alt |-> 0, mask |-> {}, halt |-> {}, keep |-> {}, ret |-> FALSE,
   stage |-> "CBW", cbw |-> NoCommand,
   csw |-> [sig |-> FALSE, tag |-> 0, residue |-> 0, status |-> "passed"],
   Offset |-> 0, Length |-> 0, BulkBuf |-> NULL, BulkLen |-> 0, rdlen |-> 0,
   readbuf |-> [i \in InMpp |-> 0], merge |-> "NONE", mcount |-> 0, ut |-> <<>>,
   used |-> {BUF_Allocate({})}, mem |-> [b \in Buffers |-> [i \in InMpp |-> 0]],
   failed |-> FALSE]

\* MSC_Init, USB_Connect and the reset with which the host greets the device.
Attached == USB_ResetCore(USB_Reset(MSC_Init(PowerOn)))
Configured == ConfigureAll(Unconfigure(Attached, ConfigurationValue))
-----------------------------------------------------------------------------
(* The interrupt *)

\* Something of a command is left in the device.
UnderWay(d) ==
  \/ d.ut # <<>> \/ d.merge # "NONE"
  \/ d.ep["in1"].primed \/ d.ep["in1"].complete \/ d.ep["out1"].complete
  \/ d.ep["out1"].primed /\ d.ep["out1"].td.what # <<"cbw", 0>>

Resetting(d) ==
  \/ d.reset /\ (UnderWay(d) \/ d.stage # "CBW")
  \/ d.setup # NoPacket /\ d.setup.req = "MSC_RESET" /\ UnderWay(d)

\* MSC_RESET or the reset of the bus.
BotReset(d) == d.reset \/ (d.setup # NoPacket /\ d.setup.req = "MSC_RESET")

\* A CLEAR_FEATURE sends a status that no command waits for.
StaleStatus(d) ==
  /\ ~d.reset /\ d.setup # NoPacket /\ d.setup.req = "CLEAR_FEATURE" /\ d.setup.index = MSC_EP_IN
  /\ MSC_EP_IN \in d.halt \ d.keep /\ d.csw.sig /\ d.stage # "CSW"

Away == [pc |-> "away", val |-> {}, left |-> {}, naki |-> FALSE]
Quiet == isr = Away /\ ~InterruptPending(dev)

\* What is left to do: completions, then the NAKs if disr announced any.
Going(left, naki) ==
  CASE left # {} -> [Away EXCEPT !.pc = "handler", !.left = left, !.naki = naki]
    [] left = {} /\ naki -> [Away EXCEPT !.pc = "nak"]
    [] OTHER -> Away

\* usbsts and endptsetupstat are read.  Without a SETUP packet endptcomplete is
\* read in the same step: a token between the two might as well have come before.
IsrEntry ==
  /\ isr = Away /\ InterruptPending(dev)
  /\ spoilt' = (spoilt \/ Resetting(dev))
  /\ upset' = (IF BotReset(dev) THEN {} ELSE upset)
               \cup (IF StaleStatus(dev) THEN {"stale"} ELSE {})
  /\ \/ /\ dev.reset
        /\ dev' = IsrReset(dev)
        /\ isr' = Away
     \/ /\ ~dev.reset /\ dev.setup # NoPacket
        /\ dev' = IsrSetup(dev)
        /\ isr' = [Away EXCEPT !.pc = "take", !.naki = NakPending(dev) # {}]
     \/ /\ ~dev.reset /\ dev.setup = NoPacket
        /\ dev' = IsrTake(dev)
        /\ isr' = Going(CompletePending(dev), NakPending(dev) # {})
  /\ UNCHANGED <<loop, disk, held, host, ctl, plan>>

\* endptcomplete is read after the SETUP packet has been served.
IsrTakeStep ==
  /\ isr.pc = "take"
  /\ dev' = IsrTake(dev)
  /\ isr' = Going(CompletePending(dev), isr.naki)
  /\ UNCHANGED <<loop, disk, held, host, ctl, plan, spoilt, upset>>

\* One completion.  Its bit is cleared in the same step, unless the handler has
\* primed the endpoint, for only then may another transfer end in between.
IsrHandlerStep ==
  /\ isr.pc = "handler"
  /\ LET e == FirstOf(isr.left)
         after == IsrHandler(dev, e)
     IN  IF after.ep[e].primed
         THEN dev' = after /\ isr' = [isr EXCEPT !.pc = "clear"]
         ELSE dev' = IsrClear(after, e) /\ isr' = Going(isr.left \ {e}, isr.naki)
  /\ UNCHANGED <<loop, disk, held, host, ctl, plan, spoilt, upset>>

IsrClearStep ==
  /\ isr.pc = "clear"
  /\ dev' = IsrClear(dev, FirstOf(isr.left))
  /\ isr' = Going(isr.left \ {FirstOf(isr.left)}, isr.naki)
  /\ UNCHANGED <<loop, disk, held, host, ctl, plan, spoilt, upset>>

\* MSC_BulkInNak sends a page that has been sent before.
SendsAgain(e) ==
  e = "in1" /\ dev.rdlen # 0 /\ dev.stage \notin {"DATA_IN", "DATA_IN_LAST_STALL"}

\* MSC_BulkOutNak primes the endpoint before its last transfer has been served.
ReceivesAgain(e) == e = "out1" /\ dev.ep["out1"].complete

\* endptnak is read; one handler is called; the bits that were read are cleared
\* after the last.  (A token between the read and the first handler might as well
\* have come before.)
IsrNakStep ==
  /\ isr.pc \in {"nak", "naks"}
  /\ LET val == IF isr.pc = "nak" THEN NakPending(dev) ELSE isr.val
         e == FirstOf(IF isr.pc = "nak" THEN val ELSE isr.left)
         left == (IF isr.pc = "nak" THEN val ELSE isr.left) \ {e}
     IN  IF val = {} THEN isr' = Away /\ UNCHANGED <<dev, spoilt, upset>>
         ELSE /\ spoilt' = (spoilt \/ ReceivesAgain(e))
              /\ upset' = upset \cup (IF SendsAgain(e) THEN {"again"} ELSE {})
              /\ IF left = {}
                 THEN dev' = IsrNakClear(IsrNakHandler(dev, e), val) /\ isr' = Away
                 ELSE /\ dev' = IsrNakHandler(dev, e)
                      /\ isr' = [Away EXCEPT !.pc = "naks", !.val = val, !.left = left]
  /\ UNCHANGED <<loop, disk, held, host, ctl, plan>>

Interrupt == IsrEntry \/ IsrTakeStep \/ IsrHandlerStep \/ IsrClearStep \/ IsrNakStep

-----------------------------------------------------------------------------
(* usb_user_task_loop *)

Head1 == Head(dev.ut)
Popped(d) == [d EXCEPT !.ut = Tail(@)]

\* The test of the task and of the state it belongs to.
LoopTest ==
  /\ isr = Away /\ loop = "poll" /\ dev.ut # <<>>
  /\ IF \/ Head1.type = "WRITE"
        \/ Head1.type = "READ" /\ dev.rdlen = 0
        \/ Head1.type = "MERGE" /\ dev.merge = "START"
     THEN loop' = "call" /\ UNCHANGED dev
     ELSE loop' = "poll" /\ dev' = Popped(dev)
  /\ UNCHANGED <<disk, held, host, ctl, plan, spoilt, upset, isr>>

\* ONFM_Write of a full page.  UBI frees the buffer it held and holds this one,
\* unless the FTL writes more pages after it.
LoopWrite ==
  /\ isr = Away /\ loop = "call" /\ Head1.type = "WRITE"
  /\ disk' = [s \in Sectors |-> IF PageStart(s) = Head1.offset
                                THEN dev.mem[Head1.buffer][s - Head1.offset] ELSE disk[s]]
  /\ \E more \in BOOLEAN :
       /\ held' = IF more THEN NULL ELSE Head1.buffer
       /\ dev' = [dev EXCEPT !.used = BUF_Free(@, held) \ (IF more THEN {Head1.buffer} ELSE {}),
                             !.failed = @ \/ ~FreeAsserts(dev.used, held)
                                          \/ Head1.buffer \notin dev.used]
  /\ loop' = "end"
  /\ UNCHANGED <<host, ctl, plan, spoilt, upset, isr>>

LoopRead ==
  /\ isr = Away /\ loop = "call" /\ Head1.type = "READ"
  /\ dev' = [dev EXCEPT !.readbuf = [i \in InMpp |->
               IF i < Head1.length THEN disk[Head1.offset + i] ELSE @[i]]]
  /\ loop' = "end"
  /\ UNCHANGED <<disk, held, host, ctl, plan, spoilt, upset, isr>>

LoopMerge ==
  /\ isr = Away /\ loop = "call" /\ Head1.type = "MERGE"
  /\ dev' = [dev EXCEPT !.mem[Head1.buffer] = [i \in InMpp |-> disk[Head1.offset + i]]]
  /\ loop' = "end"
  /\ UNCHANGED <<disk, held, host, ctl, plan, spoilt, upset, isr>>

LoopEnd ==
  /\ isr = Away /\ loop = "end"
  /\ dev' = Popped([dev EXCEPT
               !.rdlen = IF Head1.type = "READ" THEN Head1.length * MSC_BlockSize ELSE @,
               !.merge = IF Head1.type = "MERGE" THEN "FINISH" ELSE @])
  /\ loop' = "poll"
  /\ UNCHANGED <<disk, held, host, ctl, plan, spoilt, upset, isr>>
-----------------------------------------------------------------------------
(* The host: commands *)

NewValue(s) == 10 * host.seq + s

\* A command that the device carries out, or refuses, as the protocol wants.
Served(c) ==
  /\ c.sig /\ c.len # 0 => c.ok /\ c.op # "OTHER" /\ (c.op = "VERIFY10" => c.bytchk)
  /\ c.op \in Reads => c.off + c.n <= MSC_BlockCount

Issue ==
  /\ host.phase = "idle" /\ ctl.stage = "none" /\ ctl.queue = <<>>
  /\ host.seq < plan.commands
  /\ dev.ep["out1"].enabled /\ ~dev.reset
  /\ \E c \in plan.cbws :
       /\ host' = [host EXCEPT !.phase = "cbw", !.cmd = [c EXCEPT !.tag = host.seq + 1],
                               !.seq = @ + 1, !.sent = 0, !.got = <<>>, !.units = 0,
                               !.again = FALSE]
       /\ spoilt' = (spoilt \/ (c.op = "VERIFY10" /\ c.bytchk))
  /\ UNCHANGED <<dev, loop, disk, held, ctl, plan, upset, isr>>

AfterCBW == IF host.cmd.len = 0 THEN "csw" ELSE IF host.cmd.in THEN "din" ELSE "dout"

\* Control requests that the protocol prescribes.
Packet(type, req, to, value, index, length, in) ==
  [type |-> type, req |-> req, to |-> to, value |-> value, index |-> index,
   length |-> length, in |-> in]
ClearFeatureHalt(e) == Packet("standard", "CLEAR_FEATURE", "endpoint", "halt", e, 0, FALSE)
ResetRecovery == <<Packet("class", "MSC_RESET", "interface", 0, 0, 0, FALSE),
                   ClearFeatureHalt("in1"), ClearFeatureHalt("out1")>>

Ask(packets) == ctl' = [ctl EXCEPT !.queue = @ \o packets]

\* The stall of a data phase is cleared and the status read; any other stall, or
\* a status that is not one, makes the host reset the device.
Stalled(e) ==
  IF host.phase \in {"din", "dout"} \/ (host.phase = "csw" /\ ~host.again)
  THEN /\ Ask(<<ClearFeatureHalt(e)>>)
       /\ host' = [host EXCEPT !.phase = "clear", !.again = host.phase = "csw"]
  ELSE /\ Ask(ResetRecovery)
       /\ host' = [host EXCEPT !.phase = "reset"]

\* What an OUT transfer of n units puts where the descriptor points.
Received(d, n) ==
  LET td == d.ep["out1"].td
  IN  IF td.what = <<"cbw", 0>> THEN [d EXCEPT !.cbw = host.cmd]
      ELSE [d EXCEPT !.mem[td.what[2]] = [i \in InMpp |->
              IF host.phase # "dout" THEN @[i]
              ELSE IF i >= td.at /\ (i - td.at) * MSC_BlockSize < n
              THEN NewValue(host.cmd.off + host.sent \div MSC_BlockSize + i - td.at)
              ELSE @[i]]]

OutToken ==
  /\ host.phase \in {"cbw", "dout"}
  /\ UNCHANGED <<loop, disk, held, plan, spoilt, isr, upset>>
  /\ \/ /\ Answer(dev, "out1") = "nak" /\ ~dev.ep["out1"].nak
        /\ dev' = Nak(dev, "out1")
        /\ UNCHANGED <<host, ctl>>
     \/ /\ Answer(dev, "out1") = "stall"
        /\ Stalled("out1")
        /\ UNCHANGED dev
     \/ /\ Answer(dev, "out1") = "ack" /\ host.phase = "cbw"
        /\ dev' = Complete(Received(dev, CBW_SIZE), "out1", CBW_SIZE)
        /\ host' = [host EXCEPT !.phase = AfterCBW]
        /\ UNCHANGED ctl
     \/ /\ Answer(dev, "out1") = "ack" /\ host.phase = "dout"
        /\ LET n == MinOf(dev.ep["out1"].td.len, host.cmd.len - host.sent)
           IN  /\ dev' = Complete(Received(dev, n), "out1", n)
               /\ host' = [host EXCEPT !.sent = @ + n,
                             !.phase = IF host.sent + n = host.cmd.len THEN "csw" ELSE @]
        /\ UNCHANGED ctl

\* The sectors of a transfer from Read_BulkBuf.
Payload(d) ==
  LET td == d.ep["in1"].td
  IN  IF td.what = <<"read", 0>>
      THEN [i \in 1 .. td.len \div MSC_BlockSize |-> d.readbuf[i - 1]] ELSE <<>>

\* What the sectors of the disk may hold after the command: a passed command has
\* written them, another may have.
Target(h) == IF h.cmd.op \in Writes THEN h.cmd.off .. h.cmd.off + h.cmd.n - 1 ELSE {}
Expected(h, passed) ==
  [s \in DOMAIN h.expect |->
     (IF s \in Target(h) THEN {NewValue(s)} ELSE {})
       \cup (IF s \in Target(h) /\ passed THEN {} ELSE h.expect[s])]

ValuesAt(h, s) == IF s \in DOMAIN h.expect THEN h.expect[s] ELSE {}

Abandoned(h) == [h EXCEPT !.phase = "idle", !.expect = Expected(h, FALSE)]
Finished(h, passed) ==
  [h EXCEPT !.phase = "idle", !.expect = Expected(h, passed),
     !.wrong = @ \/ (passed /\ h.cmd.op \in Reads
                     /\ \/ Len(h.got) # h.cmd.n
                        \/ \E i \in DOMAIN h.got : h.got[i] \notin ValuesAt(h, h.cmd.off + i - 1))]

\* A transfer ends while the bit of the one before it is still set: the routine
\* will clear it for both.
EndsUnseen == Answer(dev, "in1") = "ack" /\ dev.ep["in1"].complete

InToken ==
  /\ host.phase \in {"din", "csw"}
  /\ upset' = upset \cup (IF EndsUnseen THEN {"lost"} ELSE {})
  /\ UNCHANGED <<loop, disk, held, plan, spoilt, isr>>
  /\ \/ /\ Answer(dev, "in1") = "nak" /\ ~dev.ep["in1"].nak
        /\ dev' = Nak(dev, "in1")
        /\ UNCHANGED <<host, ctl>>
     \/ /\ Answer(dev, "in1") = "stall"
        /\ Stalled("in1")
        /\ UNCHANGED dev
     \/ /\ Answer(dev, "in1") = "ack" /\ host.phase = "din"
        /\ LET n == dev.ep["in1"].td.len
           IN  /\ dev' = Complete(dev, "in1", n)
               /\ host' = [host EXCEPT !.units = @ + n, !.got = @ \o Payload(dev),
                             !.phase = IF n % MSC_BlockSize # 0 \/ host.units + n >= host.cmd.len
                                       THEN "csw" ELSE @]
        /\ UNCHANGED ctl
     \/ /\ Answer(dev, "in1") = "ack" /\ host.phase = "csw"
        /\ dev' = Complete(dev, "in1", dev.ep["in1"].td.len)
        /\ IF dev.ep["in1"].td.what = <<"csw", 0>> /\ dev.csw.tag = host.cmd.tag
              /\ dev.csw.status # "phase"
           THEN host' = Finished(host, dev.csw.status = "passed" /\ upset \subseteq {"lost"})
                /\ UNCHANGED ctl
           ELSE host' = [host EXCEPT !.phase = "reset"] /\ Ask(ResetRecovery)

\* The host gives up.
Timeout ==
  /\ host.phase \in {"cbw", "dout", "din", "csw"}
  /\ host.timeouts < plan.timeouts
  /\ host' = [host EXCEPT !.phase = "reset", !.timeouts = @ + 1]
  /\ Ask(ResetRecovery)
  /\ UNCHANGED <<dev, loop, disk, held, plan, spoilt, isr, upset>>

\* The control requests of a recovery are done.
Recovered ==
  /\ host.phase \in {"clear", "reset"} /\ ctl.queue = <<>> /\ ctl.stage = "none"
  /\ host' = IF host.phase = "clear" THEN [host EXCEPT !.phase = "csw"] ELSE Abandoned(host)
  /\ UNCHANGED <<dev, loop, disk, held, ctl, plan, spoilt, upset, isr>>
-----------------------------------------------------------------------------
(* The host: control transfers *)

\* Requests that change the configuration come between commands.
Enqueue ==
  /\ ctl.queue = <<>> /\ host.phase = "idle"
  /\ ctl.seq < plan.controls
  /\ \E p \in plan.packets : ctl' = [ctl EXCEPT !.queue = <<p>>, !.seq = @ + 1]
  /\ UNCHANGED <<dev, loop, disk, held, host, plan, spoilt, upset, isr>>

\* A SETUP packet; it may cut the transfer before it short.
SendSetup ==
  /\ ctl.queue # <<>>
  /\ plan.cut \/ ctl.stage = "none"
  /\ dev' = ReceiveSetup(dev, Head(ctl.queue))
  /\ ctl' = [ctl EXCEPT !.queue = Tail(@), !.pkt = Head(ctl.queue), !.got = 0,
               !.stage = IF Head(ctl.queue).in THEN "data"
                         ELSE IF Head(ctl.queue).length = 0 THEN "status" ELSE "dout",
               !.cutaddr = @ \/ dev.newaddr # NoAddress]
  /\ UNCHANGED <<loop, disk, held, host, plan, spoilt, upset, isr>>

\* What a control read must return.
Wanted(p) ==
  IF p.req = "GET_DESCRIPTOR" THEN MinOf(p.length, DescriptorLength[p.value]) ELSE p.length

RightData(p, td) ==
  /\ td.at = ctl.got
  /\ p.req = "GET_DESCRIPTOR" => td.what = <<p.value, 0>>
  /\ p.req = "GET_STATUS" /\ p.to = "endpoint"
       => td.what = <<"halted", IF dev.ep[p.index].stall THEN 1 ELSE 0>>

Ended(bad) == [ctl EXCEPT !.stage = "none", !.bad = @ \/ bad]

ControlToken ==
  /\ ctl.stage # "none"
  /\ UNCHANGED <<loop, disk, held, host, plan, spoilt, upset, isr>>
  /\ LET e == IF ctl.stage \in {"data", "status"} THEN "in0" ELSE "out0"
         td == dev.ep[e].td
         more == ctl.got + td.len
     IN  \/ /\ Answer(dev, e) = "nak" /\ ~dev.ep[e].nak
            /\ dev' = Nak(dev, e)
            /\ UNCHANGED ctl
         \/ /\ Answer(dev, e) = "stall"
            /\ ctl' = Ended(FALSE)
            /\ UNCHANGED dev
         \/ /\ Answer(dev, e) = "ack" /\ ctl.stage = "data"
            /\ dev' = Complete(dev, e, td.len)
            /\ ctl' = [ctl EXCEPT !.got = more,
                         !.bad = @ \/ ~RightData(ctl.pkt, td),
                         !.stage = IF td.len < USB_MAX_PACKET0 \/ more >= ctl.pkt.length
                                   THEN "statusout" ELSE @]
         \/ /\ Answer(dev, e) = "ack" /\ ctl.stage = "statusout"
            /\ dev' = Complete(dev, e, 0)
            /\ ctl' = Ended(ctl.got # Wanted(ctl.pkt))
         \/ /\ Answer(dev, e) = "ack" /\ ctl.stage = "status"
            /\ dev' = Complete(dev, e, 0)
            /\ ctl' = [Ended(td.len # 0) EXCEPT
                         !.addr = IF ctl.pkt.req = "SET_ADDRESS" THEN ctl.pkt.value ELSE @]

BusReset ==
  /\ ctl.resets < plan.resets /\ ~dev.reset
  /\ dev' = [dev EXCEPT !.reset = TRUE, !.hwaddr = 0]
  /\ host' = IF host.phase = "idle" THEN host ELSE Abandoned(host)
  /\ ctl' = [ctl EXCEPT !.stage = "none", !.queue = <<>>, !.addr = 0,
                        !.cutaddr = isr # Away /\ dev.newaddr # NoAddress,
                        !.resets = @ + 1]
  /\ UNCHANGED <<loop, disk, held, plan, spoilt, isr, upset>>

Init ==
  /\ plan \in Campaigns
  /\ dev = IF plan.configured THEN Configured ELSE Attached
  /\ loop = "poll"
  /\ disk = [s \in Sectors |-> 0]
  /\ held = NULL
  /\ host = [phase |-> "idle", cmd |-> NoCommand, seq |-> 0, sent |-> 0, got |-> <<>>,
             units |-> 0, again |-> FALSE, timeouts |-> 0, wrong |-> FALSE,
             expect |-> [s \in 0 .. MSC_BlockCount - 1 |-> {0}]]
  /\ ctl = [queue |-> <<>>, stage |-> "none", pkt |-> NoPacket, got |-> 0, seq |-> 0,
            bad |-> FALSE, addr |-> 0, cutaddr |-> FALSE, resets |-> 0]
  /\ spoilt = FALSE
  /\ isr = Away
  /\ upset = {}

Loop == LoopTest \/ LoopWrite \/ LoopRead \/ LoopMerge \/ LoopEnd
Next ==
  \/ Interrupt \/ Loop
  \/ Issue \/ OutToken \/ InToken \/ Timeout \/ Recovered
  \/ Enqueue \/ SendSetup \/ ControlToken \/ BusReset

\* Interrupts are taken and served, the main loop gets the processor again and
\* again, and the host goes on with what it has begun; it need not begin anything.
Fairness ==
  /\ WF_vars(Interrupt) /\ SF_vars(Loop)
  /\ WF_vars(OutToken) /\ WF_vars(InToken) /\ WF_vars(Recovered)
  /\ WF_vars(SendSetup) /\ WF_vars(ControlToken)

Spec == Init /\ [][Next]_vars /\ Fairness
-----------------------------------------------------------------------------
(* Properties *)

\* The queued writes that ONFM has not yet taken.
Queued == {i \in 1 .. Len(dev.ut) : dev.ut[i].type = "WRITE" /\ ~(i = 1 /\ loop = "end")}

\* What the disk will hold of sector s when the queue has been worked off.
Pending(s) == {i \in Queued : dev.ut[i].offset = PageStart(s)}
Eventual(s) ==
  IF Pending(s) = {} THEN disk[s]
  ELSE LET i == CHOOSE i \in Pending(s) : \A j \in Pending(s) : j <= i
       IN  dev.mem[dev.ut[i].buffer][s - PageStart(s)]

\* When no command is under way, the disk holds what the host wrote, or will
\* when the queue is worked off: no page is lost, written from a buffer that was
\* reused, merged with old sectors or put in the wrong place, however the main
\* loop lags behind the interrupts.
WritesLand ==
  (host.phase = "idle" /\ ~spoilt)
    => \A s \in 0 .. MSC_BlockCount - 1 : Eventual(s) \in host.expect[s]

\* A READ that passes has returned the sectors as they were last written, also
\* when those writes were still queued at the time.  (After a page was sent again
\* or a stale status, a status that says "passed" is not taken for one.)
ReadsRight == ~spoilt => ~host.wrong

\* Every buffer of the pool that is in use has one owner (BUF's write buffer, the
\* page that USB fills, a queued write, UBI), so none leaks and none is filled
\* while it waits to be written; the assertions of BUF_Free and ut_list hold.
QueuedBuffers == {dev.ut[i].buffer : i \in Queued}
Filling ==
  IF dev.stage = "DATA_OUT" /\ dev.BulkBuf # NULL
     /\ (dev.merge # "NONE" \/ dev.ep["out1"].primed \/ dev.ep["out1"].complete)
  THEN {dev.BulkBuf} ELSE {}
Owned == QueuedBuffers \cup Filling \cup ({held} \ {NULL})

BuffersOwned ==
  ~spoilt =>
    /\ ~dev.failed
    /\ dev.used = {BUF_Allocate({})} \cup Owned
    /\ BUF_Allocate({}) \notin Owned
    /\ Cardinality(QueuedBuffers) = Cardinality(Queued)
    /\ Cardinality(Owned) =
         Cardinality(QueuedBuffers) + Cardinality(Filling)
           + Cardinality({held} \ {NULL})

\* A command that the device serves comes to an end, at whatever points of the
\* interrupt routine and of the main loop the tokens of the host arrive, unless a
\* completion is lost at lpc313x_usbdcd.c:733, a page is sent again or a status is
\* sent that no command waits for.  After a reset of the device it is claimed
\* again: no stage, task, buffer or primed endpoint is left that keeps the device
\* or the host waiting.
CommandsEnd ==
  (host.phase # "idle" /\ Served(host.cmd) /\ ~spoilt /\ upset = {})
    ~> (host.phase = "idle" \/ spoilt \/ ~Served(host.cmd) \/ upset # {})

\* A control read returns exactly what was asked for, in order, also when its
\* SETUP packet has cut another transfer short; the address is the one the host
\* gave; and the halt bits that GET_STATUS reports are the endpoints' stalls.
ControlAnswers ==
  /\ ~ctl.bad
  /\ (ctl.stage = "none" /\ Quiet /\ ~ctl.cutaddr) => dev.hwaddr = ctl.addr
  /\ \A e \in dev.mask \ ControlEndpoints : e \in dev.halt <=> dev.ep[e].stall
=============================================================================
