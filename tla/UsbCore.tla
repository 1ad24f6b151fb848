------------------------------- MODULE UsbCore -------------------------------
(***************************************************************************)
(* The control endpoint (usb/usbcore.c, with only the mass storage class    *)
(* compiled in) and the interrupt routine that drives both endpoints        *)
(* (USB_ISR of lib/lpc313x_usbdcd.c).                                       *)
(*                                                                          *)
(* Fields of the device state: pkt (SetupPacket), src and count (EP0Data),  *)
(* wakeup and selfpowered (USB_DeviceStatus), address and newaddr           *)
(* (USB_DeviceAddress without and with its flag 0x80), config, alt, mask    *)
(* (USB_EndPointMask), halt, keep; `ret' is the result of a USB_Req...      *)
(***************************************************************************)
EXTENDS UsbMsc

CONSTANTS
  USB_MAX_PACKET0,
  DescriptorLength     \* units of every descriptor that exists

NoAddress == -1
ConfigurationValue == 1                  \* the only configuration
USB_NumInterfaces == 1
ConfiguredEndpoints == {"in1", "out1"}   \* of interface 0, alternate setting 0

SrcAt(what, at) == [what |-> what, at |-> at]

USB_ResetCore(d) ==
  [d EXCEPT !.wakeup = FALSE, !.selfpowered = TRUE, !.address = 0,
            !.newaddr = NoAddress, !.config = 0, !.mask = ControlEndpoints,
            !.halt = {}, !.keep = {}]

USB_SetupStage(d) == USB_ReadSetupPkt(d)

\* The next packet of a control read; after the last one an empty one.
USB_DataInStage(d) ==
  LET cnt == MinOf(d.count, USB_MAX_PACKET0)
  IN  [USB_WriteEP(d, "in0", d.src.what, d.src.at, cnt)
         EXCEPT !.src.at = @ + cnt, !.count = @ - cnt]

USB_DataOutStage(d) ==
  LET cnt == USB_ReadEP(d, "out0")
  IN  [d EXCEPT !.src.at = @ + cnt, !.count = @ - cnt]

USB_StatusInStage(d) == USB_WriteEP(d, "in0", <<"status", 0>>, 0, 0)
stall_i(d) == [USB_SetStallEP(d, "in0") EXCEPT !.count = 0]
stall_o(d) == [USB_SetStallEP(d, "out0") EXCEPT !.count = 0]

Refuse(d) == [d EXCEPT !.ret = FALSE]
Accept(d) == [d EXCEPT !.ret = TRUE]
SendFrom(d, what) == [d EXCEPT !.ret = TRUE, !.src = SrcAt(what, 0)]

Known(d) ==
  /\ d.config # 0 \/ d.pkt.index \in ControlEndpoints
  /\ d.pkt.index \in d.mask
-----------------------------------------------------------------------------
(* The standard requests *)

USB_ReqGetStatus(d) ==
  CASE d.pkt.to = "device" -> SendFrom(d, <<"devstatus", 0>>)
    [] d.pkt.to = "interface" /\ d.config # 0 /\ d.pkt.index < USB_NumInterfaces ->
         SendFrom(d, <<"zero", 0>>)
    [] d.pkt.to = "endpoint" /\ Known(d) ->
         SendFrom(d, <<"halted", IF d.pkt.index \in d.halt THEN 1 ELSE 0>>)
    [] OTHER -> Refuse(d)

\* The host cannot end a stall that MSC_GetCBW wants to stay; the status of the
\* command is sent again when it ends the stall of the IN endpoint.
ClearHalt(d, e) ==
  LET cleared == USB_ClrStallEP(d, e)
      again == IF e = MSC_EP_IN /\ e \in d.halt /\ d.csw.sig
               THEN USB_WriteEP(cleared, MSC_EP_IN, <<"csw", 0>>, 0, 1) ELSE cleared
  IN  IF e \in d.keep THEN Accept(d)
      ELSE [again EXCEPT !.halt = @ \ {e}, !.ret = TRUE]

SetHalt(d, e) == [USB_SetStallEP(d, e) EXCEPT !.halt = @ \cup {e}, !.ret = TRUE]

USB_ReqSetClrFeature(d, set) ==
  CASE d.pkt.to = "device" /\ d.pkt.value = "wakeup" ->
         [d EXCEPT !.wakeup = set, !.ret = TRUE]
    [] d.pkt.to = "device" /\ d.pkt.value = "testmode" -> USB_SetTestMode(d, d.pkt.index)
    [] d.pkt.to = "endpoint" /\ d.config # 0 /\ d.pkt.index \notin ControlEndpoints
       /\ d.pkt.index \in d.mask /\ d.pkt.value = "halt" ->
         IF set THEN SetHalt(d, d.pkt.index) ELSE ClearHalt(d, d.pkt.index)
    [] OTHER -> Refuse(d)

\* The address is only noted; it is set after the status stage.
USB_ReqSetAddress(d) ==
  IF d.pkt.to = "device" THEN [d EXCEPT !.newaddr = d.pkt.value, !.ret = TRUE]
  ELSE Refuse(d)

USB_ReqGetDescriptor(d) ==
  IF d.pkt.to = "device" /\ d.pkt.value \in DOMAIN DescriptorLength
  THEN [SendFrom(d, <<d.pkt.value, 0>>)
          EXCEPT !.count = MinOf(@, DescriptorLength[d.pkt.value])]
  ELSE Refuse(d)

USB_ReqGetConfiguration(d) ==
  IF d.pkt.to = "device" THEN SendFrom(d, <<"config", d.config>>) ELSE Refuse(d)

\* Every endpoint of the mask is switched off, in both branches.
Unconfigure(d, value) ==
  LET one == IF "out1" \in d.mask THEN USB_DisableEP(d, "out1") ELSE d
      two == IF "in1" \in d.mask THEN USB_DisableEP(one, "in1") ELSE one
  IN  [two EXCEPT !.config = value, !.mask = ControlEndpoints,
                  !.halt = {}, !.keep = {}]

ConfigureOne(d, e) ==
  USB_ResetEP(USB_EnableEP(USB_ConfigEP([d EXCEPT !.mask = @ \cup {e}], e), e), e)

ConfigureAll(d) == ConfigureOne(ConfigureOne(d, "in1"), "out1")

USB_ReqSetConfiguration(d) ==
  IF d.pkt.to # "device" THEN Refuse(d)
  ELSE IF d.pkt.value = 0 THEN Accept(Unconfigure(d, 0))
  ELSE IF d.pkt.value = ConfigurationValue
  THEN Accept([ConfigureAll(Unconfigure(d, d.pkt.value))
                 EXCEPT !.selfpowered = FALSE, !.alt = 0])
  ELSE Refuse(d)

USB_ReqGetInterface(d) ==
  IF d.pkt.to = "interface" /\ d.config # 0 /\ d.pkt.index < USB_NumInterfaces
  THEN SendFrom(d, <<"alt", d.alt>>) ELSE Refuse(d)

\* An alternate setting that does not exist is refused, after the endpoints of
\* setting 0 have been switched off.
DropOne(d, e) == USB_DisableEP([d EXCEPT !.mask = @ \ {e}, !.halt = @ \ {e}], e)

USB_ReqSetInterface(d) ==
  IF d.pkt.to # "interface" \/ d.config = 0 \/ d.pkt.index # 0 THEN Refuse(d)
  ELSE IF d.pkt.value = 0
  THEN Accept([ConfigureAll(d) EXCEPT !.alt = 0, !.halt = @ \ ConfiguredEndpoints])
  ELSE Refuse(DropOne(DropOne(d, "in1"), "out1"))
-----------------------------------------------------------------------------
(* The events of endpoint 0 *)

OrStall(d, Stage(_)) == IF d.ret THEN Stage(d) ELSE stall_i(d)

StandardRequest(d) ==
  CASE d.pkt.req = "GET_STATUS" -> OrStall(USB_ReqGetStatus(d), USB_DataInStage)
    [] d.pkt.req = "CLEAR_FEATURE" ->
         OrStall(USB_ReqSetClrFeature(d, FALSE), USB_StatusInStage)
    [] d.pkt.req = "SET_FEATURE" ->
         OrStall(USB_ReqSetClrFeature(d, TRUE), USB_StatusInStage)
    [] d.pkt.req = "SET_ADDRESS" -> OrStall(USB_ReqSetAddress(d), USB_StatusInStage)
    [] d.pkt.req = "GET_DESCRIPTOR" -> OrStall(USB_ReqGetDescriptor(d), USB_DataInStage)
    [] d.pkt.req = "SET_DESCRIPTOR" -> stall_o(d)
    [] d.pkt.req = "GET_CONFIGURATION" ->
         OrStall(USB_ReqGetConfiguration(d), USB_DataInStage)
    [] d.pkt.req = "SET_CONFIGURATION" ->
         OrStall(USB_ReqSetConfiguration(d), USB_StatusInStage)
    [] d.pkt.req = "GET_INTERFACE" -> OrStall(USB_ReqGetInterface(d), USB_DataInStage)
    [] d.pkt.req = "SET_INTERFACE" -> OrStall(USB_ReqSetInterface(d), USB_StatusInStage)
    [] OTHER -> stall_i(d)

ClassRequest(d) ==
  CASE d.pkt.to = "interface" /\ d.pkt.index = 0 /\ d.pkt.req = "MSC_RESET"
       /\ d.pkt.length = 0 -> USB_StatusInStage(MSC_Reset(d))
    [] d.pkt.to = "interface" /\ d.pkt.index = 0 /\ d.pkt.req = "GET_MAX_LUN"
       /\ d.pkt.length = 1 -> USB_DataInStage(SendFrom(d, <<"maxlun", 0>>))
    [] OTHER -> stall_i(d)

Request(d) ==
  CASE d.pkt.type = "standard" -> StandardRequest(d)
    [] d.pkt.type = "class" -> ClassRequest(d)
    [] OTHER -> stall_i(d)

EP0Setup(d) == Request([d EXCEPT !.count = d.pkt.length])

EP0OutNak(d) ==
  USB_ReadReqEP(d, "out0", d.src.what, d.src.at, IF d.pkt.in THEN 0 ELSE d.count)

\* Data is received for no request; the acknowledgement of a read needs nothing.
EP0Received(d) == IF d.count = 0 THEN stall_i(d) ELSE d
EP0Out(d) == IF ~d.pkt.in /\ d.count # 0 THEN EP0Received(USB_DataOutStage(d)) ELSE d

EP0In(d) ==
  IF d.pkt.in THEN USB_DataInStage(d)
  ELSE IF d.newaddr # NoAddress
  THEN USB_SetAddress([d EXCEPT !.address = d.newaddr, !.newaddr = NoAddress], d.newaddr)
  ELSE d

USB_EndPoint0(d, event) ==
  CASE event = "SETUP" -> EP0Setup(USB_SetupStage(d))
    [] event = "OUT_NAK" -> EP0OutNak(d)
    [] event = "OUT" -> EP0Out(d)
    [] event = "IN" -> EP0In(d)
    [] OTHER -> d
-----------------------------------------------------------------------------
(* USB_ISR *)

\* (mutant) Completions from before the SETUP packet are still served.
IsrSetupLate(d) ==
  IF d.setup = NoPacket THEN d
  ELSE USB_EndPoint0([d EXCEPT !.ep["out0"].naken = TRUE, !.ep["in0"].naken = TRUE], "SETUP")

\* A SETUP packet makes what was completed before it on endpoint 0 void.
IsrSetup(d) ==
  IF d.setup = NoPacket THEN d
  ELSE USB_EndPoint0([d EXCEPT !.ep["out0"].complete = FALSE, !.ep["in0"].complete = FALSE,
                               !.ep["out0"].naken = TRUE, !.ep["in0"].naken = TRUE], "SETUP")

\* The completion bits are read; the NAKs of these endpoints are void.
IsrTake(d) ==
  [d EXCEPT !.ep = [e \in Endpoints |-> IF d.ep[e].complete
                                         THEN [d.ep[e] EXCEPT !.nak = FALSE] ELSE d.ep[e]]]

\* The endpoints of a register are served in this order.
FirstOf(S) ==
  CASE "out0" \in S -> "out0"
    [] "in0" \in S -> "in0"
    [] "out1" \in S -> "out1"
    [] OTHER -> "in1"

IsrCall(d, e, event) ==
  IF e \in ControlEndpoints THEN USB_EndPoint0(d, event) ELSE USB_EndPoint1(d, event)

IsrHandler(d, e) == IsrCall(d, e, IF e \in {"out0", "out1"} THEN "OUT" ELSE "IN")

\* Clears what the bit says now, not what the handler was called for.
IsrClear(d, e) == [d EXCEPT !.ep[e].complete = FALSE]

IsrNakHandler(d, e) ==
  IsrCall(d, e, IF e \in {"out0", "out1"} THEN "OUT_NAK" ELSE "IN_NAK")

IsrNakClear(d, naks) ==
  [d EXCEPT !.ep = [e \in Endpoints |-> IF e \in naks THEN [d.ep[e] EXCEPT !.nak = FALSE]
                                         ELSE d.ep[e]]]
IsrReset(d) == USB_ResetCore(USB_Reset([d EXCEPT !.reset = FALSE]))
=============================================================================
