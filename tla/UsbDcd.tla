------------------------------- MODULE UsbDcd -------------------------------
(***************************************************************************)
(* The device controller and its driver (lib/lpc313x_usbdcd.c).             *)
(*                                                                          *)
(* A device state d is a record; the driver uses its fields                 *)
(*   ep     per endpoint, the transfer descriptor and the bits of the       *)
(*          endpt... registers;                                             *)
(*   setup  the SETUP packet that endptsetupstat announces;                 *)
(*   hwaddr the device address register.                                    *)
(* Lengths are in units: a sector is MSC_BlockSize units, a CBW or a CSW    *)
(* one unit, and a control packet carries USB_MAX_PACKET0 units.            *)
(***************************************************************************)
EXTENDS Integers, Sequences, FiniteSets

Endpoints == {"out0", "in0", "out1", "in1"}
ControlEndpoints == {"out0", "in0"}
MSC_EP_OUT == "out1"
MSC_EP_IN == "in1"

\* A transfer: which memory, from where on, how many units.
Transfer(what, at, len) == [what |-> what, at |-> at, len |-> len]
NoTransfer == Transfer(<<"none", 0>>, 0, 0)
NoPacket == [type |-> "none"]

\* The bits of an endpoint: enabled (RXE/TXE), stall (RXS/TXS), primed, complete,
\* nak and naken; `rest' is what total_bytes still counts after a transfer.
IdleEndpoint ==
  [td |-> NoTransfer, rest |-> 0, primed |-> FALSE, complete |-> FALSE,
   nak |-> FALSE, naken |-> FALSE, stall |-> FALSE, enabled |-> FALSE]

\* Everything is flushed and only endpoint 0 stays enabled.  The stall bits of
\* the other endpoints survive.
USB_Reset(d) ==
  [d EXCEPT !.setup = NoPacket,
            !.ep = [e \in Endpoints |->
                      IF e \in ControlEndpoints
                      THEN [IdleEndpoint EXCEPT !.enabled = TRUE]
                      ELSE [IdleEndpoint EXCEPT !.stall = d.ep[e].stall]]]

USB_SetAddress(d, adr) == [d EXCEPT !.hwaddr = adr]

\* Test modes 1 .. 7 exist.
USB_SetTestMode(d, mode) == [d EXCEPT !.ret = mode > 0 /\ mode < 8]

\* The half of endptctrl that belongs to e is written anew, without the stall.
USB_ConfigEP(d, e) == [d EXCEPT !.ep[e].stall = FALSE, !.ep[e].enabled = FALSE]
USB_EnableEP(d, e) == [d EXCEPT !.ep[e].enabled = TRUE, !.ep[e].naken = TRUE]

\* Only the OUT direction also loses its NAK interrupt.
USB_DisableEP(d, e) ==
  [d EXCEPT !.ep[e].enabled = FALSE,
            !.ep[e].naken = @ /\ e \in {"in0", "in1"}]

USB_ResetEP(d, e) == [d EXCEPT !.ep[e].primed = FALSE]
USB_SetStallEP(d, e) == [d EXCEPT !.ep[e].stall = TRUE]
USB_ClrStallEP(d, e) == [d EXCEPT !.ep[e].stall = FALSE]

\* USB_ProgDTD and the prime: there is one descriptor per endpoint, so a second
\* prime replaces the transfer of the first.
USB_ProgDTD(d, e, what, at, len) ==
  [d EXCEPT !.ep[e].td = Transfer(what, at, len), !.ep[e].rest = len,
            !.ep[e].primed = TRUE]
USB_ReadReqEP(d, e, what, at, len) == USB_ProgDTD(d, e, what, at, len)
USB_WriteEP(d, e, what, at, len) == USB_ProgDTD(d, e, what, at, len)

\* The number of units that were received.
USB_ReadEP(d, e) == d.ep[e].td.len - d.ep[e].rest

\* The packet that the interrupt is about; the setup interrupt is cleared.
USB_ReadSetupPkt(d) == [d EXCEPT !.pkt = d.setup, !.setup = NoPacket]
-----------------------------------------------------------------------------
(* What the controller does with the tokens of the host *)

\* The answer to a token for endpoint e.  Endpoint 0 answers NAK while a SETUP
\* packet has not been read.
Answer(d, e) ==
  IF d.reset \/ ~d.ep[e].enabled THEN "none"
  ELSE IF d.ep[e].stall THEN "stall"
  ELSE IF d.ep[e].primed /\ (e \in ControlEndpoints => d.setup = NoPacket) THEN "ack"
  ELSE "nak"

\* A transfer of n units ends.
Complete(d, e, n) ==
  [d EXCEPT !.ep[e].primed = FALSE, !.ep[e].complete = TRUE,
            !.ep[e].rest = d.ep[e].td.len - n]

Nak(d, e) == [d EXCEPT !.ep[e].nak = TRUE]

\* A SETUP packet ends the stall of endpoint 0.
ReceiveSetup(d, pkt) ==
  [d EXCEPT !.setup = pkt, !.ep["in0"].stall = FALSE, !.ep["out0"].stall = FALSE]

NakPending(d) == {e \in Endpoints : d.ep[e].nak /\ d.ep[e].naken}
CompletePending(d) == {e \in Endpoints : d.ep[e].complete}

InterruptPending(d) ==
  \/ d.reset
  \/ d.setup # NoPacket
  \/ CompletePending(d) # {}
  \/ NakPending(d) # {}
=============================================================================
