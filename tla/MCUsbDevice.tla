---- MODULE MCUsbDevice ----
(* Model checking of UsbDevice: see MCUsbDevice.cfg *)
EXTENDS UsbDevice

Cmd(op, off, n, in) ==
  [NoCommand EXCEPT !.op = op, !.off = off, !.n = n, !.len = n * MSC_BlockSize, !.in = in]

DataCommands == {Cmd("READ10", 1, 2, TRUE), Cmd("WRITE10", 0, 4, FALSE),
                 Cmd("WRITE12", 1, 2, FALSE)}

OtherCommands ==
  {Cmd("READ12", 0, 2, TRUE), Cmd("WRITE10", 1, 1, FALSE),
   Cmd("READ10", 2, 4, TRUE), Cmd("WRITE10", 2, 4, FALSE),      \* past the end
   Cmd("TEST_UNIT_READY", 0, 0, FALSE), Cmd("TEST_UNIT_READY", 0, 1, TRUE),
   Cmd("INQUIRY", 0, 1, TRUE), Cmd("INQUIRY", 0, 0, FALSE), Cmd("INQUIRY", 0, 1, FALSE),
   Cmd("READ10", 0, 1, FALSE), Cmd("WRITE10", 0, 1, TRUE),       \* the wrong way
   [Cmd("READ10", 0, 1, TRUE) EXCEPT !.n = 2], [Cmd("WRITE10", 0, 1, FALSE) EXCEPT !.n = 2],
   Cmd("READ10", 0, 0, TRUE),
   Cmd("VERIFY10", 0, 0, FALSE), [Cmd("VERIFY10", 0, 1, FALSE) EXCEPT !.bytchk = TRUE],
   Cmd("OTHER", 0, 1, TRUE), Cmd("OTHER", 0, 0, FALSE),
   [Cmd("INQUIRY", 0, 0, TRUE) EXCEPT !.ok = FALSE], [Cmd("INQUIRY", 0, 1, TRUE) EXCEPT !.sig = FALSE]}

Std(req, to, value, index) == Packet("standard", req, to, value, index, 0, FALSE)
Get(req, to, value, index, length) == Packet("standard", req, to, value, index, length, TRUE)

Packets ==
  {Get("GET_DESCRIPTOR", "device", "device", 0, 3), Get("GET_DESCRIPTOR", "device", "string", 0, 4),
   Get("GET_DESCRIPTOR", "device", "none", 0, 4), Get("GET_STATUS", "endpoint", 0, "in1", 2),
   Get("GET_STATUS", "device", 0, 0, 2), Get("GET_CONFIGURATION", "device", 0, 0, 1),
   Get("GET_INTERFACE", "interface", 0, 0, 1),
   Std("SET_ADDRESS", "device", 5, 0), Std("SET_CONFIGURATION", "device", 1, 0),
   Std("SET_CONFIGURATION", "device", 0, 0), Std("SET_CONFIGURATION", "device", 2, 0),
   Std("SET_INTERFACE", "interface", 0, 0), Std("SET_INTERFACE", "interface", 1, 0),
   Std("SET_FEATURE", "endpoint", "halt", "in1"), ClearFeatureHalt("in1"),
   Std("SET_FEATURE", "device", "wakeup", 0), Std("SET_FEATURE", "device", "testmode", 9),
   Packet("standard", "SET_DESCRIPTOR", "device", 0, 0, 1, FALSE),
   Packet("class", "GET_MAX_LUN", "interface", 0, 0, 1, TRUE),
   Packet("vendor", "OTHER", "device", 0, 0, 0, FALSE)}

MCDescriptorLength == [device |-> 3, string |-> 2]

Bulk == [configured |-> TRUE, cbws |-> DataCommands, commands |-> 3, timeouts |-> 0,
         packets |-> {}, controls |-> 0, cut |-> FALSE, resets |-> 0]
Mixed == [Bulk EXCEPT !.cbws = DataCommands \cup OtherCommands, !.commands = 2]
Impatient == [Bulk EXCEPT !.commands = 2, !.timeouts = 1,
                !.cbws = {Cmd("READ10", 1, 2, TRUE), Cmd("WRITE10", 0, 4, FALSE)}]
\* An endpoint is halted between commands.
Halting == [Bulk EXCEPT !.commands = 2, !.controls = 2,
              !.cbws = {Cmd("READ10", 1, 1, TRUE), Cmd("WRITE10", 1, 1, FALSE)},
              !.packets = {Std("SET_FEATURE", "endpoint", "halt", "in1"),
                           ClearFeatureHalt("in1")}]
Control == [Bulk EXCEPT !.commands = 0, !.packets = Packets, !.controls = 2,
              !.cut = TRUE, !.resets = 1]
Enumeration == [Control EXCEPT !.configured = FALSE, !.commands = 1,
                  !.cbws = {Cmd("TEST_UNIT_READY", 0, 0, FALSE)}]
MCCampaigns == {Bulk, Mixed, Impatient, Halting, Control, Enumeration}
====
