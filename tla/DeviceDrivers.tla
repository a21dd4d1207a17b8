--------------------------- MODULE DeviceDrivers ---------------------------
(***************************************************************************)
(* How each driver under src/devices recognises the answer to its request. *)
(* A driver is described by what decides whether a late answer is taken    *)
(* for another one:                                                        *)
(*   checks    what of an answer is compared with the request, per command *)
(*   takes     "frame": exactly the bytes of one answer are read,          *)
(*             "all": everything on the line is, and two answers together  *)
(*             are no frame, "quiet": one answer, and the rest is dropped   *)
(*   discards  when the bytes on the line are thrown away: before each      *)
(*             request, before a session is opened, when the device is        *)
(*             prepared, or after an answer that is malformed or of another   *)
(*             device                                                         *)
(*   ids       whether requests are numbered: each one, or each answered one *)
(*   session   "talk": opened when the device says it has none, "blind":     *)
(*             that answer is not understood, "prepare": opened by Prepare   *)
(*   settings  those of the port, or of the meter, set by Prepare            *)
(*   writes    whether registers are written, "silent": no answer is read    *)
(* Layouts of frames, checksums and the conversion of values are left out.   *)
(***************************************************************************)
EXTENDS Naturals

Compared == {"device", "command", "register", "id"}
Moments == {"request", "connect", "prepare", "malformed"} \union Compared

\* The same fields of the answers to reads and to writes.
Commands == {"read", "write"}
Both(fields) == [read |-> fields, write |-> fields]

\* TFileDescriptorPort::ReadFrame with a buffer larger than the answer, or of its size.
Plain(checks) ==
  [checks |-> checks, takes |-> "all", discards |-> {}, ids |-> "none",
   session |-> "none", settings |-> "port", writes |-> "no"]

\* Modbus answers name the device and the function, never the address of the registers.
\* An answer to another device or function is only thrown, a malformed one clears the line.
ModbusErrors == {"malformed"}
ModbusRtu ==
  [Plain(Both({"device", "command"})) EXCEPT !.takes = "frame", !.discards = ModbusErrors, !.writes = "yes"]

\* force_frame_timeout reads on until the line is silent.
ModbusRtuForced == [ModbusRtu EXCEPT !.takes = "quiet"]

\* The transaction number of Modbus TCP: answers with other numbers are skipped.
ModbusTcp ==
  [ModbusRtu EXCEPT !.checks = Both({"device", "command", "id"}), !.ids = "each"]

\* RequestID is increased after an answer only: a request after a failed one has the same.
Pulsar ==
  [Plain(Both({"device", "id"})) EXCEPT !.takes = "frame", !.discards = {"request"}, !.ids = "answered"]

\* Nothing but the checksum and the error class is looked at.
EnergomeraCe == Plain(Both({}))

\* The command is the address of the registers.
Mercury200 == Plain(Both({"device", "register"}))
Lls == [Plain(Both({"device", "register"})) EXCEPT !.discards = {"request"}]

Ivtm == [Plain(Both({"device"})) EXCEPT !.discards = {"request"}]

\* Byte by byte from the next 0xFF; the address in an answer is that of the host.
Uniel ==
  [Plain(Both({"command", "register"})) EXCEPT !.takes = "frame", !.writes = "yes"]

\* The number of the configuration is not in the answer; the relay is, and is not compared.
S2k == [Plain(Both({"device", "command"})) EXCEPT !.writes = "yes"]

\* TEMDevice: Talk clears the line after an answer it cannot take, EnsureSlaveConnected before
\* the set-up. Milur compares the register after Talk has returned, and does not clear the line.
Em(checks) ==
  [Plain(checks) EXCEPT !.discards = {"malformed", "device", "connect"}, !.session = "talk"]
Mercury230 == Em(Both({"device"}))
Milur == [Em(Both({"device", "register"})) EXCEPT !.discards = @ \union {"prepare"}]

\* CheckForException expects the exceptions of addresses of one byte.
MilurLongAddress == [Milur EXCEPT !.session = "blind"]

\* A read answer has the length where a write answer has the address.
Dooya ==
  [Plain([read |-> {"device", "command"}, write |-> {"device", "command", "register"}])
     EXCEPT !.writes = "yes"]

WinDeco ==
  [Plain([read |-> {"device"}, write |-> {"device", "register"}]) EXCEPT !.takes = "frame", !.writes = "yes"]

\* The header of an answer to a read names what was read, that to a write is ACK.
Somfy ==
  [Plain([read |-> {"device", "command", "register"}, write |-> {"device", "command"}])
     EXCEPT !.writes = "yes"]

\* Writes do not wait for an answer.
Aok ==
  [Plain(Both({"device"})) EXCEPT !.takes = "frame", !.discards = {"request"}, !.writes = "silent"]

\* Frames are taken apart by the DLMS library, which also numbers those of HDLC: that is left out.
\* Prepare disconnects and opens the association.
Dlms ==
  [Plain(Both({"device"})) EXCEPT !.takes = "frame", !.session = "prepare"]

\* The name of the parameter comes back, the address of the meter does not.
IecModeC ==
  [Plain(Both({"register"})) EXCEPT !.discards = {"request", "prepare"}, !.session = "prepare",
                                    !.settings = "meter"]
EnergomeraFastRead ==
  [Plain(Both({"register"})) EXCEPT !.discards = {"request"}, !.settings = "meter"]

Drivers ==
  {ModbusRtu, ModbusRtuForced, ModbusTcp, Pulsar, EnergomeraCe, Mercury200, Lls, Ivtm, Uniel, S2k,
   Mercury230, Milur, MilurLongAddress, Dooya, WinDeco, Somfy, Aok, Dlms, IecModeC,
   EnergomeraFastRead}

Checked(driver, request) == driver.checks[request.command]

\* Mutant: the header of an answer is not looked at, but for the device.
MutantDeviceOnly(driver, request, answer) ==
  answer.intact /\ ("device" \in Checked(driver, request) => answer.device = request.device)

\* The answer is accepted as that to the request.
Matches(driver, request, answer) ==
  answer.intact /\ \A field \in Checked(driver, request) : answer[field] = request[field]

\* Whatever was late before, an answer that comes in time is taken at the second attempt.
Resynchronizes(driver) ==
  driver.session = "none" /\ ("request" \in driver.discards \/ driver.ids = "each")

\* An answer tells which request it belongs to.
Names(driver) ==
  \/ driver.ids = "each"
  \/ \A command \in Commands :
       /\ {"device", "register"} \subseteq driver.checks[command]
       /\ driver.writes = "no" \/ "command" \in driver.checks[command]
=============================================================================
