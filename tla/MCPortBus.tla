------------------------------ MODULE MCPortBus ------------------------------
(* Two devices: of the same driver, and a meter beside a device without settings of its own. *)
EXTENDS PortBus

CONSTANTS d1, d2, r1, r2

MCDevices == {d1, d2}
MCRegisters == {r1, r2}
MCAsked(one) ==
  {<<r1, "read">>, <<r2, "read">>} \union IF one.writes = "no" THEN {} ELSE {<<r1, "write">>}

Same(one) == [d \in MCDevices |-> one]
Beside(one, other) == [d \in MCDevices |-> IF d = d1 THEN one ELSE other]

MCBuses ==
  {Same(one) : one \in {ModbusTcp, Mercury200, Lls, Aok, IecModeC}}
    \union {Beside(IecModeC, ModbusRtu), Beside(IecModeC, Ivtm), Beside(Milur, EnergomeraFastRead),
            Beside(Dlms, Lls), Beside(MilurLongAddress, Ivtm), Beside(Mercury230, Uniel),
            Beside(EnergomeraCe, ModbusRtuForced), Beside(Pulsar, S2k), Beside(Dooya, WinDeco),
            Beside(Somfy, EnergomeraFastRead)}
=============================================================================
