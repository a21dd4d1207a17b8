-------------------------- MODULE MCRegisterPoller --------------------------
(* Small instances of RegisterPoller: a meter with a driver of its own and a *)
(* relay that speaks Fast Modbus.                                            *)
EXTENDS RegisterPoller

CONSTANTS meter, relay, m1, m2, r1, r2

MCDeviceOf == [r \in Registers |-> IF r \in {m1, m2} THEN meter ELSE relay]
=============================================================================
