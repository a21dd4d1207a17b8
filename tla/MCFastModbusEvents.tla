------------------------ MODULE MCFastModbusEvents ------------------------
(* Small instances of FastModbusEvents. *)
EXTENDS FastModbusEvents

\* The second event of device 1 carries its error_value.
LastIsError == {<<1, 2>>}
=============================================================================
