------------------------- MODULE MCModbusRegisters -------------------------
(* Small instances of ModbusRegisters. *)
EXTENDS ModbusRegisters

R(a, w, p) == [addr |-> a, width |-> w, part |-> p]
I(a, w, p) == [reg |-> R(a, w, p), value |-> 1]

\* Channels side by side, of which the device has all or some.
Reading(has, hears, registers) ==
  [shift |-> 0, supported |-> has, hears |-> hears, setup |-> <<>>,
   polled |-> registers, written |-> {}, changing |-> {}]

\* Parts of a word that are polled and written, and a setup section.
Writing(s, has, items) ==
  [shift |-> s, supported |-> has, hears |-> FALSE, setup |-> items,
   polled |-> {R(0, 1, "lo"), R(1, 2, "all")},
   written |-> {R(0, 1, "lo"), R(0, 1, "hi"), R(0, 1, "all")}, changing |-> {s}]

MCConfigs ==
  {Reading(has, hears, registers) :
     has \in {0..4, {0, 1, 3, 4}, {0, 3, 4}, {1, 3}}, hears \in BOOLEAN,
     registers \in {{R(0, 1, "all"), R(1, 1, "all"), R(3, 1, "all")},
                   {R(0, 2, "all"), R(3, 1, "lo"), R(3, 1, "hi"), R(4, 1, "all")}}}
  \union {Writing(s, {0, 1, 2, 3} \ {n}, items) :
             s \in {0, 1}, n \in {2, 4},
             items \in {<<I(0, 1, "lo"), I(0, 1, "hi"), I(2, 1, "all")>>,
                       <<I(0, 1, "all"), I(1, 1, "lo"), I(1, 1, "hi")>>,
                       <<I(0, 1, "all"), I(1, 1, "all"), I(2, 1, "all")>>}}
=============================================================================
