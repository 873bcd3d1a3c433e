----------------------------- MODULE MCLowSpeed -----------------------------
(* Two ports, so that one is stepped because the other is active, and a ring *)
(* of two bytes, which a response may fill; one of them is sampled.          *)
EXTENDS LowSpeed

CONSTANTS sensor, other

PortDef == {sensor, other}
SamplingsDef == {{sensor}}
=============================================================================
