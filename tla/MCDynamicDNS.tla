----------------------------- MODULE MCDynamicDNS -----------------------------
(* A public address that stays, one that moves on, and one that comes back.   *)
EXTENDS DynamicDNS

CONSTANTS a, b, c

Three     == {a, b, c}
Stays     == <<a>>
MovesOn   == <<a, b, c>>
ComesBack == <<a, b, a>>
===============================================================================
