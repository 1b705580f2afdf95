------------------------- MODULE MCEventDispatcher -------------------------
(* Three components, the packet-in event registered at startup, one name  *)
(* ("role") the codec names but the constructor never registers, and every *)
(* packet-in filter list of up to three entries, repeats included.         *)
EXTENDS EventDispatcher, TLC

CONSTANTS a, b, c, Pin, Role

MCComps == {a, b, c}
MCNames == {Pin, Role}
MCSysEvents == {Pin}
MCConfigs == [{Pin} -> BoundedSeq(MCComps, 3)] \cup {<<>>}
MCMaxHandlers == 3
Symm == Permutations(MCComps)
=============================================================================
