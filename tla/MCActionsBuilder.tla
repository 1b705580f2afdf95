------------------------- MODULE MCActionsBuilder -------------------------
(* Two Actions objects and up to three entries: enough for one object to   *)
(* be grown past its first entry while another is built alongside it.      *)
EXTENDS ActionsBuilder, TLC

CONSTANTS o1, o2

MCObjs == {o1, o2}
MCMaxActs == 3
\* What the learning switch and the hub call (switch.cc, hubo.cc).
InTreeMethods == {"Output"}
\* One method of each of the three shapes of Create* (the others of a
\* shape differ only in the fields of the action they allocate).
ShapeMethods == {"Output", "SetMplsTTL", "CopyTTL"}
\* CreateOutput followed by CreateSetMplsTTL.
MplsMethods == {"Output", "SetMplsTTL"}
CopyTTLMethods == {"CopyTTL"}
=============================================================================
