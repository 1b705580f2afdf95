------------------------- MODULE MCPacketClassifier -------------------------
(* Two priorities, two match expressions and up to three rules: enough for *)
(* a tie at the top priority above a lower rule, and for deleted ids.      *)
EXTENDS PacketClassifier, TLC

CONSTANTS e1, e2

MCPrios == {1, 2}
MCExprs == {e1, e2}
MCMaxRules == 3
=============================================================================
