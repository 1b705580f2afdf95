------------------------------ MODULE MCNoxCore ------------------------------
(* Instantiates NoxCore for TLC: three transports (model values in the    *)
(* cfg), datapath ids 0 and 1 (two switches claiming id 1 exercise the    *)
(* replacement path of register_conn, id 0 the invalid-id path) and       *)
(* nested polls of one connection up to depth two.                        *)
EXTENDS NoxCore, TLC

MCDpids == {0, 1}
MCMaxPollDepth == 2

==============================================================================
