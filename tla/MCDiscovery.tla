---------------------------- MODULE MCDiscovery ----------------------------
(* Two datapaths joined by one cable.  MaxEnv = 6 lets both connect,     *)
(* report their ports, and then lose a port or leave while frames are in  *)
(* flight and joins and leaves are still queued.                           *)
EXTENDS Discovery, TLC

\* Two datapaths whose ids fit in 48 bits.
d1 == <<0, 1>>
d2 == <<0, 2>>
MCDpids == {d1, d2}
MCMaxEnv == 6
\* Every datapath has only port 1, and the cable joins the two port 1s:
\* the fixed destination port of packet_in_handler is then the real one.
PortOne == {1}
CableOnPortOne == (<<d1, 1>> :> <<d2, 1>>) @@ (<<d2, 1>> :> <<d1, 1>>)
\* Ports 1 and 2, with the cable between the two port 2s.
PortsOneTwo == {1, 2}
CableOnPortTwo == (<<d1, 2>> :> <<d2, 2>>) @@ (<<d2, 2>> :> <<d1, 2>>)
MCMaxEnvWiring == 4
\* One datapath that reconnects, with one port.
SoloDpid == {d1}
NoCable == [p \in {} |-> p]
=============================================================================
