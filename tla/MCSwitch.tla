------------------------------ MODULE MCSwitch ------------------------------
(* Two datapaths that reach one host by different ports, two handler      *)
(* threads (one can run while the other is blocked in a send), and two    *)
(* packet-ins: enough to learn the host, forward to it, and interleave a   *)
(* flow-mod handler with another packet, a join, or a reconnect or         *)
(* disconnect; with the switch or the hub loaded.                         *)
EXTENDS Switch, TLC

CONSTANTS t1, t2, s1, s2, h1, o1, o2, o3, o4, o5

MCThreads == {t1, t2}
MCDps == {s1, s2}
MCHosts == {h1}
MCPortIds == {1, 2}
\* h1 is behind port 1 of s1 and port 2 of s2.
MCRoute == [k \in MCDps \X MCHosts |->
              IF (k[1] = s1) = (k[2] = h1) THEN 1 ELSE 2]
\* One Actions object per join (three at most) and per flow (two at most):
\* they are never freed.
MCObjs == {o1, o2, o3, o4, o5}
MCMaxPkts == 2
\* Both datapaths start connected; then either may reconnect or
\* disconnect once.
MCMaxEnv == 3
MCFlaky == MCDps
SwMaxActs == 2
\* configure with no argument: setup_flows is true ("noflow" is, in the
\* source's words, only useful for debugging).
MCConfArgs == {{}}
\* Either application may be the one loaded.
MCApps == {"switch", "hub"}
ThreadSym == Permutations(MCThreads)
SwMethods == {"Output"}
=============================================================================
