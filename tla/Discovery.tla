------------------------------ MODULE Discovery ------------------------------
(***************************************************************************)
(* Link discovery (src/src/nox/netapps/discovery/discovery.cc).           *)
(*                                                                         *)
(* Discovery keeps the joined datapaths (dps), the ports reported by port *)
(* status ADD messages (a vector, probed round robin by send_lldp through *)
(* next_port), and a link table from (source port, destination port) to   *)
(* the time the link was last seen.  An LLDP frame sent out of port s     *)
(* names s; when it comes back as a packet-in from datapath d, the link   *)
(* s -> (d, 1) is added or refreshed: the destination port is the         *)
(* constant 1, not the packet's in_port.  timeout_links deletes links not *)
(* seen within link_timeout.  Every insertion and deletion of a link      *)
(* posts a Link_event (ADD or REMOVE).                                     *)
(*                                                                         *)
(* A datapath id is <<upper 16 bits, lower 48 bits>>: create_lldp puts   *)
(* only bytes 2..7 of the 64-bit id in the frame and parse_lldp reads the *)
(* id back from those six bytes, so a frame names <<0, lower 48 bits>>.   *)
(* A port is <<dpid, port_no>>.  The physical cabling is the constant     *)
(* Wire (port -> port it is plugged into).  Time is abstracted to a mark  *)
(* per link: "fresh" when stamped by link_add, "old" once link_timeout has *)
(* passed (Tick).  The lldps map always holds exactly the ports of the    *)
(* vector (port_add and port_delete update both), so it is not a separate *)
(* variable, and send_lldp's "Missing LLDP packet" branch is unreachable. *)
(* The core side is kept to what Discovery sees of it: the datapaths     *)
(* with a connection (connection_map) and the FIFO queue of posted join   *)
(* and leave events.  Conn::close posts a leave and register_switch posts *)
(* a join, while a port status or packet-in of a connected datapath is    *)
(* dispatched at once from Conn::do_poll, so it can overtake a queued     *)
(* join or leave of the same datapath.                                     *)
(***************************************************************************)
EXTENDS Naturals, Sequences, SequencesExt, FiniteSets, Functions

CONSTANTS
    Dpids,     \* datapath ids: <<upper 16 bits, lower 48 bits>>
    PortNos,   \* sane port numbers (<= OFPP_MAX)
    Wire,      \* cabling: a function from ports to the port at the other end
    MaxEnv     \* bound on joins, leaves and port status messages

AllPorts == Dpids \X PortNos

\* create_lldp: the frame's chassis id (the low 48 bits) and port id.
CreateLldp(p) == <<p[1][2], p[2]>>

\* parse_lldp: datapathid::from_bytes of the six chassis-id bytes.
ParseLldp(f) == <<<<0, f[1]>>, f[2]>>

Frames == {CreateLldp(p) : p \in AllPorts}
\* Links a packet-in can produce: a parsed source, destination port 1.
AllLinks == {ParseLldp(f) : f \in Frames} \X (Dpids \X {1})

ASSUME /\ 1 \in PortNos
       /\ DOMAIN Wire \subseteq AllPorts /\ \A p \in DOMAIN Wire : Wire[p] \in AllPorts

VARIABLES
    dps,       \* Discovery::dps
    ports,     \* Discovery::ports (and the keys of lldps)
    nextPort,  \* Discovery::next_port
    links,     \* Discovery::links: link -> "fresh" | "old"
    inflight,  \* LLDP frames on the wire: <<frame, arrival port>>
    linkView,  \* the links a Link_event subscriber holds after the queue drains
    probed,    \* the port send_lldp probed last
    connected, \* Nox: the datapath ids in connection_map
    evQ,       \* Nox: posted join and leave events, <<"join" | "leave", dpid>>
    reported,  \* the ports the current sessions have announced and not deleted
    envCount   \* connects, disconnects and port status messages so far

discVars == <<dps, ports, nextPort, links, inflight, linkView, probed,
              connected, evQ, reported, envCount>>

\* next_port starts at (size_t)-1: larger than any size of the port vector.
NextPortInit == Cardinality(AllPorts)

DiscTypeOK ==
    /\ dps \subseteq Dpids
    /\ ports \in Seq(AllPorts) /\ IsInjective(ports)
    /\ nextPort \in 0..NextPortInit
    /\ DOMAIN links \subseteq AllLinks /\ \A l \in DOMAIN links : links[l] \in {"fresh", "old"}
    /\ inflight \subseteq Frames \X AllPorts
    /\ linkView \subseteq AllLinks
    /\ probed \in AllPorts \cup {<<>>}
    /\ connected \subseteq Dpids /\ evQ \in Seq({"join", "leave"} \X Dpids)
    /\ reported \subseteq AllPorts
    /\ envCount \in 0..MaxEnv

DiscInit ==
    /\ dps = {} /\ ports = <<>> /\ nextPort = NextPortInit
    /\ links = <<>> /\ inflight = {}
    /\ linkView = {} /\ probed = <<>>
    /\ connected = {} /\ evQ = <<>> /\ reported = {} /\ envCount = 0

-----------------------------------------------------------------------------
\* Posting Link_events: what a subscriber applying them in order ends up with.
PostAdd(l) == linkView' = linkView \cup {l}

PostRemove(gone) == linkView' = linkView \ gone

\* link_delete(iterator, reason) for every link in gone.
LinkDelete(gone) ==
    /\ links' = Restrict(links, DOMAIN links \ gone)
    /\ PostRemove(gone)

Touches(l, S) == l[1] \in S \/ l[2] \in S

\* port_delete(iterator, reason) for the ports in S: the links with either
\* end on one of them are deleted, then the ports are erased.
PortDelete(S) ==
    /\ LinkDelete({l \in DOMAIN links : Touches(l, S)})
    /\ ports' = SelectSeq(ports, LAMBDA p : p \notin S)

\* link_add: a known link is stamped again; a new one is inserted and an
\* ADD Link_event posted.
LinkAdd(l) ==
    IF l \in DOMAIN links
    THEN links' = [links EXCEPT ![l] = "fresh"] /\ UNCHANGED linkView
    ELSE links' = links @@ (l :> "fresh") /\ PostAdd(l)

-----------------------------------------------------------------------------
PortsOf(d) == {p \in ToSet(ports) : p[1] = d}

\* Nox: a switch completes its handshake (register_switch posts a join).
DpConnect(d) ==
    /\ envCount < MaxEnv /\ d \notin connected
    /\ connected' = connected \cup {d}
    /\ evQ' = Append(evQ, <<"join", d>>)
    /\ envCount' = envCount + 1
    /\ UNCHANGED <<dps, ports, nextPort, links, inflight, linkView, probed, reported>>

\* Nox: Conn::close posts a leave and erases the id from connection_map.
DpDisconnect(d) ==
    /\ envCount < MaxEnv /\ d \in connected
    /\ connected' = connected \ {d}
    /\ evQ' = Append(evQ, <<"leave", d>>)
    /\ reported' = {p \in reported : p[1] # d}
    /\ envCount' = envCount + 1
    /\ UNCHANGED <<dps, ports, nextPort, links, inflight, linkView, probed>>

\* dp_join_handler -> dp_add: a datapath already registered is first
\* removed (dp_remove); then it is inserted (no ports come with it).
DpJoinHandler ==
    /\ evQ # <<>> /\ Head(evQ)[1] = "join"
    /\ LET d == Head(evQ)[2] IN
       /\ IF d \in dps THEN PortDelete(PortsOf(d))
                       ELSE UNCHANGED <<ports, links, linkView>>
       /\ dps' = dps \cup {d}
    /\ evQ' = Tail(evQ)
    /\ UNCHANGED <<nextPort, inflight, probed, connected, reported, envCount>>

\* dp_leave_handler -> dp_remove: delete every port with the datapath's id,
\* then erase it.
DpLeaveHandler ==
    /\ evQ # <<>> /\ Head(evQ)[1] = "leave"
    /\ LET d == Head(evQ)[2] IN
       /\ PortDelete(PortsOf(d))
       /\ dps' = dps \ {d}
    /\ evQ' = Tail(evQ)
    /\ UNCHANGED <<nextPort, inflight, probed, connected, reported, envCount>>

\* A port status message from a connected datapath, dispatched at once.
PortStatus(p) == envCount < MaxEnv /\ p[1] \in connected /\ envCount' = envCount + 1

\* Fault variant: port_add without the search for the port.
PortAddNoDedupe(p) ==
    /\ PortStatus(p)
    /\ ports' = Append(ports, p)
    /\ reported' = reported \cup {p}
    /\ UNCHANGED <<dps, nextPort, links, inflight, linkView, probed, connected, evQ>>

\* port_status_handler, OFPPR_ADD -> port_add: append unless already there.
PortAdd(p) ==
    /\ PortStatus(p)
    /\ ports' = IF p \in ToSet(ports) THEN ports ELSE Append(ports, p)
    /\ reported' = reported \cup {p}
    /\ UNCHANGED <<dps, nextPort, links, inflight, linkView, probed, connected, evQ>>

\* port_status_handler, OFPPR_DELETE -> port_delete(port, PORT).
PortDeleteHandler(p) ==
    /\ PortStatus(p)
    /\ PortDelete({p})
    /\ reported' = reported \ {p}
    /\ UNCHANGED <<dps, nextPort, inflight, probed, connected, evQ>>

\* Fault variant: next_port is not advanced.
SendLldpNoIncrement ==
    /\ ports # <<>>
    /\ LET i == IF Len(ports) <= nextPort THEN 0 ELSE nextPort
           p == ports[i + 1]
       IN /\ inflight' = IF p \in DOMAIN Wire THEN inflight \cup {<<CreateLldp(p), Wire[p]>>} ELSE inflight
          /\ nextPort' = i
          /\ probed' = p
    /\ UNCHANGED <<dps, ports, links, linkView, connected, evQ, reported, envCount>>

\* send_lldp (a timer that re-posts itself): probe ports[next_port], wrapping
\* to 0 when next_port is past the end, then advance next_port.  The frame
\* comes out at the other end of the port's cable, if any.
SendLldp ==
    /\ ports # <<>>
    /\ LET i == IF Len(ports) <= nextPort THEN 0 ELSE nextPort
           p == ports[i + 1]
       IN /\ inflight' = IF p \in DOMAIN Wire THEN inflight \cup {<<CreateLldp(p), Wire[p]>>} ELSE inflight
          /\ nextPort' = i + 1
          /\ probed' = p
    /\ UNCHANGED <<dps, ports, links, linkView, connected, evQ, reported, envCount>>

\* An LLDP frame is dropped on the wire, or arrives at a datapath with no
\* connection.
LldpLost(m) ==
    /\ m \in inflight
    /\ inflight' = inflight \ {m}
    /\ UNCHANGED <<dps, ports, nextPort, links, linkView, probed, connected, evQ, reported, envCount>>

\* packet_in_handler for an LLDP frame m[1] received by datapath m[2][1]:
\* sport is what parse_lldp reads, dport is (that datapath, 1); a loop is
\* ignored.  Only a connected datapath's Conn is polled; whether Discovery
\* has seen its join yet is not checked.
PacketInHandler(m) ==
    LET sport == ParseLldp(m[1])
        dport == <<m[2][1], 1>>
    IN /\ m \in inflight /\ m[2][1] \in connected
       /\ inflight' = inflight \ {m}
       /\ IF sport = dport THEN UNCHANGED <<links, linkView>>
                           ELSE LinkAdd(<<sport, dport>>)
       /\ UNCHANGED <<dps, ports, nextPort, probed, connected, evQ, reported, envCount>>

\* link_timeout passes for every link stamped so far.
Tick ==
    /\ \E l \in DOMAIN links : links[l] = "fresh"
    /\ links' = [l \in DOMAIN links |-> "old"]
    /\ UNCHANGED <<dps, ports, nextPort, inflight, linkView, probed, connected, evQ, reported, envCount>>

\* Fault variant: the age comparison is reversed.
TimeoutLinksReversed ==
    LET gone == {l \in DOMAIN links : links[l] = "fresh"} IN
    /\ gone # {}
    /\ LinkDelete(gone)
    /\ UNCHANGED <<dps, ports, nextPort, inflight, probed, connected, evQ, reported, envCount>>

\* timeout_links (a timer that re-posts itself): delete every link last
\* seen before now - link_timeout.
TimeoutLinks ==
    LET gone == {l \in DOMAIN links : links[l] = "old"} IN
    /\ gone # {}
    /\ LinkDelete(gone)
    /\ UNCHANGED <<dps, ports, nextPort, inflight, probed, connected, evQ, reported, envCount>>

DiscNext ==
    \/ \E d \in Dpids : DpConnect(d) \/ DpDisconnect(d)
    \/ DpJoinHandler \/ DpLeaveHandler
    \/ \E p \in AllPorts : PortAdd(p) \/ PortDeleteHandler(p)
    \/ SendLldp
    \/ \E m \in inflight : LldpLost(m) \/ PacketInHandler(m)
    \/ Tick
    \/ TimeoutLinks

\* Both timers are re-posted on every run, time passes, and the event
\* dispatcher drains its queue.
DiscFairSpec ==
    /\ DiscInit /\ [][DiscNext]_discVars
    /\ WF_discVars(DpJoinHandler) /\ WF_discVars(DpLeaveHandler)
    /\ WF_discVars(SendLldp) /\ WF_discVars(TimeoutLinks) /\ WF_discVars(Tick)

-----------------------------------------------------------------------------
(***************************************************************************)
(* A port a connected datapath announced (port_add) stays in the port     *)
(* vector until that session deletes it or ends: once Discovery has       *)
(* processed every join and leave of the datapath, each port its current  *)
(* session announced is there to be probed.  dp_remove deletes ports by   *)
(* datapath id, so a leave of an earlier session processed after the new  *)
(* session's port status also deletes the new session's ports.            *)
(***************************************************************************)
AnnouncedPortsKept ==
    \A p \in reported :
        (p[1] \in dps /\ \A i \in DOMAIN evQ : evQ[i][2] # p[1]) => p \in ToSet(ports)

(***************************************************************************)
(* Every link names its real cable (packet_in_handler): its destination is *)
(* the port at the other end of its source port's cable.                  *)
(***************************************************************************)
LinksMatchWiring == \A l \in DOMAIN links : l[1] \in DOMAIN Wire /\ Wire[l[1]] = l[2]

(***************************************************************************)
(* Round-robin probing (send_lldp, next_port): a port that stays in the   *)
(* port vector from some point on is probed again and again.               *)
(***************************************************************************)
ProbesEveryPort ==
    \A p \in AllPorts : <>[](p \in ToSet(ports)) => []<>(probed = p)

(***************************************************************************)
(* A link whose source port has been deleted (an LLDP frame still on the  *)
(* wire when its port went away re-creates one) is removed by             *)
(* timeout_links unless the port comes back.                               *)
(***************************************************************************)
LinkFromGonePortExpires ==
    \A l \in AllLinks :
        (l \in DOMAIN links /\ l[1] \notin ToSet(ports))
            ~> (l \notin DOMAIN links \/ l[1] \in ToSet(ports))

=============================================================================
