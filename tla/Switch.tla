------------------------------- MODULE Switch -------------------------------
(***************************************************************************)
(* The learning switch (src/src/nox/coreapps/switch/switch.cc) and the   *)
(* hub (src/src/nox/coreapps/hub/hubo.cc), whichever is loaded, composed  *)
(* with the Actions builder they use (ActionsBuilder.tla).  The hub       *)
(* handles only packet-ins: it installs a match-all flood flow for each   *)
(* and sends out an unbuffered packet itself.                              *)
(*                                                                         *)
(* handle_dp_join installs a table-miss flow that sends every packet to   *)
(* the controller.  handle, on a packet-in, drops LLDP, learns the source *)
(* MAC's port per datapath, looks up the destination, installs a flow     *)
(* when the port is known and sends the packet out (or floods it) when no *)
(* flow carries its buffer.                                                *)
(*                                                                         *)
(* Handlers run on the controller's cooperative threads: a handler keeps  *)
(* the CPU until it blocks, and the only blocking calls are its sends      *)
(* (block = true).  'running' is the thread holding the CPU.  Both         *)
(* handlers build an Actions object (new Actions, CreateOutput,            *)
(* Instruction::CreateApply) before their first send, so another handler  *)
(* can run only between a flow-mod send and the packet-out that follows.  *)
(*                                                                         *)
(* Messages reach the switch through the connection registry (nox.cc):  *)
(* a datapath connects (register_conn, which posts a Datapath_join event *)
(* to the dispatcher's queue) and disconnects (Conn::close), and may      *)
(* connect again as a new session.  Packet-ins are dispatched at once by  *)
(* Conn::poll, so one can be handled before the queued join.  Every send  *)
(* (send_openflow_msg / send_openflow_pkt -> send_openflow_command) looks *)
(* up the datapath's connection when it is made: it fails with ESRCH if   *)
(* the datapath has none, and goes to whatever session owns the id then.  *)
(*                                                                         *)
(* A packet is its datapath, source and destination MAC (a host or the    *)
(* multicast address), whether it is LLDP, buffered by the switch, or     *)
(* complete (total_len = data_length).  A source host's packets reach a  *)
(* datapath on the port Route gives (a static, loop-free topology).       *)
(***************************************************************************)
EXTENDS ActionsBuilder, SequencesExt

CONSTANTS
    Threads,      \* handler invocations that may be in progress at once
    NoThread,     \* the CPU is free
    Dps,          \* datapaths
    Hosts,        \* unicast MAC addresses
    Multicast,    \* a multicast MAC address
    PortIds,      \* switch ports
    Route,        \* [Dps \X Hosts -> PortIds]: the port a host is reached by
    Flood,        \* OFPP_FLOOD
    ControllerPt, \* OFPP_CONTROLLER
    NoPort,       \* "not learned" (Mac_source::port = -1)
    MaxPkts,      \* bound on packet-ins handled
    MaxEnv,       \* bound on connects and disconnects
    Flaky,        \* the datapaths whose connection may drop or be replaced
    ConfArgs,     \* candidate argument sets of the component's configuration
    Apps          \* the applications that may be loaded

ASSUME /\ Route \in [Dps \X Hosts -> PortIds] /\ Flaky \subseteq Dps
       /\ Apps \subseteq {"switch", "hub"}

Macs == Hosts \cup {Multicast}

\* A session is named by the connect that opened it.
Sessions == 1..MaxEnv

\* 'sess': the connection the packet-in arrived on (its buffer ids are that
\* switch session's).
Packet == [id : Nat, dp : Dps, sess : Sessions, inPort : PortIds, src : Macs,
           dst : Macs, lldp : BOOLEAN, buffered : BOOLEAN, complete : BOOLEAN]

\* The packets a datapath can send up: a host's frames enter on its port.
\* handle reads nothing but the type of an LLDP frame, nor the length of a
\* buffered one, nor the port of a frame it does not learn from (the port
\* appears only in the match and packet-out, which are not modelled), so
\* those are represented once.  A frame from and to multicast addresses
\* takes the path of one from a multicast to an unknown host, and is left
\* out; with one host, a frame from the host to itself is left out too
\* (the host's frames go to the multicast address, and the other's to it).
FrameKinds ==
    {f \in [dp : Dps, inPort : PortIds, src : Macs, dst : Macs, lldp : BOOLEAN,
            buffered : BOOLEAN, complete : BOOLEAN] :
        /\ f.inPort = IF f.src \in Hosts THEN Route[<<f.dp, f.src>>]
                       ELSE CHOOSE q \in PortIds : TRUE
        /\ f.lldp => /\ ~f.buffered /\ f.complete /\ f.dp = CHOOSE d \in Dps : TRUE
                     /\ f.src = Multicast /\ f.dst = Multicast
        /\ ~f.lldp => (f.src \in Hosts) # (f.dst \in Hosts)
        /\ f.buffered => f.complete}

\* The n-th packet-in, from a connected datapath's current connection.
Arrivals(n, conn) ==
    {[id |-> n, dp |-> f.dp, sess |-> conn[f.dp], inPort |-> f.inPort,
      src |-> f.src, dst |-> f.dst, lldp |-> f.lldp, buffered |-> f.buffered,
      complete |-> f.complete] : f \in {g \in FrameKinds : conn[g.dp] # 0}}

VARIABLES
    sources,     \* Switch::sources: <<dpid, mac>> -> port, or NoPort
    setupFlows,  \* Switch::setup_flows (configure: "noflow" clears it)
    app,         \* the packet-in application loaded: "switch" or "hub"
    running,     \* the thread holding the CPU
    pc,          \* per thread: "idle" or the handler's progress
    sent,        \* flow mods and packet-outs sent
    finished,    \* packet-ins whose handler has returned
    pktCount,    \* packet-ins handled so far
    connOf,      \* connection_map: datapath -> its session, 0 if none
    envCount,    \* connects and disconnects so far
    joinQ        \* Datapath_join events posted and not yet delivered

swVars == <<sources, setupFlows, app, running, pc, sent, finished, pktCount,
            connOf, envCount, joinQ>>
vars == <<abVars, swVars>>

\* A flow mod or packet-out: 'pkt' is the packet-in it answers (0 for the
\* table-miss flow) and 'from' the session it arrived on; 'carries' is TRUE
\* when it releases that packet (a buffer id, or the packet's data), 'buf'
\* when it names the packet's buffer id; 'sess' is the session the send
\* went to, 0 when it failed with ESRCH; 'insts' is a flow mod's
\* instructions_num (0 for a packet-out).
Msg == [kind : {"flow", "out"}, dp : Dps, pkt : Nat, from : Sessions \cup {0},
        sess : Sessions \cup {0}, dst : Macs \cup {NoPort},
        out : PortIds \cup {Flood, ControllerPt}, carries : BOOLEAN, buf : BOOLEAN,
        insts : Nat]

SwTypeOK ==
    /\ AbTypeOK
    /\ sources \in [Dps \X Hosts -> PortIds \cup {NoPort}]
    /\ setupFlows \in BOOLEAN /\ app \in Apps
    /\ running \in Threads \cup {NoThread}
    /\ sent \subseteq Msg /\ finished \subseteq Packet
    /\ pktCount \in 0..MaxPkts
    /\ connOf \in [Dps -> Sessions \cup {0}] /\ envCount \in 0..MaxEnv
    /\ joinQ \in Seq(Dps)

\* A thread with no handler in progress.
Idle == [step |-> "idle"]

\* Every datapath has completed its handshake: register_conn gave each a
\* session and posted its join event, in the order of the sessions.
InitiallyConnected ==
    /\ connOf \in {f \in [Dps -> 1..Cardinality(Dps)] : IsInjective(f)}
    /\ envCount = Cardinality(Dps)
    /\ joinQ = SetToSortSeq(Dps, LAMBDA a, b : connOf[a] < connOf[b])

SwInit ==
    /\ AbInit
    /\ sources = [k \in Dps \X Hosts |-> NoPort]
    /\ \E args \in ConfArgs : setupFlows = ("noflow" \notin args)
    /\ app \in Apps
    /\ running = NoThread
    /\ pc = [t \in Threads |-> Idle]
    /\ sent = {} /\ finished = {} /\ pktCount = 0
    /\ InitiallyConnected

-----------------------------------------------------------------------------
\* The source table: insert (dpid, mac) if absent, then set its port.
Learn(s, dp, mac, port) == [s EXCEPT ![<<dp, mac>>] = port]

\* Fault variant: the key's datapath is ignored (Mac_source compared by MAC).
LookupAnyDp(s, dp, mac) ==
    IF \E d \in Dps : s[<<d, mac>>] # NoPort
    THEN s[<<CHOOSE d \in Dps : s[<<d, mac>>] # NoPort, mac>>] ELSE NoPort

\* sources.find(Mac_source(dpid, mac)).
Lookup(s, dp, mac) == s[<<dp, mac>>]

\* Fault variant: the find result is used without the end() check.
OutPortNoKnownCheck(s, p) ==
    IF p.dst # Multicast THEN Lookup(s, p.dp, p.dst) ELSE Flood

\* The port handle computes for a packet after learning its source: the
\* destination's port if unicast and known, else flood.
OutPort(s, p) ==
    IF p.dst # Multicast /\ Lookup(s, p.dp, p.dst) # NoPort
    THEN Lookup(s, p.dp, p.dst) ELSE Flood

\* The packet-in slot of a join handler: no packet (id 0, nothing to release).
JoinPkt(d) == [id |-> 0, dp |-> d, sess |-> 0, inPort |-> CHOOSE q \in PortIds : TRUE,
               src |-> Multicast, dst |-> Multicast,
               lldp |-> FALSE, buffered |-> FALSE, complete |-> FALSE]

\* dpid_to_oconn: the connection registered for the datapath id now, or 0
\* when none is (send_openflow_command then returns ESRCH).
DpidToOconn(d) == connOf[d]

\* send_openflow_msg / send_openflow_command: the flow mod goes to the
\* connection dpid_to_oconn finds at the time of the send.
FlowMsg(p, out, n) == [kind |-> "flow", dp |-> p.dp, pkt |-> p.id, from |-> p.sess,
                       sess |-> DpidToOconn(p.dp), dst |-> p.dst, out |-> out,
                       carries |-> p.buffered, buf |-> p.buffered, insts |-> n]

\* send_openflow_pkt with the buffer id, or with the data (buffer id -1).
OutMsg(p, out) == [kind |-> "out", dp |-> p.dp, pkt |-> p.id, from |-> p.sess,
                   sess |-> DpidToOconn(p.dp), dst |-> p.dst, out |-> out,
                   carries |-> TRUE, buf |-> p.buffered, insts |-> 0]

\* Fault variant: a packet-out only when flows are off or the packet is
\* unbuffered (the unknown-destination case is forgotten).
PacketOutNoFloodCase(p, out) ==
    IF ~setupFlows \/ ~p.buffered
    THEN IF ~p.buffered /\ ~p.complete THEN {} ELSE {OutMsg(p, out)}
    ELSE {}

\* Fault variant: the packet-out is sent whenever the packet can be released.
PacketOutAlways(p, out) ==
    IF ~p.buffered /\ ~p.complete THEN {} ELSE {OutMsg(p, out)}

\* Hub::handler after its flow mod: only an unbuffered packet that came
\* whole is sent out, flooded; a buffered one was released by the flow mod.
HubPacketOut(p) ==
    IF ~p.buffered /\ p.complete THEN {OutMsg(p, Flood)} ELSE {}

\* The tail of handle: send the packet out unless a flow mod carried its
\* buffer; an unbuffered packet that was truncated is dropped.
PacketOut(p, out) ==
    IF ~setupFlows \/ out = Flood \/ ~p.buffered
    THEN IF ~p.buffered /\ ~p.complete THEN {} ELSE {OutMsg(p, out)}
    ELSE {}

-----------------------------------------------------------------------------
\* handle, up to its first send.  LLDP is dropped; a multicast source is
\* not learned.  With a known destination (and flows on) the handler goes
\* on to build the flow's actions; otherwise it sends the packet-out and
\* returns (yielding the CPU while it sends).
\* Conn::poll dispatches a packet-in from a connected datapath.
Handle(t, p) ==
    LET s2 == IF p.src # Multicast THEN Learn(sources, p.dp, p.src, p.inPort) ELSE sources
        out == OutPort(s2, p)
    IN
    /\ app = "switch"
    /\ running = NoThread /\ pc[t].step = "idle" /\ pktCount < MaxPkts
    /\ pktCount' = pktCount + 1
    /\ IF p.lldp
       THEN /\ finished' = finished \cup {p}
            /\ UNCHANGED <<sources, pc, sent, running>>
       ELSE /\ sources' = s2
            /\ IF setupFlows /\ out # Flood
               THEN /\ pc' = [pc EXCEPT ![t] = [step |-> "new", pkt |-> p, out |-> out, obj |-> None, insts |-> 0]]
                    /\ running' = t
                    /\ UNCHANGED <<sent, finished>>
               ELSE /\ sent' = sent \cup PacketOut(p, out)
                    /\ finished' = finished \cup {p}
                    /\ UNCHANGED <<pc, running>>
    /\ UNCHANGED <<abVars, setupFlows, app, connOf, envCount, joinQ>>

\* Hub::handler: LLDP is dropped; any other packet-in gets a match-all
\* flow mod that floods (carrying the buffer id), built like the switch's.
HubHandler(t, p) ==
    /\ app = "hub"
    /\ running = NoThread /\ pc[t].step = "idle" /\ pktCount < MaxPkts
    /\ pktCount' = pktCount + 1
    /\ IF p.lldp
       THEN /\ finished' = finished \cup {p}
            /\ UNCHANGED <<pc, running>>
       ELSE /\ pc' = [pc EXCEPT ![t] = [step |-> "new", pkt |-> p, out |-> Flood, obj |-> None, insts |-> 0]]
            /\ running' = t
            /\ UNCHANGED finished
    /\ UNCHANGED <<abVars, sources, setupFlows, app, sent, connOf, envCount, joinQ>>

\* handle_dp_join: build the table-miss flow (output to the controller).
\* The dispatcher delivers the oldest queued join event.
HandleDpJoin(t) ==
    /\ app = "switch"
    /\ running = NoThread /\ pc[t].step = "idle" /\ joinQ # <<>>
    /\ joinQ' = Tail(joinQ)
    /\ pc' = [pc EXCEPT ![t] = [step |-> "new", pkt |-> JoinPkt(Head(joinQ)),
                                 out |-> ControllerPt, obj |-> None, insts |-> 0]]
    /\ running' = t
    /\ UNCHANGED <<abVars, sources, setupFlows, app, sent, finished, pktCount,
                   connOf, envCount>>

\* new Actions(); acts->CreateOutput(port); new Instruction();
\* inst->CreateApply(acts); new FlowMod: the builders' own steps, taken by
\* the thread holding the CPU.  Which fresh
\* object new returns is immaterial, so one is chosen.
SwNewActions(t) ==
    /\ running = t /\ pc[t].step = "new"
    /\ made # Objs
    /\ LET a == CHOOSE o \in Objs \ made : TRUE IN
       NewActions(a) /\ pc' = [pc EXCEPT ![t].step = "output", ![t].obj = a]
    /\ UNCHANGED <<sources, setupFlows, app, running, sent, finished, pktCount,
                   connOf, envCount, joinQ>>

SwCreateOutput(t) ==
    /\ running = t /\ pc[t].step = "output"
    /\ CreateGuarded(pc[t].obj, "Output")
    /\ pc' = [pc EXCEPT ![t].step = "inst"]
    /\ UNCHANGED <<sources, setupFlows, app, running, sent, finished, pktCount,
                   connOf, envCount, joinQ>>

\* new Instruction().
SwNewInstruction(t) ==
    /\ running = t /\ pc[t].step = "inst"
    /\ NewInstruction
    /\ pc' = [pc EXCEPT ![t].step = "apply"]
    /\ UNCHANGED <<sources, setupFlows, app, running, sent, finished, pktCount,
                   connOf, envCount, joinQ>>

SwCreateApply(t) ==
    /\ running = t /\ pc[t].step = "apply"
    /\ CreateApply(pc[t].obj)
    /\ pc' = [pc EXCEPT ![t].step = "mod"]
    /\ UNCHANGED <<sources, setupFlows, app, running, sent, finished, pktCount,
                   connOf, envCount, joinQ>>

\* new FlowMod(...); AddMatch; AddInstructions(inst): the message takes
\* instructions_num = inst_num, read when AddInstructions runs.
SwNewFlowMod(t) ==
    /\ running = t /\ pc[t].step = "mod"
    /\ pc' = [pc EXCEPT ![t].step = "send", ![t].insts = instNum]
    /\ UNCHANGED <<abVars, sources, setupFlows, app, running, sent, finished, pktCount,
                   connOf, envCount, joinQ>>

\* send_openflow_msg(flow mod, block = true): the handler yields the CPU.
SendFlowMod(t) ==
    /\ running = t /\ pc[t].step = "send"
    /\ sent' = sent \cup {FlowMsg(pc[t].pkt, pc[t].out, pc[t].insts)}
    /\ pc' = [pc EXCEPT ![t].step = "blocked"]
    /\ running' = NoThread
    /\ UNCHANGED <<abVars, sources, setupFlows, app, finished, pktCount,
                   connOf, envCount, joinQ>>

\* The send completes and the handler resumes: handle (or the hub's
\* handler) sends the packet-out if one is needed; the handlers return.
AfterFlowMod(t) ==
    /\ running = NoThread /\ pc[t].step = "blocked"
    /\ LET p == pc[t].pkt IN
       IF p.id = 0
       THEN UNCHANGED <<sent, finished>>
       ELSE /\ sent' = sent \cup IF app = "hub" THEN HubPacketOut(p)
                                  ELSE PacketOut(p, pc[t].out)
            /\ finished' = finished \cup {p}
    /\ pc' = [pc EXCEPT ![t] = Idle]
    /\ UNCHANGED <<abVars, sources, setupFlows, app, running, pktCount,
                   connOf, envCount, joinQ>>

\* register_conn after a successful handshake: the datapath's new session
\* replaces the old one (closed first) and a join event is posted.
DpConnect(d) ==
    /\ running = NoThread /\ envCount < MaxEnv
    /\ envCount' = envCount + 1
    /\ connOf' = [connOf EXCEPT ![d] = envCount + 1]
    /\ joinQ' = Append(joinQ, d)
    /\ UNCHANGED <<abVars, sources, setupFlows, app, running, pc, sent, finished, pktCount>>

\* Conn::do_poll sees EOF or an error and closes: the entry is erased (the
\* switch has no Datapath_leave handler and keeps its learned ports).
DpDisconnect(d) ==
    /\ running = NoThread /\ connOf[d] # 0 /\ envCount < MaxEnv
    /\ envCount' = envCount + 1
    /\ connOf' = [connOf EXCEPT ![d] = 0]
    /\ UNCHANGED <<abVars, sources, setupFlows, app, running, pc, sent, finished,
                   pktCount, joinQ>>

SwNext ==
    \/ \E d \in Flaky : DpConnect(d) \/ DpDisconnect(d)
    \/ \E t \in Threads :
        \/ \E p \in Arrivals(pktCount + 1, connOf) : Handle(t, p)
        \/ \E p \in Arrivals(pktCount + 1, connOf) : HubHandler(t, p)
        \/ HandleDpJoin(t)
        \/ SwNewActions(t) \/ SwCreateOutput(t) \/ SwNewInstruction(t)
        \/ SwCreateApply(t) \/ SwNewFlowMod(t)
        \/ SendFlowMod(t) \/ AfterFlowMod(t)

SwSpec == SwInit /\ [][SwNext]_vars

-----------------------------------------------------------------------------
(***************************************************************************)
(* Forwarding follows the topology (handle's learning and lookup): while   *)
(* hosts stay where they are, every flow and packet-out aimed at a single *)
(* port for a destination host on a datapath uses the port that host is    *)
(* reached by on that datapath.                                            *)
(***************************************************************************)
ForwardsTowardDestination ==
    \A m \in sent : m.out \in PortIds => m.out = Route[<<m.dp, m.dst>>]

(***************************************************************************)
(* Each packet is released exactly once (handle's flow-mod and packet-out *)
(* conditions): once its handler has returned, a buffered packet-in, or   *)
(* an unbuffered one carrying the whole frame, is released by exactly one *)
(* send (the flow mod carrying its buffer id, or one packet-out; the send *)
(* may fail with ESRCH), and an LLDP or truncated unbuffered packet by    *)
(* none.                                                                   *)
(***************************************************************************)
Releases(p) == {m \in sent : m.pkt = p.id /\ m.carries}

PacketReleasedOnce ==
    \A p \in finished :
        Cardinality(Releases(p)) =
            IF ~p.lldp /\ (p.buffered \/ p.complete) THEN 1 ELSE 0


(***************************************************************************)
(* A buffer id is only used on its own connection (handle's sends through *)
(* send_openflow_command, which resolves the datapath id when it sends):  *)
(* although the handler yields in its flow-mod send, and the datapath may *)
(* reconnect meanwhile, no flow mod or packet-out naming a packet's       *)
(* buffer id reaches a session other than the one the packet came in on. *)
(***************************************************************************)
BufferStaysInSession ==
    \A m \in sent : m.buf /\ m.sess # 0 => m.sess = m.from

(***************************************************************************)
(* A flow mod carries its own instruction (handle, handle_dp_join and the *)
(* hub's handler with the static Instruction::inst_num): every flow mod   *)
(* sent has instructions_num 1, the one Apply instruction its handler     *)
(* created, although inst_num is shared by every Instruction and other    *)
(* handlers build theirs while this one is blocked in a send.             *)
(***************************************************************************)
FlowModCarriesOwnInstruction ==
    \A m \in sent : m.kind = "flow" => m.insts = 1

=============================================================================
