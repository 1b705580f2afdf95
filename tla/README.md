# TLA+ models of the NOX OpenFlow controller core (nox13oflib)

This directory holds TLA+ models of the NOX controller in `src/`. They are checked with
TLC. `PROJECT.json` lists the components, the runs, the mutants, the map from every
definition to the source lines it translates, and the hazards.

## The system

NOX is a single-process OpenFlow controller. It runs on a cooperative thread
library: one thread runs at a time, and control passes only at a block, a
`co_fsm_block`, or a return to the poll loop. Its parts are listed below.

| Part | Source | State | Operations |
|---|---|---|---|
| Connectors | `builtin/nox.cc` `connect`, `do_connect`, connector threads | none of their own | accept/connect a transport, then create a `Handshake_fsm` |
| Handshake FSM | `builtin/nox.cc` `Handshake_fsm` | `state`, `timeout`, `switch_approved`, `features_reply`, `completion` | `run`, `send_message`, `recv_message`, `check_switch_auth`, `switch_auth_cb`, `register_switch`, `do_exit` |
| Switch auth hook | `builtin/nox.cc` `register_switch_auth`, `component.cc` | `switch_authenticator` | register (first wins), asynchronous approve/deny callback |
| Connection registry and pump | `builtin/nox.cc` `Conn`, `connection_map`, `register_conn`, `close_openflow_connection` | map from datapath id to `Conn`; per-`Conn` `closing` and `poll_cnt` | `Conn::poll` / `do_poll` (dispatch a message, or close on EOF/error), `Conn::close`, `register_conn` |
| Event posting | `builtin/nox.cc` `post_event`, `event_dispatcher.post` | FIFO queue of posted events | post a `Datapath_join_event` / `Datapath_leave_event`; later delivery |
| Event dispatcher component | `builtin/event-dispatcher-component.cc` | event names, filter order per event | `register_event`, `register_handler`, `post` |
| Packet classifier | `builtin/packet-classifier.cc` | rules (classifier not under `src/`) | `handle_packet_in` |
| Discovery | `nox/netapps/discovery/discovery.cc` | `dps`, `ports`, `next_port`, `links` | `dp_join_handler`, `dp_leave_handler`, `port_status_handler`, `send_lldp` timer, `packet_in_handler`, `timeout_links` timer |
| Learning switch, hub | `nox/coreapps/switch/switch.cc`, `hub/hubo.cc` | `sources` (MAC table), `setup_flows` | `handle_dp_join` (table-miss flow), `handle` (learn, look up, flow mod, packet-out), `Hub::handler` (match-all flood flow, packet-out of unbuffered packets) |
| Message builders | `lib/actions.cc`, `instructions.cc`, `flow.cc`, `flowmod.cc`, `include/actions.hh` | `acts` array, static `act_num`, static `inst_num` | `Create*` append an action; `Instruction::CreateApply`; `FlowMod::AddInstructions` |
| Message events, codec glue | `lib/ofp-msg-event.cc`, headers | none | wrap decoded messages as events |
| Signal handler, log fetcher | `builtin/nox.cc` | I/O threads | not part of the core's control state |

How the parts interact:

1. A connector creates a `Handshake_fsm` for each new transport.
2. The FSM runs send features request → send config → receive features reply →
   check switch auth → register switch. Each failure calls `do_exit` with an errno.
   `run()` checks the deadline each time it is resumed.
3. When registration succeeds, `register_conn` wraps the transport in a `Conn`, adds
   it to the poll loop and inserts it into `connection_map`. If the datapath id is
   already taken, the old `Conn` is closed first: it posts a leave event, erases its
   entry and is deleted unless a poll of it is on the stack. The new `Conn` is then
   inserted, and the FSM posts a `Datapath_join_event`.
4. `Conn::poll` raises `poll_cnt` and dispatches the decoded message to application
   handlers synchronously. Those handlers can block, or close the very connection
   being polled. The `Conn` deletes itself when it is closing and its last poll
   returns.
5. Posted events reach applications later, in FIFO order. Discovery keeps the set of
   joined datapaths from them.

The behaviours that are hard to test:

- Nested polls racing a close.
- Re-registration of a datapath id while the old connection's leave event is still
  queued.
- A deadline that passes while the FSM is blocked.
- An auth hook registered part-way through.
- Events that reach applications after the registry has already changed.

## Modules

| Module | Models | Correspondence |
|---|---|---|
| `ConnRegistry.tla` | connection registry, `Conn` lifecycle, message pump, event queue, Discovery's `dps` | See the list below. |
| `NoxCore.tla` | Handshake FSM, connectors, auth hook; composes `ConnRegistry` | See the list below. |
| `MCNoxCore.tla` | model-checking instance: `Dpids = {0,1}`, `MaxPollDepth = 2` | |
| `AbstractRegistry.tla` | what the registry promises: each valid id has at most one owner, replacement and close are announced in order, delivered later | `owner`, `admitted`, `posted`, `delivered`, `view`; `Admit`, `Drop`, `Deliver`. `NoxCore.tla` instantiates it as `AbsReg` (mapping `connMap`, the connections with a nonzero id, `evLog`, `delivered`, `dps`), and `RegistryRefinement == AbsReg!AbsSpec` is checked as a property. |
| `EventDispatcher.tla` | `event-dispatcher-component.cc`, `Component::register_event/register_handler` | `config` is the "events" section; `ChainOf` is the constructor's `chain[filter] = order++` (a repeated name keeps its last position); `EffOrder` gives an unlisted component order 0; `RegisterEvent`, `RegisterHandler` (with the `runtime_error` branch recorded in `failed`), `Dispatch` runs the list until `STOP`. The handler list and dispatch of `Event_dispatcher` are outside `src/` and modelled from the spec. |
| `PacketClassifier.tla` | `packet-classifier.cc` `handle_packet_in`, `register_handler_on_match` | `rules`, `nextId`; `TopBand` is the do/while loop as a RECURSIVE operator, checked against the reference `TopBandOf`; the result iterator's order is modelled from the spec. |
| `ActionsBuilder.tla` | `lib/actions.cc`, `include/actions.hh`, `Instruction::Instruction`, `Instruction::CreateApply` | the heap array of each `Actions` as its capacity and stored indexes, the static `act_num`, the static `inst_num` (`NewInstruction` resets it, `CreateApply` increments it), `applied` (the count `AddActions` copies) and `fault` (undefined behaviour reached). One action per shape of `Create*`: guarded grow, unguarded grow (`CreateSetMplsTTL`, `CreateSetField`), `CreateCopyTTL`. |
| `Discovery.tla` | `discovery.cc`, and of `nox.cc` what Discovery sees | `connected` (the ids in `connection_map`), `evQ` (the posted joins and leaves, handled in order by `DpJoinHandler` and `DpLeaveHandler`), `reported` (the ports the current sessions announced, a history variable), `dps`, `ports` (a sequence, as the vector), `nextPort` (starts at `(size_t)-1`, modelled as one past the end), `links` with "fresh"/"old" ages, LLDP frames in flight (they can be lost), `linkView` (the `Link_event`s posted). `DpConnect` and `DpDisconnect` are `register_switch`'s posted join and `Conn::close`'s posted leave; `PortAdd` and `PortDeleteHandler` are port status dispatched at once from `Conn::do_poll` of a connected datapath, with no check of `dps`, as in the code. `SendLldp` is the round-robin timer, `PacketInHandler` the LLDP receive with its fixed destination port 1, `TimeoutLinks` the aging timer, `Tick` the passing of a timeout period. |
| `Switch.tla` | `switch.cc` and `hubo.cc` (whichever `app` is loaded), composed with `ActionsBuilder` | `sources`, `setupFlows`, per-thread `pc`, `running` (the thread holding the CPU), `sent` (flow mods and packet-outs), `finished`. `Handle` is `handle` up to its first send; `SwNewActions`, `SwCreateOutput`, `SwNewInstruction`, `SwCreateApply` drive the builders and `SwNewFlowMod` copies `inst_num` into the flow mod (`AddInstructions`); `SendFlowMod` blocks and yields; `AfterFlowMod` sends the packet-out that follows. `HubHandler` and `HubPacketOut` are `Hub::handler` before and after its flow-mod send. `HandleDpJoin` is `handle_dp_join`, fed by `joinQ`, the queue of posted join events. `connOf` gives each datapath its current connection (a session number, 0 when none): `DpConnect` is `register_conn` (a new session, replacing any old one, and a posted join), `DpDisconnect` is `do_poll`'s EOF/error close. `DpidToOconn` is `dpid_to_oconn`: every message records the session its packet came from and the one the send resolved to, 0 for `ESRCH`. |

The MC modules (`MCEventDispatcher`, `MCPacketClassifier`, `MCActionsBuilder`,
`MCDiscovery`, `MCSwitch`) give the constants small values; the bounds are below.


`ConnRegistry.tla` correspondence:

- **Variables:**
  - `connMap` is `connection_map`.
  - `conns` is the set of `Conn` objects not yet deleted.
  - `closed` holds the `closing` flags.
  - `pollable` is the set registered with the poll loop.
  - `pollCnt` is `poll_cnt`.
  - `dpidOf` is `oconn->get_datapath_id()`.
  - `evLog` plus `delivered` is the dispatcher's queue: everything ever posted, and how much of it has been delivered.
  - `dps` is `Discovery::dps`.
- **Actions:**
  - `Close` is `Conn::close`.
  - `RegisterConn` is `register_conn`.
  - `PollMessage` / `PollReturn` are the two halves of `Conn::poll` around a dispatched message.
  - `PollDisconnect` is `do_poll`'s EOF and error branches.
  - `CloseConnection` is `close_openflow_connection`.
  - `DeliverPosted` delivers one queued event to Discovery's join or leave handler (`DpAdd`, `DpRemove`).

`NoxCore.tla` correspondence:

- **Variables:**
  - `hsState` is `Handshake_fsm::state`, extended with `idle` and `exited`.
  - `authPending` is the set blocked on `completion.wait`.
  - `approved` is `switch_approved`.
  - `featuresDpid` is the datapath id in `features_reply`.
  - `expired` is "the deadline has passed".
  - `exitCode` is `*errorp`.
  - `authHook` is `switch_authenticator != NULL`.
- **Actions:**
  - `Connect` is `do_connect`.
  - `DeadlinePasses` is the clock.
  - `Timeout` is `run`'s deadline check.
  - `SendMessage`, `RecvMessage`, `CheckSwitchAuth`, `SwitchAuthCb` and `RegisterSwitch` each model the method of that name.
  - `RegisterBody` is the body of `register_switch`. It is shared with the auto-approving nested `run()` inside `check_switch_auth`.
  - `RegisterSwitchAuth` is `register_switch_auth`.

Abstractions:

- **Clock:** time is a per-session flag that an environment action sets.
- **No-change outcomes:** send/receive outcomes `EAGAIN`, and messages the FSM drops
  (echo, packet-in, other types, undecodable), change no state and are stutters.
- **Messages:** a message's content is reduced to the datapath id of a features
  reply. Other messages are "an event dispatched inside a poll".
- **Sending to switches:** this changes no controller state and has no action in `NoxCore`;
  `Switch.tla` models the id-to-connection lookup each send makes.

## Runs

| Run | cfg | Expect | Properties | What it shows |
|---|---|---|---|---|
| `core` | `MCNoxCore.cfg` | pass | `TypeOK`, `RegistryConsistent`, `DeferredDestruction`, `JoinLeaveHistory`, `AppViewConverges`, `AdmittedOnlyApproved`, `RegistryRefinement`, `HandshakeTerminates`, `ClosedConnFreed` | Handshakes, duplicate-id registration, nested polls, closes and delayed delivery interleaved: the map holds only live, approved, non-closing connections with a nonzero id; a `Conn` is never deleted under a poll; each datapath's events alternate join/leave; Discovery's view equals the registry once the queue drains; every step is a step of `AbstractRegistry`; under the fairness below every handshake ends and every closed `Conn` is deleted. |
| `dispatcher_order` | `MCEventDispatcher.cfg` | pass | `EdTypeOK`, `ConfigOrderHonoured` | For every packet-in filter list of up to three entries, repeats included, and any binding order, the handlers of two listed components run in the order the configuration lists them. |
| `classifier_top_band` | `MCPacketClassifier.cfg` | pass | `PcTypeOK`, `TopBandExact` | The loop runs exactly the matched rules of top priority, in insertion order. |
| `classifier_packet_data` | `MCPacketClassifierData.cfg` | violation | `InvokedMatchPacket` | The rules run do not depend on the packet (finding 1). |
| `actions_sequential` | `MCActionsSequential.cfg` | pass | `AbTypeOK`, `WellFormedApply` | Building and applying one `Actions` at a time, the applied count equals the calls made and every entry below it is set. |
| `switch_learning` | `MCSwitch.cfg` | pass | `SwTypeOK`, `ForwardsTowardDestination`, `PacketReleasedOnce`, `NoOutOfBoundsWrite`, `WellFormedApply`, `BufferStaysInSession`, `FlowModCarriesOwnInstruction` | With the learning switch or the hub loaded: two handler threads, two datapaths that reach the host by different ports, two packet-ins of every kind, both joins, and a reconnect or disconnect of either datapath at any point. Flows and packet-outs go to the destination host's port on that datapath; every buffered or complete packet is released by exactly one send (which may fail with `ESRCH`); a buffer id is never sent on a later connection than the packet came from, although the handler yields in its flow-mod send; the builders, used only with `CreateOutput` and never across a yield, stay in bounds and well formed, and every flow mod carries the one instruction its handler built although `inst_num` is static. (About 225 000 states, about 1.5 minutes.) |
| `actions_set_mpls` | `MCActionsSetMpls.cfg` | violation | `NoOutOfBoundsWrite` | Finding 2. |
| `actions_copy_ttl` | `MCActionsCopyTTL.cfg` | violation | `NoUninitDeref` | Finding 3. |
| `actions_shared_count` | `MCActionsShared.cfg` | violation | `WellFormedApply` | Finding 4. |
| `discovery_links` | `MCDiscovery.cfg` | pass | `DiscTypeOK`, `ProbesEveryPort`, `LinkFromGonePortExpires` | Two datapaths on one cable connecting, disconnecting and losing ports while joins and leaves are queued and frames are in flight or lost: every port that stays is probed again and again; a link from a port that is gone eventually expires. |
| `discovery_wiring` | `MCDiscoveryWiring.cfg` | violation | `LinksMatchWiring` | Finding 5. |
| `discovery_reconnect` | `MCDiscoveryReconnect.cfg` | violation | `AnnouncedPortsKept` | Finding 6. |

Each property of a passing run has a mutant in `PROJECT.json`: a plausible bug in
the mapped code (a dropped guard, a missing reset, an off-by-one, a swapped order)
under which TLC reports the property violated.

### Findings

1. **Packet classifier ignores the packet** (`packet-classifier.cc:44`). The Flow is
   never built and `set_data` is commented out, so the same rules run for every
   packet, against spec 4.4.
2. **Out-of-bounds write** (`actions.cc:125`, `actions.hh:28`). `CreateSetMplsTTL` and
   `CreateSetField` realloc to `act_num` entries and write entry `act_num`. This is
   out of bounds on every call, the first one included: `xrealloc` of 0 bytes
   returns a 1-byte block, which holds no pointer.
3. **Write through an unset pointer** (`actions.cc:50`). `CreateCopyTTL` sets
   `acts[act_num]->type` before storing `acts[act_num]`.
4. **Shared action count** (`actions.cc:11`). `act_num` is static and reset by every
   constructor, so two `Actions` built alongside each other corrupt each other. The
   in-tree users are safe only because they build and apply one object between two
   yields, which `switch_learning` confirms.
5. **Discovery's fixed destination port** (`discovery.cc:129`). A link always ends at
   port 1, so with the cable on another port the link names the wrong port, survives
   the deletion of the real one and dies with port 1.
6. **A late leave deletes the new session's ports** (`discovery.cc:171`). Joins and
   leaves are posted, while port status is dispatched at once from `Conn::do_poll`.
   When a switch disconnects and reconnects before Discovery handles the leave, a
   port the new session announces in between is deleted by that leave's
   `dp_remove`, which matches ports by datapath id only. The join that follows
   adds no ports, so the port is not probed until the switch announces it again.

Discovery also carries only the low 48 bits of a datapath id in its LLDP frames
(`discovery.cc:350`, `:378`). `dp_join_handler` warns about such ids
(`discovery.cc:84-86`), so this is documented behaviour and no run checks it.
`Discovery.tla` keeps an id as the pair of its upper 16 and lower 48 bits, so that
`CreateLldp` and `ParseLldp` do what the code does.

### Bounds

- **Core:** three transports, so two can compete for one id while a third is still
  in its handshake. Ids `{0, 1}`: 0 is invalid and one valid id forces every pair of
  successful handshakes to collide. `MaxPollDepth = 2` nests a poll inside a blocked
  handler of another poll of the same connection.
- **Dispatcher:** three components and every filter list of length at most 3, so a
  repeated name, an unlisted component and the classifier's order 100 all occur.
- **Classifier:** two priorities, two expressions, three rules: a tie at the top above
  a lower rule, and deletes.
- **Builder:** two objects and three entries: one object grows past its first entry
  while another is built.
- **Discovery:** two datapaths, one cable, `MaxEnv = 6` environment events
  (connects, disconnects, port changes), enough for a port to go while its link is
  fresh. `discovery_reconnect` needs only one datapath with one port and no cable:
  connect, disconnect, reconnect and one port status are four events.
- **Switch:** the switch or the hub (`Apps`), two threads (one runs while the other
  is blocked in a send), two datapaths on which the host sits behind different ports
  (so a lookup keyed on the wrong datapath is caught), one host plus a multicast
  address, two packet-ins of every kind (LLDP, buffered, complete, truncated). A
  frame goes from the host to the multicast address or from the multicast address
  to the host: a frame between two multicast addresses takes the path of one to an
  unknown host, and a host does not address itself. Both datapaths start connected
  with their joins queued; `MaxEnv = 3` then allows one reconnect or disconnect of
  either datapath (`Flaky`), at any point, including while a handler is blocked in
  its flow-mod send. Five `Actions` objects: three joins and two flows. `setup_flows`
  is true: the `noflow` argument is documented as only useful for debugging, and
  with it every packet takes the packet-out branch that the flow-mod runs already
  include. Symmetry over the threads, which are interchangeable and not named by any
  property.
- **Discovery ids:** `{<<0,1>>, <<0,2>>}`; ids with upper bits set are not checked
  (see above).

### Fairness

`FairSpec` (core) uses weak fairness, since each step stays enabled until taken:

- **Clock:** the clock advances.
- **Deadline check:** a runnable FSM whose deadline passed is resumed.
- **Auth step:** a runnable FSM at the auth step proceeds, and so does one that is
  ready to register.
- **Auth callback:** a registered auth hook eventually calls back. This is an
  assumption on the hook, not a guarantee of the code.
- **Poll return:** a poll on the stack eventually returns.

`DiscFairSpec` (Discovery) is weakly fair to `SendLldp`, `TimeoutLinks` and `Tick`:
both handlers are timers that re-post themselves, and the cooperative scheduler runs
a due timer. It is also weakly fair to `DpJoinHandler` and `DpLeaveHandler`: the
event dispatcher is a pollable of the main loop and drains its queue. Nothing assumes that frames are delivered or that the environment acts.

Every run sets `CHECK_DEADLOCK FALSE`, `core` included. The components are driven by
events and legitimately stop when no more events come: in `core` once the bounded
transports have all connected, failed or closed and every poll has returned; for
the others a quiescent controller, a builder whose objects are all applied, or all
packet-ins handled.

## Not modelled

- **Switch and hub loaded together:** both handlers return `CONTINUE`, so both would
  answer every packet-in (two flow mods, and two packet-outs of an unbuffered
  packet). The model loads one of them.
- **Learning switch, host moves:** `Route` is static. Learned ports are never
  forgotten (see the hazards), so a property about moving hosts would fail by design.
- **Flow, the FlowMod constructor and the other Instruction creators** (`flow.cc`,
  `flowmod.cc`, `instructions.cc`): `Flow` and the constructor only copy fields into
  the message; `CreateGoToTable`, `CreateWrite`, `CreateWriteMetadata`,
  `CreateClearActions` and `CreateMeterInstruction` have no caller in the tree and
  grow the array exactly as `CreateApply` does.
- **Discovery's features-reply ports:** the code that probed them is commented out
  (`discovery.cc:153`); only ports announced by a port-status ADD are probed.
- **Transaction ids** (`allocate_openflow_xid`): every in-tree send passes 0 and no
  property depends on the id.
- **Signal handler and log fetcher:** I/O threads that the core's state never reads.
- **Message event wrappers and codec glue:** pure data conversion.
- **Transport internals, the rule classifier and `Event_dispatcher`'s list:** these
  are not under `src/`. The last two are modelled from the spec where needed.
