--------------------------- MODULE EventDispatcher ---------------------------
(***************************************************************************)
(* The event dispatcher component (src/src/builtin/                        *)
(* event-dispatcher-component.cc) and the Component facade that calls it   *)
(* (src/src/builtin/component.cc).  At construction the dispatcher reads   *)
(* the "events" section of the configuration into one filter chain per    *)
(* event name (component name -> order) and registers the system events.  *)
(* Components then register events and bind handlers; a handler's order is *)
(* its component's position in the chain, or 0.  nox::init binds the      *)
(* packet classifier to packet-in directly, with order 100.                *)
(*                                                                         *)
(* The handler list kept per event by Event_dispatcher (outside src/) is   *)
(* ordered by order, ties in registration order; dispatch runs it until a  *)
(* handler returns STOP.  Those two operations are modelled from the spec. *)
(***************************************************************************)
EXTENDS Naturals, Sequences, SequencesExt

CONSTANTS
    Comps,        \* component names (model values)
    Classifier,   \* the packet classifier, bound by nox::init
    Names,        \* event names
    SysEvents,    \* names the constructor registers
    PacketIn,     \* the packet-in event name
    Configs,      \* candidate "events" sections: [ConfNames -> Seq(Comps)]
    MaxHandlers   \* bound on handlers bound to one event

ASSUME /\ SysEvents \subseteq Names /\ PacketIn \in SysEvents
       /\ Classifier \notin Comps
       /\ MaxHandlers \in Nat \ {0}

VARIABLES
    config,     \* the configuration read at construction
    events,     \* EventDispatcherComponent::events
    handlers,   \* per event name, the ordered handler list
    failed,     \* components whose setup threw runtime_error
    lastRun     \* the handlers the last dispatch invoked, in order

edVars == <<config, events, handlers, failed, lastRun>>

\* seq: how many handlers the event had when this one was bound.
Handler == [comp : Comps \cup {Classifier}, order : Nat, seq : Nat]

(***************************************************************************)
(* The constructor's loop over one event's component list: chain[filter]  *)
(* = order++, so a component listed twice keeps its last position.         *)
(***************************************************************************)
\* Fault variant: the order counter is never incremented.
ChainOfNoIncrement(list) == [f \in ToSet(list) |-> 0]

\* Fault variant: positions counted from -1 (order starts one too low).
ChainOfOffByOne(list) == [f \in ToSet(list) |-> SelectLastInSeq(list, LAMBDA x : x = f) - 2]

ChainOf(list) == [f \in ToSet(list) |-> SelectLastInSeq(list, LAMBDA x : x = f) - 1]

FilterChains == [n \in DOMAIN config |-> ChainOf(config[n])]

\* register_handler's choice of order: the chain's entry, else 0.
EffOrder(n, c) ==
    IF n \in DOMAIN FilterChains /\ c \in DOMAIN FilterChains[n]
    THEN FilterChains[n][c] ELSE 0

(***************************************************************************)
(* Event_dispatcher::add_handler: the handler goes after every handler     *)
(* whose order is not greater than its own.                                *)
(***************************************************************************)
AddHandler(s, h) ==
    InsertAt(s, Len(SelectSeq(s, LAMBDA x : x.order <= h.order)) + 1, h)

EdTypeOK ==
    /\ events \subseteq Names
    /\ handlers \in [Names -> Seq(Handler)]
    /\ failed \subseteq Comps
    /\ lastRun \in Seq(Handler)

\* The constructor: filter chains from the configuration, system events,
\* and nox::init's classifier handler on packet-in.
EdInit ==
    /\ config \in Configs
    /\ events = SysEvents
    /\ handlers = [n \in Names |->
                     IF n = PacketIn
                     THEN <<[comp |-> Classifier, order |-> 100, seq |-> 0]>>
                     ELSE <<>>]
    /\ failed = {}
    /\ lastRun = <<>>

\* Component::register_event: a name already known throws.
RegisterEvent(c, n) ==
    /\ c \notin failed
    /\ IF n \in events
       THEN failed' = failed \cup {c} /\ UNCHANGED events
       ELSE events' = events \cup {n} /\ UNCHANGED failed
    /\ UNCHANGED <<config, handlers, lastRun>>

\* Component::register_handler: an unknown event name throws.
RegisterHandler(c, n) ==
    /\ c \notin failed
    /\ Len(handlers[n]) < MaxHandlers
    /\ IF n \notin events
       THEN failed' = failed \cup {c} /\ UNCHANGED handlers
       ELSE /\ handlers' = [handlers EXCEPT ![n] =
                  AddHandler(@, [comp |-> c, order |-> EffOrder(n, c), seq |-> Len(@)])]
            /\ UNCHANGED failed
    /\ UNCHANGED <<config, events, lastRun>>

(***************************************************************************)
(* Dispatch of an event named n: the handlers run in list order; each      *)
(* returns CONTINUE or STOP, and STOP ends the dispatch.                   *)
(***************************************************************************)
RanUntilStop(s, disp) ==
    LET stops == {i \in DOMAIN s : disp[i] = "STOP"}
        k == IF stops = {} THEN Len(s) ELSE CHOOSE i \in stops : \A j \in stops : i <= j
    IN SubSeq(s, 1, k)

Dispatch(n) ==
    /\ \E disp \in [DOMAIN handlers[n] -> {"CONTINUE", "STOP"}] :
          lastRun' = RanUntilStop(handlers[n], disp)
    /\ UNCHANGED <<config, events, handlers, failed>>

EdNext ==
    \/ \E c \in Comps, n \in Names : RegisterEvent(c, n) \/ RegisterHandler(c, n)
    \/ \E n \in Names : Dispatch(n)

EdSpec == EdInit /\ [][EdNext]_edVars

-----------------------------------------------------------------------------
(***************************************************************************)
(* The configured filter order is honoured (constructor + register_handler):*)
(* if every occurrence of component a in an event's list comes before     *)
(* every occurrence of b, a's handlers for that event run before b's.      *)
(***************************************************************************)
ListedBefore(list, a, b) ==
    /\ a \in ToSet(list) /\ b \in ToSet(list)
    /\ \A i, j \in DOMAIN list : list[i] = a /\ list[j] = b => i < j

ConfigOrderHonoured ==
    \A n \in DOMAIN config : \A i, j \in DOMAIN handlers[n] :
        ListedBefore(config[n], handlers[n][j].comp, handlers[n][i].comp) => j < i

=============================================================================
