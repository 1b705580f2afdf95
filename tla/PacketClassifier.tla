--------------------------- MODULE PacketClassifier ---------------------------
(***************************************************************************)
(* The packet classifier's packet-in handler (src/src/builtin/             *)
(* packet-classifier.cc) and the rule registration it serves (nox.cc       *)
(* register_handler_on_match / unregister_handler, component.cc).          *)
(*                                                                         *)
(* The rule table, Classifier::add_rule / delete_rule and the result       *)
(* iterator live outside src/ and are modelled from the spec: ids are      *)
(* fresh, and the result lists the matching rules by descending priority, *)
(* ties in insertion order.  handle_packet_in never hands the packet to    *)
(* the result (the set_data call is commented out), so which rules match   *)
(* cannot depend on the packet: the model fixes, per run, the set of match *)
(* expressions the classifier treats as matching without data.             *)
(***************************************************************************)
EXTENDS Naturals, Sequences, SequencesExt, FiniteSets

CONSTANTS
    Prios,      \* rule priorities
    Exprs,      \* match expressions (model values)
    MaxRules,   \* bound on rules ever added
    NoRule      \* a null Rule pointer

VARIABLES
    rules,        \* the classifier's rule table
    nextId,       \* the id the next add_rule returns
    noDataMatch,  \* expressions the result matches with no packet data set
    pkt,          \* the last packet-in: the expressions it satisfies
    matched,      \* the rules the last result iterated over
    invoked       \* ids of the rules whose action the last packet-in ran

pcVars == <<rules, nextId, noDataMatch, pkt, matched, invoked>>

Rule == [id : Nat, prio : Prios, expr : Exprs]

PcTypeOK ==
    /\ rules \subseteq Rule /\ matched \subseteq Rule
    /\ nextId \in 0..MaxRules
    /\ noDataMatch \subseteq Exprs /\ pkt \subseteq Exprs
    /\ invoked \in Seq(Nat)

PcInit ==
    /\ rules = {} /\ nextId = 0
    /\ noDataMatch \in SUBSET Exprs
    /\ pkt = {} /\ matched = {} /\ invoked = <<>>

\* register_handler_on_match(priority, expr, callback) -> classifier.add_rule.
RegisterHandlerOnMatch(p, e) ==
    /\ nextId < MaxRules
    /\ rules' = rules \cup {[id |-> nextId, prio |-> p, expr |-> e]}
    /\ nextId' = nextId + 1
    /\ UNCHANGED <<noDataMatch, pkt, matched, invoked>>

\* unregister_handler(rule_id) -> classifier.delete_rule: true iff found.
UnregisterHandler(id) ==
    /\ \E r \in rules : r.id = id
    /\ rules' = {r \in rules : r.id # id}
    /\ UNCHANGED <<nextId, noDataMatch, pkt, matched, invoked>>

\* The result iterator's order: descending priority, ties by insertion.
ResultOrder(S) ==
    SetToSortSeq(S, LAMBDA x, y : x.prio > y.prio \/ (x.prio = y.prio /\ x.id < y.id))

(***************************************************************************)
(* handle_packet_in's loop: run the first match, note its priority, and    *)
(* keep running matches while the next one exists and has that priority.  *)
(***************************************************************************)
\* Fault variant: the loop reads match->priority without the NULL check.
TopBandNoNullCheck(s) ==
    LET RECURSIVE Loop(_, _)
        Loop(t, top) == IF t = <<>> THEN <<NoRule>>
                        ELSE IF Head(t).prio = top THEN <<Head(t).id>> \o Loop(Tail(t), top)
                        ELSE <<>>
    IN IF s = <<>> THEN <<>> ELSE <<s[1].id>> \o Loop(Tail(s), s[1].prio)

\* Fault variant: the priority test is dropped, every match runs.
TopBandAll(s) == [i \in DOMAIN s |-> s[i].id]

TopBand(s) ==
    LET RECURSIVE Loop(_, _)
        Loop(t, top) == IF t # <<>> /\ Head(t).prio = top
                        THEN <<Head(t).id>> \o Loop(Tail(t), top)
                        ELSE <<>>
    IN IF s = <<>> THEN <<>> ELSE <<s[1].id>> \o Loop(Tail(s), s[1].prio)

\* Packet_classifier::handle_packet_in for a packet satisfying expressions p.
HandlePacketIn(p) ==
    LET res == {r \in rules : r.expr \in noDataMatch} IN
    /\ pkt' = p
    /\ matched' = res
    /\ invoked' = TopBand(ResultOrder(res))
    /\ UNCHANGED <<rules, nextId, noDataMatch>>

PcNext ==
    \/ \E p \in Prios, e \in Exprs : RegisterHandlerOnMatch(p, e)
    \/ \E id \in 0..MaxRules - 1 : UnregisterHandler(id)
    \/ \E p \in SUBSET Exprs : HandlePacketIn(p)

PcSpec == PcInit /\ [][PcNext]_pcVars

-----------------------------------------------------------------------------
\* The rules at the top priority of a set, in insertion order.
TopBandOf(S) ==
    LET band == {r \in S : \A q \in S : q.prio <= r.prio}
    IN SetToSortSeq({r.id : r \in band}, LAMBDA x, y : x < y)

(***************************************************************************)
(* Top band (handle_packet_in's do/while loop): the actions run are those  *)
(* of exactly the matched rules of maximal priority, in insertion order.  *)
(***************************************************************************)
TopBandExact == invoked = TopBandOf(matched)

(***************************************************************************)
(* Classification by the packet (spec 4.4, "the handler invokes            *)
(* classify(input)"): the actions run are the top band of the rules whose  *)
(* expression the packet satisfies.                                        *)
(***************************************************************************)
InvokedMatchPacket == invoked = TopBandOf({r \in rules : r.expr \in pkt})

=============================================================================
