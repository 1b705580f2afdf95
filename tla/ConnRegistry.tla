---------------------------- MODULE ConnRegistry ----------------------------
(***************************************************************************)
(* The connection registry of the NOX core (src/src/builtin/nox.cc): the   *)
(* map from datapath id to admitted Conn objects, the Conn lifecycle       *)
(* (closing flag, poll_cnt re-entrancy counter, self-deletion), the        *)
(* message pump Conn::poll, close_openflow_connection, and the queue of    *)
(* posted events (join / leave) that the event dispatcher delivers later.  *)
(*                                                                         *)
(* A Conn object is identified by the transport it wraps; every element of *)
(* Conns is one Openflow_connection, created once by a connector and never *)
(* reused.  The handshake that admits connections is in NoxCore.tla, which *)
(* extends this module.                                                    *)
(***************************************************************************)
EXTENDS Naturals, Sequences, FiniteSets

CONSTANTS
    Conns,          \* transports / Conn objects (model values)
    Dpids,          \* datapath ids a switch may report; 0 is the invalid one
    NoConn,         \* model value: "no entry" in connection_map
    MaxPollDepth    \* bound on nested Conn::poll calls on one connection

ASSUME /\ NoConn \notin Conns
       /\ Dpids \subseteq Nat /\ 0 \in Dpids
       /\ MaxPollDepth \in Nat \ {0}

VARIABLES
    connMap,   \* connection_map: datapath id -> Conn (or NoConn)
    conns,     \* Conn objects allocated and not yet deleted
    closed,    \* Conn objects whose closing flag is set (kept after delete)
    pollable,  \* Conn objects registered with the main poll loop
    pollCnt,   \* Conn::poll_cnt: polls of this Conn still on the stack
    dpidOf,    \* oconn->get_datapath_id() of each admitted Conn
    evLog,     \* every event posted to the dispatcher, in posting order
    delivered, \* how many of them the dispatcher has delivered
    dps        \* the join/leave consumer's view (Discovery::dps)

regVars == <<connMap, conns, closed, pollable, pollCnt, dpidOf, evLog, delivered, dps>>

Event == [kind : {"join", "leave"}, dpid : Dpids, conn : Conns]

JoinEv(d, c)  == [kind |-> "join",  dpid |-> d, conn |-> c]
LeaveEv(d, c) == [kind |-> "leave", dpid |-> d, conn |-> c]

\* The dispatcher's queue of posted, not yet delivered events.
Posted == SubSeq(evLog, delivered + 1, Len(evLog))

RegTypeOK ==
    /\ connMap \in [Dpids -> Conns \cup {NoConn}]
    /\ conns \subseteq Conns /\ closed \subseteq Conns /\ pollable \subseteq Conns
    /\ pollCnt \in [Conns -> 0..MaxPollDepth]
    /\ dpidOf \in [Conns -> Dpids]
    /\ evLog \in Seq(Event)
    /\ delivered \in 0..Len(evLog)
    /\ dps \subseteq Dpids

RegInit ==
    /\ connMap = [d \in Dpids |-> NoConn]
    /\ conns = {} /\ closed = {} /\ pollable = {}
    /\ pollCnt = [c \in Conns |-> 0]
    /\ dpidOf = [c \in Conns |-> 0]
    /\ evLog = <<>>
    /\ delivered = 0
    /\ dps = {}

(***************************************************************************)
(* Conn::close: the first call sets closing, posts a Datapath_leave_event  *)
(* for the connection's datapath id, erases that id from connection_map,   *)
(* removes the Conn from the poll loop and deletes it unless a poll of it  *)
(* is on the stack.  Later calls do nothing.  It leaves pollCnt alone.     *)
(***************************************************************************)
\* Fault variant: delete this without looking at poll_cnt.
CloseEagerDelete(c) ==
    /\ c \notin closed
    /\ closed' = closed \cup {c}
    /\ evLog' = Append(evLog, LeaveEv(dpidOf[c], c))
    /\ connMap' = [connMap EXCEPT ![dpidOf[c]] = NoConn]
    /\ pollable' = pollable \ {c}
    /\ conns' = conns \ {c}

\* Fault variant: the Datapath_leave_event is never posted.
CloseNoLeave(c) ==
    /\ c \notin closed
    /\ closed' = closed \cup {c}
    /\ UNCHANGED evLog
    /\ connMap' = [connMap EXCEPT ![dpidOf[c]] = NoConn]
    /\ pollable' = pollable \ {c}
    /\ conns' = IF pollCnt[c] = 0 THEN conns \ {c} ELSE conns

Close(c) ==
    /\ c \notin closed
    /\ closed' = closed \cup {c}
    /\ evLog' = Append(evLog, LeaveEv(dpidOf[c], c))
    /\ connMap' = [connMap EXCEPT ![dpidOf[c]] = NoConn]
    /\ pollable' = pollable \ {c}
    /\ conns' = IF pollCnt[c] = 0 THEN conns \ {c} ELSE conns

(***************************************************************************)
(* register_conn(oconn) after oconn->set_datapath_id(d): the Conn          *)
(* constructor adds the new Conn to the poll loop; the insert into         *)
(* connection_map fails if d is taken, in which case the old Conn is       *)
(* closed (posting its leave event) and the new one inserted again.        *)
(* 'after' is what the caller posts once register_conn has returned.       *)
(***************************************************************************)
Replaced(d) == IF connMap[d] = NoConn THEN {} ELSE {connMap[d]}

\* Fault variant: a taken id is overwritten without closing the old Conn.
RegisterConnNoClose(c, d, after) ==
    /\ dpidOf' = [dpidOf EXCEPT ![c] = d]
    /\ conns' = conns \cup {c}
    /\ pollable' = pollable \cup {c}
    /\ connMap' = [connMap EXCEPT ![d] = c]
    /\ evLog' = evLog \o after
    /\ UNCHANGED <<closed, pollCnt, delivered, dps>>

\* Fault variant: the caller's events are posted before the old Conn's leave.
RegisterConnPostFirst(c, d, after) ==
    LET old == Replaced(d)
        freed == {o \in old : pollCnt[o] = 0}
    IN
    /\ dpidOf' = [dpidOf EXCEPT ![c] = d]
    /\ conns' = (conns \ freed) \cup {c}
    /\ closed' = closed \cup old
    /\ pollable' = (pollable \ old) \cup {c}
    /\ connMap' = [connMap EXCEPT ![d] = c]
    /\ evLog' = evLog \o after \o [i \in 1..Cardinality(old) |-> LeaveEv(d, connMap[d])]
    /\ UNCHANGED <<pollCnt, delivered, dps>>

RegisterConn(c, d, after) ==
    LET old == Replaced(d)
        freed == {o \in old : pollCnt[o] = 0}
    IN
    /\ dpidOf' = [dpidOf EXCEPT ![c] = d]
    /\ conns' = (conns \ freed) \cup {c}
    /\ closed' = closed \cup old
    /\ pollable' = (pollable \ old) \cup {c}
    /\ connMap' = [connMap EXCEPT ![d] = c]
    /\ evLog' = evLog \o [i \in 1..Cardinality(old) |-> LeaveEv(d, connMap[d])]
                        \o after
    /\ UNCHANGED <<pollCnt, delivered, dps>>

(***************************************************************************)
(* Conn::poll, receive outcome "a message decoded": poll_cnt is raised and *)
(* the event is dispatched synchronously.  Its handlers may yield (they    *)
(* send with block = true), so the poll stays on the stack while the rest  *)
(* of the system runs; PollReturn is the end of the same call.             *)
(***************************************************************************)
PollMessage(c) ==
    /\ c \in pollable
    /\ pollCnt[c] < MaxPollDepth
    /\ pollCnt' = [pollCnt EXCEPT ![c] = @ + 1]
    /\ UNCHANGED <<connMap, conns, closed, pollable, dpidOf, evLog, delivered, dps>>

\* Fault variant: the deferred delete after the last poll is forgotten.
PollReturnNoDelete(c) ==
    /\ pollCnt[c] > 0
    /\ pollCnt' = [pollCnt EXCEPT ![c] = @ - 1]
    /\ UNCHANGED <<connMap, conns, closed, pollable, dpidOf, evLog, delivered, dps>>

\* End of Conn::poll: --poll_cnt, then delete this if closing and no poll left.
PollReturn(c) ==
    /\ pollCnt[c] > 0
    /\ pollCnt' = [pollCnt EXCEPT ![c] = @ - 1]
    /\ conns' = IF pollCnt[c] = 1 /\ c \in closed THEN conns \ {c} ELSE conns
    /\ UNCHANGED <<connMap, closed, pollable, dpidOf, evLog, delivered, dps>>

(***************************************************************************)
(* Conn::poll, receive outcome EOF or a transport error: do_poll calls     *)
(* close() inside the poll (poll_cnt raised by one), then poll lowers the  *)
(* counter and deletes the Conn if no outer poll is still on the stack.    *)
(* Outcomes EAGAIN and "unpack error" change nothing and are stutters.     *)
(***************************************************************************)
PollDisconnect(c) ==
    /\ c \in pollable
    /\ pollCnt[c] < MaxPollDepth
    /\ Close(c)
    /\ UNCHANGED <<pollCnt, dpidOf, delivered, dps>>

(***************************************************************************)
(* close_openflow_connection(d), called by an application handler or      *)
(* timer: ESRCH for an unknown datapath, otherwise close its Conn.         *)
(***************************************************************************)
CloseConnection(d) ==
    /\ connMap[d] # NoConn
    /\ Close(connMap[d])
    /\ UNCHANGED <<pollCnt, dpidOf, delivered, dps>>

(***************************************************************************)
(* The dispatcher delivers the oldest posted event.  The join/leave        *)
(* consumer is Discovery: dp_join_handler -> dp_add (a datapath already    *)
(* present is removed and added again), dp_leave_handler -> dp_remove.     *)
(***************************************************************************)
\* Discovery::dp_add: a datapath already in dps is removed, then inserted.
DpAdd(d) == (dps \ {d}) \cup {d}

\* Discovery::dp_remove: its ports are deleted and the datapath erased.
DpRemove(d) == dps \ {d}

\* Fault variant: the queue index advances past the event it delivers.
DeliverPostedSkip ==
    /\ delivered < Len(evLog)
    /\ LET e == evLog[delivered + 1] IN
       dps' = IF e.kind = "join" THEN DpAdd(e.dpid) ELSE DpRemove(e.dpid)
    /\ delivered' = delivered + 2
    /\ UNCHANGED <<connMap, conns, closed, pollable, pollCnt, dpidOf, evLog>>

DeliverPosted ==
    /\ delivered < Len(evLog)
    /\ LET e == evLog[delivered + 1] IN
       dps' = IF e.kind = "join" THEN DpAdd(e.dpid) ELSE DpRemove(e.dpid)
    /\ delivered' = delivered + 1
    /\ UNCHANGED <<connMap, conns, closed, pollable, pollCnt, dpidOf, evLog>>

=============================================================================
