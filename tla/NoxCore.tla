------------------------------- MODULE NoxCore -------------------------------
(***************************************************************************)
(* The NOX core: connectors create a Handshake_fsm per new transport; the  *)
(* FSM sends the features request and the switch config, waits for the    *)
(* features reply, consults the optional Switch_Auth hook and registers    *)
(* the connection with the registry of ConnRegistry.tla, posting a         *)
(* Datapath_join_event (src/src/builtin/nox.cc, lines 513-895).            *)
(*                                                                         *)
(* The clock is abstracted to one flag per session, "its deadline has      *)
(* passed"; the FSM reads it on every resumption (Handshake_fsm::run).     *)
(* Send and receive outcomes EAGAIN, and received messages the FSM drops   *)
(* (echo request, packet-in, other types, undecodable), leave the state    *)
(* unchanged and are stutters of the model.                                *)
(***************************************************************************)
EXTENDS ConnRegistry

CONSTANTS NoDpid    \* model value: no features reply buffered yet

ASSUME NoDpid \notin Dpids

VARIABLES
    hsState,      \* Handshake_fsm::state, plus "idle" (not connected) and "exited"
    authPending,  \* sessions blocked on the Switch_Auth callback (completion.wait)
    approved,     \* sessions whose switch_approved flag is true
    featuresDpid, \* datapath id of the buffered features reply
    expired,      \* sessions whose deadline (timeout) has passed
    exitCode,     \* the error code do_exit was called with
    authHook      \* switch_authenticator # NULL

hsVars == <<hsState, authPending, approved, featuresDpid, expired, exitCode, authHook>>
vars == <<regVars, hsVars>>

HsStates == {"SEND_FEATURES_REQ", "SEND_CONFIG", "RECV_FEATURES_REPLY",
             "CHECK_SWITCH_AUTH", "REGISTER_SWITCH"}
ExitCodes == {"none", "OK", "ETIMEDOUT", "EPERM", "EINVAL", "EIO"}

TypeOK ==
    /\ RegTypeOK
    /\ hsState \in [Conns -> HsStates \cup {"idle", "exited"}]
    /\ authPending \subseteq Conns /\ approved \subseteq Conns /\ expired \subseteq Conns
    /\ featuresDpid \in [Conns -> Dpids \cup {NoDpid}]
    /\ exitCode \in [Conns -> ExitCodes]
    /\ authHook \in BOOLEAN

Init ==
    /\ RegInit
    /\ hsState = [c \in Conns |-> "idle"]
    /\ authPending = {} /\ approved = {} /\ expired = {}
    /\ featuresDpid = [c \in Conns |-> NoDpid]
    /\ exitCode = [c \in Conns |-> "none"]
    /\ authHook = FALSE

\* A session whose FSM the scheduler will resume: not finished, not blocked on auth.
Runnable(c) == hsState[c] \in HsStates /\ c \notin authPending

(***************************************************************************)
(* do_connect: factory->connect succeeded, a Handshake_fsm is created in   *)
(* SEND_FEATURES_REQ with its deadline timeout_secs ahead.                 *)
(***************************************************************************)
Connect(c) ==
    /\ hsState[c] = "idle"
    /\ hsState' = [hsState EXCEPT ![c] = "SEND_FEATURES_REQ"]
    /\ UNCHANGED <<regVars, authPending, approved, featuresDpid, expired, exitCode, authHook>>

\* Wall-clock time passes the session's deadline.
DeadlinePasses(c) ==
    /\ hsState[c] \in HsStates
    /\ c \notin expired
    /\ expired' = expired \cup {c}
    /\ UNCHANGED <<regVars, hsState, authPending, approved, featuresDpid, exitCode, authHook>>

\* do_exit(error): record the error and destroy the session (and its transport).
DoExit(c, code) ==
    /\ hsState' = [hsState EXCEPT ![c] = "exited"]
    /\ exitCode' = [exitCode EXCEPT ![c] = code]

\* Fault variant: only the send states wait on the deadline timer.
TimeoutWhileSending(c) ==
    /\ Runnable(c)
    /\ c \in expired
    /\ hsState[c] \in {"SEND_FEATURES_REQ", "SEND_CONFIG"}
    /\ DoExit(c, "ETIMEDOUT")
    /\ UNCHANGED <<regVars, authPending, approved, featuresDpid, expired, authHook>>

\* Handshake_fsm::run on resumption: the deadline has passed.
Timeout(c) ==
    /\ Runnable(c)
    /\ c \in expired
    /\ DoExit(c, "ETIMEDOUT")
    /\ UNCHANGED <<regVars, authPending, approved, featuresDpid, expired, authHook>>

\* Handshake_fsm::send_message: success moves on, a hard error ends the session.
NextSend == [s \in {"SEND_FEATURES_REQ", "SEND_CONFIG"} |->
                IF s = "SEND_FEATURES_REQ" THEN "SEND_CONFIG" ELSE "RECV_FEATURES_REPLY"]

SendMessage(c) ==
    /\ Runnable(c)
    /\ c \notin expired
    /\ hsState[c] \in DOMAIN NextSend
    /\ \/ hsState' = [hsState EXCEPT ![c] = NextSend[hsState[c]]]
          /\ UNCHANGED exitCode
       \/ DoExit(c, "EIO")
    /\ UNCHANGED <<regVars, authPending, approved, featuresDpid, expired, authHook>>

(***************************************************************************)
(* Handshake_fsm::recv_message: a features reply carrying datapath id d is *)
(* buffered and the FSM moves to CHECK_SWITCH_AUTH; an OFPT_ERROR message  *)
(* ends the session with EINVAL; EOF or a receive error ends it with that  *)
(* error.                                                                  *)
(***************************************************************************)
RecvMessage(c) ==
    /\ Runnable(c)
    /\ c \notin expired
    /\ hsState[c] = "RECV_FEATURES_REPLY"
    /\ \/ \E d \in Dpids :
             /\ featuresDpid' = [featuresDpid EXCEPT ![c] = d]
             /\ hsState' = [hsState EXCEPT ![c] = "CHECK_SWITCH_AUTH"]
             /\ UNCHANGED exitCode
       \/ DoExit(c, "EINVAL") /\ UNCHANGED featuresDpid
       \/ DoExit(c, "EIO") /\ UNCHANGED featuresDpid
    /\ UNCHANGED <<regVars, authPending, approved, expired, authHook>>

(***************************************************************************)
(* Handshake_fsm::register_switch, with the approval flag 'ok': an         *)
(* unapproved switch is dropped with EPERM, datapath id 0 with EINVAL;     *)
(* otherwise register_conn, post the Datapath_join_event and do_exit(0).   *)
(***************************************************************************)
\* Fault variant: the switch_approved check is missing.
RegisterBodyNoAuthCheck(c, ok) ==
    LET d == featuresDpid[c] IN
    \/ d = 0 /\ DoExit(c, "EINVAL") /\ UNCHANGED regVars
    \/ d # 0 /\ RegisterConn(c, d, <<JoinEv(d, c)>>) /\ DoExit(c, "OK")

RegisterBody(c, ok) ==
    LET d == featuresDpid[c] IN
    \/ ~ok /\ DoExit(c, "EPERM") /\ UNCHANGED regVars
    \/ ok /\ d = 0 /\ DoExit(c, "EINVAL") /\ UNCHANGED regVars
    \/ ok /\ d # 0 /\ RegisterConn(c, d, <<JoinEv(d, c)>>) /\ DoExit(c, "OK")

(***************************************************************************)
(* Handshake_fsm::check_switch_auth.  Without a hook the switch is         *)
(* approved, the state set to REGISTER_SWITCH and run() called again in    *)
(* place, which re-reads the clock and then registers.  With a hook, the   *)
(* hook is called and the FSM blocks on the completion (not on a timer).   *)
(***************************************************************************)
CheckSwitchAuth(c) ==
    /\ Runnable(c)
    /\ c \notin expired
    /\ hsState[c] = "CHECK_SWITCH_AUTH"
    /\ \/ /\ ~authHook
          /\ approved' = approved \cup {c}
          /\ \/ DoExit(c, "ETIMEDOUT") /\ UNCHANGED regVars
             \/ RegisterBody(c, TRUE)
          /\ UNCHANGED authPending
       \/ /\ authHook
          /\ authPending' = authPending \cup {c}
          /\ UNCHANGED <<regVars, hsState, exitCode, approved>>
    /\ UNCHANGED <<featuresDpid, expired, authHook>>

\* Handshake_fsm::switch_auth_cb: record the verdict, state = next, release.
SwitchAuthCb(c) ==
    /\ c \in authPending
    /\ \E ok \in BOOLEAN :
          approved' = IF ok THEN approved \cup {c} ELSE approved \ {c}
    /\ authPending' = authPending \ {c}
    /\ hsState' = [hsState EXCEPT ![c] = "REGISTER_SWITCH"]
    /\ UNCHANGED <<regVars, featuresDpid, expired, exitCode, authHook>>

\* run() in REGISTER_SWITCH (reached through the auth callback).
RegisterSwitch(c) ==
    /\ Runnable(c)
    /\ c \notin expired
    /\ hsState[c] = "REGISTER_SWITCH"
    /\ RegisterBody(c, c \in approved)
    /\ UNCHANGED <<authPending, approved, featuresDpid, expired, authHook>>

\* register_switch_auth: the first hook is kept, later ones are ignored.
RegisterSwitchAuth ==
    /\ ~authHook
    /\ authHook' = TRUE
    /\ UNCHANGED <<regVars, hsState, authPending, approved, featuresDpid, expired, exitCode>>

HandshakeNext ==
    \/ RegisterSwitchAuth
    \/ \E c \in Conns :
          \/ Connect(c) \/ DeadlinePasses(c) \/ Timeout(c)
          \/ SendMessage(c) \/ RecvMessage(c) \/ CheckSwitchAuth(c)
          \/ SwitchAuthCb(c) \/ RegisterSwitch(c)

\* The registry's own steps leave the handshake sessions alone.
Next ==
    \/ HandshakeNext
    \/ \E c \in Conns : PollMessage(c) /\ UNCHANGED hsVars
    \/ \E c \in Conns : PollReturn(c) /\ UNCHANGED hsVars
    \/ \E c \in Conns : PollDisconnect(c) /\ UNCHANGED hsVars
    \/ \E d \in Dpids : CloseConnection(d) /\ UNCHANGED hsVars
    \/ DeliverPosted /\ UNCHANGED hsVars

Spec == Init /\ [][Next]_vars

(***************************************************************************)
(* Fairness.  The cooperative scheduler resumes every runnable FSM whose   *)
(* timer has fired, time passes, a poll's handlers return, and the auth    *)
(* hook calls back (its contract in switch_auth.hh).  Nothing forces the   *)
(* switch to answer, a connector to connect, or the dispatcher to run.     *)
(***************************************************************************)
FairSpec ==
    /\ Spec
    /\ \A c \in Conns :
          /\ WF_vars(DeadlinePasses(c))
          /\ WF_vars(Timeout(c))
          /\ WF_vars(CheckSwitchAuth(c))
          /\ WF_vars(SwitchAuthCb(c))
          /\ WF_vars(RegisterSwitch(c))
          /\ WF_vars(PollReturn(c) /\ UNCHANGED hsVars)

-----------------------------------------------------------------------------
(***************************************************************************)
(* Registry consistency (register_conn, Conn::close): every id in          *)
(* connection_map names a live, non-closing Conn registered under that id, *)
(* and every live non-closing Conn is the entry of its id and is polled.   *)
(* A replaced or closed Conn that stayed in the map, or a close that       *)
(* erased its successor's entry, breaks it.                                *)
(***************************************************************************)
RegistryConsistent ==
    /\ pollable = conns \ closed
    /\ \A d \in Dpids : connMap[d] # NoConn =>
          connMap[d] \in conns \ closed /\ dpidOf[connMap[d]] = d
    /\ \A c \in conns \ closed : connMap[dpidOf[c]] = c

(***************************************************************************)
(* Deferred destruction (Conn::poll / Conn::close): a Conn is never        *)
(* deleted while a poll of it is on the stack, and a closing Conn is       *)
(* deleted as soon as the last such poll returns.                          *)
(***************************************************************************)
DeferredDestruction ==
    \A c \in Conns :
        /\ pollCnt[c] > 0 => c \in conns
        /\ c \in conns \cap closed => pollCnt[c] > 0

(***************************************************************************)
(* Join/leave history (register_switch, register_conn, Conn::close): for   *)
(* every datapath id the posted events alternate join, leave, join, ...;   *)
(* every admitted Conn posts exactly one join and, once closed, exactly    *)
(* one leave after it (close is idempotent).                               *)
(***************************************************************************)
EventsOf(d) == SelectSeq(evLog, LAMBDA e : e.dpid = d)
EventsOfConn(c) == SelectSeq(evLog, LAMBDA e : e.conn = c)

JoinLeaveHistory ==
    /\ \A d \in Dpids : \A i \in 1..Len(EventsOf(d)) :
          EventsOf(d)[i].kind = IF i % 2 = 1 THEN "join" ELSE "leave"
    /\ \A c \in Conns :
          EventsOfConn(c) =
             IF c \in closed THEN <<JoinEv(dpidOf[c], c), LeaveEv(dpidOf[c], c)>>
             ELSE IF c \in conns THEN <<JoinEv(dpidOf[c], c)>>
             ELSE <<>>

(***************************************************************************)
(* Applications' view (Discovery::dps): whenever the dispatcher has        *)
(* delivered every posted event, the set of datapaths it believes joined   *)
(* is exactly the set of ids in connection_map.                            *)
(***************************************************************************)
AppViewConverges ==
    delivered = Len(evLog) => dps = {d \in Dpids : connMap[d] # NoConn}

(***************************************************************************)
(* Admission (register_switch): only a switch approved by the auth step    *)
(* (auto-approved when no hook is registered) with a nonzero datapath id   *)
(* is ever in connection_map.                                              *)
(***************************************************************************)
AdmittedOnlyApproved ==
    \A d \in Dpids : connMap[d] # NoConn => d # 0 /\ connMap[d] \in approved

(***************************************************************************)
(* Every handshake ends (Handshake_fsm::run's deadline check): a session,  *)
(* whatever state it is in, eventually exits, by success or by error.      *)
(***************************************************************************)
HandshakeTerminates ==
    \A c \in Conns : hsState[c] \in HsStates ~> hsState[c] = "exited"

(***************************************************************************)
(* A closed Conn is eventually deleted (Conn::poll's deferred delete).     *)
(***************************************************************************)
ClosedConnFreed ==
    \A c \in Conns : c \in closed ~> c \notin conns


-----------------------------------------------------------------------------
(***************************************************************************)
(* Refinement of the registry's promise (AbstractRegistry): under the     *)
(* mapping below every step of the core is an Admit (register_conn with   *)
(* the join posted by register_switch), a Drop (Conn::close reached from  *)
(* do_poll or close_openflow_connection), a Deliver, or leaves the        *)
(* registry's visible state alone (handshake steps, nested polls).  A     *)
(* replacement that posts the join before the old connection's leave, a  *)
(* close that posts nothing, or an admission under id 0 is not a step of  *)
(* the abstract registry.                                                  *)
(***************************************************************************)
AbsReg == INSTANCE AbstractRegistry
            WITH owner <- connMap,
                 admitted <- {c \in Conns : dpidOf[c] # 0},
                 posted <- evLog,
                 delivered <- delivered,
                 view <- dps

RegistryRefinement == AbsReg!AbsSpec

=============================================================================
