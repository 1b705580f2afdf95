--------------------------- MODULE AbstractRegistry ---------------------------
(***************************************************************************)
(* What the connection registry of the NOX core promises (spec section 2, *)
(* "Connection Registry"): each valid datapath id is owned by at most one *)
(* admitted connection; admitting a connection for an id that is owned    *)
(* replaces the owner, and the replacement and every close are announced  *)
(* to applications, in order, as Datapath_leave / Datapath_join events    *)
(* that the dispatcher delivers later.  Each step is atomic: the owner    *)
(* changes together with the events that announce it.                     *)
(*                                                                         *)
(* ConnRegistry / NoxCore implement this specification: see              *)
(* RegistryRefinement in NoxCore.tla.                                      *)
(***************************************************************************)
EXTENDS Naturals, Sequences

CONSTANTS Conns, Dpids, NoConn

VARIABLES
    owner,      \* datapath id -> the connection that owns it, or NoConn
    admitted,   \* connections ever admitted (a connection is admitted once)
    posted,     \* every announcement made, in order
    delivered,  \* how many of them applications have received
    view        \* the datapaths applications believe joined

absVars == <<owner, admitted, posted, delivered, view>>

Announce(kind, d, c) == [kind |-> kind, dpid |-> d, conn |-> c]

AbsInit ==
    /\ owner = [d \in Dpids |-> NoConn]
    /\ admitted = {}
    /\ posted = <<>> /\ delivered = 0
    /\ view = {}

\* Admit connection c for the valid id d, replacing (and announcing the
\* departure of) its current owner first.
Admit(c, d) ==
    /\ c \notin admitted /\ d # 0
    /\ owner' = [owner EXCEPT ![d] = c]
    /\ admitted' = admitted \cup {c}
    /\ posted' = posted
                 \o (IF owner[d] = NoConn THEN <<>> ELSE <<Announce("leave", d, owner[d])>>)
                 \o <<Announce("join", d, c)>>
    /\ UNCHANGED <<delivered, view>>

\* The owner of d goes away (closed by the controller, an application or
\* the switch).
Drop(d) ==
    /\ owner[d] # NoConn
    /\ owner' = [owner EXCEPT ![d] = NoConn]
    /\ posted' = Append(posted, Announce("leave", d, owner[d]))
    /\ UNCHANGED <<admitted, delivered, view>>

\* Applications receive the oldest announcement not yet delivered.
Deliver ==
    /\ delivered < Len(posted)
    /\ LET a == posted[delivered + 1] IN
       view' = IF a.kind = "join" THEN view \cup {a.dpid} ELSE view \ {a.dpid}
    /\ delivered' = delivered + 1
    /\ UNCHANGED <<owner, admitted, posted>>

AbsNext ==
    \/ \E c \in Conns, d \in Dpids : Admit(c, d)
    \/ \E d \in Dpids : Drop(d)
    \/ Deliver

AbsSpec == AbsInit /\ [][AbsNext]_absVars

=============================================================================
