---------------------------- MODULE ActionsBuilder ----------------------------
(***************************************************************************)
(* The OpenFlow action-list builder (src/src/lib/actions.cc,               *)
(* src/src/include/actions.hh) and its consumer Instruction::CreateApply / *)
(* AddActions (src/src/lib/instructions.cc).                               *)
(*                                                                         *)
(* Each Actions object owns a heap array 'acts'; the number of entries is  *)
(* the STATIC member act_num, shared by every Actions object and reset by  *)
(* each constructor.  The array is modelled by its capacity and the set of *)
(* indexes holding a stored pointer; xrealloc(p, n entries) (util        *)
(* library) keeps the first min(old, n) entries: a request of 0 bytes     *)
(* gets a 1-byte block, which holds no pointer.  An out-of-bounds write   *)
(* or a dereference of an unset entry is undefined behaviour: the model   *)
(* records it in 'fault' and stops, saying nothing of what follows.       *)
(*                                                                         *)
(* A Create* call whose type argument is not one it accepts does nothing   *)
(* (a stutter).  Calls run to completion: builders are used inside one     *)
(* handler, between two yields.                                            *)
(***************************************************************************)
EXTENDS Naturals, Sequences, FiniteSets

CONSTANTS
    Objs,        \* Actions objects (model values)
    Methods,     \* the Create* methods the client program calls
    Sequential,  \* TRUE: each Actions is applied before the next is built
    MaxActs,     \* bound on act_num
    None         \* "not applied yet"

\* Create* methods that grow the array when act_num > 0 and then write acts[act_num].
GuardedMethods == {"Output", "DecTTL", "PushAction", "PopVlan", "PopMpls",
                   "SetNwTTL", "SetQueue", "Group"}
\* Create* methods that grow the array to act_num entries, then write acts[act_num].
UnguardedMethods == {"SetMplsTTL", "SetField"}

ASSUME Methods \subseteq GuardedMethods \cup UnguardedMethods \cup {"CopyTTL"}

VARIABLES
    actNum,    \* Actions::act_num
    made,      \* Actions objects constructed
    open,      \* constructed and not yet handed to an Instruction
    cap,       \* entries allocated in each object's acts array
    stored,    \* indexes of acts holding a pointer stored by a Create* call
    appended,  \* the Create* calls made on each object, in order
    applied,   \* actions_num copied by AddActions, per object
    fault,     \* "none", "oob" or "uninit"
    instNum    \* Instruction::inst_num, static like act_num

abVars == <<actNum, made, open, cap, stored, appended, applied, fault, instNum>>

AbTypeOK ==
    /\ actNum \in 0..MaxActs
    /\ made \subseteq Objs /\ open \subseteq made
    /\ cap \in [Objs -> Nat] /\ stored \in [Objs -> SUBSET Nat]
    /\ appended \in [Objs -> Seq(Methods)]
    /\ applied \in [Objs -> Nat \cup {None}]
    /\ fault \in {"none", "oob", "uninit"}
    /\ instNum \in Nat

AbInit ==
    /\ actNum = 0 /\ made = {} /\ open = {}
    /\ cap = [o \in Objs |-> 0] /\ stored = [o \in Objs |-> {}]
    /\ appended = [o \in Objs |-> <<>>] /\ applied = [o \in Objs |-> None]
    /\ fault = "none" /\ instNum = 0

\* Fault variant: the constructor does not reset act_num.
NewActionsNoReset(a) ==
    /\ fault = "none" /\ a \notin made
    /\ Sequential => open = {}
    /\ made' = made \cup {a} /\ open' = open \cup {a}
    /\ cap' = [cap EXCEPT ![a] = 1]
    /\ UNCHANGED <<actNum, stored, appended, applied, fault, instNum>>

\* Fault variant: the constructor allocates no entry (xmalloc(0)).
NewActionsNoAlloc(a) ==
    /\ fault = "none" /\ a \notin made
    /\ Sequential => open = {}
    /\ actNum' = 0
    /\ made' = made \cup {a} /\ open' = open \cup {a}
    /\ UNCHANGED <<cap, stored, appended, applied, fault, instNum>>

\* Actions::Actions: act_num = 0 (for every object); acts = xmalloc(1 entry).
NewActions(a) ==
    /\ fault = "none" /\ a \notin made
    /\ Sequential => open = {}
    /\ actNum' = 0
    /\ made' = made \cup {a} /\ open' = open \cup {a}
    /\ cap' = [cap EXCEPT ![a] = 1]
    /\ UNCHANGED <<stored, appended, applied, fault, instNum>>

\* Fault variant: act_num is not incremented after the store.
StoreAtNoIncrement(a, m, c) ==
    IF actNum >= c
    THEN fault' = "oob" /\ UNCHANGED <<actNum, stored, appended>>
    ELSE /\ stored' = [stored EXCEPT ![a] = {i \in @ : i < c} \cup {actNum}]
         /\ appended' = [appended EXCEPT ![a] = Append(@, m)]
         /\ UNCHANGED <<actNum, fault>>

\* acts[act_num] = new action, act_num++ -- or undefined behaviour.
StoreAt(a, m, c) ==
    IF actNum >= c
    THEN fault' = "oob" /\ UNCHANGED <<actNum, stored, appended>>
    ELSE /\ stored' = [stored EXCEPT ![a] = {i \in @ : i < c} \cup {actNum}]
         /\ appended' = [appended EXCEPT ![a] = Append(@, m)]
         /\ actNum' = actNum + 1
         /\ UNCHANGED fault

\* Fault variant: the array is always grown to act_num entries.
GrowAlwaysToActNum(a) == IF actNum = 0 THEN 1 ELSE actNum

\* "if (act_num) acts = xrealloc(acts, act_num + 1)": the new capacity.
GrowIfNonEmpty(a) == IF actNum > 0 THEN actNum + 1 ELSE cap[a]

\* CreateOutput, CreateDecTTL, CreatePushAction, CreatePopVlan, CreatePopMpls,
\* CreateSetNwTTL, CreateSetQueue, CreateGroupAction.
CreateGuarded(a, m) ==
    /\ fault = "none" /\ a \in open /\ m \in Methods \cap GuardedMethods
    /\ actNum < MaxActs
    /\ cap' = [cap EXCEPT ![a] = GrowIfNonEmpty(a)]
    /\ StoreAt(a, m, GrowIfNonEmpty(a))
    /\ UNCHANGED <<made, open, applied, instNum>>

\* CreateSetMplsTTL, CreateSetField: xrealloc(acts, act_num), then the store
\* at acts[act_num], which is never inside the act_num entries kept.
CreateUnguarded(a, m) ==
    LET c == actNum IN
    /\ fault = "none" /\ a \in open /\ m \in Methods \cap UnguardedMethods
    /\ actNum < MaxActs
    /\ cap' = [cap EXCEPT ![a] = c]
    /\ StoreAt(a, m, c)
    /\ UNCHANGED <<made, open, applied, instNum>>

\* CreateCopyTTL: after the guarded grow it writes acts[act_num]->type
\* through the entry before storing the new action there.
CreateCopyTTL(a) ==
    LET c == GrowIfNonEmpty(a) IN
    /\ fault = "none" /\ a \in open /\ "CopyTTL" \in Methods
    /\ actNum < MaxActs
    /\ cap' = [cap EXCEPT ![a] = c]
    /\ IF actNum \notin stored[a] \/ actNum >= c
       THEN fault' = "uninit" /\ UNCHANGED <<actNum, stored, appended>>
       ELSE StoreAt(a, "CopyTTL", c)
    /\ UNCHANGED <<made, open, applied, instNum>>

\* Fault variant: AddActions copies act_num - 1.
CreateApplyOffByOne(a) ==
    /\ fault = "none" /\ a \in open
    /\ applied' = [applied EXCEPT ![a] = actNum - 1]
    /\ open' = open \ {a}
    /\ instNum' = instNum + 1
    /\ UNCHANGED <<actNum, made, cap, stored, appended, fault>>

\* Fault variant: the constructor leaves inst_num as it was.
NewInstructionNoReset ==
    /\ fault = "none"
    /\ UNCHANGED abVars

\* Instruction::Instruction: insts = xmalloc(one entry); inst_num = 0 (for
\* every Instruction).
NewInstruction ==
    /\ fault = "none"
    /\ instNum' = 0
    /\ UNCHANGED <<actNum, made, open, cap, stored, appended, applied, fault>>

\* Instruction::CreateApply(acts): inst_num++, the insts array grown to
\* inst_num entries and entry inst_num - 1 set (always in bounds); then
\* AddActions: i->actions_num = act_num.
CreateApply(a) ==
    /\ fault = "none" /\ a \in open
    /\ applied' = [applied EXCEPT ![a] = actNum]
    /\ open' = open \ {a}
    /\ instNum' = instNum + 1
    /\ UNCHANGED <<actNum, made, cap, stored, appended, fault>>

AbNext ==
    \E a \in Objs :
        \/ NewActions(a)
        \/ \E m \in GuardedMethods : CreateGuarded(a, m)
        \/ \E m \in UnguardedMethods : CreateUnguarded(a, m)
        \/ CreateCopyTTL(a)
        \/ CreateApply(a)
    \/ NewInstruction

AbSpec == AbInit /\ [][AbNext]_abVars

-----------------------------------------------------------------------------
(***************************************************************************)
(* An applied action list is the builder's (CreateApply / AddActions with  *)
(* the static act_num): the count an Instruction copies is the number of   *)
(* Create* calls made on that object, and every entry below it holds an    *)
(* action stored by one of them.                                           *)
(***************************************************************************)
WellFormedApply ==
    \A a \in Objs : applied[a] # None =>
        /\ applied[a] = Len(appended[a])
        /\ \A i \in 0..applied[a] - 1 : i \in stored[a]

\* No Create* call writes past the end of its acts array.
NoOutOfBoundsWrite == fault # "oob"

\* No Create* call dereferences an acts entry it has not stored.
NoUninitDeref == fault # "uninit"

=============================================================================
