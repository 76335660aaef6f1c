---------------------------- MODULE GroupSecurity ---------------------------
(***************************************************************************)
(* Group membership on one device.  Every open conversation holds a        *)
(* GroupSecurityRuntime over the same vault record, in which membership,   *)
(* group key and the epoch of both are one value.  A membership event      *)
(* names its author and the epoch it is for; the runtime reads the         *)
(* snapshot, checks the author against it, reads the record again, stages  *)
(* the next key and swaps the record.  The reads and the swap are awaits,  *)
(* so changes of two runtimes cross.                                       *)
(***************************************************************************)
EXTENDS Integers, FiniteSets

CONSTANTS Runtimes,        \* conversations that hold a group runtime
          GroupDevices,    \* devices that can be members
          Administrators,  \* the ones whose role is administrator
          MaxGroupEpoch    \* epochs the group reaches

ASSUME GroupAssumption == Administrators \subseteq GroupDevices /\ MaxGroupEpoch \in Nat

VARIABLES group,         \* the vault record
          groupChanges,  \* each runtime's change under way
          keyHolders     \* who was an active member when the current key was made

groupVars == <<group, groupChanges, keyHolders>>

NoGroup  == -1
Settled  == [step |-> "none"]
States   == {"none", "pending", "active", "removed"}

\* Nothing is stored before a group is created.
GroupInit ==
    /\ group = [epoch |-> NoGroup, members |-> [d \in GroupDevices |-> "none"], removed |-> {}, author |-> "none"]
    /\ groupChanges = [r \in Runtimes |-> Settled]
    /\ keyHolders = {}

Active(g) == {d \in GroupDevices : g.members[d] = "active"}

\* GroupMembershipService.authorize: the author is an active administrator.
Authorized(g, actor) == actor \in Active(g) \cap Administrators

\* What an operation asks of its target.
Applies(g, op, actor, target) ==
    \/ op = "add" /\ g.members[target] = "none"
    \/ op = "activate" /\ g.members[target] = "pending"
    \/ op = "remove" /\ g.members[target] = "active" /\ target # actor

After(op) == [add |-> "pending", activate |-> "active", remove |-> "removed"][op]

\* The snapshot of an accepted event; its epoch and transcript are the snapshot's.
NextGroup(g, op, actor, target) ==
    [epoch |-> g.epoch + 1, members |-> [g.members EXCEPT ![target] = After(op)],
     removed |-> g.removed \cup (IF op = "remove" THEN {target} ELSE {}), author |-> actor]

\* create: one active administrator, the device itself; the record is read to be absent.
CreateGroup(r, d) ==
    /\ groupChanges[r] = Settled /\ group.epoch = NoGroup /\ d \in Administrators
    /\ groupChanges' = [groupChanges EXCEPT ![r] = [step |-> "load", expected |-> NoGroup,
          next |-> [epoch |-> 0, members |-> [x \in GroupDevices |-> IF x = d THEN "active" ELSE "none"],
                    removed |-> {}, author |-> d]]]
    /\ UNCHANGED <<group, keyHolders>>

\* add, activate and remove: read, authorize, validate the event.
ChangeGroup(r, op, actor, target) ==
    /\ groupChanges[r] = Settled /\ group.epoch \in 0 .. MaxGroupEpoch - 1
    /\ Authorized(group, actor) /\ Applies(group, op, actor, target)
    /\ groupChanges' = [groupChanges EXCEPT ![r] = [step |-> "load", expected |-> group.epoch,
                                          next |-> NextGroup(group, op, actor, target)]]
    /\ UNCHANGED <<group, keyHolders>>

\* compareAndSwapWithKeyUpdate reads the record again and stages the key; the
\* members removed so far come from this read.
LoadGroup(r) ==
    /\ groupChanges[r].step = "load"
    /\ groupChanges' = [groupChanges EXCEPT ![r] =
          IF group.epoch = groupChanges[r].expected
          THEN [step |-> "swap", read |-> group, next |-> [groupChanges[r].next EXCEPT !.removed = @ \cup group.removed]]
          ELSE Settled]
    /\ UNCHANGED <<group, keyHolders>>

\* Variant for testing GroupCorrect: the record is written over.
SwapsOver(r) ==
    /\ groupChanges[r].step = "swap"
    /\ groupChanges' = [groupChanges EXCEPT ![r] = Settled]
    /\ group' = groupChanges[r].next /\ keyHolders' = Active(groupChanges[r].next)

\* The record is swapped if it is the one read.
SwapGroup(r) ==
    /\ groupChanges[r].step = "swap"
    /\ groupChanges' = [groupChanges EXCEPT ![r] = Settled]
    /\ IF group = groupChanges[r].read
       THEN group' = groupChanges[r].next /\ keyHolders' = Active(groupChanges[r].next)
       ELSE UNCHANGED <<group, keyHolders>>

\* The page closes with a change under way.
LoseRuntime(r) ==
    /\ groupChanges[r] # Settled
    /\ groupChanges' = [groupChanges EXCEPT ![r] = Settled]
    /\ UNCHANGED <<group, keyHolders>>

GroupNext ==
    \E r \in Runtimes :
        \/ \E d \in GroupDevices : CreateGroup(r, d)
        \/ \E op \in {"add", "activate", "remove"}, a, t \in GroupDevices : ChangeGroup(r, op, a, t)
        \/ LoadGroup(r) \/ SwapGroup(r) \/ LoseRuntime(r)

GroupSpec == GroupInit /\ [][GroupNext]_groupVars

\* keyForActiveMember: whom the stored key is given to.
KeyForActiveMember(d) == group.epoch # NoGroup /\ d \in Active(group) /\ d \notin group.removed

-----------------------------------------------------------------------------

GroupTypeOK ==
    /\ group.epoch \in NoGroup .. MaxGroupEpoch
    /\ group.members \in [GroupDevices -> States]
    /\ group.removed \subseteq GroupDevices /\ keyHolders \subseteq GroupDevices
    /\ \A r \in Runtimes : groupChanges[r].step \in {"none", "load", "swap"}

\* A group keeps an administrator: two that remove each other at once, in two
\* conversations, do not both succeed (state.ts:25).
SomeAdministrator == group.epoch # NoGroup => Active(group) \cap Administrators # {}

\* Every change is authored by a device that was an active administrator of the
\* very record it replaces, however many changes crossed it (runtime.ts:48).
ChangedByAdministrator ==
    group' # group /\ group.epoch # NoGroup =>
        group'.epoch = group.epoch + 1 /\ Authorized(group, group'.author)

\* A removed member gets no key again: it stays removed, and the key in use was
\* made for members among whom it is not (persistence.ts:45).
RemovedIsOut == \A d \in group.removed : ~KeyForActiveMember(d) /\ d \notin keyHolders /\ group.members[d] = "removed"

(* What a group promises: it keeps an administrator, changes by one, and     *)
(* shuts out whom it removed.                                                *)
GroupCorrect ==
    /\ [](GroupTypeOK /\ SomeAdministrator /\ RemovedIsOut)
    /\ [][ChangedByAdministrator]_groupVars
=============================================================================
