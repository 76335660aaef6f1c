------------------------------ MODULE MCStore ------------------------------
(***************************************************************************)
(* The safety of what is stored: the crypto runtime's records, rooms at    *)
(* the relay, the vault, sync, groups and the replay log.  The components  *)
(* share no variable, so a behaviour of this model is one of one           *)
(* component.                                                              *)
(***************************************************************************)
EXTENDS RuntimeRecords, RoomRecord, Vault, SyncTransfer, GroupSecurity, ReplayLog

CONSTANTS m1, m2, m3

MCChunks == <<{"contact", "device"}>>
(* Lists below, at and above the size of a segment. *)
MCOldLists == {<<m1>>, <<m1, m2>>, <<m1, m2, m3>>}
(* The same two values are requests of a room, group runtimes and tabs of a log. *)
MCSymmetry == Permutations(RoomDevices) \cup Permutations(RoomRequests)

VARIABLE part   \* the component of this behaviour

vars == <<part, runtimeVars, roomVars, vaultVars, syncVars, groupVars, logVars>>

Init ==
    /\ part \in {"runtime", "room", "vault", "sync", "group", "log"}
    /\ RuntimeInit /\ RoomInit /\ VaultInit /\ SyncInit /\ GroupInit /\ LogInit
    /\ part # "log" => history = <<>>

Next ==
    \/ /\ part = "runtime" /\ RuntimeNext
       /\ UNCHANGED <<part, roomVars, vaultVars, syncVars, groupVars, logVars>>
    \/ /\ part = "room" /\ RoomNext
       /\ UNCHANGED <<part, runtimeVars, vaultVars, syncVars, groupVars, logVars>>
    \/ /\ part = "vault" /\ VaultNext
       /\ UNCHANGED <<part, runtimeVars, roomVars, syncVars, groupVars, logVars>>
    \/ /\ part = "sync" /\ SyncNext
       /\ UNCHANGED <<part, runtimeVars, roomVars, vaultVars, groupVars, logVars>>
    \/ /\ part = "group" /\ GroupNext
       /\ UNCHANGED <<part, runtimeVars, roomVars, vaultVars, syncVars, logVars>>
    \/ /\ part = "log" /\ LogNext
       /\ UNCHANGED <<part, runtimeVars, roomVars, vaultVars, syncVars, groupVars>>

Spec == Init /\ [][Next]_vars
=============================================================================
