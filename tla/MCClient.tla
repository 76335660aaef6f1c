------------------------------ MODULE MCClient ------------------------------
(***************************************************************************)
(* The safety of the client's parts: the multiplexed connection with two   *)
(* rooms, devices and files.  The components share no variable, so a       *)
(* behaviour of this model is one of one component.                        *)
(***************************************************************************)
EXTENDS MuxClient, DeviceRegistry, DeviceLedger, FileTransfer

CONSTANTS ra, rb, a1, a2, b1, d1, d2

MCRoomOf == (a1 :> ra) @@ (a2 :> ra) @@ (b1 :> rb)
(* A room that is closed and opened again; a room opened beside a settled one. *)
MCPlans == {[settled |-> {}, opens |-> {a1, a2}, closes |-> {a1}, lapses |-> {a1}],
            [settled |-> {b1}, opens |-> {a1}, closes |-> {}, lapses |-> {}]}
(* Either device enrols the other. *)
MCEnrolls == {<<d1, d2>>, <<d2, d1>>}

VARIABLE part   \* the component of this behaviour

vars == <<part, muxVars, registryVars, ledgerVars, fileVars>>

Init ==
    /\ part \in {"mux", "registry", "ledger", "file"}
    /\ MuxInit /\ RegistryInit /\ LedgerInit /\ FileInit
    /\ part # "mux" => plan = CHOOSE p \in Plans : TRUE

Next ==
    \/ /\ part = "mux" /\ MuxNext
       /\ UNCHANGED <<part, registryVars, ledgerVars, fileVars>>
    \/ /\ part = "registry" /\ RegistryNext
       /\ UNCHANGED <<part, muxVars, ledgerVars, fileVars>>
    \/ /\ part = "ledger" /\ LedgerNext
       /\ UNCHANGED <<part, muxVars, registryVars, fileVars>>
    \/ /\ part = "file" /\ FileNext
       /\ UNCHANGED <<part, muxVars, registryVars, ledgerVars>>

Spec == Init /\ [][Next]_vars
=============================================================================
