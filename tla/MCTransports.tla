---------------------------- MODULE MCTransports ----------------------------
(***************************************************************************)
(* The client's two relay transports, each with one room, under fairness:  *)
(* the legacy transport and the multiplexed connection.  They share no     *)
(* variable, so a behaviour of this model is one of one of them.           *)
(***************************************************************************)
EXTENDS LegacyTransport, MuxClient

CONSTANTS ra, a1

(* One room, opened and closed once. *)
MCRoomOf == (a1 :> ra)
MCPlans == {[settled |-> {}, opens |-> {a1}, closes |-> {a1}, lapses |-> {a1}]}

VARIABLE part   \* the component of this behaviour

vars == <<part, legacyVars, muxVars>>

Init ==
    /\ part \in {"legacy", "mux"}
    /\ LegacyInit /\ MuxInit

Next ==
    \/ /\ part = "legacy" /\ LegacyNext
       /\ UNCHANGED <<part, muxVars>>
    \/ /\ part = "mux" /\ MuxNext
       /\ UNCHANGED <<part, legacyVars>>

(* The fairness of each transport, in its own behaviours. *)
Fairness ==
    /\ WF_legacyVars(part = "legacy" /\ SockUp)
    /\ WF_legacyVars(part = "legacy" /\ LegacyJoin)
    /\ \A h \in Handles : /\ WF_muxVars(part = "mux" /\ MuxStep(h))
                          /\ SF_muxVars(part = "mux" /\ RefreshRoom(h))
    /\ \A r \in Rooms : WF_muxVars(part = "mux" /\ MuxRelay(r))
    /\ WF_muxVars(part = "mux" /\ MuxLoop) /\ WF_muxVars(part = "mux" /\ MuxReply)
    /\ WF_muxVars(part = "mux" /\ MuxAuth) /\ WF_muxVars(part = "mux" /\ (Connect \/ GoOnline))

Spec == Init /\ [][Next]_vars /\ Fairness

-----------------------------------------------------------------------------
(* What the transports promise: a channel that counts as joined is so at the *)
(* relay, and a channel or a room that lost its connection comes back.       *)
TransportsCorrect ==
    /\ LegacySafe
    /\ PresenceReturns
    /\ ComesBack
=============================================================================
