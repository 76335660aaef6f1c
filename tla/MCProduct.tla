----------------------------- MODULE MCProduct -----------------------------
(***************************************************************************)
(* The safety of the page and of what it keeps: the opening of             *)
(* conversations, the list of conversations, trust in a contact and the    *)
(* SDK's chat.  The components share no variable, so a behaviour of this   *)
(* model is one of one component.                                          *)
(***************************************************************************)
EXTENDS Selection, ProductIndex, ContactTrust, SdkChat, TLC

(* The same two values are tabs, rooms of the page and parties of a chat; the *)
(* same two identities serve the list and the trust.                          *)
MCSymmetry == Permutations(TrustTabs) \cup Permutations(Identities)

VARIABLE part   \* the component of this behaviour

vars == <<part, selVars, indexVars, trustVars, chatVars>>

Init ==
    /\ part \in {"selection", "index", "trust", "chat"}
    /\ SelectionInit /\ IndexInit /\ TrustInit /\ ChatInit
    /\ part # "selection" => book.eligible = {}
    /\ served = registered

Next ==
    \/ /\ part = "selection" /\ SelectionNext
       /\ UNCHANGED <<part, indexVars, trustVars, chatVars>>
    \/ /\ part = "index" /\ IndexNext
       /\ UNCHANGED <<part, selVars, trustVars, chatVars>>
    \/ /\ part = "trust" /\ TrustNext
       /\ UNCHANGED <<part, selVars, indexVars, chatVars>>
    \/ /\ part = "chat" /\ ChatNext
       /\ UNCHANGED <<part, selVars, indexVars, trustVars>>

Spec == Init /\ [][Next]_vars
=============================================================================
