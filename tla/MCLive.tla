------------------------------- MODULE MCLive -------------------------------
(***************************************************************************)
(* What must come to an end: calls, the first contact and the relay's      *)
(* replay loop.  The components share no variable, so a behaviour of this  *)
(* model is one of one component.                                          *)
(***************************************************************************)
EXTENDS Calls, FirstContact, ReplayLoop, TLC

CONSTANTS alice, bob

MCCallerOf == (1 :> alice) @@ (2 :> bob)
(* One call with everything that can go wrong; two calls that cross. *)
MCCallPlans == {[placed |-> {1}, acts |-> {"accept", "reject", "cancel", "hangup"}, faults |-> 2],
                [placed |-> {1, 2}, acts |-> {}, faults |-> 0]}

VARIABLE part   \* the component of this behaviour

vars == <<part, callVars, introVars, replayVars>>

Init ==
    /\ part \in {"calls", "contact", "replay"}
    /\ CallsInit /\ ContactInit /\ ReplayInit
    /\ part # "calls" => users = CHOOSE p \in CallPlans : TRUE
    /\ part # "contact" => ~taken

Next ==
    \/ /\ part = "calls" /\ CallsNext
       /\ UNCHANGED <<part, introVars, replayVars>>
    \/ /\ part = "contact" /\ ContactNext
       /\ UNCHANGED <<part, callVars, replayVars>>
    \/ /\ part = "replay" /\ ReplayNext
       /\ UNCHANGED <<part, callVars, introVars>>

(* The fairness of each component, in its own behaviours. *)
Fairness ==
    /\ WF_callVars(part = "calls" /\ \E p \in Peers, c \in Calls : Works(p, c))
    /\ WF_callVars(part = "calls" /\ \E p \in Peers, c \in Calls : Timers(p, c))
    /\ WF_callVars(part = "calls" /\ \E c \in Calls : DeadlinePasses(c))
    /\ WF_introVars(part = "contact" /\ JoinerWorks)
    /\ WF_introVars(part = "contact" /\ \E i \in IntroIds : Decided(i))
    /\ WF_introVars(part = "contact" /\ \E i \in IntroIds : Verdict(i))
    /\ WF_replayVars(part = "replay" /\ Replays)
    /\ WF_replayVars(part = "replay" /\ LeaseEnds)

Spec == Init /\ [][Next]_vars /\ Fairness
=============================================================================
