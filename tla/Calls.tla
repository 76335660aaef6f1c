-------------------------------- MODULE Calls --------------------------------
(***************************************************************************)
(* Voice and video calls between the two members of a room: the call       *)
(* composition and its event processor (service/src/calls/composition.ts,  *)
(* eventProcessor.ts, stateMachine.ts), the media negotiator               *)
(* (negotiation.ts, media.ts) and the product's call handlers              *)
(* (client/src/context/ChatContext.tsx).                                   *)
(*                                                                         *)
(* Call state lives in the process: one record per peer.  What awaits (a   *)
(* trust check, a signal's delivery, the permission prompt) is a task, and *)
(* tasks of one peer interleave.  A transition and its notification run    *)
(* without an await that lasts, so they are one step; where the code sends *)
(* between the two, they are two.  Sequence numbers make every signal      *)
(* deliverable once: the wire is a set.  Audio and video, candidates and   *)
(* the protocol version carry no control and are left out.                 *)
(***************************************************************************)
EXTENDS Naturals, FiniteSets

CONSTANTS
    Peers,         \* the two members
    Calls,         \* call ids: naturals, for the order that settles collisions
    CallerOf,      \* call -> the peer that places it
    RestartOwner,  \* the peer whose participant id is smaller
    NoCall,
    CallPlans      \* bounds: who places calls, what users do, how many faults
                   \* (signals lost, sends that fail, networks that break, ...)

ASSUME CallsAssumption ==
    /\ Calls \subseteq Nat /\ NoCall \notin Calls /\ CallerOf \in [Calls -> Peers]
    /\ RestartOwner \in Peers /\ IsFiniteSet(Peers) /\ Cardinality(Peers) = 2
    /\ \A plan \in CallPlans : plan.placed \subseteq Calls /\ plan.faults \in Nat

VARIABLES
    peer,       \* peer -> its calls, see PeerRecord
    callWire,       \* signals sent and not yet handled
    deadline,   \* calls whose setup deadline has passed
    consented,  \* history: calls the callee's user has accepted
    callRefused,    \* history: calls turned away because another call was active
    callFaults,
    users       \* the plan of this behaviour

callVars == <<peer, callWire, deadline, consented, callRefused, callFaults, users>>

Other(p) == CHOOSE q \in Peers : q # p
FinalStates == {"ended", "rejected", "cancelled", "expired", "failed"}
Setup == {"inviting", "ringing", "accepted", "connecting"}     \* invitationBound
Established == {"accepted", "connecting", "connected", "reconnecting"}

\* A state that is final has no transitions.
TerminalMoves == [ev \in {} |-> "none"]

transitions ==
    [inviting |-> [invite |-> "ringing", accept |-> "accepted", reject |-> "rejected",
                   cancel |-> "cancelled", expire |-> "expired", fail |-> "failed"],
     ringing |-> [accept |-> "accepted", reject |-> "rejected", cancel |-> "cancelled",
                  expire |-> "expired", fail |-> "failed"],
     accepted |-> [connect |-> "connecting", cancel |-> "cancelled", expire |-> "expired",
                   fail |-> "failed"],
     connecting |-> [connected |-> "connected", cancel |-> "cancelled", expire |-> "expired",
                     fail |-> "failed"],
     connected |-> [reconnect |-> "reconnecting", end |-> "ended", fail |-> "failed"],
     reconnecting |-> [connect |-> "connecting", end |-> "ended", fail |-> "failed"],
     ended |-> TerminalMoves, rejected |-> TerminalMoves, cancelled |-> TerminalMoves,
     expired |-> TerminalMoves, failed |-> TerminalMoves]

(* transitionCall: which events a call takes now.  Before it is connected a   *)
(* call takes nothing but expire once its deadline has passed.                *)
Takes(r, c, ev) ==
    /\ r.st[c] \in DOMAIN transitions /\ ev \in DOMAIN transitions[r.st[c]]
    /\ IF ev = "expire" THEN c \in deadline ELSE ~(r.st[c] \in Setup /\ c \in deadline)
Event(r, c, ev) == [r EXCEPT !.st[c] = transitions[@][ev]]

PeerRecord ==
    [st : [Calls -> {"none"} \cup Setup \cup Established \cup FinalStates],
     active : Calls \cup {NoCall},      \* activeCallId of the composition
     timer : SUBSET Calls,              \* expiryTimers
     shown : Calls \cup {NoCall},       \* the call the product shows as active
     conn : [Calls -> {"none", "open", "ready"}],  \* ready: the remote description is set
     up : SUBSET Calls,                 \* ICE reports connected
     mic : Calls \cup {NoCall},         \* the call whose preparation holds the capture
     restarted : SUBSET Calls, waiting : SUBSET Calls,  \* restartAttempted, reconnectTimers
     tasks : SUBSET [op : {"invite", "invite-send", "ring", "busy-send", "collide-send",
                           "accept", "accept-send", "reject", "reject-send", "cancel",
                           "cancel-send", "end", "end-send", "withdraw-send", "prepare", "capture", "void", "stale",
                           "captured", "offer", "offer-send", "restart-send", "answer-send"},
                     c : Calls]]

CallsInit ==
    /\ peer = [p \in Peers |->
          [st |-> [c \in Calls |-> "none"], active |-> NoCall, timer |-> {}, shown |-> NoCall,
           conn |-> [c \in Calls |-> "none"], up |-> {}, mic |-> NoCall, restarted |-> {},
           waiting |-> {}, tasks |-> {}]]
    /\ callWire = {} /\ deadline = {} /\ consented = {} /\ callRefused = {} /\ callFaults = 0 /\ users \in CallPlans

CallFault == callFaults < users.faults /\ callFaults' = callFaults + 1
Task(op, c) == [op |-> op, c |-> c]
Spawn(r, op, c) == [r EXCEPT !.tasks = @ \cup {Task(op, c)}]
Done(r, op, c) == [r EXCEPT !.tasks = @ \ {Task(op, c)}]
Signal(p, c, ev) == [to |-> Other(p), c |-> c, ev |-> ev]
Set(p, r) == peer' = [peer EXCEPT ![p] = r]

(* ProductionCallNegotiator.end: one ending of a call at a time. *)
Ending(r) == {t.c : t \in {u \in r.tasks : u.op \in {"end", "end-send", "withdraw-send"}}}
EndCall(r, c) == IF c \in Ending(r) THEN r ELSE Spawn(r, "end", c)

(* CallMediaController.release: the stream stops, a capture on its way is void. *)
Release(r) ==
    [r EXCEPT !.mic = NoCall,
              !.tasks = {IF t.op = "capture" THEN Task("void", t.c) ELSE t : t \in @}]

(* cleanupOnce: a new generation for the call, its connection closed, and the *)
(* one media controller released.                                             *)
Cleanup(r, c) ==
    LET q == Release(r)
    IN  [q EXCEPT !.conn[c] = "none", !.up = @ \ {c}, !.restarted = @ \ {c}, !.waiting = @ \ {c},
                  !.tasks = {IF t = Task("captured", c) THEN Task("stale", c) ELSE t : t \in @}]

\* The caller prepares its media when it hears that the call was accepted.
PreparesAt(state, p, c) == state = "accepted" /\ CallerOf[c] = p

(* The product's onCallUpdate: what it shows, refuses and prepares. *)
OnCallUpdate(r, p, c, state) ==
    IF state = "ringing" /\ r.shown \notin {NoCall, c} THEN Spawn(r, "reject", c)
    ELSE IF state \in FinalStates
         THEN IF r.shown = c THEN EndCall([r EXCEPT !.shown = NoCall], c) ELSE r
         ELSE IF PreparesAt(state, p, c)
              THEN Spawn([r EXCEPT !.shown = c], "prepare", c)
              ELSE [r EXCEPT !.shown = c]
(* notify: the expiry timer, the active call, the product.  `state` is that of *)
(* the session that is passed on, which may be older than the call's.          *)
Notify(r, p, c, state) ==
    OnCallUpdate([r EXCEPT !.timer = IF state \in Setup THEN @ ELSE @ \ {c},
                           !.active = IF state \in FinalStates /\ @ = c THEN NoCall ELSE @],
                 p, c, state)
(* service.event, then notify *)
Moves(r, p, c, ev) == LET q == Event(r, c, ev) IN Notify(q, p, c, q.st[c])
(* terminateLocally: a call that does not take fail stays as it is. *)
Fails(r, p, c) == IF Takes(r, c, "fail") THEN Moves(r, p, c, "fail") ELSE r
(* fail: through the composition, then the media. *)
FailCall(r, p, c) == Cleanup(Fails(r, p, c), c)

-----------------------------------------------------------------------------
(* The user. *)

(* installModernCallSupport: the old composition and its negotiator go, with *)
(* the calls they knew; what they were sending goes on.                      *)
Recomposed(r) ==
    [Release(r) EXCEPT
        !.st = [d \in Calls |-> "none"], !.active = NoCall, !.timer = {},
        !.conn = [d \in Calls |-> "none"], !.up = {}, !.restarted = {}, !.waiting = {},
        !.tasks = {t \in @ : t.op \in {"busy-send", "cancel-send", "collide-send", "void", "stale"}}]

(* startCall: a new composition replaces the old one, and invite() looks for *)
(* an active call before it awaits the binding and the authorization.        *)
StartCall(p, c) ==
    LET r == peer[p]
    IN  /\ c \in users.placed /\ CallerOf[c] = p /\ r.st[c] = "none" /\ Task("invite", c) \notin r.tasks
        /\ r.shown = NoCall
        /\ Set(p, Spawn(Recomposed(r), "invite", c))
        /\ UNCHANGED <<callWire, deadline, consented, callRefused, callFaults, users>>

AcceptCall(p, c) ==
    LET r == peer[p]
    IN  /\ "accept" \in users.acts /\ r.shown = c /\ r.st[c] = "ringing" /\ c \notin consented
        /\ {t \in r.tasks : t.c = c} = {}
        /\ consented' = consented \cup {c}
        /\ Set(p, Spawn(r, "prepare", c))
        /\ UNCHANGED <<callWire, deadline, callRefused, callFaults, users>>
RejectCall(p, c) ==
    LET r == peer[p]
    IN  /\ "reject" \in users.acts /\ r.shown = c /\ r.st[c] = "ringing" /\ {t \in r.tasks : t.c = c} = {}
        /\ Set(p, Spawn(r, "reject", c))
        /\ UNCHANGED <<callWire, deadline, consented, callRefused, callFaults, users>>
CancelCall(p, c) ==
    LET r == peer[p]
    IN  /\ "cancel" \in users.acts /\ r.shown = c /\ CallerOf[c] = p /\ r.st[c] = "inviting" /\ Task("cancel", c) \notin r.tasks
        /\ Set(p, Spawn(r, "cancel", c))
        /\ UNCHANGED <<callWire, deadline, consented, callRefused, callFaults, users>>
(* endCall hides the call at once. *)
HangUp(p, c) ==
    /\ "hangup" \in users.acts /\ peer[p].shown = c
    /\ Set(p, EndCall([peer[p] EXCEPT !.shown = NoCall], c))
    /\ UNCHANGED <<callWire, deadline, consented, callRefused, callFaults, users>>
(* watchVerification finds that the contact is no longer verified. *)
VerificationLost(p, c) ==
    /\ peer[p].shown = c /\ CallFault
    /\ Set(p, Cleanup(Fails([peer[p] EXCEPT !.shown = NoCall], p, c), c))
    /\ UNCHANGED <<callWire, deadline, consented, callRefused, users>>

-----------------------------------------------------------------------------
(* The composition: invite, respond, end. *)

Invited(p, c) ==
    LET r == peer[p]
        own == [Done(r, "invite", c) EXCEPT !.st[c] = "inviting", !.active = c, !.timer = @ \cup {c}]
    IN  /\ Task("invite", c) \in r.tasks
        /\ Set(p, Spawn(Notify(own, p, c, "inviting"), "invite-send", c))
        /\ UNCHANGED <<callWire, deadline, consented, callRefused, callFaults, users>>

(* respond commits the transition before the signal is sent; a cancellation  *)
(* is notified at once, the others when their signal has been delivered.     *)
Responds(p, c, ev) ==
    LET r == Done(peer[p], ev, c)
    IN  /\ Task(ev, c) \in peer[p].tasks
        /\ Set(p, IF ~Takes(r, c, ev) THEN (IF ev = "accept" THEN EndCall(r, c) ELSE r)
                  ELSE IF ev = "cancel" THEN Spawn(Moves(r, p, c, ev), "cancel-send", c)
                  ELSE Spawn(Event(r, c, ev), IF ev = "accept" THEN "accept-send" ELSE "reject-send", c))
        /\ UNCHANGED <<callWire, deadline, consented, callRefused, callFaults, users>>

(* end: `end` for a connected call, `cancel` before; cleanup in any case. *)
EndState(p, c) ==
    LET r == Done(peer[p], "end", c)
        ev == IF r.st[c] \in {"connected", "reconnecting"} THEN "end" ELSE "cancel"
    IN  /\ Task("end", c) \in peer[p].tasks
        /\ Set(p, IF Takes(r, c, ev)
                  THEN Moves(Spawn(r, IF ev = "end" THEN "end-send" ELSE "withdraw-send", c), p, c, ev)
                  ELSE Cleanup(r, c))
        /\ UNCHANGED <<callWire, deadline, consented, callRefused, callFaults, users>>

SendOps == {"invite-send", "busy-send", "collide-send", "accept-send", "reject-send", "cancel-send",
            "offer-send", "restart-send", "answer-send", "end-send", "withdraw-send"}
Sends == [op \in SendOps |->
             CASE op = "invite-send" -> "invite"
               [] op = "accept-send" -> "accept"
               [] op \in {"busy-send", "reject-send"} -> "reject"
               [] op \in {"collide-send", "cancel-send", "withdraw-send"} -> "cancel"
               [] op \in {"offer-send", "restart-send"} -> "offer"
               [] op = "answer-send" -> "answer"
               [] op = "end-send" -> "end"]

(* sendEvent, sendMediaSignal: a media signal needs a call that is established. *)
Sendable(r, op, c) == Sends[op] \in {"offer", "answer"} => r.st[c] \in Established
AfterSend(r, p, op, c) ==
    CASE op \in {"accept-send", "reject-send"} ->
             Notify(r, p, c, IF op = "accept-send" THEN "accepted" ELSE "rejected")
      [] op \in {"end-send", "withdraw-send"} -> Cleanup(r, c)
      [] OTHER -> r
AfterFailure(r, p, op, c) ==
    CASE op = "invite-send" -> IF r.st[c] \in {"inviting", "ringing"} THEN Fails(r, p, c) ELSE r
      [] op = "accept-send" -> EndCall(Fails(r, p, c), c)
      [] op = "offer-send" -> EndCall(r, c)
      [] op = "restart-send" -> FailCall(r, p, c)
      [] op \in {"end-send", "withdraw-send"} -> Cleanup(r, c)
      [] OTHER -> r

Sent(p, op, c) ==
    LET r == peer[p]
    IN  /\ Task(op, c) \in r.tasks /\ op \in SendOps /\ Sendable(r, op, c)
        /\ callWire' = callWire \cup {Signal(p, c, Sends[op])}
        /\ Set(p, AfterSend(Done(r, op, c), p, op, c))
        /\ UNCHANGED <<deadline, consented, callRefused, callFaults, users>>
SendFails(p, op, c) ==
    LET r == peer[p]
    IN  /\ Task(op, c) \in r.tasks /\ op \in SendOps
        /\ IF Sendable(r, op, c) THEN CallFault ELSE UNCHANGED callFaults
        /\ Set(p, AfterFailure(Done(r, op, c), p, op, c))
        /\ UNCHANGED <<callWire, deadline, consented, callRefused, users>>

-----------------------------------------------------------------------------
(* Signals. *)

\* Of two calls that are being placed the one with the smaller id stays.
Yields(r, a, c) == r.st[a] = "inviting" /\ a > c

(* The invitation of an unknown call.  Two invitations that cross: the       *)
(* greater call id gives way; any other active call makes the peer busy.     *)
InviteArrives(p, c) ==
    LET r == peer[p]
        a == r.active
        collides == a # NoCall /\ a # c
        yields == collides /\ Yields(r, a, c)
    IN  /\ Set(p, IF c \in deadline \/ (yields /\ ~Takes(r, a, "cancel")) THEN r
                  ELSE IF yields THEN Spawn(Spawn(Moves(r, p, a, "cancel"), "collide-send", a), "ring", c)
                  ELSE IF collides THEN Spawn(r, "busy-send", c)
                  ELSE Spawn(r, "ring", c))
        /\ callRefused' = IF c \in deadline THEN callRefused
                      ELSE callRefused \cup (IF yields THEN {a} ELSE IF collides THEN {c} ELSE {})

(* receiveInvite, once the session is authorized and a competing call's       *)
(* cancellation has been sent or has failed.                                  *)
Rings(p, c) ==
    LET r == Done(peer[p], "ring", c)
        in == [r EXCEPT !.st[c] = "ringing", !.active = c, !.timer = @ \cup {c}]
    IN  /\ Task("ring", c) \in peer[p].tasks
        /\ ~\E t \in r.tasks : t.op = "collide-send"
        /\ Set(p, IF c \in deadline THEN [r EXCEPT !.st[c] = "inviting"] ELSE Notify(in, p, c, "ringing"))
        /\ UNCHANGED <<callWire, deadline, consented, callRefused, callFaults, users>>

(* Offers and answers of an established call go to the negotiator. *)
OfferArrives(p, c) ==
    LET r == peer[p]
        moved == IF r.st[c] \in {"accepted", "reconnecting"} THEN Event(r, c, "connect") ELSE r
    IN  Set(p, IF \/ r.st[c] \notin Established \/ r.conn[c] = "none"
                  \/ r.st[c] = "accepted" /\ c \in deadline
               THEN r
               ELSE Spawn([moved EXCEPT !.conn[c] = "ready"], "answer-send", c))
AnswerArrives(p, c) ==
    Set(p, IF peer[p].st[c] \in Established /\ peer[p].conn[c] # "none"
           THEN [peer[p] EXCEPT !.conn[c] = "ready"] ELSE peer[p])
ControlArrives(p, c, ev) ==
    Set(p, IF peer[p].st[c] # "none" /\ Takes(peer[p], c, ev) THEN Moves(peer[p], p, c, ev) ELSE peer[p])

Receive(p, s) ==
    /\ s \in callWire /\ s.to = p /\ callWire' = callWire \ {s}
    /\ IF s.ev = "invite" /\ peer[p].st[s.c] = "none" THEN InviteArrives(p, s.c)
       ELSE /\ UNCHANGED callRefused
            /\ CASE s.ev = "invite" -> UNCHANGED peer
                 [] s.ev = "offer" -> OfferArrives(p, s.c)
                 [] s.ev = "answer" -> AnswerArrives(p, s.c)
                 [] OTHER -> ControlArrives(p, s.c, s.ev)
    /\ UNCHANGED <<deadline, consented, callFaults, users>>
LoseSignal(s) ==
    /\ s \in callWire /\ CallFault /\ callWire' = callWire \ {s}
    /\ UNCHANGED <<peer, deadline, consented, callRefused, users>>

-----------------------------------------------------------------------------
(* The negotiator: prepareOnce, beginOffer, the peer connection's states. *)

(* After the trust check and every ending and cleanup in progress.  request   *)
(* shares a stream that is held already, and fails while a prompt is open.     *)
PrepareStart(p, c) ==
    LET r == Done(peer[p], "prepare", c)
        allowed == IF CallerOf[c] = p THEN {"accepted", "connecting"} ELSE {"ringing"}
        prompting == \E t \in r.tasks : t.op \in {"capture", "void"}
    IN  /\ Task("prepare", c) \in peer[p].tasks /\ Ending(r) = {}
        /\ Set(p, IF r.st[c] \notin allowed \/ c \in deadline \/ r.conn[c] # "none" THEN EndCall(r, c)
                  ELSE IF r.mic # NoCall THEN Spawn(r, "captured", c)
                  ELSE IF prompting THEN EndCall(Release(r), c)
                  ELSE Spawn(r, "capture", c))
        /\ UNCHANGED <<callWire, deadline, consented, callRefused, callFaults, users>>

Capture(p, c) ==
    LET r == Done(peer[p], "capture", c)
    IN  /\ Task("capture", c) \in peer[p].tasks
        /\ Set(p, Spawn([r EXCEPT !.mic = c], "captured", c))
        /\ UNCHANGED <<callWire, deadline, consented, callRefused, callFaults, users>>
CaptureFails(p, c) ==    \* refused by the user or the device
    /\ Task("capture", c) \in peer[p].tasks /\ CallFault
    /\ Set(p, EndCall(Release(Done(peer[p], "capture", c)), c))
    /\ UNCHANGED <<callWire, deadline, consented, callRefused, users>>
CaptureVoid(p, c) ==     \* released meanwhile: the late stream is stopped
    /\ \/ Task("void", c) \in peer[p].tasks /\ Set(p, EndCall(Release(Done(peer[p], "void", c)), c))
       \/ Task("stale", c) \in peer[p].tasks /\ Set(p, EndCall(Done(peer[p], "stale", c), c))
    /\ UNCHANGED <<callWire, deadline, consented, callRefused, callFaults, users>>

(* The second trust check has passed: the connection is installed, and the    *)
(* caller offers while the callee answers the invitation.                     *)
Prepared(p, c) ==
    LET r == [Done(peer[p], "captured", c) EXCEPT !.conn[c] = "open"]
    IN  /\ Task("captured", c) \in peer[p].tasks
        /\ Set(p, Spawn(r, IF CallerOf[c] = p THEN "offer" ELSE "accept", c))
        /\ UNCHANGED <<callWire, deadline, consented, callRefused, callFaults, users>>

Offer(p, c) ==
    LET r == Done(peer[p], "offer", c)
    IN  /\ Task("offer", c) \in peer[p].tasks
        /\ Set(p, IF r.conn[c] = "none" \/ c \in deadline \/ r.st[c] \notin Established THEN EndCall(r, c)
                  ELSE Spawn(IF r.st[c] = "accepted" THEN Event(r, c, "connect") ELSE r, "offer-send", c))
        /\ UNCHANGED <<callWire, deadline, consented, callRefused, callFaults, users>>

(* ICE connects once both descriptions are set; connected() needs a call whose *)
(* deadline, if it still counts, has not passed.                               *)
IceConnected(p, c) ==
    LET r == [peer[p] EXCEPT !.waiting = @ \ {c}, !.up = @ \cup {c}]
    IN  /\ peer[p].conn[c] = "ready" /\ peer[Other(p)].conn[c] = "ready" /\ c \notin peer[p].up
        /\ Set(p, IF Takes(r, c, "connected") THEN Event(r, c, "connected") ELSE r)
        /\ UNCHANGED <<callWire, deadline, consented, callRefused, callFaults, users>>

(* disconnected: one side restarts ICE once, both give the call 30 seconds. *)
IceDisconnected(p, c) ==
    LET r == [peer[p] EXCEPT !.up = @ \ {c}, !.waiting = @ \cup {c}]
        restart == p = RestartOwner /\ c \notin r.restarted
    IN  /\ c \in peer[p].up
        /\ IF peer[Other(p)].conn[c] = "none" THEN UNCHANGED callFaults ELSE CallFault
        /\ Set(p, IF ~restart THEN r
                  ELSE LET q == [r EXCEPT !.restarted = @ \cup {c}]
                       IN  CASE q.st[c] \in {"connected", "reconnecting"} ->
                                    Spawn([q EXCEPT !.st[c] = "connecting"], "restart-send", c)
                             [] q.st[c] \in Setup /\ c \in deadline -> FailCall(q, p, c)
                             [] OTHER -> Spawn(q, "restart-send", c))
        /\ UNCHANGED <<callWire, deadline, consented, callRefused, users>>
\* Variant for testing CallsCorrect: the time is up and the call is left as it is.
ReconnectForgets(p, c) ==
    /\ c \in peer[p].waiting
    /\ Set(p, [peer[p] EXCEPT !.waiting = @ \ {c}])
    /\ UNCHANGED <<callWire, deadline, consented, callRefused, callFaults, users>>

ReconnectTimeout(p, c) ==
    /\ c \in peer[p].waiting
    /\ Set(p, FailCall(peer[p], p, c))
    /\ UNCHANGED <<callWire, deadline, consented, callRefused, callFaults, users>>
IceFailed(p, c) ==       \* the connection, or the microphone's track
    /\ peer[p].conn[c] # "none" /\ CallFault
    /\ Set(p, FailCall(peer[p], p, c))
    /\ UNCHANGED <<callWire, deadline, consented, callRefused, users>>

-----------------------------------------------------------------------------
(* Time. *)

DeadlinePasses(c) ==
    /\ c \notin deadline /\ \E p \in Peers : peer[p].st[c] # "none"
    /\ deadline' = deadline \cup {c}
    /\ UNCHANGED <<peer, callWire, consented, callRefused, callFaults, users>>
Expires(p, c) ==
    LET r == [peer[p] EXCEPT !.timer = @ \ {c}]
    IN  /\ c \in peer[p].timer /\ c \in deadline
        /\ Set(p, IF Takes(r, c, "expire") THEN Moves(r, p, c, "expire") ELSE r)
        /\ UNCHANGED <<callWire, deadline, consented, callRefused, callFaults, users>>

-----------------------------------------------------------------------------
Works(p, c) ==
    \/ Invited(p, c) \/ EndState(p, c) \/ Rings(p, c) \/ PrepareStart(p, c)
    \/ \E ev \in {"accept", "reject", "cancel"} : Responds(p, c, ev)
    \/ Capture(p, c) \/ CaptureVoid(p, c) \/ Prepared(p, c) \/ Offer(p, c)
    \/ \E op \in SendOps : Sent(p, op, c)
    \/ \E op \in {"offer-send", "restart-send", "answer-send"} :
          ~Sendable(peer[p], op, c) /\ SendFails(p, op, c)
Timers(p, c) ==
    Expires(p, c) \/ ReconnectTimeout(p, c) \/ (peer[Other(p)].conn[c] = "none" /\ IceDisconnected(p, c))

CallsNext ==
    \/ \E p \in Peers, c \in Calls :
          \/ StartCall(p, c) \/ AcceptCall(p, c) \/ RejectCall(p, c) \/ CancelCall(p, c)
          \/ HangUp(p, c) \/ VerificationLost(p, c)
          \/ Works(p, c) \/ Timers(p, c) \/ IceConnected(p, c) \/ IceDisconnected(p, c)
          \/ CaptureFails(p, c) \/ IceFailed(p, c)
          \/ \E op \in SendOps : SendFails(p, op, c)
    \/ \E p \in Peers : \E s \in callWire : Receive(p, s)
    \/ \E s \in callWire : LoseSignal(s)
    \/ \E c \in Calls : DeadlinePasses(c)

(* Awaits end, timers fire, and time passes; nobody has to call, to answer or *)
(* to hang up, and no signal has to arrive.                                   *)
CallsSpec ==
    /\ CallsInit /\ [][CallsNext]_callVars
    /\ WF_callVars(\E p \in Peers, c \in Calls : Works(p, c))
    /\ WF_callVars(\E p \in Peers, c \in Calls : Timers(p, c))
    /\ WF_callVars(\E c \in Calls : DeadlinePasses(c))
-----------------------------------------------------------------------------
(* Properties. *)

CallsTypeOK == peer \in [Peers -> PeerRecord]

(* "Requests devices only after acceptance": no microphone is captured for a  *)
(* call before its callee's user has accepted it.                             *)
CaptureNeedsConsent == \A p \in Peers : peer[p].mic # NoCall => peer[p].mic \in consented

(* Two calls that cross are never both turned away by the collision rule.     *)
CollisionLeavesOne ==
    \A c, d \in callRefused : CallerOf[c] = CallerOf[d]

(* A call that is over stays over: no late signal or task revives it. *)
OverStaysOver ==
    \A p \in Peers, c \in Calls :
        peer[p].st[c] \in FinalStates => peer'[p].st[c] \in {peer[p].st[c], "none"}

(* The restarted call whose deadline is behind it: it takes no event any more. *)
Stranded(r, c) == r.st[c] \in Setup /\ c \in deadline /\ c \notin r.timer

Alone == Cardinality(users.placed) = 1
TheCall == CHOOSE c \in users.placed : TRUE
Over(p) == peer[p].st[TheCall] \in {"none"} \cup FinalStates

(* Of a call that no other call crosses: when one side has ended it, it comes *)
(* to its end on the other side too, whatever signals are lost.               *)
EndsForBoth ==
    (Alone /\ \E p \in Peers : peer[p].st[TheCall] \in FinalStates) ~> \A p \in Peers : Over(p) \/ Stranded(peer[p], TheCall)

(* The microphone of a call that is over is released, or the product still    *)
(* shows the call and lets the user end it (an acceptance is notified after   *)
(* its signal was sent, when the call may be over already).                   *)
CaptureIsReleased ==
    (Alone /\ \E p \in Peers : peer[p].st[TheCall] \in FinalStates) ~>
        \A p \in Peers : Over(p) => peer[p].mic # TheCall \/ peer[p].shown = TheCall

(* What never happens to any number of calls. *)
CallsSafe ==
    /\ [](CallsTypeOK /\ CaptureNeedsConsent)
    /\ [][OverStaysOver]_callVars

(* What a call promises: the parts above, whatever signals are lost,         *)
(* whichever timers fire and whichever task comes late.                      *)
CallsCorrect ==
    /\ CallsSafe
    /\ []CollisionLeavesOne
    /\ EndsForBoth
    /\ CaptureIsReleased
=============================================================================
