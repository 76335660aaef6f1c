--------------------------- MODULE LegacyTransport ---------------------------
(***************************************************************************)
(* The relay transport of one room outside the multiplexed connection:     *)
(* service/src/transports/socketIoRelayTransport.ts behind its room        *)
(* channel, which binds a transport to one room for good.                  *)
(*                                                                         *)
(* Presence at the relay belongs to one connection.  ensureChannelPresence *)
(* makes at most one promise per connection generation: promise[g] is that *)
(* promise.  Acknowledgements have no time limit: what is lost with a      *)
(* connection leaves its promise pending for ever.                         *)
(***************************************************************************)
EXTENDS Integers, FiniteSets

CONSTANTS
    MaxDrops,    \* bound: connections lost, joins refused, proofs not obtained
    MaxInbound   \* bound: messages handed to the engine

ASSUME LegacyAssumption == MaxDrops \in Nat /\ MaxInbound \in Nat

SockGens == 0 .. MaxDrops + 1

VARIABLES
    sock,        \* "down", "up", "stopped"
    sockGen,     \* connectionGeneration
    wanted,      \* desiredConversation is set
    joinedOnce,  \* hasJoinedOnce
    joinedGen,   \* joinedGeneration, -1 when not joined
    promise,     \* generation -> its join: "none","wait","chained","proof","ack","acked"
    waiters,     \* generation -> who awaits that join: "join", "send", "restore"
    registered,  \* the relay: this socket has joined the channel
    inbound,     \* messages delivered and not yet answered
    answers,     \* answers given for claimed messages
    recorded,    \* the relay: messages whose rejection it has recorded
    received,    \* messages handed over so far
    drops,
    gaveUp       \* history: a restoration failed on this connection

legacyVars == <<sock, sockGen, wanted, joinedOnce, joinedGen, promise, waiters, registered,
                inbound, answers, recorded, received, drops, gaveUp>>
joinVars == <<wanted, joinedOnce, joinedGen, promise, waiters>>
inboundVars == <<inbound, answers, recorded, received>>

LegacyInit ==
    /\ sock = "down" /\ sockGen = 0 /\ wanted = FALSE /\ joinedOnce = FALSE /\ joinedGen = -1
    /\ promise = [g \in SockGens |-> "none"] /\ waiters = [g \in SockGens |-> {}]
    /\ registered = FALSE /\ drops = 0 /\ gaveUp = FALSE
    /\ inbound = {} /\ answers = {} /\ recorded = {} /\ received = 0

Drop == drops < MaxDrops /\ drops' = drops + 1
IsCurrentChannelJoined == sock = "up" /\ wanted /\ joinedGen = sockGen

(* ensureChannelPresence at generation g by `who`: share the promise of this  *)
(* generation or make one, which waits for the socket first.                  *)
Ensure(g, who, up) ==
    /\ waiters' = [waiters EXCEPT ![g] = @ \cup {who}]
    /\ promise' = [promise EXCEPT ![g] = IF @ # "none" THEN @ ELSE IF up THEN "proof" ELSE "wait"]

(* The promise of g settles: whoever shares it, and every promise that was    *)
(* chained to it when its own connection was gone, settles with it.           *)
Settled(g) == {g} \cup {k \in SockGens : promise[k] = "chained"}
Settle(g, ok) ==
    /\ promise' = [k \in SockGens |-> IF k \in Settled(g) THEN "none" ELSE promise[k]]
    /\ waiters' = [k \in SockGens |-> IF k \in Settled(g) THEN {} ELSE waiters[k]]
    /\ gaveUp' = (gaveUp \/ ~ok)

-----------------------------------------------------------------------------
(* Callers. *)

Join ==
    /\ sock # "stopped" /\ wanted' = TRUE
    /\ IF sock = "up" /\ joinedGen = sockGen THEN UNCHANGED <<promise, waiters>>
       ELSE Ensure(sockGen, "join", sock = "up")
    /\ UNCHANGED <<sock, sockGen, joinedOnce, joinedGen, registered, inboundVars, drops, gaveUp>>

(* sendEnvelope restores the presence before it sends. *)
SendEnvelope ==
    /\ wanted /\ ~IsCurrentChannelJoined /\ "send" \notin waiters[sockGen]
    /\ Ensure(sockGen, "send", sock = "up")
    /\ UNCHANGED <<sock, sockGen, wanted, joinedOnce, joinedGen, registered, inboundVars,
                   drops, gaveUp>>

Stop ==
    /\ sock # "stopped" /\ Drop
    /\ sock' = "stopped" /\ wanted' = FALSE /\ joinedOnce' = FALSE /\ joinedGen' = -1
    /\ registered' = FALSE
    /\ UNCHANGED <<sockGen, promise, waiters, inboundVars, gaveUp>>

-----------------------------------------------------------------------------
(* The socket. *)

SockDown ==
    /\ sock = "up" /\ Drop
    /\ sock' = "down" /\ joinedGen' = -1 /\ registered' = FALSE
    /\ promise' = [g \in SockGens |-> IF promise[g] = "acked" THEN "ack" ELSE promise[g]]
    /\ UNCHANGED <<sockGen, wanted, joinedOnce, waiters, inboundVars, gaveUp>>

\* Only a channel that was joined before is joined again by the transport itself.
Restores == wanted /\ joinedOnce

(* connect: a new generation; restoreChannelPresence joins again if the       *)
(* channel was joined before, and leaves a first join to its caller.          *)
SockUp ==
    LET g == sockGen + 1
        chained == {k \in SockGens : promise[k] = "wait"}
    IN  /\ sock = "down" /\ g \in SockGens
        /\ sock' = "up" /\ sockGen' = g /\ joinedGen' = -1 /\ gaveUp' = FALSE
        /\ waiters' = [waiters EXCEPT ![g] = IF Restores THEN {"restore"} ELSE {}]
        /\ promise' = [k \in SockGens |->
              IF k \in chained THEN "chained"
              ELSE IF k = g /\ (Restores \/ chained # {}) THEN "proof" ELSE promise[k]]
        /\ UNCHANGED <<wanted, joinedOnce, registered, inboundVars, drops>>

(* waitForSocketConnection gives up after 15 s, or on a connection error. *)
WaitFails(g) ==
    /\ promise[g] = "wait" /\ sock # "up"
    /\ promise' = [promise EXCEPT ![g] = "none"] /\ waiters' = [waiters EXCEPT ![g] = {}]
    /\ UNCHANGED <<sock, sockGen, wanted, joinedOnce, joinedGen, registered, inboundVars,
                   drops, gaveUp>>

-----------------------------------------------------------------------------
(* One join: a fresh proof, chat-join, its answer. *)

JoinProof(g) ==
    /\ promise[g] = "proof" /\ sock # "stopped"
    /\ promise' = [promise EXCEPT ![g] = "ack"]
    /\ UNCHANGED <<sock, sockGen, wanted, joinedOnce, joinedGen, waiters, registered,
                   inboundVars, drops, gaveUp>>
JoinProofFails(g) ==
    /\ promise[g] = "proof" /\ Drop /\ Settle(g, FALSE)
    /\ UNCHANGED <<sock, sockGen, wanted, joinedOnce, joinedGen, registered, inboundVars>>

RelayAdmits(g) ==
    /\ promise[g] = "ack" /\ g = sockGen /\ sock = "up"
    /\ registered' = TRUE /\ promise' = [promise EXCEPT ![g] = "acked"]
    /\ UNCHANGED <<sock, sockGen, wanted, joinedOnce, joinedGen, waiters, inboundVars, drops, gaveUp>>
RelayRefusesJoin(g) ==
    /\ promise[g] = "ack" /\ g = sockGen /\ sock = "up" /\ Drop
    /\ Settle(g, FALSE)
    /\ UNCHANGED <<sock, sockGen, wanted, joinedOnce, joinedGen, registered, inboundVars>>

(* An emit made while the socket is down waits in its buffer: a join whose    *)
(* proof came late reaches the relay on the next connection, where its own    *)
(* promise finds that its generation is over and follows the current one.     *)
LateJoin(g) ==
    /\ promise[g] = "ack" /\ g < sockGen /\ sock = "up"
    /\ registered' = TRUE
    /\ promise' = [promise EXCEPT ![g] = IF promise[sockGen] = "none" /\ joinedGen = sockGen
                                         THEN "none" ELSE "chained",
                                  ![sockGen] = IF @ = "none" /\ joinedGen # sockGen THEN "proof" ELSE @]
    /\ waiters' = IF promise[sockGen] = "none" /\ joinedGen = sockGen
                  THEN [waiters EXCEPT ![g] = {}] ELSE waiters
    /\ UNCHANGED <<sock, sockGen, wanted, joinedOnce, joinedGen, inboundVars, drops, gaveUp>>

Joined(g) ==
    /\ promise[g] = "acked"
    /\ IF wanted
       THEN joinedGen' = g /\ joinedOnce' = TRUE /\ Settle(g, TRUE)
       ELSE UNCHANGED <<joinedGen, joinedOnce>> /\ Settle(g, FALSE)
    /\ UNCHANGED <<sock, sockGen, wanted, registered, inboundVars, drops>>

-----------------------------------------------------------------------------
(* acceptChatEnvelope: the engine's decision on a message and its answer.  A  *)
(* permanent rejection of a mailbox message is first recorded at the relay.   *)

Decisions == {"accepted", "retryable", "permanent-rejection"}
Deliver(claimed) ==
    /\ registered /\ received < MaxInbound
    /\ received' = received + 1
    /\ inbound' = inbound \cup {[id |-> received + 1, claimed |-> claimed, at |-> "engine"]}
    /\ UNCHANGED <<sock, sockGen, joinVars, registered, answers, recorded, drops, gaveUp>>
Decide(m, decision) ==
    /\ m \in inbound /\ m.at = "engine"
    /\ IF decision = "permanent-rejection" /\ m.claimed
       THEN /\ inbound' = (inbound \ {m}) \cup {[m EXCEPT !.at = "rejecting"]}
            /\ UNCHANGED answers
       ELSE /\ inbound' = inbound \ {m}
            /\ answers' = answers \cup {[id |-> m.id, claimed |-> m.claimed, outcome |-> decision]}
    /\ UNCHANGED <<sock, sockGen, joinVars, registered, recorded, received, drops, gaveUp>>
RelayRecords(m) ==
    /\ m \in inbound /\ m.at = "rejecting" /\ registered
    /\ recorded' = recorded \cup {m.id}
    /\ inbound' = (inbound \ {m}) \cup {[m EXCEPT !.at = "recorded"]}
    /\ UNCHANGED <<sock, sockGen, joinVars, registered, answers, received, drops, gaveUp>>
RelayDeclines(m) ==     \* an error, or a status that is neither rejected nor duplicate
    /\ m \in inbound /\ m.at = "rejecting" /\ registered
    /\ inbound' = inbound \ {m}
    /\ answers' = answers \cup {[id |-> m.id, claimed |-> TRUE, outcome |-> "retryable"]}
    /\ UNCHANGED <<sock, sockGen, joinVars, registered, recorded, received, drops, gaveUp>>
Rejected(m) ==
    /\ m \in inbound /\ m.at = "recorded"
    /\ inbound' = inbound \ {m}
    /\ answers' = answers \cup {[id |-> m.id, claimed |-> TRUE, outcome |-> "permanent-rejection"]}
    /\ UNCHANGED <<sock, sockGen, joinVars, registered, recorded, received, drops, gaveUp>>

-----------------------------------------------------------------------------
LegacyJoin == \E g \in SockGens : JoinProof(g) \/ RelayAdmits(g) \/ LateJoin(g) \/ Joined(g)
LegacyNext ==
    \/ Join \/ SendEnvelope \/ Stop \/ SockDown \/ SockUp \/ LegacyJoin
    \/ \E g \in SockGens : WaitFails(g) \/ JoinProofFails(g) \/ RelayRefusesJoin(g)
    \/ \E claimed \in BOOLEAN : Deliver(claimed)
    \/ \E m \in inbound : \/ \E d \in Decisions : Decide(m, d)
                          \/ RelayRecords(m) \/ RelayDeclines(m) \/ Rejected(m)

(* socket.io reconnects, proofs are obtained, the relay answers. *)
LegacyFairness == WF_legacyVars(SockUp) /\ WF_legacyVars(LegacyJoin)

LegacySpec == LegacyInit /\ [][LegacyNext]_legacyVars /\ LegacyFairness
-----------------------------------------------------------------------------
(* Properties. *)

LegacyTypeOK ==
    /\ sock \in {"down", "up", "stopped"} /\ sockGen \in SockGens
    /\ joinedGen \in SockGens \cup {-1}
    /\ promise \in [SockGens -> {"none", "wait", "chained", "proof", "ack", "acked"}]
    /\ waiters \in [SockGens -> SUBSET {"join", "send", "restore"}]
    /\ received \in 0 .. MaxInbound /\ drops \in 0 .. MaxDrops

(* A transport that believes its channel is joined is registered at the relay *)
(* on the connection it has now.                                              *)
PresenceIsReal == IsCurrentChannelJoined => registered

(* The relay hears of a mailbox message's permanent rejection from its own    *)
(* record before the answer of the delivery says so.                          *)
RejectionIsRecorded ==
    \A a \in answers : a.claimed /\ a.outcome = "permanent-rejection" => a.id \in recorded

(* A channel that was joined once is joined again after any connection is     *)
(* lost, without a caller, unless a restoration of that connection failed.    *)
PresenceReturns ==
    (wanted /\ joinedOnce) ~> (IsCurrentChannelJoined \/ sock = "stopped" \/ gaveUp)

(* The safety of the transport: a channel that counts as joined is so at the  *)
(* relay, and a rejection is answered only once the relay has recorded it.    *)
LegacySafe == [](LegacyTypeOK /\ PresenceIsReal /\ RejectionIsRecorded)
=============================================================================
