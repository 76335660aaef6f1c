------------------------------ MODULE MuxClient ------------------------------
(***************************************************************************)
(* The client's one authenticated relay socket shared by room handles:     *)
(* service/src/transports/multiplexedRelayConnection.ts.  A handle is one  *)
(* RoomState; the map `rooms` holds at most one handle per room.  Every    *)
(* `await` of the code is a boundary between two steps: waiting for the    *)
(* socket, for a device proof, for an acknowledgement of the relay.        *)
(*                                                                         *)
(* A lease is fresh or due (within a minute of its end, or past it).       *)
(* Nonces are only compared for equality, so one that nothing refers to    *)
(* any more is used again.  The proof provider, socket.io and the relay    *)
(* are external; the peer's features are taken as negotiated.              *)
(***************************************************************************)
EXTENDS Integers, FiniteSets, Sequences, TLC

CONSTANTS
    Rooms,      \* room identifiers
    Handles,    \* the RoomStates that may be created
    RoomOf,     \* the room of a handle
    Plans,      \* what may happen: handles that exist, are opened, are closed,
                \* whose leases run out
    MaxRooms,   \* MUX_RELAY_MAX_ROOMS
    MaxFaults,  \* bound: lost connections, failed proofs, refusals, lost answers, closing
    MaxNonce,   \* bound: nonces in use at one time
    MaxLoops    \* bound: restorations under way at one time

ASSUME MuxAssumption ==
    /\ RoomOf \in [Handles -> Rooms]
    /\ Plans \subseteq [settled : SUBSET Handles, opens : SUBSET Handles, closes : SUBSET Handles,
                     lapses : SUBSET Handles]
    /\ \A p \in Plans : \A h, k \in p.settled : RoomOf[h] = RoomOf[k] => h = k
    /\ MaxFaults \in Nat /\ MaxNonce \in Nat \ {0} /\ MaxLoops \in Nat \ {0}
    /\ MaxRooms \in Nat \ {0}
    /\ "none" \notin Handles   \* NoHandle

NoHandle == "none"
Gens     == 0 .. MaxFaults + 1
Nonces   == 1 .. MaxNonce
Slots    == 1 .. MaxLoops

VARIABLES
    plan,       \* the plan of this run of the program
    link,       \* "down" (socket.io reconnects), "up", "ended" (it does not)
    gen,        \* the socket's id: the number of the connection
    authGen,    \* authenticatedGeneration, 0 when undefined
    auth,       \* the authentication under way
    backlog,    \* an authentication waits in socket.io's send buffer
    rooms,      \* room -> handle of the map
    room,       \* handle -> RoomState
    op,         \* handle -> the subscription under way (room.joining)
    un,         \* unsubscriptions whose answer is awaited
    loops,      \* restoreRooms under way
    online,     \* navigator.onLine
    disposed,
    wire,       \* requests about a room on their way to the relay, in order
    relaySub,   \* the relay: the nonce it holds for a room on this connection
    notice,     \* a mux-room-suspended on its way, by room
    faults,
    told,       \* history: handles whose caller heard of a failure
    dropped,    \* history: handles left out by a restoration or a refresh
    refused     \* history: handles with an unsubscription refused or unanswered

muxVars == <<plan, link, gen, authGen, auth, backlog, rooms, room, op, un, loops, online,
             disposed, wire, relaySub, notice, faults, told, dropped, refused>>
linkVars == <<link, gen, authGen, backlog, online, disposed>>
relayVars == <<wire, relaySub, notice>>
history == <<told, dropped, refused>>

NoAuth == [gen |-> 0, at |-> "none"]
NoOp   == [kind |-> "none", at |-> "none", gen |-> 0, nonce |-> 0]
NoLoop == [at |-> "none", seen |-> {}, on |-> NoHandle]

(* RoomState as createRoom makes it. *)
NewRoom == [made |-> TRUE, cfg |-> FALSE, closed |-> FALSE, left |-> FALSE,
            blocked |-> FALSE, nonce |-> 0, lease |-> "none", timer |-> "none",
            backoff |-> FALSE, waiting |-> FALSE]

MuxInit ==
    /\ plan \in Plans
    /\ link = "down" /\ gen = 0 /\ authGen = 0 /\ auth = NoAuth /\ backlog = FALSE
    /\ rooms = [r \in Rooms |-> IF \E h \in plan.settled : RoomOf[h] = r
                              THEN CHOOSE h \in plan.settled : RoomOf[h] = r ELSE NoHandle]
    /\ room = [h \in Handles |-> IF h \in plan.settled THEN [NewRoom EXCEPT !.cfg = TRUE]
                               ELSE [NewRoom EXCEPT !.made = FALSE]]
    /\ op = [h \in Handles |-> NoOp]
    /\ un = {} /\ loops = [i \in Slots |-> NoLoop]
    /\ online = TRUE /\ disposed = FALSE
    /\ wire = [r \in Rooms |-> <<>>]
    /\ relaySub = [r \in Rooms |-> 0] /\ notice = [r \in Rooms |-> 0]
    /\ faults = 0 /\ told = {} /\ dropped = {} /\ refused = {}

InMap(h) == rooms[RoomOf[h]] = h
FreeSlot == {i \in Slots : loops[i] = NoLoop /\ \A j \in Slots : loops[j] = NoLoop => i <= j}
Fault == faults < MaxFaults /\ faults' = faults + 1

Of(r) == {h \in Handles : RoomOf[h] = r}
UsedNonces(r) == {room[h].nonce : h \in Of(r)} \cup {op[h].nonce : h \in Of(r)}
                 \cup {u.nonce : u \in {u \in un : RoomOf[u.h] = r}}
                 \cup {relaySub[r], notice[r]} \cup {wire[r][i].nonce : i \in DOMAIN wire[r]}

Request(what, h, nonce) == [what |-> what, h |-> h, nonce |-> nonce]
Emit(what, h, nonce) == wire' = [wire EXCEPT ![RoomOf[h]] = Append(@, Request(what, h, nonce))]
Arrives(r, what) ==
    /\ wire[r] # <<>> /\ Head(wire[r]).what = what
    /\ wire' = [wire EXCEPT ![r] = Tail(@)]

-----------------------------------------------------------------------------
(* Parts shared by several operations. *)

(* scheduleRetry: the back-off and its timer. *)
ScheduleRetry(R) == [R EXCEPT !.timer = "retry", !.backoff = TRUE, !.waiting = FALSE]

(* The catch clause of renewRoom for a refusal that cannot be retried. *)
Block(R) == [R EXCEPT !.blocked = TRUE, !.timer = "none", !.backoff = FALSE,
                      !.waiting = FALSE, !.nonce = 0, !.lease = "none"]

(* What the end of an operation leaves in its RoomState: renewRoom catches a  *)
(* failure and plans the next attempt, subscribe() passes it to its caller.   *)
(* The timer of a closed handle does nothing when it fires, and is left out.  *)
AfterOp(h, err) ==
    IF op[h].kind = "subscribe" \/ err = "ok" \/ room[h].closed THEN room[h]
    ELSE IF err = "terminal" THEN Block(room[h]) ELSE ScheduleRetry(room[h])

(* A loop awaiting the operation of a handle in `ended` goes on, unless that  *)
(* operation was a subscribe() that rejects: then the loop is over.           *)
LoopsAfter(ended, err) ==
    [i \in Slots |->
        IF loops[i].at = "join" /\ loops[i].on \in ended
        THEN IF op[loops[i].on].kind = "subscribe" /\ err # "ok" THEN NoLoop
             ELSE [loops[i] EXCEPT !.at = "walk", !.on = NoHandle]
        ELSE loops[i]]

(* The handles a loop had still to visit when it ended early. *)
Unvisited(ended, err) ==
    {h \in Handles : InMap(h) /\ \E i \in Slots :
        /\ loops[i].at = "join" /\ loops[i].on \in ended /\ h \notin loops[i].seen
        /\ op[loops[i].on].kind = "subscribe" /\ err # "ok"}

(* The operations of the handles in `ended` end with `err`. *)
EndOps(ended, err) ==
    /\ op' = [h \in Handles |-> IF h \in ended THEN NoOp ELSE op[h]]
    /\ room' = [h \in Handles |-> IF h \in ended THEN AfterOp(h, err) ELSE room[h]]
    /\ loops' = LoopsAfter(ended, err)
    /\ told' = told \cup {h \in ended : op[h].kind = "subscribe" /\ err # "ok"}
    /\ dropped' = dropped \cup Unvisited(ended, err)

(* ensureAuthenticated as far as its first await: an operation waits for the  *)
(* socket, for the authentication under way, whatever its connection, or for  *)
(* one it starts itself; or it goes on to the proof of its subscription.      *)
Enter(h, kind) ==
    LET at == IF link # "up" THEN "wait" ELSE IF authGen = gen THEN "proof" ELSE "auth"
    IN  /\ op' = [op EXCEPT ![h] = [NoOp EXCEPT !.kind = kind, !.at = at, !.gen = gen]]
        /\ auth' = IF at = "auth" /\ auth = NoAuth THEN [gen |-> gen, at |-> "proof"] ELSE auth

(* renewRoom: what it does with a RoomState R before its first await. *)
Skips(h, R) == disposed \/ R.closed \/ ~InMap(h) \/ R.blocked \/ ~R.cfg
\* Variant for testing TransportsCorrect: a back-off whose timer is gone is waited for.
RenewedWaits(h, R) == IF Skips(h, R) \/ R.backoff \/ online THEN R
                      ELSE [ScheduleRetry(R) EXCEPT !.waiting = TRUE]

Renewed(h, R) ==
    CASE Skips(h, R) -> R
      [] ~Skips(h, R) /\ R.backoff -> IF R.timer = "none" THEN ScheduleRetry(R) ELSE R
      [] ~Skips(h, R) /\ ~R.backoff /\ ~online -> [ScheduleRetry(R) EXCEPT !.waiting = TRUE]
      [] OTHER -> R
Proceeds(h, R) == ~Skips(h, R) /\ ~R.backoff /\ online
RenewRoom(h, R) ==
    /\ room' = [room EXCEPT ![h] = Renewed(h, R)]
    /\ IF Proceeds(h, R) /\ op[h] = NoOp THEN Enter(h, "renew") ELSE UNCHANGED <<op, auth>>

-----------------------------------------------------------------------------
(* Callers: the product opens and closes conversations one after another, and *)
(* closes the manager of a room before it makes another for it.               *)

CreateRoom(h) ==
    /\ ~room[h].made /\ ~disposed /\ h \in plan.opens
    /\ rooms[RoomOf[h]] = NoHandle
    /\ Cardinality({r \in Rooms : rooms[r] # NoHandle}) < MaxRooms
    /\ \A k \in Handles : RoomOf[k] = RoomOf[h] /\ room[k].made => room[k].left
    /\ rooms' = [rooms EXCEPT ![RoomOf[h]] = h]
    /\ room' = [room EXCEPT ![h] = NewRoom]
    /\ UNCHANGED <<plan, linkVars, auth, op, un, loops, relayVars, faults, history>>

(* An engine connects once, and again when it was told of a failure or has    *)
(* fresh authority for a room whose renewal was refused.                      *)
Subscribe(h) ==
    /\ InMap(h) /\ ~room[h].closed
    /\ ~room[h].cfg \/ h \in told \/ room[h].blocked
    /\ room' = [room EXCEPT ![h].cfg = TRUE, ![h].blocked = FALSE,
                            ![h].backoff = FALSE, ![h].waiting = FALSE]
    /\ IF op[h] = NoOp /\ ~disposed
       THEN Enter(h, "subscribe") /\ told' = told \ {h}
       ELSE /\ told' = IF op[h] = NoOp THEN told \cup {h} ELSE told
            /\ UNCHANGED <<op, auth>>
    /\ UNCHANGED <<plan, linkVars, rooms, un, loops, relayVars, faults, dropped, refused>>

(* unsubscribe: the handle is closed at once, but leaves the map only when    *)
(* there is nothing to tell the relay, or the relay has agreed.  What a       *)
(* RoomState out of the map still holds is of no use to anyone (Gone).        *)
Closed(R) == [R EXCEPT !.closed = TRUE, !.timer = "none", !.backoff = FALSE, !.waiting = FALSE]
Gone(R) == [Closed(R) EXCEPT !.nonce = 0, !.lease = "none", !.cfg = FALSE, !.blocked = FALSE]
Tells(h) == link = "up" /\ authGen = gen /\ room[h].nonce # 0
Unsubscribe(h) ==
    IF Tells(h)
    THEN /\ un' = un \cup {[h |-> h, nonce |-> room[h].nonce, gen |-> gen, st |-> "sent"]}
         /\ Emit("unsubscribe", h, room[h].nonce)
         /\ UNCHANGED rooms
    ELSE rooms' = [rooms EXCEPT ![RoomOf[h]] = NoHandle] /\ UNCHANGED <<un, wire>>

(* The manager's close(): it is tried once, and names the room, not the handle. *)
CloseRoom(h) ==
    /\ room[h].made /\ ~room[h].left /\ h \in plan.closes
    /\ LET k == rooms[RoomOf[h]]
       IN  IF k = NoHandle
           THEN room' = [room EXCEPT ![h].left = TRUE] /\ UNCHANGED <<rooms, un, wire>>
           ELSE /\ room' = [room EXCEPT ![k] = IF Tells(k) THEN Closed(@) ELSE Gone(@), ![h].left = TRUE]
                /\ Unsubscribe(k)
    /\ UNCHANGED <<plan, linkVars, auth, op, loops, relaySub, notice, faults, history>>

(* close() of the connection, up to the end of the rooms it waits for. *)
Dispose ==
    /\ ~disposed /\ Fault /\ disposed' = TRUE
    /\ UNCHANGED <<plan, link, gen, authGen, backlog, online, auth, rooms, room, op, un, loops,
                   relayVars, history>>
DisposeRoom(h) ==
    /\ disposed /\ InMap(h) /\ ~room[h].closed /\ link # "ended"
    /\ room' = [room EXCEPT ![h] = IF Tells(h) THEN Closed(@) ELSE Gone(@)]
    /\ Unsubscribe(h)
    /\ UNCHANGED <<plan, linkVars, auth, op, loops, relaySub, notice, faults, history>>

-----------------------------------------------------------------------------
(* The socket. *)

(* The disconnect handler.  Answers on their way are lost. *)
Lost(next) ==
    /\ link' = next /\ authGen' = 0 /\ wire' = [r \in Rooms |-> <<>>]
    /\ relaySub' = [r \in Rooms |-> 0] /\ notice' = [r \in Rooms |-> 0]
    /\ un' = {[u EXCEPT !.st = "sent"] : u \in un}
Cleared(R) == [R EXCEPT !.timer = "none", !.nonce = 0, !.lease = "none"]
ClearedRoom(h) == IF InMap(h) THEN Cleared(room[h]) ELSE room[h]
Unanswered(o) == IF o.at = "granted" THEN [o EXCEPT !.at = "ack"] ELSE o

Disconnect ==
    /\ link = "up" /\ Fault /\ Lost("down")
    /\ room' = [h \in Handles |-> ClearedRoom(h)]
    /\ op' = [h \in Handles |-> Unanswered(op[h])]
    /\ UNCHANGED <<plan, gen, auth, backlog, rooms, loops, online, disposed, history>>

(* The last step of close(): every room is settled, the socket is closed. *)
DisposeEnds ==
    /\ disposed /\ link # "ended"
    /\ \A h \in Handles : InMap(h) => room[h].closed
    /\ \A u \in un : u.gen # gen
    /\ Lost("ended")
    /\ room' = [h \in Handles |-> ClearedRoom(h)]
    /\ op' = [h \in Handles |-> Unanswered(op[h])]
    /\ UNCHANGED <<plan, gen, auth, backlog, rooms, loops, online, disposed, faults, history>>

(* connect: restoreRooms as far as its first await. *)
Connect ==
    /\ link = "down" /\ gen <= MaxFaults
    /\ link' = "up" /\ gen' = gen + 1 /\ authGen' = 0
    /\ IF disposed \/ \A r \in Rooms : rooms[r] = NoHandle
       THEN UNCHANGED <<loops, auth>>
       ELSE \E i \in FreeSlot :
              /\ loops' = [loops EXCEPT ![i] = [NoLoop EXCEPT !.at = "auth"]]
              /\ auth' = IF auth = NoAuth THEN [gen |-> gen + 1, at |-> "proof"] ELSE auth
    /\ UNCHANGED <<plan, backlog, rooms, room, op, un, online, disposed, relayVars, faults, history>>

(* waitForConnect ends: the socket is there, or 15 s have passed. *)
Connected(h) ==
    /\ op[h].at = "wait" /\ link = "up"
    /\ Enter(h, op[h].kind)
    /\ UNCHANGED <<plan, linkVars, rooms, room, un, loops, relayVars, faults, history>>
ConnectFails(h) ==
    /\ op[h].at = "wait" /\ link # "up"
    /\ EndOps({h}, "transient")
    /\ UNCHANGED <<plan, linkVars, auth, rooms, un, relayVars, faults, refused>>

-----------------------------------------------------------------------------
(* Authentication.  Everyone who waits for it shares its end. *)

Waiting == {h \in Handles : op[h].at = "auth"}

(* A failed authentication ends the operations and the loops that wait for it. *)
AuthEnds(err) ==
    LET dead == {i \in Slots : loops[i].at = "auth"}
    IN  /\ auth' = NoAuth
        /\ told' = told \cup {h \in Waiting : op[h].kind = "subscribe"}
        /\ loops' = [i \in Slots |-> IF i \in dead THEN NoLoop ELSE LoopsAfter(Waiting, err)[i]]
        /\ dropped' = dropped \cup Unvisited(Waiting, err)
                      \cup IF dead = {} THEN {} ELSE {h \in Handles : InMap(h)}

AuthProof ==
    /\ auth.at = "proof"
    /\ auth' = [auth EXCEPT !.at = "ack"]
    /\ backlog' = (backlog \/ auth.gen # gen \/ link # "up")
    /\ UNCHANGED <<plan, link, gen, authGen, rooms, room, op, un, loops, online, disposed,
                   relayVars, faults, history>>
AuthProofFails(err) ==
    /\ auth.at = "proof" /\ Fault
    /\ AuthEnds(err)
    /\ op' = [h \in Handles |-> IF h \in Waiting THEN NoOp ELSE op[h]]
    /\ room' = [h \in Handles |-> IF h \in Waiting THEN AfterOp(h, err) ELSE room[h]]
    /\ refused' = IF err = "terminal" THEN refused \cup Waiting ELSE refused
    /\ UNCHANGED <<plan, linkVars, rooms, un, relayVars>>
AuthAcknowledged ==
    /\ auth.at = "ack" /\ auth.gen = gen /\ link = "up" /\ ~backlog
    /\ authGen' = gen /\ auth' = NoAuth
    /\ op' = [h \in Handles |-> IF h \in Waiting
                                THEN [op[h] EXCEPT !.at = "proof", !.gen = gen] ELSE op[h]]
    /\ loops' = [i \in Slots |-> IF loops[i].at = "auth"
                                 THEN [loops[i] EXCEPT !.at = "walk"] ELSE loops[i]]
    /\ UNCHANGED <<plan, link, gen, backlog, rooms, room, un, online, disposed, relayVars,
                   faults, history>>
AuthTimeout ==
    /\ auth.at = "ack"
    /\ IF auth.gen = gen /\ link = "up" THEN Fault ELSE UNCHANGED faults
    /\ AuthEnds("transient")
    /\ op' = [h \in Handles |-> IF h \in Waiting THEN NoOp ELSE op[h]]
    /\ room' = [h \in Handles |-> IF h \in Waiting THEN AfterOp(h, "transient") ELSE room[h]]
    /\ UNCHANGED <<plan, linkVars, rooms, un, relayVars, refused>>

(* The relay refuses and disconnects the socket, which socket.io does not     *)
(* open again: a device it does not know or cannot look up, or an             *)
(* authentication that was made for another connection.                       *)
RelayRefusesAuth(stale) ==
    /\ link = "up" /\ backlog = stale
    /\ IF stale THEN UNCHANGED faults ELSE auth.at = "ack" /\ auth.gen = gen /\ Fault
    /\ backlog' = FALSE /\ Lost("ended")
    /\ IF auth.at = "ack" /\ (auth.gen # gen \/ ~backlog)
       THEN /\ AuthEnds("transient")
            /\ op' = [h \in Handles |-> IF h \in Waiting THEN NoOp ELSE Unanswered(op[h])]
            /\ room' = [h \in Handles |-> IF h \in Waiting
                          THEN Cleared(AfterOp(h, "transient")) ELSE ClearedRoom(h)]
       ELSE /\ op' = [h \in Handles |-> Unanswered(op[h])]
            /\ room' = [h \in Handles |-> ClearedRoom(h)]
            /\ UNCHANGED <<auth, loops, told, dropped>>
    /\ UNCHANGED <<plan, gen, rooms, online, disposed, refused>>

-----------------------------------------------------------------------------
(* One subscription: subscribeState from its proof on. *)

\* Variant for testing MuxCorrect: closing is not looked at again.
CurrentSocket(h) == ~disposed /\ InMap(h) /\ gen = op[h].gen

Current(h) == ~disposed /\ ~room[h].closed /\ InMap(h) /\ gen = op[h].gen

Proof(h) ==
    /\ op[h].at = "proof"
    /\ IF Current(h) /\ link = "up"
       THEN /\ \E n \in Nonces : n \notin UsedNonces(RoomOf[h])
            /\ LET n == CHOOSE n \in Nonces : n \notin UsedNonces(RoomOf[h])
               IN  op' = [op EXCEPT ![h].at = "ack", ![h].nonce = n] /\ Emit("subscribe", h, n)
            /\ UNCHANGED <<room, loops, told, dropped>>
       ELSE EndOps({h}, "transient") /\ UNCHANGED wire
    /\ UNCHANGED <<plan, linkVars, auth, rooms, un, relaySub, notice, faults, refused>>
ProofFails(h, err) ==
    /\ op[h].at = "proof" /\ Fault
    /\ EndOps({h}, err)
    /\ refused' = IF err = "terminal" THEN refused \cup {h} ELSE refused
    /\ UNCHANGED <<plan, linkVars, auth, rooms, un, relayVars>>

(* The relay grants a subscription, or refuses it: a room it does not admit,  *)
(* a rate limit and a full queue are the same message to the client.          *)
Awaited(q) == op[q.h].at = "ack" /\ op[q.h].nonce = q.nonce
RelaySubscribes(r) ==
    /\ Arrives(r, "subscribe")
    /\ LET q == Head(wire[r])
       IN  /\ op' = IF Awaited(q) THEN [op EXCEPT ![q.h].at = "granted"] ELSE op
           /\ relaySub' = [relaySub EXCEPT ![r] = q.nonce]
    /\ UNCHANGED <<plan, linkVars, auth, rooms, room, un, loops, notice, faults, history>>
RelayRefuses(r) ==
    /\ Arrives(r, "subscribe") /\ Awaited(Head(wire[r])) /\ Fault
    /\ LET h == Head(wire[r]).h
       IN  EndOps({h}, "terminal") /\ refused' = refused \cup {h}
    /\ UNCHANGED <<plan, linkVars, auth, rooms, un, relaySub, notice>>

Granted(h) ==
    /\ op[h].at = "granted"
    /\ IF Current(h)
       THEN /\ room' = [room EXCEPT ![h].nonce = op[h].nonce, ![h].lease = "fresh",
                          ![h].timer = "renewal", ![h].backoff = FALSE, ![h].waiting = FALSE]
            /\ op' = [op EXCEPT ![h].at = "replay", ![h].nonce = 0]
            /\ told' = told \ {h} /\ dropped' = dropped \ {h}
            /\ UNCHANGED wire
       ELSE /\ op' = [op EXCEPT ![h].at = "undo"] /\ Emit("undo", h, op[h].nonce)
            /\ UNCHANGED <<room, told, dropped>>
    /\ UNCHANGED <<plan, linkVars, auth, rooms, un, loops, relaySub, notice, faults, refused>>

(* The answer to mux-subscribe, to the mux-unsubscribe that takes it back or  *)
(* to mux-mailbox-replay does not come within 15 s.                           *)
AnswerLost(h) ==
    /\ op[h].at \in {"ack", "granted", "undo", "replay"}
    /\ IF op[h].gen = gen /\ link = "up" THEN Fault ELSE UNCHANGED faults
    /\ EndOps({h}, "transient")
    /\ refused' = IF op[h].at = "replay" THEN refused ELSE refused \cup {h}
    /\ UNCHANGED <<plan, linkVars, auth, rooms, un, relayVars>>
Undone(r) ==
    /\ Arrives(r, "undo")
    /\ LET q == Head(wire[r])
       IN  /\ relaySub' = [relaySub EXCEPT ![r] = IF @ = q.nonce THEN 0 ELSE @]
           /\ IF op[q.h].at = "undo" THEN EndOps({q.h}, "transient")
              ELSE UNCHANGED <<op, room, loops, told, dropped>>
    /\ UNCHANGED <<plan, linkVars, auth, rooms, un, notice, faults, refused>>
Replayed(h) ==
    /\ op[h].at = "replay" /\ op[h].gen = gen /\ link = "up"
    /\ EndOps({h}, "ok")
    /\ UNCHANGED <<plan, linkVars, auth, rooms, un, relayVars, faults, refused>>

-----------------------------------------------------------------------------
(* Unsubscription and suspension. *)

RelayUnsubscribes(r) ==
    /\ Arrives(r, "unsubscribe")
    /\ LET q == Head(wire[r])
           same == relaySub[r] = q.nonce
       IN  /\ relaySub' = [relaySub EXCEPT ![r] = IF same THEN 0 ELSE @]
           /\ un' = {IF u.h = q.h /\ u.gen = gen /\ u.st = "sent" /\ u.nonce = q.nonce
                     THEN [u EXCEPT !.st = IF same THEN "ok" ELSE "no"] ELSE u : u \in un}
    /\ UNCHANGED <<plan, linkVars, auth, rooms, room, op, loops, notice, faults, history>>
Unsubscribed(u) ==
    /\ u.st = "ok" /\ un' = un \ {u}
    /\ rooms' = [rooms EXCEPT ![RoomOf[u.h]] = NoHandle]
    /\ room' = [h \in Handles |-> IF InMap(h) /\ RoomOf[h] = RoomOf[u.h] THEN Gone(room[h]) ELSE room[h]]
    /\ UNCHANGED <<plan, linkVars, auth, op, loops, relayVars, faults, history>>
UnsubscribeFails(u) ==
    /\ u.st # "ok"
    /\ IF u.st = "sent" /\ u.gen = gen /\ link = "up" THEN Fault ELSE UNCHANGED faults
    /\ un' = un \ {u} /\ refused' = refused \cup {u.h}
    /\ UNCHANGED <<plan, linkVars, auth, rooms, room, op, loops, relayVars, told, dropped>>

(* The relay tells that the peer's identity has changed. *)
RelaySuspends(r) ==
    /\ relaySub[r] # 0 /\ notice[r] = 0 /\ Fault
    /\ notice' = [notice EXCEPT ![r] = relaySub[r]]
    /\ UNCHANGED <<plan, linkVars, auth, rooms, room, op, un, loops, wire, relaySub, history>>
AcceptRoomSuspended(r) ==
    /\ notice[r] # 0 /\ notice' = [notice EXCEPT ![r] = 0]
    /\ LET h == rooms[r]
       IN  IF h # NoHandle /\ authGen = gen /\ room[h].nonce = notice[r]
           THEN /\ room' = [room EXCEPT ![h] = IF Tells(h) THEN Closed(@) ELSE Gone(@)]
                /\ Unsubscribe(h)
           ELSE UNCHANGED <<room, rooms, un, wire>>
    /\ UNCHANGED <<plan, linkVars, auth, op, loops, relaySub, faults, history>>

-----------------------------------------------------------------------------
(* Time, timers and the page. *)

(* The lease comes within a minute of its end.  It lasts minutes and an       *)
(* answer is awaited for 15 s, so that is not before its own replay was       *)
(* answered (a clock minutes ahead of the relay's would break this).          *)
Lapse(h) ==
    /\ room[h].lease = "fresh" /\ op[h].at # "replay" /\ h \in plan.lapses
    /\ room' = [room EXCEPT ![h].lease = "due"]
    /\ UNCHANGED <<plan, linkVars, auth, rooms, op, un, loops, relayVars, faults, history>>
(* A timer fires: the renewal's a minute before the end of the lease, a       *)
(* retry's when its back-off is over (one planned during a replay takes 30 s).*)
TimerFires(h) ==
    /\ \/ room[h].timer = "renewal" /\ room[h].lease = "due"
       \/ room[h].timer = "retry" /\ op[h].at # "replay"
    /\ RenewRoom(h, [room[h] EXCEPT !.timer = "none", !.backoff = FALSE])
    /\ UNCHANGED <<plan, linkVars, rooms, un, loops, relayVars, faults, history>>

GoOffline ==
    /\ online /\ Fault /\ online' = FALSE
    /\ UNCHANGED <<plan, link, gen, authGen, backlog, disposed, auth, rooms, room, op, un, loops,
                   relayVars, history>>

GoOnline ==
    /\ ~online /\ online' = TRUE
    /\ UNCHANGED <<plan, link, gen, authGen, backlog, disposed, auth, rooms, room, op, un, loops,
                   relayVars, faults, history>>

(* One room's turn in refreshRooms, when the page has become visible or the   *)
(* network is back: a lease that is not fresh is renewed, and so is a room    *)
(* that waits for the network, whose back-off ends.                           *)
RefreshRoom(h) ==
    LET wakes == room[h].waiting
        R == IF wakes THEN [room[h] EXCEPT !.timer = "none", !.backoff = FALSE, !.waiting = FALSE]
             ELSE room[h]
    IN  /\ online /\ ~disposed /\ InMap(h) /\ (wakes \/ room[h].lease # "fresh")
        /\ RenewRoom(h, R)
        /\ dropped' = IF wakes /\ op[h].at = "replay" THEN dropped \cup {h} ELSE dropped
        /\ UNCHANGED <<plan, linkVars, rooms, un, loops, relayVars, faults, told, refused>>

(* One turn of restoreRooms, which renews every configured room in turn. *)
LoopStep(i, h) ==
    LET L == loops[i]
    IN  /\ L.at = "walk" /\ InMap(h) /\ h \notin L.seen
        /\ RenewRoom(h, room[h])
        /\ loops' = [loops EXCEPT ![i] =
              IF Proceeds(h, room[h])
              THEN [L EXCEPT !.seen = @ \cup {h}, !.at = "join", !.on = h]
              ELSE [L EXCEPT !.seen = @ \cup {h}]]
        /\ UNCHANGED <<plan, linkVars, rooms, un, relayVars, faults, history>>
LoopEnds(i) ==
    /\ loops[i].at = "walk" /\ \A h \in Handles : InMap(h) => h \in loops[i].seen
    /\ loops' = [loops EXCEPT ![i] = NoLoop]
    /\ UNCHANGED <<plan, linkVars, auth, rooms, room, op, un, relayVars, faults, history>>

-----------------------------------------------------------------------------
MuxCaller(h) == CreateRoom(h) \/ Subscribe(h) \/ CloseRoom(h)
MuxStep(h) ==
    \/ Connected(h) \/ ConnectFails(h) \/ Proof(h) \/ Granted(h)
    \/ AnswerLost(h) \/ Replayed(h)
    \/ TimerFires(h) \/ DisposeRoom(h)
MuxRelay(r) == RelaySubscribes(r) \/ RelayUnsubscribes(r) \/ Undone(r)
MuxAuth == AuthProof \/ AuthAcknowledged \/ AuthTimeout \/ RelayRefusesAuth(TRUE)
MuxLoop == \E i \in Slots : LoopEnds(i) \/ \E h \in Handles : LoopStep(i, h)
MuxReply == \E u \in un : Unsubscribed(u) \/ UnsubscribeFails(u)
MuxNext ==
    \/ \E h \in Handles : \/ MuxCaller(h) \/ MuxStep(h) \/ Lapse(h) \/ RefreshRoom(h)
                          \/ \E err \in {"transient", "terminal"} : ProofFails(h, err)
    \/ \E r \in Rooms : MuxRelay(r) \/ RelayRefuses(r)
    \/ MuxReply \/ MuxLoop \/ MuxAuth \/ RelayRefusesAuth(FALSE)
    \/ \E r \in Rooms : RelaySuspends(r) \/ AcceptRoomSuspended(r)
    \/ \E err \in {"transient", "terminal"} : AuthProofFails(err)
    \/ Disconnect \/ Connect \/ Dispose \/ DisposeEnds
    \/ GoOffline \/ GoOnline

(* The event loop, timers, socket.io's reconnection and the relay's answers   *)
(* make progress, and the user comes back to the page now and then.           *)
MuxFairness ==
    /\ \A h \in Handles : /\ WF_muxVars(MuxStep(h))
                          /\ SF_muxVars(RefreshRoom(h))
    /\ \A r \in Rooms : WF_muxVars(MuxRelay(r))
    /\ WF_muxVars(MuxLoop) /\ WF_muxVars(MuxReply)
    /\ WF_muxVars(MuxAuth)
    /\ WF_muxVars(Connect \/ GoOnline)

MuxSpec == MuxInit /\ [][MuxNext]_muxVars /\ MuxFairness

-----------------------------------------------------------------------------
(* Properties. *)

MuxTypeOK ==
    /\ link \in {"down", "up", "ended"} /\ gen \in Gens /\ authGen \in {0, gen}
    /\ auth \in [gen : Gens, at : {"none", "proof", "ack"}]
    /\ rooms \in [Rooms -> Handles \cup {NoHandle}]
    /\ room \in [Handles -> [made : BOOLEAN, cfg : BOOLEAN, closed : BOOLEAN, left : BOOLEAN,
            blocked : BOOLEAN, nonce : 0 .. MaxNonce, lease : {"none", "fresh", "due"},
            timer : {"none", "renewal", "retry"}, backoff : BOOLEAN, waiting : BOOLEAN]]
    /\ op \in [Handles -> [kind : {"none", "subscribe", "renew"}, gen : Gens, nonce : 0 .. MaxNonce,
            at : {"none", "wait", "auth", "proof", "ack", "granted", "undo", "replay"}]]
    /\ un \subseteq [h : Handles, nonce : Nonces, gen : Gens, st : {"sent", "ok", "no"}]
    /\ relaySub \in [Rooms -> 0 .. MaxNonce] /\ notice \in [Rooms -> 0 .. MaxNonce]
    /\ faults \in 0 .. MaxFaults

Wanted(h) == InMap(h) /\ room[h].cfg /\ ~room[h].closed /\ ~room[h].blocked
Planned(h) ==
    \/ op[h] # NoOp \/ room[h].timer # "none"
    \/ \E i \in Slots : loops[i] # NoLoop /\ h \notin loops[i].seen

(* On a live connection a wanted room always has a subscription under way, a  *)
(* timer or a restoration that will reach it; the exceptions are the two the  *)
(* code admits (subscribe() told its caller of the failure, or a restoration  *)
(* gave up before it came to the room) and one it does not: the network came  *)
(* back while the room's replay was awaited, which takes away its timer.      *)
NeverForgotten ==
    link = "up" /\ ~disposed =>
        \A h \in Handles : Wanted(h) => Planned(h) \/ h \in told \cup dropped

(* acceptEnvelope: the frames of a subscription the client does not answer    *)
(* as retryable.                                                              *)
AcceptsFrame(h, nonce) ==
    /\ InMap(h) /\ authGen = gen /\ nonce = room[h].nonce
    /\ room[h].lease # "none"

(* What the client believes is subscribed and has no work outstanding for is  *)
(* what the relay holds, so the frames the relay sends are accepted: after    *)
(* renewals that overlap closing, reconnection and lost answers.              *)
SubscribedIsHeld ==
    link = "up" /\ ~disposed => \A h \in Handles :
        /\ Wanted(h) /\ op[h] = NoOp /\ room[h].timer = "renewal"
        /\ room[h].lease # "none" /\ h \notin told
        => AcceptsFrame(h, relaySub[RoomOf[h]])

(* The relay holds no subscription that nobody at the client answers for,     *)
(* unless a request about it was refused or stayed unanswered.                *)
NoOrphan ==
    link = "up" => \A r \in Rooms : relaySub[r] # 0 =>
        \E h \in Handles :
            /\ RoomOf[h] = r
            /\ \/ InMap(h) /\ room[h].nonce = relaySub[r]
               \/ op[h].at \in {"granted", "undo"} /\ op[h].nonce = relaySub[r]
               \/ h \in refused

(* A closed handle that is still in the map, where it keeps its room from     *)
(* being opened again, waits for the relay's answer or was refused it.        *)
NoStuckRoom ==
    \A h \in Handles : InMap(h) /\ room[h].closed =>
        h \in refused \/ \E u \in un : u.h = h

(* A closed handle never takes a new lease, however late the operation that   *)
(* was under way when it was closed comes to its end.                         *)
ClosedStaysClosed ==
    \A h \in Handles : room[h].made /\ room[h].closed =>
        room'[h].closed /\ room'[h].nonce \in {0, room[h].nonce}

(* unsubscribe() deletes by room: it never removes the handle that has taken  *)
(* the place of the one it closed.                                            *)
OnlyClosedRemoved ==
    \A r \in Rooms : rooms[r] # NoHandle /\ rooms'[r] # rooms[r] =>
        rooms'[r] = NoHandle /\ room'[rooms[r]].closed

(* A wanted room gets its lease back once faults cease, unless the relay has  *)
(* ended the socket.                                                          *)
ComesBack ==
    \A h \in Handles :
        Wanted(h) ~> (room[h].lease = "fresh" \/ ~Wanted(h) \/ link = "ended" \/ disposed)

(* What the multiplexed connection promises of its rooms, besides that a     *)
(* room comes back: none is forgotten, what counts as subscribed is held by  *)
(* the relay, and no subscription or handle outlives its owner.              *)
MuxCorrect ==
    /\ [](MuxTypeOK /\ NeverForgotten /\ SubscribedIsHeld /\ NoOrphan /\ NoStuckRoom)
    /\ [][ClosedStaysClosed /\ OnlyClosedRemoved]_muxVars
=============================================================================
