--------------------------- MODULE RelayOwnership ---------------------------
(***************************************************************************)
(* Who receives for a (room, routing address) pair: the relay's two        *)
(* admission protocols, chat-join (backend/socket.io/listeners.ts) and     *)
(* mux-authenticate / mux-subscribe (multiplexed.ts), over the registries  *)
(* they share - the legacy client table, the map of multiplexed            *)
(* subscribers, the current socket of every device - with the lock that    *)
(* serializes admission per pair, the database reads at which other        *)
(* handlers run, disconnections and the revocation of devices.             *)
(*                                                                         *)
(* The code between two awaits is one step, written as a composition of    *)
(* functions on the registries, one per function of the source.            *)
(***************************************************************************)
EXTENDS Naturals, Sequences, FiniteSets

CONSTANTS
  Devices,       \* devices, each an (account, device, trust epoch)
  Connections,   \* bound: the connections each device opens
  Rooms,
  Addresses,     \* routing addresses
  Ops,           \* bound: admission handlers under way at a time
  Capacity,      \* participants of a room, 2 in the code
  Entitled,      \* which device can prove its routing for which pair
  Revocable,     \* bound: devices that may be revoked
  Senders,       \* bound: devices whose chat-messages are followed
  Faults,        \* whether authorizations and reads may fail
  None

ASSUME OwnershipBounds ==
  /\ Connections \in [Devices -> Nat] /\ Capacity \in Nat \ {0} /\ Faults \in BOOLEAN
  /\ Entitled \subseteq Devices \X (Rooms \X Addresses) /\ IsFiniteSet(Addresses)
  /\ Revocable \subseteq Devices /\ Senders \subseteq Devices
  /\ None \notin Addresses /\ None \notin Devices \X Nat
  /\ None \notin Rooms \X Addresses /\ None \notin Rooms

\* A socket is never reused: one that closed stays closed.
Sockets == UNION {{d} \X (1..Connections[d]) : d \in Devices}
DeviceOf(s) == s[1]
Keys == Rooms \X Addresses
RoomOf(k) == k[1]
AddressOf(k) == k[2]

VARIABLES
  reg,       \* the registries
  queue,     \* roomOwnershipLocks: the handlers at each pair's lock, holder first
  op,        \* the admission handlers
  revoked,   \* devices whose revocation is durable
  ejected,   \* ... and whose live socket has been ejected
  route      \* the progress of a chat-message

vars == <<reg, queue, op, revoked, ejected, route>>

----------------------------------------------------------------------------
(* Types.                                                                  *)

Some(S) == S \cup {None}

\* open: connected sockets; joined: their channelID and userID; clients: the
\* client table; subs: muxSubscriptions; muxRooms: muxRoomSockets; current:
\* deviceSockets; generation: sockets with a muxConnectionGeneration.
Reg == [open: SUBSET Sockets, joined: [Sockets -> Some(Keys)],
        clients: [Keys -> Some(Sockets)],
        subs: [Sockets -> [Rooms -> Some(Addresses)]],
        muxRooms: [Keys -> Some(Sockets)],
        current: [Devices -> Some(Sockets)], generation: SUBSET Sockets]

OpPCs == {"idle", "verify", "lock", "control", "self", "owners", "final"}

\* Inside withRoomOwnershipLock.
Locked == {"control", "self", "owners", "final"}

\* todo: the owners to be checked, the one being read first; asked: whether
\* the device being read was active when the read was issued.
Op == [pc: OpPCs, kind: {"join", "subscribe", "authenticate"}, socket: Some(Sockets),
       key: Some(Keys), todo: Seq(Sockets), asked: BOOLEAN]

IdleOp == [pc |-> "idle", kind |-> "join", socket |-> None, key |-> None,
           todo |-> <<>>, asked |-> FALSE]

\* from and to: the sender's socket and the one chosen for its message.
Route == [state: {"none", "stored", "unavailable", "found", "sent"},
          room: Some(Rooms), from: Some(Sockets), to: Some(Sockets)]

NoRoute == [state |-> "none", room |-> None, from |-> None, to |-> None]

TypeOK ==
  /\ reg \in Reg
  /\ queue \in [Keys -> Seq(Ops)]
  /\ op \in [Ops -> Op]
  /\ ejected \subseteq revoked /\ revoked \subseteq Devices
  /\ route \in Route

Init ==
  /\ reg = [open |-> Sockets, joined |-> [s \in Sockets |-> None],
            clients |-> [k \in Keys |-> None],
            subs |-> [s \in Sockets |-> [r \in Rooms |-> None]],
            muxRooms |-> [k \in Keys |-> None],
            current |-> [d \in Devices |-> None], generation |-> {}]
  /\ queue = [k \in Keys |-> <<>>]
  /\ op = [o \in Ops |-> IdleOp]
  /\ revoked = {} /\ ejected = {}
  /\ route = NoRoute

----------------------------------------------------------------------------
(* The registries: one function of g per function of the source.           *)

\* clients.deleteClient: only the expected socket's own entry.
DeleteClient(g, k, s) ==
  IF k # None /\ g.clients[k] = s THEN [g EXCEPT !.clients[k] = None] ELSE g

\* Variant for testing Registered: the room's entry is left to its next owner.
RemoveSubscriptionOnly(g, s, r) == [g EXCEPT !.subs[s][r] = None]

\* removeSubscription of s for room r.
RemoveSubscription(g, s, r) ==
  [g EXCEPT !.subs[s][r] = None,
            !.muxRooms = [k \in Keys |->
                IF RoomOf(k) = r /\ AddressOf(k) = g.subs[s][r] /\ g.muxRooms[k] = s
                THEN None ELSE g.muxRooms[k]]]

RemoveSubscriptions(g, s) ==
  [g EXCEPT !.subs[s] = [r \in Rooms |-> None],
            !.muxRooms = [k \in Keys |->
                IF AddressOf(k) = g.subs[s][RoomOf(k)] /\ g.muxRooms[k] = s
                THEN None ELSE g.muxRooms[k]]]

\* The entry of deviceSockets, when it is this socket's.
ForgetDevice(g, s) ==
  IF g.current[DeviceOf(s)] = s THEN [g EXCEPT !.current[DeviceOf(s)] = None] ELSE g

\* A disconnection runs both disconnect handlers; a second one does nothing.
Disconnect(g, s) ==
  IF s \notin g.open THEN g
  ELSE LET h == ForgetDevice(RemoveSubscriptions(g, s), s) IN
       [DeleteClient(h, g.joined[s], s) EXCEPT !.open = @ \ {s}, !.generation = @ \ {s}]

\* disconnect(true) of a socket that may be undefined or the one to be spared.
DisconnectOther(g, t, s) == IF t \in {None, s} THEN g ELSE Disconnect(g, t)

\* invalidateMuxDeviceSocket.
Invalidate(g, s) == Disconnect(ForgetDevice(RemoveSubscriptions(g, s), s), s)

\* legacyRoomOwner: the owner, and the table without a stale entry.
LegacyOwner(g, k) ==
  LET s == g.clients[k] IN
  IF s # None /\ s \in g.open /\ g.joined[s] = k THEN s ELSE None

CleanLegacy(g, k) ==
  IF LegacyOwner(g, k) = None THEN [g EXCEPT !.clients[k] = None] ELSE g

\* isCurrentMuxSocket
IsCurrent(g, s) == g.current[DeviceOf(s)] = s

\* muxRoomOwner, with locallyOwnsSubscription: the owner, and the map without
\* a stale subscription.
MuxOwner(g, k) ==
  LET s == g.muxRooms[k] IN
  IF s # None /\ s \in g.open /\ IsCurrent(g, s) /\ g.subs[s][RoomOf(k)] = AddressOf(k)
  THEN s ELSE None

CleanMux(g, k) ==
  LET s == g.muxRooms[k] IN
  IF MuxOwner(g, k) = None /\ s # None /\ g.subs[s][RoomOf(k)] # None
  THEN RemoveSubscription(g, s, RoomOf(k)) ELSE g

\* Both lookups, in either order.
Clean(g, k) == CleanMux(CleanLegacy(g, k), k)

\* muxWouldExceedChannelCapacity counts entries, stale ones too.
Routes(g, r) ==
  {a \in Addresses : g.clients[<<r, a>>] # None \/ g.muxRooms[<<r, a>>] # None}
WouldExceed(g, k) ==
  /\ Cardinality(Routes(g, RoomOf(k))) >= Capacity
  /\ AddressOf(k) \notin Routes(g, RoomOf(k))

----------------------------------------------------------------------------
(* Admission handlers: one step per await.                                 *)

At(o, pc) == op[o].pc = pc
Is(o, kind) == op[o].kind = kind

\* Suspend handler o at pc, for anything but a device ...
Wait(o, pc) ==
  op' = [op EXCEPT ![o] = [@ EXCEPT !.pc = pc, !.todo = <<>>, !.asked = FALSE]]

\* ... or for the record of the device of x.
Suspend(o, pc, todo, x) ==
  op' = [op EXCEPT ![o] = [@ EXCEPT !.pc = pc, !.todo = todo,
                                    !.asked = DeviceOf(x) \notin revoked]]

\* What boundDeviceAuthorization(x) may return to handler o: the record was
\* read at some time since the call.
Reads(o, x) ==
  {v \in {"active", "inactive", "unavailable"} :
     CASE v = "active"   -> op[o].asked \/ DeviceOf(x) \notin revoked
       [] v = "inactive" -> DeviceOf(x) \in revoked
       [] OTHER          -> Faults}

\* The handler returns, without the lock or giving it up.
Quit(o, g) ==
  /\ reg' = g
  /\ op' = [op EXCEPT ![o] = IdleOp]
  /\ UNCHANGED queue

\* Variant for testing LockFollowsHandlers: the lock is kept on the way out.
LeaveLocked(o, g) ==
  /\ reg' = g
  /\ op' = [op EXCEPT ![o] = IdleOp]
  /\ queue' = queue

\* withRoomOwnershipLock releases the lock on every way out.
Leave(o, g) ==
  /\ reg' = g
  /\ op' = [op EXCEPT ![o] = IdleOp]
  /\ queue' = [queue EXCEPT ![op[o].key] = Tail(@)]

Begin(o, kind, s, k) ==
  /\ At(o, "idle")
  /\ s \in reg.open
  /\ op' = [op EXCEPT ![o] = [pc |-> "verify", kind |-> kind, socket |-> s, key |-> k,
                              todo |-> <<>>, asked |-> DeviceOf(s) \notin revoked]]
  /\ UNCHANGED <<reg, queue, revoked, ejected, route>>

\* chat-join arrives on a socket that is not multiplexed.
BeginJoin(o, s, k) ==
  /\ s \notin reg.generation
  /\ <<DeviceOf(s), k>> \in Entitled
  /\ Begin(o, "join", s, k)

\* The multiplexed handlers of a socket run one at a time (enqueue).
MuxIdle(s) == \A o \in Ops : op[o].socket = s => Is(o, "join")

BeginAuthenticate(o, s) == MuxIdle(s) /\ Begin(o, "authenticate", s, None)

BeginSubscribe(o, s, k) ==
  /\ s \in reg.generation /\ MuxIdle(s)
  /\ <<DeviceOf(s), k>> \in Entitled
  /\ Begin(o, "subscribe", s, k)

\* mux-authenticate is verified: the socket becomes its device's current one
\* and the previous one is disconnected.  Nothing looks whether the socket is
\* still connected.
Authenticated(o) ==
  LET s == op[o].socket
      d == DeviceOf(s)
      g == [reg EXCEPT !.current[d] = s, !.generation = @ \cup {s}]
  IN /\ At(o, "verify") /\ Is(o, "authenticate")
     /\ \/ /\ "active" \in Reads(o, s)
           /\ Quit(o, DisconnectOther(g, reg.current[d], s))
        \/ /\ Reads(o, s) # {"active"}
           /\ Quit(o, Disconnect(reg, s))
     /\ UNCHANGED <<revoked, ejected, route>>

\* The checks before the lock, then the queue for it.
Verified(o) ==
  LET s == op[o].socket IN
  /\ At(o, "verify") /\ ~Is(o, "authenticate")
  /\ "active" \in Reads(o, s)
  /\ Is(o, "subscribe") => s \in reg.open /\ IsCurrent(reg, s)
  /\ Wait(o, "lock")
  /\ queue' = [queue EXCEPT ![op[o].key] = Append(@, o)]
  /\ UNCHANGED <<reg, revoked, ejected, route>>

\* They fail: a device that is not active is disconnected, and so is one whose
\* join lacks a valid proof or exceeds the device's sockets.
Refused(o) ==
  LET s == op[o].socket IN
  /\ At(o, "verify") /\ ~Is(o, "authenticate")
  /\ \/ "inactive" \in Reads(o, s)
        /\ Quit(o, IF Is(o, "join") THEN Disconnect(reg, s) ELSE Invalidate(reg, s))
     \/ Faults /\ Quit(o, reg)
     \/ Faults /\ Is(o, "join") /\ Quit(o, Disconnect(reg, s))
     \/ Is(o, "subscribe") /\ ~(s \in reg.open /\ IsCurrent(reg, s)) /\ Quit(o, reg)
  /\ UNCHANGED <<revoked, ejected, route>>

\* Variant for testing OnlyOwnDeviceTakesOver: no waiting for the lock.
AcquireUnlocked(o) ==
  /\ At(o, "lock")
  /\ Wait(o, "control")
  /\ UNCHANGED <<reg, queue, revoked, ejected, route>>

\* The lock is free for o: room and routing are authorized again.
Acquire(o) ==
  /\ At(o, "lock")
  /\ Head(queue[op[o].key]) = o
  /\ Wait(o, "control")
  /\ UNCHANGED <<reg, queue, revoked, ejected, route>>

\* The owners loop begins or goes on: owners are still to be checked, or the
\* handler checks what it needs to and reads its own device a last time.  A
\* join looks at the room's capacity before that read.
Proceed(o, g, todo) ==
  LET s == op[o].socket IN
  IF todo # <<>>
  THEN reg' = g /\ Suspend(o, "owners", todo, Head(todo)) /\ UNCHANGED queue
  ELSE IF Is(o, "join")
  THEN IF WouldExceed(g, op[o].key) \/ s \notin g.open
       THEN Leave(o, Disconnect(g, s))
       ELSE reg' = g /\ Suspend(o, "final", <<>>, s) /\ UNCHANGED queue
  ELSE IF s \in g.open /\ IsCurrent(g, s)
       THEN reg' = g /\ Suspend(o, "final", <<>>, s) /\ UNCHANGED queue
       ELSE Leave(o, g)

Other(t, s) == IF t \in {None, s} THEN <<>> ELSE <<t>>

\* The owners of the pair other than the contender.
LookForOwners(o, g) ==
  LET k == op[o].key
      s == op[o].socket
  IN Proceed(o, Clean(g, k), Other(MuxOwner(g, k), s) \o Other(LegacyOwner(g, k), s))

\* Room and routing are authorized, or not any more.  A join then reads its
\* device, unless it has lost its socket.
Authorized(o) ==
  LET s == op[o].socket IN
  /\ At(o, "control")
  /\ \/ Faults /\ Leave(o, reg)
     \/ /\ Is(o, "join")
        /\ IF s \in reg.open
           THEN Suspend(o, "self", <<>>, s) /\ UNCHANGED <<reg, queue>>
           ELSE Leave(o, reg)
     \/ Is(o, "subscribe") /\ LookForOwners(o, reg)
  /\ UNCHANGED <<revoked, ejected, route>>

SelfRead(o) ==
  LET s == op[o].socket IN
  /\ At(o, "self")
  /\ \/ "active" \in Reads(o, s) /\ LookForOwners(o, reg)
     \/ Reads(o, s) # {"active"} /\ Leave(o, Disconnect(reg, s))
  /\ UNCHANGED <<revoked, ejected, route>>

\* An inactive owner is thrown out.
ThrowOut(g, k, t) ==
  LET was == \E r \in Rooms : g.subs[t][r] # None
      h == IF MuxOwner(g, k) = t THEN Invalidate(g, t) ELSE CleanMux(g, k)
      i == DeleteClient(h, k, t)
  IN IF was THEN i ELSE Disconnect(i, t)

\* The owner being checked is read.
OwnerRead(o) ==
  LET t == Head(op[o].todo)
      rest == Tail(op[o].todo)
      same == DeviceOf(t) = DeviceOf(op[o].socket)
  IN /\ At(o, "owners")
     /\ \/ "unavailable" \in Reads(o, t) /\ Leave(o, reg)
        \/ "inactive" \in Reads(o, t) /\ Proceed(o, ThrowOut(reg, op[o].key, t), rest)
        \/ "active" \in Reads(o, t) /\ same /\ Proceed(o, reg, rest)
        \/ "active" \in Reads(o, t) /\ ~same /\ Leave(o, reg)
     /\ UNCHANGED <<revoked, ejected, route>>

\* Variant for testing ExclusiveOwner: the multiplexed owner is not fenced off.
InstallJoinUnfenced(g, s, k) ==
  LET h == CleanLegacy(g, k)
      i == [h EXCEPT !.clients[k] = s, !.joined[s] = k]
  IN DisconnectOther(i, LegacyOwner(h, k), s)

\* chat-join: the multiplexed owner is released, the client installed, the
\* previous connection dropped.  The entry of the room the socket was in
\* before stays.
InstallJoin(g, s, k) ==
  LET h == Clean(g, k)
      m == MuxOwner(h, k)
      i == IF m = None THEN h ELSE RemoveSubscription(h, m, RoomOf(k))
      j == [i EXCEPT !.clients[k] = s, !.joined[s] = k]
  IN DisconnectOther(j, LegacyOwner(h, k), s)

\* mux-subscribe: both owners are fenced off, the subscription installed.
InstallSubscription(g, s, k) ==
  LET h == Clean(g, k)
      l == LegacyOwner(h, k)
      m == MuxOwner(h, k)
      i == IF l = None THEN h ELSE DeleteClient(h, k, l)
      j == IF m \in {None, s} THEN i ELSE RemoveSubscription(i, m, RoomOf(k))
      n == [RemoveSubscription(j, s, RoomOf(k)) EXCEPT
              !.subs[s][RoomOf(k)] = AddressOf(k), !.muxRooms[k] = s]
  IN DisconnectOther(DisconnectOther(n, l, None), m, s)

FinalJoin(o) ==
  LET s == op[o].socket IN
  /\ At(o, "final") /\ Is(o, "join")
  /\ \/ "active" \in Reads(o, s) /\ Leave(o, InstallJoin(reg, s, op[o].key))
     \/ Reads(o, s) # {"active"} /\ Leave(o, Disconnect(reg, s))
  /\ UNCHANGED <<revoked, ejected, route>>

FinalSubscribe(o) ==
  LET s == op[o].socket IN
  /\ At(o, "final") /\ Is(o, "subscribe")
  /\ \/ "inactive" \in Reads(o, s) /\ Leave(o, Invalidate(reg, s))
     \/ "unavailable" \in Reads(o, s) /\ Leave(o, reg)
     \/ "active" \in Reads(o, s)
        /\ Leave(o, IF WouldExceed(reg, op[o].key) THEN reg
                    ELSE InstallSubscription(reg, s, op[o].key))
  /\ UNCHANGED <<revoked, ejected, route>>

----------------------------------------------------------------------------
(* What else touches the registries.                                       *)

\* mux-unsubscribe, or the subscription's timer.
Unsubscribe(s, r) ==
  /\ reg.subs[s][r] # None
  /\ reg' = RemoveSubscription(reg, s, r)
  /\ UNCHANGED <<queue, op, revoked, ejected, route>>

Drop(s) ==
  /\ s \in reg.open
  /\ reg' = Disconnect(reg, s)
  /\ UNCHANGED <<queue, op, revoked, ejected, route>>

\* The device's revocation becomes durable ...
Revoke(d) ==
  /\ d \in Revocable \ revoked
  /\ revoked' = revoked \cup {d}
  /\ UNCHANGED <<reg, queue, op, ejected, route>>

\* Variant for testing RevokedOwnsNothing: the subscriptions go, the socket
\* stays.
EjectSubscriptions(d) ==
  /\ d \in revoked \ ejected
  /\ ejected' = ejected \cup {d}
  /\ reg' = IF reg.current[d] = None THEN reg ELSE RemoveSubscriptions(reg, reg.current[d])
  /\ UNCHANGED <<queue, op, revoked, route>>

\* ... and then revokeMuxDeviceSubscriptions ejects its current socket.
Eject(d) ==
  /\ d \in revoked \ ejected
  /\ ejected' = ejected \cup {d}
  /\ reg' = IF reg.current[d] = None THEN reg ELSE Invalidate(reg, reg.current[d])
  /\ UNCHANGED <<queue, op, revoked, route>>

\* Some other handler's activeBoundDevice found the device of s inactive.
FoundInactive(s) ==
  /\ DeviceOf(s) \in revoked
  /\ Invalidate(reg, s) # reg
  /\ reg' = Invalidate(reg, s)
  /\ UNCHANGED <<queue, op, revoked, ejected, route>>

\* Some other handler looks an owner up, and cleans on the way.
LookUp(k) ==
  /\ Clean(reg, k) # reg
  /\ reg' = Clean(reg, k)
  /\ UNCHANGED <<queue, op, revoked, ejected, route>>

----------------------------------------------------------------------------
(* Routing: a chat-message of a legacy owner, one at a time.               *)

\* currentLegacyOwner: of the room the socket is in now.
CurrentLegacyOwner(g, s) ==
  /\ s \in g.open /\ g.joined[s] # None
  /\ g.clients[g.joined[s]] = s

\* findPeerSid and what follows it without an await: stored when the room has
\* no other client, unavailable when the other client's socket is gone.
Submit(s) ==
  LET r == RoomOf(reg.joined[s])
      peers == {a \in Addresses \ {AddressOf(reg.joined[s])} : reg.clients[<<r, a>>] # None}
      Routed(state, t) == [state |-> state, room |-> r, from |-> s, to |-> t]
  IN /\ route.state # "found"
     /\ DeviceOf(s) \in Senders
     /\ CurrentLegacyOwner(reg, s)
     /\ \/ peers = {} /\ route' = Routed("stored", None)
        \/ \E a \in peers :
             LET t == reg.clients[<<r, a>>] IN
             route' = IF t \in reg.open THEN Routed("found", t) ELSE Routed("unavailable", t)
     /\ UNCHANGED <<reg, queue, op, revoked, ejected>>

\* Variant for testing RoomHolds: the socket found before the read is
\* used after it.
DeliverUnchecked ==
  /\ route.state = "found"
  /\ route' = [route EXCEPT !.state = "sent"]
  /\ UNCHANGED <<reg, queue, op, revoked, ejected>>

\* The chosen socket's device was read: the envelope is emitted if it and the
\* sender still own what they are joined to.
Deliver ==
  LET t == route.to IN
  /\ route.state = "found"
  /\ \/ /\ CurrentLegacyOwner(reg, t) /\ CurrentLegacyOwner(reg, route.from)
        /\ route' = [route EXCEPT !.state = "sent"]
        /\ UNCHANGED reg
     \/ /\ \/ ~CurrentLegacyOwner(reg, t) \/ ~CurrentLegacyOwner(reg, route.from)
           \/ DeviceOf(t) \in revoked
        /\ route' = [route EXCEPT !.state = "unavailable"]
        /\ reg' = IF DeviceOf(t) \in revoked THEN Disconnect(reg, t) ELSE reg
  /\ UNCHANGED <<queue, op, revoked, ejected>>

----------------------------------------------------------------------------

OpStep(o) ==
  \/ Authenticated(o) \/ Verified(o) \/ Refused(o) \/ Acquire(o) \/ Authorized(o)
  \/ SelfRead(o) \/ OwnerRead(o) \/ FinalJoin(o) \/ FinalSubscribe(o)

Next ==
  \/ \E o \in Ops, s \in Sockets, k \in Keys : BeginJoin(o, s, k) \/ BeginSubscribe(o, s, k)
  \/ \E o \in Ops, s \in Sockets : BeginAuthenticate(o, s)
  \/ \E o \in Ops : OpStep(o)
  \/ \E s \in Sockets, r \in Rooms : Unsubscribe(s, r)
  \/ \E s \in Sockets : Drop(s) \/ FoundInactive(s) \/ Submit(s)
  \/ \E d \in Devices : Revoke(d) \/ Eject(d)
  \/ \E k \in Keys : LookUp(k)
  \/ Deliver

Spec == Init /\ [][Next]_vars

----------------------------------------------------------------------------
(* Properties.                                                             *)

Owner(g, k) == IF MuxOwner(g, k) # None THEN MuxOwner(g, k) ELSE LegacyOwner(g, k)

\* Delivery for a pair has one owner across both transports
\* (multiplexed.ts:451, docs/MULTIPLEXED_RELAY_V1_DESIGN.md:640): whatever
\* joins, subscriptions, take-overs and disconnections overlap, there is never
\* a legacy and a multiplexed owner at once.
ExclusiveOwner == \A k \in Keys : MuxOwner(reg, k) = None \/ LegacyOwner(reg, k) = None

\* A live owner is displaced only by its own device (sameDeviceOwner,
\* multiplexed.ts:576, listeners.ts:342); another device has to wait until the
\* owner is gone or its device revoked.  The owner is read before awaits and
\* displaced after them; the lock is what keeps that check current.
OnlyOwnDeviceTakesOver ==
  [][\A k \in Keys : Owner(reg, k) # None /\ Owner(reg', k) # None
       => DeviceOf(Owner(reg, k)) = DeviceOf(Owner(reg', k))]_vars

\* Once a revoked device has been ejected (deviceTrust.ts:21) it owns no
\* multiplexed delivery ever again, although authentications and subscriptions
\* that read it as active may still be under way.
RevokedOwnsNothing ==
  \A k \in Keys : MuxOwner(reg, k) # None => DeviceOf(MuxOwner(reg, k)) \notin ejected

\* The subscriptions of the sockets and the map of room owners, kept by
\* different code, agree; and a connected socket with subscriptions is its
\* device's current one.
Registered ==
  /\ \A s \in Sockets, k \in Keys :
       reg.subs[s][RoomOf(k)] = AddressOf(k) <=> reg.muxRooms[k] = s
  /\ \A s \in reg.open : (\E r \in Rooms : reg.subs[s][r] # None) => IsCurrent(reg, s)

\* A multiplexed subscription never takes a room beyond its capacity, whatever
\* other admissions to the room are under way (multiplexed.ts:578).
MuxNeverOverfills ==
  \A k \in Keys :
    reg.muxRooms[k] = None /\ reg'.muxRooms[k] # None
      /\ AddressOf(k) \notin Routes(reg, RoomOf(k))
    => Cardinality(Routes(reg', RoomOf(k))) <= Capacity

\* A pair's lock is held or awaited by handlers that are still under way, each
\* once, and everybody past the queue holds it: no way out of an admission, by
\* refusal, failed read or disconnection, leaves a pair locked for good
\* (multiplexed.ts:132-137).
LockFollowsHandlers ==
  /\ \A k \in Keys : \A i \in DOMAIN queue[k] :
       LET o == queue[k][i] IN
       /\ op[o].key = k
       /\ At(o, "lock") \/ (i = 1 /\ op[o].pc \in Locked)
  /\ \A o \in Ops : op[o].pc \in Locked => Head(queue[op[o].key]) = o

\* findPeerSid "resolves the socket id of "the other participant" in socket's
\* channel" (listeners.ts:203), for sockets that stay in one room: the socket a
\* live envelope is emitted to, after an await, owns another address of the
\* sender's room at that moment.
LiveReachesOwner ==
  route'.state = "sent" /\ route.state # "sent"
    => \E k \in Keys : /\ RoomOf(k) = route'.room
                       /\ route'.to # route'.from
                       /\ LegacyOwner(reg, k) = route'.to

\* A room that fills up: nobody is let in beyond its capacity by multiplexed
\* subscriptions, and live envelopes in it reach an owner of an address of it.
RoomHolds == [][MuxNeverOverfills /\ LiveReachesOwner]_vars
=============================================================================
