------------------------ MODULE RelayOwnershipProofs ------------------------
(***************************************************************************)
(* Proofs that a (room, routing address) pair has one owner, for every     *)
(* number of devices, connections, rooms, addresses and handlers. The      *)
(* functions on the registries have a lemma each: all but the two that     *)
(* install an owner only take entries away (Less), which keeps whatever a  *)
(* handler has checked. The steps of the handlers then follow from what    *)
(* the lock gives them: nobody else installs an owner of the pair between  *)
(* a handler's check of the owners and its own installation.               *)
(***************************************************************************)
EXTENDS RelayOwnership, SequenceTheorems, FiniteSetTheorems, TLAPS

\* The subscriptions and the map of room owners agree, a device's current
\* socket is one of its own, and every connected socket with subscriptions, and
\* every connected multiplexed one but x, is its device's current one.
SoundBut(g, x) ==
  /\ g \in Reg
  /\ \A s \in Sockets, k \in Keys : g.subs[s][RoomOf(k)] = AddressOf(k) <=> g.muxRooms[k] = s
  /\ \A d \in Devices : g.current[d] # None => DeviceOf(g.current[d]) = d
  /\ \A s \in g.open, r \in Rooms : g.subs[s][r] # None => s \in g.generation
  /\ \A s \in g.open \cap g.generation : s # x => IsCurrent(g, s)

Sound(g) == SoundBut(g, None)

\* h has no entry that g has not.
Shrinks(g, h) ==
  /\ h \in Reg
  /\ h.open \subseteq g.open /\ h.joined = g.joined
  /\ \A s \in h.open : s \in g.generation => s \in h.generation
  /\ \A k \in Keys : h.clients[k] \in {g.clients[k], None}
  /\ \A k \in Keys : h.muxRooms[k] \in {g.muxRooms[k], None}
  /\ \A s \in Sockets, r \in Rooms : h.subs[s][r] \in {g.subs[s][r], None}
  /\ \A d \in Devices : h.current[d] \in {g.current[d], None}

\* From g to h the registries only lose entries, sockets and owners.
Less(g, h) ==
  /\ h.open \subseteq g.open /\ h.joined = g.joined
  /\ \A s \in h.open : s \in g.generation => s \in h.generation
  /\ \A k \in Keys : /\ h.clients[k] \in {g.clients[k], None}
                     /\ h.muxRooms[k] \in {g.muxRooms[k], None}
                     /\ LegacyOwner(h, k) \in {LegacyOwner(g, k), None}
                     /\ MuxOwner(h, k) \in {MuxOwner(g, k), None}

\* A socket belongs to one of the devices, and is not the absent value.
LEMMA SocketFacts ==
  /\ None \notin Sockets
  /\ \A s \in Sockets : DeviceOf(s) \in Devices
<1>1. Sockets \subseteq Devices \X Nat
  BY OwnershipBounds DEF Sockets
<1> QED BY <1>1, OwnershipBounds DEF DeviceOf

\* A pair is its room and its address, and is not the absent value.
LEMMA KeyFacts ==
  /\ None \notin Keys /\ None \notin Addresses /\ None \notin Rooms
  /\ \A k \in Keys : RoomOf(k) \in Rooms /\ AddressOf(k) \in Addresses
  /\ \A k, l \in Keys : RoomOf(k) = RoomOf(l) /\ AddressOf(k) = AddressOf(l) => k = l
  /\ \A r \in Rooms, a \in Addresses :
       <<r, a>> \in Keys /\ RoomOf(<<r, a>>) = r /\ AddressOf(<<r, a>>) = a
BY OwnershipBounds DEF Keys, RoomOf, AddressOf

\* Two steps that take entries away are one.
LEMMA LessTransitive ==
  ASSUME NEW g, NEW h, NEW i, Less(g, h), Less(h, i)
  PROVE  Less(g, i)
BY DEF Less

\* Changing nothing takes nothing away.
LEMMA LessReflexive ==
  ASSUME NEW g PROVE Less(g, g)
BY DEF Less

\* A function that only removes entries gives no pair a new owner: the owner
\* lookups (legacyRoomOwner, muxRoomOwner) read nothing but entries, connected
\* sockets and current sockets.
LEMMA ShrinksIsLess ==
  ASSUME NEW g, NEW h, Shrinks(g, h) PROVE Less(g, h)
<1>1. ASSUME NEW k \in Keys PROVE LegacyOwner(h, k) \in {LegacyOwner(g, k), None}
  BY <1>1 DEF LegacyOwner, Shrinks
<1>2. ASSUME NEW k \in Keys PROVE MuxOwner(h, k) \in {MuxOwner(g, k), None}
  <2>1. CASE h.muxRooms[k] = None
    BY <2>1 DEF MuxOwner
  <2> DEFINE s == h.muxRooms[k]
  <2>2. CASE s # None
    <3>1. s = g.muxRooms[k] /\ s \in Sockets
      BY <2>2 DEF Reg, Some, Shrinks
    <3>2. DeviceOf(s) \in Devices /\ RoomOf(k) \in Rooms /\ AddressOf(k) # None
      BY <3>1, SocketFacts, KeyFacts
    <3>3. IsCurrent(h, s) => IsCurrent(g, s)
      BY <3>1, <3>2, SocketFacts DEF IsCurrent, Shrinks
    <3>4. h.subs[s][RoomOf(k)] = AddressOf(k) => g.subs[s][RoomOf(k)] = AddressOf(k)
      BY <3>1, <3>2 DEF Shrinks
    <3> QED BY <3>1, <3>3, <3>4 DEF MuxOwner, Shrinks
  <2> QED BY <2>1, <2>2
<1> QED BY <1>1, <1>2 DEF Less, Shrinks

\* Removing twice is removing.
LEMMA ShrinksTransitive ==
  ASSUME NEW g, NEW h, NEW i, Shrinks(g, h), Shrinks(h, i)
  PROVE  Shrinks(g, i)
BY DEF Shrinks

\* clients.deleteClient clears the expected socket's own entry and nothing
\* else.
LEMMA DeleteClientKeeps ==
  ASSUME NEW g, NEW x, SoundBut(g, x), NEW k \in Some(Keys), NEW s \in Sockets
  PROVE  LET h == DeleteClient(g, k, s) IN
         /\ SoundBut(h, x) /\ Shrinks(g, h) /\ h.open = g.open /\ h.joined = g.joined /\ h.subs = g.subs
         /\ h.muxRooms = g.muxRooms /\ h.current = g.current /\ h.generation = g.generation
         /\ k # None => h.clients[k] # s
<1> DEFINE h == DeleteClient(g, k, s)
<1>1. CASE k # None /\ g.clients[k] = s
  <2>1. h = [g EXCEPT !.clients[k] = None] /\ k \in Keys
    BY <1>1 DEF DeleteClient, Some
  <2>2. g \in Reg
    BY DEF SoundBut
  <2> DEFINE table == [g.clients EXCEPT ![k] = None]
  <2>6. g.clients \in [Keys -> Some(Sockets)]
    BY <2>2 DEF Reg
  <2>7. table \in [Keys -> Some(Sockets)]
    BY <2>1, <2>6 DEF Some
  <2>8. h = [g EXCEPT !.clients = table]
    BY <2>1
  <2> HIDE DEF h
  <2>3. /\ h \in Reg /\ h.open = g.open /\ h.joined = g.joined /\ h.subs = g.subs
        /\ h.muxRooms = g.muxRooms /\ h.current = g.current /\ h.generation = g.generation
        /\ h.clients = table
    <3> HIDE DEF table
    <3> QED BY <2>8, <2>2, <2>7 DEF Reg
  <2>4. SoundBut(h, x)
    BY <2>3 DEF SoundBut, IsCurrent
  <2>5. Shrinks(g, h)
    BY <2>1, <2>3, <2>6 DEF Shrinks
  <2> QED BY <2>1, <2>3, <2>4, <2>5, <2>6, SocketFacts DEF h
<1>2. CASE ~(k # None /\ g.clients[k] = s)
  <2>1. h = g
    BY <1>2 DEF DeleteClient
  <2> QED BY <2>1, <1>2 DEF Shrinks, SoundBut
<1> QED BY <1>1, <1>2

\* removeSubscription keeps the sockets' subscriptions and the map of room
\* owners in agreement: the entry of a room goes with the subscription it
\* stands for.
LEMMA RemoveSubscriptionKeeps ==
  ASSUME NEW g, NEW x, SoundBut(g, x), NEW s \in Sockets, NEW r \in Rooms
  PROVE  LET h == RemoveSubscription(g, s, r) IN
         /\ SoundBut(h, x) /\ Shrinks(g, h) /\ h.open = g.open /\ h.joined = g.joined /\ h.clients = g.clients
         /\ h.current = g.current /\ h.generation = g.generation
         /\ h.subs[s][r] = None
         /\ \A t \in Sockets, q \in Rooms : t # s \/ q # r => h.subs[t][q] = g.subs[t][q]
         /\ \A k \in Keys : RoomOf(k) = r /\ g.muxRooms[k] = s => h.muxRooms[k] = None
         /\ \A k \in Keys : ~(RoomOf(k) = r /\ g.muxRooms[k] = s) => h.muxRooms[k] = g.muxRooms[k]
<1> DEFINE h == RemoveSubscription(g, s, r)
<1>1. g \in Reg
  BY DEF SoundBut
<1>2. /\ h \in Reg /\ h.open = g.open /\ h.joined = g.joined /\ h.clients = g.clients
      /\ h.current = g.current /\ h.generation = g.generation
      /\ h.subs = [g.subs EXCEPT ![s][r] = None]
      /\ h.muxRooms = [k \in Keys |->
                IF RoomOf(k) = r /\ AddressOf(k) = g.subs[s][r] /\ g.muxRooms[k] = s
                THEN None ELSE g.muxRooms[k]]
  BY <1>1 DEF RemoveSubscription, Reg, Some
<1>3. g.subs \in [Sockets -> [Rooms -> Some(Addresses)]]
  BY <1>1 DEF Reg
<1>4. \A k \in Keys : h.muxRooms[k] = IF RoomOf(k) = r /\ g.muxRooms[k] = s THEN None ELSE g.muxRooms[k]
  BY <1>2 DEF SoundBut
<1>5. ASSUME NEW t \in Sockets, NEW q \in Rooms
      PROVE  h.subs[t][q] = IF t = s /\ q = r THEN None ELSE g.subs[t][q]
  BY <1>2, <1>3
<1>6. \A t \in Sockets, k \in Keys : h.subs[t][RoomOf(k)] = AddressOf(k) <=> h.muxRooms[k] = t
  BY <1>4, <1>5, KeyFacts, SocketFacts DEF SoundBut
<1>7. g.open \subseteq Sockets
  BY <1>1 DEF Reg
<1>8. SoundBut(h, x)
  BY <1>2, <1>5, <1>6, <1>7 DEF SoundBut, IsCurrent
<1>9. Shrinks(g, h)
  BY <1>2, <1>4, <1>5 DEF Shrinks
<1> QED BY <1>2, <1>4, <1>5, <1>8, <1>9

\* ... and so does the removal of every subscription of a socket.
LEMMA RemoveSubscriptionsKeeps ==
  ASSUME NEW g, NEW x, SoundBut(g, x), NEW s \in Sockets
  PROVE  LET h == RemoveSubscriptions(g, s) IN
         /\ SoundBut(h, x) /\ Shrinks(g, h) /\ h.open = g.open /\ h.joined = g.joined /\ h.clients = g.clients
         /\ h.current = g.current /\ h.generation = g.generation
         /\ \A t \in Sockets, r \in Rooms : h.subs[t][r] = IF t = s THEN None ELSE g.subs[t][r]
<1> DEFINE h == RemoveSubscriptions(g, s)
<1>1. g \in Reg
  BY DEF SoundBut
<1>2. /\ h \in Reg /\ h.open = g.open /\ h.joined = g.joined /\ h.clients = g.clients
      /\ h.current = g.current /\ h.generation = g.generation
      /\ h.subs = [g.subs EXCEPT ![s] = [r \in Rooms |-> None]]
      /\ h.muxRooms = [k \in Keys |->
                IF AddressOf(k) = g.subs[s][RoomOf(k)] /\ g.muxRooms[k] = s
                THEN None ELSE g.muxRooms[k]]
  BY <1>1 DEF RemoveSubscriptions, Reg, Some
<1>3. g.subs \in [Sockets -> [Rooms -> Some(Addresses)]]
  BY <1>1 DEF Reg
<1>4. \A k \in Keys : h.muxRooms[k] = IF g.muxRooms[k] = s THEN None ELSE g.muxRooms[k]
  BY <1>2 DEF SoundBut
<1>5. ASSUME NEW t \in Sockets, NEW q \in Rooms
      PROVE  h.subs[t][q] = IF t = s THEN None ELSE g.subs[t][q]
  BY <1>2, <1>3
<1>6. \A t \in Sockets, k \in Keys : h.subs[t][RoomOf(k)] = AddressOf(k) <=> h.muxRooms[k] = t
  BY <1>4, <1>5, KeyFacts, SocketFacts DEF SoundBut
<1>7. g.open \subseteq Sockets
  BY <1>1 DEF Reg
<1>8. SoundBut(h, x)
  BY <1>2, <1>5, <1>6, <1>7 DEF SoundBut, IsCurrent
<1>9. Shrinks(g, h)
  BY <1>2, <1>4, <1>5 DEF Shrinks
<1> QED BY <1>2, <1>4, <1>5, <1>8, <1>9

\* Dropping a device's current socket leaves the registries sound but for that
\* socket, which its caller disconnects.
LEMMA ForgetDeviceKeeps ==
  ASSUME NEW g, NEW x, SoundBut(g, x), NEW s \in Sockets, x \in {None, s}
  PROVE  LET h == ForgetDevice(g, s) IN
         /\ SoundBut(h, s) /\ Shrinks(g, h) /\ h.open = g.open /\ h.joined = g.joined
         /\ h.subs = g.subs /\ h.clients = g.clients /\ h.generation = g.generation
<1> DEFINE h == ForgetDevice(g, s)
           d == DeviceOf(s)
<1>1. g \in Reg
  BY DEF SoundBut
<1>2. d \in Devices
  BY SocketFacts
<1>3. CASE g.current[d] = s
  <2> DEFINE table == [g.current EXCEPT ![d] = None]
  <2>1. g.current \in [Devices -> Some(Sockets)]
    BY <1>1 DEF Reg
  <2>2. table \in [Devices -> Some(Sockets)]
    BY <2>1 DEF Some
  <2>3. h = [g EXCEPT !.current = table]
    BY <1>3 DEF ForgetDevice
  <2> HIDE DEF h
  <2>4. /\ h \in Reg /\ h.open = g.open /\ h.joined = g.joined /\ h.subs = g.subs
        /\ h.muxRooms = g.muxRooms /\ h.clients = g.clients /\ h.generation = g.generation
        /\ h.current = table
    <3> HIDE DEF table
    <3> QED BY <2>3, <1>1, <2>2 DEF Reg
  <2>5. \A e \in Devices : h.current[e] = IF e = d THEN None ELSE g.current[e]
    BY <2>1, <2>4
  <2>6. ASSUME NEW t \in h.open \cap h.generation, t # s PROVE IsCurrent(h, t)
    <3>1. t \in Sockets /\ DeviceOf(t) \in Devices
      BY <2>4, <2>6, SocketFacts DEF Reg
    <3>2. IsCurrent(g, t)
      BY <2>4, <2>6, <3>1, SocketFacts DEF SoundBut
    <3> QED BY <1>3, <2>5, <2>6, <3>1, <3>2 DEF IsCurrent
  <2>7. SoundBut(h, s)
    BY <2>4, <2>5, <2>6 DEF SoundBut
  <2>8. Shrinks(g, h)
    BY <2>4, <2>5 DEF Shrinks
  <2> QED BY <2>4, <2>7, <2>8 DEF h
<1>4. CASE g.current[d] # s
  <2>1. h = g
    BY <1>4 DEF ForgetDevice
  <2>2. g.open \subseteq Sockets
    BY <1>1 DEF Reg
  <2>3. SoundBut(g, s)
    BY <2>2, SocketFacts DEF SoundBut
  <2>4. Shrinks(g, g)
    BY <1>1 DEF Shrinks
  <2> QED BY <2>1, <2>3, <2>4
<1> QED BY <1>3, <1>4

\* A disconnected socket is gone from every registry but the room it joined.
LEMMA DisconnectKeeps ==
  ASSUME NEW g, NEW s \in Sockets, SoundBut(g, s)
  PROVE  LET h == Disconnect(g, s) IN
         Sound(h) /\ Shrinks(g, h) /\ h.open = g.open \ {s}
<1> DEFINE i == ForgetDevice(RemoveSubscriptions(g, s), s)
           j == DeleteClient(i, g.joined[s], s)
           h == Disconnect(g, s)
<1>1. g \in Reg /\ g.open \subseteq Sockets
  BY DEF SoundBut, Reg
<1>2. CASE s \notin g.open
  <2>1. h = g
    BY <1>2 DEF Disconnect
  <2>2. Sound(g)
    BY <1>2 DEF Sound, SoundBut
  <2> QED BY <1>1, <1>2, <2>1, <2>2 DEF Shrinks
<1>3. CASE s \in g.open
  <2>1. SoundBut(i, s) /\ Shrinks(g, i) /\ i.open = g.open /\ i.generation = g.generation
        /\ \A r \in Rooms : i.subs[s][r] = None
    <3> DEFINE f == RemoveSubscriptions(g, s)
    <3>1. SoundBut(f, s) /\ Shrinks(g, f) /\ f.open = g.open /\ f.generation = g.generation
          /\ \A r \in Rooms : f.subs[s][r] = None
      BY RemoveSubscriptionsKeeps
    <3> HIDE DEF f
    <3>2. LET h2 == ForgetDevice(f, s) IN SoundBut(h2, s) /\ Shrinks(f, h2) /\ h2.open = f.open
             /\ h2.generation = f.generation /\ h2.subs = f.subs
      BY <3>1, ForgetDeviceKeeps
    <3> QED BY <3>1, <3>2, ShrinksTransitive DEF f
  <2>2. g.joined[s] \in Some(Keys)
    BY <1>1 DEF Reg
  <2> HIDE DEF i
  <2>3. SoundBut(j, s) /\ Shrinks(i, j) /\ j.open = i.open /\ j.generation = i.generation /\ j.subs = i.subs
    BY <2>1, <2>2, DeleteClientKeeps
  <2>4. h = [j EXCEPT !.open = @ \ {s}, !.generation = @ \ {s}]
    BY <1>3 DEF Disconnect, i
  <2> HIDE DEF j, h
  <2>5. j \in Reg
    BY <2>3 DEF SoundBut
  <2>6. /\ h \in Reg /\ h.open = j.open \ {s} /\ h.joined = j.joined /\ h.subs = j.subs
        /\ h.muxRooms = j.muxRooms /\ h.clients = j.clients /\ h.generation = j.generation \ {s}
        /\ h.current = j.current
    BY <2>4, <2>5 DEF Reg
  <2>7. Sound(h)
    BY <2>3, <2>6 DEF Sound, SoundBut, IsCurrent
  <2>8. Shrinks(j, h)
    BY <2>5, <2>6 DEF Shrinks
  <2>9. Shrinks(g, h)
    BY <2>1, <2>3, <2>8, ShrinksTransitive
  <2> QED BY <2>1, <2>3, <2>6, <2>7, <2>9 DEF h
<1> QED BY <1>2, <1>3

\* Disconnecting the displaced socket, unless it is the one to be spared, makes
\* the registries sound again.
LEMMA DisconnectOtherKeeps ==
  ASSUME NEW g, NEW s, NEW t \in Some(Sockets), SoundBut(g, t), t \in {None, s} => Sound(g)
  PROVE  LET h == DisconnectOther(g, t, s) IN
         Sound(h) /\ Shrinks(g, h) /\ h.open = IF t \in {None, s} THEN g.open ELSE g.open \ {t}
<1>1. CASE t \in {None, s}
  <2>1. DisconnectOther(g, t, s) = g
    BY <1>1 DEF DisconnectOther
  <2>2. Shrinks(g, g)
    BY DEF SoundBut, Shrinks
  <2> QED BY <1>1, <2>1, <2>2
<1>2. CASE t \notin {None, s}
  <2>1. DisconnectOther(g, t, s) = Disconnect(g, t) /\ t \in Sockets
    BY <1>2 DEF DisconnectOther, Some
  <2> QED BY <1>2, <2>1, DisconnectKeeps
<1> QED BY <1>1, <1>2

\* invalidateMuxDeviceSocket leaves the registries sound and the socket closed.
LEMMA InvalidateKeeps ==
  ASSUME NEW g, NEW s \in Sockets, Sound(g)
  PROVE  LET h == Invalidate(g, s) IN
         Sound(h) /\ Shrinks(g, h) /\ h.open = g.open \ {s}
<1> DEFINE i == RemoveSubscriptions(g, s)
           j == ForgetDevice(i, s)
<1>1. SoundBut(i, None) /\ Shrinks(g, i) /\ i.open = g.open
  BY RemoveSubscriptionsKeeps DEF Sound
<1> HIDE DEF i
<1>2. SoundBut(j, s) /\ Shrinks(i, j) /\ j.open = i.open
  BY <1>1, ForgetDeviceKeeps
<1> HIDE DEF j
<1>3. LET h == Disconnect(j, s) IN Sound(h) /\ Shrinks(j, h) /\ h.open = j.open \ {s}
  BY <1>2, DisconnectKeeps
<1>4. Invalidate(g, s) = Disconnect(j, s)
  BY DEF Invalidate, i, j
<1> QED BY <1>1, <1>2, <1>3, <1>4, ShrinksTransitive

\* legacyRoomOwner removes a stale client and reports the same owner.
LEMMA CleanLegacyKeeps ==
  ASSUME NEW g, Sound(g), NEW k \in Keys
  PROVE  LET h == CleanLegacy(g, k) IN
         /\ Sound(h) /\ Shrinks(g, h) /\ h.open = g.open /\ h.current = g.current
         /\ h.muxRooms = g.muxRooms /\ h.subs = g.subs /\ h.generation = g.generation
         /\ LegacyOwner(h, k) = LegacyOwner(g, k) /\ h.clients[k] = LegacyOwner(h, k)
<1> DEFINE h == CleanLegacy(g, k)
<1>0. g \in Reg
  BY DEF Sound, SoundBut
<1>1. CASE LegacyOwner(g, k) = None
  <2> DEFINE table == [g.clients EXCEPT ![k] = None]
  <2>1. g.clients \in [Keys -> Some(Sockets)]
    BY <1>0 DEF Reg
  <2>2. table \in [Keys -> Some(Sockets)]
    BY <2>1 DEF Some
  <2>3. h = [g EXCEPT !.clients = table]
    BY <1>1 DEF CleanLegacy
  <2> HIDE DEF h
  <2>4. /\ h \in Reg /\ h.open = g.open /\ h.joined = g.joined /\ h.subs = g.subs
        /\ h.muxRooms = g.muxRooms /\ h.current = g.current /\ h.generation = g.generation
        /\ h.clients = table
    <3> HIDE DEF table
    <3> QED BY <2>3, <1>0, <2>2 DEF Reg
  <2>5. Sound(h)
    BY <2>4 DEF Sound, SoundBut, IsCurrent
  <2>6. Shrinks(g, h)
    BY <2>1, <2>4 DEF Shrinks
  <2>7. h.clients[k] = None
    BY <2>1, <2>4
  <2>8. LegacyOwner(h, k) = None
    BY <2>7 DEF LegacyOwner
  <2> QED BY <1>1, <2>4, <2>5, <2>6, <2>7, <2>8 DEF h
<1>2. CASE LegacyOwner(g, k) # None
  <2>1. h = g
    BY <1>2 DEF CleanLegacy
  <2>2. g.clients[k] = LegacyOwner(g, k)
    BY <1>2 DEF LegacyOwner
  <2>3. Shrinks(g, g)
    BY <1>0 DEF Shrinks
  <2> QED BY <2>1, <2>2, <2>3
<1> QED BY <1>1, <1>2

\* muxRoomOwner removes a stale subscription and reports the same owner.
LEMMA CleanMuxKeeps ==
  ASSUME NEW g, Sound(g), NEW k \in Keys
  PROVE  LET h == CleanMux(g, k) IN
         /\ Sound(h) /\ Shrinks(g, h) /\ h.open = g.open /\ h.clients = g.clients
         /\ h.current = g.current /\ h.generation = g.generation
         /\ LegacyOwner(h, k) = LegacyOwner(g, k)
         /\ MuxOwner(h, k) = MuxOwner(g, k) /\ h.muxRooms[k] = MuxOwner(h, k)
<1> DEFINE h == CleanMux(g, k)
           s == g.muxRooms[k]
<1>0. g \in Reg
  BY DEF Sound, SoundBut
<1>1. s \in Some(Sockets) /\ RoomOf(k) \in Rooms /\ AddressOf(k) # None
  BY <1>0, KeyFacts DEF Reg
<1>2. CASE MuxOwner(g, k) = None /\ s # None
  <2>1. s \in Sockets /\ g.subs[s][RoomOf(k)] = AddressOf(k)
    BY <1>1, <1>2 DEF Some, Sound, SoundBut
  <2>2. h = RemoveSubscription(g, s, RoomOf(k))
    BY <1>1, <1>2, <2>1 DEF CleanMux
  <2>3. /\ Sound(h) /\ Shrinks(g, h) /\ h.open = g.open /\ h.joined = g.joined /\ h.clients = g.clients
        /\ h.current = g.current /\ h.generation = g.generation /\ h.muxRooms[k] = None
    <3> DEFINE r == RoomOf(k)
    <3>1. SoundBut(g, None) /\ r \in Rooms /\ s \in Sockets /\ g.muxRooms[k] = s
      BY <1>1, <2>1 DEF Sound
    <3> HIDE DEF s
    <3>2. LET i == RemoveSubscription(g, s, r) IN
          /\ SoundBut(i, None) /\ Shrinks(g, i) /\ i.open = g.open /\ i.joined = g.joined
          /\ i.clients = g.clients /\ i.current = g.current /\ i.generation = g.generation
          /\ i.muxRooms[k] = None
      <4> HIDE DEF r
      <4>1. RoomOf(k) = r
        BY DEF r
      <4> QED BY <3>1, <4>1, RemoveSubscriptionKeeps
    <3> QED BY <2>2, <3>2 DEF Sound
  <2>4. MuxOwner(h, k) = None
    BY <2>3 DEF MuxOwner
  <2>5. LegacyOwner(h, k) = LegacyOwner(g, k)
    BY <2>3 DEF LegacyOwner
  <2> QED BY <1>2, <2>3, <2>4, <2>5
<1>3. CASE ~(MuxOwner(g, k) = None /\ s # None)
  <2>1. h = g
    BY <1>3 DEF CleanMux
  <2>2. s = MuxOwner(g, k)
    BY <1>3 DEF MuxOwner
  <2>3. Shrinks(g, g)
    BY <1>0 DEF Shrinks
  <2> QED BY <2>1, <2>2, <2>3
<1> QED BY <1>2, <1>3

\* After the two lookups a pair has no stale entry.
LEMMA CleanKeeps ==
  ASSUME NEW g, Sound(g), NEW k \in Keys
  PROVE  LET h == Clean(g, k) IN
         /\ Sound(h) /\ Shrinks(g, h) /\ h.open = g.open
         /\ h.current = g.current /\ h.generation = g.generation
         /\ h.clients[k] = LegacyOwner(h, k) /\ h.muxRooms[k] = MuxOwner(h, k)
         /\ LegacyOwner(h, k) = LegacyOwner(g, k) /\ MuxOwner(h, k) = MuxOwner(g, k)
<1> DEFINE i == CleanLegacy(g, k)
<1>1. /\ Sound(i) /\ Shrinks(g, i) /\ i.open = g.open /\ i.current = g.current
      /\ i.muxRooms = g.muxRooms /\ i.subs = g.subs /\ i.generation = g.generation
      /\ LegacyOwner(i, k) = LegacyOwner(g, k) /\ i.clients[k] = LegacyOwner(i, k)
  BY CleanLegacyKeeps
<1>2. MuxOwner(i, k) = MuxOwner(g, k)
  BY <1>1 DEF MuxOwner, IsCurrent
<1> HIDE DEF i
<1>3. Clean(g, k) = CleanMux(i, k)
  BY DEF Clean, i
<1> QED BY <1>1, <1>2, <1>3, CleanMuxKeeps, ShrinksTransitive

\* As Less, but for the pair k.
LessBut(g, h, k) ==
  /\ h.open \subseteq g.open
  /\ \A s \in h.open : s \in g.generation => s \in h.generation
  /\ \A l \in Keys \ {k} : /\ h.clients[l] \in {g.clients[l], None}
                           /\ h.muxRooms[l] \in {g.muxRooms[l], None}
                           /\ LegacyOwner(h, l) \in {LegacyOwner(g, l), None}
                           /\ MuxOwner(h, l) \in {MuxOwner(g, l), None}

\* Removing nothing is removing.
LEMMA ShrinksReflexive ==
  ASSUME NEW g, Sound(g) PROVE Shrinks(g, g)
BY DEF Shrinks, Sound, SoundBut

\* An inactive owner that is thrown out owns the pair no more, by either
\* transport.
LEMMA ThrowOutKeeps ==
  ASSUME NEW g, Sound(g), NEW k \in Keys, NEW t \in Sockets
  PROVE  LET h == ThrowOut(g, k, t) IN
         /\ Sound(h) /\ Shrinks(g, h)
         /\ MuxOwner(h, k) # t /\ LegacyOwner(h, k) # t
<1> DEFINE was == \E r \in Rooms : g.subs[t][r] # None
           h == IF MuxOwner(g, k) = t THEN Invalidate(g, t) ELSE CleanMux(g, k)
           i == DeleteClient(h, k, t)
           j == ThrowOut(g, k, t)
<1>1. j = IF was THEN i ELSE Disconnect(i, t)
  BY DEF ThrowOut
<1>2. Sound(h) /\ Shrinks(g, h) /\ MuxOwner(h, k) # t
  <2>1. CASE MuxOwner(g, k) = t
    <3>1. Sound(h) /\ Shrinks(g, h) /\ h.open = g.open \ {t}
      BY <2>1, InvalidateKeeps
    <3>2. MuxOwner(h, k) # t
      BY <3>1, SocketFacts DEF MuxOwner
    <3> QED BY <3>1, <3>2
  <2>2. CASE MuxOwner(g, k) # t
    BY <2>2, CleanMuxKeeps
  <2> QED BY <2>1, <2>2
<1> HIDE DEF h
<1>3. Sound(i) /\ Shrinks(h, i) /\ MuxOwner(i, k) # t /\ LegacyOwner(i, k) # t
  <2>1. /\ SoundBut(i, None) /\ Shrinks(h, i) /\ i.open = h.open /\ i.subs = h.subs
        /\ i.muxRooms = h.muxRooms /\ i.current = h.current /\ i.clients[k] # t
    <3>1. SoundBut(h, None) /\ k # None /\ k \in Some(Keys)
      BY <1>2, KeyFacts DEF Sound, Some
    <3> QED BY <3>1, DeleteClientKeeps
  <2>2. MuxOwner(i, k) = MuxOwner(h, k)
    BY <2>1 DEF MuxOwner, IsCurrent
  <2>3. LegacyOwner(i, k) # t
    BY <2>1, SocketFacts DEF LegacyOwner
  <2> QED BY <1>2, <2>1, <2>2, <2>3 DEF Sound
<1> HIDE DEF i
<1>4. CASE was
  BY <1>1, <1>2, <1>3, <1>4, ShrinksTransitive
<1>5. CASE ~was
  <2>1. LET d == Disconnect(i, t) IN Sound(d) /\ Shrinks(i, d) /\ d.open = i.open \ {t}
    <3>1. i.open \subseteq Sockets
      BY <1>3 DEF Sound, SoundBut, Reg
    <3>2. SoundBut(i, t)
      BY <1>3, <3>1, SocketFacts DEF Sound, SoundBut
    <3> QED BY <3>2, DisconnectKeeps
  <2>2. Sound(j) /\ Shrinks(i, j)
    BY <1>1, <1>5, <2>1
  <2>3. MuxOwner(j, k) # t /\ LegacyOwner(j, k) # t
    BY <1>3, <2>2, ShrinksIsLess, SocketFacts DEF Less
  <2> QED BY <1>2, <1>3, <2>2, <2>3, ShrinksTransitive
<1> QED BY <1>4, <1>5

\* An authentication displaces its device's previous socket.
LEMMA AuthenticatedKeeps ==
  ASSUME NEW g, Sound(g), NEW s \in Sockets
  PROVE  LET d == DeviceOf(s)
             h == DisconnectOther([g EXCEPT !.current[d] = s, !.generation = @ \cup {s}],
                                  g.current[d], s)
         IN Sound(h) /\ Less(g, h)
<1> DEFINE d == DeviceOf(s)
           i == [g EXCEPT !.current[d] = s, !.generation = @ \cup {s}]
           t == g.current[d]
           h == DisconnectOther(i, t, s)
<1>1. g \in Reg /\ d \in Devices /\ t \in Some(Sockets) /\ g.open \subseteq Sockets
  BY SocketFacts DEF Sound, SoundBut, Reg
<1> DEFINE table == [g.current EXCEPT ![d] = s]
<1>2. g.current \in [Devices -> Some(Sockets)] /\ table \in [Devices -> Some(Sockets)]
  BY <1>1 DEF Reg, Some
<1>3. i = [g EXCEPT !.current = table, !.generation = @ \cup {s}]
  OBVIOUS
<1>4. /\ i \in Reg /\ i.open = g.open /\ i.joined = g.joined /\ i.subs = g.subs
      /\ i.muxRooms = g.muxRooms /\ i.clients = g.clients /\ i.generation = g.generation \cup {s}
      /\ i.current = table
  <2> HIDE DEF table, i
  <2> QED BY <1>3, <1>1, <1>2 DEF Reg
<1> HIDE DEF i
<1>5. \A e \in Devices : i.current[e] = IF e = d THEN s ELSE g.current[e]
  BY <1>2, <1>4
<1>6. ASSUME NEW u \in i.open \cap i.generation, u # t PROVE IsCurrent(i, u)
  <2>1. u \in Sockets /\ DeviceOf(u) \in Devices /\ u # None
    BY <1>1, <1>4, <1>6, SocketFacts
  <2>2. CASE u = s
    BY <1>5, <2>1, <2>2 DEF IsCurrent
  <2>3. CASE u # s
    <3>1. IsCurrent(g, u)
      BY <1>4, <1>6, <2>1, <2>3 DEF Sound, SoundBut
    <3>2. DeviceOf(u) # d
      BY <1>6, <3>1 DEF IsCurrent
    <3> QED BY <1>5, <2>1, <3>1, <3>2 DEF IsCurrent
  <2> QED BY <2>2, <2>3
<1>7. SoundBut(i, t)
  BY <1>4, <1>5, <1>6, SocketFacts DEF Sound, SoundBut
<1>8. t \in {None, s} => Sound(i)
  <2>1. ASSUME t = s PROVE IsCurrent(i, s)
    BY <1>1, <1>5 DEF IsCurrent
  <2> QED BY <1>7, <2>1 DEF Sound, SoundBut
<1>9. Less(g, i)
  <2>1. ASSUME NEW k \in Keys PROVE MuxOwner(i, k) \in {MuxOwner(g, k), None}
    <3> DEFINE u == g.muxRooms[k]
    <3>1. SUFFICES ASSUME MuxOwner(i, k) # None PROVE MuxOwner(g, k) = u /\ MuxOwner(i, k) = u
      OBVIOUS
    <3>2. /\ u # None /\ u \in g.open /\ IsCurrent(i, u) /\ g.subs[u][RoomOf(k)] = AddressOf(k)
          /\ MuxOwner(i, k) = u
      BY <1>4, <3>1 DEF MuxOwner
    <3>3. RoomOf(k) \in Rooms /\ AddressOf(k) # None
      BY KeyFacts
    <3>4. u \in g.generation
      BY <3>2, <3>3 DEF Sound, SoundBut
    <3>5. IsCurrent(g, u)
      BY <3>2, <3>4 DEF Sound, SoundBut
    <3> QED BY <3>2, <3>5 DEF MuxOwner
  <2>2. ASSUME NEW k \in Keys PROVE LegacyOwner(i, k) = LegacyOwner(g, k)
    BY <1>4 DEF LegacyOwner
  <2> QED BY <1>4, <2>1, <2>2 DEF Less
<1> HIDE DEF t, d
<1>10. Sound(h) /\ Shrinks(i, h)
  BY <1>1, <1>7, <1>8, DisconnectOtherKeeps
<1>11. Less(g, h)
  BY <1>9, <1>10, ShrinksIsLess, LessTransitive
<1> QED BY <1>10, <1>11 DEF h, i, t, d

\* A join leaves the pair with no owner but its own client.
LEMMA InstallJoinKeeps ==
  ASSUME NEW g, Sound(g), NEW s \in Sockets, NEW k \in Keys
  PROVE  LET h == InstallJoin(g, s, k) IN
         /\ Sound(h) /\ LessBut(g, h, k)
         /\ h.muxRooms[k] = None /\ MuxOwner(h, k) = None /\ LegacyOwner(h, k) \in {s, None}
         /\ h.clients[k] \in {s, None}
         /\ \A t \in Sockets : h.joined[t] = g.joined[t] \/ (t = s /\ h.joined[t] = k)
<1> DEFINE c == Clean(g, k)
           m == MuxOwner(c, k)
           l == LegacyOwner(c, k)
           i == IF m = None THEN c ELSE RemoveSubscription(c, m, RoomOf(k))
           j == [i EXCEPT !.clients[k] = s, !.joined[s] = k]
           h == InstallJoin(g, s, k)
<1>1. /\ Sound(c) /\ Shrinks(g, c) /\ c.muxRooms[k] = m /\ c.clients[k] = l
  BY CleanKeeps
<1>2. h = DisconnectOther(j, l, s)
  BY DEF InstallJoin
<1> HIDE DEF c, h
<1>3. c \in Reg /\ RoomOf(k) \in Rooms /\ m \in Some(Sockets) /\ l \in Some(Sockets)
  BY <1>1, KeyFacts DEF Sound, SoundBut, Reg
<1>4. Sound(i) /\ Shrinks(c, i) /\ i.muxRooms[k] = None
  <2>1. CASE m = None
    BY <1>1, <2>1, ShrinksReflexive
  <2>2. CASE m # None
    <3> DEFINE r == RoomOf(k)
    <3>1. SoundBut(c, None) /\ m \in Sockets /\ r \in Rooms /\ c.muxRooms[k] = m
      BY <1>1, <1>3, <2>2 DEF Sound, Some
    <3> HIDE DEF m
    <3>2. LET n == RemoveSubscription(c, m, r) IN
          SoundBut(n, None) /\ Shrinks(c, n) /\ n.muxRooms[k] = None
      <4> HIDE DEF r
      <4>1. RoomOf(k) = r
        BY DEF r
      <4> QED BY <3>1, <4>1, RemoveSubscriptionKeeps
    <3> QED BY <2>2, <3>2 DEF Sound
  <2> QED BY <2>1, <2>2
<1> HIDE DEF i, m, l
<1> DEFINE table == [i.clients EXCEPT ![k] = s]
           room  == [i.joined EXCEPT ![s] = k]
<1>5. i \in Reg /\ i.clients \in [Keys -> Some(Sockets)] /\ i.joined \in [Sockets -> Some(Keys)]
      /\ i.open \subseteq Sockets
  BY <1>4 DEF Sound, SoundBut, Reg
<1>6. table \in [Keys -> Some(Sockets)] /\ room \in [Sockets -> Some(Keys)]
  BY <1>5 DEF Some
<1>7. j = [i EXCEPT !.clients = table, !.joined = room]
  OBVIOUS
<1>8. /\ j \in Reg /\ j.open = i.open /\ j.joined = room /\ j.subs = i.subs
      /\ j.muxRooms = i.muxRooms /\ j.clients = table /\ j.generation = i.generation
      /\ j.current = i.current
  <2> HIDE DEF table, room, j
  <2> QED BY <1>7, <1>5, <1>6 DEF Reg
<1> HIDE DEF j
<1>9. SoundBut(j, l) /\ Sound(j)
  BY <1>4, <1>5, <1>8, SocketFacts DEF Sound, SoundBut, IsCurrent
<1>10. Sound(h) /\ Shrinks(j, h)
  BY <1>2, <1>3, <1>9, DisconnectOtherKeeps
<1>11. Less(g, i)
  BY <1>1, <1>4, ShrinksTransitive, ShrinksIsLess
<1>12. LessBut(i, j, k)
  <2>1. ASSUME NEW q \in Keys \ {k} PROVE MuxOwner(j, q) = MuxOwner(i, q)
    BY <1>8 DEF MuxOwner, IsCurrent
  <2>2. ASSUME NEW q \in Keys \ {k} PROVE LegacyOwner(j, q) \in {LegacyOwner(i, q), None}
    <3>1. j.clients[q] = i.clients[q]
      BY <1>5, <1>8
    <3>2. j.clients[q] \in Some(Sockets)
      BY <1>8 DEF Reg
    <3>3. j.clients[q] # None => j.joined[j.clients[q]] \in {i.joined[j.clients[q]], k}
      BY <1>5, <1>8, <3>2 DEF Some
    <3> QED BY <1>8, <3>1, <3>3 DEF LegacyOwner
  <2>3. \A q \in Keys \ {k} : j.clients[q] = i.clients[q]
    BY <1>5, <1>8
  <2> QED BY <1>8, <2>1, <2>2, <2>3 DEF LessBut
<1>13. Less(j, h)
  BY <1>10, ShrinksIsLess
<1>14. LessBut(g, h, k)
  BY <1>11, <1>12, <1>13 DEF Less, LessBut
<1>15. h.muxRooms[k] = None /\ MuxOwner(h, k) = None
  BY <1>4, <1>8, <1>10 DEF Shrinks, MuxOwner
<1>16. LegacyOwner(h, k) \in {s, None}
  <2>1. j.clients[k] = s
    BY <1>5, <1>8
  <2> QED BY <2>1, <1>10 DEF Shrinks, LegacyOwner
<1>17. h.clients[k] \in {s, None}
  BY <1>5, <1>8, <1>10 DEF Shrinks
<1>18. \A t \in Sockets : h.joined[t] = g.joined[t] \/ (t = s /\ h.joined[t] = k)
  BY <1>5, <1>8, <1>10, <1>11 DEF Shrinks, Less
<1> QED BY <1>10, <1>14, <1>15, <1>16, <1>17, <1>18 DEF h

\* A subscription leaves the pair with no owner but its own.
LEMMA InstallSubscriptionKeeps ==
  ASSUME NEW g, Sound(g), NEW s \in Sockets, NEW k \in Keys, s \in g.open => s \in g.generation
  PROVE  LET h == InstallSubscription(g, s, k) IN
         /\ Sound(h) /\ LessBut(g, h, k)
         /\ h.clients[k] = None /\ LegacyOwner(h, k) = None /\ MuxOwner(h, k) \in {s, None}
         /\ h.joined = g.joined
<1> DEFINE c == Clean(g, k)
           r == RoomOf(k)
           a == AddressOf(k)
           l == LegacyOwner(c, k)
           m == MuxOwner(c, k)
           i == IF l = None THEN c ELSE DeleteClient(c, k, l)
           j == IF m \in {None, s} THEN i ELSE RemoveSubscription(i, m, r)
           b == RemoveSubscription(j, s, r)
           n == [b EXCEPT !.subs[s][r] = a, !.muxRooms[k] = s]
           o == DisconnectOther(n, l, None)
           h == InstallSubscription(g, s, k)
<1>1. /\ Sound(c) /\ Shrinks(g, c) /\ c.muxRooms[k] = m /\ c.clients[k] = l
      /\ c.open = g.open /\ c.generation = g.generation
  BY CleanKeeps
<1>2. h = DisconnectOther(o, m, s)
  BY DEF InstallSubscription
<1> HIDE DEF c, h
<1>3. /\ c \in Reg /\ r \in Rooms /\ a \in Addresses /\ a # None
      /\ m \in Some(Sockets) /\ l \in Some(Sockets)
  BY <1>1, KeyFacts DEF Sound, SoundBut, Reg
<1> HIDE DEF l, m
<1>4. /\ Sound(i) /\ Shrinks(c, i) /\ i.clients[k] = None /\ i.muxRooms[k] = m
      /\ i.open = c.open /\ i.generation = c.generation
  <2>1. CASE l = None
    BY <1>1, <2>1, ShrinksReflexive
  <2>2. CASE l # None
    <3>1. SoundBut(c, None) /\ l \in Sockets /\ k # None /\ k \in Some(Keys)
      BY <1>1, <1>3, <2>2, KeyFacts DEF Sound, Some
    <3>2. LET e == DeleteClient(c, k, l) IN
          /\ SoundBut(e, None) /\ Shrinks(c, e) /\ e.clients[k] # l /\ e.muxRooms = c.muxRooms
          /\ e.open = c.open /\ e.generation = c.generation
      BY <3>1, DeleteClientKeeps
    <3> QED BY <1>1, <2>2, <3>2 DEF Sound, Shrinks
  <2> QED BY <2>1, <2>2
<1> HIDE DEF i
<1>5. /\ Sound(j) /\ Shrinks(i, j) /\ j.muxRooms[k] \in {s, None}
      /\ j.open = i.open /\ j.generation = i.generation
  <2>1. CASE m \in {None, s}
    BY <1>4, <2>1, ShrinksReflexive
  <2>2. CASE m \notin {None, s}
    <3>1. SoundBut(i, None) /\ m \in Sockets /\ r \in Rooms
      BY <1>3, <1>4, <2>2 DEF Sound, Some
    <3>2. LET e == RemoveSubscription(i, m, r) IN
          /\ SoundBut(e, None) /\ Shrinks(i, e) /\ e.muxRooms[k] = None
          /\ e.open = i.open /\ e.generation = i.generation
      <4>1. RoomOf(k) = r
        OBVIOUS
      <4> HIDE DEF r
      <4> QED BY <1>4, <3>1, <4>1, RemoveSubscriptionKeeps
    <3> QED BY <2>2, <3>2 DEF Sound
  <2> QED BY <2>1, <2>2
<1> HIDE DEF j
<1>6. /\ Sound(b) /\ Shrinks(j, b) /\ b.muxRooms[k] = None /\ b.subs[s][r] = None
      /\ b.open = j.open /\ b.generation = j.generation
  <2>1. SoundBut(j, None) /\ r \in Rooms /\ RoomOf(k) = r
    BY <1>3, <1>5 DEF Sound
  <2> HIDE DEF r
  <2>2. LET e == RemoveSubscription(j, s, r) IN
        /\ SoundBut(e, None) /\ Shrinks(j, e) /\ e.subs[s][r] = None
        /\ e.open = j.open /\ e.generation = j.generation
        /\ RoomOf(k) = r /\ j.muxRooms[k] = s => e.muxRooms[k] = None
    BY <2>1, RemoveSubscriptionKeeps
  <2>3. b.muxRooms[k] = None
    BY <1>5, <2>1, <2>2 DEF Shrinks
  <2> QED BY <2>2, <2>3 DEF Sound
<1> HIDE DEF b
<1> DEFINE table == [b.muxRooms EXCEPT ![k] = s]
           rooms == [b.subs EXCEPT ![s][r] = a]
<1>7. /\ b \in Reg /\ b.muxRooms \in [Keys -> Some(Sockets)] /\ b.open \subseteq Sockets
      /\ b.subs \in [Sockets -> [Rooms -> Some(Addresses)]]
  BY <1>6 DEF Sound, SoundBut, Reg
<1>8. table \in [Keys -> Some(Sockets)] /\ rooms \in [Sockets -> [Rooms -> Some(Addresses)]]
  <2>1. s \in Some(Sockets) /\ a \in Some(Addresses)
    BY <1>3 DEF Some
  <2> HIDE DEF a, r
  <2> QED BY <1>7, <2>1
<1>9. n = [b EXCEPT !.subs = rooms, !.muxRooms = table]
  OBVIOUS
<1>10. /\ n \in Reg /\ n.open = b.open /\ n.joined = b.joined /\ n.subs = rooms
       /\ n.muxRooms = table /\ n.clients = b.clients /\ n.generation = b.generation
       /\ n.current = b.current
  <2> HIDE DEF table, rooms, n
  <2> QED BY <1>9, <1>7, <1>8 DEF Reg
<1> HIDE DEF n
<1>11. \A t \in Sockets, q \in Rooms : n.subs[t][q] = IF t = s /\ q = r THEN a ELSE b.subs[t][q]
  <2> HIDE DEF a, r
  <2> QED BY <1>7, <1>10
<1>12. \A q \in Keys : n.muxRooms[q] = IF q = k THEN s ELSE b.muxRooms[q]
  BY <1>7, <1>10
<1>13. \A t \in Sockets, q \in Keys : n.subs[t][RoomOf(q)] = AddressOf(q) <=> n.muxRooms[q] = t
  <2>1. SUFFICES ASSUME NEW t \in Sockets, NEW q \in Keys
        PROVE  n.subs[t][RoomOf(q)] = AddressOf(q) <=> n.muxRooms[q] = t
    OBVIOUS
  <2>2. b.subs[t][RoomOf(q)] = AddressOf(q) <=> b.muxRooms[q] = t
    BY <1>6 DEF Sound, SoundBut
  <2>3. RoomOf(q) \in Rooms /\ AddressOf(q) # None
    BY KeyFacts
  <2>4. t # None
    BY SocketFacts
  <2>5. CASE q = k
    BY <1>6, <1>11, <1>12, <2>2, <2>3, <2>4, <2>5
  <2>6. CASE q # k
    <3>1. RoomOf(q) = r => AddressOf(q) # a
      BY <2>6, KeyFacts
    <3> HIDE DEF r, a
    <3> QED BY <1>6, <1>11, <1>12, <2>2, <2>3, <2>4, <2>6, <3>1
  <2> QED BY <2>5, <2>6
<1>14. ASSUME NEW t \in n.open, NEW q \in Rooms, n.subs[t][q] # None PROVE t \in n.generation
  <2>1. t \in Sockets /\ t \in g.open
    BY <1>1, <1>4, <1>5, <1>6, <1>7, <1>10, <1>14
  <2>2. CASE t = s
    BY <1>1, <1>4, <1>5, <1>6, <1>10, <2>1, <2>2
  <2>3. CASE t # s
    BY <1>6, <1>10, <1>11, <1>14, <2>1, <2>3 DEF Sound, SoundBut
  <2> QED BY <2>2, <2>3
<1>15. Sound(n) /\ SoundBut(n, l)
  <2>1. \A d \in Devices : n.current[d] # None => DeviceOf(n.current[d]) = d
    BY <1>6, <1>10 DEF Sound, SoundBut
  <2>2. \A t \in n.open \cap n.generation : IsCurrent(n, t)
    BY <1>6, <1>7, <1>10, SocketFacts DEF Sound, SoundBut, IsCurrent
  <2> QED BY <1>10, <1>13, <1>14, <2>1, <2>2 DEF Sound, SoundBut
<1>16. Sound(o) /\ Shrinks(n, o)
  BY <1>3, <1>15, DisconnectOtherKeeps
<1> HIDE DEF o
<1>17. Sound(h) /\ Shrinks(o, h)
  <2>1. SoundBut(o, m)
    <3>1. o.open \subseteq Sockets
      BY <1>16 DEF Sound, SoundBut, Reg
    <3> QED BY <1>16, <3>1, SocketFacts DEF Sound, SoundBut
  <2> QED BY <1>2, <1>3, <1>16, <2>1, DisconnectOtherKeeps
<1>18. Shrinks(n, h) /\ Less(n, h)
  BY <1>16, <1>17, ShrinksTransitive, ShrinksIsLess
<1>19. Less(g, b) /\ Shrinks(g, b)
  BY <1>1, <1>4, <1>5, <1>6, ShrinksTransitive, ShrinksIsLess
<1>20. LessBut(b, n, k)
  <2>1. ASSUME NEW q \in Keys \ {k} PROVE LegacyOwner(n, q) = LegacyOwner(b, q)
    BY <1>10 DEF LegacyOwner
  <2>2. ASSUME NEW q \in Keys \ {k} PROVE MuxOwner(n, q) \in {MuxOwner(b, q), None}
    <3> DEFINE t == b.muxRooms[q]
    <3>1. n.muxRooms[q] = t /\ t \in Some(Sockets)
      BY <1>7, <1>12
    <3>2. CASE t = None
      BY <3>1, <3>2 DEF MuxOwner
    <3>3. CASE t # None
      <4>1. t \in Sockets /\ b.subs[t][RoomOf(q)] = AddressOf(q)
        BY <1>6, <3>1, <3>3 DEF Some, Sound, SoundBut
      <4>2. IsCurrent(n, t) <=> IsCurrent(b, t)
        BY <1>10 DEF IsCurrent
      <4> QED BY <1>10, <3>1, <3>3, <4>1, <4>2 DEF MuxOwner
    <3> QED BY <3>2, <3>3
  <2> QED BY <1>10, <1>12, <2>1, <2>2 DEF LessBut
<1>21. LessBut(g, h, k)
  BY <1>18, <1>19, <1>20 DEF Less, LessBut
<1>22. h.clients[k] = None /\ LegacyOwner(h, k) = None
  <2>1. b.clients[k] = None
    BY <1>4, <1>5, <1>6 DEF Shrinks
  <2> QED BY <2>1, <1>10, <1>18 DEF Shrinks, LegacyOwner
<1>23. MuxOwner(h, k) \in {s, None}
  BY <1>12, <1>18 DEF Shrinks, MuxOwner
<1>24. h.joined = g.joined
  BY <1>10, <1>18, <1>19 DEF Less
<1> QED BY <1>17, <1>21, <1>22, <1>23, <1>24 DEF h

HandlerInv(o) ==
  \/ op[o] = IdleOp
  \/ /\ op[o].pc \in {"verify", "lock", "control", "self", "owners", "final"}
     /\ op[o].socket \in Sockets
     /\ ~Is(o, "authenticate") => op[o].key \in Keys
     /\ Is(o, "authenticate") => At(o, "verify")
     /\ Is(o, "subscribe") /\ op[o].socket \in reg.open => op[o].socket \in reg.generation
     /\ At(o, "self") => Is(o, "join")
     /\ At(o, "owners") => op[o].todo # <<>>

LockInv ==
  /\ \A k \in Keys : \A i \in DOMAIN queue[k] :
       /\ op[queue[k][i]].key = k
       /\ At(queue[k][i], "lock") \/ (i = 1 /\ op[queue[k][i]].pc \in Locked)
       /\ \A j \in DOMAIN queue[k] : queue[k][i] = queue[k][j] => i = j
  /\ \A o \in Ops : op[o].pc \in Locked \cup {"lock"} =>
       \E i \in DOMAIN queue[op[o].key] : queue[op[o].key][i] = o /\ (op[o].pc \in Locked => i = 1)

CheckedInv(o) ==
  \A t \in {MuxOwner(reg, op[o].key), LegacyOwner(reg, op[o].key)} \ {None} :
    /\ At(o, "owners") => \/ DeviceOf(t) = DeviceOf(op[o].socket)
                          \/ \E i \in DOMAIN op[o].todo : op[o].todo[i] = t
    /\ At(o, "final") => DeviceOf(t) = DeviceOf(op[o].socket)

EjectedInv(o) ==
    At(o, "final") /\ Is(o, "subscribe") /\ op[o].asked /\ DeviceOf(op[o].socket) \in ejected
    => op[o].socket \notin reg.open

RouteInv == route.state = "found" => route.to \in Sockets /\ route.from \in Sockets

RelayInv ==
  /\ TypeOK /\ Sound(reg) /\ ExclusiveOwner /\ RevokedOwnsNothing
  /\ \A o \in Ops : HandlerInv(o)
  /\ LockInv
  /\ \A o \in Ops : At(o, "owners") \/ At(o, "final") => CheckedInv(o)
  /\ \A o \in Ops : EjectedInv(o)
  /\ RouteInv

\* The parts about one handler.
OwnInv(o) ==
  /\ HandlerInv(o)
  /\ At(o, "owners") \/ At(o, "final") => CheckedInv(o)
  /\ EjectedInv(o)

\* What holds of every pair holds of every pair but one.
LEMMA LessIsLessBut ==
  ASSUME NEW g, NEW h, Less(g, h), NEW k PROVE LessBut(g, h, k)
BY DEF Less, LessBut

\* A step of the registries that spares the pairs of the handlers that have
\* checked owners keeps what other handlers rely on.
LEMMA OtherKeeps ==
  ASSUME RelayInv, NEW p \in Ops, op'[p] = op[p], NEW k, LessBut(reg, reg', k), ejected' = ejected,
         At(p, "owners") \/ At(p, "final") => op[p].key # k
  PROVE  OwnInv(p)'
<1>1. HandlerInv(p) /\ EjectedInv(p) /\ (At(p, "owners") \/ At(p, "final") => CheckedInv(p))
  BY DEF RelayInv
<1>2. HandlerInv(p)'
  BY <1>1 DEF HandlerInv, LessBut, At, Is
<1>3. ASSUME (At(p, "owners") \/ At(p, "final"))' PROVE CheckedInv(p)'
  <2>1. CheckedInv(p) /\ op[p].key \in Keys \ {k}
    BY <1>1, <1>3 DEF HandlerInv, At, Is, IdleOp
  <2>2. /\ MuxOwner(reg', op[p].key) \in {MuxOwner(reg, op[p].key), None}
        /\ LegacyOwner(reg', op[p].key) \in {LegacyOwner(reg, op[p].key), None}
    BY <2>1 DEF LessBut
  <2> QED BY <2>1, <2>2 DEF CheckedInv, At
<1>4. EjectedInv(p)'
  BY <1>1 DEF EjectedInv, LessBut, At, Is
<1> QED BY <1>2, <1>3, <1>4 DEF OwnInv

\* Nobody gains a pair but k.
LEMMA OwnersKeep ==
  ASSUME ExclusiveOwner, RevokedOwnsNothing, NEW k, LessBut(reg, reg', k), ejected' = ejected,
         k \in Keys => /\ MuxOwner(reg', k) = None \/ LegacyOwner(reg', k) = None
                       /\ MuxOwner(reg', k) # None => DeviceOf(MuxOwner(reg', k)) \notin ejected
  PROVE  ExclusiveOwner' /\ RevokedOwnsNothing'
<1>1. ASSUME NEW l \in Keys
      PROVE  /\ MuxOwner(reg', l) = None \/ LegacyOwner(reg', l) = None
             /\ MuxOwner(reg', l) # None => DeviceOf(MuxOwner(reg', l)) \notin ejected
  <2>1. CASE l = k
    BY <2>1
  <2>2. CASE l # k
    BY <2>2 DEF LessBut, ExclusiveOwner, RevokedOwnsNothing
  <2> QED BY <2>1, <2>2
<1> QED BY <1>1 DEF ExclusiveOwner, RevokedOwnsNothing

\* The lock when one handler moves on without leaving its queue.
LEMMA LockKept ==
  ASSUME op \in [Ops -> Op], LockInv, NEW o \in Ops, NEW r, op' = [op EXCEPT ![o] = r],
         queue' = queue, r.key = op[o].key, op[o].pc \in Locked, r.pc \in Locked
  PROVE  LockInv'
<1>1. \A p \in Ops : op'[p].key = op[p].key /\ (op'[p].pc = op[p].pc \/ (p = o /\ op'[p].pc \in Locked))
  OBVIOUS
<1>2. "lock" \notin Locked
  BY DEF Locked
<1> QED BY <1>1, <1>2 DEF LockInv, At

\* ... or is not in a queue, before and after.
LEMMA LockUntouched ==
  ASSUME op \in [Ops -> Op], LockInv, NEW o \in Ops, NEW r, op' = [op EXCEPT ![o] = r],
         queue' = queue, queue \in [Keys -> Seq(Ops)],
         op[o].pc \notin Locked \cup {"lock"}, r.pc \notin Locked \cup {"lock"}
  PROVE  LockInv'
<1>1. \A k \in Keys : \A i \in DOMAIN queue[k] : queue[k][i] # o /\ queue[k][i] \in Ops
  BY DEF LockInv, At
<1>2. \A p \in Ops : p # o => op'[p] = op[p]
  OBVIOUS
<1>3. op'[o] = r
  OBVIOUS
<1>4. ASSUME NEW p \in Ops, op'[p].pc \in Locked \cup {"lock"}
      PROVE  \E i \in DOMAIN queue'[op'[p].key] :
                queue'[op'[p].key][i] = p /\ (op'[p].pc \in Locked => i = 1)
  <2>1. p # o /\ op'[p] = op[p]
    BY <1>2, <1>3, <1>4
  <2> QED BY <1>4, <2>1 DEF LockInv
<1>5. ASSUME NEW k \in Keys, NEW i \in DOMAIN queue[k]
      PROVE  op'[queue[k][i]] = op[queue[k][i]]
  BY <1>1, <1>2
<1> QED BY <1>4, <1>5 DEF LockInv, At

\* Only one handler is past a pair's queue.
LEMMA OneHolder ==
  ASSUME RelayInv, NEW o \in Ops, NEW p \in Ops, p # o,
         op[o].pc \in Locked, op[p].pc \in Locked
  PROVE  op[o].key # op[p].key
BY DEF RelayInv, LockInv

\* The lock is given up.
LEMMA LockReleased ==
  ASSUME RelayInv, NEW o \in Ops, op[o].pc \in Locked, op' = [op EXCEPT ![o] = IdleOp],
         queue' = [queue EXCEPT ![op[o].key] = Tail(@)]
  PROVE  LockInv' /\ queue' \in [Keys -> Seq(Ops)]
<1> DEFINE k == op[o].key
           q == queue[k]
<1>1. /\ op \in [Ops -> Op] /\ queue \in [Keys -> Seq(Ops)] /\ LockInv
      /\ k \in Keys
  BY DEF RelayInv, TypeOK, HandlerInv, IdleOp, Locked, At, Is
<1>2. q \in Seq(Ops) /\ 1 \in DOMAIN q /\ q[1] = o /\ q # <<>>
  BY <1>1 DEF LockInv
<1>3. /\ Tail(q) \in Seq(Ops) /\ Len(Tail(q)) = Len(q) - 1 /\ Len(q) \in Nat \ {0}
      /\ \A i \in 1..Len(Tail(q)) : Tail(q)[i] = q[i+1]
  BY <1>2
<1>4. \A l \in Keys : queue'[l] = IF l = k THEN Tail(q) ELSE queue[l]
  BY <1>1
<1>5. queue' \in [Keys -> Seq(Ops)]
  BY <1>1, <1>3
<1>6. op'[o] = IdleOp /\ \A p \in Ops : p # o => op'[p] = op[p]
  BY <1>1
<1>7. ASSUME NEW l \in Keys, NEW i \in DOMAIN queue'[l]
      PROVE  /\ op'[queue'[l][i]].key = l
             /\ op'[queue'[l][i]].pc = "lock" \/ (i = 1 /\ op'[queue'[l][i]].pc \in Locked)
             /\ \A j \in DOMAIN queue'[l] : queue'[l][i] = queue'[l][j] => i = j
  <2>1. CASE l = k
    <3>1. DOMAIN queue'[l] = 1..Len(Tail(q)) /\ i \in Nat /\ i + 1 \in DOMAIN q /\ i + 1 # 1
      <4>1. queue'[l] = Tail(q) /\ DOMAIN q = 1..Len(q)
        BY <1>2, <1>4, <2>1
      <4> HIDE DEF q
      <4>2. DOMAIN queue'[l] = 1..Len(Tail(q))
        BY <1>3, <4>1
      <4> QED BY <1>3, <4>1, <4>2
    <3>2. queue'[l][i] = q[i+1] /\ q[i+1] \in Ops
      BY <1>2, <1>3, <1>4, <2>1, <3>1
    <3>3. q[i+1] # o
      BY <1>1, <1>2, <3>1 DEF LockInv
    <3>4. op[q[i+1]].key = l /\ op[q[i+1]].pc = "lock"
      BY <1>1, <2>1, <3>1 DEF LockInv, At
    <3>5. ASSUME NEW j \in DOMAIN queue'[l], queue'[l][i] = queue'[l][j] PROVE i = j
      <4>1. j \in Nat /\ j + 1 \in DOMAIN q /\ queue'[l][j] = q[j+1]
        BY <1>2, <1>3, <1>4, <2>1, <3>1
      <4>2. i + 1 = j + 1
        BY <1>1, <3>1, <3>2, <3>5, <4>1 DEF LockInv
      <4> QED BY <3>1, <4>1, <4>2
    <3> QED BY <1>6, <3>2, <3>3, <3>4, <3>5
  <2>2. CASE l # k
    <3>1. queue'[l] = queue[l] /\ queue[l][i] \in Ops /\ op[queue[l][i]].key = l
      BY <1>1, <1>4, <2>2 DEF LockInv
    <3>2. queue[l][i] # o
      BY <2>2, <3>1
    <3> QED BY <1>1, <1>6, <3>1, <3>2 DEF LockInv, At
  <2> QED BY <2>1, <2>2
<1>8. ASSUME NEW p \in Ops, op'[p].pc \in Locked \cup {"lock"}
      PROVE  \E i \in DOMAIN queue'[op'[p].key] :
                queue'[op'[p].key][i] = p /\ (op'[p].pc \in Locked => i = 1)
  <2>1. p # o /\ op'[p] = op[p]
    BY <1>6, <1>8 DEF IdleOp, Locked
  <2>2. PICK i \in DOMAIN queue[op[p].key] : queue[op[p].key][i] = p /\ (op[p].pc \in Locked => i = 1)
    BY <1>1, <1>8, <2>1 DEF LockInv
  <2>3. op[p].key \in Keys
    BY <1>8, <2>1 DEF RelayInv, HandlerInv, IdleOp, Locked, At, Is
  <2>4. CASE op[p].key = k
    <3>1. i # 1 /\ i \in DOMAIN q /\ q[i] = p
      BY <1>2, <2>1, <2>2, <2>4
    <3>2. i - 1 \in 1..Len(Tail(q)) /\ Tail(q)[i - 1] = q[i]
      BY <1>2, <1>3, <3>1
    <3>3. op[p].pc \notin Locked
      BY <2>2, <3>1
    <3>4. i - 1 \in DOMAIN queue'[k] /\ queue'[k][i - 1] = p
      BY <1>1, <1>3, <1>4, <3>1, <3>2
    <3> QED BY <2>1, <2>4, <3>3, <3>4
  <2>5. CASE op[p].key # k
    <3>1. queue'[op[p].key] = queue[op[p].key]
      BY <1>4, <2>3, <2>5
    <3> QED BY <2>1, <2>2, <3>1
  <2> QED BY <2>4, <2>5
<1>9. LockInv'
  BY <1>7, <1>8 DEF LockInv, At
<1> QED BY <1>5, <1>9

\* Another handler queues.
LEMMA LockQueued ==
  ASSUME RelayInv, NEW o \in Ops, At(o, "verify"), ~Is(o, "authenticate"), NEW r,
         op' = [op EXCEPT ![o] = r], r.pc = "lock", r.key = op[o].key,
         queue' = [queue EXCEPT ![op[o].key] = Append(@, o)]
  PROVE  LockInv' /\ queue' \in [Keys -> Seq(Ops)]
<1> DEFINE k == op[o].key
           q == queue[k]
<1>1. /\ op \in [Ops -> Op] /\ queue \in [Keys -> Seq(Ops)] /\ LockInv
      /\ k \in Keys /\ "lock" \notin Locked
  BY DEF RelayInv, TypeOK, HandlerInv, IdleOp, Locked, At, Is
<1>2. /\ q \in Seq(Ops) /\ Append(q, o) \in Seq(Ops) /\ Len(Append(q, o)) = Len(q) + 1
      /\ \A i \in 1..Len(q) : Append(q, o)[i] = q[i]
      /\ Append(q, o)[Len(q) + 1] = o
      /\ DOMAIN q = 1..Len(q) /\ Len(q) \in Nat
  BY <1>1
<1>3. \A l \in Keys : queue'[l] = IF l = k THEN Append(q, o) ELSE queue[l]
  BY <1>1
<1>4. queue' \in [Keys -> Seq(Ops)]
  BY <1>1, <1>2
<1>5. op'[o] = r /\ \A p \in Ops : p # o => op'[p] = op[p]
  BY <1>1
<1>6. \A l \in Keys : \A i \in DOMAIN queue[l] : queue[l][i] # o /\ queue[l][i] \in Ops
  BY <1>1 DEF LockInv, At, Locked
<1>7. ASSUME NEW l \in Keys, NEW i \in DOMAIN queue'[l]
      PROVE  /\ op'[queue'[l][i]].key = l
             /\ op'[queue'[l][i]].pc = "lock" \/ (i = 1 /\ op'[queue'[l][i]].pc \in Locked)
             /\ \A j \in DOMAIN queue'[l] : queue'[l][i] = queue'[l][j] => i = j
  <2>1. CASE l = k
    <3>1. DOMAIN queue'[l] = 1..Len(q) + 1 /\ i \in 1..Len(q) + 1
      <4>1. queue'[l] = Append(q, o)
        BY <1>3, <2>1
      <4> HIDE DEF q
      <4> QED BY <1>2, <4>1
    <3>2. \A j \in 1..Len(q) : queue'[l][j] = q[j] /\ q[j] \in Ops /\ q[j] # o
      BY <1>1, <1>2, <1>3, <1>6, <2>1
    <3>3. queue'[l][Len(q) + 1] = o
      <4>1. queue'[l] = Append(q, o)
        BY <1>3, <2>1
      <4> HIDE DEF q
      <4> QED BY <1>2, <4>1
    <3>4. CASE i = Len(q) + 1
      BY <1>1, <1>2, <1>5, <2>1, <3>1, <3>2, <3>3, <3>4
    <3>5. CASE i \in 1..Len(q)
      <4>1. /\ op[q[i]].key = k /\ (op[q[i]].pc = "lock" \/ (i = 1 /\ op[q[i]].pc \in Locked))
            /\ \A j \in 1..Len(q) : q[i] = q[j] => i = j
        BY <1>1, <1>2, <3>5 DEF LockInv, At
      <4>2. \A j \in DOMAIN queue'[l] : queue'[l][i] = queue'[l][j] => i = j
        BY <1>2, <3>1, <3>2, <3>3, <3>5, <4>1
      <4> QED BY <1>5, <2>1, <3>2, <3>5, <4>1, <4>2
    <3> QED BY <1>2, <3>1, <3>4, <3>5
  <2>2. CASE l # k
    <3>1. queue'[l] = queue[l]
      BY <1>3, <2>2
    <3> QED BY <1>1, <1>5, <1>6, <3>1 DEF LockInv, At
  <2> QED BY <2>1, <2>2
<1>8. ASSUME NEW p \in Ops, op'[p].pc \in Locked \cup {"lock"}
      PROVE  \E i \in DOMAIN queue'[op'[p].key] :
                queue'[op'[p].key][i] = p /\ (op'[p].pc \in Locked => i = 1)
  <2>1. CASE p = o
    <3>1. Len(q) + 1 \in DOMAIN queue'[k] /\ queue'[k][Len(q) + 1] = o
      BY <1>1, <1>2, <1>3
    <3>2. op'[p].key = k /\ op'[p].pc \notin Locked
      BY <1>1, <1>5, <2>1
    <3> QED BY <2>1, <3>1, <3>2
  <2>2. CASE p # o
    <3>1. op'[p] = op[p]
      BY <1>5, <2>2
    <3>2. PICK i \in DOMAIN queue[op[p].key] : queue[op[p].key][i] = p /\ (op[p].pc \in Locked => i = 1)
      BY <1>1, <1>8, <3>1 DEF LockInv
    <3>3. op[p].key \in Keys
      BY <1>8, <3>1 DEF RelayInv, HandlerInv, IdleOp, Locked, At, Is
    <3>4. CASE op[p].key = k
      <4>1. i \in DOMAIN queue'[k] /\ queue'[k][i] = p
        BY <1>1, <1>2, <1>3, <3>2, <3>4
      <4> QED BY <3>1, <3>2, <3>4, <4>1
    <3>5. CASE op[p].key # k
      BY <1>3, <3>1, <3>2, <3>3, <3>5
    <3> QED BY <3>4, <3>5
  <2> QED BY <2>1, <2>2
<1>9. LockInv'
  BY <1>7, <1>8 DEF LockInv, At
<1> QED BY <1>4, <1>9

\* The registries change under handlers that do not.
LEMMA RegistryStep ==
  ASSUME RelayInv, Sound(reg'), Less(reg, reg'),
         UNCHANGED <<queue, op, revoked, ejected>>, route' \in Route, RouteInv'
  PROVE  RelayInv'
<1>1. reg' \in Reg
  BY DEF Sound, SoundBut
<1>2. TypeOK'
  BY <1>1 DEF RelayInv, TypeOK
<1>3. LessBut(reg, reg', None) /\ None \notin Keys
  BY LessIsLessBut, KeyFacts
<1>4. ExclusiveOwner' /\ RevokedOwnsNothing'
  BY <1>3, OwnersKeep DEF RelayInv
<1>5. \A p \in Ops : OwnInv(p)'
  <2>1. SUFFICES ASSUME NEW p \in Ops PROVE OwnInv(p)'
    OBVIOUS
  <2>2. At(p, "owners") \/ At(p, "final") => op[p].key # None
    BY <1>3 DEF RelayInv, HandlerInv, At, Is, IdleOp
  <2> QED BY <1>3, <2>2, OtherKeeps
<1>6. LockInv'
  BY DEF RelayInv, LockInv, At
<1> QED BY <1>2, <1>4, <1>5, <1>6 DEF RelayInv, OwnInv

\* A handler ends that does not hold the lock.
LEMMA QuitStep ==
  ASSUME RelayInv, NEW o \in Ops, At(o, "verify"), NEW h, Sound(h), Less(reg, h),
         Quit(o, h), UNCHANGED <<revoked, ejected, route>>
  PROVE  RelayInv'
<1>1. reg' = h /\ reg' \in Reg /\ op' = [op EXCEPT ![o] = IdleOp] /\ queue' = queue
  BY DEF Quit, Sound, SoundBut
<1>2. TypeOK'
  <2>1. IdleOp \in Op
    BY DEF IdleOp, Op, OpPCs, Some
  <2> QED BY <1>1, <2>1 DEF RelayInv, TypeOK
<1>3. LessBut(reg, reg', None) /\ None \notin Keys
  BY <1>1, LessIsLessBut, KeyFacts
<1>4. ExclusiveOwner' /\ RevokedOwnsNothing'
  BY <1>3, OwnersKeep DEF RelayInv
<1>5. op'[o] = IdleOp /\ \A p \in Ops : p # o => op'[p] = op[p]
  BY <1>1 DEF RelayInv, TypeOK
<1>6. ASSUME NEW p \in Ops PROVE OwnInv(p)'
  <2>1. CASE p = o
    BY <1>5, <2>1 DEF OwnInv, HandlerInv, EjectedInv, At, Is, IdleOp
  <2>2. CASE p # o
    <3>1. At(p, "owners") \/ At(p, "final") => op[p].key # None
      BY <1>3 DEF RelayInv, HandlerInv, At, Is, IdleOp
    <3> QED BY <1>3, <1>5, <2>2, <3>1, OtherKeeps
  <2> QED BY <2>1, <2>2
<1>7. LockInv'
  BY <1>1, LockUntouched DEF RelayInv, TypeOK, At, IdleOp, Locked
<1>8. RouteInv' /\ Sound(reg')
  BY <1>1 DEF RelayInv, RouteInv
<1> QED BY <1>2, <1>4, <1>6, <1>7, <1>8 DEF RelayInv, OwnInv

\* A handler ends that holds the lock, and may have changed who owns its pair.
LEMMA LeaveStep ==
  ASSUME RelayInv, NEW o \in Ops, op[o].pc \in Locked, NEW h, Sound(h),
         LessBut(reg, h, op[o].key),
         MuxOwner(h, op[o].key) = None \/ LegacyOwner(h, op[o].key) = None,
         MuxOwner(h, op[o].key) # None => DeviceOf(MuxOwner(h, op[o].key)) \notin ejected,
         Leave(o, h), UNCHANGED <<revoked, ejected, route>>
  PROVE  RelayInv'
<1>1. /\ reg' = h /\ reg' \in Reg /\ op' = [op EXCEPT ![o] = IdleOp]
      /\ queue' = [queue EXCEPT ![op[o].key] = Tail(@)]
  BY DEF Leave, Sound, SoundBut
<1>2. LockInv' /\ queue' \in [Keys -> Seq(Ops)]
  BY <1>1, LockReleased
<1>3. TypeOK'
  <2>1. IdleOp \in Op
    BY DEF IdleOp, Op, OpPCs, Some
  <2> QED BY <1>1, <1>2, <2>1 DEF RelayInv, TypeOK
<1>4. ExclusiveOwner' /\ RevokedOwnsNothing'
  BY <1>1, OwnersKeep DEF RelayInv
<1>5. op'[o] = IdleOp /\ \A p \in Ops : p # o => op'[p] = op[p]
  BY <1>1 DEF RelayInv, TypeOK
<1>6. ASSUME NEW p \in Ops PROVE OwnInv(p)'
  <2>1. CASE p = o
    BY <1>5, <2>1 DEF OwnInv, HandlerInv, EjectedInv, At, Is, IdleOp
  <2>2. CASE p # o
    <3>1. At(p, "owners") \/ At(p, "final") => op[p].key # op[o].key
      BY <2>2, OneHolder DEF At, Locked
    <3> QED BY <1>1, <1>5, <2>2, <3>1, OtherKeeps
  <2> QED BY <2>1, <2>2
<1>7. RouteInv' /\ Sound(reg')
  BY <1>1 DEF RelayInv, RouteInv
<1> QED BY <1>2, <1>3, <1>4, <1>6, <1>7 DEF RelayInv, OwnInv

\* A handler that holds the lock ends without installing anything.
LEMMA LeaveLess ==
  ASSUME RelayInv, NEW o \in Ops, op[o].pc \in Locked, NEW h, Sound(h), Less(reg, h),
         Leave(o, h), UNCHANGED <<revoked, ejected, route>>
  PROVE  RelayInv'
<1> DEFINE k == op[o].key
<1>1. k \in Keys
  BY DEF RelayInv, HandlerInv, Locked, IdleOp, At, Is
<1>2. /\ MuxOwner(h, k) \in {MuxOwner(reg, k), None}
      /\ LegacyOwner(h, k) \in {LegacyOwner(reg, k), None}
  BY <1>1 DEF Less
<1>3. /\ MuxOwner(reg, k) = None \/ LegacyOwner(reg, k) = None
      /\ MuxOwner(reg, k) # None => DeviceOf(MuxOwner(reg, k)) \notin ejected
  BY <1>1 DEF RelayInv, ExclusiveOwner, RevokedOwnsNothing
<1>4. LessBut(reg, h, k)
  BY LessIsLessBut
<1> QED BY <1>2, <1>3, <1>4, LeaveStep

\* A handler that holds the lock waits for a device.
LEMMA SuspendStep ==
  ASSUME RelayInv, NEW o \in Ops, op[o].pc \in Locked, NEW g, Sound(g), Less(reg, g),
         NEW pc \in {"self", "owners", "final"}, NEW todo \in Seq(Sockets), NEW x,
         reg' = g, Suspend(o, pc, todo, x), UNCHANGED <<queue, revoked, ejected, route>>,
         pc = "self" => Is(o, "join"),
         pc = "owners" => todo # <<>>,
         pc = "final" => x = op[o].socket,
         \A t \in {MuxOwner(g, op[o].key), LegacyOwner(g, op[o].key)} \ {None} :
            \/ pc = "self"
            \/ DeviceOf(t) = DeviceOf(op[o].socket)
            \/ pc = "owners" /\ \E i \in DOMAIN todo : todo[i] = t
  PROVE  RelayInv'
<1> DEFINE asked == DeviceOf(x) \notin revoked
           r == [op[o] EXCEPT !.pc = pc, !.todo = todo, !.asked = asked]
<1>0. op \in [Ops -> Op] /\ op[o] \in Op /\ asked \in BOOLEAN
  BY DEF RelayInv, TypeOK
<1>1. op' = [op EXCEPT ![o] = r]
  BY DEF Suspend
<1>2. /\ r.pc = pc /\ r.kind = op[o].kind /\ r.socket = op[o].socket /\ r.key = op[o].key
      /\ r.todo = todo /\ r.asked = asked /\ r \in Op /\ r.pc \in Locked
  <2> HIDE DEF asked
  <2> QED BY <1>0 DEF Op, OpPCs, Locked
<1> HIDE DEF r
<1>3. reg' \in Reg
  BY DEF Sound, SoundBut
<1>4. TypeOK'
  BY <1>1, <1>2, <1>3 DEF RelayInv, TypeOK
<1>5. LessBut(reg, reg', None) /\ None \notin Keys
  BY LessIsLessBut, KeyFacts
<1>6. ExclusiveOwner' /\ RevokedOwnsNothing'
  BY <1>5, OwnersKeep DEF RelayInv
<1>7. op'[o] = r /\ \A p \in Ops : p # o => op'[p] = op[p]
  BY <1>0, <1>1
<1>8. ASSUME NEW p \in Ops PROVE OwnInv(p)'
  <2>1. CASE p = o
    <3>1. HandlerInv(o)'
      <4>1. /\ op[o].socket \in Sockets /\ ~Is(o, "authenticate") /\ op[o].key \in Keys
            /\ Is(o, "subscribe") /\ op[o].socket \in reg.open => op[o].socket \in reg.generation
        BY DEF RelayInv, HandlerInv, Locked, IdleOp, At, Is
      <4>2. Is(o, "subscribe") /\ op[o].socket \in reg'.open => op[o].socket \in reg'.generation
        BY <4>1 DEF Less
      <4> QED BY <1>2, <1>7, <4>1, <4>2 DEF HandlerInv, At, Is
    <3>2. (At(o, "owners") \/ At(o, "final") => CheckedInv(o))'
      BY <1>2, <1>7 DEF CheckedInv, At
    <3>3. EjectedInv(o)'
      <4>1. ejected \subseteq revoked
        BY DEF RelayInv, TypeOK
      <4> QED BY <1>2, <1>7, <4>1 DEF EjectedInv, At
    <3> QED BY <2>1, <3>1, <3>2, <3>3 DEF OwnInv
  <2>2. CASE p # o
    <3>1. At(p, "owners") \/ At(p, "final") => op[p].key # None
      BY <1>5 DEF RelayInv, HandlerInv, At, Is, IdleOp
    <3> QED BY <1>5, <1>7, <2>2, <3>1, OtherKeeps
  <2> QED BY <2>1, <2>2
<1>9. LockInv'
  BY <1>0, <1>1, <1>2, LockKept DEF RelayInv
<1>10. RouteInv' /\ Sound(reg')
  BY DEF RelayInv, RouteInv
<1> QED BY <1>4, <1>6, <1>8, <1>9, <1>10 DEF RelayInv, OwnInv

\* The owners loop goes on, with every owner of the pair of the contender's
\* device or still to be read; it ends with all of them of its device.
LEMMA ProceedStep ==
  ASSUME RelayInv, NEW o \in Ops, op[o].pc \in Locked, NEW g, Sound(g), Less(reg, g),
         NEW todo \in Seq(Sockets),
         Proceed(o, g, todo), UNCHANGED <<revoked, ejected, route>>,
         \A t \in {MuxOwner(g, op[o].key), LegacyOwner(g, op[o].key)} \ {None} :
            DeviceOf(t) = DeviceOf(op[o].socket) \/ \E i \in DOMAIN todo : todo[i] = t
  PROVE  RelayInv'
<1> DEFINE s == op[o].socket
<1>1. s \in Sockets
  BY DEF RelayInv, HandlerInv, Locked, IdleOp
<1>2. CASE todo # <<>>
  <2>1. reg' = g /\ Suspend(o, "owners", todo, Head(todo)) /\ UNCHANGED queue
    BY <1>2 DEF Proceed
  <2> QED BY <1>2, <2>1, SuspendStep
<1>3. CASE todo = <<>>
  <2>1. \A t \in {MuxOwner(g, op[o].key), LegacyOwner(g, op[o].key)} \ {None} :
            DeviceOf(t) = DeviceOf(s)
    BY <1>3
  <2>2. ASSUME reg' = g, Suspend(o, "final", <<>>, s), UNCHANGED queue PROVE RelayInv'
    <3>1. <<>> \in Seq(Sockets)
      OBVIOUS
    <3> QED BY <2>1, <2>2, <3>1, SuspendStep
  <2>3. ASSUME Leave(o, Disconnect(g, s)) PROVE RelayInv'
    <3> DEFINE h == Disconnect(g, s)
    <3>1. SoundBut(g, s)
      <4>1. g.open \subseteq Sockets
        BY DEF Sound, SoundBut, Reg
      <4> QED BY <4>1, SocketFacts DEF Sound, SoundBut
    <3>2. Sound(h) /\ Shrinks(g, h)
      BY <1>1, <3>1, DisconnectKeeps
    <3>3. Less(reg, h)
      BY <3>2, ShrinksIsLess, LessTransitive
    <3> QED BY <2>3, <3>2, <3>3, LeaveLess
  <2>4. ASSUME Leave(o, g) PROVE RelayInv'
    BY <2>4, LeaveLess
  <2> QED BY <1>3, <2>2, <2>3, <2>4 DEF Proceed
<1> QED BY <1>2, <1>3

\* The owners loop begins with the owners other than the contender.
LEMMA LookStep ==
  ASSUME RelayInv, NEW o \in Ops, op[o].pc \in Locked,
         LookForOwners(o, reg), UNCHANGED <<revoked, ejected, route>>
  PROVE  RelayInv'
<1> DEFINE s == op[o].socket
           k == op[o].key
           g == Clean(reg, k)
           m == MuxOwner(reg, k)
           l == LegacyOwner(reg, k)
           todo == Other(m, s) \o Other(l, s)
<1>1. s \in Sockets /\ k \in Keys /\ Sound(reg) /\ reg \in Reg
  BY DEF RelayInv, HandlerInv, Locked, IdleOp, At, Is, TypeOK
<1>2. Sound(g) /\ Shrinks(reg, g) /\ MuxOwner(g, k) = m /\ LegacyOwner(g, k) = l
  BY <1>1, CleanKeeps
<1>3. m \in Some(Sockets) /\ l \in Some(Sockets)
  BY <1>1 DEF MuxOwner, LegacyOwner, Reg, Some
<1>4. Less(reg, g)
  BY <1>2, ShrinksIsLess
<1>5. Proceed(o, g, todo)
  BY DEF LookForOwners
<1> HIDE DEF g, m, l
<1>6. Other(m, s) \in Seq(Sockets) /\ Other(l, s) \in Seq(Sockets) /\ todo \in Seq(Sockets)
  BY <1>3 DEF Other, Some
<1>7. \A t \in {m, l} \ {None} : t = s \/ \E i \in DOMAIN todo : todo[i] = t
  <2>1. m \notin {None, s} => 1 \in DOMAIN todo /\ todo[1] = m
    BY <1>3 DEF Other, Some
  <2>2. l \notin {None, s} => Len(todo) \in DOMAIN todo /\ todo[Len(todo)] = l
    BY <1>3 DEF Other, Some
  <2> QED BY <2>1, <2>2
<1> HIDE DEF todo
<1> QED BY <1>2, <1>4, <1>5, <1>6, <1>7, ProceedStep

\* What the invariant says of the registries and of a handler under way.
LEMMA InvFacts ==
  ASSUME RelayInv
  PROVE  /\ Sound(reg) /\ reg \in Reg /\ op \in [Ops -> Op] /\ Less(reg, reg)
         /\ \A o \in Ops : ~At(o, "idle") => op[o].socket \in Sockets
         /\ \A o \in Ops : ~At(o, "idle") /\ ~Is(o, "authenticate") => op[o].key \in Keys
         /\ \A o \in Ops : op[o].pc \in Locked => ~At(o, "idle") /\ ~Is(o, "authenticate")
BY LessReflexive DEF RelayInv, TypeOK, HandlerInv, At, Is, IdleOp, Locked

\* A disconnection only takes away.
LEMMA DisconnectLess ==
  ASSUME NEW g, Sound(g), NEW s \in Sockets
  PROVE  Sound(Disconnect(g, s)) /\ Less(g, Disconnect(g, s))
<1>1. g.open \subseteq Sockets
  BY DEF Sound, SoundBut, Reg
<1>2. SoundBut(g, s)
  BY <1>1, SocketFacts DEF Sound, SoundBut
<1> QED BY <1>2, DisconnectKeeps, ShrinksIsLess

\* An invalidation only takes away.
LEMMA InvalidateLess ==
  ASSUME NEW g, Sound(g), NEW s \in Sockets
  PROVE  Sound(Invalidate(g, s)) /\ Less(g, Invalidate(g, s))
BY InvalidateKeeps, ShrinksIsLess

\* A handler begins (chat-join, mux-subscribe, mux-authenticate).
LEMMA BeginStep ==
  ASSUME RelayInv, NEW o \in Ops, NEW kind \in {"join", "subscribe", "authenticate"},
         NEW s \in Sockets, NEW k \in Some(Keys), Begin(o, kind, s, k),
         kind # "authenticate" => k \in Keys,
         kind = "subscribe" => s \in reg.generation
  PROVE  RelayInv'
<1> DEFINE asked == DeviceOf(s) \notin revoked
           r == [pc |-> "verify", kind |-> kind, socket |-> s, key |-> k,
                 todo |-> <<>>, asked |-> asked]
<1>0. Sound(reg) /\ reg \in Reg /\ op \in [Ops -> Op] /\ LockInv /\ queue \in [Keys -> Seq(Ops)]
  BY DEF RelayInv, TypeOK
<1>1. /\ op' = [op EXCEPT ![o] = r] /\ UNCHANGED <<reg, queue, revoked, ejected, route>>
      /\ op[o].pc = "idle"
  BY DEF Begin, At
<1>2. /\ r.pc = "verify" /\ r.kind = kind /\ r.socket = s /\ r.key = k /\ r \in Op
  <2>1. asked \in BOOLEAN /\ <<>> \in Seq(Sockets) /\ s \in Some(Sockets)
    BY DEF Some
  <2> HIDE DEF asked
  <2> QED BY <2>1 DEF Op, OpPCs
<1> HIDE DEF r
<1>3. op'[o] = r /\ \A p \in Ops : p # o => op'[p] = op[p]
  BY <1>0, <1>1
<1>4. TypeOK'
  BY <1>0, <1>1, <1>2 DEF RelayInv, TypeOK
<1>5. LessBut(reg, reg', None) /\ None \notin Keys
  BY <1>1, LessReflexive, LessIsLessBut, KeyFacts
<1>6. ASSUME NEW p \in Ops PROVE OwnInv(p)'
  <2>1. CASE p = o
    BY <1>1, <1>2, <1>3, <2>1 DEF OwnInv, HandlerInv, EjectedInv, At, Is
  <2>2. CASE p # o
    <3>1. At(p, "owners") \/ At(p, "final") => op[p].key # None
      BY <1>5 DEF RelayInv, HandlerInv, At, Is, IdleOp
    <3> QED BY <1>1, <1>3, <1>5, <2>2, <3>1, OtherKeeps
  <2> QED BY <2>1, <2>2
<1>7. LockInv'
  BY <1>0, <1>1, <1>2, LockUntouched DEF Locked
<1>8. (Sound(reg) /\ ExclusiveOwner /\ RevokedOwnsNothing /\ RouteInv)'
  BY <1>1 DEF RelayInv, ExclusiveOwner, RevokedOwnsNothing, RouteInv
<1> QED BY <1>4, <1>6, <1>7, <1>8 DEF RelayInv, OwnInv

\* mux-authenticate ends, with the socket current or disconnected.
LEMMA AuthenticatedStep ==
  ASSUME RelayInv, NEW o \in Ops, Authenticated(o) PROVE RelayInv'
<1> DEFINE s == op[o].socket
<1>1. At(o, "verify") /\ s \in Sockets /\ Sound(reg) /\ UNCHANGED <<revoked, ejected, route>>
  BY InvFacts DEF Authenticated, At
<1>2. ASSUME NEW h, Sound(h), Less(reg, h), Quit(o, h) PROVE RelayInv'
  BY <1>1, <1>2, QuitStep
<1>3. LET h == DisconnectOther([reg EXCEPT !.current[DeviceOf(s)] = s, !.generation = @ \cup {s}],
                               reg.current[DeviceOf(s)], s)
      IN  Sound(h) /\ Less(reg, h)
  BY <1>1, AuthenticatedKeeps
<1>4. Sound(Disconnect(reg, s)) /\ Less(reg, Disconnect(reg, s))
  BY <1>1, DisconnectLess
<1> QED BY <1>2, <1>3, <1>4 DEF Authenticated

\* An admission is refused before the lock.
LEMMA RefusedStep ==
  ASSUME RelayInv, NEW o \in Ops, Refused(o) PROVE RelayInv'
<1> DEFINE s == op[o].socket
<1>1. /\ At(o, "verify") /\ s \in Sockets /\ Sound(reg) /\ Less(reg, reg)
      /\ UNCHANGED <<revoked, ejected, route>>
  BY InvFacts DEF Refused, At
<1>2. ASSUME NEW h, Sound(h), Less(reg, h), Quit(o, h) PROVE RelayInv'
  BY <1>1, <1>2, QuitStep
<1>3. Sound(Disconnect(reg, s)) /\ Less(reg, Disconnect(reg, s))
  BY <1>1, DisconnectLess
<1>4. Sound(Invalidate(reg, s)) /\ Less(reg, Invalidate(reg, s))
  BY <1>1, InvalidateLess
<1> QED BY <1>1, <1>2, <1>3, <1>4 DEF Refused

\* A handler that waits for the lock, or gets it, touches nothing else.
LEMMA WaitStep ==
  ASSUME RelayInv, NEW o \in Ops, ~At(o, "idle"), ~Is(o, "authenticate"),
         NEW pc \in {"lock", "control"}, Wait(o, pc),
         LockInv', queue' \in [Keys -> Seq(Ops)], UNCHANGED <<reg, revoked, ejected, route>>
  PROVE  RelayInv'
<1> DEFINE r == [op[o] EXCEPT !.pc = pc, !.todo = <<>>, !.asked = FALSE]
<1>0. Sound(reg) /\ reg \in Reg /\ op \in [Ops -> Op] /\ op[o] \in Op
  BY DEF RelayInv, TypeOK
<1>1. op' = [op EXCEPT ![o] = r]
  BY DEF Wait
<1>2. /\ r.pc = pc /\ r.kind = op[o].kind /\ r.socket = op[o].socket /\ r.key = op[o].key
      /\ r \in Op
  <2>1. <<>> \in Seq(Sockets)
    OBVIOUS
  <2> QED BY <1>0, <2>1 DEF Op, OpPCs
<1> HIDE DEF r
<1>3. op'[o] = r /\ \A p \in Ops : p # o => op'[p] = op[p]
  BY <1>0, <1>1
<1>4. TypeOK'
  BY <1>0, <1>1, <1>2 DEF RelayInv, TypeOK
<1>5. LessBut(reg, reg', None) /\ None \notin Keys
  BY LessReflexive, LessIsLessBut, KeyFacts
<1>6. ASSUME NEW p \in Ops PROVE OwnInv(p)'
  <2>1. CASE p = o
    <3>1. HandlerInv(o) /\ op[o] # IdleOp
      BY DEF RelayInv, At, IdleOp
    <3> QED BY <1>2, <1>3, <2>1, <3>1 DEF OwnInv, HandlerInv, EjectedInv, At, Is
  <2>2. CASE p # o
    <3>1. At(p, "owners") \/ At(p, "final") => op[p].key # None
      BY <1>5 DEF RelayInv, HandlerInv, At, Is, IdleOp
    <3> QED BY <1>3, <1>5, <2>2, <3>1, OtherKeeps
  <2> QED BY <2>1, <2>2
<1>7. (Sound(reg) /\ ExclusiveOwner /\ RevokedOwnsNothing /\ RouteInv)'
  BY DEF RelayInv, ExclusiveOwner, RevokedOwnsNothing, RouteInv
<1> QED BY <1>4, <1>6, <1>7 DEF RelayInv, OwnInv

\* An admission is verified and queues for the pair's lock.
LEMMA VerifiedStep ==
  ASSUME RelayInv, NEW o \in Ops, Verified(o) PROVE RelayInv'
<1> DEFINE r == [op[o] EXCEPT !.pc = "lock", !.todo = <<>>, !.asked = FALSE]
<1>1. /\ At(o, "verify") /\ ~Is(o, "authenticate") /\ Wait(o, "lock")
      /\ queue' = [queue EXCEPT ![op[o].key] = Append(@, o)]
      /\ UNCHANGED <<reg, revoked, ejected, route>>
  BY DEF Verified
<1>2. op[o] \in Op /\ op' = [op EXCEPT ![o] = r]
  BY <1>1 DEF RelayInv, TypeOK, Wait
<1>3. r.pc = "lock" /\ r.key = op[o].key
  BY <1>2 DEF Op
<1> HIDE DEF r
<1>4. LockInv' /\ queue' \in [Keys -> Seq(Ops)]
  BY <1>1, <1>2, <1>3, LockQueued
<1>5. ~At(o, "idle")
  BY <1>1 DEF At
<1> QED BY <1>1, <1>4, <1>5, WaitStep

\* An admission gets the lock: it was first in the queue.
LEMMA AcquireStep ==
  ASSUME RelayInv, NEW o \in Ops, Acquire(o) PROVE RelayInv'
<1> DEFINE r == [op[o] EXCEPT !.pc = "control", !.todo = <<>>, !.asked = FALSE]
           k == op[o].key
<1>1. /\ At(o, "lock") /\ Head(queue[k]) = o /\ Wait(o, "control")
      /\ UNCHANGED <<reg, queue, revoked, ejected, route>>
  BY DEF Acquire
<1>2. /\ op \in [Ops -> Op] /\ op[o] \in Op /\ op' = [op EXCEPT ![o] = r] /\ LockInv
      /\ queue \in [Keys -> Seq(Ops)]
  BY <1>1 DEF RelayInv, TypeOK, Wait
<1>3. r.pc = "control" /\ r.key = op[o].key
  BY <1>2 DEF Op
<1> HIDE DEF r
<1>4. k \in Keys /\ ~Is(o, "authenticate") /\ ~At(o, "idle")
  BY <1>1 DEF RelayInv, HandlerInv, At, Is, IdleOp
<1>5. queue[k] \in Seq(Ops) /\ 1 \in DOMAIN queue[k] /\ queue[k][1] = o
  <2>1. PICK i \in DOMAIN queue[k] : queue[k][i] = o
    BY <1>1, <1>2 DEF LockInv, At
  <2> QED BY <1>1, <1>2, <1>4, <2>1
<1>6. op'[o] = r /\ \A p \in Ops : p # o => op'[p] = op[p]
  BY <1>2
<1>7. "lock" \notin Locked /\ "control" \in Locked
  BY DEF Locked
<1>8. LockInv'
  <2>1. ASSUME NEW l \in Keys, NEW i \in DOMAIN queue[l]
        PROVE  /\ op'[queue[l][i]].key = l
               /\ op'[queue[l][i]].pc = "lock" \/ (i = 1 /\ op'[queue[l][i]].pc \in Locked)
    <3>1. op[queue[l][i]].key = l /\ queue[l][i] \in Ops
          /\ (op[queue[l][i]].pc = "lock" \/ (i = 1 /\ op[queue[l][i]].pc \in Locked))
      BY <1>2 DEF LockInv, At
    <3>2. CASE queue[l][i] = o
      <4>1. l = k /\ i = 1
        BY <1>2, <1>4, <1>5, <3>1, <3>2 DEF LockInv
      <4> QED BY <1>3, <1>6, <1>7, <3>2, <4>1
    <3>3. CASE queue[l][i] # o
      BY <1>6, <3>1, <3>3
    <3> QED BY <3>2, <3>3
  <2>2. ASSUME NEW p \in Ops, op'[p].pc \in Locked \cup {"lock"}
        PROVE  \E i \in DOMAIN queue[op'[p].key] :
                  queue[op'[p].key][i] = p /\ (op'[p].pc \in Locked => i = 1)
    <3>1. CASE p = o
      BY <1>3, <1>5, <1>6, <3>1
    <3>2. CASE p # o
      BY <1>2, <1>6, <2>2, <3>2 DEF LockInv
    <3> QED BY <3>1, <3>2
  <2> QED BY <1>1, <1>2, <2>1, <2>2 DEF LockInv, At
<1> QED BY <1>1, <1>2, <1>4, <1>8, WaitStep

\* Room and routing are authorized again under the lock, or the handler leaves.
LEMMA AuthorizedStep ==
  ASSUME RelayInv, NEW o \in Ops, Authorized(o) PROVE RelayInv'
<1> DEFINE s == op[o].socket
<1>1. /\ At(o, "control") /\ op[o].pc \in Locked /\ UNCHANGED <<revoked, ejected, route>>
  BY DEF Authorized, At, Locked
<1>2. /\ Sound(reg) /\ Less(reg, reg) /\ s \in Sockets /\ op[o].key \in Keys
  BY <1>1, InvFacts
<1>3. ASSUME Leave(o, reg) PROVE RelayInv'
  BY <1>1, <1>2, <1>3, LeaveLess
<1>4. ASSUME Is(o, "join"), Suspend(o, "self", <<>>, s), UNCHANGED <<reg, queue>> PROVE RelayInv'
  <2>1. <<>> \in Seq(Sockets)
    OBVIOUS
  <2> QED BY <1>1, <1>2, <1>4, <2>1, SuspendStep
<1>5. ASSUME LookForOwners(o, reg) PROVE RelayInv'
  BY <1>1, <1>5, LookStep
<1> QED BY <1>3, <1>4, <1>5 DEF Authorized

\* A join reads its own device and goes on to the owners.
LEMMA SelfReadStep ==
  ASSUME RelayInv, NEW o \in Ops, SelfRead(o) PROVE RelayInv'
<1> DEFINE s == op[o].socket
<1>1. /\ op[o].pc \in Locked /\ UNCHANGED <<revoked, ejected, route>>
  BY DEF SelfRead, At, Locked
<1>2. Sound(reg) /\ s \in Sockets
  BY <1>1, InvFacts
<1>3. ASSUME LookForOwners(o, reg) PROVE RelayInv'
  BY <1>1, <1>3, LookStep
<1>4. ASSUME Leave(o, Disconnect(reg, s)) PROVE RelayInv'
  BY <1>1, <1>2, <1>4, DisconnectLess, LeaveLess
<1> QED BY <1>3, <1>4 DEF SelfRead

\* An owner is read: it blocks the handler, is of its device, or is thrown out.
LEMMA OwnerReadStep ==
  ASSUME RelayInv, NEW o \in Ops, OwnerRead(o) PROVE RelayInv'
<1> DEFINE k == op[o].key
           todo == op[o].todo
           t == Head(todo)
           rest == Tail(todo)
           dev == DeviceOf(op[o].socket)
<1>1. /\ op[o].pc \in Locked /\ At(o, "owners") /\ UNCHANGED <<revoked, ejected, route>>
  BY DEF OwnerRead, At, Locked
<1>2. Sound(reg) /\ Less(reg, reg) /\ k \in Keys
  BY <1>1, InvFacts
<1>3. todo \in Seq(Sockets) /\ todo # <<>>
  BY <1>1 DEF RelayInv, TypeOK, Op, HandlerInv, At, IdleOp
<1>4. t \in Sockets /\ rest \in Seq(Sockets)
  BY <1>3
<1>5. \A i \in DOMAIN todo : todo[i] = t \/ \E j \in DOMAIN rest : rest[j] = todo[i]
  <2>1. ASSUME NEW i \in DOMAIN todo, i # 1 PROVE i - 1 \in DOMAIN rest /\ rest[i - 1] = todo[i]
    BY <1>3, <2>1
  <2>2. todo[1] = t
    BY <1>3
  <2> QED BY <2>1, <2>2
<1>6. \A x \in {MuxOwner(reg, k), LegacyOwner(reg, k)} \ {None} :
         DeviceOf(x) = dev \/ x = t \/ \E j \in DOMAIN rest : rest[j] = x
  <2>1. \A x \in {MuxOwner(reg, k), LegacyOwner(reg, k)} \ {None} :
           DeviceOf(x) = dev \/ \E i \in DOMAIN todo : todo[i] = x
    BY <1>1 DEF RelayInv, CheckedInv
  <2> HIDE DEF todo, t, rest, dev, k
  <2> QED BY <1>5, <2>1
<1> HIDE DEF todo, t, rest
<1>7. ASSUME Leave(o, reg) PROVE RelayInv'
  BY <1>1, <1>2, <1>7, LeaveLess
<1>8. ASSUME Proceed(o, ThrowOut(reg, k, t), rest) PROVE RelayInv'
  <2> DEFINE h == ThrowOut(reg, k, t)
  <2>1. Sound(h) /\ Shrinks(reg, h) /\ MuxOwner(h, k) # t /\ LegacyOwner(h, k) # t
    BY <1>2, <1>4, ThrowOutKeeps
  <2> HIDE DEF h
  <2>2. Less(reg, h)
    BY <2>1, ShrinksIsLess
  <2>3. \A x \in {MuxOwner(h, k), LegacyOwner(h, k)} \ {None} :
           DeviceOf(x) = dev \/ \E j \in DOMAIN rest : rest[j] = x
    BY <1>2, <1>6, <2>1, <2>2 DEF Less
  <2>4. Proceed(o, h, rest)
    BY <1>8 DEF h
  <2> QED BY <1>1, <1>4, <2>1, <2>2, <2>3, <2>4, ProceedStep
<1>9. ASSUME DeviceOf(t) = dev, Proceed(o, reg, rest) PROVE RelayInv'
  <2>1. \A x \in {MuxOwner(reg, k), LegacyOwner(reg, k)} \ {None} :
           DeviceOf(x) = dev \/ \E j \in DOMAIN rest : rest[j] = x
    BY <1>6, <1>9
  <2> QED BY <1>1, <1>2, <1>4, <1>9, <2>1, ProceedStep
<1> QED BY <1>7, <1>8, <1>9 DEF OwnerRead, todo, t, rest

\* The client is installed after the join's last read.
LEMMA FinalJoinStep ==
  ASSUME RelayInv, NEW o \in Ops, FinalJoin(o) PROVE RelayInv'
<1> DEFINE s == op[o].socket
           k == op[o].key
<1>1. /\ op[o].pc \in Locked /\ UNCHANGED <<revoked, ejected, route>>
  BY DEF FinalJoin, At, Locked
<1>2. Sound(reg) /\ s \in Sockets /\ k \in Keys
  BY <1>1, InvFacts
<1>3. ASSUME Leave(o, InstallJoin(reg, s, k)) PROVE RelayInv'
  <2> DEFINE h == InstallJoin(reg, s, k)
  <2>1. Sound(h) /\ LessBut(reg, h, k) /\ MuxOwner(h, k) = None
    BY <1>2, InstallJoinKeeps
  <2> HIDE DEF h
  <2>2. Leave(o, h)
    BY <1>3 DEF h
  <2> QED BY <1>1, <2>1, <2>2, LeaveStep
<1>4. ASSUME Leave(o, Disconnect(reg, s)) PROVE RelayInv'
  BY <1>1, <1>2, <1>4, DisconnectLess, LeaveLess
<1> QED BY <1>3, <1>4 DEF FinalJoin

\* The subscription is installed after the last read; a device that was read as
\* active and has been ejected since has lost its socket, so it does not own
\* the pair.
LEMMA FinalSubscribeStep ==
  ASSUME RelayInv, NEW o \in Ops, FinalSubscribe(o) PROVE RelayInv'
<1> DEFINE s == op[o].socket
           k == op[o].key
<1>1. /\ op[o].pc \in Locked /\ At(o, "final") /\ Is(o, "subscribe")
      /\ UNCHANGED <<revoked, ejected, route>>
  BY DEF FinalSubscribe, At, Locked
<1>2. Sound(reg) /\ Less(reg, reg) /\ s \in Sockets /\ k \in Keys
  BY <1>1, InvFacts
<1>3. s \in reg.open => s \in reg.generation
  BY <1>1 DEF RelayInv, HandlerInv, At, Is, IdleOp
<1>4. ASSUME "active" \in Reads(o, s), Leave(o, InstallSubscription(reg, s, k)) PROVE RelayInv'
  <2> DEFINE h == InstallSubscription(reg, s, k)
  <2>1. /\ Sound(h) /\ LessBut(reg, h, k) /\ LegacyOwner(h, k) = None
        /\ MuxOwner(h, k) \in {s, None}
    BY <1>2, <1>3, InstallSubscriptionKeeps
  <2> HIDE DEF h
  <2>2. Leave(o, h)
    BY <1>4 DEF h
  <2>3. MuxOwner(h, k) # None => DeviceOf(MuxOwner(h, k)) \notin ejected
    <3>1. SUFFICES ASSUME MuxOwner(h, k) = s, s # None, DeviceOf(s) \in ejected PROVE FALSE
      BY <2>1
    <3>2. s \in h.open
      BY <3>1 DEF MuxOwner
    <3>3. s \in reg.open
      BY <2>1, <3>2 DEF LessBut
    <3>4. DeviceOf(s) \in revoked
      BY <3>1 DEF RelayInv, TypeOK
    <3>5. op[o].asked
      BY <1>4, <3>4 DEF Reads
    <3> QED BY <1>1, <3>1, <3>3, <3>5 DEF RelayInv, EjectedInv
  <2> QED BY <1>1, <2>1, <2>2, <2>3, LeaveStep
<1>5. ASSUME Leave(o, Invalidate(reg, s)) PROVE RelayInv'
  BY <1>1, <1>2, <1>5, InvalidateLess, LeaveLess
<1>6. ASSUME Leave(o, reg) PROVE RelayInv'
  BY <1>1, <1>2, <1>6, LeaveLess
<1> QED BY <1>4, <1>5, <1>6 DEF FinalSubscribe

\* The registries change outside the handlers of admission.
LEMMA OutsideStep ==
  ASSUME RelayInv, NEW h, Sound(h), Less(reg, h), reg' = h,
         UNCHANGED <<queue, op, revoked, ejected, route>>
  PROVE  RelayInv'
<1>1. route' \in Route /\ RouteInv'
  BY DEF RelayInv, TypeOK, RouteInv
<1> QED BY <1>1, RegistryStep

\* The ejection of a revoked device: its current socket is the only connected
\* one that can own a subscription, so nothing is left to it.
LEMMA EjectStep ==
  ASSUME RelayInv, NEW d \in Devices, Eject(d) PROVE RelayInv'
<1> DEFINE s == reg.current[d]
           h == IF s = None THEN reg ELSE Invalidate(reg, s)
<1>1. /\ d \in revoked /\ ejected' = ejected \cup {d} /\ reg' = h
      /\ UNCHANGED <<queue, op, revoked, route>>
  BY DEF Eject
<1>2. Sound(reg) /\ reg \in Reg /\ s \in Some(Sockets)
  BY InvFacts DEF Reg
<1>3. Sound(h) /\ Less(reg, h) /\ s \notin h.open
  <2>1. CASE s = None
    BY <1>2, <2>1, LessReflexive, SocketFacts DEF Reg
  <2>2. CASE s # None
    BY <1>2, <2>2, InvalidateKeeps, ShrinksIsLess DEF Some
  <2> QED BY <2>1, <2>2
<1> HIDE DEF h
<1>4. \A t \in h.open \cap h.generation : DeviceOf(t) # d
  <2>1. ASSUME NEW t \in h.open, t \in h.generation, DeviceOf(t) = d PROVE FALSE
    <3>1. t \in Sockets
      BY <1>3, <2>1 DEF Sound, SoundBut, Reg
    <3>2. h.current[d] = t
      BY <1>3, <2>1, <3>1, SocketFacts DEF Sound, SoundBut, IsCurrent
    <3>3. t \in reg.open
      BY <1>3, <2>1 DEF Less
    <3>4. CASE s = None
      BY <1>1, <3>1, <3>2, <3>4, SocketFacts DEF h
    <3>5. CASE s # None
      <4>1. Shrinks(reg, h)
        BY <1>2, <3>5, InvalidateKeeps DEF h, Some
      <4>2. h.current[d] \in {s, None}
        BY <4>1 DEF Shrinks
      <4> QED BY <1>3, <2>1, <3>1, <3>2, <4>2, SocketFacts
    <3> QED BY <3>4, <3>5
  <2> QED BY <2>1
<1>5. TypeOK'
  BY <1>1, <1>3 DEF RelayInv, TypeOK, Sound, SoundBut
<1>6. LessBut(reg, reg', None) /\ None \notin Keys
  BY <1>1, <1>3, LessIsLessBut, KeyFacts
<1>7. ExclusiveOwner'
  BY <1>6 DEF RelayInv, ExclusiveOwner, LessBut
<1>8. RevokedOwnsNothing'
  <2>1. SUFFICES ASSUME NEW k \in Keys, MuxOwner(h, k) # None
        PROVE  DeviceOf(MuxOwner(h, k)) \notin ejected \cup {d}
    BY <1>1 DEF RevokedOwnsNothing
  <2> DEFINE t == MuxOwner(h, k)
  <2>2. t = MuxOwner(reg, k)
    BY <1>3, <2>1 DEF Less
  <2>3. DeviceOf(t) \notin ejected
    BY <2>1, <2>2 DEF RelayInv, RevokedOwnsNothing
  <2>4. t \in h.open /\ h.subs[t][RoomOf(k)] # None
    BY <2>1, KeyFacts DEF MuxOwner
  <2>5. t \in h.generation
    BY <1>3, <2>4, KeyFacts DEF Sound, SoundBut
  <2> QED BY <1>4, <2>3, <2>4, <2>5
<1>9. ASSUME NEW p \in Ops PROVE OwnInv(p)'
  <2>1. HandlerInv(p) /\ EjectedInv(p) /\ (At(p, "owners") \/ At(p, "final") => CheckedInv(p))
    BY DEF RelayInv
  <2>2. HandlerInv(p)'
    BY <1>1, <1>3, <2>1 DEF HandlerInv, Less, At, Is
  <2>3. ASSUME At(p, "owners") \/ At(p, "final") PROVE CheckedInv(p)'
    <3>1. op[p].key \in Keys /\ CheckedInv(p)
      BY <2>1, <2>3 DEF HandlerInv, At, Is, IdleOp
    <3>2. /\ MuxOwner(reg', op[p].key) \in {MuxOwner(reg, op[p].key), None}
          /\ LegacyOwner(reg', op[p].key) \in {LegacyOwner(reg, op[p].key), None}
      BY <1>1, <1>3, <3>1 DEF Less
    <3> QED BY <1>1, <3>1, <3>2 DEF CheckedInv, At
  <2>4. EjectedInv(p)'
    <3>1. SUFFICES ASSUME At(p, "final"), Is(p, "subscribe"), op[p].asked,
                          DeviceOf(op[p].socket) \in ejected \cup {d}, op[p].socket \in h.open
          PROVE  FALSE
      BY <1>1 DEF EjectedInv, At, Is
    <3>2. op[p].socket \in reg.open
      BY <1>3, <3>1 DEF Less
    <3>3. DeviceOf(op[p].socket) = d
      BY <2>1, <3>1, <3>2 DEF EjectedInv
    <3>4. op[p].socket \in h.generation
      BY <1>1, <2>2, <3>1 DEF HandlerInv, At, Is, IdleOp
    <3> QED BY <1>4, <3>1, <3>3, <3>4
  <2> QED BY <1>1, <2>2, <2>3, <2>4 DEF OwnInv, At
<1>10. (LockInv /\ RouteInv)'
  BY <1>1 DEF RelayInv, LockInv, RouteInv, At
<1> QED BY <1>1, <1>3, <1>5, <1>7, <1>8, <1>9, <1>10 DEF RelayInv, OwnInv

\* A chat-message is emitted, or fails and may disconnect its inactive
\* receiver.
LEMMA DeliverStep ==
  ASSUME RelayInv, Deliver PROVE RelayInv'
<1> DEFINE t == route.to
<1>1. /\ route.state = "found" /\ UNCHANGED <<queue, op, revoked, ejected>>
      /\ reg' \in {reg, Disconnect(reg, t)}
      /\ \/ route' = [route EXCEPT !.state = "sent"]
         \/ route' = [route EXCEPT !.state = "unavailable"]
  BY DEF Deliver
<1>2. t \in Sockets /\ Sound(reg) /\ route \in Route
  BY <1>1, InvFacts DEF RelayInv, RouteInv, TypeOK
<1>3. Sound(reg') /\ Less(reg, reg')
  BY <1>1, <1>2, DisconnectLess, LessReflexive
<1>4. route' \in Route /\ RouteInv'
  BY <1>1, <1>2 DEF Route, RouteInv
<1> QED BY <1>1, <1>3, <1>4, RegistryStep

\* A chat-message picks its receiver among the room's clients.
LEMMA SubmitStep ==
  ASSUME RelayInv, NEW s \in Sockets, Submit(s) PROVE RelayInv'
<1>1. /\ CurrentLegacyOwner(reg, s) /\ UNCHANGED <<reg, queue, op, revoked, ejected>>
      /\ reg \in Reg /\ Sound(reg) /\ Less(reg, reg)
  BY InvFacts DEF Submit
<1> DEFINE r == RoomOf(reg.joined[s])
<1>2. r \in Rooms
  <2>1. reg.joined[s] \in Keys
    BY <1>1 DEF CurrentLegacyOwner, Reg, Some
  <2> QED BY <2>1, KeyFacts
<1>3. PICK st \in {"stored", "unavailable", "found"}, t \in Some(Sockets) :
        /\ route' = [state |-> st, room |-> r, from |-> s, to |-> t]
        /\ st = "found" => t \in Sockets
  <2> DEFINE peers == {a \in Addresses \ {AddressOf(reg.joined[s])} : reg.clients[<<r, a>>] # None}
             Routed(state, t) == [state |-> state, room |-> r, from |-> s, to |-> t]
  <2>1. CASE route' = Routed("stored", None)
    BY <2>1 DEF Some
  <2>2. ASSUME NEW a \in peers,
               route' = IF reg.clients[<<r, a>>] \in reg.open
                        THEN Routed("found", reg.clients[<<r, a>>])
                        ELSE Routed("unavailable", reg.clients[<<r, a>>])
        PROVE  \E st \in {"stored", "unavailable", "found"}, t \in Some(Sockets) :
                  /\ route' = [state |-> st, room |-> r, from |-> s, to |-> t]
                  /\ st = "found" => t \in Sockets
    <3> DEFINE u == reg.clients[<<r, a>>]
    <3>1. <<r, a>> \in Keys
      BY <1>2, KeyFacts
    <3>2. u \in Some(Sockets) /\ u # None
      BY <1>1, <2>2, <3>1 DEF Reg
    <3>3. u \in Sockets
      BY <3>2 DEF Some
    <3> HIDE DEF u
    <3> QED BY <2>2, <3>2, <3>3 DEF u
  <2> QED BY <2>1, <2>2 DEF Submit
<1>4. route' \in Route /\ RouteInv'
  BY <1>2, <1>3 DEF Route, RouteInv, Some
<1> QED BY <1>1, <1>4, RegistryStep

\* A revocation becomes durable while handlers hold what they have read.
LEMMA RevokeStep ==
  ASSUME RelayInv, NEW d \in Devices, Revoke(d) PROVE RelayInv'
<1>1. revoked' = revoked \cup {d} /\ UNCHANGED <<reg, queue, op, ejected, route>>
  BY DEF Revoke
<1>2. TypeOK'
  BY <1>1 DEF RelayInv, TypeOK
<1>3. \A p \in Ops : OwnInv(p)'
  BY <1>1 DEF RelayInv, OwnInv, HandlerInv, CheckedInv, EjectedInv, At, Is
<1>4. (LockInv /\ RouteInv /\ Sound(reg) /\ ExclusiveOwner /\ RevokedOwnsNothing)'
  BY <1>1 DEF RelayInv, LockInv, RouteInv, ExclusiveOwner, RevokedOwnsNothing, At
<1> QED BY <1>2, <1>3, <1>4 DEF RelayInv, OwnInv

\* The relay starts with empty registries and no handler.
LEMMA InitHolds ==
  ASSUME Init PROVE RelayInv
<1> DEFINE g == [open |-> Sockets, joined |-> [s \in Sockets |-> None],
            clients |-> [k \in Keys |-> None],
            subs |-> [s \in Sockets |-> [r \in Rooms |-> None]],
            muxRooms |-> [k \in Keys |-> None],
            current |-> [d \in Devices |-> None], generation |-> {}]
<1>1. reg = g /\ g \in Reg
  BY DEF Init, Reg, Some
<1>2. Sound(reg)
  BY <1>1, KeyFacts, SocketFacts DEF Sound, SoundBut
<1>3. /\ queue = [k \in Keys |-> <<>>] /\ op = [o \in Ops |-> IdleOp]
      /\ revoked = {} /\ ejected = {} /\ route = NoRoute
  BY DEF Init
<1>4. TypeOK
  <2>1. IdleOp \in Op /\ NoRoute \in Route
    BY DEF IdleOp, Op, OpPCs, Some, NoRoute, Route
  <2> QED BY <1>1, <1>3, <2>1 DEF TypeOK
<1>5. \A k \in Keys : MuxOwner(reg, k) = None /\ LegacyOwner(reg, k) = None
  BY <1>1 DEF MuxOwner, LegacyOwner
<1>6. LockInv
  BY <1>3 DEF LockInv, IdleOp, Locked
<1> QED
  BY <1>2, <1>3, <1>4, <1>5, <1>6
  DEF RelayInv, ExclusiveOwner, RevokedOwnsNothing, HandlerInv, EjectedInv, RouteInv, IdleOp,
      NoRoute, At

\* Every step keeps the invariant, one lemma per action.
LEMMA NextKeeps ==
  ASSUME RelayInv, [Next]_vars PROVE RelayInv'
<1>0. Sound(reg)
  BY DEF RelayInv
<1>1. ASSUME NEW o \in Ops, NEW s \in Sockets, NEW k \in Keys,
             BeginJoin(o, s, k) \/ BeginSubscribe(o, s, k)
      PROVE  RelayInv'
  BY <1>1, BeginStep DEF BeginJoin, BeginSubscribe, Some
<1>2. ASSUME NEW o \in Ops, NEW s \in Sockets, BeginAuthenticate(o, s) PROVE RelayInv'
  BY <1>2, BeginStep DEF BeginAuthenticate, Some
<1>3. ASSUME NEW o \in Ops, OpStep(o) PROVE RelayInv'
  BY <1>3, AuthenticatedStep, VerifiedStep, RefusedStep, AcquireStep, AuthorizedStep,
     SelfReadStep, OwnerReadStep, FinalJoinStep, FinalSubscribeStep DEF OpStep
<1>4. ASSUME NEW s \in Sockets, NEW r \in Rooms, Unsubscribe(s, r) PROVE RelayInv'
  <2> DEFINE h == RemoveSubscription(reg, s, r)
  <2>1. SoundBut(h, None) /\ Shrinks(reg, h)
    BY <1>0, RemoveSubscriptionKeeps DEF Sound
  <2> HIDE DEF h
  <2>2. Sound(h) /\ Less(reg, h)
    BY <2>1, ShrinksIsLess DEF Sound
  <2>3. reg' = h
    BY <1>4 DEF Unsubscribe, h
  <2> QED BY <1>4, <2>2, <2>3, OutsideStep DEF Unsubscribe
<1>5. ASSUME NEW s \in Sockets, Drop(s) PROVE RelayInv'
  BY <1>0, <1>5, DisconnectLess, OutsideStep DEF Drop
<1>6. ASSUME NEW s \in Sockets, FoundInactive(s) PROVE RelayInv'
  BY <1>0, <1>6, InvalidateLess, OutsideStep DEF FoundInactive
<1>7. ASSUME NEW k \in Keys, LookUp(k) PROVE RelayInv'
  BY <1>0, <1>7, CleanKeeps, ShrinksIsLess, OutsideStep DEF LookUp
<1>8. ASSUME UNCHANGED vars PROVE RelayInv'
  BY <1>0, <1>8, LessReflexive, OutsideStep DEF vars
<1> QED
  BY <1>1, <1>2, <1>3, <1>4, <1>5, <1>6, <1>7, <1>8, SubmitStep, RevokeStep, EjectStep, DeliverStep
  DEF Next

\* RelayInv is inductive: registries, locks, handlers and messages stay
\* consistent whatever admissions, disconnections, revocations and lookups
\* overlap.
THEOREM RelayInvHolds == Spec => []RelayInv
<1>1. Init => RelayInv
  BY InitHolds
<1>2. RelayInv /\ [Next]_vars => RelayInv'
  BY NextKeeps
<1> QED BY <1>1, <1>2, PTL DEF Spec

\* Registries, queues, handlers and the message under way have their types.
THEOREM OwnershipTyped == Spec => []TypeOK
<1>1. RelayInv => TypeOK
  BY DEF RelayInv
<1> QED BY <1>1, RelayInvHolds, PTL

\* Delivery for a pair never has a legacy and a multiplexed owner at once, for
\* any number of devices, connections, rooms and handlers: a join releases the
\* multiplexed owner and a subscription the legacy one in the step that
\* installs it.
THEOREM OneOwner == Spec => []ExclusiveOwner
<1>1. RelayInv => ExclusiveOwner
  BY DEF RelayInv
<1> QED BY <1>1, RelayInvHolds, PTL

\* A revoked device that has been ejected owns no multiplexed delivery ever
\* again: a subscription that read it as active before the revocation finds its
\* socket closed.
THEOREM RevokedNeverOwns == Spec => []RevokedOwnsNothing
<1>1. RelayInv => RevokedOwnsNothing
  BY DEF RelayInv
<1> QED BY <1>1, RelayInvHolds, PTL

\* The subscriptions of the sockets and the map of room owners agree after
\* every removal, take-over and disconnection, and a connected socket with
\* subscriptions is its device's current one.
THEOREM RegistriesAgree == Spec => []Registered
<1>1. ASSUME RelayInv PROVE Registered
  <2>1. Sound(reg) /\ reg.open \subseteq Sockets
    BY <1>1 DEF RelayInv, TypeOK, Reg
  <2> QED BY <2>1, SocketFacts DEF Sound, SoundBut, Registered
<1> QED BY <1>1, RelayInvHolds, PTL

\* withRoomOwnershipLock: the queue of a pair holds handlers under way, each
\* once, and everybody past it is its first, so every way out of an admission
\* releases the lock.
THEOREM LockNeverStuck == Spec => []LockFollowsHandlers
<1>1. ASSUME RelayInv PROVE LockFollowsHandlers
  <2>1. LockInv /\ queue \in [Keys -> Seq(Ops)]
    BY <1>1 DEF RelayInv, TypeOK
  <2>2. ASSUME NEW o \in Ops, op[o].pc \in Locked PROVE Head(queue[op[o].key]) = o
    <3>1. op[o].key \in Keys
      BY <1>1, <2>2, InvFacts
    <3>2. 1 \in DOMAIN queue[op[o].key] /\ queue[op[o].key][1] = o
      BY <2>1, <2>2 DEF LockInv
    <3> QED BY <2>1, <3>1, <3>2
  <2> QED BY <2>1, <2>2 DEF LockInv, LockFollowsHandlers
<1> QED BY <1>1, RelayInvHolds, PTL

\* What a step does to the registries: it takes away, or it installs the
\* client or the subscription of a handler that reads its device as active.
LEMMA StepShape ==
  ASSUME RelayInv, [Next]_vars
  PROVE  \/ Less(reg, reg')
         \/ \E o \in Ops : /\ At(o, "final") /\ Is(o, "join")
                           /\ reg' = InstallJoin(reg, op[o].socket, op[o].key)
         \/ \E o \in Ops : /\ At(o, "final") /\ Is(o, "subscribe")
                           /\ ~WouldExceed(reg, op[o].key)
                           /\ reg' = InstallSubscription(reg, op[o].socket, op[o].key)
<1>0. Sound(reg) /\ Less(reg, reg) /\ reg \in Reg
  BY InvFacts
<1>1. ASSUME NEW o \in Ops, Authenticated(o) PROVE Less(reg, reg')
  <2> DEFINE s == op[o].socket
  <2>1. s \in Sockets
    BY <1>1, InvFacts DEF Authenticated, At
  <2>2. Less(reg, DisconnectOther([reg EXCEPT !.current[DeviceOf(s)] = s, !.generation = @ \cup {s}],
                                  reg.current[DeviceOf(s)], s))
    BY <1>0, <2>1, AuthenticatedKeeps
  <2>3. Less(reg, Disconnect(reg, s))
    BY <1>0, <2>1, DisconnectLess
  <2> QED BY <1>1, <2>2, <2>3 DEF Authenticated, Quit
<1>2. ASSUME NEW o \in Ops, Refused(o) PROVE Less(reg, reg')
  <2> DEFINE s == op[o].socket
  <2>1. s \in Sockets
    BY <1>2, InvFacts DEF Refused, At
  <2>2. Less(reg, Disconnect(reg, s)) /\ Less(reg, Invalidate(reg, s))
    BY <1>0, <2>1, DisconnectLess, InvalidateLess
  <2> QED BY <1>0, <1>2, <2>2 DEF Refused, Quit
<1>3. ASSUME NEW o \in Ops, NEW g, Sound(g), Less(reg, g), NEW todo, op[o].pc \in Locked,
             Proceed(o, g, todo)
      PROVE  Less(reg, reg')
  <2> DEFINE s == op[o].socket
  <2>1. s \in Sockets
    BY <1>3, InvFacts
  <2>2. Less(reg, Disconnect(g, s))
    BY <1>3, <2>1, DisconnectLess, LessTransitive
  <2>3. reg' = g \/ reg' = Disconnect(g, s)
    BY <1>3 DEF Proceed, Leave
  <2> QED BY <1>3, <2>2, <2>3
<1>4. ASSUME NEW o \in Ops, op[o].pc \in Locked, LookForOwners(o, reg) PROVE Less(reg, reg')
  <2>1. op[o].key \in Keys
    BY <1>4, InvFacts
  <2>2. Sound(Clean(reg, op[o].key)) /\ Less(reg, Clean(reg, op[o].key))
    BY <1>0, <2>1, CleanKeeps, ShrinksIsLess
  <2> QED BY <1>3, <1>4, <2>2 DEF LookForOwners
<1>5. ASSUME NEW o \in Ops, Authorized(o) \/ SelfRead(o) PROVE Less(reg, reg')
  <2>1. op[o].pc \in Locked
    BY <1>5 DEF Authorized, SelfRead, At, Locked
  <2>2. Less(reg, Disconnect(reg, op[o].socket))
    BY <1>0, <2>1, InvFacts, DisconnectLess
  <2> QED BY <1>0, <1>4, <1>5, <2>1, <2>2 DEF Authorized, SelfRead, Leave
<1>6. ASSUME NEW o \in Ops, OwnerRead(o) PROVE Less(reg, reg')
  <2> DEFINE t == Head(op[o].todo)
             h == ThrowOut(reg, op[o].key, t)
  <2>1. op[o].pc \in Locked /\ At(o, "owners")
    BY <1>6 DEF OwnerRead, At, Locked
  <2>2. op[o].key \in Keys /\ op[o].todo \in Seq(Sockets) /\ op[o].todo # <<>>
    BY <2>1, InvFacts DEF RelayInv, TypeOK, Op, HandlerInv, At, IdleOp
  <2>3. t \in Sockets
    BY <2>2
  <2>4. Sound(h) /\ Less(reg, h)
    BY <1>0, <2>2, <2>3, ThrowOutKeeps, ShrinksIsLess
  <2> HIDE DEF h
  <2>5. \/ Leave(o, reg) \/ Proceed(o, reg, Tail(op[o].todo)) \/ Proceed(o, h, Tail(op[o].todo))
    BY <1>6 DEF OwnerRead, h
  <2> QED BY <1>0, <1>3, <2>1, <2>4, <2>5 DEF Leave
<1>7. ASSUME NEW o \in Ops, FinalJoin(o)
      PROVE  Less(reg, reg') \/ reg' = InstallJoin(reg, op[o].socket, op[o].key)
  <2>1. op[o].pc \in Locked
    BY <1>7 DEF FinalJoin, At, Locked
  <2>2. Less(reg, Disconnect(reg, op[o].socket))
    BY <1>0, <2>1, InvFacts, DisconnectLess
  <2> QED BY <1>7, <2>2 DEF FinalJoin, Leave
<1>8. ASSUME NEW o \in Ops, FinalSubscribe(o)
      PROVE  \/ Less(reg, reg')
             \/ /\ ~WouldExceed(reg, op[o].key)
                /\ reg' = InstallSubscription(reg, op[o].socket, op[o].key)
  <2>1. op[o].pc \in Locked
    BY <1>8 DEF FinalSubscribe, At, Locked
  <2>2. Less(reg, Invalidate(reg, op[o].socket))
    BY <1>0, <2>1, InvFacts, InvalidateLess
  <2> QED BY <1>0, <1>8, <2>2 DEF FinalSubscribe, Leave
<1>9. ASSUME NEW s \in Sockets, NEW r \in Rooms, Unsubscribe(s, r) PROVE Less(reg, reg')
  <2> DEFINE h == RemoveSubscription(reg, s, r)
  <2>1. Shrinks(reg, h)
    BY <1>0, RemoveSubscriptionKeeps DEF Sound
  <2> HIDE DEF h
  <2> QED BY <1>9, <2>1, ShrinksIsLess DEF Unsubscribe, h
<1>10. ASSUME NEW s \in Sockets, Drop(s) \/ FoundInactive(s) PROVE Less(reg, reg')
  BY <1>0, <1>10, DisconnectLess, InvalidateLess DEF Drop, FoundInactive
<1>11. ASSUME NEW d \in Devices, Eject(d) PROVE Less(reg, reg')
  <2>1. reg.current[d] \in Some(Sockets)
    BY <1>0 DEF Reg
  <2> QED BY <1>0, <1>11, <2>1, InvalidateLess DEF Eject, Some
<1>12. ASSUME NEW k \in Keys, LookUp(k) PROVE Less(reg, reg')
  BY <1>0, <1>12, CleanKeeps, ShrinksIsLess DEF LookUp
<1>13. ASSUME Deliver PROVE Less(reg, reg')
  <2>1. route.to \in Sockets
    BY <1>13 DEF Deliver, RelayInv, RouteInv
  <2> QED BY <1>0, <1>13, <2>1, DisconnectLess DEF Deliver
<1>14. ASSUME reg' = reg PROVE Less(reg, reg')
  BY <1>0, <1>14
<1>15. ASSUME NEW o \in Ops, OpStep(o)
       PROVE  \/ Less(reg, reg')
              \/ FinalJoin(o) /\ reg' = InstallJoin(reg, op[o].socket, op[o].key)
              \/ /\ FinalSubscribe(o) /\ ~WouldExceed(reg, op[o].key)
                 /\ reg' = InstallSubscription(reg, op[o].socket, op[o].key)
  <2>1. Verified(o) \/ Acquire(o) => reg' = reg
    BY DEF Verified, Acquire
  <2> QED BY <1>1, <1>2, <1>5, <1>6, <1>7, <1>8, <1>14, <1>15, <2>1 DEF OpStep
<1>16. ASSUME NEW o \in Ops, NEW s \in Sockets, NEW k \in Keys,
              BeginJoin(o, s, k) \/ BeginSubscribe(o, s, k) \/ BeginAuthenticate(o, s)
       PROVE  reg' = reg
  BY <1>16 DEF BeginJoin, BeginSubscribe, BeginAuthenticate, Begin
<1>17. ASSUME NEW o \in Ops, NEW s \in Sockets, BeginAuthenticate(o, s) PROVE reg' = reg
  BY <1>17 DEF BeginAuthenticate, Begin
<1>18. ASSUME NEW s \in Sockets, Submit(s) PROVE reg' = reg
  BY <1>18 DEF Submit
<1>19. ASSUME NEW d \in Devices, Revoke(d) PROVE reg' = reg
  BY <1>19 DEF Revoke
<1>20. UNCHANGED vars => reg' = reg
  BY DEF vars
<1> QED
  BY <1>9, <1>10, <1>11, <1>12, <1>13, <1>14, <1>15, <1>16, <1>17, <1>18, <1>19, <1>20
  DEF Next, FinalJoin, FinalSubscribe

\* An owner that is not replaced by nobody stays the same one.
LEMMA OwnerKept ==
  ASSUME ExclusiveOwner, NEW h, NEW k \in Keys,
         MuxOwner(h, k) \in {MuxOwner(reg, k), None},
         LegacyOwner(h, k) \in {LegacyOwner(reg, k), None}
  PROVE  Owner(h, k) \in {Owner(reg, k), None}
BY DEF Owner, ExclusiveOwner

\* A live owner is displaced only by its own device: between the read of the
\* owners and the installation other handlers of the pair wait for the lock,
\* and everything else only takes owners away.
THEOREM TakenOverByOwnDevice == Spec => OnlyOwnDeviceTakesOver
<1> DEFINE Kept == \A k \in Keys : Owner(reg, k) # None /\ Owner(reg', k) # None
                      => DeviceOf(Owner(reg, k)) = DeviceOf(Owner(reg', k))
<1>1. ASSUME RelayInv, [Next]_vars PROVE Kept
  <2>0. Sound(reg) /\ ExclusiveOwner
    BY <1>1 DEF RelayInv
  <2>1. CASE Less(reg, reg')
    BY <2>0, <2>1, OwnerKept DEF Less
  <2>2. ASSUME NEW o \in Ops, At(o, "final"), LessBut(reg, reg', op[o].key),
               Owner(reg', op[o].key) \in {op[o].socket, None}
        PROVE  Kept
    <3>1. SUFFICES ASSUME NEW k \in Keys, Owner(reg, k) # None, Owner(reg', k) # None
          PROVE  DeviceOf(Owner(reg, k)) = DeviceOf(Owner(reg', k))
      OBVIOUS
    <3>2. CASE k = op[o].key
      <4>1. CheckedInv(o)
        BY <1>1, <2>2 DEF RelayInv
      <4>2. Owner(reg, k) \in {MuxOwner(reg, k), LegacyOwner(reg, k)} \ {None}
        BY <3>1 DEF Owner
      <4>3. DeviceOf(Owner(reg, k)) = DeviceOf(op[o].socket)
        BY <2>2, <3>2, <4>1, <4>2 DEF CheckedInv
      <4> QED BY <2>2, <3>1, <3>2, <4>3
    <3>3. CASE k # op[o].key
      BY <2>0, <2>2, <3>1, <3>3, OwnerKept DEF LessBut
    <3> QED BY <3>2, <3>3
  <2>3. ASSUME NEW o \in Ops, At(o, "final"), Is(o, "join"),
               reg' = InstallJoin(reg, op[o].socket, op[o].key)
        PROVE  Kept
    <3>1. op[o].socket \in Sockets /\ op[o].key \in Keys
      BY <1>1, <2>3, InvFacts DEF At, Locked
    <3>2. /\ LessBut(reg, reg', op[o].key) /\ MuxOwner(reg', op[o].key) = None
          /\ LegacyOwner(reg', op[o].key) \in {op[o].socket, None}
      BY <2>0, <2>3, <3>1, InstallJoinKeeps
    <3> QED BY <2>2, <2>3, <3>2 DEF Owner
  <2>4. ASSUME NEW o \in Ops, At(o, "final"), Is(o, "subscribe"),
               reg' = InstallSubscription(reg, op[o].socket, op[o].key)
        PROVE  Kept
    <3>1. op[o].socket \in Sockets /\ op[o].key \in Keys
          /\ (op[o].socket \in reg.open => op[o].socket \in reg.generation)
      BY <1>1, <2>4, InvFacts DEF At, Is, Locked, RelayInv, HandlerInv, IdleOp
    <3>2. /\ LessBut(reg, reg', op[o].key) /\ LegacyOwner(reg', op[o].key) = None
          /\ MuxOwner(reg', op[o].key) \in {op[o].socket, None}
      BY <2>0, <2>4, <3>1, InstallSubscriptionKeeps
    <3> QED BY <2>2, <2>4, <3>2 DEF Owner
  <2> QED BY <1>1, <2>1, <2>3, <2>4, StepShape
<1>2. ASSUME RelayInv, [Next]_vars PROVE [Kept]_vars
  BY <1>1, <1>2
<1> QED BY <1>2, RelayInvHolds, PTL DEF Spec, OnlyOwnDeviceTakesOver

\* The routes of a room are finitely many addresses.
LEMMA RoutesFinite ==
  ASSUME NEW g, NEW r PROVE IsFiniteSet(Routes(g, r)) /\ Cardinality(Routes(g, r)) \in Nat
<1>1. Routes(g, r) \subseteq Addresses
  BY DEF Routes
<1> QED BY <1>1, OwnershipBounds, FS_Subset, FS_CardinalityType

\* A step that adds a subscription has looked at the capacity of the room in
\* the same step (muxWouldExceedChannelCapacity).
LEMMA NeverOverfills ==
  ASSUME RelayInv, [Next]_vars PROVE MuxNeverOverfills
<1>0. Sound(reg)
  BY DEF RelayInv
<1>1. CASE Less(reg, reg')
  BY <1>1 DEF Less, MuxNeverOverfills
<1>2. ASSUME NEW o \in Ops, At(o, "final"), reg' = InstallJoin(reg, op[o].socket, op[o].key)
      PROVE  MuxNeverOverfills
  <2>1. op[o].socket \in Sockets /\ op[o].key \in Keys
    BY <1>2, InvFacts DEF At, Locked
  <2>2. LessBut(reg, reg', op[o].key) /\ reg'.muxRooms[op[o].key] = None
    BY <1>0, <1>2, <2>1, InstallJoinKeeps
  <2> QED BY <2>2 DEF LessBut, MuxNeverOverfills
<1>3. ASSUME NEW o \in Ops, At(o, "final"), Is(o, "subscribe"), ~WouldExceed(reg, op[o].key),
             reg' = InstallSubscription(reg, op[o].socket, op[o].key)
      PROVE  MuxNeverOverfills
  <2> DEFINE k == op[o].key
             R == Routes(reg, RoomOf(k))
             S == Routes(reg', RoomOf(k))
  <2>1. op[o].socket \in Sockets /\ k \in Keys
        /\ (op[o].socket \in reg.open => op[o].socket \in reg.generation)
    BY <1>3, InvFacts DEF At, Is, Locked, RelayInv, HandlerInv, IdleOp
  <2>2. LessBut(reg, reg', k)
    BY <1>0, <1>3, <2>1, InstallSubscriptionKeeps
  <2>3. ASSUME NEW l \in Keys, reg.muxRooms[l] = None, reg'.muxRooms[l] # None PROVE l = k
    BY <2>2, <2>3 DEF LessBut
  <2>4. S \subseteq R \cup {AddressOf(k)}
    <3>1. ASSUME NEW a \in S, a # AddressOf(k) PROVE a \in R
      <4>1. <<RoomOf(k), a>> \in Keys \ {k}
        BY <2>1, <3>1, KeyFacts DEF Routes
      <4> QED BY <2>2, <3>1, <4>1 DEF LessBut, Routes
    <3> QED BY <3>1
  <2>5. ASSUME AddressOf(k) \notin R PROVE Cardinality(S) <= Capacity
    <3>1. Cardinality(R) \in Nat /\ IsFiniteSet(R) /\ Cardinality(S) \in Nat /\ Capacity \in Nat
      BY RoutesFinite, OwnershipBounds
    <3>2. Cardinality(R) < Capacity
      BY <1>3, <2>5, <3>1 DEF WouldExceed
    <3>3. IsFiniteSet(R \cup {AddressOf(k)})
          /\ Cardinality(R \cup {AddressOf(k)}) = Cardinality(R) + 1
      BY <2>5, <3>1, FS_AddElement
    <3>4. Cardinality(S) <= Cardinality(R \cup {AddressOf(k)})
      BY <2>4, <3>3, FS_Subset
    <3> QED BY <3>1, <3>2, <3>3, <3>4
  <2> QED BY <2>3, <2>5 DEF MuxNeverOverfills
<1> QED BY <1>1, <1>2, <1>3, StepShape

\* Every device may use one pair: its sockets stay in one room.
OnePair == \A e, f \in Entitled : e[1] = f[1] => e = f

May(s, k) == <<DeviceOf(s), k>> \in Entitled

\* Handlers, clients, joined rooms and the message under way follow what the
\* devices may use.
EntitledInv ==
  /\ \A o \in Ops : Is(o, "join") /\ ~At(o, "idle") => May(op[o].socket, op[o].key)
  /\ \A s \in Sockets : reg.joined[s] # None => May(s, reg.joined[s])
  /\ \A k \in Keys : reg.clients[k] # None => May(reg.clients[k], k)
  /\ route.state = "found" =>
        \E k, l \in Keys : /\ May(route.from, k) /\ May(route.to, l) /\ k # l
                           /\ RoomOf(l) = route.room

\* At first nobody has joined anything.
LEMMA EntitledInit ==
  ASSUME Init PROVE EntitledInv
<1>1. /\ op = [o \in Ops |-> IdleOp] /\ route = NoRoute
      /\ reg.joined = [s \in Sockets |-> None] /\ reg.clients = [k \in Keys |-> None]
  BY DEF Init
<1> QED BY <1>1 DEF EntitledInv, IdleOp, NoRoute, At

\* Handlers keep their socket and pair; a join begins with a pair its device
\* may use.
LEMMA HandlersEntitled ==
  ASSUME RelayInv, [Next]_vars, EntitledInv, NEW o \in Ops, (Is(o, "join") /\ ~At(o, "idle"))'
  PROVE  May(op'[o].socket, op'[o].key)
<1> DEFINE Same(p) == /\ op'[p].pc = "idle" \/ op[p].pc # "idle"
                      /\ op'[p].pc # "idle" => op'[p].socket = op[p].socket
                                               /\ op'[p].key = op[p].key /\ op'[p].kind = op[p].kind
           May2(p) == op'[p].kind = "join" => May(op'[p].socket, op'[p].key)
<1>0. op \in [Ops -> Op]
  BY DEF RelayInv, TypeOK
<1>1. ASSUME NEW p \in Ops, NEW s \in Sockets, NEW k \in Keys,
             BeginJoin(p, s, k) \/ BeginSubscribe(p, s, k)
      PROVE  Same(o) \/ May2(o)
  BY <1>0, <1>1 DEF BeginJoin, BeginSubscribe, Begin, May
<1>2. ASSUME NEW p \in Ops, NEW s \in Sockets, BeginAuthenticate(p, s) PROVE Same(o) \/ May2(o)
  BY <1>0, <1>2 DEF BeginAuthenticate, Begin
<1>3. ASSUME NEW p \in Ops, OpStep(p) PROVE Same(o)
  <2>1. op[p].pc # "idle" /\ op[p] \in Op
    BY <1>0, <1>3 DEF OpStep, Authenticated, Verified, Refused, Acquire, Authorized, SelfRead,
       OwnerRead, FinalJoin, FinalSubscribe, At
  <2>2. ASSUME NEW pc \in OpPCs, Wait(p, pc) PROVE Same(o)
    BY <1>0, <2>1, <2>2 DEF Wait, Op
  <2>3. ASSUME NEW pc \in OpPCs, NEW todo, NEW x, Suspend(p, pc, todo, x) PROVE Same(o)
    BY <1>0, <2>1, <2>3 DEF Suspend, Op
  <2>4. ASSUME NEW h, Leave(p, h) PROVE Same(o)
    BY <1>0, <2>1, <2>4 DEF Leave, IdleOp
  <2>5. ASSUME NEW h, Quit(p, h) PROVE Same(o)
    BY <1>0, <2>1, <2>5 DEF Quit, IdleOp
  <2>6. ASSUME NEW h, NEW todo, Proceed(p, h, todo) PROVE Same(o)
    <3>1. "owners" \in OpPCs /\ "final" \in OpPCs
      BY DEF OpPCs
    <3> HIDE DEF Same
    <3> QED BY <2>3, <2>4, <2>6, <3>1 DEF Proceed
  <2>7. "lock" \in OpPCs /\ "control" \in OpPCs /\ "self" \in OpPCs
    BY DEF OpPCs
  <2> HIDE DEF Same
  <2>8. Authenticated(p) \/ Refused(p) => Same(o)
    BY <2>5 DEF Authenticated, Refused
  <2>9. Verified(p) \/ Acquire(p) => Same(o)
    BY <2>2, <2>7 DEF Verified, Acquire
  <2>10. Authorized(p) \/ SelfRead(p) => Same(o)
    BY <2>3, <2>4, <2>6, <2>7 DEF Authorized, SelfRead, LookForOwners
  <2>11. OwnerRead(p) => Same(o)
    BY <2>4, <2>6 DEF OwnerRead
  <2>12. FinalJoin(p) \/ FinalSubscribe(p) => Same(o)
    BY <2>4 DEF FinalJoin, FinalSubscribe
  <2> QED BY <1>3, <2>8, <2>9, <2>10, <2>11, <2>12 DEF OpStep
<1>4. ASSUME op' = op PROVE Same(o)
  BY <1>4
<1>5. ASSUME NEW s \in Sockets, NEW r \in Rooms, Unsubscribe(s, r) PROVE op' = op
  BY <1>5 DEF Unsubscribe
<1>6. ASSUME NEW s \in Sockets, Drop(s) \/ FoundInactive(s) \/ Submit(s) PROVE op' = op
  BY <1>6 DEF Drop, FoundInactive, Submit
<1>7. ASSUME NEW d \in Devices, Revoke(d) \/ Eject(d) PROVE op' = op
  BY <1>7 DEF Revoke, Eject
<1>8. ASSUME NEW k \in Keys, LookUp(k) PROVE op' = op
  BY <1>8 DEF LookUp
<1>9. Deliver \/ UNCHANGED vars => op' = op
  BY DEF Deliver, vars
<1>10. Same(o) \/ May2(o)
  <2> HIDE DEF Same, May2
  <2> QED BY <1>1, <1>2, <1>3, <1>4, <1>5, <1>6, <1>7, <1>8, <1>9 DEF Next
<1> QED BY <1>10 DEF EntitledInv, At, Is

\* The message under way goes from one pair's client to another's.
LEMMA RouteEntitled ==
  ASSUME RelayInv, EntitledInv, NEW s \in Sockets, Submit(s), route'.state = "found"
  PROVE  \E k, l \in Keys : /\ May(route'.from, k) /\ May(route'.to, l) /\ k # l
                            /\ RoomOf(l) = route'.room
<1> DEFINE k == reg.joined[s]
           r == RoomOf(k)
           peers == {a \in Addresses \ {AddressOf(k)} : reg.clients[<<r, a>>] # None}
<1>1. k \in Keys /\ May(s, k) /\ reg \in Reg
  BY InvFacts DEF Submit, CurrentLegacyOwner, EntitledInv, Reg, Some
<1>2. PICK a \in peers : route' = [state |-> "found", room |-> r, from |-> s, to |-> reg.clients[<<r, a>>]]
  BY DEF Submit
<1>3. <<r, a>> \in Keys /\ RoomOf(<<r, a>>) = r /\ AddressOf(<<r, a>>) = a /\ a # AddressOf(k)
  BY <1>1, KeyFacts
<1>4. May(reg.clients[<<r, a>>], <<r, a>>)
  BY <1>3 DEF EntitledInv
<1> QED BY <1>1, <1>2, <1>3, <1>4

\* Clients and joined rooms come from joins only, and joins begin with a pair
\* the device proved.
LEMMA EntitledKept ==
  ASSUME RelayInv, [Next]_vars, EntitledInv PROVE EntitledInv'
<1>0. Sound(reg) /\ reg.joined \in [Sockets -> Some(Keys)]
  BY DEF RelayInv, Sound, SoundBut, Reg
<1>1. ASSUME NEW o \in Ops, (Is(o, "join") /\ ~At(o, "idle"))'
      PROVE  May(op'[o].socket, op'[o].key)
  BY <1>1, HandlersEntitled
<1> DEFINE Tables == /\ \A s \in Sockets : reg'.joined[s] # None => May(s, reg'.joined[s])
                     /\ \A k \in Keys : reg'.clients[k] # None => May(reg'.clients[k], k)
           Message == route'.state = "found" =>
                        \E k, l \in Keys : /\ May(route'.from, k) /\ May(route'.to, l) /\ k # l
                                           /\ RoomOf(l) = route'.room
<1>2. Tables
  <2>1. CASE Less(reg, reg')
    BY <2>1 DEF EntitledInv, Less
  <2>2. ASSUME NEW o \in Ops, At(o, "final"), Is(o, "join"),
               reg' = InstallJoin(reg, op[o].socket, op[o].key)
        PROVE  Tables
    <3>1. op[o].socket \in Sockets /\ op[o].key \in Keys
      BY <2>2, InvFacts DEF At, Locked
    <3>2. May(op[o].socket, op[o].key)
      BY <2>2 DEF EntitledInv, At
    <3>3. /\ LessBut(reg, reg', op[o].key) /\ reg'.clients[op[o].key] \in {op[o].socket, None}
          /\ \A t \in Sockets : \/ reg'.joined[t] = reg.joined[t]
                                \/ t = op[o].socket /\ reg'.joined[t] = op[o].key
      BY <1>0, <2>2, <3>1, InstallJoinKeeps
    <3> QED BY <3>1, <3>2, <3>3 DEF EntitledInv, LessBut
  <2>3. ASSUME NEW o \in Ops, At(o, "final"), Is(o, "subscribe"),
               reg' = InstallSubscription(reg, op[o].socket, op[o].key)
        PROVE  Tables
    <3>1. op[o].socket \in Sockets /\ op[o].key \in Keys
          /\ (op[o].socket \in reg.open => op[o].socket \in reg.generation)
      BY <2>3, InvFacts DEF At, Is, Locked, RelayInv, HandlerInv, IdleOp
    <3>2. LessBut(reg, reg', op[o].key) /\ reg'.clients[op[o].key] = None /\ reg'.joined = reg.joined
      BY <1>0, <2>3, <3>1, InstallSubscriptionKeeps
    <3> QED BY <3>1, <3>2 DEF EntitledInv, LessBut
  <2> QED BY <2>1, <2>2, <2>3, StepShape
<1>3. Message
  <2>1. route' = route => Message
    BY DEF EntitledInv
  <2>2. Deliver => route'.state # "found"
    <3>1. route \in Route
      BY DEF RelayInv, TypeOK
    <3> QED BY <3>1 DEF Deliver, Route
  <2>3. ASSUME NEW s \in Sockets, Submit(s) PROVE Message
    BY <2>3, RouteEntitled
  <2>4. ASSUME NEW o \in Ops, OpStep(o) PROVE route' = route
    BY <2>4 DEF OpStep, Authenticated, Verified, Refused, Acquire, Authorized, SelfRead,
       OwnerRead, FinalJoin, FinalSubscribe
  <2>5. ASSUME NEW o \in Ops, NEW s \in Sockets, NEW k \in Keys,
               BeginJoin(o, s, k) \/ BeginSubscribe(o, s, k)
        PROVE  route' = route
    BY <2>5 DEF BeginJoin, BeginSubscribe, Begin
  <2>6. ASSUME NEW o \in Ops, NEW s \in Sockets, BeginAuthenticate(o, s) PROVE route' = route
    BY <2>6 DEF BeginAuthenticate, Begin
  <2>7. ASSUME NEW s \in Sockets, Drop(s) \/ FoundInactive(s) PROVE route' = route
    BY <2>7 DEF Drop, FoundInactive
  <2>8. ASSUME NEW s \in Sockets, NEW r \in Rooms, Unsubscribe(s, r) PROVE route' = route
    BY <2>8 DEF Unsubscribe
  <2>9. ASSUME NEW d \in Devices, Revoke(d) \/ Eject(d) PROVE route' = route
    BY <2>9 DEF Revoke, Eject
  <2>10. ASSUME NEW k \in Keys, LookUp(k) PROVE route' = route
    BY <2>10 DEF LookUp
  <2>11. UNCHANGED vars => route' = route
    BY DEF vars
  <2> QED BY <2>1, <2>2, <2>3, <2>4, <2>5, <2>6, <2>7, <2>8, <2>9, <2>10, <2>11 DEF Next
<1> QED BY <1>1, <1>2, <1>3 DEF EntitledInv

\* The receiver of a chat-message is joined to the pair it was found at, which
\* is not the sender's.
LEMMA ReachesOwner ==
  ASSUME OnePair, RelayInv, [Next]_vars, EntitledInv PROVE LiveReachesOwner
<1> SUFFICES ASSUME route'.state = "sent", route.state # "sent"
    PROVE  \E k \in Keys : /\ RoomOf(k) = route'.room /\ route'.to # route'.from
                           /\ LegacyOwner(reg, k) = route'.to
  BY DEF LiveReachesOwner
<1>0. route \in Route
  BY DEF RelayInv, TypeOK
<1>1. Deliver
  <2>1. ASSUME NEW o \in Ops, OpStep(o) PROVE route' = route
    BY <2>1 DEF OpStep, Authenticated, Verified, Refused, Acquire, Authorized, SelfRead,
       OwnerRead, FinalJoin, FinalSubscribe
  <2>2. ASSUME NEW o \in Ops, NEW s \in Sockets, NEW k \in Keys,
               BeginJoin(o, s, k) \/ BeginSubscribe(o, s, k)
        PROVE  route' = route
    BY <2>2 DEF BeginJoin, BeginSubscribe, Begin
  <2>3. ASSUME NEW o \in Ops, NEW s \in Sockets, BeginAuthenticate(o, s) PROVE route' = route
    BY <2>3 DEF BeginAuthenticate, Begin
  <2>4. ASSUME NEW s \in Sockets, Drop(s) \/ FoundInactive(s) PROVE route' = route
    BY <2>4 DEF Drop, FoundInactive
  <2>5. ASSUME NEW s \in Sockets, NEW r \in Rooms, Unsubscribe(s, r) PROVE route' = route
    BY <2>5 DEF Unsubscribe
  <2>6. ASSUME NEW d \in Devices, Revoke(d) \/ Eject(d) PROVE route' = route
    BY <2>6 DEF Revoke, Eject
  <2>7. ASSUME NEW k \in Keys, LookUp(k) PROVE route' = route
    BY <2>7 DEF LookUp
  <2>8. UNCHANGED vars => route' = route
    BY DEF vars
  <2>9. ASSUME NEW s \in Sockets, Submit(s) PROVE route'.state # "sent"
    <3> DEFINE Client(a) == reg.clients[<<RoomOf(reg.joined[s]), a>>]
               Routed(state, t) == [state |-> state, room |-> RoomOf(reg.joined[s]),
                                    from |-> s, to |-> t]
    <3>1. \A state, t : Routed(state, t).state = state
      OBVIOUS
    <3>2. \/ route' = Routed("stored", None)
          \/ \E a \in Addresses : route' = IF Client(a) \in reg.open
                                          THEN Routed("found", Client(a))
                                          ELSE Routed("unavailable", Client(a))
      BY <2>9 DEF Submit
    <3> HIDE DEF Routed, Client
    <3> QED BY <3>1, <3>2
  <2> QED BY <2>1, <2>2, <2>3, <2>4, <2>5, <2>6, <2>7, <2>8, <2>9 DEF Next
<1> DEFINE t == route.to
<1>2. /\ route.state = "found" /\ CurrentLegacyOwner(reg, t)
      /\ route' = [route EXCEPT !.state = "sent"]
  BY <1>0, <1>1 DEF Deliver, Route
<1>3. route'.to = t /\ route'.from = route.from /\ route'.room = route.room
  BY <1>0, <1>2 DEF Route
<1>4. PICK k, l \in Keys : May(route.from, k) /\ May(t, l) /\ k # l /\ RoomOf(l) = route.room
  BY <1>2 DEF EntitledInv
<1>5. t \in Sockets /\ reg.joined[t] # None
  BY <1>2 DEF RelayInv, RouteInv, CurrentLegacyOwner
<1>6. May(t, reg.joined[t])
  BY <1>5 DEF EntitledInv
<1>7. reg.joined[t] = l
  BY <1>4, <1>6 DEF May, OnePair
<1>8. t # route.from
  BY <1>4 DEF May, OnePair
<1>9. LegacyOwner(reg, l) = t
  BY <1>2, <1>5, <1>7, SocketFacts DEF LegacyOwner, CurrentLegacyOwner
<1> QED BY <1>3, <1>4, <1>8, <1>9

\* A multiplexed subscription never takes a room beyond its capacity, whatever
\* other admissions to the room are under way.
THEOREM RoomNeverOverfilled == Spec => [][MuxNeverOverfills]_vars
<1>1. ASSUME RelayInv, [Next]_vars PROVE [MuxNeverOverfills]_vars
  BY <1>1, NeverOverfills
<1> QED BY <1>1, RelayInvHolds, PTL DEF Spec

\* If every device can prove one pair only, a live envelope reaches an owner of
\* another address of the sender's room, although the receiver was chosen
\* before an await; and no subscription overfills a room.
THEOREM RoomHeld == OnePair /\ Spec => RoomHolds
<1> SUFFICES ASSUME OnePair PROVE Spec => RoomHolds
  OBVIOUS
<1>1. Init => EntitledInv
  BY EntitledInit
<1>2. RelayInv /\ EntitledInv /\ [Next]_vars => EntitledInv'
  BY EntitledKept
<1>3. Spec => []EntitledInv
  BY <1>1, <1>2, RelayInvHolds, PTL DEF Spec
<1>4. RelayInv /\ EntitledInv /\ [Next]_vars => [MuxNeverOverfills /\ LiveReachesOwner]_vars
  BY NeverOverfills, ReachesOwner
<1> QED BY <1>3, <1>4, RelayInvHolds, PTL DEF Spec, RoomHolds
=============================================================================
