------------------------------ MODULE RoomRecord ------------------------------
(* One room of the relay's database: its invitation, the key bundles that    *)
(* its two members publish under an address each, and the owners bound to    *)
(* these addresses.  HTTP handlers run concurrently; a read and the checks   *)
(* on it are one step, a write or the commit of a transaction another.  A    *)
(* transaction reads a snapshot, and its commit fails when the room or the   *)
(* device that it writes was written in between.                             *)
(*                                                                           *)
(* A device stands for its identity, account and verification key; an        *)
(* address is the number of its reservation; the proof of an address is      *)
(* known to the device that published it.                                    *)
EXTENDS Naturals, Sequences, FiniteSets

CONSTANTS
    RoomDevices,    \* the devices that hold the room's capability
    RoomRequests,   \* bound: handlers at work at a time
    MaxChanges      \* bound: changes of a device and switches of durable routing

ASSUME RoomAssumption == MaxChanges \in Nat

VARIABLES
    room,           \* the room's document
    bundles,        \* per address: the published bundle
    registry,       \* per device: its document in the lifecycle collection
    requests,       \* per handler: its request and what it has read
    withdrawn,      \* a pending-only revocation has succeeded
    durable,        \* K3NCRYPT_DURABLE_ROUTING
    roomChanges

roomVars == <<room, bundles, registry, requests, withdrawn, durable, roomChanges>>

Slots      == 2
RoomAddresses == 1 .. Slots
Owner      == [address : RoomAddresses, device : RoomDevices, epoch : 0 .. 1,
               active : BOOLEAN, generation : 1 .. 2]
NoBundle   == [stored |-> FALSE, identity |-> FALSE, proof |-> FALSE, fresh |-> FALSE]
Bundle     == [stored : {TRUE}, identity : RoomDevices, proof : RoomDevices,
               fresh : BOOLEAN]
IdleRequest == [kind |-> "idle", device |-> FALSE, address |-> 0, identity |-> FALSE,
                epoch |-> 0, generation |-> 0, stale |-> FALSE]
Kinds      == {"publish", "renew", "adopt", "restock", "revoke", "identity"}
Transactions == {"adopt", "restock", "revoke"}

(* A new link: a day to use the invitation, no publication yet.              *)
RoomInit ==
    /\ room = [deleted |-> FALSE, invitation |-> TRUE, publications |-> 0,
               owners |-> <<>>]
    /\ bundles = [a \in RoomAddresses |-> NoBundle]
    /\ registry = [d \in RoomDevices |-> [active |-> TRUE, epoch |-> 0]]
    /\ requests = [q \in RoomRequests |-> IdleRequest]
    /\ withdrawn = FALSE
    /\ durable = TRUE
    /\ roomChanges = 0

(******************************* The owners **********************************)
OwnersOf(a)  == {i \in DOMAIN room.owners : room.owners[i].address = a}
HasOwner(a)  == OwnersOf(a) # {}
OwnerOf(a)   == room.owners[CHOOSE i \in OwnersOf(a) : TRUE]
Matches(o, d, e) == /\ registry[d].active
                    /\ o.device = d /\ o.epoch = e /\ registry[d].epoch = e

(* The owner as one snapshot of room, owner and device shows it.             *)
Current(a) ==
    /\ ~room.deleted /\ HasOwner(a)
    /\ OwnerOf(a).active
    /\ Matches(OwnerOf(a), OwnerOf(a).device, OwnerOf(a).epoch)

Proves(d, a) == bundles[a].stored /\ bundles[a].proof = d
OwnsProof(d, a) == HasOwner(a) /\ OwnerOf(a).device = d

(* An owner, a revoked one too, overrides the bundle.  A room that has had   *)
(* owners is not served from bundles while durable routing is off.           *)
AuthorizeCurrentRouting(a, d) ==
    IF HasOwner(a)
    THEN Current(a) /\ OwnsProof(d, a) /\ durable
    ELSE /\ durable \/ room.owners = <<>>
         /\ Proves(d, a) /\ bundles[a].fresh

(****************************** The handlers *********************************)
RoomIdle(q)     == requests[q].kind = "idle"
Doing(q, k) == requests[q].kind = k
Answered(q) == [requests EXCEPT ![q] = IdleRequest]
RoomAsked(q, k, d, a) == [IdleRequest EXCEPT !.kind = k, !.device = d, !.address = a,
                                         !.epoch = registry[d].epoch]

(* A write to the room fails the transactions that have read it and would    *)
(* write it too.                                                             *)
RoomWritten(rs) == [q \in RoomRequests |->
    IF rs[q].kind \in Transactions THEN [rs[q] EXCEPT !.stale = TRUE] ELSE rs[q]]

(* Variant for testing RoomCorrect: a transaction misses the change of its     *)
(* device.                                                                   *)
DeviceUnfenced(rs, d) == rs

(* So does a write to the device that a transaction fences (fenceDevice).      *)
DeviceWritten(rs, d) == [q \in RoomRequests |->
    IF rs[q].kind \in Transactions /\ rs[q].device = d
    THEN [rs[q] EXCEPT !.stale = TRUE] ELSE rs[q]]

(* The invitation admits its creator and one joining peer.                   *)
ReserveInvitationPublication(q, d) ==
    /\ RoomIdle(q)
    /\ ~room.deleted /\ room.invitation /\ room.publications < Slots
    /\ room' = [room EXCEPT !.publications = @ + 1]
    /\ requests' = RoomWritten([requests EXCEPT ![q] =
           RoomAsked(q, "publish", d, room.publications + 1)])
    /\ UNCHANGED <<bundles, registry, withdrawn, durable, roomChanges>>

InsertBundle(q) ==
    /\ Doing(q, "publish")
    /\ bundles' = [bundles EXCEPT ![requests[q].address] =
           [stored |-> TRUE, identity |-> requests[q].device,
            proof |-> requests[q].device, fresh |-> TRUE]]
    /\ requests' = Answered(q)
    /\ UNCHANGED <<room, registry, withdrawn, durable, roomChanges>>

(* The renewal of the first protocol: checks, then an update of whatever     *)
(* bundle is there.                                                          *)
AskRenewal(q, d, a, b) ==
    /\ RoomIdle(q)
    /\ ~room.deleted
    /\ HasOwner(a) => AuthorizeCurrentRouting(a, d) /\ bundles[a].fresh
    /\ Proves(d, a) /\ bundles[a].identity = b
    /\ requests' = [requests EXCEPT ![q] =
           [RoomAsked(q, "renew", d, a) EXCEPT !.identity = b]]
    /\ UNCHANGED <<room, bundles, registry, withdrawn, durable, roomChanges>>

RenewRoomBundle(q) ==
    LET a == requests[q].address IN
    /\ Doing(q, "renew")
    /\ bundles' = IF bundles[a].stored
                  THEN [bundles EXCEPT ![a].identity = requests[q].identity,
                                       ![a].fresh = TRUE]
                  ELSE bundles
    /\ requests' = Answered(q)
    /\ UNCHANGED <<room, registry, withdrawn, durable, roomChanges>>

(************************** Authenticated requests ***************************)
(* Every one of them presents a device proof, which an active device has,    *)
(* and binds the caller to its address first: the owner must match, or the   *)
(* address is adopted.                                                       *)
Bound(d, a) == Current(a) /\ Matches(OwnerOf(a), d, registry[d].epoch)

Admitted(q, d, a) == RoomIdle(q) /\ durable /\ ~room.deleted /\ registry[d].active

AskAdoption(q, d, a) ==
    /\ Admitted(q, d, a)
    /\ ~HasOwner(a)
    /\ Len(room.owners) < Slots
    /\ Proves(d, a) /\ bundles[a].fresh /\ bundles[a].identity = d
    /\ requests' = [requests EXCEPT ![q] = RoomAsked(q, "adopt", d, a)]
    /\ UNCHANGED <<room, bundles, registry, withdrawn, durable, roomChanges>>

AskRestock(q, d, a, b) ==
    /\ Admitted(q, d, a) /\ Bound(d, a)
    /\ OwnerOf(a).device = b
    /\ requests' = [requests EXCEPT ![q] =
           [RoomAsked(q, "restock", d, a) EXCEPT !.identity = b]]
    /\ UNCHANGED <<room, bundles, registry, withdrawn, durable, roomChanges>>

AskRevocation(q, d, a) ==
    /\ Admitted(q, d, a) /\ Bound(d, a)
    /\ requests' = [requests EXCEPT ![q] = RoomAsked(q, "revoke", d, a)]
    /\ UNCHANGED <<room, bundles, registry, withdrawn, durable, roomChanges>>

(* The transaction's writes: the device's fence, the room, the bundle.       *)
Commits(q, k) ==
    /\ Doing(q, k) /\ ~requests[q].stale
    /\ requests' = RoomWritten(DeviceWritten(Answered(q), requests[q].device))

Adopt(q) ==
    /\ Commits(q, "adopt")
    /\ room' = [room EXCEPT !.owners = Append(@,
           [address |-> requests[q].address, device |-> requests[q].device,
            epoch |-> requests[q].epoch, active |-> TRUE, generation |-> 1])]
    /\ UNCHANGED <<bundles, registry, withdrawn, durable, roomChanges>>

Restock(q) ==
    /\ Commits(q, "restock")
    /\ bundles' = [bundles EXCEPT ![requests[q].address] =
           [stored |-> TRUE, identity |-> requests[q].identity,
            proof |-> OwnerOf(requests[q].address).device, fresh |-> TRUE]]
    /\ UNCHANGED <<room, registry, withdrawn, durable, roomChanges>>

Tombstone(o, a) == IF o.address = a
                   THEN [o EXCEPT !.active = FALSE, !.generation = @ + 1] ELSE o

Revoke(q) ==
    /\ Commits(q, "revoke")
    /\ room' = [room EXCEPT !.owners =
           [i \in DOMAIN @ |-> Tombstone(@[i], requests[q].address)]]
    /\ UNCHANGED <<bundles, registry, withdrawn, durable, roomChanges>>

(* A conflicting transaction starts again with the device record the caller  *)
(* was admitted with, or fails after its third attempt.                      *)
Readable(q) ==
    LET r == requests[q] IN
    /\ ~room.deleted
    /\ IF Doing(q, "adopt") /\ ~HasOwner(r.address)
       THEN Len(room.owners) < Slots /\ bundles[r.address].fresh
       ELSE HasOwner(r.address) /\ OwnerOf(r.address).active
            /\ OwnerOf(r.address).device = r.device
            /\ OwnerOf(r.address).epoch = r.epoch
    /\ registry[r.device].active /\ registry[r.device].epoch = r.epoch

Restart(q) ==
    /\ requests[q].kind \in Transactions /\ requests[q].stale
    /\ Readable(q)
    /\ requests' = IF Doing(q, "adopt") /\ HasOwner(requests[q].address)
                   THEN RoomWritten(DeviceWritten(Answered(q), requests[q].device))
                   ELSE [requests EXCEPT ![q].stale = FALSE]
    /\ UNCHANGED <<room, bundles, registry, withdrawn, durable, roomChanges>>

(* The identity of an owner is shown only when owner and caller are still    *)
(* what they were.                                                           *)
AskIdentity(q, d, a) ==
    /\ \E own \in RoomAddresses : Admitted(q, d, own) /\ Bound(d, own)
    /\ Current(a)
    /\ requests' = [requests EXCEPT ![q] = [RoomAsked(q, "identity", d, a) EXCEPT
           !.identity = OwnerOf(a).device, !.generation = OwnerOf(a).generation]]
    /\ UNCHANGED <<room, bundles, registry, withdrawn, durable, roomChanges>>

ShowIdentity(q) ==
    LET r == requests[q] IN
    /\ Doing(q, "identity")
    /\ Current(r.address) /\ OwnerOf(r.address).generation = r.generation
    /\ \E own \in RoomAddresses : Bound(r.device, own)
    /\ requests' = Answered(q)
    /\ UNCHANGED <<room, bundles, registry, withdrawn, durable, roomChanges>>

(* A deadline, a lost database connection or a rejected proof ends a handler *)
(* between any two steps.                                                    *)
Deny(q) ==
    /\ ~RoomIdle(q)
    /\ requests' = Answered(q)
    /\ UNCHANGED <<room, bundles, registry, withdrawn, durable, roomChanges>>

(************************* Deletion and withdrawal ***************************)
(* Only while no peer has reserved a publication.                            *)
Revocable == ~room.deleted /\ room.publications < Slots

RevokePendingInvitation ==
    /\ Revocable
    /\ room' = [room EXCEPT !.deleted = TRUE]
    /\ requests' = RoomWritten(requests)
    /\ withdrawn' = TRUE
    /\ UNCHANGED <<bundles, registry, durable, roomChanges>>

DeleteRoom ==
    /\ ~room.deleted
    /\ room' = [room EXCEPT !.deleted = TRUE]
    /\ requests' = RoomWritten(requests)
    /\ UNCHANGED <<bundles, registry, withdrawn, durable, roomChanges>>

InvitationPasses ==
    /\ room.invitation
    /\ room' = [room EXCEPT !.invitation = FALSE]
    /\ UNCHANGED <<bundles, registry, requests, withdrawn, durable, roomChanges>>

BundlePasses(a) ==
    /\ bundles[a].stored /\ bundles[a].fresh
    /\ bundles' = [bundles EXCEPT ![a].fresh = FALSE]
    /\ UNCHANGED <<room, registry, requests, withdrawn, durable, roomChanges>>

CleanupExpiredPrekeyBundles ==
    /\ \E a \in RoomAddresses : bundles[a].stored /\ ~bundles[a].fresh
    /\ bundles' = [a \in RoomAddresses |->
           IF bundles[a].stored /\ ~bundles[a].fresh THEN NoBundle ELSE bundles[a]]
    /\ UNCHANGED <<room, registry, requests, withdrawn, durable, roomChanges>>

(* The device registry: a new epoch, or the end of the device.               *)
UpdateDevice(d) ==
    /\ registry[d].active
    /\ roomChanges < MaxChanges /\ roomChanges' = roomChanges + 1
    /\ \E next \in {[active |-> FALSE, epoch |-> registry[d].epoch],
                    [active |-> TRUE, epoch |-> 1]} \ {registry[d]} :
           registry' = [registry EXCEPT ![d] = next]
    /\ requests' = DeviceWritten(requests, d)
    /\ UNCHANGED <<room, bundles, withdrawn, durable>>

(* The relay restarts with the other setting.                                *)
SwitchRouting ==
    /\ roomChanges < MaxChanges
    /\ roomChanges' = roomChanges + 1
    /\ durable' = ~durable
    /\ requests' = [q \in RoomRequests |-> IdleRequest]
    /\ UNCHANGED <<room, bundles, registry, withdrawn>>

Authenticated(q) ==
    \/ \E d \in RoomDevices, a \in RoomAddresses :
          \/ AskAdoption(q, d, a)
          \/ AskRevocation(q, d, a)
          \/ AskIdentity(q, d, a)
          \/ \E b \in RoomDevices : AskRestock(q, d, a, b)
    \/ Adopt(q)
    \/ Restock(q)
    \/ Revoke(q)
    \/ Restart(q)
    \/ ShowIdentity(q)

RoomNext ==
    \/ \E q \in RoomRequests :
          \/ \E d \in RoomDevices :
                \/ ReserveInvitationPublication(q, d)
                \/ \E a \in RoomAddresses, b \in RoomDevices : AskRenewal(q, d, a, b)
          \/ InsertBundle(q)
          \/ RenewRoomBundle(q)
          \/ Authenticated(q)
          \/ Deny(q)
    \/ RevokePendingInvitation
    \/ DeleteRoom
    \/ InvitationPasses
    \/ \E a \in RoomAddresses : BundlePasses(a)
    \/ CleanupExpiredPrekeyBundles
    \/ \E d \in RoomDevices : UpdateDevice(d)
    \/ SwitchRouting

RoomSpec == RoomInit /\ [][RoomNext]_roomVars

-----------------------------------------------------------------------------
(* The room's document, the bundles and the requests have their shapes.      *)
RoomTypeOK ==
    /\ room.owners \in Seq(Owner) /\ room.publications \in 0 .. Slots
    /\ room.deleted \in BOOLEAN /\ room.invitation \in BOOLEAN
    /\ \A a \in RoomAddresses : bundles[a] \in Bundle \cup {NoBundle}
    /\ \A d \in RoomDevices : registry[d] \in [active : BOOLEAN, epoch : 0 .. 1]
    /\ \A q \in RoomRequests : requests[q].kind \in Kinds \cup {"idle"}
    /\ withdrawn \in BOOLEAN /\ durable \in BOOLEAN

(* A join and a withdrawal of the invitation race for the same document and  *)
(* exactly one of them wins (db/index.ts, revokePendingInvitation).          *)
OneWinner == ~(withdrawn /\ room.publications = Slots)

(* At most two addresses are ever bound, no address twice, and the keys      *)
(* served under a bound address are those of the device it is bound to,      *)
(* through either way of renewing them (routingOwnership.ts).                *)
KeysBelongToOwner ==
    /\ Len(room.owners) <= Slots
    /\ \A i, j \in DOMAIN room.owners :
          room.owners[i].address = room.owners[j].address => i = j
    /\ \A i \in DOMAIN room.owners :
          LET o == room.owners[i] IN
          bundles[o.address].stored => bundles[o.address].identity = o.device

(* Owners change only in a room that is not deleted; a new one is bound to a *)
(* device that is active, with the epoch it has at that very moment; and a   *)
(* revoked one stays revoked.  The transactions race with deletions and with *)
(* revocations of the device (routingOwnership.ts, fenceDevice).             *)
OwnersChangeFenced ==
    room.owners' # room.owners =>
         /\ ~room.deleted
         /\ \A i \in DOMAIN room.owners' :
               i \notin DOMAIN room.owners =>
                  /\ registry[room.owners'[i].device].active
                  /\ registry[room.owners'[i].device].epoch = room.owners'[i].epoch
         /\ \A i \in DOMAIN room.owners :
               ~room.owners[i].active => room.owners'[i] = room.owners[i]

(* What a room at the relay promises while joins, withdrawals, rebindings,   *)
(* renewals and deletions race for its document.                             *)
RoomCorrect ==
    /\ [](RoomTypeOK /\ OneWinner /\ KeysBelongToOwner)
    /\ [][OwnersChangeFenced]_roomVars
=============================================================================
