------------------------- MODULE TransactionProofs -------------------------
(***************************************************************************)
(* Proofs about the records that are read, changed and swapped: the room's *)
(* record at the relay, the claims and checkpoints of sync, the groups and *)
(* the replay log. A change waits with what it has read. It is safe        *)
(* because a change that was overtaken is refused, and one that was not    *)
(* still follows from the record: the invariants say so of every change    *)
(* under way, for every number of requests, controllers, runtimes and      *)
(* tabs.                                                                   *)
(***************************************************************************)
EXTENDS RoomRecord, SyncTransfer, GroupSecurity, ReplayLog, FiniteSetTheorems, SequenceTheorems,
        WellFoundedInduction, TLAPS

GroupRecord == [epoch : Int, members : [GroupDevices -> States],
                removed : SUBSET GroupDevices, author : GroupDevices \cup {"none"}]

\* What create stores, and what an authorized change makes of the record g.
Creation(n) == n.epoch = 0 /\ n.removed = {} /\ Active(n) \cap Administrators # {}
Succession(g, n) ==
    \E op \in {"add", "activate", "remove"}, a, t \in GroupDevices :
        Authorized(g, a) /\ Applies(g, op, a, t) /\ n = NextGroup(g, op, a, t)

\* A change that waits to be read again succeeds the record as long as that has
\* the epoch it had; one that waits to be swapped succeeds the record it read.
LoadInv(c) ==
    /\ c.next \in GroupRecord /\ c.expected \in Int /\ c.expected <= group.epoch
    /\ c.expected = NoGroup => Creation(c.next)
    /\ c.expected # NoGroup /\ c.expected = group.epoch =>
          group.epoch < MaxGroupEpoch /\ Succession(group, c.next)
SwapInv(c) ==
    /\ c.next \in GroupRecord
    /\ c.read.epoch = NoGroup => Creation(c.next)
    /\ c.read.epoch # NoGroup => c.read.epoch < MaxGroupEpoch /\ Succession(c.read, c.next)

GroupInv ==
    /\ group \in GroupRecord /\ group.epoch \in NoGroup .. MaxGroupEpoch
    /\ groupChanges = [r \in Runtimes |-> groupChanges[r]]
    /\ \A r \in Runtimes :
          \/ groupChanges[r] = Settled
          \/ groupChanges[r].step = "load" /\ LoadInv(groupChanges[r])
          \/ groupChanges[r].step = "swap" /\ SwapInv(groupChanges[r])
    /\ keyHolders = Active(group)
    /\ group.epoch = NoGroup => group.removed = {}
    /\ group.epoch # NoGroup => Active(group) \cap Administrators # {}
    /\ \A d \in group.removed : group.members[d] = "removed"

\* A change that applies keeps the shape of the record, one administrator and
\* the removed members (applyChange in groupSecurity).
LEMMA SuccessionKeeps ==
  ASSUME NEW g \in GroupRecord, NEW n, Succession(g, n),
         \A d \in g.removed : g.members[d] = "removed"
  PROVE  /\ n \in GroupRecord /\ n.epoch = g.epoch + 1
         /\ Authorized(g, n.author)
         /\ Active(n) \cap Administrators # {}
         /\ g.removed \subseteq n.removed
         /\ \A d \in n.removed : n.members[d] = "removed"
<1>1. PICK op \in {"add", "activate", "remove"}, a \in GroupDevices, t \in GroupDevices :
        Authorized(g, a) /\ Applies(g, op, a, t) /\ n = NextGroup(g, op, a, t)
  BY DEF Succession
<1>2. /\ n.epoch = g.epoch + 1 /\ n.author = a
      /\ n.members = [g.members EXCEPT ![t] = After(op)]
      /\ n.removed = g.removed \cup (IF op = "remove" THEN {t} ELSE {})
  BY <1>1 DEF NextGroup
<1>3. After(op) \in States /\ (op = "remove" => After(op) = "removed")
      /\ (op = "add" => After(op) = "pending") /\ (op = "activate" => After(op) = "active")
  BY DEF After, States
<1>4. n \in GroupRecord
  BY <1>1, <1>3 DEF NextGroup, GroupRecord
<1>5. g.members \in [GroupDevices -> States] /\ g.removed \subseteq GroupDevices
  BY DEF GroupRecord
<1>6. a \in Active(n) \cap Administrators
  <2>1. g.members[a] = "active" /\ a \in Administrators
    BY <1>1 DEF Authorized, Active
  <2>2. n.members[a] = "active"
    BY <1>1, <1>2, <1>3, <1>5, <2>1 DEF Applies
  <2> QED  BY <2>1, <2>2 DEF Active
<1>7. ASSUME NEW d \in n.removed PROVE n.members[d] = "removed"
  <2>1. CASE d = t /\ op = "remove"
    BY <1>2, <1>3, <1>5, <2>1
  <2>2. CASE ~(d = t /\ op = "remove")
    <3>1. d \in g.removed /\ g.members[d] = "removed"
      BY <1>2, <2>2
    <3>2. d # t
      BY <1>1, <2>2, <3>1 DEF Applies
    <3> QED  BY <1>2, <1>5, <3>1, <3>2
  <2> QED  BY <2>1, <2>2
<1> QED  BY <1>1, <1>2, <1>4, <1>6, <1>7

\* No group, and no change under way.
LEMMA GroupInitHolds == GroupInit => GroupInv
  BY GroupAssumption DEF GroupInit, GroupInv, GroupRecord, NoGroup, States, Active, Settled

\* A change that waits names a successor of the record it has read, and the
\* swap finds that record or is refused; so whatever the other runtimes do, a
\* change under way stays one that could be made.
LEMMA GroupStepHolds == GroupInv /\ [GroupNext]_groupVars => GroupInv'
<1> SUFFICES ASSUME GroupInv, [GroupNext]_groupVars PROVE GroupInv'
  OBVIOUS
<1> USE GroupAssumption
<1>1. ASSUME NEW r \in Runtimes, NEW d \in GroupDevices, CreateGroup(r, d) PROVE GroupInv'
  <2> DEFINE nx == [epoch |-> 0, members |-> [x \in GroupDevices |-> IF x = d THEN "active" ELSE "none"],
                    removed |-> {}, author |-> d]
             c == [step |-> "load", expected |-> NoGroup, next |-> nx]
  <2>1. nx \in GroupRecord
    BY DEF GroupRecord, States
  <2>2. d \in Active(nx) \cap Administrators
    BY <1>1 DEF Active, CreateGroup
  <2>3. Creation(nx)
    BY <2>2 DEF Creation
  <2>4. group' = group /\ keyHolders' = keyHolders /\ groupChanges' = [groupChanges EXCEPT ![r] = c]
    BY <1>1 DEF CreateGroup
  <2>5. LoadInv(c)'
    BY <1>1, <2>1, <2>3, <2>4 DEF LoadInv, CreateGroup, NoGroup, GroupInv
  <2> HIDE DEF nx
  <2> QED  BY <2>4, <2>5 DEF GroupInv, LoadInv, SwapInv, Active
<1>2. ASSUME NEW r \in Runtimes, NEW op \in {"add", "activate", "remove"}, NEW a \in GroupDevices, NEW t \in GroupDevices,
             ChangeGroup(r, op, a, t)
      PROVE GroupInv'
  <2> DEFINE nx == NextGroup(group, op, a, t)
             c == [step |-> "load", expected |-> group.epoch, next |-> nx]
  <2>1. Succession(group, nx)
    BY <1>2 DEF Succession, ChangeGroup
  <2>2. nx \in GroupRecord
    BY <2>1, SuccessionKeeps DEF GroupInv
  <2>4. group' = group /\ keyHolders' = keyHolders /\ groupChanges' = [groupChanges EXCEPT ![r] = c]
    BY <1>2 DEF ChangeGroup
  <2>5. group.epoch \in Int /\ group.epoch # NoGroup /\ group.epoch < MaxGroupEpoch
    BY <1>2 DEF ChangeGroup, NoGroup
  <2>6. c.step = "load" /\ c.next = nx /\ c.expected = group.epoch
    OBVIOUS
  <2>7. groupChanges'[r] = c
    BY <2>4 DEF GroupInv
  <2> HIDE DEF nx, c
  <2>8. groupChanges'[r].step = "load" /\ LoadInv(groupChanges[r])'
    BY <2>1, <2>2, <2>4, <2>5, <2>6, <2>7 DEF LoadInv
  <2> QED  BY <2>4, <2>8 DEF GroupInv, LoadInv, SwapInv, Active
<1>3. ASSUME NEW r \in Runtimes, LoadGroup(r) PROVE GroupInv'
  <2> DEFINE nx == [groupChanges[r].next EXCEPT !.removed = @ \cup group.removed]
             c == IF group.epoch = groupChanges[r].expected
                  THEN [step |-> "swap", read |-> group, next |-> nx] ELSE Settled
  <2>1. group' = group /\ keyHolders' = keyHolders /\ groupChanges' = [groupChanges EXCEPT ![r] = c]
    BY <1>3 DEF LoadGroup
  <2>2. LoadInv(groupChanges[r])
    BY <1>3 DEF LoadGroup, GroupInv, Settled
  <2>3. CASE group.epoch = groupChanges[r].expected
    <3>1. groupChanges[r].next \in GroupRecord /\ group.removed \subseteq groupChanges[r].next.removed
      <4>1. CASE group.epoch = NoGroup
        BY <2>2, <4>1 DEF LoadInv, GroupInv
      <4>2. CASE group.epoch # NoGroup
        BY <2>2, <2>3, <4>2, SuccessionKeeps DEF LoadInv, GroupInv
      <4> QED  BY <4>1, <4>2
    <3>2. nx = groupChanges[r].next
      BY <3>1 DEF GroupRecord
    <3>3. SwapInv([step |-> "swap", read |-> group, next |-> nx])
      BY <2>2, <2>3, <3>1, <3>2 DEF SwapInv, LoadInv
    <3> HIDE DEF nx
    <3> QED  BY <2>1, <2>3, <3>3 DEF GroupInv, LoadInv, SwapInv, Active
  <2>4. CASE group.epoch # groupChanges[r].expected
    BY <2>1, <2>4 DEF GroupInv, LoadInv, SwapInv, Active
  <2> QED  BY <2>3, <2>4
<1>4. ASSUME NEW r \in Runtimes, SwapGroup(r) PROVE GroupInv'
  <2>1. SwapInv(groupChanges[r]) /\ groupChanges' = [groupChanges EXCEPT ![r] = Settled]
    BY <1>4 DEF SwapGroup, GroupInv, Settled
  <2>2. CASE group # groupChanges[r].read
    <3>1. group' = group /\ keyHolders' = keyHolders
      BY <1>4, <2>2 DEF SwapGroup
    <3> QED  BY <2>1, <3>1 DEF GroupInv, LoadInv, SwapInv, Active
  <2>3. CASE group = groupChanges[r].read
    <3> DEFINE nx == groupChanges[r].next
    <3>1. group' = nx /\ keyHolders' = Active(nx)
      BY <1>4, <2>3 DEF SwapGroup
    <3>2. /\ nx \in GroupRecord /\ nx.epoch = group.epoch + 1 /\ nx.epoch \in 0 .. MaxGroupEpoch
          /\ Active(nx) \cap Administrators # {}
          /\ \A d \in nx.removed : nx.members[d] = "removed"
      <4>1. CASE group.epoch = NoGroup
        BY <2>1, <2>3, <4>1 DEF SwapInv, Creation, NoGroup
      <4>2. CASE group.epoch # NoGroup
        <5>1. Succession(group, nx) /\ group.epoch < MaxGroupEpoch
          BY <2>1, <2>3, <4>2 DEF SwapInv
        <5>2. group \in GroupRecord /\ \A d \in group.removed : group.members[d] = "removed"
          BY DEF GroupInv
        <5>3. /\ nx \in GroupRecord /\ nx.epoch = group.epoch + 1
              /\ Active(nx) \cap Administrators # {}
              /\ \A d \in nx.removed : nx.members[d] = "removed"
          BY <5>1, <5>2, SuccessionKeeps
        <5>4. group.epoch \in 0 .. MaxGroupEpoch - 1
          BY <5>1, <4>2 DEF GroupInv, NoGroup
        <5> QED  BY <5>3, <5>4
      <4> QED  BY <4>1, <4>2
    <3> HIDE DEF nx
    <3>3. ASSUME NEW q \in Runtimes, LoadInv(groupChanges[q]), groupChanges'[q] = groupChanges[q]
          PROVE  LoadInv(groupChanges[q])'
      <4>1. group.epoch \in Int /\ group'.epoch = group.epoch + 1
        BY <3>1, <3>2 DEF GroupInv, GroupRecord
      <4>2. groupChanges[q].expected # group'.epoch /\ groupChanges[q].expected <= group'.epoch
        BY <3>3, <4>1 DEF LoadInv
      <4> QED  BY <3>3, <4>2 DEF LoadInv
    <3>4. ASSUME NEW q \in Runtimes
          PROVE  \/ groupChanges'[q] = Settled
                 \/ groupChanges'[q].step = "load" /\ LoadInv(groupChanges[q])'
                 \/ groupChanges'[q].step = "swap" /\ SwapInv(groupChanges[q])'
      <4>1. CASE q = r
        BY <2>1, <4>1 DEF GroupInv
      <4>2. CASE q # r
        <5>1. groupChanges'[q] = groupChanges[q]
          BY <2>1, <4>2 DEF GroupInv
        <5> QED  BY <5>1, <3>3 DEF GroupInv, SwapInv
      <4> QED  BY <4>1, <4>2
    <3> QED  BY <2>1, <3>1, <3>2, <3>4 DEF GroupInv, Active, NoGroup
  <2> QED  BY <2>2, <2>3
<1>5. ASSUME NEW r \in Runtimes, LoseRuntime(r) PROVE GroupInv'
  BY <1>5 DEF LoseRuntime, GroupInv, LoadInv, SwapInv, Active
<1>6. CASE UNCHANGED groupVars
  BY <1>6 DEF groupVars, GroupInv, LoadInv, SwapInv, Active
<1> QED  BY <1>1, <1>2, <1>3, <1>4, <1>5, <1>6 DEF GroupNext

\* A step that changes the record of a group swaps in a change that an
\* administrator of it made.
LEMMA GroupStepAuthored == GroupInv /\ [GroupNext]_groupVars => ChangedByAdministrator
<1> SUFFICES ASSUME GroupInv, [GroupNext]_groupVars, group' # group, group.epoch # NoGroup
             PROVE group'.epoch = group.epoch + 1 /\ Authorized(group, group'.author)
  BY DEF ChangedByAdministrator
<1>1. PICK r \in Runtimes : SwapGroup(r)
  BY DEF GroupNext, groupVars, CreateGroup, ChangeGroup, LoadGroup, LoseRuntime
<1>2. group = groupChanges[r].read /\ group' = groupChanges[r].next
  BY <1>1 DEF SwapGroup
<1>3. Succession(group, group')
  BY <1>1, <1>2 DEF GroupInv, SwapInv, SwapGroup, Settled
<1> QED  BY <1>3, SuccessionKeeps DEF GroupInv

\* A group keeps an active administrator, a removed member gets no key again,
\* and every change is authored by an administrator of the very record it
\* replaces and raises its epoch by one, for any number of runtimes and
\* devices.
THEOREM GroupIsCorrect == GroupSpec => GroupCorrect
<1>1. GroupInv => GroupTypeOK /\ SomeAdministrator /\ RemovedIsOut
  BY GroupAssumption DEF GroupInv, GroupTypeOK, SomeAdministrator, RemovedIsOut, GroupRecord, Active,
       KeyForActiveMember, Settled
<1> QED  BY <1>1, GroupInitHolds, GroupStepHolds, GroupStepAuthored, PTL DEF GroupSpec, GroupCorrect

RoomRequest == [kind : Kinds, device : RoomDevices, address : RoomAddresses,
                identity : RoomDevices \cup {FALSE}, epoch : 0 .. 1, generation : 0 .. 2, stale : BOOLEAN]
RoomDocument == [deleted : BOOLEAN, invitation : BOOLEAN, publications : 0 .. Slots, owners : Seq(Owner)]
Naming == {"renew", "restock"}      \* requests that name the identity they write
Claiming == {"publish", "adopt"} \cup Naming

\* Who speaks for an address: its owner, the bundle it serves, and the requests that will write either.
Claimant(r) == IF r.kind \in Naming THEN r.identity ELSE r.device
RequestClaims(r, a, d) == r.kind \in Claiming /\ r.address = a /\ Claimant(r) = d
OwnerIn(rm, a) == \E i \in DOMAIN rm.owners : rm.owners[i].address = a
Claims(rm, bs, rs, a, d) ==
    \/ bs[a].stored /\ bs[a].identity = d
    \/ \E i \in DOMAIN rm.owners : rm.owners[i].address = a /\ rm.owners[i].device = d
    \/ \E q \in RoomRequests : RequestClaims(rs[q], a, d)

\* What a transaction that is not stale has read still holds.
Fenced(rm, rg, r) ==
    /\ ~rm.deleted
    /\ r.kind = "adopt" => /\ ~OwnerIn(rm, r.address) /\ Len(rm.owners) < Slots
                           /\ rg[r.device].active /\ rg[r.device].epoch = r.epoch
    /\ r.kind = "revoke" => \A i \in DOMAIN rm.owners : rm.owners[i].address = r.address => rm.owners[i].active
RequestOK(rm, rg, r) ==
    \/ r = IdleRequest
    \/ /\ r \in RoomRequest
       /\ r.kind \in Naming => r.identity \in RoomDevices
       /\ r.kind \in {"restock", "revoke"} => OwnerIn(rm, r.address)
       /\ r.kind \in Transactions /\ ~r.stale => Fenced(rm, rg, r)

OwnersOK(os) ==
    /\ Len(os) <= Slots
    /\ \A i, j \in DOMAIN os : os[i].address = os[j].address => i = j
    /\ \A i \in DOMAIN os : os[i].generation = IF os[i].active THEN 1 ELSE 2

OneClaimant ==
    /\ \A a \in RoomAddresses, d, e \in RoomDevices :
          Claims(room, bundles, requests, a, d) /\ Claims(room, bundles, requests, a, e) => d = e
    /\ \A a \in RoomAddresses, d \in RoomDevices :
          Claims(room, bundles, requests, a, d) => a <= room.publications

RoomTyped ==
    /\ room \in RoomDocument
    /\ bundles \in [RoomAddresses -> Bundle \cup {NoBundle}]
    /\ registry \in [RoomDevices -> [active : BOOLEAN, epoch : 0 .. 1]]
    /\ requests = [q \in RoomRequests |-> requests[q]]
    /\ withdrawn \in BOOLEAN /\ durable \in BOOLEAN

RoomInv ==
    /\ RoomTyped
    /\ \A q \in RoomRequests : RequestOK(room, registry, requests[q])
    /\ OwnersOK(room.owners)
    /\ OneClaimant
    /\ withdrawn => room.deleted /\ room.publications < Slots

-----------------------------------------------------------------------------
\* A request that a write of others may only have ended or made stale.
Softened(r, s) ==
    \/ s = IdleRequest
    \/ /\ s \in RoomRequest /\ s.kind = r.kind /\ s.device = r.device /\ s.address = r.address
       /\ s.identity = r.identity /\ s.epoch = r.epoch
       /\ s.kind \in Transactions => s.stale
Staled(r) == IF r.kind \in Transactions THEN [r EXCEPT !.stale = TRUE] ELSE r

\* A request that has ended speaks for no address.
LEMMA IdleClaimsNothing ==
  /\ IdleRequest.kind = "idle" /\ IdleRequest.kind \notin Claiming \cup Transactions \cup Kinds
  /\ \A a, d : ~RequestClaims(IdleRequest, a, d)
  BY DEF IdleRequest, Claiming, Naming, Transactions, Kinds, RequestClaims

\* ... and fits every room.
LEMMA IdleIsOK == ASSUME NEW rm, NEW rg PROVE RequestOK(rm, rg, IdleRequest)
  BY DEF RequestOK

\* A request that others have ended or made stale still fits.
LEMMA SoftenedOK ==
  ASSUME NEW rm, NEW rg, NEW r, NEW s, RequestOK(rm, rg, r), Softened(r, s), NEW rm2, NEW rg2,
         \A a : OwnerIn(rm, a) => OwnerIn(rm2, a)
  PROVE  RequestOK(rm2, rg2, s)
<1>1. CASE s = IdleRequest
  BY <1>1, IdleIsOK
<1>2. CASE s # IdleRequest
  <2>1. r.kind \in Kinds
    BY <1>2 DEF Softened, RoomRequest
  <2>2. r # IdleRequest
    BY <2>1, IdleClaimsNothing
  <2> QED  BY <1>2, <2>2 DEF Softened, RequestOK
<1> QED  BY <1>1, <1>2

\* ... and claims no more than before.
LEMMA SoftenedClaims ==
  ASSUME NEW r, NEW s, Softened(r, s), NEW a, NEW d, RequestClaims(s, a, d) PROVE RequestClaims(r, a, d)
  BY IdleClaimsNothing DEF Softened, RequestClaims, Claimant

\* Making a transaction stale is all a write of its documents does to it.
LEMMA StaleSoftens ==
  ASSUME NEW rm, NEW rg, NEW r, RequestOK(rm, rg, r) PROVE Softened(r, Staled(r))
<1>1. CASE r = IdleRequest
  BY <1>1, IdleClaimsNothing DEF Softened, Staled
<1>2. CASE r \in RoomRequest
  BY <1>2 DEF Softened, Staled, RoomRequest
<1> QED  BY <1>1, <1>2 DEF RequestOK

\* What a commit, or another write of the room, does to the requests.
LEMMA WrittenSoftens ==
  ASSUME RoomInv, NEW q \in RoomRequests, NEW d,
         requests' = RoomWritten(requests) \/ requests' = RoomWritten(DeviceWritten(Answered(q), d))
  PROVE  /\ requests' = [x \in RoomRequests |-> requests'[x]]
         /\ \A p \in RoomRequests : Softened(requests[p], requests'[p])
<1>1. ASSUME NEW p \in RoomRequests PROVE RequestOK(room, registry, requests[p])
  BY DEF RoomInv
<1>2. CASE requests' = RoomWritten(requests)
  BY <1>1, <1>2, StaleSoftens DEF RoomWritten, Staled
<1>3. CASE requests' = RoomWritten(DeviceWritten(Answered(q), d))
  <2> DEFINE ds == DeviceWritten(Answered(q), d)
  <2>1. requests' = [x \in RoomRequests |-> Staled(ds[x])]
    BY <1>3 DEF RoomWritten, Staled
  <2>2. ASSUME NEW p \in RoomRequests PROVE Softened(requests[p], Staled(ds[p]))
    <3>1. Answered(q)[p] = IF p = q THEN IdleRequest ELSE requests[p]
      BY DEF Answered, RoomInv, RoomTyped
    <3>2. ds[p] = Answered(q)[p] \/ ds[p] = Staled(Answered(q)[p])
      BY DEF DeviceWritten, Staled
    <3>3. CASE p = q
      BY <3>1, <3>2, <3>3, IdleClaimsNothing DEF Softened, Staled
    <3>4. CASE p # q
      <4> HIDE DEF ds
      <4>1. Softened(requests[p], Staled(requests[p]))
        BY <1>1, StaleSoftens
      <4>2. CASE requests[p] = IdleRequest
        BY <3>1, <3>2, <3>4, <4>2, IdleClaimsNothing DEF Softened, Staled
      <4>3. CASE requests[p] \in RoomRequest
        <5>1. ds[p] \in RoomRequest /\ ds[p].kind = requests[p].kind /\ ds[p].device = requests[p].device
              /\ ds[p].address = requests[p].address /\ ds[p].identity = requests[p].identity
              /\ ds[p].epoch = requests[p].epoch
          BY <3>1, <3>2, <3>4, <4>3 DEF Staled, RoomRequest
        <5> QED  BY <5>1 DEF Softened, Staled, RoomRequest
      <4> QED  BY <1>1, <4>2, <4>3 DEF RequestOK
    <3> QED  BY <3>3, <3>4
  <2> HIDE DEF ds
  <2> QED  BY <2>1, <2>2
<1> QED  BY <1>2, <1>3

\* Claims that only move between bundle, owner and requests keep their
\* claimant.
LEMMA ClaimsMove ==
  ASSUME OneClaimant, room'.publications = room.publications,
         \A a \in RoomAddresses, d \in RoomDevices :
            bundles'[a].stored /\ bundles'[a].identity = d => Claims(room, bundles, requests, a, d),
         \A i \in DOMAIN room'.owners :
            Claims(room, bundles, requests, room'.owners[i].address, room'.owners[i].device),
         \A p \in RoomRequests : \A a \in RoomAddresses, d \in RoomDevices :
            RequestClaims(requests'[p], a, d) => Claims(room, bundles, requests, a, d)
  PROVE  OneClaimant'
<1>1. ASSUME NEW a \in RoomAddresses, NEW d \in RoomDevices, Claims(room', bundles', requests', a, d)
      PROVE  Claims(room, bundles, requests, a, d)
  <2>1. CASE bundles'[a].stored /\ bundles'[a].identity = d
    BY <2>1
  <2>2. CASE \E i \in DOMAIN room'.owners : room'.owners[i].address = a /\ room'.owners[i].device = d
    BY <2>2
  <2>3. CASE \E q \in RoomRequests : RequestClaims(requests'[q], a, d)
    BY <2>3
  <2> QED  BY <1>1, <2>1, <2>2, <2>3 DEF Claims
<1> QED  BY <1>1 DEF OneClaimant

\* What one claimant means, for two claims.
LEMMA OldClaims ==
  /\ \A a, d : bundles[a].stored /\ bundles[a].identity = d => Claims(room, bundles, requests, a, d)
  /\ \A i \in DOMAIN room.owners : Claims(room, bundles, requests, room.owners[i].address, room.owners[i].device)
  /\ \A p \in RoomRequests : \A a, d : RequestClaims(requests[p], a, d) => Claims(room, bundles, requests, a, d)
  BY DEF Claims

\* A step that only asks, answers or ends one request.
LEMMA RequestStep ==
  ASSUME RoomInv, NEW q \in RoomRequests, NEW r, RequestOK(room, registry, r),
         \A a \in RoomAddresses, d \in RoomDevices : RequestClaims(r, a, d) => Claims(room, bundles, requests, a, d),
         requests' = [requests EXCEPT ![q] = r], UNCHANGED <<room, bundles, registry, withdrawn>>,
         durable' \in BOOLEAN
  PROVE  RoomInv'
<1>1. requests' = [x \in RoomRequests |-> requests'[x]]
      /\ \A p \in RoomRequests : requests'[p] = IF p = q THEN r ELSE requests[p]
  BY DEF RoomInv, RoomTyped
<1>2. OneClaimant'
  <2>1. \A p \in RoomRequests : \A a \in RoomAddresses, d \in RoomDevices :
            RequestClaims(requests'[p], a, d) => Claims(room, bundles, requests, a, d)
    BY <1>1, OldClaims
  <2>2. OneClaimant
    BY DEF RoomInv
  <2> QED  BY <2>1, <2>2, OldClaims, ClaimsMove
<1>3. \A p \in RoomRequests : RequestOK(room', registry', requests'[p])
  BY <1>1 DEF RoomInv
<1>4. RoomTyped'
  BY <1>1 DEF RoomInv, RoomTyped
<1> QED  BY <1>2, <1>3, <1>4 DEF RoomInv

\* A step that writes the room, or commits, and softens every other request.
LEMMA WriteStep ==
  ASSUME RoomInv, room' \in RoomDocument, room'.publications = room.publications,
         \A a : OwnerIn(room, a) => OwnerIn(room', a), OwnersOK(room'.owners),
         \A i \in DOMAIN room'.owners :
            Claims(room, bundles, requests, room'.owners[i].address, room'.owners[i].device),
         bundles' \in [RoomAddresses -> Bundle \cup {NoBundle}],
         \A a \in RoomAddresses, d \in RoomDevices :
            bundles'[a].stored /\ bundles'[a].identity = d => Claims(room, bundles, requests, a, d),
         requests' = [x \in RoomRequests |-> requests'[x]],
         \A p \in RoomRequests : Softened(requests[p], requests'[p]),
         UNCHANGED <<registry, durable>>,
         withdrawn' \in BOOLEAN, withdrawn' => room'.deleted /\ room'.publications < Slots
  PROVE  RoomInv'
<1>1. OneClaimant'
  <2>1. \A p \in RoomRequests : \A a \in RoomAddresses, d \in RoomDevices :
            RequestClaims(requests'[p], a, d) => Claims(room, bundles, requests, a, d)
    BY OldClaims, SoftenedClaims
  <2>2. OneClaimant
    BY DEF RoomInv
  <2> QED  BY <2>1, <2>2, ClaimsMove
<1>2. \A p \in RoomRequests : RequestOK(room', registry', requests'[p])
  BY SoftenedOK DEF RoomInv
<1>3. RoomTyped'
  BY DEF RoomInv, RoomTyped
<1> QED  BY <1>1, <1>2, <1>3 DEF RoomInv

\* The fields of a request that has just been asked.
LEMMA AskedShape ==
  ASSUME RoomInv, NEW q \in RoomRequests, NEW k \in Kinds, NEW d \in RoomDevices, NEW a \in RoomAddresses
  PROVE  /\ RoomAsked(q, k, d, a) \in RoomRequest
         /\ RoomAsked(q, k, d, a).kind = k /\ RoomAsked(q, k, d, a).device = d
         /\ RoomAsked(q, k, d, a).address = a /\ RoomAsked(q, k, d, a).epoch = registry[d].epoch
         /\ ~RoomAsked(q, k, d, a).stale
<1>1. registry[d].epoch \in 0 .. 1
  BY DEF RoomInv, RoomTyped
<1>2. 0 \in 0 .. 2 /\ FALSE \in RoomDevices \cup {FALSE} /\ FALSE \in BOOLEAN
  OBVIOUS
<1>3. RoomAsked(q, k, d, a) \in RoomRequest
  BY <1>1, <1>2 DEF RoomAsked, IdleRequest, RoomRequest
<1>4. /\ RoomAsked(q, k, d, a).kind = k /\ RoomAsked(q, k, d, a).device = d
      /\ RoomAsked(q, k, d, a).address = a /\ RoomAsked(q, k, d, a).epoch = registry[d].epoch
  BY DEF RoomAsked, IdleRequest
<1>5. ~RoomAsked(q, k, d, a).stale
  BY DEF RoomAsked, IdleRequest
<1> QED  BY <1>3, <1>4, <1>5

\* The owner found for an address is one of the room's.
LEMMA OwnerFound ==
  ASSUME RoomInv, NEW a, HasOwner(a)
  PROVE  /\ OwnerIn(room, a)
         /\ \E i \in DOMAIN room.owners : OwnerOf(a) = room.owners[i] /\ room.owners[i].address = a
         /\ OwnerOf(a) \in Owner
         /\ \A i \in DOMAIN room.owners : room.owners[i].address = a => room.owners[i] = OwnerOf(a)
<1>1. PICK i \in OwnersOf(a) : OwnerOf(a) = room.owners[i]
  BY DEF HasOwner, OwnerOf
<1>2. i \in DOMAIN room.owners /\ room.owners[i].address = a
  BY <1>1 DEF OwnersOf
<1>3. room.owners[i] \in Owner
  BY <1>2 DEF RoomInv, RoomTyped, RoomDocument
<1>4. \A j \in DOMAIN room.owners : room.owners[j].address = a => j = i
  BY <1>2 DEF RoomInv, OwnersOK
<1> QED  BY <1>1, <1>2, <1>3, <1>4 DEF OwnerIn

\* Looking an owner up in the room is HasOwner.
LEMMA OwnerInHas == ASSUME NEW a PROVE OwnerIn(room, a) <=> HasOwner(a)
  BY DEF OwnerIn, HasOwner, OwnersOf

\* reserveInvitationPublication counts the publication and gives the request
\* the address of that number, so no two publications have one address.
LEMMA ReserveHolds ==
  ASSUME RoomInv, NEW q \in RoomRequests, NEW d \in RoomDevices, ReserveInvitationPublication(q, d)
  PROVE  RoomInv'
<1> DEFINE n == room.publications + 1
           r == RoomAsked(q, "publish", d, n)
<1>1. /\ ~room.deleted /\ room.publications < Slots
      /\ room' = [room EXCEPT !.publications = n]
      /\ requests' = RoomWritten([requests EXCEPT ![q] = r])
      /\ UNCHANGED <<bundles, registry, withdrawn, durable>>
  BY DEF ReserveInvitationPublication
<1>2. room.publications \in 0 .. 1 /\ n \in RoomAddresses
  BY <1>1 DEF RoomInv, RoomTyped, RoomDocument, Slots, RoomAddresses
<1>3. room' \in RoomDocument /\ room'.owners = room.owners /\ room'.publications = n /\ room'.deleted = room.deleted
  BY <1>1, <1>2 DEF RoomInv, RoomTyped, RoomDocument, Slots
<1>4. r \in RoomRequest /\ r.kind = "publish" /\ r.device = d /\ r.address = n /\ "publish" \in Kinds
  <2>1. "publish" \in Kinds
    BY DEF Kinds
  <2>2. /\ RoomAsked(q, "publish", d, n) \in RoomRequest
        /\ RoomAsked(q, "publish", d, n).kind = "publish" /\ RoomAsked(q, "publish", d, n).device = d
        /\ RoomAsked(q, "publish", d, n).address = n
    <3> HIDE DEF n
    <3>1. n \in RoomAddresses
      BY <1>2
    <3>2. RoomAsked(q, "publish", d, n) \in RoomRequest
      BY <2>1, <3>1, AskedShape, SMTT(20)
    <3> QED  BY <2>1, <3>1, AskedShape, SMTT(20)
  <2> QED  BY <2>1, <2>2
<1>5. r.kind \notin Transactions \cup Naming \cup {"restock", "revoke"}
  BY <1>4 DEF Transactions, Naming
<1> HIDE DEF r
<1>6. requests' = [x \in RoomRequests |-> IF x = q THEN r ELSE Staled(requests[x])]
  BY <1>1, <1>5 DEF RoomWritten, Staled, RoomInv, RoomTyped
<1>7. RequestOK(room', registry', r)
  BY <1>4, <1>5 DEF RequestOK
<1>8. \A a : OwnerIn(room, a) => OwnerIn(room', a)
  BY <1>3 DEF OwnerIn
<1>9. ASSUME NEW p \in RoomRequests, p # q
      PROVE  /\ requests'[p] = Staled(requests[p]) /\ Softened(requests[p], requests'[p])
             /\ RequestOK(room', registry', requests'[p])
  <2>1. RequestOK(room, registry, requests[p])
    BY DEF RoomInv
  <2> QED  BY <1>6, <1>8, <1>9, <2>1, StaleSoftens, SoftenedOK
<1>10. ASSUME NEW a \in RoomAddresses, NEW x \in RoomDevices, Claims(room', bundles', requests', a, x)
       PROVE  Claims(room, bundles, requests, a, x) \/ (a = n /\ x = d)
  <2>1. CASE bundles'[a].stored /\ bundles'[a].identity = x
    BY <1>1, <2>1 DEF Claims
  <2>2. CASE \E i \in DOMAIN room'.owners : room'.owners[i].address = a /\ room'.owners[i].device = x
    BY <1>3, <2>2 DEF Claims
  <2>3. ASSUME NEW p \in RoomRequests, RequestClaims(requests'[p], a, x)
        PROVE  Claims(room, bundles, requests, a, x) \/ (a = n /\ x = d)
    <3>1. CASE p = q
      BY <1>4, <1>6, <2>3, <3>1 DEF RequestClaims, Claimant, Naming
    <3>2. CASE p # q
      BY <1>9, <2>3, <3>2, SoftenedClaims DEF Claims
    <3> QED  BY <3>1, <3>2
  <2> QED  BY <1>10, <2>1, <2>2, <2>3 DEF Claims
<1>11. OneClaimant'
  <2>1. OneClaimant
    BY DEF RoomInv
  <2>2. ASSUME NEW x \in RoomDevices PROVE ~Claims(room, bundles, requests, n, x)
    BY <1>2, <2>1 DEF OneClaimant
  <2>3. ASSUME NEW a \in RoomAddresses, NEW x \in RoomDevices, NEW y \in RoomDevices,
               Claims(room', bundles', requests', a, x), Claims(room', bundles', requests', a, y)
        PROVE  x = y
    BY <1>10, <2>1, <2>2, <2>3 DEF OneClaimant
  <2>4. ASSUME NEW a \in RoomAddresses, NEW x \in RoomDevices, Claims(room', bundles', requests', a, x)
        PROVE  a <= room'.publications
    <3>1. a \in Nat /\ room.publications \in Nat
      BY <1>2 DEF RoomAddresses
    <3>2. CASE Claims(room, bundles, requests, a, x)
      BY <1>3, <2>1, <3>1, <3>2 DEF OneClaimant
    <3>3. CASE a = n /\ x = d
      BY <1>3, <3>1, <3>3
    <3> QED  BY <1>10, <2>4, <3>2, <3>3
  <2> QED  BY <2>3, <2>4 DEF OneClaimant
<1>12. RoomTyped'
  BY <1>1, <1>3, <1>6 DEF RoomInv, RoomTyped
<1>13. withdrawn' => room'.deleted /\ room'.publications < Slots
  BY <1>1 DEF RoomInv
<1>14. OwnersOK(room'.owners)
  BY <1>3 DEF RoomInv
<1>15. \A p \in RoomRequests : RequestOK(room', registry', requests'[p])
  BY <1>6, <1>7, <1>9
<1> QED  BY <1>11, <1>12, <1>13, <1>14, <1>15 DEF RoomInv

\* The request of a handler at work.
LEMMA RequestAtWork ==
  ASSUME RoomInv, NEW q \in RoomRequests, requests[q].kind \in Kinds
  PROVE  /\ requests[q] \in RoomRequest
         /\ requests[q].kind \in Naming => requests[q].identity \in RoomDevices
         /\ requests[q].kind \in {"restock", "revoke"} => OwnerIn(room, requests[q].address)
         /\ requests[q].kind \in Transactions /\ ~requests[q].stale => Fenced(room, registry, requests[q])
  BY IdleClaimsNothing DEF RoomInv, RequestOK

\* A bundle that is written for an address by one who claims it.
LEMMA BundleStep ==
  ASSUME RoomInv, NEW q \in RoomRequests, NEW a \in RoomAddresses, NEW b \in Bundle \cup {NoBundle},
         b.stored => Claims(room, bundles, requests, a, b.identity),
         bundles' = [bundles EXCEPT ![a] = b],
         requests' = [x \in RoomRequests |-> requests'[x]],
         \A p \in RoomRequests : Softened(requests[p], requests'[p]),
         UNCHANGED <<room, registry, withdrawn, durable>>
  PROVE  RoomInv'
<1>1. bundles' \in [RoomAddresses -> Bundle \cup {NoBundle}]
      /\ \A x \in RoomAddresses : bundles'[x] = IF x = a THEN b ELSE bundles[x]
  BY DEF RoomInv, RoomTyped
<1>2. \A x \in RoomAddresses, d \in RoomDevices :
            bundles'[x].stored /\ bundles'[x].identity = d => Claims(room, bundles, requests, x, d)
  BY <1>1, OldClaims
<1>3. room \in RoomDocument /\ OwnersOK(room.owners) /\ withdrawn \in BOOLEAN
      /\ (withdrawn => room.deleted /\ room.publications < Slots)
  BY DEF RoomInv, RoomTyped
<1> QED  BY <1>1, <1>2, <1>3, OldClaims, WriteStep

\* An answer ends a request.
LEMMA AnsweredSoftens ==
  ASSUME RoomInv, NEW q \in RoomRequests, requests' = Answered(q)
  PROVE  /\ requests' = [x \in RoomRequests |-> requests'[x]]
         /\ \A p \in RoomRequests : requests'[p] = requests[p] \/ requests'[p] = IdleRequest
  BY DEF RoomInv, RoomTyped, Answered

\* One request ends and one bundle is written.
LEMMA AnswerAndWrite ==
  ASSUME RoomInv, NEW q \in RoomRequests, NEW a \in RoomAddresses, NEW b \in Bundle \cup {NoBundle},
         b.stored => Claims(room, bundles, requests, a, b.identity),
         bundles' = [bundles EXCEPT ![a] = b], requests' = Answered(q),
         UNCHANGED <<room, registry, withdrawn, durable>>
  PROVE  RoomInv'
<1>1. bundles' \in [RoomAddresses -> Bundle \cup {NoBundle}]
      /\ \A x \in RoomAddresses : bundles'[x] = IF x = a THEN b ELSE bundles[x]
  BY DEF RoomInv, RoomTyped
<1>2. \A x \in RoomAddresses, d \in RoomDevices :
            bundles'[x].stored /\ bundles'[x].identity = d => Claims(room, bundles, requests, x, d)
  BY <1>1, OldClaims
<1>3. OneClaimant'
  <2>1. OneClaimant
    BY DEF RoomInv
  <2>2. \A p \in RoomRequests : \A x \in RoomAddresses, d \in RoomDevices :
            RequestClaims(requests'[p], x, d) => Claims(room, bundles, requests, x, d)
    BY AnsweredSoftens, IdleClaimsNothing, OldClaims
  <2> QED  BY <1>2, <2>1, <2>2, OldClaims, ClaimsMove
<1>4. \A p \in RoomRequests : RequestOK(room', registry', requests'[p])
  BY AnsweredSoftens, IdleIsOK DEF RoomInv
<1> QED  BY <1>1, <1>3, <1>4, AnsweredSoftens DEF RoomInv, RoomTyped

\* A publication inserts the bundle of its own device at its own address.
LEMMA InsertHolds ==
  ASSUME RoomInv, NEW q \in RoomRequests, InsertBundle(q) PROVE RoomInv'
<1> DEFINE r == requests[q]
           b == [stored |-> TRUE, identity |-> r.device, proof |-> r.device, fresh |-> TRUE]
<1>1. r.kind = "publish" /\ bundles' = [bundles EXCEPT ![r.address] = b] /\ requests' = Answered(q)
      /\ UNCHANGED <<room, registry, withdrawn, durable>>
  BY DEF InsertBundle, Doing
<1>2. r \in RoomRequest
  BY <1>1, RequestAtWork DEF Kinds
<1>3. r.address \in RoomAddresses /\ r.device \in RoomDevices /\ b \in Bundle \cup {NoBundle} /\ b.identity = r.device
  BY <1>2 DEF RoomRequest, Bundle
<1>4. Claims(room, bundles, requests, r.address, r.device)
  BY <1>1 DEF Claims, RequestClaims, Claimant, Claiming, Naming
<1> HIDE DEF b
<1> QED  BY <1>1, <1>3, <1>4, AnswerAndWrite

\* A renewal of the first protocol is asked for a bundle that its device has
\* proved, with the identity the bundle has.
LEMMA AskRenewalHolds ==
  ASSUME RoomInv, NEW q \in RoomRequests, NEW d \in RoomDevices, NEW a \in RoomAddresses, NEW b \in RoomDevices,
         AskRenewal(q, d, a, b)
  PROVE  RoomInv'
<1> DEFINE x == RoomAsked(q, "renew", d, a)
           r == [x EXCEPT !.identity = b]
<1>1. "renew" \in Kinds \cap Naming /\ "renew" \notin Transactions \cup {"restock", "revoke"}
  BY DEF Kinds, Naming, Transactions
<1>2. /\ bundles[a].stored /\ bundles[a].identity = b
      /\ requests' = [requests EXCEPT ![q] = r] /\ UNCHANGED <<room, bundles, registry, withdrawn, durable>>
  BY DEF AskRenewal, Proves
<1>3. x \in RoomRequest /\ x.kind = "renew" /\ x.address = a
  BY <1>1, AskedShape
<1> HIDE DEF x
<1>4. r \in RoomRequest /\ r.identity = b /\ r.kind = "renew" /\ r.address = a
  BY <1>3 DEF RoomRequest
<1> HIDE DEF r
<1>5. RequestOK(room, registry, r)
  BY <1>1, <1>4 DEF RequestOK
<1>6. ASSUME NEW z \in RoomAddresses, NEW y \in RoomDevices, RequestClaims(r, z, y)
      PROVE  Claims(room, bundles, requests, z, y)
  BY <1>1, <1>4, <1>2, <1>6 DEF RequestClaims, Claimant, Claims
<1>7. durable' \in BOOLEAN
  BY <1>2 DEF RoomInv, RoomTyped
<1> QED  BY <1>2, <1>5, <1>6, <1>7, RequestStep

\* A renewal rewrites a bundle that is there with the identity it was asked
\* with.
LEMMA RenewHolds ==
  ASSUME RoomInv, NEW q \in RoomRequests, RenewRoomBundle(q) PROVE RoomInv'
<1> DEFINE r == requests[q]
           a == r.address
           b == IF bundles[a].stored THEN [bundles[a] EXCEPT !.identity = r.identity, !.fresh = TRUE] ELSE bundles[a]
<1>1. /\ r.kind = "renew" /\ requests' = Answered(q) /\ UNCHANGED <<room, registry, withdrawn, durable>>
      /\ bundles' = IF bundles[a].stored
                  THEN [bundles EXCEPT ![a].identity = r.identity, ![a].fresh = TRUE] ELSE bundles
  BY DEF RenewRoomBundle, Doing
<1>2. "renew" \in Kinds \cap Naming \cap Claiming
  BY DEF Kinds, Naming, Claiming
<1>3. r \in RoomRequest /\ r.identity \in RoomDevices /\ a \in RoomAddresses
  BY <1>1, <1>2, RequestAtWork DEF RoomRequest
<1>4. Claims(room, bundles, requests, a, r.identity)
  BY <1>1, <1>2 DEF Claims, RequestClaims, Claimant
<1>5. bundles \in [RoomAddresses -> Bundle \cup {NoBundle}] /\ bundles[a] \in Bundle \cup {NoBundle}
  BY <1>3 DEF RoomInv, RoomTyped
<1>6. bundles' = [bundles EXCEPT ![a] = b]
  BY <1>1, <1>3, <1>5
<1>7. CASE bundles[a].stored
  <2>1. bundles[a] \in Bundle /\ b = [bundles[a] EXCEPT !.identity = r.identity, !.fresh = TRUE]
    BY <1>5, <1>7 DEF NoBundle
  <2>2. b \in Bundle /\ b.identity = r.identity
    BY <1>3, <2>1 DEF Bundle
  <2> HIDE DEF b
  <2> QED  BY <1>1, <1>3, <1>4, <1>6, <2>2, AnswerAndWrite
<1>8. CASE ~bundles[a].stored
  <2>1. b = bundles[a] /\ ~b.stored
    BY <1>8
  <2> HIDE DEF b
  <2> QED  BY <1>1, <1>3, <1>5, <1>6, <2>1, AnswerAndWrite
<1> QED  BY <1>7, <1>8

\* An adoption is asked by the identity of the bundle, for an address without
\* an owner.
LEMMA AskAdoptionHolds ==
  ASSUME RoomInv, NEW q \in RoomRequests, NEW d \in RoomDevices, NEW a \in RoomAddresses, AskAdoption(q, d, a)
  PROVE  RoomInv'
<1> DEFINE r == RoomAsked(q, "adopt", d, a)
<1>1. "adopt" \in Kinds /\ "adopt" \notin Naming \cup {"restock", "revoke"}
  BY DEF Kinds, Naming
<1>2. r \in RoomRequest /\ r.kind = "adopt" /\ r.device = d /\ r.address = a /\ r.epoch = registry[d].epoch
  BY <1>1, AskedShape
<1>3. /\ ~room.deleted /\ registry[d].active /\ ~HasOwner(a) /\ Len(room.owners) < Slots
      /\ bundles[a].stored /\ bundles[a].identity = d
      /\ requests' = [requests EXCEPT ![q] = r] /\ UNCHANGED <<room, bundles, registry, withdrawn, durable>>
  BY DEF AskAdoption, Admitted, Proves
<1> HIDE DEF r
<1>4. Fenced(room, registry, r)
  BY <1>2, <1>3, OwnerInHas DEF Fenced
<1>5. RequestOK(room, registry, r)
  BY <1>1, <1>2, <1>4 DEF RequestOK
<1>6. ASSUME NEW x \in RoomAddresses, NEW y \in RoomDevices, RequestClaims(r, x, y)
      PROVE  Claims(room, bundles, requests, x, y)
  BY <1>1, <1>2, <1>3, <1>6 DEF RequestClaims, Claimant, Claims
<1>7. durable' \in BOOLEAN
  BY <1>3 DEF RoomInv, RoomTyped
<1> QED  BY <1>3, <1>5, <1>6, <1>7, RequestStep

\* A restock is asked by the owner of the address, with the owner's identity.
LEMMA AskRestockHolds ==
  ASSUME RoomInv, NEW q \in RoomRequests, NEW d \in RoomDevices, NEW a \in RoomAddresses, NEW b \in RoomDevices,
         AskRestock(q, d, a, b)
  PROVE  RoomInv'
<1> DEFINE x == RoomAsked(q, "restock", d, a)
           r == [x EXCEPT !.identity = b]
<1>1. "restock" \in Kinds \cap Naming
  BY DEF Kinds, Naming
<1>2. /\ ~room.deleted /\ HasOwner(a) /\ OwnerOf(a).device = b
      /\ requests' = [requests EXCEPT ![q] = r] /\ UNCHANGED <<room, bundles, registry, withdrawn, durable>>
  BY DEF AskRestock, Admitted, Bound, Current
<1>3. x \in RoomRequest /\ x.kind = "restock" /\ x.address = a
  BY <1>1, AskedShape
<1> HIDE DEF x
<1>4. r \in RoomRequest /\ r.identity = b /\ r.kind = "restock" /\ r.address = a
  BY <1>3 DEF RoomRequest
<1> HIDE DEF r
<1>5. Fenced(room, registry, r)
  BY <1>4, <1>2 DEF Fenced
<1>6. RequestOK(room, registry, r)
  BY <1>4, <1>2, <1>5, OwnerFound DEF RequestOK
<1>7. ASSUME NEW z \in RoomAddresses, NEW y \in RoomDevices, RequestClaims(r, z, y)
      PROVE  Claims(room, bundles, requests, z, y)
  <2>1. z = a /\ y = b
    BY <1>1, <1>4, <1>7 DEF RequestClaims, Claimant
  <2> QED  BY <1>2, <2>1, OwnerFound DEF Claims
<1>8. durable' \in BOOLEAN
  BY <1>2 DEF RoomInv, RoomTyped
<1> QED  BY <1>2, <1>6, <1>7, <1>8, RequestStep

\* A revocation is asked by the active owner of the address.
LEMMA AskRevocationHolds ==
  ASSUME RoomInv, NEW q \in RoomRequests, NEW d \in RoomDevices, NEW a \in RoomAddresses, AskRevocation(q, d, a)
  PROVE  RoomInv'
<1> DEFINE r == RoomAsked(q, "revoke", d, a)
<1>1. "revoke" \in Kinds /\ "revoke" \notin Naming \cup Claiming
  BY DEF Kinds, Naming, Claiming
<1>2. r \in RoomRequest /\ r.kind = "revoke" /\ r.address = a
  BY <1>1, AskedShape
<1>3. /\ ~room.deleted /\ HasOwner(a) /\ OwnerOf(a).active
      /\ requests' = [requests EXCEPT ![q] = r] /\ UNCHANGED <<room, bundles, registry, withdrawn, durable>>
  BY DEF AskRevocation, Admitted, Bound, Current
<1> HIDE DEF r
<1>4. Fenced(room, registry, r)
  BY <1>2, <1>3, OwnerFound DEF Fenced
<1>5. RequestOK(room, registry, r)
  BY <1>1, <1>2, <1>3, <1>4, OwnerFound DEF RequestOK
<1>6. \A x, y : ~RequestClaims(r, x, y)
  BY <1>1, <1>2 DEF RequestClaims
<1>7. durable' \in BOOLEAN
  BY <1>3 DEF RoomInv, RoomTyped
<1> QED  BY <1>3, <1>5, <1>6, <1>7, RequestStep

\* A request for an identity claims nothing.
LEMMA AskIdentityHolds ==
  ASSUME RoomInv, NEW q \in RoomRequests, NEW d \in RoomDevices, NEW a \in RoomAddresses, AskIdentity(q, d, a)
  PROVE  RoomInv'
<1> DEFINE x == RoomAsked(q, "identity", d, a)
           r == [x EXCEPT !.identity = OwnerOf(a).device, !.generation = OwnerOf(a).generation]
<1>1. "identity" \in Kinds /\ "identity" \notin Naming \cup Claiming \cup Transactions \cup {"restock", "revoke"}
  BY DEF Kinds, Naming, Claiming, Transactions
<1>2. x \in RoomRequest /\ x.kind = "identity"
  BY <1>1, AskedShape
<1>3. /\ HasOwner(a)
      /\ requests' = [requests EXCEPT ![q] = r] /\ UNCHANGED <<room, bundles, registry, withdrawn, durable>>
  BY DEF AskIdentity, Current
<1>4. OwnerOf(a).device \in RoomDevices /\ OwnerOf(a).generation \in 0 .. 2
  BY <1>3, OwnerFound DEF Owner
<1> HIDE DEF x
<1>5. r \in RoomRequest /\ r.kind = "identity"
  BY <1>2, <1>4 DEF RoomRequest
<1> HIDE DEF r
<1>6. RequestOK(room, registry, r)
  BY <1>1, <1>5 DEF RequestOK
<1>7. \A y, z : ~RequestClaims(r, y, z)
  BY <1>1, <1>5 DEF RequestClaims
<1>8. durable' \in BOOLEAN
  BY <1>3 DEF RoomInv, RoomTyped
<1> QED  BY <1>3, <1>6, <1>7, <1>8, RequestStep

\* A request that was refused or answered.
LEMMA AnswerHolds ==
  ASSUME RoomInv, NEW q \in RoomRequests, requests' = Answered(q), UNCHANGED <<room, bundles, registry, withdrawn, durable>>
  PROVE  RoomInv'
<1>1. requests' = [requests EXCEPT ![q] = IdleRequest] /\ durable' \in BOOLEAN
  BY DEF Answered, RoomInv, RoomTyped
<1> QED  BY <1>1, IdleClaimsNothing, IdleIsOK, RequestStep

\* What a commit does to the requests.
LEMMA CommitShape ==
  ASSUME RoomInv, NEW q \in RoomRequests, NEW k \in Transactions, Commits(q, k)
  PROVE  /\ requests[q] \in RoomRequest /\ requests[q].kind = k
         /\ Fenced(room, registry, requests[q])
         /\ requests[q].kind \in Naming => requests[q].identity \in RoomDevices
         /\ requests[q].kind \in {"restock", "revoke"} => OwnerIn(room, requests[q].address)
         /\ requests[q].address \in RoomAddresses /\ requests[q].device \in RoomDevices
         /\ requests[q].epoch \in 0 .. 1
         /\ requests' = [x \in RoomRequests |-> requests'[x]]
         /\ \A p \in RoomRequests : Softened(requests[p], requests'[p])
<1>1. requests[q].kind = k /\ ~requests[q].stale
      /\ requests' = RoomWritten(DeviceWritten(Answered(q), requests[q].device))
  BY DEF Commits, Doing
<1>2. k \in Kinds
  BY DEF Transactions, Kinds
<1>3. requests[q] \in RoomRequest /\ Fenced(room, registry, requests[q])
      /\ (requests[q].kind \in Naming => requests[q].identity \in RoomDevices)
      /\ (requests[q].kind \in {"restock", "revoke"} => OwnerIn(room, requests[q].address))
  BY <1>1, <1>2, RequestAtWork
<1> QED  BY <1>1, <1>3, WrittenSoftens DEF RoomRequest

\* An adoption commits only if nobody has written the room since it was read,
\* so the address still has no owner, there is a slot for it, and its device is
\* active with the epoch it had.
LEMMA AdoptHolds ==
  ASSUME RoomInv, NEW q \in RoomRequests, Adopt(q) PROVE RoomInv' /\ OwnersChangeFenced
<1> DEFINE r == requests[q]
           o == [address |-> r.address, device |-> r.device, epoch |-> r.epoch, active |-> TRUE, generation |-> 1]
           n == Len(room.owners) + 1
<1>1. Commits(q, "adopt") /\ room' = [room EXCEPT !.owners = Append(room.owners, o)]
      /\ UNCHANGED <<bundles, registry, withdrawn, durable>>
  BY DEF Adopt
<1>2. "adopt" \in Transactions /\ "adopt" \in Claiming /\ "adopt" \notin Naming
  BY DEF Transactions, Claiming, Naming
<1>3. /\ r \in RoomRequest /\ r.kind = "adopt" /\ Fenced(room, registry, r)
      /\ r.address \in RoomAddresses /\ r.device \in RoomDevices /\ r.epoch \in 0 .. 1
      /\ requests' = [x \in RoomRequests |-> requests'[x]]
      /\ \A p \in RoomRequests : Softened(requests[p], requests'[p])
  BY <1>1, <1>2, CommitShape
<1>4. /\ ~room.deleted /\ ~OwnerIn(room, r.address) /\ Len(room.owners) < Slots
      /\ registry[r.device].active /\ registry[r.device].epoch = r.epoch
  BY <1>3 DEF Fenced
<1>5. o \in Owner /\ o.address = r.address /\ o.device = r.device /\ o.epoch = r.epoch /\ o.active /\ o.generation = 1
  BY <1>3 DEF Owner
<1>6. room.owners \in Seq(Owner) /\ OwnersOK(room.owners) /\ room \in RoomDocument
  BY DEF RoomInv, RoomTyped, RoomDocument
<1>7. room' \in RoomDocument /\ room'.owners = Append(room.owners, o) /\ room'.publications = room.publications
      /\ room'.deleted = room.deleted
  <2>1. Append(room.owners, o) \in Seq(Owner)
    BY <1>5, <1>6
  <2> HIDE DEF o
  <2> QED  BY <1>1, <1>6, <2>1 DEF RoomDocument
<1> HIDE DEF o
<1>8. /\ DOMAIN room'.owners = 1 .. n /\ DOMAIN room.owners = 1 .. Len(room.owners) /\ Len(room'.owners) = n
      /\ room'.owners[n] = o /\ \A i \in DOMAIN room.owners : room'.owners[i] = room.owners[i]
      /\ Len(room.owners) \in Nat
  BY <1>5, <1>6, <1>7
<1>9. \A i \in DOMAIN room'.owners : i \in DOMAIN room.owners \/ i = n
  BY <1>8
<1> HIDE DEF n
<1>10. OwnersOK(room'.owners)
  <2>1. Len(room'.owners) <= Slots
    <3>1. Len(room.owners) + 1 <= Slots
      BY <1>4, <1>8 DEF Slots
    <3> QED  BY <1>8, <3>1 DEF n
  <2>2. ASSUME NEW i \in DOMAIN room'.owners, NEW j \in DOMAIN room'.owners,
               room'.owners[i].address = room'.owners[j].address
        PROVE  i = j
    BY <1>4, <1>5, <1>6, <1>8, <1>9, <2>2 DEF OwnerIn, OwnersOK
  <2>3. \A i \in DOMAIN room'.owners : room'.owners[i].generation = IF room'.owners[i].active THEN 1 ELSE 2
    BY <1>5, <1>6, <1>8, <1>9 DEF OwnersOK
  <2> QED  BY <2>1, <2>2, <2>3 DEF OwnersOK
<1>11. \A a : OwnerIn(room, a) => OwnerIn(room', a)
  BY <1>8 DEF OwnerIn, n
<1>12. Claims(room, bundles, requests, r.address, r.device)
  BY <1>2, <1>3 DEF Claims, RequestClaims, Claimant
<1>13. ASSUME NEW i \in DOMAIN room'.owners
       PROVE  Claims(room, bundles, requests, room'.owners[i].address, room'.owners[i].device)
  BY <1>5, <1>8, <1>9, <1>12, OldClaims
<1>14. bundles' \in [RoomAddresses -> Bundle \cup {NoBundle}] /\ withdrawn' \in BOOLEAN
       /\ (withdrawn' => room'.deleted /\ room'.publications < Slots)
  BY <1>1, <1>7 DEF RoomInv, RoomTyped
<1>15. RoomInv'
  BY <1>1, <1>3, <1>7, <1>10, <1>11, <1>13, <1>14, OldClaims, WriteStep
<1>16. OwnersChangeFenced
  BY <1>4, <1>5, <1>8, <1>9 DEF OwnersChangeFenced
<1> QED  BY <1>15, <1>16

\* A restock commits with the identity of the owner.
LEMMA RestockHolds ==
  ASSUME RoomInv, NEW q \in RoomRequests, Restock(q) PROVE RoomInv'
<1> DEFINE r == requests[q]
           b == [stored |-> TRUE, identity |-> r.identity, proof |-> OwnerOf(r.address).device, fresh |-> TRUE]
<1>1. Commits(q, "restock") /\ bundles' = [bundles EXCEPT ![r.address] = b]
      /\ UNCHANGED <<room, registry, withdrawn, durable>>
  BY DEF Restock
<1>2. "restock" \in Transactions \cap Claiming \cap Naming
  BY DEF Transactions, Claiming, Naming
<1>3. /\ r \in RoomRequest /\ r.kind = "restock" /\ r.identity \in RoomDevices
      /\ r.address \in RoomAddresses /\ OwnerIn(room, r.address)
      /\ requests' = [x \in RoomRequests |-> requests'[x]]
      /\ \A p \in RoomRequests : Softened(requests[p], requests'[p])
  BY <1>1, <1>2, CommitShape
<1>4. OwnerOf(r.address).device \in RoomDevices
  BY <1>3, OwnerInHas, OwnerFound DEF Owner
<1>5. b \in Bundle \cup {NoBundle} /\ b.identity = r.identity
  BY <1>3, <1>4 DEF Bundle
<1>6. Claims(room, bundles, requests, r.address, r.identity)
  BY <1>2, <1>3 DEF Claims, RequestClaims, Claimant
<1> HIDE DEF b
<1> QED  BY <1>1, <1>3, <1>5, <1>6, BundleStep

\* A revocation makes its owner inactive for good; who the owner is does not
\* change.
LEMMA RevokeHolds ==
  ASSUME RoomInv, NEW q \in RoomRequests, Revoke(q) PROVE RoomInv' /\ OwnersChangeFenced
<1> DEFINE r == requests[q]
           os == [i \in DOMAIN room.owners |-> Tombstone(room.owners[i], r.address)]
<1>1. Commits(q, "revoke") /\ room' = [room EXCEPT !.owners = os]
      /\ UNCHANGED <<bundles, registry, withdrawn, durable>>
  BY DEF Revoke
<1>2. "revoke" \in Transactions
  BY DEF Transactions
<1>3. /\ r \in RoomRequest /\ r.kind = "revoke" /\ Fenced(room, registry, r)
      /\ requests' = [x \in RoomRequests |-> requests'[x]]
      /\ \A p \in RoomRequests : Softened(requests[p], requests'[p])
  BY <1>1, <1>2, CommitShape
<1>4. ~room.deleted /\ \A i \in DOMAIN room.owners : room.owners[i].address = r.address => room.owners[i].active
  BY <1>3 DEF Fenced
<1>5. room.owners \in Seq(Owner) /\ OwnersOK(room.owners) /\ room \in RoomDocument
  BY DEF RoomInv, RoomTyped, RoomDocument
<1>6. ASSUME NEW i \in DOMAIN room.owners
      PROVE  /\ os[i] \in Owner /\ os[i].address = room.owners[i].address /\ os[i].device = room.owners[i].device
             /\ os[i].generation = IF os[i].active THEN 1 ELSE 2
             /\ ~room.owners[i].active => os[i] = room.owners[i]
  <2>1. room.owners[i] \in Owner /\ room.owners[i].generation = IF room.owners[i].active THEN 1 ELSE 2
    BY <1>5 DEF OwnersOK
  <2>2. CASE room.owners[i].address = r.address
    <3>1. room.owners[i].generation = 1
      BY <1>4, <2>1, <2>2
    <3>2. os[i] = [room.owners[i] EXCEPT !.active = FALSE, !.generation = 1 + 1]
      BY <2>2, <3>1 DEF Tombstone
    <3> HIDE DEF os
    <3>3. 1 + 1 = 2 /\ 2 \in 1 .. 2 /\ FALSE \in BOOLEAN
      OBVIOUS
    <3>4. os[i] \in Owner
      BY <2>1, <3>2, <3>3 DEF Owner
    <3>5. os[i].address = room.owners[i].address /\ os[i].device = room.owners[i].device
      BY <2>1, <3>2 DEF Owner
    <3>6. os[i].generation = 2 /\ ~os[i].active
      BY <2>1, <3>2, <3>3 DEF Owner
    <3> QED  BY <1>4, <2>2, <3>4, <3>5, <3>6
  <2>3. CASE room.owners[i].address # r.address
    BY <2>1, <2>3 DEF Tombstone
  <2> QED  BY <2>2, <2>3
<1>7. DOMAIN room.owners = 1 .. Len(room.owners) /\ Len(room.owners) \in Nat
  BY <1>5
<1>8. os \in Seq(Owner) /\ Len(os) = Len(room.owners) /\ DOMAIN os = DOMAIN room.owners
  <2>1. os \in [1 .. Len(room.owners) -> Owner]
    BY <1>6, <1>7
  <2> QED  BY <1>7, <2>1
<1> HIDE DEF os
<1>9. room' \in RoomDocument /\ room'.owners = os /\ room'.publications = room.publications
      /\ room'.deleted = room.deleted
  BY <1>1, <1>5, <1>8 DEF RoomDocument
<1>10. OwnersOK(room'.owners)
  BY <1>5, <1>6, <1>8, <1>9 DEF OwnersOK
<1>11. \A a : OwnerIn(room, a) => OwnerIn(room', a)
  BY <1>6, <1>8, <1>9 DEF OwnerIn
<1>12. ASSUME NEW i \in DOMAIN room'.owners
       PROVE  Claims(room, bundles, requests, room'.owners[i].address, room'.owners[i].device)
  BY <1>6, <1>8, <1>9, OldClaims
<1>13. bundles' \in [RoomAddresses -> Bundle \cup {NoBundle}] /\ withdrawn' \in BOOLEAN
       /\ (withdrawn' => room'.deleted /\ room'.publications < Slots)
  BY <1>1, <1>9 DEF RoomInv, RoomTyped
<1>14. RoomInv'
  BY <1>1, <1>3, <1>9, <1>10, <1>11, <1>12, <1>13, OldClaims, WriteStep
<1>15. OwnersChangeFenced
  BY <1>4, <1>6, <1>8, <1>9 DEF OwnersChangeFenced
<1> QED  BY <1>14, <1>15

\* A transaction that met a conflict starts again with what the room and its
\* device are now, or ends.
LEMMA RestartHolds ==
  ASSUME RoomInv, NEW q \in RoomRequests, Restart(q) PROVE RoomInv'
<1> DEFINE r == requests[q]
<1>1. r.kind \in Transactions /\ r.stale /\ Readable(q) /\ UNCHANGED <<room, bundles, registry, withdrawn, durable>>
  BY DEF Restart
<1>2. Transactions \subseteq Kinds
  BY DEF Transactions, Kinds
<1>3. /\ r \in RoomRequest /\ (r.kind \in Naming => r.identity \in RoomDevices)
      /\ (r.kind \in {"restock", "revoke"} => OwnerIn(room, r.address))
  BY <1>1, <1>2, RequestAtWork
<1>4. room \in RoomDocument /\ OwnersOK(room.owners) /\ withdrawn \in BOOLEAN /\ durable \in BOOLEAN
      /\ bundles \in [RoomAddresses -> Bundle \cup {NoBundle}]
      /\ (withdrawn => room.deleted /\ room.publications < Slots)
  BY DEF RoomInv, RoomTyped
<1>5. CASE Doing(q, "adopt") /\ HasOwner(r.address)
  <2>1. requests' = RoomWritten(DeviceWritten(Answered(q), r.device))
    BY <1>5 DEF Restart
  <2>2. /\ requests' = [x \in RoomRequests |-> requests'[x]]
        /\ \A p \in RoomRequests : Softened(requests[p], requests'[p])
    BY <2>1, WrittenSoftens
  <2> QED  BY <1>1, <1>4, <2>2, OldClaims, WriteStep
<1>6. CASE ~(Doing(q, "adopt") /\ HasOwner(r.address))
  <2> DEFINE s == [r EXCEPT !.stale = FALSE]
  <2>1. requests' = [requests EXCEPT ![q] = s]
    BY <1>6 DEF Restart
  <2>2. /\ s \in RoomRequest /\ s.kind = r.kind /\ s.address = r.address /\ s.identity = r.identity
        /\ s.device = r.device /\ s.epoch = r.epoch
    BY <1>3 DEF RoomRequest
  <2> HIDE DEF s
  <2>3. Fenced(room, registry, s)
    <3>1. ~room.deleted
      BY <1>1 DEF Readable
    <3>2. CASE s.kind = "adopt"
      <4>1. ~HasOwner(r.address) /\ Len(room.owners) < Slots
        BY <1>1, <1>6, <2>2, <3>2 DEF Readable, Doing
      <4>2. registry[r.device].active /\ registry[r.device].epoch = r.epoch
        BY <1>1 DEF Readable
      <4> QED  BY <2>2, <3>1, <3>2, <4>1, <4>2, OwnerInHas DEF Fenced
    <3>3. CASE s.kind = "revoke"
      <4>1. HasOwner(r.address) /\ OwnerOf(r.address).active
        BY <1>1, <2>2, <3>3 DEF Readable, Doing
      <4> QED  BY <2>2, <3>1, <3>3, <4>1, OwnerFound DEF Fenced
    <3> QED  BY <3>1, <3>2, <3>3 DEF Fenced
  <2>4. RequestOK(room, registry, s)
    BY <1>3, <2>2, <2>3 DEF RequestOK
  <2>5. ASSUME NEW a \in RoomAddresses, NEW d \in RoomDevices, RequestClaims(s, a, d)
        PROVE  Claims(room, bundles, requests, a, d)
    BY <2>2, <2>5, OldClaims DEF RequestClaims, Claimant
  <2> QED  BY <1>1, <1>4, <2>1, <2>4, <2>5, RequestStep
<1> QED  BY <1>5, <1>6

\* A deletion, or the withdrawal of a pending invitation, changes neither
\* owners nor bundles.
LEMMA DeletionHolds ==
  ASSUME RoomInv, room' = [room EXCEPT !.deleted = TRUE], requests' = RoomWritten(requests),
         withdrawn' = withdrawn \/ (withdrawn' = TRUE /\ room.publications < Slots),
         UNCHANGED <<bundles, registry, durable>>
  PROVE  RoomInv'
<1>1. room' \in RoomDocument /\ room'.deleted /\ room'.owners = room.owners /\ room'.publications = room.publications
  BY DEF RoomInv, RoomTyped, RoomDocument
<1>2. withdrawn' \in BOOLEAN /\ (withdrawn' => room'.deleted /\ room'.publications < Slots)
  <2>1. withdrawn \in BOOLEAN /\ (withdrawn => room.publications < Slots)
    BY DEF RoomInv, RoomTyped
  <2>2. withdrawn' \in BOOLEAN
    BY <2>1, Zenon
  <2>3. withdrawn' => room.publications < Slots
    BY <2>1, Zenon
  <2> QED  BY <1>1, <2>2, <2>3
<1>3. CASE RoomRequests = {}
  <2>1. requests' = [x \in RoomRequests |-> requests'[x]]
    BY DEF RoomWritten
  <2> QED  BY <1>1, <1>2, <1>3, <2>1, OldClaims, WriteStep DEF RoomInv, RoomTyped, OwnerIn
<1>4. CASE RoomRequests # {}
  <2>1. PICK q \in RoomRequests : TRUE
    BY <1>4
  <2>2. requests' = [x \in RoomRequests |-> requests'[x]]
        /\ \A p \in RoomRequests : Softened(requests[p], requests'[p])
    BY <2>1, WrittenSoftens
  <2> QED  BY <1>1, <1>2, <2>2, OldClaims, WriteStep DEF RoomInv, RoomTyped, OwnerIn
<1> QED  BY <1>3, <1>4

\* Nor does the end of its invitation.
LEMMA InvitationHolds ==
  ASSUME RoomInv, InvitationPasses PROVE RoomInv'
<1>1. /\ room' \in RoomDocument /\ room'.deleted = room.deleted /\ room'.owners = room.owners
      /\ room'.publications = room.publications /\ UNCHANGED <<bundles, registry, requests, withdrawn, durable>>
  BY DEF InvitationPasses, RoomInv, RoomTyped, RoomDocument
<1>2. OneClaimant'
  BY <1>1, OldClaims, ClaimsMove DEF RoomInv
<1>3. ASSUME NEW q \in RoomRequests PROVE RequestOK(room', registry', requests'[q])
  BY <1>1 DEF RoomInv, RequestOK, Fenced, OwnerIn
<1>4. RoomTyped'
  BY <1>1 DEF RoomInv, RoomTyped
<1>5. OwnersOK(room.owners)' /\ (withdrawn' => room'.deleted /\ room'.publications < Slots)
  BY <1>1 DEF RoomInv
<1> QED  BY <1>2, <1>3, <1>4, <1>5 DEF RoomInv

\* Bundles that pass or go take no claim with them that another does not hold.
LEMMA BundlesHolds ==
  ASSUME RoomInv, bundles' \in [RoomAddresses -> Bundle \cup {NoBundle}],
         \A a \in RoomAddresses : bundles'[a].stored => bundles[a].stored /\ bundles'[a].identity = bundles[a].identity,
         UNCHANGED <<room, registry, requests, withdrawn, durable>>
  PROVE  RoomInv'
<1>1. OneClaimant'
  BY OldClaims, ClaimsMove DEF RoomInv
<1>2. \A q \in RoomRequests : RequestOK(room', registry', requests'[q])
  BY DEF RoomInv
<1>3. RoomTyped'
  BY DEF RoomInv, RoomTyped
<1>4. OwnersOK(room.owners)' /\ (withdrawn' => room'.deleted /\ room'.publications < Slots)
  BY DEF RoomInv
<1> QED  BY <1>1, <1>2, <1>3, <1>4 DEF RoomInv

\* A bundle passes its lifetime.
LEMMA BundlePassesHolds ==
  ASSUME RoomInv, NEW a \in RoomAddresses, BundlePasses(a) PROVE RoomInv'
<1> DEFINE b == [bundles[a] EXCEPT !.fresh = FALSE]
<1>1. bundles[a].stored /\ bundles' = [bundles EXCEPT ![a] = b]
      /\ UNCHANGED <<room, registry, requests, withdrawn, durable>>
  BY DEF BundlePasses
<1>2. bundles \in [RoomAddresses -> Bundle \cup {NoBundle}]
  BY DEF RoomInv, RoomTyped
<1>3. bundles[a] \in Bundle
  BY <1>1, <1>2 DEF NoBundle
<1>4. b \in Bundle /\ b.identity = bundles[a].identity
  BY <1>3 DEF Bundle
<1> HIDE DEF b
<1> QED  BY <1>1, <1>2, <1>4, BundlesHolds

\* cleanupExpiredPrekeyBundles removes the bundles that have passed theirs.
LEMMA CleanupHolds ==
  ASSUME RoomInv, CleanupExpiredPrekeyBundles PROVE RoomInv'
<1>1. \A a \in RoomAddresses : bundles'[a] = NoBundle \/ bundles'[a] = bundles[a]
  BY DEF CleanupExpiredPrekeyBundles
<1>2. ~NoBundle.stored
  BY DEF NoBundle
<1>3. bundles' \in [RoomAddresses -> Bundle \cup {NoBundle}]
  BY DEF CleanupExpiredPrekeyBundles, RoomInv, RoomTyped
<1> QED  BY <1>1, <1>2, <1>3, BundlesHolds DEF CleanupExpiredPrekeyBundles

\* A new epoch of a device, or its end, makes the transactions stale that have
\* fenced it.
LEMMA UpdateDeviceHolds ==
  ASSUME RoomInv, NEW d \in RoomDevices, UpdateDevice(d) PROVE RoomInv'
<1>1. PICK n \in [active : BOOLEAN, epoch : 0 .. 1] : registry' = [registry EXCEPT ![d] = n]
  <2>1. registry[d].epoch \in 0 .. 1 /\ 1 \in 0 .. 1 /\ TRUE \in BOOLEAN /\ FALSE \in BOOLEAN
    BY DEF RoomInv, RoomTyped
  <2> DEFINE x == [active |-> FALSE, epoch |-> registry[d].epoch]
             y == [active |-> TRUE, epoch |-> 1]
  <2>2. x \in [active : BOOLEAN, epoch : 0 .. 1] /\ y \in [active : BOOLEAN, epoch : 0 .. 1]
    BY <2>1
  <2>3. \E next \in {x, y} : registry' = [registry EXCEPT ![d] = next]
    BY DEF UpdateDevice
  <2> QED  BY <2>2, <2>3
<1>2. requests' = DeviceWritten(requests, d) /\ UNCHANGED <<room, bundles, withdrawn, durable>>
  BY DEF UpdateDevice
<1>3. ASSUME NEW p \in RoomRequests
      PROVE  RequestOK(room, registry', requests'[p])
             /\ \A a, x : RequestClaims(requests'[p], a, x) => RequestClaims(requests[p], a, x)
  <2>1. RequestOK(room, registry, requests[p])
    BY DEF RoomInv
  <2>2. CASE requests[p].kind \in Transactions /\ requests[p].device = d
    <3>1. requests'[p] = Staled(requests[p])
      BY <1>2, <2>2 DEF DeviceWritten, Staled
    <3>2. Softened(requests[p], requests'[p])
      BY <2>1, <3>1, StaleSoftens
    <3> QED  BY <2>1, <3>2, SoftenedOK, SoftenedClaims
  <2>3. CASE ~(requests[p].kind \in Transactions /\ requests[p].device = d)
    <3>1. requests'[p] = requests[p]
      BY <1>2, <2>3 DEF DeviceWritten
    <3>2. CASE requests[p] = IdleRequest
      BY <3>1, <3>2, IdleIsOK
    <3>3. CASE requests[p] # IdleRequest
      <4>1. requests[p] \in RoomRequest /\ requests[p].device \in RoomDevices
        BY <2>1, <3>3 DEF RequestOK, RoomRequest
      <4>2. requests[p].kind \in Transactions => registry'[requests[p].device] = registry[requests[p].device]
        BY <1>1, <2>3, <4>1 DEF RoomInv, RoomTyped
      <4>3. requests[p].kind = "adopt" => requests[p].kind \in Transactions
        BY DEF Transactions
      <4> QED  BY <2>1, <3>1, <3>3, <4>2, <4>3 DEF RequestOK, Fenced
    <3> QED  BY <3>2, <3>3
  <2> QED  BY <2>2, <2>3
<1>4. OneClaimant'
  <2>1. OneClaimant
    BY DEF RoomInv
  <2> QED  BY <1>2, <1>3, <2>1, OldClaims, ClaimsMove
<1>5. requests' = [q \in RoomRequests |-> requests'[q]]
  BY <1>2 DEF DeviceWritten
<1>6. registry' \in [RoomDevices -> [active : BOOLEAN, epoch : 0 .. 1]]
  BY <1>1 DEF RoomInv, RoomTyped
<1>7. RoomTyped'
  BY <1>2, <1>5, <1>6 DEF RoomInv, RoomTyped
<1>8. \A q \in RoomRequests : RequestOK(room', registry', requests'[q])
  BY <1>2, <1>3
<1> QED  BY <1>2, <1>4, <1>7, <1>8 DEF RoomInv

\* A restart of the relay with the other setting ends every request and changes
\* no record.
LEMMA SwitchHolds ==
  ASSUME RoomInv, SwitchRouting PROVE RoomInv'
<1>1. /\ durable' \in BOOLEAN /\ requests' = [q \in RoomRequests |-> IdleRequest]
      /\ UNCHANGED <<room, bundles, registry, withdrawn>>
  BY DEF SwitchRouting, RoomInv, RoomTyped
<1>2. OneClaimant'
  <2>1. OneClaimant
    BY DEF RoomInv
  <2> QED  BY <1>1, <2>1, OldClaims, IdleClaimsNothing, ClaimsMove
<1> QED  BY <1>1, <1>2, IdleIsOK DEF RoomInv, RoomTyped

\* An empty room.
LEMMA RoomInitHolds == RoomInit => RoomInv
<1> SUFFICES ASSUME RoomInit PROVE RoomInv
  OBVIOUS
<1>1. room.owners = <<>> /\ room.publications = 0 /\ ~withdrawn /\ durable
  BY DEF RoomInit
<1>2. room \in RoomDocument
  <2>1. <<>> \in Seq(Owner) /\ 0 \in 0 .. Slots /\ TRUE \in BOOLEAN /\ FALSE \in BOOLEAN
    BY DEF Slots
  <2> QED  BY <2>1 DEF RoomInit, RoomDocument
<1>3. /\ bundles \in [RoomAddresses -> Bundle \cup {NoBundle}] /\ \A a \in RoomAddresses : ~bundles[a].stored
  BY DEF RoomInit, NoBundle
<1>4. registry \in [RoomDevices -> [active : BOOLEAN, epoch : 0 .. 1]]
  <2>1. [active |-> TRUE, epoch |-> 0] \in [active : BOOLEAN, epoch : 0 .. 1]
    BY DEF RoomInit
  <2> QED  BY <2>1 DEF RoomInit
<1>5. requests = [q \in RoomRequests |-> IdleRequest]
  BY DEF RoomInit
<1>6. RoomTyped
  <2>1. withdrawn \in BOOLEAN /\ durable \in BOOLEAN
    BY DEF RoomInit
  <2> QED  BY <1>2, <1>3, <1>4, <1>5, <2>1 DEF RoomTyped
<1>7. DOMAIN room.owners = {}
  BY <1>1
<1>8. OneClaimant
  BY <1>3, <1>5, <1>7, IdleClaimsNothing DEF OneClaimant, Claims
<1>9. OwnersOK(room.owners)
  BY <1>1, <1>7 DEF OwnersOK, Slots
<1> QED  BY <1>1, <1>5, <1>6, <1>8, <1>9, IdleIsOK DEF RoomInv

\* Every step keeps the invariant.
LEMMA RoomStepHolds ==
  ASSUME RoomInv, [RoomNext]_roomVars PROVE RoomInv' /\ [OwnersChangeFenced]_roomVars
<1> DEFINE Promised == RoomInv' /\ OwnersChangeFenced
<1>u. UNCHANGED room => OwnersChangeFenced
  BY DEF OwnersChangeFenced
<1>1. ASSUME NEW q \in RoomRequests, NEW d \in RoomDevices, ReserveInvitationPublication(q, d) PROVE Promised
  <2>1. room'.owners = room.owners
    BY <1>1 DEF ReserveInvitationPublication, RoomInv, RoomTyped, RoomDocument
  <2> QED  BY <1>1, <2>1, ReserveHolds DEF OwnersChangeFenced
<1>2. ASSUME NEW q \in RoomRequests, NEW d \in RoomDevices, NEW a \in RoomAddresses, NEW b \in RoomDevices,
             AskRenewal(q, d, a, b)
      PROVE  Promised
  BY <1>2, <1>u, AskRenewalHolds DEF AskRenewal
<1>3. ASSUME NEW q \in RoomRequests, InsertBundle(q) PROVE Promised
  BY <1>3, <1>u, InsertHolds DEF InsertBundle
<1>4. ASSUME NEW q \in RoomRequests, RenewRoomBundle(q) PROVE Promised
  BY <1>4, <1>u, RenewHolds DEF RenewRoomBundle
<1>5. ASSUME NEW q \in RoomRequests, Authenticated(q) PROVE Promised
  <2>1. ASSUME NEW d \in RoomDevices, NEW a \in RoomAddresses, AskAdoption(q, d, a) PROVE Promised
    BY <2>1, <1>u, AskAdoptionHolds DEF AskAdoption
  <2>2. ASSUME NEW d \in RoomDevices, NEW a \in RoomAddresses, AskRevocation(q, d, a) PROVE Promised
    BY <2>2, <1>u, AskRevocationHolds DEF AskRevocation
  <2>3. ASSUME NEW d \in RoomDevices, NEW a \in RoomAddresses, AskIdentity(q, d, a) PROVE Promised
    BY <2>3, <1>u, AskIdentityHolds DEF AskIdentity
  <2>4. ASSUME NEW d \in RoomDevices, NEW a \in RoomAddresses, NEW b \in RoomDevices, AskRestock(q, d, a, b)
        PROVE  Promised
    BY <2>4, <1>u, AskRestockHolds DEF AskRestock
  <2>5. ASSUME Adopt(q) PROVE Promised
    BY <2>5, AdoptHolds
  <2>6. ASSUME Restock(q) PROVE Promised
    BY <2>6, <1>u, RestockHolds DEF Restock
  <2>7. ASSUME Revoke(q) PROVE Promised
    BY <2>7, RevokeHolds
  <2>8. ASSUME Restart(q) PROVE Promised
    BY <2>8, <1>u, RestartHolds DEF Restart
  <2>9. ASSUME ShowIdentity(q) PROVE Promised
    BY <2>9, <1>u, AnswerHolds DEF ShowIdentity
  <2> HIDE DEF Promised
  <2> QED  BY <1>5, <2>1, <2>2, <2>3, <2>4, <2>5, <2>6, <2>7, <2>8, <2>9 DEF Authenticated
<1>6. ASSUME NEW q \in RoomRequests, Deny(q) PROVE Promised
  BY <1>6, <1>u, AnswerHolds DEF Deny
<1>7. ASSUME RevokePendingInvitation \/ DeleteRoom PROVE Promised
  <2>1. room'.owners = room.owners
    BY <1>7 DEF RevokePendingInvitation, DeleteRoom, RoomInv, RoomTyped, RoomDocument
  <2>2. withdrawn' = withdrawn \/ (withdrawn' = TRUE /\ room.publications < Slots)
    BY <1>7 DEF RevokePendingInvitation, DeleteRoom, Revocable
  <2>3. RoomInv'
    BY <1>7, <2>2, DeletionHolds DEF RevokePendingInvitation, DeleteRoom
  <2> QED  BY <2>1, <2>3 DEF OwnersChangeFenced
<1>8. ASSUME InvitationPasses PROVE Promised
  <2>1. room'.owners = room.owners
    BY <1>8 DEF InvitationPasses, RoomInv, RoomTyped, RoomDocument
  <2> QED  BY <1>8, <2>1, InvitationHolds DEF OwnersChangeFenced
<1>9. ASSUME NEW a \in RoomAddresses, BundlePasses(a) PROVE Promised
  BY <1>9, <1>u, BundlePassesHolds DEF BundlePasses
<1>10. ASSUME CleanupExpiredPrekeyBundles PROVE Promised
  BY <1>10, <1>u, CleanupHolds DEF CleanupExpiredPrekeyBundles
<1>11. ASSUME NEW d \in RoomDevices, UpdateDevice(d) PROVE Promised
  BY <1>11, <1>u, UpdateDeviceHolds DEF UpdateDevice
<1>12. ASSUME SwitchRouting PROVE Promised
  BY <1>12, <1>u, SwitchHolds DEF SwitchRouting
<1>13. CASE UNCHANGED roomVars
  <2>1. RoomTyped' /\ OneClaimant'
    BY <1>13 DEF roomVars, RoomInv, RoomTyped, OneClaimant
  <2> QED  BY <1>13, <2>1 DEF roomVars, RoomInv
<1>14. CASE RoomNext
  <2> HIDE DEF Promised
  <2>1. Promised
    BY <1>1, <1>2, <1>3, <1>4, <1>5, <1>6, <1>7, <1>8, <1>9, <1>10, <1>11, <1>12, <1>14 DEF RoomNext
  <2> QED  BY <2>1 DEF Promised
<1> QED  BY <1>13, <1>14

\* One claimant of each address is what the runs check of the room.
LEMMA RoomInvPromises ==
  ASSUME RoomInv PROVE RoomTypeOK /\ OneWinner /\ KeysBelongToOwner
<1>1. RoomTypeOK
  <2>1. \A q \in RoomRequests : requests[q].kind \in Kinds \cup {"idle"}
    BY IdleClaimsNothing DEF RoomInv, RequestOK, RoomRequest
  <2> QED  BY <2>1 DEF RoomInv, RoomTyped, RoomDocument, RoomTypeOK
<1>2. OneWinner
  BY DEF RoomInv, OneWinner, RoomTyped, RoomDocument, Slots
<1>3. KeysBelongToOwner
  <2>1. ASSUME NEW i \in DOMAIN room.owners, bundles[room.owners[i].address].stored
        PROVE  bundles[room.owners[i].address].identity = room.owners[i].device
    <3> DEFINE a == room.owners[i].address
    <3>1. room.owners[i] \in Owner
      BY DEF RoomInv, RoomTyped, RoomDocument
    <3>2. a \in RoomAddresses /\ room.owners[i].device \in RoomDevices
      BY <3>1 DEF Owner
    <3>3. bundles[a] \in Bundle
      BY <2>1, <3>2 DEF RoomInv, RoomTyped, NoBundle
    <3>4. bundles[a].identity \in RoomDevices
      BY <3>3 DEF Bundle
    <3> QED  BY <2>1, <3>2, <3>4, OldClaims DEF RoomInv, OneClaimant
  <2> QED  BY <2>1 DEF KeysBelongToOwner, RoomInv, OwnersOK
<1> QED  BY <1>1, <1>2, <1>3

\* However many publications, renewals, adoptions, restocks, revocations and
\* deletions of a room are under way at once, and in whatever order their reads
\* and commits fall: a join and a withdrawal do not both win, at most two
\* addresses are bound and none twice, the keys served under a bound address
\* are its owner's, and owners change only as the room and the device's record
\* stand at that moment.
THEOREM RoomIsCorrect == RoomSpec => RoomCorrect
<1>1. RoomInit => RoomInv
  BY RoomInitHolds
<1>2. RoomInv /\ [RoomNext]_roomVars => RoomInv' /\ [OwnersChangeFenced]_roomVars
  BY RoomStepHolds
<1>3. RoomInv => RoomTypeOK /\ OneWinner /\ KeysBelongToOwner
  BY RoomInvPromises
<1>4. RoomSpec => [](RoomTypeOK /\ OneWinner /\ KeysBelongToOwner) /\ [][OwnersChangeFenced]_roomVars
  BY <1>1, <1>2, <1>3, PTL DEF RoomSpec
<1> QED  BY <1>4 DEF RoomCorrect

Epochs     == Nowhere .. MaxListEpoch
Controller == [admission : {"idle", "prepare", "prepared", "ready", "transfer"}, live : BOOLEAN,
               phase : {"none", "authorized", "transferring", "completed", "failed"},
               transfer : 0 .. MaxTransfers, at : Epochs, chunks : SUBSET Chunks, manifest : BOOLEAN]
LiveFits(c) == c.live => c.transfer \in 1 .. MaxTransfers /\ c.at \in 0 .. MaxListEpoch
Claim      == [to : Controllers, transfer : Int, sequence : Int]
ClaimOf(p) == [to |-> p.to, transfer |-> p.transfer, sequence |-> p.sequence]
DiskRecord == [checkpoint : Epochs, claims : SUBSET Claim]
Imports    == [contact : {"kept", "verified", "unverified"}, list : {"kept", "replaced"}]
SyncJob    == [by : Controllers, op : {"state", "receive", "completed", "failed"}, base : Int,
               pkg : [to : Controllers, transfer : Int, sequence : Int, epoch : Int],
               step : {"load", "swap"}, next : DiskRecord,
               writes : Imports, moved : BOOLEAN]
Marks      == {"unverified", "verified", "changed"}

\* A transaction's package is its controller's own.
PackageFits(j) == IF j.op = "receive" THEN j.pkg \in Packages /\ j.pkg.to = j.by
                                      ELSE j.pkg.sequence \notin Chunks
\* What a transaction that was not overtaken will write follows from what is on disk.
JobFits(disk, mark, j) ==
    /\ PackageFits(j)
    /\ j.step = "swap" /\ ~j.moved =>
          /\ disk.checkpoint <= j.next.checkpoint /\ disk.claims \subseteq j.next.claims
          /\ j.op = "receive" => ClaimOf(j.pkg) \in j.next.claims /\ ClaimOf(j.pkg) \notin disk.claims
          /\ j.writes.list # "kept" => j.op = "receive"
          /\ j.writes.contact = "verified" => mark = "verified"
          /\ j.writes.contact = "unverified" => mark # "changed"

SyncInv ==
    /\ ctl \in [Controllers -> Controller] /\ \A k \in Controllers : LiveFits(ctl[k])
    /\ link \in [Controllers -> [route : {"none", "bound", "ghost"}, flying : SUBSET Packages]]
    /\ jobs \subseteq SyncJob /\ \A j \in jobs : JobFits(syncDisk, contact.mark, j)
    /\ syncDisk \in DiskRecord
    /\ contact \in [mark : Marks] /\ byHand \in [compared : BOOLEAN, pending : BOOLEAN]
    /\ list \in [epoch : 0 .. MaxListEpoch, mark : 0 .. MaxListEpoch, real : 0 .. MaxListEpoch]
    /\ DOMAIN applied \subseteq Packages /\ told \subseteq DOMAIN applied
    /\ \A p \in DOMAIN applied : applied[p] = 1 /\ ClaimOf(p) \in syncDisk.claims
    /\ CheckedByHand

-----------------------------------------------------------------------------
\* The bounds, as they are used.
LEMMA SyncConstants ==
  /\ ChunkKinds \in Seq(SUBSET {"plain", "contact", "device"}) /\ Len(ChunkKinds) \in Nat
  /\ Chunks = 1 .. Len(ChunkKinds) /\ Manifest \in Nat /\ Manifest \notin Chunks
  /\ \A n \in Sequences : n \in Nat /\ (n # Manifest => n \in Chunks)
  /\ 0 \notin Chunks
  /\ MaxTransfers \in Nat /\ MaxListEpoch \in Nat
<1>1. ChunkKinds \in Seq(SUBSET {"plain", "contact", "device"}) /\ MaxTransfers \in Nat /\ MaxListEpoch \in Nat
  BY SyncAssumption
<1>2. Len(ChunkKinds) \in Nat /\ DOMAIN ChunkKinds = 1 .. Len(ChunkKinds)
  BY <1>1
<1> QED  BY <1>1, <1>2 DEF Chunks, Manifest, Sequences

\* The fields of a package.
LEMMA PackageShape ==
  ASSUME NEW p \in Packages
  PROVE  /\ p.to \in Controllers /\ p.transfer \in 1 .. MaxTransfers /\ p.sequence \in Sequences
         /\ p.epoch \in 0 .. MaxListEpoch /\ p.epoch \in Epochs
         /\ p \in [to : Controllers, transfer : Int, sequence : Int, epoch : Int]
         /\ ClaimOf(p) \in Claim
  BY SyncConstants DEF Packages, ClaimOf, Claim, Epochs, Nowhere

\* ... and of none.
LEMMA NoPackageShape ==
  ASSUME NEW k \in Controllers
  PROVE  NoPackage(k) \in [to : Controllers, transfer : Int, sequence : Int, epoch : Int]
         /\ NoPackage(k).sequence \notin Chunks
  BY SyncConstants DEF NoPackage, Nowhere

\* Nothing is stored of a transfer at first.
LEMMA NoRecordShape == NoRecord \in DiskRecord /\ NoRecord.checkpoint = Nowhere /\ NoRecord.claims = {}
  BY SyncConstants DEF NoRecord, DiskRecord, Epochs, Nowhere

\* A controller at rest.
LEMMA IdleShape ==
  Idle \in Controller /\ ~Idle.live
  BY SyncConstants DEF Idle, Controller, Epochs, Nowhere

\* A controller that lets go of its transfer.
LEMMA DroppedShape ==
  ASSUME NEW c \in Controller PROVE Dropped(c) \in Controller /\ ~Dropped(c).live
<1>1. c.transfer \in 0 .. MaxTransfers /\ c.at \in Epochs
  BY DEF Controller
<1> QED  BY <1>1, IdleShape DEF Dropped, Controller, Idle

\* A transaction that has just begun fits whatever is on disk.
LEMMA NewJobFits ==
  ASSUME NEW k \in Controllers, NEW op \in {"state", "receive", "completed", "failed"}, NEW base \in Int, NEW p,
         op = "receive" => p \in Packages /\ p.to = k, op # "receive" => p = NoPackage(k)
  PROVE  Job(k, op, base, p) \in SyncJob /\ \A disk, mark : JobFits(disk, mark, Job(k, op, base, p))
<1> DEFINE j == Job(k, op, base, p)
<1>1. j.by = k /\ j.op = op /\ j.pkg = p /\ j.step = "load"
  BY DEF Job
<1>2. p \in [to : Controllers, transfer : Int, sequence : Int, epoch : Int]
  BY PackageShape, NoPackageShape
<1>3. j \in SyncJob
  BY <1>2, NoRecordShape DEF Job, SyncJob, NoWrites, Imports
<1>4. PackageFits(j)
  BY <1>1, NoPackageShape DEF PackageFits
<1> HIDE DEF j
<1>5. \A disk, mark : JobFits(disk, mark, j)
  BY <1>1, <1>4 DEF JobFits
<1> QED  BY <1>3, <1>5 DEF j

\* Steps of a controller that open a transaction.
LEMMA ControllerStep ==
  ASSUME SyncInv, NEW k \in Controllers, NEW c \in Controller, LiveFits(c), ctl' = [ctl EXCEPT ![k] = c],
         NEW j \in SyncJob, \A disk, mark : JobFits(disk, mark, j), jobs' = jobs \cup {j},
         UNCHANGED <<syncDisk, contact, list, link, told, applied, byHand>>
  PROVE  SyncInv'
<1>1. ctl' \in [Controllers -> Controller] /\ \A x \in Controllers : LiveFits(ctl'[x])
  BY DEF SyncInv
<1>2. jobs' \subseteq SyncJob /\ \A x \in jobs' : JobFits(syncDisk', contact'.mark, x)
  BY DEF SyncInv
<1> QED  BY <1>1, <1>2 DEF SyncInv, CheckedByHand

\* Steps that end a transaction or move one on, without touching what is
\* shared.
LEMMA JobStep ==
  ASSUME SyncInv, ctl' \in [Controllers -> Controller], \A k \in Controllers : LiveFits(ctl'[k]),
         jobs' \subseteq SyncJob, \A x \in jobs' : JobFits(syncDisk, contact.mark, x),
         UNCHANGED <<syncDisk, contact, list, told, applied, byHand>>,
         link' \in [Controllers -> [route : {"none", "bound", "ghost"}, flying : SUBSET Packages]]
  PROVE  SyncInv'
  BY DEF SyncInv, CheckedByHand

\* A transaction fails, at any point.
LEMMA FailsHolds ==
  ASSUME SyncInv, NEW j \in jobs, Fails(j) PROVE SyncInv' /\ CheckpointAdvances
<1>1. j.by \in Controllers
  BY DEF SyncInv, SyncJob
<1>2. ctl' = [ctl EXCEPT ![j.by] = Dropped(ctl[j.by])] /\ jobs' = jobs \ {j}
      /\ UNCHANGED <<syncDisk, contact, list, link, told, applied, byHand>>
  BY DEF Fails
<1>3. Dropped(ctl[j.by]) \in Controller /\ LiveFits(Dropped(ctl[j.by]))
  BY <1>1, DroppedShape DEF SyncInv, LiveFits
<1>4. ctl' \in [Controllers -> Controller] /\ \A k \in Controllers : LiveFits(ctl'[k])
  BY <1>1, <1>2, <1>3 DEF SyncInv
<1>5. jobs' \subseteq SyncJob /\ \A x \in jobs' : JobFits(syncDisk, contact.mark, x)
  BY <1>2 DEF SyncInv
<1>6. SyncInv'
  BY <1>2, <1>4, <1>5, JobStep DEF SyncInv
<1>7. syncDisk.checkpoint \in Int
  BY SyncConstants DEF SyncInv, DiskRecord, Epochs, Nowhere
<1> QED  BY <1>2, <1>6, <1>7 DEF CheckpointAdvances

\* What a transaction writes.
LEMMA UpdatesShape ==
  ASSUME SyncInv, NEW p, NEW w \in ApplicationUpdates(p)
  PROVE  /\ w \in Imports
         /\ w.list # "kept" => p.sequence \in Chunks
         /\ w.contact = "verified" => contact.mark = "verified"
         /\ w.contact = "unverified" => contact.mark # "changed"
<1>1. CASE p.sequence \notin Chunks
  <2>1. w = NoWrites
    BY <1>1 DEF ApplicationUpdates
  <2> QED  BY <2>1 DEF NoWrites, Imports
<1>2. CASE p.sequence \in Chunks
  <2>1. PICK kinds \in SUBSET ChunkKinds[p.sequence] : w \in Writings(kinds)
    BY <1>2 DEF ApplicationUpdates
  <2>2. contact.mark \in Marks
    BY DEF SyncInv
  <2>3. /\ w = [contact |-> w.contact, list |-> w.list] /\ w.list \in {"kept", "replaced"}
        /\ w.contact \in ContactUpdates \cup {"kept"}
    BY <2>1 DEF Writings
  <2>4. /\ w.contact \in {"kept", "verified", "unverified"}
        /\ w.contact = "verified" => contact.mark = "verified"
        /\ w.contact = "unverified" => contact.mark # "changed"
    BY <2>2, <2>3 DEF ContactUpdates, Marks
  <2> QED  BY <1>2, <2>3, <2>4 DEF Imports
<1> QED  BY <1>1, <1>2

\* A transaction reads the record and computes what it will write.
LEMMA LoadHolds ==
  ASSUME SyncInv, NEW j \in jobs, Load(j) PROVE SyncInv' /\ CheckpointAdvances
<1> DEFINE c == ctl[j.by]
           at == IF j.op = "receive" THEN j.pkg.epoch ELSE c.at
           mine == [to |-> j.by, transfer |-> j.pkg.transfer, sequence |-> j.pkg.sequence]
           claims == syncDisk.claims \cup (IF j.op = "receive" THEN {mine} ELSE {})
           refused == syncDisk.checkpoint # j.base \/ ~Advances(at) \/ (j.op = "receive" /\ Claimed(j.pkg))
<1>1. CASE Fails(j)
  BY <1>1, FailsHolds
<1>2. CASE ~Fails(j)
  <2>1. PICK w \in ApplicationUpdates(j.pkg) :
          /\ ~refused /\ UNCHANGED <<ctl, syncDisk, contact, list, link, told, applied, byHand>>
          /\ jobs' = (jobs \ {j}) \cup {[j EXCEPT !.step = "swap", !.writes = w, !.next = State(at, claims)]}
    BY <1>2 DEF Load
  <2>2. j \in SyncJob /\ JobFits(syncDisk, contact.mark, j) /\ j.by \in Controllers /\ PackageFits(j)
    BY DEF SyncInv, SyncJob, JobFits
  <2>3. c \in Controller /\ syncDisk \in DiskRecord /\ syncDisk.claims \subseteq Claim
    BY <2>2 DEF SyncInv, DiskRecord
  <2>4. at \in Epochs /\ syncDisk.checkpoint <= at
    BY <2>1, <2>2, <2>3, PackageShape DEF Controller, PackageFits, Advances
  <2>5. j.op = "receive" => mine = ClaimOf(j.pkg) /\ mine \in Claim /\ mine \notin syncDisk.claims
    BY <2>1, <2>2, PackageShape DEF PackageFits, ClaimOf, Claimed
  <2>6. claims \subseteq Claim /\ syncDisk.claims \subseteq claims /\ (j.op = "receive" => ClaimOf(j.pkg) \in claims)
    BY <2>3, <2>5
  <2> DEFINE n == [j EXCEPT !.step = "swap", !.writes = w, !.next = State(at, claims)]
  <2> HIDE DEF at, claims
  <2>7. State(at, claims) \in DiskRecord /\ State(at, claims).checkpoint = at /\ State(at, claims).claims = claims
    BY <2>4, <2>6 DEF State, DiskRecord
  <2>8. /\ w \in Imports
        /\ w.list # "kept" => j.pkg.sequence \in Chunks
        /\ w.contact = "verified" => contact.mark = "verified"
        /\ w.contact = "unverified" => contact.mark # "changed"
    BY UpdatesShape
  <2> DEFINE d == State(at, claims)
  <2> HIDE DEF d
  <2>9. n = [j EXCEPT !.step = "swap", !.writes = w, !.next = d]
    BY DEF d
  <2>10. n \in SyncJob /\ n.by = j.by /\ n.op = j.op /\ n.pkg = j.pkg /\ n.writes = w /\ n.next = d
    <3>1. d \in DiskRecord
      BY <2>7 DEF d
    <3> HIDE DEF n
    <3> QED  BY <2>2, <2>8, <2>9, <3>1 DEF SyncJob
  <2> HIDE DEF n
  <2>11. PackageFits(n)
    BY <2>2, <2>10 DEF PackageFits
  <2>12. w.list # "kept" => n.op = "receive"
    BY <2>2, <2>8, <2>10 DEF PackageFits
  <2>13. JobFits(syncDisk, contact.mark, n)
    BY <2>4, <2>5, <2>6, <2>7, <2>8, <2>10, <2>11, <2>12 DEF JobFits, d
  <2>14. jobs' = (jobs \ {j}) \cup {n}
    BY <2>1 DEF n, at, claims
  <2>15. jobs' \subseteq SyncJob /\ \A x \in jobs' : JobFits(syncDisk, contact.mark, x)
    BY <2>10, <2>13, <2>14 DEF SyncInv
  <2>16. SyncInv'
    BY <2>1, <2>15, JobStep DEF SyncInv
  <2>17. syncDisk.checkpoint \in Int
    BY SyncConstants DEF SyncInv, DiskRecord, Epochs, Nowhere
  <2> QED  BY <2>1, <2>16, <2>17 DEF CheckpointAdvances
<1> QED  BY <1>1, <1>2

\* What a step that writes something does to the transactions that have read it.
SameButMoved(o, n) ==
    /\ n.by = o.by /\ n.op = o.op /\ n.pkg = o.pkg /\ n.step = o.step /\ n.next = o.next /\ n.writes = o.writes
    /\ o.moved => n.moved

\* A transaction that was overtaken keeps its shape.
LEMMA MovedShape ==
  ASSUME NEW o \in SyncJob, NEW b \in BOOLEAN, o.moved => b
  PROVE  [o EXCEPT !.moved = b] \in SyncJob /\ SameButMoved(o, [o EXCEPT !.moved = b])
         /\ (b => [o EXCEPT !.moved = b].moved)
  BY DEF SyncJob, SameButMoved

\* ... and fits, since its swap will be refused.
LEMMA MovedFits ==
  ASSUME NEW o, NEW n, SameButMoved(o, n), NEW disk, NEW mark, JobFits(disk, mark, o), NEW mark2, NEW disk2,
         o.step = "swap" /\ ~n.moved => disk2 = disk /\ (mark2 = mark \/ o.writes.contact = "kept")
  PROVE  JobFits(disk2, mark2, n)
<1>1. PackageFits(n)
  BY DEF PackageFits, JobFits, SameButMoved
<1>2. ASSUME n.step = "swap", ~n.moved
      PROVE  /\ disk2.checkpoint <= n.next.checkpoint /\ disk2.claims \subseteq n.next.claims
             /\ n.op = "receive" => ClaimOf(n.pkg) \in n.next.claims /\ ClaimOf(n.pkg) \notin disk2.claims
             /\ n.writes.list # "kept" => n.op = "receive"
             /\ n.writes.contact = "verified" => mark2 = "verified"
             /\ n.writes.contact = "unverified" => mark2 # "changed"
  BY <1>2 DEF JobFits, SameButMoved
<1> QED  BY <1>1, <1>2 DEF JobFits

\* Whoever has read a record that another has written since is refused the
\* swap.
LEMMA OvertakenFits ==
  ASSUME SyncInv, NEW js \in SUBSET jobs, NEW disk, NEW mark
  PROVE  Overtaken(js) \subseteq SyncJob /\ \A x \in Overtaken(js) : JobFits(disk, mark, x)
<1>1. ASSUME NEW x \in Overtaken(js) PROVE x \in SyncJob /\ JobFits(disk, mark, x)
  <2>1. PICK o \in js : x = [o EXCEPT !.moved = o.moved \/ o.step = "swap"]
    BY <1>1 DEF Overtaken
  <2>2. o \in SyncJob /\ JobFits(syncDisk, contact.mark, o)
    BY DEF SyncInv
  <2> DEFINE b == o.moved \/ o.step = "swap"
  <2>3. b \in BOOLEAN /\ (o.moved => b) /\ (o.step = "swap" => b) /\ x = [o EXCEPT !.moved = b]
    BY <2>1
  <2> HIDE DEF b
  <2>4. x \in SyncJob /\ SameButMoved(o, x) /\ (o.step = "swap" => x.moved)
    BY <2>2, <2>3, MovedShape
  <2>5. JobFits(disk, mark, x)
    BY <2>2, <2>4, MovedFits
  <2> QED  BY <2>4, <2>5
<1> QED  BY <1>1

\* Every other transaction fits what has been written.
LEMMA MovesFits ==
  ASSUME SyncInv, NEW part, NEW mark, mark = contact.mark \/ part = "contact"
  PROVE  Moves(jobs, part) \subseteq SyncJob /\ \A x \in Moves(jobs, part) : JobFits(syncDisk, mark, x)
<1>1. ASSUME NEW x \in Moves(jobs, part) PROVE x \in SyncJob /\ JobFits(syncDisk, mark, x)
  <2>1. PICK o \in jobs : x = [o EXCEPT !.moved = o.moved \/ (o.step = "swap" /\ o.writes[part] # "kept")]
    BY <1>1 DEF Moves
  <2>2. o \in SyncJob /\ JobFits(syncDisk, contact.mark, o)
    BY DEF SyncInv
  <2> DEFINE b == o.moved \/ (o.step = "swap" /\ o.writes[part] # "kept")
  <2>3. b \in BOOLEAN /\ (o.moved => b) /\ (o.step = "swap" /\ o.writes[part] # "kept" => b)
        /\ x = [o EXCEPT !.moved = b]
    BY <2>1
  <2> HIDE DEF b
  <2>4. x \in SyncJob /\ SameButMoved(o, x) /\ (o.step = "swap" /\ o.writes[part] # "kept" => x.moved)
    BY <2>2, <2>3, MovedShape
  <2>5. JobFits(syncDisk, mark, x)
    BY <2>2, <2>4, MovedFits
  <2> QED  BY <2>4, <2>5
<1> QED  BY <1>1

\* The swap writes what was computed from the record as it still is.
LEMMA SwapHolds ==
  ASSUME SyncInv, NEW j \in jobs, Swap(j) PROVE SyncInv' /\ CheckpointAdvances
<1>1. CASE Fails(j)
  BY <1>1, FailsHolds
<1>2. CASE ~Fails(j)
  <2> DEFINE p == j.pkg
             rc == j.op = "receive"
  <2>1. /\ j.step = "swap" /\ ~j.moved /\ syncDisk' = j.next /\ jobs' = Overtaken(jobs \ {j})
        /\ contact' = IF j.writes.contact = "kept" THEN contact ELSE [mark |-> j.writes.contact]
        /\ list' = IF j.writes.list = "kept" THEN list ELSE [list EXCEPT !.epoch = p.epoch, !.mark = p.epoch]
        /\ applied' = IF rc THEN [x \in DOMAIN applied \cup {p} |-> IF x = p THEN Times(x) + 1 ELSE applied[x]]
                      ELSE applied
        /\ ctl' = IF rc THEN [ctl EXCEPT ![j.by].at = p.epoch] ELSE ctl
        /\ told' = IF rc /\ p \in link[j.by].flying THEN told \cup {p} ELSE told
        /\ link' = IF rc THEN [link EXCEPT ![j.by].flying = link[j.by].flying \ {p}] ELSE link
        /\ byHand' = [byHand EXCEPT !.compared = byHand.compared /\ contact'.mark # "unverified"]
    BY <1>2 DEF Swap
  <2>2. j \in SyncJob /\ JobFits(syncDisk, contact.mark, j) /\ j.by \in Controllers
    BY DEF SyncInv, SyncJob
  <2>3. rc => p \in Packages /\ p.to = j.by
    BY <2>2 DEF JobFits, PackageFits
  <2>4. /\ syncDisk.checkpoint <= j.next.checkpoint /\ syncDisk.claims \subseteq j.next.claims
        /\ rc => ClaimOf(p) \in j.next.claims /\ ClaimOf(p) \notin syncDisk.claims
        /\ j.writes.list # "kept" => rc
        /\ j.writes.contact = "verified" => contact.mark = "verified"
        /\ j.writes.contact = "unverified" => contact.mark # "changed"
    BY <2>1, <2>2 DEF JobFits
  <2>5. syncDisk' \in DiskRecord
    BY <2>1, <2>2 DEF SyncJob
  <2>6. jobs' \subseteq SyncJob /\ \A x \in jobs' : JobFits(syncDisk', contact'.mark, x)
    BY <2>1, OvertakenFits
  <2>7. ctl' \in [Controllers -> Controller] /\ \A k \in Controllers : LiveFits(ctl'[k])
    <3>1. CASE ~rc
      BY <2>1, <3>1 DEF SyncInv
    <3>2. CASE rc
      <4> DEFINE c == [ctl[j.by] EXCEPT !.at = p.epoch]
      <4>1. ctl[j.by] \in Controller /\ LiveFits(ctl[j.by])
        BY <2>2 DEF SyncInv
      <4>2. p.epoch \in Epochs /\ p.epoch \in 0 .. MaxListEpoch
        BY <2>3, <3>2, PackageShape
      <4>3. c \in Controller /\ LiveFits(c)
        BY <4>1, <4>2 DEF Controller, LiveFits
      <4>4. ctl' = [ctl EXCEPT ![j.by] = c]
        BY <2>1, <3>2
      <4> HIDE DEF c
      <4> QED  BY <2>2, <4>3, <4>4 DEF SyncInv
    <3> QED  BY <3>1, <3>2
  <2>8. link' \in [Controllers -> [route : {"none", "bound", "ghost"}, flying : SUBSET Packages]]
    <3>1. CASE ~rc
      BY <2>1, <3>1 DEF SyncInv
    <3>2. CASE rc
      <4> DEFINE l == [link[j.by] EXCEPT !.flying = link[j.by].flying \ {p}]
      <4>1. link[j.by] \in [route : {"none", "bound", "ghost"}, flying : SUBSET Packages]
        BY <2>2 DEF SyncInv
      <4>2. l \in [route : {"none", "bound", "ghost"}, flying : SUBSET Packages]
        BY <4>1
      <4>3. link' = [link EXCEPT ![j.by] = l]
        BY <2>1, <3>2
      <4> HIDE DEF l
      <4> QED  BY <2>2, <4>2, <4>3 DEF SyncInv
    <3> QED  BY <3>1, <3>2
  <2>9. contact' \in [mark : Marks]
    <3>1. j.writes \in Imports
      BY <2>2 DEF SyncJob
    <3> QED  BY <2>1, <3>1 DEF SyncInv, Imports, Marks
  <2>10. byHand' \in [compared : BOOLEAN, pending : BOOLEAN] /\ byHand'.pending = byHand.pending
         /\ byHand'.compared = (byHand.compared /\ contact'.mark # "unverified")
    BY <2>1 DEF SyncInv
  <2>11. CheckedByHand'
    <3>1. CheckedByHand /\ contact.mark \in Marks
      BY DEF SyncInv
    <3>2. contact'.mark = "verified" => contact.mark = "verified"
      BY <2>1, <2>4
    <3>3. contact.mark = "changed" => contact'.mark = "changed"
      <4>1. j.writes.contact \in {"kept", "verified", "unverified"}
        BY <2>2 DEF SyncJob, Imports
      <4> QED  BY <2>1, <2>4, <4>1
    <3> QED  BY <2>10, <3>1, <3>2, <3>3 DEF CheckedByHand
  <2>12. list' \in [epoch : 0 .. MaxListEpoch, mark : 0 .. MaxListEpoch, real : 0 .. MaxListEpoch]
    <3>1. j.writes.list # "kept" => p.epoch \in 0 .. MaxListEpoch
      BY <2>3, <2>4, PackageShape
    <3> QED  BY <2>1, <3>1 DEF SyncInv
  <2>13. /\ DOMAIN applied' \subseteq Packages /\ told' \subseteq DOMAIN applied'
         /\ \A x \in DOMAIN applied' : applied'[x] = 1 /\ ClaimOf(x) \in syncDisk'.claims
    <3>1. CASE ~rc
      BY <2>1, <2>4, <3>1 DEF SyncInv
    <3>2. CASE rc
      <4>1. p \notin DOMAIN applied
        BY <2>4, <3>2 DEF SyncInv
      <4>2. DOMAIN applied' = DOMAIN applied \cup {p} /\ applied'[p] = 1
            /\ \A x \in DOMAIN applied : applied'[x] = applied[x]
        BY <2>1, <3>2, <4>1 DEF Times
      <4>3. told' \subseteq told \cup {p}
        BY <2>1
      <4> QED  BY <2>1, <2>3, <2>4, <3>2, <4>2, <4>3 DEF SyncInv
    <3> QED  BY <3>1, <3>2
  <2>14. SyncInv'
    BY <2>5, <2>6, <2>7, <2>8, <2>9, <2>10, <2>11, <2>12, <2>13 DEF SyncInv
  <2> QED  BY <2>1, <2>4, <2>14 DEF CheckpointAdvances
<1> QED  BY <1>1, <1>2

\* A controller is authorized with the epoch of the current device list, which
\* is not below the stored checkpoint.
LEMMA AuthorizeHolds ==
  ASSUME SyncInv, NEW k \in Controllers, Authorize(k) PROVE SyncInv'
<1>1. PICK at \in 0 .. MaxListEpoch :
        /\ ctl[k].transfer < MaxTransfers
        /\ ctl' = [ctl EXCEPT ![k] = [Idle EXCEPT !.admission = "prepare", !.live = TRUE, !.phase = "authorized",
                     !.transfer = ctl[k].transfer + 1, !.at = at]]
        /\ jobs' = jobs \cup {Job(k, "state", syncDisk.checkpoint, NoPackage(k))}
        /\ UNCHANGED <<syncDisk, contact, list, link, told, applied, byHand>>
  BY DEF Authorize
<1> DEFINE t == ctl[k].transfer + 1
           c == [Idle EXCEPT !.admission = "prepare", !.live = TRUE, !.phase = "authorized", !.transfer = t, !.at = at]
<1>2. ctl[k].transfer \in 0 .. MaxTransfers /\ syncDisk.checkpoint \in Int
  BY DEF SyncInv, Controller, DiskRecord, Epochs
<1>3. t \in 1 .. MaxTransfers /\ t \in 0 .. MaxTransfers /\ at \in Epochs
  BY <1>1, <1>2, SyncConstants DEF Epochs, Nowhere
<1> HIDE DEF t
<1>4. c \in Controller /\ LiveFits(c)
  BY <1>3, IdleShape DEF Controller, LiveFits, Idle
<1>5. ctl' = [ctl EXCEPT ![k] = c]
  BY <1>1 DEF t
<1> HIDE DEF c
<1>6. /\ Job(k, "state", syncDisk.checkpoint, NoPackage(k)) \in SyncJob
      /\ \A disk, mark : JobFits(disk, mark, Job(k, "state", syncDisk.checkpoint, NoPackage(k)))
  BY <1>2, NewJobFits
<1> QED  BY <1>1, <1>4, <1>5, <1>6, ControllerStep

\* Steps of a controller that change its admission, its phase or its progress.
LEMMA ProgressHolds ==
  ASSUME SyncInv, NEW k \in Controllers, NEW c \in Controller, LiveFits(c), ctl' = [ctl EXCEPT ![k] = c],
         NEW op \in {"state", "completed", "failed"},
         jobs' = jobs \cup {Job(k, op, ctl[k].at, NoPackage(k))},
         UNCHANGED <<syncDisk, contact, list, link, told, applied, byHand>>
  PROVE  SyncInv'
<1>1. ctl[k].at \in Int
  BY DEF SyncInv, Controller, Epochs
<1>2. op \in {"state", "receive", "completed", "failed"} /\ op # "receive"
  OBVIOUS
<1>3. /\ Job(k, op, ctl[k].at, NoPackage(k)) \in SyncJob
      /\ \A disk, mark : JobFits(disk, mark, Job(k, op, ctl[k].at, NoPackage(k)))
  BY <1>1, <1>2, NewJobFits
<1> QED  BY <1>3, ControllerStep

\* The admission goes on by one step.
LEMMA AdmitsHolds ==
  ASSUME SyncInv, NEW k \in Controllers, NEW from, NEW to \in {"prepared", "ready"}, Admits(k, from, to)
  PROVE  SyncInv'
<1> DEFINE c == [ctl[k] EXCEPT !.admission = to]
<1>1. ctl[k] \in Controller /\ LiveFits(ctl[k])
  BY DEF SyncInv
<1>2. c \in Controller /\ LiveFits(c)
  BY <1>1 DEF Controller, LiveFits
<1>3. ctl' = [ctl EXCEPT ![k] = c] /\ jobs' = jobs \cup {Job(k, "state", ctl[k].at, NoPackage(k))}
      /\ UNCHANGED <<syncDisk, contact, list, link, told, applied, byHand>>
  BY DEF Admits
<1> HIDE DEF c
<1> QED  BY <1>2, <1>3, ProgressHolds

\* A transfer begins.
LEMMA BeginHolds ==
  ASSUME SyncInv, NEW k \in Controllers, BeginTransfer(k) PROVE SyncInv'
<1> DEFINE c == [ctl[k] EXCEPT !.admission = "transfer", !.phase = "transferring"]
<1>1. ctl[k] \in Controller /\ LiveFits(ctl[k])
  BY DEF SyncInv
<1>2. c \in Controller /\ LiveFits(c)
  BY <1>1 DEF Controller, LiveFits
<1>3. ctl' = [ctl EXCEPT ![k] = c] /\ jobs' = jobs \cup {Job(k, "state", ctl[k].at, NoPackage(k))}
      /\ UNCHANGED <<syncDisk, contact, list, link, told, applied, byHand>>
  BY DEF BeginTransfer
<1> HIDE DEF c
<1> QED  BY <1>2, <1>3, ProgressHolds

\* A transfer is complete.
LEMMA CompleteHolds ==
  ASSUME SyncInv, NEW k \in Controllers, Complete(k) PROVE SyncInv'
<1> DEFINE c == [ctl[k] EXCEPT !.admission = "idle", !.phase = "completed"]
<1>1. ctl[k] \in Controller /\ LiveFits(ctl[k])
  BY DEF SyncInv
<1>2. c \in Controller /\ LiveFits(c)
  BY <1>1 DEF Controller, LiveFits
<1>3. ctl' = [ctl EXCEPT ![k] = c] /\ jobs' = jobs \cup {Job(k, "completed", ctl[k].at, NoPackage(k))}
      /\ UNCHANGED <<syncDisk, contact, list, link, told, applied, byHand>>
  BY DEF Complete
<1> HIDE DEF c
<1> QED  BY <1>2, <1>3, ProgressHolds

\* A transfer fails.
LEMMA FailTransferHolds ==
  ASSUME SyncInv, NEW k \in Controllers, FailTransfer(k) PROVE SyncInv'
<1> DEFINE c == [ctl[k] EXCEPT !.admission = "idle", !.phase = "failed"]
<1>1. ctl[k] \in Controller /\ LiveFits(ctl[k])
  BY DEF SyncInv
<1>2. c \in Controller /\ LiveFits(c)
  BY <1>1 DEF Controller, LiveFits
<1>3. ctl' = [ctl EXCEPT ![k] = c] /\ jobs' = jobs \cup {Job(k, "failed", ctl[k].at, NoPackage(k))}
      /\ UNCHANGED <<syncDisk, contact, list, link, told, applied, byHand>>
  BY DEF FailTransfer
<1> HIDE DEF c
<1> QED  BY <1>2, <1>3, ProgressHolds

\* A package of the transfer arrives and opens a transaction; the same package
\* does not open a second one meanwhile.
LEMMA ReceiveHolds ==
  ASSUME SyncInv, NEW k \in Controllers, NEW p \in link[k].flying, Receive(k, p) PROVE SyncInv'
<1>1. ctl[k] \in Controller /\ LiveFits(ctl[k]) /\ p \in Packages
  BY DEF SyncInv
<1>2. /\ p.to = k /\ ctl' = [ctl EXCEPT ![k] = Accept(ctl[k], p)]
      /\ jobs' = jobs \cup {Job(k, "receive", p.epoch, p)}
      /\ UNCHANGED <<syncDisk, contact, list, link, told, applied, byHand>>
  BY DEF Receive, Recognised
<1>3. Accept(ctl[k], p) \in Controller /\ LiveFits(Accept(ctl[k], p))
  <2>1. CASE p.sequence = Manifest
    BY <1>1, <2>1 DEF Accept, Controller, LiveFits
  <2>2. CASE p.sequence # Manifest
    <3> DEFINE cs == ctl[k].chunks \cup {p.sequence}
    <3>1. p.sequence \in Chunks
      BY <1>1, <2>2, PackageShape, SyncConstants
    <3>2. cs \in SUBSET Chunks
      BY <1>1, <3>1 DEF Controller
    <3>3. Accept(ctl[k], p) = [ctl[k] EXCEPT !.chunks = cs]
      BY <2>2 DEF Accept
    <3> HIDE DEF cs
    <3> QED  BY <1>1, <3>2, <3>3 DEF Controller, LiveFits
  <2> QED  BY <2>1, <2>2
<1>4. p.epoch \in Int
  BY <1>1, PackageShape DEF Epochs
<1>5. Job(k, "receive", p.epoch, p) \in SyncJob /\ \A disk, mark : JobFits(disk, mark, Job(k, "receive", p.epoch, p))
  BY <1>1, <1>2, <1>4, NewJobFits
<1> QED  BY <1>2, <1>3, <1>5, ControllerStep

\* A page that closed comes back with the stored checkpoint, and its
\* transactions are gone.
LEMMA RecoverHolds ==
  ASSUME SyncInv, NEW k \in Controllers, Recover(k) PROVE SyncInv'
<1> DEFINE c == [Idle EXCEPT !.transfer = ctl[k].transfer, !.at = syncDisk.checkpoint]
           r == [route |-> IF link[k].route = "none" THEN "none" ELSE "ghost", flying |-> {}]
<1>1. ctl' = [ctl EXCEPT ![k] = c] /\ jobs' = {j \in jobs : j.by # k} /\ link' = [link EXCEPT ![k] = r]
      /\ UNCHANGED <<syncDisk, contact, list, told, applied, byHand>>
  BY DEF Recover
<1>2. ctl[k].transfer \in 0 .. MaxTransfers /\ syncDisk.checkpoint \in Epochs
  BY DEF SyncInv, Controller, DiskRecord
<1>3. c \in Controller /\ LiveFits(c)
  BY <1>2, IdleShape DEF Controller, LiveFits, Idle
<1>4. r \in [route : {"none", "bound", "ghost"}, flying : SUBSET Packages]
  OBVIOUS
<1> HIDE DEF c, r
<1>5. ctl' \in [Controllers -> Controller] /\ \A x \in Controllers : LiveFits(ctl'[x])
  BY <1>1, <1>3 DEF SyncInv
<1>6. link' \in [Controllers -> [route : {"none", "bound", "ghost"}, flying : SUBSET Packages]]
  BY <1>1, <1>4 DEF SyncInv
<1>7. jobs' \subseteq SyncJob /\ \A x \in jobs' : JobFits(syncDisk, contact.mark, x)
  BY <1>1 DEF SyncInv
<1> QED  BY <1>1, <1>5, <1>6, <1>7, JobStep

\* The route at the sync relay and the package on its way.
LEMMA LinkHolds ==
  ASSUME SyncInv, NEW k \in Controllers,
         ConnectRoute(k) \/ DisconnectRoute(k) \/ AnswerFails(k) \/ \E n \in Sequences : SendPackage(k, n)
  PROVE  SyncInv'
<1> DEFINE Links == [route : {"none", "bound", "ghost"}, flying : SUBSET Packages]
<1>1. link[k] \in Links /\ ctl[k] \in Controller /\ LiveFits(ctl[k])
  BY DEF SyncInv
<1>2. UNCHANGED <<ctl, jobs, syncDisk, contact, list, told, applied, byHand>>
  BY DEF ConnectRoute, DisconnectRoute, AnswerFails, SendPackage
<1>3. \E r \in Links : link' = [link EXCEPT ![k] = r]
  <2>1. CASE ConnectRoute(k)
    <3> DEFINE r == [link[k] EXCEPT !.route = "bound"]
    <3>1. r \in Links /\ link' = [link EXCEPT ![k] = r]
      BY <1>1, <2>1 DEF ConnectRoute
    <3> QED  BY <3>1
  <2>2. CASE DisconnectRoute(k)
    <3>1. NoLink \in Links
      BY DEF NoLink
    <3> QED  BY <2>2, <3>1 DEF DisconnectRoute
  <2>3. CASE AnswerFails(k)
    <3> DEFINE r == [link[k] EXCEPT !.flying = {}]
    <3>1. r \in Links /\ link' = [link EXCEPT ![k] = r]
      BY <1>1, <2>3 DEF AnswerFails
    <3> QED  BY <3>1
  <2>4. ASSUME NEW n \in Sequences, SendPackage(k, n) PROVE \E r \in Links : link' = [link EXCEPT ![k] = r]
    <3> DEFINE p == [to |-> k, transfer |-> ctl[k].transfer, sequence |-> n, epoch |-> ctl[k].at]
               r == [link[k] EXCEPT !.flying = {p}]
    <3>1. p \in Packages
      BY <1>1, <2>4 DEF SendPackage, LiveFits, Packages
    <3>2. link' = [link EXCEPT ![k] = r]
      BY <2>4 DEF SendPackage
    <3> HIDE DEF p
    <3>3. r \in Links
      BY <1>1, <3>1
    <3> QED  BY <3>2, <3>3
  <2> QED  BY <2>1, <2>2, <2>3, <2>4
<1>4. link' \in [Controllers -> Links]
  BY <1>3 DEF SyncInv
<1>5. ctl' \in [Controllers -> Controller] /\ (\A x \in Controllers : LiveFits(ctl'[x]))
      /\ jobs' \subseteq SyncJob /\ \A x \in jobs' : JobFits(syncDisk, contact.mark, x)
  BY <1>2 DEF SyncInv
<1> QED  BY <1>2, <1>4, <1>5, JobStep

\* The person, the contact and the device list move on.
LEMMA OutsideHolds ==
  ASSUME SyncInv, contact' \in [mark : Marks], byHand' \in [compared : BOOLEAN, pending : BOOLEAN], CheckedByHand',
         list' \in [epoch : 0 .. MaxListEpoch, mark : 0 .. MaxListEpoch, real : 0 .. MaxListEpoch],
         NEW part, jobs' = Moves(jobs, part), contact' = contact \/ part = "contact",
         UNCHANGED <<ctl, syncDisk, link, told, applied>>
  PROVE  SyncInv'
<1>1. contact'.mark = contact.mark \/ part = "contact"
  OBVIOUS
<1>2. jobs' \subseteq SyncJob /\ \A x \in jobs' : JobFits(syncDisk', contact'.mark, x)
  BY <1>1, MovesFits
<1> QED  BY <1>2 DEF SyncInv

\* The person compares the identities.
LEMMA CompareHolds ==
  ASSUME SyncInv, Compare PROVE SyncInv'
<1>1. /\ contact.mark = "unverified" /\ contact' = [mark |-> "verified"]
      /\ byHand' = [byHand EXCEPT !.compared = TRUE] /\ jobs' = Moves(jobs, "contact")
      /\ UNCHANGED <<ctl, syncDisk, list, link, told, applied>>
  BY DEF Compare
<1>2. byHand' \in [compared : BOOLEAN, pending : BOOLEAN] /\ byHand'.compared /\ byHand'.pending = byHand.pending
  BY <1>1 DEF SyncInv
<1>3. contact' \in [mark : Marks]
  BY <1>1 DEF Marks
<1>4. CheckedByHand'
  BY <1>1, <1>2 DEF SyncInv, CheckedByHand
<1>5. list' \in [epoch : 0 .. MaxListEpoch, mark : 0 .. MaxListEpoch, real : 0 .. MaxListEpoch]
  BY <1>1 DEF SyncInv
<1> QED  BY <1>1, <1>2, <1>3, <1>4, <1>5, OutsideHolds

\* The contact's identity has changed, and awaits review.
LEMMA ObserveHolds ==
  ASSUME SyncInv, ObserveChange PROVE SyncInv'
<1>1. /\ contact' = [mark |-> "changed"] /\ byHand' = [compared |-> FALSE, pending |-> TRUE]
      /\ jobs' = Moves(jobs, "contact") /\ UNCHANGED <<ctl, syncDisk, list, link, told, applied>>
  BY DEF ObserveChange
<1>2. contact' \in [mark : Marks] /\ byHand' \in [compared : BOOLEAN, pending : BOOLEAN]
  BY <1>1 DEF Marks
<1>3. CheckedByHand'
  BY <1>1 DEF CheckedByHand
<1>4. list' \in [epoch : 0 .. MaxListEpoch, mark : 0 .. MaxListEpoch, real : 0 .. MaxListEpoch]
  BY <1>1 DEF SyncInv
<1> QED  BY <1>1, <1>2, <1>3, <1>4, OutsideHolds

\* The device list changes.
LEMMA ListHolds ==
  ASSUME SyncInv, ChangeDeviceList PROVE SyncInv'
<1>1. /\ list.real < MaxListEpoch
      /\ list' = [epoch |-> list.real + 1, mark |-> list.real + 1, real |-> list.real + 1]
      /\ jobs' = Moves(jobs, "list") /\ UNCHANGED <<ctl, syncDisk, contact, link, told, applied, byHand>>
  BY DEF ChangeDeviceList
<1>2. list.real \in 0 .. MaxListEpoch /\ contact \in [mark : Marks]
      /\ byHand \in [compared : BOOLEAN, pending : BOOLEAN] /\ CheckedByHand
  BY DEF SyncInv
<1>3. list' \in [epoch : 0 .. MaxListEpoch, mark : 0 .. MaxListEpoch, real : 0 .. MaxListEpoch]
  BY <1>1, <1>2, SyncConstants
<1>4. CheckedByHand'
  BY <1>1, <1>2 DEF CheckedByHand
<1> QED  BY <1>1, <1>2, <1>3, <1>4, OutsideHolds

\* Nothing admitted, nothing stored.
LEMMA SyncInitHolds == SyncInit => SyncInv
<1> SUFFICES ASSUME SyncInit PROVE SyncInv
  OBVIOUS
<1>1. ctl \in [Controllers -> Controller] /\ \A k \in Controllers : LiveFits(ctl[k])
  BY IdleShape DEF SyncInit, LiveFits
<1>2. link \in [Controllers -> [route : {"none", "bound", "ghost"}, flying : SUBSET Packages]]
  BY DEF SyncInit, NoLink
<1>3. contact \in [mark : Marks] /\ byHand \in [compared : BOOLEAN, pending : BOOLEAN] /\ CheckedByHand
  BY DEF SyncInit, Marks, CheckedByHand
<1>4. list \in [epoch : 0 .. MaxListEpoch, mark : 0 .. MaxListEpoch, real : 0 .. MaxListEpoch]
  BY SyncConstants DEF SyncInit
<1>5. DOMAIN applied = {} /\ told = {} /\ jobs = {}
  BY DEF SyncInit
<1> QED  BY <1>1, <1>2, <1>3, <1>4, <1>5, NoRecordShape DEF SyncInit, SyncInv

\* Every step keeps the invariant.
LEMMA SyncStepHolds ==
  ASSUME SyncInv, [SyncNext]_syncVars PROVE SyncInv' /\ [CheckpointAdvances]_syncVars
<1>1. syncDisk.checkpoint \in Int
  BY DEF SyncInv, DiskRecord, Epochs
<1>2. UNCHANGED syncDisk => CheckpointAdvances
  BY <1>1 DEF CheckpointAdvances
<1>3. ASSUME NEW j \in jobs, Load(j) \/ Swap(j) PROVE SyncInv' /\ CheckpointAdvances
  BY <1>3, LoadHolds, SwapHolds
<1>4. ASSUME NEW k \in Controllers, Authorize(k) PROVE SyncInv' /\ UNCHANGED syncDisk
  BY <1>4, AuthorizeHolds DEF Authorize
<1>5. ASSUME NEW k \in Controllers, Prepared(k) \/ Ready(k) PROVE SyncInv' /\ UNCHANGED syncDisk
  BY <1>5, AdmitsHolds DEF Prepared, Ready, Admits
<1>6. ASSUME NEW k \in Controllers, BeginTransfer(k) \/ Complete(k) \/ FailTransfer(k)
      PROVE SyncInv' /\ UNCHANGED syncDisk
  BY <1>6, BeginHolds, CompleteHolds, FailTransferHolds DEF BeginTransfer, Complete, FailTransfer
<1>7. ASSUME NEW k \in Controllers, Recover(k) PROVE SyncInv' /\ UNCHANGED syncDisk
  BY <1>7, RecoverHolds DEF Recover
<1>8. ASSUME NEW k \in Controllers, ConnectRoute(k) \/ DisconnectRoute(k) \/ AnswerFails(k)
      PROVE  SyncInv' /\ UNCHANGED syncDisk
  BY <1>8, LinkHolds DEF ConnectRoute, DisconnectRoute, AnswerFails
<1>9. ASSUME NEW k \in Controllers, NEW n \in Sequences, SendPackage(k, n)
      PROVE SyncInv' /\ UNCHANGED syncDisk
  BY <1>9, LinkHolds DEF SendPackage
<1>10. ASSUME NEW k \in Controllers, NEW p \in link[k].flying, Receive(k, p)
      PROVE SyncInv' /\ UNCHANGED syncDisk
  BY <1>10, ReceiveHolds DEF Receive
<1>11. ASSUME Compare \/ ObserveChange \/ ChangeDeviceList PROVE SyncInv' /\ UNCHANGED syncDisk
  BY <1>11, CompareHolds, ObserveHolds, ListHolds DEF Compare, ObserveChange, ChangeDeviceList
<1>12. CASE UNCHANGED syncVars
  BY <1>12 DEF syncVars, SyncInv, CheckedByHand
<1>13. CASE SyncNext
  BY <1>2, <1>3, <1>4, <1>5, <1>6, <1>7, <1>8, <1>9, <1>10, <1>11, <1>13 DEF SyncNext
<1> QED  BY <1>12, <1>13

\* What the invariant says of the claims on disk is what the runs check.
LEMMA SyncInvPromises ==
  ASSUME SyncInv PROVE SyncTypeOK /\ AppliedOnce /\ ToldIsApplied /\ CheckedByHand
<1>1. SyncTypeOK
  <2>1. \A k \in Controllers :
         /\ ctl[k].admission \in {"idle", "prepare", "prepared", "ready", "transfer"}
         /\ ctl[k].chunks \subseteq Chunks /\ link[k].flying \subseteq Packages
    BY DEF SyncInv, Controller
  <2>2. \A j \in jobs : j.by \in Controllers /\ j.step \in {"load", "swap"}
    BY DEF SyncInv, SyncJob
  <2>3. syncDisk.checkpoint \in Nowhere .. MaxListEpoch /\ contact.mark \in {"unverified", "verified", "changed"}
    BY DEF SyncInv, DiskRecord, Epochs, Marks
  <2> QED  BY <2>1, <2>2, <2>3 DEF SyncTypeOK, SyncInv
<1>2. AppliedOnce /\ ToldIsApplied
  BY DEF SyncInv, AppliedOnce, ToldIsApplied, Times
<1> QED  BY <1>1, <1>2 DEF SyncInv

\* However the transactions of the controllers of an account interleave with
\* each other, with closed pages, repeated packages and the person's own
\* decisions: the transaction of a package is committed at most once, and once
\* when its sender is told it was accepted, the import marks no contact as
\* compared and takes back no change of identity, and the stored checkpoint
\* never goes back.
THEOREM SyncIsCorrect == SyncSpec => SyncCorrect
<1>1. SyncInit => SyncInv
  BY SyncInitHolds
<1>2. SyncInv /\ [SyncNext]_syncVars => SyncInv' /\ [CheckpointAdvances]_syncVars
  BY SyncStepHolds
<1>3. SyncInv => SyncTypeOK /\ AppliedOnce /\ ToldIsApplied /\ CheckedByHand
  BY SyncInvPromises
<1>4. SyncSpec => [](SyncTypeOK /\ AppliedOnce /\ ToldIsApplied /\ CheckedByHand) /\ [][CheckpointAdvances]_syncVars
  BY <1>1, <1>2, <1>3, PTL DEF SyncSpec
<1> QED  BY <1>4 DEF SyncCorrect
-----------------------------------------------------------------------------
(***************************************************************************)
(* The replay log.  A sequence of segments is flattened from its end:      *)
(* FlatSnoc is the one law the proof needs of FlattenSeq, shown by the     *)
(* least index at which it could fail.                                     *)
(***************************************************************************)

LEMMA LeastIndex ==
  ASSUME NEW T \in SUBSET Nat, T # {}
  PROVE  \E x \in T : \A y \in T : x <= y
<1>1. PICK x \in T : \A y \in T : ~(<<y, x>> \in OpToRel(<, Nat))
  BY NatLessThanWellFounded, WFMin
<1>2. \A y \in T : ~(y < x)
  BY <1>1, Zenon DEF OpToRel
<1> QED BY <1>2

\* The prefixes that FlattenSeq builds.
PrefixesOf(p, f, n) == f = [i \in 1 .. n |-> IF i = 1 THEN p[i] ELSE f[i - 1] \o p[i]]
Joined(p) == CHOOSE f : f = [i \in 1 .. Len(p) |-> IF i = 1 THEN p[i] ELSE f[i - 1] \o p[i]]

LEMMA FlatOfNone == Flat(<<>>) = <<>>
  BY DEF Flat, FlattenSeq

LEMMA FlatIsJoined ==
  ASSUME NEW p, Len(p) # 0 PROVE Flat(p) = Joined(p)[Len(p)]
  BY DEF Flat, FlattenSeq, Joined

LEMMA PrefixesExist ==
  ASSUME NEW p, NEW N \in Nat \ {0} PROVE \E f : PrefixesOf(p, f, N)
<1> DEFINE T == {n \in Nat \ {0} : ~\E f : PrefixesOf(p, f, n)}
<1>1. SUFFICES ASSUME T # {} PROVE FALSE OBVIOUS
<1>2. PICK n \in T : \A y \in T : n <= y BY <1>1, LeastIndex
<1>3. CASE n = 1
  <2> DEFINE f == [i \in 1 .. 1 |-> p[i]]
  <2>1. f = [i \in 1 .. n |-> IF i = 1 THEN p[i] ELSE f[i - 1] \o p[i]] BY <1>3
  <2>2. PrefixesOf(p, f, n) BY <2>1 DEF PrefixesOf
  <2> QED BY <2>2
<1>4. CASE n # 1
  <2>1. n - 1 \in Nat \ {0} /\ n - 1 \notin T BY <1>2, <1>4
  <2>2. PICK g : PrefixesOf(p, g, n - 1) BY <2>1
  <2> DEFINE f == [i \in 1 .. n |-> IF i = n THEN g[n - 1] \o p[n] ELSE g[i]]
  <2>3. \A i \in 1 .. n - 1 : g[i] = IF i = 1 THEN p[i] ELSE g[i - 1] \o p[i]
    BY <2>2 DEF PrefixesOf
  <2>4. \A i \in 1 .. n : f[i] = IF i = 1 THEN p[i] ELSE f[i - 1] \o p[i]
    BY <2>1, <2>3, <1>4
  <2>5. f = [i \in 1 .. n |-> f[i]] OBVIOUS
  <2> HIDE DEF f
  <2>6. PrefixesOf(p, f, n) BY <2>4, <2>5 DEF PrefixesOf
  <2> QED BY <2>6
<1> QED BY <1>3, <1>4

LEMMA JoinedLaw ==
  ASSUME NEW p, NEW n \in Nat \ {0}, Len(p) = n
  PROVE  /\ Joined(p)[1] = p[1]
         /\ \A i \in 2 .. n : Joined(p)[i] = Joined(p)[i - 1] \o p[i]
<1>1. \E f : f = [i \in 1 .. Len(p) |-> IF i = 1 THEN p[i] ELSE f[i - 1] \o p[i]]
  BY PrefixesExist DEF PrefixesOf
<1>2. Joined(p) = [i \in 1 .. Len(p) |-> IF i = 1 THEN p[i] ELSE Joined(p)[i - 1] \o p[i]]
  BY <1>1, Zenon DEF Joined
<1> HIDE DEF Joined
<1> DEFINE J == Joined(p)
<1>3. J = [i \in 1 .. n |-> IF i = 1 THEN p[i] ELSE J[i - 1] \o p[i]] BY <1>2
<1> HIDE DEF J
<1>4. \A i \in 1 .. n : J[i] = IF i = 1 THEN p[i] ELSE J[i - 1] \o p[i] BY <1>3, Zenon
<1>5. 1 \in 1 .. n /\ \A i \in 2 .. n : i \in 1 .. n /\ i # 1 OBVIOUS
<1>6. J[1] = p[1] /\ \A i \in 2 .. n : J[i] = J[i - 1] \o p[i] BY <1>4, <1>5
<1> QED BY <1>6 DEF J

\* Two sequences that agree on their first m segments join them alike.
LEMMA JoinedAlike ==
  ASSUME NEW p, NEW q, NEW n \in Nat \ {0}, NEW m \in Nat \ {0}, m <= n, Len(p) = n, Len(q) = m,
         \A i \in 1 .. m : p[i] = q[i]
  PROVE  Joined(p)[m] = Joined(q)[m]
<1> DEFINE P == Joined(p)  Q == Joined(q)
<1>a. P[1] = p[1] /\ \A i \in 2 .. n : P[i] = P[i - 1] \o p[i] BY JoinedLaw
<1>b. Q[1] = q[1] /\ \A i \in 2 .. m : Q[i] = Q[i - 1] \o q[i] BY JoinedLaw
<1> HIDE DEF P, Q
<1>c. \A i \in 2 .. m : i \in 2 .. n OBVIOUS
<1> DEFINE T == {i \in 1 .. m : P[i] # Q[i]}
<1>1. SUFFICES ASSUME T # {} PROVE FALSE
  <2>1. m \in 1 .. m OBVIOUS
  <2> QED BY <2>1 DEF P, Q
<1>2. T \in SUBSET Nat OBVIOUS
<1>3. PICK i \in T : \A j \in T : i <= j BY <1>1, <1>2, LeastIndex
<1>4. i \in 1 .. m /\ P[i] # Q[i] OBVIOUS
<1>5. i # 1 BY <1>4, <1>a, <1>b
<1>6. i \in 2 .. m /\ i - 1 \in 1 .. m /\ ~(i <= i - 1) BY <1>4, <1>5
<1>7. i - 1 \notin T BY <1>3, <1>6
<1>8. P[i - 1] = Q[i - 1] BY <1>6, <1>7
<1>9. P[i] = P[i - 1] \o p[i] /\ Q[i] = Q[i - 1] \o q[i] /\ p[i] = q[i] BY <1>4, <1>6, <1>a, <1>b, <1>c
<1> QED BY <1>4, <1>8, <1>9

(* Flattening takes the last segment off. *)
LEMMA FlatSnoc ==
  ASSUME NEW p, NEW q, NEW n \in Nat \ {0}, Len(p) = n, Len(q) = n - 1,
         p[n] \in Seq(Digests), n = 1 => q = <<>>,
         \A i \in 1 .. n - 1 : p[i] = q[i]
  PROVE  Flat(p) = Flat(q) \o p[n]
<1>1. Flat(p) = Joined(p)[n] BY FlatIsJoined
<1>2. CASE n = 1
  <2>1. Flat(p) = p[1] BY <1>1, <1>2, JoinedLaw
  <2>2. Flat(q) = <<>> BY <1>2, FlatOfNone
  <2> QED BY <2>1, <2>2, <1>2, ConcatEmptySeq
<1>3. CASE n # 1
  <2>1. PICK m \in Nat \ {0} : m = n - 1 BY <1>3
  <2>2. Len(q) = m BY <2>1
  <2>3. \A i \in 2 .. n : Joined(p)[i] = Joined(p)[i - 1] \o p[i] BY JoinedLaw
  <2>4. Flat(q) = Joined(q)[m] BY <2>2, FlatIsJoined
  <2>5. m <= n /\ \A i \in 1 .. m : p[i] = q[i] BY <2>1
  <2>6. Joined(p)[m] = Joined(q)[m] BY <2>2, <2>5, JoinedAlike
  <2>7. n \in 2 .. n /\ n - 1 = m BY <1>3, <2>1
  <2>8. Joined(p)[n] = Joined(p)[m] \o p[n] BY <2>3, <2>7
  <2> QED BY <1>1, <2>4, <2>6, <2>8
<1> QED BY <1>2, <1>3

-----------------------------------------------------------------------------
(* An old list is cut into segments. *)

LEMMA Product ==
  ASSUME NEW a \in Nat, NEW b \in Nat, NEW S \in Nat \ {0}, a < b
  PROVE  a * S \in Nat /\ a * S + S <= b * S /\ a <= a * S
<1>1. PICK k \in Nat : b = a + 1 + k BY b - a - 1 \in Nat
<1>2. b * S = a * S + S + k * S BY <1>1
<1>3. k * S \in Nat /\ a * S \in Nat OBVIOUS
<1>4. a <= a * S
  <2>1. PICK z \in Nat : S = z + 1 BY S - 1 \in Nat
  <2>2. a * S = a * z + a /\ a * z \in Nat BY <2>1
  <2> QED BY <2>2
<1> QED BY <1>2, <1>3, <1>4

LEMMA SegmentCount ==
  ASSUME NEW L \in Nat \ {0}, NEW S \in Nat \ {0}
  PROVE  LET n == (L + S - 1) \div S
         IN  n \in 1 .. L /\ (n - 1) * S < L /\ L <= n * S /\ n * S \in Nat
<1> DEFINE a == L + S - 1  n == a \div S
<1>1. a \in Nat /\ a >= S OBVIOUS
<1>2. n \in Nat /\ n * S <= a /\ a < n * S + S
  BY <1>1, SMTT(30)
<1> HIDE DEF n
<1>3. n # 0 BY <1>1, <1>2
<1>4. PICK m \in Nat : n = m + 1 BY <1>2, <1>3, n - 1 \in Nat
<1>5. n * S = m * S + S /\ m * S \in Nat BY <1>4
<1>6. m * S < L /\ L <= n * S BY <1>2, <1>5
<1>7. m <= m * S BY <1>4, <1>2, Product
<1> QED BY <1>2, <1>4, <1>5, <1>6, <1>7 DEF n

\* The first k segments of f.
First(f, k) == [i \in 1 .. k |-> f[i]]

LEMMA FirstIs ==
  ASSUME NEW f, NEW k \in Nat
  PROVE  Len(First(f, k)) = k /\ (k = 0 => First(f, k) = <<>>)
         /\ \A i \in 1 .. k : First(f, k)[i] = f[i]
  BY DEF First

LEMMA FirstAlike ==
  ASSUME NEW f, NEW g, NEW k \in Nat, \A i \in 1 .. k : f[i] = g[i]
  PROVE  First(f, k) = First(g, k)
  BY DEF First

LEMMA FlatFirst ==
  ASSUME NEW f, NEW k \in Nat \ {0}, f[k] \in Seq(Digests)
  PROVE  Flat(First(f, k)) = Flat(First(f, k - 1)) \o f[k]
<1>1. k - 1 \in Nat /\ k \in 1 .. k /\ \A i \in 1 .. k - 1 : i \in 1 .. k OBVIOUS
<1> DEFINE p == First(f, k)  q == First(f, k - 1)
<1>2. /\ Len(p) = k /\ Len(q) = k - 1 /\ (k = 1 => q = <<>>) /\ p[k] = f[k]
      /\ \A i \in 1 .. k - 1 : p[i] = q[i]
  BY <1>1, FirstIs
<1> HIDE DEF p, q
<1>3. Flat(p) = Flat(q) \o p[k] BY <1>2, FlatSnoc
<1> QED BY <1>2, <1>3 DEF p, q

LEMMA PagesAre ==
  ASSUME NEW s \in Seq(Digests), s # <<>>
  PROVE  LET n == Len(Pages(s))
         IN  /\ n \in 1 .. Len(s) /\ DOMAIN Pages(s) = 1 .. n
             /\ \A i \in 1 .. n : Pages(s)[i] \in Seq(Digests) /\ Len(Pages(s)[i]) \in 1 .. SegmentSize
             /\ Flat(First(Pages(s), n)) = s
<1> DEFINE L == Len(s)  S == SegmentSize  n == (L + S - 1) \div S
           cut(i) == IF i * S < L THEN i * S ELSE L
           pg == [i \in 1 .. n |-> SubSeq(s, (i - 1) * S + 1, cut(i))]
<1>1. L \in Nat \ {0} /\ S \in Nat \ {0} BY LogAssumption, EmptySeq
<1>2. Pages(s) = pg BY DEF Pages
<1>3. n \in 1 .. L /\ (n - 1) * S < L /\ L <= n * S /\ n * S \in Nat BY <1>1, SegmentCount
<1> HIDE DEF L, S, n
<1>4. Len(Pages(s)) = n /\ DOMAIN Pages(s) = 1 .. n
  <2>1. n \in Nat BY <1>1, <1>3
  <2> QED BY <1>2, <2>1
<1>5. ASSUME NEW i \in 1 .. n
      PROVE  /\ i - 1 \in Nat /\ (i - 1) * S \in Nat /\ (i - 1) * S < L
             /\ i * S = (i - 1) * S + S /\ i * S \in Nat
  <2>1. PICK m \in Nat : i = m + 1 BY <1>3, i - 1 \in Nat
  <2>2. i * S = m * S + S /\ m * S \in Nat BY <1>1, <2>1
  <2>3. m * S < L
    <3>1. CASE i = n BY <1>3, <2>1, <3>1
    <3>2. CASE i # n
      <4>1. m \in Nat /\ n - 1 \in Nat /\ m < n - 1 BY <2>1, <3>2, <1>1, <1>3
      <4>2. m * S + S <= (n - 1) * S BY <4>1, <1>1, Product
      <4>3. (n - 1) * S \in Int BY <4>1, <1>1
      <4> QED BY <4>2, <4>3, <2>2, <1>3, <1>1
    <3> QED BY <3>1, <3>2
  <2> QED BY <1>1, <2>1, <2>2, <2>3
<1>6. ASSUME NEW i \in 1 .. n
      PROVE  /\ cut(i) \in (i - 1) * S + 1 .. (i - 1) * S + S /\ cut(i) <= L
             /\ i # 1 => cut(i - 1) = (i - 1) * S
  <2> DEFINE a == (i - 1) * S  b == i * S
  <2>1. a \in Nat /\ a < L /\ b = a + S BY <1>5
  <2> HIDE DEF a, b
  <2> QED BY <1>1, <2>1 DEF a, b
<1>7. ASSUME NEW i \in 1 .. n
      PROVE  pg[i] \in Seq(Digests) /\ Len(pg[i]) \in 1 .. S
  <2> DEFINE a == (i - 1) * S  c == cut(i)
  <2>1. a \in Nat /\ c \in a + 1 .. a + S /\ c <= L BY <1>5, <1>6
  <2>2. pg[i] = SubSeq(s, a + 1, c) OBVIOUS
  <2> HIDE DEF a, c
  <2>3. a + 1 \in 1 .. L + 1 /\ c \in (a + 1) - 1 .. L BY <1>1, <2>1
  <2>4. SubSeq(s, a + 1, c) \in Seq(Digests) /\ Len(SubSeq(s, a + 1, c)) = IF a + 1 <= c THEN c - (a + 1) + 1 ELSE 0
    BY <2>3, SubSeqProperties DEF L
  <2>5. Len(SubSeq(s, a + 1, c)) \in 1 .. S BY <1>1, <2>1, <2>4
  <2> HIDE DEF pg
  <2> QED BY <2>2, <2>4, <2>5
<1>8. \A i \in 1 .. n : Flat(First(pg, i)) = SubSeq(s, 1, cut(i))
  <2> DEFINE T == {i \in 1 .. n : Flat(First(pg, i)) # SubSeq(s, 1, cut(i))}
  <2>1. SUFFICES ASSUME T # {} PROVE FALSE OBVIOUS
  <2>2. T \in SUBSET Nat OBVIOUS
  <2>3. PICK i \in T : \A j \in T : i <= j BY <2>1, <2>2, LeastIndex
  <2>4. i \in 1 .. n /\ i \in Nat \ {0} /\ Flat(First(pg, i)) # SubSeq(s, 1, cut(i)) OBVIOUS
  <2>5. pg[i] \in Seq(Digests) /\ pg[i] = SubSeq(s, (i - 1) * S + 1, cut(i)) BY <1>7, <2>4
  <2>6. Flat(First(pg, i)) = Flat(First(pg, i - 1)) \o pg[i]
    <3> HIDE DEF pg
    <3> QED BY <2>4, <2>5, FlatFirst
  <2>7. CASE i = 1
    <3>1. First(pg, 0) = <<>> BY FirstIs
    <3> DEFINE q == First(pg, i - 1)
    <3>a. q = <<>> BY <2>7, <3>1
    <3>b. Flat(q) = <<>> BY <3>a, FlatOfNone
    <3>c. <<>> \o pg[i] = pg[i] BY <2>5, ConcatEmptySeq
    <3>d. Flat(First(pg, i)) = Flat(q) \o pg[i] BY <2>6
    <3> HIDE DEF q, pg
    <3>2. Flat(First(pg, i)) = pg[i] BY <3>b, <3>c, <3>d
    <3>3. (i - 1) * S + 1 = 1 BY <2>7, <1>1
    <3> QED BY <2>4, <2>5, <3>2, <3>3
  <2>8. CASE i # 1
    <3>0. n \in Nat BY <1>1, <1>3
    <3>1. i - 1 \in 1 .. n /\ ~(i <= i - 1)
      <4> HIDE DEF T, pg
      <4> QED BY <2>4, <2>8, <3>0
    <3>2. i - 1 \notin T BY <2>3, <3>1
    <3>3. Flat(First(pg, i - 1)) = SubSeq(s, 1, cut(i - 1)) BY <3>1, <3>2
    <3> DEFINE a == (i - 1) * S  c == cut(i)
    <3>4. cut(i - 1) = a /\ a \in Nat /\ a < L /\ c \in a + 1 .. a + S /\ c <= L
      BY <1>5, <1>6, <2>4, <2>8
    <3> HIDE DEF a, c
    <3>5. 1 \in 1 .. Len(s) + 1 /\ a \in 1 - 1 .. Len(s) /\ c \in a .. Len(s)
      BY <3>4, <1>1 DEF L
    <3>6. SubSeq(s, 1, a) \o SubSeq(s, a + 1, c) = SubSeq(s, 1, c)
      BY <3>5, ConcatAdjacentSubSeq
    <3> QED BY <2>4, <2>5, <2>6, <3>3, <3>4, <3>6 DEF a, c
  <2> QED BY <2>7, <2>8
<1>9. Flat(First(pg, n)) = s
  <2>1. n \in 1 .. n /\ cut(n) = L BY <1>1, <1>3
  <2>2. SubSeq(s, 1, L) = s BY SubSeqFull DEF L
  <2> QED BY <1>8, <2>1, <2>2
<1> QED BY <1>2, <1>3, <1>4, <1>7, <1>9 DEF L, S

-----------------------------------------------------------------------------
(* The inductive invariant.  What a reader took is checked against the root *)
(* it read: as long as that root is in place the reader's list is the log.  *)
(* An append always installs a root with more entries than any reader has   *)
(* seen, so a root once replaced never comes back.                          *)

Roots == [kind : {"absent", "old", "root"}, segmentCount : Nat, entryCount : Nat, old : Seq(Digests)]

LogTypes == /\ root \in Roots /\ segments \in [Capacity -> Seq(Digests)] /\ history \in Seq(Digests)
            /\ readers = [t \in LogTabs |-> readers[t]]

RootFits == IF root.kind = "root" THEN root.segmentCount <= Len(history)
            ELSE root.segmentCount = 0 /\ root.entryCount = 0 /\ (root.kind = "absent" => root.old = <<>>)

\* The root is the one read: the list and the last segment are still the log's.
StillRead(r) ==
    root = r.root =>
        /\ r.items = history /\ ~IsReplay(r.digest, history)
        /\ r.last = IF root.segmentCount = 0 THEN NoSegment ELSE segments[root.segmentCount]

ReaderOK(r) ==
    /\ r.step \in {"away", "root", "read"}
    /\ r.step # "away" => /\ r.digest \in Digests /\ r.root \in Roots
                          /\ r.root.kind = "root" => r.root.entryCount <= Len(history)
    /\ r.step = "read" => StillRead(r)

LogInv == /\ LogTypes /\ RootFits /\ LogIsHistory /\ AcceptedOnce
          /\ \A t \in LogTabs : ReaderOK(readers[t])

\* The log of a root is its segments joined.
Stored == First(segments, root.segmentCount)

LEMMA StoredIs ==
  LogIsHistory <=> IF root.kind = "root"
        THEN /\ Flat(Stored) = history /\ root.entryCount = Len(history)
             /\ \A i \in DOMAIN Stored : Len(Stored[i]) \in 1 .. SegmentSize
             /\ \A i \in Capacity : i > root.segmentCount => segments[i] = NoSegment
        ELSE root.old = history /\ \A i \in Capacity : segments[i] = NoSegment
  BY Zenon DEF LogIsHistory, Stored, First

LEMMA HistoryFits ==
  ASSUME NEW h \in Seq(Digests), \A i, j \in DOMAIN h : h[i] = h[j] => i = j
  PROVE  Len(h) \in 0 .. Cardinality(Digests) /\ Cardinality(Digests) \in Nat
<1>1. IsFiniteSet(Digests) /\ Cardinality(Digests) \in Nat BY LogAssumption, FS_CardinalityType
<1>2. Len(h) \in Nat /\ DOMAIN h = 1 .. Len(h) /\ h \in [1 .. Len(h) -> Digests] BY LenProperties
<1>3. IsFiniteSet(1 .. Len(h)) /\ Cardinality(1 .. Len(h)) = Len(h) BY <1>2, FS_Interval
<1>4. ~(Cardinality(Digests) < Len(h))
  <2>1. SUFFICES ASSUME Cardinality(Digests) < Len(h) PROVE FALSE OBVIOUS
  <2>2. \E x, y \in 1 .. Len(h) : x # y /\ h[x] = h[y] BY <1>1, <1>2, <1>3, <2>1, FS_PigeonHole
  <2> QED BY <2>2, <1>2
<1> QED BY <1>1, <1>2, <1>4

\* A digest that is not in the log keeps the log without duplicates.
LEMMA AppendFresh ==
  ASSUME NEW h \in Seq(Digests), NEW d \in Digests, ~IsReplay(d, h),
         \A i, j \in DOMAIN h : h[i] = h[j] => i = j
  PROVE  LET a == Append(h, d)
         IN  a \in Seq(Digests) /\ Len(a) = Len(h) + 1 /\ \A i, j \in DOMAIN a : a[i] = a[j] => i = j
<1>1. Len(h) \in Nat /\ DOMAIN h = 1 .. Len(h) BY LenProperties
<1>2. \A i \in 1 .. Len(h) : h[i] # d BY <1>1 DEF IsReplay, ToSet
<1> DEFINE a == Append(h, d)
<1>3. /\ a \in Seq(Digests) /\ Len(a) = Len(h) + 1 /\ DOMAIN a = 1 .. Len(h) + 1
      /\ \A i \in 1 .. Len(h) : a[i] = h[i] /\ a[Len(h) + 1] = d
  BY <1>1, AppendProperties
<1>4. a[Len(h) + 1] = d BY <1>1, AppendProperties
<1> HIDE DEF a
<1>5. ASSUME NEW i \in DOMAIN a, NEW j \in DOMAIN a, a[i] = a[j] PROVE i = j
  BY <1>1, <1>2, <1>3, <1>4, <1>5
<1> QED BY <1>3, <1>5 DEF a

LEMMA FlatType ==
  ASSUME NEW f, NEW k \in Nat, \A i \in 1 .. k : f[i] \in Seq(Digests)
  PROVE  Flat(First(f, k)) \in Seq(Digests)
<1> DEFINE T == {i \in 0 .. k : Flat(First(f, i)) \notin Seq(Digests)}
<1>1. SUFFICES ASSUME T # {} PROVE FALSE
  <2>1. k \in 0 .. k OBVIOUS
  <2> QED BY <2>1
<1>2. T \in SUBSET Nat OBVIOUS
<1>3. PICK i \in T : \A j \in T : i <= j BY <1>1, <1>2, LeastIndex
<1>4. i \in 0 .. k /\ Flat(First(f, i)) \notin Seq(Digests) OBVIOUS
<1>5. i # 0
  <2>1. First(f, 0) = <<>> BY FirstIs
  <2>2. Flat(First(f, 0)) = <<>> /\ <<>> \in Seq(Digests) BY <2>1, FlatOfNone, EmptySeq
  <2> QED BY <1>4, <2>2
<1>6. i \in Nat \ {0} /\ i \in 1 .. k /\ i - 1 \in 0 .. k /\ ~(i <= i - 1) BY <1>4, <1>5
<1>7. i - 1 \notin T BY <1>3, <1>6
<1>8. Flat(First(f, i - 1)) \in Seq(Digests) BY <1>6, <1>7
<1>9. Flat(First(f, i)) = Flat(First(f, i - 1)) \o f[i] BY <1>6, FlatFirst
<1> QED BY <1>4, <1>6, <1>8, <1>9, ConcatProperties

LEMMA ConcatAppend ==
  ASSUME NEW a \in Seq(Digests), NEW b \in Seq(Digests), NEW d \in Digests
  PROVE  a \o Append(b, d) = Append(a \o b, d)
  OBVIOUS

LEMMA SnocIsAppend ==
  ASSUME NEW a \in Seq(Digests), NEW d \in Digests
  PROVE  a \o <<d>> = Append(a, d)
  OBVIOUS

-----------------------------------------------------------------------------

LEMMA LogStarts == LogInit => LogInv
<1>1. SUFFICES ASSUME LogInit PROVE LogInv OBVIOUS
<1>2. PICK o \in OldLists \cup {<<>>} :
          /\ root = IF o = <<>> THEN Absent(<<>>) ELSE [Absent(o) EXCEPT !.kind = "old"]
          /\ history = o
  BY <1>1 DEF LogInit
<1>3. o \in Seq(Digests) /\ \A i, j \in DOMAIN o : o[i] = o[j] => i = j
  <2>1. CASE o = <<>> BY <2>1, EmptySeq
  <2>2. CASE o \in OldLists BY <2>2, LogAssumption
  <2> QED BY <2>1, <2>2
<1>4. /\ root \in Roots /\ root.kind # "root" /\ root.segmentCount = 0 /\ root.entryCount = 0
      /\ root.old = o /\ (root.kind = "absent" => o = <<>>)
  BY <1>2, <1>3 DEF Absent, Roots
<1>5. segments \in [Capacity -> Seq(Digests)] /\ \A i \in Capacity : segments[i] = NoSegment
  BY <1>1, EmptySeq DEF LogInit, NoSegment
<1>6. readers = [t \in LogTabs |-> readers[t]] /\ \A t \in LogTabs : readers[t].step = "away"
  BY <1>1 DEF LogInit, Away
<1>7. LogTypes BY <1>2, <1>3, <1>4, <1>5, <1>6 DEF LogTypes
<1>8. RootFits BY <1>4 DEF RootFits
<1>9. LogIsHistory BY <1>2, <1>4, <1>5 DEF LogIsHistory
<1>10. AcceptedOnce BY <1>2, <1>3 DEF AcceptedOnce
<1>11. \A t \in LogTabs : ReaderOK(readers[t]) BY <1>6 DEF ReaderOK
<1> QED BY <1>7, <1>8, <1>9, <1>10, <1>11 DEF LogInv

\* A step that only changes what one reader holds.
LEMMA ReaderMoves ==
  ASSUME LogInv, UNCHANGED <<root, segments, history>>, NEW t \in LogTabs, NEW r,
         readers' = [readers EXCEPT ![t] = r], ReaderOK(r)
  PROVE  LogInv'
<1>1. ReaderOK(r)' BY DEF ReaderOK, StillRead
<1>2. readers' = [u \in LogTabs |-> readers'[u]] /\ \A u \in LogTabs : readers'[u] = IF u = t THEN r ELSE readers[u]
  BY DEF LogInv, LogTypes
<1>3. ASSUME NEW u \in LogTabs PROVE (ReaderOK(readers[u]))'
  <2>1. CASE u = t
    <3>1. readers'[u] = r BY <1>2, <2>1
    <3> QED BY <1>1, <3>1 DEF ReaderOK, StillRead
  <2>2. CASE u # t
    <3>1. ReaderOK(readers[u]) /\ readers'[u] = readers[u] BY <1>2, <2>2 DEF LogInv
    <3> QED BY <3>1 DEF ReaderOK, StillRead
  <2> QED BY <2>1, <2>2
<1>4. (\A u \in LogTabs : ReaderOK(readers[u]))' BY <1>3
<1>5. (LogTypes /\ RootFits /\ LogIsHistory /\ AcceptedOnce)'
  BY <1>2 DEF LogInv, LogTypes, RootFits, LogIsHistory, AcceptedOnce
<1> QED BY <1>4, <1>5 DEF LogInv

LEMMA AwayIsFine == ReaderOK(Away)
  BY DEF ReaderOK, Away

LEMMA ReadRootKeeps ==
  ASSUME LogInv, NEW t \in LogTabs, NEW d \in Digests, ReadRoot(t, d)
  PROVE  LogInv'
<1> DEFINE r == [step |-> "root", digest |-> d, root |-> root]
<1>1. readers' = [readers EXCEPT ![t] = r] /\ UNCHANGED <<root, segments, history>>
  BY Zenon DEF ReadRoot
<1>2. root \in Roots /\ (root.kind = "root" => root.entryCount = Len(history)) /\ Len(history) \in Nat
  BY LenProperties DEF LogInv, LogTypes, LogIsHistory
<1>3. ReaderOK(r) BY <1>2 DEF ReaderOK
<1> QED BY <1>1, <1>3, ReaderMoves

LEMMA ReadSegmentsKeeps ==
  ASSUME LogInv, NEW t \in LogTabs, ReadSegments(t)
  PROVE  LogInv'
<1> DEFINE r     == readers[t]
           pages == First(segments, r.root.segmentCount)
           items == IF r.root.kind = "root" THEN Flat(pages) ELSE r.root.old
           got   == [step |-> "read", digest |-> r.digest, root |-> r.root, items |-> items,
                     last |-> IF pages = <<>> THEN NoSegment ELSE pages[Len(pages)]]
<1>1. /\ r.step = "root" /\ UNCHANGED <<root, segments, history>>
      /\ \/ readers' = [readers EXCEPT ![t] = Away]
         \/ ~IsReplay(r.digest, items) /\ readers' = [readers EXCEPT ![t] = got]
  <2> DEFINE a == UNCHANGED <<root, segments, history>>
  <2>1. r.step = "root" /\ a BY Zenon DEF ReadSegments
  <2>2. readers' = [readers EXCEPT ![t] = Away] \/ (~IsReplay(r.digest, items) /\ readers' = [readers EXCEPT ![t] = got])
    BY DEF ReadSegments, First
  <2> QED BY <2>1, <2>2
<1>2. /\ r.digest \in Digests /\ r.root \in Roots
      /\ r.root.kind = "root" => r.root.entryCount <= Len(history)
  BY <1>1 DEF LogInv, ReaderOK
<1>3. CASE readers' = [readers EXCEPT ![t] = Away] BY <1>1, <1>3, AwayIsFine, ReaderMoves
<1>4. CASE ~IsReplay(r.digest, items) /\ readers' = [readers EXCEPT ![t] = got]
  <2>1. ASSUME root = r.root
        PROVE  /\ items = history
               /\ got.last = IF root.segmentCount = 0 THEN NoSegment ELSE segments[root.segmentCount]
    <3>1. pages = Stored BY <2>1 DEF Stored
    <3>2. IF root.kind = "root" THEN Flat(Stored) = history ELSE root.old = history
      BY Zenon, StoredIs DEF LogInv
    <3>3. items = history BY <2>1, <3>1, <3>2
    <3> DEFINE k == root.segmentCount
    <3>4. k \in Nat BY DEF LogInv, LogTypes, Roots
    <3> HIDE DEF k
    <3>5. /\ Len(First(segments, k)) = k /\ (k = 0 => First(segments, k) = <<>>)
          /\ \A i \in 1 .. k : First(segments, k)[i] = segments[i]
      BY <3>4, FirstIs
    <3>6. pages = First(segments, k) BY <2>1 DEF k
    <3>7. (IF pages = <<>> THEN NoSegment ELSE pages[Len(pages)]) = IF k = 0 THEN NoSegment ELSE segments[k]
      <4> HIDE DEF pages
      <4>1. CASE k = 0
        <5>1. pages = <<>> BY <3>5, <3>6, <4>1
        <5> QED BY <5>1, <4>1
      <4>2. CASE k # 0
        <5>1. k \in 1 .. k /\ Len(pages) = k BY <3>4, <3>5, <3>6, <4>2
        <5>2. pages # <<>> BY <5>1, <4>2
        <5> QED BY <3>5, <3>6, <5>1, <5>2, <4>2
      <4> QED BY <4>1, <4>2
    <3> QED BY <3>3, <3>7 DEF k
  <2> HIDE DEF items
  <2>2. StillRead(got)
    <3>1. /\ got.root = r.root /\ got.items = items /\ got.digest = r.digest OBVIOUS
    <3> HIDE DEF got, r
    <3> QED BY <1>4, <2>1, <3>1 DEF StillRead
  <2>3. ReaderOK(got)
    <3>1. got.step = "read" /\ got.digest = r.digest /\ got.root = r.root OBVIOUS
    <3> HIDE DEF got, r
    <3> QED BY <1>2, <2>2, <3>1 DEF ReaderOK
  <2> HIDE DEF got
  <2> QED BY <1>1, <1>4, <2>3, ReaderMoves
<1> QED BY <1>1, <1>3, <1>4

LEMMA CloseTabKeeps ==
  ASSUME LogInv, NEW t \in LogTabs, CloseTab(t)
  PROVE  LogInv'
  BY AwayIsFine, ReaderMoves DEF CloseTab

-----------------------------------------------------------------------------
(* The swap of an acceptance, case by case: what the segments become.      *)

\* The log after an acceptance: its root counts c segments of f that join to h.
Grown(f, c, h) ==
    /\ c \in 1 .. Len(h) /\ f \in [Capacity -> Seq(Digests)] /\ Flat(First(f, c)) = h
    /\ \A i \in 1 .. c : Len(f[i]) \in 1 .. SegmentSize
    /\ \A i \in Capacity : i > c => f[i] = NoSegment

Written(w) == [i \in Capacity |-> IF i \in DOMAIN w THEN w[i].next ELSE segments[i]]

LEMMA OldListGrows ==
  ASSUME NEW a \in Seq(Digests), a # <<>>, Len(a) \in 0 .. Cardinality(Digests), Cardinality(Digests) \in Nat,
         \A i \in Capacity : segments[i] = NoSegment, segments \in [Capacity -> Seq(Digests)]
  PROVE  Grown(Written([i \in DOMAIN Pages(a) |-> [expected |-> NoSegment, next |-> Pages(a)[i]]]), Len(Pages(a)), a)
<1> DEFINE p == Pages(a)  n == Len(p)
           w == [i \in DOMAIN p |-> [expected |-> NoSegment, next |-> p[i]]]
           f == Written(w)
<1>1. /\ n \in 1 .. Len(a) /\ DOMAIN p = 1 .. n /\ Flat(First(p, n)) = a
      /\ \A i \in 1 .. n : p[i] \in Seq(Digests) /\ Len(p[i]) \in 1 .. SegmentSize
  BY PagesAre
<1> HIDE DEF p, n
<1>2. n \in Nat /\ \A i \in 1 .. n : i \in Capacity BY <1>1 DEF Capacity
<1>3. DOMAIN w = 1 .. n /\ \A i \in 1 .. n : w[i].next = p[i] BY <1>1
<1> HIDE DEF w
<1>4. \A i \in Capacity : f[i] = IF i \in 1 .. n THEN p[i] ELSE segments[i] BY <1>3 DEF Written
<1>5. f \in [Capacity -> Seq(Digests)]
  <2>1. \A i \in Capacity : (IF i \in DOMAIN w THEN w[i].next ELSE segments[i]) \in Seq(Digests) BY <1>1, <1>3
  <2> QED BY <2>1 DEF Written
<1> HIDE DEF f
<1>6. \A i \in 1 .. n : f[i] = p[i] BY <1>2, <1>4
<1>7. First(f, n) = First(p, n) BY <1>2, <1>6, FirstAlike
<1>8. \A i \in Capacity : i > n => f[i] = NoSegment BY <1>2, <1>4
<1>9. \A i \in 1 .. n : Len(f[i]) \in 1 .. SegmentSize BY <1>1, <1>6
<1>10. Grown(f, n, a) BY <1>1, <1>5, <1>7, <1>8, <1>9 DEF Grown
<1> QED BY <1>10 DEF f, w, n, p

\* The last segment takes one more.
LEMMA LastSegmentGrows ==
  ASSUME NEW h \in Seq(Digests), NEW c, Grown(segments, c, h), NEW d \in Digests,
         Fits(segments[c]), Len(h) + 1 \in 0 .. Cardinality(Digests), Cardinality(Digests) \in Nat
  PROVE  Grown(Written([i \in {c} |-> [expected |-> segments[c], next |-> Append(segments[c], d)]]), c, Append(h, d))
<1> DEFINE w == [i \in {c} |-> [expected |-> segments[c], next |-> Append(segments[c], d)]]
           f == Written(w)
<1>1. Len(h) \in Nat /\ c \in Nat \ {0} /\ c <= Len(h) /\ c \in Capacity /\ c \in 1 .. c /\ c - 1 \in Nat
  BY LenProperties DEF Grown, Capacity
<1>2. /\ segments \in [Capacity -> Seq(Digests)] /\ segments[c] \in Seq(Digests) /\ Flat(First(segments, c)) = h
      /\ \A i \in 1 .. c : Len(segments[i]) \in 1 .. SegmentSize
      /\ \A i \in Capacity : i > c => segments[i] = NoSegment
  BY <1>1 DEF Grown
<1>3. DOMAIN w = {c} /\ w[c].next = Append(segments[c], d) OBVIOUS
<1> HIDE DEF w
<1>4. \A i \in Capacity : f[i] = IF i = c THEN Append(segments[c], d) ELSE segments[i] BY <1>3 DEF Written
<1>5. /\ Append(segments[c], d) \in Seq(Digests) /\ Len(Append(segments[c], d)) = Len(segments[c]) + 1
      /\ Len(segments[c]) \in Nat
  BY <1>2, AppendProperties, LenProperties
<1>6. f \in [Capacity -> Seq(Digests)]
  <2>1. \A i \in Capacity : (IF i \in DOMAIN w THEN w[i].next ELSE segments[i]) \in Seq(Digests) BY <1>2, <1>3, <1>5
  <2> QED BY <2>1 DEF Written
<1> HIDE DEF f
<1>7. \A i \in 1 .. c : i \in Capacity BY <1>1 DEF Grown, Capacity
<1>8. f[c] = Append(segments[c], d) /\ \A i \in 1 .. c - 1 : f[i] = segments[i]
  <2>1. \A i \in 1 .. c - 1 : i \in 1 .. c /\ i # c BY <1>1
  <2> QED BY <1>1, <1>4, <1>7, <2>1
<1>9. First(f, c - 1) = First(segments, c - 1) BY <1>1, <1>8, FirstAlike
<1>10. Flat(First(f, c)) = Append(h, d)
  <2> DEFINE b == Flat(First(segments, c - 1))
  <2>1. b \in Seq(Digests)
    <3>1. \A i \in 1 .. c - 1 : segments[i] \in Seq(Digests) BY <1>1, <1>2, <1>7
    <3> QED BY <1>1, <3>1, FlatType
  <2>2. h = b \o segments[c] BY <1>1, <1>2, FlatFirst
  <2>3. f[c] \in Seq(Digests) BY <1>5, <1>8
  <2>4. Flat(First(f, c)) = Flat(First(f, c - 1)) \o f[c] BY <1>1, <2>3, FlatFirst
  <2>5. b \o Append(segments[c], d) = Append(b \o segments[c], d) BY <1>2, <2>1, ConcatAppend
  <2> QED BY <1>8, <1>9, <2>2, <2>4, <2>5
<1>11. Len(Append(h, d)) = Len(h) + 1 BY AppendProperties
<1>12. ASSUME NEW i \in 1 .. c PROVE Len(f[i]) \in 1 .. SegmentSize
  <2>1. CASE i = c
    <3>1. SegmentSize \in Nat /\ Len(segments[c]) + 1 <= SegmentSize BY LogAssumption DEF Fits
    <3> QED BY <1>5, <1>8, <2>1, <3>1
  <2>2. CASE i # c BY <1>1, <1>2, <1>4, <1>7, <2>2
  <2> QED BY <2>1, <2>2
<1>13. \A i \in Capacity : i > c => f[i] = NoSegment BY <1>1, <1>2, <1>4
<1>14. c \in 1 .. Len(Append(h, d)) BY <1>1, <1>11
<1>15. Grown(f, c, Append(h, d)) BY <1>6, <1>10, <1>12, <1>13, <1>14 DEF Grown
<1> QED BY <1>15 DEF f, w

\* A new segment starts with the digest.
LEMMA NewSegmentGrows ==
  ASSUME NEW h \in Seq(Digests), NEW c \in Nat, c <= Len(h), NEW d \in Digests,
         segments \in [Capacity -> Seq(Digests)], Flat(First(segments, c)) = h,
         \A i \in 1 .. c : Len(segments[i]) \in 1 .. SegmentSize,
         \A i \in Capacity : i > c => segments[i] = NoSegment,
         Len(h) + 1 \in 0 .. Cardinality(Digests), Cardinality(Digests) \in Nat
  PROVE  Grown(Written([i \in {c + 1} |-> [expected |-> NoSegment, next |-> <<d>>]]), c + 1, Append(h, d))
<1> DEFINE k == c + 1
           w == [i \in {k} |-> [expected |-> NoSegment, next |-> <<d>>]]
           f == Written(w)
<1>1. Len(h) \in Nat /\ k \in Nat \ {0} /\ k - 1 = c /\ k <= Len(h) + 1 BY LenProperties
<1>2. k \in Capacity /\ \A i \in 1 .. k : i \in Capacity BY <1>1 DEF Capacity
<1>3. DOMAIN w = {k} /\ w[k].next = <<d>> OBVIOUS
<1> HIDE DEF w
<1>4. \A i \in Capacity : f[i] = IF i = k THEN <<d>> ELSE segments[i] BY <1>3 DEF Written
<1>5. <<d>> \in Seq(Digests) /\ Len(<<d>>) = 1 OBVIOUS
<1>6. f \in [Capacity -> Seq(Digests)]
  <2>1. \A i \in Capacity : (IF i \in DOMAIN w THEN w[i].next ELSE segments[i]) \in Seq(Digests) BY <1>3, <1>5
  <2> QED BY <2>1 DEF Written
<1> HIDE DEF f
<1>7. f[k] = <<d>> /\ \A i \in 1 .. c : f[i] = segments[i]
  <2>1. \A i \in 1 .. c : i # k /\ i \in 1 .. k BY DEF k
  <2> QED BY <1>2, <1>4, <2>1
<1>8. First(f, c) = First(segments, c) BY <1>7, FirstAlike
<1>9. Flat(First(f, k)) = Flat(First(f, k - 1)) \o f[k] BY <1>1, <1>5, <1>7, FlatFirst
<1>10. Flat(First(f, k)) = Append(h, d)
  <2>1. h \o <<d>> = Append(h, d) BY SnocIsAppend
  <2> QED BY <1>1, <1>7, <1>8, <1>9, <2>1
<1>11. Len(Append(h, d)) = Len(h) + 1 BY AppendProperties
<1>12. \A i \in 1 .. k : Len(f[i]) \in 1 .. SegmentSize
  <2>1. \A i \in 1 .. k : i = k \/ i \in 1 .. c OBVIOUS
  <2>2. 1 \in 1 .. SegmentSize BY LogAssumption
  <2> HIDE DEF k
  <2> QED BY <1>5, <1>7, <2>1, <2>2
<1>13. \A i \in Capacity : i > k => f[i] = NoSegment
  <2>1. \A i \in Capacity : i > k => i # k /\ i > c BY <1>1 DEF Capacity
  <2> QED BY <1>4, <2>1
<1>14. k \in 1 .. Len(Append(h, d)) BY <1>1, <1>11
<1>15. Grown(f, k, Append(h, d)) BY <1>6, <1>10, <1>12, <1>13, <1>14 DEF Grown
<1> QED BY <1>15 DEF f, w, k

-----------------------------------------------------------------------------

\* The record an append installs, and the log it leaves, when nothing moved since the read.
LEMMA AppendGrows ==
  ASSUME LogInv, NEW r, r.step = "read", ReaderOK(r), root = r.root
  PROVE  LET u == PrepareReplayAppend(r)
             a == Append(history, r.digest)
         IN  /\ a \in Seq(Digests) /\ Len(a) = Len(history) + 1
             /\ \A i, j \in DOMAIN a : a[i] = a[j] => i = j
             /\ u.entries = Len(a) /\ Grown(Written(u.writes), u.count, a)
<1> DEFINE d == r.digest  a == Append(history, d)  c == root.segmentCount
           last == IF c = 0 THEN NoSegment ELSE segments[c]
<1>1. /\ d \in Digests /\ r.items = history /\ ~IsReplay(d, history) /\ r.last = last
  BY DEF ReaderOK, StillRead
<1>2. /\ history \in Seq(Digests) /\ segments \in [Capacity -> Seq(Digests)] /\ c \in Nat /\ Len(history) \in Nat
      /\ root.kind \in {"absent", "old", "root"}
  BY LenProperties DEF LogInv, LogTypes, Roots
<1>3. /\ a \in Seq(Digests) /\ Len(a) = Len(history) + 1
      /\ \A i, j \in DOMAIN a : a[i] = a[j] => i = j
  BY <1>1, <1>2, AppendFresh DEF LogInv, AcceptedOnce
<1>4. Len(a) \in 0 .. Cardinality(Digests) /\ Cardinality(Digests) \in Nat BY <1>3, HistoryFits
<1>5. IF root.kind = "root"
      THEN /\ Flat(Stored) = history /\ c <= Len(history)
           /\ \A i \in DOMAIN Stored : Len(Stored[i]) \in 1 .. SegmentSize
           /\ \A i \in Capacity : i > c => segments[i] = NoSegment
      ELSE /\ root.old = history /\ c = 0 /\ (root.kind = "absent" => root.old = <<>>)
           /\ \A i \in Capacity : segments[i] = NoSegment
  BY Zenon, StoredIs DEF LogInv, RootFits
<1>6. a # <<>>
  <2> HIDE DEF a
  <2> QED BY <1>2, <1>3, EmptySeq
<1> DEFINE pw == [i \in DOMAIN Pages(a) |-> [expected |-> NoSegment, next |-> Pages(a)[i]]]
           fw == [i \in {c} |-> [expected |-> last, next |-> Append(last, d)]]
           nw == [i \in {c + 1} |-> [expected |-> NoSegment, next |-> <<d>>]]
<1>7. PrepareReplayAppend(r) =
        IF root.kind = "old" THEN [writes |-> pw, count |-> Len(Pages(a)), entries |-> Len(a)]
        ELSE IF Fits(last) THEN [writes |-> fw, count |-> c, entries |-> Len(a)]
        ELSE [writes |-> nw, count |-> c + 1, entries |-> Len(a)]
  BY <1>1, Zenon DEF PrepareReplayAppend
<1>8. CASE root.kind = "old"
  <2>1. \A i \in Capacity : segments[i] = NoSegment BY <1>5, <1>8
  <2> HIDE DEF a
  <2>2. Grown(Written(pw), Len(Pages(a)), a) BY <1>2, <1>3, <1>4, <1>6, <2>1, OldListGrows
  <2> HIDE DEF pw, fw, nw
  <2>3. PrepareReplayAppend(r) = [writes |-> pw, count |-> Len(Pages(a)), entries |-> Len(a)] BY <1>7, <1>8
  <2> QED BY <1>3, <2>2, <2>3 DEF a
<1>a. ASSUME root.kind # "old"
      PROVE  /\ Flat(First(segments, c)) = history /\ c <= Len(history)
             /\ \A i \in 1 .. c : Len(segments[i]) \in 1 .. SegmentSize
             /\ \A i \in Capacity : i > c => segments[i] = NoSegment
  <2> HIDE DEF c
  <2>1. /\ Len(First(segments, c)) = c /\ (c = 0 => First(segments, c) = <<>>)
        /\ \A i \in 1 .. c : First(segments, c)[i] = segments[i]
        /\ DOMAIN First(segments, c) = 1 .. c
    BY <1>2, FirstIs DEF First
  <2>2. Stored = First(segments, c) BY DEF Stored, c
  <2>3. CASE root.kind = "root" BY <1>5, <2>1, <2>2, <2>3
  <2>4. CASE root.kind = "absent"
    <3>1. c = 0 /\ history = <<>> /\ \A i \in Capacity : segments[i] = NoSegment BY <1>5, <2>4
    <3>2. First(segments, c) = <<>> BY <2>1, <3>1
    <3>3. Flat(First(segments, c)) = <<>> BY <3>2, FlatOfNone
    <3> QED BY <1>2, <3>1, <3>3
  <2> QED BY <1>a, <1>2, <2>3, <2>4
<1>9. CASE root.kind # "old" /\ Fits(last)
  <2>1. c # 0 BY <1>9 DEF Fits
  <2>2. Fits(segments[c]) /\ last = segments[c] BY <1>9, <2>1
  <2>3. c \in 1 .. Len(history) BY <1>2, <1>9, <1>a, <2>1
  <2>4. Grown(segments, c, history) BY <1>2, <1>9, <1>a, <2>3 DEF Grown
  <2>5. Len(history) + 1 \in 0 .. Cardinality(Digests) BY <1>3, <1>4
  <2> DEFINE sw == [i \in {c} |-> [expected |-> segments[c], next |-> Append(segments[c], d)]]
  <2>6. Grown(Written(sw), c, a)
    <3> HIDE DEF c, d, last
    <3> QED BY <1>1, <1>2, <1>4, <2>2, <2>4, <2>5, LastSegmentGrows
  <2>7. fw = sw BY <2>2
  <2> HIDE DEF pw, fw, nw, sw, a, c, last
  <2>8. PrepareReplayAppend(r) = [writes |-> fw, count |-> c, entries |-> Len(a)] BY <1>7, <1>9
  <2> QED BY <1>3, <2>6, <2>7, <2>8 DEF a
<1>10. CASE root.kind # "old" /\ ~Fits(last)
  <2>1. Len(history) + 1 \in 0 .. Cardinality(Digests) BY <1>3, <1>4
  <2>2. Grown(Written(nw), c + 1, a)
    <3> HIDE DEF c, d, last
    <3> QED BY <1>1, <1>2, <1>4, <1>10, <1>a, <2>1, NewSegmentGrows
  <2> HIDE DEF pw, fw, nw, a, c, last
  <2>3. PrepareReplayAppend(r) = [writes |-> nw, count |-> c + 1, entries |-> Len(a)] BY <1>7, <1>10
  <2> QED BY <1>3, <2>2, <2>3 DEF a
<1> QED BY <1>8, <1>9, <1>10

LEMMA AppendDigestKeeps ==
  ASSUME LogInv, NEW t \in LogTabs, AppendDigest(t)
  PROVE  LogInv'
<1> DEFINE r == readers[t]
           u == PrepareReplayAppend(r)
           a == Append(history, r.digest)
           new == [kind |-> "root", segmentCount |-> u.count, entryCount |-> u.entries, old |-> <<>>]
<1>1. r.step = "read" /\ readers' = [readers EXCEPT ![t] = Away]
  BY Zenon DEF AppendDigest
<1>2. ReaderOK(r) BY DEF LogInv
<1>3. \/ UNCHANGED <<root, segments, history>>
      \/ root = r.root /\ root' = new /\ segments' = Written(u.writes) /\ history' = a
  BY Zenon DEF AppendDigest, Written
<1>4. CASE UNCHANGED <<root, segments, history>> BY <1>1, <1>4, AwayIsFine, ReaderMoves
<1>5. CASE root = r.root /\ root' = new /\ segments' = Written(u.writes) /\ history' = a
  <2>1. /\ a \in Seq(Digests) /\ Len(a) = Len(history) + 1 /\ \A i, j \in DOMAIN a : a[i] = a[j] => i = j
        /\ u.entries = Len(a) /\ Grown(Written(u.writes), u.count, a)
    BY <1>1, <1>2, <1>5, AppendGrows
  <2>2. readers' = [v \in LogTabs |-> readers'[v]] /\ \A v \in LogTabs : readers'[v] = IF v = t THEN Away ELSE readers[v]
    BY <1>1 DEF LogInv, LogTypes
  <2>3. Len(history) \in Nat BY LenProperties DEF LogInv, LogTypes
  <2>4. \A v \in LogTabs : ReaderOK(readers[v]) BY DEF LogInv
  <2> DEFINE c == u.count  e == u.entries
  <2>5. root' = [kind |-> "root", segmentCount |-> c, entryCount |-> e, old |-> <<>>] BY <1>5
  <2> HIDE DEF u, c, e, a, r, new
  <2>6. segments' = Written(u.writes) /\ history' = a BY <1>5
  <2>7. /\ c \in 1 .. Len(a) /\ segments' \in [Capacity -> Seq(Digests)] /\ Flat(First(segments', c)) = a
        /\ \A i \in 1 .. c : Len(segments'[i]) \in 1 .. SegmentSize
        /\ \A i \in Capacity : i > c => segments'[i] = NoSegment
    BY <2>1, <2>6, Zenon DEF Grown, c
  <2>8. /\ c \in Nat /\ e \in Nat /\ e = Len(history') /\ c <= Len(history') /\ e > Len(history)
    BY <2>1, <2>3, <2>6, <2>7 DEF e
  <2>9. /\ root'.kind = "root" /\ root'.segmentCount = c /\ root'.entryCount = e /\ root' \in Roots
    BY <2>5, <2>8, EmptySeq DEF Roots
  <2>10. LogTypes' BY <2>1, <2>2, <2>6, <2>7, <2>9 DEF LogTypes
  <2>11. RootFits' BY <2>8, <2>9 DEF RootFits
  <2>12. LogIsHistory'
    <3>1. First(segments', c) = [i \in 1 .. c |-> segments'[i]] BY DEF First
    <3>2. \A i \in 1 .. c : First(segments', c)[i] = segments'[i] BY DEF First
    <3>3. DOMAIN First(segments', c) = 1 .. c BY DEF First
    <3> DEFINE p == First(segments', c)
    <3>4. Flat(p) = history' /\ root'.entryCount = Len(history') BY <2>6, <2>7, <2>8, <2>9
    <3>5. \A i \in DOMAIN p : Len(p[i]) \in 1 .. SegmentSize BY <2>7, <3>2, <3>3
    <3>6. p = [i \in 1 .. root'.segmentCount |-> segments'[i]] BY <2>9, <3>1
    <3> HIDE DEF p
    <3> QED BY <2>7, <2>9, <3>4, <3>5, <3>6, Zenon DEF LogIsHistory
  <2>13. AcceptedOnce' BY <2>1, <2>6 DEF AcceptedOnce
  <2>14. ASSUME NEW v \in LogTabs PROVE (ReaderOK(readers[v]))'
    <3>1. CASE v = t
      <4>1. readers'[v].step = "away" BY <2>2, <3>1 DEF Away
      <4> QED BY <4>1 DEF ReaderOK
    <3>2. CASE v # t
      <4>0. PICK q : q = readers[v] OBVIOUS
      <4>1. readers'[v] = q /\ ReaderOK(q) BY <2>2, <2>4, <3>2, <4>0
      <4>2. q.step \in {"root", "read"} => q.root \in Roots /\ (q.root.kind = "root" => q.root.entryCount <= Len(history))
        BY <4>1 DEF ReaderOK
      <4>3. q.step \in {"root", "read"} => root' # q.root
        <5>1. ASSUME q.step \in {"root", "read"}, root' = q.root PROVE FALSE
          <6>1. q.root.kind = "root" /\ q.root.entryCount = e BY <2>9, <5>1
          <6> QED BY <2>3, <2>8, <4>2, <5>1, <6>1
        <5> QED BY <5>1
      <4>4. /\ q.step \in {"away", "root", "read"}
            /\ q.step # "away" => /\ q.digest \in Digests /\ q.root \in Roots
                                  /\ q.root.kind = "root" => q.root.entryCount <= Len(history')
        <5>1. Len(history) \in Nat /\ Len(history') \in Nat /\ Len(history) <= Len(history') BY <2>3, <2>8
        <5>2. q.root \in Roots => q.root.entryCount \in Nat BY DEF Roots
        <5> QED BY <4>1, <5>1, <5>2 DEF ReaderOK
      <4>5. q.step = "read" => StillRead(q)' BY <4>3 DEF StillRead
      <4> QED BY <4>1, <4>4, <4>5 DEF ReaderOK, StillRead
    <3> QED BY <3>1, <3>2
  <2>15. (\A v \in LogTabs : ReaderOK(readers[v]))' BY <2>14
  <2> QED BY <2>10, <2>11, <2>12, <2>13, <2>15 DEF LogInv
<1> QED BY <1>3, <1>4, <1>5

LEMMA LogKept == LogInv /\ [LogNext]_logVars => LogInv'
<1>1. SUFFICES ASSUME LogInv, [LogNext]_logVars PROVE LogInv' OBVIOUS
<1>2. ASSUME NEW t \in LogTabs, NEW d \in Digests, ReadRoot(t, d) PROVE LogInv' BY <1>1, <1>2, ReadRootKeeps
<1>3. ASSUME NEW t \in LogTabs, ReadSegments(t) PROVE LogInv' BY <1>1, <1>3, ReadSegmentsKeeps
<1>4. ASSUME NEW t \in LogTabs, AppendDigest(t) PROVE LogInv' BY <1>1, <1>4, AppendDigestKeeps
<1>5. ASSUME NEW t \in LogTabs, CloseTab(t) PROVE LogInv' BY <1>1, <1>5, CloseTabKeeps
<1>6. CASE UNCHANGED logVars
  <2>1. UNCHANGED <<root, segments, readers, history>> BY <1>6 DEF logVars
  <2>2. (LogTypes /\ RootFits /\ LogIsHistory /\ AcceptedOnce)'
    BY <1>1, <2>1 DEF LogInv, LogTypes, RootFits, LogIsHistory, AcceptedOnce
  <2>3. (\A t \in LogTabs : ReaderOK(readers[t]))' BY <1>1, <2>1 DEF LogInv, ReaderOK, StillRead
  <2> QED BY <2>2, <2>3 DEF LogInv
<1> QED BY <1>1, <1>2, <1>3, <1>4, <1>5, <1>6 DEF LogNext

LEMMA LogInvIsCorrect == LogInv => LogCorrect
<1>1. SUFFICES ASSUME LogInv PROVE LogTypeOK BY DEF LogInv, LogCorrect
<1>2. /\ Len(history) \in 0 .. Cardinality(Digests) /\ Cardinality(Digests) \in Nat
  BY <1>1, HistoryFits DEF LogInv, LogTypes, AcceptedOnce
<1>3. /\ root.kind \in {"absent", "old", "root"} /\ root.segmentCount \in Nat /\ root.entryCount \in Nat
      /\ root.segmentCount <= Len(history) /\ root.entryCount <= Len(history)
  <2>1. root \in Roots BY <1>1 DEF LogInv, LogTypes
  <2>2. CASE root.kind = "root" BY <1>1, <1>2, <2>1, <2>2 DEF LogInv, RootFits, LogIsHistory, Roots
  <2>3. CASE root.kind # "root" BY <1>1, <1>2, <2>1, <2>3 DEF LogInv, RootFits, Roots
  <2> QED BY <2>2, <2>3
<1>4. \A t \in LogTabs : readers[t].step \in {"away", "root", "read"} BY <1>1 DEF LogInv, ReaderOK
<1>5. \A i \in Capacity : segments[i] \in Seq(Digests) BY <1>1 DEF LogInv, LogTypes
<1> QED BY <1>2, <1>3, <1>4, <1>5 DEF LogTypeOK

\* LogCorrect, for any number of tabs, any finite set of digests and any capacity
\* of a segment: the stored log is what was accepted, each digest once
\* (loadReplayState, prepareReplayAppend and the swap of buildAcceptanceUpdates).
THEOREM LogIsCorrect == LogSpec => []LogCorrect
<1>1. LogInit => LogInv BY LogStarts
<1>2. LogInv /\ [LogNext]_logVars => LogInv' BY LogKept
<1>3. LogInv => LogCorrect BY LogInvIsCorrect
<1> QED BY <1>1, <1>2, <1>3, PTL DEF LogSpec
=============================================================================
