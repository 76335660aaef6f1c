# TLA+ models of the k3ncrypt relay and its clients

k3ncrypt is an end-to-end encrypted messenger: a Node relay (`backend/`) that
sees only opaque envelopes, a TypeScript client service (`service/src/`), a web
product (`client/src/`), an Android client (`android/`) and a Rust/WASM crypto
core. This directory holds TLA+ models of the parts whose correctness depends on
the order of events: who may receive, when an envelope may be forgotten, what a
sender may be told, when a ratchet may advance.

## 1. Inventory

| Part | State | Operations | What is hard | What makes it correct |
|---|---|---|---|---|
| Offline mailbox (`backend/db`, `roomEnvelopeStore.ts`, handlers of `listeners.ts` and `multiplexed.ts`) | rows: state, slot, claim, lease, expiry | store with dedupe and quota, claim head, acknowledge, reject, record a rejection, expire | duplicate stores, leases lapsing under late answers, restarts, insertion order differing from timestamp order | what was acknowledged as stored is kept; one verdict per row; no false "accepted"; FIFO; quota |
| Multiplexed mailbox pump (`multiplexed.ts`) | pump objects with `running`, `requested`, a timer; the batch each runs | request, start, retry timer, cancel, batch of claim/emit/settle | a wake-up during the last await, take-over by another socket, lost claims, failing reads | one pump per mailbox; no wake-up forgotten; a served mailbox drains |
| Relay admission and ownership (`listeners.ts`, `multiplexed.ts`, `clients.ts`) | client table, subscriptions, room map, current socket per device, ownership lock | chat-join, mux-authenticate, mux-subscribe, unsubscribe, disconnect, revoke | two transports over one pair, checks before awaits used after them, revocation in flight | one owner per pair; take-over only by the same device; nothing for an ejected device; room capacity |
| Legacy replay loop (`listeners.ts`) | flags and a timer per socket | wake, replay, back off | a request during the last await | waiting mail always has a runner and is brought |
| Client relay transports (`service/src/transports`) | rooms, renewal and retry timers, generations | subscribe, renew, retry, restore after reconnect | answers of old connections, terminal against transient failures | a wanted room is subscribed again |
| Conversation engine (`service/src/crypto/modernConversation.ts`, `vodozemacRuntime.ts`, `delivery/`) | ratchet in memory, session, outbox, version floor, seen logs, history | open, send, replace, receive, retry, accept, reject, close | commits of unknown outcome, a tab dying between two steps, several tabs, tasks that outlive their engine, stale lists written back | ratchet and vault agree; a key is used once and consumed with its message; nothing acknowledged or enqueued is lost; no return to the old format |
| Device registry (`backend/security`, `api/deviceTrust.ts`; `identity/accountBinding.ts`) | records per account and device, reservations, bindings | bootstrap, enrol, activate, revoke, prove; the start of an engine | requests that race for one identifier, a stop between two database calls | one account per device; records only go forward |
| Device lifecycle (`service/src/devices`) | the list's history per vault, its mark, gates of running engines | enrol, confirm, revoke, snapshots, events, requests | lists that overtake each other, replies to earlier requests | lists only continue; a revoked device stays shut |
| First contact (`modernConversation.ts`) | the introduction record, the inviter's acceptance | join, claim, submit, retry, decide | verdicts before answers or for replaced ids, lost pages | established means both hold the session; one introduction |
| Crypto records (`vodozemacRuntime.ts`, replay logs) | account, sessions, markers of unfinished writes; log segments | open, replenish, publish, establish, recover; append | several chats over one account, a page lost at any step | no key lost or used twice; the log is its history |
| Rooms, prekeys, routing (`backend/api`, `security/routingOwnership.ts`) | invitation, bundles, owners | publish, join, withdraw, renew, claim, adopt | reads before writes, transactions that cross | one winner; owners fenced; keys of their owner |
| Contact trust (`identity/contactIdentityRegistry.ts`) | pinned identity, verification, recovery | observe, compare, review, recover, guard a send | a comparison against a recovery or a change in another tab | verified means compared, and not voided by the last recovery; sent to the pinned identity |
| Files (`backend/attachments`, `service/src/files`) | ledger, chunks, workflows | reserve, put, complete, cancel, read; upload, publish, receive | abandoned requests, lost caches, quota | whole when published; sealed once; within quota |
| Secure vault (`service/src/storage`) | metadata, records, pages | set up, unlock, change the secret, read, write, compare-and-set | pages on stale metadata, swaps of several records | readable by whoever unlocks next; no swap undone |
| Calls (`service/src/calls`) | call state, signals, media | invite, accept, refuse, cancel, end, restart | glare, late signals, timeouts, permission prompts | consent before capture; both ends agree it ended |
| Sync and groups (`service/src/sync`, `groups`) | checkpoint, imported packages; membership and key | authorize, admit, receive, import; change members | checks before awaits used after them | imported once; an administrator remains, removed is out |
| Web product (`client/src`) | selection, engines, index of conversations, lists shown | open, join, delete, subscribe, save, remove | openings that overtake each other, several tabs | the latest is shown; removals stay |
| Legacy SDK (`service/src/sdk.ts`) | numbers and a window of numbers | send, receive | repeated and reordered delivery | a message is shown once |
| Android client (`android/`) | a second client | - | - | not modelled by itself |
| Cryptography (`crypto-wasm`, `native`) | ratchets | - | - | not modelled: opaque here |

The parts meet at the relay: a sender's handler stores a row and wakes the
recipient's worker; the worker claims rows and emits them to the socket that the
ownership registries name; the recipient's client answers with a verdict that
settles the row and is passed on to the sender. Handlers are asynchronous
functions in one process: code between two awaits is atomic, and everything can
change at an await.

## 2. Modules

| Module | Models |
|---|---|
| `OfflineMailbox` | rows of one mailbox, the handlers that store and record, delivery workers of both transports, the recipient's answers, expiry, restarts |
| `MailboxPromise` | the abstract specification of a mailbox: absent, queued, done or refused per envelope |
| `OfflineMailboxProofs` | proofs about `OfflineMailbox` |
| `MailboxPump` | the multiplexed pump scheduler |
| `MailboxPumpProofs` | proofs about `MailboxPump` |
| `RelayOwnershipProofs`, `ConversationProofs` | proofs about the modules they are named for |
| `ServiceProofs` | proofs about `Vault`, `RuntimeRecords`, `MuxClient`, `LegacyTransport`, `ReplayLoop` and `FirstContact` |
| `TransactionProofs` | proofs about `GroupSecurity`, `RoomRecord`, `SyncTransfer` and `ReplayLog` |
| `ProductProofs` | proofs about `ProductIndex`, `ContactTrust`, `SdkChat` and `Selection` |
| `ClientProofs` | proofs about `DeviceRegistry`, `DeviceLedger`, `FileTransfer` and `Calls` |
| `RelayOwnership` | admission to a (room, address) pair over both transports, and the routing of live messages |
| `Conversation` | one endpoint: engine, ratchet commits, delivery loop, vault records, page; several tabs |
| `ReplayLoop` | the legacy socket's replay scheduler |
| `LegacyTransport`, `MuxClient` | the client's transports: one room over a socket of its own, and the socket that rooms share |
| `FirstContact` | the joiner's introduction and the inviter's decision |
| `RuntimeRecords`, `ReplayLog` | the account, session and marker records the chats of a space share; the segmented replay logs |
| `RoomRecord` | invitation, bundles and owners of one room at the relay |
| `DeviceRegistry`, `DeviceLedger` | a device's account at the relay; the device lists of two devices |
| `ContactTrust` | pinning, comparison, review, recovery, and what is sent under them |
| `FileTransfer` | the relay's file ledger and the workflows over it |
| `Calls` | calls between two peers |
| `Vault` | the browser's vault as several pages use it |
| `SyncTransfer`, `GroupSecurity` | import from another device; group membership |
| `Selection`, `ProductIndex` | which conversation the page shows; the index of saved conversations |
| `SdkChat` | numbered chat messages of the legacy SDK |
| `MCOfflineMailbox`, `MCMailboxPump`, `MCRelayOwnership`, `MCConversation` | instances of one module for TLC |
| `MCLive`, `MCTransports`, `MCClient`, `MCProduct`, `MCStore` | instances of several modules: see section 3 |

Definitions named `...Unchecked`, `...NoIndex` and so on, with a comment "Variant
for testing P", are not part of any specification: each is a plausible mistake
in the definition after it, and substituting it must make TLC violate P.

### 2.1 OfflineMailbox

One mailbox. A row is keyed by its envelope, which is what the unique index on
`dedupeKey` makes of it. A submission (`attempt`) is a run of a handler:
chat-message with a live peer (`live`), without (`mailbox`), or mux-send-message
(`mux`); its number is also its row id and timestamp, so rows are ordered by the
time their handler began. Ties of the clock are not modelled. Each database
command is a step: `Lookup`, `Insert`, `InsertThrows`, `Recheck`, `Count` for a
store, `RecordUpdate`, `RecordInsert`, `RecordRecheck` for a recorded rejection,
`ClaimLookup` and `ClaimCas` for a claim.

Decisions worth knowing:

- the lookup by the former multiplexed key (`roomEnvelopeStore.ts:16`), which
  exists for migrated rows, is part of `Lookup`; the global and per-device caps
  and routing checks are the refusal `HandlerError`;
- an insertion that throws wrote nothing; a write that reached the database and
  reported an error looks like an answer that was lost;
- `rejectOfflineMessage`'s two commands, and the re-count with its answer, are
  one step each;
- a worker's owner and authorization checks are its freedom to stop
  (`WorkerQuit`); a callback after its worker went on does nothing;
- the recipient may permanently reject an envelope it has already applied only on
  the multiplexed path, where the identity check precedes the seen check
  (`modernConversation.ts:1712-1734`);
- the legacy web client reports a rejection separately before it answers; Android
  reports `received` without a claim even for claimed deliveries; both reports
  may be lost or arrive at any later time;
- the in-memory database (`inMemDB.ts`) has the same operations without
  interleaving inside them.

### 2.2 MailboxPump

The mailbox is the number of deliverable rows and the claim on the head. The
source compares subscriptions by identity, so a pump or a batch carries only
whether its subscription is still the current one. A wake-up for a subscription
that has ended finds that out and does nothing, so it is dropped when it ends.

A failed read in `currentSubscription` at lines 255, 272 and 716 looks like a
lost subscription: the pump stops without a timer (`stalled`). Only the client's
next renewal, due within four minutes and followed by a replay request, wakes it;
the model allows that renewal without counting it against the bound.

### 2.3 RelayOwnership

The registries are one record, `reg`; each function of the source that touches
them is a function from `reg` to `reg` with the same name where possible, and a
step is the composition the code performs between two awaits. A read of a
device's record returns what was true at some time since it was issued
(`Reads`). The lock is a FIFO queue per pair. Sockets are never reused.

Routing proofs decide which device may use which address; `Entitled` fixes that
per instance. Rate limits, device socket slots and the cap of 128 rooms are
refusals (`Faults`). A subscription's expiry is its timer's removal.

### 2.4 Conversation

One endpoint of a conversation whose first session is established. Durable state
is `vault`, a function from the records of the room to their values:

| Record | In the code |
|---|---|
| `session` | `vodozemac-session`; `out` counts sending keys used, `in` holds the receiving keys consumed |
| `outbox` | `modern-outbox`: id, format, held, rejected, and whether a relay id is known |
| `floor` | the version floor of `roomMessageVersionFloor.ts`, 0 or 1 |
| `seen` | `modern-seen` and the two replay logs, which are always extended together |
| `history` | the product's message record: the ids, and which of the user's own are marked held |

An engine has a ratchet in memory (`mem`), one operation under the tab lock
(`op`: a send or a receive), the holder of its `deliveryMutex` if that is not a
send (`job`), and the list of messages the page shows with it (`page`).

| Actions | Code |
|---|---|
| `Receive`, `Decrypt`, `Accept`, `Commit`, `Review`, `Undo` | `decideInbound`, `receiveUnlocked` and `decryptAndCommitInbound`, cut at the reads of the vault and the commit |
| `Send`, `Encrypt`, `Enqueue`, `Save`, `Verify`, `Rebuild`, `GiveUp` | `sendWithReceipt`, `sendUnlocked`, `encryptAndCommitOutbound` |
| `Retry`, `ReadFloor`, `HoldPending`, `Submit`, `Answer`, `Finish` | `retryPending`, `holdLegacyPending`, `DeliveryCoordinator.retry` |
| `AcceptDelivery`, `RejectDelivery`, `WriteBack` | `acceptDelivery`, `rejectDelivery` |
| `Show`, `Project` | `ChatContext`'s send and retry after their await; `writeMessages` |
| `Open`, `Close`, `Die`, `Lapse`, `Renew` | `connect`, `close(false)`, the end of a tab, the lease of `withTabLock` |

Decisions worth knowing:

- a compare-and-set commits, conflicts, or throws with the commit done or not
  done; a conflict may also be reported when the values match, because
  `secureVault.ts:277-278` compares sealed bytes;
- contact, trust and identity checks may fail at any time; they appear as the
  freedom of `Encrypt`, `Accept`, `Submit` and `Enqueue` to give up;
- an engine without a ratchet (quarantined) neither sends nor receives until the
  conversation is opened again; what the code then tries, a new first session,
  is refused because the stored session exists;
- `Told` fixes the peer's decision on a message: the peer is another engine,
  which accepts or refuses for good, and the relay passes that on. That the relay
  does is what `OfflineMailbox` shows (`OneVerdict`, `AcceptedIsApplied`);
- a retry of a rejected message is a new message (`ChatContext.tsx:1278-1286`).

Three constants say what the environment may do. `Starved`: the lease of a tab
that is alive lapses, as it does when a browser throttles the timers of a
background tab. `Lingering`: a conversation is closed while its delivery loop
waits. `Unreadable`: the read that follows a failed commit fails too. The
properties of `conversation` hold without them. With `Starved` and with
`Lingering` the code breaks a promise of its own (section 3). With
`Unreadable` `NoKeyReuse` fails as well: the commit was done, its outcome cannot
be read, `restoreUncommittedOutbound` (`vodozemacRuntime.ts:703`) puts the ratchet
back, and the next receive commits it; no comment or document promises otherwise
for a store that fails twice, so it is recorded here.

### 2.5 The other components

Each of these modules has one property for the runs, a conjunction of named
parts: its type invariant, its safety invariants, its action properties and,
where the component must come to an end, its liveness. The parts carry their own
comments. Steps are the stretches between awaits throughout; a task or a program
counter stands for a call that waits.

**ReplayLoop** (`ReplayCorrect`). The mailbox is a count and a claim; `loop` is
where the running call of `requestReplay` is, `asked` its flag, `replayTimer` the
timer. `MailHasRunner` is the invariant of the scheduler, `MailIsReplayed` its
liveness.

**LegacyTransport**, **MuxClient**. `promise[g]` is the presence promise of
connection generation `g`; an acknowledgement lost with its connection leaves it
pending for ever, as in the code, which sets no time limit. In `MuxClient` a
handle is a `RoomState`; operations, timers, restorations and unsubscriptions are
separate because the code lets them overlap. Nonces are compared only, so unused
ones are used again, and a proof waits while none is free (`MaxNonce`). `MuxCorrect` is the safety of the connection;
`TransportsCorrect` (in `MCTransports`) says for both transports that presence is
real and comes back.

**FirstContact** (`ContactCorrect`). A session is named by the one-time key it was
opened with, so `EstablishedIsMutual` can say that both hold the same one.

**RuntimeRecords** (`RuntimeCorrect`). Every chat has a copy of the account. Four
of the parts are for chats opened one after another (`~together`); `StoredIsNamed`
is for any. **ReplayLog** (`LogCorrect`): `LogIsHistory` ties root and segments to
the sequence of digests accepted, `AcceptedOnce` keeps each digest out a second time.

**RoomRecord** (`RoomCorrect`). A request is a read with its checks and then a
write or a transaction's commit, which fails if the room or device it writes was
written in between; the legacy renewal is a plain write.

**DeviceRegistry** (`RegistryCorrect`): each database call of a request is a step
and the relay may stop after any. **DeviceLedger** (`LedgerCorrect`): a list is
the history of its membership, which is what the chain of commitments fixes. A
frame that arrives is admitted first (`AdmitControl`: `assertCurrentDeviceTrust`,
`modernConversation.ts:476`), which closes the engine when the trust is gone, and
handled in a later step; the approval of an enrolment comes out of band
(`InstallApproval`) and is not checked so.

**ContactTrust** (`TrustCorrect`). A comparison and a recovery both take their time
steps before they write. `MarkVerified` reads the record, `StampVerified` takes the
time (`contactIdentityRegistry.ts:118`), `WriteVerified` writes if the record is
still what was read. `ReplaceIdentity` prepares, `TakeResetTime` takes the time
(`recovery/production.ts:91`), and `CompleteRecovery` stores that time some awaits
later (line 111) in a swap the contact record is no part of. So a recovery voids
what was stamped until it took its time, and `VerifiedWasCompared` says that none of
that counts again: `compared` are the comparisons that nothing has voided, and
`recent` keeps for each recovery under way those it may leave, because they had no
time yet when it took its own or were made after that. The documents say more broadly
that a recovery "causes explicit contact trust review"
(`docs/PHASE6B_EPOCH_ENFORCEMENT_MATRIX.md:30`; line 42 excludes "automatic trust
preservation after recovery"), and a test that it "resets trust"
(`recovery/production.test.ts:12`); none says what becomes of a comparison made in
another tab in between. The property states what holds, and section 3 (remarks)
records the case.

**FileTransfer** (`FileCorrect`), **Vault**
(`VaultCorrect`), **SyncTransfer** (`SyncCorrect`), **GroupSecurity**
(`GroupCorrect`): reads, checks and swaps in the order of the code; abandoned
requests go on at the relay; a swap compares what the code compares. In
`SyncTransfer` all records of a chunk are written in the swap of the sync record
(`sync/persistence.ts:86`): `Writings` is what they may write together, and a write of
any of them by another makes the swap fail.

**Calls** (`CallsCorrect`). One record per peer and a task for each thing awaited;
`OnCallUpdate` is what the composition does when it hears of a new state.
`Stranded` names the one case in which a call does not end at the other side: a
restart after the deadline (section 3, remarks).

**Selection** (`SelectionCorrect`), **ProductIndex** (`IndexCorrect`), **SdkChat**
(`ChatCorrect`): the page's openings with their number and queue, the index as a
record read, computed and swapped, and the receiver's window of numbers.

## 3. Runs

| Run | Instance | Shows |
|---|---|---|
| mailbox | 2 submissions of 1 or 2 envelopes, 1 slot, 2 leases, restarts | `AcceptedIsApplied`, `TerminalIsRemembered`, `WithinQuota`, refinement of `MailboxPromise` |
| mailbox_order | 2 submissions, a legacy worker, 2 leases | `StoredIsKept`, `OneVerdict`, `CausalFifo` |
| pump | 2 sockets, take-overs, failed reads, lost claims | `OnePump`, `NeverForgotten`, `Drains` |
| ownership | 2 devices, one with 2 connections and revocable, one pair | `ExclusiveOwner`, `Registered`, `LockFollowsHandlers`, `RevokedOwnsNothing`, `OnlyOwnDeviceTakesOver` |
| room_fills | 3 devices with an address each, one room, one of them writing | `RoomHolds` |
| conversation | 1 tab opened twice, 2 messages out, one in each format in, 2 commits per ciphertext, an outbox of 2 | `RatchetInStep`, `NoKeyReuse`, `ConsumedIsApplied`, `AcceptedIsDurable`, `NothingLost`, `NoDowngrade` |
| lost | 2 engines, closing while delivering | finds `NothingLost` violated |
| live | one call with 2 faults and every user action, or two calls that cross; 3 relay ids, 2 keys, 2 losses; 3 messages, 3 faults | `CallsCorrect`, `ContactCorrect`, `ReplayCorrect` |
| transports | 2 drops; one room, 2 faults, 2 restorations at once | `TransportsCorrect` |
| client | 2 rooms, one opened twice; 2 devices that may enrol each other; 2 lists up to epoch 5; 2 transfers in a quota of 1 | `MuxCorrect`, `RegistryCorrect`, `LedgerCorrect`, `FileCorrect` |
| product | 2 rooms, 2 openings, 2 faults; 2 tabs, 3 changes; 2 tabs, 2 identities, 2 times, 1 recovery; a window of 2 for 3 messages | `SelectionCorrect`, `IndexCorrect`, `TrustCorrect`, `ChatCorrect` |
| store | 2 chats, 2 batches of keys; 2 devices and 2 requests; 2 pages; 1 controller, 2 transfers; 2 runtimes and 3 members; 2 tabs, segments of 2 | `RuntimeCorrect`, `RoomCorrect`, `VaultCorrect`, `SyncCorrect`, `GroupCorrect`, `LogCorrect` |

`live`, `transports`, `client`, `product` and `store` check several components in
one run. The components of such a run share no variable, and the variable `part`
picks the one that moves, so its state space is the sum of theirs: nothing is
composed, and a property of a component is checked in the behaviours of that
component. Fairness is stated per component in the same way.

The bounds are the smallest at which the races happen: two submissions make a
duplicate or compete for a slot; a second claim is a lapsed lease; two sockets
are a take-over; two handlers under way are enough for every check to be
overtaken by another install. In `conversation` the second message is the
replacement of the first or meets it in the outbox, one inbound message in each
format is enough to raise the floor and to try to go back, and the second opening
is the recovery from a death at any step. Two messages do not exceed an outbox of
two, and a refusal is possible at every enqueueing anyway. Elsewhere: two tabs,
pages, runtimes or requests, because every hazard here is one actor's
read going stale under one other; one controller of the synchronization, whose own
transactions overlap and meet a changing contact and device list (two controllers are
beyond the time of the run, and `SyncIsCorrect` is proved for any number); two times,
so that a comparison is stamped before, at and after the time of a recovery; a log of up to four digests in segments of two,
which begins below, at and above a full segment; three relay ids, so that an id is
replaced by a later one and used again; two faults, so that a recovery is
disturbed once itself. For the components with proofs (section 4) the proofs
remove the bounds. None of the specifications checks for deadlock: a relay with
nothing left to do stops, a conversation may stay closed, and every bounded
instance runs out of inputs.

`LiveReachesOwner` (in `RoomHolds`) holds in `room_fills`, where every socket
stays in one room under one address; see the remarks for one that moves on.

### Fairness

- `MailboxPump!FairSpec`: the event loop resumes every batch and fires timers
  (weak fairness); stored envelopes are followed by a wake-up and a subscription
  by a replay request (code of one function); leases end (time); a client whose
  wake-up was lost renews (its timer); and a client that is asked again and again
  eventually answers (strong fairness on `Answered`): without it no scheduler
  could drain a mailbox.
- `Calls`: tasks end, timers fire, deadlines pass. Nothing is assumed of users or
  of signals, which may be lost.
- `FirstContact`: the open page goes on with its work, the inviter decides what it
  received, and verdicts on what is waiting are delivered; losses are bounded by
  `MaxIntroLosses`.
- `ReplayLoop`: the loop's awaits end, its timer fires, leases end.
- `LegacyTransport`: socket.io reconnects a dropped socket, and a join under way
  is answered. `MuxClient`: the same, with renewal timers; refreshing a room is
  strongly fair because restorations that come between disable it.

The other specifications state safety only.

### Findings

`lost`: a delivery loop that outlives its engine overwrites the outbox of the next
one (`modernConversation.ts:1283`).

Remarks. These follow from the models, and most are contradicted by no text of the
repository; no run is kept for them.

Relay:
- a worker that looked up the head before a row with an older timestamp was
  inserted claims the newer row although another worker holds the older
  (`db/index.ts:198`, against the comment there at 199-201);
- legacy joins under different addresses check the capacity before their last
  await and can take a room beyond two participants (`listeners.ts:344`), which no
  property covers: `RoomHolds` has one pair for each device (`OnePair`); the
  multiplexed path cannot (`MuxNeverOverfills`);
- a client record can outlive its socket, and messages for the absent peer are
  then refused instead of stored (`listeners.ts:440`); a socket that moved on to a
  second room is still sent the envelopes of the first;
- the legacy renewal of a bundle checks and then updates, so it can revive a
  bundle that expired between (`prekeys.ts:99`); a stale `mux-authenticate`
  disconnects its socket (`multiplexed.ts:498`).

Engine:
- a receive compares two reads of the stored session with each other and never
  with the ratchet in memory (`vodozemacRuntime.ts:289`), so a tab whose lease
  lapsed while it was throttled rolls the session back;
- the page's list brings a replaced message back into the history
  (`messageStore.ts:155`);
- a retry that read the version floor before it was raised still submits entries
  in the old format, and its write can undo held marks (`modernConversation.ts:1256`);
- a verdict that arrives before its relay id is recorded while an earlier id is
  recorded is dropped (line 1343); an introduction refused by the inviter stays
  pending and is submitted every five seconds; a write of the relay id (1242) can
  overwrite `ESTABLISHED` until the conversation is opened again;
- chats open together: no engine refreshes its copy of the account
  (`vodozemacRuntime.ts:842`), so a consumed key comes back, keys another chat
  published are lost, a recovery deletes the session of another chat's write, and
  an uncertain publication blocks every chat (`modernConversation.ts:571`).

Devices and trust:
- after an enrolment the author's list is one epoch ahead of the relay's record of
  the author, whose next proofs are refused; a lost answer of an enrolment cannot
  be retried; an enrolment of a browser that bootstrapped before is always refused
  (`migrations.ts:29`);
- the account binding is stored before the bootstrap it depends on
  (`accountBinding.ts:31`), so that an interrupted first start is not repeated;
- two devices that revoke each other at once can leave no active device; an event
  that overtakes its snapshot raises the mark above the list, which then cannot be
  read;
- the trust check before every control frame (`modernConversation.ts:476`) also meets
  the snapshot that a reopened engine has asked for: while the other device is active
  the engine has no evidence of it, so the check refuses the frame and closes the
  runtime, and such a device does not become fresh again by itself;
- a crash in the acceptance of a changed identity leaves the old session under the
  new pin (`modernConversation.ts:1575`); a comparison stamped after a recovery took
  its time counts after the recovery, also when it was stamped and written before the
  recovery was (`recovery/production.ts:91` and `:111`).

Calls and transports:
- an ICE restart after the set-up deadline puts a connected call back to
  `connecting` without a timer (`negotiation.ts:100`): only the user ends it
  (`Stranded`, which `EndsForBoth` leaves out); a refusal whose send fails never notifies (`composition.ts:248`);
  the late cleanup of one call releases the capture of the next;
- a reconnect that meets an authentication in flight shares its failure and gives
  up the restoration; answers that mean "later" (rate limits, back-pressure) end a
  room for good (`multiplexedRelayConnection.ts:521`), and no property covers such a
  room, because it no longer counts as wanted; closing during a renewal
  leaves the closed room in the map until the connection ends;
- the legacy transport's `emitWithAck` has no time limit, so a join lost with its
  connection leaves its callers waiting.

Files, vault, sync, product:
- a lost answer to a creation leaves a reservation until it expires; a publication
  under way is not recalled by a cancellation;
- two setup pages race for the vault (`secureVault.ts:174`); `lock()` during a
  change of the secret is undone by its activation;
- the retry of a package whose acceptance was lost is refused as a replay; an
  imported conversation overwrites the whole record;
- deleting a conversation locks the shared vault, so the removal of its descriptor
  fails (`modernConversation.ts:1610`, `ChatContext.tsx:1777`); the multiplexed
  path never closes a previous engine that is not multiplexed
  (`ChatContext.tsx:543`); `retryMessage`'s catch can show "failed" over an
  accepted message (line 1297);
- after a sender of the SDK joins again its numbers start at 1 while the peer's
  window remembers the old ones, and the messages are dropped (`sdk.ts:402`).

## 4. Proofs

Every theorem is about the specification of one module and holds for every value
of its constants under the named assumptions of that module. All rest on an
inductive invariant, one lemma per action, and TLC checked each invariant on a
small instance before it was proved.

| Module | Theorems | Inductive invariant | What it adds to the properties |
|---|---|---|---|
| `OfflineMailboxProofs` | `TypeCorrect`, `StoredIsKeptAlways`, `AcceptedIsAppliedAlways`, `TerminalIsRememberedAlways`, `OneVerdictAlways`, `WithinQuotaAlways`, `CausalFifoAlways`, `MailboxPromisedAlways` (the refinement of `MailboxPromise`) | `IInv` | see below |
| `MailboxPumpProofs` | `PumpInvariant`, `PumpTypeCorrect`, `OnePumpAlways`, `NeverForgottenAlways` | `IInv` | see below |
| `RelayOwnershipProofs` | `RelayInvHolds`, `OneOwner`, `RegistriesAgree`, `LockNeverStuck`, `RevokedNeverOwns`, `TakenOverByOwnDevice`, `RoomNeverOverfilled`, `RoomHeld`, `OwnershipTyped` | `RelayInv` | what each handler has established and nobody can have undone since; a fence per revoked device; the queue of a mutex is its handlers |
| `ConversationProofs` | `AcceptedStays`, `RatchetSafe`, `KeysNeverReused`, `ConsumedStays`, `OutboxSafe`, `NeverDowngraded`, `ConversationTyped` | `Exclusive`, `RatchetInv`, `JobInv` and others | who may hold the writer lease; which revision an engine's ratchet and a commit under way are of; what each job has read of the outbox and the floor |
| `ServiceProofs` | `VaultIsCorrect`, `RuntimeIsCorrect`, `MuxIsCorrect`, `LegacyIsSafe`, `ReplayIsSafe`, `ContactIsSafe` | `VaultInv`, `RuntimeInv`, `MuxInv`, `LegacyInv`, `ReplayInv`, `ContactInv` | whoever works with a master key has the stored one; the only open engine's copy of the account is the stored one, and each marker is of an unfinished write; a nonce is its operation's own, whoever has a request on its way awaits it or is among the refused, and behind the request of the handle of the map nothing subscribes its room again; an acknowledged join is of the present connection, and an answer of rejection follows its record; who will bring waiting mail when no loop does; what can be in the mailbox before the introduction is committed or accepted |
| `TransactionProofs` | `GroupIsCorrect`, `RoomIsCorrect`, `SyncIsCorrect`, `LogIsCorrect` | `GroupInv`, `RoomInv`, `SyncInv`, `LogInv` | a waiting change that nobody overtook follows from the record; an address has one claimant among bundle, owner and requests; an open transaction names the claim it has made; a tab whose root is still in place holds the whole log |
| `ProductProofs` | `IndexIsCorrect`, `TrustIsCorrect`, `ChatIsCorrect`, `SelectionIsCorrect` | `IndexInv`, `TrustInv`, `ChatInv`, `SelInv` | a change nobody overtook fits its entry; a confirmation being written is of the record it replaces, and whatever counts against the time of a recovery under way is a comparison it leaves (`RecoveriesFit`); what was shown is in the replay window or below it; the opening asked for last is on the page, waits, stands in the queue or is being resolved |
| `ClientProofs` | `RegistryIsCorrect`, `LedgerIsCorrect`, `FileIsCorrect`, `CallIsSafe` | `RegistryInv`, `LedgerInv`, `FileInv`, `CallsInv` | a record belongs to the owner of its device or to the account it is reserved for, and one handler holds a reservation; what a frame on its way tells of the two lists; what a handler has read is the file ledger unless its revision has moved, and each transfer has one run that may seal its objects; whose consent or word each pending step acts for |

### The mailbox and the pump

For the mailbox the invariant adds: handlers are idle exactly until they are
started; a row carries the id of a handler that is past its insertion, and no
other handler will write under that id; every claim was made by a worker that
remembers it; every answer in flight names a claim that was made (`WireInv`) and
accepted answers follow the application (`AcksInv`); and a verdict under a claim
closes its row for every later claim (`SettledInv`), which is what makes
`OneVerdict` inductive. `WithinQuota` follows from the injection of active rows
into slots (`SlotsInv`), `CausalFifo` from `FifoInv`: what was ahead when a send
began was inserted before it.

For the pump it adds: the claim on a head implies there is a head; what a fresh
pump or batch holds is the current owner; at most one of them is fresh.
`NeverForgotten` says that a running pump with the current subscription and no
pending request runs its batch for that subscription, so the end of a batch
cannot lose a wake-up.

### What the theorems assume

The assumptions on constants are the named ones of the modules: bounds are
numbers, sets of things of different kinds are disjoint, marks such as `NoAccount`,
`"none"` and `"no one"` are not members. Some theorems have more hypotheses, and
say so in their statement; each is a condition under which the code keeps its
promise, and not only the proof:

- `RoomHeld` assumes `OnePair`: every device can prove one pair (room, address).
  The code admits a device to any pair that routing ownership lets it prove; the
  run `room_fills` has one pair for each device. What holds without it is
  `RoomNeverOverfilled`, of the multiplexed transport alone.
- `RatchetSafe`, `KeysNeverReused`, `ConsumedStays` assume that no live tab loses
  its lease (`Starved`) and that every commit can be read back (`Unreadable`):
  a lease is a row with a time in it, and a tab whose timers are late may renew one
  that another tab has taken.
- `OutboxSafe`, `NeverDowngraded` assume that no live tab loses its lease and that no
  conversation is closed under a delivery task that is between two awaits
  (`Lingering`). The run `lost` shows that the second one is needed.
- `LogIsCorrect` rests on `LogAssumption`: the digests are a finite set and a list in
  the old format has none twice. The code reads such lists and no longer writes
  them; a list that had a digest twice would keep it.
- `VaultIsCorrect` assumes `OneSetupPage`: the first setup of a vault happens in one
  page. Two pages that set the vault up at the same moment could part the records
  of one of them from the master key of the other.

`AcceptedStays` and the theorems of the other modules have no such hypothesis.

### How the main invariants work

Most of these components do the same thing: they read records, wait, and write.
The invariants therefore speak of the operations that wait. For the room, the
groups, sync and the index, a change waits with what it has read and a transaction
or a compare-and-swap refuses it if the record has moved; the invariant says
that what has not moved still fits, so a step that writes can only write what
follows from the record as it is. In the registry nothing is refused at the last
step of an enrolment, and the invariant says why it need not be: the device's
owner was set by that very request and only one request can have set it. In the trust
in a contact nothing is refused between the check of the pin and the sending;
there the invariant holds a moment (`torn`) in which the session is of an identity
that is no longer pinned, and the properties are about what leaves outside it. A
recovery writes a time it took earlier, over a contact record it has not looked at:
`RecoveriesFit` says that whatever counts against that time, in the record or in a
confirmation that is being written, is among the comparisons the recovery leaves.
For the device lists the two vaults share nothing but frames that may be lost or
overtaken: the invariant says of a confirmation on its way that the other vault
holds the active entry, which stays true because a list gives way only to its
continuation. A file's transfer passes from the request that created it to the run
that asked for it, so at most one run may seal its objects, and the objects sealed
so far are those the run remembers. On the page an engine is selected, subscribed
or in the hands of the one opening that is resolved; a probe of an opening that
failed remembers the engines there were, and the invariant says what an engine
that came later can be: one that joined an invitation, connected.

For calls the invariant is about the tasks that wait and the signals on their way.
What captures, accepts or tells of an acceptance belongs to a call whose callee has
agreed, so no interleaving of prompts, late captures and timers can open a microphone
that nobody allowed; placing belongs to the caller, ringing to the callee, and both
only to a call the peer does not know yet, which is why neither revives a call that
is over. The table of events (`transitions`) has no row for a final state. The
theorem is about any number of calls between any peers; `CollisionLeavesOne` is not
part of it, for it is about two calls that cross.

The replay log is read in two steps and written in one swap. `LogInv` says of a tab
that has read it: if the root is still the one the tab read, then so are the entries
and the last segment, whatever the order of its reads. An append always installs a
root with more entries than any tab has seen, so a root once replaced never comes
back and a torn read can only be refused. That the segments joined are the log is
carried over an append by one law, `FlatSnoc`: flattening takes the last segment off.
It is shown by the least place at which it could fail, and so is `PagesAre`, which
says that cutting an old list into segments and joining them gives the list again.
That a new segment always has a place follows from counting: the digests of a log
differ (`HistoryFits`).

The multiplexed connection is the one whose truth is spread over two programs: what
the relay holds for a room, what the client takes for subscribed, and the requests
between them. `MuxInv` orders the requests: about one room they arrive as they were
sent, each under a nonce that no operation, unsubscription or notice still uses for
something else, so what the relay holds when the last of them has arrived is known
beforehand. A handle counts as subscribed only when its own request was the last to
subscribe (`HeldFits`, `GrantFits`); what the relay may come to hold is awaited, taken
back or the nonce of a handle among the refused (`Accountable`, `WireFits`). An
unsubscription keeps its handle in the map until the answer, and by then the relay has
given the nonce up or has never held it (`GoodbyeFits`), which is why deleting by room
removes no successor. But for losing the socket and connecting again, each step is
reduced to one of two lemmas: it sends nothing and leaves the map (`QuietKeeps`), or is
about one room only (`ElsewhereKeeps`).

### What stays with TLC

- Liveness (`Drains`, and the parts of `live` and `transports` that say something
  eventually happens) and ENABLED are outside the proof system. The safety parts of
  those runs have a name of their own, which is what is proved: `LegacySafe`,
  `ReplaySafe`, `ContactSafe`, `CallsSafe`.
- `CollisionLeavesOne` (two calls that cross leave one), `EndsForBoth` and
  `CaptureIsReleased` of `Calls`: the first is stated of the instance with two
  calls, the others are liveness.
- The violations of section 3 are runs and not theorems.

## 5. Plan

Done: the components of section 2, each with its run, and the proofs of section 4.

Next, in this order:

1. an abstract specification of delivery (sent, accepted once or refused, never
   lost) and `Conversation` twice over `OfflineMailbox` shown to implement it;
2. both peers sending first (`modernConversation.ts:716`), and signaling, which
   still commits in phases (`vodozemacRuntime.ts:880`).

## 6. Not modelled

Cryptography (envelopes are opaque values), the HTTP surface, rate and socket
limits (refusals in the models), rendering, drafts of the composer, build and
deployment, logging and metrics. Of the calls: pending signals, their replay
window and the list of past calls; the SDK's own calls, which the product cannot
reach. Of the engine: signaling messages and the audit of sessions stored by older
versions. The sync fence coordinator and the runtime sync session are not used by
the product. Liveness under fairness is outside the proof system and stays with
TLC.
