--------------------------- MODULE OfflineMailbox ---------------------------
(***************************************************************************)
(* The relay's durable mailbox of one (room, recipient) pair, at the       *)
(* granularity of its database commands: every await on MongoDB in         *)
(* backend/db/index.ts is a point where the other handlers may run.        *)
(*                                                                         *)
(*   - sending handlers ("chat-message" and "mux-send-message") store an   *)
(*     envelope, after trying a live delivery when a legacy recipient is   *)
(*     connected;                                                          *)
(*   - replay workers (deliverOffline, deliverMuxMailboxBatch) lease the   *)
(*     oldest row, emit it, and remove or reject it on the verdict;        *)
(*   - the recipient answers, late or never; time ends leases and rows;    *)
(*     the relay process may crash.                                        *)
(*                                                                         *)
(* A row is keyed by its envelope: the unique index on dedupeKey, a hash   *)
(* of (channel, mailbox, sender, envelope).  The id a handler draws        *)
(* (randomUUID) and the timestamp it takes (Date.now) at its start are     *)
(* both its number in 1..MaxAttempts: fresh, and increasing with time.     *)
(***************************************************************************)
EXTENDS Naturals, FiniteSets

CONSTANTS
  Envelopes,      \* the distinct encrypted envelopes senders submit
  MaxAttempts,    \* bound: submissions of all envelopes together
  LegacyWorkers,  \* deliverOffline loops of chat-join sockets
  MuxWorkers,     \* deliverMuxMailboxBatch loops of multiplexed sockets
  MaxClaims,      \* bound: successful lease claims
  Vias,           \* the ways of sending in use; "mux" only when enabled
  Slots           \* MAX_OFFLINE_PER_MAILBOX, 64 in the code

ASSUME BoundsAssumption ==
  /\ MaxAttempts \in Nat
  /\ MaxClaims \in Nat
  /\ Slots \in Nat \ {0}
  /\ Vias \subseteq {"live", "mailbox", "mux"}
ASSUME WorkersAssumption == LegacyWorkers \cap MuxWorkers = {}

Attempts == 1..MaxAttempts
Claims   == 1..MaxClaims
Workers  == LegacyWorkers \cup MuxWorkers
NoId     == 0           \* no stored id; ids are attempt numbers
NoClaim  == 0           \* the row has no claimId field
NoSlot   == Slots       \* the row has no slot field; slots are 0..Slots-1

VARIABLES
  row,       \* the offline_messages collection, by envelope
  attempt,   \* the sending handlers, by their id
  started,   \* how many sending handlers have begun
  ahead,     \* history: ids active in the mailbox when the handler began
  worker,    \* the replay workers
  claims,    \* how many claims have succeeded; the next claimId
  wire,      \* socket.io events in flight between relay and recipient
  applied,   \* envelopes the recipient has committed to its history
  settled,   \* verdicts reported to the sender by notifyRoomSender
  lapsed     \* history: envelopes of which a row reached its expiresAt

vars == <<row, attempt, started, ahead, worker, claims, wire, applied,
          settled, lapsed>>

handlers  == <<attempt, started, ahead>>
recipient == <<wire, applied>>

----------------------------------------------------------------------------
(* Types.                                                                  *)

RowStates == {"none", "active", "rejected"}

Row == [state: RowStates, id: Attempts \cup {NoId}, claim: Claims \cup {NoClaim},
        leased: BOOLEAN, expired: BOOLEAN, slot: 0..Slots,
        terminalClaim: Claims \cup {NoClaim}]

NoRow == [state |-> "none", id |-> NoId, claim |-> NoClaim, leased |-> FALSE,
          expired |-> FALSE, slot |-> NoSlot, terminalClaim |-> NoClaim]

AttemptPCs == {"idle", "live", "liveAccepted", "liveRefused", "record", "recordUpdate", "recordInsert",
               "recordRecheck", "lookup", "insert", "recheck", "count",
               "done"}

Acks == {"none", "stored", "accepted", "terminal", "error"}

\* via: "live" and "mailbox" are the two branches of chat-message, "mux" is
\* mux-send-message.  slot/left: the slot loop.  sid: id of the row returned.
Attempt == [pc: AttemptPCs, env: Envelopes, via: {"live", "mailbox", "mux"},
            slot: 0..(Slots - 1), left: 0..Slots, sid: Attempts \cup {NoId}, ack: Acks]

NewAttempt(pc, e, via) ==
  [pc |-> pc, env |-> e, via |-> via, slot |-> 0, left |-> 0, sid |-> NoId,
   ack |-> "none"]

WorkerPCs == {"idle", "found", "claimed", "emitted", "acking", "rejecting"}

Worker == [pc: WorkerPCs, id: Attempts \cup {NoId}, claim: Claims \cup {NoClaim}]

IdleWorker == [pc |-> "idle", id |-> NoId, claim |-> NoClaim]

\* "deliver" stands for the relay's chat-message and mux-envelope; the other
\* two are events of the recipient.  Its callbacks are not queued here: they
\* find a handler waiting or nobody.
Event == [kind: {"deliver", "received", "recipient-rejected"}, id: Attempts,
          claim: Claims \cup {NoClaim}, via: {"live", "legacy", "mux"}]

Verdict == [id: Attempts, claim: Claims \cup {NoClaim},
            verdict: {"accepted", "rejected"}]

TypeOK ==
  /\ row \in [Envelopes -> Row]
  /\ attempt \in [Attempts -> Attempt]
  /\ started \in 0..MaxAttempts
  /\ ahead \in [Attempts -> SUBSET Attempts]
  /\ worker \in [Workers -> Worker]
  /\ claims \in 0..MaxClaims
  /\ wire \in SUBSET Event
  /\ applied \in SUBSET Envelopes
  /\ settled \in SUBSET Verdict
  /\ lapsed \in SUBSET Envelopes

Init ==
  \E e \in Envelopes :   \* the envelope of a handler not yet begun is immaterial
    /\ row = [f \in Envelopes |-> NoRow]
    /\ attempt = [a \in Attempts |-> NewAttempt("idle", e, "mailbox")]
    /\ started = 0
    /\ ahead = [a \in Attempts |-> {}]
    /\ worker = [w \in Workers |-> IdleWorker]
    /\ claims = 0
    /\ wire = {}
    /\ applied = {}
    /\ settled = {}
    /\ lapsed = {}

----------------------------------------------------------------------------
(* Queries and writes of the collection.                                   *)

Active(e) == row[e].state = "active"

Deliverable(e) == Active(e) /\ ~row[e].expired

\* Variant for testing CausalFifo: the query without its sort.
IsHeadUnsorted(e) == Deliverable(e)

\* findOne(state active, unexpired, sort timestamp): the FIFO head.
IsHead(e) ==
  /\ Deliverable(e)
  /\ \A f \in Envelopes : Deliverable(f) => row[e].id <= row[f].id

\* Variant for testing WithinQuota: the slot index is not unique.
SlotTakenNoIndex(s) == FALSE

\* The unique partial index on (channel, mailbox, slot) of active rows.
SlotTaken(s) == \E f \in Envelopes : Active(f) /\ row[f].slot = s

\* countOfflineMessages: active and unexpired.
DeliverableRows == {e \in Envelopes : Deliverable(e)}

NewRow(a, s) ==
  [state |-> "active", id |-> a, claim |-> NoClaim, leased |-> FALSE,
   expired |-> FALSE, slot |-> s, terminalClaim |-> NoClaim]

\* $set state rejected and terminalClaimId, $unset envelope, claimId, slot.
Tombstone(r, c) ==
  [state |-> "rejected", id |-> r.id, claim |-> NoClaim, leased |-> FALSE,
   expired |-> r.expired, slot |-> NoSlot, terminalClaim |-> c]

\* The rows deleteOne({id, claimId}) matches; claimId absent: {$exists: false}.
AckMatches(e, id, c) ==
  /\ row[e].state # "none"
  /\ row[e].id = id
  /\ row[e].claim = c

\* ackOfflineMessage: deleteOne of the matching row, if there is one.
AckRow(id, c) ==
  row' = [e \in Envelopes |-> IF AckMatches(e, id, c) THEN NoRow ELSE row[e]]

\* Variant for testing OneVerdict: the update by id alone.
RejectMatchesById(e, id, c) == row[e].state # "none" /\ row[e].id = id

\* The rows the conditional update of rejectOfflineMessage matches.
RejectMatches(e, id, c) ==
  /\ Active(e)
  /\ row[e].id = id
  /\ row[e].claim = c

\* Variant for testing StoredIsKept: a rejected row is deleted.
RejectRowDeletes(id, c) ==
  row' = [e \in Envelopes |-> IF RejectMatches(e, id, c) THEN NoRow ELSE row[e]]

RejectRow(id, c) ==
  row' = [e \in Envelopes |->
            IF RejectMatches(e, id, c)
            THEN Tombstone(row[e], c)
            ELSE row[e]]

\* The second query of rejectOfflineMessage: 'duplicate' rather than 'stale'.
RejectedBefore(id, c) ==
  \E e \in Envelopes :
    /\ row[e].state = "rejected"
    /\ row[e].id = id
    /\ row[e].terminalClaim = c

----------------------------------------------------------------------------
(* Sending handlers.                                                       *)

\* The handler acknowledges and returns; its local variables are gone.
Finish(a, ack) ==
  attempt' = [attempt EXCEPT ![a] =
                [NewAttempt("done", @.env, "mailbox") EXCEPT !.ack = ack]]

Goto(a, pc) == attempt' = [attempt EXCEPT ![a].pc = pc]

\* The handler goes on with the id of the row it found ...
Hold(a, pc, id) ==
  attempt' = [attempt EXCEPT ![a] = [@ EXCEPT !.pc = pc, !.sid = id]]

\* ... or with a slot to try and the number of slots left.
Try(a, s, n) ==
  attempt' = [attempt EXCEPT ![a] = [@ EXCEPT !.pc = "insert", !.slot = s, !.left = n]]

\* notifyRoomSender, when the sender is connected and the relay lives to do it.
Notify(id, c, verdict) ==
  \/ UNCHANGED settled
  \/ settled' = settled \cup {[id |-> id, claim |-> c, verdict |-> verdict]}

\* What the callers of storeRoomEnvelope do with the row it returns: a
\* tombstone is a terminal rejection, which mux also repeats to the sender's
\* current socket; for an active row mux acknowledges at once, the legacy
\* handler first re-counts the mailbox.
ReturnStored(a, r) ==
  \/ /\ r.state = "rejected"
     /\ Finish(a, "terminal")
     /\ IF attempt[a].via = "mux"
        THEN Notify(r.id, NoClaim, "rejected")
        ELSE UNCHANGED settled
  \/ /\ r.state = "active"
     /\ attempt[a].via = "mux"
     /\ Finish(a, "stored")
     /\ UNCHANGED settled
  \/ /\ r.state = "active"
     /\ attempt[a].via # "mux"
     /\ Hold(a, "count", r.id)
     /\ UNCHANGED settled

Send(a, e, via) ==
  /\ a = started + 1
  /\ started' = a
  /\ ahead' = [ahead EXCEPT ![a] = {row[f].id : f \in {g \in Envelopes : Active(g)}}]
  /\ attempt' = [attempt EXCEPT ![a] =
                   NewAttempt(IF via = "live" THEN "live" ELSE "lookup", e, via)]
  /\ wire' = wire \cup {d \in {[kind |-> "deliver", id |-> a, claim |-> NoClaim,
                                via |-> "live"]} : via = "live"}
  /\ UNCHANGED <<row, worker, claims, applied, settled, lapsed>>

\* Variant for testing AcceptedIsApplied: any answer counts as acceptance.
LiveVerdictUnchecked(a) ==
  /\ attempt[a].pc \in {"liveAccepted", "liveRefused"}
  /\ Finish(a, "accepted")
  /\ UNCHANGED <<row, started, ahead, worker, claims, recipient, settled, lapsed>>

\* The live recipient's answer, while it still owns the room
\* (recipientStillOwns): an acceptance ends the handler, a permanent
\* rejection is recorded.
LiveVerdict(a) ==
  /\ \/ attempt[a].pc = "liveAccepted" /\ Finish(a, "accepted")
     \/ attempt[a].pc = "liveRefused"  /\ Goto(a, "record")
  /\ UNCHANGED <<row, started, ahead, worker, claims, recipient, settled, lapsed>>

\* No answer within LIVE_DELIVERY_ACK_MS, a "retryable" one, or one from a
\* recipient that lost the room: the envelope is retained for replay.
LiveUndelivered(a) ==
  /\ attempt[a].pc \in {"live", "liveAccepted", "liveRefused"}
  /\ Goto(a, "lookup")
  /\ UNCHANGED <<row, started, ahead, worker, claims, recipient, settled, lapsed>>

\* recordOfflineRejection: look the envelope up.
Record(a) ==
  /\ attempt[a].pc = "record"
  /\ LET r == row[attempt[a].env] IN
     \/ r.state = "rejected" /\ Finish(a, "terminal")
     \/ r.state = "active" /\ Hold(a, "recordUpdate", r.id)
     \/ r.state = "none" /\ Goto(a, "recordInsert")
  /\ UNCHANGED <<row, started, ahead, worker, claims, recipient, settled, lapsed>>

\* updateOne by _id: no condition on the state or the claim, result unread.
RecordUpdate(a) ==
  /\ attempt[a].pc = "recordUpdate"
  /\ LET e == attempt[a].env IN
     row' = IF row[e].state # "none" /\ row[e].id = attempt[a].sid
            THEN [row EXCEPT ![e] = Tombstone(@, @.terminalClaim)]
            ELSE row
  /\ Finish(a, "terminal")
  /\ UNCHANGED <<started, ahead, worker, claims, recipient, settled, lapsed>>

\* insertOne of a tombstone, refused by the unique index or by an error.
RecordInsert(a) ==
  /\ attempt[a].pc = "recordInsert"
  /\ \/ /\ row[attempt[a].env].state = "none"
        /\ row' = [row EXCEPT ![attempt[a].env] = Tombstone(NewRow(a, NoSlot), NoClaim)]
        /\ Finish(a, "terminal")
     \/ /\ Goto(a, "recordRecheck")
        /\ UNCHANGED row
  /\ UNCHANGED <<started, ahead, worker, claims, recipient, settled, lapsed>>

\* Variant for testing TerminalIsRemembered: any conflict is a duplicate.
RecordRecheckUnread(a) ==
  /\ attempt[a].pc = "recordRecheck"
  /\ Finish(a, "terminal")
  /\ UNCHANGED <<row, started, ahead, worker, claims, recipient, settled, lapsed>>

\* The catch block: a tombstone is a duplicate, anything else throws and the
\* handler keeps the envelope as retryable.
RecordRecheck(a) ==
  /\ attempt[a].pc = "recordRecheck"
  /\ IF row[attempt[a].env].state = "rejected"
     THEN Finish(a, "terminal")
     ELSE Goto(a, "lookup")
  /\ UNCHANGED <<row, started, ahead, worker, claims, recipient, settled, lapsed>>

\* storeOfflineMessage: findOne(dedupeKey), whatever the state or the expiry.
Lookup(a) ==
  /\ attempt[a].pc = "lookup"
  /\ \/ /\ row[attempt[a].env].state # "none"
        /\ ReturnStored(a, row[attempt[a].env])
     \/ /\ row[attempt[a].env].state = "none"
        /\ \E s \in 0..(Slots - 1) :   \* randomInt(0, 64)
             Try(a, s, Slots)
        /\ UNCHANGED settled
  /\ UNCHANGED <<row, started, ahead, worker, claims, recipient, lapsed>>

\* insertOne: the two unique indexes admit it.
Insert(a) ==
  /\ attempt[a].pc = "insert"
  /\ row[attempt[a].env].state = "none"
  /\ ~SlotTaken(attempt[a].slot)
  /\ row' = [row EXCEPT ![attempt[a].env] = NewRow(a, attempt[a].slot)]
  /\ ReturnStored(a, NewRow(a, attempt[a].slot))
  /\ UNCHANGED <<started, ahead, worker, claims, recipient, lapsed>>

\* insertOne threw: a duplicate key, or a transient error that wrote nothing.
InsertThrows(a) ==
  /\ attempt[a].pc = "insert"
  /\ Goto(a, "recheck")
  /\ UNCHANGED <<row, started, ahead, worker, claims, recipient, settled, lapsed>>

\* The catch block: a row for this envelope, or the next slot, or the quota.
Recheck(a) ==
  /\ attempt[a].pc = "recheck"
  /\ \/ /\ row[attempt[a].env].state # "none"
        /\ ReturnStored(a, row[attempt[a].env])
     \/ /\ row[attempt[a].env].state = "none"
        /\ attempt[a].left > 1
        /\ Try(a, (attempt[a].slot + 1) % Slots, attempt[a].left - 1)
        /\ UNCHANGED settled
     \/ /\ row[attempt[a].env].state = "none"
        /\ attempt[a].left <= 1
        /\ Finish(a, "error")          \* MAILBOX_QUOTA
        /\ UNCHANGED settled
  /\ UNCHANGED <<row, started, ahead, worker, claims, recipient, lapsed>>

\* Variant for testing MailboxPromised: the quota comparison is off by one.
CountOffByOne(a) ==
  /\ attempt[a].pc = "count"
  /\ IF Cardinality(DeliverableRows) >= Slots
     THEN AckRow(attempt[a].sid, NoClaim) /\ Finish(a, "error")
     ELSE UNCHANGED row /\ Finish(a, "stored")
  /\ UNCHANGED <<started, ahead, worker, claims, recipient, settled, lapsed>>

\* retainUndeliveredEnvelope re-counts the mailbox after storing and, over the
\* quota, takes the returned row back by an ack without a claim.
Count(a) ==
  /\ attempt[a].pc = "count"
  /\ IF Cardinality(DeliverableRows) > Slots
     THEN AckRow(attempt[a].sid, NoClaim) /\ Finish(a, "error")
     ELSE UNCHANGED row /\ Finish(a, "stored")
  /\ UNCHANGED <<started, ahead, worker, claims, recipient, settled, lapsed>>

\* Any other refusal of a sending handler: routing ownership withdrawn, the
\* global or per-device storage cap, a database error outside a catch block.
HandlerError(a) ==
  /\ attempt[a].pc \in {"lookup", "recheck", "count"}
  /\ Finish(a, "error")
  /\ UNCHANGED <<row, started, ahead, worker, claims, recipient, settled, lapsed>>

\* A database error inside recordOfflineRejection: the handler's catch keeps
\* the envelope as retryable.
RecordError(a) ==
  /\ attempt[a].pc \in {"record", "recordUpdate", "recordRecheck"}
  /\ Goto(a, "lookup")
  /\ UNCHANGED <<row, started, ahead, worker, claims, recipient, settled, lapsed>>

----------------------------------------------------------------------------
(* Replay workers.                                                         *)

\* claimOfflineMessage, first query: the head, unless it is leased.
ClaimLookup(w) ==
  /\ worker[w].pc = "idle"
  /\ \E e \in Envelopes :
       /\ IsHead(e)
       /\ ~row[e].leased
       /\ worker' = [worker EXCEPT ![w] =
            [pc |-> "found", id |-> row[e].id, claim |-> row[e].claim]]
  /\ UNCHANGED <<row, handlers, claims, recipient, settled, lapsed>>

\* The row found is still active and under the claim it had then.
Claimable(w, e) ==
  /\ Active(e)
  /\ row[e].id = worker[w].id
  /\ row[e].claim = worker[w].claim

\* Second command: claim exactly that row.  Its conditions are evaluated for
\* the instant of the lookup, so a lease taken since then, even one that has
\* ended, makes it fail, and an expiry since then does not.
ClaimCas(w) ==
  /\ worker[w].pc = "found"
  /\ claims < MaxClaims
  /\ \E e \in Envelopes :
       /\ Claimable(w, e)
       /\ row' = [row EXCEPT ![e] = [@ EXCEPT !.claim = claims + 1, !.leased = TRUE]]
  /\ claims' = claims + 1
  /\ worker' = [worker EXCEPT ![w] = [@ EXCEPT !.pc = "claimed", !.claim = claims + 1]]
  /\ UNCHANGED <<handlers, recipient, settled, lapsed>>

Emit(w) ==
  /\ worker[w].pc = "claimed"
  /\ worker' = [worker EXCEPT ![w].pc = "emitted"]
  /\ wire' = wire \cup {[kind |-> "deliver", id |-> worker[w].id,
                         claim |-> worker[w].claim,
                         via |-> IF w \in MuxWorkers THEN "mux" ELSE "legacy"]}
  /\ UNCHANGED <<row, handlers, claims, applied, settled, lapsed>>

\* ackOfflineMessage with the claim, then notifyRoomSender.
AckClaimed(w) ==
  /\ worker[w].pc = "acking"
  /\ AckRow(worker[w].id, worker[w].claim)
  /\ IF \E e \in Envelopes : AckMatches(e, worker[w].id, worker[w].claim)
     THEN Notify(worker[w].id, worker[w].claim, "accepted")
     ELSE UNCHANGED settled
  /\ worker' = [worker EXCEPT ![w] = IdleWorker]
  /\ UNCHANGED <<handlers, claims, recipient, lapsed>>

\* rejectOfflineMessage, then notifyRoomSender when this call rejected it.
RejectClaimed(w) ==
  /\ worker[w].pc = "rejecting"
  /\ RejectRow(worker[w].id, worker[w].claim)
  /\ IF \E e \in Envelopes : RejectMatches(e, worker[w].id, worker[w].claim)
     THEN Notify(worker[w].id, worker[w].claim, "rejected")
     ELSE UNCHANGED settled
  /\ worker' = [worker EXCEPT ![w] = IdleWorker]
  /\ UNCHANGED <<handlers, claims, recipient, lapsed>>

\* The claim failed, ownership was lost, authorization refused or unavailable,
\* the acknowledgement timed out or was "retryable", the socket is gone, the
\* database failed: the worker returns and leaves the row to its lease.
WorkerQuit(w) ==
  /\ worker[w].pc # "idle"
  /\ worker' = [worker EXCEPT ![w] = IdleWorker]
  /\ UNCHANGED <<row, handlers, claims, recipient, settled, lapsed>>

----------------------------------------------------------------------------
(* The recipient, and the two events it sends besides its callbacks.       *)

EnvelopeOf(id) == attempt[id].env

\* The recipient's callback reaches the handler that waits for it; one that
\* comes after the handler's timeout does nothing.
LiveCallback(m, pc) ==
  attempt' = [a \in Attempts |->
    IF a = m.id /\ m.via = "live" /\ attempt[a].pc = "live"
    THEN [attempt[a] EXCEPT !.pc = pc] ELSE attempt[a]]

WorkerCallback(m, pc) ==
  worker' = [w \in Workers |->
    IF worker[w].pc = "emitted" /\ worker[w].id = m.id /\ worker[w].claim = m.claim
    THEN [worker[w] EXCEPT !.pc = pc] ELSE worker[w]]

\* Durable commit, then the callback.  The web client also reports a live
\* delivery by the "received" event, the Android client every legacy one; the
\* event carries no claim.
RecipientAccepts(m) ==
  /\ m.kind = "deliver"
  /\ applied' = applied \cup {EnvelopeOf(m.id)}
  /\ LiveCallback(m, "liveAccepted")
  /\ WorkerCallback(m, "acking")
  /\ \E reported \in BOOLEAN :
       /\ m.via = "live" => reported
       /\ m.via = "mux" => ~reported
       /\ wire' = (wire \ {m}) \cup
            {d \in {[kind |-> "received", id |-> m.id, claim |-> NoClaim, via |-> "live"]} :
               reported}
  /\ UNCHANGED <<row, started, ahead, claims, settled, lapsed>>

\* A permanent rejection.  An envelope already committed is recognised as
\* seen first, except on a multiplexed transport, where the contact check
\* comes before.
Refusable(m) == EnvelopeOf(m.id) \notin applied \/ m.via = "mux"

\* A live or multiplexed recipient answers in its callback ...
RecipientRefuses(m) ==
  /\ m.kind = "deliver" /\ m.via # "legacy" /\ Refusable(m)
  /\ LiveCallback(m, "liveRefused")
  /\ WorkerCallback(m, "rejecting")
  /\ wire' = wire \ {m}
  /\ UNCHANGED <<row, started, ahead, claims, applied, settled, lapsed>>

\* ... and a legacy client first reports a claimed envelope by an event.
RecipientReports(m) ==
  /\ m.kind = "deliver" /\ m.via = "legacy" /\ Refusable(m)
  /\ wire' = (wire \ {m}) \cup {[m EXCEPT !.kind = "recipient-rejected"]}
  /\ UNCHANGED <<row, handlers, worker, claims, applied, settled, lapsed>>

\* "recipient-rejected": reject under the claim; unless the claim is stale,
\* tell the sender, and the client answers its callback.
RecipientRejected(m) ==
  /\ m.kind = "recipient-rejected"
  /\ RejectRow(m.id, m.claim)
  /\ IF \/ \E e \in Envelopes : RejectMatches(e, m.id, m.claim)
        \/ RejectedBefore(m.id, m.claim)
     THEN /\ Notify(m.id, m.claim, "rejected")
          /\ WorkerCallback(m, "rejecting")
     ELSE UNCHANGED <<settled, worker>>
  /\ wire' = wire \ {m}
  /\ UNCHANGED <<handlers, claims, applied, lapsed>>

\* "received" without a claim: remove an unclaimed row with that id and tell
\* the sender, whether or not there was one.
Received(m) ==
  /\ m.kind = "received"
  /\ AckRow(m.id, NoClaim)
  /\ Notify(m.id, NoClaim, "accepted")
  /\ wire' = wire \ {m}
  /\ UNCHANGED <<handlers, worker, claims, applied, lapsed>>

\* A disconnect loses an event.
Lose(m) ==
  /\ wire' = wire \ {m}
  /\ UNCHANGED <<row, handlers, worker, claims, applied, settled, lapsed>>

----------------------------------------------------------------------------
(* Time and failure.                                                       *)

LeaseLapses(e) ==
  /\ row[e].leased
  /\ row' = [row EXCEPT ![e].leased = FALSE]
  /\ UNCHANGED <<handlers, worker, claims, recipient, settled, lapsed>>

\* expiresAt passes: queries skip the row, the indexes still hold it.
Expire(e) ==
  /\ row[e].state # "none" /\ ~row[e].expired
  /\ row' = [row EXCEPT ![e].expired = TRUE]
  /\ lapsed' = lapsed \cup {e}
  /\ UNCHANGED <<handlers, worker, claims, recipient, settled>>

\* The TTL index removes it, up to a minute later.
Purge(e) ==
  /\ row[e].expired
  /\ row' = [row EXCEPT ![e] = NoRow]
  /\ UNCHANGED <<handlers, worker, claims, recipient, settled, lapsed>>

\* The relay process stops: handlers and workers vanish unanswered and every
\* connection with them; the collection stays.
Crash ==
  /\ attempt' = [a \in Attempts |->
       IF attempt[a].pc \in {"idle", "done"} THEN attempt[a]
       ELSE NewAttempt("done", attempt[a].env, "mailbox")]
  /\ worker' = [w \in Workers |-> IdleWorker]
  /\ wire' = {}
  /\ UNCHANGED <<row, started, ahead, claims, applied, settled, lapsed>>

----------------------------------------------------------------------------

SendStep(a) ==
  \/ \E e \in Envelopes, via \in Vias : Send(a, e, via)
  \/ LiveVerdict(a) \/ LiveUndelivered(a)
  \/ Record(a) \/ RecordUpdate(a) \/ RecordInsert(a) \/ RecordRecheck(a)
  \/ Lookup(a) \/ Insert(a) \/ InsertThrows(a) \/ Recheck(a)
  \/ Count(a) \/ HandlerError(a) \/ RecordError(a)

WorkerStep(w) ==
  \/ ClaimLookup(w) \/ ClaimCas(w) \/ Emit(w)
  \/ AckClaimed(w) \/ RejectClaimed(w) \/ WorkerQuit(w)

RecipientStep(m) ==
  \/ RecipientAccepts(m) \/ RecipientRefuses(m) \/ RecipientReports(m)
  \/ RecipientRejected(m) \/ Received(m) \/ Lose(m)

TimeStep(e) == LeaseLapses(e) \/ Expire(e) \/ Purge(e)

Next ==
  \/ \E a \in Attempts : SendStep(a)
  \/ \E w \in Workers : WorkerStep(w)
  \/ \E m \in wire : RecipientStep(m)
  \/ \E e \in Envelopes : TimeStep(e)
  \/ Crash

Spec == Init /\ [][Next]_vars

----------------------------------------------------------------------------
(* The refinement mapping.                                                 *)

FateOf(e) ==
  CASE row[e].state = "none"     -> "absent"
    [] row[e].state = "active"   -> "queued"
    [] row[e].state = "rejected" -> "refused"

Promise == INSTANCE MailboxPromise
             WITH fate <- [e \in Envelopes |-> FateOf(e)]

\* Every step of the handlers, workers, clients and clock is a step of
\* MailboxPromise or none: an item leaves the mailbox only after the
\* recipient committed it or its TTL ended
\* (docs/MULTIPLEXED_RELAY_V1_DESIGN.md:369), and a refused one is never
\* queued again while its tombstone stands.
MailboxPromised == Promise!PSpec

----------------------------------------------------------------------------
(* What the mailbox promises.                                              *)

\* A sender told "stored" (listeners.ts:429, multiplexed.ts:676) will not
\* lose the envelope: it is still in the collection, active or as a tombstone,
\* or the recipient has committed it, or a row of it lived out its TTL.  No
\* duplicate store, quota rollback, claim-less ack or crash may take it away.
StoredIsKept ==
  \A a \in Attempts :
    attempt[a].ack = "stored" =>
      \/ row[attempt[a].env].state # "none"
      \/ attempt[a].env \in applied
      \/ attempt[a].env \in lapsed

\* Nobody is told "accepted", by the submission's own acknowledgement
\* (listeners.ts:478) or by notifyRoomSender (listeners.ts:197 and 576,
\* multiplexed.ts:337), before the recipient has committed the envelope,
\* whatever answers arrive late, twice or under an old claim.
AcceptedIsApplied ==
  /\ \A a \in Attempts : attempt[a].ack = "accepted" => attempt[a].env \in applied
  /\ \A s \in settled : s.verdict = "accepted" => attempt[s.id].env \in applied

\* A terminal rejection told to a sender is remembered: until its TTL the
\* tombstone keeps the same ciphertext from being queued again
\* (docs/MULTIPLEXED_RELAY_V1_DESIGN.md:398), unless the recipient has in the
\* meantime committed the envelope after all.
TerminalIsRemembered ==
  \A a \in Attempts :
    attempt[a].ack = "terminal" =>
      \/ row[attempt[a].env].state = "rejected"
      \/ attempt[a].env \in applied
      \/ attempt[a].env \in lapsed

\* A stored row gets one verdict: among all workers that ever leased it, with
\* lapsed leases and duplicated rejections, the sender hears of one claim and
\* one outcome (docs/MULTIPLEXED_RELAY_V1_DESIGN.md:375).
OneVerdict ==
  \A s, t \in settled :
    s.id = t.id /\ s.claim # NoClaim /\ t.claim # NoClaim => s = t

\* The slot index alone keeps the mailbox within its quota against any number
\* of concurrent senders, so the re-count of retainUndeliveredEnvelope never
\* takes back a row (listeners.ts:154).
WithinQuota == Cardinality({e \in Envelopes : Active(e)}) <= Slots

\* Causal FIFO: a row is not leased while a row that was already in the
\* mailbox when its sender began is still deliverable (db/index.ts:197-205).
\* Sends that overlap have no such order.
CausalFifo ==
  \A e, f \in Envelopes :
    Active(e) /\ row[e].claim # NoClaim /\ Deliverable(f)
      => row[f].id \notin ahead[row[e].id]

----------------------------------------------------------------------------
(* The inductive invariant behind these properties (OfflineMailboxProofs). *)

\* The handler may still write a row under its id.
Unstored(a) == attempt[a].pc \notin {"count", "done"}

\* The row of an envelope, once there, is there or has done its duty.
Kept(e) == row[e].state # "none" \/ e \in applied \/ e \in lapsed

HandlersInv == \A a \in Attempts : attempt[a].pc = "idle" <=> a > started

RowsInv ==
  \A e \in Envelopes :
    /\ row[e].state = "none" => row[e] = NoRow
    /\ row[e].state # "none" => /\ row[e].id \in Attempts
                                /\ EnvelopeOf(row[e].id) = e
                                /\ ~Unstored(row[e].id)
    /\ row[e].state = "rejected" => row[e].claim = NoClaim
    /\ row[e].state = "active" => row[e].slot < Slots
    /\ row[e].expired => e \in lapsed

SlotsInv ==
  \A e, f \in Envelopes :
    Active(e) /\ Active(f) /\ row[e].slot = row[f].slot => e = f

WorkersInv ==
  \A w \in Workers :
    /\ worker[w].pc # "idle" => worker[w].id \in Attempts /\ ~Unstored(worker[w].id)
    /\ worker[w].pc \notin {"idle", "found"} => worker[w].claim # NoClaim
    /\ worker[w].pc = "acking" => EnvelopeOf(worker[w].id) \in applied

WireInv ==
  \A m \in wire :
    /\ m.id <= started
    /\ m.claim = NoClaim <=> m.via = "live"
    /\ m.claim # NoClaim => ~Unstored(m.id)
    /\ m.kind = "recipient-rejected" => m.via = "legacy"
    /\ m.kind = "received" => EnvelopeOf(m.id) \in applied

AcksInv ==
  \A a \in Attempts :
    /\ attempt[a].pc = "liveAccepted" => EnvelopeOf(a) \in applied
    /\ attempt[a].pc = "count" => Kept(EnvelopeOf(a))
    /\ attempt[a].pc = "recordUpdate" =>
         \/ row[EnvelopeOf(a)].state # "none" /\ row[EnvelopeOf(a)].id = attempt[a].sid
         \/ EnvelopeOf(a) \in applied
         \/ EnvelopeOf(a) \in lapsed
    /\ attempt[a].ack # "none" => attempt[a].pc = "done"

\* A verdict under a claim closes its row for every later claim.
SettledInv ==
  \A s \in settled :
    /\ s.id <= started
    /\ s.claim # NoClaim =>
         /\ ~Unstored(s.id)
         /\ \A e \in Envelopes :
              row[e].state # "none" /\ row[e].id = s.id =>
                /\ s.verdict = "rejected"
                /\ row[e].state = "rejected"
                /\ row[e].terminalClaim = s.claim

FifoInv ==
  /\ \A a \in Attempts : \A b \in ahead[a] : b < a /\ ~Unstored(b)
  /\ \A w \in Workers : \A f \in Envelopes :
       worker[w].pc = "found" /\ Deliverable(f) => row[f].id \notin ahead[worker[w].id]

IInv ==
  /\ TypeOK
  /\ HandlersInv
  /\ RowsInv
  /\ SlotsInv
  /\ WorkersInv
  /\ WireInv
  /\ AcksInv
  /\ SettledInv
  /\ FifoInv
  /\ StoredIsKept
  /\ AcceptedIsApplied
  /\ TerminalIsRemembered
  /\ OneVerdict
  /\ CausalFifo
=============================================================================
