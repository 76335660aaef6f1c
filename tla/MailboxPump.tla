---------------------------- MODULE MailboxPump ----------------------------
(***************************************************************************)
(* The scheduler that drains one mailbox to its multiplexed subscriber     *)
(* (backend/socket.io/multiplexed.ts): pump objects with their running,    *)
(* requested and timer fields, kept in the map mailboxPumps; the batches   *)
(* they run, one step per await; and everything that starts, redirects or  *)
(* cancels them - stored envelopes, the client's replay requests, renewed  *)
(* and lost subscriptions, retry timers.                                   *)
(*                                                                         *)
(* OfflineMailbox has the rows in detail; here a mailbox is the number of  *)
(* its deliverable rows and the claim on its head.  A subscription is      *)
(* immutable and compared by identity, so it is enough to remember whether *)
(* the one a pump or a batch holds is still the current one ("fresh").     *)
(***************************************************************************)
EXTENDS Naturals, FiniteSets

CONSTANTS
  Sockets,       \* authenticated sockets of the recipient's device
  Pumps,         \* pump objects, reused once they are garbage
  MaxSends,      \* bound: submissions
  BatchLimit,    \* MUX_MAX_OFFLINE_PER_MAILBOX, 64 in the code
  MaxRenewals,   \* bound: subscriptions begun of the client's own accord
  MaxFaults,     \* bound: database reads or commands that fail
  MaxOthers,     \* bound: leases taken by workers of earlier owners
  None           \* no socket, no pump

ASSUME PumpBounds ==
  /\ MaxSends \in Nat /\ MaxRenewals \in Nat /\ MaxFaults \in Nat /\ MaxOthers \in Nat
  /\ BatchLimit \in Nat \ {0}
  /\ None \notin Sockets /\ None \notin Pumps

VARIABLES
  rows,       \* deliverable rows of the mailbox
  claim,      \* who claimed the head: "none", "pump" or "other"
  leased,     \* its claimedUntil lies in the future
  sent,       \* submissions so far
  storing,    \* senders that stored and have yet to call wakeRoomMailbox
  waking,     \* wakeRoomMailbox calls for the current subscription, in an await
  owner,      \* the socket with the current subscription, or None
  replayDue,  \* the client has yet to send mux-mailbox-replay for it
  pump,       \* the pump objects
  batch,      \* the batch each of them runs
  mailboxPumps, \* the pump the map holds for this mailbox, or None
  stalled,    \* a transient failure swallowed a wake-up since the last request
  renewals, faults, others   \* counters for the bounds

mailbox == <<rows, claim, leased>>
senders == <<sent, storing>>
session == <<owner, replayDue, renewals>>
pumping == <<pump, batch, mailboxPumps>>
vars == <<mailbox, senders, waking, session, pumping, stalled, faults, others>>

----------------------------------------------------------------------------

\* socket and fresh stand for the fields socket and subscription.
Pump == [running: BOOLEAN, requested: BOOLEAN, timer: BOOLEAN,
         socket: Sockets \cup {None}, fresh: BOOLEAN]

NewPump == [running |-> FALSE, requested |-> FALSE, timer |-> FALSE,
            socket |-> None, fresh |-> FALSE]

BatchPCs == {"off", "check", "find", "claim", "lease", "count", "drained", "recheck",
             "emitted", "settle"}

\* The arguments of deliverMuxMailboxBatch, its loop counter, and whether the
\* row it found is still the unclaimed head.
Batch == [pc: BatchPCs, socket: Sockets \cup {None}, fresh: BOOLEAN, n: 0..BatchLimit,
          head: BOOLEAN]

NoBatch == [pc |-> "off", socket |-> None, fresh |-> FALSE, n |-> 0, head |-> FALSE]

TypeOK ==
  /\ rows \in Nat /\ sent \in Nat /\ storing \in Nat /\ waking \in Nat
  /\ claim \in {"none", "pump", "other"} /\ leased \in BOOLEAN
  /\ owner \in Sockets \cup {None} /\ replayDue \in BOOLEAN
  /\ pump \in [Pumps -> Pump]
  /\ batch \in [Pumps -> Batch]
  /\ mailboxPumps \in Pumps \cup {None}
  /\ stalled \in BOOLEAN
  /\ renewals \in 0..MaxRenewals /\ faults \in 0..MaxFaults /\ others \in 0..MaxOthers

Init ==
  /\ rows = 0 /\ claim = "none" /\ leased = FALSE
  /\ sent = 0 /\ storing = 0 /\ waking = 0
  /\ owner = None /\ replayDue = FALSE
  /\ pump = [p \in Pumps |-> NewPump]
  /\ batch = [p \in Pumps |-> NoBatch]
  /\ mailboxPumps = None
  /\ stalled = FALSE
  /\ renewals = 0 /\ faults = 0 /\ others = 0

----------------------------------------------------------------------------
(* The pump.                                                               *)

\* A pump object nobody refers to: the next one to be created.
Garbage(p) == p # mailboxPumps /\ ~pump[p].running /\ ~pump[p].timer

\* A pass of the while loop: requested is cleared and a batch begins with the
\* pump's socket and subscription.
Pass(r) == [r EXCEPT !.requested = FALSE]
BatchOf(r) == [pc |-> "check", socket |-> r.socket, fresh |-> r.fresh, n |-> 0,
               head |-> FALSE]

\* startMailboxPump for a pump whose fields are now r.
Start(p, r) ==
  IF r.running
  THEN /\ pump' = [pump EXCEPT ![p] = r]
       /\ UNCHANGED batch
  ELSE /\ pump' = [pump EXCEPT ![p] = [Pass(r) EXCEPT !.running = TRUE]]
       /\ batch' = [batch EXCEPT ![p] = BatchOf(r)]

\* Variant for testing NeverForgotten: a running pump ignores the request.
RequestIfIdle ==
  \E p \in Pumps :
    /\ IF mailboxPumps # None THEN p = mailboxPumps ELSE Garbage(p)
    /\ mailboxPumps' = p
    /\ IF pump[p].running
       THEN UNCHANGED <<pump, batch>>
       ELSE Start(p, [pump[p] EXCEPT !.timer = FALSE, !.socket = owner, !.fresh = TRUE,
                                     !.requested = TRUE])

\* requestMuxMailboxDelivery for the current subscription.
Request ==
  \E p \in Pumps :
    /\ IF mailboxPumps # None THEN p = mailboxPumps ELSE Garbage(p)
    /\ mailboxPumps' = p
    /\ Start(p, [running |-> pump[p].running, requested |-> TRUE, timer |-> FALSE,
                 socket |-> owner, fresh |-> TRUE])

\* A retry timer fires.
TimerFires(p) ==
  /\ pump[p].timer
  /\ Start(p, [pump[p] EXCEPT !.timer = FALSE, !.requested = TRUE])
  /\ UNCHANGED <<mailbox, senders, waking, session, mailboxPumps, stalled, faults, others>>

\* What the loop does with the result of a batch, and the finally block.  The
\* retry timer is armed only for a subscription the pump's socket still has.
EndBatch(p, status) ==
  IF pump[p].requested
  THEN /\ pump' = [pump EXCEPT ![p] = Pass(@)]
       /\ batch' = [batch EXCEPT ![p] = BatchOf(pump[p])]
       /\ UNCHANGED mailboxPumps
  ELSE LET timer == status = "batch-limit" \/ (status = "retry" /\ pump[p].fresh) IN
       /\ pump' = [pump EXCEPT ![p] = [@ EXCEPT !.running = FALSE, !.timer = timer]]
       /\ batch' = [batch EXCEPT ![p] = NoBatch]
       /\ mailboxPumps' = IF ~timer /\ mailboxPumps = p THEN None ELSE mailboxPumps

----------------------------------------------------------------------------
(* A batch, deliverMuxMailboxBatch: one step per await.                    *)

At(p, pc) == batch[p].pc = pc

Step(p, pc) ==
  /\ batch' = [batch EXCEPT ![p].pc = pc]
  /\ UNCHANGED <<pump, mailboxPumps>>

\* currentSubscription found the batch's own subscription.
Check(p) ==
  /\ At(p, "check")
  /\ IF batch[p].fresh THEN Step(p, "find") ELSE EndBatch(p, "inactive")
  /\ UNCHANGED <<mailbox, senders, waking, session, stalled, faults, others>>

\* A transient failure of its reads looks like a lost subscription: the pump
\* stops without a timer.
CheckFails(p) ==
  /\ At(p, "check") /\ batch[p].fresh
  /\ faults < MaxFaults
  /\ faults' = faults + 1
  /\ EndBatch(p, "inactive")
  /\ stalled' = TRUE
  /\ UNCHANGED <<mailbox, senders, waking, session, others>>

\* Variant for testing Drains: a row once claimed is not found again.
FindUnclaimed(p) ==
  /\ At(p, "find")
  /\ IF rows > 0 /\ claim = "none"
     THEN /\ batch' = [batch EXCEPT ![p] = [@ EXCEPT !.pc = "claim", !.head = TRUE]]
          /\ UNCHANGED <<pump, mailboxPumps>>
     ELSE Step(p, "lease")
  /\ UNCHANGED <<mailbox, senders, waking, session, stalled, faults, others>>

\* claimOfflineMessage: look for the head ...
Find(p) ==
  /\ At(p, "find")
  /\ IF rows > 0 /\ ~leased
     THEN /\ batch' = [batch EXCEPT ![p] = [@ EXCEPT !.pc = "claim", !.head = TRUE]]
          /\ UNCHANGED <<pump, mailboxPumps>>
     ELSE Step(p, "lease")
  /\ UNCHANGED <<mailbox, senders, waking, session, stalled, faults, others>>

\* ... and claim exactly that row; a lost race looks like an empty mailbox.
Claim(p) ==
  /\ At(p, "claim")
  /\ IF batch[p].head
     THEN claim' = "pump" /\ leased' = TRUE /\ Step(p, "recheck")
     ELSE UNCHANGED <<claim, leased>> /\ Step(p, "lease")
  /\ UNCHANGED <<rows, senders, waking, session, stalled, faults, others>>

\* offlineMessageClaimUntil: retry when the lease of the head ends.
LookAtLease(p) ==
  /\ At(p, "lease")
  /\ IF rows > 0 /\ leased THEN EndBatch(p, "retry") ELSE Step(p, "count")
  /\ UNCHANGED <<mailbox, senders, waking, session, stalled, faults, others>>

\* countOfflineMessages; its zero reaches the loop one step later.
CountPending(p) ==
  /\ At(p, "count")
  /\ IF rows > 0 THEN EndBatch(p, "retry") ELSE Step(p, "drained")
  /\ UNCHANGED <<mailbox, senders, waking, session, stalled, faults, others>>

Drained(p) ==
  /\ At(p, "drained")
  /\ EndBatch(p, "drained")
  /\ UNCHANGED <<mailbox, senders, waking, session, stalled, faults, others>>

\* The subscription is checked again before the envelope is emitted.
Recheck(p) ==
  /\ At(p, "recheck")
  /\ IF batch[p].fresh THEN Step(p, "emitted") ELSE EndBatch(p, "inactive")
  /\ UNCHANGED <<mailbox, senders, waking, session, stalled, faults, others>>

\* A verdict of the recipient, accepted or a permanent rejection.
Answered(p) ==
  /\ At(p, "emitted")
  /\ Step(p, "settle")
  /\ UNCHANGED <<mailbox, senders, waking, session, stalled, faults, others>>

\* No answer in time, or a retryable one.
Unanswered(p) ==
  /\ At(p, "emitted")
  /\ EndBatch(p, "retry")
  /\ UNCHANGED <<mailbox, senders, waking, session, stalled, faults, others>>

\* The socket must still have a subscription, not necessarily the same one;
\* then the row goes, unless the claim on it was lost.
Settle(p) ==
  /\ At(p, "settle")
  /\ \/ /\ owner # batch[p].socket
        /\ EndBatch(p, "inactive")
        /\ UNCHANGED mailbox
     \/ /\ owner = batch[p].socket /\ claim # "pump"
        /\ EndBatch(p, "retry")
        /\ UNCHANGED mailbox
     \/ /\ owner = batch[p].socket /\ claim = "pump"
        /\ rows' = rows - 1 /\ claim' = "none" /\ leased' = FALSE
        /\ IF batch[p].n + 1 < BatchLimit
           THEN /\ batch' = [batch EXCEPT ![p] = [@ EXCEPT !.pc = "check",
                                                        !.n = batch[p].n + 1]]
                /\ UNCHANGED <<pump, mailboxPumps>>
           ELSE EndBatch(p, "batch-limit")
  /\ UNCHANGED <<senders, waking, session, stalled, faults, others>>

\* A failed read of the later checks while the subscription stands, or any
\* exception of the batch: try again after the lease.
BatchFails(p) ==
  /\ batch[p].pc \notin {"off", "drained", "emitted"}
  /\ faults < MaxFaults
  /\ faults' = faults + 1
  /\ EndBatch(p, "retry")
  /\ UNCHANGED <<mailbox, senders, waking, session, stalled, others>>

----------------------------------------------------------------------------
(* Senders.                                                                *)

\* storeRoomEnvelope returns: a new row, or one that was there.
Store ==
  /\ sent < MaxSends
  /\ sent' = sent + 1
  /\ storing' = storing + 1
  /\ \E new \in {0, 1} : rows' = rows + new
  /\ UNCHANGED <<claim, leased, waking, session, pumping, stalled, faults, others>>

\* wakeRoomMailbox up to its await: is there a multiplexed owner?
Wake ==
  /\ storing > 0
  /\ storing' = storing - 1
  /\ waking' = IF owner = None THEN waking ELSE waking + 1
  /\ UNCHANGED <<mailbox, sent, session, pumping, stalled, faults, others>>

\* ... and after it.
WakeRequests ==
  /\ waking > 0
  /\ waking' = waking - 1
  /\ Request
  /\ stalled' = FALSE
  /\ UNCHANGED <<mailbox, senders, session, faults, others>>

\* currentSubscription could not be read: the wake-up is dropped.
WakeFails ==
  /\ waking > 0
  /\ faults < MaxFaults
  /\ faults' = faults + 1
  /\ waking' = waking - 1
  /\ stalled' = TRUE
  /\ UNCHANGED <<mailbox, senders, session, pumping, others>>

----------------------------------------------------------------------------
(* The recipient's client.                                                 *)

\* Variant for testing OnePump: the map forgets a pump that is running.
CancelForgets(s) ==
  LET p == mailboxPumps IN
  IF p # None /\ pump[p].socket = s
  THEN /\ pump' = [q \in Pumps |->
            [pump[q] EXCEPT !.timer = @ /\ q # p, !.requested = @ /\ q # p, !.fresh = FALSE]]
       /\ mailboxPumps' = None
  ELSE /\ pump' = [q \in Pumps |-> [pump[q] EXCEPT !.fresh = FALSE]]
       /\ UNCHANGED mailboxPumps

\* cancelMailboxPump(s), when the subscription of s ends.
Cancel(s) ==
  LET p == mailboxPumps IN
  IF p # None /\ pump[p].socket = s
  THEN /\ pump' = [q \in Pumps |->
            [pump[q] EXCEPT !.timer = @ /\ q # p, !.requested = @ /\ q # p, !.fresh = FALSE]]
       /\ mailboxPumps' = IF pump[p].running THEN p ELSE None
  ELSE /\ pump' = [q \in Pumps |-> [pump[q] EXCEPT !.fresh = FALSE]]
       /\ UNCHANGED mailboxPumps

\* Whatever held the subscription that ended holds a stale one; wake-ups
\* waiting on it will find that out and do nothing.
EndSubscription ==
  /\ Cancel(owner)
  /\ batch' = [p \in Pumps |-> [batch[p] EXCEPT !.fresh = FALSE]]
  /\ waking' = 0

\* mux-subscribe by socket s: the incumbent's subscription, its own or
\* another socket's, is removed and the new one installed.  A client
\* subscribes of its own accord, and periodically; the latter is only told
\* apart when a wake-up was lost, so that renewals can be bounded.
Subscribe(s) ==
  /\ \/ renewals < MaxRenewals /\ renewals' = renewals + 1
     \/ stalled /\ renewals' = renewals
  /\ IF owner = None THEN UNCHANGED <<waking, pumping>> ELSE EndSubscription
  /\ owner' = s
  /\ replayDue' = TRUE
  /\ stalled' = FALSE
  /\ UNCHANGED <<mailbox, senders, faults, others>>

\* mux-mailbox-replay, which the client sends once it is subscribed.
Replay ==
  /\ replayDue
  /\ replayDue' = FALSE
  /\ Request
  /\ stalled' = FALSE
  /\ UNCHANGED <<mailbox, senders, waking, owner, renewals, faults, others>>

\* It is refused because currentSubscription could not be read.
ReplayFails ==
  /\ replayDue
  /\ faults < MaxFaults
  /\ faults' = faults + 1
  /\ replayDue' = FALSE
  /\ stalled' = TRUE
  /\ UNCHANGED <<mailbox, senders, waking, owner, renewals, pumping, others>>

\* removeSubscription: unsubscribed, expired, disconnected or revoked.
Release ==
  /\ owner # None
  /\ EndSubscription
  /\ owner' = None
  /\ replayDue' = FALSE
  /\ UNCHANGED <<mailbox, senders, renewals, stalled, faults, others>>

----------------------------------------------------------------------------
(* Time, and workers of earlier owners.                                    *)

LeaseLapses ==
  /\ leased
  /\ leased' = FALSE
  /\ UNCHANGED <<rows, claim, senders, waking, session, pumping, stalled, faults, others>>

\* A claim in preparation will miss.
HeadChanges == batch' = [p \in Pumps |-> [batch[p] EXCEPT !.head = FALSE]]

OtherClaims ==
  /\ rows > 0 /\ ~leased
  /\ others < MaxOthers
  /\ others' = others + 1
  /\ claim' = "other" /\ leased' = TRUE
  /\ HeadChanges
  /\ UNCHANGED <<rows, senders, waking, session, pump, mailboxPumps, stalled, faults>>

\* The head expires, or its other claimant settles it.
HeadLeaves ==
  /\ rows > 0
  /\ rows' = rows - 1 /\ claim' = "none" /\ leased' = FALSE
  /\ HeadChanges
  /\ UNCHANGED <<senders, waking, session, pump, mailboxPumps, stalled, faults, others>>

----------------------------------------------------------------------------

PumpStep(p) ==
  \/ Check(p) \/ Find(p) \/ Claim(p) \/ LookAtLease(p) \/ CountPending(p) \/ Drained(p)
  \/ Recheck(p) \/ Answered(p) \/ Unanswered(p) \/ Settle(p)
  \/ TimerFires(p)

Next ==
  \/ \E p \in Pumps : PumpStep(p) \/ CheckFails(p) \/ BatchFails(p)
  \/ Store \/ Wake \/ WakeRequests \/ WakeFails
  \/ \E s \in Sockets : Subscribe(s)
  \/ Replay \/ ReplayFails \/ Release
  \/ LeaseLapses \/ OtherClaims \/ HeadLeaves

\* Timers fire, database commands return, leases lapse; the client sends the
\* replay request of its subscription and renews one that has gone quiet; and
\* a recipient that keeps being asked answers some time.
Fairness ==
  /\ \A p \in Pumps : WF_vars(PumpStep(p)) /\ SF_vars(Answered(p))
  /\ WF_vars(Wake) /\ WF_vars(WakeRequests) /\ WF_vars(Replay) /\ WF_vars(LeaseLapses)
  /\ WF_vars(stalled /\ owner # None /\ Subscribe(owner))

Spec == Init /\ [][Next]_vars
FairSpec == Spec /\ Fairness

----------------------------------------------------------------------------
(* What the scheduler promises.                                            *)

\* Every pump that runs, or that a timer will run, is the one in the map: a
\* mailbox has one delivery loop however requests, renewals, cancellations and
\* retries interleave, and cancelMailboxPump can reach it
\* (multiplexed.ts:376-377, 397-401).
OnePump ==
  \A p \in Pumps : pump[p].running \/ pump[p].timer => p = mailboxPumps

\* No lost wake-up: while a subscriber is there, a deliverable row has a
\* sender about to wake the mailbox, a wake-up or a replay request under way,
\* or a pump that holds the current subscription and will look again.  The
\* exception is a wake-up swallowed by a failed read (multiplexed.ts:255, 272
\* and 716), which only the client's next subscription repairs.
NeverForgotten ==
  rows > 0 /\ owner # None /\ ~stalled =>
    \/ storing > 0 \/ waking > 0 \/ replayDue
    \/ \E p \in Pumps :
         /\ p = mailboxPumps
         /\ pump[p].fresh
         /\ \/ pump[p].timer
            \/ /\ pump[p].running
               /\ pump[p].requested \/ (batch[p].fresh /\ ~At(p, "drained"))

\* With a subscriber that stays, the mailbox is drained in the end, whatever
\* transient failures, lapsed leases, renewals and lost wake-ups came before.
Drains == <>[](owner # None) => <>[](rows = 0)
----------------------------------------------------------------------------
(* The inductive invariant behind them (MailboxPumpProofs).                *)

\* A claim, held or about to be taken, is a claim on a row.
ClaimsInv ==
  /\ claim # "none" => rows > 0
  /\ \A p \in Pumps : At(p, "claim") /\ batch[p].head => rows > 0

\* The fields of a pump agree with each other.
FieldsInv ==
  \A p \in Pumps :
    /\ pump[p].running <=> batch[p].pc # "off"
    /\ pump[p].running => ~pump[p].timer
    /\ pump[p].requested => pump[p].running

\* Who holds the current subscription; a pump holds a newer one than its batch
\* only if it was requested again.
FreshInv ==
  /\ owner = None => ~replayDue /\ waking = 0
  /\ \A p \in Pumps :
       /\ pump[p].fresh => owner # None /\ pump[p].socket = owner
       /\ batch[p].fresh => pump[p].fresh /\ batch[p].socket = owner
       /\ pump[p].running /\ pump[p].fresh /\ ~pump[p].requested => batch[p].fresh

IInv == TypeOK /\ OnePump /\ ClaimsInv /\ FieldsInv /\ FreshInv /\ NeverForgotten
=============================================================================
