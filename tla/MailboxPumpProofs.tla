------------------------- MODULE MailboxPumpProofs -------------------------
(***************************************************************************)
(* Proofs that the scheduler of a mailbox keeps one delivery loop and      *)
(* never forgets a row, for every number of sockets, pump objects,         *)
(* submissions, renewals and failures.                                     *)
(*                                                                         *)
(* Everything a step can do to the loop is one of three things: a request  *)
(* or a timer starts it (Start), a batch ends (EndBatch), or a             *)
(* subscription ends (EndSubscription).  Each has a lemma that says which  *)
(* parts of the invariant it keeps; the actions follow from these.         *)
(***************************************************************************)
EXTENDS MailboxPump, TLAPS

\* The part of the invariant about the loop itself.
LoopTyped ==
  /\ pump \in [Pumps -> Pump]
  /\ batch \in [Pumps -> Batch]
  /\ mailboxPumps \in Pumps \cup {None}

LoopInv == LoopTyped /\ OnePump /\ FieldsInv /\ FreshInv

\* A batch begins with the pump's own socket and subscription.
LEMMA FreshBatch ==
  ASSUME NEW r \in Pump
  PROVE  /\ BatchOf(r) \in Batch
         /\ BatchOf(r).pc = "check" /\ BatchOf(r).socket = r.socket
         /\ (BatchOf(r).fresh <=> r.fresh) /\ ~BatchOf(r).head
         /\ Pass(r) \in Pump
         /\ (Pass(r).running <=> r.running) /\ ~Pass(r).requested
         /\ (Pass(r).timer <=> r.timer)
         /\ Pass(r).socket = r.socket /\ (Pass(r).fresh <=> r.fresh)
<1>1. BatchOf(r) \in Batch
  BY PumpBounds DEF BatchOf, Batch, BatchPCs, Pump
<1>2. Pass(r) \in Pump
  BY DEF Pass, Pump
<1>3. BatchOf(r).pc = "check" /\ BatchOf(r).socket = r.socket
  BY DEF BatchOf
<1>4. (BatchOf(r).fresh <=> r.fresh) /\ ~BatchOf(r).head
  BY DEF BatchOf
<1>5. (Pass(r).running <=> r.running) /\ ~Pass(r).requested
  BY DEF Pass, Pump
<1>6. (Pass(r).timer <=> r.timer) /\ Pass(r).socket = r.socket /\ (Pass(r).fresh <=> r.fresh)
  BY DEF Pass, Pump
<1> QED  BY <1>1, <1>2, <1>3, <1>4, <1>5, <1>6

\* Starting the mapped pump, or one nobody refers to, for the current
\* subscription or for the one it has, leaves one loop.
LEMMA StartKeeps ==
  ASSUME LoopInv, owner' = owner,
         NEW p \in Pumps, NEW r \in Pump, Start(p, r),
         mailboxPumps' = p,
         mailboxPumps # None => p = mailboxPumps,
         r.running <=> pump[p].running, r.requested, ~r.timer,
         r.fresh => owner # None /\ r.socket = owner,
         batch[p].fresh => r.fresh,
         owner = None => ~replayDue' /\ waking' = 0
  PROVE  /\ LoopInv'
         /\ (pump'[p].fresh <=> r.fresh) /\ pump'[p].running
         /\ pump'[p].requested \/ ((batch'[p].fresh <=> r.fresh) /\ batch'[p].pc = "check")
         /\ \A q \in Pumps : batch'[q].head => batch[q].head /\ batch'[q].pc = batch[q].pc
<1>0. pump[p] \in Pump /\ batch[p] \in Batch
  BY DEF LoopInv, LoopTyped
<1>1. CASE r.running
  <2>1. pump' = [pump EXCEPT ![p] = r] /\ batch' = batch
    BY <1>1 DEF Start
  <2> QED
    BY <1>1, <2>1 DEF LoopInv, LoopTyped, OnePump, FieldsInv, FreshInv
<1>2. CASE ~r.running
  <2>0. PICK t \in Pump : t = Pass(r)
    BY FreshBatch
  <2>1. PICK s : s = [t EXCEPT !.running = TRUE]
    OBVIOUS
  <2>2. /\ s \in Pump /\ s.running /\ ~s.requested /\ ~s.timer
        /\ s.socket = r.socket /\ (s.fresh <=> r.fresh)
    <3>1. ~t.requested /\ ~t.timer /\ t.socket = r.socket /\ (t.fresh <=> r.fresh)
      BY <2>0, FreshBatch
    <3> QED  BY <2>1, <3>1 DEF Pump
  <2>3. pump' = [pump EXCEPT ![p] = s] /\ batch' = [batch EXCEPT ![p] = BatchOf(r)]
    BY <1>2, <2>0, <2>1 DEF Start
  <2>4. LoopTyped'
    BY <2>2, <2>3, FreshBatch DEF LoopInv, LoopTyped
  <2>5. pump'[p] = s /\ batch'[p] = BatchOf(r)
    BY <2>3 DEF LoopInv, LoopTyped
  <2>6. \A q \in Pumps \ {p} : pump'[q] = pump[q] /\ batch'[q] = batch[q]
    BY <2>3 DEF LoopInv, LoopTyped
  <2>7. OnePump'
    BY <2>6, PumpBounds DEF LoopInv, OnePump
  <2>8. FieldsInv'
    BY <2>2, <2>5, <2>6, FreshBatch DEF LoopInv, FieldsInv
  <2>9. FreshInv'
    BY <2>2, <2>5, <2>6, FreshBatch DEF LoopInv, FreshInv
  <2> QED
    BY <2>2, <2>4, <2>5, <2>6, <2>7, <2>8, <2>9, FreshBatch DEF LoopInv
<1> QED  BY <1>1, <1>2, <1>0 DEF Pump

\* The end of a batch leaves one loop, or none.
LEMMA EndBatchKeeps ==
  ASSUME LoopInv, UNCHANGED <<owner, replayDue, waking>>,
         NEW p \in Pumps, ~At(p, "off"), NEW status, EndBatch(p, status)
  PROVE  /\ LoopInv'
         /\ \A q \in Pumps : batch'[q].head => batch[q].head /\ batch'[q].pc = batch[q].pc
<1>0. pump[p] \in Pump /\ batch[p] \in Batch /\ pump[p].running /\ p = mailboxPumps
  BY DEF LoopInv, LoopTyped, FieldsInv, OnePump, At
<1>1. CASE pump[p].requested
  <2>1. /\ pump' = [pump EXCEPT ![p] = Pass(pump[p])]
        /\ batch' = [batch EXCEPT ![p] = BatchOf(pump[p])]
        /\ mailboxPumps' = mailboxPumps
    BY <1>1 DEF EndBatch, LoopInv, LoopTyped
  <2>2. LoopTyped'
    BY <1>0, <2>1, FreshBatch DEF LoopInv, LoopTyped
  <2>3. /\ pump'[p] = Pass(pump[p]) /\ batch'[p] = BatchOf(pump[p])
        /\ \A q \in Pumps \ {p} : pump'[q] = pump[q] /\ batch'[q] = batch[q]
    BY <2>1 DEF LoopInv, LoopTyped
  <2>4. OnePump'
    BY <1>0, <2>1, <2>3 DEF LoopInv, OnePump
  <2>5. FieldsInv'
    BY <1>0, <2>3, FreshBatch DEF LoopInv, FieldsInv
  <2>6. FreshInv'
    BY <1>0, <2>3, FreshBatch DEF LoopInv, FreshInv
  <2> QED
    BY <1>0, <2>2, <2>3, <2>4, <2>5, <2>6, FreshBatch DEF LoopInv
<1>2. CASE ~pump[p].requested
  <2> DEFINE timer == status = "batch-limit" \/ (status = "retry" /\ pump[p].fresh)
  <2>1. PICK s : s = [pump[p] EXCEPT !.running = FALSE, !.timer = timer]
    OBVIOUS
  <2>2. timer \in BOOLEAN
    BY <1>0 DEF Pump
  <2>3. /\ s \in Pump /\ ~s.running /\ ~s.requested /\ (s.timer <=> timer)
        /\ s.socket = pump[p].socket /\ (s.fresh <=> pump[p].fresh)
    BY <1>0, <1>2, <2>1, <2>2 DEF Pump
  <2>4. /\ pump' = [pump EXCEPT ![p] = s]
        /\ batch' = [batch EXCEPT ![p] = NoBatch]
        /\ mailboxPumps' = IF ~timer /\ mailboxPumps = p THEN None ELSE mailboxPumps
    BY <1>2, <2>1 DEF EndBatch, LoopInv, LoopTyped
  <2>5. NoBatch \in Batch /\ NoBatch.pc = "off" /\ ~NoBatch.fresh /\ ~NoBatch.head
    BY PumpBounds DEF NoBatch, Batch, BatchPCs
  <2> HIDE DEF timer
  <2>6. LoopTyped'
    BY <2>3, <2>4, <2>5 DEF LoopInv, LoopTyped
  <2>7. /\ pump'[p] = s /\ batch'[p] = NoBatch
        /\ \A q \in Pumps \ {p} : pump'[q] = pump[q] /\ batch'[q] = batch[q]
    BY <2>4 DEF LoopInv, LoopTyped
  <2>8. OnePump'
    BY <1>0, <2>2, <2>3, <2>4, <2>7 DEF LoopInv, OnePump
  <2>9. FieldsInv'
    BY <2>3, <2>5, <2>7 DEF LoopInv, FieldsInv
  <2>10. FreshInv'
    BY <2>3, <2>5, <2>7 DEF LoopInv, FreshInv
  <2> QED
    BY <2>5, <2>6, <2>7, <2>8, <2>9, <2>10 DEF LoopInv
<1> QED  BY <1>0, <1>1, <1>2 DEF Pump

\* ... and forgets no row, unless the pump's subscription was lost, the
\* mailbox was counted empty or the failure is on record.
LEMMA EndBatchRemembers ==
  ASSUME LoopInv, NeverForgotten, UNCHANGED <<owner, replayDue, waking, storing>>,
         rows' > 0 => rows > 0, ~stalled' => ~stalled,
         NEW p \in Pumps, ~At(p, "off"), NEW status, EndBatch(p, status),
         \/ status \in {"retry", "batch-limit"} \/ ~batch[p].fresh
         \/ At(p, "drained") \/ stalled'
  PROVE  NeverForgotten'
<1> SUFFICES ASSUME rows > 0, owner # None, ~stalled, ~stalled',
                    ~(storing > 0 \/ waking > 0 \/ replayDue)
             PROVE  /\ p = mailboxPumps'
                    /\ pump'[p].fresh
                    /\ \/ pump'[p].timer
                       \/ /\ pump'[p].running
                          /\ batch'[p].fresh /\ batch'[p].pc = "check"
  BY DEF NeverForgotten, At
<1>1. pump[p] \in Pump /\ batch[p] \in Batch /\ pump[p].running /\ p = mailboxPumps
      /\ ~pump[p].timer
  BY DEF LoopInv, LoopTyped, FieldsInv, OnePump, At
<1>2. pump[p].fresh /\ (pump[p].requested \/ (batch[p].fresh /\ ~At(p, "drained")))
  BY <1>1 DEF NeverForgotten
<1>3. CASE pump[p].requested
  <2>1. /\ pump'[p] = Pass(pump[p]) /\ batch'[p] = BatchOf(pump[p])
        /\ mailboxPumps' = mailboxPumps
    BY <1>3 DEF EndBatch, LoopInv, LoopTyped
  <2> QED  BY <1>1, <1>2, <2>1, FreshBatch
<1>4. CASE ~pump[p].requested
  <2>1. status \in {"retry", "batch-limit"}
    BY <1>2, <1>4
  <2>2. PICK s : s = [pump[p] EXCEPT !.running = FALSE, !.timer = TRUE]
    OBVIOUS
  <2>3. s.timer /\ s.fresh
    BY <1>1, <1>2, <2>2 DEF Pump
  <2>4. pump' = [pump EXCEPT ![p] = s] /\ mailboxPumps' = mailboxPumps
    BY <1>1, <1>2, <1>4, <2>1, <2>2 DEF EndBatch, Pump
  <2> QED  BY <1>1, <2>3, <2>4 DEF LoopInv, LoopTyped
<1> QED  BY <1>1, <1>3, <1>4 DEF Pump

\* A step within a batch changes nothing but where the batch stands; no row
\* is forgotten unless it is found empty.
LEMMA BatchMoves ==
  ASSUME LoopInv, NeverForgotten, UNCHANGED <<owner, replayDue, waking, storing, stalled>>,
         UNCHANGED <<pump, mailboxPumps>>,
         rows' > 0 => rows > 0,
         NEW p \in Pumps, ~At(p, "off"),
         NEW b \in Batch, batch' = [batch EXCEPT ![p] = b],
         b.pc # "off", b.socket = batch[p].socket, b.fresh <=> batch[p].fresh,
         b.pc = "drained" => ~(rows' > 0) \/ At(p, "drained")
  PROVE  LoopInv' /\ NeverForgotten'
<1>1. /\ batch' \in [Pumps -> Batch] /\ batch'[p] = b
      /\ \A q \in Pumps \ {p} : batch'[q] = batch[q]
  BY DEF LoopInv, LoopTyped
<1>2. LoopTyped' /\ OnePump'
  BY <1>1 DEF LoopInv, LoopTyped, OnePump
<1>3. FieldsInv'
  BY <1>1 DEF LoopInv, FieldsInv, At
<1>4. FreshInv'
  BY <1>1 DEF LoopInv, FreshInv
<1>5. NeverForgotten'
  BY <1>1 DEF NeverForgotten, At, LoopInv, LoopTyped
<1> QED  BY <1>2, <1>3, <1>4, <1>5 DEF LoopInv

\* Step(p, pc) is such a step.
LEMMA StepMoves ==
  ASSUME LoopInv, NEW p \in Pumps, NEW pc \in BatchPCs, Step(p, pc)
  PROVE  \E b \in Batch : /\ batch' = [batch EXCEPT ![p] = b] /\ b.pc = pc
                          /\ b.socket = batch[p].socket /\ (b.fresh <=> batch[p].fresh)
                          /\ (b.head <=> batch[p].head)
<1>1. batch[p] \in Batch
  BY DEF LoopInv, LoopTyped
<1>2. PICK b : b = [batch[p] EXCEPT !.pc = pc]
  OBVIOUS
<1>3. b \in Batch /\ b.pc = pc /\ b.socket = batch[p].socket
  BY <1>1, <1>2 DEF Batch
<1>4. (b.fresh <=> batch[p].fresh) /\ (b.head <=> batch[p].head)
  BY <1>1, <1>2 DEF Batch
<1>5. batch' = [batch EXCEPT ![p] = b]
  BY <1>2 DEF Step
<1> QED  BY <1>3, <1>4, <1>5

\* A subscription that ends takes its requests and its timer with it; the
\* pump of another socket keeps its place in the map.
LEMMA EndSubscriptionKeeps ==
  ASSUME LoopInv, owner # None, EndSubscription, owner' = None => ~replayDue'
  PROVE  /\ LoopInv'
         /\ waking' = 0
         /\ \A q \in Pumps : batch'[q].head => batch[q].head
         /\ \A q \in Pumps : batch'[q].pc = batch[q].pc
<1>1. /\ \A q \in Pumps : pump[q] \in Pump /\ batch[q] \in Batch
      /\ mailboxPumps \in Pumps \cup {None}
  BY DEF LoopInv, LoopTyped
<1>2. /\ batch' = [q \in Pumps |-> [batch[q] EXCEPT !.fresh = FALSE]] /\ waking' = 0
      /\ Cancel(owner)
  BY DEF EndSubscription
<1>3. /\ \A q \in Pumps : /\ batch'[q] \in Batch /\ ~batch'[q].fresh
                          /\ batch'[q].pc = batch[q].pc
                          /\ batch'[q].head <=> batch[q].head
      /\ batch' \in [Pumps -> Batch]
  BY <1>1, <1>2 DEF Batch
<1>4. CASE mailboxPumps # None /\ pump[mailboxPumps].socket = owner
  <2> DEFINE p == mailboxPumps
  <2>1. p \in Pumps
    BY <1>1, <1>4
  <2>2. /\ pump' = [q \in Pumps |->
             [pump[q] EXCEPT !.timer = @ /\ q # p, !.requested = @ /\ q # p, !.fresh = FALSE]]
        /\ mailboxPumps' = IF pump[p].running THEN p ELSE None
    BY <1>2, <1>4 DEF Cancel
  <2> HIDE DEF p
  <2>3. \A q \in Pumps : /\ pump'[q] \in Pump /\ ~pump'[q].fresh
                         /\ pump'[q].running <=> pump[q].running
                         /\ pump'[q].timer <=> (pump[q].timer /\ q # p)
                         /\ pump'[q].requested <=> (pump[q].requested /\ q # p)
    BY <1>1, <2>2 DEF Pump
  <2>4. LoopTyped'
    BY <1>3, <2>1, <2>2, <2>3 DEF LoopTyped
  <2>5. OnePump'
    BY <2>1, <2>2, <2>3 DEF OnePump, LoopInv, p
  <2>6. FieldsInv'
    BY <1>3, <2>3 DEF FieldsInv, LoopInv
  <2>7. FreshInv'
    BY <1>2, <1>3, <2>3 DEF FreshInv
  <2> QED  BY <1>2, <1>3, <2>4, <2>5, <2>6, <2>7 DEF LoopInv
<1>5. CASE ~(mailboxPumps # None /\ pump[mailboxPumps].socket = owner)
  <2>1. /\ pump' = [q \in Pumps |-> [pump[q] EXCEPT !.fresh = FALSE]]
        /\ mailboxPumps' = mailboxPumps
    BY <1>2, <1>5 DEF Cancel
  <2>2. \A q \in Pumps : /\ pump'[q] \in Pump /\ ~pump'[q].fresh
                         /\ pump'[q].running <=> pump[q].running
                         /\ pump'[q].timer <=> pump[q].timer
                         /\ pump'[q].requested <=> pump[q].requested
    BY <1>1, <2>1 DEF Pump
  <2>3. LoopTyped'
    BY <1>1, <1>3, <2>1, <2>2 DEF LoopTyped
  <2>4. OnePump'
    BY <2>1, <2>2 DEF OnePump, LoopInv
  <2>5. FieldsInv'
    BY <1>3, <2>2 DEF FieldsInv, LoopInv
  <2>6. FreshInv'
    BY <1>2, <1>3, <2>2 DEF FreshInv
  <2> QED  BY <1>2, <1>3, <2>3, <2>4, <2>5, <2>6 DEF LoopInv
<1> QED  BY <1>4, <1>5

----------------------------------------------------------------------------
(* The steps of a batch.                                                   *)

\* TypeOK without the loop: the flags and the rest.
FlagsTyped == leased \in BOOLEAN /\ replayDue \in BOOLEAN /\ stalled \in BOOLEAN
ScalarsTyped ==
  /\ rows \in Nat /\ sent \in Nat /\ storing \in Nat /\ waking \in Nat
  /\ claim \in {"none", "pump", "other"}
  /\ owner \in Sockets \cup {None}
  /\ FlagsTyped
  /\ renewals \in 0..MaxRenewals /\ faults \in 0..MaxFaults /\ others \in 0..MaxOthers

\* The invariant in the four parts the steps are proved in.
LEMMA Parts ==
  /\ IInv <=> ScalarsTyped /\ LoopInv /\ ClaimsInv /\ NeverForgotten
  /\ IInv' <=> ScalarsTyped' /\ LoopInv' /\ ClaimsInv' /\ NeverForgotten'
<1>1. IInv <=> ScalarsTyped /\ LoopInv /\ ClaimsInv /\ NeverForgotten
  BY DEF IInv, TypeOK, ScalarsTyped, FlagsTyped, LoopInv, LoopTyped
<1>2. IInv' <=> ScalarsTyped' /\ LoopInv' /\ ClaimsInv' /\ NeverForgotten'
  BY DEF IInv, TypeOK, ScalarsTyped, FlagsTyped, LoopInv, LoopTyped
<1> QED  BY <1>1, <1>2

\* A batch ends, and nothing else happens but perhaps a failure.
LEMMA BatchEnds ==
  ASSUME IInv, NEW p \in Pumps, ~At(p, "off"), NEW status, EndBatch(p, status),
         UNCHANGED <<mailbox, senders, waking, session, others>>,
         faults' \in 0..MaxFaults, stalled' \in BOOLEAN, ~stalled' => ~stalled,
         \/ status \in {"retry", "batch-limit"} \/ ~batch[p].fresh
         \/ At(p, "drained") \/ stalled'
  PROVE  IInv'
<1>1. LoopInv /\ NeverForgotten /\ ClaimsInv /\ ScalarsTyped
  BY Parts
<1>2. UNCHANGED <<owner, replayDue, waking, storing, rows, claim, leased, sent, renewals, others>>
  BY DEF mailbox, senders, session
<1>3. ScalarsTyped'
  BY <1>1, <1>2 DEF ScalarsTyped, FlagsTyped
<1>4. /\ LoopInv'
      /\ \A q \in Pumps : batch'[q].head => batch[q].head /\ batch'[q].pc = batch[q].pc
  BY <1>1, <1>2, EndBatchKeeps
<1>5. NeverForgotten'
  BY <1>1, <1>2, EndBatchRemembers
<1>6. ClaimsInv'
  BY <1>1, <1>2, <1>4 DEF ClaimsInv, At
<1> QED  BY <1>3, <1>4, <1>5, <1>6, Parts

\* A batch goes on to its next await, and nothing else happens.
LEMMA BatchSteps ==
  ASSUME IInv, NEW p \in Pumps, ~At(p, "off"), NEW pc \in BatchPCs \ {"off", "claim"},
         Step(p, pc), pc = "drained" => ~(rows > 0),
         UNCHANGED <<mailbox, senders, waking, session, stalled, faults, others>>
  PROVE  IInv'
<1>1. LoopInv /\ NeverForgotten /\ ClaimsInv /\ ScalarsTyped
  BY Parts
<1>2. UNCHANGED <<owner, replayDue, waking, storing, stalled, rows, claim, leased, sent,
                  renewals, faults, others, pump, mailboxPumps>>
  BY DEF mailbox, senders, session, Step
<1>3. PICK b \in Batch : /\ batch' = [batch EXCEPT ![p] = b] /\ b.pc = pc
                         /\ b.socket = batch[p].socket /\ (b.fresh <=> batch[p].fresh)
                         /\ (b.head <=> batch[p].head)
  BY <1>1, StepMoves
<1>4. LoopInv' /\ NeverForgotten'
  BY <1>1, <1>2, <1>3, BatchMoves
<1>5. ScalarsTyped'
  BY <1>1, <1>2 DEF ScalarsTyped, FlagsTyped
<1>6. ClaimsInv'
  BY <1>1, <1>2, <1>3 DEF ClaimsInv, At, LoopInv, LoopTyped
<1> QED  BY <1>4, <1>5, <1>6, Parts

\* Every step of a batch that leaves the rows alone keeps the invariant.
LEMMA QuietStepsKeep ==
  ASSUME IInv, NEW p \in Pumps,
         \/ Check(p) \/ LookAtLease(p) \/ CountPending(p) \/ Drained(p) \/ Recheck(p)
         \/ Answered(p) \/ Unanswered(p) \/ CheckFails(p) \/ BatchFails(p)
  PROVE  IInv'
<1>0. ScalarsTyped /\ MaxFaults \in Nat
  BY Parts, PumpBounds
<1>1. CASE Check(p)
  BY <1>0, <1>1, BatchEnds, BatchSteps DEF Check, At, BatchPCs, ScalarsTyped, FlagsTyped
<1>2. CASE LookAtLease(p)
  BY <1>0, <1>2, BatchEnds, BatchSteps DEF LookAtLease, At, BatchPCs, ScalarsTyped, FlagsTyped
<1>3. CASE CountPending(p)
  BY <1>0, <1>3, BatchEnds, BatchSteps DEF CountPending, At, BatchPCs, ScalarsTyped, FlagsTyped
<1>4. CASE Drained(p)
  BY <1>0, <1>4, BatchEnds DEF Drained, At, ScalarsTyped, FlagsTyped
<1>5. CASE Recheck(p)
  BY <1>0, <1>5, BatchEnds, BatchSteps DEF Recheck, At, BatchPCs, ScalarsTyped, FlagsTyped
<1>6. CASE Answered(p)
  BY <1>0, <1>6, BatchSteps DEF Answered, At, BatchPCs
<1>7. CASE Unanswered(p)
  BY <1>0, <1>7, BatchEnds DEF Unanswered, At, ScalarsTyped, FlagsTyped
<1>8. CASE CheckFails(p)
  <2>1. faults' \in 0..MaxFaults /\ stalled' /\ ~At(p, "off")
    BY <1>0, <1>8 DEF CheckFails, ScalarsTyped, At
  <2> QED  BY <1>8, <2>1, BatchEnds DEF CheckFails
<1>9. CASE BatchFails(p)
  <2>1. faults' \in 0..MaxFaults /\ stalled' \in BOOLEAN /\ ~At(p, "off")
    BY <1>0, <1>9 DEF BatchFails, ScalarsTyped, FlagsTyped, At
  <2> QED  BY <1>9, <2>1, BatchEnds DEF BatchFails
<1> QED  BY <1>1, <1>2, <1>3, <1>4, <1>5, <1>6, <1>7, <1>8, <1>9

\* The head is found ...
LEMMA FindKeeps ==
  ASSUME IInv, NEW p \in Pumps, Find(p)
  PROVE  IInv'
<1>0. LoopInv /\ NeverForgotten /\ ClaimsInv /\ ScalarsTyped
  BY Parts
<1>1. CASE rows > 0 /\ ~leased
  <2>1. batch[p] \in Batch
    BY <1>0 DEF LoopInv, LoopTyped
  <2>2. PICK c : c = [batch[p] EXCEPT !.pc = "claim"]
    OBVIOUS
  <2>3. /\ c \in Batch /\ c.pc = "claim" /\ c.socket = batch[p].socket
        /\ (c.fresh <=> batch[p].fresh)
    BY <2>1, <2>2 DEF Batch, BatchPCs
  <2>4. PICK b : b = [c EXCEPT !.head = TRUE]
    OBVIOUS
  <2>5. /\ b \in Batch /\ b.pc = "claim" /\ b.socket = batch[p].socket
        /\ (b.fresh <=> batch[p].fresh)
    BY <2>3, <2>4 DEF Batch
  <2>6. batch' = [batch EXCEPT ![p] = b] /\ ~At(p, "off")
    BY <1>1, <2>2, <2>4 DEF Find, At
  <2>7. UNCHANGED <<owner, replayDue, waking, storing, stalled, rows, claim, leased, sent,
                    renewals, faults, others, pump, mailboxPumps>>
    BY <1>1 DEF Find, mailbox, senders, session
  <2>8. LoopInv' /\ NeverForgotten'
    BY <1>0, <2>5, <2>6, <2>7, BatchMoves
  <2>9. ScalarsTyped'
    BY <1>0, <2>7 DEF ScalarsTyped, FlagsTyped
  <2>10. ClaimsInv'
    BY <1>0, <1>1, <2>6, <2>7 DEF ClaimsInv, At, LoopInv, LoopTyped
  <2> QED  BY <2>8, <2>9, <2>10, Parts
<1>2. CASE ~(rows > 0 /\ ~leased)
  BY <1>2, BatchSteps DEF Find, At, BatchPCs
<1> QED  BY <1>1, <1>2

\* ... and claimed, if it is still the unclaimed head.
LEMMA ClaimKeeps ==
  ASSUME IInv, NEW p \in Pumps, Claim(p)
  PROVE  IInv'
<1>0. LoopInv /\ NeverForgotten /\ ClaimsInv /\ ScalarsTyped
  BY Parts
<1>1. PICK pc \in {"recheck", "lease"} : Step(p, pc)
  BY DEF Claim
<1>2. PICK b \in Batch : /\ batch' = [batch EXCEPT ![p] = b] /\ b.pc = pc
                         /\ b.socket = batch[p].socket /\ (b.fresh <=> batch[p].fresh)
                         /\ (b.head <=> batch[p].head)
  BY <1>0, <1>1, StepMoves DEF BatchPCs
<1>3. UNCHANGED <<owner, replayDue, waking, storing, stalled, rows, sent,
                  renewals, faults, others, pump, mailboxPumps>>
  BY <1>1 DEF Claim, senders, session, Step
<1>4. ~At(p, "off")
  BY DEF Claim, At
<1>5. LoopInv' /\ NeverForgotten'
  BY <1>0, <1>2, <1>3, <1>4, BatchMoves
<1>6. ScalarsTyped'
  BY <1>0, <1>3 DEF Claim, ScalarsTyped, FlagsTyped
<1>7. batch'[p] = b /\ \A q \in Pumps \ {p} : batch'[q] = batch[q]
  BY <1>0, <1>2 DEF LoopInv, LoopTyped
<1>8. ClaimsInv'
  BY <1>0, <1>1, <1>2, <1>3, <1>7 DEF Claim, ClaimsInv, At
<1> QED  BY <1>5, <1>6, <1>8, Parts

\* A verdict removes the row whose claim the pump still has.
LEMMA SettleKeeps ==
  ASSUME IInv, NEW p \in Pumps, Settle(p)
  PROVE  IInv'
<1>0. LoopInv /\ NeverForgotten /\ ClaimsInv /\ ScalarsTyped
  BY Parts
<1>1. ~At(p, "off") /\ stalled' \in BOOLEAN /\ faults' \in 0..MaxFaults
  BY <1>0 DEF Settle, At, ScalarsTyped, FlagsTyped
<1>2. CASE owner # batch[p].socket
  <2>1. ~batch[p].fresh
    BY <1>0, <1>2 DEF LoopInv, FreshInv
  <2> QED  BY <1>1, <1>2, <2>1, BatchEnds DEF Settle
<1>3. CASE owner = batch[p].socket /\ claim # "pump"
  BY <1>1, <1>3, BatchEnds DEF Settle
<1>4. CASE owner = batch[p].socket /\ claim = "pump"
  <2>1. /\ rows' = rows - 1 /\ claim' = "none" /\ leased' = FALSE /\ rows > 0
        /\ UNCHANGED <<owner, replayDue, waking, storing, stalled, sent, renewals, faults,
                       others>>
    BY <1>0, <1>4 DEF Settle, ClaimsInv, senders, session
  <2>2. ScalarsTyped'
    <3>1. FlagsTyped'
      BY <1>0, <2>1, Zenon DEF ScalarsTyped, FlagsTyped
    <3> QED  BY <1>0, <2>1, <3>1 DEF ScalarsTyped
  <2>3. \A q \in Pumps : ~At(q, "claim")
    BY <1>0 DEF Settle, At, LoopInv, OnePump, FieldsInv
  <2>4. rows' > 0 => rows > 0
    BY <2>1
  <2>5. CASE batch[p].n + 1 < BatchLimit
    <3>1. batch[p] \in Batch
      BY <1>0 DEF LoopInv, LoopTyped
    <3>2. batch[p].n + 1 \in 0..BatchLimit
      BY <2>5, <3>1, PumpBounds DEF Batch
    <3>3. PICK b : b = [batch[p] EXCEPT !.pc = "check", !.n = batch[p].n + 1]
      OBVIOUS
    <3>4. /\ b \in Batch /\ b.pc = "check" /\ b.socket = batch[p].socket
          /\ (b.fresh <=> batch[p].fresh)
      BY <3>1, <3>2, <3>3 DEF Batch, BatchPCs
    <3>5. batch' = [batch EXCEPT ![p] = b] /\ UNCHANGED <<pump, mailboxPumps>>
      BY <1>4, <2>5, <3>3 DEF Settle
    <3>6. LoopInv' /\ NeverForgotten'
      BY <1>0, <1>1, <2>1, <2>4, <3>4, <3>5, BatchMoves
    <3>7. ClaimsInv'
      BY <1>0, <2>1, <2>3, <3>4, <3>5 DEF ClaimsInv, At, LoopInv, LoopTyped
    <3> QED  BY <2>2, <3>6, <3>7, Parts
  <2>6. CASE ~(batch[p].n + 1 < BatchLimit)
    <3>1. EndBatch(p, "batch-limit")
      BY <1>4, <2>6 DEF Settle
    <3>2. /\ LoopInv'
          /\ \A q \in Pumps : batch'[q].head => batch[q].head /\ batch'[q].pc = batch[q].pc
      BY <1>0, <1>1, <2>1, <3>1, EndBatchKeeps
    <3>3. NeverForgotten'
      BY <1>0, <1>1, <2>1, <2>4, <3>1, EndBatchRemembers
    <3>4. ClaimsInv'
      BY <2>1, <2>3, <3>2 DEF ClaimsInv, At
    <3> QED  BY <2>2, <3>2, <3>3, <3>4, Parts
  <2> QED  BY <2>5, <2>6
<1> QED  BY <1>2, <1>3, <1>4

----------------------------------------------------------------------------
(* What starts the loop.                                                   *)

\* A retry timer starts the loop again with what its pump holds.
LEMMA TimerKeeps ==
  ASSUME IInv, NEW p \in Pumps, TimerFires(p)
  PROVE  IInv'
<1>0. LoopInv /\ NeverForgotten /\ ClaimsInv /\ ScalarsTyped
  BY Parts
<1>1. /\ pump[p] \in Pump /\ pump[p].timer /\ p = mailboxPumps
      /\ UNCHANGED <<owner, replayDue, waking, storing, stalled, rows, claim, leased, sent,
                     renewals, faults, others, mailboxPumps>>
  BY <1>0 DEF TimerFires, LoopInv, LoopTyped, OnePump, mailbox, senders, session
<1>2. PICK q : q = [pump[p] EXCEPT !.timer = FALSE]
  OBVIOUS
<1>3. /\ q \in Pump /\ ~q.timer /\ (q.running <=> pump[p].running)
      /\ (q.fresh <=> pump[p].fresh) /\ q.socket = pump[p].socket
  BY <1>1, <1>2 DEF Pump
<1>4. PICK r : r = [q EXCEPT !.requested = TRUE]
  OBVIOUS
<1>5. /\ r \in Pump /\ ~r.timer /\ r.requested /\ (r.running <=> pump[p].running)
      /\ (r.fresh <=> pump[p].fresh) /\ r.socket = pump[p].socket
  BY <1>3, <1>4 DEF Pump
<1>6. Start(p, r)
  BY <1>2, <1>4 DEF TimerFires
<1>7. /\ r.fresh => owner # None /\ r.socket = owner
      /\ batch[p].fresh => r.fresh
      /\ owner = None => ~replayDue' /\ waking' = 0
  BY <1>0, <1>1, <1>5 DEF LoopInv, FreshInv
<1>8. /\ LoopInv'
      /\ (pump'[p].fresh <=> r.fresh) /\ pump'[p].running
      /\ pump'[p].requested \/ ((batch'[p].fresh <=> r.fresh) /\ batch'[p].pc = "check")
      /\ \A x \in Pumps : batch'[x].head => batch[x].head /\ batch'[x].pc = batch[x].pc
  BY <1>0, <1>1, <1>5, <1>6, <1>7, StartKeeps
<1>9. ScalarsTyped' /\ ClaimsInv'
  BY <1>0, <1>1, <1>8 DEF ScalarsTyped, FlagsTyped, ClaimsInv, At
<1>10. NeverForgotten'
  BY <1>0, <1>1, <1>5, <1>8 DEF NeverForgotten, At
<1> QED  BY <1>8, <1>9, <1>10, Parts

\* A request leaves a loop for the current subscription that has yet to look.
LEMMA RequestKeeps ==
  ASSUME LoopInv, owner \in Sockets, owner' = owner, Request
  PROVE  /\ LoopInv'
         /\ \E p \in Pumps :
              /\ p = mailboxPumps' /\ pump'[p].fresh /\ pump'[p].running
              /\ pump'[p].requested \/ (batch'[p].fresh /\ batch'[p].pc = "check")
         /\ \A q \in Pumps : batch'[q].head => batch[q].head /\ batch'[q].pc = batch[q].pc
<1>1. PICK p \in Pumps :
        /\ IF mailboxPumps # None THEN p = mailboxPumps ELSE Garbage(p)
        /\ mailboxPumps' = p
        /\ Start(p, [running |-> pump[p].running, requested |-> TRUE, timer |-> FALSE,
                     socket |-> owner, fresh |-> TRUE])
  BY DEF Request
<1>2. PICK r : r = [running |-> pump[p].running, requested |-> TRUE, timer |-> FALSE,
                    socket |-> owner, fresh |-> TRUE]
  OBVIOUS
<1>3. pump[p] \in Pump
  BY DEF LoopInv, LoopTyped
<1>4. /\ r \in Pump /\ (r.running <=> pump[p].running) /\ r.requested /\ ~r.timer
      /\ r.fresh /\ r.socket = owner
  BY <1>2, <1>3 DEF Pump
<1>5. Start(p, r) /\ owner # None /\ (mailboxPumps # None => p = mailboxPumps)
  BY <1>1, <1>2, PumpBounds
<1>6. /\ LoopInv'
      /\ (pump'[p].fresh <=> r.fresh) /\ pump'[p].running
      /\ pump'[p].requested \/ ((batch'[p].fresh <=> r.fresh) /\ batch'[p].pc = "check")
      /\ \A q \in Pumps : batch'[q].head => batch[q].head /\ batch'[q].pc = batch[q].pc
  BY <1>1, <1>4, <1>5, StartKeeps
<1> QED  BY <1>1, <1>4, <1>6

\* So does the wake-up of a sender, and the client's replay request.
LEMMA RequestsKeep ==
  ASSUME IInv, WakeRequests \/ Replay
  PROVE  IInv'
<1>0. LoopInv /\ NeverForgotten /\ ClaimsInv /\ ScalarsTyped
  BY Parts
<1>1. /\ Request /\ stalled' = FALSE
      /\ UNCHANGED <<owner, storing, rows, claim, leased, sent, renewals, faults, others>>
      /\ waking > 0 \/ replayDue
      /\ \/ waking > 0 /\ waking' = waking - 1 /\ replayDue' = replayDue
         \/ waking' = waking /\ replayDue' = FALSE
  BY DEF WakeRequests, Replay, mailbox, senders, session
<1>2. owner \in Sockets
  BY <1>0, <1>1 DEF LoopInv, FreshInv, ScalarsTyped
<1>3. /\ LoopInv'
      /\ \E p \in Pumps :
           /\ p = mailboxPumps' /\ pump'[p].fresh /\ pump'[p].running
           /\ pump'[p].requested \/ (batch'[p].fresh /\ batch'[p].pc = "check")
      /\ \A q \in Pumps : batch'[q].head => batch[q].head /\ batch'[q].pc = batch[q].pc
  BY <1>0, <1>1, <1>2, RequestKeeps
<1>4. ScalarsTyped'
  <2>1. FlagsTyped'
    BY <1>0, <1>1, Zenon DEF ScalarsTyped, FlagsTyped
  <2> QED  BY <1>0, <1>1, <2>1 DEF ScalarsTyped
<1>5. ClaimsInv'
  BY <1>0, <1>1, <1>3 DEF ClaimsInv, At
<1>6. NeverForgotten'
  BY <1>3 DEF NeverForgotten, At
<1> QED  BY <1>3, <1>4, <1>5, <1>6, Parts

----------------------------------------------------------------------------
(* What leaves the loop alone, or ends its subscription.                   *)

\* A stored row has a sender about to wake the mailbox; a dropped wake-up is
\* on record.
LEMMA SendersKeep ==
  ASSUME IInv, Store \/ Wake \/ WakeFails \/ ReplayFails \/ LeaseLapses
  PROVE  IInv'
<1>0. /\ LoopInv /\ NeverForgotten /\ ClaimsInv /\ ScalarsTyped
      /\ MaxFaults \in Nat
  BY Parts, PumpBounds
<1> USE DEF mailbox, senders, session, pumping
<1>1. CASE Store
  <2>1. ScalarsTyped' /\ storing' > 0 /\ rows' >= rows /\ rows \in Nat
    BY <1>0, <1>1 DEF Store, ScalarsTyped, FlagsTyped
  <2>2. LoopInv'
    BY <1>0, <1>1 DEF Store, LoopInv, LoopTyped, OnePump, FieldsInv, FreshInv
  <2>3. ClaimsInv'
    BY <1>0, <1>1, <2>1 DEF Store, ClaimsInv, At, ScalarsTyped
  <2> QED  BY <2>1, <2>2, <2>3, Parts DEF NeverForgotten
<1>2. CASE Wake
  <2>1. ScalarsTyped'
    BY <1>0, <1>2 DEF Wake, ScalarsTyped, FlagsTyped
  <2>2. LoopInv' /\ ClaimsInv'
    BY <1>0, <1>2 DEF Wake, LoopInv, LoopTyped, OnePump, FieldsInv, FreshInv, ClaimsInv, At
  <2>3. owner # None => waking' > 0
    BY <1>0, <1>2 DEF Wake, ScalarsTyped
  <2> QED  BY <1>2, <2>1, <2>2, <2>3, Parts DEF Wake, NeverForgotten
<1>3. CASE WakeFails
  <2>1. ScalarsTyped' /\ stalled'
    <3>1. FlagsTyped'
      BY <1>0, <1>3, Zenon DEF WakeFails, ScalarsTyped, FlagsTyped
    <3> QED  BY <1>0, <1>3, <3>1 DEF WakeFails, ScalarsTyped
  <2>2. LoopInv' /\ ClaimsInv'
    BY <1>0, <1>3 DEF WakeFails, LoopInv, LoopTyped, OnePump, FieldsInv, FreshInv, ClaimsInv, At
  <2> QED  BY <2>1, <2>2, Parts DEF NeverForgotten
<1>4. CASE ReplayFails
  <2>1. ScalarsTyped' /\ stalled'
    <3>1. FlagsTyped'
      BY <1>0, <1>4, Zenon DEF ReplayFails, ScalarsTyped, FlagsTyped
    <3> QED  BY <1>0, <1>4, <3>1 DEF ReplayFails, ScalarsTyped
  <2>2. LoopInv' /\ ClaimsInv'
    BY <1>0, <1>4 DEF ReplayFails, LoopInv, LoopTyped, OnePump, FieldsInv, FreshInv, ClaimsInv, At
  <2> QED  BY <2>1, <2>2, Parts DEF NeverForgotten
<1>5. CASE LeaseLapses
  <2>1. ScalarsTyped'
    <3>1. FlagsTyped'
      BY <1>0, <1>5, Zenon DEF LeaseLapses, ScalarsTyped, FlagsTyped
    <3> QED  BY <1>0, <1>5, <3>1 DEF LeaseLapses, ScalarsTyped
  <2>2. LoopInv' /\ ClaimsInv' /\ NeverForgotten'
    BY <1>0, <1>5 DEF LeaseLapses, LoopInv, LoopTyped, OnePump, FieldsInv, FreshInv,
                      ClaimsInv, NeverForgotten, At
  <2> QED  BY <2>1, <2>2, Parts
<1> QED  BY <1>1, <1>2, <1>3, <1>4, <1>5

\* A head that changes hands or leaves spoils the claims in preparation.
LEMMA HeadsKeep ==
  ASSUME IInv, OtherClaims \/ HeadLeaves
  PROVE  IInv'
<1>0. LoopInv /\ NeverForgotten /\ ClaimsInv /\ ScalarsTyped
  BY Parts
<1>1. /\ UNCHANGED <<owner, replayDue, waking, storing, stalled, pump, mailboxPumps>>
      /\ HeadChanges /\ rows' >= 0 /\ rows > 0 /\ (claim' = "none" \/ rows' = rows)
  BY <1>0 DEF OtherClaims, HeadLeaves, session, senders, ScalarsTyped
<1>2. ScalarsTyped'
  <2>1. FlagsTyped'
    BY <1>0, Zenon DEF OtherClaims, HeadLeaves, session, ScalarsTyped, FlagsTyped
  <2>2. /\ UNCHANGED <<owner, waking, storing, sent, renewals, faults>>
        /\ rows' = rows \/ rows' = rows - 1
        /\ others' = others \/ (others < MaxOthers /\ others' = others + 1)
        /\ claim' \in {"none", "other"}
    BY DEF OtherClaims, HeadLeaves, session, senders
  <2> QED  BY <1>0, <1>1, <2>1, <2>2, PumpBounds DEF ScalarsTyped
<1>3. batch' = [q \in Pumps |-> [batch[q] EXCEPT !.head = FALSE]]
  BY <1>1 DEF HeadChanges
<1>4. \A q \in Pumps : batch[q] \in Batch
  BY <1>0 DEF LoopInv, LoopTyped
<1>5. /\ \A q \in Pumps : /\ batch'[q] \in Batch /\ ~batch'[q].head
                          /\ batch'[q].pc = batch[q].pc
                          /\ batch'[q].socket = batch[q].socket
                          /\ batch'[q].fresh <=> batch[q].fresh
      /\ batch' \in [Pumps -> Batch]
  BY <1>3, <1>4 DEF Batch
<1>6. LoopTyped' /\ OnePump'
  BY <1>0, <1>1, <1>5 DEF LoopInv, LoopTyped, OnePump
<1>7. FieldsInv' /\ FreshInv'
  BY <1>0, <1>1, <1>5 DEF LoopInv, FieldsInv, FreshInv
<1>8. ClaimsInv'
  BY <1>1, <1>5 DEF ClaimsInv, At
<1>9. NeverForgotten'
  BY <1>0, <1>1, <1>5 DEF NeverForgotten, At
<1> QED  BY <1>2, <1>6, <1>7, <1>8, <1>9, Parts DEF LoopInv

\* A new subscription has a replay request to come; without one nobody is
\* promised anything.
LEMMA SubscriptionsKeep ==
  ASSUME IInv, Release \/ \E s \in Sockets : Subscribe(s)
  PROVE  IInv'
<1>0. LoopInv /\ NeverForgotten /\ ClaimsInv /\ ScalarsTyped
  BY Parts
<1> USE DEF mailbox, senders, session, pumping
<1>1. ASSUME owner # None, EndSubscription, owner' = None => ~replayDue'
      PROVE  /\ LoopInv' /\ waking' = 0
             /\ rows' = rows /\ claim' = claim => ClaimsInv'
  <2>1. /\ LoopInv'
        /\ waking' = 0
        /\ \A q \in Pumps : batch'[q].head => batch[q].head
        /\ \A q \in Pumps : batch'[q].pc = batch[q].pc
    BY <1>0, <1>1, EndSubscriptionKeeps
  <2> QED  BY <1>0, <2>1 DEF ClaimsInv, At
<1>2. CASE Release
  <2>1. ScalarsTyped'
    <3>1. FlagsTyped'
      BY <1>0, <1>2, Zenon DEF Release, ScalarsTyped, FlagsTyped
    <3>2. waking' = 0 /\ owner' = None
      BY <1>1, <1>2 DEF Release
    <3> QED  BY <1>0, <1>2, <3>1, <3>2 DEF Release, ScalarsTyped
  <2>2. LoopInv' /\ ClaimsInv'
    BY <1>1, <1>2 DEF Release
  <2> QED  BY <1>2, <2>1, <2>2, Parts DEF Release, NeverForgotten
<1>3. ASSUME NEW s \in Sockets, Subscribe(s)
      PROVE  IInv'
  <2>1. /\ owner' = s /\ s # None /\ replayDue' /\ rows' = rows /\ claim' = claim
        /\ renewals' \in 0..MaxRenewals
    BY <1>0, <1>3, PumpBounds DEF Subscribe, ScalarsTyped
  <2>2. CASE owner # None
    <3>1. LoopInv' /\ ClaimsInv' /\ waking' = 0
      BY <1>1, <1>3, <2>1, <2>2 DEF Subscribe
    <3>2. FlagsTyped'
      BY <1>0, <1>3, Zenon DEF Subscribe, ScalarsTyped, FlagsTyped
    <3>3. ScalarsTyped'
      BY <1>0, <1>3, <2>1, <3>1, <3>2 DEF Subscribe, ScalarsTyped
    <3> QED  BY <2>1, <3>1, <3>3, Parts DEF NeverForgotten
  <2>3. CASE owner = None
    <3>1. LoopInv' /\ ClaimsInv'
      BY <1>0, <1>3, <2>1, <2>3 DEF Subscribe, LoopInv, LoopTyped, OnePump, FieldsInv, FreshInv,
                                    ClaimsInv, At
    <3>2. FlagsTyped'
      BY <1>0, <1>3, Zenon DEF Subscribe, ScalarsTyped, FlagsTyped
    <3>3. ScalarsTyped'
      BY <1>0, <1>3, <2>1, <2>3, <3>2 DEF Subscribe, ScalarsTyped
    <3> QED  BY <2>1, <3>1, <3>3, Parts DEF NeverForgotten
  <2> QED  BY <2>2, <2>3
<1> QED  BY <1>2, <1>3

----------------------------------------------------------------------------
(* The theorems.                                                           *)

\* Nothing is stored, subscribed or running at first.
LEMMA InitHolds == Init => IInv
<1> SUFFICES ASSUME Init PROVE IInv
  OBVIOUS
<1>1. NewPump \in Pump /\ NoBatch \in Batch
  BY PumpBounds DEF NewPump, Pump, NoBatch, Batch, BatchPCs
<1>2. ScalarsTyped
  <2>1. FlagsTyped
    BY Zenon DEF Init, FlagsTyped
  <2> QED  BY <2>1, PumpBounds DEF Init, ScalarsTyped
<1>3. LoopTyped
  BY <1>1 DEF Init, LoopTyped
<1>4. OnePump /\ FieldsInv /\ FreshInv
  BY DEF Init, OnePump, FieldsInv, FreshInv, NewPump, NoBatch
<1>5. ClaimsInv /\ NeverForgotten
  BY DEF Init, ClaimsInv, NeverForgotten, At, NoBatch
<1> QED  BY <1>2, <1>3, <1>4, <1>5, Parts DEF LoopInv

\* Every step of the scheduler keeps the invariant.
LEMMA NextKeeps == IInv /\ [Next]_vars => IInv'
<1> SUFFICES ASSUME IInv, [Next]_vars PROVE IInv'
  OBVIOUS
<1>1. CASE UNCHANGED vars
  <2>1. UNCHANGED <<rows, claim, leased, sent, storing, waking, owner, replayDue, pump, batch,
                    mailboxPumps, stalled, renewals, faults, others>>
    BY <1>1 DEF vars, mailbox, senders, session, pumping
  <2> QED
    BY <2>1 DEF IInv, TypeOK, OnePump, ClaimsInv, FieldsInv, FreshInv, NeverForgotten, At
<1>2. CASE Next
  BY <1>2, QuietStepsKeep, FindKeeps, ClaimKeeps, SettleKeeps, TimerKeeps, RequestsKeep,
     SendersKeep, HeadsKeep, SubscriptionsKeep DEF Next, PumpStep
<1> QED  BY <1>1, <1>2

\* The inductive invariant: the fields of the pumps, their batches and the
\* subscription they hold agree as startMailboxPump, cancelMailboxPump and
\* deliverMuxMailboxBatch assume.
THEOREM PumpInvariant == Spec => []IInv
  BY InitHolds, NextKeeps, PTL DEF Spec

\* Type correctness; rows never go below zero, whoever settles them.
THEOREM PumpTypeCorrect == Spec => []TypeOK
<1>1. IInv => TypeOK
  BY DEF IInv
<1> QED  BY <1>1, PumpInvariant, PTL

\* A mailbox never has two delivery loops, and the map always holds the one
\* it has (multiplexed.ts:352-402).
THEOREM OnePumpAlways == Spec => []OnePump
<1>1. IInv => OnePump
  BY DEF IInv
<1> QED  BY <1>1, PumpInvariant, PTL

\* No wake-up is lost but to a failed read: with a subscriber there, somebody
\* is about to look at every deliverable row (multiplexed.ts:252-402).
THEOREM NeverForgottenAlways == Spec => []NeverForgotten
<1>1. IInv => NeverForgotten
  BY DEF IInv
<1> QED  BY <1>1, PumpInvariant, PTL
=============================================================================
