------------------------ MODULE OfflineMailboxProofs ------------------------
(***************************************************************************)
(* Proofs that the mailbox keeps its promises for every number of          *)
(* envelopes, submissions, workers, leases and slots.                      *)
(***************************************************************************)
EXTENDS OfflineMailbox, TLAPS, FiniteSetTheorems, FunctionTheorems

USE DEF NoId, NoClaim, NoSlot

----------------------------------------------------------------------------
(* Type correctness.                                                       *)

\* The bounds and the ways of sending, in the form the steps need.
LEMMA BoundsFacts ==
  /\ MaxAttempts \in Nat /\ MaxClaims \in Nat /\ Slots \in Nat /\ Slots > 0
  /\ NoRow \in Row
  /\ \A pc \in AttemptPCs, e \in Envelopes, via \in {"live", "mailbox", "mux"} :
       NewAttempt(pc, e, via) \in Attempt
  /\ IdleWorker \in Worker
  /\ \A a \in Attempts, s \in 0..(Slots - 1) : NewRow(a, s) \in Row
  /\ \A a \in Attempts : NewRow(a, NoSlot) \in Row
  /\ \A r \in Row, c \in Claims \cup {NoClaim} : Tombstone(r, c) \in Row
<1>1. MaxAttempts \in Nat /\ MaxClaims \in Nat /\ Slots \in Nat /\ Slots > 0
  BY BoundsAssumption
<1>2. NoRow \in Row
  BY <1>1 DEF Row, NoRow, RowStates
<1>3. \A pc \in AttemptPCs, e \in Envelopes, via \in {"live", "mailbox", "mux"} :
        NewAttempt(pc, e, via) \in Attempt
  BY <1>1 DEF NewAttempt, Attempt, Acks
<1>4. IdleWorker \in Worker
  BY DEF IdleWorker, Worker, WorkerPCs
<1>5. \A a \in Attempts, s \in 0..(Slots - 1) : NewRow(a, s) \in Row
  BY <1>1 DEF Row, RowStates, NewRow
<1>6. \A a \in Attempts : NewRow(a, NoSlot) \in Row
  BY <1>1 DEF Row, RowStates, NewRow
<1>7. \A r \in Row, c \in Claims \cup {NoClaim} : Tombstone(r, c) \in Row
  BY <1>1 DEF Row, RowStates, Tombstone
<1> QED  BY <1>1, <1>2, <1>3, <1>4, <1>5, <1>6, <1>7

\* Handler a, and no other, moves: to the record r.
Moves(a, r) ==
  /\ r \in Attempt
  /\ attempt' \in [Attempts -> Attempt]
  /\ attempt'[a] = r
  /\ \A b \in Attempts \ {a} : attempt'[b] = attempt[b]

\* An acknowledged handler is done and holds nothing.
LEMMA FinishMoves ==
  ASSUME TypeOK, NEW a \in Attempts, NEW ack \in Acks, Finish(a, ack)
  PROVE  \E r \in Attempt : /\ Moves(a, r)
                            /\ r.env = attempt[a].env /\ r.pc = "done" /\ r.ack = ack
<1>1. PICK q \in Attempt : q = NewAttempt("done", attempt[a].env, "mailbox")
  BY BoundsFacts DEF TypeOK, Attempt, AttemptPCs
<1>2. [q EXCEPT !.ack = ack] \in Attempt
  BY DEF Attempt
<1>3. /\ [q EXCEPT !.ack = ack].env = attempt[a].env
      /\ [q EXCEPT !.ack = ack].pc = "done"
      /\ [q EXCEPT !.ack = ack].ack = ack
  BY <1>1 DEF Attempt, NewAttempt
<1>4. attempt' = [attempt EXCEPT ![a] = [q EXCEPT !.ack = ack]]
  BY <1>1 DEF Finish
<1> QED  BY <1>2, <1>3, <1>4 DEF Moves, TypeOK

\* A handler that only moves its program counter keeps its locals.
LEMMA GotoMoves ==
  ASSUME TypeOK, NEW a \in Attempts, NEW pc \in AttemptPCs, Goto(a, pc)
  PROVE  \E r \in Attempt : /\ Moves(a, r)
                            /\ r.env = attempt[a].env /\ r.pc = pc
                            /\ r.ack = attempt[a].ack /\ r.sid = attempt[a].sid
<1>1. attempt[a] \in Attempt
  BY DEF TypeOK
<1>2. PICK r : r = [attempt[a] EXCEPT !.pc = pc]
  OBVIOUS
<1>3. r \in Attempt
  BY <1>1, <1>2 DEF Attempt
<1>4. /\ r.env = attempt[a].env /\ r.pc = pc
      /\ r.ack = attempt[a].ack /\ r.sid = attempt[a].sid
  BY <1>1, <1>2 DEF Attempt
<1>5. attempt' = [attempt EXCEPT ![a] = r]
  BY <1>2 DEF Goto
<1> QED  BY <1>3, <1>4, <1>5 DEF Moves, TypeOK

\* A handler that remembers a row id keeps its envelope and its branch.
LEMMA HoldMoves ==
  ASSUME TypeOK, NEW a \in Attempts, NEW pc \in AttemptPCs, NEW s \in Attempts \cup {NoId},
         Hold(a, pc, s)
  PROVE  \E r \in Attempt : /\ Moves(a, r)
                            /\ r.env = attempt[a].env /\ r.pc = pc
                            /\ r.ack = attempt[a].ack /\ r.sid = s
<1>1. attempt[a] \in Attempt
  BY DEF TypeOK
<1>2. PICK q : q = [attempt[a] EXCEPT !.pc = pc]
  OBVIOUS
<1>3. q \in Attempt
  BY <1>1, <1>2 DEF Attempt
<1>4. PICK r : r = [q EXCEPT !.sid = s]
  OBVIOUS
<1>5. r \in Attempt
  BY <1>3, <1>4 DEF Attempt
<1>6. /\ r.env = attempt[a].env /\ r.pc = pc
      /\ r.ack = attempt[a].ack /\ r.sid = s
  BY <1>1, <1>2, <1>3, <1>4 DEF Attempt
<1>7. attempt' = [attempt EXCEPT ![a] = r]
  BY <1>2, <1>4 DEF Hold
<1> QED  BY <1>5, <1>6, <1>7 DEF Moves, TypeOK

\* A handler that tries a slot keeps its envelope and its branch.
LEMMA TryMoves ==
  ASSUME TypeOK, NEW a \in Attempts, NEW s \in 0..(Slots - 1), NEW n \in 0..Slots,
         Try(a, s, n)
  PROVE  \E r \in Attempt : /\ Moves(a, r)
                            /\ r.env = attempt[a].env /\ r.pc = "insert"
                            /\ r.ack = attempt[a].ack
<1>1. attempt[a] \in Attempt
  BY DEF TypeOK
<1>2. PICK p : p = [attempt[a] EXCEPT !.pc = "insert"]
  OBVIOUS
<1>3. p \in Attempt
  BY <1>1, <1>2 DEF Attempt, AttemptPCs
<1>4. PICK q : q = [p EXCEPT !.slot = s]
  OBVIOUS
<1>5. q \in Attempt
  BY <1>3, <1>4 DEF Attempt
<1>6. PICK r : r = [q EXCEPT !.left = n]
  OBVIOUS
<1>7. r \in Attempt
  BY <1>5, <1>6 DEF Attempt
<1>8. r.env = attempt[a].env /\ r.pc = "insert" /\ r.ack = attempt[a].ack
  BY <1>1, <1>2, <1>3, <1>4, <1>5, <1>6 DEF Attempt
<1>9. attempt' = [attempt EXCEPT ![a] = r]
  BY <1>2, <1>4, <1>6 DEF Try
<1> QED  BY <1>7, <1>8, <1>9 DEF Moves, TypeOK

\* What each outcome of storing leaves: a finished handler that may say so,
\* or one about to re-count.
LEMMA ReturnMoves ==
  ASSUME TypeOK, NEW a \in Attempts, NEW q \in Row, ReturnStored(a, q),
         attempt[a].ack = "none"
  PROVE  \E r \in Attempt :
           /\ Moves(a, r) /\ r.env = attempt[a].env
           /\ q.state # "none"
           /\ \/ r.pc = "done" /\ r.ack = "terminal" /\ q.state = "rejected"
              \/ r.pc = "done" /\ r.ack = "stored"
              \/ r.pc = "count" /\ r.ack = "none"
<1>1. CASE q.state = "rejected" /\ Finish(a, "terminal")
  BY <1>1, FinishMoves DEF Acks
<1>2. CASE q.state = "active" /\ Finish(a, "stored")
  BY <1>2, FinishMoves DEF Acks
<1>3. CASE q.state = "active" /\ Hold(a, "count", q.id)
  <2>1. q.id \in Attempts \cup {NoId} /\ "count" \in AttemptPCs
    BY DEF Row, AttemptPCs
  <2>2. \E r \in Attempt : /\ Moves(a, r)
                           /\ r.env = attempt[a].env /\ r.pc = "count"
                           /\ r.ack = "none" /\ r.sid = q.id
    BY <1>3, <2>1, HoldMoves
  <2> QED  BY <1>3, <2>2
<1> QED  BY <1>1, <1>2, <1>3 DEF ReturnStored

----------------------------------------------------------------------------
(* A sending handler moves on without touching anything else.              *)

\* What handler a may become, given what the collection holds afterwards.
HandlerGoes(a) ==
  /\ attempt[a].pc \notin {"idle", "done"}
  /\ \E r \in Attempt :
       /\ Moves(a, r)
       /\ r.env = attempt[a].env
       /\ r.pc \notin {"idle", "liveAccepted"}
       /\ attempt[a].pc = "count" => r.pc = "done"
       /\ r.ack # "none" => r.pc = "done"
       /\ r.ack = "accepted" => r.env \in applied
       /\ r.ack = "stored" => Kept(r.env)'
       /\ r.pc = "count" => Kept(r.env)'
       /\ r.ack = "terminal" => row'[r.env].state = "rejected" \/ r.env \in applied \cup lapsed
       /\ r.pc = "recordUpdate" => row'[r.env].state # "none" /\ row'[r.env].id = r.sid

\* Nothing but the handler and perhaps the rows changes, except that an old
\* rejection may be told again.
OthersUnchanged ==
  /\ UNCHANGED <<started, ahead, worker, claims, wire, applied, lapsed>>
  /\ settled \subseteq settled' /\ settled' \subseteq Verdict
  /\ \A t \in settled' \ settled :
       t.claim = NoClaim /\ t.verdict = "rejected" /\ t.id <= started

\* The usual case: no verdict is told.
LEMMA NothingTold ==
  ASSUME IInv, UNCHANGED <<started, ahead, worker, claims, wire, applied, settled, lapsed>>
  PROVE  OthersUnchanged
BY DEF IInv, TypeOK, OthersUnchanged

\* mux-send-message tells its sender of an old tombstone.
LEMMA ToldAgain ==
  ASSUME IInv, NEW a \in Attempts, row[attempt[a].env].state = "rejected",
         Notify(row[attempt[a].env].id, NoClaim, "rejected"),
         UNCHANGED <<started, ahead, worker, claims, wire, applied, lapsed>>
  PROVE  OthersUnchanged
<1>1. attempt[a].env \in Envelopes
  BY DEF IInv, TypeOK, Attempt
<1>2. PICK id : id = row[attempt[a].env].id
  OBVIOUS
<1>3. id \in Attempts /\ ~Unstored(id)
  BY <1>1, <1>2 DEF IInv, RowsInv
<1>4. id <= started
  <2>1. started \in Nat /\ id \in Nat /\ attempt[id].pc # "idle"
    BY <1>3, BoundsFacts DEF Unstored, IInv, TypeOK, Attempts
  <2> QED  BY <1>3, <2>1 DEF IInv, HandlersInv
<1>5. CASE settled' = settled
  BY <1>5, NothingTold
<1>6. CASE settled' = settled \cup {[id |-> id, claim |-> NoClaim, verdict |-> "rejected"]}
  <2>1. [id |-> id, claim |-> NoClaim, verdict |-> "rejected"] \in Verdict
    BY <1>3 DEF Verdict
  <2> QED  BY <1>4, <1>6, <2>1 DEF IInv, TypeOK, OthersUnchanged
<1> QED  BY <1>2, <1>5, <1>6 DEF Notify

\* The sending steps that only read the collection.
LEMMA ReadersGo ==
  ASSUME IInv, NEW a \in Attempts,
         \/ LiveVerdict(a) \/ LiveUndelivered(a) \/ Record(a) \/ RecordRecheck(a)
         \/ Lookup(a) \/ InsertThrows(a) \/ Recheck(a) \/ HandlerError(a) \/ RecordError(a)
  PROVE  HandlerGoes(a) /\ row' = row /\ OthersUnchanged
<1>1. TypeOK /\ AcksInv
  BY DEF IInv
<1>2. attempt[a] \in Attempt /\ attempt[a].env \in Envelopes /\ row[attempt[a].env] \in Row
  BY <1>1 DEF TypeOK, Attempt
<1>3. attempt[a].pc # "done" => attempt[a].ack = "none"
  BY <1>1 DEF AcksInv
<1>4. row' = row /\ OthersUnchanged
  <2>1. UNCHANGED <<row, started, ahead, worker, claims, wire, applied, lapsed>>
    BY DEF LiveVerdict, LiveUndelivered, Record, RecordRecheck, Lookup,
           InsertThrows, Recheck, HandlerError, RecordError, recipient
  <2>2. \/ settled' = settled
        \/ /\ row[attempt[a].env].state = "rejected"
           /\ Notify(row[attempt[a].env].id, NoClaim, "rejected")
    BY DEF LiveVerdict, LiveUndelivered, Record, RecordRecheck, Lookup, ReturnStored,
           InsertThrows, Recheck, HandlerError, RecordError
  <2> QED  BY <2>1, <2>2, NothingTold, ToldAgain
<1>5. SUFFICES HandlerGoes(a)
  BY <1>4
<1>6. ASSUME NEW r \in Row, r = row[attempt[a].env], attempt[a].pc \in {"lookup", "recheck"},
             ReturnStored(a, r)
      PROVE  HandlerGoes(a)
  <2>1. PICK q \in Attempt :
           /\ Moves(a, q) /\ q.env = attempt[a].env
           /\ r.state # "none"
           /\ \/ q.pc = "done" /\ q.ack = "terminal" /\ r.state = "rejected"
              \/ q.pc = "done" /\ q.ack = "stored"
              \/ q.pc = "count" /\ q.ack = "none"
    BY <1>1, <1>3, <1>6, ReturnMoves
  <2> QED  BY <1>4, <1>6, <2>1 DEF HandlerGoes, Kept
<1>7. ASSUME NEW pc \in {"record", "lookup", "recordInsert", "recheck"},
             attempt[a].pc \notin {"idle", "done", "count"}, Goto(a, pc)
      PROVE  HandlerGoes(a)
  <2>1. PICK q \in Attempt :
           /\ Moves(a, q)
           /\ q.env = attempt[a].env /\ q.pc = pc
           /\ q.ack = attempt[a].ack /\ q.sid = attempt[a].sid
    BY <1>1, <1>7, GotoMoves DEF AttemptPCs
  <2> QED  BY <1>3, <1>7, <2>1 DEF HandlerGoes
<1>8. ASSUME NEW ack \in {"accepted", "terminal", "error"}, Finish(a, ack),
             attempt[a].pc \notin {"idle", "done"},
             ack = "accepted" => attempt[a].env \in applied,
             ack = "terminal" => row[attempt[a].env].state = "rejected"
      PROVE  HandlerGoes(a)
  <2>1. PICK q \in Attempt :
           /\ Moves(a, q)
           /\ q.env = attempt[a].env /\ q.pc = "done" /\ q.ack = ack
    BY <1>1, <1>8, FinishMoves DEF Acks
  <2> QED  BY <1>4, <1>8, <2>1 DEF HandlerGoes
<1>9. CASE LiveVerdict(a)
  BY <1>1, <1>7, <1>8, <1>9 DEF LiveVerdict, AcksInv, EnvelopeOf
<1>10. CASE LiveUndelivered(a)
  BY <1>7, <1>10 DEF LiveUndelivered
<1>11. CASE Record(a)
  <2>1. CASE Hold(a, "recordUpdate", row[attempt[a].env].id) /\ row[attempt[a].env].state = "active"
    <3>1. row[attempt[a].env].id \in Attempts \cup {NoId} /\ "recordUpdate" \in AttemptPCs
      BY <1>2 DEF Row, AttemptPCs
    <3>2. PICK q \in Attempt :
           /\ Moves(a, q)
           /\ q.env = attempt[a].env /\ q.pc = "recordUpdate"
           /\ q.ack = attempt[a].ack /\ q.sid = row[attempt[a].env].id
      BY <1>1, <2>1, <3>1, HoldMoves
    <3> QED  BY <1>3, <1>4, <1>11, <2>1, <3>2 DEF HandlerGoes, Record
  <2> QED  BY <1>7, <1>8, <1>11, <2>1 DEF Record
<1>12. CASE RecordRecheck(a)
  BY <1>7, <1>8, <1>12 DEF RecordRecheck
<1>13. ASSUME NEW s \in 0..(Slots - 1), NEW n \in 0..Slots, Try(a, s, n),
              attempt[a].pc \in {"lookup", "recheck"}
       PROVE  HandlerGoes(a)
  <2>1. PICK q \in Attempt :
           /\ Moves(a, q)
           /\ q.env = attempt[a].env /\ q.pc = "insert" /\ q.ack = attempt[a].ack
    BY <1>1, <1>13, TryMoves
  <2> QED  BY <1>3, <1>13, <2>1 DEF HandlerGoes
<1>14. CASE Lookup(a)
  <2>1. Slots \in 0..Slots
    BY BoundsFacts
  <2> QED  BY <1>2, <1>6, <1>13, <1>14, <2>1 DEF Lookup
<1>15. CASE InsertThrows(a)
  BY <1>7, <1>15 DEF InsertThrows
<1>16. CASE Recheck(a)
  <2>1. CASE attempt[a].left > 1 /\ Try(a, (attempt[a].slot + 1) % Slots, attempt[a].left - 1)
    <3>1. /\ (attempt[a].slot + 1) % Slots \in 0..(Slots - 1)
          /\ attempt[a].left - 1 \in 0..Slots
      BY <1>2, <2>1, BoundsFacts DEF Attempt
    <3> QED  BY <1>13, <1>16, <2>1, <3>1 DEF Recheck
  <2>2. CASE ReturnStored(a, row[attempt[a].env])
    BY <1>2, <1>6, <1>16, <2>2 DEF Recheck
  <2>3. CASE Finish(a, "error")
    BY <1>8, <1>16, <2>3 DEF Recheck
  <2> QED  BY <1>16, <2>1, <2>2, <2>3 DEF Recheck
<1>17. CASE HandlerError(a)
  BY <1>8, <1>17 DEF HandlerError
<1>18. CASE RecordError(a)
  BY <1>7, <1>18 DEF RecordError
<1> QED  BY <1>9, <1>10, <1>11, <1>12, <1>14, <1>15, <1>16, <1>17, <1>18

\* A row stays, under its id and rejected if it was, unless its envelope has
\* been committed or has lived out its time.
RowsSteady ==
  \A e \in Envelopes :
    row[e].state # "none" =>
      \/ /\ row'[e].state # "none" /\ row'[e].id = row[e].id
         /\ row[e].state = "rejected" => row'[e].state = "rejected"
      \/ e \in applied \cup lapsed

\* A handler's move keeps what does not depend on the rows in detail.
LEMMA HandlerKeeps ==
  ASSUME IInv, NEW a \in Attempts, HandlerGoes(a), OthersUnchanged, RowsSteady,
         row' \in [Envelopes -> Row]
  PROVE  /\ TypeOK' /\ HandlersInv' /\ WorkersInv' /\ WireInv' /\ AcksInv'
         /\ StoredIsKept' /\ AcceptedIsApplied' /\ TerminalIsRemembered' /\ OneVerdict'
         /\ \A b \in Attempts : /\ attempt'[b].env = attempt[b].env
                                /\ Unstored(b)' => Unstored(b)
<1>1. PICK r \in Attempt :
       /\ Moves(a, r)
       /\ r.env = attempt[a].env
       /\ r.pc \notin {"idle", "liveAccepted"}
       /\ attempt[a].pc = "count" => r.pc = "done"
       /\ r.ack # "none" => r.pc = "done"
       /\ r.ack = "accepted" => r.env \in applied
       /\ r.ack = "stored" => Kept(r.env)'
       /\ r.pc = "count" => Kept(r.env)'
       /\ r.ack = "terminal" => row'[r.env].state = "rejected" \/ r.env \in applied \cup lapsed
       /\ r.pc = "recordUpdate" => row'[r.env].state # "none" /\ row'[r.env].id = r.sid
  BY DEF HandlerGoes
<1>2. attempt[a].pc \notin {"idle", "done"}
  BY DEF HandlerGoes
<1>3. /\ attempt' \in [Attempts -> Attempt]
      /\ attempt'[a] = r
      /\ \A b \in Attempts \ {a} : attempt'[b] = attempt[b]
  BY <1>1 DEF Moves
<1>4. \A b \in Attempts : /\ attempt'[b].env = attempt[b].env
                          /\ Unstored(b)' => Unstored(b)
  BY <1>1, <1>2, <1>3 DEF Unstored
<1>5. \A b \in Attempts : attempt[b].env \in Envelopes
  BY DEF IInv, TypeOK, Attempt
<1>6. \A b \in Attempts : EnvelopeOf(b)' = EnvelopeOf(b) /\ EnvelopeOf(b) \in Envelopes
  BY <1>4, <1>5 DEF EnvelopeOf
<1>7. /\ UNCHANGED <<started, ahead, worker, claims, wire, applied, lapsed>>
      /\ settled \subseteq settled' /\ settled' \subseteq Verdict
      /\ \A t \in settled' \ settled :
           t.claim = NoClaim /\ t.verdict = "rejected" /\ t.id <= started
  BY DEF OthersUnchanged
<1>8. \A e \in Envelopes : Kept(e) => Kept(e)'
  BY <1>7 DEF Kept, RowsSteady
<1>9. TypeOK'
  BY <1>3, <1>7 DEF IInv, TypeOK
<1>10. HandlersInv'
  BY <1>1, <1>2, <1>3, <1>7 DEF IInv, HandlersInv
<1>11. WorkersInv'
  BY <1>4, <1>6, <1>7 DEF IInv, WorkersInv
<1>12. WireInv'
  <2>1. \A m \in wire : m.id \in Attempts
    BY DEF IInv, TypeOK, Event
  <2> QED  BY <1>4, <1>6, <1>7, <2>1 DEF IInv, WireInv
<1>13. AcksInv'
  <2>1. SUFFICES ASSUME NEW b \in Attempts
        PROVE  (/\ attempt[b].pc = "liveAccepted" => EnvelopeOf(b) \in applied
                /\ attempt[b].pc = "count" => Kept(EnvelopeOf(b))
                /\ attempt[b].pc = "recordUpdate" =>
                     \/ row[EnvelopeOf(b)].state # "none" /\ row[EnvelopeOf(b)].id = attempt[b].sid
                     \/ EnvelopeOf(b) \in applied
                     \/ EnvelopeOf(b) \in lapsed
                /\ attempt[b].ack # "none" => attempt[b].pc = "done")'
    BY DEF AcksInv
  <2>2. CASE b = a
    BY <1>1, <1>3, <1>7, <2>2 DEF EnvelopeOf
  <2>3. CASE b # a
    BY <1>3, <1>6, <1>7, <1>8, <2>3 DEF IInv, AcksInv, RowsSteady
  <2> QED  BY <2>2, <2>3
<1>14. StoredIsKept'
  <2>1. SUFFICES ASSUME NEW b \in Attempts, attempt'[b].ack = "stored"
        PROVE  Kept(attempt[b].env)'
    BY <1>4 DEF StoredIsKept, Kept
  <2>2. CASE b = a
    BY <1>1, <1>3, <1>4, <2>1, <2>2
  <2>3. CASE b # a
    BY <1>3, <1>4, <1>5, <1>8, <2>1, <2>3 DEF IInv, StoredIsKept, Kept
  <2> QED  BY <2>2, <2>3
<1>15. AcceptedIsApplied'
  <2>1. \A t \in settled : t.id \in Attempts
    BY DEF IInv, TypeOK, Verdict
  <2> QED  BY <1>1, <1>3, <1>4, <1>7, <2>1 DEF IInv, AcceptedIsApplied
<1>16. TerminalIsRemembered'
  BY <1>1, <1>3, <1>4, <1>5, <1>7 DEF IInv, TerminalIsRemembered, RowsSteady
<1>17. OneVerdict'
  BY <1>7 DEF IInv, OneVerdict
<1> QED  BY <1>4, <1>9, <1>10, <1>11, <1>12, <1>13, <1>14, <1>15, <1>16, <1>17

\* Steps that only read the collection keep the whole invariant.
LEMMA ReadersKeep ==
  ASSUME IInv, NEW a \in Attempts, HandlerGoes(a), OthersUnchanged, row' = row
  PROVE  IInv'
<1>1. RowsSteady /\ row' \in [Envelopes -> Row]
  BY DEF RowsSteady, IInv, TypeOK
<1>2. /\ TypeOK' /\ HandlersInv' /\ WorkersInv' /\ WireInv' /\ AcksInv'
      /\ StoredIsKept' /\ AcceptedIsApplied' /\ TerminalIsRemembered' /\ OneVerdict'
  BY <1>1, HandlerKeeps
<1>3. \A b \in Attempts : attempt'[b].env = attempt[b].env /\ (Unstored(b)' => Unstored(b))
  BY <1>1, HandlerKeeps
<1>4. /\ UNCHANGED <<started, ahead, worker, claims, wire, applied, lapsed>>
      /\ settled \subseteq settled' /\ settled' \subseteq Verdict
      /\ \A t \in settled' \ settled :
           t.claim = NoClaim /\ t.verdict = "rejected" /\ t.id <= started
  BY DEF OthersUnchanged
<1>5. RowsInv'
  BY <1>3, <1>4 DEF IInv, RowsInv, EnvelopeOf
<1>6. SlotsInv' /\ CausalFifo'
  BY <1>4 DEF IInv, SlotsInv, CausalFifo, Active, Deliverable
<1>7. SettledInv'
  <2>1. \A t \in settled : t.id \in Attempts
    BY DEF IInv, TypeOK, Verdict
  <2> QED  BY <1>3, <1>4, <2>1 DEF IInv, SettledInv
<1>8. FifoInv'
  <2>1. \A b \in Attempts : ahead[b] \subseteq Attempts
    BY DEF IInv, TypeOK
  <2> QED  BY <1>3, <1>4, <2>1 DEF IInv, FifoInv, Deliverable, Active
<1> QED  BY <1>2, <1>5, <1>6, <1>7, <1>8 DEF IInv

\* A row enters the collection under the id of a handler that had not stored.
LEMMA InsertKeeps ==
  ASSUME IInv, NEW a \in Attempts, HandlerGoes(a), OthersUnchanged,
         NEW q \in Row, row[attempt[a].env].state = "none",
         row' = [row EXCEPT ![attempt[a].env] = q],
         q.state # "none", q.id = a, q.claim = NoClaim, ~q.expired,
         q.state = "active" => q.slot < Slots /\ ~SlotTaken(q.slot),
         Unstored(a), ~Unstored(a)'
  PROVE  IInv'
<1> DEFINE e0 == attempt[a].env
<1>0. /\ e0 \in Envelopes /\ row'[e0] = q
      /\ \A e \in Envelopes : e # e0 => row'[e] = row[e]
      /\ row' \in [Envelopes -> Row]
  BY DEF IInv, TypeOK, Attempt
<1>1. RowsSteady
  BY <1>0 DEF RowsSteady
<1>2. /\ TypeOK' /\ HandlersInv' /\ WorkersInv' /\ WireInv' /\ AcksInv'
      /\ StoredIsKept' /\ AcceptedIsApplied' /\ TerminalIsRemembered' /\ OneVerdict'
  BY <1>0, <1>1, HandlerKeeps
<1>3. \A b \in Attempts : attempt'[b].env = attempt[b].env /\ (Unstored(b)' => Unstored(b))
  BY <1>0, <1>1, HandlerKeeps
<1>4. /\ UNCHANGED <<started, ahead, worker, claims, wire, applied, lapsed>>
      /\ settled \subseteq settled' /\ settled' \subseteq Verdict
      /\ \A t \in settled' \ settled :
           t.claim = NoClaim /\ t.verdict = "rejected" /\ t.id <= started
  BY DEF OthersUnchanged
<1>5. RowsInv'
  <2>1. SUFFICES ASSUME NEW e \in Envelopes
        PROVE (/\ row[e].state = "none" => row[e] = NoRow
               /\ row[e].state # "none" => /\ row[e].id \in Attempts
                                           /\ EnvelopeOf(row[e].id) = e
                                           /\ ~Unstored(row[e].id)
               /\ row[e].state = "rejected" => row[e].claim = NoClaim
               /\ row[e].state = "active" => row[e].slot < Slots
               /\ row[e].expired => e \in lapsed)'
    BY DEF RowsInv
  <2>2. CASE e = e0
    BY <1>0, <1>3, <1>4, <2>2 DEF EnvelopeOf
  <2>3. CASE e # e0
    <3>1. row'[e] = row[e]
      BY <1>0, <2>3
    <3>2. NoRow' = NoRow
      BY DEF NoRow
    <3> QED  BY <1>3, <1>4, <3>1, <3>2 DEF IInv, RowsInv, EnvelopeOf
  <2> QED  BY <2>2, <2>3
<1>6. SlotsInv'
  BY <1>0 DEF IInv, SlotsInv, Active, SlotTaken
<1>7. SettledInv'
  <2>1. \A t \in settled : t.id \in Attempts
    BY DEF IInv, TypeOK, Verdict
  <2> QED  BY <1>0, <1>3, <1>4, <2>1 DEF IInv, SettledInv
<1>8. FifoInv'
  <2>1. \A b \in Attempts : ahead[b] \subseteq Attempts
    BY DEF IInv, TypeOK
  <2>2. \A w \in Workers : worker[w].pc = "found" => worker[w].id \in Attempts
    BY DEF IInv, WorkersInv
  <2> QED  BY <1>0, <1>3, <1>4, <2>1, <2>2 DEF IInv, FifoInv, Deliverable, Active
<1>9. CausalFifo'
  <2>1. \A e \in Envelopes : row[e].state # "none" => row[e].id \in Attempts
    BY DEF IInv, RowsInv
  <2> QED  BY <1>0, <1>4, <2>1 DEF IInv, CausalFifo, FifoInv, Deliverable, Active
<1> QED  BY <1>2, <1>5, <1>6, <1>7, <1>8, <1>9 DEF IInv

\* storeOfflineMessage inserts a row.
LEMMA InsertStep == ASSUME IInv, NEW a \in Attempts, Insert(a) PROVE IInv'
<1> DEFINE q == NewRow(a, attempt[a].slot)
<1>1. /\ attempt[a] \in Attempt /\ attempt[a].pc = "insert" /\ attempt[a].ack = "none"
      /\ attempt[a].env \in Envelopes /\ attempt[a].slot \in 0..(Slots - 1)
  BY DEF IInv, TypeOK, AcksInv, Attempt, Insert
<1>2. q \in Row /\ q.state = "active" /\ q.id = a /\ q.claim = NoClaim /\ ~q.expired
      /\ q.slot = attempt[a].slot
  BY <1>1, BoundsFacts DEF NewRow
<1>3. row' = [row EXCEPT ![attempt[a].env] = q] /\ ~SlotTaken(q.slot)
      /\ row[attempt[a].env].state = "none"
  BY <1>2 DEF Insert
<1>9. OthersUnchanged
  <2>1. UNCHANGED <<started, ahead, worker, claims, wire, applied, settled, lapsed>>
    BY <1>2 DEF Insert, ReturnStored, recipient
  <2> QED  BY <2>1, NothingTold
<1>4. PICK r \in Attempt :
        /\ Moves(a, r) /\ r.env = attempt[a].env
        /\ q.state # "none"
        /\ \/ r.pc = "done" /\ r.ack = "terminal" /\ q.state = "rejected"
           \/ r.pc = "done" /\ r.ack = "stored"
           \/ r.pc = "count" /\ r.ack = "none"
  <2>1. ReturnStored(a, q) /\ TypeOK
    BY DEF Insert, IInv
  <2> HIDE DEF q
  <2> QED  BY <1>1, <1>2, <2>1, ReturnMoves
<1>5. row'[attempt[a].env] = q
  BY <1>1, <1>3 DEF IInv, TypeOK
<1>6. HandlerGoes(a)
  BY <1>1, <1>2, <1>4, <1>5 DEF HandlerGoes, Kept
<1>7. Unstored(a) /\ ~Unstored(a)'
  BY <1>1, <1>4 DEF Unstored, Moves
<1>8. q.slot < Slots
  BY <1>1, <1>2, BoundsFacts
<1> HIDE DEF q
<1> QED  BY <1>2, <1>3, <1>6, <1>7, <1>8, <1>9, InsertKeeps

\* recordOfflineRejection inserts a tombstone, or meets a conflict.
LEMMA RecordInsertStep == ASSUME IInv, NEW a \in Attempts, RecordInsert(a) PROVE IInv'
<1> DEFINE q == Tombstone(NewRow(a, NoSlot), NoClaim)
<1>0. TypeOK /\ attempt[a] \in Attempt /\ attempt[a].pc = "recordInsert" /\ attempt[a].ack = "none"
      /\ attempt[a].env \in Envelopes /\ OthersUnchanged
  BY DEF IInv, TypeOK, AcksInv, Attempt, RecordInsert, OthersUnchanged, recipient
<1>1. CASE Goto(a, "recordRecheck") /\ row' = row
  <2>1. PICK r \in Attempt :
           /\ Moves(a, r)
           /\ r.env = attempt[a].env /\ r.pc = "recordRecheck"
           /\ r.ack = attempt[a].ack /\ r.sid = attempt[a].sid
    BY <1>0, <1>1, GotoMoves DEF AttemptPCs
  <2>2. HandlerGoes(a)
    BY <1>0, <2>1 DEF HandlerGoes
  <2> QED  BY <1>0, <1>1, <2>2, ReadersKeep
<1>2. CASE /\ row[attempt[a].env].state = "none"
           /\ row' = [row EXCEPT ![attempt[a].env] = q]
           /\ Finish(a, "terminal")
  <2>1. q \in Row /\ q.state = "rejected" /\ q.id = a /\ q.claim = NoClaim /\ ~q.expired
    BY BoundsFacts DEF NewRow, Tombstone
  <2>2. PICK r \in Attempt : /\ Moves(a, r)
                             /\ r.env = attempt[a].env /\ r.pc = "done" /\ r.ack = "terminal"
    BY <1>0, <1>2, FinishMoves DEF Acks
  <2>3. row'[attempt[a].env] = q
    BY <1>0, <1>2 DEF TypeOK
  <2>4. HandlerGoes(a)
    BY <1>0, <2>1, <2>2, <2>3 DEF HandlerGoes
  <2>5. Unstored(a) /\ ~Unstored(a)'
    BY <1>0, <2>2 DEF Unstored, Moves
  <2> HIDE DEF q
  <2> QED  BY <1>0, <1>2, <2>1, <2>4, <2>5, InsertKeeps
<1> QED  BY <1>1, <1>2 DEF RecordInsert

----------------------------------------------------------------------------
(* Steps that add no row and take no lease.                                *)

\* No row is added or claimed; a rejected one stays as it is or goes.
RowsShrink ==
  \A e \in Envelopes :
    /\ row'[e].state = "none" => row'[e] = NoRow
    /\ row'[e].state # "none" => row[e].state # "none" /\ row'[e].id = row[e].id
    /\ row'[e].state = "rejected" => row'[e].claim = NoClaim
    /\ row'[e].state = "active" => /\ row[e].state = "active"
                                   /\ row'[e].slot = row[e].slot
                                   /\ row'[e].claim = row[e].claim
    /\ row'[e].expired => row[e].expired \/ e \in lapsed'
    /\ row[e].expired => row'[e].expired \/ row'[e].state = "none"
    /\ row[e].state = "rejected" /\ row'[e].state # "none" =>
         row'[e].state = "rejected" /\ row'[e].terminalClaim = row[e].terminalClaim

HandlersSteady ==
  /\ started' = started /\ ahead' = ahead
  /\ \A b \in Attempts : attempt'[b].env = attempt[b].env /\ (Unstored(b)' => Unstored(b))

\* No worker finds a row.
WorkersSteady ==
  \A w \in Workers :
    worker'[w].pc = "found" => worker[w].pc = "found" /\ worker'[w].id = worker[w].id

\* Steps that add no active row and take no lease keep rows, slots and order.
LEMMA ShrinkKeeps ==
  ASSUME IInv, RowsShrink, HandlersSteady, WorkersSteady, lapsed \subseteq lapsed'
  PROVE  RowsInv' /\ SlotsInv' /\ FifoInv' /\ CausalFifo'
<1>1. RowsInv'
  <2>1. SUFFICES ASSUME NEW e \in Envelopes
        PROVE (/\ row[e].state = "none" => row[e] = NoRow
               /\ row[e].state # "none" => /\ row[e].id \in Attempts
                                           /\ EnvelopeOf(row[e].id) = e
                                           /\ ~Unstored(row[e].id)
               /\ row[e].state = "rejected" => row[e].claim = NoClaim
               /\ row[e].state = "active" => row[e].slot < Slots
               /\ row[e].expired => e \in lapsed)'
    BY DEF RowsInv
  <2>2. NoRow' = NoRow
    BY DEF NoRow
  <2> QED  BY <2>2 DEF IInv, RowsInv, RowsShrink, HandlersSteady, EnvelopeOf
<1>2. SlotsInv'
  BY DEF IInv, SlotsInv, Active, RowsShrink
<1>3. \A e \in Envelopes : Deliverable(e)' => Deliverable(e) /\ row'[e].id = row[e].id
  BY DEF RowsShrink, Deliverable, Active
<1>4. FifoInv'
  <2>1. \A b \in Attempts : ahead[b] \subseteq Attempts
    BY DEF IInv, TypeOK
  <2> QED  BY <1>3, <2>1 DEF IInv, FifoInv, HandlersSteady, WorkersSteady
<1>5. CausalFifo'
  <2>1. \A e \in Envelopes : Active(e)' => /\ Active(e) /\ row'[e].id = row[e].id
                                           /\ row'[e].claim = row[e].claim
    BY DEF RowsShrink, Active
  <2> QED  BY <1>3, <2>1 DEF IInv, CausalFifo, HandlersSteady
<1> QED  BY <1>1, <1>2, <1>4, <1>5

\* Old verdicts stay final.
LEMMA ShrinkSettles ==
  ASSUME IInv, RowsShrink, HandlersSteady, NEW t \in settled
  PROVE  (/\ t.id <= started
          /\ t.claim # NoClaim =>
               /\ ~Unstored(t.id)
               /\ \A e \in Envelopes :
                    row[e].state # "none" /\ row[e].id = t.id =>
                      /\ t.verdict = "rejected"
                      /\ row[e].state = "rejected"
                      /\ row[e].terminalClaim = t.claim)'
<1>1. t.id \in Attempts
  BY DEF IInv, TypeOK, Verdict
<1>2. ~Unstored(t.id) => ~Unstored(t.id)'
  BY <1>1 DEF HandlersSteady
<1>3. ASSUME NEW e \in Envelopes, row'[e].state # "none", row'[e].id = t.id, t.claim # NoClaim
      PROVE  /\ t.verdict = "rejected"
             /\ row'[e].state = "rejected"
             /\ row'[e].terminalClaim = t.claim
  <2>1. row[e].state # "none" /\ row[e].id = t.id
    BY <1>3 DEF RowsShrink
  <2>2. t.verdict = "rejected" /\ row[e].state = "rejected" /\ row[e].terminalClaim = t.claim
    BY <1>3, <2>1 DEF IInv, SettledInv
  <2> QED  BY <1>3, <2>2 DEF RowsShrink
<1>4. t.id <= started' /\ (t.claim # NoClaim => ~Unstored(t.id))
  BY DEF IInv, SettledInv, HandlersSteady
<1> QED  BY <1>2, <1>3, <1>4

\* Such a step also keeps old verdicts final.
LEMMA ShrinkSettledInv ==
  ASSUME IInv, RowsShrink, HandlersSteady, settled' = settled
  PROVE  SettledInv' /\ OneVerdict'
<1>1. SettledInv'
  BY ShrinkSettles DEF SettledInv
<1> QED  BY <1>1 DEF IInv, OneVerdict

\* The handlers that have something to show keep it.
HandlersStay ==
  /\ HandlersSteady
  /\ \A b \in Attempts :
       /\ attempt'[b].ack = attempt[b].ack
       /\ attempt'[b].pc = "idle" <=> attempt[b].pc = "idle"
       /\ attempt[b].pc = "done" => attempt'[b].pc = "done"
       /\ attempt'[b].pc \in {"count", "recordUpdate"} => attempt'[b] = attempt[b]
       /\ attempt'[b].pc = "liveAccepted" =>
            attempt[b].pc = "liveAccepted" \/ attempt[b].env \in applied'

\* The acknowledgements already given still hold when no row is lost early.
LEMMA StayKeeps ==
  ASSUME IInv, HandlersStay, RowsSteady,
         applied \subseteq applied', lapsed \subseteq lapsed'
  PROVE  /\ HandlersInv' /\ AcksInv' /\ StoredIsKept' /\ TerminalIsRemembered'
         /\ \A b \in Attempts : attempt'[b].ack = "accepted" => attempt'[b].env \in applied'
         /\ \A t \in settled : t.verdict = "accepted" => attempt'[t.id].env \in applied'
<1>1. \A b \in Attempts : attempt[b].env \in Envelopes /\ EnvelopeOf(b)' = EnvelopeOf(b)
                          /\ EnvelopeOf(b) \in Envelopes
  BY DEF IInv, TypeOK, Attempt, EnvelopeOf, HandlersStay, HandlersSteady
<1>2. \A e \in Envelopes : Kept(e) => Kept(e)'
  BY DEF Kept, RowsSteady
<1>3. HandlersInv'
  BY DEF IInv, HandlersInv, HandlersStay, HandlersSteady
<1>4. AcksInv'
  <2>1. SUFFICES ASSUME NEW b \in Attempts
        PROVE  (/\ attempt[b].pc = "liveAccepted" => EnvelopeOf(b) \in applied
                /\ attempt[b].pc = "count" => Kept(EnvelopeOf(b))
                /\ attempt[b].pc = "recordUpdate" =>
                     \/ row[EnvelopeOf(b)].state # "none" /\ row[EnvelopeOf(b)].id = attempt[b].sid
                     \/ EnvelopeOf(b) \in applied
                     \/ EnvelopeOf(b) \in lapsed
                /\ attempt[b].ack # "none" => attempt[b].pc = "done")'
    BY DEF AcksInv
  <2>2. attempt'[b].pc = "liveAccepted" => EnvelopeOf(b)' \in applied'
    BY <1>1 DEF IInv, AcksInv, HandlersStay, EnvelopeOf
  <2>3. attempt'[b].pc = "count" => Kept(EnvelopeOf(b))'
    <3>1. Kept(EnvelopeOf(b)) => Kept(EnvelopeOf(b))'
      BY <1>1 DEF Kept, RowsSteady
    <3> QED  BY <3>1 DEF IInv, AcksInv, HandlersStay
  <2>4. attempt'[b].pc = "recordUpdate" =>
          (\/ row[EnvelopeOf(b)].state # "none" /\ row[EnvelopeOf(b)].id = attempt[b].sid
           \/ EnvelopeOf(b) \in applied
           \/ EnvelopeOf(b) \in lapsed)'
    BY <1>1 DEF IInv, AcksInv, HandlersStay, RowsSteady
  <2>5. attempt'[b].ack # "none" => attempt'[b].pc = "done"
    BY DEF IInv, AcksInv, HandlersStay
  <2> QED  BY <2>2, <2>3, <2>4, <2>5
<1>5. StoredIsKept'
  BY <1>1, <1>2 DEF IInv, StoredIsKept, HandlersStay, HandlersSteady, Kept
<1>6. TerminalIsRemembered'
  BY <1>1 DEF IInv, TerminalIsRemembered, HandlersStay, HandlersSteady, RowsSteady
<1>7. \A t \in settled : t.id \in Attempts
  BY DEF IInv, TypeOK, Verdict
<1> QED  BY <1>3, <1>4, <1>5, <1>6, <1>7 DEF IInv, AcceptedIsApplied, HandlersStay, HandlersSteady

----------------------------------------------------------------------------
(* The remaining steps of a sending handler.                               *)

\* recordOfflineRejection overwrites whatever is in the row it found.
LEMMA RecordUpdateStep == ASSUME IInv, NEW a \in Attempts, RecordUpdate(a) PROVE IInv'
<1> DEFINE e0 == attempt[a].env
           q  == Tombstone(row[e0], row[e0].terminalClaim)
<1>0. /\ TypeOK /\ attempt[a] \in Attempt /\ attempt[a].pc = "recordUpdate"
      /\ e0 \in Envelopes /\ row[e0] \in Row /\ OthersUnchanged
  BY DEF IInv, TypeOK, Attempt, RecordUpdate, OthersUnchanged, recipient
<1>1. PICK r \in Attempt : /\ Moves(a, r)
                           /\ r.env = e0 /\ r.pc = "done" /\ r.ack = "terminal"
  BY <1>0, FinishMoves DEF RecordUpdate, Acks
<1>2. /\ q \in Row /\ q.state = "rejected" /\ q.id = row[e0].id /\ q.claim = NoClaim
      /\ q.expired = row[e0].expired /\ q.terminalClaim = row[e0].terminalClaim
  BY <1>0, BoundsFacts DEF Tombstone, Row
<1>3. CASE row[e0].state # "none" /\ row[e0].id = attempt[a].sid
  <2>1. /\ row' \in [Envelopes -> Row] /\ row'[e0] = q
        /\ \A e \in Envelopes : e # e0 => row'[e] = row[e]
    BY <1>0, <1>2, <1>3 DEF RecordUpdate, TypeOK
  <2> HIDE DEF q
  <2>2. RowsSteady
    BY <1>2, <1>3, <2>1 DEF RowsSteady
  <2>3. HandlerGoes(a)
    BY <1>0, <1>1, <1>2, <2>1 DEF HandlerGoes
  <2>4. /\ TypeOK' /\ HandlersInv' /\ WorkersInv' /\ WireInv' /\ AcksInv'
        /\ StoredIsKept' /\ AcceptedIsApplied' /\ TerminalIsRemembered' /\ OneVerdict'
        /\ \A b \in Attempts : /\ attempt'[b].env = attempt[b].env
                               /\ Unstored(b)' => Unstored(b)
    BY <1>0, <2>1, <2>2, <2>3, HandlerKeeps
  <2>5. HandlersSteady /\ WorkersSteady /\ lapsed \subseteq lapsed' /\ settled' = settled
    BY <1>0, <2>4 DEF HandlersSteady, WorkersSteady, OthersUnchanged, RecordUpdate
  <2>6. RowsShrink
    BY <1>2, <1>3, <2>1 DEF IInv, RowsInv, RowsShrink
  <2> QED  BY <2>4, <2>5, <2>6, ShrinkKeeps, ShrinkSettledInv DEF IInv
<1>4. CASE ~(row[e0].state # "none" /\ row[e0].id = attempt[a].sid)
  <2>1. row' = row
    BY <1>4 DEF RecordUpdate
  <2>2. e0 \in applied \/ e0 \in lapsed
    BY <1>0, <1>4 DEF IInv, AcksInv, EnvelopeOf
  <2>3. HandlerGoes(a)
    BY <1>0, <1>1, <2>2 DEF HandlerGoes
  <2> QED  BY <1>0, <2>1, <2>3, ReadersKeep
<1> QED  BY <1>3, <1>4

\* The slots inject the active rows into 0..Slots-1.
LEMMA QuotaFromSlots ==
  ASSUME TypeOK, RowsInv, SlotsInv
  PROVE  /\ WithinQuota
         /\ Cardinality(DeliverableRows) \in Nat
         /\ Cardinality(DeliverableRows) <= Slots
<1> DEFINE A == {e \in Envelopes : Active(e)}
           T == 0..(Slots - 1)
           f == [e \in A |-> row[e].slot]
<1>1. f \in Injection(A, T)
  <2>1. \A e \in A : row[e].slot \in T
    BY BoundsFacts DEF TypeOK, Row, RowsInv, Active
  <2>2. f \in [A -> T]
    BY <2>1
  <2>3. \A e, g \in A : f[e] = f[g] => e = g
    BY DEF SlotsInv
  <2> QED  BY <2>2, <2>3, Fun_IsInj
<1>2. IsFiniteSet(T) /\ Cardinality(T) = Slots
  BY BoundsFacts, FS_Interval
<1>3. IsFiniteSet(A) /\ Cardinality(A) <= Slots
  BY <1>1, <1>2, FS_Injection
<1>4. DeliverableRows \subseteq A
  BY DEF DeliverableRows, Deliverable
<1>5. IsFiniteSet(DeliverableRows) /\ Cardinality(DeliverableRows) <= Cardinality(A)
  BY <1>3, <1>4, FS_Subset
<1>6. Cardinality(DeliverableRows) \in Nat /\ Cardinality(A) \in Nat
  BY <1>3, <1>5, FS_CardinalityType
<1> QED  BY <1>3, <1>5, <1>6, BoundsFacts DEF WithinQuota

\* The re-count never exceeds the quota, so it never takes a row back.
LEMMA CountStep == ASSUME IInv, NEW a \in Attempts, Count(a) PROVE IInv'
<1>0. TypeOK /\ attempt[a].pc = "count"
  BY DEF IInv, Count
<1>1. ~(Cardinality(DeliverableRows) > Slots)
  BY QuotaFromSlots, BoundsFacts DEF IInv
<1>2. row' = row /\ Finish(a, "stored") /\ OthersUnchanged
  BY <1>1, NothingTold DEF Count, recipient
<1>3. PICK r \in Attempt : /\ Moves(a, r)
                           /\ r.env = attempt[a].env /\ r.pc = "done" /\ r.ack = "stored"
  BY <1>0, <1>2, FinishMoves DEF Acks
<1>4. Kept(attempt[a].env)
  BY <1>0 DEF IInv, AcksInv, EnvelopeOf
<1>5. HandlerGoes(a)
  BY <1>0, <1>2, <1>3, <1>4 DEF HandlerGoes, Kept, OthersUnchanged
<1> QED  BY <1>2, <1>5, ReadersKeep

\* A new handler begins after every id that is in the mailbox.
LEMMA SendKeeps ==
  ASSUME IInv, NEW a \in Attempts, NEW e0 \in Envelopes, NEW via \in Vias, Send(a, e0, via)
  PROVE  IInv'
<1> DEFINE pc == IF via = "live" THEN "live" ELSE "lookup"
           r  == NewAttempt(pc, e0, via)
           ids == {row[f].id : f \in {g \in Envelopes : Active(g)}}
<1>1. /\ a = started + 1 /\ started' = a /\ started \in Nat /\ a \in Nat
      /\ attempt[a].pc = "idle" /\ a > started
  BY BoundsFacts DEF Send, IInv, TypeOK, HandlersInv, Attempts
<1>2. r \in Attempt /\ r.pc = pc /\ r.ack = "none"
  <2>1. via \in {"live", "mailbox", "mux"} /\ pc \in AttemptPCs
    BY BoundsAssumption DEF AttemptPCs
  <2> HIDE DEF pc
  <2> QED  BY <2>1, BoundsFacts DEF NewAttempt
<1>3. /\ attempt' \in [Attempts -> Attempt] /\ attempt'[a] = r
      /\ \A b \in Attempts : b # a => attempt'[b] = attempt[b]
  <2>1. attempt' = [attempt EXCEPT ![a] = r]
    BY DEF Send
  <2> HIDE DEF r
  <2> QED  BY <1>2, <2>1 DEF IInv, TypeOK
<1>4. pc \in {"live", "lookup"}
  OBVIOUS
<1> HIDE DEF r, pc
<1>5. UNCHANGED <<row, worker, claims, applied, settled, lapsed>>
  BY DEF Send
<1>6. \A b \in Attempts : ~Unstored(b) => b <= started /\ b # a /\ ~Unstored(b)'
  BY <1>1, <1>3 DEF IInv, HandlersInv, Unstored, Attempts
<1>7. \A b \in Attempts : b <= started => b # a /\ EnvelopeOf(b)' = EnvelopeOf(b)
  <2>1. \A b \in Attempts : b <= started => b # a
    BY <1>1
  <2> QED  BY <1>3, <2>1 DEF EnvelopeOf
<1>8. \A b \in ids : b \in Attempts /\ ~Unstored(b)
  BY DEF IInv, RowsInv, Active
<1>9. /\ ahead' \in [Attempts -> SUBSET Attempts] /\ ahead'[a] = ids
      /\ \A b \in Attempts : b # a => ahead'[b] = ahead[b]
  BY <1>8 DEF Send, IInv, TypeOK
<1> HIDE DEF ids
<1>10. /\ wire' \in SUBSET Event
       /\ \A m \in wire' : \/ m \in wire
                           \/ m.id = a /\ m.claim = NoClaim /\ m.via = "live" /\ m.kind = "deliver"
  BY DEF Send, IInv, TypeOK, Event
<1>11. TypeOK'
  BY <1>1, <1>3, <1>5, <1>9, <1>10 DEF IInv, TypeOK, Attempts
<1>12. HandlersInv'
  BY <1>1, <1>2, <1>3, <1>4 DEF IInv, HandlersInv, Attempts
<1>13. RowsInv'
  <2>1. NoRow' = NoRow
    BY DEF NoRow
  <2> QED  BY <1>5, <1>6, <1>7, <2>1 DEF IInv, RowsInv
<1>14. SlotsInv'
  BY <1>5 DEF IInv, SlotsInv, Active
<1>15. WorkersInv'
  BY <1>5, <1>6, <1>7 DEF IInv, WorkersInv
<1>16. WireInv'
  <2>1. \A m \in wire : m.id \in Attempts /\ m.id \in Nat
    BY BoundsFacts DEF IInv, TypeOK, Event, Attempts
  <2>2. \A m \in wire : m.id <= started' /\ EnvelopeOf(m.id)' = EnvelopeOf(m.id)
    BY <1>1, <1>7, <2>1 DEF IInv, WireInv
  <2>3. ASSUME NEW m \in wire'
        PROVE  (/\ m.id <= started
                /\ m.claim = NoClaim <=> m.via = "live"
                /\ m.claim # NoClaim => ~Unstored(m.id)
                /\ m.kind = "recipient-rejected" => m.via = "legacy"
                /\ m.kind = "received" => EnvelopeOf(m.id) \in applied)'
    <3>1. CASE m \in wire
      BY <1>5, <1>6, <2>1, <2>2, <3>1 DEF IInv, WireInv
    <3>2. CASE m \notin wire
      BY <1>1, <1>10, <2>3, <3>2
    <3> QED  BY <3>1, <3>2
  <2> QED  BY <2>3 DEF WireInv
<1>17. AcksInv'
  <2>1. \A b \in Attempts : b # a => attempt'[b] = attempt[b] /\ EnvelopeOf(b)' = EnvelopeOf(b)
    BY <1>3 DEF EnvelopeOf
  <2> QED  BY <1>2, <1>3, <1>4, <1>5, <2>1 DEF IInv, AcksInv, Kept
<1>18. SettledInv'
  <2>1. \A t \in settled : t.id \in Attempts /\ t.id \in Nat
    BY BoundsFacts DEF IInv, TypeOK, Verdict, Attempts
  <2> QED  BY <1>1, <1>5, <1>6, <2>1 DEF IInv, SettledInv
<1>19. FifoInv'
  <2>1. \A b \in Attempts : \A c \in ahead'[b] : c < b /\ ~Unstored(c)'
    <3>1. \A b \in Attempts : ahead[b] \subseteq Attempts
      BY DEF IInv, TypeOK
    <3>2. \A c \in ids : c < a
      BY <1>1, <1>6, <1>8, BoundsFacts DEF Attempts
    <3> QED  BY <1>6, <1>8, <1>9, <3>1, <3>2 DEF IInv, FifoInv
  <2>2. \A w \in Workers : worker[w].pc = "found" => worker[w].id \in Attempts /\ worker[w].id # a
    BY <1>6 DEF IInv, WorkersInv
  <2> QED  BY <1>5, <1>9, <2>1, <2>2 DEF IInv, FifoInv, Deliverable, Active
<1>20. StoredIsKept' /\ TerminalIsRemembered'
  BY <1>2, <1>3, <1>5 DEF IInv, StoredIsKept, TerminalIsRemembered
<1>21. AcceptedIsApplied'
  <2>1. \A t \in settled : t.id \in Attempts /\ t.id # a
    BY <1>1, <1>7 DEF IInv, TypeOK, Verdict, SettledInv
  <2> QED  BY <1>2, <1>3, <1>5, <2>1 DEF IInv, AcceptedIsApplied
<1>22. OneVerdict'
  BY <1>5 DEF IInv, OneVerdict
<1>23. CausalFifo'
  <2>1. \A e \in Envelopes : Active(e) => row[e].id \in Attempts /\ row[e].id # a
    BY <1>6 DEF IInv, RowsInv, Active
  <2> QED  BY <1>5, <1>9, <2>1 DEF IInv, CausalFifo, Deliverable, Active
<1> QED  BY <1>11, <1>12, <1>13, <1>14, <1>15, <1>16, <1>17, <1>18, <1>19, <1>20, <1>21,
            <1>22, <1>23 DEF IInv

\* The steps of a sending handler, together.
LEMMA SendSteps == ASSUME IInv, NEW a \in Attempts, SendStep(a) PROVE IInv'
<1>1. CASE \E e \in Envelopes, via \in Vias : Send(a, e, via)
  BY <1>1, SendKeeps
<1>2. CASE \/ LiveVerdict(a) \/ LiveUndelivered(a) \/ Record(a) \/ RecordRecheck(a)
           \/ Lookup(a) \/ InsertThrows(a) \/ Recheck(a) \/ HandlerError(a) \/ RecordError(a)
  BY <1>2, ReadersGo, ReadersKeep
<1> QED  BY <1>1, <1>2, RecordUpdateStep, RecordInsertStep, InsertStep, CountStep DEF SendStep

----------------------------------------------------------------------------
(* Replay workers.                                                         *)

\* What remains to be shown of a step that adds no row and takes no lease.
LEMMA StayStep ==
  ASSUME IInv, TypeOK', HandlersStay, RowsShrink, RowsSteady, WorkersSteady,
         applied \subseteq applied', lapsed \subseteq lapsed',
         WorkersInv', WireInv', SettledInv', OneVerdict',
         \A t \in settled' : t \in settled \/ (t.verdict = "accepted" => attempt'[t.id].env \in applied')
  PROVE  IInv'
<1>1. HandlersSteady
  BY DEF HandlersStay
<1>2. RowsInv' /\ SlotsInv' /\ FifoInv' /\ CausalFifo'
  BY <1>1, ShrinkKeeps
<1>3. /\ HandlersInv' /\ AcksInv' /\ StoredIsKept' /\ TerminalIsRemembered'
      /\ \A b \in Attempts : attempt'[b].ack = "accepted" => attempt'[b].env \in applied'
      /\ \A t \in settled : t.verdict = "accepted" => attempt'[t.id].env \in applied'
  BY StayKeeps
<1>4. AcceptedIsApplied'
  BY <1>3 DEF AcceptedIsApplied
<1> QED  BY <1>2, <1>3, <1>4 DEF IInv

\* Nothing happens to the handlers, or to the rows.
LEMMA SameHandlers ==
  ASSUME attempt' = attempt, started' = started, ahead' = ahead
  PROVE  HandlersStay /\ HandlersSteady /\ \A b \in Attempts : EnvelopeOf(b)' = EnvelopeOf(b)
BY DEF HandlersStay, HandlersSteady, EnvelopeOf, Unstored

\* Nothing happens to the rows.
LEMMA SameRows ==
  ASSUME IInv, row' = row
  PROVE  RowsShrink /\ RowsSteady
BY DEF IInv, RowsInv, RowsShrink, RowsSteady

\* Events in flight stay justified when no handler stores under their ids.
LEMMA WireStays ==
  ASSUME IInv, HandlersSteady, applied \subseteq applied', NEW m \in wire
  PROVE  (/\ m.id <= started
          /\ m.claim = NoClaim <=> m.via = "live"
          /\ m.claim # NoClaim => ~Unstored(m.id)
          /\ m.kind = "recipient-rejected" => m.via = "legacy"
          /\ m.kind = "received" => EnvelopeOf(m.id) \in applied)'
<1>1. m.id \in Attempts
  BY DEF IInv, TypeOK, Event
<1> QED  BY <1>1 DEF IInv, WireInv, HandlersSteady, EnvelopeOf

\* The claims the workers hold are good for rows that have been stored.
LEMMA WorkersStay ==
  ASSUME IInv, HandlersSteady, applied \subseteq applied', NEW w \in Workers
  PROVE  /\ worker[w].pc # "idle" => /\ worker[w].id \in Attempts /\ ~Unstored(worker[w].id)
                                     /\ worker[w].id <= started
         /\ worker[w].pc \notin {"idle", "found"} => worker[w].claim # NoClaim
         /\ worker[w].pc = "acking" => EnvelopeOf(worker[w].id) \in applied'
         /\ \A b \in Attempts : /\ EnvelopeOf(b)' = EnvelopeOf(b)
                                /\ ~Unstored(b) => ~Unstored(b)'
<1>1. worker[w].pc # "idle" => worker[w].id \in Attempts /\ ~Unstored(worker[w].id)
  BY DEF IInv, WorkersInv
<1>2. worker[w].pc # "idle" => worker[w].id <= started
  <2>1. \A b \in Attempts : attempt[b].pc # "idle" => b <= started
    BY BoundsFacts DEF IInv, HandlersInv, TypeOK, Attempts
  <2> QED  BY <1>1, <2>1 DEF Unstored
<1> QED  BY <1>1, <1>2 DEF IInv, WorkersInv, HandlersSteady, EnvelopeOf

\* A worker gives up.
LEMMA WorkerQuitStep == ASSUME IInv, NEW w \in Workers, WorkerQuit(w) PROVE IInv'
<1>1. UNCHANGED <<row, attempt, started, ahead, claims, wire, applied, settled, lapsed>>
  BY DEF WorkerQuit, handlers, recipient
<1>2. HandlersStay /\ HandlersSteady /\ RowsShrink /\ RowsSteady
  BY <1>1, SameHandlers, SameRows
<1>3. /\ worker' \in [Workers -> Worker] /\ worker'[w].pc = "idle"
      /\ \A v \in Workers : v # w => worker'[v] = worker[v]
  BY BoundsFacts DEF WorkerQuit, IInv, TypeOK, IdleWorker
<1>4. TypeOK'
  BY <1>1, <1>3 DEF IInv, TypeOK
<1>5. WorkersSteady
  BY <1>3 DEF WorkersSteady
<1>6. WorkersInv'
  BY <1>1, <1>2, <1>3, WorkersStay DEF WorkersInv
<1>7. WireInv'
  BY <1>1, <1>2, WireStays DEF WireInv
<1>8. SettledInv' /\ OneVerdict'
  BY <1>1, <1>2, ShrinkSettledInv
<1> QED  BY <1>1, <1>2, <1>4, <1>5, <1>6, <1>7, <1>8, StayStep

\* A worker emits the row it leased.
LEMMA EmitStep == ASSUME IInv, NEW w \in Workers, Emit(w) PROVE IInv'
<1>1. UNCHANGED <<row, attempt, started, ahead, claims, applied, settled, lapsed>>
  BY DEF Emit, handlers
<1>2. HandlersStay /\ HandlersSteady /\ RowsShrink /\ RowsSteady
  BY <1>1, SameHandlers, SameRows
<1>3. /\ worker' \in [Workers -> Worker] /\ worker'[w].pc = "emitted"
      /\ worker'[w].id = worker[w].id /\ worker'[w].claim = worker[w].claim
      /\ \A v \in Workers : v # w => worker'[v] = worker[v]
      /\ worker[w].pc = "claimed"
  BY DEF Emit, IInv, TypeOK, Worker, WorkerPCs
<1>4. /\ worker[w].id \in Attempts /\ ~Unstored(worker[w].id) /\ worker[w].id <= started
      /\ worker[w].claim # NoClaim
  BY <1>1, <1>2, <1>3, WorkersStay
<1>5. PICK m0 :
        m0 = [kind |-> "deliver", id |-> worker[w].id, claim |-> worker[w].claim,
              via |-> IF w \in MuxWorkers THEN "mux" ELSE "legacy"]
  OBVIOUS
<1>6. TypeOK'
  <2>0. m0 \in Event
    BY <1>3, <1>4, <1>5 DEF IInv, TypeOK, Worker, Event
  <2>1. wire' = wire \cup {m0}
    BY <1>5 DEF Emit
  <2> QED  BY <1>1, <1>3, <2>0, <2>1 DEF IInv, TypeOK
<1>7. WorkersSteady
  BY <1>3 DEF WorkersSteady
<1>8. WorkersInv'
  BY <1>1, <1>2, <1>3, <1>4, WorkersStay DEF WorkersInv
<1>9. WireInv'
  <2>1. m0.id = worker[w].id /\ m0.claim = worker[w].claim /\ m0.via \in {"mux", "legacy"}
        /\ m0.kind = "deliver" /\ wire' = wire \cup {m0}
    BY <1>5 DEF Emit
  <2>2. ~Unstored(m0.id)'
    BY <1>2, <1>4, <2>1 DEF HandlersSteady
  <2> QED  BY <1>1, <1>2, <1>4, <2>1, <2>2, WireStays DEF WireInv
<1>10. SettledInv' /\ OneVerdict'
  BY <1>1, <1>2, ShrinkSettledInv
<1> QED  BY <1>1, <1>2, <1>6, <1>7, <1>8, <1>9, <1>10, StayStep

\* A worker finds the head: nothing deliverable is older.
LEMMA ClaimLookupStep == ASSUME IInv, NEW w \in Workers, ClaimLookup(w) PROVE IInv'
<1>1. UNCHANGED <<row, attempt, started, ahead, claims, wire, applied, settled, lapsed>>
  BY DEF ClaimLookup, handlers, recipient
<1>2. HandlersStay /\ HandlersSteady /\ RowsShrink /\ RowsSteady
  BY <1>1, SameHandlers, SameRows
<1>3. PICK e \in Envelopes :
        /\ IsHead(e)
        /\ worker' = [worker EXCEPT ![w] =
             [pc |-> "found", id |-> row[e].id, claim |-> row[e].claim]]
  BY DEF ClaimLookup
<1>4. row[e] \in Row /\ row[e].id \in Attempts /\ ~Unstored(row[e].id)
  BY <1>3 DEF IInv, TypeOK, RowsInv, IsHead, Deliverable, Active
<1>5. /\ worker' \in [Workers -> Worker] /\ worker'[w].pc = "found"
      /\ worker'[w].id = row[e].id
      /\ \A v \in Workers : v # w => worker'[v] = worker[v]
  BY <1>3, <1>4 DEF IInv, TypeOK, Worker, WorkerPCs, Row
<1>6. TypeOK'
  BY <1>1, <1>5 DEF IInv, TypeOK
<1>7. WorkersInv'
  <2>1. ~Unstored(worker[w].id)'
    BY <1>1, <1>4, <1>5 DEF Unstored
  <2> QED  BY <1>1, <1>2, <1>4, <1>5, <2>1, WorkersStay DEF WorkersInv
<1>8. WireInv'
  BY <1>1, <1>2, WireStays DEF WireInv
<1>9. FifoInv'
  <2>1. \A f \in Envelopes : Deliverable(f) => row[f].id \notin ahead[row[e].id]
    <3>1. \A b \in ahead[row[e].id] : b < row[e].id /\ b \in Nat
      BY <1>4, BoundsFacts DEF IInv, FifoInv, TypeOK, Attempts
    <3>2. \A f \in Envelopes : Deliverable(f) => row[e].id <= row[f].id
      BY <1>3 DEF IsHead
    <3>3. row[e].id \in Nat
      BY <1>4, BoundsFacts DEF Attempts
    <3> QED  BY <3>1, <3>2, <3>3
  <2> QED  BY <1>1, <1>5, <2>1 DEF IInv, FifoInv, Deliverable, Active, Unstored
<1>10. /\ HandlersInv' /\ AcksInv' /\ StoredIsKept' /\ TerminalIsRemembered'
       /\ \A b \in Attempts : attempt'[b].ack = "accepted" => attempt'[b].env \in applied'
       /\ \A t \in settled : t.verdict = "accepted" => attempt'[t.id].env \in applied'
  BY <1>1, <1>2, StayKeeps
<1>11. SettledInv' /\ OneVerdict'
  BY <1>1, <1>2, ShrinkSettledInv
<1>12. AcceptedIsApplied'
  BY <1>1, <1>10 DEF AcceptedIsApplied
<1>13. RowsInv' /\ SlotsInv' /\ CausalFifo'
  <2>1. NoRow' = NoRow
    BY DEF NoRow
  <2> QED  BY <1>1, <2>1 DEF IInv, RowsInv, SlotsInv, CausalFifo, Active, Deliverable,
                            EnvelopeOf, Unstored
<1> QED  BY <1>6, <1>7, <1>8, <1>9, <1>10, <1>11, <1>12, <1>13 DEF IInv

\* A worker leases the row it found.
LEMMA ClaimCasStep == ASSUME IInv, NEW w \in Workers, ClaimCas(w) PROVE IInv'
<1>1. /\ UNCHANGED <<attempt, started, ahead, wire, applied, settled, lapsed>>
      /\ claims' = claims + 1 /\ claims' \in Claims /\ worker[w].pc = "found"
  BY BoundsFacts DEF ClaimCas, handlers, recipient, IInv, TypeOK, Claims
<1>2. HandlersStay /\ HandlersSteady
  BY <1>1, SameHandlers
<1>3. PICK e \in Envelopes :
        /\ Claimable(w, e)
        /\ row' = [row EXCEPT ![e] = [@ EXCEPT !.claim = claims + 1, !.leased = TRUE]]
  BY DEF ClaimCas
<1>4. PICK p : p = [row[e] EXCEPT !.claim = claims + 1]
  OBVIOUS
<1>5. p \in Row
  BY <1>1, <1>4 DEF IInv, TypeOK, Row
<1>6. PICK q : q = [p EXCEPT !.leased = TRUE]
  OBVIOUS
<1>7. q \in Row
  BY <1>5, <1>6 DEF Row
<1>8. /\ q.state = row[e].state /\ q.id = row[e].id /\ q.slot = row[e].slot
      /\ q.expired = row[e].expired /\ q.terminalClaim = row[e].terminalClaim
  <2>1. row[e] \in Row
    BY DEF IInv, TypeOK
  <2> QED  BY <1>4, <1>5, <1>6, <2>1 DEF Row
<1>9. /\ row' \in [Envelopes -> Row] /\ row'[e] = q
      /\ \A f \in Envelopes : f # e => row'[f] = row[f]
  <2>1. row' = [row EXCEPT ![e] = q]
    BY <1>3, <1>4, <1>6
  <2> QED  BY <1>7, <2>1 DEF IInv, TypeOK
<1>10. PICK v0 : v0 = [worker[w] EXCEPT !.pc = "claimed"]
  OBVIOUS
<1>11. v0 \in Worker
  BY <1>10 DEF IInv, TypeOK, Worker, WorkerPCs
<1>12. PICK v : v = [v0 EXCEPT !.claim = claims + 1]
  OBVIOUS
<1>13. v \in Worker /\ v.pc = "claimed" /\ v.id = worker[w].id /\ v.claim = claims + 1
  <2>1. worker[w] \in Worker
    BY DEF IInv, TypeOK
  <2>2. v \in Worker
    BY <1>1, <1>11, <1>12 DEF Worker
  <2> QED  BY <1>10, <1>11, <1>12, <2>1, <2>2 DEF Worker
<1>14. /\ worker' \in [Workers -> Worker] /\ worker'[w] = v
       /\ \A u \in Workers : u # w => worker'[u] = worker[u]
  <2>1. worker' = [worker EXCEPT ![w] = v]
    BY <1>10, <1>12 DEF ClaimCas
  <2> QED  BY <1>13, <2>1 DEF IInv, TypeOK
<1>15. TypeOK'
  BY <1>1, <1>9, <1>14, BoundsFacts DEF IInv, TypeOK, Claims
<1>16. \A f \in Envelopes : /\ row'[f].state = row[f].state /\ row'[f].id = row[f].id
                            /\ row'[f].slot = row[f].slot /\ row'[f].expired = row[f].expired
                            /\ row'[f].terminalClaim = row[f].terminalClaim
                            /\ f # e => row'[f] = row[f]
  BY <1>8, <1>9
<1>17. row[e].state = "active" /\ row[e].id = worker[w].id
  BY <1>3 DEF Claimable, Active
<1>18. RowsSteady
  BY <1>16 DEF RowsSteady
<1>19. RowsInv'
  <2>1. NoRow' = NoRow
    BY DEF NoRow
  <2>2. \A f \in Envelopes : row[f].state # "active" => row'[f] = row[f]
    BY <1>16, <1>17
  <2>3. \A f \in Envelopes : row'[f].state = "none" => row'[f] = NoRow'
    BY <1>16, <2>1, <2>2 DEF IInv, RowsInv
  <2>4. \A f \in Envelopes : row'[f].state = "rejected" => row'[f].claim = NoClaim
    BY <1>16, <2>2 DEF IInv, RowsInv
  <2> QED  BY <1>1, <1>16, <2>3, <2>4 DEF IInv, RowsInv, EnvelopeOf, Unstored
<1>20. SlotsInv'
  BY <1>16 DEF IInv, SlotsInv, Active
<1>21. WorkersInv'
  <2>1. claims + 1 # NoClaim
    BY <1>1, BoundsFacts DEF Claims
  <2> QED  BY <1>1, <1>2, <1>13, <1>14, <2>1, WorkersStay DEF WorkersInv
<1>22. WireInv'
  BY <1>1, <1>2, WireStays DEF WireInv
<1>23. SettledInv' /\ OneVerdict'
  BY <1>1, <1>16 DEF IInv, SettledInv, OneVerdict, Unstored
<1>24. \A f \in Envelopes : Deliverable(f)' => Deliverable(f) /\ row'[f].id = row[f].id
  BY <1>16 DEF Deliverable, Active
<1>25. FifoInv'
  BY <1>1, <1>13, <1>14, <1>24 DEF IInv, FifoInv, Unstored
<1>26. CausalFifo'
  <2>1. \A f \in Envelopes : Deliverable(f) => row[f].id \notin ahead[row[e].id]
    BY <1>1, <1>17 DEF IInv, FifoInv
  <2> QED  BY <1>1, <1>16, <1>24, <2>1 DEF IInv, CausalFifo, Active
<1>27. /\ HandlersInv' /\ AcksInv' /\ StoredIsKept' /\ TerminalIsRemembered'
       /\ \A b \in Attempts : attempt'[b].ack = "accepted" => attempt'[b].env \in applied'
       /\ \A t \in settled : t.verdict = "accepted" => attempt'[t.id].env \in applied'
  BY <1>1, <1>2, <1>18, StayKeeps
<1>28. AcceptedIsApplied'
  BY <1>1, <1>27 DEF AcceptedIsApplied
<1> QED  BY <1>15, <1>19, <1>20, <1>21, <1>22, <1>23, <1>25, <1>26, <1>27, <1>28 DEF IInv

\* Removing the matching row: its envelope is committed.
LEMMA AckRowEffect ==
  ASSUME IInv, NEW id \in Attempts, NEW c \in Claims \cup {NoClaim}, AckRow(id, c),
         EnvelopeOf(id) \in applied
  PROVE  RowsShrink /\ RowsSteady /\ row' \in [Envelopes -> Row]
<1>1. \A e \in Envelopes : AckMatches(e, id, c) => e \in applied
  BY DEF AckMatches, IInv, RowsInv
<1>2. row' \in [Envelopes -> Row]
  BY BoundsFacts DEF AckRow, IInv, TypeOK
<1>3. \A e \in Envelopes : row'[e] = row[e] \/ (row'[e] = NoRow /\ e \in applied)
  BY <1>1 DEF AckRow
<1>4. NoRow.state = "none" /\ NoRow.expired = FALSE
  BY DEF NoRow
<1>5. RowsShrink
  BY <1>3, <1>4 DEF RowsShrink, IInv, RowsInv
<1>6. RowsSteady
  BY <1>3 DEF RowsSteady
<1> QED  BY <1>2, <1>5, <1>6

\* Rejecting the matching row leaves its tombstone.
LEMMA RejectRowEffect ==
  ASSUME IInv, NEW id, NEW c \in Claims \cup {NoClaim}, RejectRow(id, c)
  PROVE  /\ RowsShrink /\ RowsSteady /\ row' \in [Envelopes -> Row]
         /\ \A e \in Envelopes :
              RejectMatches(e, id, c) => row'[e].state = "rejected" /\ row'[e].terminalClaim = c
         /\ \A e \in Envelopes : ~RejectMatches(e, id, c) => row'[e] = row[e]
<1>1. row' \in [Envelopes -> Row]
  BY BoundsFacts DEF RejectRow, IInv, TypeOK
<1>2. ASSUME NEW e \in Envelopes, RejectMatches(e, id, c)
      PROVE  /\ row[e].state = "active"
             /\ row'[e].state = "rejected" /\ row'[e].terminalClaim = c
             /\ row'[e].id = row[e].id /\ row'[e].claim = NoClaim
             /\ row'[e].expired = row[e].expired
  BY <1>2 DEF RejectRow, RejectMatches, Active, Tombstone
<1>3. \A e \in Envelopes : ~RejectMatches(e, id, c) => row'[e] = row[e]
  BY DEF RejectRow
<1>4. RowsShrink
  BY <1>2, <1>3 DEF RowsShrink, IInv, RowsInv
<1>5. RowsSteady
  BY <1>2, <1>3 DEF RowsSteady
<1> QED  BY <1>1, <1>2, <1>3, <1>4, <1>5

\* A new verdict s under a claim is the first one for its id, or the same.
LEMMA NewVerdict ==
  ASSUME IInv, RowsShrink, HandlersSteady, NEW s \in Verdict, settled' = settled \cup {s},
         s.id <= started', ~Unstored(s.id)', s.claim # NoClaim,
         NEW e0 \in Envelopes, row[e0].state # "none", row[e0].id = s.id,
         \/ row[e0].state = "active"
         \/ s.verdict = "rejected" /\ row[e0].terminalClaim = s.claim,
         \A e \in Envelopes : row'[e].state # "none" /\ row'[e].id = s.id =>
            s.verdict = "rejected" /\ row'[e].state = "rejected" /\ row'[e].terminalClaim = s.claim
  PROVE  SettledInv' /\ OneVerdict'
<1>1. SettledInv'
  BY ShrinkSettles DEF SettledInv
<1>2. ASSUME NEW t \in settled, t.id = s.id, t.claim # NoClaim
      PROVE  t = s
  <2>1. t.verdict = "rejected" /\ row[e0].state = "rejected" /\ row[e0].terminalClaim = t.claim
    BY <1>2 DEF IInv, SettledInv
  <2>2. s.verdict = t.verdict /\ s.claim = t.claim
    BY <2>1
  <2>3. t \in Verdict
    BY DEF IInv, TypeOK
  <2> QED  BY <1>2, <2>2, <2>3 DEF Verdict
<1>3. OneVerdict'
  BY <1>2 DEF IInv, OneVerdict
<1> QED  BY <1>1, <1>3

\* A worker removes the row its recipient committed.
LEMMA AckClaimedStep == ASSUME IInv, NEW w \in Workers, AckClaimed(w) PROVE IInv'
<1>1. UNCHANGED <<attempt, started, ahead, claims, wire, applied, lapsed>>
  BY DEF AckClaimed, handlers, recipient
<1>2. HandlersStay /\ HandlersSteady /\ \A b \in Attempts : EnvelopeOf(b)' = EnvelopeOf(b)
  BY <1>1, SameHandlers
<1>3. PICK id \in Attempts, c \in Claims :
        /\ id = worker[w].id /\ c = worker[w].claim
        /\ ~Unstored(id) /\ id <= started /\ EnvelopeOf(id) \in applied
  <2>1. /\ worker[w].id \in Attempts /\ ~Unstored(worker[w].id) /\ worker[w].id <= started
        /\ worker[w].claim # NoClaim /\ EnvelopeOf(worker[w].id) \in applied
    BY <1>1, <1>2, WorkersStay DEF AckClaimed
  <2>2. worker[w].claim \in Claims \cup {NoClaim}
    BY DEF IInv, TypeOK, Worker
  <2> QED  BY <2>1, <2>2
<1>4. AckRow(id, c)
  BY <1>3 DEF AckClaimed
<1>5. RowsShrink /\ RowsSteady /\ row' \in [Envelopes -> Row]
  BY <1>3, <1>4, AckRowEffect
<1>6. /\ worker' \in [Workers -> Worker] /\ worker'[w].pc = "idle"
      /\ \A v \in Workers : v # w => worker'[v] = worker[v]
  BY BoundsFacts DEF AckClaimed, IInv, TypeOK, IdleWorker
<1>7. WorkersSteady
  BY <1>6 DEF WorkersSteady
<1>8. WorkersInv'
  BY <1>1, <1>2, <1>6, WorkersStay DEF WorkersInv
<1>9. WireInv'
  BY <1>1, <1>2, WireStays DEF WireInv
<1>10. CASE settled' = settled
  <2>2. SettledInv' /\ OneVerdict'
    BY <1>2, <1>5, <1>10, ShrinkSettledInv
  <2>3. TypeOK'
    BY <1>1, <1>5, <1>6, <1>10 DEF IInv, TypeOK
  <2> QED  BY <1>1, <1>2, <1>5, <1>7, <1>8, <1>9, <1>10, <2>2, <2>3, StayStep
<1>11. ASSUME NEW e0 \in Envelopes, AckMatches(e0, id, c),
              settled' = settled \cup {[id |-> id, claim |-> c, verdict |-> "accepted"]}
       PROVE  IInv'
  <2>1. PICK s : s = [id |-> id, claim |-> c, verdict |-> "accepted"]
    OBVIOUS
  <2>2. s \in Verdict /\ s.id = id /\ s.claim = c /\ s.verdict = "accepted"
    BY <2>1 DEF Verdict
  <2>3. settled' = settled \cup {s}
    BY <1>11, <2>1
  <2>4. row[e0].state = "active" /\ row[e0].id = id
    <3>1. c # NoClaim
      BY BoundsFacts DEF Claims
    <3>2. row[e0].state \in RowStates
      BY DEF IInv, TypeOK, Row
    <3> QED  BY <1>11, <3>1, <3>2 DEF AckMatches, IInv, RowsInv, RowStates
  <2>5. \A e \in Envelopes : ~(row'[e].state # "none" /\ row'[e].id = id)
    <3>1. \A e \in Envelopes : row[e].state # "none" /\ row[e].id = id => e = e0
      BY <2>4 DEF IInv, RowsInv
    <3>2. row'[e0].state = "none"
      BY <1>4, <1>11 DEF AckRow, NoRow
    <3> QED  BY <1>5, <3>1, <3>2 DEF RowsShrink
  <2>6. ~Unstored(s.id)' /\ s.id <= started' /\ s.claim # NoClaim
    <3>1. c # NoClaim
      BY BoundsFacts DEF Claims
    <3> QED  BY <1>1, <1>3, <2>2, <3>1 DEF Unstored
  <2>7. SettledInv' /\ OneVerdict'
    BY <1>2, <1>5, <2>2, <2>3, <2>4, <2>5, <2>6, NewVerdict
  <2>8. TypeOK'
    BY <1>1, <1>5, <1>6, <2>2, <2>3 DEF IInv, TypeOK
  <2>9. attempt'[s.id].env \in applied'
    BY <1>1, <1>3, <2>2 DEF EnvelopeOf
  <2> QED  BY <1>1, <1>2, <1>5, <1>7, <1>8, <1>9, <2>3, <2>7, <2>8, <2>9, StayStep
<1> QED  BY <1>3, <1>10, <1>11 DEF AckClaimed, Notify

\* A worker turns the row its recipient refused into a tombstone.
LEMMA RejectClaimedStep == ASSUME IInv, NEW w \in Workers, RejectClaimed(w) PROVE IInv'
<1>1. UNCHANGED <<attempt, started, ahead, claims, wire, applied, lapsed>>
  BY DEF RejectClaimed, handlers, recipient
<1>2. HandlersStay /\ HandlersSteady /\ \A b \in Attempts : EnvelopeOf(b)' = EnvelopeOf(b)
  BY <1>1, SameHandlers
<1>3. PICK id \in Attempts, c \in Claims :
        /\ id = worker[w].id /\ c = worker[w].claim
        /\ ~Unstored(id) /\ id <= started
  <2>1. /\ worker[w].id \in Attempts /\ ~Unstored(worker[w].id) /\ worker[w].id <= started
        /\ worker[w].claim # NoClaim
    BY <1>1, <1>2, WorkersStay DEF RejectClaimed
  <2>2. worker[w].claim \in Claims \cup {NoClaim}
    BY DEF IInv, TypeOK, Worker
  <2> QED  BY <2>1, <2>2
<1>4. RejectRow(id, c)
  BY <1>3 DEF RejectClaimed
<1>5. /\ RowsShrink /\ RowsSteady /\ row' \in [Envelopes -> Row]
      /\ \A e \in Envelopes :
           RejectMatches(e, id, c) => row'[e].state = "rejected" /\ row'[e].terminalClaim = c
  BY <1>4, RejectRowEffect
<1>6. /\ worker' \in [Workers -> Worker] /\ worker'[w].pc = "idle"
      /\ \A v \in Workers : v # w => worker'[v] = worker[v]
  BY BoundsFacts DEF RejectClaimed, IInv, TypeOK, IdleWorker
<1>7. WorkersSteady
  BY <1>6 DEF WorkersSteady
<1>8. WorkersInv'
  BY <1>1, <1>2, <1>6, WorkersStay DEF WorkersInv
<1>9. WireInv'
  BY <1>1, <1>2, WireStays DEF WireInv
<1>10. CASE settled' = settled
  <2>2. SettledInv' /\ OneVerdict'
    BY <1>2, <1>5, <1>10, ShrinkSettledInv
  <2>3. TypeOK'
    BY <1>1, <1>5, <1>6, <1>10 DEF IInv, TypeOK
  <2> QED  BY <1>1, <1>2, <1>5, <1>7, <1>8, <1>9, <1>10, <2>2, <2>3, StayStep
<1>11. ASSUME NEW e0 \in Envelopes, RejectMatches(e0, id, c),
              settled' = settled \cup {[id |-> id, claim |-> c, verdict |-> "rejected"]}
       PROVE  IInv'
  <2>1. PICK s : s = [id |-> id, claim |-> c, verdict |-> "rejected"]
    OBVIOUS
  <2>2. s \in Verdict /\ s.id = id /\ s.claim = c /\ s.verdict = "rejected"
    BY <2>1 DEF Verdict
  <2>3. settled' = settled \cup {s}
    BY <1>11, <2>1
  <2>4. row[e0].state = "active" /\ row[e0].id = id
    BY <1>11 DEF RejectMatches, Active
  <2>5. \A e \in Envelopes : row'[e].state # "none" /\ row'[e].id = id =>
           row'[e].state = "rejected" /\ row'[e].terminalClaim = c
    <3>1. \A e \in Envelopes : row[e].state # "none" /\ row[e].id = id => e = e0
      BY <2>4 DEF IInv, RowsInv
    <3> QED  BY <1>5, <1>11, <3>1 DEF RowsShrink
  <2>6. ~Unstored(s.id)' /\ s.id <= started' /\ s.claim # NoClaim
    <3>1. c # NoClaim
      BY BoundsFacts DEF Claims
    <3> QED  BY <1>1, <1>3, <2>2, <3>1 DEF Unstored
  <2>7. SettledInv' /\ OneVerdict'
    BY <1>2, <1>5, <2>2, <2>3, <2>4, <2>5, <2>6, NewVerdict
  <2>8. TypeOK'
    BY <1>1, <1>5, <1>6, <2>2, <2>3 DEF IInv, TypeOK
  <2> QED  BY <1>1, <1>2, <1>5, <1>7, <1>8, <1>9, <2>2, <2>3, <2>7, <2>8, StayStep
<1> QED  BY <1>3, <1>10, <1>11 DEF RejectClaimed, Notify

\* The steps of a replay worker, together.
LEMMA WorkerSteps == ASSUME IInv, NEW w \in Workers, WorkerStep(w) PROVE IInv'
BY ClaimLookupStep, ClaimCasStep, EmitStep, AckClaimedStep, RejectClaimedStep, WorkerQuitStep
   DEF WorkerStep

----------------------------------------------------------------------------
(* The recipient.                                                          *)

\* A live callback moves only the handler that waits for it.
LEMMA LiveCallbackEffect ==
  ASSUME TypeOK, NEW m, NEW pc \in {"liveAccepted", "liveRefused"}, LiveCallback(m, pc)
  PROVE  /\ attempt' \in [Attempts -> Attempt]
         /\ \A b \in Attempts :
              /\ attempt'[b].env = attempt[b].env /\ attempt'[b].ack = attempt[b].ack
              /\ \/ attempt'[b] = attempt[b]
                 \/ b = m.id /\ attempt[b].pc = "live" /\ attempt'[b].pc = pc
<1>1. \A b \in Attempts : attempt[b] \in Attempt
  BY DEF TypeOK
<1>2. \A r \in Attempt : [r EXCEPT !.pc = pc] \in Attempt
  BY DEF Attempt, AttemptPCs
<1>3. \A r \in Attempt : /\ [r EXCEPT !.pc = pc].env = r.env
                         /\ [r EXCEPT !.pc = pc].ack = r.ack
                         /\ [r EXCEPT !.pc = pc].pc = pc
  BY DEF Attempt
<1>4. attempt' \in [Attempts -> Attempt]
  BY <1>1, <1>2 DEF LiveCallback
<1>5. ASSUME NEW b \in Attempts
      PROVE  /\ attempt'[b].env = attempt[b].env /\ attempt'[b].ack = attempt[b].ack
             /\ \/ attempt'[b] = attempt[b]
                \/ b = m.id /\ attempt[b].pc = "live" /\ attempt'[b].pc = pc
  <2>1. CASE b = m.id /\ m.via = "live" /\ attempt[b].pc = "live"
    <3>1. attempt'[b] = [attempt[b] EXCEPT !.pc = pc]
      BY <2>1 DEF LiveCallback
    <3> QED  BY <1>1, <1>3, <2>1, <3>1
  <2>2. CASE ~(b = m.id /\ m.via = "live" /\ attempt[b].pc = "live")
    BY <2>2 DEF LiveCallback
  <2> QED  BY <2>1, <2>2
<1> QED  BY <1>4, <1>5

\* A replay callback moves only workers that wait under that claim.
LEMMA WorkerCallbackEffect ==
  ASSUME TypeOK, NEW m, NEW pc \in {"acking", "rejecting"}, WorkerCallback(m, pc)
  PROVE  /\ worker' \in [Workers -> Worker]
         /\ \A v \in Workers :
              \/ worker'[v] = worker[v]
              \/ /\ worker[v].pc = "emitted" /\ worker[v].id = m.id /\ worker'[v].pc = pc
                 /\ worker'[v].id = worker[v].id /\ worker'[v].claim = worker[v].claim
<1>1. \A v \in Workers : worker[v] \in Worker
  BY DEF TypeOK
<1>2. \A r \in Worker : [r EXCEPT !.pc = pc] \in Worker
  BY DEF Worker, WorkerPCs
<1>3. \A r \in Worker : /\ [r EXCEPT !.pc = pc].id = r.id
                        /\ [r EXCEPT !.pc = pc].claim = r.claim
                        /\ [r EXCEPT !.pc = pc].pc = pc
  BY DEF Worker
<1>4. worker' \in [Workers -> Worker]
  BY <1>1, <1>2 DEF WorkerCallback
<1>5. ASSUME NEW v \in Workers
      PROVE  \/ worker'[v] = worker[v]
             \/ /\ worker[v].pc = "emitted" /\ worker[v].id = m.id /\ worker'[v].pc = pc
                /\ worker'[v].id = worker[v].id /\ worker'[v].claim = worker[v].claim
  <2>1. CASE worker[v].pc = "emitted" /\ worker[v].id = m.id /\ worker[v].claim = m.claim
    <3>1. worker'[v] = [worker[v] EXCEPT !.pc = pc]
      BY <2>1 DEF WorkerCallback
    <3> QED  BY <1>1, <1>3, <2>1, <3>1
  <2>2. CASE ~(worker[v].pc = "emitted" /\ worker[v].id = m.id /\ worker[v].claim = m.claim)
    BY <2>2 DEF WorkerCallback
  <2> QED  BY <2>1, <2>2
<1> QED  BY <1>4, <1>5

\* The recipient commits an envelope and answers.
LEMMA RecipientAcceptsStep == ASSUME IInv, NEW m \in wire, RecipientAccepts(m) PROVE IInv'
<1>0. TypeOK /\ m \in Event /\ m.id \in Attempts /\ m.id <= started
  BY DEF IInv, TypeOK, Event, WireInv
<1>1. UNCHANGED <<row, started, ahead, claims, settled, lapsed>>
      /\ applied' = applied \cup {EnvelopeOf(m.id)} /\ EnvelopeOf(m.id) \in Envelopes
  BY <1>0 DEF RecipientAccepts, TypeOK, EnvelopeOf, Attempt
<1>2. /\ attempt' \in [Attempts -> Attempt]
      /\ \A b \in Attempts :
           /\ attempt'[b].env = attempt[b].env /\ attempt'[b].ack = attempt[b].ack
           /\ \/ attempt'[b] = attempt[b]
              \/ b = m.id /\ attempt[b].pc = "live" /\ attempt'[b].pc = "liveAccepted"
  BY <1>0, LiveCallbackEffect DEF RecipientAccepts
<1>3. /\ worker' \in [Workers -> Worker]
      /\ \A v \in Workers :
           \/ worker'[v] = worker[v]
           \/ /\ worker[v].pc = "emitted" /\ worker[v].id = m.id /\ worker'[v].pc = "acking"
              /\ worker'[v].id = worker[v].id /\ worker'[v].claim = worker[v].claim
  BY <1>0, WorkerCallbackEffect DEF RecipientAccepts
<1>4. HandlersSteady /\ HandlersStay
  <2>1. HandlersSteady
    BY <1>1, <1>2 DEF HandlersSteady, Unstored
  <2> QED  BY <1>1, <1>2, <2>1 DEF HandlersStay, EnvelopeOf
<1>5. RowsShrink /\ RowsSteady
  BY <1>1, SameRows
<1>6. WorkersSteady
  BY <1>3 DEF WorkersSteady
<1>7. WorkersInv'
  <2>1. ASSUME NEW v \in Workers
        PROVE  (/\ worker[v].pc # "idle" => worker[v].id \in Attempts /\ ~Unstored(worker[v].id)
                /\ worker[v].pc \notin {"idle", "found"} => worker[v].claim # NoClaim
                /\ worker[v].pc = "acking" => EnvelopeOf(worker[v].id) \in applied)'
    BY <1>0, <1>1, <1>3, <1>4, WorkersStay
  <2> QED  BY <2>1 DEF WorkersInv
<1>8. PICK d : d = [kind |-> "received", id |-> m.id, claim |-> NoClaim, via |-> "live"]
  OBVIOUS
<1>9. d \in Event /\ d.kind = "received" /\ d.id = m.id /\ d.claim = NoClaim /\ d.via = "live"
  BY <1>0, <1>8 DEF Event
<1>10. wire' \subseteq wire \cup {d}
  BY <1>8 DEF RecipientAccepts
<1>11. TypeOK'
  BY <1>0, <1>1, <1>2, <1>3, <1>9, <1>10 DEF TypeOK
<1>12. WireInv'
  <2>1. EnvelopeOf(d.id)' \in applied'
    BY <1>0, <1>1, <1>2, <1>9 DEF EnvelopeOf
  <2> QED  BY <1>0, <1>1, <1>4, <1>9, <1>10, <2>1, WireStays DEF WireInv
<1>13. SettledInv' /\ OneVerdict'
  BY <1>1, <1>4, <1>5, ShrinkSettledInv
<1> QED  BY <1>1, <1>4, <1>5, <1>6, <1>7, <1>11, <1>12, <1>13, StayStep

\* The recipient refuses an envelope in its callback.
LEMMA RecipientRefusesStep == ASSUME IInv, NEW m \in wire, RecipientRefuses(m) PROVE IInv'
<1>0. TypeOK
  BY DEF IInv
<1>1. UNCHANGED <<row, started, ahead, claims, applied, settled, lapsed>> /\ wire' \subseteq wire
  BY DEF RecipientRefuses
<1>2. /\ attempt' \in [Attempts -> Attempt]
      /\ \A b \in Attempts :
           /\ attempt'[b].env = attempt[b].env /\ attempt'[b].ack = attempt[b].ack
           /\ \/ attempt'[b] = attempt[b]
              \/ b = m.id /\ attempt[b].pc = "live" /\ attempt'[b].pc = "liveRefused"
  BY <1>0, LiveCallbackEffect DEF RecipientRefuses
<1>3. /\ worker' \in [Workers -> Worker]
      /\ \A v \in Workers :
           \/ worker'[v] = worker[v]
           \/ /\ worker[v].pc = "emitted" /\ worker[v].id = m.id /\ worker'[v].pc = "rejecting"
              /\ worker'[v].id = worker[v].id /\ worker'[v].claim = worker[v].claim
  BY <1>0, WorkerCallbackEffect DEF RecipientRefuses
<1>4. HandlersSteady /\ HandlersStay
  <2>1. HandlersSteady
    BY <1>1, <1>2 DEF HandlersSteady, Unstored
  <2> QED  BY <1>1, <1>2, <2>1 DEF HandlersStay
<1>5. RowsShrink /\ RowsSteady
  BY <1>1, SameRows
<1>6. WorkersSteady
  BY <1>3 DEF WorkersSteady
<1>7. WorkersInv'
  <2>1. ASSUME NEW v \in Workers
        PROVE  (/\ worker[v].pc # "idle" => worker[v].id \in Attempts /\ ~Unstored(worker[v].id)
                /\ worker[v].pc \notin {"idle", "found"} => worker[v].claim # NoClaim
                /\ worker[v].pc = "acking" => EnvelopeOf(worker[v].id) \in applied)'
    BY <1>1, <1>3, <1>4, WorkersStay
  <2> QED  BY <2>1 DEF WorkersInv
<1>8. TypeOK'
  BY <1>0, <1>1, <1>2, <1>3 DEF TypeOK
<1>9. WireInv'
  BY <1>1, <1>4, WireStays DEF WireInv
<1>10. SettledInv' /\ OneVerdict'
  BY <1>1, <1>4, <1>5, ShrinkSettledInv
<1> QED  BY <1>1, <1>4, <1>5, <1>6, <1>7, <1>8, <1>9, <1>10, StayStep

\* Events are lost, or replaced by the report of a legacy client.
LEMMA WireOnlyStep ==
  ASSUME IInv, NEW m \in wire, RecipientReports(m) \/ Lose(m)
  PROVE  IInv'
<1>0. TypeOK /\ m \in Event
  BY DEF IInv, TypeOK
<1>1. UNCHANGED <<row, attempt, started, ahead, worker, claims, applied, settled, lapsed>>
  BY DEF RecipientReports, Lose, handlers
<1>2. HandlersStay /\ HandlersSteady /\ RowsShrink /\ RowsSteady
  BY <1>1, SameHandlers, SameRows
<1>3. WorkersSteady
  BY <1>1 DEF WorkersSteady
<1>4. WorkersInv'
  BY <1>1, <1>2, WorkersStay DEF WorkersInv
<1>5. PICK d : d = [m EXCEPT !.kind = "recipient-rejected"]
  OBVIOUS
<1>6. /\ d \in Event /\ d.kind = "recipient-rejected" /\ d.id = m.id
      /\ d.claim = m.claim /\ d.via = m.via
  BY <1>0, <1>5 DEF Event
<1>7. wire' \subseteq wire \cup {d} /\ (d \in wire' \ wire => m.via = "legacy")
  BY <1>5 DEF RecipientReports, Lose
<1>8. TypeOK'
  BY <1>0, <1>1, <1>6, <1>7 DEF TypeOK
<1>9. WireInv'
  <2>1. m.id \in Attempts /\ (m.claim # NoClaim => ~Unstored(m.id))
    BY <1>0 DEF IInv, WireInv, Event
  <2>2. d.claim # NoClaim => ~Unstored(d.id)'
    BY <1>2, <1>6, <2>1 DEF HandlersSteady
  <2>3. (d.claim = NoClaim <=> d.via = "live") /\ d.id <= started
    BY <1>6 DEF IInv, WireInv
  <2> QED  BY <1>1, <1>2, <1>6, <1>7, <2>2, <2>3, WireStays DEF WireInv
<1>10. SettledInv' /\ OneVerdict'
  BY <1>1, <1>2, ShrinkSettledInv
<1> QED  BY <1>1, <1>2, <1>3, <1>4, <1>8, <1>9, <1>10, StayStep

\* The relay handles "recipient-rejected".
LEMMA RecipientRejectedStep == ASSUME IInv, NEW m \in wire, RecipientRejected(m) PROVE IInv'
<1> DEFINE told == \/ \E e \in Envelopes : RejectMatches(e, m.id, m.claim)
                   \/ RejectedBefore(m.id, m.claim)
<1>1. UNCHANGED <<attempt, started, ahead, claims, applied, lapsed>> /\ wire' \subseteq wire
      /\ RejectRow(m.id, m.claim) /\ m.kind = "recipient-rejected"
  BY DEF RecipientRejected, handlers
<1>2. HandlersStay /\ HandlersSteady
  BY <1>1, SameHandlers
<1>3. /\ TypeOK /\ m.id \in Attempts /\ m.claim \in Claims \cup {NoClaim} /\ m.claim # NoClaim
      /\ ~Unstored(m.id) /\ m.id <= started
  BY <1>1 DEF IInv, TypeOK, WireInv, Event
<1>4. /\ RowsShrink /\ RowsSteady /\ row' \in [Envelopes -> Row]
      /\ \A e \in Envelopes : RejectMatches(e, m.id, m.claim) =>
           row'[e].state = "rejected" /\ row'[e].terminalClaim = m.claim
      /\ \A e \in Envelopes : ~RejectMatches(e, m.id, m.claim) => row'[e] = row[e]
  BY <1>1, <1>3, RejectRowEffect
<1>5. /\ worker' \in [Workers -> Worker]
      /\ \A v \in Workers :
           \/ worker'[v] = worker[v]
           \/ /\ worker[v].pc = "emitted" /\ worker[v].id = m.id /\ worker'[v].pc = "rejecting"
              /\ worker'[v].id = worker[v].id /\ worker'[v].claim = worker[v].claim
  <2>1. CASE told
    BY <1>3, <2>1, WorkerCallbackEffect DEF RecipientRejected
  <2>2. CASE ~told
    BY <1>3, <2>2 DEF RecipientRejected, TypeOK
  <2> QED  BY <2>1, <2>2
<1>6. WorkersSteady
  BY <1>5 DEF WorkersSteady
<1>7. WorkersInv'
  <2>1. ASSUME NEW v \in Workers
        PROVE  (/\ worker[v].pc # "idle" => worker[v].id \in Attempts /\ ~Unstored(worker[v].id)
                /\ worker[v].pc \notin {"idle", "found"} => worker[v].claim # NoClaim
                /\ worker[v].pc = "acking" => EnvelopeOf(worker[v].id) \in applied)'
    BY <1>1, <1>2, <1>5, WorkersStay
  <2> QED  BY <2>1 DEF WorkersInv
<1>8. WireInv'
  BY <1>1, <1>2, WireStays DEF WireInv
<1>9. CASE settled' = settled
  <2>2. SettledInv' /\ OneVerdict'
    BY <1>2, <1>4, <1>9, ShrinkSettledInv
  <2>3. TypeOK'
    BY <1>1, <1>3, <1>4, <1>5, <1>9 DEF TypeOK
  <2> QED  BY <1>1, <1>2, <1>4, <1>6, <1>7, <1>8, <1>9, <2>2, <2>3, StayStep
<1>10. CASE /\ told
            /\ settled' = settled \cup {[id |-> m.id, claim |-> m.claim, verdict |-> "rejected"]}
  <2>1. PICK s : s = [id |-> m.id, claim |-> m.claim, verdict |-> "rejected"]
    OBVIOUS
  <2>2. s \in Verdict /\ s.id = m.id /\ s.claim = m.claim /\ s.verdict = "rejected"
    BY <1>3, <2>1 DEF Verdict
  <2>3. settled' = settled \cup {s}
    BY <1>10, <2>1
  <2>4. PICK e0 \in Envelopes :
          /\ row[e0].state # "none" /\ row[e0].id = m.id
          /\ \/ row[e0].state = "active"
             \/ row[e0].terminalClaim = m.claim
          /\ row'[e0].state = "rejected" /\ row'[e0].terminalClaim = m.claim
    <3>1. CASE \E e \in Envelopes : RejectMatches(e, m.id, m.claim)
      BY <1>4, <3>1 DEF RejectMatches, Active
    <3>2. CASE RejectedBefore(m.id, m.claim)
      <4>1. PICK e \in Envelopes : /\ row[e].state = "rejected" /\ row[e].id = m.id
                                   /\ row[e].terminalClaim = m.claim
        BY <3>2 DEF RejectedBefore
      <4>2. row'[e] = row[e]
        BY <1>4, <4>1 DEF RejectMatches, Active
      <4> QED  BY <4>1, <4>2
    <3> QED  BY <1>10, <3>1, <3>2
  <2>5. \A e \in Envelopes : row'[e].state # "none" /\ row'[e].id = m.id =>
           row'[e].state = "rejected" /\ row'[e].terminalClaim = m.claim
    <3>1. \A e \in Envelopes : row[e].state # "none" /\ row[e].id = m.id => e = e0
      BY <2>4 DEF IInv, RowsInv
    <3> QED  BY <1>4, <2>4, <3>1 DEF RowsShrink
  <2>6. ~Unstored(s.id)' /\ s.id <= started' /\ s.claim # NoClaim
    BY <1>1, <1>3, <2>2 DEF Unstored
  <2>7. SettledInv' /\ OneVerdict'
    BY <1>2, <1>4, <2>2, <2>3, <2>4, <2>5, <2>6, NewVerdict
  <2>8. TypeOK'
    BY <1>1, <1>3, <1>4, <1>5, <2>2, <2>3 DEF TypeOK
  <2> QED  BY <1>1, <1>2, <1>4, <1>6, <1>7, <1>8, <2>2, <2>3, <2>7, <2>8, StayStep
<1> QED  BY <1>9, <1>10 DEF RecipientRejected, Notify

\* The relay handles "received" without a claim.
LEMMA ReceivedStep == ASSUME IInv, NEW m \in wire, Received(m) PROVE IInv'
<1>1. UNCHANGED <<attempt, started, ahead, worker, claims, applied, lapsed>>
      /\ wire' \subseteq wire /\ AckRow(m.id, NoClaim) /\ m.kind = "received"
  BY DEF Received, handlers
<1>2. HandlersStay /\ HandlersSteady
  BY <1>1, SameHandlers
<1>3. TypeOK /\ m.id \in Attempts /\ m.id <= started /\ EnvelopeOf(m.id) \in applied
  BY <1>1 DEF IInv, TypeOK, WireInv, Event
<1>4. RowsShrink /\ RowsSteady /\ row' \in [Envelopes -> Row]
  BY <1>1, <1>3, AckRowEffect
<1>5. WorkersSteady
  BY <1>1 DEF WorkersSteady
<1>6. WorkersInv'
  BY <1>1, <1>2, WorkersStay DEF WorkersInv
<1>7. WireInv'
  BY <1>1, <1>2, WireStays DEF WireInv
<1>8. PICK s : s = [id |-> m.id, claim |-> NoClaim, verdict |-> "accepted"]
  OBVIOUS
<1>9. s \in Verdict /\ s.id = m.id /\ s.claim = NoClaim /\ s.verdict = "accepted"
  BY <1>3, <1>8 DEF Verdict
<1>10. settled' \subseteq settled \cup {s}
  BY <1>8 DEF Received, Notify
<1>11. SettledInv'
  BY <1>1, <1>2, <1>3, <1>4, <1>9, <1>10, ShrinkSettles DEF SettledInv
<1>12. OneVerdict'
  BY <1>9, <1>10 DEF IInv, OneVerdict
<1>13. TypeOK'
  BY <1>1, <1>3, <1>4, <1>9, <1>10 DEF TypeOK
<1>14. attempt'[s.id].env \in applied'
  BY <1>1, <1>3, <1>9 DEF EnvelopeOf
<1> QED  BY <1>1, <1>2, <1>4, <1>5, <1>6, <1>7, <1>10, <1>11, <1>12, <1>13, <1>14, StayStep

\* The steps around an event in flight, together.
LEMMA RecipientSteps == ASSUME IInv, NEW m \in wire, RecipientStep(m) PROVE IInv'
BY RecipientAcceptsStep, RecipientRefusesStep, WireOnlyStep, RecipientRejectedStep, ReceivedStep
   DEF RecipientStep

----------------------------------------------------------------------------
(* Time, failure, and the invariant.                                       *)

\* Steps that change rows, and perhaps lapsed, only.
LEMMA RowOnlyStep ==
  ASSUME IInv, RowsShrink, RowsSteady, row' \in [Envelopes -> Row],
         UNCHANGED <<attempt, started, ahead, worker, claims, wire, applied, settled>>,
         lapsed \subseteq lapsed', lapsed' \in SUBSET Envelopes
  PROVE  IInv'
<1>1. HandlersStay /\ HandlersSteady
  BY SameHandlers
<1>2. WorkersSteady
  BY DEF WorkersSteady
<1>3. WorkersInv'
  BY <1>1, WorkersStay DEF WorkersInv
<1>4. WireInv'
  BY <1>1, WireStays DEF WireInv
<1>5. SettledInv' /\ OneVerdict'
  BY <1>1, ShrinkSettledInv
<1>6. TypeOK'
  BY DEF IInv, TypeOK
<1> QED  BY <1>1, <1>2, <1>3, <1>4, <1>5, <1>6, StayStep

\* Leases and rows end.
LEMMA TimeSteps == ASSUME IInv, NEW e \in Envelopes, TimeStep(e) PROVE IInv'
<1>0. TypeOK /\ RowsInv /\ row[e] \in Row
  BY DEF IInv, TypeOK
<1>1. UNCHANGED <<attempt, started, ahead, worker, claims, wire, applied, settled>>
  BY DEF TimeStep, LeaseLapses, Expire, Purge, handlers, recipient
<1>2. CASE LeaseLapses(e)
  <2>1. PICK q : q = [row[e] EXCEPT !.leased = FALSE]
    OBVIOUS
  <2>2. /\ q \in Row /\ q.state = row[e].state /\ q.id = row[e].id /\ q.claim = row[e].claim
        /\ q.slot = row[e].slot /\ q.expired = row[e].expired
        /\ q.terminalClaim = row[e].terminalClaim
    BY <1>0, <2>1 DEF Row
  <2>3. row[e].state # "none"
    BY <1>0, <1>2 DEF LeaseLapses, RowsInv, NoRow
  <2>4. row' = [row EXCEPT ![e] = q] /\ lapsed' = lapsed
    BY <1>2, <2>1 DEF LeaseLapses
  <2>5. /\ row' \in [Envelopes -> Row] /\ row'[e] = q
        /\ \A f \in Envelopes : f # e => row'[f] = row[f]
    BY <1>0, <2>2, <2>4 DEF TypeOK
  <2>6. RowsShrink /\ RowsSteady
    BY <1>0, <2>2, <2>3, <2>5 DEF RowsShrink, RowsSteady, RowsInv
  <2> QED  BY <1>0, <1>1, <2>4, <2>5, <2>6, RowOnlyStep DEF TypeOK
<1>3. CASE Expire(e)
  <2>1. PICK q : q = [row[e] EXCEPT !.expired = TRUE]
    OBVIOUS
  <2>2. /\ q \in Row /\ q.state = row[e].state /\ q.id = row[e].id /\ q.claim = row[e].claim
        /\ q.slot = row[e].slot /\ q.expired
        /\ q.terminalClaim = row[e].terminalClaim
    BY <1>0, <2>1 DEF Row
  <2>3. row[e].state # "none"
    BY <1>3 DEF Expire
  <2>4. row' = [row EXCEPT ![e] = q] /\ lapsed' = lapsed \cup {e}
    BY <1>3, <2>1 DEF Expire
  <2>5. /\ row' \in [Envelopes -> Row] /\ row'[e] = q
        /\ \A f \in Envelopes : f # e => row'[f] = row[f]
    BY <1>0, <2>2, <2>4 DEF TypeOK
  <2>6. RowsShrink /\ RowsSteady
    BY <1>0, <2>2, <2>3, <2>4, <2>5 DEF RowsShrink, RowsSteady, RowsInv
  <2> QED  BY <1>0, <1>1, <2>4, <2>5, <2>6, RowOnlyStep DEF TypeOK
<1>4. CASE Purge(e)
  <2>1. row' = [row EXCEPT ![e] = NoRow] /\ lapsed' = lapsed /\ e \in lapsed
    BY <1>0, <1>4 DEF Purge, RowsInv
  <2>2. NoRow \in Row /\ NoRow.state = "none" /\ NoRow.expired = FALSE
    BY BoundsFacts DEF NoRow
  <2>3. /\ row' \in [Envelopes -> Row] /\ row'[e] = NoRow
        /\ \A f \in Envelopes : f # e => row'[f] = row[f]
    BY <1>0, <2>1, <2>2 DEF TypeOK
  <2>4. RowsShrink /\ RowsSteady
    BY <1>0, <2>1, <2>2, <2>3 DEF RowsShrink, RowsSteady, RowsInv
  <2> QED  BY <1>0, <1>1, <2>1, <2>3, <2>4, RowOnlyStep DEF TypeOK
<1> QED  BY <1>2, <1>3, <1>4 DEF TimeStep

\* The relay process stops.
LEMMA CrashStep == ASSUME IInv, Crash PROVE IInv'
<1>0. TypeOK /\ AcksInv
  BY DEF IInv
<1>1. UNCHANGED <<row, started, ahead, claims, applied, settled, lapsed>> /\ wire' = {}
  BY DEF Crash
<1>2. /\ attempt' \in [Attempts -> Attempt]
      /\ \A b \in Attempts :
           /\ attempt'[b].env = attempt[b].env /\ attempt'[b].ack = attempt[b].ack
           /\ \/ attempt'[b] = attempt[b] /\ attempt[b].pc \in {"idle", "done"}
              \/ attempt[b].pc \notin {"idle", "done"} /\ attempt'[b].pc = "done"
  <2>1. ASSUME NEW b \in Attempts
        PROVE  /\ attempt'[b] \in Attempt
               /\ attempt'[b].env = attempt[b].env /\ attempt'[b].ack = attempt[b].ack
               /\ \/ attempt'[b] = attempt[b] /\ attempt[b].pc \in {"idle", "done"}
                  \/ attempt[b].pc \notin {"idle", "done"} /\ attempt'[b].pc = "done"
    <3>1. CASE attempt[b].pc \in {"idle", "done"}
      BY <1>0, <3>1 DEF Crash, TypeOK
    <3>2. CASE attempt[b].pc \notin {"idle", "done"}
      <4>1. attempt'[b] = NewAttempt("done", attempt[b].env, "mailbox")
        BY <3>2 DEF Crash
      <4>2. attempt[b].env \in Envelopes /\ "done" \in AttemptPCs
        BY <1>0 DEF TypeOK, Attempt, AttemptPCs
      <4>3. attempt'[b] \in Attempt
        BY <4>1, <4>2, BoundsFacts
      <4>4. attempt[b].ack = "none"
        BY <1>0, <3>2 DEF AcksInv
      <4> QED  BY <3>2, <4>1, <4>3, <4>4 DEF NewAttempt
    <3> QED  BY <3>1, <3>2
  <2>2. attempt' = [b \in Attempts |-> attempt'[b]]
    BY DEF Crash
  <2> QED  BY <2>1, <2>2
<1>3. /\ worker' \in [Workers -> Worker]
      /\ \A v \in Workers : worker'[v].pc = "idle"
  BY BoundsFacts DEF Crash, IdleWorker
<1>4. HandlersSteady
  BY <1>1, <1>2 DEF HandlersSteady, Unstored
<1>5. HandlersStay
  BY <1>2, <1>4 DEF HandlersStay
<1>6. RowsShrink /\ RowsSteady
  BY <1>1, SameRows
<1>7. WorkersSteady /\ WorkersInv' /\ WireInv'
  BY <1>1, <1>3 DEF WorkersSteady, WorkersInv, WireInv
<1>8. TypeOK'
  BY <1>0, <1>1, <1>2, <1>3 DEF TypeOK
<1>9. SettledInv' /\ OneVerdict'
  BY <1>1, <1>4, <1>6, ShrinkSettledInv
<1> QED  BY <1>1, <1>5, <1>6, <1>7, <1>8, <1>9, StayStep

\* The empty mailbox satisfies the invariant.
LEMMA InitIInv == Init => IInv
<1>1. SUFFICES ASSUME Init PROVE IInv
  OBVIOUS
<1>2. PICK e0 \in Envelopes :
        attempt = [a \in Attempts |-> NewAttempt("idle", e0, "mailbox")]
  BY <1>1 DEF Init
<1>3. /\ row = [f \in Envelopes |-> NoRow] /\ started = 0
      /\ ahead = [a \in Attempts |-> {}] /\ worker = [w \in Workers |-> IdleWorker]
      /\ claims = 0 /\ wire = {} /\ applied = {} /\ settled = {} /\ lapsed = {}
  BY <1>1 DEF Init
<1>4. "idle" \in AttemptPCs
  BY DEF AttemptPCs
<1>5. TypeOK
  BY <1>2, <1>3, <1>4, BoundsFacts DEF TypeOK
<1>6. /\ \A a \in Attempts : attempt[a].pc = "idle" /\ attempt[a].ack = "none"
      /\ \A e \in Envelopes : row[e].state = "none" /\ row[e] = NoRow /\ ~row[e].expired
      /\ \A w \in Workers : worker[w].pc = "idle"
  BY <1>2, <1>3 DEF NewAttempt, NoRow, IdleWorker
<1>7. HandlersInv
  BY <1>3, <1>6, BoundsFacts DEF HandlersInv, Attempts
<1>8. RowsInv /\ SlotsInv /\ WorkersInv /\ WireInv /\ SettledInv /\ FifoInv /\ OneVerdict
  BY <1>3, <1>6 DEF RowsInv, SlotsInv, WorkersInv, WireInv, SettledInv, FifoInv, OneVerdict,
                   Active
<1>9. AcksInv /\ StoredIsKept /\ AcceptedIsApplied /\ TerminalIsRemembered /\ CausalFifo
  BY <1>3, <1>6 DEF AcksInv, StoredIsKept, AcceptedIsApplied, TerminalIsRemembered,
                   CausalFifo, Active
<1> QED  BY <1>5, <1>7, <1>8, <1>9 DEF IInv

\* Every step keeps the invariant.
LEMMA NextIInv == IInv /\ [Next]_vars => IInv'
<1>1. SUFFICES ASSUME IInv, [Next]_vars PROVE IInv'
  OBVIOUS
<1>2. CASE UNCHANGED vars
  <2>1. RowsShrink /\ RowsSteady
    BY <1>1, <1>2, SameRows DEF vars
  <2> QED  BY <1>1, <1>2, <2>1, RowOnlyStep DEF vars, IInv, TypeOK
<1>3. CASE Next
  BY <1>1, <1>3, SendSteps, WorkerSteps, RecipientSteps, TimeSteps, CrashStep DEF Next
<1> QED  BY <1>1, <1>2, <1>3

----------------------------------------------------------------------------
(* The theorems.                                                           *)

\* The mailbox invariant holds in every state the relay, its clients and its
\* database reach.
THEOREM MailboxInvariant == Spec => []IInv
BY InitIInv, NextIInv, PTL DEF Spec

\* Every variable stays in its type: in particular the slot loop of
\* storeOfflineMessage never leaves 0..Slots-1 and terminates after Slots tries.
THEOREM TypeCorrect == Spec => []TypeOK
<1>1. IInv => TypeOK
  BY DEF IInv
<1> QED  BY <1>1, MailboxInvariant, PTL

\* A sender told "stored" does not lose the envelope.
THEOREM StoredIsKeptAlways == Spec => []StoredIsKept
<1>1. IInv => StoredIsKept
  BY DEF IInv
<1> QED  BY <1>1, MailboxInvariant, PTL

\* Nobody is told "accepted" before the recipient has committed.
THEOREM AcceptedIsAppliedAlways == Spec => []AcceptedIsApplied
<1>1. IInv => AcceptedIsApplied
  BY DEF IInv
<1> QED  BY <1>1, MailboxInvariant, PTL

\* A terminal rejection told to a sender is remembered until its TTL.
THEOREM TerminalIsRememberedAlways == Spec => []TerminalIsRemembered
<1>1. IInv => TerminalIsRemembered
  BY DEF IInv
<1> QED  BY <1>1, MailboxInvariant, PTL

\* A stored row gets one verdict under one claim.
THEOREM OneVerdictAlways == Spec => []OneVerdict
<1>1. IInv => OneVerdict
  BY DEF IInv
<1> QED  BY <1>1, MailboxInvariant, PTL

\* The slot index alone keeps the mailbox within its quota.
THEOREM WithinQuotaAlways == Spec => []WithinQuota
<1>1. IInv => WithinQuota
  BY QuotaFromSlots DEF IInv
<1> QED  BY <1>1, MailboxInvariant, PTL

\* Rows are leased in causal order.
THEOREM CausalFifoAlways == Spec => []CausalFifo
<1>1. IInv => CausalFifo
  BY DEF IInv
<1> QED  BY <1>1, MailboxInvariant, PTL

----------------------------------------------------------------------------
(* The mailbox implements MailboxPromise.                                  *)

FateMap == [e \in Envelopes |-> FateOf(e)]

\* The fate of an envelope follows the state of its row.
LEMMA FateStates ==
  ASSUME TypeOK, NEW e \in Envelopes
  PROVE  /\ FateMap[e] = "absent"  <=> row[e].state = "none"
         /\ FateMap[e] = "queued"  <=> row[e].state = "active"
         /\ FateMap[e] = "refused" <=> row[e].state = "rejected"
         /\ FateMap[e] \in {"absent", "queued", "refused"}
<1>1. row[e].state \in RowStates
  BY DEF TypeOK, Row
<1> QED  BY <1>1 DEF FateMap, FateOf, RowStates

\* Rows that keep their states keep their fates.
LEMMA SameFates ==
  ASSUME TypeOK, TypeOK', \A e \in Envelopes : row'[e].state = row[e].state
  PROVE  FateMap' = FateMap
<1>1. \A e \in Envelopes : row[e].state \in RowStates
  BY DEF TypeOK, Row
<1>2. \A e \in Envelopes : FateOf(e)' = FateOf(e)
  BY <1>1 DEF FateOf, RowStates
<1> QED  BY <1>2 DEF FateMap

\* One row changes its state.
LEMMA OneFate ==
  ASSUME TypeOK, TypeOK', NEW e0 \in Envelopes, NEW x \in {"absent", "queued", "refused"},
         \A e \in Envelopes : e # e0 => row'[e].state = row[e].state,
         row'[e0].state = IF x = "absent" THEN "none"
                          ELSE IF x = "queued" THEN "active" ELSE "rejected"
  PROVE  FateMap' = [FateMap EXCEPT ![e0] = x]
<1>1. \A e \in Envelopes : row[e].state \in RowStates
  BY DEF TypeOK, Row
<1>2. \A e \in Envelopes : e # e0 => FateOf(e)' = FateOf(e)
  BY <1>1 DEF FateOf, RowStates
<1>3. FateOf(e0)' = x
  BY DEF FateOf
<1> QED  BY <1>2, <1>3 DEF FateMap

PromiseStep == Promise!PNext \/ UNCHANGED Promise!pvars

\* A step under which no row changes its state.
LEMMA StatesKept ==
  ASSUME TypeOK, TypeOK', \A e \in Envelopes : row'[e].state = row[e].state,
         \/ applied' = applied /\ lapsed' = lapsed
         \/ lapsed' = lapsed /\ \E e \in Envelopes : applied' = applied \cup {e}
         \/ applied' = applied /\ \E e \in Envelopes : /\ lapsed' = lapsed \cup {e}
                                                       /\ row[e].state # "none"
  PROVE  PromiseStep
<1>1. FateMap' = FateMap
  BY SameFates
<1>2. CASE applied' = applied /\ lapsed' = lapsed
  BY <1>1, <1>2 DEF PromiseStep, Promise!pvars, FateMap
<1>3. CASE lapsed' = lapsed /\ \E e \in Envelopes : applied' = applied \cup {e}
  <2>1. PICK e \in Envelopes : applied' = applied \cup {e}
    BY <1>3
  <2>2. Promise!Commit(e)
    BY <1>1, <1>3, <2>1 DEF Promise!Commit, FateMap
  <2> QED  BY <2>2 DEF PromiseStep, Promise!PNext
<1>4. CASE applied' = applied /\ \E e \in Envelopes : /\ lapsed' = lapsed \cup {e}
                                                      /\ row[e].state # "none"
  <2>1. PICK e \in Envelopes : lapsed' = lapsed \cup {e} /\ row[e].state # "none"
    BY <1>4
  <2>2. FateMap[e] # "absent"
    BY <2>1, FateStates
  <2>3. Promise!Lapse(e)
    BY <1>1, <1>4, <2>1, <2>2 DEF Promise!Lapse, FateMap
  <2> QED  BY <2>3 DEF PromiseStep, Promise!PNext
<1> QED  BY <1>2, <1>3, <1>4

\* A step that changes one row: it enters, is refused, or goes when it may.
LEMMA OneRowMoves ==
  ASSUME TypeOK, TypeOK', NEW e0 \in Envelopes, applied' = applied, lapsed' = lapsed,
         \A e \in Envelopes : e # e0 => row'[e].state = row[e].state,
         \/ row[e0].state = "none" /\ row'[e0].state = "active"
         \/ row[e0].state # "rejected" /\ row'[e0].state = "rejected"
         \/ row'[e0].state = "none" /\ e0 \in applied \cup lapsed
  PROVE  PromiseStep
<1>1. CASE row[e0].state = "none" /\ row'[e0].state = "active"
  <2>1. FateMap' = [FateMap EXCEPT ![e0] = "queued"]
    BY <1>1, OneFate
  <2>2. FateMap[e0] = "absent"
    BY <1>1, FateStates
  <2>3. Promise!Enqueue(e0)
    BY <2>1, <2>2 DEF Promise!Enqueue, FateMap
  <2> QED  BY <2>3 DEF PromiseStep, Promise!PNext
<1>2. CASE row[e0].state # "rejected" /\ row'[e0].state = "rejected"
  <2>1. FateMap' = [FateMap EXCEPT ![e0] = "refused"]
    BY <1>2, OneFate
  <2>2. FateMap[e0] # "refused"
    BY <1>2, FateStates
  <2>3. Promise!Refuse(e0)
    BY <2>1, <2>2 DEF Promise!Refuse, FateMap
  <2> QED  BY <2>3 DEF PromiseStep, Promise!PNext
<1>3. CASE row'[e0].state = "none" /\ e0 \in applied \cup lapsed
  <2>1. FateMap' = [FateMap EXCEPT ![e0] = "absent"]
    BY <1>3, OneFate
  <2>2. Promise!Remove(e0)
    BY <1>3, <2>1 DEF Promise!Remove, FateMap
  <2> QED  BY <2>2 DEF PromiseStep, Promise!PNext
<1> QED  BY <1>1, <1>2, <1>3

\* Removing by id touches one row at most, and that one is committed.
LEMMA AckPromise ==
  ASSUME IInv, IInv', NEW id \in Attempts, NEW c, AckRow(id, c), EnvelopeOf(id) \in applied,
         applied' = applied, lapsed' = lapsed
  PROVE  PromiseStep
<1>1. TypeOK /\ TypeOK' /\ EnvelopeOf(id) \in Envelopes
  BY DEF IInv, TypeOK, EnvelopeOf, Attempt
<1>2. \A e \in Envelopes : e # EnvelopeOf(id) => row'[e] = row[e]
  BY DEF IInv, RowsInv, AckRow, AckMatches
<1>3. row'[EnvelopeOf(id)] = row[EnvelopeOf(id)] \/ row'[EnvelopeOf(id)].state = "none"
  BY <1>1 DEF AckRow, NoRow
<1>4. PICK e0 \in Envelopes : e0 = EnvelopeOf(id)
  BY <1>1
<1> QED  BY <1>1, <1>2, <1>3, <1>4, StatesKept, OneRowMoves

\* Rejecting by id and claim turns at most one queued envelope into a refused one.
LEMMA RejectPromise ==
  ASSUME IInv, IInv', NEW id \in Attempts, NEW c, RejectRow(id, c),
         applied' = applied, lapsed' = lapsed
  PROVE  PromiseStep
<1>1. TypeOK /\ TypeOK' /\ EnvelopeOf(id) \in Envelopes
  BY DEF IInv, TypeOK, EnvelopeOf, Attempt
<1>2. \A e \in Envelopes : e # EnvelopeOf(id) => row'[e] = row[e]
  BY DEF IInv, RowsInv, RejectRow, RejectMatches, Active
<1>3. \/ row'[EnvelopeOf(id)] = row[EnvelopeOf(id)]
      \/ row[EnvelopeOf(id)].state = "active" /\ row'[EnvelopeOf(id)].state = "rejected"
  BY <1>1 DEF RejectRow, RejectMatches, Active, Tombstone
<1>4. PICK e0 \in Envelopes : e0 = EnvelopeOf(id)
  BY <1>1
<1> QED  BY <1>1, <1>2, <1>3, <1>4, StatesKept, OneRowMoves

\* Every step of the mailbox is a step of the promise or leaves it alone.
LEMMA NextPromise == ASSUME IInv, IInv', [Next]_vars PROVE PromiseStep
<1>0. TypeOK /\ TypeOK'
  BY DEF IInv
<1>1. ASSUME row' = row, lapsed' = lapsed,
             applied' = applied \/ \E e \in Envelopes : applied' = applied \cup {e}
      PROVE  PromiseStep
  BY <1>0, <1>1, StatesKept
<1>2. CASE UNCHANGED vars
  BY <1>1, <1>2 DEF vars
<1>3. ASSUME NEW a \in Attempts, SendStep(a) PROVE PromiseStep
  <2>0. attempt[a].env \in Envelopes /\ applied' = applied /\ lapsed' = lapsed
    BY <1>0, <1>3 DEF TypeOK, Attempt, SendStep, Send, LiveVerdict, LiveUndelivered, Record,
       RecordUpdate, RecordInsert, RecordRecheck, Lookup, Insert, InsertThrows, Recheck, Count,
       HandlerError, RecordError, recipient
  <2>1. CASE row' = row
    BY <1>1, <2>0, <2>1
  <2>2. CASE RecordUpdate(a) /\ row' # row
    <3>1. PICK e0 \in Envelopes : e0 = attempt[a].env
      BY <2>0
    <3>2. row' = [row EXCEPT ![e0] = Tombstone(@, @.terminalClaim)] /\ row[e0].state # "none"
      BY <2>2, <3>1 DEF RecordUpdate
    <3>3. /\ row'[e0].state = "rejected"
          /\ \A e \in Envelopes : e # e0 => row'[e] = row[e]
      BY <1>0, <3>2 DEF TypeOK, Tombstone
    <3>4. CASE row[e0].state = "rejected"
      BY <1>0, <2>0, <3>3, <3>4, StatesKept
    <3>5. CASE row[e0].state # "rejected"
      BY <1>0, <2>0, <3>3, <3>5, OneRowMoves
    <3> QED  BY <3>4, <3>5
  <2>3. CASE RecordInsert(a) /\ row' # row
    <3>1. PICK e0 \in Envelopes : e0 = attempt[a].env
      BY <2>0
    <3>2. /\ row' = [row EXCEPT ![e0] = Tombstone(NewRow(a, NoSlot), NoClaim)]
          /\ row[e0].state = "none"
      BY <2>3, <3>1 DEF RecordInsert
    <3>3. /\ row'[e0].state = "rejected"
          /\ \A e \in Envelopes : e # e0 => row'[e] = row[e]
      BY <1>0, <3>2 DEF TypeOK, Tombstone
    <3> QED  BY <1>0, <2>0, <3>2, <3>3, OneRowMoves
  <2>4. CASE Insert(a)
    <3>1. PICK e0 \in Envelopes : e0 = attempt[a].env
      BY <2>0
    <3>2. row' = [row EXCEPT ![e0] = NewRow(a, attempt[a].slot)] /\ row[e0].state = "none"
      BY <2>4, <3>1 DEF Insert
    <3>3. /\ row'[e0].state = "active"
          /\ \A e \in Envelopes : e # e0 => row'[e] = row[e]
      BY <1>0, <3>2 DEF TypeOK, NewRow
    <3> QED  BY <1>0, <2>0, <3>2, <3>3, OneRowMoves
  <2>5. CASE Count(a)
    <3>1. ~(Cardinality(DeliverableRows) > Slots)
      BY QuotaFromSlots, BoundsFacts DEF IInv
    <3> QED  BY <1>1, <2>0, <2>5, <3>1 DEF Count
  <2> QED  BY <1>3, <2>1, <2>2, <2>3, <2>4, <2>5 DEF SendStep, Send, LiveVerdict,
       LiveUndelivered, Record, RecordRecheck, Lookup, InsertThrows, Recheck, HandlerError,
       RecordError
<1>4. ASSUME NEW w \in Workers, WorkerStep(w) PROVE PromiseStep
  <2>1. CASE ClaimLookup(w) \/ Emit(w) \/ WorkerQuit(w)
    BY <1>1, <2>1 DEF ClaimLookup, Emit, WorkerQuit, recipient
  <2>2. CASE ClaimCas(w)
    <3>1. PICK e \in Envelopes :
            row' = [row EXCEPT ![e] = [@ EXCEPT !.claim = claims + 1, !.leased = TRUE]]
      BY <2>2 DEF ClaimCas
    <3>2. row[e] \in Row
      BY <1>0 DEF TypeOK
    <3>3. PICK p : p = [row[e] EXCEPT !.claim = claims + 1]
      OBVIOUS
    <3>4. PICK q : q = [p EXCEPT !.leased = TRUE]
      OBVIOUS
    <3>5. q.state = row[e].state
      BY <3>2, <3>3, <3>4 DEF Row
    <3>6. row' = [row EXCEPT ![e] = q]
      BY <3>1, <3>3, <3>4
    <3>7. \A f \in Envelopes : row'[f].state = row[f].state
      BY <1>0, <3>5, <3>6 DEF TypeOK
    <3>8. applied' = applied /\ lapsed' = lapsed
      BY <2>2 DEF ClaimCas, recipient
    <3> QED  BY <1>0, <3>7, <3>8, StatesKept
  <2>3. CASE AckClaimed(w)
    <3>1. /\ worker[w].id \in Attempts /\ EnvelopeOf(worker[w].id) \in applied
          /\ applied' = applied /\ lapsed' = lapsed
      BY <2>3 DEF IInv, WorkersInv, AckClaimed, recipient
    <3>2. PICK id \in Attempts, c \in Claims \cup {NoClaim} :
            id = worker[w].id /\ c = worker[w].claim
      BY <1>0, <3>1 DEF TypeOK, Worker
    <3>3. AckRow(id, c)
      BY <2>3, <3>2 DEF AckClaimed
    <3> QED  BY <3>1, <3>2, <3>3, AckPromise
  <2>4. CASE RejectClaimed(w)
    <3>1. worker[w].id \in Attempts /\ applied' = applied /\ lapsed' = lapsed
      BY <2>4 DEF IInv, WorkersInv, RejectClaimed, recipient
    <3>2. PICK id \in Attempts, c \in Claims \cup {NoClaim} :
            id = worker[w].id /\ c = worker[w].claim
      BY <1>0, <3>1 DEF TypeOK, Worker
    <3>3. RejectRow(id, c)
      BY <2>4, <3>2 DEF RejectClaimed
    <3> QED  BY <3>1, <3>3, RejectPromise
  <2> QED  BY <1>4, <2>1, <2>2, <2>3, <2>4 DEF WorkerStep
<1>5. ASSUME NEW m \in wire, RecipientStep(m) PROVE PromiseStep
  <2>0. m.id \in Attempts /\ EnvelopeOf(m.id) \in Envelopes
    BY <1>0 DEF TypeOK, Event, EnvelopeOf, Attempt
  <2>1. CASE RecipientAccepts(m) \/ RecipientRefuses(m) \/ RecipientReports(m) \/ Lose(m)
    BY <1>1, <2>0, <2>1 DEF RecipientAccepts, RecipientRefuses, RecipientReports, Lose
  <2>2. CASE RecipientRejected(m)
    BY <2>0, <2>2, RejectPromise DEF RecipientRejected
  <2>3. CASE Received(m)
    BY <2>0, <2>3, AckPromise DEF Received, IInv, WireInv
  <2> QED  BY <1>5, <2>1, <2>2, <2>3 DEF RecipientStep
<1>6. ASSUME NEW e \in Envelopes, TimeStep(e) PROVE PromiseStep
  <2>0. row[e] \in Row
    BY <1>0 DEF TypeOK
  <2>1. CASE LeaseLapses(e)
    <3>1. \A f \in Envelopes : row'[f].state = row[f].state
      BY <1>0, <2>0, <2>1 DEF LeaseLapses, TypeOK, Row
    <3> QED  BY <1>0, <2>1, <3>1, StatesKept DEF LeaseLapses, recipient
  <2>2. CASE Expire(e)
    <3>1. \A f \in Envelopes : row'[f].state = row[f].state
      BY <1>0, <2>0, <2>2 DEF Expire, TypeOK, Row
    <3> QED  BY <1>0, <2>2, <3>1, StatesKept DEF Expire, recipient
  <2>3. CASE Purge(e)
    <3>1. /\ row'[e].state = "none" /\ e \in lapsed
          /\ \A f \in Envelopes : f # e => row'[f] = row[f]
      BY <1>0, <2>3 DEF Purge, TypeOK, NoRow, IInv, RowsInv
    <3> QED  BY <1>0, <2>3, <3>1, OneRowMoves DEF Purge, recipient
  <2> QED  BY <1>6, <2>1, <2>2, <2>3 DEF TimeStep
<1>7. CASE Crash
  BY <1>1, <1>7 DEF Crash
<1> QED  BY <1>2, <1>3, <1>4, <1>5, <1>6, <1>7 DEF Next

\* The mailbox implements the promise: an envelope leaves it only after the
\* recipient committed it or its TTL ended, and a refused one is not queued
\* again while its tombstone stands.
THEOREM MailboxPromisedAlways == Spec => MailboxPromised
<1>1. Init => Promise!PInit
  <2>1. SUFFICES ASSUME Init PROVE Promise!PInit
    OBVIOUS
  <2>2. \A e \in Envelopes : FateOf(e) = "absent"
    BY <2>1 DEF Init, FateOf, NoRow
  <2> QED  BY <2>1, <2>2 DEF Init, Promise!PInit
<1>2. IInv /\ IInv' /\ [Next]_vars => [Promise!PNext]_(Promise!pvars)
  BY NextPromise DEF PromiseStep
<1> QED  BY <1>1, <1>2, MailboxInvariant, PTL DEF Spec, MailboxPromised, Promise!PSpec
=============================================================================
