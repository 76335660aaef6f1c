---------------------------- MODULE Conversation ----------------------------
(***************************************************************************)
(* One endpoint of a conversation: the engine of                           *)
(* service/src/crypto/modernConversation.ts over the ratchet commits of    *)
(* vodozemacRuntime.ts, the retry loop of delivery/deliveryCoordinator.ts, *)
(* the page that shows the messages (client/src/context/ChatContext.tsx)   *)
(* and the records of the vault, which change by compare-and-set or by a   *)
(* plain write. There are several engines where several tabs have the      *)
(* conversation open, or where an old one lingers in a tab that has opened *)
(* the conversation again.                                                 *)
(*                                                                         *)
(* The first session is established. Contact and trust checks are the      *)
(* freedom of every operation to give up. The browser has navigator.locks. *)
(***************************************************************************)
EXTENDS Naturals, Sequences, FiniteSets, Functions

CONSTANTS
  Engines,      \* bound: ModernConversation objects that exist at a time
  Inbound,      \* the peer's ciphertexts, each of a message of its own
  Legacy,       \* ... those that are not in the room-message-v1 format
  Sends,        \* bound: messages the user sends
  MaxPending,   \* MAX_PENDING, 32 in the code
  Attempts,     \* commits tried for one ciphertext, 4 in the code
  Opens,        \* bound: times the conversation is opened
  Starved,      \* whether the timer that renews an open tab's lease may be late
  Lingering,    \* whether a conversation may be closed while a delivery task is under way
  Unreadable,   \* whether the read that follows a failed commit may fail as well
  None

ASSUME ConversationBounds ==
  /\ Legacy \subseteq Inbound
  /\ Sends \in Nat /\ MaxPending \in Nat /\ Attempts \in Nat \ {0} /\ Opens \in Nat
  /\ {Starved, Lingering, Unreadable} \subseteq BOOLEAN
  /\ None \notin Engines \cup Inbound \cup 1..Sends
  /\ Inbound \cap (1..Sends) = {}

VARIABLES
  vault,      \* the durable records of the room
  status,     \* whether each engine is open
  mux,        \* whether the conversation's transport is the multiplexed one; it stays so
  lease,      \* the tab lease in local storage
  mem,        \* the ratchet an engine holds in memory
  op,         \* the send or receive under way, which holds the tab lock
  job,        \* the holder of an engine's deliveryMutex, unless that is op
  page,       \* the user's messages shown with an engine, and those still to be shown
  opened,     \* times the conversation was opened
  started,    \* messages the user has begun to send
  relayed,    \* messages the relay has stored, under an id it keeps for the ciphertext
  fate,       \* the peer's decision on each message, once the relay has told it
  released,   \* ciphertexts that entered the outbox
  answered    \* the peer's ciphertexts answered with "accepted"

tab == <<status, mux, lease, opened>>
peer == <<relayed, fate>>
logs == <<released, answered>>
vars == <<vault, tab, mem, op, job, page, started, peer, logs>>

----------------------------------------------------------------------------
(* Types.                                                                  *)

Messages == 1..Sends

\* out: message keys used for sending; in: keys consumed by receiving.
Ratchet == [out : Nat, in : SUBSET Inbound]

\* An entry of the outbox; stored: the relay has given an id for it.
Item == [id : Messages, v1 : BOOLEAN, held : BOOLEAN, rejected : BOOLEAN, stored : BOOLEAN]

\* seen: the logs of what was accepted; history: the product's messages, and
\* which of the user's own are marked as held.
Records == {"outbox", "floor", "session", "seen", "history"}

VaultOK ==
  /\ DOMAIN vault = Records
  /\ vault["outbox"] \in Seq(Item) /\ Len(vault["outbox"]) <= MaxPending
  /\ vault["floor"] \in 0..1
  /\ vault["session"] \in Ratchet /\ vault["seen"] \subseteq Inbound
  /\ vault["history"] \in [ids : SUBSET (Inbound \cup Messages), held : SUBSET Messages]

Idle == [pc |-> "idle"]

Blank == [shown |-> {}, due |-> {}]

\* The steps of a receive, and those of a send that hold the delivery mutex.
Receiving == {"decrypt", "accept", "commit", "review", "undo"}
Sending == {"enqueue", "save", "conflict", "verify"}
Delivering == {"floor", "hold", "loop", "answer", "write"}

OpOK(o) ==
  \/ o = Idle
  \/ o.pc \in Receiving /\ o.env \in Inbound
  \/ o.pc = "encrypt" /\ o.id \in Messages
  \/ o.pc \in Sending /\ o.id \in Messages /\ o.tries \in 1..Attempts

TypeOK ==
  /\ VaultOK
  /\ status \in [Engines -> {"open", "closed"}]
  /\ mux \in BOOLEAN
  /\ lease \in Engines \cup {None}
  /\ mem \in [Engines -> Ratchet \cup {None}]
  /\ \A e \in Engines : OpOK(op[e]) /\ (job[e] = Idle \/ job[e].pc \in Delivering)
  /\ page \in [Engines -> [shown : SUBSET Messages,
                           due : SUBSET [id : Messages, replaces : Messages \cup {None}]]]
  /\ opened \in 0..Opens /\ started \in 0..Sends
  /\ relayed \subseteq Messages
  /\ fate \in [Messages -> {"open", "accepted", "rejected"}]
  /\ released \subseteq [id : Messages, key : Nat, replaces : Messages \cup {None}]
  /\ answered \subseteq Inbound

Init ==
  /\ vault = [r \in Records |-> CASE r = "outbox" -> <<>>
                                  [] r = "floor" -> 0
                                  [] r = "session" -> [out |-> 0, in |-> {}]
                                  [] r = "history" -> [ids |-> {}, held |-> {}]
                                  [] OTHER -> {}]
  /\ status = [e \in Engines |-> "closed"]
  /\ mux \in BOOLEAN
  /\ lease = None
  /\ mem = [e \in Engines |-> None]
  /\ op = [e \in Engines |-> Idle]
  /\ job = [e \in Engines |-> Idle]
  /\ page = [e \in Engines |-> Blank]
  /\ opened = 0 /\ started = 0 /\ relayed = {}
  /\ fate = [m \in Messages |-> "open"]
  /\ released = {} /\ answered = {}

----------------------------------------------------------------------------
(* The vault. An update names the value it expects and the next one.       *)

Update(expected, next) == [expected |-> expected, next |-> next]

Matches(updates) == \A r \in DOMAIN updates : vault[r] = updates[r].expected

Written(updates) == \A r \in DOMAIN updates : vault[r] = updates[r].next

\* compareAndSwapRecords, once it has found that all of them match
Swap(updates) ==
  vault' = [r \in Records |-> IF r \in DOMAIN updates THEN updates[r].next ELSE vault[r]]

\* write: whatever is there is replaced
Put(record, value) == vault' = [vault EXCEPT ![record] = value]

----------------------------------------------------------------------------
(* Opening and closing, and the lock between tabs.                         *)

\* withTabLock: the browser's lock of the room is free, and no other engine's
\* lease is in force.
MayEnter(e) ==
  /\ \A f \in Engines : op[f] = Idle
  /\ lease \in {e, None}

\* connect, by a new engine, which owns no lease yet: the session is restored
\* from the vault, and the history joins what the page shows. A lease is taken,
\* and from then on renewed by a timer.
Open(e) ==
  /\ status[e] = "closed" /\ job[e] = Idle
  /\ MayEnter(e) /\ lease = None
  /\ opened < Opens /\ opened' = opened + 1
  /\ status' = [status EXCEPT ![e] = "open"]
  /\ lease' = e
  /\ mem' = [mem EXCEPT ![e] = vault["session"]]
  /\ page' = [page EXCEPT ![e].shown = @ \cup (vault["history"].ids \cap Messages)]
  /\ UNCHANGED <<vault, mux, op, job, started, peer, logs>>

\* close(false): the ratchet and the lease are given up at once. The vault stays
\* unlocked, so that whatever has begun goes on.
Close(e) ==
  /\ status[e] = "open"
  /\ Lingering \/ job[e] = Idle
  /\ status' = [status EXCEPT ![e] = "closed"]
  /\ lease' = IF lease = e THEN None ELSE lease
  /\ mem' = [mem EXCEPT ![e] = None]
  /\ UNCHANGED <<vault, mux, opened, op, job, page, started, peer, logs>>

\* The tab dies in the middle of whatever it was doing; its lease stays.
Die(e) ==
  /\ status[e] = "open"
  /\ status' = [status EXCEPT ![e] = "closed"]
  /\ mem' = [mem EXCEPT ![e] = None]
  /\ op' = [op EXCEPT ![e] = Idle]
  /\ job' = [job EXCEPT ![e] = Idle]
  /\ page' = [page EXCEPT ![e] = Blank]
  /\ UNCHANGED <<vault, mux, lease, opened, started, peer, logs>>

\* 15 seconds without a renewal: the holder is gone, or its timers are late.
Lapse ==
  /\ lease # None
  /\ Starved \/ status[lease] = "closed"
  /\ lease' = None
  /\ UNCHANGED <<vault, status, mux, opened, mem, op, job, page, started, peer, logs>>

\* refreshFallbackLease does not look at whose lease it replaces.
Renew(e) ==
  /\ status[e] = "open"
  /\ lease' = e
  /\ UNCHANGED <<vault, status, mux, opened, mem, op, job, page, started, peer, logs>>

At(e, pc) == op[e].pc = pc

Goto(e, pc) == op' = [op EXCEPT ![e].pc = pc] /\ UNCHANGED tab

\* An operation under the tab lock that returns renews the lease, unless the
\* engine has been closed meanwhile; one that throws does not.
Return(e) ==
  /\ op' = [op EXCEPT ![e] = Idle]
  /\ lease' = IF status[e] = "open" THEN e ELSE lease
  /\ UNCHANGED <<status, mux, opened>>

Throw(e) == op' = [op EXCEPT ![e] = Idle] /\ UNCHANGED tab

\* restoreSessionSnapshot: an engine that was closed gets nothing back.
Hold(e, ratchet) == mem' = [mem EXCEPT ![e] = IF status[e] = "open" THEN ratchet ELSE None]

\* Variant for testing RatchetInStep: a failed operation keeps its ratchet.
RestoredKeeps(e) == mem[e]

\* The ratchet goes back to what the vault has, if the vault still has what
\* this operation started from; otherwise the engine is of no use until the
\* conversation is opened again (quarantineSession).
Restored(e) == IF vault["session"] = op[e].session THEN op[e].session ELSE None

\* Entries in the old format are kept, and marked not to be sent.
HoldLegacy(list) ==
  [i \in DOMAIN list |->
     IF list[i].v1 \/ list[i].rejected THEN list[i] ELSE [list[i] EXCEPT !.held = TRUE]]

\* The list without the entry of this id, of which there is one at most.
Without(list, id) ==
  LET at == {i \in DOMAIN list : list[i].id = id} IN
  IF at = {} THEN list
  ELSE LET k == CHOOSE i \in at : TRUE
       IN SubSeq(list, 1, k - 1) \o SubSeq(list, k + 1, Len(list))

HeldIds == {i.id : i \in {i \in Range(vault["outbox"]) : i.held}}

----------------------------------------------------------------------------
(* Receiving.                                                              *)

\* receiveUnlocked up to the lookup in the logs. What was accepted before is
\* accepted again, whatever the state of the session.
Receive(e, m) ==
  /\ status[e] = "open" /\ MayEnter(e)
  /\ \/ /\ m \in vault["seen"]
        /\ answered' = answered \cup {m}
        /\ Return(e)
     \/ /\ m \notin vault["seen"] /\ mem[e] # None
        /\ op' = [op EXCEPT ![e] = [pc |-> "decrypt", env |-> m, seen |-> vault["seen"]]]
        /\ UNCHANGED <<tab, answered>>
  /\ UNCHANGED <<vault, mem, job, page, started, peer, released>>

\* decryptAndCommitInbound: the vault's session is read, but the ratchet that
\* decrypts is the one in memory. A key is good for one message.
Decrypt(e) ==
  LET m == op[e].env
      spent == mem[e] = None \/ m \in mem[e].in
  IN /\ At(e, "decrypt")
     /\ op' = [op EXCEPT ![e] = [pc |-> IF spent THEN "undo" ELSE "accept", env |-> m,
                                 seen |-> @.seen, session |-> vault["session"]]]
     /\ IF spent THEN UNCHANGED mem ELSE Hold(e, [mem[e] EXCEPT !.in = @ \cup {m}])
     /\ UNCHANGED <<vault, tab, job, page, started, peer, logs>>

\* The oldest format the peer may still use: 1 once it was heard in the new one.
Floor == vault["floor"]

\* Its record as part of a commit: rewritten as it was read, which makes a raise by
\* another task a conflict, or raised.
FloorGuard == Update(Floor, Floor)
FloorRaise == Update(Floor, 1)

\* Variant for testing NoDowngrade: the floor is not consulted.
AdmittedByTransport(e, m) == m \notin Legacy \/ ~mux

\* decodeRoomMessage: the old format is refused by the multiplexed transport
\* and once the peer has been heard in the new one.
Admitted(e, m) == m \notin Legacy \/ (Floor = 0 /\ ~mux)

\* Variant for testing ConsumedIsApplied: the history is left to the page.
AcceptanceUnwritten(e) ==
  [r \in {"session", "seen"} |->
     IF r = "session" THEN Update(op[e].session, mem[e])
                      ELSE Update(op[e].seen, op[e].seen \cup {op[e].env})]

\* buildAcceptanceUpdates: the message joins the logs and the history; the new
\* format raises the floor and holds back what was queued in the old one.
Acceptance(e) ==
  LET o == op[e]
      v1 == o.env \notin Legacy
      touched == {"session", "floor", "seen", "history"}
                   \cup {r \in {"outbox"} : v1 /\ HoldLegacy(vault[r]) # vault[r]}
  IN [r \in touched |->
       CASE r = "session" -> Update(o.session, mem[e])
         [] r = "floor" -> IF v1 THEN FloorRaise ELSE FloorGuard
         [] r = "seen" -> Update(o.seen, o.seen \cup {o.env})
         [] r = "history" -> Update(vault[r], [vault[r] EXCEPT !.ids = @ \cup {o.env}])
         [] r = "outbox" -> Update(vault[r], HoldLegacy(vault[r]))]

\* Refusals, and reads or requests that fail, are undone.
Accept(e) ==
  /\ At(e, "accept")
  /\ \/ /\ Admitted(e, op[e].env) /\ mem[e] # None
        /\ op' = [op EXCEPT ![e] = [pc |-> "commit", env |-> @.env, session |-> @.session,
                                    updates |-> Acceptance(e)]]
     \/ op' = [op EXCEPT ![e].pc = "undo"]
  /\ UNCHANGED <<vault, tab, mem, job, page, started, peer, logs>>

\* The message is in the vault, and the relay is told.
Acknowledge(e) == answered' = answered \cup {op[e].env} /\ Return(e)

\* The commit: done, in conflict, or failed with an unknown outcome. A record
\* that was rewritten with the bytes it had is a conflict too.
Commit(e) ==
  /\ At(e, "commit")
  /\ \/ /\ Matches(op[e].updates) /\ Swap(op[e].updates)
        /\ Acknowledge(e)
     \/ /\ Goto(e, "undo")
        /\ UNCHANGED <<vault, answered>>
     \/ /\ Matches(op[e].updates) /\ Swap(op[e].updates)
        /\ Goto(e, "review")
        /\ UNCHANGED answered
     \/ /\ Goto(e, "review")
        /\ UNCHANGED <<vault, answered>>
  /\ UNCHANGED <<mem, job, page, started, peer, released>>

\* Variant for testing AcceptedIsDurable: the commit is taken to be done.
ReviewTrusting(e) ==
  /\ At(e, "review")
  /\ Acknowledge(e)
  /\ UNCHANGED <<vault, mem, job, page, started, peer, released>>

\* After a commit of unknown outcome the records are read again.
Review(e) ==
  /\ At(e, "review") /\ Written(op[e].updates)
  /\ Acknowledge(e)
  /\ UNCHANGED <<vault, mem, job, page, started, peer, released>>

\* The message was refused, or the records are as they were or cannot be read.
\* The answer is "retryable" or "permanent-rejection".
Undo(e) ==
  /\ At(e, "undo") \/ At(e, "review")
  /\ \E ratchet \in {Restored(e), None} : Hold(e, ratchet)
  /\ Throw(e)
  /\ UNCHANGED <<vault, job, page, started, peer, logs>>

----------------------------------------------------------------------------
(* Sending.                                                                *)

\* sendWithReceipt: a new message, or one that replaces a message the page
\* shows as held.
Send(e, replaced) ==
  /\ status[e] = "open" /\ MayEnter(e) /\ mem[e] # None /\ started < Sends
  /\ replaced # None => replaced \in HeldIds \cap page[e].shown
  /\ started' = started + 1
  /\ op' = [op EXCEPT ![e] = [pc |-> "encrypt", id |-> started + 1, replaces |-> replaced]]
  /\ UNCHANGED <<vault, tab, mem, job, page, peer, logs>>

\* encodeOutboundMessage: the new format if the peer is said or known to understand
\* it, and an error if the transport requires it then.
EncodesV1(hint) == hint \/ Floor = 1
Encodes(hint)   == mux => EncodesV1(hint)

\* encryptAndCommitOutbound, under the delivery mutex, and only if the ratchet in
\* memory is the vault's.
Encrypt(e) ==
  LET old == vault["session"]
      new == [old EXCEPT !.out = @ + 1]
  IN /\ At(e, "encrypt") /\ job[e] = Idle
     /\ \/ \E hint \in BOOLEAN :
             /\ Encodes(hint)
             /\ mem[e] = old
             /\ Hold(e, new)
             /\ op' = [op EXCEPT ![e] = [pc |-> "enqueue", id |-> @.id, replaces |-> @.replaces,
                                         v1 |-> EncodesV1(hint),
                                         session |-> old, next |-> new, tries |-> 1]]
        \/ /\ op' = [op EXCEPT ![e] = Idle]
           /\ UNCHANGED mem
     /\ UNCHANGED <<vault, tab, job, page, started, peer, logs>>

\* The outbox without the entry that is replaced.
Rest(e) == Without(vault["outbox"], op[e].replaces)

Entry(e) ==
  [id |-> op[e].id, v1 |-> op[e].v1, held |-> FALSE, rejected |-> FALSE, stored |-> FALSE]

\* What the callback of sendUnlocked and prepareHeldTextRetry do not refuse.
MayEnqueue(e) ==
  /\ Len(Rest(e)) < MaxPending
  /\ op[e].v1 \/ Floor = 0
  /\ op[e].replaces # None => op[e].v1 /\ op[e].replaces \in HeldIds \cap vault["history"].held

\* Variant for testing NoKeyReuse: the session is not part of the commit.
EnqueueingWithoutSession(e) ==
  [r \in {"outbox", "history"} |->
     IF r = "outbox" THEN Update(vault[r], Append(Rest(e), Entry(e)))
                     ELSE Update(vault[r], [vault[r] EXCEPT !.ids = @ \cup {op[e].id}])]

\* The records a message is enqueued with.
Enqueueing(e) ==
  [r \in {"session", "outbox", "floor", "history"} |->
     CASE r = "session" -> Update(op[e].session, op[e].next)
       [] r = "outbox" -> Update(vault[r], Append(Rest(e), Entry(e)))
       [] r = "floor" -> FloorGuard
       [] r = "history" -> Update(vault[r], [ids |-> (vault[r].ids \ {op[e].replaces}) \cup {op[e].id},
                                             held |-> vault[r].held \ {op[e].replaces}])]

\* A refusal puts the ratchet back.
Enqueue(e) ==
  /\ At(e, "enqueue")
  /\ \/ /\ MayEnqueue(e)
        /\ op' = [op EXCEPT ![e] = [pc |-> "save", id |-> @.id, replaces |-> @.replaces, v1 |-> @.v1,
                                    session |-> @.session, next |-> @.next, tries |-> @.tries,
                                    updates |-> Enqueueing(e)]]
        /\ UNCHANGED <<tab, mem>>
     \/ /\ Hold(e, op[e].session)
        /\ Throw(e)
  /\ UNCHANGED <<vault, job, page, started, peer, logs>>

\* The ciphertext is in the outbox; the page will show the message.
Sent(e) ==
  /\ page' = [page EXCEPT ![e].due = @ \cup {[id |-> op[e].id, replaces |-> op[e].replaces]}]
  /\ Return(e)

Release(e) == released' = released \cup {[id |-> op[e].id, key |-> op[e].next.out, replaces |-> op[e].replaces]}

\* The commit: done, in conflict, or failed with an unknown outcome.
Save(e) ==
  /\ At(e, "save")
  /\ \/ /\ Matches(op[e].updates) /\ Swap(op[e].updates) /\ Release(e)
        /\ Sent(e)
     \/ /\ Goto(e, "conflict")
        /\ UNCHANGED <<vault, page, released>>
     \/ /\ Matches(op[e].updates) /\ Swap(op[e].updates) /\ Release(e)
        /\ Goto(e, "verify")
        /\ UNCHANGED page
     \/ /\ Goto(e, "verify")
        /\ UNCHANGED <<vault, page, released>>
  /\ UNCHANGED <<mem, job, started, peer, answered>>

\* After a conflict, or a failure, the records are read again. ...
Verify(e) ==
  /\ At(e, "conflict") \/ At(e, "verify")
  /\ Written(op[e].updates)
  /\ Sent(e)
  /\ UNCHANGED <<vault, mem, job, started, peer, logs>>

Retryable(e) == At(e, "conflict") /\ vault["session"] = op[e].session /\ op[e].tries < Attempts

\* ... After a conflict elsewhere the same ciphertext is offered again, ...
Rebuild(e) ==
  /\ Retryable(e) /\ ~Written(op[e].updates)
  /\ op' = [op EXCEPT ![e].pc = "enqueue", ![e].tries = @ + 1]
  /\ UNCHANGED <<vault, tab, mem, job, page, started, peer, logs>>

\* ... after anything else the send has failed. If the records cannot be read,
\* the ratchet goes back to what it was without a comparison.
GiveUp(e) ==
  /\ At(e, "conflict") \/ At(e, "verify")
  /\ Unreadable \/ ~(Written(op[e].updates) \/ Retryable(e))
  /\ \E ratchet \in {Restored(e)} \cup {r \in {op[e].session} : Unreadable} : Hold(e, ratchet)
  /\ Throw(e)
  /\ UNCHANGED <<vault, job, page, started, peer, logs>>

----------------------------------------------------------------------------
(* The page.                                                               *)

\* sendWithReceipt has returned, which is after the first attempt to deliver.
Show(e) ==
  /\ \E sent \in page[e].due :
       page' = [page EXCEPT ![e] = [shown |-> (@.shown \ {sent.replaces}) \cup {sent.id},
                                    due |-> @.due \ {sent}]]
  /\ UNCHANGED <<vault, tab, mem, op, job, started, peer, logs>>

\* writeMessages: what the page shows is merged into the history, marks included.
Project(e) ==
  /\ status[e] = "open"
  /\ Put("history", [ids |-> vault["history"].ids \cup page[e].shown,
                     held |-> vault["history"].held \cup (HeldIds \cap page[e].shown)])
  /\ vault' # vault
  /\ UNCHANGED <<tab, mem, op, job, page, started, peer, logs>>

----------------------------------------------------------------------------
(* Delivery. One task at a time has the engine's deliveryMutex.            *)

\* Variant for testing NothingLost: a send does not take the mutex.
MutexFreeOfTasks(e) == status[e] = "open" /\ job[e] = Idle

MutexFree(e) == status[e] = "open" /\ job[e] = Idle /\ op[e].pc \notin Sending

Enter(e, j) == job' = [job EXCEPT ![e] = j]

Leave(e) == job' = [job EXCEPT ![e] = Idle]

\* What a task leaves alone.
aside == <<tab, mem, op, page, started, logs>>

\* The peer's engine has accepted the message or refused it, once and for all.
Told(m, verdict) ==
  /\ m \in relayed /\ fate[m] \in {"open", verdict}
  /\ fate' = [fate EXCEPT ![m] = verdict]

\* retryPending reads the outbox ...
Retry(e) ==
  /\ MutexFree(e) /\ vault["outbox"] # <<>>
  /\ Enter(e, [pc |-> "floor", list |-> vault["outbox"]])
  /\ UNCHANGED <<vault, peer, aside>>

\* ... and then the floor.
ReadFloor(e) ==
  /\ job[e].pc = "floor"
  /\ Enter(e, IF Floor = 1 THEN [job[e] EXCEPT !.pc = "hold"]
                                    ELSE [pc |-> "loop", list |-> job[e].list, k |-> 1])
  /\ UNCHANGED <<vault, peer, aside>>

\* holdLegacyPending: the compare-and-set that succeeds, or eight that do not.
HoldPending(e) ==
  LET held == HoldLegacy(vault["outbox"]) IN
  /\ job[e].pc = "hold"
  /\ \/ /\ HoldLegacy(job[e].list) = job[e].list
        /\ Enter(e, [pc |-> "loop", list |-> job[e].list, k |-> 1])
        /\ UNCHANGED vault
     \/ /\ HoldLegacy(job[e].list) # job[e].list
        /\ Put("outbox", held)
        /\ Enter(e, [pc |-> "loop", list |-> held, k |-> 1])
     \/ /\ HoldLegacy(job[e].list) # job[e].list
        /\ Leave(e)
        /\ UNCHANGED vault
  /\ UNCHANGED <<peer, aside>>

\* Entries the loop of DeliveryCoordinator.retry must pass over, and entries it
\* may: those that were submitted in the last five seconds.
Skipped(e, item) == item.rejected \/ item.held \/ (mux /\ ~item.v1)

Passes(e, from, to) ==
  \A i \in from..to : Skipped(e, job[e].list[i]) \/ job[e].list[i].stored

Finish(e) ==
  /\ job[e].pc = "loop" /\ Passes(e, job[e].k, Len(job[e].list))
  /\ Leave(e)
  /\ UNCHANGED <<vault, peer, aside>>

\* The next entry goes out. The floor is read once more, but only to be told to
\* the transport. A check that fails, and a transport that was closed, end the
\* task.
Submit(e) ==
  /\ job[e].pc = "loop"
  /\ \E k \in job[e].k..Len(job[e].list) :
       LET item == job[e].list[k] IN
       /\ Passes(e, job[e].k, k - 1) /\ ~Skipped(e, item)
       /\ \/ /\ status[e] = "open"
             /\ relayed' = relayed \cup {item.id}
             /\ Enter(e, [pc |-> "answer", list |-> job[e].list, k |-> k])
          \/ Leave(e) /\ UNCHANGED relayed
  /\ UNCHANGED <<vault, fate, aside>>

\* item.relayId and sentAt are set, and the whole list is written back.
Record(e, terminal) ==
  LET k == job[e].k
      list == [job[e].list EXCEPT ![k].stored = TRUE, ![k].rejected = terminal]
  IN Put("outbox", list) /\ Enter(e, [pc |-> "loop", list |-> list, k |-> k + 1])

\* The relay's answer, which may say that the peer has refused the message; or
\* no answer, or a write that fails.
Answer(e) ==
  /\ job[e].pc = "answer"
  /\ \/ Record(e, FALSE) /\ UNCHANGED fate
     \/ Record(e, TRUE) /\ Told(job[e].list[job[e].k].id, "rejected")
     \/ Leave(e) /\ UNCHANGED <<vault, fate>>
  /\ UNCHANGED <<relayed, aside>>

\* acceptDelivery reads the outbox; an entry that is held or was rejected stays.
AcceptDelivery(e, m) ==
  /\ MutexFree(e) /\ Told(m, "accepted")
  /\ \E i \in Range(vault["outbox"]) : i.id = m /\ i.stored /\ ~i.rejected /\ ~i.held
  /\ Enter(e, [pc |-> "write", list |-> Without(vault["outbox"], m)])
  /\ UNCHANGED <<vault, relayed, aside>>

\* rejectDelivery likewise; the entry is kept.
RejectDelivery(e, m) ==
  /\ MutexFree(e) /\ Told(m, "rejected")
  /\ \E i \in DOMAIN vault["outbox"] :
       /\ vault["outbox"][i].id = m /\ vault["outbox"][i].stored /\ ~vault["outbox"][i].rejected
       /\ Enter(e, [pc |-> "write", list |-> [vault["outbox"] EXCEPT ![i].rejected = TRUE]])
  /\ UNCHANGED <<vault, relayed, aside>>

\* ... and then write it.
WriteBack(e) ==
  /\ job[e].pc = "write"
  /\ Put("outbox", job[e].list) \/ UNCHANGED vault
  /\ Leave(e)
  /\ UNCHANGED <<peer, aside>>

----------------------------------------------------------------------------
Next ==
  \/ \E e \in Engines :
       \/ Open(e) \/ Close(e) \/ Die(e) \/ Renew(e)
       \/ \E m \in Inbound : Receive(e, m)
       \/ Decrypt(e) \/ Accept(e) \/ Commit(e) \/ Review(e) \/ Undo(e)
       \/ \E m \in Messages \cup {None} : Send(e, m)
       \/ Encrypt(e) \/ Enqueue(e) \/ Save(e)
       \/ Verify(e) \/ Rebuild(e) \/ GiveUp(e)
       \/ Show(e) \/ Project(e)
       \/ Retry(e) \/ ReadFloor(e) \/ HoldPending(e)
       \/ Finish(e) \/ Submit(e) \/ Answer(e)
       \/ \E m \in relayed : AcceptDelivery(e, m) \/ RejectDelivery(e, m)
       \/ WriteBack(e)
  \/ Lapse

Spec == Init /\ [][Next]_vars

----------------------------------------------------------------------------
(* Properties.                                                             *)

\* RatchetInStep: between operations an engine's ratchet is the vault's, or
\* the engine has none: every way a send or a receive can fail puts it back.
RatchetInStep ==
  \A e \in Engines :
    op[e].pc \in {"idle", "encrypt"} /\ mem[e] # None => mem[e] = vault["session"]

\* NoKeyReuse: no two ciphertexts that entered the outbox use one message key.
NoKeyReuse == \A p, q \in released : p.key = q.key => p = q

\* ConsumedIsApplied: a message key of the peer is spent, durably, only with
\* the message: it is in the log and in the history. Otherwise the message
\* could neither be decrypted again nor be acknowledged.
ConsumedIsApplied ==
  \A m \in vault["session"].in : m \in vault["seen"] /\ m \in vault["history"].ids

\* AcceptedIsDurable: what the relay was told is accepted, and may forget, is
\* in the vault for good.
AcceptedIsDurable ==
  \A m \in answered : m \in vault["seen"] /\ m \in vault["history"].ids

\* NothingLost: a message that entered the outbox stays there until the peer
\* has accepted it or the user has replaced it.
NothingLost ==
  \A p \in released :
    \/ \E i \in Range(vault["outbox"]) : i.id = p.id
    \/ fate[p.id] = "accepted"
    \/ \E q \in released : q.replaces = p.id

\* NoDowngrade: once the peer has been heard in the new format, nothing in the
\* old one is accepted from it and nothing in the old one is enqueued for it,
\* and it stays so.
NoDowngrade ==
  [][vault["floor"] = 1 =>
       /\ vault'["floor"] = 1
       /\ vault'["seen"] \cap Legacy = vault["seen"] \cap Legacy
       /\ {i.id : i \in {i \in Range(vault'["outbox"]) : ~i.v1}}
            \subseteq {i.id : i \in Range(vault["outbox"])}]_vars
=============================================================================
