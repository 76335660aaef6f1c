------------------------- MODULE ConversationProofs -------------------------
(***************************************************************************)
(* Proofs about a conversation's endpoint, for every number of engines,    *)
(* messages, opens and attempts. The types and the logs need no            *)
(* hypothesis. The ratchet is safe because one operation is under way at a *)
(* time and the engine that runs it is the only open one: between the read *)
(* of the vault's session and the commit nobody else moves it, and each    *)
(* step of the operation knows which of two states the vault and the       *)
(* memory are in. The outbox is safe because the task that holds a list    *)
(* and the send that appends to the outbox exclude each other through      *)
(* deliveryMutex.                                                          *)
(***************************************************************************)
EXTENDS Conversation, SequenceTheorems, TLAPS

----------------------------------------------------------------------------
(* The inductive invariant: types first.                                   *)

Outboxes == {l \in Seq(Item) : Len(l) <= MaxPending}
Histories == [ids : SUBSET (Inbound \cup Messages), held : SUBSET Messages]
MaybeRatchet == Ratchet \cup {None}
Replaced == Messages \cup {None}

\* A ratchet after one more message was received, or sent.
Consumes(r, m) == [out |-> r.out, in |-> r.in \cup {m}]
Spends(r) == [out |-> r.out + 1, in |-> r.in]

\* The records an accepted message is committed with.
AcceptanceOK(o) ==
  /\ DOMAIN o.updates \subseteq Records
  /\ Records \ {"outbox"} \subseteq DOMAIN o.updates
  /\ o.updates["session"].expected = o.session /\ o.updates["session"].next \in Ratchet
  /\ o.updates["floor"].expected \in 0..1
  /\ o.updates["floor"].next = IF o.env \in Legacy THEN o.updates["floor"].expected ELSE 1
  /\ o.env \in Legacy => o.updates["floor"].expected = 0
  /\ o.updates["seen"].expected \subseteq Inbound
  /\ o.updates["seen"].next = o.updates["seen"].expected \cup {o.env}
  /\ o.updates["history"].expected \in Histories
  /\ o.updates["history"].next = [ids |-> o.updates["history"].expected.ids \cup {o.env},
                                  held |-> o.updates["history"].expected.held]
  /\ "outbox" \in DOMAIN o.updates =>
       /\ o.updates["outbox"].expected \in Outboxes
       /\ o.updates["outbox"].next = HoldLegacy(o.updates["outbox"].expected)

\* The records a message is enqueued with.
EnqueueingOK(o) ==
  /\ DOMAIN o.updates = {"session", "outbox", "floor", "history"}
  /\ o.updates["session"].expected = o.session /\ o.updates["session"].next = o.next
  /\ o.updates["floor"].expected \in 0..1
  /\ o.updates["floor"].next = o.updates["floor"].expected
  /\ o.v1 \/ o.updates["floor"].expected = 0
  /\ o.updates["outbox"].expected \in Outboxes
  /\ Len(Without(o.updates["outbox"].expected, o.replaces)) < MaxPending
  /\ o.updates["outbox"].next =
       Append(Without(o.updates["outbox"].expected, o.replaces),
              [id |-> o.id, v1 |-> o.v1, held |-> FALSE, rejected |-> FALSE, stored |-> FALSE])
  /\ o.updates["history"].expected \in Histories
  /\ o.updates["history"].next =
       [ids |-> (o.updates["history"].expected.ids \ {o.replaces}) \cup {o.id},
        held |-> o.updates["history"].expected.held \ {o.replaces}]

\* What a receive holds when it decrypts, before its commit, and from then on; ...
Decrypting == [pc : {"decrypt"}, env : Inbound, seen : SUBSET Inbound]
Accepting == [pc : {"accept", "undo"}, env : Inbound, seen : SUBSET Inbound, session : Ratchet]
Committing(o) ==
  /\ o.pc \in {"commit", "review", "undo"}
  /\ o = [pc |-> o.pc, env |-> o.env, session |-> o.session, updates |-> o.updates]
  /\ o.env \in Inbound /\ o.session \in Ratchet
  /\ AcceptanceOK(o)

\* ... a send when it encrypts, before its first commit, and from then on.
Encrypting == [pc : {"encrypt"}, id : Messages, replaces : Replaced]
Queueing == [pc : {"enqueue"}, id : Messages, replaces : Replaced, v1 : BOOLEAN,
             session : Ratchet, next : Ratchet, tries : 1..Attempts]
Saving(o) ==
  /\ o.pc \in Sending
  /\ o = [pc |-> o.pc, id |-> o.id, replaces |-> o.replaces, v1 |-> o.v1,
          session |-> o.session, next |-> o.next, tries |-> o.tries, updates |-> o.updates]
  /\ o.id \in Messages /\ o.replaces \in Replaced /\ o.v1 \in BOOLEAN
  /\ o.session \in Ratchet /\ o.next \in Ratchet /\ o.tries \in 1..Attempts
  /\ EnqueueingOK(o)

OpTyped(o) ==
  \/ o = Idle
  \/ o \in Decrypting \/ o \in Accepting \/ Committing(o)
  \/ o \in Encrypting \/ o \in Queueing \/ Saving(o)

JobTyped(j) ==
  \/ j = Idle
  \/ j \in [pc : {"floor", "hold", "write"}, list : Outboxes]
  \/ j \in [pc : {"loop"}, list : Outboxes, k : Nat \ {0}]
  \/ j \in [pc : {"answer"}, list : Outboxes, k : Nat \ {0}] /\ j.k \in DOMAIN j.list

VaultTyped ==
  /\ vault = [r \in Records |-> vault[r]]
  /\ vault["outbox"] \in Outboxes
  /\ vault["floor"] \in 0..1
  /\ vault["session"] \in Ratchet
  /\ vault["seen"] \subseteq Inbound
  /\ vault["history"] \in Histories

OpsTyped == op = [e \in Engines |-> op[e]] /\ \A e \in Engines : OpTyped(op[e])

JobsTyped == job = [e \in Engines |-> job[e]] /\ \A e \in Engines : JobTyped(job[e])

TabTyped ==
  /\ status \in [Engines -> {"open", "closed"}]
  /\ mux \in BOOLEAN
  /\ lease \in Engines \cup {None}
  /\ opened \in 0..Opens

MemTyped == mem \in [Engines -> MaybeRatchet]

Shown == SUBSET Messages
Due == SUBSET [id : Messages, replaces : Replaced]

PageTyped == page \in [Engines -> [shown : Shown, due : Due]] /\ started \in 0..Sends

PeerTyped == relayed \subseteq Messages /\ fate \in [Messages -> {"open", "accepted", "rejected"}]

LogsTyped ==
  /\ released \subseteq [id : Messages, key : Nat, replaces : Replaced]
  /\ answered \subseteq Inbound

TypeInv ==
  VaultTyped /\ OpsTyped /\ JobsTyped /\ TabTyped /\ MemTyped /\ PageTyped /\ PeerTyped /\ LogsTyped

----------------------------------------------------------------------------
(* Facts about the operators.                                              *)

\* Taking an entry out of a list leaves the entries of the other ids, and adds
\* none.
LEMMA WithoutFacts ==
  ASSUME NEW list \in Seq(Item), NEW id
  PROVE  LET w == Without(list, id) IN
         /\ w \in Seq(Item) /\ Len(w) <= Len(list)
         /\ \A i \in DOMAIN w : \E j \in DOMAIN list : w[i] = list[j]
         /\ \A j \in DOMAIN list : list[j].id # id => \E i \in DOMAIN w : w[i] = list[j]
<1> DEFINE w == Without(list, id)
           at == {i \in DOMAIN list : list[i].id = id}
           k == CHOOSE i \in at : TRUE
<1>1. CASE at = {}
  <2>1. w = list
    BY <1>1 DEF Without
  <2> QED BY <2>1
<1>2. CASE at # {}
  <2>1. k \in 1..Len(list) /\ list[k].id = id
    BY <1>2
  <2> DEFINE s == SubSeq(list, 1, k - 1)
             t == SubSeq(list, k + 1, Len(list))
  <2>2. w = s \o t
    BY <1>2 DEF Without
  <2> HIDE DEF k, w, at
  <2>3. s \in Seq(Item) /\ Len(s) = k - 1 /\ \A i \in 1..(k - 1) : s[i] = list[i]
    BY <2>1, SubSeqProperties
  <2>4. t \in Seq(Item) /\ Len(t) = Len(list) - k /\ \A i \in 1..(Len(list) - k) : t[i] = list[k + i]
    <3>1. k + 1 \in 1..(Len(list) + 1)
      BY <2>1
    <3> QED BY <2>1, <3>1, SubSeqProperties
  <2> HIDE DEF s, t
  <2>5. /\ w \in Seq(Item) /\ Len(w) = Len(list) - 1
        /\ \A i \in 1..(Len(list) - 1) : w[i] = IF i <= k - 1 THEN list[i] ELSE list[i + 1]
    <3>1. Len(list) \in Nat /\ k \in Nat
      BY <2>1
    <3>2. s \o t \in Seq(Item) /\ Len(s \o t) = Len(list) - 1
      <4>1. s \o t \in Seq(Item) /\ Len(s \o t) = Len(s) + Len(t)
        BY <2>3, <2>4, ConcatProperties
      <4> QED BY <2>3, <2>4, <3>1, <4>1
    <3>3. \A i \in 1..(Len(list) - 1) : (s \o t)[i] = IF i <= k - 1 THEN s[i] ELSE t[i - (k - 1)]
      BY <2>3, <2>4, <3>1, <3>2
    <3>4. ASSUME NEW i \in 1..(Len(list) - 1), i > k - 1 PROVE t[i - (k - 1)] = list[i + 1]
      <4>1. i - (k - 1) \in 1..(Len(list) - k) /\ k + (i - (k - 1)) = i + 1
        BY <3>1, <3>4
      <4> QED BY <2>4, <4>1
    <3> QED BY <2>2, <2>3, <3>1, <3>2, <3>3, <3>4
  <2>6. ASSUME NEW j \in DOMAIN list, list[j].id # id PROVE \E i \in DOMAIN w : w[i] = list[j]
    <3>1. CASE j < k
      BY <2>1, <2>5, <3>1
    <3>2. CASE j > k
      <4>1. j - 1 \in DOMAIN w /\ w[j - 1] = list[j]
        BY <2>1, <2>5, <3>2
      <4> QED BY <4>1
    <3>3. j # k
      BY <2>1, <2>6
    <3> QED BY <2>1, <3>1, <3>2, <3>3
  <2>7. ASSUME NEW i \in DOMAIN w PROVE \E j \in DOMAIN list : w[i] = list[j]
    <3>1. i \in 1..(Len(list) - 1)
      BY <2>5
    <3>2. i \in DOMAIN list /\ i + 1 \in DOMAIN list
      BY <3>1
    <3> QED BY <2>5, <3>1, <3>2
  <2>8. Len(w) <= Len(list)
    BY <2>5
  <2> QED BY <2>5, <2>6, <2>7, <2>8 DEF w
<1> QED BY <1>1, <1>2

\* Holding back the entries of the old format (holdLegacyPending,
\* buildAcceptanceUpdates) changes marks only.
LEMMA HoldLegacyFacts ==
  ASSUME NEW list \in Outboxes
  PROVE  LET h == HoldLegacy(list) IN
         /\ h \in Outboxes /\ DOMAIN h = DOMAIN list /\ Len(h) = Len(list)
         /\ \A i \in DOMAIN list : h[i].id = list[i].id /\ h[i].v1 = list[i].v1
<1> DEFINE h == HoldLegacy(list)
<1>1. list \in Seq(Item) /\ Len(list) \in Nat /\ Len(list) <= MaxPending /\ DOMAIN list = 1..Len(list)
  BY DEF Outboxes
<1>2. \A i \in DOMAIN list : list[i] \in Item
  BY <1>1
<1>3. ASSUME NEW i \in DOMAIN list
      PROVE  [list[i] EXCEPT !.held = TRUE] \in Item
             /\ [list[i] EXCEPT !.held = TRUE].id = list[i].id
             /\ [list[i] EXCEPT !.held = TRUE].v1 = list[i].v1
  BY <1>2 DEF Item
<1>4. h = [i \in DOMAIN list |->
             IF list[i].v1 \/ list[i].rejected THEN list[i] ELSE [list[i] EXCEPT !.held = TRUE]]
  BY DEF HoldLegacy
<1> HIDE DEF h
<1>5. \A i \in 1..Len(list) : h[i] \in Item
  BY <1>1, <1>2, <1>3, <1>4
<1>6. DOMAIN h = 1..Len(list)
  BY <1>1, <1>4
<1>7. h \in Seq(Item) /\ Len(h) = Len(list)
  <2>1. h = [i \in 1..Len(list) |-> h[i]]
    BY <1>1, <1>4
  <2> QED BY <1>1, <1>5, <1>6, <2>1
<1>8. \A i \in DOMAIN list : h[i].id = list[i].id /\ h[i].v1 = list[i].v1
  BY <1>3, <1>4
<1> QED BY <1>1, <1>6, <1>7, <1>8 DEF Outboxes, h

\* An engine's operation is replaced; the other engines' are not.
LEMMA OpSet ==
  ASSUME OpsTyped, NEW e \in Engines, NEW o, OpTyped(o), op' = [op EXCEPT ![e] = o]
  PROVE  OpsTyped' /\ op'[e] = o /\ \A f \in Engines \ {e} : op'[f] = op[f]
<1>1. op'[e] = o /\ (\A f \in Engines \ {e} : op'[f] = op[f]) /\ op' = [f \in Engines |-> op'[f]]
  BY DEF OpsTyped
<1>2. \A f \in Engines : OpTyped(op'[f])
  BY <1>1 DEF OpsTyped
<1> QED BY <1>1, <1>2 DEF OpsTyped

\* An engine's delivery task is replaced; the other engines' are not.
LEMMA JobSet ==
  ASSUME JobsTyped, NEW e \in Engines, NEW j, JobTyped(j), job' = [job EXCEPT ![e] = j]
  PROVE  JobsTyped' /\ job'[e] = j /\ \A f \in Engines \ {e} : job'[f] = job[f]
<1>1. job'[e] = j /\ (\A f \in Engines \ {e} : job'[f] = job[f]) /\ job' = [f \in Engines |-> job'[f]]
  BY DEF JobsTyped
<1>2. \A f \in Engines : JobTyped(job'[f])
  BY <1>1 DEF JobsTyped
<1> QED BY <1>1, <1>2 DEF JobsTyped

\* An engine gets a ratchet, or none if it has been closed.
LEMMA HoldFacts ==
  ASSUME MemTyped, NEW e \in Engines, NEW r \in MaybeRatchet, Hold(e, r)
  PROVE  /\ MemTyped' /\ \A f \in Engines \ {e} : mem'[f] = mem[f]
         /\ mem'[e] = IF status[e] = "open" THEN r ELSE None
BY DEF Hold, MemTyped, MaybeRatchet

\* A plain write changes one record.
LEMMA PutFacts ==
  ASSUME VaultTyped, NEW r \in Records, NEW v, Put(r, v)
  PROVE  /\ vault' = [s \in Records |-> vault'[s]]
         /\ vault'[r] = v /\ \A s \in Records \ {r} : vault'[s] = vault[s]
BY DEF Put, VaultTyped

\* What an operation holds at each of its steps.
LEMMA OpShapes ==
  ASSUME NEW o, OpTyped(o)
  PROVE  /\ o.pc = "idle" <=> o = Idle
         /\ o.pc = "decrypt" => o \in Decrypting
         /\ o.pc = "accept" => o \in Accepting
         /\ o.pc \in {"commit", "review"} => Committing(o)
         /\ o.pc = "undo" => o.session \in Ratchet
         /\ o.pc = "encrypt" => o \in Encrypting
         /\ o.pc = "enqueue" => o \in Queueing \/ Saving(o)
         /\ o.pc \in Sending \ {"enqueue"} => Saving(o)
BY DEF OpTyped, Idle, Decrypting, Accepting, Committing, Encrypting, Queueing, Saving, Sending

\* The bounds, as they are used.
LEMMA NoneFacts ==
  /\ None \notin Engines /\ None \notin Inbound /\ None \notin Messages
  /\ Inbound \cap Messages = {} /\ Legacy \subseteq Inbound
  /\ Sends \in Nat /\ MaxPending \in Nat /\ Attempts \in Nat \ {0} /\ Opens \in Nat
  /\ Starved \in BOOLEAN /\ Lingering \in BOOLEAN /\ Unreadable \in BOOLEAN
BY ConversationBounds DEF Messages

\* The names of the steps.
LEMMA PcFacts ==
  /\ Sending = {"enqueue", "save", "conflict", "verify"}
  /\ Idle = [pc |-> "idle"] /\ Idle.pc = "idle"
BY DEF Sending, Idle

\* What the commit of an accepted message does.
LEMMA AcceptanceSwap ==
  ASSUME VaultTyped, NEW o, Committing(o), Matches(o.updates), Swap(o.updates)
  PROVE  /\ VaultTyped'
         /\ vault["session"] = o.session /\ vault'["session"] = o.updates["session"].next
         /\ vault'["seen"] = vault["seen"] \cup {o.env}
         /\ vault'["history"].ids = vault["history"].ids \cup {o.env}
         /\ vault'["floor"] = IF o.env \in Legacy THEN vault["floor"] ELSE 1
         /\ o.env \in Legacy => vault["floor"] = 0
         /\ vault'["outbox"] \in {vault["outbox"], HoldLegacy(vault["outbox"])}
<1> DEFINE u == o.updates
<1>1. AcceptanceOK(o) /\ o.env \in Inbound
  BY DEF Committing
<1>2. DOMAIN u \subseteq Records /\ {"session", "floor", "seen", "history"} \subseteq DOMAIN u
  BY <1>1 DEF AcceptanceOK, Records
<1>3. \A r \in DOMAIN u : vault[r] = u[r].expected /\ vault'[r] = u[r].next
  BY <1>2 DEF Matches, Swap
<1>4. \A r \in Records \ DOMAIN u : vault'[r] = vault[r]
  BY <1>2 DEF Swap
<1>5. vault' = [r \in Records |-> vault'[r]]
  BY DEF Swap
<1> HIDE DEF u
<1>6. /\ vault["session"] = o.session /\ vault'["session"] = o.updates["session"].next
      /\ vault'["session"] \in Ratchet
  BY <1>1, <1>2, <1>3 DEF AcceptanceOK, u
<1>7. /\ vault'["floor"] = IF o.env \in Legacy THEN vault["floor"] ELSE 1
      /\ o.env \in Legacy => vault["floor"] = 0
      /\ vault["floor"] \in 0..1
  BY <1>1, <1>2, <1>3 DEF AcceptanceOK, u
<1>8. vault'["seen"] = vault["seen"] \cup {o.env} /\ vault["seen"] \subseteq Inbound
  BY <1>1, <1>2, <1>3 DEF AcceptanceOK, u
<1>9. /\ vault'["history"] = [ids |-> vault["history"].ids \cup {o.env}, held |-> vault["history"].held]
      /\ vault["history"] \in Histories
  BY <1>1, <1>2, <1>3 DEF AcceptanceOK, u
<1>10. vault'["history"] \in Histories
  BY <1>1, <1>9 DEF Histories
<1>11. vault'["outbox"] \in {vault["outbox"], HoldLegacy(vault["outbox"])}
  <2>1. CASE "outbox" \in DOMAIN u
    BY <1>1, <1>3, <2>1 DEF AcceptanceOK, u
  <2>2. CASE "outbox" \notin DOMAIN u
    BY <1>4, <2>2 DEF Records
  <2> QED BY <2>1, <2>2
<1>12. vault'["outbox"] \in Outboxes
  BY <1>11, HoldLegacyFacts DEF VaultTyped
<1>13. VaultTyped'
  BY <1>1, <1>5, <1>6, <1>7, <1>8, <1>10, <1>12 DEF VaultTyped
<1> QED BY <1>6, <1>7, <1>8, <1>9, <1>11, <1>13

\* What the commit of a message to be sent does.
LEMMA EnqueueSwap ==
  ASSUME VaultTyped, NEW o, Saving(o), Matches(o.updates), Swap(o.updates)
  PROVE  /\ VaultTyped'
         /\ vault["session"] = o.session /\ vault'["session"] = o.next
         /\ vault'["seen"] = vault["seen"]
         /\ vault'["history"].ids = (vault["history"].ids \ {o.replaces}) \cup {o.id}
         /\ vault'["floor"] = vault["floor"] /\ (o.v1 \/ vault["floor"] = 0)
         /\ \A i \in DOMAIN vault["outbox"] :
              vault["outbox"][i].id # o.replaces =>
                \E k \in DOMAIN vault'["outbox"] : vault'["outbox"][k] = vault["outbox"][i]
         /\ \E k \in DOMAIN vault'["outbox"] : vault'["outbox"][k].id = o.id
         /\ \A k \in DOMAIN vault'["outbox"] :
              \/ vault'["outbox"][k].v1 = o.v1
              \/ \E i \in DOMAIN vault["outbox"] : vault'["outbox"][k] = vault["outbox"][i]
<1> DEFINE u == o.updates
           old == vault["outbox"]
           rest == Without(old, o.replaces)
           entry == [id |-> o.id, v1 |-> o.v1, held |-> FALSE, rejected |-> FALSE, stored |-> FALSE]
           new == vault'["outbox"]
<1>1. /\ EnqueueingOK(o) /\ o.id \in Messages /\ o.replaces \in Replaced
      /\ o.v1 \in BOOLEAN /\ o.next \in Ratchet
  BY DEF Saving
<1>2. DOMAIN u = {"session", "outbox", "floor", "history"}
  BY <1>1 DEF EnqueueingOK
<1>3. \A r \in {"session", "outbox", "floor", "history"} : vault[r] = u[r].expected /\ vault'[r] = u[r].next
  BY <1>2 DEF Matches, Swap, Records
<1>4. vault'["seen"] = vault["seen"] /\ vault["seen"] \subseteq Inbound
  BY <1>2 DEF Swap, VaultTyped, Records
<1>5. vault' = [r \in Records |-> vault'[r]]
  BY DEF Swap
<1>6. vault["session"] = o.session /\ vault'["session"] = o.next
  BY <1>1, <1>3 DEF EnqueueingOK
<1>7. vault'["floor"] = vault["floor"] /\ (o.v1 \/ vault["floor"] = 0) /\ vault["floor"] \in 0..1
  BY <1>1, <1>3 DEF EnqueueingOK
<1>8. /\ vault'["history"] = [ids |-> (vault["history"].ids \ {o.replaces}) \cup {o.id},
                              held |-> vault["history"].held \ {o.replaces}]
      /\ vault["history"] \in Histories
  BY <1>1, <1>3 DEF EnqueueingOK
<1>9. vault'["history"] \in Histories
  BY <1>1, <1>8 DEF Histories
<1>10. new = Append(rest, entry) /\ Len(rest) < MaxPending /\ old \in Seq(Item)
  BY <1>1, <1>3 DEF EnqueueingOK, Outboxes
<1>11. /\ rest \in Seq(Item)
       /\ \A i \in DOMAIN rest : \E j \in DOMAIN old : rest[i] = old[j]
       /\ \A j \in DOMAIN old : old[j].id # o.replaces => \E i \in DOMAIN rest : rest[i] = old[j]
  BY <1>10, WithoutFacts
<1>12. entry \in Item /\ entry.id = o.id /\ entry.v1 = o.v1
  BY <1>1 DEF Item
<1> HIDE DEF rest, entry
<1>13. /\ new \in Seq(Item) /\ Len(new) = Len(rest) + 1
       /\ \A i \in 1..Len(rest) : new[i] = rest[i]
       /\ new[Len(rest) + 1] = entry
       /\ DOMAIN new = 1..(Len(rest) + 1) /\ DOMAIN rest = 1..Len(rest) /\ Len(rest) \in Nat
  <2> HIDE DEF new, old
  <2> QED BY <1>10, <1>11, <1>12, AppendProperties
<1>14. new \in Outboxes
  BY <1>10, <1>13, NoneFacts DEF Outboxes
<1>15. VaultTyped'
  BY <1>1, <1>4, <1>5, <1>6, <1>7, <1>9, <1>14 DEF VaultTyped
<1>16. \A i \in DOMAIN old : old[i].id # o.replaces => \E k \in DOMAIN new : new[k] = old[i]
  <2> HIDE DEF new, old
  <2>1. \A k \in DOMAIN rest : k \in DOMAIN new /\ new[k] = rest[k]
    BY <1>13
  <2> QED BY <1>11, <2>1
<1>17. \E k \in DOMAIN new : new[k].id = o.id
  <2> HIDE DEF new, old
  <2>1. Len(rest) + 1 \in DOMAIN new
    BY <1>13
  <2> QED BY <1>12, <1>13, <2>1
<1>18. \A k \in DOMAIN new : new[k].v1 = o.v1 \/ \E i \in DOMAIN old : new[k] = old[i]
  <2> HIDE DEF new, old
  <2>1. \A k \in DOMAIN new : k \in DOMAIN rest \/ k = Len(rest) + 1
    BY <1>13
  <2> QED BY <1>11, <1>12, <1>13, <2>1
<1> QED BY <1>6, <1>7, <1>4, <1>8, <1>15, <1>16, <1>17, <1>18

\* A record of the vault that is written keeps the types.
LEMMA PutOutbox ==
  ASSUME VaultTyped, NEW list \in Outboxes, Put("outbox", list)
  PROVE  VaultTyped' /\ vault'["outbox"] = list /\ \A s \in Records \ {"outbox"} : vault'[s] = vault[s]
<1>1. /\ vault' = [s \in Records |-> vault'[s]] /\ vault'["outbox"] = list
      /\ \A s \in Records \ {"outbox"} : vault'[s] = vault[s]
  <2>1. "outbox" \in Records
    BY DEF Records
  <2> QED BY <2>1, PutFacts
<1> QED BY <1>1 DEF VaultTyped, Records

----------------------------------------------------------------------------
(* Every step keeps the types.                                             *)

\* connect keeps the types.
LEMMA OpenTyped ==
  ASSUME TypeInv, NEW e \in Engines, Open(e)
  PROVE  TypeInv'
<1>1. TabTyped' /\ MemTyped'
  BY NoneFacts DEF TypeInv, Open, TabTyped, MemTyped, VaultTyped, MaybeRatchet
<1>2. PageTyped'
  <2>1. \A f \in Engines : page[f] \in [shown : Shown, due : Due]
    BY DEF TypeInv, PageTyped
  <2>2. page[e].shown \cup (vault["history"].ids \cap Messages) \in Shown
    BY <2>1 DEF Shown
  <2> DEFINE p == [page[e] EXCEPT !.shown = @ \cup (vault["history"].ids \cap Messages)]
  <2>3. p \in [shown : Shown, due : Due]
    BY <2>1, <2>2
  <2>4. page' = [page EXCEPT ![e] = p]
    BY DEF Open
  <2> HIDE DEF p
  <2>5. page' \in [Engines -> [shown : Shown, due : Due]]
    BY <2>3, <2>4 DEF TypeInv, PageTyped
  <2> QED BY <2>5 DEF TypeInv, PageTyped, Open
<1>3. VaultTyped' /\ OpsTyped' /\ JobsTyped' /\ PeerTyped' /\ LogsTyped'
  BY DEF TypeInv, Open, VaultTyped, OpsTyped, JobsTyped, PeerTyped, LogsTyped, peer, logs
<1> QED BY <1>1, <1>2, <1>3 DEF TypeInv

\* close keeps the types.
LEMMA CloseTyped ==
  ASSUME TypeInv, NEW e \in Engines, Close(e)
  PROVE  TypeInv'
<1>1. TabTyped' /\ MemTyped'
  BY DEF TypeInv, Close, TabTyped, MemTyped, MaybeRatchet
<1>2. VaultTyped' /\ OpsTyped' /\ JobsTyped' /\ PageTyped' /\ PeerTyped' /\ LogsTyped'
  BY DEF TypeInv, Close, VaultTyped, OpsTyped, JobsTyped, PageTyped, PeerTyped, LogsTyped, peer, logs
<1> QED BY <1>1, <1>2 DEF TypeInv

\* A tab that dies leaves typed records behind.
LEMMA DieTyped ==
  ASSUME TypeInv, NEW e \in Engines, Die(e)
  PROVE  TypeInv'
<1>1. OpTyped(Idle) /\ JobTyped(Idle) /\ Blank \in [shown : Shown, due : Due]
  BY DEF OpTyped, JobTyped, Blank, Shown, Due
<1>2. TabTyped' /\ MemTyped'
  BY DEF TypeInv, Die, TabTyped, MemTyped, MaybeRatchet
<1>3. OpsTyped' /\ JobsTyped'
  BY <1>1, OpSet, JobSet DEF TypeInv, Die
<1>4. PageTyped'
  BY <1>1 DEF TypeInv, Die, PageTyped
<1>5. VaultTyped' /\ PeerTyped' /\ LogsTyped'
  BY DEF TypeInv, Die, VaultTyped, PeerTyped, LogsTyped, peer, logs
<1> QED BY <1>2, <1>3, <1>4, <1>5 DEF TypeInv

\* Losing or renewing the lease keeps the types.
LEMMA LeaseTyped ==
  ASSUME TypeInv, Lapse \/ \E e \in Engines : Renew(e)
  PROVE  TypeInv'
<1>1. TabTyped'
  BY DEF TypeInv, Lapse, Renew, TabTyped
<1>2. VaultTyped' /\ OpsTyped' /\ JobsTyped' /\ MemTyped' /\ PageTyped' /\ PeerTyped' /\ LogsTyped'
  BY DEF TypeInv, Lapse, Renew, VaultTyped, OpsTyped, JobsTyped, MemTyped, PageTyped, PeerTyped,
         LogsTyped, peer, logs
<1> QED BY <1>1, <1>2 DEF TypeInv

\* An operation under the tab lock ends, with the lease renewed or not.
LEMMA Ends ==
  ASSUME TypeInv, NEW e \in Engines, Return(e) \/ Throw(e)
  PROVE  /\ TabTyped' /\ OpsTyped' /\ op'[e] = Idle /\ \A f \in Engines \ {e} : op'[f] = op[f]
         /\ status' = status /\ mux' = mux
         /\ lease' \in {lease} \cup {x \in {e} : status[e] = "open"}
<1>1. op' = [op EXCEPT ![e] = Idle] /\ OpTyped(Idle)
  BY DEF Return, Throw, OpTyped
<1>2. TabTyped'
  BY DEF TypeInv, Return, Throw, TabTyped, tab
<1>3. OpsTyped
  BY DEF TypeInv
<1>4. OpsTyped' /\ op'[e] = Idle /\ \A f \in Engines \ {e} : op'[f] = op[f]
  BY <1>1, <1>3, OpSet
<1> QED BY <1>2, <1>4 DEF Return, Throw, tab

\* An operation goes on with another step, holding what it held.
LEMMA Goes ==
  ASSUME TypeInv, NEW e \in Engines, NEW o, OpTyped(o), op' = [op EXCEPT ![e] = o]
  PROVE  OpsTyped' /\ op'[e] = o /\ \A f \in Engines \ {e} : op'[f] = op[f]
BY OpSet DEF TypeInv

\* A receive begins, or answers what was accepted before.
LEMMA ReceiveTyped ==
  ASSUME TypeInv, NEW e \in Engines, NEW m \in Inbound, Receive(e, m)
  PROVE  TypeInv'
<1>1. TabTyped' /\ OpsTyped' /\ answered' \subseteq Inbound
  <2>1. CASE m \in vault["seen"] /\ answered' = answered \cup {m} /\ Return(e)
    BY <2>1, Ends DEF TypeInv, LogsTyped
  <2>2. CASE m \notin vault["seen"]
             /\ op' = [op EXCEPT ![e] = [pc |-> "decrypt", env |-> m, seen |-> vault["seen"]]]
             /\ UNCHANGED <<tab, answered>>
    <3>1. OpTyped([pc |-> "decrypt", env |-> m, seen |-> vault["seen"]])
      BY DEF TypeInv, VaultTyped, OpTyped, Decrypting
    <3> QED BY <2>2, <3>1, Goes DEF TypeInv, LogsTyped, TabTyped, tab
  <2> QED BY <2>1, <2>2 DEF Receive
<1>2. VaultTyped' /\ JobsTyped' /\ MemTyped' /\ PageTyped' /\ PeerTyped'
  BY DEF TypeInv, Receive, VaultTyped, JobsTyped, MemTyped, PageTyped, PeerTyped, peer
<1>3. LogsTyped'
  BY <1>1 DEF TypeInv, Receive, LogsTyped
<1> QED BY <1>1, <1>2, <1>3 DEF TypeInv

\* decryptAndCommitInbound has decrypted, or could not.
LEMMA DecryptTyped ==
  ASSUME TypeInv, NEW e \in Engines, Decrypt(e)
  PROVE  TypeInv'
<1> DEFINE o == op[e]
           spent == mem[e] = None \/ o.env \in mem[e].in
           q == [pc |-> IF spent THEN "undo" ELSE "accept", env |-> o.env, seen |-> o.seen,
                 session |-> vault["session"]]
<1>1. o \in Decrypting
  BY OpShapes DEF TypeInv, OpsTyped, Decrypt, At
<1>2. op' = [op EXCEPT ![e] = q]
  BY DEF Decrypt
<1>3. OpTyped(q)
  BY <1>1 DEF TypeInv, VaultTyped, OpTyped, Accepting, Decrypting
<1>4. OpsTyped'
  <2> HIDE DEF q
  <2> QED BY <1>2, <1>3, Goes
<1>5. MemTyped'
  <2>1. CASE spent
    BY <2>1 DEF Decrypt, TypeInv, MemTyped
  <2>2. CASE ~spent
    <3>1. mem[e] \in Ratchet
      BY <2>2 DEF TypeInv, MemTyped, MaybeRatchet
    <3>2. [mem[e] EXCEPT !.in = @ \cup {o.env}] \in MaybeRatchet
      BY <1>1, <3>1 DEF Ratchet, MaybeRatchet, Decrypting
    <3>3. Hold(e, [mem[e] EXCEPT !.in = @ \cup {o.env}])
      BY <2>2 DEF Decrypt
    <3> QED BY <3>2, <3>3, HoldFacts DEF TypeInv
  <2> QED BY <2>1, <2>2
<1>6. VaultTyped' /\ TabTyped' /\ JobsTyped' /\ PageTyped' /\ PeerTyped' /\ LogsTyped'
  BY DEF TypeInv, Decrypt, VaultTyped, TabTyped, JobsTyped, PageTyped, PeerTyped, LogsTyped, tab, peer, logs
<1> QED BY <1>4, <1>5, <1>6 DEF TypeInv

\* buildAcceptanceUpdates gives the records their types, and takes a message in
\* the old format only while the floor is not raised.
LEMMA AcceptanceTyped ==
  ASSUME TypeInv, NEW e \in Engines, op[e] \in Accepting, Admitted(e, op[e].env), mem[e] # None
  PROVE  Committing([pc |-> "commit", env |-> op[e].env, session |-> op[e].session,
                     updates |-> Acceptance(e)])
<1> DEFINE o == op[e]
           u == Acceptance(e)
           c == [pc |-> "commit", env |-> o.env, session |-> o.session, updates |-> u]
<1>1. o.env \in Inbound /\ o.seen \subseteq Inbound /\ o.session \in Ratchet
  BY DEF Accepting
<1>2. mem[e] \in Ratchet
  BY DEF TypeInv, MemTyped, MaybeRatchet
<1>3. VaultTyped
  BY DEF TypeInv
<1>4. o.env \in Legacy => vault["floor"] = 0
  BY DEF Admitted, Floor
<1> HIDE DEF o
<1>5. /\ DOMAIN u \subseteq Records /\ Records \ {"outbox"} \subseteq DOMAIN u
      /\ u["session"] = Update(o.session, mem[e])
      /\ u["floor"] = IF o.env \notin Legacy THEN FloorRaise ELSE FloorGuard
      /\ u["seen"] = Update(o.seen, o.seen \cup {o.env})
      /\ u["history"] = Update(vault["history"], [vault["history"] EXCEPT !.ids = @ \cup {o.env}])
      /\ "outbox" \in DOMAIN u => u["outbox"] = Update(vault["outbox"], HoldLegacy(vault["outbox"]))
  BY DEF Acceptance, Records, o
<1> HIDE DEF u
<1>6. vault["history"] \in Histories /\ vault["outbox"] \in Outboxes /\ vault["floor"] \in 0..1
  BY <1>3 DEF VaultTyped
<1>7. [vault["history"] EXCEPT !.ids = @ \cup {o.env}]
        = [ids |-> vault["history"].ids \cup {o.env}, held |-> vault["history"].held]
  BY <1>6 DEF Histories
<1>8. AcceptanceOK(c)
  <2>1. c.env = o.env /\ c.session = o.session /\ c.updates = u
    OBVIOUS
  <2>2. /\ u["session"].expected = o.session /\ u["session"].next \in Ratchet
        /\ u["floor"].expected = vault["floor"]
        /\ u["floor"].next = IF o.env \in Legacy THEN vault["floor"] ELSE 1
        /\ u["seen"].expected = o.seen /\ u["seen"].next = o.seen \cup {o.env}
        /\ u["history"].expected = vault["history"]
        /\ u["history"].next = [ids |-> vault["history"].ids \cup {o.env}, held |-> vault["history"].held]
        /\ "outbox" \in DOMAIN u => /\ u["outbox"].expected = vault["outbox"]
                                   /\ u["outbox"].next = HoldLegacy(vault["outbox"])
    BY <1>2, <1>5, <1>7 DEF Update, FloorRaise, FloorGuard, Floor
  <2> HIDE DEF c
  <2> QED BY <1>1, <1>4, <1>5, <1>6, <2>1, <2>2 DEF AcceptanceOK
<1> QED BY <1>1, <1>8 DEF Committing, u, o

\* The message is admitted, or refused.
LEMMA AcceptTyped ==
  ASSUME TypeInv, NEW e \in Engines, Accept(e)
  PROVE  TypeInv'
<1>1. op[e] \in Accepting
  BY OpShapes DEF TypeInv, OpsTyped, Accept, At
<1>2. OpsTyped'
  <2>1. CASE Admitted(e, op[e].env) /\ mem[e] # None /\
             op' = [op EXCEPT ![e] = [pc |-> "commit", env |-> @.env, session |-> @.session,
                                      updates |-> Acceptance(e)]]
    <3> DEFINE c == [pc |-> "commit", env |-> op[e].env, session |-> op[e].session, updates |-> Acceptance(e)]
    <3>1. OpTyped(c)
      BY <1>1, <2>1, AcceptanceTyped DEF OpTyped
    <3>2. op' = [op EXCEPT ![e] = c]
      BY <2>1
    <3> HIDE DEF c
    <3> QED BY <3>1, <3>2, Goes
  <2>2. CASE op' = [op EXCEPT ![e].pc = "undo"]
    <3> DEFINE q == [op[e] EXCEPT !.pc = "undo"]
    <3>1. OpTyped(q)
      BY <1>1 DEF OpTyped, Accepting
    <3>2. op' = [op EXCEPT ![e] = q]
      BY <2>2
    <3> HIDE DEF q
    <3> QED BY <3>1, <3>2, Goes
  <2> QED BY <2>1, <2>2 DEF Accept
<1>3. VaultTyped' /\ TabTyped' /\ MemTyped' /\ JobsTyped' /\ PageTyped' /\ PeerTyped' /\ LogsTyped'
  BY DEF TypeInv, Accept, VaultTyped, TabTyped, MemTyped, JobsTyped, PageTyped, PeerTyped, LogsTyped,
         tab, peer, logs
<1> QED BY <1>2, <1>3 DEF TypeInv

\* The commit's next step holds what the commit held.
LEMMA CommitGoes ==
  ASSUME TypeInv, NEW e \in Engines, Committing(op[e]), NEW pc \in {"review", "undo"}, Goto(e, pc)
  PROVE  /\ OpsTyped' /\ TabTyped' /\ UNCHANGED tab
         /\ op'[e].pc = pc /\ op'[e].env = op[e].env /\ op'[e].session = op[e].session
         /\ op'[e].updates = op[e].updates /\ \A f \in Engines \ {e} : op'[f] = op[f]
<1> DEFINE q == [pc |-> pc, env |-> op[e].env, session |-> op[e].session, updates |-> op[e].updates]
<1>1. Committing(q)
  BY DEF Committing, AcceptanceOK
<1>2. op' = [op EXCEPT ![e] = q]
  <2>1. [op[e] EXCEPT !.pc = pc] = q
    BY DEF Committing
  <2> HIDE DEF q
  <2> QED BY <2>1 DEF Goto
<1>3. OpsTyped' /\ op'[e] = q /\ \A f \in Engines \ {e} : op'[f] = op[f]
  <2> HIDE DEF q
  <2> QED BY <1>1, <1>2, Goes DEF OpTyped
<1> QED BY <1>3 DEF Goto, TypeInv, TabTyped, tab

\* The acceptance is committed, in conflict, or of unknown outcome.
LEMMA CommitTyped ==
  ASSUME TypeInv, NEW e \in Engines, Commit(e)
  PROVE  TypeInv'
<1>1. Committing(op[e]) /\ op[e].env \in Inbound /\ VaultTyped
  BY OpShapes DEF TypeInv, OpsTyped, Commit, At, Committing
<1>2. VaultTyped'
  <2>1. CASE Matches(op[e].updates) /\ Swap(op[e].updates)
    BY <1>1, <2>1, AcceptanceSwap
  <2>2. CASE vault' = vault
    BY <1>1, <2>2 DEF VaultTyped
  <2> QED BY <2>1, <2>2 DEF Commit
<1>3. OpsTyped' /\ TabTyped'
  BY <1>1, CommitGoes, Ends DEF Commit, Acknowledge
<1>4. JobsTyped' /\ MemTyped' /\ PageTyped' /\ PeerTyped' /\ LogsTyped'
  BY <1>1 DEF TypeInv, Commit, Acknowledge, JobsTyped, MemTyped, PageTyped, PeerTyped, LogsTyped, peer
<1> QED BY <1>2, <1>3, <1>4 DEF TypeInv

\* The commit of unknown outcome turns out to be done.
LEMMA ReviewTyped ==
  ASSUME TypeInv, NEW e \in Engines, Review(e)
  PROVE  TypeInv'
<1>1. op[e].env \in Inbound
  BY OpShapes DEF TypeInv, OpsTyped, Review, At, Committing
<1>2. OpsTyped' /\ TabTyped'
  BY Ends DEF Review, Acknowledge
<1>3. VaultTyped' /\ JobsTyped' /\ MemTyped' /\ PageTyped' /\ PeerTyped' /\ LogsTyped'
  BY <1>1 DEF TypeInv, Review, Acknowledge, VaultTyped, JobsTyped, MemTyped, PageTyped, PeerTyped,
              LogsTyped, peer
<1> QED BY <1>2, <1>3 DEF TypeInv

\* A receive is undone.
LEMMA UndoTyped ==
  ASSUME TypeInv, NEW e \in Engines, Undo(e)
  PROVE  TypeInv'
<1>1. op[e].session \in Ratchet
  BY OpShapes DEF TypeInv, OpsTyped, Undo, At, Committing
<1>2. Restored(e) \in MaybeRatchet
  BY <1>1 DEF Restored, MaybeRatchet
<1>3. MemTyped'
  BY <1>2, HoldFacts DEF Undo, TypeInv, MaybeRatchet
<1>4. OpsTyped' /\ TabTyped'
  BY Ends DEF Undo
<1>5. VaultTyped' /\ JobsTyped' /\ PageTyped' /\ PeerTyped' /\ LogsTyped'
  BY DEF TypeInv, Undo, VaultTyped, JobsTyped, PageTyped, PeerTyped, LogsTyped, peer, logs
<1> QED BY <1>3, <1>4, <1>5 DEF TypeInv

\* A send begins.
LEMMA SendTyped ==
  ASSUME TypeInv, NEW e \in Engines, NEW m \in Messages \cup {None}, Send(e, m)
  PROVE  TypeInv'
<1> DEFINE q == [pc |-> "encrypt", id |-> started + 1, replaces |-> m]
<1>1. started + 1 \in Messages /\ started' \in 0..Sends
  BY NoneFacts DEF TypeInv, PageTyped, Send, Messages
<1>2. OpTyped(q)
  BY <1>1 DEF OpTyped, Encrypting, Replaced
<1>3. op' = [op EXCEPT ![e] = q]
  BY DEF Send
<1>4. OpsTyped'
  <2> HIDE DEF q
  <2> QED BY <1>2, <1>3, Goes
<1>5. VaultTyped' /\ TabTyped' /\ JobsTyped' /\ MemTyped' /\ PageTyped' /\ PeerTyped' /\ LogsTyped'
  BY <1>1 DEF TypeInv, Send, VaultTyped, TabTyped, JobsTyped, MemTyped, PageTyped, PeerTyped, LogsTyped,
              tab, peer, logs
<1> QED BY <1>4, <1>5 DEF TypeInv

\* encryptAndCommitOutbound has encrypted, or could not.
LEMMA EncryptTyped ==
  ASSUME TypeInv, NEW e \in Engines, Encrypt(e)
  PROVE  TypeInv'
<1> DEFINE o == op[e]
           old == vault["session"]
           new == [old EXCEPT !.out = @ + 1]
<1>1. o \in Encrypting
  BY OpShapes DEF TypeInv, OpsTyped, Encrypt, At
<1>2. old \in Ratchet /\ new \in Ratchet
  BY DEF TypeInv, VaultTyped, Ratchet
<1>3. OpsTyped' /\ MemTyped'
  <2>1. ASSUME NEW hint \in BOOLEAN, Hold(e, new),
               op' = [op EXCEPT ![e] = [pc |-> "enqueue", id |-> @.id, replaces |-> @.replaces,
                                        v1 |-> EncodesV1(hint), session |-> old, next |-> new, tries |-> 1]]
        PROVE  OpsTyped' /\ MemTyped'
    <3> DEFINE q == [pc |-> "enqueue", id |-> o.id, replaces |-> o.replaces,
                     v1 |-> EncodesV1(hint), session |-> old, next |-> new, tries |-> 1]
    <3>1. EncodesV1(hint) \in BOOLEAN
      BY DEF EncodesV1
    <3>2. 1 \in 1..Attempts
      BY NoneFacts
    <3>3. q \in Queueing
      <4> HIDE DEF new, old
      <4> QED BY <1>1, <1>2, <3>1, <3>2 DEF Queueing, Encrypting
    <3>4. op' = [op EXCEPT ![e] = q]
      BY <2>1
    <3> HIDE DEF q
    <3>5. OpsTyped'
      BY <3>3, <3>4, Goes DEF OpTyped
    <3>6. MemTyped'
      <4> HIDE DEF new
      <4> QED BY <1>2, <2>1, HoldFacts DEF TypeInv, MaybeRatchet
    <3> QED BY <3>5, <3>6
  <2>2. CASE op' = [op EXCEPT ![e] = Idle] /\ UNCHANGED mem
    <3>1. OpTyped(Idle)
      BY DEF OpTyped
    <3> QED BY <2>2, <3>1, Goes DEF TypeInv, MemTyped
  <2> QED BY <2>1, <2>2 DEF Encrypt
<1>4. VaultTyped' /\ TabTyped' /\ JobsTyped' /\ PageTyped' /\ PeerTyped' /\ LogsTyped'
  BY DEF TypeInv, Encrypt, VaultTyped, TabTyped, JobsTyped, PageTyped, PeerTyped, LogsTyped, tab, peer, logs
<1> QED BY <1>3, <1>4 DEF TypeInv

\* The fields of a send that has encrypted.
LEMMA EnqueueShape ==
  ASSUME NEW o, OpTyped(o), o.pc \in Sending
  PROVE  /\ o.id \in Messages /\ o.replaces \in Replaced /\ o.v1 \in BOOLEAN
         /\ o.session \in Ratchet /\ o.next \in Ratchet /\ o.tries \in 1..Attempts
BY OpShapes DEF Queueing, Saving, Sending

\* The records a message is enqueued with have their types, and the outbox
\* keeps within MAX_PENDING.
LEMMA EnqueueingTyped ==
  ASSUME TypeInv, NEW e \in Engines, op[e].pc = "enqueue", MayEnqueue(e)
  PROVE  Saving([pc |-> "save", id |-> op[e].id, replaces |-> op[e].replaces, v1 |-> op[e].v1,
                 session |-> op[e].session, next |-> op[e].next, tries |-> op[e].tries,
                 updates |-> Enqueueing(e)])
<1> DEFINE o == op[e]
           u == Enqueueing(e)
           q == [pc |-> "save", id |-> o.id, replaces |-> o.replaces, v1 |-> o.v1,
                 session |-> o.session, next |-> o.next, tries |-> o.tries, updates |-> u]
<1>1. /\ o.id \in Messages /\ o.replaces \in Replaced /\ o.v1 \in BOOLEAN
      /\ o.session \in Ratchet /\ o.next \in Ratchet /\ o.tries \in 1..Attempts
  BY EnqueueShape, PcFacts DEF TypeInv, OpsTyped
<1>2. vault["history"] \in Histories /\ vault["outbox"] \in Outboxes /\ vault["floor"] \in 0..1
  BY DEF TypeInv, VaultTyped
<1>3. (o.v1 \/ vault["floor"] = 0) /\ Len(Without(vault["outbox"], o.replaces)) < MaxPending
  BY DEF MayEnqueue, Floor, Rest
<1>4. /\ DOMAIN u = {"session", "outbox", "floor", "history"}
      /\ u["session"].expected = o.session /\ u["session"].next = o.next
      /\ u["floor"].expected = vault["floor"] /\ u["floor"].next = vault["floor"]
      /\ u["outbox"].expected = vault["outbox"]
      /\ u["outbox"].next =
           Append(Without(vault["outbox"], o.replaces),
                  [id |-> o.id, v1 |-> o.v1, held |-> FALSE, rejected |-> FALSE, stored |-> FALSE])
      /\ u["history"].expected = vault["history"]
      /\ u["history"].next = [ids |-> (vault["history"].ids \ {o.replaces}) \cup {o.id},
                              held |-> vault["history"].held \ {o.replaces}]
  BY DEF Enqueueing, Update, FloorGuard, Floor, Rest, Entry
<1> HIDE DEF u, o
<1>5. /\ q.pc = "save" /\ q.id = o.id /\ q.replaces = o.replaces /\ q.v1 = o.v1 /\ q.session = o.session
      /\ q.next = o.next /\ q.tries = o.tries /\ q.updates = u
  OBVIOUS
<1>6. q = [pc |-> q.pc, id |-> q.id, replaces |-> q.replaces, v1 |-> q.v1,
           session |-> q.session, next |-> q.next, tries |-> q.tries, updates |-> q.updates]
  OBVIOUS
<1>7. EnqueueingOK(q)
  <2> HIDE DEF q
  <2> QED BY <1>2, <1>3, <1>4, <1>5 DEF EnqueueingOK
<1>8. Saving(q)
  <2> HIDE DEF q
  <2> QED BY <1>1, <1>5, <1>6, <1>7, PcFacts DEF Saving
<1> QED BY <1>8 DEF u, o

\* The message is about to be enqueued, or refused.
LEMMA EnqueueTyped ==
  ASSUME TypeInv, NEW e \in Engines, Enqueue(e)
  PROVE  TypeInv'
<1>1. op[e].pc = "enqueue"
  BY DEF Enqueue, At
<1>2. OpsTyped' /\ TabTyped' /\ MemTyped'
  <2>1. CASE MayEnqueue(e)
             /\ op' = [op EXCEPT ![e] = [pc |-> "save", id |-> @.id, replaces |-> @.replaces, v1 |-> @.v1,
                                         session |-> @.session, next |-> @.next, tries |-> @.tries,
                                         updates |-> Enqueueing(e)]]
             /\ UNCHANGED <<tab, mem>>
    <3> DEFINE q == [pc |-> "save", id |-> op[e].id, replaces |-> op[e].replaces, v1 |-> op[e].v1,
                     session |-> op[e].session, next |-> op[e].next, tries |-> op[e].tries,
                     updates |-> Enqueueing(e)]
    <3>1. OpTyped(q)
      <4>1. Saving(q)
        BY <1>1, <2>1, EnqueueingTyped
      <4> HIDE DEF q
      <4> QED BY <4>1 DEF OpTyped
    <3>2. op' = [op EXCEPT ![e] = q]
      BY <2>1
    <3> HIDE DEF q
    <3> QED BY <2>1, <3>1, <3>2, Goes DEF TypeInv, TabTyped, MemTyped, tab
  <2>2. CASE Hold(e, op[e].session) /\ Throw(e)
    <3>1. op[e].session \in MaybeRatchet
      BY <1>1, EnqueueShape, PcFacts DEF TypeInv, OpsTyped, MaybeRatchet
    <3> QED BY <2>2, <3>1, Ends, HoldFacts DEF TypeInv
  <2> QED BY <2>1, <2>2 DEF Enqueue
<1>3. VaultTyped' /\ JobsTyped' /\ PageTyped' /\ PeerTyped' /\ LogsTyped'
  BY DEF TypeInv, Enqueue, VaultTyped, JobsTyped, PageTyped, PeerTyped, LogsTyped, peer, logs
<1> QED BY <1>2, <1>3 DEF TypeInv

\* The next step of a send holds what the last one held.
LEMMA SaveGoes ==
  ASSUME TypeInv, NEW e \in Engines, Saving(op[e]), NEW pc \in Sending, NEW n \in 1..Attempts,
         op' = [op EXCEPT ![e].pc = pc, ![e].tries = n]
  PROVE  /\ OpsTyped'
         /\ op'[e].pc = pc /\ op'[e].id = op[e].id /\ op'[e].replaces = op[e].replaces
         /\ op'[e].v1 = op[e].v1 /\ op'[e].session = op[e].session /\ op'[e].next = op[e].next
         /\ op'[e].updates = op[e].updates /\ \A f \in Engines \ {e} : op'[f] = op[f]
<1> DEFINE o == op[e]
           q == [pc |-> pc, id |-> o.id, replaces |-> o.replaces, v1 |-> o.v1,
                 session |-> o.session, next |-> o.next, tries |-> n, updates |-> o.updates]
<1>1. Saving(q)
  BY DEF Saving, EnqueueingOK
<1>2. op' = [op EXCEPT ![e] = q]
  <2>1. [[o EXCEPT !.pc = pc] EXCEPT !.tries = n] = q
    <3>1. o = [pc |-> o.pc, id |-> o.id, replaces |-> o.replaces, v1 |-> o.v1,
               session |-> o.session, next |-> o.next, tries |-> o.tries, updates |-> o.updates]
      BY DEF Saving
    <3> HIDE DEF o
    <3> DEFINE r == [o EXCEPT !.pc = pc]
    <3>2. /\ r.pc = pc /\ r.id = o.id /\ r.replaces = o.replaces /\ r.v1 = o.v1
          /\ r.session = o.session /\ r.next = o.next /\ r.tries = o.tries /\ r.updates = o.updates
          /\ r = [pc |-> r.pc, id |-> r.id, replaces |-> r.replaces, v1 |-> r.v1,
                  session |-> r.session, next |-> r.next, tries |-> r.tries, updates |-> r.updates]
      BY <3>1
    <3> HIDE DEF r
    <3>3. [r EXCEPT !.tries = n]
            = [pc |-> r.pc, id |-> r.id, replaces |-> r.replaces, v1 |-> r.v1,
               session |-> r.session, next |-> r.next, tries |-> n, updates |-> r.updates]
      BY <3>2
    <3> QED BY <3>2, <3>3 DEF r
  <2>2. op' = [op EXCEPT ![e] = [[o EXCEPT !.pc = pc] EXCEPT !.tries = n]]
    BY DEF TypeInv, OpsTyped
  <2> HIDE DEF q
  <2> QED BY <2>1, <2>2
<1>3. OpsTyped' /\ op'[e] = q /\ \A f \in Engines \ {e} : op'[f] = op[f]
  <2> HIDE DEF q
  <2> QED BY <1>1, <1>2, Goes DEF OpTyped
<1>4. /\ q.pc = pc /\ q.id = o.id /\ q.replaces = o.replaces /\ q.v1 = o.v1
      /\ q.session = o.session /\ q.next = o.next /\ q.updates = o.updates
  OBVIOUS
<1> HIDE DEF q
<1> QED BY <1>3, <1>4

\* ... nor does a step that is not tried again.
LEMMA SaveGoto ==
  ASSUME TypeInv, NEW e \in Engines, Saving(op[e]), NEW pc \in Sending, Goto(e, pc)
  PROVE  /\ OpsTyped' /\ TabTyped' /\ UNCHANGED tab
         /\ op'[e].pc = pc /\ op'[e].id = op[e].id /\ op'[e].replaces = op[e].replaces
         /\ op'[e].v1 = op[e].v1 /\ op'[e].session = op[e].session /\ op'[e].next = op[e].next
         /\ op'[e].updates = op[e].updates /\ \A f \in Engines \ {e} : op'[f] = op[f]
<1> DEFINE o == op[e]
           q == [pc |-> pc, id |-> o.id, replaces |-> o.replaces, v1 |-> o.v1,
                 session |-> o.session, next |-> o.next, tries |-> o.tries, updates |-> o.updates]
<1>1. Saving(q)
  BY DEF Saving, EnqueueingOK
<1>2. op' = [op EXCEPT ![e] = q]
  <2>1. [o EXCEPT !.pc = pc] = q
    BY DEF Saving
  <2> HIDE DEF q
  <2> QED BY <2>1 DEF Goto
<1>3. OpsTyped' /\ op'[e] = q /\ \A f \in Engines \ {e} : op'[f] = op[f]
  <2> HIDE DEF q
  <2> QED BY <1>1, <1>2, Goes DEF OpTyped
<1> QED BY <1>3 DEF Goto, TypeInv, TabTyped, tab

\* The page is to show the message.
LEMMA SentTyped ==
  ASSUME TypeInv, NEW e \in Engines, Saving(op[e]), Sent(e), started' = started
  PROVE  PageTyped' /\ OpsTyped' /\ TabTyped'
<1> DEFINE o == op[e]
           p == [page[e] EXCEPT !.due = @ \cup {[id |-> o.id, replaces |-> o.replaces]}]
<1>1. p \in [shown : Shown, due : Due]
  <2>1. page[e] \in [shown : Shown, due : Due]
    BY DEF TypeInv, PageTyped
  <2>2. o.id \in Messages /\ o.replaces \in Replaced
    BY DEF Saving
  <2>3. [id |-> o.id, replaces |-> o.replaces] \in [id : Messages, replaces : Replaced]
    BY <2>2
  <2>4. page[e].due \cup {[id |-> o.id, replaces |-> o.replaces]} \in Due
    BY <2>1, <2>3 DEF Due
  <2> QED BY <2>1, <2>4
<1>2. page' = [page EXCEPT ![e] = p]
  BY DEF Sent
<1> HIDE DEF p
<1>3. PageTyped'
  BY <1>1, <1>2 DEF TypeInv, PageTyped
<1> QED BY <1>3, Ends DEF Sent

\* The message is enqueued, in conflict, or of unknown outcome.
LEMMA SaveTyped ==
  ASSUME TypeInv, NEW e \in Engines, Save(e)
  PROVE  TypeInv'
<1>1. Saving(op[e]) /\ VaultTyped /\ LogsTyped
  BY OpShapes, PcFacts DEF TypeInv, OpsTyped, Save, At
<1>2. VaultTyped'
  <2>1. CASE Matches(op[e].updates) /\ Swap(op[e].updates)
    BY <1>1, <2>1, EnqueueSwap
  <2>2. CASE vault' = vault
    BY <1>1, <2>2 DEF VaultTyped
  <2> QED BY <2>1, <2>2 DEF Save
<1>3. OpsTyped' /\ TabTyped' /\ PageTyped'
  <2>1. CASE Sent(e)
    BY <1>1, <2>1, SentTyped DEF Save
  <2>2. CASE page' = page /\ \E pc \in Sending : Goto(e, pc)
    BY <1>1, <2>2, SaveGoto DEF TypeInv, PageTyped, Save
  <2> QED BY <2>1, <2>2, PcFacts DEF Save
<1>4. LogsTyped'
  <2>1. op[e].id \in Messages /\ op[e].replaces \in Replaced /\ op[e].next.out \in Nat
    BY <1>1 DEF Saving, Ratchet
  <2>2. CASE Release(e)
    <3>1. [id |-> op[e].id, key |-> op[e].next.out, replaces |-> op[e].replaces]
            \in [id : Messages, key : Nat, replaces : Replaced]
      BY <2>1
    <3> QED BY <1>1, <2>2, <3>1 DEF LogsTyped, Release, Save
  <2>3. CASE released' = released
    BY <1>1, <2>3 DEF LogsTyped, Save
  <2> QED BY <2>2, <2>3 DEF Save
<1>5. JobsTyped' /\ MemTyped' /\ PeerTyped'
  BY DEF TypeInv, Save, JobsTyped, MemTyped, PeerTyped, peer
<1> QED BY <1>2, <1>3, <1>4, <1>5 DEF TypeInv

\* The enqueueing turns out to be done.
LEMMA VerifyTyped ==
  ASSUME TypeInv, NEW e \in Engines, Verify(e)
  PROVE  TypeInv'
<1>1. Saving(op[e])
  BY OpShapes, PcFacts DEF TypeInv, OpsTyped, Verify, At
<1>2. OpsTyped' /\ TabTyped' /\ PageTyped'
  BY <1>1, SentTyped DEF Verify
<1>3. VaultTyped' /\ JobsTyped' /\ MemTyped' /\ PeerTyped' /\ LogsTyped'
  BY DEF TypeInv, Verify, VaultTyped, JobsTyped, MemTyped, PeerTyped, LogsTyped, peer, logs
<1> QED BY <1>2, <1>3 DEF TypeInv

\* The same ciphertext is offered again.
LEMMA RebuildTyped ==
  ASSUME TypeInv, NEW e \in Engines, Rebuild(e)
  PROVE  TypeInv'
<1>1. Saving(op[e])
  BY OpShapes, PcFacts DEF TypeInv, OpsTyped, Rebuild, Retryable, At
<1>2. op[e].tries + 1 \in 1..Attempts
  BY <1>1, NoneFacts DEF Rebuild, Retryable, Saving
<1>3. op' = [op EXCEPT ![e].pc = "enqueue", ![e].tries = op[e].tries + 1]
  <2>1. op[e] = [pc |-> op[e].pc, id |-> op[e].id, replaces |-> op[e].replaces, v1 |-> op[e].v1,
                 session |-> op[e].session, next |-> op[e].next, tries |-> op[e].tries,
                 updates |-> op[e].updates]
    BY <1>1 DEF Saving
  <2> QED BY <2>1 DEF Rebuild, TypeInv, OpsTyped
<1>4. OpsTyped'
  BY <1>1, <1>2, <1>3, SaveGoes, PcFacts
<1>5. VaultTyped' /\ TabTyped' /\ JobsTyped' /\ MemTyped' /\ PageTyped' /\ PeerTyped' /\ LogsTyped'
  BY DEF TypeInv, Rebuild, VaultTyped, TabTyped, JobsTyped, MemTyped, PageTyped, PeerTyped, LogsTyped,
         tab, peer, logs
<1> QED BY <1>4, <1>5 DEF TypeInv

\* A send has failed.
LEMMA GiveUpTyped ==
  ASSUME TypeInv, NEW e \in Engines, GiveUp(e)
  PROVE  TypeInv'
<1>1. op[e].session \in Ratchet
  BY OpShapes, PcFacts DEF TypeInv, OpsTyped, GiveUp, At, Saving
<1>2. Restored(e) \in MaybeRatchet /\ op[e].session \in MaybeRatchet
  BY <1>1 DEF Restored, MaybeRatchet
<1>3. MemTyped'
  BY <1>2, HoldFacts DEF GiveUp, TypeInv
<1>4. OpsTyped' /\ TabTyped'
  BY Ends DEF GiveUp
<1>5. VaultTyped' /\ JobsTyped' /\ PageTyped' /\ PeerTyped' /\ LogsTyped'
  BY DEF TypeInv, GiveUp, VaultTyped, JobsTyped, PageTyped, PeerTyped, LogsTyped, peer, logs
<1> QED BY <1>3, <1>4, <1>5 DEF TypeInv

\* The page shows a message of the user.
LEMMA ShowTyped ==
  ASSUME TypeInv, NEW e \in Engines, Show(e)
  PROVE  TypeInv'
<1>1. PICK sent \in page[e].due :
        page' = [page EXCEPT ![e] = [shown |-> (@.shown \ {sent.replaces}) \cup {sent.id},
                                     due |-> @.due \ {sent}]]
  BY DEF Show
<1> DEFINE p == [shown |-> (page[e].shown \ {sent.replaces}) \cup {sent.id}, due |-> page[e].due \ {sent}]
<1>2. page[e] \in [shown : Shown, due : Due]
  BY DEF TypeInv, PageTyped
<1>3. sent.id \in Messages
  BY <1>1, <1>2 DEF Due
<1>4. p \in [shown : Shown, due : Due]
  BY <1>2, <1>3 DEF Shown, Due
<1>5. page' = [page EXCEPT ![e] = p]
  BY <1>1
<1> HIDE DEF p
<1>6. PageTyped'
  BY <1>4, <1>5 DEF TypeInv, PageTyped, Show
<1>7. VaultTyped' /\ TabTyped' /\ OpsTyped' /\ JobsTyped' /\ MemTyped' /\ PeerTyped' /\ LogsTyped'
  BY DEF TypeInv, Show, VaultTyped, TabTyped, OpsTyped, JobsTyped, MemTyped, PeerTyped, LogsTyped,
         tab, peer, logs
<1> QED BY <1>6, <1>7 DEF TypeInv

\* Only the history changes, and it loses nothing.
LEMMA ProjectTyped ==
  ASSUME TypeInv, NEW e \in Engines, Project(e)
  PROVE  /\ TypeInv' /\ vault["history"].ids \subseteq vault'["history"].ids
         /\ \A r \in Records \ {"history"} : vault'[r] = vault[r]
<1> DEFINE h == [ids |-> vault["history"].ids \cup page[e].shown,
                 held |-> vault["history"].held \cup (HeldIds \cap page[e].shown)]
<1>1. VaultTyped /\ vault["history"] \in Histories /\ page[e].shown \subseteq Messages
  BY DEF TypeInv, VaultTyped, PageTyped, Shown
<1>2. h \in Histories
  BY <1>1 DEF Histories
<1>3. Put("history", h)
  BY DEF Project
<1>4. h.ids = vault["history"].ids \cup page[e].shown
  OBVIOUS
<1> HIDE DEF h
<1>5. /\ vault' = [s \in Records |-> vault'[s]] /\ vault'["history"] = h
      /\ \A s \in Records \ {"history"} : vault'[s] = vault[s]
  <2>1. "history" \in Records
    BY DEF Records
  <2> QED BY <1>1, <1>3, <2>1, PutFacts
<1>6. VaultTyped'
  BY <1>1, <1>2, <1>5 DEF VaultTyped, Records
<1>7. TabTyped' /\ OpsTyped' /\ JobsTyped' /\ MemTyped' /\ PageTyped' /\ PeerTyped' /\ LogsTyped'
  BY DEF TypeInv, Project, TabTyped, OpsTyped, JobsTyped, MemTyped, PageTyped, PeerTyped, LogsTyped,
         tab, peer, logs
<1> QED BY <1>4, <1>5, <1>6, <1>7 DEF TypeInv

----------------------------------------------------------------------------
(* The delivery tasks. They write the outbox and nothing else of the vault. *)

OnlyOutbox == VaultTyped' /\ \A r \in Records \ {"outbox"} : vault'[r] = vault[r]

\* A step of the task of engine e.
Task(e) ==
  \/ Retry(e) \/ ReadFloor(e) \/ HoldPending(e)
  \/ Finish(e) \/ Submit(e) \/ Answer(e)
  \/ \E m \in relayed : AcceptDelivery(e, m) \/ RejectDelivery(e, m)
  \/ WriteBack(e)

JobsKept(e) == JobsTyped' /\ \A f \in Engines \ {e} : job'[f] = job[f]

\* A step that does not write changes the outbox at most.
LEMMA UnwrittenIsOnlyOutbox ==
  ASSUME TypeInv, vault' = vault
  PROVE  OnlyOutbox
BY DEF OnlyOutbox, TypeInv, VaultTyped

\* A task goes on.
LEMMA Enters ==
  ASSUME TypeInv, NEW e \in Engines, NEW j, JobTyped(j), Enter(e, j)
  PROVE  JobsKept(e) /\ job'[e] = j
BY JobSet DEF Enter, JobsKept, TypeInv

\* A task ends.
LEMMA Leaves ==
  ASSUME TypeInv, NEW e \in Engines, Leave(e)
  PROVE  JobsKept(e) /\ job'[e] = Idle
<1>1. JobTyped(Idle)
  BY DEF JobTyped
<1> QED BY <1>1, JobSet DEF Leave, JobsKept, TypeInv

\* What a task holds at each of its steps.
LEMMA JobShapes ==
  ASSUME NEW j, JobTyped(j)
  PROVE  /\ j.pc = "idle" <=> j = Idle
         /\ j # Idle => j.list \in Outboxes
         /\ j.pc \in {"floor", "hold", "write"} =>
              j \in [pc : {"floor", "hold", "write"}, list : Outboxes]
         /\ j.pc = "loop" => j \in [pc : {"loop"}, list : Outboxes, k : Nat \ {0}]
         /\ j.pc = "answer" => /\ j \in [pc : {"answer"}, list : Outboxes, k : Nat \ {0}]
                               /\ j.k \in DOMAIN j.list
BY DEF JobTyped, Idle

\* An outbox is a sequence of entries.
LEMMA ListIsOutbox ==
  ASSUME NEW list \in Outboxes
  PROVE  list \in Seq(Item) /\ DOMAIN list = 1..Len(list) /\ Len(list) \in Nat
BY DEF Outboxes

\* retryPending holds the outbox it has read.
LEMMA RetryEffect ==
  ASSUME TypeInv, NEW e \in Engines, Retry(e)
  PROVE  OnlyOutbox /\ JobsKept(e) /\ vault' = vault
         /\ job'[e] = [pc |-> "floor", list |-> vault["outbox"]]
<1>1. JobTyped([pc |-> "floor", list |-> vault["outbox"]])
  BY DEF TypeInv, VaultTyped, JobTyped
<1> QED BY <1>1, Enters, UnwrittenIsOnlyOutbox DEF Retry

\* The floor is read, and the list is kept.
LEMMA ReadFloorEffect ==
  ASSUME TypeInv, NEW e \in Engines, ReadFloor(e)
  PROVE  OnlyOutbox /\ JobsKept(e) /\ vault' = vault /\ job[e] # Idle
         /\ job'[e].list = job[e].list
<1>1. job[e] \in [pc : {"floor", "hold", "write"}, list : Outboxes]
  BY JobShapes DEF ReadFloor, TypeInv, JobsTyped
<1> DEFINE j == IF Floor = 1 THEN [job[e] EXCEPT !.pc = "hold"]
                             ELSE [pc |-> "loop", list |-> job[e].list, k |-> 1]
<1>2. JobTyped(j) /\ j.list = job[e].list /\ job[e] # Idle
  BY <1>1 DEF JobTyped, Idle
<1>3. Enter(e, j)
  BY DEF ReadFloor
<1> HIDE DEF j
<1> QED BY <1>2, <1>3, Enters, UnwrittenIsOnlyOutbox DEF ReadFloor

\* holdLegacyPending keeps the list, or replaces list and outbox by the outbox
\* with its old entries held back.
LEMMA HoldPendingEffect ==
  ASSUME TypeInv, NEW e \in Engines, HoldPending(e)
  PROVE  /\ OnlyOutbox /\ JobsKept(e) /\ job[e] # Idle
         /\ \/ vault' = vault /\ job'[e] # Idle /\ job'[e].list = job[e].list
            \/ /\ vault'["outbox"] = HoldLegacy(vault["outbox"])
               /\ job'[e].list = HoldLegacy(vault["outbox"])
            \/ vault' = vault /\ job'[e] = Idle
<1> DEFINE held == HoldLegacy(vault["outbox"])
<1>1. job[e].list \in Outboxes /\ job[e] # Idle
  BY JobShapes, PcFacts DEF HoldPending, TypeInv, JobsTyped
<1>2. held \in Outboxes
  BY HoldLegacyFacts DEF TypeInv, VaultTyped
<1> HIDE DEF held
<1>3. CASE Enter(e, [pc |-> "loop", list |-> job[e].list, k |-> 1]) /\ UNCHANGED vault
  <2> DEFINE j == [pc |-> "loop", list |-> job[e].list, k |-> 1]
  <2>1. JobTyped(j) /\ j # Idle /\ j.list = job[e].list
    BY <1>1 DEF JobTyped, Idle
  <2> HIDE DEF j
  <2>2. Enter(e, j)
    BY <1>3 DEF j
  <2> QED BY <1>1, <1>3, <2>1, <2>2, Enters, UnwrittenIsOnlyOutbox
<1>4. CASE Put("outbox", held) /\ Enter(e, [pc |-> "loop", list |-> held, k |-> 1])
  <2>1. JobTyped([pc |-> "loop", list |-> held, k |-> 1])
    BY <1>2 DEF JobTyped
  <2> QED BY <1>1, <1>2, <1>4, <2>1, Enters, PutOutbox DEF TypeInv, OnlyOutbox, held
<1>5. CASE Leave(e) /\ UNCHANGED vault
  BY <1>1, <1>5, Leaves, UnwrittenIsOnlyOutbox
<1> QED BY <1>3, <1>4, <1>5 DEF HoldPending, held

\* The loop of DeliveryCoordinator.retry ends.
LEMMA FinishEffect ==
  ASSUME TypeInv, NEW e \in Engines, Finish(e)
  PROVE  OnlyOutbox /\ JobsKept(e) /\ vault' = vault /\ job'[e] = Idle
BY Leaves, UnwrittenIsOnlyOutbox DEF Finish

\* An entry goes out; the list is kept.
LEMMA SubmitEffect ==
  ASSUME TypeInv, NEW e \in Engines, Submit(e)
  PROVE  /\ OnlyOutbox /\ JobsKept(e) /\ vault' = vault /\ PeerTyped' /\ job[e] # Idle
         /\ job'[e] = Idle \/ job'[e].list = job[e].list
<1>1. job[e] \in [pc : {"loop"}, list : Outboxes, k : Nat \ {0}]
  BY JobShapes DEF Submit, TypeInv, JobsTyped
<1>2. PICK k \in job[e].k..Len(job[e].list) :
        \/ /\ relayed' = relayed \cup {job[e].list[k].id}
           /\ Enter(e, [pc |-> "answer", list |-> job[e].list, k |-> k])
        \/ Leave(e) /\ UNCHANGED relayed
  BY DEF Submit
<1>3. k \in DOMAIN job[e].list /\ k \in Nat \ {0} /\ job[e].list[k] \in Item
  <2>1. job[e].list \in Seq(Item) /\ DOMAIN job[e].list = 1..Len(job[e].list) /\ Len(job[e].list) \in Nat
    BY <1>1, ListIsOutbox
  <2>2. k \in 1..Len(job[e].list)
    BY <1>1, <2>1
  <2> QED BY <2>1, <2>2
<1> DEFINE j == [pc |-> "answer", list |-> job[e].list, k |-> k]
<1>4. JobTyped(j) /\ j.list = job[e].list
  BY <1>1, <1>3 DEF JobTyped
<1>5. job[e] # Idle
  BY <1>1 DEF Idle
<1>6. job[e].list[k].id \in Messages
  BY <1>3 DEF Item
<1> HIDE DEF j
<1>7. CASE relayed' = relayed \cup {job[e].list[k].id} /\ Enter(e, j)
  BY <1>4, <1>5, <1>6, <1>7, Enters, UnwrittenIsOnlyOutbox DEF Submit, TypeInv, PeerTyped
<1>8. CASE Leave(e) /\ UNCHANGED relayed
  BY <1>5, <1>8, Leaves, UnwrittenIsOnlyOutbox DEF Submit, TypeInv, PeerTyped
<1> QED BY <1>2, <1>7, <1>8 DEF j

\* The list with the relay's answer at an entry.
Stamped(list, k, terminal) == [list EXCEPT ![k].stored = TRUE, ![k].rejected = terminal]

\* The relay's answer changes the marks of one entry.
LEMMA RecordFacts ==
  ASSUME NEW list \in Outboxes, NEW k \in DOMAIN list, NEW terminal \in BOOLEAN
  PROVE  LET new == Stamped(list, k, terminal) IN
         /\ new \in Outboxes /\ DOMAIN new = DOMAIN list
         /\ \A i \in DOMAIN list : new[i].id = list[i].id /\ new[i].v1 = list[i].v1
<1> DEFINE item == [list[k] EXCEPT !.stored = TRUE, !.rejected = terminal]
           new == [list EXCEPT ![k] = item]
<1>1. list \in Seq(Item) /\ DOMAIN list = 1..Len(list) /\ Len(list) \in Nat
  BY ListIsOutbox
<1>2. list[k] \in Item
  BY <1>1
<1>3. item \in Item /\ item.id = list[k].id /\ item.v1 = list[k].v1
  <2> DEFINE i == list[k]
  <2> HIDE DEF i
  <2>1. i \in Item
    BY <1>2 DEF i
  <2>2. /\ [i EXCEPT !.stored = TRUE, !.rejected = terminal] \in Item
        /\ [i EXCEPT !.stored = TRUE, !.rejected = terminal].id = i.id
        /\ [i EXCEPT !.stored = TRUE, !.rejected = terminal].v1 = i.v1
    BY <2>1 DEF Item
  <2> QED BY <2>2 DEF i
<1>4. Stamped(list, k, terminal) = new
  BY <1>1, <1>2 DEF Item, Stamped
<1> HIDE DEF item
<1>5. new \in Seq(Item) /\ DOMAIN new = DOMAIN list /\ Len(new) = Len(list)
  BY <1>1, <1>3
<1>6. \A i \in DOMAIN list : new[i] = IF i = k THEN item ELSE list[i]
  BY <1>1
<1> HIDE DEF new
<1>7. new \in Outboxes
  BY <1>1, <1>5 DEF Outboxes
<1> QED BY <1>3, <1>4, <1>5, <1>6, <1>7

\* The list is written back with the answer.
LEMMA RecordEffect ==
  ASSUME TypeInv, NEW e \in Engines, job[e].pc = "answer", NEW terminal \in BOOLEAN, Record(e, terminal)
  PROVE  /\ OnlyOutbox /\ JobsKept(e)
         /\ vault'["outbox"] = job'[e].list /\ DOMAIN job'[e].list = DOMAIN job[e].list
         /\ \A i \in DOMAIN job[e].list : job'[e].list[i].id = job[e].list[i].id
<1> DEFINE k == job[e].k
           list == Stamped(job[e].list, k, terminal)
           j == [pc |-> "loop", list |-> list, k |-> k + 1]
<1>1. job[e].list \in Outboxes /\ k \in DOMAIN job[e].list /\ k \in Nat
  BY JobShapes DEF TypeInv, JobsTyped
<1>2. /\ list \in Outboxes /\ DOMAIN list = DOMAIN job[e].list
      /\ \A i \in DOMAIN job[e].list : list[i].id = job[e].list[i].id
  BY <1>1, RecordFacts
<1>3. Put("outbox", list) /\ Enter(e, j)
  BY DEF Record, Stamped
<1> HIDE DEF list, k
<1>4. JobTyped(j) /\ j.list = list
  BY <1>1, <1>2 DEF JobTyped
<1> HIDE DEF j
<1>5. JobsKept(e) /\ job'[e] = j
  BY <1>3, <1>4, Enters
<1>6. OnlyOutbox /\ vault'["outbox"] = list
  BY <1>2, <1>3, PutOutbox DEF TypeInv, OnlyOutbox
<1> QED BY <1>2, <1>4, <1>5, <1>6

\* A verdict is recorded once.
LEMMA ToldFacts ==
  ASSUME TypeInv, NEW m, NEW verdict \in {"accepted", "rejected"}, Told(m, verdict)
  PROVE  /\ fate' \in [Messages -> {"open", "accepted", "rejected"}]
         /\ \A n \in Messages : fate[n] = "accepted" => fate'[n] = "accepted"
         /\ m \in Messages /\ fate'[m] = verdict
<1>1. m \in Messages
  BY DEF TypeInv, PeerTyped, Told
<1> QED BY <1>1 DEF TypeInv, PeerTyped, Told

\* The answer is recorded and written back, or nothing is.
LEMMA AnswerEffect ==
  ASSUME TypeInv, NEW e \in Engines, Answer(e)
  PROVE  /\ OnlyOutbox /\ JobsKept(e) /\ PeerTyped' /\ job[e] # Idle
         /\ \A n \in Messages : fate[n] = "accepted" => fate'[n] = "accepted"
         /\ \/ /\ vault'["outbox"] = job'[e].list /\ DOMAIN job'[e].list = DOMAIN job[e].list
               /\ \A i \in DOMAIN job[e].list : job'[e].list[i].id = job[e].list[i].id
            \/ vault' = vault /\ job'[e] = Idle
<1>1. job[e].pc = "answer" /\ job[e] # Idle
  BY PcFacts DEF Answer
<1>2. CASE Record(e, FALSE) /\ UNCHANGED fate
  BY <1>1, <1>2, RecordEffect DEF Answer, TypeInv, PeerTyped
<1>3. CASE Record(e, TRUE) /\ Told(job[e].list[job[e].k].id, "rejected")
  BY <1>1, <1>3, RecordEffect, ToldFacts DEF Answer, TypeInv, PeerTyped
<1>4. CASE Leave(e) /\ UNCHANGED <<vault, fate>>
  BY <1>1, <1>4, Leaves, UnwrittenIsOnlyOutbox DEF Answer, TypeInv, PeerTyped
<1> QED BY <1>2, <1>3, <1>4 DEF Answer

\* acceptDelivery holds the outbox without the entry that was accepted.
LEMMA AcceptDeliveryEffect ==
  ASSUME TypeInv, NEW e \in Engines, NEW m, AcceptDelivery(e, m)
  PROVE  /\ OnlyOutbox /\ JobsKept(e) /\ PeerTyped' /\ vault' = vault
         /\ \A n \in Messages : fate[n] = "accepted" => fate'[n] = "accepted"
         /\ m \in Messages /\ fate'[m] = "accepted"
         /\ job'[e].list = Without(vault["outbox"], m)
<1> DEFINE list == Without(vault["outbox"], m)
<1>1. vault["outbox"] \in Seq(Item) /\ Len(vault["outbox"]) <= MaxPending
      /\ Len(vault["outbox"]) \in Nat
  BY DEF TypeInv, VaultTyped, Outboxes
<1>2. list \in Seq(Item) /\ Len(list) <= Len(vault["outbox"])
  BY <1>1, WithoutFacts
<1> HIDE DEF list
<1>3. list \in Outboxes
  BY <1>1, <1>2, NoneFacts DEF Outboxes
<1>4. JobTyped([pc |-> "write", list |-> list])
  BY <1>3 DEF JobTyped
<1>5. Enter(e, [pc |-> "write", list |-> list])
  BY DEF AcceptDelivery, list
<1>6. JobsKept(e) /\ job'[e].list = list
  BY <1>4, <1>5, Enters
<1> QED BY <1>6, ToldFacts, UnwrittenIsOnlyOutbox DEF AcceptDelivery, TypeInv, PeerTyped, list

\* rejectDelivery holds the outbox with the entry marked.
LEMMA RejectDeliveryEffect ==
  ASSUME TypeInv, NEW e \in Engines, NEW m, RejectDelivery(e, m)
  PROVE  /\ OnlyOutbox /\ JobsKept(e) /\ PeerTyped' /\ vault' = vault
         /\ \A n \in Messages : fate[n] = "accepted" => fate'[n] = "accepted"
         /\ DOMAIN job'[e].list = DOMAIN vault["outbox"]
         /\ \A i \in DOMAIN vault["outbox"] : job'[e].list[i].id = vault["outbox"][i].id
<1> DEFINE box == vault["outbox"]
<1>1. box \in Outboxes
  BY DEF TypeInv, VaultTyped
<1>2. PICK i \in DOMAIN box : Enter(e, [pc |-> "write", list |-> [box EXCEPT ![i].rejected = TRUE]])
  BY DEF RejectDelivery
<1> HIDE DEF box
<1> DEFINE item == [box[i] EXCEPT !.rejected = TRUE]
           list == [box EXCEPT ![i] = item]
<1>3. box \in Seq(Item) /\ DOMAIN box = 1..Len(box) /\ Len(box) \in Nat
  BY <1>1, ListIsOutbox
<1>4. box[i] \in Item
  BY <1>3
<1>5. item \in Item /\ item.id = box[i].id
  BY <1>4 DEF Item
<1> HIDE DEF item
<1>6. list \in Seq(Item) /\ DOMAIN list = DOMAIN box /\ Len(list) = Len(box)
  BY <1>3, <1>5
<1>7. \A n \in DOMAIN box : list[n].id = box[n].id
  BY <1>3, <1>5
<1>8. Enter(e, [pc |-> "write", list |-> list])
  BY <1>2 DEF item
<1> HIDE DEF list
<1>9. list \in Outboxes
  BY <1>1, <1>3, <1>6 DEF Outboxes
<1>10. JobTyped([pc |-> "write", list |-> list])
  BY <1>9 DEF JobTyped
<1>11. JobsKept(e) /\ job'[e].list = list
  BY <1>8, <1>10, Enters
<1> QED BY <1>6, <1>7, <1>11, ToldFacts, UnwrittenIsOnlyOutbox DEF RejectDelivery, TypeInv, PeerTyped, box

\* ... and writes it.
LEMMA WriteBackEffect ==
  ASSUME TypeInv, NEW e \in Engines, WriteBack(e)
  PROVE  /\ OnlyOutbox /\ JobsKept(e) /\ job[e] # Idle /\ job'[e] = Idle
         /\ vault' = vault \/ vault'["outbox"] = job[e].list
<1>1. job[e].list \in Outboxes /\ job[e] # Idle
  BY JobShapes, PcFacts DEF WriteBack, TypeInv, JobsTyped
<1>2. JobsKept(e) /\ job'[e] = Idle
  BY Leaves DEF WriteBack
<1>3. CASE Put("outbox", job[e].list)
  BY <1>1, <1>2, <1>3, PutOutbox DEF TypeInv, OnlyOutbox
<1>4. CASE vault' = vault
  BY <1>1, <1>2, <1>4, UnwrittenIsOnlyOutbox
<1> QED BY <1>3, <1>4 DEF WriteBack

\* What a step of a delivery task may change.
LEMMA TaskEffect ==
  ASSUME TypeInv, NEW e \in Engines, Task(e)
  PROVE  /\ TypeInv' /\ OnlyOutbox /\ UNCHANGED aside
         /\ \A f \in Engines \ {e} : job'[f] = job[f]
<1>1. UNCHANGED aside
  BY DEF Task, Retry, ReadFloor, HoldPending, Finish, Submit, Answer, AcceptDelivery, RejectDelivery,
         WriteBack, aside, peer
<1>2. OnlyOutbox /\ JobsKept(e) /\ PeerTyped'
  <2>1. CASE Retry(e) \/ ReadFloor(e) \/ HoldPending(e) \/ Finish(e) \/ WriteBack(e)
    <3>1. PeerTyped'
      BY <2>1 DEF TypeInv, PeerTyped, Retry, ReadFloor, HoldPending, Finish, WriteBack, peer
    <3> QED BY <2>1, <3>1, RetryEffect, ReadFloorEffect, HoldPendingEffect, FinishEffect, WriteBackEffect
  <2>2. CASE Submit(e)
    BY <2>2, SubmitEffect
  <2>3. CASE Answer(e)
    BY <2>3, AnswerEffect
  <2>4. CASE \E m \in relayed : AcceptDelivery(e, m) \/ RejectDelivery(e, m)
    BY <2>4, AcceptDeliveryEffect, RejectDeliveryEffect
  <2> QED BY <2>1, <2>2, <2>3, <2>4 DEF Task
<1>3. OpsTyped' /\ TabTyped' /\ MemTyped' /\ PageTyped' /\ LogsTyped'
  BY <1>1 DEF TypeInv, OpsTyped, TabTyped, MemTyped, PageTyped, LogsTyped, aside, tab, logs
<1> QED BY <1>1, <1>2, <1>3 DEF TypeInv, OnlyOutbox, JobsKept

\* The steps of an engine that are none of a delivery task.
OpStep(e) ==
  \/ \E m \in Inbound : Receive(e, m)
  \/ Decrypt(e) \/ Accept(e) \/ Commit(e) \/ Review(e) \/ Undo(e)
  \/ \E m \in Messages \cup {None} : Send(e, m)
  \/ Encrypt(e) \/ Enqueue(e) \/ Save(e)
  \/ Verify(e) \/ Rebuild(e) \/ GiveUp(e)

\* The steps of the specification, by what they touch.
LEMMA NextSteps ==
  ASSUME Next
  PROVE  \/ \E e \in Engines : \/ Open(e) \/ Close(e) \/ Die(e)
                               \/ OpStep(e) \/ Show(e) \/ Project(e) \/ Task(e)
         \/ Lapse \/ \E e \in Engines : Renew(e)
BY DEF Next, OpStep, Task

\* Every step of an operation keeps the types.
LEMMA OpStepTyped ==
  ASSUME TypeInv, NEW e \in Engines, OpStep(e)
  PROVE  TypeInv'
BY ReceiveTyped, DecryptTyped, AcceptTyped, CommitTyped, ReviewTyped, UndoTyped, SendTyped, EncryptTyped,
   EnqueueTyped, SaveTyped, VerifyTyped, RebuildTyped, GiveUpTyped DEF OpStep

\* The initial state has the types.
LEMMA TypeInit ==
  ASSUME Init
  PROVE  TypeInv
<1>1. VaultTyped
  <2>1. /\ vault["outbox"] = <<>> /\ vault["floor"] = 0 /\ vault["session"] = [out |-> 0, in |-> {}]
        /\ vault["seen"] = {} /\ vault["history"] = [ids |-> {}, held |-> {}]
        /\ vault = [r \in Records |-> vault[r]]
    BY DEF Init, Records
  <2>2. <<>> \in Outboxes
    BY NoneFacts DEF Outboxes
  <2> QED BY <2>1, <2>2 DEF VaultTyped, Ratchet, Histories
<1>2. OpsTyped /\ JobsTyped /\ TabTyped /\ MemTyped /\ PeerTyped /\ LogsTyped
  BY NoneFacts DEF Init, OpsTyped, JobsTyped, TabTyped, MemTyped, PeerTyped, LogsTyped, OpTyped, JobTyped,
                   MaybeRatchet
<1>3. PageTyped
  BY NoneFacts DEF Init, PageTyped, Blank, Shown, Due
<1> QED BY <1>1, <1>2, <1>3 DEF TypeInv

\* Every step keeps the types.
LEMMA TypeNext ==
  ASSUME TypeInv, [Next]_vars
  PROVE  TypeInv'
<1>1. CASE Next
  BY <1>1, NextSteps, OpenTyped, CloseTyped, DieTyped, LeaseTyped, OpStepTyped, ShowTyped, ProjectTyped,
     TaskEffect
<1>2. CASE UNCHANGED vars
  BY <1>2 DEF vars, TypeInv, VaultTyped, OpsTyped, JobsTyped, TabTyped, MemTyped, PageTyped, PeerTyped,
              LogsTyped, tab, peer, logs
<1> QED BY <1>1, <1>2

\* The invariant says more than the types.
LEMMA TypeImplies ==
  ASSUME TypeInv
  PROVE  TypeOK
<1>1. VaultOK
  BY DEF TypeInv, VaultTyped, VaultOK, Outboxes, Histories
<1>2. \A e \in Engines : OpOK(op[e]) /\ (job[e] = Idle \/ job[e].pc \in Delivering)
  <2>1. ASSUME NEW e \in Engines PROVE OpOK(op[e])
    BY DEF TypeInv, OpsTyped, OpTyped, OpOK, Decrypting, Accepting, Committing, Encrypting, Queueing,
           Saving, Receiving, Sending
  <2>2. ASSUME NEW e \in Engines PROVE job[e] = Idle \/ job[e].pc \in Delivering
    BY DEF TypeInv, JobsTyped, JobTyped, Delivering
  <2> QED BY <2>1, <2>2
<1>3. /\ mem \in [Engines -> Ratchet \cup {None}]
      /\ page \in [Engines -> [shown : SUBSET Messages,
                               due : SUBSET [id : Messages, replaces : Messages \cup {None}]]]
  BY DEF TypeInv, MemTyped, MaybeRatchet, PageTyped, Shown, Due, Replaced
<1>4. released \subseteq [id : Messages, key : Nat, replaces : Messages \cup {None}] /\ answered \subseteq Inbound
  BY DEF TypeInv, LogsTyped, Replaced
<1> QED BY <1>1, <1>2, <1>3, <1>4 DEF TypeInv, TypeOK, TabTyped, PageTyped, PeerTyped

----------------------------------------------------------------------------
(* One operation at a time, and one open engine.                           *)

OneOp == \A e, f \in Engines : op[e] # Idle /\ op[f] # Idle => e = f

OneOpen ==
  /\ \A e \in Engines : status[e] = "open" => lease = e
  /\ \A e, f \in Engines : op[e] # Idle /\ status[f] = "open" => e = f
  /\ \A e \in Engines : status[e] = "closed" => mem[e] = None

\* What an engine gets into its memory, if it is open.
HoldsIfOpen(e) == mem'[e] = mem[e] \/ mem'[e] = None \/ status[e] = "open"

\* One engine's ratchet changes, and only if it is open does it get one.
LEMMA HoldOthers ==
  ASSUME TypeInv, NEW e \in Engines, NEW r, Hold(e, r)
  PROVE  /\ \A f \in Engines \ {e} : mem'[f] = mem[f]
         /\ mem'[e] = IF status[e] = "open" THEN r ELSE None
BY DEF Hold, TypeInv, MemTyped

\* What any step of an operation may change.
LEMMA OpStepEffect ==
  ASSUME TypeInv, NEW e \in Engines, OpStep(e)
  PROVE  /\ op[e] # Idle \/ (status[e] = "open" /\ MayEnter(e))
         /\ \A f \in Engines \ {e} : op'[f] = op[f] /\ mem'[f] = mem[f]
         /\ HoldsIfOpen(e)
         /\ status' = status /\ job' = job /\ peer' = peer
         /\ lease' \in {lease} \cup {x \in {e} : status[e] = "open"}
<1> DEFINE Quiet == /\ status' = status /\ job' = job /\ peer' = peer
                    /\ lease' \in {lease} \cup {x \in {e} : status[e] = "open"}
           Others == \A f \in Engines \ {e} : op'[f] = op[f]
           MemKept == (\A f \in Engines \ {e} : mem'[f] = mem[f]) /\ HoldsIfOpen(e)
           Entered == op[e] # Idle \/ (status[e] = "open" /\ MayEnter(e))
<1>1. ASSUME NEW m \in Inbound, Receive(e, m) PROVE Quiet /\ Others /\ MemKept /\ Entered
  BY <1>1 DEF Receive, Return, HoldsIfOpen, TypeInv, OpsTyped, tab
<1>2. CASE Decrypt(e)
  <2>1. Quiet /\ Entered
    BY <1>2, PcFacts DEF Decrypt, At, tab
  <2>2. Others
    BY <1>2 DEF Decrypt, TypeInv, OpsTyped
  <2>3. MemKept
    BY <1>2, HoldOthers DEF Decrypt, HoldsIfOpen
  <2> QED BY <2>1, <2>2, <2>3
<1>3. CASE Accept(e)
  <2>1. Quiet /\ Entered /\ MemKept
    BY <1>3, PcFacts DEF Accept, At, HoldsIfOpen, tab
  <2>2. Others
    BY <1>3 DEF Accept, TypeInv, OpsTyped
  <2> QED BY <2>1, <2>2
<1>4. CASE Commit(e) \/ Review(e)
  <2>1. Entered /\ MemKept
    BY <1>4, PcFacts DEF Commit, Review, At, HoldsIfOpen
  <2>2. Quiet /\ Others
    BY <1>4 DEF Commit, Review, Acknowledge, Return, Goto, TypeInv, OpsTyped, tab
  <2> QED BY <2>1, <2>2
<1>5. CASE Undo(e)
  <2>1. Entered /\ Quiet
    BY <1>5, PcFacts DEF Undo, At, Throw, tab
  <2>2. Others
    BY <1>5 DEF Undo, Throw, TypeInv, OpsTyped
  <2>3. MemKept
    BY <1>5, HoldOthers DEF Undo, HoldsIfOpen
  <2> QED BY <2>1, <2>2, <2>3
<1>6. ASSUME NEW m \in Messages \cup {None}, Send(e, m) PROVE Quiet /\ Others /\ MemKept /\ Entered
  BY <1>6 DEF Send, HoldsIfOpen, TypeInv, OpsTyped, tab
<1>7. CASE Encrypt(e)
  <2>1. Entered /\ Quiet
    BY <1>7, PcFacts DEF Encrypt, At, tab
  <2>2. Others
    BY <1>7 DEF Encrypt, TypeInv, OpsTyped
  <2>3. MemKept
    BY <1>7, HoldOthers DEF Encrypt, HoldsIfOpen
  <2> QED BY <2>1, <2>2, <2>3
<1>8. CASE Enqueue(e)
  <2>1. Entered /\ Quiet
    BY <1>8, PcFacts DEF Enqueue, At, Throw, tab
  <2>2. Others
    BY <1>8 DEF Enqueue, Throw, TypeInv, OpsTyped
  <2>3. MemKept
    BY <1>8, HoldOthers DEF Enqueue, HoldsIfOpen
  <2> QED BY <2>1, <2>2, <2>3
<1>9. CASE Save(e) \/ Verify(e)
  <2>1. Entered /\ MemKept
    BY <1>9, PcFacts DEF Save, Verify, At, HoldsIfOpen
  <2>2. Quiet /\ Others
    BY <1>9 DEF Save, Verify, Sent, Return, Goto, TypeInv, OpsTyped, tab
  <2> QED BY <2>1, <2>2
<1>10. CASE Rebuild(e)
  <2>1. Entered /\ MemKept /\ Quiet
    BY <1>10, PcFacts DEF Rebuild, Retryable, At, HoldsIfOpen, tab
  <2>2. Others
    BY <1>10 DEF Rebuild, TypeInv, OpsTyped
  <2> QED BY <2>1, <2>2
<1>11. CASE GiveUp(e)
  <2>1. Entered /\ Quiet
    BY <1>11, PcFacts DEF GiveUp, At, Throw, tab
  <2>2. Others
    BY <1>11 DEF GiveUp, Throw, TypeInv, OpsTyped
  <2>3. MemKept
    BY <1>11, HoldOthers DEF GiveUp, HoldsIfOpen
  <2> QED BY <2>1, <2>2, <2>3
<1>12. Quiet /\ Others /\ MemKept /\ Entered
  BY <1>1, <1>2, <1>3, <1>4, <1>5, <1>6, <1>7, <1>8, <1>9, <1>10, <1>11 DEF OpStep
<1> QED BY <1>12

\* At first nothing is under way and nothing is open.
LEMMA OneOpInit ==
  ASSUME Init
  PROVE  OneOp /\ OneOpen
BY NoneFacts DEF Init, OneOp, OneOpen

\* withTabLock: whoever enters has found the lock of the room free.
LEMMA OneOpNext ==
  ASSUME TypeInv, OneOp, [Next]_vars
  PROVE  OneOp'
<1>1. ASSUME NEW e \in Engines, OpStep(e) PROVE OneOp'
  <2>1. \A f \in Engines \ {e} : op'[f] = op[f] /\ op[f] = Idle
    BY <1>1, OpStepEffect DEF OneOp, MayEnter
  <2> QED BY <2>1 DEF OneOp
<1>2. ASSUME NEW e \in Engines, Die(e) PROVE OneOp'
  BY <1>2 DEF Die, OneOp, TypeInv, OpsTyped
<1>3. ASSUME NEW e \in Engines, Open(e) \/ Close(e) \/ Renew(e) \/ Show(e) \/ Project(e) PROVE OneOp'
  BY <1>3 DEF Open, Close, Renew, Show, Project, OneOp
<1>4. ASSUME NEW e \in Engines, Task(e) PROVE OneOp'
  BY <1>4, TaskEffect DEF aside, OneOp
<1>5. CASE Lapse \/ UNCHANGED vars
  BY <1>5 DEF Lapse, vars, OneOp
<1> QED BY <1>1, <1>2, <1>3, <1>4, <1>5, NextSteps

\* While no lease of a live tab lapses, an engine that is open has the lease,
\* so no other one opens; and a closed one has given up its ratchet.
LEMMA OneOpenNext ==
  ASSUME TypeInv, OneOp, OneOpen, ~Starved, [Next]_vars
  PROVE  OneOpen'
<1>0. TabTyped
  BY DEF TypeInv
<1>1. ASSUME NEW e \in Engines, OpStep(e) PROVE OneOpen'
  <2>1. /\ op[e] # Idle \/ (status[e] = "open" /\ MayEnter(e))
        /\ \A f \in Engines \ {e} : op'[f] = op[f] /\ mem'[f] = mem[f]
        /\ HoldsIfOpen(e) /\ status' = status
        /\ lease' \in {lease} \cup {x \in {e} : status[e] = "open"}
    BY <1>1, OpStepEffect
  <2>2. \A f \in Engines : status[f] = "open" => f = e
    BY <2>1, NoneFacts DEF OneOpen, MayEnter
  <2>3. \A f \in Engines : status[f] = "open" => lease' = f
    BY <2>1, <2>2 DEF OneOpen
  <2>4. \A f \in Engines \ {e} : op'[f] = Idle
    BY <2>1 DEF OneOp, MayEnter
  <2>5. \A f \in Engines : status[f] = "closed" => mem'[f] = None
    BY <2>1 DEF OneOpen, HoldsIfOpen
  <2> QED BY <2>1, <2>2, <2>3, <2>4, <2>5 DEF OneOpen
<1>2. ASSUME NEW e \in Engines, Open(e) PROVE OneOpen'
  <2>1. /\ status' = [status EXCEPT ![e] = "open"] /\ lease' = e /\ op' = op
        /\ mem' = [mem EXCEPT ![e] = vault["session"]] /\ lease = None
        /\ \A f \in Engines : op[f] = Idle
    BY <1>2 DEF Open, MayEnter
  <2>2. \A f \in Engines : status[f] # "open"
    BY <2>1, NoneFacts DEF OneOpen
  <2> QED BY <1>0, <2>1, <2>2 DEF OneOpen, TypeInv, TabTyped, MemTyped
<1>3. ASSUME NEW e \in Engines, Close(e) PROVE OneOpen'
  <2>1. /\ status' = [status EXCEPT ![e] = "closed"] /\ op' = op
        /\ mem' = [mem EXCEPT ![e] = None]
        /\ lease' = (IF lease = e THEN None ELSE lease)
    BY <1>3 DEF Close
  <2> QED BY <1>0, <2>1 DEF OneOpen, TypeInv, TabTyped, MemTyped
<1>4. ASSUME NEW e \in Engines, Die(e) PROVE OneOpen'
  <2>1. /\ status' = [status EXCEPT ![e] = "closed"] /\ op' = [op EXCEPT ![e] = Idle]
        /\ mem' = [mem EXCEPT ![e] = None] /\ lease' = lease
    BY <1>4 DEF Die
  <2> QED BY <1>0, <2>1 DEF OneOpen, TypeInv, TabTyped, MemTyped, OpsTyped
<1>5. CASE Lapse
  <2>1. lease \in Engines /\ status[lease] = "closed" /\ status' = status /\ mem' = mem /\ op' = op
    BY <1>0, <1>5 DEF Lapse, TabTyped
  <2>2. \A f \in Engines : status[f] # "open"
    BY <2>1 DEF OneOpen
  <2> QED BY <2>1, <2>2 DEF OneOpen
<1>6. ASSUME NEW e \in Engines, Renew(e) PROVE OneOpen'
  BY <1>6 DEF Renew, OneOpen
<1>7. ASSUME NEW e \in Engines, Show(e) \/ Project(e) PROVE OneOpen'
  BY <1>7 DEF Show, Project, OneOpen, tab
<1>8. ASSUME NEW e \in Engines, Task(e) PROVE OneOpen'
  BY <1>8, TaskEffect DEF aside, tab, OneOpen
<1>9. CASE UNCHANGED vars
  BY <1>9 DEF vars, tab, OneOpen
<1> QED BY <1>1, <1>2, <1>3, <1>4, <1>5, <1>6, <1>7, <1>8, <1>9, NextSteps

----------------------------------------------------------------------------
(* What is written for good.                                               *)

LogInv ==
  /\ vault["seen"] \subseteq vault["history"].ids
  /\ answered \subseteq vault["seen"]

\* A record of the vault is what it was.
Same(r) == vault'[r] = vault[r]

\* What an operation commits.
LEMMA Swaps ==
  ASSUME TypeInv, NEW e \in Engines
  PROVE  /\ op[e].pc \in {"commit", "review"} => Committing(op[e])
         /\ op[e].pc \in {"save", "conflict", "verify"} => Saving(op[e])
BY OpShapes, PcFacts DEF TypeInv, OpsTyped

\* Only the two commits write the vault.
LEMMA QuietEffect ==
  ASSUME TypeInv, NEW e \in Engines, OpStep(e), ~Commit(e), ~Save(e)
  PROVE  vault' = vault /\ released' = released
BY DEF OpStep, Receive, Decrypt, Accept, Review, Undo, Send, Encrypt, Enqueue, Verify, Rebuild, GiveUp, logs

\* An operation takes nothing out of the log, and keeps it within the history:
\* a message replaced is one of the user's own. Under a raised floor nothing of
\* the old format joins the log.
LEMMA LogStep ==
  ASSUME TypeInv, LogInv, NEW e \in Engines, OpStep(e)
  PROVE  /\ LogInv' /\ vault["seen"] \subseteq vault'["seen"]
         /\ vault["floor"] = 1 => Same("floor") /\ vault'["seen"] \cap Legacy = vault["seen"] \cap Legacy
<1> DEFINE Kept == /\ vault["seen"] \subseteq vault'["seen"]
                   /\ vault'["seen"] \subseteq vault'["history"].ids
                   /\ vault["floor"] = 1 => Same("floor") /\ vault'["seen"] \cap Legacy = vault["seen"] \cap Legacy
<1>0. vault["floor"] \in 0..1 /\ VaultTyped
  BY DEF TypeInv, VaultTyped
<1>1. CASE Commit(e)
  <2>1. Committing(op[e])
    BY <1>1, Swaps DEF Commit, At
  <2>2. CASE Matches(op[e].updates) /\ Swap(op[e].updates)
    <3>1. /\ vault'["seen"] = vault["seen"] \cup {op[e].env}
          /\ vault'["history"].ids = vault["history"].ids \cup {op[e].env}
          /\ vault'["floor"] = IF op[e].env \in Legacy THEN vault["floor"] ELSE 1
          /\ op[e].env \in Legacy => vault["floor"] = 0
      BY <1>0, <2>1, <2>2, AcceptanceSwap
    <3>2. Kept
      BY <3>1 DEF LogInv, Same
    <3>3. answered' \subseteq vault'["seen"]
      BY <1>1, <3>1 DEF Commit, Acknowledge, LogInv
    <3> QED BY <3>2, <3>3 DEF LogInv
  <2>3. CASE vault' = vault /\ answered' = answered
    BY <2>3 DEF LogInv, Same
  <2> QED BY <1>1, <2>2, <2>3 DEF Commit
<1>2. CASE Save(e)
  <2>1. Saving(op[e]) /\ answered' = answered
    BY <1>2, Swaps DEF Save, At
  <2>2. CASE Matches(op[e].updates) /\ Swap(op[e].updates)
    <3>1. /\ vault'["seen"] = vault["seen"] /\ vault'["floor"] = vault["floor"]
          /\ vault'["history"].ids = (vault["history"].ids \ {op[e].replaces}) \cup {op[e].id}
      BY <1>0, <2>1, <2>2, EnqueueSwap
    <3>2. op[e].replaces \notin vault["seen"]
      BY <1>0, <2>1, NoneFacts DEF Saving, Replaced, VaultTyped
    <3> QED BY <2>1, <3>1, <3>2 DEF LogInv, Same
  <2>3. CASE vault' = vault
    BY <2>1, <2>3 DEF LogInv, Same
  <2> QED BY <1>2, <2>2, <2>3 DEF Save
<1>3. CASE Review(e)
  <2>1. Committing(op[e]) /\ Written(op[e].updates) /\ vault' = vault /\ answered' = answered \cup {op[e].env}
    BY <1>3, Swaps DEF Review, At, Acknowledge
  <2>2. op[e].env \in vault["seen"]
    <3>1. "seen" \in DOMAIN op[e].updates
      BY <2>1 DEF Committing, AcceptanceOK, Records
    <3> QED BY <2>1, <3>1 DEF Committing, AcceptanceOK, Written
  <2> QED BY <2>1, <2>2 DEF LogInv, Same
<1>4. ASSUME NEW m \in Inbound, Receive(e, m) PROVE LogInv' /\ vault' = vault
  BY <1>4 DEF Receive, LogInv
<1>5. CASE ~Commit(e) /\ ~Save(e) /\ ~Review(e) /\ ~\E m \in Inbound : Receive(e, m)
  <2>1. vault' = vault
    BY <1>5, QuietEffect
  <2>2. answered' = answered
    BY <1>5 DEF OpStep, Decrypt, Accept, Undo, Send, Encrypt, Enqueue, Verify, Rebuild, GiveUp, logs
  <2> QED BY <2>1, <2>2 DEF LogInv, Same
<1> QED BY <1>1, <1>2, <1>3, <1>4, <1>5 DEF Same

\* Nothing else touches session, log and floor, and the history only grows.
LEMMA LogOther ==
  ASSUME TypeInv, LogInv, [Next]_vars, ~\E e \in Engines : OpStep(e)
  PROVE  /\ LogInv' /\ Same("seen") /\ Same("floor") /\ Same("session") /\ released' = released
         /\ vault["history"].ids \subseteq vault'["history"].ids
<1>1. ASSUME NEW e \in Engines, Project(e)
      PROVE  /\ Same("seen") /\ Same("floor") /\ Same("session") /\ logs' = logs
             /\ vault["history"].ids \subseteq vault'["history"].ids
  BY <1>1, ProjectTyped DEF Project, Same, Records, logs
<1>2. ASSUME NEW e \in Engines, Task(e)
      PROVE  /\ Same("seen") /\ Same("floor") /\ Same("session") /\ logs' = logs
             /\ vault["history"].ids \subseteq vault'["history"].ids
  <2>1. Same("seen") /\ Same("floor") /\ Same("session") /\ Same("history") /\ logs' = logs
    BY <1>2, TaskEffect DEF aside, OnlyOutbox, Same, Records
  <2> QED BY <2>1 DEF Same
<1>3. ASSUME NEW e \in Engines, Open(e) \/ Close(e) \/ Die(e) \/ Renew(e) \/ Show(e)
      PROVE  vault' = vault /\ logs' = logs
  BY <1>3 DEF Open, Close, Die, Renew, Show
<1>4. CASE Lapse \/ UNCHANGED vars
  BY <1>4 DEF Lapse, vars, logs, LogInv, Same
<1> QED BY <1>1, <1>2, <1>3, <1>4, NextSteps DEF LogInv, Same, logs

----------------------------------------------------------------------------
(* The ratchet: which of two states of it an engine holds at each step of  *)
(* its operation, and which of them the vault has.                         *)

InStep(e) ==
  LET o == op[e]
      S == vault["session"]
  IN /\ o.pc \in {"idle", "encrypt", "decrypt"} => mem[e] \in {None, S}
     /\ o.pc \in {"accept", "commit"} => S = o.session
     /\ o.pc = "accept" => mem[e] \in {None, Consumes(o.session, o.env)}
     /\ o.pc \in {"commit", "review"} =>
          /\ o.updates["session"].next = Consumes(o.session, o.env)
          /\ mem[e] \in {None, o.updates["session"].next}
     /\ o.pc = "review" => S \in {o.session, o.updates["session"].next}
     /\ o.pc \in Sending => o.next = Spends(o.session) /\ mem[e] \in {None, o.next}
     /\ o.pc \in {"enqueue", "save", "conflict"} => S = o.session
     /\ o.pc = "verify" => S \in {o.session, o.next}

KeyInv ==
  /\ \A p \in released : p.key <= vault["session"].out
  /\ \A p, q \in released : p.key = q.key => p = q
  /\ vault["session"].in \subseteq vault["seen"]

RatchetInv == (\A e \in Engines : InStep(e)) /\ KeyInv

\* A step of one engine's operation leaves the other engines without a ratchet.
LEMMA OthersInStep ==
  ASSUME TypeInv, OneOp, OneOpen, NEW e \in Engines, OpStep(e), InStep(e)'
  PROVE  \A f \in Engines : InStep(f)'
<1>1. ASSUME NEW f \in Engines \ {e} PROVE InStep(f)'
  <2>1. op[f] = Idle /\ op'[f] = op[f] /\ mem'[f] = mem[f]
    BY OpStepEffect DEF OneOp, MayEnter
  <2>2. status[f] = "closed"
    <3>1. op[e] # Idle \/ (status[e] = "open" /\ lease \in {e, None})
      BY OpStepEffect DEF MayEnter
    <3>2. status[f] \in {"open", "closed"}
      BY DEF TypeInv, TabTyped
    <3> QED BY <3>1, <3>2, NoneFacts DEF OneOpen
  <2>3. mem'[f] = None /\ op'[f].pc = "idle"
    BY <2>1, <2>2, PcFacts DEF OneOpen
  <2> QED BY <2>3 DEF InStep, Sending
<1> QED BY <1>1

\* An operation that ends with the vault's ratchet, or with none.
LEMMA EndsInStep ==
  ASSUME TypeInv, NEW e \in Engines, op'[e] = Idle, mem'[e] \in {None, vault'["session"]}
  PROVE  InStep(e)'
BY PcFacts DEF InStep, Sending

\* A receive begins with the vault's ratchet in memory, or none.
LEMMA ReceiveInStep ==
  ASSUME TypeInv, NEW e \in Engines, NEW m \in Inbound, Receive(e, m), InStep(e)
  PROVE  InStep(e)'
<1>1. op[e] = Idle /\ mem' = mem /\ vault' = vault
  BY DEF Receive, MayEnter
<1>2. mem[e] \in {None, vault["session"]}
  BY <1>1, PcFacts DEF InStep
<1>3. op'[e] = Idle \/ op'[e].pc = "decrypt"
  BY DEF Receive, Return, TypeInv, OpsTyped
<1> QED BY <1>1, <1>2, <1>3, PcFacts DEF InStep, Sending

\* Decryption advances the ratchet in memory by the message's key.
LEMMA DecryptInStep ==
  ASSUME TypeInv, NEW e \in Engines, Decrypt(e), InStep(e)
  PROVE  InStep(e)'
<1> DEFINE spent == mem[e] = None \/ op[e].env \in mem[e].in
           q == [pc |-> IF spent THEN "undo" ELSE "accept", env |-> op[e].env, seen |-> op[e].seen,
                 session |-> vault["session"]]
<1>1. op'[e] = q /\ vault' = vault
  BY DEF Decrypt, TypeInv, OpsTyped
<1>2. mem[e] \in {None, vault["session"]}
  BY DEF InStep, Decrypt, At
<1>3. CASE spent
  BY <1>1, <1>3, PcFacts DEF InStep
<1>4. CASE ~spent
  <2>1. mem[e] = vault["session"] /\ vault["session"] \in Ratchet
    BY <1>2, <1>4 DEF TypeInv, VaultTyped
  <2>2. [mem[e] EXCEPT !.in = @ \cup {op[e].env}] = Consumes(vault["session"], op[e].env)
    BY <2>1 DEF Ratchet, Consumes
  <2>3. mem'[e] \in {None, Consumes(vault["session"], op[e].env)}
    BY <1>4, <2>2, HoldOthers DEF Decrypt
  <2>4. q.pc = "accept" /\ q.env = op[e].env /\ q.session = vault["session"]
    BY <1>4
  <2> HIDE DEF q
  <2> QED BY <1>1, <2>3, <2>4, PcFacts DEF InStep
<1> QED BY <1>3, <1>4

\* The advanced ratchet is what will be committed.
LEMMA AcceptInStep ==
  ASSUME TypeInv, NEW e \in Engines, Accept(e), InStep(e)
  PROVE  InStep(e)'
<1> DEFINE o == op[e]
<1>1. /\ o \in Accepting /\ vault' = vault /\ mem' = mem /\ o.pc = "accept"
      /\ vault["session"] = o.session /\ mem[e] \in {None, Consumes(o.session, o.env)}
  BY OpShapes DEF TypeInv, OpsTyped, Accept, At, InStep
<1>2. CASE op' = [op EXCEPT ![e] = [pc |-> "commit", env |-> @.env, session |-> @.session,
                                    updates |-> Acceptance(e)]]
           /\ mem[e] # None
  <2> DEFINE c == [pc |-> "commit", env |-> o.env, session |-> o.session, updates |-> Acceptance(e)]
  <2>1. op'[e] = c
    BY <1>2 DEF TypeInv, OpsTyped
  <2>2. Acceptance(e)["session"].next = mem[e]
    BY DEF Acceptance, Update
  <2>3. c.pc = "commit" /\ c.session = o.session /\ c.env = o.env /\ c.updates["session"].next = mem[e]
    BY <2>2
  <2> HIDE DEF c, o
  <2> QED BY <1>1, <1>2, <2>1, <2>3, PcFacts DEF InStep
<1>3. CASE op' = [op EXCEPT ![e].pc = "undo"]
  <2>1. op'[e].pc = "undo"
    BY <1>1, <1>3 DEF TypeInv, OpsTyped, Accepting
  <2> QED BY <2>1, PcFacts DEF InStep
<1> QED BY <1>2, <1>3 DEF Accept

\* The commit finds the vault's session as it was when the receive decrypted,
\* and leaves the advanced one.
LEMMA CommitInStep ==
  ASSUME TypeInv, NEW e \in Engines, Commit(e), InStep(e)
  PROVE  InStep(e)'
<1> DEFINE o == op[e]
<1>1. /\ Committing(o) /\ mem' = mem /\ o.pc = "commit" /\ VaultTyped
      /\ vault["session"] = o.session
      /\ o.updates["session"].next = Consumes(o.session, o.env)
      /\ mem[e] \in {None, o.updates["session"].next}
  BY Swaps DEF Commit, At, InStep, TypeInv
<1>2. ASSUME Matches(o.updates) /\ Swap(o.updates)
      PROVE  vault'["session"] = o.updates["session"].next
  BY <1>1, <1>2, AcceptanceSwap
<1> HIDE DEF o
<1>3. CASE Matches(o.updates) /\ Swap(o.updates) /\ Acknowledge(e)
  <2>1. op'[e] = Idle
    BY <1>3, Ends DEF Acknowledge
  <2> QED BY <1>1, <1>2, <1>3, <2>1, EndsInStep
<1>4. CASE Goto(e, "undo")
  <2>1. op'[e].pc = "undo"
    BY <1>1, <1>4, CommitGoes DEF o
  <2> QED BY <2>1, PcFacts DEF InStep
<1>5. CASE Goto(e, "review") /\ (vault' = vault \/ (Matches(o.updates) /\ Swap(o.updates)))
  <2>1. op'[e].pc = "review" /\ op'[e].env = o.env /\ op'[e].session = o.session /\ op'[e].updates = o.updates
    BY <1>1, <1>5, CommitGoes DEF o
  <2> QED BY <1>1, <1>2, <1>5, <2>1, PcFacts DEF InStep
<1> QED BY <1>3, <1>4, <1>5 DEF Commit, o

\* What was committed is the ratchet in memory.
LEMMA ReviewInStep ==
  ASSUME TypeInv, NEW e \in Engines, Review(e), InStep(e)
  PROVE  InStep(e)'
<1>1. /\ Committing(op[e]) /\ mem' = mem /\ vault' = vault /\ Written(op[e].updates)
      /\ mem[e] \in {None, op[e].updates["session"].next}
  BY Swaps DEF Review, At, InStep
<1>2. vault["session"] = op[e].updates["session"].next
  <2>1. "session" \in DOMAIN op[e].updates
    BY <1>1 DEF Committing, AcceptanceOK, Records
  <2> QED BY <1>1, <2>1 DEF Written
<1>3. op'[e] = Idle
  BY Ends DEF Review, Acknowledge
<1> QED BY <1>1, <1>2, <1>3, EndsInStep

\* Undoing restores what the vault has, or quarantines the session.
LEMMA UndoInStep ==
  ASSUME TypeInv, NEW e \in Engines, Undo(e), InStep(e)
  PROVE  InStep(e)'
<1>1. op'[e] = Idle /\ vault' = vault
  BY Ends DEF Undo
<1>2. mem'[e] \in {None, vault["session"]}
  BY HoldOthers DEF Undo, Restored
<1> QED BY <1>1, <1>2, EndsInStep

\* A send begins with the vault's ratchet in memory, or none.
LEMMA SendInStep ==
  ASSUME TypeInv, NEW e \in Engines, NEW m \in Messages \cup {None}, Send(e, m), InStep(e)
  PROVE  InStep(e)'
<1>1. op[e] = Idle /\ mem' = mem /\ vault' = vault
  BY DEF Send, MayEnter
<1>2. mem[e] \in {None, vault["session"]}
  BY <1>1, PcFacts DEF InStep
<1>3. op'[e].pc = "encrypt"
  BY DEF Send, TypeInv, OpsTyped
<1> QED BY <1>1, <1>2, <1>3, PcFacts DEF InStep

\* Encryption advances the vault's ratchet by one key.
LEMMA EncryptInStep ==
  ASSUME TypeInv, NEW e \in Engines, Encrypt(e), InStep(e)
  PROVE  InStep(e)'
<1> DEFINE old == vault["session"]
           new == [old EXCEPT !.out = @ + 1]
<1>1. mem[e] \in {None, old} /\ vault' = vault
  BY DEF Encrypt, At, InStep
<1>2. new = Spends(old)
  BY DEF TypeInv, VaultTyped, Ratchet, Spends
<1>3. ASSUME NEW hint \in BOOLEAN, Hold(e, new),
             op' = [op EXCEPT ![e] = [pc |-> "enqueue", id |-> @.id, replaces |-> @.replaces,
                                      v1 |-> EncodesV1(hint), session |-> old, next |-> new, tries |-> 1]]
      PROVE  InStep(e)'
  <2>1. op'[e].pc = "enqueue" /\ op'[e].session = old /\ op'[e].next = new
    BY <1>3 DEF TypeInv, OpsTyped
  <2>2. mem'[e] \in {None, new}
    BY <1>3, HoldOthers
  <2> QED BY <1>1, <1>2, <2>1, <2>2, PcFacts DEF InStep
<1>4. CASE op' = [op EXCEPT ![e] = Idle] /\ UNCHANGED mem
  <2>1. op'[e] = Idle
    BY <1>4 DEF TypeInv, OpsTyped
  <2> QED BY <1>1, <1>4, <2>1, EndsInStep
<1> QED BY <1>3, <1>4 DEF Encrypt

\* A refusal puts the ratchet back.
LEMMA EnqueueInStep ==
  ASSUME TypeInv, NEW e \in Engines, Enqueue(e), InStep(e)
  PROVE  InStep(e)'
<1> DEFINE o == op[e]
<1>1. /\ o.pc = "enqueue" /\ vault' = vault /\ vault["session"] = o.session
      /\ o.next = Spends(o.session) /\ mem[e] \in {None, o.next}
  BY PcFacts DEF Enqueue, At, InStep
<1>2. CASE op' = [op EXCEPT ![e] = [pc |-> "save", id |-> @.id, replaces |-> @.replaces, v1 |-> @.v1,
                                    session |-> @.session, next |-> @.next, tries |-> @.tries,
                                    updates |-> Enqueueing(e)]]
           /\ UNCHANGED <<tab, mem>>
  <2>1. op'[e].pc = "save" /\ op'[e].session = o.session /\ op'[e].next = o.next
    BY <1>2 DEF TypeInv, OpsTyped
  <2> HIDE DEF o
  <2> QED BY <1>1, <1>2, <2>1, PcFacts DEF InStep
<1>3. CASE Hold(e, o.session) /\ Throw(e)
  <2>1. op'[e] = Idle
    BY <1>3, Ends
  <2>2. mem'[e] \in {None, o.session}
    BY <1>3, HoldOthers
  <2> QED BY <1>1, <2>1, <2>2, EndsInStep
<1> QED BY <1>2, <1>3 DEF Enqueue

\* The commit leaves the advanced ratchet in the vault.
LEMMA SaveInStep ==
  ASSUME TypeInv, NEW e \in Engines, Save(e), InStep(e)
  PROVE  InStep(e)'
<1> DEFINE o == op[e]
<1>1. /\ Saving(o) /\ mem' = mem /\ o.pc = "save" /\ VaultTyped
      /\ vault["session"] = o.session /\ o.next = Spends(o.session) /\ mem[e] \in {None, o.next}
  BY Swaps, PcFacts DEF Save, At, InStep, TypeInv
<1>2. ASSUME Matches(o.updates) /\ Swap(o.updates)
      PROVE  vault'["session"] = o.next
  BY <1>1, <1>2, EnqueueSwap
<1> HIDE DEF o
<1>3. CASE Matches(o.updates) /\ Swap(o.updates) /\ Sent(e)
  <2>1. op'[e] = Idle
    BY <1>3, Ends DEF Sent
  <2> QED BY <1>1, <1>2, <1>3, <2>1, EndsInStep
<1>4. CASE Goto(e, "conflict") /\ vault' = vault
  <2>1. op'[e].pc = "conflict" /\ op'[e].session = o.session /\ op'[e].next = o.next
    BY <1>1, <1>4, SaveGoto, PcFacts DEF o
  <2> QED BY <1>1, <1>4, <2>1, PcFacts DEF InStep
<1>5. CASE Goto(e, "verify") /\ (vault' = vault \/ (Matches(o.updates) /\ Swap(o.updates)))
  <2>1. op'[e].pc = "verify" /\ op'[e].session = o.session /\ op'[e].next = o.next
    BY <1>1, <1>5, SaveGoto, PcFacts DEF o
  <2> QED BY <1>1, <1>2, <1>5, <2>1, PcFacts DEF InStep
<1> QED BY <1>3, <1>4, <1>5 DEF Save, o

\* What was enqueued is the ratchet in memory.
LEMMA VerifyInStep ==
  ASSUME TypeInv, NEW e \in Engines, Verify(e), InStep(e)
  PROVE  InStep(e)'
<1>1. /\ Saving(op[e]) /\ mem' = mem /\ vault' = vault /\ Written(op[e].updates)
      /\ mem[e] \in {None, op[e].next}
  BY Swaps, PcFacts DEF Verify, At, InStep
<1>2. vault["session"] = op[e].next
  BY <1>1 DEF Saving, EnqueueingOK, Written
<1>3. op'[e] = Idle
  BY Ends DEF Verify, Sent
<1> QED BY <1>1, <1>2, <1>3, EndsInStep

\* The ciphertext is offered again only while the vault's session is what it
\* was.
LEMMA RebuildInStep ==
  ASSUME TypeInv, NEW e \in Engines, Rebuild(e), InStep(e)
  PROVE  InStep(e)'
<1> DEFINE o == op[e]
<1>1. /\ Saving(o) /\ o.pc = "conflict" /\ vault' = vault /\ mem' = mem
      /\ vault["session"] = o.session /\ o.next = Spends(o.session) /\ mem[e] \in {None, o.next}
  BY Swaps, PcFacts DEF Rebuild, Retryable, At, InStep
<1>2. op'[e].pc = "enqueue" /\ op'[e].session = o.session /\ op'[e].next = o.next
  BY <1>1 DEF Rebuild, Saving, TypeInv, OpsTyped
<1> HIDE DEF o
<1> QED BY <1>1, <1>2, PcFacts DEF InStep

\* A failed send whose records can be read has the vault's ratchet again, or
\* none.
LEMMA GiveUpInStep ==
  ASSUME TypeInv, ~Unreadable, NEW e \in Engines, GiveUp(e), InStep(e)
  PROVE  InStep(e)'
<1>1. op'[e] = Idle /\ vault' = vault
  BY Ends DEF GiveUp
<1>2. mem'[e] \in {None, vault["session"]}
  BY HoldOthers DEF GiveUp, Restored
<1> QED BY <1>1, <1>2, EndsInStep

\* Every step of an operation keeps all the engines in step.
LEMMA OpStepInStep ==
  ASSUME TypeInv, ~Unreadable, OneOp, OneOpen, NEW e \in Engines, OpStep(e), InStep(e)
  PROVE  \A f \in Engines : InStep(f)'
<1>1. InStep(e)'
  BY ReceiveInStep, DecryptInStep, AcceptInStep, CommitInStep, ReviewInStep, UndoInStep, SendInStep,
     EncryptInStep, EnqueueInStep, SaveInStep, VerifyInStep, RebuildInStep, GiveUpInStep DEF OpStep
<1> QED BY <1>1, OthersInStep

\* The keys. A commit is the only step that moves the vault's session.
LEMMA OpStepKeys ==
  ASSUME TypeInv, LogInv, NEW e \in Engines, OpStep(e), InStep(e), KeyInv
  PROVE  KeyInv'
<1>0. VaultTyped /\ vault["session"] \in Ratchet /\ \A p \in released : p.key \in Nat
  BY DEF TypeInv, VaultTyped, LogsTyped
<1>1. CASE Commit(e)
  <2>1. Committing(op[e]) /\ released' = released
        /\ op[e].updates["session"].next = Consumes(op[e].session, op[e].env)
    BY <1>1, Swaps DEF Commit, At, InStep
  <2>2. CASE Matches(op[e].updates) /\ Swap(op[e].updates)
    <3>1. /\ vault'["session"] = Consumes(vault["session"], op[e].env)
          /\ vault'["seen"] = vault["seen"] \cup {op[e].env}
      BY <1>0, <2>1, <2>2, AcceptanceSwap
    <3> QED BY <2>1, <3>1 DEF KeyInv, Consumes
  <2>3. CASE vault' = vault
    BY <2>1, <2>3 DEF KeyInv
  <2> QED BY <1>1, <2>2, <2>3 DEF Commit
<1>2. CASE Save(e)
  <2>1. Saving(op[e]) /\ op[e].next = Spends(op[e].session)
    BY <1>2, Swaps, PcFacts DEF Save, At, InStep
  <2>2. CASE Matches(op[e].updates) /\ Swap(op[e].updates) /\ Release(e)
    <3>1. vault'["session"] = Spends(vault["session"]) /\ vault'["seen"] = vault["seen"]
          /\ op[e].next = Spends(vault["session"])
      BY <1>0, <2>1, <2>2, EnqueueSwap
    <3> DEFINE n == [id |-> op[e].id, key |-> op[e].next.out, replaces |-> op[e].replaces]
    <3>2. n.key = vault["session"].out + 1 /\ released' = released \cup {n}
      BY <2>2, <3>1 DEF Release, Spends
    <3> HIDE DEF n
    <3>3. vault["session"].out \in Nat /\ vault'["session"].out = vault["session"].out + 1
          /\ vault'["session"].in = vault["session"].in
      BY <1>0, <3>1 DEF Ratchet, Spends
    <3>4. \A p \in released : p.key <= vault["session"].out
      BY DEF KeyInv
    <3>5. \A p \in released' : p.key <= vault'["session"].out
      BY <1>0, <3>2, <3>3, <3>4
    <3>6. \A p \in released : p.key # n.key
      BY <1>0, <3>2, <3>3, <3>4
    <3>7. \A p, q \in released' : p.key = q.key => p = q
      BY <3>2, <3>6 DEF KeyInv
    <3> QED BY <3>1, <3>3, <3>5, <3>7 DEF KeyInv
  <2>3. CASE vault' = vault /\ released' = released
    BY <2>3 DEF KeyInv
  <2> QED BY <1>2, <2>2, <2>3 DEF Save
<1>3. CASE ~Commit(e) /\ ~Save(e)
  BY <1>3, QuietEffect DEF KeyInv
<1> QED BY <1>1, <1>2, <1>3

\* Opening restores the vault's ratchet, closing gives it up, ...
LEMMA LifeInStep ==
  ASSUME TypeInv, NEW e \in Engines, Open(e) \/ Close(e) \/ Die(e), NEW f \in Engines, InStep(f)
  PROVE  InStep(f)'
<1>1. vault' = vault
  BY DEF Open, Close, Die
<1>2. CASE f # e
  <2>1. mem'[f] = mem[f] /\ op'[f] = op[f]
    BY <1>2 DEF Open, Close, Die, TypeInv, MemTyped, OpsTyped
  <2> QED BY <1>1, <2>1 DEF InStep
<1>3. CASE f = e /\ Open(e)
  <2>1. mem'[e] = vault["session"] /\ op'[e] = Idle
    BY <1>3 DEF Open, MayEnter, TypeInv, MemTyped
  <2> QED BY <1>1, <1>3, <2>1, EndsInStep
<1>4. CASE f = e /\ Close(e)
  <2>1. mem'[e] = None /\ op'[e] = op[e]
    BY <1>4 DEF Close, TypeInv, MemTyped
  <2> QED BY <1>1, <1>4, <2>1 DEF InStep
<1>5. CASE f = e /\ Die(e)
  <2>1. mem'[e] = None /\ op'[e] = Idle
    BY <1>5 DEF Die, TypeInv, MemTyped, OpsTyped
  <2> QED BY <1>5, <2>1, EndsInStep
<1> QED BY <1>2, <1>3, <1>4, <1>5

\* ... and nothing else touches a ratchet.
LEMMA RatchetNext ==
  ASSUME TypeInv, LogInv, OneOp, OneOpen, RatchetInv, ~Unreadable, [Next]_vars
  PROVE  RatchetInv'
<1>1. ASSUME NEW e \in Engines, OpStep(e) PROVE RatchetInv'
  BY <1>1, OpStepInStep, OpStepKeys DEF RatchetInv
<1>2. CASE ~\E e \in Engines : OpStep(e)
  <2>1. Same("session") /\ Same("seen") /\ released' = released
    BY <1>2, LogOther
  <2>2. KeyInv'
    BY <2>1 DEF KeyInv, RatchetInv, Same
  <2>3. ASSUME NEW f \in Engines PROVE InStep(f)'
    <3>0. InStep(f)
      BY DEF RatchetInv
    <3>1. ASSUME NEW e \in Engines, Open(e) \/ Close(e) \/ Die(e) PROVE InStep(f)'
      BY <3>0, <3>1, LifeInStep
    <3>2. ASSUME NEW e \in Engines, Renew(e) \/ Show(e) \/ Project(e) PROVE mem' = mem /\ op' = op
      BY <3>2 DEF Renew, Show, Project
    <3>3. ASSUME NEW e \in Engines, Task(e) PROVE mem' = mem /\ op' = op
      BY <3>3, TaskEffect DEF aside
    <3>4. CASE Lapse \/ UNCHANGED vars
      BY <2>1, <3>0, <3>4 DEF Lapse, vars, InStep, Same
    <3>5. CASE mem' = mem /\ op' = op
      BY <2>1, <3>0, <3>5 DEF InStep, Same
    <3> QED BY <1>2, <3>1, <3>2, <3>3, <3>4, <3>5, NextSteps
  <2> QED BY <2>2, <2>3 DEF RatchetInv
<1> QED BY <1>1, <1>2

\* The first session is established, and nothing was sent or received with it.
LEMMA RatchetInit ==
  ASSUME Init
  PROVE  LogInv /\ RatchetInv
<1>1. /\ vault["session"] = [out |-> 0, in |-> {}] /\ vault["seen"] = {}
      /\ vault["history"] = [ids |-> {}, held |-> {}] /\ released = {} /\ answered = {}
      /\ \A e \in Engines : mem[e] = None /\ op[e].pc = "idle"
  BY PcFacts DEF Init, Records
<1> QED BY <1>1, PcFacts DEF LogInv, RatchetInv, KeyInv, InStep

----------------------------------------------------------------------------
(* The outbox and the delivery tasks.                                      *)

HasId(list, id) == \E i \in DOMAIN list : list[i].id = id

\* A list has the entries of the outbox but those that were accepted, and no other.
Covers(list, box, fates) ==
  /\ \A i \in DOMAIN box : fates[box[i].id] = "accepted" \/ HasId(list, box[i].id)
  /\ \A k \in DOMAIN list : HasId(box, list[k].id)

\* A task is one of an open engine that is not sending, and its list covers the outbox.
JobOK(e) ==
  job[e] # Idle => /\ status[e] = "open" /\ op[e].pc \notin Sending
                   /\ Covers(job[e].list, vault["outbox"], fate)

Kept(p) ==
  \/ HasId(vault["outbox"], p.id)
  \/ fate[p.id] = "accepted"
  \/ \E q \in released : q.replaces = p.id

JobInv ==
  /\ \A e \in Engines : JobOK(e)
  /\ \A p \in released : Kept(p)

\* Two lists have the same ids.
SameIds(list, new) ==
  /\ \A i \in DOMAIN list : HasId(new, list[i].id)
  /\ \A k \in DOMAIN new : HasId(list, new[k].id)

\* Nothing that was accepted is open again.
StillAccepted == \A n \in Messages : fate[n] = "accepted" => fate'[n] = "accepted"

\* The outbox loses accepted messages only, and gains none.
Shrinks == Covers(vault'["outbox"], vault["outbox"], fate')

\* The entries of the outbox are messages of the user.
LEMMA OutboxIds ==
  ASSUME TypeInv
  PROVE  \A i \in DOMAIN vault["outbox"] : vault["outbox"][i].id \in Messages
<1>1. vault["outbox"] \in Seq(Item)
  BY DEF TypeInv, VaultTyped, Outboxes
<1>2. \A i \in DOMAIN vault["outbox"] : vault["outbox"][i] \in Item
  BY <1>1
<1> QED BY <1>2 DEF Item

\* A list has its own ids.
LEMMA SameIdsReflexive ==
  ASSUME NEW list
  PROVE  SameIds(list, list)
BY DEF SameIds, HasId

\* Holding entries back keeps the ids.
LEMMA HeldSameIds ==
  ASSUME NEW list \in Outboxes
  PROVE  SameIds(list, HoldLegacy(list))
<1> DEFINE held == HoldLegacy(list)
<1>1. DOMAIN held = DOMAIN list /\ \A i \in DOMAIN list : held[i].id = list[i].id
  BY HoldLegacyFacts
<1> HIDE DEF held
<1>2. SameIds(list, held)
  BY <1>1 DEF SameIds, HasId
<1> QED BY <1>2 DEF held

\* Lists with the same id at every place have the same ids.
LEMMA EqualIdsSame ==
  ASSUME NEW list, NEW new, DOMAIN new = DOMAIN list, \A i \in DOMAIN list : new[i].id = list[i].id
  PROVE  SameIds(list, new)
BY DEF SameIds, HasId

\* A list that covers the outbox covers one with the same ids.
LEMMA CoversSame ==
  ASSUME NEW list, NEW box, NEW new, NEW fates, Covers(list, box, fates), SameIds(box, new)
  PROVE  Covers(list, new, fates)
BY DEF Covers, SameIds, HasId

\* A list with the ids of the outbox covers it.
LEMMA SameCovers ==
  ASSUME NEW list, NEW new, NEW fates, SameIds(list, new)
  PROVE  Covers(new, list, fates) /\ Covers(list, new, fates)
BY DEF Covers, SameIds

\* A list with the ids of one that covers the outbox covers it.
LEMMA CoversTransfer ==
  ASSUME NEW list, NEW new, NEW box, NEW fates, Covers(list, box, fates), SameIds(list, new)
  PROVE  Covers(new, box, fates)
BY DEF Covers, SameIds, HasId

\* Later verdicts do not uncover anything.
LEMMA CoversLater ==
  ASSUME TypeInv, StillAccepted, NEW list, Covers(list, vault["outbox"], fate)
  PROVE  Covers(list, vault["outbox"], fate')
BY OutboxIds DEF Covers, StillAccepted

\* If the outbox loses accepted messages only, every message is accounted for.
LEMMA ReleasedKept ==
  ASSUME TypeInv, JobInv, Shrinks, StillAccepted, released' = released
  PROVE  \A p \in released' : Kept(p)'
<1>1. ASSUME NEW p \in released PROVE Kept(p)'
  <2>0. Kept(p) /\ p.id \in Messages
    BY DEF JobInv, TypeInv, LogsTyped
  <2>1. CASE HasId(vault["outbox"], p.id)
    <3>1. PICK i \in DOMAIN vault["outbox"] : vault["outbox"][i].id = p.id
      BY <2>1 DEF HasId
    <3>2. HasId(vault'["outbox"], p.id) \/ fate'[p.id] = "accepted"
      BY <3>1 DEF Shrinks, Covers
    <3> QED BY <3>2 DEF Kept
  <2>2. CASE fate[p.id] = "accepted"
    BY <2>0, <2>2 DEF StillAccepted, Kept
  <2>3. CASE \E q \in released : q.replaces = p.id
    BY <2>3 DEF Kept
  <2> QED BY <2>0, <2>1, <2>2, <2>3 DEF Kept
<1> QED BY <1>1

\* What a step of a task does with the list and the outbox.
LEMMA TaskCovers ==
  ASSUME TypeInv, NEW e \in Engines, Task(e), JobOK(e)
  PROVE  /\ Shrinks /\ StillAccepted /\ status[e] = "open" /\ op[e].pc \notin Sending
         /\ job'[e] # Idle => Covers(job'[e].list, vault'["outbox"], fate')
<1> DEFINE box == vault["outbox"]
           new == vault'["outbox"]
           list == job[e].list
           next == job'[e].list
           Goal == /\ Shrinks /\ StillAccepted /\ status[e] = "open" /\ op[e].pc \notin Sending
                   /\ job'[e] # Idle => Covers(next, new, fate')
<1>0. box \in Outboxes /\ SameIds(box, box) /\ Covers(box, box, fate')
  BY SameIdsReflexive, SameCovers DEF TypeInv, VaultTyped
<1>10. ASSUME job[e] # Idle, StillAccepted
      PROVE  /\ status[e] = "open" /\ op[e].pc \notin Sending
             /\ Covers(list, box, fate) /\ Covers(list, box, fate')
  BY <1>10, CoversLater DEF JobOK
<1>11. ASSUME new = box PROVE Shrinks
  BY <1>0, <1>11 DEF Shrinks
<1>1. CASE Retry(e)
  <2>1. vault' = vault /\ fate' = fate /\ next = box /\ status[e] = "open" /\ op[e].pc \notin Sending
    BY <1>1, RetryEffect DEF Retry, MutexFree, peer
  <2> QED BY <1>0, <1>11, <2>1 DEF StillAccepted
<1>2. CASE ReadFloor(e)
  <2>1. vault' = vault /\ fate' = fate /\ job[e] # Idle /\ next = list
    BY <1>2, ReadFloorEffect DEF ReadFloor, peer
  <2> QED BY <1>10, <1>11, <2>1 DEF StillAccepted
<1>3. CASE HoldPending(e)
  <2>1. fate' = fate /\ job[e] # Idle /\ StillAccepted
    BY <1>3, HoldPendingEffect DEF HoldPending, peer, StillAccepted
  <2>2. CASE vault' = vault /\ next = list
    BY <1>10, <1>11, <2>1, <2>2
  <2>3. CASE new = HoldLegacy(box) /\ next = HoldLegacy(box)
    <3>1. SameIds(box, new) /\ SameIds(new, new) /\ next = new
      BY <1>0, <2>3, HeldSameIds, SameIdsReflexive
    <3>2. Shrinks /\ Covers(next, new, fate')
      BY <3>1, SameCovers DEF Shrinks
    <3> QED BY <1>10, <2>1, <3>2
  <2>4. CASE vault' = vault /\ job'[e] = Idle
    BY <1>10, <1>11, <2>1, <2>4
  <2> QED BY <1>3, <2>2, <2>3, <2>4, HoldPendingEffect
<1>4. CASE Finish(e)
  <2>1. vault' = vault /\ fate' = fate /\ job[e] # Idle /\ job'[e] = Idle
    BY <1>4, FinishEffect, PcFacts DEF Finish, peer
  <2> QED BY <1>10, <1>11, <2>1 DEF StillAccepted
<1>5. CASE Submit(e)
  <2>1. vault' = vault /\ fate' = fate /\ job[e] # Idle /\ (job'[e] = Idle \/ next = list)
    BY <1>5, SubmitEffect DEF Submit
  <2> QED BY <1>10, <1>11, <2>1 DEF StillAccepted
<1>6. CASE Answer(e)
  <2>1. StillAccepted /\ job[e] # Idle
    BY <1>6, AnswerEffect DEF StillAccepted
  <2>2. CASE new = next /\ DOMAIN next = DOMAIN list /\ \A i \in DOMAIN list : next[i].id = list[i].id
    <3>1. SameIds(list, next) /\ SameIds(next, next)
      <4> HIDE DEF list, next
      <4> QED BY <2>2, EqualIdsSame, SameIdsReflexive
    <3>2. Covers(next, box, fate') /\ Covers(next, next, fate')
      BY <1>10, <2>1, <3>1, CoversTransfer, SameCovers
    <3> QED BY <1>10, <2>1, <2>2, <3>2 DEF Shrinks
  <2>3. CASE vault' = vault /\ job'[e] = Idle
    BY <1>10, <1>11, <2>1, <2>3
  <2> QED BY <1>6, <2>2, <2>3, AnswerEffect
<1>7. ASSUME NEW m, AcceptDelivery(e, m) PROVE Goal
  <2>1. /\ vault' = vault /\ StillAccepted /\ fate'[m] = "accepted" /\ next = Without(box, m)
        /\ status[e] = "open" /\ op[e].pc \notin Sending
    BY <1>7, AcceptDeliveryEffect DEF AcceptDelivery, MutexFree, StillAccepted
  <2> DEFINE w == Without(box, m)
  <2>2. /\ \A i \in DOMAIN w : \E j \in DOMAIN box : w[i] = box[j]
        /\ \A j \in DOMAIN box : box[j].id # m => \E i \in DOMAIN w : w[i] = box[j]
    <3>1. box \in Seq(Item)
      BY <1>0 DEF Outboxes
    <3> HIDE DEF box
    <3> QED BY <3>1, WithoutFacts
  <2> HIDE DEF w
  <2>3. Covers(w, box, fate')
    BY <2>1, <2>2 DEF Covers, HasId
  <2>4. next = w /\ new = box
    BY <2>1 DEF w
  <2> QED BY <1>11, <2>1, <2>3, <2>4
<1>8. ASSUME NEW m, RejectDelivery(e, m) PROVE Goal
  <2>1. /\ vault' = vault /\ StillAccepted
        /\ DOMAIN next = DOMAIN box /\ \A i \in DOMAIN box : next[i].id = box[i].id
        /\ status[e] = "open" /\ op[e].pc \notin Sending
    BY <1>8, RejectDeliveryEffect DEF RejectDelivery, MutexFree, StillAccepted
  <2>2. SameIds(box, next)
    <3> HIDE DEF box, next
    <3> QED BY <2>1, EqualIdsSame
  <2> QED BY <1>11, <2>1, <2>2, SameCovers
<1>9. CASE WriteBack(e)
  <2>1. fate' = fate /\ job[e] # Idle /\ job'[e] = Idle /\ StillAccepted
    BY <1>9, WriteBackEffect DEF WriteBack, peer, StillAccepted
  <2>2. CASE vault' = vault
    BY <1>10, <1>11, <2>1, <2>2
  <2>3. CASE new = list
    BY <1>10, <2>1, <2>3 DEF Shrinks
  <2> QED BY <1>9, <2>2, <2>3, WriteBackEffect
<1> QED BY <1>1, <1>2, <1>3, <1>4, <1>5, <1>6, <1>7, <1>8, <1>9 DEF Task

\* A send that begins to hold the delivery mutex has found it free.
LEMMA SendingWaits ==
  ASSUME TypeInv, NEW e \in Engines, OpStep(e), op'[e].pc \in Sending
  PROVE  op[e].pc \in Sending \/ job[e] = Idle
<1>1. ASSUME NEW m \in Inbound, Receive(e, m) PROVE op'[e].pc \in {"idle", "decrypt"}
  BY <1>1, PcFacts DEF Receive, Return, TypeInv, OpsTyped
<1>2. ASSUME Decrypt(e) PROVE op'[e].pc \in {"undo", "accept"}
  BY <1>2 DEF Decrypt, TypeInv, OpsTyped
<1>3. ASSUME Accept(e) PROVE op'[e].pc \in {"undo", "commit"}
  <2>1. op[e] \in Accepting
    BY <1>3, OpShapes DEF TypeInv, OpsTyped, Accept, At
  <2> QED BY <1>3, <2>1 DEF Accept, Accepting, TypeInv, OpsTyped
<1>4. ASSUME Commit(e) PROVE op'[e].pc \in {"idle", "undo", "review"}
  <2>1. Committing(op[e])
    BY <1>4, Swaps DEF Commit, At
  <2> QED BY <1>4, <2>1, CommitGoes, Ends, PcFacts DEF Commit, Acknowledge
<1>5. ASSUME Review(e) \/ Undo(e) PROVE op'[e].pc = "idle"
  BY <1>5, Ends, PcFacts DEF Review, Undo, Acknowledge
<1>6. ASSUME NEW m \in Messages \cup {None}, Send(e, m) PROVE op'[e].pc = "encrypt"
  BY <1>6 DEF Send, TypeInv, OpsTyped
<1>7. ASSUME Encrypt(e) PROVE job[e] = Idle
  BY <1>7 DEF Encrypt
<1>8. ASSUME Enqueue(e) \/ Save(e) \/ Verify(e) \/ Rebuild(e) \/ GiveUp(e) PROVE op[e].pc \in Sending
  BY <1>8, PcFacts DEF Enqueue, Save, Verify, Rebuild, Retryable, GiveUp, At
<1> QED BY <1>1, <1>2, <1>3, <1>4, <1>5, <1>6, <1>7, <1>8, PcFacts DEF OpStep

\* While a send of the only open engine holds the mutex there is no task.
LEMMA NoTask ==
  ASSUME TypeInv, OneOpen, JobInv, NEW e \in Engines, op[e].pc \in Sending
  PROVE  \A f \in Engines : job[f] = Idle
<1>1. op[e] # Idle
  BY PcFacts
<1> QED BY <1>1 DEF OneOpen, JobInv, JobOK

\* The entries of the old format are old ones, once the floor is raised.
NoOldEntry ==
  vault["floor"] = 1 =>
    \A k \in DOMAIN vault'["outbox"] :
      ~vault'["outbox"][k].v1 => HasId(vault["outbox"], vault'["outbox"][k].id)

\* An outbox that gains nothing gains nothing in the old format.
LEMMA ShrinksNoOldEntry ==
  ASSUME Shrinks
  PROVE  NoOldEntry
BY DEF Shrinks, Covers, NoOldEntry

\* Steps that keep the ids of the outbox and the tasks that go on.
LEMMA QuietJobs ==
  ASSUME TypeInv, JobInv, SameIds(vault["outbox"], vault'["outbox"]), StillAccepted, released' = released,
         \A f \in Engines : job'[f] # Idle =>
           job'[f] = job[f] /\ status'[f] = status[f] /\ op'[f].pc \notin Sending
  PROVE  JobInv' /\ NoOldEntry
<1>1. ASSUME NEW f \in Engines, job'[f] # Idle PROVE JobOK(f)'
  <2>1. /\ job'[f] = job[f] /\ status'[f] = "open" /\ op'[f].pc \notin Sending
        /\ Covers(job[f].list, vault["outbox"], fate)
    BY <1>1 DEF JobInv, JobOK
  <2>2. Covers(job[f].list, vault["outbox"], fate')
    BY <2>1, CoversLater
  <2>3. Covers(job[f].list, vault'["outbox"], fate')
    BY <2>2, CoversSame
  <2> QED BY <2>1, <2>3 DEF JobOK
<1>2. \A f \in Engines : JobOK(f)'
  BY <1>1 DEF JobOK
<1>3. Shrinks
  BY SameCovers DEF Shrinks
<1> QED BY <1>2, <1>3, ReleasedKept, ShrinksNoOldEntry DEF JobInv

\* An operation adds to the outbox only while no task holds a list, and what it
\* takes out is replaced by what it adds.
LEMMA OpStepJobs ==
  ASSUME TypeInv, OneOp, OneOpen, JobInv, NEW e \in Engines, OpStep(e)
  PROVE  JobInv' /\ NoOldEntry
<1>1. /\ status' = status /\ job' = job /\ fate' = fate
      /\ \A f \in Engines \ {e} : op'[f] = op[f]
  BY OpStepEffect DEF peer
<1>2. StillAccepted
  BY <1>1 DEF StillAccepted
<1>3. \A f \in Engines : job[f] # Idle => op'[f].pc \notin Sending
  BY <1>1, SendingWaits DEF JobInv, JobOK
<1>4. ASSUME SameIds(vault["outbox"], vault'["outbox"]), released' = released PROVE JobInv' /\ NoOldEntry
  BY <1>1, <1>2, <1>3, <1>4, QuietJobs
<1>5. CASE Commit(e)
  <2>1. Committing(op[e]) /\ released' = released /\ VaultTyped /\ vault["outbox"] \in Outboxes
    BY <1>5, Swaps DEF Commit, At, TypeInv, VaultTyped
  <2>2. vault'["outbox"] \in {vault["outbox"], HoldLegacy(vault["outbox"])}
    BY <1>5, <2>1, AcceptanceSwap DEF Commit
  <2> QED BY <1>4, <2>1, <2>2, HeldSameIds, SameIdsReflexive
<1>6. CASE Save(e)
  <2>1. Saving(op[e]) /\ op[e].pc = "save" /\ VaultTyped
    BY <1>6, Swaps DEF Save, At, TypeInv
  <2>2. \A f \in Engines : job'[f] = Idle
    BY <1>1, <2>1, NoTask, PcFacts
  <2>3. CASE vault' = vault /\ released' = released
    BY <1>4, <2>3, SameIdsReflexive
  <2>4. CASE Matches(op[e].updates) /\ Swap(op[e].updates) /\ Release(e)
    <3> DEFINE o == op[e]
               old == vault["outbox"]
               new == vault'["outbox"]
               n == [id |-> o.id, key |-> o.next.out, replaces |-> o.replaces]
    <3>1. /\ \A i \in DOMAIN old : old[i].id # o.replaces => \E k \in DOMAIN new : new[k] = old[i]
          /\ \E k \in DOMAIN new : new[k].id = o.id
          /\ \A k \in DOMAIN new : new[k].v1 = o.v1 \/ \E i \in DOMAIN old : new[k] = old[i]
          /\ o.v1 \/ vault["floor"] = 0
      BY <2>1, <2>4, EnqueueSwap
    <3>2. released' = released \cup {n} /\ n.id = o.id /\ n.replaces = o.replaces
      BY <2>4 DEF Release
    <3> HIDE DEF n
    <3>3. ASSUME NEW p \in released PROVE Kept(p)'
      <4>0. Kept(p)
        BY DEF JobInv
      <4>1. CASE HasId(old, p.id)
        <5>1. PICK i \in DOMAIN old : old[i].id = p.id
          BY <4>1 DEF HasId
        <5>2. CASE p.id # o.replaces
          <6>1. HasId(new, p.id)
            BY <3>1, <5>1, <5>2 DEF HasId
          <6> QED BY <6>1 DEF Kept
        <5>3. CASE p.id = o.replaces
          BY <3>2, <5>3 DEF Kept
        <5> QED BY <5>2, <5>3
      <4>2. CASE fate[p.id] = "accepted" \/ \E q \in released : q.replaces = p.id
        BY <1>1, <3>2, <4>2 DEF Kept
      <4> QED BY <4>0, <4>1, <4>2 DEF Kept
    <3>4. ASSUME NEW p, p = n PROVE Kept(p)'
      <4>1. HasId(new, p.id)
        BY <3>1, <3>2, <3>4 DEF HasId
      <4> QED BY <4>1 DEF Kept
    <3>5. NoOldEntry
      BY <3>1 DEF NoOldEntry, HasId
    <3>6. \A p \in released' : Kept(p)'
      BY <3>2, <3>3, <3>4
    <3> QED BY <2>2, <3>5, <3>6 DEF JobInv, JobOK
  <2> QED BY <1>6, <2>3, <2>4 DEF Save
<1>7. CASE ~Commit(e) /\ ~Save(e)
  BY <1>4, <1>7, QuietEffect, SameIdsReflexive
<1> QED BY <1>5, <1>6, <1>7

\* A task writes a list that covers the outbox, since nothing was enqueued
\* while it held the mutex.
LEMMA TaskJobs ==
  ASSUME TypeInv, OneOpen, JobInv, NEW e \in Engines, Task(e)
  PROVE  JobInv' /\ NoOldEntry
<1>1. /\ Shrinks /\ StillAccepted /\ status[e] = "open" /\ op[e].pc \notin Sending
      /\ job'[e] # Idle => Covers(job'[e].list, vault'["outbox"], fate')
  BY TaskCovers DEF JobInv
<1>2. status' = status /\ op' = op /\ released' = released /\ \A f \in Engines \ {e} : job'[f] = job[f]
  BY TaskEffect DEF aside, tab, logs
<1>3. \A f \in Engines \ {e} : job[f] = Idle
  BY <1>1 DEF OneOpen, JobInv, JobOK
<1>4. ASSUME NEW f \in Engines PROVE JobOK(f)'
  <2>1. CASE f = e
    BY <1>1, <1>2, <2>1 DEF JobOK
  <2>2. CASE f # e
    BY <1>2, <1>3, <2>2 DEF JobOK
  <2> QED BY <2>1, <2>2
<1> QED BY <1>1, <1>2, <1>4, ReleasedKept, ShrinksNoOldEntry DEF JobInv

\* Every step keeps the messages accounted for.
LEMMA JobNext ==
  ASSUME TypeInv, LogInv, OneOp, OneOpen, JobInv, ~Lingering, [Next]_vars
  PROVE  JobInv' /\ NoOldEntry
<1>1. ASSUME NEW e \in Engines, OpStep(e) PROVE JobInv' /\ NoOldEntry
  BY <1>1, OpStepJobs
<1>2. ASSUME NEW e \in Engines, Task(e) PROVE JobInv' /\ NoOldEntry
  BY <1>2, TaskJobs
<1>3. ASSUME vault'["outbox"] = vault["outbox"], fate' = fate, released' = released,
             \A f \in Engines : job'[f] # Idle =>
               job'[f] = job[f] /\ status'[f] = status[f] /\ op'[f] = op[f]
      PROVE  JobInv' /\ NoOldEntry
  <2>1. SameIds(vault["outbox"], vault'["outbox"]) /\ StillAccepted
    BY <1>3, SameIdsReflexive DEF StillAccepted
  <2>2. \A f \in Engines : job'[f] # Idle => op'[f].pc \notin Sending
    BY <1>3 DEF JobInv, JobOK
  <2> QED BY <1>3, <2>1, <2>2, QuietJobs
<1>4. ASSUME NEW e \in Engines, Open(e) PROVE JobInv' /\ NoOldEntry
  BY <1>3, <1>4 DEF Open, peer, logs, TypeInv, TabTyped
<1>5. ASSUME NEW e \in Engines, Close(e) PROVE JobInv' /\ NoOldEntry
  BY <1>3, <1>5 DEF Close, peer, logs, TypeInv, TabTyped
<1>6. ASSUME NEW e \in Engines, Die(e) PROVE JobInv' /\ NoOldEntry
  BY <1>3, <1>6 DEF Die, peer, logs, TypeInv, TabTyped, OpsTyped, JobsTyped
<1>7. ASSUME NEW e \in Engines, Renew(e) \/ Show(e) PROVE JobInv' /\ NoOldEntry
  BY <1>3, <1>7 DEF Renew, Show, peer, logs, tab
<1>8. ASSUME NEW e \in Engines, Project(e) PROVE JobInv' /\ NoOldEntry
  <2>1. vault'["outbox"] = vault["outbox"]
    BY <1>8, ProjectTyped DEF Records
  <2> QED BY <1>3, <1>8, <2>1 DEF Project, peer, logs, tab
<1>9. CASE Lapse \/ UNCHANGED vars
  BY <1>3, <1>9 DEF Lapse, vars, peer, logs, tab
<1> QED BY <1>1, <1>2, <1>4, <1>5, <1>6, <1>7, <1>8, <1>9, NextSteps

\* At first nothing was sent.
LEMMA JobInit ==
  ASSUME Init
  PROVE  JobInv
BY DEF Init, JobInv, JobOK

\* What the invariant says of each message is NothingLost.
LEMMA JobImplies ==
  ASSUME JobInv
  PROVE  NothingLost
<1>1. ASSUME NEW p \in released PROVE
        \/ \E i \in Range(vault["outbox"]) : i.id = p.id
        \/ fate[p.id] = "accepted"
        \/ \E q \in released : q.replaces = p.id
  BY DEF JobInv, Kept, HasId, Range
<1> QED BY <1>1 DEF NothingLost

----------------------------------------------------------------------------
(* The theorems.                                                           *)

\* The vault, the operations and the tasks have their types whatever the
\* timers, the failures and the number of engines.
THEOREM ConversationTyped == Spec => []TypeOK
<1>1. Init => TypeInv
  BY TypeInit
<1>2. TypeInv /\ [Next]_vars => TypeInv'
  BY TypeNext
<1>3. TypeInv => TypeOK
  BY TypeImplies
<1> QED BY <1>1, <1>2, <1>3, PTL DEF Spec

Durable == TypeInv /\ LogInv /\ OneOp

\* Types, logs and the lock, together.
LEMMA DurableNext ==
  ASSUME Durable, [Next]_vars
  PROVE  Durable'
<1>1. LogInv'
  BY LogStep, LogOther DEF Durable
<1> QED BY <1>1, TypeNext, OneOpNext DEF Durable

\* A ciphertext answered with "accepted", which the relay may forget, is in the
\* log and in the history for good, under every crash, conflict, failed commit
\* and late timer, and whatever several tabs do.
THEOREM AcceptedStays == Spec => []AcceptedIsDurable
<1>1. Init => Durable
  BY TypeInit, RatchetInit, OneOpInit DEF Durable
<1>2. Durable /\ [Next]_vars => Durable'
  BY DurableNext
<1>3. Durable => AcceptedIsDurable
  BY DEF Durable, LogInv, AcceptedIsDurable
<1> QED BY <1>1, <1>2, <1>3, PTL DEF Spec

Exclusive == Durable /\ OneOpen

\* ... with the single open engine, while no live tab's lease lapses.
LEMMA ExclusiveNext ==
  ASSUME ~Starved, Exclusive, [Next]_vars
  PROVE  Exclusive'
BY DurableNext, OneOpenNext DEF Exclusive, Durable

\* ... with the ratchets.
LEMMA SteppingNext ==
  ASSUME ~Starved, ~Unreadable, Exclusive, RatchetInv, [Next]_vars
  PROVE  Exclusive' /\ RatchetInv'
BY ExclusiveNext, RatchetNext DEF Exclusive, Durable

\* No live tab loses its lease, and the read after a failed commit succeeds:
\* then the open engine and the vault go through the operations in step.
LEMMA SteppingHolds ==
  ASSUME ~Starved, ~Unreadable
  PROVE  Spec => [](Exclusive /\ RatchetInv)
<1> DEFINE Inv == Exclusive /\ RatchetInv
<1>1. Init => Inv
  BY TypeInit, RatchetInit, OneOpInit DEF Durable, Exclusive
<1>2. Inv /\ [Next]_vars => Inv'
  BY SteppingNext
<1> HIDE DEF Inv
<1>3. Spec => []Inv
  BY <1>1, <1>2, PTL DEF Spec
<1> QED BY <1>3 DEF Inv

\* Under these hypotheses an engine's ratchet between operations is the
\* vault's, or the engine has none: every way a send or a receive can fail puts
\* it back or quarantines the session.
THEOREM RatchetSafe ==
  ASSUME ~Starved, ~Unreadable
  PROVE  Spec => []RatchetInStep
<1>1. Exclusive /\ RatchetInv => RatchetInStep
  BY DEF RatchetInv, InStep, RatchetInStep
<1> QED BY <1>1, SteppingHolds, PTL

\* ... and no two ciphertexts of the outbox were made with one message key.
THEOREM KeysNeverReused ==
  ASSUME ~Starved, ~Unreadable
  PROVE  Spec => []NoKeyReuse
<1>1. Exclusive /\ RatchetInv => NoKeyReuse
  BY DEF RatchetInv, KeyInv, NoKeyReuse
<1> QED BY <1>1, SteppingHolds, PTL

\* ... and a key of the peer is spent, durably, only with its message in the
\* log and in the history.
THEOREM ConsumedStays ==
  ASSUME ~Starved, ~Unreadable
  PROVE  Spec => []ConsumedIsApplied
<1>1. Exclusive /\ RatchetInv => ConsumedIsApplied
  BY DEF RatchetInv, KeyInv, Exclusive, Durable, LogInv, ConsumedIsApplied
<1> QED BY <1>1, SteppingHolds, PTL

\* ... with the outbox and its tasks.
LEMMA KeepingNext ==
  ASSUME ~Starved, ~Lingering, Exclusive, JobInv, [Next]_vars
  PROVE  Exclusive' /\ JobInv' /\ NoOldEntry
BY ExclusiveNext, JobNext DEF Exclusive, Durable

\* If no live tab loses its lease and no conversation is closed under a
\* delivery task, a message that entered the outbox stays there until it is
\* accepted or replaced: no list that was read before a change is written back
\* over it.
THEOREM OutboxSafe ==
  ASSUME ~Starved, ~Lingering
  PROVE  Spec => []NothingLost
<1> DEFINE Inv == Exclusive /\ JobInv
<1>1. Init => Inv
  BY TypeInit, RatchetInit, OneOpInit, JobInit DEF Durable, Exclusive
<1>2. Inv /\ [Next]_vars => Inv'
  BY KeepingNext
<1>3. Inv => NothingLost
  BY JobImplies
<1> HIDE DEF Inv
<1> QED BY <1>1, <1>2, <1>3, PTL DEF Spec

\* The step that NoDowngrade is about.
Downgrades ==
  vault["floor"] = 1 =>
    /\ vault'["floor"] = 1
    /\ vault'["seen"] \cap Legacy = vault["seen"] \cap Legacy
    /\ {i.id : i \in {i \in Range(vault'["outbox"]) : ~i.v1}}
         \subseteq {i.id : i \in Range(vault["outbox"])}

\* What a step may do under a raised floor.
LEMMA StepNoDowngrade ==
  ASSUME ~Starved, ~Lingering, Exclusive, JobInv, [Next]_vars
  PROVE  Downgrades
<1> SUFFICES ASSUME vault["floor"] = 1
             PROVE  /\ vault'["floor"] = 1
                    /\ vault'["seen"] \cap Legacy = vault["seen"] \cap Legacy
                    /\ {i.id : i \in {i \in Range(vault'["outbox"]) : ~i.v1}}
                         \subseteq {i.id : i \in Range(vault["outbox"])}
  BY DEF Downgrades
<1>1. vault'["floor"] = 1 /\ vault'["seen"] \cap Legacy = vault["seen"] \cap Legacy
  BY LogStep, LogOther DEF Exclusive, Durable, Same
<1>2. NoOldEntry
  BY KeepingNext
<1>3. {i.id : i \in {i \in Range(vault'["outbox"]) : ~i.v1}} \subseteq {i.id : i \in Range(vault["outbox"])}
  BY <1>2 DEF NoOldEntry, HasId, Range
<1> QED BY <1>1, <1>3

\* Under the same hypotheses the floor stays raised, and nothing in the old
\* format is accepted or enqueued any more.
THEOREM NeverDowngraded ==
  ASSUME ~Starved, ~Lingering
  PROVE  Spec => NoDowngrade
<1> DEFINE Inv == Exclusive /\ JobInv
<1>1. Init => Inv
  BY TypeInit, RatchetInit, OneOpInit, JobInit DEF Durable, Exclusive
<1>2. Inv /\ [Next]_vars => Inv'
  BY KeepingNext
<1>3. Inv /\ [Next]_vars => [Downgrades]_vars
  BY StepNoDowngrade
<1> HIDE DEF Inv
<1>4. Spec => [][Downgrades]_vars
  BY <1>1, <1>2, <1>3, PTL DEF Spec
<1> QED BY <1>4, PTL DEF NoDowngrade, Downgrades
=============================================================================
