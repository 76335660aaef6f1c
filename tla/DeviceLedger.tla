---------------------------- MODULE DeviceLedger ----------------------------
(***************************************************************************)
(* The device list of one account, kept by two devices in vaults of their  *)
(* own (service/src/devices/{lifecycle,join,runtime,trust,freshness}.ts    *)
(* and the device-control handlers of modernConversation.ts).  The first   *)
(* device enrols the second; either may later revoke the other.            *)
(*                                                                         *)
(* A list is the history of its membership, one map for each epoch: its    *)
(* commitment hashes the list together with the commitment of the list     *)
(* before it, so that equal commitments mean equal histories.  What the    *)
(* relay answers (DeviceRegistry) is a choice here.  Authorizations are    *)
(* well formed and inside their window; a late one is a lost one.          *)
(***************************************************************************)
EXTENDS Integers, Sequences, FiniteSets

CONSTANTS First, Second, MaxLedgerFaults, MaxEpoch

ASSUME LedgerAssumption == First # Second /\ MaxLedgerFaults \in Nat /\ MaxEpoch \in Nat

Members == {First, Second}
Peer(d) == IF d = First THEN Second ELSE First
NoHistory == << >>
NoEvidence == [id |-> "none", history |-> NoHistory]

VARIABLES
    ledger,    \* vault: device -> its list, as a history ("device-lifecycle")
    mark,      \* vault: device -> [epoch, history] ("device-lifecycle-highwater")
    joined,    \* vault: device -> it is bound to this account
    gate,      \* engine: device -> [suspended, members, evidence, seen, issues, alive]
    duty,      \* engine: device -> an operation between two of its awaits
    control,   \* device-control frames on their way
    ledgerFaults

ledgerVars == <<ledger, mark, joined, gate, duty, control, ledgerFaults>>

Epoch(h) == Len(h)
Mark(h) == [epoch |-> Epoch(h), history |-> h]
Now(h) == h[Len(h)]
ActiveIn(h) == {m \in Members : Now(h)[m] = "active"}
Grown(h, m, state) == Append(h, [Now(h) EXCEPT ![m] = state])
NoDuty == [kind |-> "none", history |-> NoHistory]

(* A new DeviceTrustEnforcer. *)
Fresh(h, issues) == [suspended |-> FALSE, members |-> ActiveIn(h), evidence |-> NoEvidence,
                     seen |-> Epoch(h), issues |-> issues, alive |-> TRUE]
Founded == <<[m \in Members |-> IF m = First THEN "active" ELSE "absent"]>>

LedgerInit ==
    /\ ledger = [d \in Members |-> IF d = First THEN Founded ELSE NoHistory]
    /\ mark = [d \in Members |-> Mark(ledger[d])]
    /\ joined = [d \in Members |-> d = First]
    /\ gate = [d \in Members |-> IF d = First THEN Fresh(Founded, TRUE)
                                 ELSE [Fresh(Founded, FALSE) EXCEPT !.members = {}, !.alive = FALSE]]
    /\ duty = [d \in Members |-> NoDuty]
    /\ control = {}
    /\ ledgerFaults = 0

Post(to, kind, h) == [to |-> to, kind |-> kind, history |-> h, admitted |-> FALSE]

(* readRecord refuses a list that is behind the mark, or beside it. *)
Readable(d) ==
    /\ ledger[d] # NoHistory
    /\ mark[d].epoch <= Epoch(ledger[d])
    /\ mark[d].epoch = Epoch(ledger[d]) => mark[d].history = ledger[d]

(* assertCurrent: every other member has shown that it has this very list. *)
AllFresh(d) ==
    \A m \in gate[d].members :
        m \in ActiveIn(ledger[d]) /\ (m # d => gate[d].evidence.history = ledger[d])

(* assertCurrentDeviceTrust *)
Trusted(d) ==
    /\ joined[d] /\ ~gate[d].suspended /\ Readable(d)
    /\ d \in ActiveIn(ledger[d]) /\ AllFresh(d)
    /\ Epoch(ledger[d]) >= gate[d].seen

Sees(d) == [gate[d] EXCEPT !.seen = Epoch(ledger[d])]
Restricted(g, h) == [g EXCEPT !.members = ActiveIn(h)]

(* recordAuthenticatedEvidence: what a member has shown once stays as it is. *)
Conflicts(g, id, h) == g.evidence # NoEvidence /\ g.evidence # [id |-> id, history |-> h]
Shown(g, id, h) == [g EXCEPT !.evidence = [id |-> id, history |-> h]]

(* writeAtomic: the list and its mark in one transaction. *)
Commit(d, h) ==
    /\ ledger' = [ledger EXCEPT ![d] = h]
    /\ mark' = [mark EXCEPT ![d] = Mark(h)]

(* suspend: the mark goes up to an epoch whose list the device does not have. *)
SuspendTrust(d, h) ==
    /\ gate' = [gate EXCEPT ![d].suspended = TRUE]
    /\ mark' = IF mark[d].epoch > Epoch(h) THEN mark ELSE [mark EXCEPT ![d] = Mark(h)]

(***************************************************************************)
(* Operations.                                                             *)
(***************************************************************************)
(* Every protected operation asserts the trust first, and closes the       *)
(* runtime when it is gone.                                                *)
Protected(d) ==
    /\ gate[d].alive /\ joined[d] /\ duty[d] = NoDuty
    /\ gate' = [gate EXCEPT ![d] = IF Trusted(d) THEN Sees(d) ELSE [@ EXCEPT !.alive = FALSE]]
    /\ UNCHANGED <<ledger, mark, joined, duty, control, ledgerFaults>>

MayIssue(d) == gate[d].alive /\ duty[d] = NoDuty /\ Trusted(d) /\ Epoch(ledger[d]) < MaxEpoch

ApproveEnrollment(d) ==
    /\ MayIssue(d) /\ Now(ledger[d])[Peer(d)] = "absent"
    /\ duty' = [duty EXCEPT ![d] = [kind |-> "enroll", history |-> ledger[d]]]
    /\ gate' = [gate EXCEPT ![d] = Sees(d)]
    /\ UNCHANGED <<ledger, mark, joined, control, ledgerFaults>>

ApplyEnrollmentLocally(d) ==
    LET h == Grown(ledger[d], Peer(d), "pending") IN
    /\ duty[d].kind = "enroll" /\ Readable(d) /\ duty[d].history = ledger[d]
    /\ d \in ActiveIn(ledger[d])
    /\ Commit(d, h)
    /\ control' = control \cup {Post(Peer(d), "approval", h)}
    /\ duty' = [duty EXCEPT ![d] = NoDuty]
    /\ UNCHANGED <<joined, gate, ledgerFaults>>

(* The target: install, confirm, adopt the account, then tell the issuer. *)
InstallApproval(d) == \E p \in control :
    /\ p.to = d /\ p.kind = "approval" /\ duty[d] = NoDuty
    /\ ledger[d] = NoHistory /\ mark[d].epoch = 0
    /\ Commit(d, p.history)
    /\ duty' = [duty EXCEPT ![d] = [kind |-> "confirm", history |-> p.history]]
    /\ control' = control \ {p}
    /\ UNCHANGED <<joined, gate, ledgerFaults>>

ConfirmEnrollment(d) ==
    /\ duty[d].kind = "confirm" /\ ledger[d] = duty[d].history
    /\ Now(ledger[d])[d] = "pending"
    /\ Commit(d, Grown(ledger[d], d, "active"))
    /\ duty' = [duty EXCEPT ![d].kind = "adopt"]
    /\ UNCHANGED <<joined, gate, control, ledgerFaults>>

AdoptMembership(d) ==
    /\ duty[d].kind = "adopt"
    /\ joined' = [joined EXCEPT ![d] = TRUE]
    /\ gate' = [gate EXCEPT ![d] = Shown(Fresh(ledger[d], FALSE), "enrollment", ledger[d])]
    /\ duty' = [duty EXCEPT ![d].kind = "activate"]
    /\ UNCHANGED <<ledger, mark, control, ledgerFaults>>

SendConfirmation(d) ==
    /\ duty[d].kind = "activate"
    /\ control' = control \cup {Post(Peer(d), "confirmation", duty[d].history)}
    /\ duty' = [duty EXCEPT ![d] = NoDuty]
    /\ UNCHANGED <<ledger, mark, joined, gate, ledgerFaults>>

ApproveRevocation(d) ==
    /\ MayIssue(d) /\ Now(ledger[d])[Peer(d)] \in {"pending", "active"}
    /\ gate[d].issues
    /\ duty' = [duty EXCEPT ![d] = [kind |-> "revoke", history |-> ledger[d]]]
    /\ gate' = [gate EXCEPT ![d] = Sees(d)]
    /\ UNCHANGED <<ledger, mark, joined, control, ledgerFaults>>

\* Variant for testing LedgerCorrect: the revocation is applied to the list as
\* it was when it was approved.
RevokesStale(d) ==
    LET h == Grown(duty[d].history, Peer(d), "revoked") IN
    /\ duty[d].kind = "revoke" /\ Readable(d)
    /\ Commit(d, h)
    /\ control' = control \cup {Post(Peer(d), "snapshot", h), Post(Peer(d), "event", h)}
    /\ gate' = [gate EXCEPT ![d] = Restricted(@, h)]
    /\ duty' = [duty EXCEPT ![d] = NoDuty]
    /\ UNCHANGED <<joined, ledgerFaults>>

ApplyRevocation(d) ==
    LET h == Grown(ledger[d], Peer(d), "revoked") IN
    /\ duty[d].kind = "revoke" /\ Readable(d) /\ duty[d].history = ledger[d]
    /\ d \in ActiveIn(ledger[d])
    /\ Commit(d, h)
    /\ control' = control \cup {Post(Peer(d), "snapshot", h), Post(Peer(d), "event", h)}
    /\ gate' = [gate EXCEPT ![d] = Restricted(@, h)]
    /\ duty' = [duty EXCEPT ![d] = NoDuty]
    /\ UNCHANGED <<joined, ledgerFaults>>

(* The list moved under the operation, or the relay refused its part. *)
GiveUp(d) ==
    /\ duty[d].kind \in {"enroll", "revoke", "activate"}
    /\ \/ duty[d].kind \in {"enroll", "activate"}
       \/ ~Readable(d) \/ duty[d].history # ledger[d] \/ d \notin ActiveIn(ledger[d])
    /\ duty' = [duty EXCEPT ![d] = NoDuty]
    /\ UNCHANGED <<ledger, mark, joined, gate, control, ledgerFaults>>

(***************************************************************************)
(* The inbound handler asserts the trust before it decrypts a frame; then  *)
(* handleDeviceControl, with awaits between.                               *)
(***************************************************************************)
AdmitControl(d) == \E p \in control :
    /\ p.to = d /\ ~p.admitted /\ gate[d].alive /\ joined[d]
    /\ gate' = [gate EXCEPT ![d] = IF Trusted(d) THEN Sees(d) ELSE [@ EXCEPT !.alive = FALSE]]
    /\ control' = (control \ {p}) \cup (IF Trusted(d) THEN {[p EXCEPT !.admitted = TRUE]} ELSE {})
    /\ UNCHANGED <<ledger, mark, joined, duty, ledgerFaults>>

Hears(d, p, kind) == p.to = d /\ p.kind = kind /\ p.admitted /\ gate[d].alive /\ joined[d]
Snapshots(d) == ~gate[d].suspended /\ Readable(d)

(* installTrustUpdate: the next list, which revokes and does nothing else. *)
Installs(d, h) ==
    /\ Epoch(h) = Epoch(ledger[d]) + 1 /\ SubSeq(h, 1, Epoch(ledger[d])) = ledger[d]
    /\ Peer(d) \in ActiveIn(h)
    /\ \A m \in Members : Now(h)[m] = Now(ledger[d])[m] \/ (Now(ledger[d])[m] = "active" /\ Now(h)[m] = "revoked")

ReceiveSnapshot(d) == \E p \in control :
    LET h == p.history
        next == Epoch(h) = Epoch(ledger[d]) + 1
        base == IF next THEN [gate[d] EXCEPT !.evidence = NoEvidence] ELSE gate[d]
        taken == IF next THEN Installs(d, h) ELSE h = ledger[d]
    IN  /\ Hears(d, p, "snapshot")
        /\ control' = control \ {p}
        /\ IF ~Snapshots(d) \/ Peer(d) \notin ActiveIn(ledger[d])
           THEN UNCHANGED <<ledger, mark, gate>>
           ELSE IF ~taken
           THEN SuspendTrust(d, h) /\ UNCHANGED ledger
           ELSE IF Conflicts(base, "snapshot", h)
           THEN /\ gate' = [gate EXCEPT ![d] = [Restricted(@, h) EXCEPT !.suspended = TRUE]]
                /\ UNCHANGED <<ledger, mark>>
           ELSE /\ Commit(d, h)
                /\ gate' = [gate EXCEPT ![d] =
                     [Shown(Restricted(base, h), "snapshot", h) EXCEPT !.seen = Epoch(h), !.alive = d \in ActiveIn(h)]]
        /\ UNCHANGED <<joined, duty, ledgerFaults>>

(* A notification creates no trust: it is compared with the stored list.   *)
(* One that agrees with it names a revoked device, for which no evidence   *)
(* is recorded, and the handler ends there.                                *)
ReceiveEvent(d) == \E p \in control :
    LET h == p.history IN
    /\ Hears(d, p, "event")
    /\ control' = control \ {p}
    /\ IF Snapshots(d) /\ Peer(d) \in ActiveIn(ledger[d]) /\ Epoch(h) >= Epoch(ledger[d]) /\ h # ledger[d]
       THEN SuspendTrust(d, h)
       ELSE UNCHANGED <<mark, gate>>
    /\ UNCHANGED <<ledger, joined, duty, ledgerFaults>>

(* The issuer confirms against its own list. *)
ReceiveConfirmation(d) == \E p \in control :
    LET t == Peer(d)
        h == Grown(ledger[d], t, "active")
        confirms == Readable(d) /\ p.history = ledger[d] /\ d \in ActiveIn(ledger[d])
        shows == ~gate[d].suspended /\ ~Conflicts(gate[d], "enrollment", h)
    IN  /\ Hears(d, p, "confirmation")
        /\ control' = (control \ {p}) \cup
             (IF confirms /\ shows THEN {Post(t, "snapshot", h)} ELSE {})
        /\ IF confirms
           THEN /\ Commit(d, h)
                /\ gate' = [gate EXCEPT ![d] =
                     Restricted(IF shows THEN Shown(@, "enrollment", h) ELSE @, h)]
           ELSE UNCHANGED <<ledger, mark, gate>>
        /\ UNCHANGED <<joined, duty, ledgerFaults>>

ReceiveRequest(d) == \E p \in control :
    /\ Hears(d, p, "request")
    /\ control' = (control \ {p}) \cup
         (IF Snapshots(d) THEN {Post(Peer(d), "snapshot", ledger[d])} ELSE {})
    /\ UNCHANGED <<ledger, mark, joined, gate, duty, ledgerFaults>>

(***************************************************************************)
(* Closing and opening the engine, and what can be lost.                   *)
(***************************************************************************)
CloseDevice(d) ==
    /\ ledgerFaults < MaxLedgerFaults /\ (gate[d].alive \/ duty[d] # NoDuty)
    /\ ledgerFaults' = ledgerFaults + 1
    /\ gate' = [gate EXCEPT ![d].alive = FALSE]
    /\ duty' = [duty EXCEPT ![d] = NoDuty]
    /\ UNCHANGED <<ledger, mark, joined, control>>

OpenDevice(d) ==
    /\ joined[d] /\ ~gate[d].alive /\ duty[d] = NoDuty
    /\ Readable(d) /\ d \in ActiveIn(ledger[d])
    /\ gate' = [gate EXCEPT ![d] = Fresh(ledger[d], TRUE)]
    /\ control' = {p \in control : p.to = d => ~p.admitted} \cup
         (IF Cardinality(ActiveIn(ledger[d])) > 1 THEN {Post(Peer(d), "request", NoHistory)} ELSE {})
    /\ UNCHANGED <<ledger, mark, joined, duty, ledgerFaults>>

LoseControl == \E p \in control :
    /\ ledgerFaults < MaxLedgerFaults /\ ledgerFaults' = ledgerFaults + 1
    /\ control' = control \ {p}
    /\ UNCHANGED <<ledger, mark, joined, gate, duty>>

LedgerNext ==
    \/ \E d \in Members :
         \/ Protected(d) \/ ApproveEnrollment(d) \/ ApplyEnrollmentLocally(d)
         \/ InstallApproval(d) \/ ConfirmEnrollment(d) \/ AdoptMembership(d) \/ SendConfirmation(d)
         \/ AdmitControl(d) \/ ReceiveConfirmation(d) \/ ApproveRevocation(d) \/ ApplyRevocation(d) \/ GiveUp(d)
         \/ ReceiveSnapshot(d) \/ ReceiveEvent(d) \/ ReceiveRequest(d)
         \/ CloseDevice(d) \/ OpenDevice(d)
    \/ LoseControl

LedgerSpec == LedgerInit /\ [][LedgerNext]_ledgerVars

-----------------------------------------------------------------------------
(* Type correctness of the lists and of the engines' gates. *)
LedgerTypeOK ==
    /\ \A d \in Members : \A i \in 1 .. Len(ledger[d]) :
          ledger[d][i] \in [Members -> {"absent", "pending", "active", "revoked"}]
    /\ joined \in [Members -> BOOLEAN]
    /\ \A d \in Members : gate[d].members \subseteq Members /\ gate[d].seen \in Nat

(* A store that a reader would accept never gives way to one that is not   *)
(* its continuation: each change adds one epoch, and revocation is final.  *)
HistoryOnlyGrows ==
    \A d \in Members : ledger[d] # NoHistory /\ ledger'[d] # ledger[d] =>
        /\ Epoch(ledger'[d]) = Epoch(ledger[d]) + 1
        /\ SubSeq(ledger'[d], 1, Epoch(ledger[d])) = ledger[d]
        /\ \A m \in Members : Now(ledger[d])[m] = "revoked" => Now(ledger'[d])[m] = "revoked"

(* The mark never falls behind the list, so an old copy of the list that   *)
(* is put back into the vault is refused.                                  *)
MarkCoversLedger == \A d \in Members : mark[d].epoch >= Epoch(ledger[d])

(* Neither device counts the second one as active before the second one    *)
(* confirmed, in its own vault, the approval the first one gave it.        *)
ActiveWasConfirmed ==
    \A d \in Members : Second \in (IF ledger[d] = NoHistory THEN {} ELSE ActiveIn(ledger[d])) =>
        /\ \E i \in 1 .. Len(ledger[Second]) : ledger[Second][i][Second] = "active"
        /\ \E i \in 1 .. Len(ledger[First]) : ledger[First][i][Second] = "pending"

(* A device that learnt of its revocation has no running engine, not after *)
(* the reply to an earlier request and not after being opened again.       *)
RevokedIsShut ==
    \A d \in Members : joined[d] /\ Now(ledger[d])[d] = "revoked" => ~gate[d].alive

(* What the signed device lists promise: they only grow, under a mark that   *)
(* guards them, and a device is active when both confirmed it and shut when  *)
(* it learns of its revocation.                                              *)
LedgerCorrect ==
    /\ [](LedgerTypeOK /\ MarkCoversLedger /\ ActiveWasConfirmed /\ RevokedIsShut)
    /\ [][HistoryOnlyGrows]_ledgerVars
=============================================================================
