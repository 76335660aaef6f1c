---------------------------- MODULE SyncTransfer ----------------------------
(***************************************************************************)
(* Synchronization between two devices of one account, on the receiving    *)
(* side.  A RuntimeSyncController (one for every open conversation, all of *)
(* one account) is authorized for a transfer, admits it in steps, receives *)
(* its packages over the sync relay and imports their records into the     *)
(* application's own records.  Everything durable of an account is one     *)
(* vault record, read by `transaction` and swapped together with the       *)
(* application records the import touches; a swap that fails takes the     *)
(* controller's admission with it.  Awaits separate the check of a         *)
(* package, the reads of its transaction and the swap, and between them    *)
(* the user compares identities, the device list moves, other controllers  *)
(* commit, packages come twice and the page closes.                        *)
(***************************************************************************)
EXTENDS Integers, Sequences

CONSTANTS Controllers,    \* conversations that hold a controller
          ChunkKinds,     \* the kinds of record each chunk may carry: a sequence of sets
          MaxTransfers,   \* authorizations of one controller
          MaxListEpoch,   \* epochs the device list reaches
          MaxSyncFaults   \* relay timeouts and closed pages

ASSUME SyncAssumption ==
    /\ ChunkKinds \in Seq(SUBSET {"plain", "contact", "device"})
    /\ {MaxTransfers, MaxListEpoch, MaxSyncFaults} \subseteq Nat

VARIABLES ctl,       \* the controllers' memory
          jobs,      \* transactions under way
          syncDisk,  \* the sync record of the account
          contact,   \* the contact record the import may touch
          list,      \* the device list, its high-water mark and the real list
          link,      \* each controller's route at the sync relay, and the package on its way
          told,      \* packages whose sender was answered "accepted"
          applied,   \* how often a package's transaction was committed
          byHand,    \* what the user decided of the contact: compared, pending
          syncFaults

syncVars == <<ctl, jobs, syncDisk, contact, list, link, told, applied, byHand, syncFaults>>

Chunks    == DOMAIN ChunkKinds
Manifest  == Len(ChunkKinds) + 1
Sequences == 1 .. Manifest
Nowhere   == -1
Packages  == [to : Controllers, transfer : 1 .. MaxTransfers, sequence : Sequences, epoch : 0 .. MaxListEpoch]
Idle      == [admission |-> "idle", live |-> FALSE, phase |-> "none", transfer |-> 0, at |-> Nowhere,
              chunks |-> {}, manifest |-> FALSE]
NoPackage(k) == [to |-> k, transfer |-> 0, sequence |-> 0, epoch |-> Nowhere]
NoRecord  == [checkpoint |-> Nowhere, claims |-> {}]
NoLink    == [route |-> "none", flying |-> {}]

SyncInit ==
    /\ ctl = [k \in Controllers |-> Idle]
    /\ jobs = {}
    /\ syncDisk = NoRecord
    /\ contact = [mark |-> "verified"]
    /\ list = [epoch |-> 0, mark |-> 0, real |-> 0]
    /\ link = [k \in Controllers |-> NoLink]
    /\ told = {} /\ applied = [p \in {} |-> 0]
    /\ byHand = [compared |-> TRUE, pending |-> FALSE]
    /\ syncFaults = 0

-----------------------------------------------------------------------------
(* A transaction: loaded, then swapped. *)

\* What `atomic` leaves when a transaction fails: no transfer and no admission.
Dropped(c) == [Idle EXCEPT !.transfer = c.transfer, !.at = c.at, !.phase = "none"]

\* An import that leaves the contact and the device list as they are.
NoWrites == [contact |-> "kept", list |-> "kept"]

Job(k, op, base, pkg) == [by |-> k, op |-> op, base |-> base, pkg |-> pkg, step |-> "load",
                          next |-> NoRecord, writes |-> NoWrites, moved |-> FALSE]

\* The durable form of a controller's progress: the checkpoint and what is claimed.
\* Admission, sequences received and the end of the transfer are stored with them
\* and decide nothing.
State(at, claims) == [checkpoint |-> at, claims |-> claims]

\* putCheckpoint takes no epoch below the one on disk.
Advances(at) == syncDisk.checkpoint <= at

\* Sync may lower a verification but not raise one, and leaves a contact alone
\* whose identity has changed.
ContactUpdates == IF contact.mark = "changed" THEN {"kept"} ELSE {"unverified", contact.mark}

\* What records of these kinds write besides the sync record, and what an import of
\* p may: all records of its chunk go into one swap.
Writings(kinds) == [contact : IF "contact" \in kinds THEN ContactUpdates ELSE {"kept"},
                    list    : {IF "device" \in kinds THEN "replaced" ELSE "kept"}]
ApplicationUpdates(p) ==
    IF p.sequence \notin Chunks THEN {NoWrites}
    ELSE UNION {Writings(kinds) : kinds \in SUBSET ChunkKinds[p.sequence]}

\* Variant for testing SyncCorrect: an import does not look for an earlier one.
ClaimedNever(p) == FALSE

Claimed(p) == [to |-> p.to, transfer |-> p.transfer, sequence |-> p.sequence] \in syncDisk.claims

Fails(j) ==
    /\ jobs' = jobs \ {j}
    /\ ctl' = [ctl EXCEPT ![j.by] = Dropped(@)]
    /\ UNCHANGED <<syncDisk, contact, list, link, told, applied, byHand, syncFaults>>

\* `transaction` reads the record, compares its checkpoint with the one the
\* caller expects and runs the operation on its copy.
Load(j) ==
    LET c        == ctl[j.by]
        at       == IF j.op = "receive" THEN j.pkg.epoch ELSE c.at
        claims   == syncDisk.claims \cup (IF j.op = "receive"
                        THEN {[to |-> j.by, transfer |-> j.pkg.transfer, sequence |-> j.pkg.sequence]} ELSE {})
        refused  == syncDisk.checkpoint # j.base \/ ~Advances(at) \/ (j.op = "receive" /\ Claimed(j.pkg))
    IN  /\ j.step = "load"
        /\ \/ refused /\ Fails(j)
           \/ /\ ~refused
              /\ \E w \in ApplicationUpdates(j.pkg) :
                    jobs' = (jobs \ {j}) \cup {[j EXCEPT !.step = "swap", !.writes = w, !.next = State(at, claims)]}
              /\ UNCHANGED <<ctl, syncDisk, contact, list, link, told, applied, byHand, syncFaults>>

Times(p) == IF p \in DOMAIN applied THEN applied[p] ELSE 0

\* Others that have read the part this step writes, to write it, will find it changed.
Moves(js, part) == {[o EXCEPT !.moved = @ \/ (o.step = "swap" /\ o.writes[part] # "kept")] : o \in js}

\* Every transaction has read the sync record.
Overtaken(js) == {[o EXCEPT !.moved = @ \/ o.step = "swap"] : o \in js}

\* The swap: the sync record and the application's records, all or none.
Swap(j) ==
    /\ j.step = "swap"
    /\ \/ j.moved /\ Fails(j)
       \/ /\ ~j.moved
          /\ syncDisk' = j.next
          /\ jobs' = Overtaken(jobs \ {j})
          /\ contact' = IF j.writes.contact = "kept" THEN contact ELSE [mark |-> j.writes.contact]
          /\ list' = IF j.writes.list = "kept" THEN list
                      ELSE [list EXCEPT !.epoch = j.pkg.epoch, !.mark = j.pkg.epoch]
          /\ applied' = IF j.op = "receive"
                        THEN [p \in DOMAIN applied \cup {j.pkg} |-> IF p = j.pkg THEN Times(p) + 1 ELSE applied[p]]
                        ELSE applied
          /\ ctl' = IF j.op = "receive" THEN [ctl EXCEPT ![j.by].at = j.pkg.epoch] ELSE ctl
          /\ told' = IF j.op = "receive" /\ j.pkg \in link[j.by].flying THEN told \cup {j.pkg} ELSE told
          /\ link' = IF j.op = "receive" THEN [link EXCEPT ![j.by].flying = @ \ {j.pkg}] ELSE link
          /\ byHand' = [byHand EXCEPT !.compared = @ /\ contact'.mark # "unverified"]
          /\ UNCHANGED syncFaults

-----------------------------------------------------------------------------
(* The controller. *)

\* validateTrust and authorizeSync: the checkpoint is that of the current device list.
Trusted(epoch)       == list.epoch = epoch
AuthorizeSync(epoch) == Trusted(epoch)

\* The transfers a phase may follow (transferTransitions, with the phases nobody
\* observes between two awaits left out).
Follows(from, to) ==
    <<from, to>> \in {<<"authorized", "transferring">>, <<"transferring", "completed">>,
                     <<"authorized", "failed">>, <<"transferring", "failed">>}

\* The application awaits its own calls; packages come at any time.
Free(k)    == \A j \in jobs : j.by = k => j.op = "receive"
Still(k)   == \A j \in jobs : j.by # k

\* authorize: the checkpoint is the device list's own; all progress starts anew.
Authorize(k) ==
    \E at \in 0 .. MaxListEpoch :
        /\ Free(k) /\ ctl[k].transfer < MaxTransfers
        /\ AuthorizeSync(at) /\ syncDisk.checkpoint <= at
        /\ ctl' = [ctl EXCEPT ![k] = [Idle EXCEPT !.admission = "prepare", !.live = TRUE, !.phase = "authorized",
                     !.transfer = ctl[k].transfer + 1, !.at = at]]
        /\ jobs' = jobs \cup {Job(k, "state", syncDisk.checkpoint, NoPackage(k))}
        /\ UNCHANGED <<syncDisk, contact, list, link, told, applied, byHand, syncFaults>>

Admits(k, from, to) ==
    /\ Still(k) /\ ctl[k].live /\ ctl[k].admission = from
    /\ ctl' = [ctl EXCEPT ![k].admission = to]
    /\ jobs' = jobs \cup {Job(k, "state", ctl[k].at, NoPackage(k))}
    /\ UNCHANGED <<syncDisk, contact, list, link, told, applied, byHand, syncFaults>>

Prepared(k) == Admits(k, "prepare", "prepared")
Ready(k)    == Admits(k, "prepared", "ready")

BeginTransfer(k) ==
    /\ Still(k) /\ ctl[k].live /\ ctl[k].admission = "ready" /\ Follows(ctl[k].phase, "transferring")
    /\ ctl' = [ctl EXCEPT ![k].admission = "transfer", ![k].phase = "transferring"]
    /\ jobs' = jobs \cup {Job(k, "state", ctl[k].at, NoPackage(k))}
    /\ UNCHANGED <<syncDisk, contact, list, link, told, applied, byHand, syncFaults>>

\* `accept` notes the package in memory before its transaction opens.
Accept(c, p) == IF p.sequence = Manifest THEN [c EXCEPT !.manifest = TRUE]
                ELSE [c EXCEPT !.chunks = @ \cup {p.sequence}]

\* AuthenticatedSyncTransport.receive: the session's own peer sent it, and the device
\* list is still the checkpoint's.
Recognised(k, p) == p.to = k /\ Trusted(p.epoch)

\* A package reaches the controller, whose transfer it must belong to.
Receive(k, p) ==
    /\ p \in link[k].flying /\ \A j \in jobs : j.pkg # p
    /\ Recognised(k, p) /\ ctl[k].live /\ ctl[k].admission = "transfer" /\ ctl[k].phase = "transferring"
    /\ p.transfer = ctl[k].transfer /\ p.epoch = ctl[k].at
    /\ ~(p.sequence = Manifest /\ ctl[k].manifest)
    /\ ctl' = [ctl EXCEPT ![k] = Accept(@, p)]
    /\ jobs' = jobs \cup {Job(k, "receive", p.epoch, p)}
    /\ UNCHANGED <<syncDisk, contact, list, link, told, applied, byHand, syncFaults>>

\* complete: the manifest has come and as many chunks as it names.
Complete(k) ==
    /\ ctl[k].live /\ ctl[k].admission = "transfer" /\ ctl[k].manifest /\ ctl[k].chunks = Chunks
    /\ Follows(ctl[k].phase, "completed")
    /\ ctl' = [ctl EXCEPT ![k].admission = "idle", ![k].phase = "completed"]
    /\ jobs' = jobs \cup {Job(k, "completed", ctl[k].at, NoPackage(k))}
    /\ UNCHANGED <<syncDisk, contact, list, link, told, applied, byHand, syncFaults>>

FailTransfer(k) ==
    /\ Still(k) /\ ctl[k].live /\ Follows(ctl[k].phase, "failed")
    /\ ctl' = [ctl EXCEPT ![k].admission = "idle", ![k].phase = "failed"]
    /\ jobs' = jobs \cup {Job(k, "failed", ctl[k].at, NoPackage(k))}
    /\ UNCHANGED <<syncDisk, contact, list, link, told, applied, byHand, syncFaults>>

\* The page closes; `recover` brings back the checkpoint and the progress, and no admission.
Recover(k) ==
    /\ syncFaults < MaxSyncFaults /\ syncFaults' = syncFaults + 1
    /\ ctl' = [ctl EXCEPT ![k] = [Idle EXCEPT !.transfer = ctl[k].transfer,
                 !.at = syncDisk.checkpoint]]
    /\ jobs' = {j \in jobs : j.by # k}
    /\ link' = [link EXCEPT ![k] = [route |-> IF @.route = "none" THEN "none" ELSE "ghost", flying |-> {}]]
    /\ UNCHANGED <<syncDisk, contact, list, told, applied, byHand>>

-----------------------------------------------------------------------------
(* The sync relay. *)

\* The relay binds a connection to its route unless an earlier one still holds it,
\* and forwards to routes that are bound.
RouteFree(k) == link[k].route = "none"
Forwards(k)  == link[k].route = "bound"

\* createAuthenticatedSyncTransport.
ConnectRoute(k) ==
    /\ RouteFree(k) /\ ctl[k].live
    /\ link' = [link EXCEPT ![k].route = "bound"]
    /\ UNCHANGED <<ctl, jobs, syncDisk, contact, list, told, applied, byHand, syncFaults>>

DisconnectRoute(k) ==
    /\ link[k].route = "ghost"
    /\ link' = [link EXCEPT ![k] = NoLink]
    /\ UNCHANGED <<ctl, jobs, syncDisk, contact, list, told, applied, byHand, syncFaults>>

\* The source sends, or sends again what it was not told was accepted; one at a time.
SendPackage(k, n) ==
    LET p == [to |-> k, transfer |-> ctl[k].transfer, sequence |-> n, epoch |-> ctl[k].at]
    IN  /\ ctl[k].live /\ Forwards(k) /\ link[k].flying = {} /\ p \notin told /\ Trusted(p.epoch)
        /\ link' = [link EXCEPT ![k].flying = {p}]
        /\ UNCHANGED <<ctl, jobs, syncDisk, contact, list, told, applied, byHand, syncFaults>>

\* The relay's and the sender's timeout, or the controller's refusal: no acceptance is reported.
AnswerFails(k) ==
    /\ link[k].flying # {} /\ syncFaults < MaxSyncFaults /\ syncFaults' = syncFaults + 1
    /\ link' = [link EXCEPT ![k].flying = {}]
    /\ UNCHANGED <<ctl, jobs, syncDisk, contact, list, told, applied, byHand>>

-----------------------------------------------------------------------------
(* The rest of the application. *)

Compare ==
    /\ contact.mark = "unverified" /\ contact' = [mark |-> "verified"]
    /\ byHand' = [byHand EXCEPT !.compared = TRUE]
    /\ jobs' = Moves(jobs, "contact")
    /\ UNCHANGED <<ctl, syncDisk, list, link, told, applied, syncFaults>>

ObserveChange ==
    /\ contact.mark # "changed" /\ contact' = [mark |-> "changed"]
    /\ byHand' = [compared |-> FALSE, pending |-> TRUE]
    /\ jobs' = Moves(jobs, "contact")
    /\ UNCHANGED <<ctl, syncDisk, list, link, told, applied, syncFaults>>

ChangeDeviceList ==
    /\ list.real < MaxListEpoch
    /\ list' = [epoch |-> list.real + 1, mark |-> list.real + 1, real |-> list.real + 1]
    /\ jobs' = Moves(jobs, "list")
    /\ UNCHANGED <<ctl, syncDisk, contact, link, told, applied, byHand, syncFaults>>

SyncNext ==
    \/ \E j \in jobs : Load(j) \/ Swap(j)
    \/ \E k \in Controllers : Authorize(k) \/ Prepared(k) \/ Ready(k)
            \/ BeginTransfer(k) \/ Complete(k) \/ FailTransfer(k) \/ Recover(k)
            \/ ConnectRoute(k) \/ DisconnectRoute(k) \/ AnswerFails(k)
    \/ \E k \in Controllers, n \in Sequences : SendPackage(k, n)
    \/ \E k \in Controllers : \E p \in link[k].flying : Receive(k, p)
    \/ Compare \/ ObserveChange \/ ChangeDeviceList

SyncSpec == SyncInit /\ [][SyncNext]_syncVars

-----------------------------------------------------------------------------

SyncTypeOK ==
    /\ \A k \in Controllers :
         /\ ctl[k].admission \in {"idle", "prepare", "prepared", "ready", "transfer"}
         /\ ctl[k].chunks \subseteq Chunks
         /\ link[k].flying \subseteq Packages
    /\ \A j \in jobs : j.by \in Controllers /\ j.step \in {"load", "swap"}
    /\ syncDisk.checkpoint \in Nowhere .. MaxListEpoch
    /\ contact.mark \in {"unverified", "verified", "changed"}
    /\ told \subseteq Packages /\ DOMAIN applied \subseteq Packages
    /\ list \in [epoch : 0 .. MaxListEpoch, mark : 0 .. MaxListEpoch, real : 0 .. MaxListEpoch]

\* The transaction of a package is committed at most once, however often the
\* package comes, across restarts and concurrent deliveries (runtime.ts:84).
AppliedOnce == \A p \in DOMAIN applied : applied[p] <= 1

\* A sender that is told "accepted" sent a package that is durably imported
\* (relay.ts: the receiver must await durable acceptance).
ToldIsApplied == \A p \in told : Times(p) = 1

\* Import never marks a contact checked that the user did not compare, and never
\* takes back a change of identity that awaits review (persistence.ts:107).
CheckedByHand ==
    /\ contact.mark = "verified" => byHand.compared
    /\ byHand.pending => contact.mark = "changed"

\* The checkpoint of the account never goes back, through new authorizations,
\* restarts and transactions that outlive their checks (persistence.ts:54).
CheckpointAdvances == syncDisk.checkpoint <= syncDisk'.checkpoint

(* What sync promises: a package is applied once when its sender is told so, *)
(* marks nothing checked by itself, and the checkpoint only grows.           *)
SyncCorrect ==
    /\ [](SyncTypeOK /\ AppliedOnce /\ ToldIsApplied /\ CheckedByHand)
    /\ [][CheckpointAdvances]_syncVars
=============================================================================
