--------------------------- MODULE DeviceRegistry ---------------------------
(***************************************************************************)
(* How a device gets its account, and what the relay lets it do with it:   *)
(* the start of a conversation engine (service/src/crypto/                 *)
(* modernConversation.ts, identity/accountBinding.ts, devices/bootstrap.ts *)
(* and deviceProofClient.ts) against the relay's registry                  *)
(* (backend/security/durableDeviceTrust.ts, backend/api/deviceTrust.ts).   *)
(*                                                                         *)
(* Every request of the registry is a task at the relay whose database     *)
(* calls are steps of their own, so that two requests interleave and the   *)
(* relay may stop between any two of them.  Times, signatures and nonces   *)
(* are left out: every request is well signed and within its window.       *)
(***************************************************************************)
EXTENDS Integers, FiniteSets

CONSTANTS
    Devices,
    Enrolls,      \* pairs <<issuer, target>> whose enrolment or revocation may be asked for
    NoAccount,
    MaxRegistryFaults,    \* bound: requests, answers, engines and relay tasks lost
    MaxOpens      \* bound: how often an engine is opened

Local(d) == <<"local", d>>       \* the account a device names before it is registered
EnrollGranted(d) == <<"granted", d>>   \* the account the relay creates for it
Reserved(d) == <<"reserved", d>> \* 'bootstrap-pending'
Accounts == {Local(d) : d \in Devices} \cup {EnrollGranted(d) : d \in Devices}

ASSUME RegistryAssumption ==
    /\ Enrolls \subseteq {p \in Devices \X Devices : p[1] # p[2]}
    /\ NoAccount \notin Accounts \cup {Reserved(d) : d \in Devices}
    /\ MaxRegistryFaults \in Nat /\ MaxOpens \in Nat

Absent == [state |-> "absent", epoch |-> 0]
Tasks == {<<"bootstrap", d, d>> : d \in Devices} \cup {<<"activate", d, d>> : d \in Devices}
         \cup {<<k, p[1], p[2]>> : k \in {"enroll", "revoke"}, p \in Enrolls}
Idle == [at |-> "idle", account |-> NoAccount, epoch |-> 0]

VARIABLES
    binding,   \* vault: the account the device is bound to
    listEpoch, \* vault: device -> account -> epoch of its device list, -1 without one
    engine,    \* device -> [step, account, boot, seen]: the conversation engine being opened
    record,    \* relay: account -> device -> its lifecycle record
    owner,     \* relay: device_identity_registry, device -> account or Reserved
    task,      \* relay: request -> how far its handler is
    opens, registryFaults

registryVars == <<binding, listEpoch, engine, record, owner, task, opens, registryFaults>>
registryRelayVars == <<record, owner>>
vaultVars == <<binding, listEpoch>>

Shut == [step |-> "off", account |-> NoAccount, boot |-> 0, seen |-> -1]

RegistryInit ==
    /\ binding = [d \in Devices |-> NoAccount]
    /\ listEpoch = [d \in Devices |-> [a \in Accounts |-> -1]]
    /\ engine = [d \in Devices |-> Shut]
    /\ record = [a \in Accounts |-> [d \in Devices |-> Absent]]
    /\ owner = [d \in Devices |-> NoAccount]
    /\ task = [t \in Tasks |-> Idle]
    /\ opens = [d \in Devices |-> 0]
    /\ registryFaults = 0

Faulty == registryFaults < MaxRegistryFaults /\ registryFaults' = registryFaults + 1
AtTask(t, where) == task[t].at = where
Ask(t, a, e) == task' = [task EXCEPT ![t] = [at |-> "asked", account |-> a, epoch |-> e]]
MoveTask(t, where) == task' = [task EXCEPT ![t].at = where]
EndTask(t) == task' = [task EXCEPT ![t] = Idle]

(***************************************************************************)
(* The relay.                                                              *)
(***************************************************************************)
BootOf(d) == <<"bootstrap", d, d>>

BootstrapReserves(d) ==
    /\ AtTask(BootOf(d), "asked") /\ owner[d] = NoAccount
    /\ owner' = [owner EXCEPT ![d] = Reserved(d)]
    /\ MoveTask(BootOf(d), "reserved")
    /\ UNCHANGED record

BootstrapRecords(d) ==
    /\ AtTask(BootOf(d), "reserved")
    /\ record' = [record EXCEPT ![EnrollGranted(d)][d] = [state |-> "active", epoch |-> 1]]
    /\ MoveTask(BootOf(d), "recorded")
    /\ UNCHANGED owner

BootstrapBinds(d) ==
    /\ AtTask(BootOf(d), "recorded")
    /\ owner' = [owner EXCEPT ![d] = EnrollGranted(d)]
    /\ MoveTask(BootOf(d), "done")
    /\ UNCHANGED record

(* verify(): the proof names the epoch it was issued for. *)
Proves(account, d, epoch) == record[account][d] = [state |-> "active", epoch |-> epoch]

EnrollReads(i, t) ==
    LET k == <<"enroll", i, t>> IN
    /\ AtTask(k, "asked") /\ Proves(task[k].account, i, task[k].epoch)
    /\ record[task[k].account][t] = Absent
    /\ MoveTask(k, "read")
    /\ UNCHANGED registryRelayVars

EnrollReserves(i, t) ==
    LET k == <<"enroll", i, t>> IN
    /\ AtTask(k, "read") /\ Proves(task[k].account, i, task[k].epoch) /\ owner[t] = NoAccount
    /\ owner' = [owner EXCEPT ![t] = task[k].account]
    /\ MoveTask(k, "reserved")
    /\ UNCHANGED record

EnrollRecords(i, t) ==
    LET k == <<"enroll", i, t>> IN
    /\ AtTask(k, "reserved")
    /\ record' = [record EXCEPT ![task[k].account][t] = [state |-> "pending", epoch |-> task[k].epoch + 1]]
    /\ MoveTask(k, "done")
    /\ UNCHANGED owner

(* upsert(next, expectedEpoch): nothing is written when the epoch has moved. *)
Advance(k, account, d, from, to) ==
    /\ IF record[account][d].epoch = from
       THEN record' = [record EXCEPT ![account][d] = [state |-> to, epoch |-> from + 1]]
       ELSE UNCHANGED record
    /\ EndTask(k)
    /\ UNCHANGED owner

\* Variant for testing RegistryCorrect: a confirmation is good in any state.
ActivatesAny(d, account) ==
    LET k == <<"activate", d, d>> IN
    /\ AtTask(k, "idle") /\ record[account][d].state # "absent"
    /\ task' = [task EXCEPT ![k] = [at |-> "read", account |-> account, epoch |-> record[account][d].epoch]]
    /\ UNCHANGED registryRelayVars

ActivateReads(d, account) ==
    LET k == <<"activate", d, d>> IN
    /\ AtTask(k, "idle") /\ record[account][d].state = "pending"
    /\ task' = [task EXCEPT ![k] = [at |-> "read", account |-> account, epoch |-> record[account][d].epoch]]
    /\ UNCHANGED registryRelayVars

ActivateRecords(d) ==
    LET k == <<"activate", d, d>> IN
    AtTask(k, "read") /\ Advance(k, task[k].account, d, task[k].epoch, "active")

RevokeReads(i, t, account) ==
    LET k == <<"revoke", i, t>> IN
    /\ AtTask(k, "idle")
    /\ record[account][i].state = "active" /\ record[account][t].state = "active"
    /\ task' = [task EXCEPT ![k] = [at |-> "read", account |-> account, epoch |-> record[account][t].epoch]]
    /\ UNCHANGED registryRelayVars

RevokeVerifies(i, t) ==
    LET k == <<"revoke", i, t>> IN
    /\ AtTask(k, "read") /\ record[task[k].account][i].state = "active"
    /\ MoveTask(k, "verified")
    /\ UNCHANGED registryRelayVars

RevokeRecords(i, t) ==
    LET k == <<"revoke", i, t>> IN
    AtTask(k, "verified") /\ Advance(k, task[k].account, t, task[k].epoch, "revoked")

RelayStep ==
    /\ \/ \E d \in Devices : BootstrapReserves(d) \/ BootstrapRecords(d) \/ BootstrapBinds(d)
       \/ \E p \in Enrolls : EnrollReads(p[1], p[2]) \/ EnrollReserves(p[1], p[2]) \/ EnrollRecords(p[1], p[2])
       \/ \E d \in Devices, a \in Accounts : ActivateReads(d, a)
       \/ \E d \in Devices : ActivateRecords(d)
       \/ \E p \in Enrolls, a \in Accounts : RevokeReads(p[1], p[2], a)
       \/ \E p \in Enrolls : RevokeVerifies(p[1], p[2]) \/ RevokeRecords(p[1], p[2])
    /\ UNCHANGED <<vaultVars, engine, opens, registryFaults>>

(* A request that cannot take its next step is refused: the handler throws. *)
Refusable(k) ==
    LET acc == task[k].account IN
    \/ k[1] = "bootstrap" /\ AtTask(k, "asked") /\ owner[k[2]] # NoAccount
    \/ k[1] = "enroll" /\ AtTask(k, "asked")
       /\ (~Proves(acc, k[2], task[k].epoch) \/ record[acc][k[3]] # Absent)
    \/ k[1] = "enroll" /\ AtTask(k, "read")
       /\ (~Proves(acc, k[2], task[k].epoch) \/ owner[k[3]] # NoAccount)
    \/ k[1] = "revoke" /\ AtTask(k, "read") /\ record[acc][k[2]].state # "active"

(* What the client makes of a request that was refused or lost. *)
ClientFails(k) ==
    engine' = [engine EXCEPT ![k[2]] =
        IF k[1] = "bootstrap" /\ @.step = "asked" THEN Shut
        ELSE IF k[1] = "enroll" /\ @.step = "enrolling" THEN [@ EXCEPT !.step = "joined"]
        ELSE @]

Refuse(k) ==
    /\ Refusable(k)
    /\ EndTask(k) /\ ClientFails(k)
    /\ UNCHANGED <<vaultVars, registryRelayVars, opens, registryFaults>>

(* The request, the relay in the middle of it, or its answer is lost. *)
LoseRequest(k) ==
    /\ Faulty /\ ~AtTask(k, "idle")
    /\ EndTask(k) /\ ClientFails(k)
    /\ UNCHANGED <<vaultVars, registryRelayVars, opens>>

(***************************************************************************)
(* The engine: connectUnlocked from the account binding to the relay.      *)
(***************************************************************************)
(* loadAccountBinding stores a new binding before the relay knows of it;   *)
(* only an open that found none asks for the first registration.           *)
LoadAccountBinding(d) ==
    /\ engine[d].step = "off" /\ opens[d] < MaxOpens
    /\ opens' = [opens EXCEPT ![d] = @ + 1]
    /\ IF binding[d] = NoAccount
       THEN /\ AtTask(BootOf(d), "idle")
            /\ binding' = [binding EXCEPT ![d] = Local(d)]
            /\ engine' = [engine EXCEPT ![d] = [Shut EXCEPT !.step = "asked", !.account = Local(d)]]
            /\ Ask(BootOf(d), NoAccount, 0)
       ELSE /\ engine' = [engine EXCEPT ![d] = [Shut EXCEPT !.step = "bound", !.account = binding[d]]]
            /\ UNCHANGED <<binding, task>>
    /\ UNCHANGED <<listEpoch, registryRelayVars, registryFaults>>

AdoptAccount(d) ==
    /\ engine[d].step = "asked" /\ AtTask(BootOf(d), "done")
    /\ binding' = [binding EXCEPT ![d] = EnrollGranted(d)]
    /\ engine' = [engine EXCEPT ![d] = [Shut EXCEPT !.step = "bound", !.account = EnrollGranted(d), !.boot = 1]]
    /\ EndTask(BootOf(d))
    /\ UNCHANGED <<listEpoch, registryRelayVars, opens, registryFaults>>

(* The device list of the account is created when the vault holds none. *)
ReadDeviceList(d) ==
    LET a == engine[d].account
        epoch == IF listEpoch[d][a] = -1 THEN engine[d].boot ELSE listEpoch[d][a]
    IN  /\ engine[d].step = "bound"
        /\ listEpoch' = [listEpoch EXCEPT ![d][a] = epoch]
        /\ engine' = [engine EXCEPT ![d].step = "trusted", ![d].seen = epoch]
        /\ UNCHANGED <<binding, registryRelayVars, task, opens, registryFaults>>

(* The relay admits the engine with a proof for the epoch it has seen. *)
JoinRelay(d) ==
    /\ engine[d].step = "trusted"
    /\ engine' = [engine EXCEPT ![d] =
         IF Proves(@.account, d, @.seen) THEN [@ EXCEPT !.step = "joined"] ELSE Shut]
    /\ UNCHANGED <<vaultVars, registryRelayVars, task, opens, registryFaults>>

(* submitDurableEnrollment, after the local approval. *)
RequestEnrollment(i, t) ==
    LET k == <<"enroll", i, t>> IN
    /\ engine[i].step = "joined" /\ engine[i].seen = listEpoch[i][engine[i].account]
    /\ AtTask(k, "idle")
    /\ Ask(k, engine[i].account, engine[i].seen)
    /\ engine' = [engine EXCEPT ![i].step = "enrolling"]
    /\ UNCHANGED <<vaultVars, registryRelayVars, opens, registryFaults>>

(* applyEnrollment moves the list, and with it the epoch the engine proves. *)
ApplyEnrollment(i, t) ==
    LET k == <<"enroll", i, t>> IN
    /\ engine[i].step = "enrolling" /\ AtTask(k, "done")
    /\ listEpoch' = [listEpoch EXCEPT ![i][engine[i].account] = @ + 1]
    /\ engine' = [engine EXCEPT ![i].step = "joined", ![i].seen = @ + 1]
    /\ EndTask(k)
    /\ UNCHANGED <<binding, registryRelayVars, opens, registryFaults>>

CloseEngine(d) ==
    /\ Faulty /\ engine[d].step # "off"
    /\ engine' = [engine EXCEPT ![d] = Shut]
    /\ task' = [k \in Tasks |-> IF k[2] = d /\ task[k].at = "done" THEN Idle ELSE task[k]]
    /\ UNCHANGED <<vaultVars, registryRelayVars, opens>>

(* An answer nobody waits for any more. *)
AnswerIgnored(k) ==
    /\ AtTask(k, "done") /\ engine[k[2]].step \notin {"asked", "enrolling"}
    /\ EndTask(k)
    /\ UNCHANGED <<vaultVars, registryRelayVars, engine, opens, registryFaults>>

RegistryNext ==
    \/ RelayStep
    \/ \E k \in Tasks : Refuse(k) \/ LoseRequest(k) \/ AnswerIgnored(k)
    \/ \E d \in Devices : \/ LoadAccountBinding(d) \/ AdoptAccount(d) \/ ReadDeviceList(d)
                          \/ JoinRelay(d) \/ CloseEngine(d)
    \/ \E p \in Enrolls : RequestEnrollment(p[1], p[2]) \/ ApplyEnrollment(p[1], p[2])

RegistrySpec == RegistryInit /\ [][RegistryNext]_registryVars

-----------------------------------------------------------------------------
(* Type correctness of the registry's and the engines' state. *)
RegistryTypeOK ==
    /\ binding \in [Devices -> Accounts \cup {NoAccount}]
    /\ \A d \in Devices : engine[d].step \in {"off", "asked", "bound", "trusted", "joined", "enrolling"}
    /\ \A a \in Accounts, d \in Devices : record[a][d].state \in {"absent", "pending", "active", "revoked"}
    /\ \A d \in Devices : owner[d] \in Accounts \cup {NoAccount, Reserved(d)}

(* No device is registered under two accounts, whatever the requests that  *)
(* race for its identifier and wherever the relay stopped in one of them.  *)
OneAccountPerDevice ==
    \A d \in Devices : Cardinality({a \in Accounts : record[a][d].state # "absent"}) <= 1

(* An engine the relay admitted holds the account under which the relay    *)
(* registered its device, in the vault as well as in memory.               *)
JoinedIsRegistered ==
    \A d \in Devices : engine[d].step \in {"joined", "enrolling"} =>
        /\ record[engine[d].account][d].state # "absent"
        /\ binding[d] = engine[d].account
        /\ owner[d] = engine[d].account

(* A record only goes forward: its epoch grows with every change, and a    *)
(* revoked device is never active again.                                   *)
TrustOnlyFalls ==
    \A a \in Accounts, d \in Devices :
        record'[a][d] # record[a][d] =>
            /\ record'[a][d].epoch > record[a][d].epoch
            /\ record[a][d].state # "revoked"
            /\ record'[a][d].state = "active" => record[a][d].state \in {"absent", "pending"}

(* What the registry promises: one account for each device, which its engine *)
(* knows, in records that only go forward.                                   *)
RegistryCorrect ==
    /\ [](RegistryTypeOK /\ OneAccountPerDevice /\ JoinedIsRegistered)
    /\ [][TrustOnlyFalls]_registryVars
=============================================================================
