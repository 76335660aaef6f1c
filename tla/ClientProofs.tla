---------------------------- MODULE ClientProofs ----------------------------
(***************************************************************************)
(* Proofs about the devices of an account and the files it sends: the      *)
(* registration at the relay, whose handlers interleave between any two    *)
(* calls of the database, the signed list two devices keep of each other,  *)
(* and the transfers between two clients and the relay. A device's record  *)
(* belongs to its owner or to the account it is reserved for; a list gives *)
(* way only to its continuation; a handler of the files writes only over   *)
(* the revision it has read, and each transfer has one run that may seal   *)
(* its objects.  Last, the calls: every pending step of a peer names the    *)
(* consent or the caller it acts for.                                      *)
(***************************************************************************)
EXTENDS DeviceRegistry, DeviceLedger, FileTransfer, Calls, FiniteSetTheorems, SequenceTheorems,
        WellFoundedInduction, TLAPS

Lifecycle == [state : {"absent", "pending", "active", "revoked"}, epoch : Nat]
Opening == [step : {"off", "asked", "bound", "trusted", "joined", "enrolling"},
            account : Accounts \cup {NoAccount}, boot : {0, 1}, seen : Int]
Request == [at : {"idle", "asked", "read", "reserved", "recorded", "verified", "done"},
            account : Accounts \cup {NoAccount}, epoch : Int]

Owners == Accounts \cup {NoAccount} \cup {Reserved(d) : d \in Devices}

\* A record belongs to the account that owns the device, or to the one it is reserved for.
RecordFits(a, d) ==
    /\ record[a][d].state = "absent" <=> record[a][d].epoch = 0
    /\ record[a][d].state # "absent" => owner[d] = a \/ (owner[d] = Reserved(d) /\ a = EnrollGranted(d))

\* What a device keeps and what its engine holds.
DeviceFits(d) ==
    /\ owner[d] \in Accounts \cup {NoAccount, Reserved(d)}
    /\ binding[d] \in {NoAccount, Local(d), EnrollGranted(d)}
    /\ binding[d] = EnrollGranted(d) => owner[d] = EnrollGranted(d)
    /\ engine[d].step # "off" => engine[d].account = binding[d] /\ binding[d] # NoAccount
    /\ engine[d].step \in {"joined", "enrolling"} =>
          record[engine[d].account][d].state # "absent" /\ owner[d] = engine[d].account

\* Where the handler of a request is, and what nobody has changed meanwhile.
TaskFits(k) ==
    LET q == task[k]
    IN  /\ k[1] = "bootstrap" =>
              /\ q.at \in {"reserved", "recorded"} => owner[k[2]] = Reserved(k[2])
              /\ q.at = "reserved" => record[EnrollGranted(k[2])][k[2]] = Absent
              /\ q.at = "done" => owner[k[2]] = EnrollGranted(k[2])
        /\ k[1] = "enroll" =>
              /\ q.at # "idle" => q.account \in Accounts
              /\ q.at \in {"read", "reserved"} => q.epoch >= 1
              /\ q.at = "reserved" => owner[k[3]] = q.account /\ record[q.account][k[3]] = Absent
        /\ k[1] \in {"activate", "revoke"} /\ q.at # "idle" =>
              /\ q.account \in Accounts /\ q.epoch >= 1
              /\ q.epoch <= record[q.account][k[3]].epoch
              /\ q.epoch = record[q.account][k[3]].epoch =>
                    record[q.account][k[3]].state = IF k[1] = "activate" THEN "pending" ELSE "active"

\* One enrolment at a time holds the reservation of a device.
OneReservation ==
    \A j, k \in Tasks : j[1] = "enroll" /\ k[1] = "enroll" /\ j[3] = k[3]
        /\ task[j].at = "reserved" /\ task[k].at = "reserved" => j = k

RegistryShapes ==
    /\ listEpoch \in [Devices -> [Accounts -> Int]]
    /\ engine \in [Devices -> Opening]
    /\ record \in [Accounts -> [Devices -> Lifecycle]]
    /\ task \in [Tasks -> Request]
    /\ binding \in [Devices -> Accounts \cup {NoAccount}]
    /\ owner \in [Devices -> Owners]

RegistryInv ==
    /\ RegistryShapes
    /\ \A a \in Accounts, d \in Devices : RecordFits(a, d)
    /\ \A d \in Devices : DeviceFits(d)
    /\ \A k \in Tasks : TaskFits(k)
    /\ OneReservation

\* The three kinds of account names are apart, and none is the relay's mark for
\* no account.
LEMMA Names ==
    ASSUME NEW d \in Devices
    PROVE  /\ Local(d) \in Accounts /\ EnrollGranted(d) \in Accounts
           /\ Reserved(d) \notin Accounts /\ Reserved(d) # NoAccount /\ NoAccount \notin Accounts
           /\ Local(d) # EnrollGranted(d) /\ Reserved(d) \in Owners
  <1>1. Local(d) \in Accounts /\ EnrollGranted(d) \in Accounts /\ Reserved(d) \in Owners
    BY DEF Accounts, Owners
  <1>2. \A e \in Devices : Reserved(d) # Local(e) /\ Reserved(d) # EnrollGranted(e)
            /\ Local(d) # EnrollGranted(e)
    BY DEF Reserved, Local, EnrollGranted
  <1>3. NoAccount \notin Accounts /\ Reserved(d) # NoAccount
    BY RegistryAssumption
  <1>. QED  BY <1>1, <1>2, <1>3 DEF Accounts

\* A request names its kind and two devices.
LEMMA TaskShape ==
    ASSUME NEW k \in Tasks
    PROVE  /\ k[1] \in {"bootstrap", "activate", "enroll", "revoke"}
           /\ k[2] \in Devices /\ k[3] \in Devices
           /\ k[1] = "bootstrap" => k = BootOf(k[2])
  BY RegistryAssumption DEF Tasks, BootOf

\* The requests of each kind.
LEMMA NamedTasks ==
    /\ \A d \in Devices : BootOf(d) \in Tasks /\ BootOf(d)[1] = "bootstrap" /\ BootOf(d)[2] = d
    /\ \A d \in Devices : <<"activate", d, d>> \in Tasks
    /\ \A p \in Enrolls : p[1] \in Devices /\ p[2] \in Devices
                          /\ <<"enroll", p[1], p[2]>> \in Tasks /\ <<"revoke", p[1], p[2]>> \in Tasks
  BY RegistryAssumption DEF Tasks, BootOf

\* A request nobody has made.
LEMMA IdleShape == Idle \in Request /\ Idle.at = "idle"
  BY DEF Idle, Request

\* A handler goes on; the relay's records stay.
LEMMA TaskMoves ==
    ASSUME RegistryInv, NEW k \in Tasks, NEW q \in Request, task' = [task EXCEPT ![k] = q], UNCHANGED <<record, owner>>,
           TaskFits(k)', q.at = "reserved" => k[1] # "enroll"
    PROVE  task' \in [Tasks -> Request] /\ (\A j \in Tasks : TaskFits(j)') /\ OneReservation'
  <1>1. task' \in [Tasks -> Request] /\ task'[k] = q /\ \A j \in Tasks \ {k} : task'[j] = task[j]
    BY DEF RegistryInv, RegistryShapes
  <1>2. ASSUME NEW j \in Tasks \ {k} PROVE TaskFits(j)'
    BY <1>1 DEF TaskFits, RegistryInv
  <1>3. OneReservation'
    BY <1>1 DEF OneReservation, RegistryInv
  <1>. QED  BY <1>1, <1>2, <1>3

\* A handler ends.
LEMMA TaskEnds ==
    ASSUME RegistryInv, NEW k \in Tasks, EndTask(k), UNCHANGED <<record, owner>>
    PROVE  task' \in [Tasks -> Request] /\ (\A j \in Tasks : TaskFits(j)') /\ OneReservation'
  <1>1. task' = [task EXCEPT ![k] = Idle] /\ task'[k] = Idle
    BY DEF EndTask, RegistryInv, RegistryShapes
  <1>2. TaskFits(k)'
    BY <1>1, IdleShape DEF TaskFits
  <1>. QED  BY <1>1, <1>2, TaskMoves, IdleShape

\* The owner of a device is decided once: by the enrolment or the bootstrap
\* that finds it free, and by the bootstrap that reserved it.
LEMMA OwnerDecided ==
    ASSUME RegistryInv, NEW x \in Devices, NEW v \in Accounts \cup {Reserved(x)}, NEW k \in Tasks,
               NEW q \in Request,
           owner' = [owner EXCEPT ![x] = v], task' = [task EXCEPT ![k] = q],
           UNCHANGED <<vaultVars, engine, record>>,
           owner[x] = NoAccount \/ (k = BootOf(x) /\ owner[x] = Reserved(x) /\ v = EnrollGranted(x)),
           TaskFits(k)', q.at = "reserved" /\ k[1] = "enroll" => k[3] = x /\ owner[x] = NoAccount
    PROVE  RegistryInv'
  <1>1. task' \in [Tasks -> Request] /\ task'[k] = q /\ \A j \in Tasks \ {k} : task'[j] = task[j]
    BY DEF RegistryInv, RegistryShapes
  <1>2. owner' \in [Devices -> Owners] /\ owner'[x] = v /\ \A d \in Devices \ {x} : owner'[d] = owner[d]
    BY DEF RegistryInv, RegistryShapes, Owners
  <1>3. \A d \in Devices : Reserved(d) \notin Accounts /\ Reserved(d) # NoAccount
            /\ EnrollGranted(d) \in Accounts
    BY Names
  <1>4. NoAccount \notin Accounts
    BY RegistryAssumption
  <1>5. owner[x] \notin Accounts
    BY <1>3, <1>4
  <1>6. ASSUME NEW a \in Accounts, NEW d \in Devices PROVE RecordFits(a, d)'
    <2>1. RecordFits(a, d)
      BY DEF RegistryInv
    <2>2. CASE d # x
      BY <1>2, <2>1, <2>2 DEF RecordFits
    <2>3. CASE d = x
      BY <1>2, <1>3, <1>4, <2>1, <2>3 DEF RecordFits
    <2>. QED  BY <2>2, <2>3
  <1>7. ASSUME NEW d \in Devices PROVE DeviceFits(d)'
    <2>1. DeviceFits(d) /\ (binding[d] # NoAccount => binding[d] \in Accounts)
      BY Names DEF RegistryInv, DeviceFits
    <2>2. CASE d # x
      BY <1>2, <2>1, <2>2 DEF DeviceFits, vaultVars
    <2>3. CASE d = x
      BY <1>2, <1>3, <1>5, <2>1, <2>3 DEF DeviceFits, vaultVars
    <2>. QED  BY <2>2, <2>3
  <1>8. ASSUME NEW j \in Tasks \ {k} PROVE TaskFits(j)'
    <2>1. TaskFits(j) /\ task'[j] = task[j] /\ record' = record
      BY <1>1 DEF RegistryInv
    <2>2. j[1] \in {"bootstrap", "activate", "enroll", "revoke"} /\ j[2] \in Devices /\ j[3] \in Devices
          /\ (j[1] = "bootstrap" => j = BootOf(j[2]))
      BY TaskShape
    <2>3. CASE j[1] = "bootstrap"
      <3>1. CASE j[2] # x
        BY <1>2, <2>1, <2>2, <2>3, <3>1 DEF TaskFits
      <3>2. CASE j[2] = x
        <4>1. owner[x] = NoAccount
          BY <2>2, <2>3, <3>2
        <4>2. task[j].at \notin {"reserved", "recorded", "done"}
          BY <1>3, <1>4, <2>1, <2>2, <2>3, <3>2, <4>1 DEF TaskFits
        <4>. QED  BY <2>1, <2>3, <4>2 DEF TaskFits
      <3>. QED  BY <3>1, <3>2
    <2>4. CASE j[1] = "enroll"
      <3>1. CASE j[3] # x
        BY <1>2, <2>1, <2>2, <2>4, <3>1 DEF TaskFits
      <3>2. CASE j[3] = x
        BY <1>5, <2>1, <2>4, <3>2 DEF TaskFits
      <3>. QED  BY <3>1, <3>2
    <2>5. CASE j[1] \in {"activate", "revoke"}
      BY <2>1, <2>5 DEF TaskFits
    <2>. QED  BY <2>2, <2>3, <2>4, <2>5
  <1>9. OneReservation'
    <2> SUFFICES ASSUME NEW i \in Tasks, NEW j \in Tasks, i[1] = "enroll", j[1] = "enroll", i[3] = j[3],
                        task'[i].at = "reserved", task'[j].at = "reserved"
                 PROVE  i = j
      BY DEF OneReservation
    <2>1. \A h \in Tasks : h[1] = "enroll" /\ task[h].at = "reserved" => owner[h[3]] \in Accounts
      BY DEF RegistryInv, TaskFits
    <2>2. CASE i # k /\ j # k
      BY <1>1, <2>2 DEF OneReservation, RegistryInv
    <2>3. CASE i = k /\ j # k
      BY <1>1, <1>4, <2>1, <2>3
    <2>4. CASE i # k /\ j = k
      BY <1>1, <1>4, <2>1, <2>4
    <2>. QED  BY <2>2, <2>3, <2>4
  <1>. QED  BY <1>1, <1>2, <1>6, <1>7, <1>8, <1>9 DEF RegistryInv, RegistryShapes, vaultVars

\* A record grows; no other handler had counted on it, since only the one that
\* holds the device's reservation counts on its absence.
LEMMA RecordGrows ==
    ASSUME RegistryInv, NEW x \in Devices, NEW a \in Accounts, NEW r \in Lifecycle, NEW k \in Tasks,
               NEW q \in Request,
           record' = [record EXCEPT ![a][x] = r], task' = [task EXCEPT ![k] = q],
           UNCHANGED <<vaultVars, engine, owner>>,
           r.epoch > record[a][x].epoch, r.state # "absent",
           owner[x] = a \/ (owner[x] = Reserved(x) /\ a = EnrollGranted(x)),
           \/ record[a][x].epoch >= 1
           \/ k = BootOf(x) /\ owner[x] = Reserved(x)
           \/ k[1] = "enroll" /\ k[3] = x /\ task[k].at = "reserved",
           TaskFits(k)', q.at # "reserved"
    PROVE  RegistryInv'
  <1>1. task' \in [Tasks -> Request] /\ task'[k] = q /\ \A j \in Tasks \ {k} : task'[j] = task[j]
    BY DEF RegistryInv, RegistryShapes
  <1>2. record' \in [Accounts -> [Devices -> Lifecycle]] /\ record'[a][x] = r
        /\ \A b \in Accounts, d \in Devices : b # a \/ d # x => record'[b][d] = record[b][d]
    BY DEF RegistryInv, RegistryShapes
  <1>3. record[a][x].epoch \in Nat /\ r.epoch \in Nat
    BY DEF RegistryInv, RegistryShapes, Lifecycle
  <1>4. \A d \in Devices : Reserved(d) \notin Accounts /\ EnrollGranted(d) \in Accounts
    BY Names
  <1>5. ASSUME NEW b \in Accounts, NEW d \in Devices PROVE RecordFits(b, d)'
    <2>1. RecordFits(b, d)
      BY DEF RegistryInv
    <2>. QED  BY <1>2, <1>3, <2>1 DEF RecordFits
  <1>6. ASSUME NEW d \in Devices PROVE DeviceFits(d)'
    <2>1. DeviceFits(d) /\ (binding[d] # NoAccount => binding[d] \in Accounts)
      BY Names DEF RegistryInv, DeviceFits
    <2>2. engine[d].step \in {"joined", "enrolling"} => engine[d].account \in Accounts
      BY <2>1 DEF DeviceFits
    <2>. QED  BY <1>2, <2>1, <2>2 DEF DeviceFits, vaultVars
  <1>7. ASSUME NEW j \in Tasks \ {k} PROVE TaskFits(j)'
    <2>1. TaskFits(j) /\ task'[j] = task[j] /\ owner' = owner
      BY <1>1 DEF RegistryInv
    <2>2. j[1] \in {"bootstrap", "activate", "enroll", "revoke"} /\ j[2] \in Devices /\ j[3] \in Devices
          /\ (j[1] = "bootstrap" => j = BootOf(j[2]))
      BY TaskShape
    <2>3. CASE j[1] = "bootstrap"
      <3>1. CASE j[2] # x \/ a # EnrollGranted(x)
        BY <1>2, <1>4, <2>1, <2>2, <2>3, <3>1 DEF TaskFits
      <3>2. CASE j[2] = x /\ a = EnrollGranted(x)
        <4>1. k # BootOf(x)
          BY <2>2, <2>3, <3>2
        <4>2. task[j].at = "reserved" => owner[x] = Reserved(x) /\ record[a][x] = Absent
          BY <2>1, <2>3, <3>2 DEF TaskFits
        <4>3. k[1] = "enroll" /\ k[3] = x /\ task[k].at = "reserved" => owner[x] \in Accounts
          BY DEF RegistryInv, TaskFits
        <4>4. task[j].at # "reserved"
          BY <1>4, <4>1, <4>2, <4>3 DEF Absent
        <4>. QED  BY <2>1, <2>3, <4>4 DEF TaskFits
      <3>. QED  BY <3>1, <3>2
    <2>4. CASE j[1] = "enroll"
      <3>1. CASE task[j].at # "reserved"
        BY <2>1, <2>4, <3>1 DEF TaskFits
      <3>2. CASE task[j].at = "reserved"
        <4>1. task[j].account \in Accounts /\ owner[j[3]] = task[j].account
                  /\ record[task[j].account][j[3]] = Absent
          BY <2>1, <2>4, <3>2 DEF TaskFits
        <4>2. ~(task[j].account = a /\ j[3] = x)
          <5> SUFFICES ASSUME task[j].account = a, j[3] = x PROVE FALSE  OBVIOUS
          <5>1. record[a][x].epoch = 0 /\ owner[x] \in Accounts
            BY <4>1 DEF Absent
          <5>2. k[1] = "enroll" /\ k[3] = x /\ task[k].at = "reserved"
            BY <1>4, <5>1
          <5>3. j = k
            BY <2>4, <3>2, <5>2 DEF OneReservation, RegistryInv
          <5>. QED  BY <5>3
        <4>3. record'[task[j].account][j[3]] = Absent
          BY <1>2, <2>2, <4>1, <4>2
        <4>. QED  BY <2>1, <2>4, <3>2, <4>1, <4>3 DEF TaskFits
      <3>. QED  BY <3>1, <3>2
    <2>5. CASE j[1] \in {"activate", "revoke"}
      <3> DEFINE b == task[j].account
      <3>1. CASE task[j].at = "idle"
        BY <2>1, <2>5, <3>1 DEF TaskFits
      <3>2. CASE task[j].at # "idle"
        <4>1. b \in Accounts /\ task[j].epoch >= 1 /\ task[j].epoch <= record[b][j[3]].epoch
                  /\ task[j].epoch \in Int
          BY <2>1, <2>5, <3>2 DEF TaskFits, RegistryInv, RegistryShapes, Request
        <4>2. CASE b = a /\ j[3] = x
          <5>1. task[j].epoch < record'[b][j[3]].epoch
            BY <1>2, <1>3, <4>1, <4>2
          <5>. QED  BY <1>2, <1>3, <2>1, <2>5, <4>1, <4>2, <5>1 DEF TaskFits
        <4>3. CASE ~(b = a /\ j[3] = x)
          <5>1. record'[b][j[3]] = record[b][j[3]]
            BY <1>2, <2>2, <4>1, <4>3
          <5>. QED  BY <2>1, <2>5, <3>2, <5>1 DEF TaskFits
        <4>. QED  BY <4>2, <4>3
      <3>. QED  BY <3>1, <3>2
    <2>. QED  BY <2>2, <2>3, <2>4, <2>5
  <1>8. OneReservation'
    BY <1>1 DEF OneReservation, RegistryInv
  <1>. QED  BY <1>1, <1>2, <1>5, <1>6, <1>7, <1>8 DEF RegistryInv, RegistryShapes, vaultVars
\* A record that grows and was not revoked goes forward.
LEMMA RecordFalls ==
    ASSUME RegistryInv, NEW x \in Devices, NEW a \in Accounts,
               NEW r \in Lifecycle, record' = [record EXCEPT ![a][x] = r],
           r.epoch > record[a][x].epoch, record[a][x].state # "revoked",
           r.state = "active" => record[a][x].state \in {"absent", "pending"}
    PROVE  TrustOnlyFalls
  BY DEF TrustOnlyFalls, RegistryInv, RegistryShapes

-----------------------------------------------------------------------------
(* The relay's steps. *)

RelayFrame == UNCHANGED <<vaultVars, engine, opens, registryFaults>>

\* The fields of a request whose handler goes on.
LEMMA MovedTask ==
    ASSUME RegistryInv, NEW k \in Tasks, NEW where \in {"idle", "asked", "read", "reserved", "recorded", "verified", "done"},
           MoveTask(k, where)
    PROVE  \E q \in Request : /\ task' = [task EXCEPT ![k] = q] /\ task'[k] = q
                              /\ q.at = where /\ q.account = task[k].account /\ q.epoch = task[k].epoch
  <1> DEFINE q == [task[k] EXCEPT !.at = where]
  <1>1. task[k] \in Request
    BY DEF RegistryInv, RegistryShapes
  <1>2. q \in Request /\ q.at = where /\ q.account = task[k].account /\ q.epoch = task[k].epoch
    BY <1>1 DEF Request
  <1>3. task' = [task EXCEPT ![k] = q] /\ task'[k] = q
    BY DEF MoveTask, RegistryInv, RegistryShapes
  <1>. QED  BY <1>2, <1>3

\* Bootstrap reserves the device, records it and binds it, in three calls of
\* the database.
LEMMA BootstrapHolds ==
    ASSUME RegistryInv, NEW d \in Devices, BootstrapReserves(d) \/ BootstrapRecords(d)
               \/ BootstrapBinds(d), RelayFrame
    PROVE  RegistryInv' /\ TrustOnlyFalls
  <1> DEFINE k == BootOf(d)
  <1>1. k \in Tasks /\ k[1] = "bootstrap" /\ k[2] = d /\ TaskFits(k)
    BY NamedTasks DEF RegistryInv
  <1>2. EnrollGranted(d) \in Accounts /\ Reserved(d) \notin Accounts /\ Reserved(d) # NoAccount
    BY Names
  <1>3. UNCHANGED <<vaultVars, engine>>
    BY DEF RelayFrame
  <1> HIDE DEF k
  <1>4. CASE BootstrapReserves(d)
    <2>1. owner[d] = NoAccount /\ owner' = [owner EXCEPT ![d] = Reserved(d)] /\ MoveTask(k, "reserved")
              /\ record' = record
      BY <1>4 DEF BootstrapReserves, k
    <2>2. PICK q \in Request : task' = [task EXCEPT ![k] = q] /\ task'[k] = q /\ q.at = "reserved"
      BY <1>1, <2>1, MovedTask
    <2>3. record[EnrollGranted(d)][d] = Absent
      <3>1. RecordFits(EnrollGranted(d), d) /\ record[EnrollGranted(d)][d] \in Lifecycle
        BY <1>2 DEF RegistryInv, RegistryShapes
      <3>2. owner[d] # EnrollGranted(d) /\ owner[d] # Reserved(d)
        BY <1>2, <2>1, RegistryAssumption
      <3>. QED  BY <3>1, <3>2 DEF RecordFits, Lifecycle, Absent
    <2>4. TaskFits(k)'
      <3>1. owner'[d] = Reserved(d)
        BY <2>1 DEF RegistryInv, RegistryShapes
      <3>. QED  BY <1>1, <2>1, <2>2, <2>3, <3>1 DEF TaskFits
    <2>5. RegistryInv'
      BY <1>1, <1>3, <2>1, <2>2, <2>4, OwnerDecided
    <2>. QED  BY <2>1, <2>5 DEF TrustOnlyFalls
  <1>5. CASE BootstrapRecords(d)
    <2> DEFINE r == [state |-> "active", epoch |-> 1]
               a == EnrollGranted(d)
    <2>1. task[k].at = "reserved" /\ record' = [record EXCEPT ![a][d] = r] /\ MoveTask(k, "recorded")
              /\ owner' = owner
      BY <1>5 DEF BootstrapRecords, AtTask, k
    <2>2. PICK q \in Request : task' = [task EXCEPT ![k] = q] /\ task'[k] = q /\ q.at = "recorded"
      BY <1>1, <2>1, MovedTask
    <2>3. owner[d] = Reserved(d) /\ record[a][d] = Absent
      BY <1>1, <2>1 DEF TaskFits
    <2>4. r \in Lifecycle /\ r.epoch > record[a][d].epoch /\ r.state = "active"
              /\ record[a][d].state = "absent"
      BY <2>3 DEF Lifecycle, Absent
    <2>5. TaskFits(k)'
      BY <1>1, <2>1, <2>2, <2>3 DEF TaskFits
    <2> HIDE DEF r
    <2>6. RegistryInv'
      <3>1. owner[d] = Reserved(d) /\ a = EnrollGranted(d) /\ k = BootOf(d)
        BY <2>3 DEF k
      <3> HIDE DEF a
      <3>. QED  BY <1>1, <1>2, <1>3, <2>1, <2>2, <2>4, <2>5, <3>1, RecordGrows
    <2>7. TrustOnlyFalls
      BY <1>2, <2>1, <2>4, RecordFalls
    <2>. QED  BY <2>6, <2>7
  <1>6. CASE BootstrapBinds(d)
    <2>1. task[k].at = "recorded" /\ owner' = [owner EXCEPT ![d] = EnrollGranted(d)] /\ MoveTask(k, "done")
              /\ record' = record
      BY <1>6 DEF BootstrapBinds, AtTask, k
    <2>2. PICK q \in Request : task' = [task EXCEPT ![k] = q] /\ task'[k] = q /\ q.at = "done"
      BY <1>1, <2>1, MovedTask
    <2>3. owner[d] = Reserved(d)
      BY <1>1, <2>1 DEF TaskFits
    <2>4. TaskFits(k)'
      <3>1. owner'[d] = EnrollGranted(d)
        BY <2>1 DEF RegistryInv, RegistryShapes
      <3>. QED  BY <1>1, <2>1, <2>2, <3>1 DEF TaskFits
    <2>5. RegistryInv'
      <3>1. k = BootOf(d)
        BY DEF k
      <3>. QED  BY <1>1, <1>2, <1>3, <2>1, <2>2, <2>3, <2>4, <3>1, OwnerDecided
    <2>. QED  BY <2>1, <2>5 DEF TrustOnlyFalls
  <1>. QED  BY <1>4, <1>5, <1>6

\* Only a handler has moved.
LEMMA OnlyTask ==
    ASSUME RegistryInv, UNCHANGED <<vaultVars, engine, record, owner>>,
           task' \in [Tasks -> Request], \A j \in Tasks : TaskFits(j)', OneReservation'
    PROVE  RegistryInv' /\ TrustOnlyFalls
  <1>1. RegistryShapes'
    BY DEF RegistryInv, RegistryShapes, vaultVars
  <1>2. \A a \in Accounts, d \in Devices : RecordFits(a, d)'
    BY DEF RegistryInv, RecordFits
  <1>3. \A d \in Devices : DeviceFits(d)'
    BY DEF RegistryInv, DeviceFits, vaultVars
  <1>. QED  BY <1>1, <1>2, <1>3 DEF RegistryInv, TrustOnlyFalls

\* An enrolment reads its issuer, binds the target if nobody owns it and
\* records it as pending.
LEMMA EnrollHolds ==
    ASSUME RegistryInv, NEW p \in Enrolls, RelayFrame,
           EnrollReads(p[1], p[2]) \/ EnrollReserves(p[1], p[2]) \/ EnrollRecords(p[1], p[2])
    PROVE  RegistryInv' /\ TrustOnlyFalls
  <1> DEFINE k == <<"enroll", p[1], p[2]>>
             a == task[k].account
             e == task[k].epoch
  <1>1. k \in Tasks /\ k[1] = "enroll" /\ k[2] = p[1] /\ k[3] = p[2] /\ TaskFits(k) /\ p[1] \in Devices
            /\ p[2] \in Devices
    BY NamedTasks DEF RegistryInv
  <1>2. UNCHANGED <<vaultVars, engine>>
    BY DEF RelayFrame
  <1>3. task[k] \in Request /\ e \in Int
    BY <1>1 DEF RegistryInv, RegistryShapes, Request
  <1>4. ASSUME Proves(a, p[1], e), a \in Accounts PROVE e >= 1
    <2>1. record[a][p[1]] = [state |-> "active", epoch |-> e] /\ RecordFits(a, p[1])
              /\ record[a][p[1]] \in Lifecycle
      BY <1>1, <1>4 DEF Proves, RegistryInv, RegistryShapes
    <2>2. record[a][p[1]].state = "active" /\ record[a][p[1]].epoch = e /\ record[a][p[1]].epoch \in Nat
      BY <2>1 DEF Lifecycle
    <2>. QED  BY <2>1, <2>2 DEF RecordFits
  <1> HIDE DEF k, a, e
  <1>5. CASE EnrollReads(p[1], p[2])
    <2>1. task[k].at = "asked" /\ Proves(a, p[1], e) /\ MoveTask(k, "read") /\ UNCHANGED <<record, owner>>
      BY <1>5 DEF EnrollReads, AtTask, registryRelayVars, k, a, e
    <2>2. a \in Accounts
      BY <1>1, <2>1 DEF TaskFits, a
    <2>3. PICK q \in Request : task' = [task EXCEPT ![k] = q] /\ task'[k] = q /\ q.at = "read"
                   /\ q.account = a /\ q.epoch = e
      BY <1>1, <2>1, MovedTask DEF a, e
    <2>4. TaskFits(k)'
      BY <1>1, <1>4, <2>1, <2>2, <2>3 DEF TaskFits
    <2>. QED  BY <1>1, <1>2, <2>1, <2>3, <2>4, TaskMoves, OnlyTask
  <1>6. CASE EnrollReserves(p[1], p[2])
    <2>1. task[k].at = "read" /\ owner[p[2]] = NoAccount /\ owner' = [owner EXCEPT ![p[2]] = a]
          /\ MoveTask(k, "reserved") /\ record' = record
      BY <1>6 DEF EnrollReserves, AtTask, k, a, e
    <2>2. a \in Accounts /\ e >= 1
      BY <1>1, <2>1 DEF TaskFits, a, e
    <2>3. PICK q \in Request : task' = [task EXCEPT ![k] = q] /\ task'[k] = q /\ q.at = "reserved"
                   /\ q.account = a /\ q.epoch = e
      BY <1>1, <2>1, MovedTask DEF a, e
    <2>4. record[a][p[2]] = Absent
      <3>1. RecordFits(a, p[2]) /\ record[a][p[2]] \in Lifecycle
        BY <1>1, <2>2 DEF RegistryInv, RegistryShapes
      <3>2. owner[p[2]] # a /\ owner[p[2]] # Reserved(p[2])
        BY <1>1, <2>1, <2>2, Names
      <3>. QED  BY <3>1, <3>2 DEF RecordFits, Lifecycle, Absent
    <2>5. owner'[p[2]] = a
      BY <1>1, <2>1 DEF RegistryInv, RegistryShapes
    <2>6. TaskFits(k)'
      BY <1>1, <2>1, <2>2, <2>3, <2>4, <2>5 DEF TaskFits
    <2>7. RegistryInv'
      BY <1>1, <1>2, <2>1, <2>2, <2>3, <2>6, OwnerDecided
    <2>. QED  BY <2>1, <2>7 DEF TrustOnlyFalls
  <1>7. CASE EnrollRecords(p[1], p[2])
    <2> DEFINE r == [state |-> "pending", epoch |-> e + 1]
    <2>1. task[k].at = "reserved" /\ record' = [record EXCEPT ![a][p[2]] = r] /\ MoveTask(k, "done")
              /\ owner' = owner
      BY <1>7 DEF EnrollRecords, AtTask, k, a, e
    <2>2. a \in Accounts /\ e >= 1 /\ owner[p[2]] = a /\ record[a][p[2]] = Absent
      BY <1>1, <2>1 DEF TaskFits, a, e
    <2>3. PICK q \in Request : task' = [task EXCEPT ![k] = q] /\ task'[k] = q /\ q.at = "done"
                   /\ q.account = a /\ q.epoch = e
      BY <1>1, <2>1, MovedTask DEF a, e
    <2>4. r \in Lifecycle /\ r.epoch > record[a][p[2]].epoch /\ r.state = "pending"
              /\ record[a][p[2]].state = "absent"
      BY <1>3, <2>2 DEF Lifecycle, Absent
    <2>5. TaskFits(k)'
      BY <1>1, <2>2, <2>3 DEF TaskFits
    <2> HIDE DEF r
    <2>6. RegistryInv'
      BY <1>1, <1>2, <2>1, <2>2, <2>3, <2>4, <2>5, RecordGrows
    <2>7. TrustOnlyFalls
      BY <1>1, <2>1, <2>2, <2>4, RecordFalls
    <2>. QED  BY <2>6, <2>7
  <1>. QED  BY <1>5, <1>6, <1>7

\* upsert with an expected epoch: activation and revocation write only over the
\* record they have read, and nothing else at that epoch can have changed.
LEMMA AdvanceHolds ==
    ASSUME RegistryInv, NEW k \in Tasks, NEW to \in {"active", "revoked"}, RelayFrame,
           \/ k[1] = "activate" /\ to = "active"
           \/ k[1] = "revoke" /\ to = "revoked",
           task[k].at # "idle", Advance(k, task[k].account, k[3], task[k].epoch, to)
    PROVE  RegistryInv' /\ TrustOnlyFalls
  <1> DEFINE a == task[k].account
             e == task[k].epoch
             x == k[3]
             r == [state |-> to, epoch |-> e + 1]
  <1>1. /\ a \in Accounts /\ e \in Int /\ e >= 1 /\ x \in Devices
        /\ e = record[a][x].epoch => record[a][x].state = IF k[1] = "activate" THEN "pending" ELSE "active"
    <2>1. TaskFits(k) /\ task[k] \in Request /\ k[3] \in Devices
      BY TaskShape DEF RegistryInv, RegistryShapes
    <2>. QED  BY <2>1 DEF TaskFits, Request
  <1>2. EndTask(k) /\ owner' = owner /\ UNCHANGED <<vaultVars, engine>>
    BY DEF Advance, RelayFrame
  <1>3. CASE record[a][x].epoch # e
    <2>1. record' = record
      BY <1>3 DEF Advance
    <2>. QED  BY <1>2, <2>1, TaskEnds, OnlyTask
  <1>4. CASE record[a][x].epoch = e
    <2>1. record' = [record EXCEPT ![a][x] = r]
      BY <1>4 DEF Advance
    <2>2. r \in Lifecycle /\ r.epoch = e + 1 /\ r.state = to
      BY <1>1 DEF Lifecycle
    <2>3. task' = [task EXCEPT ![k] = Idle] /\ task'[k] = Idle
      BY <1>2 DEF EndTask, RegistryInv, RegistryShapes
    <2>4. TaskFits(k)'
      BY <2>3, IdleShape DEF TaskFits
    <2>5. owner[x] = a \/ (owner[x] = Reserved(x) /\ a = EnrollGranted(x))
      BY <1>1, <1>4 DEF RegistryInv, RecordFits
    <2>6. r.epoch > record[a][x].epoch /\ record[a][x].epoch >= 1 /\ r.state # "absent"
      BY <1>1, <1>4, <2>2
    <2>7. record[a][x].state # "revoked" /\ (r.state = "active"
              => record[a][x].state \in {"absent", "pending"})
      BY <1>1, <1>4, <2>2
    <2> HIDE DEF a, e, x, r
    <2>8. RegistryInv'
      <3>1. Idle \in Request /\ Idle.at # "reserved"
        BY IdleShape
      <3>. QED  BY <1>1, <1>2, <2>1, <2>2, <2>3, <2>4, <2>5, <2>6, <3>1, RecordGrows
    <2>9. TrustOnlyFalls
      BY <1>1, <2>1, <2>2, <2>6, <2>7, RecordFalls
    <2>. QED  BY <2>8, <2>9
  <1>. QED  BY <1>3, <1>4

\* Activation reads a pending record, revocation an active one.
LEMMA ReadsHold ==
    ASSUME RegistryInv, NEW k \in Tasks, NEW a \in Accounts, RelayFrame, UNCHANGED <<record, owner>>,
           k[1] \in {"activate", "revoke"},
           record[a][k[3]].state = IF k[1] = "activate" THEN "pending" ELSE "active",
           task' = [task EXCEPT ![k] = [at |-> "read", account |-> a, epoch |-> record[a][k[3]].epoch]]
    PROVE  RegistryInv' /\ TrustOnlyFalls
  <1> DEFINE q == [at |-> "read", account |-> a, epoch |-> record[a][k[3]].epoch]
  <1>1. record[a][k[3]] \in Lifecycle /\ RecordFits(a, k[3])
    BY TaskShape DEF RegistryInv, RegistryShapes
  <1>2. record[a][k[3]].epoch \in Nat /\ record[a][k[3]].epoch >= 1
    BY <1>1 DEF RecordFits, Lifecycle
  <1>3. q \in Request
    BY <1>2 DEF Request
  <1>4. task'[k] = q
    BY DEF RegistryInv, RegistryShapes
  <1>5. TaskFits(k)'
    BY <1>2, <1>4 DEF TaskFits
  <1>6. q.at = "read" /\ task' = [task EXCEPT ![k] = q]
    OBVIOUS
  <1> HIDE DEF q
  <1>7. task' \in [Tasks -> Request] /\ (\A j \in Tasks : TaskFits(j)') /\ OneReservation'
    BY <1>3, <1>5, <1>6, TaskMoves
  <1>. QED  BY <1>7, OnlyTask DEF RelayFrame

\* The activation of a device.
LEMMA ActivateHolds ==
    ASSUME RegistryInv, NEW d \in Devices, RelayFrame,
           (\E a \in Accounts : ActivateReads(d, a)) \/ ActivateRecords(d)
    PROVE  RegistryInv' /\ TrustOnlyFalls
  <1> DEFINE k == <<"activate", d, d>>
  <1>1. k \in Tasks /\ k[1] = "activate" /\ k[3] = d
    BY NamedTasks
  <1>2. ASSUME NEW a \in Accounts, ActivateReads(d, a) PROVE RegistryInv' /\ TrustOnlyFalls
    <2>1. /\ record[a][d].state = "pending" /\ UNCHANGED <<record, owner>>
          /\ task' = [task EXCEPT ![k] = [at |-> "read", account |-> a, epoch |-> record[a][d].epoch]]
      BY <1>2 DEF ActivateReads, registryRelayVars
    <2> HIDE DEF k
    <2>. QED  BY <1>1, <2>1, ReadsHold
  <1>3. CASE ActivateRecords(d)
    <2>1. task[k].at = "read" /\ Advance(k, task[k].account, d, task[k].epoch, "active")
      BY <1>3 DEF ActivateRecords, AtTask
    <2> HIDE DEF k
    <2>. QED  BY <1>1, <2>1, AdvanceHolds
  <1>. QED  BY <1>2, <1>3

\* The revocation of a device.
LEMMA RevokeHolds ==
    ASSUME RegistryInv, NEW p \in Enrolls, RelayFrame,
           (\E a \in Accounts : RevokeReads(p[1], p[2], a)) \/ RevokeVerifies(p[1], p[2])
               \/ RevokeRecords(p[1], p[2])
    PROVE  RegistryInv' /\ TrustOnlyFalls
  <1> DEFINE k == <<"revoke", p[1], p[2]>>
  <1>1. k \in Tasks /\ k[1] = "revoke" /\ k[3] = p[2] /\ TaskFits(k)
    BY NamedTasks DEF RegistryInv
  <1>2. ASSUME NEW a \in Accounts, RevokeReads(p[1], p[2], a) PROVE RegistryInv' /\ TrustOnlyFalls
    <2>1. /\ record[a][p[2]].state = "active" /\ UNCHANGED <<record, owner>>
          /\ task' = [task EXCEPT ![k] = [at |-> "read", account |-> a, epoch |-> record[a][p[2]].epoch]]
      BY <1>2 DEF RevokeReads, registryRelayVars
    <2> HIDE DEF k
    <2>. QED  BY <1>1, <2>1, ReadsHold
  <1>3. CASE RevokeVerifies(p[1], p[2])
    <2>1. task[k].at = "read" /\ MoveTask(k, "verified") /\ UNCHANGED <<record, owner>>
      BY <1>3 DEF RevokeVerifies, AtTask, registryRelayVars
    <2> HIDE DEF k
    <2>2. PICK q \in Request : task' = [task EXCEPT ![k] = q] /\ task'[k] = q /\ q.at = "verified"
                               /\ q.account = task[k].account /\ q.epoch = task[k].epoch
      BY <1>1, <2>1, MovedTask
    <2>3. TaskFits(k)'
      BY <1>1, <2>1, <2>2 DEF TaskFits
    <2>4. task' \in [Tasks -> Request] /\ (\A j \in Tasks : TaskFits(j)') /\ OneReservation'
      BY <1>1, <2>1, <2>2, <2>3, TaskMoves
    <2>. QED  BY <2>1, <2>4, OnlyTask DEF RelayFrame
  <1>4. CASE RevokeRecords(p[1], p[2])
    <2>1. task[k].at = "verified" /\ Advance(k, task[k].account, p[2], task[k].epoch, "revoked")
      BY <1>4 DEF RevokeRecords, AtTask
    <2> HIDE DEF k
    <2>. QED  BY <1>1, <2>1, AdvanceHolds
  <1>. QED  BY <1>2, <1>3, <1>4

\* Every step of the relay keeps the invariant and moves records forward.
LEMMA RelayStepHolds == RegistryInv /\ RelayStep => RegistryInv' /\ TrustOnlyFalls
  BY BootstrapHolds, EnrollHolds, ActivateHolds, RevokeHolds DEF RelayStep, RelayFrame

-----------------------------------------------------------------------------
(* The client's steps leave the relay's records alone. *)

\* The client's steps leave the relay's records alone.
LEMMA ClientMoves ==
    ASSUME RegistryInv, UNCHANGED <<record, owner>>,
           listEpoch' \in [Devices -> [Accounts -> Int]], engine' \in [Devices -> Opening],
           binding' \in [Devices -> Accounts \cup {NoAccount}], \A d \in Devices : DeviceFits(d)',
           task' \in [Tasks -> Request], \A j \in Tasks : TaskFits(j)', OneReservation'
    PROVE  RegistryInv' /\ TrustOnlyFalls
  <1>1. \A a \in Accounts, d \in Devices : RecordFits(a, d)'
    BY DEF RegistryInv, RecordFits
  <1>. QED  BY <1>1 DEF RegistryInv, RegistryShapes, TrustOnlyFalls

\* One engine changes.
LEMMA EngineMoves ==
    ASSUME RegistryInv, NEW x \in Devices, NEW g \in Opening, engine' = [engine EXCEPT ![x] = g],
           UNCHANGED <<record, owner, binding>>, DeviceFits(x)'
    PROVE  engine' \in [Devices -> Opening] /\ \A d \in Devices : DeviceFits(d)'
  <1>1. engine' \in [Devices -> Opening] /\ engine'[x] = g /\ \A d \in Devices \ {x} : engine'[d] = engine[d]
    BY DEF RegistryInv, RegistryShapes
  <1>2. ASSUME NEW d \in Devices \ {x} PROVE DeviceFits(d)'
    BY <1>1 DEF RegistryInv, DeviceFits
  <1>. QED  BY <1>1, <1>2

\* An engine that is not open.
LEMMA ShutShape == Shut \in Opening /\ Shut.step = "off"
  BY DEF Shut, Opening

\* ... relies on nothing.
LEMMA ShutFits ==
    ASSUME RegistryInv, NEW d \in Devices, UNCHANGED <<record, owner, binding>>, engine'[d].step = "off"
    PROVE  DeviceFits(d)'
  BY DEF RegistryInv, DeviceFits

\* The fields of an engine.
LEMMA DeviceShape ==
    ASSUME RegistryInv, NEW d \in Devices
    PROVE  /\ engine[d] \in Opening /\ DeviceFits(d)
           /\ engine[d].step # "off" => engine[d].account \in Accounts /\ engine[d].account = binding[d]
  <1>1. engine[d] \in Opening /\ DeviceFits(d)
    BY DEF RegistryInv, RegistryShapes
  <1>. QED  BY <1>1, Names DEF DeviceFits

\* A client whose request was refused or lost closes the engine, or goes on
\* without the enrolment.
LEMMA ClientFailsHolds ==
    ASSUME RegistryInv, NEW k \in Tasks, ClientFails(k), UNCHANGED <<record, owner, binding>>
    PROVE  engine' \in [Devices -> Opening] /\ \A d \in Devices : DeviceFits(d)'
  <1> DEFINE x == k[2]
             g == IF k[1] = "bootstrap" /\ engine[x].step = "asked" THEN Shut
                  ELSE IF k[1] = "enroll" /\ engine[x].step = "enrolling" THEN [engine[x] EXCEPT !.step = "joined"]
                  ELSE engine[x]
  <1>1. x \in Devices
    BY TaskShape
  <1>2. engine[x] \in Opening /\ DeviceFits(x)
    BY <1>1, DeviceShape
  <1>3. engine' = [engine EXCEPT ![x] = g] /\ engine'[x] = g
    BY <1>1 DEF ClientFails, RegistryInv, RegistryShapes
  <1>4. CASE k[1] = "bootstrap" /\ engine[x].step = "asked"
    <2>1. g = Shut
      BY <1>4
    <2> HIDE DEF g, x
    <2>2. DeviceFits(x)'
      BY <1>1, <1>3, <2>1, ShutShape, ShutFits
    <2>. QED  BY <1>1, <1>3, <2>1, <2>2, ShutShape, EngineMoves
  <1>5. CASE k[1] = "enroll" /\ engine[x].step = "enrolling"
    <2>1. g = [engine[x] EXCEPT !.step = "joined"]
      BY <1>5
    <2> HIDE DEF g, x
    <2>2. g \in Opening /\ g.step = "joined" /\ g.account = engine[x].account
      BY <1>2, <2>1 DEF Opening
    <2>3. DeviceFits(x)'
      BY <1>2, <1>3, <1>5, <2>2 DEF DeviceFits
    <2>. QED  BY <1>1, <1>3, <2>2, <2>3, EngineMoves
  <1>6. CASE ~(k[1] = "bootstrap" /\ engine[x].step = "asked") /\ ~(k[1] = "enroll"
                 /\ engine[x].step = "enrolling")
    <2>1. g = engine[x]
      BY <1>6
    <2> HIDE DEF g, x
    <2>2. DeviceFits(x)'
      BY <1>2, <1>3, <2>1 DEF DeviceFits
    <2>. QED  BY <1>1, <1>2, <1>3, <2>1, <2>2, EngineMoves
  <1>. QED  BY <1>4, <1>5, <1>6

\* A request is refused or lost, or its answer ignored.
LEMMA RequestEndsHolds ==
    ASSUME RegistryInv, NEW k \in Tasks, Refuse(k) \/ LoseRequest(k) \/ AnswerIgnored(k)
    PROVE  RegistryInv' /\ TrustOnlyFalls
  <1>1. EndTask(k) /\ UNCHANGED <<record, owner, binding, listEpoch>>
    BY DEF Refuse, LoseRequest, AnswerIgnored, registryRelayVars, vaultVars
  <1>2. task' \in [Tasks -> Request] /\ (\A j \in Tasks : TaskFits(j)') /\ OneReservation'
    BY <1>1, TaskEnds
  <1>3. CASE ClientFails(k)
    <2>1. engine' \in [Devices -> Opening] /\ \A d \in Devices : DeviceFits(d)'
      BY <1>1, <1>3, ClientFailsHolds
    <2>2. listEpoch' \in [Devices -> [Accounts -> Int]] /\ binding' \in [Devices -> Accounts \cup {NoAccount}]
      BY <1>1 DEF RegistryInv, RegistryShapes
    <2>. QED  BY <1>1, <1>2, <2>1, <2>2, ClientMoves
  <1>4. CASE engine' = engine
    BY <1>1, <1>2, <1>4, OnlyTask DEF vaultVars
  <1>. QED  BY <1>3, <1>4 DEF Refuse, LoseRequest, AnswerIgnored

\* loadAccountBinding stores a local binding before the relay knows of it.
LEMMA LoadAccountBindingHolds ==
    ASSUME RegistryInv, NEW d \in Devices, LoadAccountBinding(d)
    PROVE  RegistryInv' /\ TrustOnlyFalls
  <1>1. UNCHANGED <<listEpoch, record, owner>> /\ engine[d].step = "off"
    BY DEF LoadAccountBinding, registryRelayVars
  <1>2. DeviceFits(d) /\ engine \in [Devices -> Opening] /\ binding \in [Devices -> Accounts \cup {NoAccount}]
        /\ listEpoch \in [Devices -> [Accounts -> Int]]
    BY DEF RegistryInv, RegistryShapes
  <1>3. CASE binding[d] = NoAccount
    <2> DEFINE g == [Shut EXCEPT !.step = "asked", !.account = Local(d)]
               k == BootOf(d)
               q == [at |-> "asked", account |-> NoAccount, epoch |-> 0]
    <2>1. /\ binding' = [binding EXCEPT ![d] = Local(d)] /\ engine' = [engine EXCEPT ![d] = g]
          /\ task' = [task EXCEPT ![k] = q]
      BY <1>3 DEF LoadAccountBinding, Ask
    <2>2. g \in Opening /\ g.step = "asked" /\ g.account = Local(d)
      <3>1. Local(d) \in Accounts \cup {NoAccount}
        BY Names
      <3>. QED  BY <3>1, ShutShape DEF Opening
    <2>3. q \in Request /\ q.at = "asked" /\ k \in Tasks /\ k[1] = "bootstrap"
      BY NamedTasks DEF Request
    <2> HIDE DEF g, k, q
    <2>4. task'[k] = q
      BY <2>1, <2>3 DEF RegistryInv, RegistryShapes
    <2>5. TaskFits(k)'
      BY <2>3, <2>4 DEF TaskFits
    <2>6. task' \in [Tasks -> Request] /\ (\A j \in Tasks : TaskFits(j)') /\ OneReservation'
      BY <1>1, <2>1, <2>3, <2>5, TaskMoves
    <2>7. engine' \in [Devices -> Opening] /\ engine'[d] = g
              /\ \A x \in Devices \ {d} : engine'[x] = engine[x]
      BY <1>2, <2>1, <2>2
    <2>8. binding' \in [Devices -> Accounts \cup {NoAccount}] /\ binding'[d] = Local(d)
          /\ \A x \in Devices \ {d} : binding'[x] = binding[x]
      BY <1>2, <2>1, Names
    <2>9. ASSUME NEW x \in Devices PROVE DeviceFits(x)'
      <3>1. CASE x = d
        BY <1>1, <1>2, <2>2, <2>7, <2>8, <3>1, Names DEF DeviceFits
      <3>2. CASE x # d
        BY <1>1, <2>7, <2>8, <3>2 DEF DeviceFits, RegistryInv
      <3>. QED  BY <3>1, <3>2
    <2>. QED  BY <1>1, <1>2, <2>6, <2>7, <2>8, <2>9, ClientMoves
  <1>4. CASE binding[d] # NoAccount
    <2> DEFINE g == [Shut EXCEPT !.step = "bound", !.account = binding[d]]
    <2>1. UNCHANGED <<binding, task>> /\ engine' = [engine EXCEPT ![d] = g]
      BY <1>4 DEF LoadAccountBinding
    <2>2. g \in Opening /\ g.step = "bound" /\ g.account = binding[d]
      <3>1. binding[d] \in Accounts \cup {NoAccount}
        BY <1>2
      <3>. QED  BY <3>1, ShutShape DEF Opening
    <2> HIDE DEF g
    <2>3. engine'[d] = g
      BY <1>2, <2>1
    <2>4. DeviceFits(d)'
      BY <1>1, <1>2, <1>4, <2>1, <2>2, <2>3 DEF DeviceFits
    <2>5. engine' \in [Devices -> Opening] /\ \A x \in Devices : DeviceFits(x)'
      BY <1>1, <2>1, <2>2, <2>4, EngineMoves
    <2>6. (\A j \in Tasks : TaskFits(j)') /\ OneReservation' /\ task' \in [Tasks -> Request]
      BY <1>1, <2>1 DEF RegistryInv, RegistryShapes, TaskFits, OneReservation
    <2>. QED  BY <1>1, <1>2, <2>1, <2>5, <2>6, ClientMoves
  <1>. QED  BY <1>3, <1>4

\* The account the relay granted owns the device when it is bound.
LEMMA AdoptAccountHolds ==
    ASSUME RegistryInv, NEW d \in Devices, AdoptAccount(d)
    PROVE  RegistryInv' /\ TrustOnlyFalls
  <1> DEFINE g == [Shut EXCEPT !.step = "bound", !.account = EnrollGranted(d), !.boot = 1]
             k == BootOf(d)
  <1>1. /\ task[k].at = "done" /\ binding' = [binding EXCEPT ![d] = EnrollGranted(d)]
        /\ engine' = [engine EXCEPT ![d] = g] /\ EndTask(k) /\ UNCHANGED <<listEpoch, record, owner>>
    BY DEF AdoptAccount, AtTask, registryRelayVars
  <1>2. g \in Opening /\ g.step = "bound" /\ g.account = EnrollGranted(d)
    <2>1. EnrollGranted(d) \in Accounts \cup {NoAccount}
      BY Names
    <2>. QED  BY <2>1, ShutShape DEF Opening
  <1>3. k \in Tasks /\ owner[d] = EnrollGranted(d)
    BY <1>1, NamedTasks DEF RegistryInv, TaskFits
  <1>4. DeviceFits(d) /\ engine \in [Devices -> Opening] /\ binding \in [Devices -> Accounts \cup {NoAccount}]
        /\ listEpoch \in [Devices -> [Accounts -> Int]]
    BY DEF RegistryInv, RegistryShapes
  <1> HIDE DEF g, k
  <1>5. task' \in [Tasks -> Request] /\ (\A j \in Tasks : TaskFits(j)') /\ OneReservation'
    BY <1>1, <1>3, TaskEnds
  <1>6. engine' \in [Devices -> Opening] /\ engine'[d] = g /\ \A x \in Devices \ {d} : engine'[x] = engine[x]
    BY <1>1, <1>2, <1>4
  <1>7. binding' \in [Devices -> Accounts \cup {NoAccount}] /\ binding'[d] = EnrollGranted(d)
        /\ \A x \in Devices \ {d} : binding'[x] = binding[x]
    BY <1>1, <1>4, Names
  <1>8. ASSUME NEW x \in Devices PROVE DeviceFits(x)'
    <2>1. CASE x = d
      BY <1>1, <1>2, <1>3, <1>4, <1>6, <1>7, <2>1, Names DEF DeviceFits
    <2>2. CASE x # d
      BY <1>1, <1>6, <1>7, <2>2 DEF DeviceFits, RegistryInv
    <2>. QED  BY <2>1, <2>2
  <1>. QED  BY <1>1, <1>4, <1>5, <1>6, <1>7, <1>8, ClientMoves

\* The device list of the account is read, or created.
LEMMA ReadDeviceListHolds ==
    ASSUME RegistryInv, NEW d \in Devices, ReadDeviceList(d)
    PROVE  RegistryInv' /\ TrustOnlyFalls
  <1> DEFINE a == engine[d].account
             e == IF listEpoch[d][a] = -1 THEN engine[d].boot ELSE listEpoch[d][a]
             g == [engine[d] EXCEPT !.step = "trusted", !.seen = e]
  <1>1. /\ engine[d].step = "bound" /\ listEpoch' = [listEpoch EXCEPT ![d][a] = e]
        /\ engine' = [engine EXCEPT ![d] = g] /\ UNCHANGED <<binding, record, owner, task>>
    BY DEF ReadDeviceList, registryRelayVars, RegistryInv, RegistryShapes
  <1>2. engine[d] \in Opening /\ DeviceFits(d) /\ a \in Accounts
    BY <1>1, DeviceShape
  <1>3. listEpoch \in [Devices -> [Accounts -> Int]] /\ binding \in [Devices -> Accounts \cup {NoAccount}]
        /\ engine \in [Devices -> Opening]
    BY DEF RegistryInv, RegistryShapes
  <1>4. e \in Int
    BY <1>2, <1>3 DEF Opening
  <1> HIDE DEF e
  <1>5. g \in Opening /\ g.step = "trusted" /\ g.account = a
    BY <1>2, <1>4 DEF Opening
  <1> HIDE DEF g, a
  <1>6. listEpoch' \in [Devices -> [Accounts -> Int]]
    BY <1>1, <1>2, <1>3, <1>4
  <1>7. engine'[d] = g
    BY <1>1, <1>3
  <1>8. DeviceFits(d)'
    BY <1>1, <1>2, <1>5, <1>7 DEF DeviceFits, a
  <1>9. engine' \in [Devices -> Opening] /\ \A x \in Devices : DeviceFits(x)'
    BY <1>1, <1>5, <1>8, EngineMoves
  <1>10. (\A j \in Tasks : TaskFits(j)') /\ OneReservation' /\ task' \in [Tasks -> Request]
    BY <1>1 DEF RegistryInv, RegistryShapes, TaskFits, OneReservation
  <1>. QED  BY <1>1, <1>3, <1>6, <1>9, <1>10, ClientMoves

\* An engine that is admitted has proved an active record, so its account owns
\* the device.
LEMMA JoinRelayHolds ==
    ASSUME RegistryInv, NEW d \in Devices, JoinRelay(d)
    PROVE  RegistryInv' /\ TrustOnlyFalls
  <1> DEFINE a == engine[d].account
             g == IF Proves(a, d, engine[d].seen) THEN [engine[d] EXCEPT !.step = "joined"] ELSE Shut
  <1>1. engine[d].step = "trusted" /\ engine' = [engine EXCEPT ![d] = g]
        /\ UNCHANGED <<binding, listEpoch, record, owner, task>>
    BY DEF JoinRelay, registryRelayVars, vaultVars, RegistryInv, RegistryShapes
  <1>2. engine[d] \in Opening /\ DeviceFits(d) /\ a \in Accounts /\ a = binding[d]
    BY <1>1, DeviceShape
  <1>3. g \in Opening /\ g.step \in {"off", "joined"}
        /\ (g.step = "joined" => g.account = a /\ Proves(a, d, engine[d].seen))
    BY <1>2, ShutShape DEF Opening
  <1> HIDE DEF g, a
  <1>4. engine'[d] = g
    BY <1>1 DEF RegistryInv, RegistryShapes
  <1>5. g.step = "joined" => record[a][d].state # "absent" /\ owner[d] = a
    <2> SUFFICES ASSUME g.step = "joined" PROVE record[a][d].state # "absent" /\ owner[d] = a
      OBVIOUS
    <2>1. record[a][d].state = "active"
      BY <1>3 DEF Proves
    <2>2. owner[d] = a \/ (owner[d] = Reserved(d) /\ a = EnrollGranted(d))
      BY <1>2, <2>1 DEF RegistryInv, RecordFits
    <2>. QED  BY <1>2, <2>1, <2>2, Names DEF DeviceFits
  <1>6. DeviceFits(d)'
    BY <1>1, <1>2, <1>3, <1>4, <1>5, Names DEF DeviceFits
  <1>7. engine' \in [Devices -> Opening] /\ \A x \in Devices : DeviceFits(x)'
    BY <1>1, <1>3, <1>6, EngineMoves
  <1>8. (\A j \in Tasks : TaskFits(j)') /\ OneReservation' /\ task' \in [Tasks -> Request]
    BY <1>1 DEF RegistryInv, RegistryShapes, TaskFits, OneReservation
  <1>9. listEpoch' \in [Devices -> [Accounts -> Int]] /\ binding' \in [Devices -> Accounts \cup {NoAccount}]
    BY <1>1 DEF RegistryInv, RegistryShapes
  <1>. QED  BY <1>1, <1>7, <1>8, <1>9, ClientMoves

\* An engine is closed at any step.
LEMMA CloseEngineHolds ==
    ASSUME RegistryInv, NEW d \in Devices, CloseEngine(d)
    PROVE  RegistryInv' /\ TrustOnlyFalls
  <1>1. engine' = [engine EXCEPT ![d] = Shut] /\ UNCHANGED <<binding, listEpoch, record, owner>>
        /\ task' = [k \in Tasks |-> IF k[2] = d /\ task[k].at = "done" THEN Idle ELSE task[k]]
    BY DEF CloseEngine, registryRelayVars, vaultVars
  <1>2. task' \in [Tasks -> Request] /\ \A k \in Tasks : task'[k] = task[k] \/ task'[k] = Idle
    BY <1>1, IdleShape DEF RegistryInv, RegistryShapes
  <1>3. ASSUME NEW k \in Tasks PROVE TaskFits(k)'
    BY <1>1, <1>2, IdleShape DEF TaskFits, RegistryInv
  <1>4. OneReservation'
    BY <1>2, IdleShape DEF OneReservation, RegistryInv
  <1>5. engine'[d].step = "off"
    BY <1>1, ShutShape DEF RegistryInv, RegistryShapes
  <1>6. DeviceFits(d)'
    BY <1>1, <1>5, ShutFits
  <1>7. engine' \in [Devices -> Opening] /\ \A x \in Devices : DeviceFits(x)'
    BY <1>1, <1>6, ShutShape, EngineMoves
  <1>8. listEpoch' \in [Devices -> [Accounts -> Int]] /\ binding' \in [Devices -> Accounts \cup {NoAccount}]
    BY <1>1 DEF RegistryInv, RegistryShapes
  <1>. QED  BY <1>1, <1>2, <1>3, <1>4, <1>7, <1>8, ClientMoves

\* An engine asks for an enrolment, and applies it.
LEMMA EnrollmentClientHolds ==
    ASSUME RegistryInv, NEW p \in Enrolls, RequestEnrollment(p[1], p[2]) \/ ApplyEnrollment(p[1], p[2])
    PROVE  RegistryInv' /\ TrustOnlyFalls
  <1> DEFINE i == p[1]
             k == <<"enroll", p[1], p[2]>>
             a == engine[i].account
  <1>1. i \in Devices /\ k \in Tasks /\ k[1] = "enroll"
    BY NamedTasks
  <1>2. engine[i].step \in {"joined", "enrolling"} /\ UNCHANGED <<binding, record, owner>>
    BY DEF RequestEnrollment, ApplyEnrollment, registryRelayVars, vaultVars
  <1>3. engine[i] \in Opening /\ DeviceFits(i) /\ a \in Accounts
    BY <1>1, <1>2, DeviceShape
  <1>4. listEpoch \in [Devices -> [Accounts -> Int]] /\ binding \in [Devices -> Accounts \cup {NoAccount}]
        /\ engine \in [Devices -> Opening]
    BY DEF RegistryInv, RegistryShapes
  <1>5. CASE RequestEnrollment(p[1], p[2])
    <2> DEFINE g == [engine[i] EXCEPT !.step = "enrolling"]
               q == [at |-> "asked", account |-> a, epoch |-> engine[i].seen]
    <2>1. engine' = [engine EXCEPT ![i] = g] /\ task' = [task EXCEPT ![k] = q] /\ listEpoch' = listEpoch
      BY <1>5 DEF RequestEnrollment, Ask, vaultVars
    <2>2. g \in Opening /\ g.step = "enrolling" /\ g.account = a
      BY <1>3 DEF Opening
    <2>3. q \in Request /\ q.at = "asked" /\ q.account = a
      BY <1>3 DEF Request, Opening
    <2> HIDE DEF g, q, k
    <2>4. task'[k] = q /\ engine'[i] = g
      BY <1>1, <1>4, <2>1 DEF RegistryInv, RegistryShapes
    <2>5. TaskFits(k)'
      BY <1>1, <1>3, <2>3, <2>4 DEF TaskFits
    <2>6. task' \in [Tasks -> Request] /\ (\A j \in Tasks : TaskFits(j)') /\ OneReservation'
      BY <1>1, <1>2, <2>1, <2>3, <2>5, TaskMoves
    <2>7. DeviceFits(i)'
      BY <1>2, <1>3, <2>2, <2>4 DEF DeviceFits
    <2>8. engine' \in [Devices -> Opening] /\ \A x \in Devices : DeviceFits(x)'
      BY <1>1, <1>2, <2>1, <2>2, <2>7, EngineMoves
    <2>. QED  BY <1>2, <1>4, <2>1, <2>6, <2>8, ClientMoves
  <1>6. CASE ApplyEnrollment(p[1], p[2])
    <2> DEFINE g == [engine[i] EXCEPT !.step = "joined", !.seen = engine[i].seen + 1]
    <2>1. engine' = [engine EXCEPT ![i] = g] /\ EndTask(k) /\ listEpoch' = [listEpoch EXCEPT ![i][a] = @ + 1]
      BY <1>1, <1>4, <1>6 DEF ApplyEnrollment
    <2>2. g \in Opening /\ g.step = "joined" /\ g.account = a
      <3>1. engine[i].seen + 1 \in Int
        BY <1>3 DEF Opening
      <3>. QED  BY <1>3, <3>1 DEF Opening
    <2> HIDE DEF g, k
    <2>3. engine'[i] = g
      BY <1>1, <1>4, <2>1
    <2>4. task' \in [Tasks -> Request] /\ (\A j \in Tasks : TaskFits(j)') /\ OneReservation'
      BY <1>1, <1>2, <2>1, TaskEnds
    <2>5. DeviceFits(i)'
      BY <1>2, <1>3, <2>2, <2>3 DEF DeviceFits
    <2>6. engine' \in [Devices -> Opening] /\ \A x \in Devices : DeviceFits(x)'
      BY <1>1, <1>2, <2>1, <2>2, <2>5, EngineMoves
    <2>7. listEpoch' \in [Devices -> [Accounts -> Int]]
      BY <1>1, <1>3, <1>4, <2>1
    <2>. QED  BY <1>2, <1>4, <2>4, <2>6, <2>7, ClientMoves
  <1>. QED  BY <1>5, <1>6

-----------------------------------------------------------------------------

\* No device has an account.
LEMMA RegistryInitHolds == RegistryInit => RegistryInv
  <1> SUFFICES ASSUME RegistryInit PROVE RegistryInv  OBVIOUS
  <1>1. Absent \in Lifecycle /\ Absent.state = "absent" /\ Absent.epoch = 0
    BY DEF Absent, Lifecycle
  <1>2. RegistryShapes
    BY <1>1, IdleShape, ShutShape DEF RegistryInit, RegistryShapes, Owners
  <1>3. ASSUME NEW a \in Accounts, NEW d \in Devices PROVE RecordFits(a, d)
    <2>1. record[a][d] = Absent
      BY DEF RegistryInit
    <2>. QED  BY <1>1, <2>1 DEF RecordFits
  <1>4. ASSUME NEW d \in Devices PROVE DeviceFits(d)
    <2>1. owner[d] = NoAccount /\ binding[d] = NoAccount /\ engine[d] = Shut
      BY DEF RegistryInit
    <2>. QED  BY <2>1, ShutShape, Names DEF DeviceFits
  <1>5. ASSUME NEW k \in Tasks PROVE task[k] = Idle
    BY DEF RegistryInit
  <1>6. ASSUME NEW k \in Tasks PROVE TaskFits(k)
    BY <1>5, IdleShape DEF TaskFits
  <1>7. OneReservation
    BY <1>5, IdleShape DEF OneReservation
  <1>. QED  BY <1>2, <1>3, <1>4, <1>6, <1>7 DEF RegistryInv

\* Every step keeps the invariant and moves records forward.
LEMMA RegistryStepHolds == RegistryInv /\ [RegistryNext]_registryVars => RegistryInv'
          /\ [TrustOnlyFalls]_registryVars
  <1> SUFFICES ASSUME RegistryInv, [RegistryNext]_registryVars PROVE RegistryInv' /\ TrustOnlyFalls
    OBVIOUS
  <1>1. CASE UNCHANGED registryVars
    <2>1. UNCHANGED <<vaultVars, engine, record, owner, task>>
      BY <1>1 DEF registryVars, vaultVars
    <2>2. task' \in [Tasks -> Request] /\ (\A j \in Tasks : TaskFits(j)') /\ OneReservation'
      BY <2>1 DEF RegistryInv, RegistryShapes, TaskFits, OneReservation
    <2>. QED  BY <2>1, <2>2, OnlyTask
  <1>2. CASE RegistryNext
    BY <1>2, RelayStepHolds, RequestEndsHolds, LoadAccountBindingHolds, AdoptAccountHolds,
         ReadDeviceListHolds,
       JoinRelayHolds, CloseEngineHolds, EnrollmentClientHolds DEF RegistryNext
  <1>. QED  BY <1>1, <1>2

\* A record belongs to the owner of its device or to the account it is reserved
\* for, hence one account for each device.
LEMMA RegistryInvCorrect == RegistryInv => RegistryTypeOK /\ OneAccountPerDevice /\ JoinedIsRegistered
  <1> SUFFICES ASSUME RegistryInv PROVE RegistryTypeOK /\ OneAccountPerDevice /\ JoinedIsRegistered  OBVIOUS
  <1>1. RegistryTypeOK
    BY DEF RegistryTypeOK, RegistryInv, RegistryShapes, Opening, Lifecycle, DeviceFits
  <1>2. ASSUME NEW d \in Devices
        PROVE  Cardinality({a \in Accounts : record[a][d].state # "absent"}) <= 1
    <2> DEFINE S == {a \in Accounts : record[a][d].state # "absent"}
    <2>1. \E a : S \subseteq {a}
      BY Names DEF RegistryInv, RecordFits
    <2>2. PICK a : S \subseteq {a}
      BY <2>1
    <2>3. Cardinality({a}) = 1 /\ IsFiniteSet({a})
      BY FS_Singleton
    <2> HIDE DEF S
    <2>4. Cardinality(S) <= Cardinality({a})
      BY <2>2, <2>3, FS_Subset
    <2>. QED  BY <2>3, <2>4 DEF S
  <1>3. JoinedIsRegistered
    <2> SUFFICES ASSUME NEW d \in Devices, engine[d].step \in {"joined", "enrolling"}
                 PROVE  record[engine[d].account][d].state # "absent" /\ binding[d] = engine[d].account
                        /\ owner[d] = engine[d].account
      BY DEF JoinedIsRegistered
    <2>. QED  BY DeviceShape DEF DeviceFits
  <1>. QED  BY <1>1, <1>2, <1>3 DEF OneAccountPerDevice

\* For any number of devices and requests, wherever the relay stops in one of
\* them: no device is registered under two accounts, the engine the relay
\* admits is bound to the account under which its device is registered, and
\* records only go forward, so a revoked device is never active again.
THEOREM RegistryIsCorrect == RegistrySpec => RegistryCorrect
  <1>1. RegistryInit => RegistryInv
    BY RegistryInitHolds
  <1>2. RegistryInv /\ [RegistryNext]_registryVars => RegistryInv' /\ [TrustOnlyFalls]_registryVars
    BY RegistryStepHolds
  <1>3. RegistryInv => RegistryTypeOK /\ OneAccountPerDevice /\ JoinedIsRegistered
    BY RegistryInvCorrect
  <1>. QED  BY <1>1, <1>2, <1>3, PTL DEF RegistrySpec, RegistryCorrect

Standing == {"absent", "pending", "active", "revoked"}
Histories == Seq([Members -> Standing])
Duties == {"none", "enroll", "confirm", "adopt", "activate", "revoke"}
Frames == {"approval", "confirmation", "snapshot", "event", "request"}
Evidence == [id : {"none", "enrollment", "snapshot"}, history : Histories]
Gates == [suspended : BOOLEAN, members : SUBSET Members, evidence : Evidence,
          seen : Nat, issues : BOOLEAN, alive : BOOLEAN]

Seen(h, state) == \E i \in 1 .. Len(h) : h[i][Second] = state
Stands(h, state) == h # NoHistory /\ Now(h)[Second] = state /\ Now(h)[First] \in {"active", "revoked"}

\* A list that continues another: one epoch more, and revocation is final.
Continues(old, new) ==
    /\ new \in Histories /\ Len(new) = Len(old) + 1 /\ SubSeq(new, 1, Len(old)) = old
    /\ \A m \in Members : Now(old)[m] = "revoked" => Now(new)[m] = "revoked"

LedgerShapes ==
    /\ ledger \in [Members -> Histories]
    /\ mark \in [Members -> [epoch : Nat, history : Histories]]
    /\ joined \in [Members -> BOOLEAN]
    /\ gate \in [Members -> Gates]
    /\ duty \in [Members -> [kind : Duties, history : Histories]]
    /\ control \subseteq [to : Members, kind : Frames, history : Histories, admitted : BOOLEAN]

\* What a device between two awaits relies on.
DutyFits(d) ==
    LET k == duty[d].kind
        h == duty[d].history
    IN  /\ k = "enroll" => d = First /\ Stands(h, "absent")
        /\ k \in {"confirm", "adopt", "activate"} => d = Second /\ Stands(h, "pending")
        /\ k \in {"confirm", "adopt"} => ~joined[d]
        /\ k = "adopt" => Now(ledger[d])[d] = "active"
        /\ k \in {"adopt", "activate"} => Seen(ledger[Second], "active")

\* What a frame on its way tells of the lists.
FrameFits(p) ==
    /\ p.kind = "approval" => p.to = Second /\ Stands(p.history, "pending") /\ Seen(ledger[First], "pending")
    /\ p.kind = "confirmation" => p.to = First /\ Stands(p.history, "pending")
           /\ Seen(ledger[Second], "active")
    /\ p.kind \in {"snapshot", "event"} => p.history # NoHistory

ListFits(d) ==
    /\ ledger[d] # NoHistory => Now(ledger[d])[First] \in {"active", "revoked"}
    /\ joined[d] => ledger[d] # NoHistory
    /\ gate[d].alive => joined[d]
    /\ ledger[d] # NoHistory /\ Now(ledger[d])[Second] = "active" => Seen(ledger[Second], "active")

LedgerInv ==
    /\ LedgerShapes
    /\ joined[First]
    /\ ledger[Second] # NoHistory => Seen(ledger[First], "pending")
    /\ \A d \in Members : ListFits(d) /\ DutyFits(d)
    /\ \A p \in control : FrameFits(p)
    /\ MarkCoversLedger /\ RevokedIsShut

\* The two devices of the account.
LEMMA TwoMembers ==
    /\ First \in Members /\ Second \in Members /\ First # Second
    /\ \A d \in Members : d = First \/ d = Second
    /\ \A d \in Members : Peer(d) \in Members /\ Peer(d) # d
    /\ Peer(First) = Second /\ Peer(Second) = First
  BY LedgerAssumption DEF Members, Peer

\* A list is a sequence of membership maps.
LEMMA ListShape ==
    ASSUME NEW h \in Histories
    PROVE  /\ Len(h) \in Nat /\ (\A i \in 1 .. Len(h) : h[i] \in [Members -> Standing])
           /\ h # NoHistory => Len(h) >= 1 /\ Now(h) \in [Members -> Standing]
           /\ h = NoHistory => Len(h) = 0
           /\ ActiveIn(h) \in SUBSET Members
  <1>1. Len(h) \in Nat /\ (\A i \in 1 .. Len(h) : h[i] \in [Members -> Standing])
    BY LenProperties DEF Histories
  <1>2. h # NoHistory => Len(h) \in Nat \ {0}
    BY EmptySeq DEF Histories, NoHistory
  <1>3. h = NoHistory => Len(h) = 0
    BY EmptySeq DEF NoHistory
  <1>4. ActiveIn(h) \in SUBSET Members
    BY DEF ActiveIn
  <1>. QED  BY <1>1, <1>2, <1>3, <1>4 DEF Now

\* A device without a list.
LEMMA NoList == NoHistory \in Histories /\ Len(NoHistory) = 0
  BY EmptySeq DEF NoHistory, Histories

\* A list with one entry changed in its next epoch.
LEMMA GrownList ==
    ASSUME NEW h \in Histories, h # NoHistory, NEW m \in Members, NEW s \in Standing
    PROVE  /\ Grown(h, m, s) \in Histories /\ Len(Grown(h, m, s)) = Len(h) + 1
           /\ SubSeq(Grown(h, m, s), 1, Len(h)) = h /\ Grown(h, m, s) # NoHistory
           /\ Now(Grown(h, m, s))[m] = s
           /\ \A x \in Members \ {m} : Now(Grown(h, m, s))[x] = Now(h)[x]
  <1> DEFINE e == [Now(h) EXCEPT ![m] = s]
             g == Append(h, e)
  <1>1. Now(h) \in [Members -> Standing] /\ Len(h) \in Nat /\ Len(h) >= 1
    BY ListShape
  <1>2. e \in [Members -> Standing] /\ e[m] = s /\ \A x \in Members \ {m} : e[x] = Now(h)[x]
    BY <1>1
  <1>3. Grown(h, m, s) = g
    BY DEF Grown
  <1>4. h \in Seq([Members -> Standing])
    BY DEF Histories
  <1> HIDE DEF e
  <1>5. g \in Seq([Members -> Standing]) /\ Len(g) = Len(h) + 1 /\ g # << >> /\ g[Len(h) + 1] = e
        /\ \A i \in 1 .. Len(h) : g[i] = h[i]
    BY <1>1, <1>2, <1>4, AppendProperties
  <1> HIDE DEF g
  <1>6. SubSeq(g, 1, Len(h)) = h
    <2> DEFINE t == SubSeq(g, 1, Len(h))
    <2>1. \A i \in 1 .. Len(h) : g[i] \in [Members -> Standing]
      BY <1>1, <1>5, ElementOfSeq
    <2>2. t \in Seq([Members -> Standing]) /\ Len(t) = Len(h) /\ \A i \in 1 .. Len(h) : t[i] = g[i]
      BY <1>1, <2>1, SubSeqProperties
    <2> HIDE DEF t
    <2>3. \A i \in 1 .. Len(t) : t[i] = h[i]
      BY <1>5, <2>2
    <2>4. t = h
      BY <1>4, <2>2, <2>3, SeqEqual
    <2>. QED  BY <2>4 DEF t
  <1>7. Now(g) = e
    BY <1>5 DEF Now
  <1>. QED  BY <1>2, <1>3, <1>5, <1>6, <1>7 DEF Histories, NoHistory

\* ... continues it, unless it would undo a revocation.
LEMMA GrownContinues ==
    ASSUME NEW h \in Histories, h # NoHistory, NEW m \in Members, NEW s \in Standing, Now(h)[m] = "revoked"
               => s = "revoked"
    PROVE  Continues(h, Grown(h, m, s))
  <1>1. ASSUME NEW x \in Members, Now(h)[x] = "revoked" PROVE Now(Grown(h, m, s))[x] = "revoked"
    <2>1. CASE x = m
      BY <1>1, <2>1, GrownList
    <2>2. CASE x # m
      BY <1>1, <2>2, GrownList
    <2>. QED  BY <2>1, <2>2
  <1>. QED  BY <1>1, GrownList DEF Continues

\* What a list has held once stays in its continuations.
LEMMA SeenStays ==
    ASSUME NEW old \in Histories, NEW new \in Histories, old = NoHistory \/ Continues(old, new),
           NEW s \in Standing, Seen(old, s)
    PROVE  Seen(new, s)
  <1>1. PICK i \in 1 .. Len(old) : old[i][Second] = s
    BY DEF Seen
  <1>2. Len(old) \in Nat /\ Len(new) \in Nat /\ old # NoHistory
    BY <1>1, ListShape
  <1>3. Len(new) = Len(old) + 1 /\ SubSeq(new, 1, Len(old)) = old
    BY <1>2 DEF Continues
  <1>4. \A j \in 1 .. Len(old) : new[j] \in [Members -> Standing]
    BY <1>2, <1>3, ListShape
  <1>5. \A j \in 1 .. Len(old) - 1 + 1 : SubSeq(new, 1, Len(old))[j] = new[1 + j - 1]
    BY <1>2, <1>4, SubSeqProperties
  <1>6. new[i] = old[i] /\ i \in 1 .. Len(new)
    BY <1>1, <1>2, <1>3, <1>5
  <1>. QED  BY <1>1, <1>6 DEF Seen

\* A new DeviceTrustEnforcer.
LEMMA FreshShape ==
    ASSUME NEW h \in Histories, NEW b \in BOOLEAN
    PROVE  Fresh(h, b) \in Gates
  <1>1. Epoch(h) \in Nat /\ ActiveIn(h) \in SUBSET Members
    BY ListShape DEF Epoch
  <1>2. NoEvidence \in Evidence
    BY NoList DEF NoEvidence, Evidence
  <1>. QED  BY <1>1, <1>2 DEF Fresh, Gates

\* The changes of an enforcer keep its fields, and of its engine's life.
LEMMA GateShapes ==
    ASSUME NEW g \in Gates, NEW h \in Histories
    PROVE  /\ \A b \in BOOLEAN : Fresh(h, b) \in Gates
           /\ Restricted(g, h) \in Gates /\ Restricted(g, h).alive = g.alive
           /\ \A id \in {"none", "enrollment", "snapshot"} : Shown(g, id, h) \in Gates
                  /\ Shown(g, id, h).alive = g.alive
           /\ [g EXCEPT !.evidence = NoEvidence] \in Gates
                  /\ [g EXCEPT !.evidence = NoEvidence].alive = g.alive
           /\ [g EXCEPT !.suspended = TRUE] \in Gates /\ [g EXCEPT !.suspended = TRUE].alive = g.alive
           /\ [g EXCEPT !.seen = Epoch(h)] \in Gates /\ [g EXCEPT !.seen = Epoch(h)].alive = g.alive
           /\ [g EXCEPT !.alive = FALSE] \in Gates /\ [g EXCEPT !.alive = FALSE].alive = FALSE
  <1>1. Epoch(h) \in Nat /\ ActiveIn(h) \in SUBSET Members
    BY ListShape DEF Epoch
  <1>2. NoEvidence \in Evidence
    BY NoList DEF NoEvidence, Evidence
  <1>3. ASSUME NEW b \in BOOLEAN PROVE Fresh(h, b) \in Gates
    BY FreshShape
  <1>4. Restricted(g, h) \in Gates /\ Restricted(g, h).alive = g.alive
    BY <1>1 DEF Restricted, Gates
  <1>5. ASSUME NEW id \in {"none", "enrollment", "snapshot"}
        PROVE Shown(g, id, h) \in Gates /\ Shown(g, id, h).alive = g.alive
    <2>1. [id |-> id, history |-> h] \in Evidence
      BY DEF Evidence
    <2>. QED  BY <2>1 DEF Shown, Gates
  <1>6. [g EXCEPT !.evidence = NoEvidence] \in Gates /\ [g EXCEPT !.evidence = NoEvidence].alive = g.alive
    BY <1>2 DEF Gates
  <1>7. [g EXCEPT !.suspended = TRUE] \in Gates /\ [g EXCEPT !.suspended = TRUE].alive = g.alive
    BY DEF Gates
  <1>8. [g EXCEPT !.seen = Epoch(h)] \in Gates /\ [g EXCEPT !.seen = Epoch(h)].alive = g.alive
    BY <1>1 DEF Gates
  <1>9. [g EXCEPT !.alive = FALSE] \in Gates /\ [g EXCEPT !.alive = FALSE].alive = FALSE
    BY DEF Gates
  <1>. QED  BY <1>3, <1>4, <1>5, <1>6, <1>7, <1>8, <1>9

-----------------------------------------------------------------------------
(* The lists stay, or one of them grows. *)

\* A step that changes no list: an engine starts only for a device its list
\* does not call revoked.
LEMMA ListsStay ==
    ASSUME LedgerInv, UNCHANGED <<ledger, joined>>, LedgerShapes', MarkCoversLedger',
           \A e \in Members : gate'[e].alive => gate[e].alive \/ (joined[e] /\ Now(ledger[e])[e] # "revoked"),
           \A e \in Members : DutyFits(e)', \A p \in control' : FrameFits(p)'
    PROVE  LedgerInv' /\ HistoryOnlyGrows
  <1>1. \A e \in Members : ListFits(e)'
    BY DEF ListFits, LedgerInv
  <1>2. RevokedIsShut'
    BY DEF RevokedIsShut, LedgerInv
  <1>3. joined'[First] /\ (ledger'[Second] # NoHistory => Seen(ledger'[First], "pending"))
    BY DEF LedgerInv
  <1>4. HistoryOnlyGrows
    BY DEF HistoryOnlyGrows
  <1>. QED  BY <1>1, <1>2, <1>3, <1>4 DEF LedgerInv, Seen

\* Operations between two awaits go on relying on lists that stay.
LEMMA DutiesStay ==
    ASSUME LedgerInv, UNCHANGED <<ledger, joined>>, \A e \in Members : duty'[e] = duty[e] \/ duty'[e] = NoDuty
    PROVE  \A e \in Members : DutyFits(e)'
  BY DEF DutyFits, LedgerInv, NoDuty, Stands, Seen

\* So do frames on their way.
LEMMA FramesStay ==
    ASSUME LedgerInv, UNCHANGED ledger, control' \subseteq control
    PROVE  \A p \in control' : FrameFits(p)'
  BY DEF FrameFits, LedgerInv, Stands, Seen

\* The mark stays with its list.
LEMMA MarkStays ==
    ASSUME LedgerInv, UNCHANGED <<ledger, mark>>
    PROVE  MarkCoversLedger'
  BY DEF MarkCoversLedger, LedgerInv, Epoch

\* writeAtomic writes a continuation and its mark: the mark covers it, and what
\* was confirmed stays confirmed.
LEMMA ListGrows ==
    ASSUME LedgerInv, NEW d \in Members, NEW h \in Histories, ledger[d] # NoHistory,
               Continues(ledger[d], h), Commit(d, h),
           joined' = joined, gate' \in [Members -> Gates],
           duty' \in [Members -> [kind : Duties, history : Histories]],
           control' \subseteq [to : Members, kind : Frames, history : Histories, admitted : BOOLEAN],
           \A e \in Members : gate'[e].alive => gate[e].alive,
           gate'[d].alive => Now(h)[d] # "revoked",
           Now(h)[First] = Now(ledger[d])[First] \/ Now(h)[First] \in {"active", "revoked"},
           Now(h)[Second] = "active" => d = Second \/ Seen(ledger[Second], "active"),
           \A e \in Members : DutyFits(e)', \A p \in control' : FrameFits(p)'
    PROVE  LedgerInv' /\ HistoryOnlyGrows
  <1>1. ledger \in [Members -> Histories] /\ mark \in [Members -> [epoch : Nat, history : Histories]]
        /\ joined \in [Members -> BOOLEAN] /\ First \in Members /\ Second \in Members
    BY TwoMembers DEF LedgerInv, LedgerShapes
  <1>2. ledger' \in [Members -> Histories] /\ ledger'[d] = h
            /\ \A e \in Members \ {d} : ledger'[e] = ledger[e]
    BY <1>1 DEF Commit
  <1>3. Mark(h) \in [epoch : Nat, history : Histories] /\ Mark(h).epoch = Len(h) /\ Len(h) \in Nat
    BY ListShape DEF Mark, Epoch
  <1>4. mark' \in [Members -> [epoch : Nat, history : Histories]] /\ mark'[d] = Mark(h)
        /\ \A e \in Members \ {d} : mark'[e] = mark[e]
    BY <1>1, <1>3 DEF Commit
  <1>5. MarkCoversLedger'
    <2> SUFFICES ASSUME NEW e \in Members PROVE mark'[e].epoch >= Len(ledger'[e])
      BY DEF MarkCoversLedger, Epoch
    <2>1. CASE e = d
      BY <1>2, <1>3, <1>4, <2>1
    <2>2. CASE e # d
      BY <1>2, <1>4, <2>2 DEF LedgerInv, MarkCoversLedger, Epoch
    <2>. QED  BY <2>1, <2>2
  <1>6. h # NoHistory
    <2>1. Len(h) = Len(ledger[d]) + 1 /\ Len(ledger[d]) \in Nat
      BY <1>1, ListShape DEF Continues
    <2>. QED  BY <2>1, ListShape
  <1>7. ASSUME NEW e \in Members, NEW s \in Standing, Seen(ledger[e], s) PROVE Seen(ledger'[e], s)
    BY <1>1, <1>2, <1>7, SeenStays
  <1>8. Seen(ledger[Second], "active") => Seen(ledger'[Second], "active")
    BY <1>1, <1>7 DEF Standing
  <1>9. ASSUME NEW e \in Members PROVE ListFits(e)'
    <2>1. ListFits(e)
      BY DEF LedgerInv
    <2>2. CASE e # d
      BY <1>2, <1>8, <2>1, <2>2 DEF ListFits
    <2>3. CASE e = d
      <3>1. h # NoHistory /\ Now(h)[Second] = "active" => Seen(ledger'[Second], "active")
        <4>1. CASE d = Second
          <5>1. Now(h)[Second] = "active" => Seen(h, "active")
            BY <1>3, <1>6, ListShape DEF Now, Seen
          <5>. QED  BY <1>2, <4>1, <5>1
        <4>. QED  BY <1>8, <4>1
      <3>. QED  BY <1>2, <1>6, <2>1, <2>3, <3>1 DEF ListFits
    <2>. QED  BY <2>2, <2>3
  <1>10. RevokedIsShut'
    BY <1>2 DEF RevokedIsShut, LedgerInv
  <1>11. ledger'[Second] # NoHistory => Seen(ledger'[First], "pending")
    <2>1. Seen(ledger[First], "pending") => Seen(ledger'[First], "pending")
      BY <1>1, <1>7 DEF Standing
    <2>2. ledger[Second] = NoHistory => ledger'[Second] = ledger[Second]
      BY <1>1, <1>2
    <2>. QED  BY <2>1, <2>2 DEF LedgerInv
  <1>12. HistoryOnlyGrows
    <2> SUFFICES ASSUME NEW e \in Members, ledger[e] # NoHistory, ledger'[e] # ledger[e]
                 PROVE  Continues(ledger[e], ledger'[e])
      BY DEF HistoryOnlyGrows, Continues, Epoch
    <2>. QED  BY <1>2
  <1>13. LedgerShapes'
    BY <1>1, <1>2, <1>4 DEF LedgerShapes
  <1>. QED  BY <1>5, <1>9, <1>10, <1>11, <1>12, <1>13 DEF LedgerInv

-----------------------------------------------------------------------------
(* The steps of an engine. *)

\* The records of a device.
LEMMA Shapes ==
    ASSUME LedgerInv, NEW d \in Members
    PROVE  /\ ledger[d] \in Histories /\ mark[d] \in [epoch : Nat, history : Histories] /\ gate[d] \in Gates
           /\ duty[d] \in [kind : Duties, history : Histories] /\ duty[d].history \in Histories
           /\ Epoch(ledger[d]) \in Nat /\ ListFits(d) /\ DutyFits(d) /\ joined[d] \in BOOLEAN
           /\ Readable(d) => ledger[d] # NoHistory
  <1>1. ledger[d] \in Histories
    BY DEF LedgerInv, LedgerShapes
  <1>. QED  BY <1>1, ListShape DEF LedgerInv, LedgerShapes, Epoch, Readable

\* A device with nothing to do.
LEMMA NoDutyShape == NoDuty \in [kind : Duties, history : Histories] /\ NoDuty.kind = "none"
  BY NoList DEF NoDuty, Duties

\* A protected operation closes the engine when the trust is gone.
LEMMA ProtectedHolds ==
    ASSUME LedgerInv, NEW d \in Members, Protected(d)
    PROVE  LedgerInv' /\ HistoryOnlyGrows
  <1> DEFINE g == IF Trusted(d) THEN Sees(d) ELSE [gate[d] EXCEPT !.alive = FALSE]
  <1>1. gate' = [gate EXCEPT ![d] = g] /\ UNCHANGED <<ledger, mark, joined, duty, control>>
    BY DEF Protected
  <1>2. g \in Gates /\ (g.alive => gate[d].alive)
    <2>1. Sees(d) \in Gates /\ Sees(d).alive = gate[d].alive
      BY Shapes, GateShapes DEF Sees
    <2>2. [gate[d] EXCEPT !.alive = FALSE] \in Gates /\ [gate[d] EXCEPT !.alive = FALSE].alive = FALSE
      BY Shapes, GateShapes
    <2>. QED  BY <2>1, <2>2
  <1> HIDE DEF g
  <1>3. LedgerShapes' /\ gate'[d] = g /\ \A e \in Members \ {d} : gate'[e] = gate[e]
    BY <1>1, <1>2 DEF LedgerInv, LedgerShapes
  <1>. QED  BY <1>1, <1>2, <1>3, ListsStay, DutiesStay, FramesStay, MarkStays

\* A frame is heard while the trust holds; one that comes later closes the engine.
LEMMA AdmitHolds ==
    ASSUME LedgerInv, NEW d \in Members, AdmitControl(d)
    PROVE  LedgerInv' /\ HistoryOnlyGrows
  <1> DEFINE g == IF Trusted(d) THEN Sees(d) ELSE [gate[d] EXCEPT !.alive = FALSE]
  <1>1. PICK p \in control :
           /\ gate' = [gate EXCEPT ![d] = g] /\ UNCHANGED <<ledger, mark, joined, duty>>
           /\ control' \subseteq control \cup {[p EXCEPT !.admitted = TRUE]}
    BY DEF AdmitControl
  <1>2. g \in Gates /\ (g.alive => gate[d].alive)
    <2>1. Sees(d) \in Gates /\ Sees(d).alive = gate[d].alive
      BY Shapes, GateShapes DEF Sees
    <2>2. [gate[d] EXCEPT !.alive = FALSE] \in Gates /\ [gate[d] EXCEPT !.alive = FALSE].alive = FALSE
      BY Shapes, GateShapes
    <2>. QED  BY <2>1, <2>2
  <1> HIDE DEF g
  <1>3. gate' \in [Members -> Gates] /\ \A e \in Members : gate'[e].alive => gate[e].alive
    BY <1>1, <1>2 DEF LedgerInv, LedgerShapes
  <1> DEFINE q == [p EXCEPT !.admitted = TRUE]
  <1>4. /\ q \in [to : Members, kind : Frames, history : Histories, admitted : BOOLEAN]
        /\ q.to = p.to /\ q.kind = p.kind /\ q.history = p.history /\ FrameFits(p)
    BY DEF LedgerInv, LedgerShapes
  <1> HIDE DEF q
  <1>5. control' \subseteq [to : Members, kind : Frames, history : Histories, admitted : BOOLEAN]
    BY <1>1, <1>4 DEF LedgerInv, LedgerShapes, q
  <1>6. ASSUME NEW x \in control' PROVE FrameFits(x)'
    <2>1. FrameFits(x)
      <3>1. CASE x = q
        BY <1>4, <3>1 DEF FrameFits
      <3>. QED  BY <1>1, <3>1 DEF q, LedgerInv
    <2>. QED  BY <1>1, <2>1 DEF FrameFits, Stands, Seen
  <1>7. LedgerShapes'
    BY <1>1, <1>3, <1>5 DEF LedgerInv, LedgerShapes
  <1>. QED  BY <1>1, <1>3, <1>6, <1>7, ListsStay, DutiesStay, MarkStays

\* An approval is given for the list as it is.
LEMMA ApproveHolds ==
    ASSUME LedgerInv, NEW d \in Members, ApproveEnrollment(d) \/ ApproveRevocation(d)
    PROVE  LedgerInv' /\ HistoryOnlyGrows
  <1>1. MayIssue(d) /\ gate' = [gate EXCEPT ![d] = Sees(d)] /\ UNCHANGED <<ledger, mark, joined, control>>
    BY DEF ApproveEnrollment, ApproveRevocation
  <1>2. Sees(d) \in Gates /\ Sees(d).alive = gate[d].alive
    BY Shapes, GateShapes DEF Sees
  <1>3. gate' \in [Members -> Gates] /\ \A e \in Members : gate'[e].alive => gate[e].alive
    BY <1>1, <1>2 DEF LedgerInv, LedgerShapes
  <1>4. ledger[d] # NoHistory /\ ledger[d] \in Histories
    BY <1>1, Shapes DEF MayIssue, Trusted
  <1>5. PICK k \in {"enroll", "revoke"} : /\ duty' = [duty EXCEPT ![d] = [kind |-> k, history |-> ledger[d]]]
                                          /\ k = "enroll" => Now(ledger[d])[Peer(d)] = "absent"
    BY DEF ApproveEnrollment, ApproveRevocation
  <1>6. /\ duty' \in [Members -> [kind : Duties, history : Histories]]
        /\ duty'[d].kind = k /\ duty'[d].history = ledger[d] /\ \A e \in Members \ {d} : duty'[e] = duty[e]
    BY <1>4, <1>5 DEF LedgerInv, LedgerShapes, Duties
  <1>7. ASSUME NEW e \in Members PROVE DutyFits(e)'
    <2>1. CASE e # d
      BY <1>1, <1>6, <2>1 DEF DutyFits, LedgerInv, Stands, Seen
    <2>2. CASE e = d
      <3>1. k = "enroll" => d = First /\ Stands(ledger[d], "absent")
        BY <1>4, <1>5, Shapes, TwoMembers DEF ListFits, Stands
      <3>. QED  BY <1>6, <2>2, <3>1 DEF DutyFits, Stands
    <2>. QED  BY <2>1, <2>2
  <1>8. LedgerShapes'
    BY <1>1, <1>3, <1>6 DEF LedgerInv, LedgerShapes
  <1>. QED  BY <1>1, <1>3, <1>7, <1>8, ListsStay, FramesStay, MarkStays

\* An operation is given up, or tells the issuer and ends.
LEMMA GiveUpHolds ==
    ASSUME LedgerInv, NEW d \in Members, GiveUp(d) \/ CloseDevice(d) \/ SendConfirmation(d)
    PROVE  LedgerInv' /\ HistoryOnlyGrows
  <1>1. duty' = [duty EXCEPT ![d] = NoDuty] /\ UNCHANGED <<ledger, mark, joined>>
    BY DEF GiveUp, CloseDevice, SendConfirmation
  <1>2. duty' \in [Members -> [kind : Duties, history : Histories]]
            /\ \A e \in Members : duty'[e] = duty[e] \/ duty'[e] = NoDuty
    BY <1>1, NoDutyShape DEF LedgerInv, LedgerShapes
  <1>3. gate' \in [Members -> Gates] /\ \A e \in Members : gate'[e].alive => gate[e].alive
    <2>1. [gate[d] EXCEPT !.alive = FALSE] \in Gates /\ [gate[d] EXCEPT !.alive = FALSE].alive = FALSE
      BY Shapes, GateShapes
    <2>2. gate' = gate \/ gate' = [gate EXCEPT ![d] = [gate[d] EXCEPT !.alive = FALSE]]
      BY DEF GiveUp, CloseDevice, SendConfirmation
    <2>. QED  BY <2>1, <2>2 DEF LedgerInv, LedgerShapes
  <1>4. control' \subseteq [to : Members, kind : Frames, history : Histories, admitted : BOOLEAN]
            /\ \A p \in control' : FrameFits(p)'
    <2>1. CASE control' = control
      BY <1>1, <2>1, FramesStay DEF LedgerInv, LedgerShapes
    <2>2. CASE SendConfirmation(d)
      <3>1. PICK p : p = Post(Peer(d), "confirmation", duty[d].history) /\ control' = control \cup {p}
                     /\ duty[d].kind = "activate"
        BY <2>2 DEF SendConfirmation
      <3>2. d = Second /\ Stands(duty[d].history, "pending") /\ Seen(ledger[Second], "active")
        BY <3>1, Shapes DEF DutyFits
      <3>3. p \in [to : Members, kind : Frames, history : Histories, admitted : BOOLEAN] /\ p.kind = "confirmation"
                /\ p.to = First
            /\ p.history = duty[d].history
        BY <3>1, <3>2, Shapes, TwoMembers DEF Post, Frames
      <3>4. FrameFits(p)'
        BY <1>1, <3>2, <3>3 DEF FrameFits, Seen, Stands
      <3>5. \A q \in control : FrameFits(q)'
        BY <1>1 DEF FrameFits, LedgerInv, Stands, Seen
      <3>. QED  BY <3>1, <3>3, <3>4, <3>5 DEF LedgerInv, LedgerShapes
    <2>. QED  BY <2>1, <2>2 DEF GiveUp, CloseDevice, SendConfirmation
  <1>5. LedgerShapes'
    BY <1>1, <1>2, <1>3, <1>4 DEF LedgerInv, LedgerShapes
  <1>. QED  BY <1>1, <1>2, <1>3, <1>4, <1>5, ListsStay, DutiesStay, MarkStays

\* What the other device and the frames on their way rely on stays when a list
\* grows.
LEMMA CommitKeeps ==
    ASSUME LedgerInv, NEW d \in Members, NEW h \in Histories, Commit(d, h), ledger[d] = NoHistory
               \/ Continues(ledger[d], h)
    PROVE  /\ ledger' \in [Members -> Histories] /\ ledger'[d] = h
                  /\ \A e \in Members \ {d} : ledger'[e] = ledger[e]
           /\ \A e \in Members : /\ Seen(ledger[e], "pending") => Seen(ledger'[e], "pending")
                                 /\ Seen(ledger[e], "active") => Seen(ledger'[e], "active")
           /\ \A q \in control : FrameFits(q)'
           /\ \A e \in Members \ {d} : duty'[e] = duty[e] /\ joined'[e] = joined[e] => DutyFits(e)'
  <1>1. ledger' \in [Members -> Histories] /\ ledger'[d] = h
            /\ \A e \in Members \ {d} : ledger'[e] = ledger[e]
    BY DEF Commit, LedgerInv, LedgerShapes
  <1>2. \A e \in Members : ledger[e] \in Histories /\ ledger'[e] \in Histories
                           /\ (ledger[e] = NoHistory \/ ledger'[e] = ledger[e]
                                  \/ Continues(ledger[e], ledger'[e]))
    BY <1>1 DEF LedgerInv, LedgerShapes
  <1>3. ASSUME NEW e \in Members, NEW s \in Standing, Seen(ledger[e], s) PROVE Seen(ledger'[e], s)
    BY <1>2, <1>3, SeenStays
  <1>4. \A e \in Members : /\ Seen(ledger[e], "pending") => Seen(ledger'[e], "pending")
                           /\ Seen(ledger[e], "active") => Seen(ledger'[e], "active")
    BY <1>3 DEF Standing
  <1>5. ASSUME NEW q \in control PROVE FrameFits(q)'
    <2>1. FrameFits(q)
      BY DEF LedgerInv
    <2>. QED  BY <1>4, <2>1, TwoMembers DEF FrameFits
  <1>6. ASSUME NEW e \in Members \ {d}, duty'[e] = duty[e], joined'[e] = joined[e] PROVE DutyFits(e)'
    <2>1. ledger'[e] = ledger[e] /\ DutyFits(e)
      BY <1>1 DEF LedgerInv
    <2>. QED  BY <1>4, <1>6, <2>1, TwoMembers DEF DutyFits
  <1>. QED  BY <1>1, <1>4, <1>5, <1>6

\* applyEnrollment adds the second device as pending to the list it was
\* approved for.
LEMMA ApplyEnrollmentHolds ==
    ASSUME LedgerInv, NEW d \in Members, ApplyEnrollmentLocally(d)
    PROVE  LedgerInv' /\ HistoryOnlyGrows
  <1> DEFINE h == Grown(ledger[d], Peer(d), "pending")
             p == Post(Peer(d), "approval", h)
  <1>1. /\ duty[d].kind = "enroll" /\ duty[d].history = ledger[d] /\ Readable(d) /\ Commit(d, h)
        /\ control' = control \cup {p} /\ duty' = [duty EXCEPT ![d] = NoDuty] /\ UNCHANGED <<joined, gate>>
    BY DEF ApplyEnrollmentLocally
  <1>2. d = First /\ Stands(ledger[d], "absent") /\ ledger[d] # NoHistory /\ ledger[d] \in Histories
    BY <1>1, Shapes DEF DutyFits
  <1>3. /\ h \in Histories /\ Continues(ledger[d], h) /\ h # NoHistory
        /\ Now(h)[Second] = "pending" /\ Now(h)[First] = Now(ledger[d])[First]
    <2>1. Peer(d) = Second /\ Second \in Members /\ First \in Members \ {Second} /\ "pending" \in Standing
          /\ Now(ledger[d])[Peer(d)] # "revoked"
      BY <1>2, TwoMembers DEF Stands, Standing
    <2>2. h \in Histories /\ h # NoHistory /\ Now(h)[Second] = "pending"
              /\ Now(h)[First] = Now(ledger[d])[First]
      BY <1>2, <2>1, GrownList
    <2>3. Continues(ledger[d], h)
      BY <1>2, <2>1, GrownContinues
    <2>. QED  BY <2>2, <2>3
  <1>4. p \in [to : Members, kind : Frames, history : Histories, admitted : BOOLEAN] /\ p.kind = "approval" /\ p.to = Second
            /\ p.history = h
    BY <1>2, <1>3, TwoMembers DEF Post, Frames
  <1> HIDE DEF h, p
  <1>5. /\ ledger'[First] = h /\ \A q \in control : FrameFits(q)'
        /\ \A e \in Members \ {d} : duty'[e] = duty[e] /\ joined'[e] = joined[e] => DutyFits(e)'
    BY <1>1, <1>2, <1>3, CommitKeeps
  <1>6. Seen(h, "pending")
    BY <1>3, ListShape DEF Seen, Now
  <1>7. ASSUME NEW q \in control' PROVE FrameFits(q)'
    <2>1. CASE q = p
      BY <1>2, <1>3, <1>4, <1>5, <1>6, <2>1 DEF FrameFits, Stands
    <2>. QED  BY <1>1, <1>5, <2>1
  <1>8. ASSUME NEW e \in Members PROVE DutyFits(e)'
    <2>1. CASE e = d
      <3>1. duty'[d] = NoDuty
        BY <1>1 DEF LedgerInv, LedgerShapes
      <3>. QED  BY <2>1, <3>1, NoDutyShape DEF DutyFits
    <2>2. CASE e # d
      BY <1>1, <1>5, <2>2 DEF LedgerInv, LedgerShapes
    <2>. QED  BY <2>1, <2>2
  <1>9. /\ duty' \in [Members -> [kind : Duties, history : Histories]] /\ gate' \in [Members -> Gates]
        /\ control' \subseteq [to : Members, kind : Frames, history : Histories, admitted : BOOLEAN]
    BY <1>1, <1>4, NoDutyShape DEF LedgerInv, LedgerShapes
  <1>10. gate'[d].alive => Now(h)[d] # "revoked"
    <2>1. gate[d].alive => Now(ledger[d])[d] # "revoked"
      BY Shapes DEF ListFits, LedgerInv, RevokedIsShut
    <2>. QED  BY <1>1, <1>2, <1>3, <2>1
  <1>. QED  BY <1>1, <1>2, <1>3, <1>7, <1>8, <1>9, <1>10, ListGrows

\* applyRevocation revokes the other device in the list it was approved for.
LEMMA ApplyRevocationHolds ==
    ASSUME LedgerInv, NEW d \in Members, ApplyRevocation(d)
    PROVE  LedgerInv' /\ HistoryOnlyGrows
  <1> DEFINE h == Grown(ledger[d], Peer(d), "revoked")
             p == Post(Peer(d), "snapshot", h)
             r == Post(Peer(d), "event", h)
             g == Restricted(gate[d], h)
  <1>1. /\ Readable(d) /\ d \in ActiveIn(ledger[d]) /\ Commit(d, h) /\ control' = control \cup {p, r}
        /\ gate' = [gate EXCEPT ![d] = g] /\ duty' = [duty EXCEPT ![d] = NoDuty] /\ joined' = joined
    BY DEF ApplyRevocation
  <1>2. ledger[d] # NoHistory /\ ledger[d] \in Histories /\ Now(ledger[d])[d] = "active" /\ ListFits(d)
    BY <1>1, Shapes DEF ActiveIn
  <1>3. Peer(d) \in Members /\ d \in Members \ {Peer(d)} /\ "revoked" \in Standing
    BY TwoMembers DEF Standing
  <1>4. h \in Histories /\ h # NoHistory /\ Now(h)[Peer(d)] = "revoked" /\ Now(h)[d] = "active"
    BY <1>2, <1>3, GrownList
  <1>5. Continues(ledger[d], h)
    BY <1>2, <1>3, GrownContinues
  <1>6. /\ p \in [to : Members, kind : Frames, history : Histories, admitted : BOOLEAN]
        /\ p.kind = "snapshot" /\ p.history = h
        /\ r \in [to : Members, kind : Frames, history : Histories, admitted : BOOLEAN] /\ r.kind = "event" /\ r.history = h
    BY <1>3, <1>4 DEF Post, Frames
  <1>7. g \in Gates /\ g.alive = gate[d].alive
    BY <1>4, Shapes, GateShapes
  <1> HIDE DEF h, p, r, g
  <1>8. /\ \A q \in control : FrameFits(q)'
        /\ \A e \in Members \ {d} : duty'[e] = duty[e] /\ joined'[e] = joined[e] => DutyFits(e)'
    BY <1>1, <1>4, <1>5, CommitKeeps
  <1>9. ASSUME NEW q \in control' PROVE FrameFits(q)'
    <2>1. CASE q \in {p, r}
      BY <1>4, <1>6, <2>1 DEF FrameFits
    <2>. QED  BY <1>1, <1>8, <2>1
  <1>10. ASSUME NEW e \in Members PROVE DutyFits(e)'
    <2>1. CASE e = d
      <3>1. duty'[d] = NoDuty
        BY <1>1 DEF LedgerInv, LedgerShapes
      <3>. QED  BY <2>1, <3>1, NoDutyShape DEF DutyFits
    <2>2. CASE e # d
      BY <1>1, <1>8, <2>2 DEF LedgerInv, LedgerShapes
    <2>. QED  BY <2>1, <2>2
  <1>11. /\ duty' \in [Members -> [kind : Duties, history : Histories]] /\ gate' \in [Members -> Gates]
         /\ control' \subseteq [to : Members, kind : Frames, history : Histories, admitted : BOOLEAN]
         /\ \A e \in Members : gate'[e].alive => gate[e].alive
    BY <1>1, <1>6, <1>7, NoDutyShape DEF LedgerInv, LedgerShapes
  <1>12. Now(h)[First] \in {"active", "revoked"} /\ (Now(h)[Second] = "active" => d = Second)
    BY <1>3, <1>4, TwoMembers
  <1>. QED  BY <1>1, <1>2, <1>4, <1>5, <1>9, <1>10, <1>11, <1>12, ListGrows

\* The second device installs the list of the approval when it has none.
LEMMA InstallApprovalHolds ==
    ASSUME LedgerInv, NEW d \in Members, InstallApproval(d)
    PROVE  LedgerInv' /\ HistoryOnlyGrows
  <1>1. PICK p \in control : /\ p.to = d /\ p.kind = "approval" /\ ledger[d] = NoHistory /\ Commit(d, p.history)
                             /\ duty' = [duty EXCEPT ![d] = [kind |-> "confirm", history |-> p.history]]
                             /\ control' = control \ {p} /\ UNCHANGED <<joined, gate>>
    BY DEF InstallApproval
  <1>2. PICK h \in Histories : h = p.history
    BY DEF LedgerInv, LedgerShapes
  <1>3. d = Second /\ Stands(h, "pending") /\ Seen(ledger[First], "pending") /\ ~joined[d]
            /\ joined[d] \in BOOLEAN
    BY <1>1, <1>2, Shapes DEF FrameFits, LedgerInv, ListFits
  <1>4. Commit(d, h) /\ duty' = [duty EXCEPT ![d] = [kind |-> "confirm", history |-> h]]
    BY <1>1, <1>2
  <1>5. /\ ledger' \in [Members -> Histories] /\ ledger'[d] = h
               /\ \A e \in Members \ {d} : ledger'[e] = ledger[e]
        /\ \A e \in Members : /\ Seen(ledger[e], "pending") => Seen(ledger'[e], "pending")
                              /\ Seen(ledger[e], "active") => Seen(ledger'[e], "active")
        /\ \A q \in control : FrameFits(q)'
        /\ \A e \in Members \ {d} : duty'[e] = duty[e] /\ joined'[e] = joined[e] => DutyFits(e)'
    BY <1>1, <1>4, CommitKeeps
  <1>6. Mark(h) \in [epoch : Nat, history : Histories] /\ Mark(h).epoch = Len(h)
    BY ListShape DEF Mark, Epoch
  <1>7. mark' \in [Members -> [epoch : Nat, history : Histories]] /\ mark'[d] = Mark(h)
        /\ \A e \in Members \ {d} : mark'[e] = mark[e]
    BY <1>4, <1>6 DEF Commit, LedgerInv, LedgerShapes
  <1>8. /\ duty' \in [Members -> [kind : Duties, history : Histories]]
        /\ duty'[d].kind = "confirm" /\ duty'[d].history = h /\ \A e \in Members \ {d} : duty'[e] = duty[e]
    BY <1>4 DEF LedgerInv, LedgerShapes, Duties
  <1>9. ASSUME NEW e \in Members PROVE DutyFits(e)'
    <2>1. CASE e = d
      BY <1>1, <1>3, <1>8, <2>1 DEF DutyFits, Stands
    <2>. QED  BY <1>1, <1>5, <1>8, <2>1
  <1>10. ASSUME NEW e \in Members PROVE ListFits(e)'
    <2>1. CASE e = d
      BY <1>1, <1>3, <1>5, <2>1 DEF ListFits, Stands, LedgerInv
    <2>2. CASE e # d
      <3>1. ListFits(e)
        BY DEF LedgerInv
      <3>. QED  BY <1>1, <1>5, <2>2, <3>1, TwoMembers DEF ListFits
    <2>. QED  BY <2>1, <2>2
  <1>11. RevokedIsShut'
    <2> SUFFICES ASSUME NEW e \in Members, joined[e], Now(ledger'[e])[e] = "revoked" PROVE ~gate[e].alive
      BY <1>1 DEF RevokedIsShut
    <2>. QED  BY <1>3, <1>5 DEF RevokedIsShut, LedgerInv
  <1>12. MarkCoversLedger'
    <2> SUFFICES ASSUME NEW e \in Members PROVE mark'[e].epoch >= Len(ledger'[e])
      BY DEF MarkCoversLedger, Epoch
    <2>1. CASE e = d
      BY <1>5, <1>6, <1>7, <2>1, ListShape
    <2>2. CASE e # d
      BY <1>5, <1>7, <2>2 DEF LedgerInv, MarkCoversLedger, Epoch
    <2>. QED  BY <2>1, <2>2
  <1>13. LedgerShapes'
    BY <1>1, <1>5, <1>7, <1>8 DEF LedgerInv, LedgerShapes
  <1>14. HistoryOnlyGrows
    BY <1>1, <1>5 DEF HistoryOnlyGrows
  <1>15. joined'[First] /\ Seen(ledger'[First], "pending")
    BY <1>1, <1>3, <1>5, TwoMembers DEF LedgerInv
  <1>16. \A q \in control' : FrameFits(q)'
    BY <1>1, <1>5
  <1>. QED  BY <1>9, <1>10, <1>11, <1>12, <1>13, <1>14, <1>15, <1>16 DEF LedgerInv

\* ... confirms it in its own vault.
LEMMA ConfirmEnrollmentHolds ==
    ASSUME LedgerInv, NEW d \in Members, ConfirmEnrollment(d)
    PROVE  LedgerInv' /\ HistoryOnlyGrows
  <1> DEFINE h == Grown(ledger[d], d, "active")
  <1>1. /\ duty[d].kind = "confirm" /\ ledger[d] = duty[d].history /\ Commit(d, h)
        /\ duty' = [duty EXCEPT ![d].kind = "adopt"] /\ UNCHANGED <<joined, gate, control>>
    BY DEF ConfirmEnrollment
  <1>2. d = Second /\ Stands(ledger[d], "pending") /\ ~joined[d] /\ ledger[d] \in Histories
    BY <1>1, Shapes DEF DutyFits
  <1>3. h \in Histories /\ h # NoHistory /\ Now(h)[Second] = "active" /\ Now(h)[First] = Now(ledger[d])[First]
        /\ Continues(ledger[d], h)
    <2>1. First \in Members \ {Second} /\ "active" \in Standing /\ ledger[d] # NoHistory
              /\ Now(ledger[d])[d] # "revoked"
      BY <1>2, TwoMembers DEF Stands, Standing
    <2>2. h \in Histories /\ h # NoHistory /\ Now(h)[Second] = "active"
              /\ Now(h)[First] = Now(ledger[d])[First]
      BY <1>2, <2>1, GrownList
    <2>3. Continues(ledger[d], h)
      BY <1>2, <2>1, GrownContinues
    <2>. QED  BY <2>2, <2>3
  <1> HIDE DEF h
  <1>4. /\ ledger'[d] = h /\ \A q \in control : FrameFits(q)'
        /\ \A e \in Members \ {d} : duty'[e] = duty[e] /\ joined'[e] = joined[e] => DutyFits(e)'
    BY <1>1, <1>3, CommitKeeps
  <1>5. /\ duty' \in [Members -> [kind : Duties, history : Histories]]
        /\ duty'[d].kind = "adopt" /\ duty'[d].history = duty[d].history
               /\ \A e \in Members \ {d} : duty'[e] = duty[e]
    <2>1. duty[d] \in [kind : Duties, history : Histories]
      BY Shapes
    <2>. QED  BY <1>1, <2>1 DEF LedgerInv, LedgerShapes, Duties
  <1>6. Seen(h, "active")
    BY <1>3, ListShape DEF Seen, Now
  <1>7. ASSUME NEW e \in Members PROVE DutyFits(e)'
    <2>1. CASE e = d
      BY <1>1, <1>2, <1>3, <1>4, <1>5, <1>6, <2>1 DEF DutyFits, Stands
    <2>. QED  BY <1>1, <1>4, <1>5, <2>1
  <1>8. /\ gate' \in [Members -> Gates]
        /\ control' \subseteq [to : Members, kind : Frames, history : Histories, admitted : BOOLEAN]
    BY <1>1 DEF LedgerInv, LedgerShapes
  <1>9. ledger[d] # NoHistory /\ Now(h)[d] # "revoked"
    BY <1>2, <1>3 DEF Stands
  <1>. QED  BY <1>1, <1>2, <1>3, <1>4, <1>5, <1>7, <1>8, <1>9, ListGrows

\* ... and takes the account up.
LEMMA AdoptMembershipHolds ==
    ASSUME LedgerInv, NEW d \in Members, AdoptMembership(d)
    PROVE  LedgerInv' /\ HistoryOnlyGrows
  <1> DEFINE g == Shown(Fresh(ledger[d], FALSE), "enrollment", ledger[d])
  <1>1. /\ duty[d].kind = "adopt" /\ joined' = [joined EXCEPT ![d] = TRUE] /\ gate' = [gate EXCEPT ![d] = g]
        /\ duty' = [duty EXCEPT ![d].kind = "activate"] /\ UNCHANGED <<ledger, mark, control>>
    BY DEF AdoptMembership
  <1>2. d = Second /\ Stands(duty[d].history, "pending") /\ Now(ledger[d])[d] = "active"
            /\ Seen(ledger[Second], "active")
    BY <1>1, Shapes DEF DutyFits
  <1>3. ledger[d] # NoHistory
    BY <1>2, NoList, ListShape DEF Seen
  <1>4. g \in Gates
    <2>1. Fresh(ledger[d], FALSE) \in Gates
      BY Shapes, GateShapes
    <2>. QED  BY <2>1, Shapes, GateShapes
  <1> HIDE DEF g
  <1>5. joined' \in [Members -> BOOLEAN] /\ joined'[d] /\ \A e \in Members \ {d} : joined'[e] = joined[e]
    BY <1>1 DEF LedgerInv, LedgerShapes
  <1>6. gate' \in [Members -> Gates] /\ \A e \in Members \ {d} : gate'[e] = gate[e]
    BY <1>1, <1>4 DEF LedgerInv, LedgerShapes
  <1>7. /\ duty' \in [Members -> [kind : Duties, history : Histories]]
        /\ duty'[d].kind = "activate" /\ duty'[d].history = duty[d].history
               /\ \A e \in Members \ {d} : duty'[e] = duty[e]
    <2>1. duty[d] \in [kind : Duties, history : Histories]
      BY Shapes
    <2>. QED  BY <1>1, <2>1 DEF LedgerInv, LedgerShapes, Duties
  <1>8. ASSUME NEW e \in Members PROVE DutyFits(e)'
    <2>1. CASE e = d
      BY <1>1, <1>2, <1>7, <2>1 DEF DutyFits, Stands, Seen
    <2>2. CASE e # d
      BY <1>1, <1>5, <1>7, <2>2 DEF DutyFits, LedgerInv, Stands, Seen
    <2>. QED  BY <2>1, <2>2
  <1>9. ASSUME NEW e \in Members PROVE ListFits(e)'
    <2>1. ListFits(e)
      BY DEF LedgerInv
    <2>. QED  BY <1>1, <1>3, <1>5, <1>6, <2>1 DEF ListFits, Seen
  <1>10. RevokedIsShut'
    BY <1>1, <1>2, <1>5, <1>6 DEF RevokedIsShut, LedgerInv
  <1>11. MarkCoversLedger' /\ (\A p \in control' : FrameFits(p)') /\ HistoryOnlyGrows
    BY <1>1, MarkStays, FramesStay DEF HistoryOnlyGrows
  <1>12. LedgerShapes'
    BY <1>1, <1>5, <1>6, <1>7 DEF LedgerInv, LedgerShapes
  <1>13. joined'[First] /\ (ledger'[Second] # NoHistory => Seen(ledger'[First], "pending"))
    BY <1>1, <1>2, <1>5, TwoMembers DEF LedgerInv
  <1>. QED  BY <1>8, <1>9, <1>10, <1>11, <1>12, <1>13 DEF LedgerInv

-----------------------------------------------------------------------------
(* The frames of the other device. *)

\* The fields of a frame on its way.
LEMMA FrameShape ==
    ASSUME LedgerInv, NEW p \in control
    PROVE  p \in [to : Members, kind : Frames, history : Histories, admitted : BOOLEAN] /\ p.history \in Histories
               /\ p.to \in Members /\ FrameFits(p)
  BY DEF LedgerInv, LedgerShapes

\* The issuer counts the device as active when the confirmation is of its own
\* list.
LEMMA ReceiveConfirmationHolds ==
    ASSUME LedgerInv, NEW d \in Members, ReceiveConfirmation(d)
    PROVE  LedgerInv' /\ HistoryOnlyGrows
  <1> DEFINE t == Peer(d)
             h == Grown(ledger[d], t, "active")
             Confirms(p) == Readable(d) /\ p.history = ledger[d] /\ d \in ActiveIn(ledger[d])
             Shows == ~gate[d].suspended /\ ~Conflicts(gate[d], "enrollment", h)
             g == Restricted(IF Shows THEN Shown(gate[d], "enrollment", h) ELSE gate[d], h)
             r == Post(t, "snapshot", h)
  <1>1. PICK p \in control :
           /\ p.to = d /\ p.kind = "confirmation"
           /\ control' = (control \ {p}) \cup (IF Confirms(p) /\ Shows THEN {r} ELSE {})
           /\ IF Confirms(p) THEN Commit(d, h)
                  /\ gate' = [gate EXCEPT ![d] = g] ELSE UNCHANGED <<ledger, mark, gate>>
           /\ UNCHANGED <<joined, duty>>
    BY DEF ReceiveConfirmation, Hears
  <1>2. d = First /\ Stands(p.history, "pending") /\ Seen(ledger[Second], "active")
    BY <1>1, FrameShape DEF FrameFits
  <1>3. CASE ~Confirms(p)
    <2>1. control' \subseteq control /\ UNCHANGED <<ledger, mark, gate, joined, duty>>
      BY <1>1, <1>3
    <2>2. LedgerShapes'
      BY <2>1 DEF LedgerInv, LedgerShapes
    <2>. QED  BY <2>1, <2>2, ListsStay, DutiesStay, FramesStay, MarkStays
  <1>4. CASE Confirms(p)
    <2>1. ledger[d] \in Histories /\ Stands(ledger[d], "pending") /\ t = Second
              /\ Now(ledger[d])[d] = "active"
      BY <1>2, <1>4, Shapes, TwoMembers DEF ActiveIn
    <2>2. h \in Histories /\ h # NoHistory /\ Now(h)[Second] = "active"
              /\ Now(h)[First] = Now(ledger[d])[First]
          /\ Continues(ledger[d], h)
      <3>1. First \in Members \ {Second} /\ Second \in Members /\ "active" \in Standing
            /\ ledger[d] # NoHistory /\ Now(ledger[d])[Second] # "revoked"
        BY <2>1, TwoMembers DEF Stands, Standing
      <3>2. h \in Histories /\ h # NoHistory /\ Now(h)[Second] = "active"
                /\ Now(h)[First] = Now(ledger[d])[First]
        BY <2>1, <3>1, GrownList
      <3>3. Continues(ledger[d], h)
        BY <2>1, <3>1, GrownContinues
      <3>. QED  BY <3>2, <3>3
    <2>3. g \in Gates /\ g.alive = gate[d].alive
      <3> DEFINE b == IF Shows THEN Shown(gate[d], "enrollment", h) ELSE gate[d]
      <3> HIDE DEF h
      <3>1. Shown(gate[d], "enrollment", h) \in Gates /\ Shown(gate[d], "enrollment", h).alive = gate[d].alive
        BY <2>2, Shapes, GateShapes
      <3>2. b \in Gates /\ b.alive = gate[d].alive
        BY <3>1, Shapes
      <3> HIDE DEF b
      <3>3. Restricted(b, h) \in Gates /\ Restricted(b, h).alive = b.alive
        BY <2>2, <3>2, GateShapes
      <3>. QED  BY <3>2, <3>3 DEF b, h
    <2>4. /\ r \in [to : Members, kind : Frames, history : Histories, admitted : BOOLEAN]
          /\ r.kind = "snapshot" /\ r.history = h
      BY <2>1, <2>2, TwoMembers DEF Post, Frames
    <2>5. Commit(d, h) /\ gate' = [gate EXCEPT ![d] = g] /\ control' \subseteq control \cup {r}
              /\ UNCHANGED <<joined, duty>>
      BY <1>1, <1>4
    <2> HIDE DEF h, g, r, t
    <2>6. /\ ledger'[d] = h /\ \A q \in control : FrameFits(q)'
          /\ \A e \in Members \ {d} : duty'[e] = duty[e] /\ joined'[e] = joined[e] => DutyFits(e)'
      BY <2>2, <2>5, CommitKeeps
    <2>7. ASSUME NEW q \in control' PROVE FrameFits(q)'
      <3>1. CASE q = r
        BY <2>2, <2>4, <3>1 DEF FrameFits
      <3>. QED  BY <2>5, <2>6, <3>1
    <2>8. ASSUME NEW e \in Members PROVE DutyFits(e)'
      <3>1. CASE e = d
        <4>1. DutyFits(d)
          BY Shapes
        <4>. QED  BY <1>2, <2>5, <3>1, <4>1, TwoMembers DEF DutyFits
      <3>. QED  BY <2>5, <2>6, <3>1
    <2>9. /\ gate' \in [Members -> Gates] /\ \A e \in Members : gate'[e].alive => gate[e].alive
          /\ control' \subseteq [to : Members, kind : Frames, history : Histories, admitted : BOOLEAN]
          /\ duty' \in [Members -> [kind : Duties, history : Histories]]
      BY <2>3, <2>4, <2>5 DEF LedgerInv, LedgerShapes
    <2>10. ledger[d] # NoHistory /\ Now(h)[d] # "revoked"
      BY <1>2, <2>1, <2>2 DEF Stands
    <2>. QED  BY <1>2, <2>2, <2>5, <2>7, <2>8, <2>9, <2>10, ListGrows
  <1>. QED  BY <1>3, <1>4

\* suspend raises the mark and nothing else of the vault.
LEMMA SuspendHolds ==
    ASSUME LedgerInv, NEW d \in Members, NEW h \in Histories, SuspendTrust(d, h),
           UNCHANGED <<ledger, joined, duty>>, control' \subseteq control
    PROVE  LedgerInv' /\ HistoryOnlyGrows
  <1>1. [gate[d] EXCEPT !.suspended = TRUE] \in Gates
            /\ [gate[d] EXCEPT !.suspended = TRUE].alive = gate[d].alive
    BY Shapes, GateShapes
  <1>2. gate' = [gate EXCEPT ![d] = [gate[d] EXCEPT !.suspended = TRUE]]
    BY DEF SuspendTrust, LedgerInv, LedgerShapes
  <1>3. gate' \in [Members -> Gates] /\ \A e \in Members : gate'[e].alive => gate[e].alive
    BY <1>1, <1>2 DEF LedgerInv, LedgerShapes
  <1>4. Mark(h) \in [epoch : Nat, history : Histories] /\ Mark(h).epoch = Epoch(h) /\ Epoch(h) \in Nat
    BY ListShape DEF Mark, Epoch
  <1>5. mark' \in [Members -> [epoch : Nat, history : Histories]]
            /\ \A e \in Members : mark'[e].epoch >= mark[e].epoch
    BY <1>4, Shapes DEF SuspendTrust, LedgerInv, LedgerShapes
  <1>6. MarkCoversLedger'
    <2> SUFFICES ASSUME NEW e \in Members PROVE mark'[e].epoch >= Epoch(ledger[e])
      BY DEF MarkCoversLedger, Epoch
    <2>1. mark[e].epoch >= Epoch(ledger[e]) /\ mark[e].epoch \in Nat /\ Epoch(ledger[e]) \in Nat
              /\ mark'[e].epoch \in Nat
      BY <1>5, Shapes DEF LedgerInv, MarkCoversLedger
    <2>. QED  BY <1>5, <2>1
  <1>7. LedgerShapes'
    BY <1>3, <1>5 DEF LedgerInv, LedgerShapes
  <1>. QED  BY <1>3, <1>6, <1>7, ListsStay, DutiesStay, FramesStay

\* installTrustUpdate takes the next list if it only revokes, and closes the
\* engine of a device it revokes; any other list suspends the trust.
LEMMA ReceiveSnapshotHolds ==
    ASSUME LedgerInv, NEW d \in Members, ReceiveSnapshot(d)
    PROVE  LedgerInv' /\ HistoryOnlyGrows
  <1> DEFINE Next(h) == Epoch(h) = Epoch(ledger[d]) + 1
             Base(h) == IF Next(h) THEN [gate[d] EXCEPT !.evidence = NoEvidence] ELSE gate[d]
             Taken(h) == IF Next(h) THEN Installs(d, h) ELSE h = ledger[d]
             g(h) == [Shown(Restricted(Base(h), h), "snapshot", h) EXCEPT !.seen = Epoch(h), !.alive = d \in ActiveIn(h)]
             Outside == ~Snapshots(d) \/ Peer(d) \notin ActiveIn(ledger[d])
  <1>1. PICK p \in control :
           /\ Hears(d, p, "snapshot") /\ control' = control \ {p} /\ UNCHANGED <<joined, duty>>
           /\ IF Outside THEN UNCHANGED <<ledger, mark, gate>>
              ELSE IF ~Taken(p.history) THEN SuspendTrust(d, p.history) /\ UNCHANGED ledger
              ELSE IF Conflicts(Base(p.history), "snapshot", p.history)
              THEN /\ gate' = [gate EXCEPT ![d] = [Restricted(gate[d], p.history) EXCEPT !.suspended = TRUE]]
                   /\ UNCHANGED <<ledger, mark>>
              ELSE Commit(d, p.history) /\ gate' = [gate EXCEPT ![d] = g(p.history)]
    BY DEF ReceiveSnapshot
  <1>2. PICK h \in Histories : h = p.history
    BY FrameShape
  <1>3. gate[d].alive /\ joined[d] /\ control' \subseteq control /\ UNCHANGED <<joined, duty>>
    BY <1>1 DEF Hears
  <1>4. CASE Outside
    <2>1. UNCHANGED <<ledger, mark, gate>>
      BY <1>1, <1>4
    <2>2. LedgerShapes'
      BY <1>3, <2>1 DEF LedgerInv, LedgerShapes
    <2>. QED  BY <1>3, <2>1, <2>2, ListsStay, DutiesStay, FramesStay, MarkStays
  <1>5. CASE ~Outside /\ ~Taken(h)
    <2>1. SuspendTrust(d, h) /\ UNCHANGED ledger
      BY <1>1, <1>2, <1>5
    <2>. QED  BY <1>3, <2>1, SuspendHolds
  <1>6. CASE ~Outside /\ Taken(h) /\ Conflicts(Base(h), "snapshot", h)
    <2>1. gate' = [gate EXCEPT ![d] = [Restricted(gate[d], h) EXCEPT !.suspended = TRUE]]
              /\ UNCHANGED <<ledger, mark>>
      BY <1>1, <1>2, <1>6
    <2>2. Restricted(gate[d], h) \in Gates /\ Restricted(gate[d], h).alive = gate[d].alive
      BY Shapes, GateShapes
    <2>3. [Restricted(gate[d], h) EXCEPT !.suspended = TRUE] \in Gates
          /\ [Restricted(gate[d], h) EXCEPT !.suspended = TRUE].alive = gate[d].alive
      BY <2>2, GateShapes
    <2>4. gate' \in [Members -> Gates] /\ \A e \in Members : gate'[e].alive => gate[e].alive
      BY <2>1, <2>3 DEF LedgerInv, LedgerShapes
    <2>5. LedgerShapes'
      BY <1>3, <2>1, <2>4 DEF LedgerInv, LedgerShapes
    <2>. QED  BY <1>3, <2>1, <2>4, <2>5, ListsStay, DutiesStay, FramesStay, MarkStays
  <1>7. CASE ~Outside /\ Taken(h) /\ ~Conflicts(Base(h), "snapshot", h)
    <2>1. Commit(d, h) /\ gate' = [gate EXCEPT ![d] = g(h)]
      BY <1>1, <1>2, <1>7
    <2>2. g(h) \in Gates /\ (g(h).alive <=> d \in ActiveIn(h))
      <3> DEFINE b == Base(h)
                 c == Shown(Restricted(b, h), "snapshot", h)
      <3>1. b \in Gates
        BY Shapes, GateShapes
      <3> HIDE DEF b
      <3>2. Restricted(b, h) \in Gates
        BY <3>1, GateShapes
      <3>3. c \in Gates
        BY <3>2, GateShapes
      <3> HIDE DEF c
      <3>4. Epoch(h) \in Nat /\ (d \in ActiveIn(h)) \in BOOLEAN
        BY ListShape DEF Epoch
      <3>5. ASSUME NEW v \in BOOLEAN
            PROVE  [c EXCEPT !.seen = Epoch(h), !.alive = v] \in Gates
                       /\ [c EXCEPT !.seen = Epoch(h), !.alive = v].alive = v
        BY <3>3, <3>4 DEF Gates
      <3>6. g(h) = [c EXCEPT !.seen = Epoch(h), !.alive = d \in ActiveIn(h)]
        BY DEF b, c
      <3>. QED  BY <3>4, <3>5, <3>6, Zenon
    <2> HIDE DEF g
    <2>3. gate' \in [Members -> Gates] /\ gate'[d] = g(h) /\ \A e \in Members \ {d} : gate'[e] = gate[e]
      BY <2>1, <2>2 DEF LedgerInv, LedgerShapes
    <2>4. ledger[d] # NoHistory /\ ledger[d] \in Histories /\ ListFits(d)
          /\ (gate'[d].alive => Now(h)[d] = "active") /\ \A e \in Members : gate'[e].alive => gate[e].alive
      BY <1>3, <2>2, <2>3, Shapes DEF ListFits, ActiveIn
    <2>5. CASE Next(h)
      <3>1. Installs(d, h)
        BY <1>7, <2>5
      <3>2. /\ Len(h) = Len(ledger[d]) + 1 /\ SubSeq(h, 1, Len(ledger[d])) = ledger[d]
            /\ \A m \in Members : Now(h)[m] = Now(ledger[d])[m] \/ (Now(ledger[d])[m] = "active"
                   /\ Now(h)[m] = "revoked")
        BY <3>1 DEF Installs, Epoch
      <3>3. Continues(ledger[d], h)
        BY <3>2 DEF Continues
      <3>4. /\ Now(h)[First] = Now(ledger[d])[First] \/ Now(h)[First] \in {"active", "revoked"}
            /\ Now(h)[Second] = "active" => Seen(ledger[Second], "active")
        BY <2>4, <3>2, TwoMembers DEF ListFits
      <3>5. /\ \A q \in control : FrameFits(q)'
            /\ \A e \in Members \ {d} : duty'[e] = duty[e] /\ joined'[e] = joined[e] => DutyFits(e)'
            /\ \A e \in Members : Seen(ledger[e], "active") => Seen(ledger'[e], "active")
        BY <2>1, <3>3, CommitKeeps
      <3>6. ASSUME NEW e \in Members PROVE DutyFits(e)'
        <4>1. CASE e = d
          <5>1. DutyFits(d)
            BY Shapes
          <5>. QED  BY <1>3, <3>5, <4>1, <5>1, TwoMembers DEF DutyFits
        <4>. QED  BY <1>3, <3>5, <4>1
      <3>7. /\ duty' \in [Members -> [kind : Duties, history : Histories]]
            /\ control' \subseteq [to : Members, kind : Frames, history : Histories, admitted : BOOLEAN]
        BY <1>3 DEF LedgerInv, LedgerShapes
      <3>8. \A q \in control' : FrameFits(q)'
        BY <1>3, <3>5
      <3>. QED  BY <1>3, <2>1, <2>3, <2>4, <3>3, <3>4, <3>6, <3>7, <3>8, ListGrows
    <2>6. CASE ~Next(h)
      <3>1. h = ledger[d]
        BY <1>7, <2>6
      <3>2. ledger' = ledger /\ mark' = [mark EXCEPT ![d] = Mark(ledger[d])]
        BY <2>1, <3>1 DEF Commit, LedgerInv, LedgerShapes
      <3>3. Mark(ledger[d]) \in [epoch : Nat, history : Histories] /\ Mark(ledger[d]).epoch = Epoch(ledger[d])
        BY Shapes DEF Mark
      <3>4. mark' \in [Members -> [epoch : Nat, history : Histories]] /\ mark'[d].epoch = Epoch(ledger[d])
            /\ \A e \in Members \ {d} : mark'[e] = mark[e]
        BY <3>2, <3>3 DEF LedgerInv, LedgerShapes
      <3>5. MarkCoversLedger'
        <4> SUFFICES ASSUME NEW e \in Members PROVE mark'[e].epoch >= Epoch(ledger[e])
          BY <3>2 DEF MarkCoversLedger, Epoch
        <4>1. CASE e = d
          BY <3>4, <4>1, Shapes
        <4>2. CASE e # d
          BY <3>4, <4>2 DEF LedgerInv, MarkCoversLedger
        <4>. QED  BY <4>1, <4>2
      <3>6. LedgerShapes'
        BY <1>3, <2>3, <3>2, <3>4 DEF LedgerInv, LedgerShapes
      <3>. QED  BY <1>3, <2>4, <3>2, <3>5, <3>6, ListsStay, DutiesStay, FramesStay
    <2>. QED  BY <2>5, <2>6
  <1>. QED  BY <1>4, <1>5, <1>6, <1>7

\* An event of another list suspends the trust.
LEMMA ReceiveEventHolds ==
    ASSUME LedgerInv, NEW d \in Members, ReceiveEvent(d)
    PROVE  LedgerInv' /\ HistoryOnlyGrows
  <1>1. PICK p \in control : /\ control' = control \ {p} /\ UNCHANGED <<ledger, joined, duty>>
                             /\ SuspendTrust(d, p.history) \/ UNCHANGED <<mark, gate>>
    BY DEF ReceiveEvent
  <1>2. CASE SuspendTrust(d, p.history)
    <2>1. p.history \in Histories
      BY FrameShape
    <2>. QED  BY <1>1, <1>2, <2>1, SuspendHolds
  <1>3. CASE UNCHANGED <<mark, gate>>
    <2>1. LedgerShapes'
      BY <1>1, <1>3 DEF LedgerInv, LedgerShapes
    <2>. QED  BY <1>1, <1>3, <2>1, ListsStay, DutiesStay, FramesStay, MarkStays
  <1>. QED  BY <1>1, <1>2, <1>3

\* A list is sent on request, and asked for by an engine that opens.
LEMMA AnswerHolds ==
    ASSUME LedgerInv, NEW d \in Members, ReceiveRequest(d) \/ OpenDevice(d)
    PROVE  LedgerInv' /\ HistoryOnlyGrows
  <1>1. UNCHANGED <<ledger, mark, joined, duty>>
    BY DEF ReceiveRequest, OpenDevice
  <1>2. gate' \in [Members -> Gates]
        /\ \A e \in Members : gate'[e].alive => gate[e].alive \/ (joined[e] /\ Now(ledger[e])[e] # "revoked")
    <2>1. CASE OpenDevice(d)
      <3>1. Fresh(ledger[d], TRUE) \in Gates
        BY Shapes, GateShapes
      <3>2. gate' = [gate EXCEPT ![d] = Fresh(ledger[d], TRUE)] /\ joined[d] /\ Now(ledger[d])[d] = "active"
        BY <2>1 DEF OpenDevice, ActiveIn
      <3>. QED  BY <3>1, <3>2 DEF LedgerInv, LedgerShapes
    <2>2. CASE ReceiveRequest(d)
      BY <2>2 DEF ReceiveRequest, LedgerInv, LedgerShapes
    <2>. QED  BY <2>1, <2>2
  <1>3. PICK r : /\ control' \subseteq control \cup {r}
                 /\ r \in control' => \/ r = Post(Peer(d), "request", NoHistory)
                                      \/ r = Post(Peer(d), "snapshot", ledger[d]) /\ Readable(d)
    <2>1. CASE OpenDevice(d)
      BY <2>1 DEF OpenDevice
    <2>2. CASE ReceiveRequest(d)
      <3>1. CASE Snapshots(d)
        BY <2>2, <3>1 DEF ReceiveRequest, Snapshots
      <3>2. CASE ~Snapshots(d)
        BY <2>2, <3>2 DEF ReceiveRequest
      <3>. QED  BY <3>1, <3>2
    <2>. QED  BY <2>1, <2>2
  <1>4. r \in control' \ control => /\ r \in [to : Members, kind : Frames, history : Histories, admitted : BOOLEAN]
                                    /\ r.kind = "request" \/ (r.kind = "snapshot" /\ r.history # NoHistory)
    <2>1. CASE r = Post(Peer(d), "request", NoHistory)
      BY <2>1, NoList, TwoMembers DEF Post, Frames
    <2>2. CASE r = Post(Peer(d), "snapshot", ledger[d]) /\ Readable(d)
      BY <2>2, Shapes, TwoMembers DEF Post, Frames
    <2>. QED  BY <1>3, <2>1, <2>2
  <1>5. control' \subseteq [to : Members, kind : Frames, history : Histories, admitted : BOOLEAN]
    BY <1>3, <1>4 DEF LedgerInv, LedgerShapes
  <1>6. ASSUME NEW q \in control' PROVE FrameFits(q)'
    <2>1. CASE q \in control
      BY <1>1, <2>1 DEF FrameFits, LedgerInv, Stands, Seen
    <2>2. CASE q \notin control
      BY <1>3, <1>4, <2>2 DEF FrameFits
    <2>. QED  BY <2>1, <2>2
  <1>7. LedgerShapes'
    BY <1>1, <1>2, <1>5 DEF LedgerInv, LedgerShapes
  <1>. QED  BY <1>1, <1>2, <1>6, <1>7, ListsStay, DutiesStay, MarkStays

\* A frame is lost.
LEMMA LoseControlHolds ==
    ASSUME LedgerInv, LoseControl
    PROVE  LedgerInv' /\ HistoryOnlyGrows
  <1>1. control' \subseteq control /\ UNCHANGED <<ledger, mark, joined, gate, duty>>
    BY DEF LoseControl
  <1>2. LedgerShapes'
    BY <1>1 DEF LedgerInv, LedgerShapes
  <1>. QED  BY <1>1, <1>2, ListsStay, DutiesStay, FramesStay, MarkStays

-----------------------------------------------------------------------------
(* The specification. *)

\* The first device, with a list of its own.
LEMMA LedgerInitHolds ==
    ASSUME LedgerInit
    PROVE  LedgerInv
  <1> DEFINE f == [m \in Members |-> IF m = First THEN "active" ELSE "absent"]
  <1>1. f \in [Members -> Standing] /\ f[First] = "active" /\ f[Second] = "absent"
    BY TwoMembers DEF Standing
  <1> HIDE DEF f
  <1>2. Founded = <<f>>
    BY DEF Founded, f
  <1>3. Founded \in Histories /\ Len(Founded) = 1 /\ Founded[1] = f /\ Founded # NoHistory
    BY <1>1, <1>2 DEF Histories, NoHistory
  <1>4. Now(Founded) = f
    BY <1>3 DEF Now
  <1>5. ledger \in [Members -> Histories] /\ ledger[First] = Founded /\ ledger[Second] = NoHistory
    BY <1>3, NoList, TwoMembers DEF LedgerInit
  <1>6. \A d \in Members : Mark(ledger[d]) \in [epoch : Nat, history : Histories]
            /\ Mark(ledger[d]).epoch = Epoch(ledger[d])
                           /\ Epoch(ledger[d]) \in Nat
    BY <1>5, ListShape DEF Mark, Epoch
  <1>7. mark \in [Members -> [epoch : Nat, history : Histories]] /\ MarkCoversLedger
    BY <1>6 DEF LedgerInit, MarkCoversLedger
  <1>8. joined \in [Members -> BOOLEAN] /\ joined[First] /\ ~joined[Second]
    BY TwoMembers DEF LedgerInit
  <1>9. duty \in [Members -> [kind : Duties, history : Histories]]
            /\ (\A d \in Members : duty[d].kind = "none") /\ control = {}
    BY NoDutyShape DEF LedgerInit
  <1>10. gate \in [Members -> Gates] /\ ~gate[Second].alive
    <2> DEFINE g == [Fresh(Founded, FALSE) EXCEPT !.members = {}, !.alive = FALSE]
    <2>1. Fresh(Founded, TRUE) \in Gates /\ Fresh(Founded, FALSE) \in Gates
      BY <1>3, FreshShape
    <2>2. g \in Gates /\ g.alive = FALSE
      BY <2>1 DEF Gates
    <2>3. gate = [d \in Members |-> IF d = First THEN Fresh(Founded, TRUE) ELSE g]
      BY DEF LedgerInit
    <2> HIDE DEF g
    <2>. QED  BY <2>1, <2>2, <2>3, TwoMembers
  <1>11. ASSUME NEW d \in Members PROVE ListFits(d) /\ DutyFits(d)
    BY <1>1, <1>3, <1>4, <1>5, <1>8, <1>9, <1>10, TwoMembers DEF ListFits, DutyFits
  <1>12. RevokedIsShut
    BY <1>1, <1>4, <1>5, <1>8, TwoMembers DEF RevokedIsShut
  <1>13. LedgerShapes
    BY <1>5, <1>7, <1>8, <1>9, <1>10 DEF LedgerShapes
  <1>. QED  BY <1>5, <1>7, <1>8, <1>9, <1>11, <1>12, <1>13 DEF LedgerInv

\* Every step keeps the invariant, and a list gives way only to a continuation.
LEMMA LedgerStepHolds ==
    ASSUME LedgerInv, [LedgerNext]_ledgerVars
    PROVE  LedgerInv' /\ [HistoryOnlyGrows]_ledgerVars
  <1>1. CASE UNCHANGED ledgerVars
    <2>1. UNCHANGED <<ledger, mark, joined, gate, duty, control>>
      BY <1>1 DEF ledgerVars
    <2>2. LedgerShapes'
      BY <2>1 DEF LedgerInv, LedgerShapes
    <2>3. LedgerInv'
      BY <2>1, <2>2, ListsStay, DutiesStay, FramesStay, MarkStays
    <2>. QED  BY <1>1, <2>3
  <1>2. ASSUME NEW d \in Members,
               \/ Protected(d) \/ ApproveEnrollment(d) \/ ApplyEnrollmentLocally(d)
               \/ InstallApproval(d) \/ ConfirmEnrollment(d) \/ AdoptMembership(d) \/ SendConfirmation(d)
               \/ AdmitControl(d) \/ ReceiveConfirmation(d) \/ ApproveRevocation(d) \/ ApplyRevocation(d) \/ GiveUp(d)
               \/ ReceiveSnapshot(d) \/ ReceiveEvent(d) \/ ReceiveRequest(d)
               \/ CloseDevice(d) \/ OpenDevice(d)
        PROVE  LedgerInv' /\ HistoryOnlyGrows
    BY <1>2, ProtectedHolds, AdmitHolds, ApproveHolds, ApplyEnrollmentHolds, InstallApprovalHolds, ConfirmEnrollmentHolds,
       AdoptMembershipHolds, GiveUpHolds, ReceiveConfirmationHolds, ApplyRevocationHolds,
       ReceiveSnapshotHolds,
       ReceiveEventHolds, AnswerHolds
  <1>3. CASE LoseControl
    BY <1>3, LoseControlHolds
  <1>. QED  BY <1>1, <1>2, <1>3 DEF LedgerNext

\* An active second device has confirmed, and only a list that is not empty has
\* confirmed.
LEMMA LedgerInvCorrect ==
    ASSUME LedgerInv
    PROVE  LedgerTypeOK /\ MarkCoversLedger /\ ActiveWasConfirmed /\ RevokedIsShut
  <1>1. LedgerTypeOK
    <2>1. ASSUME NEW d \in Members
          PROVE  /\ \A i \in 1 .. Len(ledger[d]) : ledger[d][i] \in [Members -> Standing]
                 /\ gate[d].members \subseteq Members /\ gate[d].seen \in Nat
      BY Shapes, ListShape DEF Gates
    <2>. QED  BY <2>1 DEF LedgerTypeOK, Standing, LedgerInv, LedgerShapes
  <1>2. ActiveWasConfirmed
    <2> SUFFICES ASSUME NEW d \in Members, ledger[d] # NoHistory, Now(ledger[d])[Second] = "active"
                 PROVE  Seen(ledger[Second], "active") /\ Seen(ledger[First], "pending")
      BY DEF ActiveWasConfirmed, ActiveIn, Seen
    <2>1. Seen(ledger[Second], "active")
      BY DEF LedgerInv, ListFits
    <2>2. ledger[Second] # NoHistory
      BY <2>1, NoList, ListShape DEF Seen
    <2>. QED  BY <2>1, <2>2 DEF LedgerInv
  <1>. QED  BY <1>1, <1>2 DEF LedgerInv

\* For any number of epochs, lost frames and closed engines: a stored device
\* list is replaced only by a continuation of it in which revocations stay, its
\* mark never falls behind, the second device is active nowhere before both
\* vaults hold its approval and its own the confirmation, and no engine runs on
\* a list that revoked it.
THEOREM LedgerIsCorrect == LedgerSpec => LedgerCorrect
  <1>1. LedgerInit => LedgerInv
    BY LedgerInitHolds
  <1>2. LedgerInv /\ [LedgerNext]_ledgerVars => LedgerInv' /\ [HistoryOnlyGrows]_ledgerVars
    BY LedgerStepHolds
  <1>3. LedgerInv => LedgerTypeOK /\ MarkCoversLedger /\ ActiveWasConfirmed /\ RevokedIsShut
    BY LedgerInvCorrect
  <1>. QED  BY <1>1, <1>2, <1>3, PTL DEF LedgerSpec, LedgerCorrect

Answers == {"none", "ok", "quota", "conflict", "incomplete", "storage", "expired", "canceled", "authorization", "network"}
Phases == Terminal \cup {"Preparing", "Uploading", "Downloading"}
ObjectMap == [Objects -> Nat]
Settled == {"available", "canceled", "expired"}
Entry == [state : {"unused", "incomplete"} \cup Settled, reserved : BOOLEAN, has : ObjectMap]
FileRequest == [op : {"none", "create", "put", "complete", "cancel", "status", "chunk"},
                id : Transfers \cup {NoFile}, index : Objects, object : Nat,
                stage : {"none", "new", "read", "fetched", "done"}, seen : [Transfers -> Entry], at : Nat,
                answer : Answers, view : Entry]
Workflow == [at : {"idle", "create", "status", "seal", "put", "complete", "publish", "published", "chunk"},
             run : Nat, gen : Nat, phase : Phases, retryable : BOOLEAN, id : Transfers \cup {NoFile},
             produced : SUBSET Objects, cache : ObjectMap, next : 0 .. ChunkCount + 1]

\* The record of a transfer and its ciphertexts fit each other.
EntryFits(t) ==
    /\ file[t].reserved <=> file[t].state \in {"incomplete", "available"}
    /\ ~file[t].reserved => file[t].has = NoObjects /\ bytes[t] = NoObjects
    /\ file[t].state = "available" => Whole(file[t])
    /\ bytes[t][0] = 0
    /\ \A i \in Chunks : bytes[t][i] # 0 <=> file[t].has[i] # 0

LedgerFits ==
    /\ file \in [Transfers -> Entry] /\ bytes \in [Transfers -> ObjectMap] /\ revision \in Nat
    /\ \A t \in Transfers : EntryFits(t)
    /\ ReservedIn(file) <= Quota

\* A request names its transfer, and what it has read is the ledger unless the revision has moved.
RequestFits(q) ==
    /\ q \in FileRequest
    /\ q.stage # "none" => q.op # "none"
    /\ Underway(q) /\ q.op = "create" => Transfers # {}
    /\ Underway(q) /\ q.op # "create" => q.id \in Transfers
    /\ Underway(q) /\ q.op = "put" => q.object # 0
    /\ q.stage = "read" => q.op # "status" /\ q.at <= revision /\ (q.at = revision => q.seen = file)
    /\ q.stage = "fetched" => q.op = "chunk" /\ q.object # 0

Succeeded(q, op) == q.op = op /\ q.stage = "done" /\ q.answer = "ok"

\* What an answer says of its transfer.
AnswerFits(q) ==
    /\ Succeeded(q, "create") => q.id \in Transfers /\ file[q.id].state # "unused" /\ seals[q.id] = NoObjects
    /\ Succeeded(q, "complete") => q.id \in Transfers /\ file[q.id].state \in Settled
    /\ Succeeded(q, "chunk") => q.object # 0

FlowFits(w, f, q) ==
    /\ q.op \in {"none", f.at}
    /\ f.run <= f.gen
    /\ f.at \in {"status", "seal", "put", "complete", "chunk"} /\ f.run = f.gen => f.id # NoFile
    /\ f.at = "seal" => f.next \in Objects
    /\ f.at = "publish" => q.id \in Transfers /\ file[q.id].state \in Settled
    /\ f.id # NoFile => file[f.id].state # "unused"
    /\ w \in Senders /\ f.id # NoFile => \A i \in Objects \ f.produced : seals[f.id][i] = 0

\* What the receiver has written, and so far.
ReceiverFits(f) ==
    /\ f.at \in {"idle", "status", "chunk"}
    /\ f.at = "status" => f.next = 1
    /\ f.at = "chunk" => f.next \in Chunks
    /\ f.at = "chunk" /\ f.run = f.gen => \A i \in Chunks : i < f.next => f.cache[i] # 0
    /\ f.phase = "Complete" /\ f.id # NoFile => \A i \in Chunks : f.cache[i] # 0

\* The transfers a sender may seal objects of.
Own(f, q) == {t \in Transfers : t = f.id \/ (Succeeded(q, "create") /\ t = q.id)}
Apart == \A v, w \in Senders : v # w => Own(flow[v], query[v]) \cap Own(flow[w], query[w]) = {}

FileInv ==
    /\ LedgerFits
    /\ query \in [Flows -> FileRequest] /\ flow \in [Flows -> Workflow]
    /\ seals \in [Transfers -> ObjectMap] /\ references \subseteq Transfers
    /\ overdue \subseteq Transfers
    /\ \A w \in Flows : RequestFits(query[w]) /\ AnswerFits(query[w]) /\ FlowFits(w, flow[w], query[w])
    /\ \A q \in orphans : RequestFits(q) /\ Underway(q)
    /\ ReceiverFits(flow[Receiver]) /\ Apart
    /\ \A t \in Transfers : file[t].state = "unused" => seals[t] = NoObjects
    /\ \A t \in Transfers : \A i \in Objects : seals[t][i] <= 1
    /\ \A t \in references : file[t].state \in Settled

\* What a step of the relay's ledger never takes back.
Forward(t) ==
    /\ file[t].state # "unused" => file'[t].state # "unused"
    /\ file[t].state \in Settled => file'[t].state \in Settled
    /\ Dead(file[t]) => Dead(file'[t]) /\ bytes'[t] = NoObjects

LedgerMoves ==
    /\ LedgerFits' /\ \A t \in Transfers : Forward(t)
    /\ revision' > revision \/ Unwritten

\* The least of some numbers is one of them.
LEMMA MinIsIn ==
    ASSUME NEW S, S \subseteq Nat, S # {}
    PROVE  Min(S) \in S
  <1>1. PICK x \in S : \A y \in S : ~(<<y, x>> \in OpToRel(<, Nat))
    BY NatLessThanWellFounded, WFMin
  <1>2. \A y \in S : ~(y < x)
    BY <1>1, Zenon DEF OpToRel
  <1>3. \A y \in S : x <= y
    BY <1>2
  <1>. QED  BY <1>3 DEF Min

\* The records of a transfer, a request and a run, as they start.
LEMMA FileShapes ==
    /\ NoObjects \in ObjectMap /\ \A i \in Objects : NoObjects[i] = 0
    /\ 0 \in Objects /\ Chunks \subseteq Objects
    /\ Unused \in Entry
    /\ FileClosed("expired") \in Entry /\ FileClosed("canceled") \in Entry
    /\ NoQuery \in FileRequest
    /\ NewFlow \in Workflow
  <1>1. NoObjects \in ObjectMap /\ 0 \in Objects /\ Chunks \subseteq Objects
            /\ \A i \in Objects : NoObjects[i] = 0
    BY FileAssumption DEF NoObjects, ObjectMap, Objects, Chunks
  <1>2. Unused \in Entry /\ FileClosed("expired") \in Entry /\ FileClosed("canceled") \in Entry
    BY <1>1 DEF Unused, FileClosed, Entry, Settled
  <1>3. NoQuery \in FileRequest
    <2>1. [t \in Transfers |-> Unused] \in [Transfers -> Entry] /\ NoFile \in Transfers \cup {NoFile}  BY <1>2
    <2>. QED  BY <1>1, <1>2, <2>1 DEF NoQuery, FileRequest, Answers
  <1>4. NewFlow \in Workflow
    <2>1. 1 \in 0 .. ChunkCount + 1 /\ {} \in SUBSET Objects
              /\ NoFile \in Transfers \cup {NoFile}  BY FileAssumption
    <2>. QED  BY <1>1, <2>1 DEF NewFlow, Workflow, Phases, Terminal
  <1>. QED  BY <1>1, <1>2, <1>3, <1>4

\* A set with one element more.
LEMMA OneMore ==
    ASSUME NEW S, NEW T, NEW u, IsFiniteSet(S), T \subseteq S \cup {u}
    PROVE  Cardinality(T) <= Cardinality(S) + 1
  <1>1. IsFiniteSet(S \cup {u}) /\ Cardinality(S \cup {u}) = IF u \in S THEN Cardinality(S) ELSE Cardinality(S) + 1
    BY FS_AddElement
  <1>2. Cardinality(T) <= Cardinality(S \cup {u}) /\ Cardinality(T) \in Nat /\ Cardinality(S) \in Nat
    BY <1>1, FS_Subset, FS_CardinalityType
  <1>. QED  BY <1>1, <1>2

\* The quota counts the reserved transfers, so one more in the ledger is one
\* more of the quota.
LEMMA ReservedCounts ==
    /\ \A l : ReservedIn(l) \in Nat
    /\ \A k, l : (\A t \in Transfers : l[t].reserved => k[t].reserved) => ReservedIn(l) <= ReservedIn(k)
    /\ \A k, l : \A u \in Transfers : (\A t \in Transfers \ {u} : l[t].reserved => k[t].reserved)
          => ReservedIn(l) <= ReservedIn(k) + 1
  <1>. DEFINE Of(l) == {t \in Transfers : l[t].reserved}
  <1>1. IsFiniteSet(Transfers)
    BY FS_Interval, FileAssumption DEF Transfers
  <1>2. \A l : IsFiniteSet(Of(l)) /\ Cardinality(Of(l)) \in Nat /\ ReservedIn(l) = Cardinality(Of(l))
    BY <1>1, FS_Subset, FS_CardinalityType DEF ReservedIn
  <1>3. ASSUME NEW k, NEW l, \A t \in Transfers : l[t].reserved => k[t].reserved
        PROVE ReservedIn(l) <= ReservedIn(k)
    <2>1. Of(l) \subseteq Of(k)  BY <1>3
    <2>. HIDE DEF Of
    <2>. QED  BY <2>1, <1>2, FS_Subset
  <1>4. ASSUME NEW k, NEW l, NEW u \in Transfers, \A t \in Transfers \ {u} : l[t].reserved => k[t].reserved
        PROVE ReservedIn(l) <= ReservedIn(k) + 1
    <2>1. Of(l) \subseteq Of(k) \cup {u}  BY <1>4
    <2>. HIDE DEF Of
    <2>2. PICK K : K = Of(k)  OBVIOUS
    <2>3. PICK L : L = Of(l)  OBVIOUS
    <2>4. IsFiniteSet(K) /\ L \subseteq K \cup {u}  BY <2>1, <2>2, <2>3, <1>2
    <2>. QED  BY <2>2, <2>3, <2>4, <1>2, OneMore
  <1>. QED  BY <1>2, <1>3, <1>4

\* How replace may change the record of a transfer.
ReplacedBy(after, t, q) ==
    \/ after[t] = file[t] /\ ~(q.op = "put" /\ t = q.id)
    \/ /\ Dead(after[t]) /\ ~after[t].reserved /\ after[t].has = NoObjects /\ ~(q.op = "put" /\ t = q.id)
    \/ /\ file[t].state = "unused" /\ after[t].state = "incomplete" /\ after[t].reserved
       /\ after[t].has = NoObjects /\ ~(q.op = "put" /\ t = q.id)
    \/ /\ q.op = "put" /\ t = q.id /\ q.index \in Objects /\ q.object \in Nat \ {0}
       /\ file[t].reserved /\ after[t].state = file[t].state /\ after[t].reserved
       /\ after[t].has = [file[t].has EXCEPT ![q.index] = q.object]
    \/ /\ q.op # "put" /\ file[t].reserved /\ after[t].reserved /\ Whole(file[t])
       /\ after[t].state = "available" /\ after[t].has = file[t].has

\* replace writes one transfer's record; no other record changes, and the quota
\* holds if it did for the change.
LEMMA ReplaceHolds ==
    ASSUME LedgerFits, NEW after \in [Transfers -> Entry], NEW q, Replace(file, after, q),
           ReservedIn(after) <= Quota, \A t \in Transfers : ReplacedBy(after, t, q)
    PROVE  LedgerMoves /\ revision' > revision /\ file' = after
  <1>1. /\ file' = after /\ revision' = revision + 1 /\ revision \in Nat
        /\ bytes' = [t \in Transfers |->
             IF file[t].reserved /\ ~after[t].reserved THEN NoObjects
             ELSE IF q.op = "put" /\ t = q.id /\ q.index # 0 THEN [bytes[t] EXCEPT ![q.index] = q.object]
             ELSE bytes[t]]
    BY DEF Replace, LedgerFits
  <1>2. ASSUME NEW t \in Transfers PROVE EntryFits(t)' /\ Forward(t) /\ bytes'[t] \in ObjectMap
    <2>. DEFINE e == file[t]
                b == bytes[t]
                g == after[t]
    <2>1. e \in Entry /\ g \in Entry /\ b \in ObjectMap /\ EntryFits(t) /\ ReplacedBy(after, t, q)
      BY DEF LedgerFits
    <2>2. bytes'[t] = IF e.reserved /\ ~g.reserved THEN NoObjects
                      ELSE IF q.op = "put" /\ t = q.id
                          /\ q.index # 0 THEN [b EXCEPT ![q.index] = q.object] ELSE b
      BY <1>1
    <2>3. e.has \in ObjectMap /\ e.reserved \in BOOLEAN /\ e.state \in {"unused", "incomplete"} \cup Settled
      BY <2>1 DEF Entry
    <2>4. file'[t] = g
      BY <1>1
    <2>5. CASE g = e /\ ~(q.op = "put" /\ t = q.id)
      <3>1. bytes'[t] = b  BY <2>2, <2>5
      <3>. QED  BY <3>1, <2>1, <2>4, <2>5 DEF EntryFits, Forward, Dead, Whole, Settled
    <2>6. CASE Dead(g) /\ ~g.reserved /\ g.has = NoObjects /\ ~(q.op = "put" /\ t = q.id)
      <3>1. bytes'[t] = NoObjects  BY <2>1, <2>2, <2>6 DEF EntryFits
      <3>. QED  BY <3>1, <2>1, <2>4, <2>6, FileShapes DEF EntryFits, Forward, Dead, Settled
    <2>7. CASE /\ e.state = "unused" /\ g.state = "incomplete" /\ g.reserved
               /\ g.has = NoObjects /\ ~(q.op = "put" /\ t = q.id)
      <3>1. bytes'[t] = NoObjects  BY <2>1, <2>2, <2>7 DEF EntryFits
      <3>. QED  BY <3>1, <2>1, <2>4, <2>7, FileShapes DEF EntryFits, Forward, Dead, Settled
    <2>8. CASE /\ q.op = "put" /\ t = q.id /\ q.index \in Objects /\ q.object \in Nat \ {0}
               /\ e.reserved /\ g.state = e.state /\ g.reserved
               /\ g.has = [e.has EXCEPT ![q.index] = q.object]
      <3>. HIDE DEF e, b, g
      <3>1. PICK k \in Objects : k = q.index  BY <2>8
      <3>2. PICK n \in Nat \ {0} : n = q.object  BY <2>8
      <3>3. \A i \in Objects : g.has[i] = IF i = k THEN n ELSE e.has[i]
        BY <2>8, <2>3, <3>1, <3>2 DEF ObjectMap
      <3>4. bytes'[t] = IF k # 0 THEN [b EXCEPT ![k] = n] ELSE b
        BY <2>2, <2>8, <3>1, <3>2
      <3>5. bytes'[t] \in ObjectMap
        BY <3>4, <2>1 DEF ObjectMap
      <3>6. \A i \in Objects : bytes'[t][i] = IF i = k /\ k # 0 THEN n ELSE b[i]
        BY <3>4, <2>1 DEF ObjectMap
      <3>7. e.state \in {"incomplete", "available"} /\ b[0] = 0 /\ (e.state = "available"
                => \A i \in Objects : e.has[i] # 0)
            /\ \A i \in Chunks : b[i] # 0 <=> e.has[i] # 0
        BY <2>1, <2>8 DEF EntryFits, Whole, e, b
      <3>8. EntryFits(t)'
        <4>1. g.reserved <=> g.state \in {"incomplete", "available"}  BY <2>8, <3>7
        <4>2. g.state = "available" => \A i \in Objects : g.has[i] # 0  BY <2>8, <3>7, <3>3
        <4>3. bytes'[t][0] = 0  BY <3>6, <3>7, FileShapes
        <4>4. \A i \in Chunks : bytes'[t][i] # 0 <=> g.has[i] # 0
          <5>1. 0 \notin Chunks  BY DEF Chunks
          <5>. QED  BY <5>1, <3>3, <3>6, <3>7, FileShapes
        <4>. QED  BY <4>1, <4>2, <4>3, <4>4, <2>4, <2>8 DEF EntryFits, Whole
      <3>9. Forward(t)
        BY <3>7, <2>8, <2>4 DEF Forward, Dead, Settled, e
      <3>. QED  BY <3>5, <3>8, <3>9
    <2>9. CASE /\ q.op # "put" /\ e.reserved /\ g.reserved /\ Whole(e)
               /\ g.state = "available" /\ g.has = e.has
      <3>1. bytes'[t] = b  BY <2>2, <2>9
      <3>. QED  BY <3>1, <2>1, <2>4, <2>9 DEF EntryFits, Forward, Dead, Whole, Settled
    <2>. QED  BY <2>1, <2>5, <2>6, <2>7, <2>8, <2>9 DEF ReplacedBy
  <1>3. bytes' \in [Transfers -> ObjectMap]
    BY <1>1, <1>2
  <1>4. ReservedIn(file)' <= Quota
    BY <1>1 DEF ReservedIn
  <1>5. file' \in [Transfers -> Entry] /\ revision' \in Nat /\ revision' > revision /\ file' = after
    BY <1>1
  <1>6. LedgerFits'
    BY <1>2, <1>3, <1>4, <1>5 DEF LedgerFits
  <1>. QED  BY <1>2, <1>5, <1>6 DEF LedgerMoves

\* Taking the expired transfers out of the ledger keeps it in shape.
LEMMA ExpiredHolds ==
    ASSUME LedgerFits
    PROVE  /\ Expired(file) \in [Transfers -> Entry]
           /\ \A t \in Transfers : \/ Expired(file)[t] = file[t]
                                   \/ file[t].state # "unused" /\ Expired(file)[t] = FileClosed("expired")
           /\ \A t \in Transfers : Expired(file)[t].state = "unused" <=> file[t].state = "unused"
           /\ \A t \in Transfers : Expired(file)[t].reserved => file[t].reserved
           /\ ReservedIn(Expired(file)) <= Quota
  <1>1. \A t \in Transfers : file[t] \in Entry /\ FileClosed("expired") \in Entry
    BY FileShapes DEF LedgerFits
  <1>2. Expired(file) \in [Transfers -> Entry]
    BY <1>1 DEF Expired
  <1>3. \A t \in Transfers : \/ Expired(file)[t] = file[t]
                             \/ file[t].state # "unused" /\ Expired(file)[t] = FileClosed("expired")
    BY DEF Expired
  <1>4. \A t \in Transfers : /\ Expired(file)[t].state = "unused" <=> file[t].state = "unused"
                             /\ Expired(file)[t].reserved => file[t].reserved
    BY <1>3 DEF FileClosed
  <1>5. ReservedIn(Expired(file)) <= ReservedIn(file)
    BY <1>4, ReservedCounts
  <1>. QED  BY <1>2, <1>3, <1>4, <1>5, ReservedCounts, FileAssumption DEF LedgerFits

\* cleanup takes them and their ciphertexts out, and no ended transfer comes
\* back.
LEMMA CleanupHolds ==
    ASSUME LedgerFits, CleanupLedger
    PROVE  LedgerMoves
  <1>1. Replace(file, Expired(file), NoQuery)  BY DEF CleanupLedger
  <1>2. \A t \in Transfers : ReplacedBy(Expired(file), t, NoQuery)
    BY ExpiredHolds DEF ReplacedBy, FileClosed, NoQuery, Dead
  <1>. QED  BY <1>1, <1>2, ExpiredHolds, ReplaceHolds

\* The ledger that cleanup leaves is a ledger.
LEMMA ExpiredShape ==
    ASSUME NEW l \in [Transfers -> Entry]
    PROVE  Expired(l) \in [Transfers -> Entry]
  BY FileShapes DEF Expired

\* The request with its answer.
LEMMA AnsweredShape ==
    ASSUME NEW q \in FileRequest, NEW a \in Answers, NEW f \in Entry
    PROVE  /\ FileAnswered(q, a, f) \in FileRequest
           /\ FileAnswered(q, a, f).op = q.op /\ FileAnswered(q, a, f).id = q.id
           /\ FileAnswered(q, a, f).stage = "done" /\ FileAnswered(q, a, f).answer = a
           /\ FileAnswered(q, a, f).object = 0 /\ FileAnswered(q, a, f).view = f
  <1>1. NoQuery \in FileRequest /\ NoQuery.object = 0
    BY FileShapes DEF NoQuery
  <1>. HIDE DEF NoQuery
  <1>. QED  BY <1>1 DEF FileAnswered, FileRequest

\* The request with what it has read.
LEMMA NumberedShape ==
    ASSUME NEW r \in FileRequest, file \in [Transfers -> Entry],
           r.op = "create" => Transfers # {}, r.op # "create" => r.id \in Transfers
    PROVE  /\ Numbered(r) \in FileRequest /\ Numbered(r).id \in Transfers
           /\ Numbered(r).op = r.op /\ Numbered(r).index = r.index /\ Numbered(r).object = r.object
           /\ Numbered(r).seen = r.seen /\ Numbered(r).at = r.at
  <1>1. CASE r.op # "create"
    BY <1>1 DEF Numbered
  <1>2. CASE r.op = "create"
    <2>. DEFINE S == {t \in Transfers : file[t].state = "unused"} \cup {MaxTransfers}
    <2>1. MaxTransfers \in Transfers  BY <1>2, FileAssumption DEF Transfers
    <2>2. S \subseteq Transfers /\ S \subseteq Nat /\ S # {}  BY <2>1 DEF Transfers
    <2>3. Numbered(r) = [r EXCEPT !.id = Min(S)]  BY <1>2 DEF Numbered
    <2>. HIDE DEF S
    <2>4. PICK n \in Transfers : n = Min(S)  BY <2>2, MinIsIn
    <2>5. Numbered(r) = [r EXCEPT !.id = n]  BY <2>3, <2>4
    <2>. QED  BY <2>5 DEF FileRequest
  <1>. QED  BY <1>1, <1>2

\* A turn of a handler in the relay reads the ledger, or is answered.
LEMMA TurnHolds ==
    ASSUME LedgerFits, NEW q \in FileRequest, q.id \in Transfers, q.op \in {"create", "put", "complete", "cancel"},
           q.seen = file, q.op = "put" => q.object # 0, q.op = "create" => file[q.id].state = "unused",
           Turn(q).answer = "ok"
    PROVE  /\ Turn(q).ledger \in [Transfers -> Entry] /\ ReservedIn(Turn(q).ledger) <= Quota
           /\ \A t \in Transfers : ReplacedBy(Turn(q).ledger, t, q)
           /\ q.op = "complete" => Turn(q).ledger[q.id].state = "available"
           /\ q.op = "create" => Turn(q).ledger[q.id].state = "incomplete"
  <1>1. PICK l : l = Expired(file)  OBVIOUS
  <1>2. PICK t \in Transfers : t = q.id  OBVIOUS
  <1>3. /\ l \in [Transfers -> Entry]
        /\ \A u \in Transfers : l[u] = file[u] \/ (file[u].state # "unused" /\ l[u] = FileClosed("expired"))
        /\ \A u \in Transfers : l[u].reserved => file[u].reserved
        /\ ReservedIn(l) <= Quota
    BY <1>1, ExpiredHolds
  <1>4. PICK g : g = Changed(l[t], q)  OBVIOUS
  <1>5. Answer(l, q) = "ok" /\ Turn(q).ledger = [l EXCEPT ![t] = g]
    BY <1>1, <1>2, <1>4 DEF Turn
  <1>6. \A u \in Transfers \ {t} : ReplacedBy([l EXCEPT ![t] = g], u, q)
    <2>1. \A u \in Transfers \ {t} : [l EXCEPT ![t] = g][u] = l[u]  BY <1>3
    <2>. QED  BY <2>1, <1>2, <1>3 DEF ReplacedBy, FileClosed, Dead
  <1>7. PICK f : f = l[t]  OBVIOUS
  <1>8. /\ f \in Entry /\ EntryFits(t) /\ file[t] \in Entry
        /\ f = file[t] \/ (f = FileClosed("expired") /\ file[t].state # "unused")
    BY <1>3, <1>7 DEF LedgerFits
  <1>9. Quota \in Nat /\ ReservedIn(l) \in Nat /\ ReservedIn([l EXCEPT ![t] = g]) \in Nat
    BY ReservedCounts, FileAssumption
  <1>10. ASSUME g \in Entry, ReplacedBy([l EXCEPT ![t] = g], t, q), ReservedIn([l EXCEPT ![t] = g]) <= Quota,
                q.op = "complete" => g.state = "available", q.op = "create" => g.state = "incomplete"
         PROVE  /\ Turn(q).ledger \in [Transfers -> Entry] /\ ReservedIn(Turn(q).ledger) <= Quota
                /\ \A u \in Transfers : ReplacedBy(Turn(q).ledger, u, q)
                /\ q.op = "complete" => Turn(q).ledger[q.id].state = "available"
                /\ q.op = "create" => Turn(q).ledger[q.id].state = "incomplete"
    <2>1. \A u \in Transfers : ReplacedBy([l EXCEPT ![t] = g], u, q)
      BY <1>6, <1>10
    <2>2. [l EXCEPT ![t] = g] \in [Transfers -> Entry] /\ [l EXCEPT ![t] = g][t] = g
      BY <1>3, <1>10
    <2>. QED  BY <1>2, <1>5, <1>10, <2>1, <2>2
  <1>11. ASSUME g.reserved => f.reserved PROVE ReservedIn([l EXCEPT ![t] = g]) <= Quota
    <2>1. \A u \in Transfers : [l EXCEPT ![t] = g][u].reserved => l[u].reserved
      BY <1>3, <1>7, <1>11
    <2>2. ReservedIn([l EXCEPT ![t] = g]) <= ReservedIn(l)
      BY <2>1, ReservedCounts
    <2>. QED  BY <2>2, <1>3, <1>9, FileAssumption
  <1>12. [l EXCEPT ![t] = g][t] = g  BY <1>3
  <1>13. q.index \in Objects /\ q.object \in Nat  BY DEF FileRequest
  <1>14. f.has \in ObjectMap /\ f.reserved \in BOOLEAN /\ f.state \in {"unused", "incomplete"} \cup Settled
    BY <1>8 DEF Entry
  <1>15. CASE q.op = "create"
    <2>1. ReservedIn(l) < Quota
      BY <1>5, <1>15, <1>9 DEF Answer, CreateAnswer
    <2>2. g = [Unused EXCEPT !.state = "incomplete", !.reserved = TRUE]
      BY <1>4, <1>15 DEF Changed
    <2>3. g \in Entry /\ g.state = "incomplete" /\ g.reserved /\ g.has = NoObjects
      BY <2>2, FileShapes DEF Unused, Entry
    <2>4. ReplacedBy([l EXCEPT ![t] = g], t, q)
      BY <2>3, <1>12, <1>15, <1>2 DEF ReplacedBy
    <2>5. \A u \in Transfers \ {t} : [l EXCEPT ![t] = g][u].reserved => l[u].reserved
      BY <1>3
    <2>6. ReservedIn([l EXCEPT ![t] = g]) <= ReservedIn(l) + 1
      BY <2>5, ReservedCounts
    <2>. QED  BY <2>1, <2>3, <2>4, <2>6, <1>9, <1>10, <1>15
  <1>16. CASE q.op = "put"
    <2>1. PutAnswer(f, q) = "ok"
      BY <1>2, <1>5, <1>7, <1>16 DEF Answer
    <2>2. ~Dead(f)
      BY <2>1 DEF PutAnswer, Dead
    <2>3. f = file[t]
      BY <2>2, <1>8 DEF FileClosed, Dead
    <2>4. f.has[q.index] # 0 \/ f.state = "incomplete"
      BY <2>1, <2>2 DEF PutAnswer
    <2>5. f.reserved
      BY <2>3, <2>4, <1>8, <1>13, FileShapes DEF EntryFits
    <2>6. g = [f EXCEPT !.has[q.index] = q.object]
      BY <1>4, <1>7, <1>16 DEF Changed
    <2>7. PICK h \in ObjectMap : h = [f.has EXCEPT ![q.index] = q.object]
      BY <1>13, <1>14 DEF ObjectMap
    <2>8. g = [f EXCEPT !.has = h]
      BY <2>6, <2>7
    <2>9. g \in Entry /\ g.state = f.state /\ g.reserved = f.reserved /\ g.has = h
      BY <2>8, <1>8 DEF Entry
    <2>10. ReplacedBy([l EXCEPT ![t] = g], t, q)
      BY <2>9, <2>7, <2>3, <2>5, <1>12, <1>13, <1>16, <1>2 DEF ReplacedBy
    <2>. QED  BY <2>9, <2>10, <1>10, <1>11, <1>16
  <1>17. CASE q.op = "complete"
    <2>1. CompleteAnswer(f) = "ok"
      BY <1>2, <1>5, <1>7, <1>17 DEF Answer
    <2>2. ~Dead(f) /\ Whole(f)
      BY <2>1 DEF CompleteAnswer, Dead
    <2>3. f = file[t]
      BY <2>2, <1>8 DEF FileClosed, Dead
    <2>4. f.reserved
      BY <2>2, <2>3, <1>8, FileShapes DEF EntryFits, Whole
    <2>5. g = [f EXCEPT !.state = "available"]
      BY <1>4, <1>7, <1>17 DEF Changed
    <2>6. g \in Entry /\ g.state = "available" /\ g.reserved = f.reserved /\ g.has = f.has
      BY <2>5, <1>8 DEF Entry, Settled
    <2>7. ReplacedBy([l EXCEPT ![t] = g], t, q)
      BY <2>6, <2>2, <2>3, <2>4, <1>12, <1>17, <1>2 DEF ReplacedBy
    <2>. QED  BY <2>6, <2>7, <1>10, <1>11, <1>17
  <1>18. CASE q.op = "cancel"
    <2>1. g = FileClosed("expired") \/ g = FileClosed("canceled")
      BY <1>4, <1>18 DEF Changed
    <2>2. Dead(g) /\ ~g.reserved /\ g.has = NoObjects
      BY <2>1 DEF FileClosed, Dead
    <2>3. g \in Entry
      BY <2>1, FileShapes
    <2>4. ReplacedBy([l EXCEPT ![t] = g], t, q)
      BY <2>2, <1>12, <1>18 DEF ReplacedBy
    <2>. QED  BY <2>2, <2>3, <2>4, <1>10, <1>11, <1>18
  <1>. QED  BY <1>15, <1>16, <1>17, <1>18

\* The answers a handler gives are answers.
LEMMA AnswerKinds ==
    ASSUME NEW l \in [Transfers -> Entry],
               NEW q, q.id \in Transfers, q.op \in {"create", "put", "complete", "cancel"}
    PROVE  Answer(l, q) \in Answers
  <1>1. l[q.id] \in Entry  OBVIOUS
  <1>2. \A f : Dead(f) => f.state \in Answers
    BY DEF Dead, Answers
  <1>3. q.op = "create" => Answer(l, q) \in Answers
    BY DEF Answer, CreateAnswer, Answers
  <1>4. \A f : PutAnswer(f, q) \in Answers
    BY <1>2 DEF PutAnswer, Answers
  <1>5. \A f : CompleteAnswer(f) \in Answers
    BY <1>2 DEF CompleteAnswer, Answers
  <1>. QED  BY <1>3, <1>4, <1>5 DEF Answer, Answers

\* A request relies on nothing that the ledger takes back.
LEMMA RequestKeeps ==
    ASSUME LedgerMoves, NEW q, RequestFits(q), revision \in Nat
    PROVE  RequestFits(q)'
  <1>1. q.stage = "read" => q.at <= revision' /\ (q.at = revision' => q.seen = file')
    <2>1. CASE revision' > revision
      <3>1. q.stage = "read" => q.at <= revision /\ q.at \in Nat /\ revision' \in Nat
        BY DEF RequestFits, FileRequest, LedgerMoves, LedgerFits
      <3>. QED  BY <2>1, <3>1
    <2>2. CASE Unwritten
      BY <2>2 DEF RequestFits, Unwritten
    <2>. QED  BY <2>1, <2>2 DEF LedgerMoves
  <1>. QED  BY <1>1 DEF RequestFits, Underway

\* A ledger that nothing was written to is the same ledger.
LEMMA Unmoved ==
    ASSUME LedgerFits, Unwritten
    PROVE  LedgerMoves
  BY DEF LedgerMoves, LedgerFits, Unwritten, EntryFits, Forward, ReservedIn, Dead

\* The write of create and of complete: only if the revision is the one that
\* was read, so the quota and the objects are those it has checked.
LEMMA CommitHolds ==
    ASSUME LedgerFits, NEW r, RequestFits(r), r.stage = "read", r.op # "chunk", Commits(r),
           NEW s, s = CommitResult(r)
    PROVE  /\ LedgerMoves /\ RequestFits(s)' /\ s.op = r.op /\ (s.stage = "done" \/ Underway(s))
           /\ Succeeded(s, "create") =>
                s.id \in Transfers /\ file[s.id].state = "unused" /\ file'[s.id].state # "unused"
           /\ Succeeded(s, "complete") => s.id \in Transfers /\ file'[s.id].state \in Settled
  <1>1. PICK q : q = Numbered(r)  OBVIOUS
  <1>2. /\ r \in FileRequest /\ Underway(r) /\ file \in [Transfers -> Entry] /\ revision \in Nat
        /\ r.op \in {"create", "put", "complete", "cancel"}
        /\ r.op = "create" => Transfers # {}
        /\ r.op # "create" => r.id \in Transfers
        /\ r.op = "put" => r.object # 0
        /\ r.at <= revision /\ (r.at = revision => r.seen = file)
    BY DEF RequestFits, Underway, FileRequest, LedgerFits
  <1>3. /\ q \in FileRequest /\ q.id \in Transfers
        /\ q.op = r.op /\ q.index = r.index /\ q.object = r.object /\ q.seen = r.seen /\ q.at = r.at
    BY <1>1, <1>2, NumberedShape
  <1>4. PICK l : l = Expired(q.seen)  OBVIOUS
  <1>5. l \in [Transfers -> Entry]
    BY <1>3, <1>4, ExpiredShape DEF FileRequest
  <1>6. Turn(q).answer \in Answers
    <2>1. Answer(l, q) \in Answers  BY <1>2, <1>3, <1>5, AnswerKinds
    <2>. QED  BY <2>1, <1>4 DEF Turn, Answers
  <1>7. q.op = "create" => file[q.id].state = "unused"
    BY <1>1 DEF Commits
  <1>8. CASE Turn(q).answer # "ok"
    <2>1. Unwritten  BY <1>8, <1>1 DEF Commits
    <2>2. PICK a \in Answers : a = Turn(q).answer  BY <1>6
    <2>3. s = FileAnswered(q, a, Unused)  BY <1>8, <1>1, <2>2 DEF CommitResult
    <2>4. s \in FileRequest /\ s.op = q.op /\ s.stage = "done" /\ s.answer = a
      BY <2>3, <1>3, AnsweredShape, FileShapes
    <2>5. RequestFits(s)'
      BY <2>4, <1>2, <1>3 DEF RequestFits, Underway
    <2>. QED  BY <2>1, <2>2, <2>4, <2>5, <1>3, <1>8, Unmoved DEF Succeeded
  <1>9. CASE Turn(q).answer = "ok" /\ q.at # revision
    <2>1. Unwritten  BY <1>9, <1>1 DEF Commits
    <2>2. s = [r EXCEPT !.stage = "new", !.seen = NoQuery.seen, !.at = 0]
      BY <1>9, <1>1 DEF CommitResult
    <2>3. PICK n \in [Transfers -> Entry] : n = NoQuery.seen
      BY FileShapes DEF FileRequest
    <2>4. s = [r EXCEPT !.stage = "new", !.seen = n, !.at = 0]
      BY <2>2, <2>3
    <2>5. s \in FileRequest /\ s.op = r.op /\ s.id = r.id /\ s.object = r.object /\ s.stage = "new"
      <3>1. r \in FileRequest /\ 0 \in Nat  BY <1>2
      <3>2. s \in FileRequest  BY <2>4, <3>1 DEF FileRequest
      <3>3. s.op = r.op /\ s.id = r.id /\ s.object = r.object /\ s.stage = "new"
        BY <2>4, <3>1 DEF FileRequest
      <3>. QED  BY <3>2, <3>3
    <2>6. RequestFits(s)'
      BY <2>5, <1>2 DEF RequestFits, Underway
    <2>. QED  BY <2>1, <2>5, <2>6, Unmoved DEF Succeeded, Underway
  <1>10. CASE Turn(q).answer = "ok" /\ q.at = revision
    <2>1. PICK after : after = Turn(q).ledger  OBVIOUS
    <2>2. Replace(file, after, q)
      BY <1>10, <1>1, <1>2, <1>3, <2>1 DEF Commits
    <2>3. /\ after \in [Transfers -> Entry] /\ ReservedIn(after) <= Quota
          /\ \A t \in Transfers : ReplacedBy(after, t, q)
          /\ q.op = "complete" => after[q.id].state = "available"
          /\ q.op = "create" => after[q.id].state = "incomplete"
      BY <1>10, <1>2, <1>3, <1>7, <2>1, TurnHolds
    <2>4. LedgerMoves /\ file' = after
      BY <2>2, <2>3, ReplaceHolds
    <2>5. PICK v \in Entry : v = after[q.id]  BY <2>3, <1>3
    <2>6. s = FileAnswered(q, "ok", v)
      BY <1>10, <1>1, <2>1, <2>5 DEF CommitResult
    <2>7. s \in FileRequest /\ s.op = q.op /\ s.id = q.id /\ s.stage = "done"
      <3>1. "ok" \in Answers  BY DEF Answers
      <3>. QED  BY <3>1, <2>6, <1>3, AnsweredShape
    <2>8. RequestFits(s)'
      BY <2>7, <1>2, <1>3 DEF RequestFits, Underway
    <2>9. Succeeded(s, "create") => s.id \in Transfers /\ file[s.id].state = "unused"
              /\ file'[s.id].state # "unused"
      BY <2>3, <2>4, <2>7, <1>3, <1>7 DEF Succeeded
    <2>10. Succeeded(s, "complete") => s.id \in Transfers /\ file'[s.id].state \in Settled
      BY <2>3, <2>4, <2>7, <1>3 DEF Succeeded, Settled
    <2>. QED  BY <2>4, <2>7, <2>8, <2>9, <2>10, <1>3
  <1>. QED  BY <1>8, <1>9, <1>10

\* A handler's step keeps the ledger, and what its answer says is so when it is
\* given.
LEMMA HandledHolds ==
    ASSUME LedgerFits, NEW q, RequestFits(q), Underway(q), Writes(q), NEW s, s = Handled(q)
    PROVE  /\ LedgerMoves /\ RequestFits(s)' /\ s.op = q.op /\ (s.stage = "done" \/ Underway(s))
           /\ Succeeded(s, "create") =>
                s.id \in Transfers /\ file[s.id].state = "unused" /\ file'[s.id].state # "unused"
           /\ Succeeded(s, "complete") => s.id \in Transfers /\ file'[s.id].state \in Settled
           /\ Succeeded(s, "chunk") => s.object # 0
  <1>1. /\ q \in FileRequest /\ q.stage \in {"new", "read", "fetched"} /\ q.op # "none"
        /\ q.op # "create" => q.id \in Transfers
        /\ file \in [Transfers -> Entry] /\ revision \in Nat
    BY DEF RequestFits, Underway, LedgerFits
  <1>2. CASE q.stage = "read" /\ q.op # "chunk"
    <2>1. s = CommitResult(q) /\ Commits(q)
      BY <1>2 DEF Handled, Writes
    <2>2. s.op # "chunk"
      BY <2>1, <1>2, CommitHolds
    <2>. QED  BY <2>1, <2>2, <1>2, CommitHolds DEF Succeeded
  <1>3. ASSUME ~(q.stage = "read" /\ q.op # "chunk"), s \in FileRequest, s.op = q.op, RequestFits(s),
               s.stage = "done" \/ Underway(s), s.stage = "done" => s.op \notin {"create", "complete"},
               Succeeded(s, "chunk") => s.object # 0
        PROVE  /\ LedgerMoves /\ RequestFits(s)' /\ s.op = q.op /\ (s.stage = "done" \/ Underway(s))
               /\ Succeeded(s, "create") =>
                    s.id \in Transfers /\ file[s.id].state = "unused" /\ file'[s.id].state # "unused"
               /\ Succeeded(s, "complete") => s.id \in Transfers /\ file'[s.id].state \in Settled
               /\ Succeeded(s, "chunk") => s.object # 0
    <2>1. LedgerMoves
      BY <1>3, Unmoved DEF Writes
    <2>. QED  BY <2>1, <1>1, <1>3, RequestKeeps DEF Succeeded
  <1>4. CASE q.stage = "new" /\ q.op # "status"
    <2>1. s = [q EXCEPT !.stage = "read", !.seen = file, !.at = revision]
      BY <1>4 DEF Handled, Located
    <2>2. /\ s \in FileRequest /\ s.op = q.op /\ s.id = q.id /\ s.object = q.object /\ s.stage = "read"
          /\ s.seen = file /\ s.at = revision
      BY <2>1, <1>1 DEF FileRequest
    <2>3. RequestFits(s)
      BY <2>2, <1>1, <1>4 DEF RequestFits, Underway
    <2>. QED  BY <2>2, <2>3, <1>3, <1>4 DEF Succeeded, Underway
  <1>5. CASE q.stage = "new" /\ q.op = "status"
    <2>1. PICK v \in Entry : v = Expired(file)[q.id]
      BY <1>1, <1>5, ExpiredShape
    <2>2. s = FileAnswered(q, "ok", v)
      BY <1>5, <2>1 DEF Handled, StatusOf
    <2>3. s \in FileRequest /\ s.op = q.op /\ s.id = q.id /\ s.stage = "done"
      <3>1. "ok" \in Answers  BY DEF Answers
      <3>. QED  BY <3>1, <2>2, <1>1, AnsweredShape
    <2>4. RequestFits(s)
      BY <2>3, <1>1 DEF RequestFits, Underway
    <2>. QED  BY <2>3, <2>4, <1>3, <1>5 DEF Succeeded
  <1>6. CASE q.stage = "read" /\ q.op = "chunk"
    <2>1. s = Fetched(q)
      BY <1>6 DEF Handled
    <2>2. PICK e \in [Transfers -> Entry] : e = Expired(q.seen)
      BY <1>1, ExpiredShape DEF FileRequest
    <2>3. PICK f \in Entry : f = e[q.id]
      BY <1>1, <1>6, <2>2
    <2>4. PICK object : object = bytes[q.id][q.index]
      OBVIOUS
    <2>5. object \in Nat
      BY <1>1, <1>6, <2>4 DEF LedgerFits, ObjectMap, FileRequest
    <2>6. PICK a : a = ChunkAnswer(f, q, object)
      OBVIOUS
    <2>7. a \in Answers /\ (a = "ok" => object # 0)
      BY <2>6 DEF ChunkAnswer, Dead, Answers
    <2>8. PICK n \in [Transfers -> Entry] : n = NoQuery.seen
      BY FileShapes DEF FileRequest
    <2>9. s = IF a = "ok" THEN [q EXCEPT !.stage = "fetched", !.seen = [n EXCEPT ![q.id] = f], !.object = object]
              ELSE FileAnswered(q, a, Unused)
      BY <2>1, <2>2, <2>3, <2>4, <2>6, <2>8 DEF Fetched
    <2>10. CASE a = "ok"
      <3>1. PICK m \in [Transfers -> Entry] : m = [n EXCEPT ![q.id] = f]
        BY <2>8
      <3>2. s = [q EXCEPT !.stage = "fetched", !.seen = m, !.object = object]
        BY <2>9, <2>10, <3>1
      <3>3. s \in FileRequest /\ s.op = q.op /\ s.id = q.id /\ s.stage = "fetched" /\ s.object = object
        BY <3>2, <2>5, <1>1 DEF FileRequest
      <3>4. RequestFits(s)
        BY <3>3, <2>7, <2>10, <1>1, <1>6 DEF RequestFits, Underway
      <3>. QED  BY <3>3, <3>4, <1>3, <1>6 DEF Succeeded, Underway
    <2>11. CASE a # "ok"
      <3>1. s = FileAnswered(q, a, Unused)
        BY <2>9, <2>11
      <3>2. s \in FileRequest /\ s.op = q.op /\ s.id = q.id /\ s.stage = "done" /\ s.answer = a
        BY <3>1, <1>1, <2>7, AnsweredShape, FileShapes
      <3>3. RequestFits(s)
        BY <3>2, <1>1, <1>6 DEF RequestFits, Underway
      <3>. QED  BY <3>2, <3>3, <1>3, <1>6, <2>11 DEF Succeeded
    <2>. QED  BY <2>10, <2>11
  <1>7. CASE q.stage = "fetched"
    <2>1. s = Fenced(q) /\ q.op = "chunk" /\ q.object # 0
      BY <1>7 DEF Handled, RequestFits
    <2>2. PICK f \in Entry : f = Expired(file)[q.id]
      BY <1>1, <2>1, ExpiredShape
    <2>3. PICK a : a = IF f.state = q.seen[q.id].state THEN "ok" ELSE ChunkAnswer(f, q, q.object)
      OBVIOUS
    <2>4. a \in Answers
      BY <2>3 DEF ChunkAnswer, Dead, Answers
    <2>5. s = [FileAnswered(q, a, f) EXCEPT !.object = IF a = "ok" THEN q.object ELSE 0]
      BY <2>1, <2>2, <2>3 DEF Fenced
    <2>6. PICK z : z = FileAnswered(q, a, f)
      OBVIOUS
    <2>7. z \in FileRequest /\ z.op = q.op /\ z.id = q.id /\ z.stage = "done" /\ z.answer = a
      BY <2>6, <2>2, <2>4, <1>1, AnsweredShape
    <2>8. q.object \in Nat
      BY <1>1 DEF FileRequest
    <2>9. s \in FileRequest /\ s.op = z.op /\ s.id = z.id /\ s.stage = "done" /\ s.answer = a
          /\ (a = "ok" => s.object = q.object)
      BY <2>5, <2>6, <2>7, <2>8 DEF FileRequest
    <2>10. RequestFits(s)
      BY <2>7, <2>9, <1>1, <2>1 DEF RequestFits, Underway
    <2>. QED  BY <2>1, <2>7, <2>9, <2>10, <1>3, <1>7 DEF Succeeded
  <1>. QED  BY <1>1, <1>2, <1>4, <1>5, <1>6, <1>7

FileGoesOn == FileInv' /\ EndedStaysEnded

\* A run is a workflow.
LEMMA FlowHas ==
    ASSUME FileInv, NEW w \in Flows
    PROVE  /\ flow[w] \in Workflow /\ query[w] \in FileRequest
           /\ RequestFits(query[w]) /\ AnswerFits(query[w]) /\ FlowFits(w, flow[w], query[w])
           /\ w = Receiver => ReceiverFits(flow[w]) /\ w \notin Senders
           /\ w # Receiver => w \in Senders
  BY FileAssumption DEF FileInv, Flows

\* A transfer somebody owns the seals of has been created.
LEMMA OwnIsUsed ==
    ASSUME FileInv, NEW w \in Flows, NEW t \in Own(flow[w], query[w])
    PROVE  t \in Transfers /\ file[t].state # "unused"
  BY FlowHas DEF Own, AnswerFits, FlowFits, NoFile, Transfers

\* A step of the relay keeps what every run relies on.
LEMMA RelayMoves ==
    ASSUME FileInv, LedgerMoves, UNCHANGED <<flow, seals, references>>, overdue' \subseteq Transfers,
           NEW w \in Flows, NEW s \in FileRequest, query' = [query EXCEPT ![w] = s],
               RequestFits(s)', s.op = query[w].op,
           s = query[w] \/
             /\ Underway(query[w])
             /\ Succeeded(s, "create") => s.id \in Transfers /\ file[s.id].state = "unused"
                    /\ file'[s.id].state # "unused"
             /\ Succeeded(s, "complete") => s.id \in Transfers /\ file'[s.id].state \in Settled
             /\ Succeeded(s, "chunk") => s.object # 0,
           \A q \in orphans' : RequestFits(q)' /\ Underway(q)
    PROVE  FileGoesOn
  <1>1. /\ flow' = flow /\ seals' = seals /\ references' = references
        /\ query \in [Flows -> FileRequest] /\ query' \in [Flows -> FileRequest]
        /\ query'[w] = s /\ \A v \in Flows \ {w} : query'[v] = query[v]
        /\ revision \in Nat /\ LedgerFits'
    BY DEF FileInv, LedgerFits, LedgerMoves
  <1>2. \A t \in Transfers : Forward(t)
    BY DEF LedgerMoves
  <1>3. ASSUME NEW v \in Flows, NEW q, q = query[v], NEW f, f = flow[v]
        PROVE RequestFits(q)' /\ AnswerFits(q)' /\ FlowFits(v, f, q)'
    <2>1. /\ q \in FileRequest /\ f \in Workflow
          /\ RequestFits(q) /\ AnswerFits(q) /\ FlowFits(v, f, q)
      BY <1>3, FlowHas
    <2>2. RequestFits(q)'
      BY <2>1, <1>1, RequestKeeps
    <2>3. AnswerFits(q)'
      BY <2>1, <1>1, <1>2 DEF AnswerFits, Succeeded, Forward
    <2>4. FlowFits(v, f, q)'
      <3>1. f.id # NoFile => f.id \in Transfers  BY <2>1 DEF Workflow
      <3>. QED  BY <3>1, <2>1, <1>1, <1>2 DEF FlowFits, Forward
    <2>. QED  BY <2>2, <2>3, <2>4
  <1>4. AnswerFits(s)' /\ \A f : f = flow[w] => FlowFits(w, f, s)'
    <2>1. CASE s = query[w]
      BY <2>1, <1>3
    <2>2. CASE s # query[w]
      <3>1. AnswerFits(s)'
        BY <2>2, <1>1 DEF AnswerFits, Succeeded, FileInv
      <3>2. ASSUME NEW f, f = flow[w] PROVE FlowFits(w, f, s)'
        <4>1. PICK q : q = query[w]  OBVIOUS
        <4>2. FlowFits(w, f, q)'  BY <1>3, <3>2, <4>1
        <4>3. q.stage # "none" /\ q.op # "none" /\ q.op \in {"none", f.at} /\ q \in FileRequest
          BY <2>2, <3>2, <4>1, FlowHas DEF FlowFits, Underway, RequestFits
        <4>4. f.at # "publish"
          BY <4>3 DEF FileRequest
        <4>. QED  BY <4>1, <4>2, <4>4 DEF FlowFits
      <3>. QED  BY <3>1, <3>2
    <2>. QED  BY <2>1, <2>2
  <1>5. \A v \in Flows : RequestFits(query[v])' /\ AnswerFits(query[v])' /\ FlowFits(v, flow[v], query[v])'
    <2> TAKE v \in Flows
    <2>1. PICK q : q = query'[v]  OBVIOUS
    <2>2. PICK f : f = flow[v]  OBVIOUS
    <2>3. RequestFits(q)' /\ AnswerFits(q)' /\ FlowFits(v, f, q)'
      BY <2>1, <2>2, <1>1, <1>3, <1>4
    <2>4. RequestFits(query[v])' /\ AnswerFits(query[v])'
      BY <2>1, <2>3 DEF RequestFits, AnswerFits, Succeeded, Underway
    <2>. QED  BY <2>1, <2>2, <2>3, <2>4, <1>1 DEF FlowFits
  <1>6. Apart'
    <2> SUFFICES ASSUME NEW v \in Senders, NEW x \in Senders, v # x, NEW t \in Transfers,
                        t \in Own(flow[v], query'[v]), t \in Own(flow[x], query'[x])
                 PROVE FALSE
      BY <1>1 DEF Apart, Own, Succeeded
    <2>1. v \in Flows /\ x \in Flows  BY DEF Flows
    <2>2. ASSUME NEW y \in {v, x}, t \notin Own(flow[y], query[y]), t \in Own(flow[y], query'[y])
          PROVE file[t].state = "unused"
      <3>1. y = w /\ s # query[w]  BY <2>1, <2>2, <1>1
      <3>. QED  BY <2>2, <3>1, <1>1 DEF Own
    <2>3. ~(t \in Own(flow[v], query[v]) /\ t \in Own(flow[x], query[x]))
      BY DEF FileInv, Apart
    <2>4. \A y \in {v, x} : t \in Own(flow[y], query[y]) => file[t].state # "unused"
      BY <2>1, OwnIsUsed
    <2>5. v # w \/ x # w  OBVIOUS
    <2>. QED  BY <2>1, <2>2, <2>3, <2>4, <2>5, <1>1
  <1>7. /\ \A t \in Transfers : file'[t].state = "unused" => seals[t] = NoObjects
        /\ \A t \in references : file'[t].state \in Settled
    BY <1>2 DEF FileInv, Forward
  <1>8. ReceiverFits(flow[Receiver])'
    BY <1>1 DEF FileInv, ReceiverFits
  <1>9. FileInv'
    BY <1>1, <1>5, <1>6, <1>7, <1>8 DEF FileInv
  <1>10. EndedStaysEnded
    BY <1>1, <1>2 DEF EndedStaysEnded, Forward
  <1>. QED  BY <1>9, <1>10 DEF FileGoesOn

\* A step of one run keeps what the others rely on, if its seals stay its own.
LEMMA FlowMoves ==
    ASSUME FileInv, Relayless, NEW w \in Flows, NEW f \in Workflow, NEW q \in FileRequest,
           flow' = [flow EXCEPT ![w] = f], query' = [query EXCEPT ![w] = q],
           seals' \in [Transfers -> ObjectMap], references' \subseteq Transfers,
           \A t \in references' : file[t].state \in Settled,
           \A t \in Transfers : \A i \in Objects : seals'[t][i] <= 1,
           \A t \in Transfers : seals'[t] = seals[t] \/ (w \in Senders /\ t \in Own(flow[w], query[w])),
           RequestFits(q), AnswerFits(q)', FlowFits(w, f, q)', w \in Senders
               => Own(f, q) \subseteq Own(flow[w], query[w]),
           w = Receiver => ReceiverFits(f),
           \A p \in orphans' : RequestFits(p) /\ Underway(p),
           f.phase = flow[w].phase \/ flow[w].phase \notin Terminal \/ f.gen > flow[w].gen
    PROVE  FileGoesOn
  <1>1. file' = file /\ bytes' = bytes /\ revision' = revision /\ overdue' = overdue
    BY DEF Relayless, Unwritten
  <1>2. LedgerMoves
    BY Unmoved DEF FileInv, Relayless
  <1>3. /\ query' \in [Flows -> FileRequest] /\ flow' \in [Flows -> Workflow]
        /\ query'[w] = q /\ flow'[w] = f /\ \A v \in Flows \ {w} : query'[v] = query[v] /\ flow'[v] = flow[v]
    BY DEF FileInv
  <1>4. ASSUME NEW v \in Flows
        PROVE RequestFits(query[v])' /\ AnswerFits(query[v])' /\ FlowFits(v, flow[v], query[v])'
    <2>1. PICK p : p = query'[v]  OBVIOUS
    <2>2. PICK g : g = flow'[v]  OBVIOUS
    <2>3. RequestFits(p)' /\ AnswerFits(p)' /\ FlowFits(v, g, p)'
      <3>1. CASE v = w
        <4>1. p = q /\ g = f  BY <3>1, <2>1, <2>2, <1>3
        <4>2. RequestFits(p)'  BY <4>1, <1>1 DEF RequestFits, Underway
        <4>. QED  BY <4>1, <4>2, <3>1
      <3>2. CASE v # w
        <4>1. p = query[v] /\ g = flow[v]  BY <3>2, <2>1, <2>2, <1>3
        <4>2. p \in FileRequest /\ g \in Workflow /\ RequestFits(p) /\ AnswerFits(p) /\ FlowFits(v, g, p)
          BY <4>1, FlowHas
        <4>3. RequestFits(p)'  BY <4>2, <1>1 DEF RequestFits, Underway
        <4>4. v \in Senders /\ w \in Senders => \A t \in Own(g, p) : t \notin Own(flow[w], query[w])
          BY <3>2, <4>1 DEF FileInv, Apart
        <4>5. v \notin Senders => p.op \notin {"create", "complete"} \/ ~Succeeded(p, p.op)
          <5>1. v \notin Senders => p.op # "create"
            BY <4>1, <4>2, FlowHas DEF ReceiverFits, FlowFits
          <5>2. v \notin Senders => p.op # "complete"
            BY <4>1, <4>2, FlowHas DEF ReceiverFits, FlowFits
          <5>. QED  BY <5>1, <5>2
        <4>6. AnswerFits(p)'
          <5>1. Succeeded(p, "create") => p.id \in Own(g, p) /\ v \in Senders
            BY <4>2, <4>5 DEF AnswerFits, Own, Succeeded
          <5>2. Succeeded(p, "create") => seals'[p.id] = seals[p.id]
            BY <5>1, <4>4, <4>2 DEF AnswerFits
          <5>. QED  BY <5>2, <4>2, <1>1 DEF AnswerFits, Succeeded
        <4>7. v \in Senders /\ g.id # NoFile => seals'[g.id] = seals[g.id]
          <5>1. v \in Senders /\ g.id # NoFile => g.id \in Transfers /\ g.id \in Own(g, p)
            BY <4>2 DEF Workflow, Own
          <5>. QED  BY <5>1, <4>4
        <4>8. FlowFits(v, g, p)'
          BY <4>2, <4>7, <1>1 DEF FlowFits
        <4>. QED  BY <4>3, <4>6, <4>8
      <3>. QED  BY <3>1, <3>2
    <2>4. RequestFits(query[v])' /\ AnswerFits(query[v])'
      BY <2>1, <2>3 DEF RequestFits, AnswerFits, Succeeded, Underway
    <2>. QED  BY <2>1, <2>2, <2>3, <2>4 DEF FlowFits
  <1>5. Apart'
    <2> SUFFICES ASSUME NEW v \in Senders, NEW x \in Senders, v # x, NEW t \in Transfers,
                        t \in Own(flow'[v], query'[v]), t \in Own(flow'[x], query'[x])
                 PROVE FALSE
      BY DEF Apart, Own, Succeeded
    <2>1. v \in Flows /\ x \in Flows  BY DEF Flows
    <2>2. \A y \in {v, x} : Own(flow'[y], query'[y]) \subseteq Own(flow[y], query[y])
      BY <2>1, <1>3
    <2>. QED  BY <2>2 DEF FileInv, Apart
  <1>6. \A t \in Transfers : file[t].state = "unused" => seals'[t] = NoObjects
    BY OwnIsUsed DEF FileInv
  <1>7. \A p \in orphans' : RequestFits(p)'
    BY <1>2, RequestKeeps DEF FileInv, LedgerFits
  <1>8. ReceiverFits(flow[Receiver])'
    <2>1. PICK g : g = flow'[Receiver]  OBVIOUS
    <2>2. ReceiverFits(g)
      BY <2>1, <1>3 DEF FileInv, Flows
    <2>. QED  BY <2>1, <2>2 DEF ReceiverFits
  <1>9. FileInv'
    BY <1>1, <1>2, <1>3, <1>4, <1>5, <1>6, <1>7, <1>8 DEF FileInv, LedgerMoves
  <1>10. EndedStaysEnded
    BY <1>2, <1>3 DEF EndedStaysEnded, Forward, LedgerMoves
  <1>. QED  BY <1>9, <1>10 DEF FileGoesOn

\* A run's step that seals nothing.
LEMMA FlowPlain ==
    ASSUME FileInv, Relayless, NEW w \in Flows, NEW f \in Workflow, NEW q \in FileRequest,
           flow' = [flow EXCEPT ![w] = f], query' = [query EXCEPT ![w] = q],
           UNCHANGED <<seals, references>>,
           RequestFits(q), AnswerFits(q), FlowFits(w, f, q), w \in Senders
               => Own(f, q) \subseteq Own(flow[w], query[w]),
           w = Receiver => ReceiverFits(f),
           \A p \in orphans' : RequestFits(p) /\ Underway(p),
           f.phase = flow[w].phase \/ flow[w].phase \notin Terminal \/ f.gen > flow[w].gen
    PROVE  FileGoesOn
  <1>1. AnswerFits(q)' /\ FlowFits(w, f, q)'
    BY DEF AnswerFits, Succeeded, FlowFits, Relayless, Unwritten
  <1>. QED  BY <1>1, FlowMoves DEF FileInv

\* A run that asks nothing.
LEMMA NoQueryFits ==
    /\ NoQuery \in FileRequest /\ RequestFits(NoQuery) /\ AnswerFits(NoQuery)
    /\ NoQuery.op = "none" /\ NoQuery.stage = "none" /\ \A op : ~Succeeded(NoQuery, op)
  BY FileShapes DEF NoQuery, RequestFits, AnswerFits, Succeeded, Underway

\* A request that has just been made.
Asked(op, id, index, object) ==
    [NoQuery EXCEPT !.op = op, !.id = id, !.index = index, !.object = object, !.stage = "new"]

\* A request that has just been made relies on nothing.
LEMMA NewFits ==
    ASSUME NEW q \in FileRequest, q.stage = "new", q.op # "none",
           q.op = "create" => Transfers # {}, q.op # "create" => q.id \in Transfers, q.op = "put"
               => q.object # 0
    PROVE  RequestFits(q) /\ AnswerFits(q) /\ Underway(q) /\ \A k : ~Succeeded(q, k)
  BY DEF RequestFits, AnswerFits, Underway, Succeeded

\* A run that has just asked.
LEMMA AskedFits ==
    ASSUME NEW op \in {"create", "put", "complete", "cancel", "status", "chunk"},
               NEW id \in Transfers \cup {NoFile},
           NEW index \in Objects, NEW object \in Nat,
           op = "create" => Transfers # {}, op # "create" => id \in Transfers, op = "put" => object # 0
    PROVE  /\ Asked(op, id, index, object) \in FileRequest /\ RequestFits(Asked(op, id, index, object))
           /\ AnswerFits(Asked(op, id, index, object)) /\ Underway(Asked(op, id, index, object))
           /\ Asked(op, id, index, object).op = op /\ \A k : ~Succeeded(Asked(op, id, index, object), k)
  <1>1. NoQuery \in FileRequest
    BY FileShapes
  <1>2. PICK q : q = Asked(op, id, index, object)
    OBVIOUS
  <1>3. q \in FileRequest /\ q.op = op /\ q.id = id /\ q.object = object /\ q.stage = "new"
    BY <1>1, <1>2 DEF Asked, FileRequest
  <1>. QED  BY <1>2, <1>3, NewFits

\* The request that cancels a transfer.
LEMMA CancelFits ==
    ASSUME NEW t \in Transfers
    PROVE  /\ CancelRequest(t) \in FileRequest /\ RequestFits(CancelRequest(t)) /\ Underway(CancelRequest(t))
           /\ LET q == [CancelRequest(t) EXCEPT !.op = "status"]
              IN  /\ q \in FileRequest /\ RequestFits(q) /\ AnswerFits(q) /\ q.op = "status"
                  /\ \A k : ~Succeeded(q, k)
  <1>1. NoQuery \in FileRequest
    BY FileShapes
  <1>2. PICK p : p = CancelRequest(t)
    OBVIOUS
  <1>3. p \in FileRequest /\ p.op = "cancel" /\ p.id = t /\ p.stage = "new"
    BY <1>1, <1>2 DEF CancelRequest, FileRequest
  <1>4. PICK q : q = [p EXCEPT !.op = "status"]
    OBVIOUS
  <1>5. q \in FileRequest /\ q.op = "status" /\ q.id = t /\ q.stage = "new"
    BY <1>3, <1>4 DEF FileRequest
  <1>6. RequestFits(p) /\ Underway(p)
    BY <1>3, NewFits
  <1>7. RequestFits(q) /\ AnswerFits(q) /\ \A k : ~Succeeded(q, k)
    BY <1>5, NewFits
  <1>. QED  BY <1>2, <1>3, <1>4, <1>5, <1>6, <1>7

\* The request that creates one.
LEMMA CreateFits ==
    ASSUME Transfers # {}
    PROVE  LET q == [NoQuery EXCEPT !.op = "create", !.stage = "new"]
           IN  q \in FileRequest /\ RequestFits(q) /\ AnswerFits(q) /\ q.op = "create"
               /\ \A k : ~Succeeded(q, k)
  <1>1. NoQuery \in FileRequest
    BY FileShapes
  <1>2. PICK q : q = [NoQuery EXCEPT !.op = "create", !.stage = "new"]
    OBVIOUS
  <1>3. q \in FileRequest /\ q.op = "create" /\ q.stage = "new"
    BY <1>1, <1>2 DEF FileRequest
  <1>. QED  BY <1>2, <1>3, NewFits

\* A request that failed answers nothing that would be relied on.
LEMMA FailedFits ==
    ASSUME NEW q \in FileRequest, q.op # "none", NEW a \in Answers \ {"ok"}
    PROVE  /\ FileAnswered(q, a, Unused) \in FileRequest /\ RequestFits(FileAnswered(q, a, Unused))
           /\ AnswerFits(FileAnswered(q, a, Unused)) /\ FileAnswered(q, a, Unused).op = q.op
           /\ FileAnswered(q, a, Unused).id = q.id
           /\ \A k : ~Succeeded(FileAnswered(q, a, Unused), k)
  <1>1. PICK s : s = FileAnswered(q, a, Unused)  OBVIOUS
  <1>2. s \in FileRequest /\ s.op = q.op /\ s.id = q.id /\ s.stage = "done" /\ s.answer = a
    BY <1>1, AnsweredShape, FileShapes
  <1>3. RequestFits(s) /\ AnswerFits(s) /\ \A k : ~Succeeded(s, k)
    BY <1>2 DEF RequestFits, AnswerFits, Underway, Succeeded
  <1>. QED  BY <1>1, <1>2, <1>3

\* What is forgotten goes on at the relay, with a request to cancel the
\* transfer.
LEMMA ForgottenFit ==
    ASSUME FileInv, NEW w \in Flows, Forgets(w)
    PROVE  \A p \in orphans' : RequestFits(p) /\ Underway(p)
  <1>1. flow[w].id \in Transfers \cup {NoFile}
    BY FlowHas DEF Workflow
  <1>2. \A t \in {flow[w].id} \ {NoFile} : RequestFits(CancelRequest(t)) /\ Underway(CancelRequest(t))
    BY <1>1, CancelFits
  <1>3. RequestFits(query[w])
    BY FlowHas
  <1>. QED  BY <1>2, <1>3 DEF Forgets, FileInv

\* A run that begins, in the next generation.
LEMMA BeginShape ==
    ASSUME NEW f \in Workflow
    PROVE  /\ BeginFile(f) \in Workflow /\ BeginFile(f).gen > f.gen /\ BeginFile(f).run = BeginFile(f).gen
           /\ BeginFile(f).phase = "Preparing" /\ BeginFile(f).at = f.at /\ BeginFile(f).id = f.id
           /\ BeginFile(f).produced = f.produced /\ BeginFile(f).cache = f.cache /\ BeginFile(f).next = f.next
  <1>1. PICK n \in Nat : n = f.gen + 1 /\ n > f.gen  BY DEF Workflow
  <1>2. BeginFile(f) = [f EXCEPT !.gen = n, !.run = n, !.phase = "Preparing", !.retryable = FALSE]
    BY <1>1 DEF BeginFile
  <1>3. "Preparing" \in Phases  BY DEF Phases
  <1>. QED  BY <1>1, <1>2, <1>3 DEF Workflow

\* A run that lets go.
LEMMA ReleasedShape ==
    ASSUME NEW f \in Workflow
    PROVE  /\ Released(f) \in Workflow /\ Released(f).id = NoFile /\ Released(f).at = f.at
           /\ Released(f).gen = f.gen /\ Released(f).run = f.run /\ Released(f).phase = f.phase
           /\ Released(f).next = f.next
  <1>1. NoObjects \in ObjectMap  BY FileShapes
  <1>. QED  BY <1>1 DEF Released, Workflow

\* A run that fails keeps what a pending file keeps.
LEMMA FailShape ==
    ASSUME NEW f \in Workflow, NEW reason
    PROVE  /\ Fail(f, reason) \in Workflow /\ Fail(f, reason).at = "idle"
           /\ Fail(f, reason).gen = f.gen /\ Fail(f, reason).run = f.run
           /\ Fail(f, reason).phase = f.phase \/ (f.phase \notin Terminal
                  /\ Fail(f, reason).phase # "Complete")
           /\ Fail(f, reason).id = NoFile \/
                (Fail(f, reason).id = f.id /\ Fail(f, reason).produced = f.produced
                    /\ Fail(f, reason).cache = f.cache)
  <1>. DEFINE phase == CASE reason = "cache" -> "RestartRequired" [] reason = "expired" -> "Expired" [] OTHER -> "Failed"
  <1>1. CASE ~Live(f)
    <2>1. Fail(f, reason) = [f EXCEPT !.at = "idle"]  BY <1>1 DEF Fail
    <2>. QED  BY <2>1 DEF Workflow
  <1>2. CASE Live(f)
    <2>1. PICK retry \in BOOLEAN : retry = (f.id # NoFile /\ reason \in {"network", "storage"})
      OBVIOUS
    <2>2. phase \in Phases /\ phase # "Complete" /\ f.phase \notin Terminal
      BY <1>2 DEF Phases, Terminal, Live
    <2>3. PICK h : h = phase  OBVIOUS
    <2>4. PICK g : g = [Move(f, h) EXCEPT !.retryable = retry, !.at = "idle"]  OBVIOUS
    <2>5. Fail(f, reason) = IF reason = "cache" THEN Released(g) ELSE g
      BY <1>2, <2>1, <2>3, <2>4, Zenon DEF Fail
    <2>. HIDE DEF phase
    <2>6. /\ g \in Workflow /\ g.at = "idle" /\ g.gen = f.gen /\ g.run = f.run /\ g.phase = h
          /\ g.id = f.id /\ g.produced = f.produced /\ g.cache = f.cache
      BY <1>2, <2>2, <2>3, <2>4 DEF Move, Workflow
    <2>. QED  BY <2>2, <2>3, <2>5, <2>6, ReleasedShape
  <1>. QED  BY <1>1, <1>2

\* The relay serves the request of a run.
LEMMA ServesHolds ==
    ASSUME FileInv, NEW w \in Flows, RelayServes(w)
    PROVE  FileGoesOn
  <1>1. PICK q : q = query[w]  OBVIOUS
  <1>2. PICK s : s = Handled(q)  OBVIOUS
  <1>3. /\ Underway(q) /\ Writes(q) /\ query' = [query EXCEPT ![w] = s] /\ RequestFits(q)
        /\ UNCHANGED <<flow, seals, references>> /\ orphans' = orphans /\ overdue' = overdue
    BY <1>1, <1>2, FlowHas DEF RelayServes
  <1>4. /\ LedgerMoves /\ RequestFits(s)' /\ s.op = q.op
        /\ Succeeded(s, "create") => s.id \in Transfers /\ file[s.id].state = "unused"
               /\ file'[s.id].state # "unused"
        /\ Succeeded(s, "complete") => s.id \in Transfers /\ file'[s.id].state \in Settled
        /\ Succeeded(s, "chunk") => s.object # 0
    BY <1>2, <1>3, HandledHolds DEF FileInv
  <1>5. s \in FileRequest
    BY <1>4 DEF RequestFits
  <1>6. \A p \in orphans' : RequestFits(p)' /\ Underway(p)
    BY <1>3, <1>4, RequestKeeps DEF FileInv, LedgerFits
  <1>. QED  BY <1>1, <1>3, <1>4, <1>5, <1>6, RelayMoves DEF FileInv

\* A step of the relay for a request that nobody waits for.
LEMMA RelayAlone ==
    ASSUME FileInv, LedgerMoves, UNCHANGED <<flow, seals, references, query>>, overdue' \subseteq Transfers,
           \A q \in orphans' : RequestFits(q)' /\ Underway(q)
    PROVE  FileGoesOn
  <1>1. PICK w \in Flows : w = Receiver  BY DEF Flows
  <1>2. PICK s : s = query[w]  OBVIOUS
  <1>3. query' = [query EXCEPT ![w] = s] /\ s \in FileRequest /\ RequestFits(s)
    BY <1>2, FlowHas DEF FileInv
  <1>4. RequestFits(s)'
    BY <1>3, RequestKeeps DEF FileInv, LedgerFits
  <1>. QED  BY <1>2, <1>3, <1>4, RelayMoves

\* The relay serves what its client has forgotten.
LEMMA OrphanHolds ==
    ASSUME FileInv, RelayServesOrphan
    PROVE  FileGoesOn
  <1>1. PICK q \in orphans : Writes(q)
                 /\ orphans' = (orphans \ {q}) \cup {r \in {Handled(q)} : r.stage # "done"}
    BY DEF RelayServesOrphan
  <1>2. PICK s : s = Handled(q)  OBVIOUS
  <1>3. LedgerMoves /\ RequestFits(s)' /\ (s.stage = "done" \/ Underway(s))
    BY <1>1, <1>2, HandledHolds DEF FileInv
  <1>4. \A p \in orphans' : RequestFits(p)' /\ Underway(p)
    BY <1>1, <1>2, <1>3, RequestKeeps DEF FileInv, LedgerFits
  <1>. QED  BY <1>3, <1>4, RelayAlone DEF FileInv, RelayServesOrphan

\* A transfer is past its time.
LEMMA TimeHolds ==
    ASSUME FileInv, TimePasses \/ CleanupLedger
    PROVE  FileGoesOn
  <1>1. LedgerMoves
    BY Unmoved, CleanupHolds DEF FileInv, TimePasses
  <1>2. \A p \in orphans' : RequestFits(p)' /\ Underway(p)
    BY <1>1, RequestKeeps DEF FileInv, LedgerFits, TimePasses, CleanupLedger
  <1>. QED  BY <1>1, <1>2, RelayAlone DEF FileInv, TimePasses, CleanupLedger

\* A request is refused or lost, or its answer is.
LEMMA LosesHolds ==
    ASSUME FileInv, NEW w \in Flows, RelayDenies(w) \/ RequestLost(w) \/ AnswerLostToNetwork(w)
    PROVE  FileGoesOn
  <1>1. PICK q : q = query[w]  OBVIOUS
  <1>2. q \in FileRequest /\ RequestFits(q) /\ (Underway(q) \/ q.stage = "done")
    BY <1>1, FlowHas DEF RelayDenies, RequestLost, AnswerLostToNetwork
  <1>3. q \in FileRequest /\ RequestFits(q) /\ q.op # "none"
    BY <1>1, <1>2, FlowHas DEF RequestFits, Underway
  <1>4. PICK a \in {"authorization", "network"} : query' = [query EXCEPT ![w] = FileAnswered(q, a, Unused)]
    BY <1>1 DEF RelayDenies, RequestLost, AnswerLostToNetwork, FileInv
  <1>5. PICK s : s = FileAnswered(q, a, Unused)  OBVIOUS
  <1>6. /\ s \in FileRequest /\ RequestFits(s) /\ s.op = q.op /\ \A k : ~Succeeded(s, k)
    <2>1. a \in Answers \ {"ok"}  BY DEF Answers
    <2>. QED  BY <2>1, <1>3, <1>5, FailedFits
  <1>7. LedgerMoves
    BY Unmoved DEF FileInv, RelayDenies, RequestLost, AnswerLostToNetwork
  <1>8. RequestFits(s)'
    BY <1>6, <1>7, RequestKeeps DEF FileInv, LedgerFits
  <1>9. orphans' \subseteq orphans \cup {p \in {q} : Underway(p)}
    BY <1>1 DEF RelayDenies, RequestLost, AnswerLostToNetwork
  <1>10. \A p \in orphans' : RequestFits(p)' /\ Underway(p)
    BY <1>3, <1>7, <1>9, RequestKeeps DEF FileInv, LedgerFits
  <1>11. UNCHANGED <<flow, seals, references, overdue>> /\ query' = [query EXCEPT ![w] = s]
    BY <1>4, <1>5 DEF RelayDenies, RequestLost, AnswerLostToNetwork
  <1>12. CASE Underway(q)
    BY <1>1, <1>6, <1>7, <1>8, <1>10, <1>11, <1>12, RelayMoves DEF FileInv
  <1>13. CASE q.stage = "done"
    <2>1. PICK f : f = flow[w]  OBVIOUS
    <2>2. /\ f \in Workflow /\ FlowFits(w, f, q) /\ (w = Receiver => ReceiverFits(f))
      BY <2>1, <1>1, FlowHas
    <2>3. f.at # "publish"
      BY <2>2, <1>3 DEF FlowFits, FileRequest
    <2>4. FlowFits(w, f, s)
      BY <2>2, <2>3, <1>6 DEF FlowFits
    <2>5. Own(f, s) \subseteq Own(flow[w], query[w])
      BY <2>1, <1>6 DEF Own
    <2>6. flow' = [flow EXCEPT ![w] = f]
      BY <2>1, <1>11 DEF FileInv
    <2>7. Relayless /\ \A p \in orphans' : RequestFits(p) /\ Underway(p)
      BY <1>1, <1>13, <1>9, <1>11 DEF RelayDenies, RequestLost, AnswerLostToNetwork, Relayless, FileInv,
           Underway
    <2>8. f.phase = flow[w].phase
      BY <2>1
    <2>9. AnswerFits(s)
      BY <1>6 DEF AnswerFits
    <2>. QED  BY <2>2, <2>4, <2>5, <2>6, <2>7, <2>8, <2>9, <1>6, <1>11, FlowPlain
  <1>. QED  BY <1>2, <1>12, <1>13

\* A run comes to rest.
LEMMA RestHolds ==
    ASSUME FileInv, Relayless, NEW w \in Flows, NEW f \in Workflow,
           flow' = [flow EXCEPT ![w] = f], query' = [query EXCEPT ![w] = NoQuery], UNCHANGED <<seals, references>>,
           f.at = "idle", f.run <= f.gen, f.phase = flow[w].phase \/ (flow[w].phase \notin Terminal
               /\ f.phase # "Complete"),
           f.id = NoFile \/
             (f.id = flow[w].id /\ f.produced = flow[w].produced /\ f.cache = flow[w].cache),
           \A p \in orphans' : RequestFits(p) /\ Underway(p)
    PROVE  FileGoesOn
  <1>1. FlowFits(w, flow[w], query[w]) /\ (w = Receiver => ReceiverFits(flow[w]))
    BY FlowHas
  <1>2. FlowFits(w, f, NoQuery)
    BY <1>1, NoQueryFits DEF FlowFits
  <1>3. w = Receiver => ReceiverFits(f)
    BY <1>1 DEF ReceiverFits
  <1>4. Own(f, NoQuery) \subseteq Own(flow[w], query[w])
    BY NoQueryFits DEF Own, NoFile, Transfers
  <1>. QED  BY <1>2, <1>3, <1>4, NoQueryFits, FlowPlain

\* A run fails.
LEMMA RunFailsHolds ==
    ASSUME FileInv, NEW w \in Flows, RunFails(w)
    PROVE  FileGoesOn
  <1>1. PICK f : f = flow[w]  OBVIOUS
  <1>2. f \in Workflow /\ FlowFits(w, f, query[w])
    BY <1>1, FlowHas
  <1>3. PICK reason : reason = Reason(w)  OBVIOUS
  <1>4. PICK g : g = Fail(f, reason)  OBVIOUS
  <1>5. /\ g \in Workflow /\ g.at = "idle" /\ g.gen = f.gen /\ g.run = f.run
        /\ g.phase = f.phase \/ (f.phase \notin Terminal /\ g.phase # "Complete")
        /\ g.id = NoFile \/ (g.id = f.id /\ g.produced = f.produced /\ g.cache = f.cache)
    BY <1>2, <1>4, FailShape
  <1>6. /\ flow' = [flow EXCEPT ![w] = g] /\ query' = [query EXCEPT ![w] = NoQuery]
        /\ Relayless /\ UNCHANGED <<seals, references>> /\ Live(f) /\ f.at # "idle"
        /\ orphans' = IF reason = "cache" THEN orphans \cup {CancelRequest(f.id)} ELSE orphans
    BY <1>1, <1>3, <1>4 DEF RunFails, Steps
  <1>7. reason = "cache" => f.id \in Transfers
    <2>1. reason = "cache" => f.at \in {"seal", "status"} \/ query[w].answer = "cache"
              \/ StatusReason(query[w].view) = "cache"
      BY <1>1, <1>3 DEF Reason
    <2>2. query[w].answer # "cache" /\ StatusReason(query[w].view) # "cache"
      BY FlowHas DEF FileRequest, Answers, StatusReason
    <2>3. f.run = f.gen
      BY <1>6 DEF Live
    <2>. QED  BY <2>1, <2>2, <2>3, <1>2 DEF FlowFits, Workflow
  <1>8. \A p \in orphans' : RequestFits(p) /\ Underway(p)
    BY <1>6, <1>7, CancelFits DEF FileInv
  <1>. QED  BY <1>1, <1>2, <1>5, <1>6, <1>8, RestHolds DEF FlowFits

\* A run that was canceled forgets what it waited for.
LEMMA UnwindsHolds ==
    ASSUME FileInv, NEW w \in Flows, Unwinds(w)
    PROVE  FileGoesOn
  <1>1. PICK f : f = flow[w]  OBVIOUS
  <1>2. f \in Workflow /\ FlowFits(w, f, query[w])
    BY <1>1, FlowHas
  <1>3. PICK g : g = [f EXCEPT !.at = "idle"]  OBVIOUS
  <1>4. /\ g \in Workflow /\ g.at = "idle" /\ g.gen = f.gen /\ g.run = f.run /\ g.phase = f.phase
        /\ g.id = f.id /\ g.produced = f.produced /\ g.cache = f.cache
    BY <1>2, <1>3 DEF Workflow
  <1>5. /\ flow' = [flow EXCEPT ![w] = g] /\ query' = [query EXCEPT ![w] = NoQuery]
        /\ Relayless /\ UNCHANGED <<seals, references>> /\ orphans' = orphans
    BY <1>1, <1>3 DEF Unwinds, Steps
  <1>. QED  BY <1>1, <1>2, <1>4, <1>5, RestHolds DEF FlowFits, FileInv

\* A run whose reference was published is complete.
LEMMA PublishedHolds ==
    ASSUME FileInv, NEW w \in Flows, Published(w)
    PROVE  FileGoesOn
  <1>1. PICK f : f = flow[w]  OBVIOUS
  <1>2. f \in Workflow /\ FlowFits(w, f, query[w])
    BY <1>1, FlowHas
  <1>3. PICK g : g = [f EXCEPT !.at = "idle", !.phase = "WaitingForRecipient"]  OBVIOUS
  <1>4. g \in Workflow /\ g.at = "idle" /\ g.gen = f.gen /\ g.run = f.run /\ g.phase = "WaitingForRecipient"
    <2>1. "WaitingForRecipient" \in Phases  BY DEF Phases, Terminal
    <2>. QED  BY <2>1, <1>2, <1>3 DEF Workflow
  <1>5. /\ flow' = [flow EXCEPT ![w] = Released(g)] /\ query' = [query EXCEPT ![w] = NoQuery]
        /\ Relayless /\ UNCHANGED <<seals, references>> /\ orphans' = orphans /\ f.phase \notin Terminal
    BY <1>1, <1>3 DEF Published, Steps, Live
  <1>. QED  BY <1>1, <1>2, <1>4, <1>5, ReleasedShape, RestHolds DEF FlowFits, FileInv

\* A run whose binding does not fit fails.
LEMMA BindingRejectedHolds ==
    ASSUME FileInv, NEW w \in Flows, BindingRejected(w)
    PROVE  FileGoesOn
  <1>1. PICK f : f = flow[w]  OBVIOUS
  <1>2. f \in Workflow /\ FlowFits(w, f, query[w])
    BY <1>1, FlowHas
  <1>3. PICK g : g = Fail(f, "binding")  OBVIOUS
  <1>4. /\ g \in Workflow /\ g.at = "idle" /\ g.gen = f.gen /\ g.run = f.run
        /\ g.phase = f.phase \/ (f.phase \notin Terminal /\ g.phase # "Complete")
        /\ g.id = NoFile \/ (g.id = f.id /\ g.produced = f.produced /\ g.cache = f.cache)
    BY <1>2, <1>3, FailShape
  <1>5. /\ flow' = [flow EXCEPT ![w] = g] /\ query' = [query EXCEPT ![w] = NoQuery] /\ f.at = "create"
        /\ Relayless /\ UNCHANGED <<seals, references>>
               /\ orphans' = orphans \cup {CancelRequest(query[w].id)}
        /\ query[w].stage = "done" /\ query[w].answer = "ok"
    BY <1>1, <1>3 DEF BindingRejected, Steps
  <1>6. query[w].id \in Transfers
    BY <1>2, <1>5, FlowHas DEF FlowFits, RequestFits, AnswerFits, Succeeded
  <1>7. \A p \in orphans' : RequestFits(p) /\ Underway(p)
    BY <1>5, <1>6, CancelFits DEF FileInv
  <1>. QED  BY <1>1, <1>2, <1>4, <1>5, <1>7, RestHolds DEF FlowFits

\* A file is canceled or retried over a run, which stays behind with its
\* generation.
LEMMA CancelFileHolds ==
    ASSUME FileInv, NEW w \in Flows, CancelFile(w)
    PROVE  FileGoesOn
  <1>1. PICK f : f = flow[w]  OBVIOUS
  <1>2. f \in Workflow /\ FlowFits(w, f, query[w]) /\ (w = Receiver => ReceiverFits(f))
    BY <1>1, FlowHas
  <1>3. PICK n \in Nat : n = f.gen + 1 /\ n > f.gen
    BY <1>2 DEF Workflow
  <1>4. PICK h \in Phases : h = IF Live(f) THEN "Canceled" ELSE f.phase
    BY <1>2 DEF Workflow, Phases, Terminal
  <1>5. PICK g : g = [f EXCEPT !.phase = h, !.gen = n]  OBVIOUS
  <1>6. g \in Workflow /\ g.at = f.at /\ g.run = f.run /\ g.gen = n /\ g.next = f.next
    BY <1>2, <1>5 DEF Workflow
  <1>7. PICK r : r = Released(g)  OBVIOUS
  <1>8. r \in Workflow /\ r.at = f.at /\ r.run = f.run /\ r.gen = n /\ r.next = f.next /\ r.id = NoFile
    BY <1>6, <1>7, ReleasedShape
  <1>9. PICK q : q = IF f.at \in {"publish", "published"} THEN query[w] ELSE NoQuery  OBVIOUS
  <1>10. q \in FileRequest /\ RequestFits(q) /\ AnswerFits(q) /\ q.op \in {"none", f.at}
         /\ (f.at = "publish" => q = query[w])
         /\ Own(r, q) \subseteq Own(flow[w], query[w])
    <2>1. CASE q = query[w]
      <3>1. q \in FileRequest /\ RequestFits(q) /\ AnswerFits(q)  BY <2>1, FlowHas
      <3>2. q.op \in {"none", f.at}  BY <2>1, <1>2 DEF FlowFits
      <3>3. r.id \notin Transfers  BY <1>8 DEF NoFile, Transfers
      <3>. QED  BY <2>1, <3>1, <3>2, <3>3 DEF Own
    <2>2. CASE q # query[w]
      <3>1. q = NoQuery  BY <2>2, <1>9
      <3>. QED  BY <3>1, <1>8, <1>9, NoQueryFits DEF Own, NoFile, Transfers
    <2>. QED  BY <2>1, <2>2
  <1>11. /\ flow' = [flow EXCEPT ![w] = r] /\ query' = [query EXCEPT ![w] = q]
         /\ Relayless /\ UNCHANGED <<seals, references>>
         /\ Forgets(w) \/ orphans' = orphans
    <2>1. r = Released([f EXCEPT !.phase = IF Live(f) THEN "Canceled" ELSE @, !.gen = @ + 1])
      BY <1>3, <1>4, <1>5, <1>7
    <2>2. flow' = [flow EXCEPT ![w] = r]
      BY <2>1, <1>1 DEF CancelFile, Steps
    <2>3. query' = [query EXCEPT ![w] = q]
      BY <1>1, <1>9 DEF CancelFile
    <2>. QED  BY <2>2, <2>3 DEF CancelFile
  <1>12. \A p \in orphans' : RequestFits(p) /\ Underway(p)
    BY <1>11, ForgottenFit DEF FileInv
  <1>13. r.run < r.gen
    BY <1>2, <1>3, <1>8 DEF FlowFits, Workflow
  <1>14. FlowFits(w, r, q)
    BY <1>2, <1>8, <1>10, <1>13 DEF FlowFits, Workflow
  <1>15. w = Receiver => ReceiverFits(r)
    BY <1>2, <1>8, <1>13 DEF ReceiverFits, Workflow
  <1>. QED  BY <1>1, <1>3, <1>8, <1>10, <1>11, <1>12, <1>14, <1>15, FlowPlain

\* sendFile begins a run.
LEMMA SendFileHolds ==
    ASSUME FileInv, NEW w \in Senders, SendFile(w)
    PROVE  FileGoesOn
  <1>1. PICK f : f = flow[w]  OBVIOUS
  <1>2. w \in Flows /\ w # Receiver /\ f \in Workflow /\ FlowFits(w, f, query[w])
    BY <1>1, FlowHas, FileAssumption DEF Flows
  <1>3. PICK r : r = Released(f)  OBVIOUS
  <1>4. r \in Workflow /\ r.id = NoFile /\ r.gen = f.gen
    BY <1>2, <1>3, ReleasedShape
  <1>5. PICK b : b = BeginFile(r)  OBVIOUS
  <1>6. b \in Workflow /\ b.id = NoFile /\ b.gen > f.gen /\ b.run = b.gen
    BY <1>4, <1>5, BeginShape
  <1>7. PICK g : g = [b EXCEPT !.at = "create"]  OBVIOUS
  <1>8. g \in Workflow /\ g.id = NoFile /\ g.gen > f.gen /\ g.run = g.gen /\ g.at = "create"
    BY <1>6, <1>7 DEF Workflow
  <1>9. PICK q : q = [NoQuery EXCEPT !.op = "create", !.stage = "new"]  OBVIOUS
  <1>10. /\ flow' = [flow EXCEPT ![w] = g] /\ query' = [query EXCEPT ![w] = q]
         /\ Relayless /\ UNCHANGED <<seals, references>> /\ Forgets(w) /\ Transfers # {}
    BY <1>1, <1>3, <1>5, <1>7, <1>9 DEF SendFile, Steps
  <1>11. q \in FileRequest /\ RequestFits(q) /\ AnswerFits(q) /\ q.op = "create" /\ \A k : ~Succeeded(q, k)
    BY <1>9, <1>10, CreateFits
  <1>12. FlowFits(w, g, q)
    BY <1>8, <1>11 DEF FlowFits, Workflow
  <1>13. Own(g, q) \subseteq Own(flow[w], query[w])
    BY <1>8, <1>11 DEF Own, NoFile, Transfers
  <1>14. \A p \in orphans' : RequestFits(p) /\ Underway(p)
    BY <1>2, <1>10, ForgottenFit
  <1>. QED  BY <1>1, <1>2, <1>8, <1>10, <1>11, <1>12, <1>13, <1>14, FlowPlain

\* A run goes on with a request about its transfer.
LEMMA AsksHolds ==
    ASSUME FileInv, Relayless, NEW w \in Flows, NEW g \in Workflow,
           NEW op \in {"put", "complete", "status", "chunk"}, NEW index \in Objects, NEW object \in Nat,
           op = "put" => object # 0,
           flow' = [flow EXCEPT ![w] = g], query' = [query EXCEPT ![w] = Asked(op, g.id, index, object)],
           UNCHANGED <<seals, references, orphans>>,
           g.at = op, g.id = flow[w].id, g.id # NoFile, flow[w].produced \subseteq g.produced, g.run <= g.gen,
           w = Receiver => ReceiverFits(g),
           g.phase = flow[w].phase \/ flow[w].phase \notin Terminal \/ g.gen > flow[w].gen
    PROVE  FileGoesOn
  <1>1. FlowFits(w, flow[w], query[w]) /\ g.id \in Transfers
    BY FlowHas DEF Workflow
  <1>2. PICK q : q = Asked(op, g.id, index, object)  OBVIOUS
  <1>3. q \in FileRequest /\ RequestFits(q) /\ AnswerFits(q) /\ q.op = op /\ \A k : ~Succeeded(q, k)
    BY <1>1, <1>2, AskedFits
  <1>4. FlowFits(w, g, q)
    BY <1>1, <1>3 DEF FlowFits
  <1>5. Own(g, q) \subseteq Own(flow[w], query[w])
    BY <1>3 DEF Own
  <1>. QED  BY <1>2, <1>3, <1>4, <1>5, FlowPlain DEF FileInv

\* A retry begins the next run with the transfer it has, if it has one.
LEMMA RetryFileHolds ==
    ASSUME FileInv, NEW w \in Senders, RetryFile(w)
    PROVE  FileGoesOn
  <1>1. PICK f : f = flow[w]  OBVIOUS
  <1>2. w \in Flows /\ w # Receiver /\ f \in Workflow
    BY <1>1, FlowHas, FileAssumption DEF Flows
  <1>3. PICK b : b = BeginFile(f)  OBVIOUS
  <1>4. b \in Workflow /\ b.id = f.id /\ b.gen > f.gen /\ b.run = b.gen /\ b.produced = f.produced
    BY <1>2, <1>3, BeginShape
  <1>5. PICK g : g = [b EXCEPT !.at = "status"]  OBVIOUS
  <1>6. g \in Workflow /\ g.id = f.id /\ g.gen > f.gen /\ g.run = g.gen /\ g.at = "status"
            /\ g.produced = f.produced
    BY <1>4, <1>5 DEF Workflow
  <1>7. /\ flow' = [flow EXCEPT ![w] = g] /\ query' = [query EXCEPT ![w] = Asked("status", g.id, 0, 0)]
        /\ Relayless /\ UNCHANGED <<seals, references, orphans>> /\ f.id # NoFile
    BY <1>1, <1>3, <1>5, <1>6 DEF RetryFile, Steps, AskRelay, Asked
  <1>8. g.run <= g.gen
    BY <1>6 DEF Workflow
  <1>. QED  BY <1>1, <1>2, <1>6, <1>7, <1>8, AsksHolds, FileShapes

\* The status says which objects the relay has, and the run goes on to the
\* first one it has not.
LEMMA UploadStatusHolds ==
    ASSUME FileInv, NEW w \in Flows, UploadStatus(w)
    PROVE  FileGoesOn
  <1>1. PICK f : f = flow[w]  OBVIOUS
  <1>2. PICK q : q = query[w]  OBVIOUS
  <1>3. f \in Workflow /\ q \in FileRequest /\ FlowFits(w, f, q) /\ w # Receiver
    BY <1>1, <1>2, FlowHas DEF UploadStatus
  <1>4. PICK g : g = [f EXCEPT !.phase = "Uploading"]  OBVIOUS
  <1>5. /\ g \in Workflow /\ g.id = f.id /\ g.run = f.run /\ g.gen = f.gen /\ g.produced = f.produced
    <2>1. "Uploading" \in Phases  BY DEF Phases
    <2>. QED  BY <2>1, <1>3, <1>4 DEF Workflow
  <1>6. /\ Uploads(w, g, q.view) /\ Live(f) /\ f.at \in {"status", "put"}
        /\ Relayless /\ UNCHANGED <<seals, references, orphans>>
    BY <1>1, <1>2, <1>4 DEF UploadStatus
  <1>7. f.run = f.gen /\ f.phase \notin Terminal /\ f.id # NoFile /\ f.run <= f.gen
    BY <1>3, <1>6 DEF Live, FlowFits
  <1>8. CASE Missing(q.view) = {}
    <2>1. PICK h : h = [g EXCEPT !.at = "complete"]  OBVIOUS
    <2>2. h \in Workflow /\ h.id = f.id /\ h.run = f.run /\ h.gen = f.gen /\ h.produced = f.produced
              /\ h.at = "complete"
      BY <2>1, <1>5 DEF Workflow
    <2>3. flow' = [flow EXCEPT ![w] = h] /\ query' = [query EXCEPT ![w] = Asked("complete", h.id, 0, 0)]
      <3>1. Steps(w, h) /\ AskRelay(w, "complete", 0, 0)
        BY <1>6, <1>8, <2>1 DEF Uploads
      <3>2. flow[w].id = h.id
        BY <1>1, <2>2
      <3>. QED  BY <3>1, <3>2 DEF Steps, AskRelay, Asked
    <2>. QED  BY <1>1, <1>3, <1>6, <1>7, <2>2, <2>3, AsksHolds, FileShapes
  <1>9. CASE Missing(q.view) # {}
    <2>1. Missing(q.view) \subseteq Objects /\ Objects \subseteq Nat /\ Objects \subseteq 0 .. ChunkCount + 1
      BY FileAssumption DEF Missing, Objects
    <2>2. PICK n \in Objects : n \in 0 .. ChunkCount + 1 /\ n = Min(Missing(q.view))
      BY <2>1, <1>9, MinIsIn
    <2>3. PICK h : h = [g EXCEPT !.at = "seal", !.next = n]  OBVIOUS
    <2>4. h \in Workflow /\ h.id = f.id /\ h.run = f.run /\ h.gen = f.gen /\ h.produced = f.produced
              /\ h.at = "seal" /\ h.next \in Objects
      BY <2>2, <2>3, <1>5 DEF Workflow
    <2>5. flow' = [flow EXCEPT ![w] = h] /\ query' = [query EXCEPT ![w] = NoQuery]
      BY <1>6, <1>9, <2>2, <2>3 DEF Uploads, Steps
    <2>6. FlowFits(w, h, NoQuery) /\ Own(h, NoQuery) \subseteq Own(flow[w], query[w])
      BY <1>1, <1>3, <1>7, <2>4, NoQueryFits DEF FlowFits, Own
    <2>. QED  BY <1>1, <1>3, <1>6, <1>7, <2>4, <2>5, <2>6, NoQueryFits, FlowPlain DEF FileInv
  <1>. QED  BY <1>8, <1>9

\* A transfer that is complete is published next.
LEMMA CompletedHolds ==
    ASSUME FileInv, NEW w \in Senders, Completed(w)
    PROVE  FileGoesOn
  <1>1. PICK f : f = flow[w]  OBVIOUS
  <1>2. PICK q : q = query[w]  OBVIOUS
  <1>3. /\ f \in Workflow /\ q \in FileRequest /\ FlowFits(w, f, q) /\ w # Receiver /\ w \in Flows
        /\ RequestFits(q) /\ AnswerFits(q)
    BY <1>1, <1>2, FlowHas, FileAssumption DEF Flows
  <1>4. PICK g : g = [f EXCEPT !.at = "publish"]  OBVIOUS
  <1>5. /\ g \in Workflow /\ g.id = f.id /\ g.run = f.run /\ g.gen = f.gen /\ g.produced = f.produced
               /\ g.at = "publish"
        /\ g.phase = f.phase
    BY <1>3, <1>4 DEF Workflow
  <1>6. PICK p : p = [NoQuery EXCEPT !.id = q.id]  OBVIOUS
  <1>7. p \in FileRequest /\ p.op = "none" /\ p.stage = "none" /\ p.id = q.id
    <2>1. q.id \in Transfers \cup {NoFile}  BY <1>3 DEF FileRequest
    <2>2. NoQuery \in FileRequest /\ NoQuery.op = "none" /\ NoQuery.stage = "none"  BY NoQueryFits
    <2>. HIDE DEF NoQuery
    <2>. QED  BY <2>1, <2>2, <1>6 DEF FileRequest
  <1>8. /\ flow' = [flow EXCEPT ![w] = g] /\ query' = [query EXCEPT ![w] = p] /\ f.at = "complete"
        /\ q.stage = "done" /\ q.answer = "ok" /\ Live(f)
        /\ Relayless /\ UNCHANGED <<seals, references, orphans>>
    BY <1>1, <1>2, <1>4, <1>6 DEF Completed, Steps
  <1>9. q.op = "complete"
    BY <1>3, <1>8 DEF FlowFits, RequestFits
  <1>10. q.id \in Transfers /\ file[q.id].state \in Settled
    BY <1>3, <1>8, <1>9 DEF AnswerFits, Succeeded
  <1>11. RequestFits(p) /\ AnswerFits(p) /\ \A k : ~Succeeded(p, k)
    BY <1>7 DEF RequestFits, AnswerFits, Succeeded, Underway
  <1>12. FlowFits(w, g, p) /\ Own(g, p) \subseteq Own(flow[w], query[w])
    BY <1>1, <1>3, <1>5, <1>7, <1>10, <1>11 DEF FlowFits, Own
  <1>. QED  BY <1>1, <1>3, <1>5, <1>7, <1>8, <1>11, <1>12, FlowPlain DEF FileInv

\* The ciphertexts kept for a retry are lost: what was sealed is still known as
\* sealed.
LEMMA CacheLostHolds ==
    ASSUME FileInv, NEW w \in Senders, CacheLost(w)
    PROVE  FileGoesOn
  <1>1. PICK f : f = flow[w]  OBVIOUS
  <1>2. PICK q : q = query[w]  OBVIOUS
  <1>3. /\ f \in Workflow /\ q \in FileRequest /\ FlowFits(w, f, q) /\ w # Receiver /\ w \in Flows
        /\ RequestFits(q) /\ AnswerFits(q)
    BY <1>1, <1>2, FlowHas, FileAssumption DEF Flows
  <1>4. PICK g : g = [f EXCEPT !.cache = NoObjects]  OBVIOUS
  <1>5. /\ g \in Workflow /\ g.id = f.id /\ g.run = f.run /\ g.gen = f.gen /\ g.produced = f.produced
               /\ g.at = f.at
        /\ g.phase = f.phase /\ g.next = f.next
    <2>1. NoObjects \in ObjectMap  BY FileShapes
    <2>. QED  BY <2>1, <1>3, <1>4 DEF Workflow
  <1>6. /\ flow' = [flow EXCEPT ![w] = g] /\ query' = [query EXCEPT ![w] = q]
        /\ Relayless /\ UNCHANGED <<seals, references, orphans>>
    BY <1>1, <1>2, <1>4 DEF CacheLost, Steps, FileInv
  <1>7. FlowFits(w, g, q) /\ Own(g, q) \subseteq Own(flow[w], query[w])
    BY <1>1, <1>2, <1>3, <1>5 DEF FlowFits, Own
  <1>. QED  BY <1>1, <1>3, <1>5, <1>6, <1>7, FlowPlain DEF FileInv

\* The reference is published of a transfer that is settled.
LEMMA PublishHolds ==
    ASSUME FileInv, NEW w \in Senders, Publish(w) \/ PublishFails(w)
    PROVE  FileGoesOn
  <1>1. PICK f : f = flow[w]  OBVIOUS
  <1>2. PICK q : q = query[w]  OBVIOUS
  <1>3. /\ f \in Workflow /\ q \in FileRequest /\ FlowFits(w, f, q) /\ w # Receiver /\ w \in Flows
        /\ RequestFits(q) /\ AnswerFits(q)
    BY <1>1, <1>2, FlowHas, FileAssumption DEF Flows
  <1>4. /\ f.at = "publish" /\ references' \subseteq references \cup {q.id}
        /\ Relayless /\ UNCHANGED <<seals, orphans>>
    BY <1>1, <1>2 DEF Publish, PublishFails
  <1>5. references' \subseteq Transfers /\ \A t \in references' : file[t].state \in Settled
    BY <1>3, <1>4 DEF FlowFits, FileInv
  <1>6. ASSUME NEW g \in Workflow, NEW p \in {q, NoQuery}, flow' = [flow EXCEPT ![w] = g], query' = [query EXCEPT ![w] = p],
               g.at = "published" \/ (g.at = "idle" /\ p = NoQuery), g.run = f.run, g.gen = f.gen,
               g.phase = f.phase \/ f.phase \notin Terminal,
               g.id = NoFile \/ (g.id = f.id /\ g.produced = f.produced)
        PROVE FileGoesOn
    <2>1. q.op = "none"
      BY <1>3, <1>4 DEF FlowFits, FileRequest
    <2>2. p \in FileRequest /\ RequestFits(p) /\ AnswerFits(p) /\ p.op = "none"
      BY <1>3, <2>1, NoQueryFits
    <2>3. \A k : Succeeded(p, k) => p = q
      BY NoQueryFits
    <2>4. FlowFits(w, g, p) /\ Own(g, p) \subseteq Own(flow[w], query[w])
      BY <1>1, <1>2, <1>3, <1>6, <2>2, <2>3 DEF FlowFits, Own, NoFile, Transfers
    <2>5. AnswerFits(p)' /\ FlowFits(w, g, p)'
      BY <2>2, <2>4, <1>4 DEF AnswerFits, Succeeded, FlowFits, Relayless, Unwritten
    <2>6. \A o \in orphans' : RequestFits(o) /\ Underway(o)
      BY <1>4 DEF FileInv
    <2>7. g.phase = flow[w].phase \/ flow[w].phase \notin Terminal \/ g.gen > flow[w].gen
      BY <1>1, <1>6
    <2>8. seals' = seals /\ seals \in [Transfers -> ObjectMap]
              /\ \A t \in Transfers : \A i \in Objects : seals[t][i] <= 1
      BY <1>4 DEF FileInv
    <2>. QED  BY <1>3, <1>4, <1>5, <1>6, <2>2, <2>4, <2>5, <2>6, <2>7, <2>8, FlowMoves
  <1>7. CASE Publish(w)
    <2>1. PICK g : g = [f EXCEPT !.at = "published"]  OBVIOUS
    <2>2. /\ g \in Workflow /\ g.at = "published" /\ g.run = f.run /\ g.gen = f.gen /\ g.phase = f.phase
          /\ g.id = f.id /\ g.produced = f.produced
      BY <1>3, <2>1 DEF Workflow
    <2>3. flow' = [flow EXCEPT ![w] = g] /\ query' = [query EXCEPT ![w] = q]
      BY <1>1, <1>2, <1>7, <2>1 DEF Publish, Steps, FileInv
    <2>. QED  BY <1>6, <2>2, <2>3
  <1>8. CASE PublishFails(w)
    <2>1. PICK g : g = Fail(f, "network")  OBVIOUS
    <2>2. /\ g \in Workflow /\ g.at = "idle" /\ g.run = f.run /\ g.gen = f.gen
          /\ g.phase = f.phase \/ f.phase \notin Terminal
          /\ g.id = NoFile \/ (g.id = f.id /\ g.produced = f.produced)
      BY <1>3, <2>1, FailShape
    <2>3. flow' = [flow EXCEPT ![w] = g] /\ query' = [query EXCEPT ![w] = NoQuery]
      BY <1>1, <1>8, <2>1 DEF PublishFails, Steps
    <2>. QED  BY <1>6, <2>2, <2>3
  <1>. QED  BY <1>7, <1>8

\* A created transfer belongs to the run that asked for it, and nothing of it
\* was sealed yet.
LEMMA CreatedHolds ==
    ASSUME FileInv, NEW w \in Senders, Created(w)
    PROVE  FileGoesOn
  <1>1. PICK f : f = flow[w]  OBVIOUS
  <1>2. PICK q : q = query[w]  OBVIOUS
  <1>3. /\ f \in Workflow /\ q \in FileRequest /\ FlowFits(w, f, q) /\ w # Receiver /\ w \in Flows
        /\ RequestFits(q) /\ AnswerFits(q)
    BY <1>1, <1>2, FlowHas, FileAssumption DEF Flows
  <1>4. PICK t : t = q.id  OBVIOUS
  <1>5. /\ f.at = "create" /\ q.stage = "done" /\ q.answer = "ok"
        /\ seals' = [seals EXCEPT ![t][0] = @ + 1]
        /\ flow' = [flow EXCEPT ![w] = [f EXCEPT !.id = t, !.produced = {0},
                      !.cache = [NoObjects EXCEPT ![0] = seals[t][0] + 1], !.at = "status"]]
        /\ query' = [query EXCEPT ![w] = [CancelRequest(t) EXCEPT !.op = "status"]]
        /\ Relayless /\ UNCHANGED <<orphans, references>>
    BY <1>1, <1>2, <1>4 DEF Created
  <1>6. Succeeded(q, "create")
    BY <1>3, <1>5 DEF FlowFits, RequestFits, Succeeded
  <1>7. t \in Transfers /\ file[t].state # "unused" /\ seals[t] = NoObjects /\ t \in Own(flow[w], query[w])
    BY <1>2, <1>3, <1>4, <1>6 DEF AnswerFits, Own
  <1>8. seals[t][0] = 0 /\ seals \in [Transfers -> ObjectMap] /\ 0 \in Objects
    BY <1>7, FileShapes DEF FileInv
  <1>9. /\ seals' \in [Transfers -> ObjectMap] /\ \A u \in Transfers \ {t} : seals'[u] = seals[u]
        /\ \A i \in Objects : seals'[t][i] = IF i = 0 THEN 1 ELSE 0
    <2>1. PICK h : h = [seals[t] EXCEPT ![0] = 1]  OBVIOUS
    <2>2. h \in ObjectMap /\ \A i \in Objects : h[i] = IF i = 0 THEN 1 ELSE 0
      BY <2>1, <1>7, FileShapes DEF ObjectMap
    <2>3. seals' = [seals EXCEPT ![t] = h]
      BY <1>5, <1>8, <2>1
    <2>. QED  BY <2>2, <2>3, <1>7, <1>8
  <1>10. PICK c \in ObjectMap : c = [NoObjects EXCEPT ![0] = seals[t][0] + 1]
    <2>1. PICK n \in Nat : n = seals[t][0] + 1  BY <1>8
    <2>2. [NoObjects EXCEPT ![0] = n] \in ObjectMap  BY FileShapes DEF ObjectMap
    <2>. QED  BY <2>1, <2>2
  <1>11. PICK g : g = [f EXCEPT !.id = t, !.produced = {0}, !.cache = c, !.at = "status"]  OBVIOUS
  <1>12. /\ g \in Workflow /\ g.id = t /\ g.run = f.run /\ g.gen = f.gen /\ g.produced = {0}
                /\ g.at = "status"
         /\ g.phase = f.phase
    BY <1>3, <1>7, <1>8, <1>11 DEF Workflow
  <1>13. PICK p : p = [CancelRequest(t) EXCEPT !.op = "status"]  OBVIOUS
  <1>14. p \in FileRequest /\ RequestFits(p) /\ p.op = "status" /\ \A k : ~Succeeded(p, k)
    BY <1>7, <1>13, CancelFits
  <1>15. flow' = [flow EXCEPT ![w] = g] /\ query' = [query EXCEPT ![w] = p]
    BY <1>5, <1>10, <1>11, <1>13
  <1>16. AnswerFits(p)'
    BY <1>14 DEF AnswerFits, Succeeded
  <1>17. FlowFits(w, g, p)'
    <2>1. g.run <= g.gen /\ g.id # NoFile /\ g.id \in Transfers
      BY <1>3, <1>7, <1>12 DEF FlowFits, NoFile, Transfers
    <2>2. file' = file
      BY <1>5 DEF Relayless, Unwritten
    <2>. QED  BY <2>1, <2>2, <1>7, <1>9, <1>12, <1>14 DEF FlowFits
  <1>18. Own(g, p) \subseteq Own(flow[w], query[w])
    BY <1>7, <1>12, <1>14 DEF Own
  <1>19. \A u \in Transfers : \A i \in Objects : seals'[u][i] <= 1
    BY <1>9 DEF FileInv
  <1>20. \A u \in Transfers : seals'[u] = seals[u] \/ (w \in Senders /\ u \in Own(flow[w], query[w]))
    BY <1>7, <1>9
  <1>. QED  BY <1>1, <1>3, <1>5, <1>9, <1>12, <1>14, <1>15, <1>16, <1>17, <1>18, <1>19, <1>20, FlowMoves
       DEF FileInv

\* An object is sealed once and kept, and the one that was kept is sent again.
LEMMA UploadObjectHolds ==
    ASSUME FileInv, NEW w \in Senders, UploadObject(w)
    PROVE  FileGoesOn
  <1>1. PICK f : f = flow[w]  OBVIOUS
  <1>2. PICK q : q = query[w]  OBVIOUS
  <1>3. /\ f \in Workflow /\ q \in FileRequest /\ FlowFits(w, f, q) /\ w # Receiver /\ w \in Flows
        /\ RequestFits(q) /\ AnswerFits(q)
    BY <1>1, <1>2, FlowHas, FileAssumption DEF Flows
  <1>4. PICK i : i = f.next  OBVIOUS
  <1>5. PICK t : t = f.id  OBVIOUS
  <1>6. PICK object : object = IF f.cache[i] # 0 THEN f.cache[i] ELSE seals[t][i] + 1  OBVIOUS
  <1>7. /\ f.at = "seal" /\ Live(f) /\ (f.cache[i] # 0 \/ i \notin f.produced)
        /\ flow' = [flow EXCEPT ![w] = [f EXCEPT !.produced = @ \cup {i}, !.cache[i] = object, !.at = "put", !.phase = "Uploading"]]
        /\ seals' = IF f.cache[i] # 0 THEN seals ELSE [seals EXCEPT ![t][i] = object]
        /\ query' = [query EXCEPT ![w] = Asked("put", t, i, object)]
        /\ Relayless /\ UNCHANGED <<orphans, references>>
    BY <1>1, <1>4, <1>5, <1>6 DEF UploadObject, Steps, AskRelay, Asked
  <1>8. /\ i \in Objects /\ t \in Transfers /\ t # NoFile /\ f.run = f.gen /\ f.run <= f.gen
               /\ f.phase \notin Terminal
        /\ file[t].state # "unused" /\ \A j \in Objects \ f.produced : seals[t][j] = 0
    BY <1>3, <1>4, <1>5, <1>7 DEF FlowFits, Live, Workflow
  <1>9. f.cache \in ObjectMap /\ f.produced \in SUBSET Objects /\ seals \in [Transfers -> ObjectMap]
    BY <1>3 DEF Workflow, FileInv
  <1>10. PICK n \in Nat \ {0} : n = object /\ (f.cache[i] = 0 => n = 1)
    <2>1. CASE f.cache[i] # 0
      BY <2>1, <1>6, <1>8, <1>9 DEF ObjectMap
    <2>2. CASE f.cache[i] = 0
      <3>1. seals[t][i] = 0  BY <2>2, <1>7, <1>8
      <3>2. object = 0 + 1  BY <2>2, <3>1, <1>6
      <3>. QED  BY <3>2, <2>2
    <2>. QED  BY <2>1, <2>2
  <1>11. PICK c \in ObjectMap : c = [f.cache EXCEPT ![i] = n]
    BY <1>9 DEF ObjectMap
  <1>12. PICK s \in SUBSET Objects : s = f.produced \cup {i}
    BY <1>8, <1>9
  <1>13. PICK g : g = [f EXCEPT !.produced = s, !.cache = c, !.at = "put", !.phase = "Uploading"]  OBVIOUS
  <1>14. g \in Workflow /\ g.id = t /\ g.run = f.run /\ g.gen = f.gen /\ g.produced = s /\ g.at = "put"
    <2>1. "Uploading" \in Phases  BY DEF Phases
    <2>. QED  BY <2>1, <1>3, <1>5, <1>13 DEF Workflow
  <1>15. flow' = [flow EXCEPT ![w] = g]
    BY <1>7, <1>10, <1>11, <1>12, <1>13
  <1>16. PICK p : p = Asked("put", t, i, n)  OBVIOUS
  <1>17. p \in FileRequest /\ RequestFits(p) /\ p.op = "put" /\ \A k : ~Succeeded(p, k)
    BY <1>8, <1>16, AskedFits
  <1>18. query' = [query EXCEPT ![w] = p]
    BY <1>7, <1>10, <1>16
  <1>19. /\ seals' \in [Transfers -> ObjectMap] /\ \A u \in Transfers \ {t} : seals'[u] = seals[u]
         /\ \A j \in Objects \ {i} : seals'[t][j] = seals[t][j]
         /\ seals'[t][i] <= 1
    <2>1. CASE f.cache[i] # 0
      <3>1. seals' = seals  BY <2>1, <1>7
      <3>. QED  BY <3>1, <1>8, <1>9 DEF FileInv
    <2>2. CASE f.cache[i] = 0
      <3>1. PICK h : h = [seals[t] EXCEPT ![i] = 1]  OBVIOUS
      <3>2. h \in ObjectMap /\ h[i] = 1 /\ \A j \in Objects \ {i} : h[j] = seals[t][j]
        BY <3>1, <1>8, <1>9 DEF ObjectMap
      <3>3. seals' = [seals EXCEPT ![t] = h]
        BY <2>2, <1>7, <1>10, <3>1
      <3>. QED  BY <3>2, <3>3, <1>8, <1>9
    <2>. QED  BY <2>1, <2>2
  <1>20. AnswerFits(p)'
    BY <1>17 DEF AnswerFits, Succeeded
  <1>21. FlowFits(w, g, p)'
    <2>1. file' = file
      BY <1>7 DEF Relayless, Unwritten
    <2>2. \A j \in Objects \ s : seals'[t][j] = 0
      BY <1>8, <1>12, <1>19
    <2>. QED  BY <2>1, <2>2, <1>8, <1>14, <1>17 DEF FlowFits
  <1>22. t \in Own(flow[w], query[w]) /\ Own(g, p) \subseteq Own(flow[w], query[w])
    BY <1>1, <1>5, <1>8, <1>14, <1>17 DEF Own
  <1>23. \A u \in Transfers : \A j \in Objects : seals'[u][j] <= 1
    BY <1>19, <1>8 DEF FileInv
  <1>24. \A u \in Transfers : seals'[u] = seals[u] \/ (w \in Senders /\ u \in Own(flow[w], query[w]))
    BY <1>19, <1>22
  <1>25. g.phase = flow[w].phase \/ flow[w].phase \notin Terminal \/ g.gen > flow[w].gen
    BY <1>1, <1>8
  <1>. QED  BY <1>3, <1>7, <1>14, <1>15, <1>17, <1>18, <1>19, <1>20, <1>21, <1>22, <1>23, <1>24, <1>25,
       FlowMoves
              DEF FileInv

\* The receiver begins a run.
LEMMA ReceiveFileHolds ==
    ASSUME FileInv, ReceiveFile
    PROVE  FileGoesOn
  <1>1. PICK t \in references : /\ flow[Receiver].at = "idle"
          /\ flow' = [flow EXCEPT ![Receiver] = [BeginFile(flow[Receiver]) EXCEPT !.at = "status", !.id = t, !.next = 1, !.cache = NoObjects]]
          /\ query' = [query EXCEPT ![Receiver] = [CancelRequest(t) EXCEPT !.op = "status"]]
          /\ Relayless /\ UNCHANGED <<orphans, seals, references>>
    BY DEF ReceiveFile, Steps
  <1>2. PICK w \in Flows : w = Receiver  BY DEF Flows
  <1>3. PICK f : f = flow[w]  OBVIOUS
  <1>4. f \in Workflow /\ FlowFits(w, f, query[w]) /\ ReceiverFits(f) /\ w \notin Senders
    BY <1>2, <1>3, FlowHas
  <1>5. t \in Transfers /\ file[t].state # "unused" /\ t # NoFile
    <2>1. t \in Transfers /\ file[t].state \in Settled  BY DEF FileInv
    <2>. QED  BY <2>1 DEF Settled, NoFile, Transfers
  <1>6. PICK b : b = BeginFile(f)  OBVIOUS
  <1>7. b \in Workflow /\ b.gen > f.gen /\ b.run = b.gen /\ b.phase = "Preparing"
    BY <1>4, <1>6, BeginShape
  <1>8. PICK g : g = [b EXCEPT !.at = "status", !.id = t, !.next = 1, !.cache = NoObjects]  OBVIOUS
  <1>9. /\ g \in Workflow /\ g.id = t /\ g.next = 1 /\ g.gen > f.gen /\ g.run = g.gen /\ g.at = "status"
        /\ g.phase = "Preparing" /\ g.run <= g.gen
    <2>1. 1 \in 0 .. ChunkCount + 1 /\ NoObjects \in ObjectMap  BY FileShapes, FileAssumption
    <2>2. t \in Transfers \cup {NoFile}  BY <1>5
    <2>3. g \in Workflow  BY <2>1, <2>2, <1>7, <1>8 DEF Workflow
    <2>4. g.id = t /\ g.next = 1 /\ g.gen = b.gen /\ g.run = b.run /\ g.at = "status" /\ g.phase = b.phase
      BY <1>7, <1>8 DEF Workflow
    <2>5. g.gen \in Nat  BY <2>3 DEF Workflow
    <2>. QED  BY <2>3, <2>4, <2>5, <1>7
  <1>10. PICK q : q = [CancelRequest(t) EXCEPT !.op = "status"]  OBVIOUS
  <1>11. q \in FileRequest /\ RequestFits(q) /\ AnswerFits(q) /\ q.op = "status" /\ \A k : ~Succeeded(q, k)
    BY <1>5, <1>10, CancelFits
  <1>12. flow' = [flow EXCEPT ![w] = g] /\ query' = [query EXCEPT ![w] = q]
    BY <1>1, <1>2, <1>3, <1>6, <1>8, <1>10
  <1>13. FlowFits(w, g, q)
    BY <1>4, <1>5, <1>9, <1>11 DEF FlowFits
  <1>14. ReceiverFits(g)
    BY <1>9 DEF ReceiverFits
  <1>15. Relayless /\ UNCHANGED <<seals, references>> /\ \A p \in orphans' : RequestFits(p) /\ Underway(p)
    BY <1>1 DEF FileInv
  <1>. QED  BY <1>3, <1>4, <1>9, <1>11, <1>12, <1>13, <1>14, <1>15, FlowPlain

\* A chunk is written after those before it, so the file is complete when the
\* last one is.
LEMMA ReceiveChunkHolds ==
    ASSUME FileInv, ReceiveChunk
    PROVE  FileGoesOn
  <1>1. PICK w \in Flows : w = Receiver  BY DEF Flows
  <1>2. PICK f : f = flow[w]  OBVIOUS
  <1>3. PICK q : q = query[w]  OBVIOUS
  <1>4. /\ f \in Workflow /\ q \in FileRequest /\ FlowFits(w, f, q) /\ ReceiverFits(f) /\ w \notin Senders
        /\ RequestFits(q) /\ AnswerFits(q)
    BY <1>1, <1>2, <1>3, FlowHas
  <1>5. PICK got : got = IF f.at = "chunk" THEN [f EXCEPT !.cache[f.next] = q.object, !.next = @ + 1, !.phase = "Downloading"]
                         ELSE [f EXCEPT !.at = "chunk", !.phase = "Downloading"]
    OBVIOUS
  <1>6. /\ f.at \in {"status", "chunk"} /\ Live(f) /\ q.stage = "done" /\ q.answer = "ok"
        /\ IF got.next > ChunkCount
           THEN /\ flow' = [flow EXCEPT ![w] = [got EXCEPT !.at = "idle", !.phase = "Complete"]]
                /\ query' = [query EXCEPT ![w] = NoQuery]
           ELSE /\ flow' = [flow EXCEPT ![w] = got]
                /\ query' = [query EXCEPT ![w] = Asked("chunk", f.id, got.next, 0)]
        /\ Relayless /\ UNCHANGED <<orphans, seals, references>>
    BY <1>1, <1>2, <1>3, <1>5 DEF ReceiveChunk, Steps, AskRelay, Asked
  <1>7. f.run = f.gen /\ f.run <= f.gen /\ f.phase \notin Terminal /\ f.id # NoFile
    BY <1>4, <1>6 DEF Live, FlowFits
  <1>8. "Downloading" \in Phases /\ "Complete" \in Phases
    BY DEF Phases, Terminal
  <1>9. /\ got \in Workflow /\ got.at = "chunk" /\ got.id = f.id /\ got.run = f.run /\ got.gen = f.gen
        /\ got.produced = f.produced /\ got.next \in 1 .. ChunkCount + 1 /\ got.phase = "Downloading"
        /\ \A i \in Chunks : i < got.next => got.cache[i] # 0
    <2>1. CASE f.at = "chunk"
      <3>1. q.object \in Nat /\ q.object # 0
        BY <2>1, <1>4, <1>6 DEF AnswerFits, Succeeded, FlowFits, RequestFits, FileRequest
      <3>2. /\ f.next \in Chunks /\ f.next \in Objects /\ f.cache \in ObjectMap
            /\ \A i \in Chunks : i < f.next => f.cache[i] # 0
        BY <2>1, <1>4, <1>7, FileShapes DEF ReceiverFits, Workflow
      <3>3. PICK c : c = [f.cache EXCEPT ![f.next] = q.object]  OBVIOUS
      <3>4. c \in ObjectMap /\ c[f.next] # 0 /\ \A i \in Objects \ {f.next} : c[i] = f.cache[i]
        BY <3>1, <3>2, <3>3 DEF ObjectMap
      <3>5. PICK n \in 1 .. ChunkCount + 1 : n = f.next + 1
        BY <3>2, FileAssumption DEF Chunks
      <3>6. got = [f EXCEPT !.cache = c, !.next = n, !.phase = "Downloading"]
        BY <2>1, <1>5, <3>3, <3>5
      <3>7. n \in 0 .. ChunkCount + 1
        BY <3>5, FileAssumption
      <3>8. got \in Workflow /\ got.at = "chunk" /\ got.id = f.id /\ got.run = f.run /\ got.gen = f.gen
            /\ got.produced = f.produced /\ got.next = n /\ got.cache = c /\ got.phase = "Downloading"
        BY <3>4, <3>6, <3>7, <1>4, <1>8, <2>1 DEF Workflow
      <3>9. \A i \in Chunks : i < n => c[i] # 0
        BY <3>2, <3>4, <3>5, FileShapes DEF Chunks
      <3>. QED  BY <3>5, <3>8, <3>9
    <2>2. CASE f.at = "status"
      <3>1. got = [f EXCEPT !.at = "chunk", !.phase = "Downloading"] /\ f.next = 1
        BY <2>2, <1>4, <1>5 DEF ReceiverFits
      <3>2. got \in Workflow /\ got.at = "chunk" /\ got.id = f.id /\ got.run = f.run /\ got.gen = f.gen
            /\ got.produced = f.produced /\ got.next = 1 /\ got.phase = "Downloading"
        BY <3>1, <1>4, <1>8 DEF Workflow
      <3>3. 1 \in 1 .. ChunkCount + 1 /\ \A i \in Chunks : ~(i < 1)
        BY FileAssumption DEF Chunks
      <3>. QED  BY <3>2, <3>3
    <2>. QED  BY <2>1, <2>2, <1>6
  <1>10. \A p \in orphans' : RequestFits(p) /\ Underway(p)
    BY <1>6 DEF FileInv
  <1>11. CASE got.next > ChunkCount
    <2>1. PICK g : g = [got EXCEPT !.at = "idle", !.phase = "Complete"]  OBVIOUS
    <2>2. /\ g \in Workflow /\ g.at = "idle" /\ g.id = f.id /\ g.run = f.run /\ g.gen = f.gen
          /\ g.cache = got.cache
      BY <2>1, <1>8, <1>9 DEF Workflow
    <2>3. \A i \in Chunks : g.cache[i] # 0
      BY <2>2, <1>9, <1>11, FileAssumption DEF Chunks
    <2>4. ReceiverFits(g)
      BY <2>2, <2>3 DEF ReceiverFits
    <2>5. FlowFits(w, g, NoQuery)
      BY <2>2, <1>4, <1>7, NoQueryFits DEF FlowFits
    <2>6. flow' = [flow EXCEPT ![w] = g] /\ query' = [query EXCEPT ![w] = NoQuery]
      BY <2>1, <1>6, <1>11
    <2>. QED  BY <2>2, <2>4, <2>5, <2>6, <1>2, <1>4, <1>6, <1>7, <1>10, NoQueryFits, FlowPlain
  <1>12. CASE ~(got.next > ChunkCount)
    <2>1. got.next \in Chunks
      BY <1>9, <1>12, FileAssumption DEF Chunks
    <2>2. ReceiverFits(got)
      BY <2>1, <1>4, <1>9 DEF ReceiverFits
    <2>3. got.phase = flow[w].phase \/ flow[w].phase \notin Terminal \/ got.gen > flow[w].gen
      BY <1>2, <1>7
    <2>4. flow' = [flow EXCEPT ![w] = got]
              /\ query' = [query EXCEPT ![w] = Asked("chunk", got.id, got.next, 0)]
      BY <1>6, <1>9, <1>12
    <2>5. got.next \in Objects /\ got.run <= got.gen
      BY <2>1, <1>7, <1>9, FileShapes
    <2>. QED  BY <2>1, <2>2, <2>3, <2>4, <2>5, <1>2, <1>6, <1>7, <1>9, AsksHolds
  <1>. QED  BY <1>11, <1>12

\* Every step keeps the invariant, and what has ended stays ended.
LEMMA FileStepHolds ==
    ASSUME FileInv, [FileNext]_fileVars
    PROVE  FileGoesOn
  <1>1. CASE UNCHANGED fileVars
    <2>1. LedgerMoves
      BY <1>1, Unmoved DEF fileVars, FileInv, Unwritten
    <2>2. \A q \in orphans' : RequestFits(q)' /\ Underway(q)
      BY <2>1, <1>1, RequestKeeps DEF fileVars, FileInv, LedgerFits
    <2>. QED  BY <2>1, <2>2, <1>1, RelayAlone DEF fileVars, FileInv
  <1>2. ASSUME NEW w \in Flows, RelayServes(w) \/ RelayDenies(w) \/ RequestLost(w) \/ AnswerLostToNetwork(w)
                                 \/ CancelFile(w) \/ RunFails(w) \/ Unwinds(w)
        PROVE FileGoesOn
    BY <1>2, ServesHolds, LosesHolds, CancelFileHolds, RunFailsHolds, UnwindsHolds
  <1>3. ASSUME NEW w \in Senders,
               \/ SendFile(w) \/ Created(w) \/ BindingRejected(w) \/ RetryFile(w) \/ UploadStatus(w)
               \/ UploadObject(w) \/ Completed(w) \/ Publish(w) \/ PublishFails(w) \/ Published(w)
                      \/ CacheLost(w)
        PROVE FileGoesOn
    <2>1. w \in Flows  BY DEF Flows
    <2>. QED  BY <1>3, <2>1, SendFileHolds, CreatedHolds, BindingRejectedHolds, RetryFileHolds,
         UploadStatusHolds,
              UploadObjectHolds, CompletedHolds, PublishHolds, PublishedHolds, CacheLostHolds
  <1>. QED  BY <1>1, <1>2, <1>3, ReceiveFileHolds, ReceiveChunkHolds, OrphanHolds, TimeHolds DEF FileNext

\* No transfer and no run.
LEMMA FileInitHolds == FileInit => FileInv
  <1> SUFFICES ASSUME FileInit PROVE FileInv  OBVIOUS
  <1>1. LedgerFits
    <2>1. \A t \in Transfers : file[t] = Unused /\ bytes[t] = NoObjects
      BY DEF FileInit
    <2>2. \A t \in Transfers : EntryFits(t)
      BY <2>1, FileShapes DEF EntryFits, Unused, Whole
    <2>3. ReservedIn(file) = 0
      <3>1. {t \in Transfers : file[t].reserved} = {}
        BY <2>1 DEF Unused
      <3>. QED  BY <3>1, FS_EmptySet DEF ReservedIn
    <2>. QED  BY <2>2, <2>3, FileShapes, FileAssumption DEF LedgerFits, FileInit
  <1>2. query \in [Flows -> FileRequest] /\ flow \in [Flows -> Workflow] /\ seals \in [Transfers -> ObjectMap]
        /\ references = {} /\ overdue = {} /\ orphans = {}
    BY FileShapes DEF FileInit
  <1>3. \A w \in Flows : query[w] = NoQuery /\ flow[w] = NewFlow
    BY DEF FileInit
  <1>4. \A w \in Flows : FlowFits(w, NewFlow, NoQuery)
    BY NoQueryFits DEF FlowFits, NewFlow
  <1>5. ReceiverFits(flow[Receiver])
    BY <1>3 DEF ReceiverFits, NewFlow, Flows
  <1>6. \A w \in Senders : Own(flow[w], query[w]) = {}
    BY <1>3, NoQueryFits DEF Own, NewFlow, NoFile, Transfers, Flows
  <1>7. \A t \in Transfers : seals[t] = NoObjects /\ \A i \in Objects : seals[t][i] <= 1
    BY FileShapes DEF FileInit
  <1>. QED  BY <1>1, <1>2, <1>3, <1>4, <1>5, <1>6, <1>7, NoQueryFits DEF FileInv, Apart

\* What the run checks follows from the invariant.
LEMMA FileInvCorrect == FileInv => FileTypeOK /\ QuotaHolds /\ PublishedIsWhole /\ SealedOnce
          /\ CompleteIsWhole
  <1> SUFFICES ASSUME FileInv
        PROVE FileTypeOK /\ QuotaHolds /\ PublishedIsWhole /\ SealedOnce /\ CompleteIsWhole
    OBVIOUS
  <1>1. FileTypeOK
    BY DEF FileInv, LedgerFits, FileTypeOK, Entry, Settled, ObjectMap, Workflow
  <1>2. QuotaHolds
    BY DEF FileInv, LedgerFits, QuotaHolds, EntryFits
  <1>3. PublishedIsWhole
    BY DEF FileInv, LedgerFits, PublishedIsWhole, EntryFits, Settled
  <1>4. SealedOnce /\ CompleteIsWhole
    BY DEF FileInv, SealedOnce, CompleteIsWhole, ReceiverFits
  <1>. QED  BY <1>1, <1>2, <1>3, <1>4

\* For any number of senders, transfers, chunks and failures, wherever runs are
\* canceled and retried and requests lost or served late: the relay holds no
\* more transfers than the quota and none of an ended one, a published transfer
\* has all its objects, no object is sealed twice under one number, and a
\* download counts as complete only with every chunk.
THEOREM FileIsCorrect == FileSpec => FileCorrect
  <1>1. FileInit => FileInv
    BY FileInitHolds
  <1>2. FileInv /\ [FileNext]_fileVars => FileInv'
    BY FileStepHolds DEF FileGoesOn
  <1>3. FileInv => FileTypeOK /\ QuotaHolds /\ PublishedIsWhole /\ SealedOnce /\ CompleteIsWhole
    BY FileInvCorrect
  <1>4. FileInv /\ [FileNext]_fileVars => [EndedStaysEnded]_fileVars
    BY FileStepHolds DEF FileGoesOn
  <1>. QED  BY <1>1, <1>2, <1>3, <1>4, PTL DEF FileSpec, FileCorrect

-----------------------------------------------------------------------------
(***************************************************************************)
(* Calls.  The invariant says of every pending step whose word or device   *)
(* it may act on: what captures and what accepts belongs to a call whose   *)
(* callee has agreed, placing belongs to the caller, ringing to the        *)
(* callee, and both only to a call the peer does not know yet.             *)
(***************************************************************************)

CallStates == {"none"} \cup Setup \cup Established \cup FinalStates
CallOps == {"invite", "invite-send", "ring", "busy-send", "collide-send", "accept", "accept-send",
            "reject", "reject-send", "cancel", "cancel-send", "end", "end-send", "withdraw-send",
            "prepare", "capture", "void", "stale", "captured", "offer", "offer-send",
            "restart-send", "answer-send"}
CallTasks == [op : CallOps, c : Calls]

\* The steps that only a consent leads to.
ConsentOps == {"prepare", "capture", "void", "captured", "stale", "accept", "accept-send"}

TaskSound(t, st, p, C) ==
    /\ t.op \in ConsentOps => t.c \in C
    /\ t.op \in {"invite", "invite-send"} => p = CallerOf[t.c]
    /\ t.op = "ring" => p # CallerOf[t.c]
    /\ t.op \in {"invite", "ring"} => st[t.c] = "none"

\* One peer's calls, where the callees of the calls in C have agreed.
PeerSound(r, p, C) ==
    /\ r \in PeerRecord
    /\ r.mic # NoCall => r.mic \in C
    /\ \A t \in r.tasks : TaskSound(t, r.st, p, C)

\* What a final call is after a step that does not replace the composition.
Keeps(r, q) == \A d \in Calls : r.st[d] \in FinalStates => q.st[d] = r.st[d]

SignalSound(s, C) ==
    /\ s.to \in Peers /\ s.c \in Calls
    /\ s.ev = "accept" => s.c \in C
    /\ s.ev = "invite" => s.to # CallerOf[s.c]

CallsInv ==
    /\ peer \in [Peers -> PeerRecord]
    /\ \A p \in Peers : PeerSound(peer[p], p, consented)
    /\ \A s \in callWire : SignalSound(s, consented)

-----------------------------------------------------------------------------
(* The table of states and events. *)

LEMMA CallTransitions ==
  /\ DOMAIN transitions \subseteq CallStates \ {"none"}
  /\ \A s \in DOMAIN transitions : \A ev \in DOMAIN transitions[s] :
        /\ s \notin FinalStates
        /\ transitions[s][ev] \in CallStates \ {"none"}
        /\ transitions[s][ev] = "accepted" => ev = "accept"
        /\ transitions[s][ev] # "inviting"
  BY DEF transitions, TerminalMoves, CallStates, Setup, Established, FinalStates

LEMMA OtherPeer == ASSUME NEW p \in Peers PROVE Other(p) \in Peers /\ Other(p) # p
<1>1. IsFiniteSet(Peers) /\ Cardinality(Peers) = 2 BY CallsAssumption
<1>2. IsFiniteSet(Peers \ {p}) /\ Cardinality(Peers \ {p}) = 1 BY <1>1, FS_RemoveElement
<1>3. Peers \ {p} # {} BY <1>2, FS_EmptySet
<1> QED BY <1>3 DEF Other

LEMMA KeepsTwice ==
  ASSUME NEW r, NEW q, NEW s, Keeps(r, q), Keeps(q, s) PROVE Keeps(r, s)
  BY DEF Keeps

-----------------------------------------------------------------------------
(* The records of a peer: what each operator keeps. *)

LEMMA SpawnSound ==
  ASSUME NEW r, NEW p, NEW C, PeerSound(r, p, C), NEW op \in CallOps, NEW c \in Calls,
         TaskSound(Task(op, c), r.st, p, C)
  PROVE  PeerSound(Spawn(r, op, c), p, C) /\ Spawn(r, op, c).st = r.st
         /\ Spawn(r, op, c).tasks = r.tasks \cup {Task(op, c)}
         /\ Keeps(r, Spawn(r, op, c))
<1>1. Task(op, c) \in CallTasks BY DEF Task, CallTasks
<1>2. r \in PeerRecord BY DEF PeerSound
<1>3. Spawn(r, op, c) \in PeerRecord BY <1>1, <1>2 DEF Spawn, PeerRecord, CallTasks, CallOps
<1>4. /\ Spawn(r, op, c).st = r.st /\ Spawn(r, op, c).mic = r.mic
      /\ Spawn(r, op, c).tasks = r.tasks \cup {Task(op, c)} BY <1>2 DEF Spawn, PeerRecord
<1> QED BY <1>3, <1>4 DEF PeerSound, Keeps

\* Records that differ in what no other part depends on.
LEMMA AsideSound ==
  ASSUME NEW r, NEW p, NEW C, PeerSound(r, p, C), NEW q \in PeerRecord,
         q.st = r.st, q.mic = r.mic, q.tasks \subseteq r.tasks
  PROVE  PeerSound(q, p, C) /\ Keeps(r, q)
  BY DEF PeerSound, Keeps

LEMMA DoneSound ==
  ASSUME NEW r, NEW p, NEW C, PeerSound(r, p, C), NEW op, NEW c
  PROVE  /\ PeerSound(Done(r, op, c), p, C) /\ Done(r, op, c).st = r.st
         /\ Done(r, op, c).tasks = r.tasks \ {Task(op, c)}
         /\ Done(r, op, c).conn = r.conn
         /\ Keeps(r, Done(r, op, c))
<1>1. r \in PeerRecord BY DEF PeerSound
<1>2. Done(r, op, c) \in PeerRecord BY <1>1 DEF Done, PeerRecord
<1>3. /\ Done(r, op, c).st = r.st /\ Done(r, op, c).mic = r.mic /\ Done(r, op, c).conn = r.conn
      /\ Done(r, op, c).tasks = r.tasks \ {Task(op, c)} BY <1>1 DEF Done, PeerRecord
<1> QED BY <1>2, <1>3, AsideSound

LEMMA EndCallSound ==
  ASSUME NEW r, NEW p, NEW C, PeerSound(r, p, C), NEW c \in Calls
  PROVE  PeerSound(EndCall(r, c), p, C) /\ Keeps(r, EndCall(r, c)) /\ EndCall(r, c).st = r.st
<1>1. TaskSound(Task("end", c), r.st, p, C) BY DEF TaskSound, Task, ConsentOps
<1>2. "end" \in CallOps BY DEF CallOps
<1>3. /\ PeerSound(Spawn(r, "end", c), p, C) /\ Keeps(r, Spawn(r, "end", c))
      /\ Spawn(r, "end", c).st = r.st BY <1>1, <1>2, SpawnSound
<1>4. Keeps(r, r) BY DEF Keeps
<1> QED BY <1>3, <1>4 DEF EndCall

\* The tasks after a release or a cleanup: some are void or stale now.
LEMMA ReleaseSound ==
  ASSUME NEW r, NEW p, NEW C, PeerSound(r, p, C)
  PROVE  PeerSound(Release(r), p, C) /\ Keeps(r, Release(r)) /\ Release(r).st = r.st
<1>1. r \in PeerRecord BY DEF PeerSound
<1> DEFINE T == {IF t.op = "capture" THEN Task("void", t.c) ELSE t : t \in r.tasks}
<1>2. r.tasks \subseteq CallTasks BY <1>1 DEF PeerRecord, CallTasks, CallOps
<1>3. T \subseteq CallTasks BY <1>2 DEF CallTasks, CallOps, Task
<1>4. /\ Release(r) \in PeerRecord
      /\ Release(r).st = r.st /\ Release(r).mic = NoCall /\ Release(r).tasks = T
  BY <1>1, <1>3 DEF Release, PeerRecord, CallTasks, CallOps
<1>5. ASSUME NEW u \in T PROVE TaskSound(u, r.st, p, C)
  <2>1. PICK t \in r.tasks : u = IF t.op = "capture" THEN Task("void", t.c) ELSE t OBVIOUS
  <2>2. TaskSound(t, r.st, p, C) BY DEF PeerSound
  <2> QED BY <2>1, <2>2 DEF TaskSound, Task, ConsentOps
<1> QED BY <1>4, <1>5 DEF PeerSound, Keeps

LEMMA CleanupSound ==
  ASSUME NEW r, NEW p, NEW C, PeerSound(r, p, C), NEW c \in Calls
  PROVE  PeerSound(Cleanup(r, c), p, C) /\ Keeps(r, Cleanup(r, c)) /\ Cleanup(r, c).st = r.st
<1> DEFINE q == Release(r)
           T == {IF t = Task("captured", c) THEN Task("stale", c) ELSE t : t \in q.tasks}
<1>1. PeerSound(q, p, C) /\ Keeps(r, q) /\ q.st = r.st BY ReleaseSound
<1> HIDE DEF q
<1>2. q \in PeerRecord BY <1>1 DEF PeerSound
<1>3. T \subseteq CallTasks
  <2>1. q.tasks \subseteq CallTasks BY <1>2 DEF PeerRecord, CallTasks, CallOps
  <2> QED BY <2>1 DEF CallTasks, CallOps, Task
<1> DEFINE s == [q EXCEPT !.conn[c] = "none", !.up = @ \ {c}, !.restarted = @ \ {c},
                          !.waiting = @ \ {c}, !.tasks = T]
<1>4. Cleanup(r, c) = s BY DEF Cleanup, q
<1>5. s \in PeerRecord /\ s.st = q.st /\ s.mic = q.mic /\ s.tasks = T
  BY <1>2, <1>3 DEF PeerRecord, CallTasks, CallOps
<1> HIDE DEF s
<1>6. ASSUME NEW u \in T PROVE TaskSound(u, s.st, p, C)
  <2>1. PICK t \in q.tasks : u = IF t = Task("captured", c) THEN Task("stale", c) ELSE t OBVIOUS
  <2>2. TaskSound(t, q.st, p, C) BY <1>1 DEF PeerSound
  <2> QED BY <2>1, <2>2, <1>5 DEF TaskSound, Task, ConsentOps
<1> QED BY <1>1, <1>4, <1>5, <1>6 DEF PeerSound, Keeps

\* A call's state changes: no step waits for the call to be unknown.
LEMMA StateSound ==
  ASSUME NEW r, NEW p, NEW C, PeerSound(r, p, C), NEW c \in Calls, NEW s \in CallStates,
         r.st[c] # "none", r.st[c] \notin FinalStates
  PROVE  PeerSound([r EXCEPT !.st[c] = s], p, C) /\ Keeps(r, [r EXCEPT !.st[c] = s])
<1> DEFINE q == [r EXCEPT !.st[c] = s]
<1>1. r \in PeerRecord BY DEF PeerSound
<1>2. q \in PeerRecord BY <1>1 DEF PeerRecord, CallStates
<1>3. q.mic = r.mic /\ q.tasks = r.tasks /\ q.st = [r.st EXCEPT ![c] = s] /\ r.st \in [Calls -> CallStates]
      /\ \A t \in r.tasks : t.c \in Calls
  BY <1>1 DEF PeerRecord, CallStates
<1> HIDE DEF q
<1>4. ASSUME NEW t \in q.tasks PROVE TaskSound(t, q.st, p, C)
  <2>1. TaskSound(t, r.st, p, C) BY <1>3 DEF PeerSound
  <2> QED BY <2>1, <1>3 DEF TaskSound
<1>5. Keeps(r, q) BY <1>3 DEF Keeps
<1>6. PeerSound(q, p, C) BY <1>2, <1>3, <1>4 DEF PeerSound
<1> QED BY <1>5, <1>6 DEF q

LEMMA EventSound ==
  ASSUME NEW r, NEW p, NEW C, PeerSound(r, p, C), NEW c \in Calls, NEW ev, Takes(r, c, ev)
  PROVE  /\ PeerSound(Event(r, c, ev), p, C) /\ Keeps(r, Event(r, c, ev))
         /\ Event(r, c, ev).st[c] \in CallStates \ {"none"}
         /\ Event(r, c, ev).st[c] = "accepted" => ev = "accept"
         /\ Event(r, c, ev).tasks = r.tasks
<1>1. r.st[c] \in DOMAIN transitions /\ ev \in DOMAIN transitions[r.st[c]] BY DEF Takes
<1> DEFINE s == transitions[r.st[c]][ev]
<1>2. /\ s \in CallStates \ {"none"} /\ r.st[c] \notin FinalStates /\ r.st[c] # "none"
      /\ s = "accepted" => ev = "accept" BY <1>1, CallTransitions
<1>3. r \in PeerRecord BY DEF PeerSound
<1>4. Event(r, c, ev) = [r EXCEPT !.st[c] = s] /\ Event(r, c, ev).st[c] = s /\ Event(r, c, ev).tasks = r.tasks
  BY <1>3 DEF Event, PeerRecord
<1> HIDE DEF s
<1> QED BY <1>2, <1>4, StateSound

LEMMA OnCallUpdateSound ==
  ASSUME NEW r, NEW p, NEW C, PeerSound(r, p, C), NEW c \in Calls, NEW state,
         state = "accepted" => c \in C
  PROVE  /\ PeerSound(OnCallUpdate(r, p, c, state), p, C)
         /\ Keeps(r, OnCallUpdate(r, p, c, state))
<1> DEFINE q == OnCallUpdate(r, p, c, state)
<1>1. r \in PeerRecord BY DEF PeerSound
<1>2. \A x \in {c, NoCall} : /\ PeerSound([r EXCEPT !.shown = x], p, C)
                             /\ Keeps(r, [r EXCEPT !.shown = x])
  <2> TAKE x \in {c, NoCall}
  <2>1. [r EXCEPT !.shown = x] \in PeerRecord BY <1>1 DEF PeerRecord
  <2>2. /\ [r EXCEPT !.shown = x].st = r.st /\ [r EXCEPT !.shown = x].mic = r.mic
        /\ [r EXCEPT !.shown = x].tasks = r.tasks BY <1>1 DEF PeerRecord
  <2> QED BY <2>1, <2>2, AsideSound
<1>3. CASE state = "ringing" /\ r.shown \notin {NoCall, c}
  <2>1. TaskSound(Task("reject", c), r.st, p, C) BY DEF TaskSound, Task, ConsentOps
  <2>2. q = Spawn(r, "reject", c) BY <1>3 DEF OnCallUpdate
  <2> QED BY <2>1, <2>2, SpawnSound DEF CallOps
<1>4. CASE ~(state = "ringing" /\ r.shown \notin {NoCall, c}) /\ state \in FinalStates
  <2> DEFINE h == [r EXCEPT !.shown = NoCall]
  <2>1. PeerSound(h, p, C) /\ Keeps(r, h) BY <1>2
  <2> HIDE DEF h
  <2>2. PeerSound(EndCall(h, c), p, C) /\ Keeps(r, EndCall(h, c)) BY <2>1, EndCallSound, KeepsTwice
  <2>3. q = IF r.shown = c THEN EndCall(h, c) ELSE r BY <1>4 DEF OnCallUpdate, h
  <2>4. Keeps(r, r) BY DEF Keeps
  <2> QED BY <2>2, <2>3, <2>4
<1>5. CASE ~(state = "ringing" /\ r.shown \notin {NoCall, c}) /\ state \notin FinalStates
  <2> DEFINE h == [r EXCEPT !.shown = c]
  <2>1. PeerSound(h, p, C) /\ Keeps(r, h) BY <1>2
  <2>2. q = IF PreparesAt(state, p, c) THEN Spawn(h, "prepare", c) ELSE h BY <1>5 DEF OnCallUpdate
  <2> HIDE DEF h, q
  <2>3. CASE PreparesAt(state, p, c)
    <3>1. TaskSound(Task("prepare", c), h.st, p, C) BY <2>3 DEF TaskSound, Task, PreparesAt
    <3>2. PeerSound(Spawn(h, "prepare", c), p, C) /\ Keeps(h, Spawn(h, "prepare", c))
      BY <2>1, <3>1, SpawnSound DEF CallOps
    <3>3. Keeps(r, Spawn(h, "prepare", c)) BY <2>1, <3>2, KeepsTwice
    <3>4. q = Spawn(h, "prepare", c) BY <2>2, <2>3
    <3> QED BY <3>2, <3>3, <3>4 DEF q
  <2> QED BY <2>1, <2>2, <2>3 DEF q
<1> QED BY <1>3, <1>4, <1>5

LEMMA NotifySound ==
  ASSUME NEW r, NEW p, NEW C, PeerSound(r, p, C), NEW c \in Calls, NEW state,
         state = "accepted" => c \in C
  PROVE  PeerSound(Notify(r, p, c, state), p, C) /\ Keeps(r, Notify(r, p, c, state))
<1> DEFINE told == [r EXCEPT !.timer = IF state \in Setup THEN @ ELSE @ \ {c},
                             !.active = IF state \in FinalStates /\ @ = c THEN NoCall ELSE @]
<1>1. r \in PeerRecord BY DEF PeerSound
<1>2. /\ told \in PeerRecord /\ told.st = r.st /\ told.mic = r.mic /\ told.tasks = r.tasks
  BY <1>1 DEF PeerRecord
<1>3. Notify(r, p, c, state) = OnCallUpdate(told, p, c, state) BY DEF Notify
<1> HIDE DEF told
<1>4. PeerSound(told, p, C) /\ Keeps(r, told) BY <1>2, AsideSound
<1> QED BY <1>3, <1>4, OnCallUpdateSound, KeepsTwice

LEMMA NotifyState ==
  ASSUME NEW r \in PeerRecord, NEW p, NEW c \in Calls, NEW state
  PROVE  Notify(r, p, c, state).st = r.st
<1> DEFINE told == [r EXCEPT !.timer = IF state \in Setup THEN @ ELSE @ \ {c},
                             !.active = IF state \in FinalStates /\ @ = c THEN NoCall ELSE @]
<1>1. told \in PeerRecord /\ told.st = r.st BY DEF PeerRecord
<1>2. Notify(r, p, c, state) = OnCallUpdate(told, p, c, state) BY DEF Notify
<1> HIDE DEF told
<1>3. OnCallUpdate(told, p, c, state).st = told.st
  BY <1>1 DEF OnCallUpdate, EndCall, Spawn, PeerRecord
<1> QED BY <1>1, <1>2, <1>3

LEMMA MovesSound ==
  ASSUME NEW r, NEW p, NEW C, PeerSound(r, p, C), NEW c \in Calls, NEW ev, Takes(r, c, ev),
         ev = "accept" => c \in C
  PROVE  PeerSound(Moves(r, p, c, ev), p, C) /\ Keeps(r, Moves(r, p, c, ev))
<1> DEFINE q == Event(r, c, ev)
<1>1. /\ PeerSound(q, p, C) /\ Keeps(r, q)
      /\ q.st[c] = "accepted" => ev = "accept" BY EventSound
<1>2. Moves(r, p, c, ev) = Notify(q, p, c, q.st[c]) BY DEF Moves
<1> HIDE DEF q
<1> QED BY <1>1, <1>2, NotifySound, KeepsTwice

LEMMA FailsSound ==
  ASSUME NEW r, NEW p, NEW C, PeerSound(r, p, C), NEW c \in Calls
  PROVE  PeerSound(Fails(r, p, c), p, C) /\ Keeps(r, Fails(r, p, c))
<1>1. Keeps(r, r) BY DEF Keeps
<1>2. CASE Takes(r, c, "fail") BY <1>2, MovesSound DEF Fails
<1>3. CASE ~Takes(r, c, "fail") BY <1>1, <1>3 DEF Fails
<1> QED BY <1>2, <1>3

LEMMA FailCallSound ==
  ASSUME NEW r, NEW p, NEW C, PeerSound(r, p, C), NEW c \in Calls
  PROVE  PeerSound(FailCall(r, p, c), p, C) /\ Keeps(r, FailCall(r, p, c))
  BY FailsSound, CleanupSound, KeepsTwice DEF FailCall

LEMMA RecomposedSound ==
  ASSUME NEW r, NEW p, NEW C, PeerSound(r, p, C)
  PROVE  /\ PeerSound(Recomposed(r), p, C)
         /\ \A d \in Calls : Recomposed(r).st[d] = "none"
<1> DEFINE q == Release(r)
           T == {t \in q.tasks : t.op \in {"busy-send", "cancel-send", "collide-send", "void", "stale"}}
           s == [q EXCEPT !.st = [d \in Calls |-> "none"], !.active = NoCall, !.timer = {},
                          !.conn = [d \in Calls |-> "none"], !.up = {}, !.restarted = {},
                          !.waiting = {}, !.tasks = T]
<1>1. PeerSound(q, p, C) BY ReleaseSound
<1>2. Recomposed(r) = s BY DEF Recomposed
<1> HIDE DEF q
<1>3. q \in PeerRecord BY <1>1 DEF PeerSound
<1>4. /\ s \in PeerRecord /\ s.st = [d \in Calls |-> "none"] /\ s.mic = q.mic /\ s.tasks = T
  BY <1>3 DEF PeerRecord, CallStates
<1> HIDE DEF s
<1>5. ASSUME NEW u \in T PROVE TaskSound(u, s.st, p, C)
  BY <1>1 DEF PeerSound, TaskSound
<1> QED BY <1>1, <1>2, <1>4, <1>5 DEF PeerSound

-----------------------------------------------------------------------------
(* The actions. *)

\* More consent never unsettles a peer or a signal.
LEMMA ConsentGrows ==
  ASSUME NEW r, NEW p, NEW C, NEW D, C \subseteq D, PeerSound(r, p, C)
  PROVE  PeerSound(r, p, D)
  BY DEF PeerSound, TaskSound

LEMMA SetSound ==
  ASSUME CallsInv, NEW p \in Peers, NEW q, Set(p, q), consented \subseteq consented',
         PeerSound(q, p, consented'), \A s \in callWire' : SignalSound(s, consented'),
         \A d \in Calls : peer[p].st[d] \in FinalStates => q.st[d] \in {peer[p].st[d], "none"}
  PROVE  CallsInv' /\ OverStaysOver
<1>1. peer' = [peer EXCEPT ![p] = q] BY DEF Set
<1>2. q \in PeerRecord BY DEF PeerSound
<1>3. peer' \in [Peers -> PeerRecord] /\ peer'[p] = q BY <1>1, <1>2 DEF CallsInv
<1>4. \A o \in Peers : o # p => peer'[o] = peer[o] BY <1>1 DEF CallsInv
<1>5. ASSUME NEW o \in Peers PROVE PeerSound(peer'[o], o, consented')
  <2>1. CASE o = p BY <2>1, <1>3
  <2>2. CASE o # p
    <3>1. PeerSound(peer[o], o, consented) BY DEF CallsInv
    <3> QED BY <2>2, <3>1, <1>4, ConsentGrows
  <2> QED BY <2>1, <2>2
<1>6. OverStaysOver
  <2> SUFFICES ASSUME NEW o \in Peers, NEW d \in Calls, peer[o].st[d] \in FinalStates
               PROVE  peer'[o].st[d] \in {peer[o].st[d], "none"} BY DEF OverStaysOver
  <2> QED BY <1>3, <1>4
<1> QED BY <1>3, <1>5, <1>6 DEF CallsInv

LEMMA StepSound ==
  ASSUME CallsInv, NEW p \in Peers, NEW q, Set(p, q), consented' = consented,
         callWire' \subseteq callWire, PeerSound(q, p, consented), Keeps(peer[p], q)
  PROVE  CallsInv' /\ OverStaysOver
<1>1. \A s \in callWire' : SignalSound(s, consented') BY DEF CallsInv
<1>2. \A d \in Calls : peer[p].st[d] \in FinalStates => q.st[d] \in {peer[p].st[d], "none"} BY DEF Keeps
<1> QED BY <1>1, <1>2, SetSound

\* A step that only takes a signal, time or a note of history.
LEMMA PeersStay ==
  ASSUME CallsInv, UNCHANGED <<peer, consented>>, callWire' \subseteq callWire
  PROVE  CallsInv' /\ OverStaysOver
<1>1. CallsInv' BY DEF CallsInv
<1>2. OverStaysOver BY DEF OverStaysOver
<1> QED BY <1>1, <1>2

LEMMA StartSound ==
  ASSUME CallsInv, NEW p \in Peers, NEW c \in Calls, StartCall(p, c)
  PROVE  CallsInv' /\ OverStaysOver
<1> DEFINE r == peer[p]  q == Recomposed(r)  s == Spawn(q, "invite", c)
<1>1. PeerSound(r, p, consented) BY DEF CallsInv
<1>2. /\ CallerOf[c] = p /\ Set(p, s) /\ consented' = consented /\ callWire' = callWire BY DEF StartCall
<1>3. PeerSound(q, p, consented) /\ \A d \in Calls : q.st[d] = "none" BY <1>1, RecomposedSound
<1> HIDE DEF q, r
<1>4. TaskSound(Task("invite", c), q.st, p, consented) BY <1>2, <1>3 DEF TaskSound, Task, ConsentOps
<1>5. PeerSound(s, p, consented) /\ s.st = q.st BY <1>3, <1>4, SpawnSound DEF CallOps
<1>6. \A d \in Calls : peer[p].st[d] \in FinalStates => s.st[d] \in {peer[p].st[d], "none"} BY <1>3, <1>5
<1>7. \A x \in callWire' : SignalSound(x, consented') BY <1>2 DEF CallsInv
<1> HIDE DEF s
<1> QED BY <1>2, <1>5, <1>6, <1>7, SetSound

LEMMA AcceptSound ==
  ASSUME CallsInv, NEW p \in Peers, NEW c \in Calls, AcceptCall(p, c)
  PROVE  CallsInv' /\ OverStaysOver
<1> DEFINE r == peer[p]  s == Spawn(r, "prepare", c)
<1>1. /\ consented' = consented \cup {c} /\ Set(p, s) /\ callWire' = callWire BY DEF AcceptCall
<1>2. PeerSound(r, p, consented') BY <1>1, ConsentGrows DEF CallsInv
<1>3. TaskSound(Task("prepare", c), r.st, p, consented') BY <1>1 DEF TaskSound, Task
<1>4. PeerSound(s, p, consented') /\ s.st = r.st BY <1>2, <1>3, SpawnSound DEF CallOps
<1>5. \A x \in callWire' : SignalSound(x, consented') BY <1>1 DEF CallsInv, SignalSound
<1> HIDE DEF s
<1> QED BY <1>1, <1>4, <1>5, SetSound

\* The user's other steps: refusing, taking back, hanging up.
LEMMA UserSound ==
  ASSUME CallsInv, NEW p \in Peers, NEW c \in Calls,
         RejectCall(p, c) \/ CancelCall(p, c) \/ HangUp(p, c) \/ VerificationLost(p, c)
  PROVE  CallsInv' /\ OverStaysOver
<1> DEFINE r == peer[p]
<1>1. PeerSound(r, p, consented) BY DEF CallsInv
<1>2. consented' = consented /\ callWire' = callWire
  BY DEF RejectCall, CancelCall, HangUp, VerificationLost
<1> DEFINE h == [r EXCEPT !.shown = NoCall]
<1>3. PeerSound(h, p, consented) /\ Keeps(r, h)
  <2>1. h \in PeerRecord /\ h.st = r.st /\ h.mic = r.mic /\ h.tasks = r.tasks
    BY <1>1 DEF PeerSound, PeerRecord
  <2> QED BY <1>1, <2>1, AsideSound
<1>4. CASE RejectCall(p, c) \/ CancelCall(p, c)
  <2>1. PICK op \in {"reject", "cancel"} : Set(p, Spawn(r, op, c)) BY <1>4 DEF RejectCall, CancelCall
  <2>2. TaskSound(Task(op, c), r.st, p, consented) BY <2>1 DEF TaskSound, Task, ConsentOps
  <2>3. PeerSound(Spawn(r, op, c), p, consented) /\ Keeps(r, Spawn(r, op, c))
    BY <1>1, <2>1, <2>2, SpawnSound DEF CallOps
  <2> QED BY <1>2, <2>1, <2>3, StepSound
<1>5. CASE HangUp(p, c)
  <2>1. Set(p, EndCall(h, c)) BY <1>5 DEF HangUp
  <2> HIDE DEF h
  <2>2. PeerSound(EndCall(h, c), p, consented) /\ Keeps(r, EndCall(h, c))
    BY <1>3, EndCallSound, KeepsTwice
  <2> QED BY <1>2, <2>1, <2>2, StepSound
<1>6. CASE VerificationLost(p, c)
  <2>1. Set(p, FailCall(h, p, c)) BY <1>6 DEF VerificationLost, FailCall
  <2> HIDE DEF h
  <2>2. PeerSound(FailCall(h, p, c), p, consented) /\ Keeps(r, FailCall(h, p, c))
    BY <1>3, FailCallSound, KeepsTwice
  <2> QED BY <1>2, <2>1, <2>2, StepSound
<1> QED BY <1>4, <1>5, <1>6

\* A call becomes known: no other step waits for it.
LEMMA KnownSound ==
  ASSUME NEW r, NEW p, NEW C, PeerSound(r, p, C), NEW c \in Calls, NEW s \in {"inviting", "ringing"},
         r.st[c] = "none", \A t \in r.tasks : t.op \in {"invite", "ring"} => t.c # c,
         NEW q \in PeerRecord, q.st = [r.st EXCEPT ![c] = s], q.mic = r.mic, q.tasks = r.tasks
  PROVE  PeerSound(q, p, C) /\ Keeps(r, q)
<1>1. r.st \in [Calls -> CallStates] /\ \A t \in r.tasks : t.c \in Calls
  BY DEF PeerSound, PeerRecord, CallStates
<1>2. ASSUME NEW t \in q.tasks PROVE TaskSound(t, q.st, p, C)
  <2>1. TaskSound(t, r.st, p, C) BY DEF PeerSound
  <2> QED BY <1>1, <2>1 DEF TaskSound
<1>3. Keeps(r, q) BY <1>1 DEF Keeps, FinalStates
<1> QED BY <1>2, <1>3 DEF PeerSound

LEMMA InvitedSound ==
  ASSUME CallsInv, NEW p \in Peers, NEW c \in Calls, Invited(p, c)
  PROVE  CallsInv' /\ OverStaysOver
<1> DEFINE r == peer[p]
           d == Done(r, "invite", c)
           own == [d EXCEPT !.st[c] = "inviting", !.active = c, !.timer = @ \cup {c}]
           n == Notify(own, p, c, "inviting")
<1>1. PeerSound(r, p, consented) BY DEF CallsInv
<1>2. /\ Task("invite", c) \in r.tasks /\ Set(p, Spawn(n, "invite-send", c))
      /\ consented' = consented /\ callWire' = callWire BY DEF Invited
<1>3. TaskSound(Task("invite", c), r.st, p, consented) BY <1>1, <1>2 DEF PeerSound
<1>4. p = CallerOf[c] /\ r.st[c] = "none" BY <1>3 DEF TaskSound, Task
<1>5. PeerSound(d, p, consented) /\ d.st = r.st /\ d.tasks = r.tasks \ {Task("invite", c)} /\ Keeps(r, d)
  BY <1>1, DoneSound
<1>6. ASSUME NEW t \in d.tasks, t.op \in {"invite", "ring"} PROVE t.c # c
  <2>1. TaskSound(t, d.st, p, consented) BY <1>5 DEF PeerSound
  <2>2. t.op = "ring" => t.c # c BY <2>1, <1>4 DEF TaskSound
  <2>3. t \in CallTasks BY <1>5 DEF PeerSound, PeerRecord, CallTasks, CallOps
  <2>4. t.op = "invite" /\ t.c = c => t = Task("invite", c) BY <2>3 DEF Task, CallTasks
  <2> QED BY <1>5, <1>6, <2>2, <2>4
<1> HIDE DEF d, r
<1>7. d \in PeerRecord BY <1>5 DEF PeerSound
<1>8. own \in PeerRecord /\ own.st = [d.st EXCEPT ![c] = "inviting"] /\ own.mic = d.mic /\ own.tasks = d.tasks
  BY <1>7 DEF PeerRecord, Setup
<1> HIDE DEF own
<1>9. PeerSound(own, p, consented) /\ Keeps(d, own)
  BY <1>4, <1>5, <1>6, <1>8, KnownSound
<1>10. PeerSound(n, p, consented) /\ Keeps(own, n) BY <1>9, NotifySound
<1> HIDE DEF n
<1>11. TaskSound(Task("invite-send", c), n.st, p, consented) BY <1>4 DEF TaskSound, Task, ConsentOps
<1>12. PeerSound(Spawn(n, "invite-send", c), p, consented) /\ Keeps(n, Spawn(n, "invite-send", c))
  BY <1>10, <1>11, SpawnSound DEF CallOps
<1>13. Keeps(r, Spawn(n, "invite-send", c)) BY <1>5, <1>9, <1>10, <1>12, KeepsTwice
<1> QED BY <1>2, <1>12, <1>13, StepSound DEF r

LEMMA RingsSound ==
  ASSUME CallsInv, NEW p \in Peers, NEW c \in Calls, Rings(p, c)
  PROVE  CallsInv' /\ OverStaysOver
<1> DEFINE r == peer[p]
           d == Done(r, "ring", c)
           in == [d EXCEPT !.st[c] = "ringing", !.active = c, !.timer = @ \cup {c}]
           late == [d EXCEPT !.st[c] = "inviting"]
           n == Notify(in, p, c, "ringing")
<1>1. PeerSound(r, p, consented) BY DEF CallsInv
<1>2. /\ Task("ring", c) \in r.tasks /\ Set(p, IF c \in deadline THEN late ELSE n)
      /\ consented' = consented /\ callWire' = callWire BY DEF Rings
<1>3. TaskSound(Task("ring", c), r.st, p, consented) BY <1>1, <1>2 DEF PeerSound
<1>4. p # CallerOf[c] /\ r.st[c] = "none" BY <1>3 DEF TaskSound, Task
<1>5. PeerSound(d, p, consented) /\ d.st = r.st /\ d.tasks = r.tasks \ {Task("ring", c)} /\ Keeps(r, d)
  BY <1>1, DoneSound
<1>6. ASSUME NEW t \in d.tasks, t.op \in {"invite", "ring"} PROVE t.c # c
  <2>1. TaskSound(t, d.st, p, consented) BY <1>5 DEF PeerSound
  <2>2. t.op = "invite" => t.c # c BY <2>1, <1>4 DEF TaskSound
  <2>3. t \in CallTasks BY <1>5 DEF PeerSound, PeerRecord, CallTasks, CallOps
  <2>4. t.op = "ring" /\ t.c = c => t = Task("ring", c) BY <2>3 DEF Task, CallTasks
  <2> QED BY <1>5, <1>6, <2>2, <2>4
<1> HIDE DEF d, r
<1>7. d \in PeerRecord BY <1>5 DEF PeerSound
<1>8. /\ in \in PeerRecord /\ in.st = [d.st EXCEPT ![c] = "ringing"] /\ in.mic = d.mic /\ in.tasks = d.tasks
      /\ late \in PeerRecord /\ late.st = [d.st EXCEPT ![c] = "inviting"] /\ late.mic = d.mic
      /\ late.tasks = d.tasks
  BY <1>7 DEF PeerRecord, Setup
<1> HIDE DEF in, late
<1>9. /\ PeerSound(in, p, consented) /\ Keeps(d, in)
      /\ PeerSound(late, p, consented) /\ Keeps(d, late)
  BY <1>4, <1>5, <1>6, <1>8, KnownSound
<1>10. PeerSound(n, p, consented) /\ Keeps(in, n) BY <1>9, NotifySound
<1> HIDE DEF n
<1>11. Keeps(r, n) /\ Keeps(r, late) BY <1>5, <1>9, <1>10, KeepsTwice
<1>12. CASE c \in deadline BY <1>2, <1>9, <1>11, <1>12, StepSound DEF r
<1>13. CASE c \notin deadline BY <1>2, <1>10, <1>11, <1>13, StepSound DEF r
<1> QED BY <1>12, <1>13

LEMMA RespondsSound ==
  ASSUME CallsInv, NEW p \in Peers, NEW c \in Calls, NEW ev \in {"accept", "reject", "cancel"},
         Responds(p, c, ev)
  PROVE  CallsInv' /\ OverStaysOver
<1> DEFINE b == peer[p]  r == Done(b, ev, c)
           op == IF ev = "accept" THEN "accept-send" ELSE "reject-send"
<1>1. PeerSound(b, p, consented) BY DEF CallsInv
<1>2. /\ Task(ev, c) \in b.tasks /\ consented' = consented /\ callWire' = callWire
      /\ Set(p, IF ~Takes(r, c, ev) THEN (IF ev = "accept" THEN EndCall(r, c) ELSE r)
                ELSE IF ev = "cancel" THEN Spawn(Moves(r, p, c, ev), "cancel-send", c)
                ELSE Spawn(Event(r, c, ev), op, c))
  BY DEF Responds
<1>3. ev = "accept" => c \in consented
  <2>1. TaskSound(Task(ev, c), b.st, p, consented) BY <1>1, <1>2 DEF PeerSound
  <2> QED BY <2>1 DEF TaskSound, Task, ConsentOps
<1>4. PeerSound(r, p, consented) /\ Keeps(b, r) BY <1>1, DoneSound
<1> HIDE DEF r, b
<1>5. CASE ~Takes(r, c, ev)
  <2>1. PeerSound(EndCall(r, c), p, consented) /\ Keeps(b, EndCall(r, c))
    BY <1>4, EndCallSound, KeepsTwice
  <2>2. CASE ev = "accept" BY <1>2, <1>5, <2>1, <2>2, StepSound DEF b
  <2>3. CASE ev # "accept" BY <1>2, <1>5, <2>3, <1>4, StepSound DEF b
  <2> QED BY <2>2, <2>3
<1>6. CASE Takes(r, c, ev) /\ ev = "cancel"
  <2> DEFINE q == Moves(r, p, c, ev)  s == Spawn(q, "cancel-send", c)
  <2>1. PeerSound(q, p, consented) /\ Keeps(r, q) BY <1>3, <1>4, <1>6, MovesSound
  <2>2. Set(p, s) BY <1>2, <1>6
  <2> HIDE DEF q
  <2>3. TaskSound(Task("cancel-send", c), q.st, p, consented) BY DEF TaskSound, Task, ConsentOps
  <2>4. PeerSound(s, p, consented) /\ Keeps(q, s) BY <2>1, <2>3, SpawnSound DEF CallOps
  <2> HIDE DEF s
  <2>5. Keeps(b, s) BY <1>4, <2>1, <2>4, KeepsTwice
  <2> QED BY <1>2, <2>2, <2>4, <2>5, StepSound DEF b
<1>7. CASE Takes(r, c, ev) /\ ev # "cancel"
  <2> DEFINE q == Event(r, c, ev)  s == Spawn(q, op, c)
  <2>1. PeerSound(q, p, consented) /\ Keeps(r, q) BY <1>4, <1>7, EventSound
  <2>2. Set(p, s) BY <1>2, <1>7
  <2> HIDE DEF q
  <2>3. TaskSound(Task(op, c), q.st, p, consented) BY <1>3 DEF TaskSound, Task, ConsentOps
  <2>4. PeerSound(s, p, consented) /\ Keeps(q, s) BY <2>1, <2>3, SpawnSound DEF CallOps
  <2> HIDE DEF s
  <2>5. Keeps(b, s) BY <1>4, <2>1, <2>4, KeepsTwice
  <2> QED BY <1>2, <2>2, <2>4, <2>5, StepSound DEF b
<1> QED BY <1>5, <1>6, <1>7

LEMMA EndStateSound ==
  ASSUME CallsInv, NEW p \in Peers, NEW c \in Calls, EndState(p, c)
  PROVE  CallsInv' /\ OverStaysOver
<1> DEFINE b == peer[p]  r == Done(b, "end", c)
           ev == IF r.st[c] \in {"connected", "reconnecting"} THEN "end" ELSE "cancel"
           op == IF ev = "end" THEN "end-send" ELSE "withdraw-send"
           s == Spawn(r, op, c)
<1>1. PeerSound(b, p, consented) BY DEF CallsInv
<1>2. /\ consented' = consented /\ callWire' = callWire
      /\ Set(p, IF Takes(r, c, ev) THEN Moves(s, p, c, ev) ELSE Cleanup(r, c))
  BY DEF EndState
<1>3. PeerSound(r, p, consented) /\ Keeps(b, r) BY <1>1, DoneSound
<1>4. ev \in {"end", "cancel"} /\ op \in {"end-send", "withdraw-send"} OBVIOUS
<1> HIDE DEF r, b, ev, op
<1>5. CASE Takes(r, c, ev)
  <2>1. TaskSound(Task(op, c), r.st, p, consented) BY <1>4 DEF TaskSound, Task, ConsentOps
  <2>2. PeerSound(s, p, consented) /\ Keeps(r, s) /\ s.st = r.st
    BY <1>3, <1>4, <2>1, SpawnSound DEF CallOps
  <2> HIDE DEF s
  <2>3. Takes(s, c, ev) BY <1>5, <2>2 DEF Takes
  <2> DEFINE q == Moves(s, p, c, ev)
  <2>4. PeerSound(q, p, consented) /\ Keeps(s, q) BY <1>4, <2>2, <2>3, MovesSound
  <2>5. Set(p, q) BY <1>2, <1>5
  <2> HIDE DEF q
  <2>6. Keeps(b, q) BY <1>3, <2>2, <2>4, KeepsTwice
  <2> QED BY <1>2, <2>4, <2>5, <2>6, StepSound DEF b
<1>6. CASE ~Takes(r, c, ev)
  <2>1. PeerSound(Cleanup(r, c), p, consented) /\ Keeps(b, Cleanup(r, c))
    BY <1>3, CleanupSound, KeepsTwice
  <2> QED BY <1>2, <1>6, <2>1, StepSound DEF b
<1> QED BY <1>5, <1>6

LEMMA SentSound ==
  ASSUME CallsInv, NEW p \in Peers, NEW c \in Calls, NEW op \in SendOps, Sent(p, op, c)
  PROVE  CallsInv' /\ OverStaysOver
<1> DEFINE b == peer[p]  r == Done(b, op, c)  q == AfterSend(r, p, op, c)
           s == Signal(p, c, Sends[op])
<1>1. PeerSound(b, p, consented) BY DEF CallsInv
<1>2. /\ Task(op, c) \in b.tasks /\ consented' = consented /\ callWire' = callWire \cup {s}
      /\ Set(p, q)
  BY DEF Sent
<1>3. TaskSound(Task(op, c), b.st, p, consented) BY <1>1, <1>2 DEF PeerSound
<1>4. /\ op = "accept-send" => c \in consented
      /\ op = "invite-send" => p = CallerOf[c]
  BY <1>3 DEF TaskSound, Task, ConsentOps
<1>5. PeerSound(r, p, consented) /\ Keeps(b, r) BY <1>1, DoneSound
<1>6. s.to = Other(p) /\ s.c = c /\ s.ev = Sends[op] BY DEF Signal
<1>7. /\ Sends[op] = "accept" => op = "accept-send"
      /\ Sends[op] = "invite" => op = "invite-send"
  BY DEF Sends, SendOps
<1>8. SignalSound(s, consented) BY <1>4, <1>6, <1>7, OtherPeer DEF SignalSound
<1>9. PeerSound(q, p, consented) /\ Keeps(b, q)
  <2> HIDE DEF r, b
  <2>1. CASE op = "accept-send"
    <3>1. q = Notify(r, p, c, "accepted") BY <2>1 DEF AfterSend
    <3> QED BY <3>1, <1>4, <1>5, <2>1, NotifySound, KeepsTwice
  <2>2. CASE op = "reject-send"
    <3>1. q = Notify(r, p, c, "rejected") BY <2>2 DEF AfterSend
    <3> QED BY <3>1, <1>5, NotifySound, KeepsTwice
  <2>3. CASE op \in {"end-send", "withdraw-send"}
    <3>1. q = Cleanup(r, c) BY <2>3 DEF AfterSend
    <3> QED BY <3>1, <1>5, CleanupSound, KeepsTwice
  <2>4. CASE op \notin {"accept-send", "reject-send", "end-send", "withdraw-send"}
    <3>1. q = r BY <2>4 DEF AfterSend
    <3> QED BY <3>1, <1>5
  <2> QED BY <2>1, <2>2, <2>3, <2>4
<1>10. \A x \in callWire' : SignalSound(x, consented') BY <1>2, <1>8 DEF CallsInv
<1>11. \A d \in Calls : b.st[d] \in FinalStates => q.st[d] \in {b.st[d], "none"} BY <1>9 DEF Keeps
<1> HIDE DEF q
<1> QED BY <1>2, <1>9, <1>10, <1>11, SetSound

LEMMA SendFailsSound ==
  ASSUME CallsInv, NEW p \in Peers, NEW c \in Calls, NEW op \in SendOps, SendFails(p, op, c)
  PROVE  CallsInv' /\ OverStaysOver
<1> DEFINE b == peer[p]  r == Done(b, op, c)  q == AfterFailure(r, p, op, c)
<1>1. PeerSound(b, p, consented) BY DEF CallsInv
<1>2. consented' = consented /\ callWire' = callWire /\ Set(p, q) BY DEF SendFails
<1>3. PeerSound(r, p, consented) /\ Keeps(b, r) BY <1>1, DoneSound
<1> HIDE DEF r, b
<1>4. PeerSound(q, p, consented) /\ Keeps(b, q)
  <2>1. CASE op = "invite-send"
    <3>1. q = Fails(r, p, c) \/ q = r BY <2>1 DEF AfterFailure
    <3> QED BY <3>1, <1>3, FailsSound, KeepsTwice
  <2>2. CASE op = "accept-send"
    <3>1. q = EndCall(Fails(r, p, c), c) BY <2>2 DEF AfterFailure
    <3>2. PeerSound(Fails(r, p, c), p, consented) /\ Keeps(b, Fails(r, p, c))
      BY <1>3, FailsSound, KeepsTwice
    <3> QED BY <3>1, <3>2, EndCallSound, KeepsTwice
  <2>3. CASE op = "offer-send"
    <3>1. q = EndCall(r, c) BY <2>3 DEF AfterFailure
    <3> QED BY <3>1, <1>3, EndCallSound, KeepsTwice
  <2>4. CASE op = "restart-send"
    <3>1. q = FailCall(r, p, c) BY <2>4 DEF AfterFailure
    <3> QED BY <3>1, <1>3, FailCallSound, KeepsTwice
  <2>5. CASE op \in {"end-send", "withdraw-send"}
    <3>1. q = Cleanup(r, c) BY <2>5 DEF AfterFailure
    <3> QED BY <3>1, <1>3, CleanupSound, KeepsTwice
  <2>6. CASE op \notin {"invite-send", "accept-send", "offer-send", "restart-send", "end-send", "withdraw-send"}
    <3>1. q = r BY <2>6 DEF AfterFailure
    <3> QED BY <3>1, <1>3
  <2> QED BY <2>1, <2>2, <2>3, <2>4, <2>5, <2>6
<1> HIDE DEF q
<1> QED BY <1>2, <1>4, StepSound DEF b

LEMMA InviteArrivesSound ==
  ASSUME CallsInv, NEW p \in Peers, NEW c \in Calls, p # CallerOf[c], peer[p].st[c] = "none",
         InviteArrives(p, c), consented' = consented, callWire' \subseteq callWire
  PROVE  CallsInv' /\ OverStaysOver
<1> DEFINE r == peer[p]  a == r.active  collides == a # NoCall /\ a # c
           yields == collides /\ Yields(r, a, c)
           q == IF c \in deadline \/ (yields /\ ~Takes(r, a, "cancel")) THEN r
                ELSE IF yields THEN Spawn(Spawn(Moves(r, p, a, "cancel"), "collide-send", a), "ring", c)
                ELSE IF collides THEN Spawn(r, "busy-send", c)
                ELSE Spawn(r, "ring", c)
<1>1. PeerSound(r, p, consented) BY DEF CallsInv
<1>2. Set(p, q) BY DEF InviteArrives
<1>3. r.active \in Calls \cup {NoCall} BY <1>1 DEF PeerSound, PeerRecord
<1>4. Keeps(r, r) BY DEF Keeps
<1>5. r.st[c] = "none" OBVIOUS
<1>6. TaskSound(Task("ring", c), r.st, p, consented)
  BY <1>5 DEF TaskSound, Task, ConsentOps
<1> HIDE DEF r
<1>7. PeerSound(q, p, consented) /\ Keeps(r, q)
  <2>1. CASE c \in deadline \/ (yields /\ ~Takes(r, a, "cancel"))
    BY <2>1, <1>1, <1>4
  <2>2. CASE ~(c \in deadline) /\ yields /\ Takes(r, a, "cancel")
    <3> DEFINE e == Event(r, a, "cancel")  v == Moves(r, p, a, "cancel")
               w == Spawn(v, "collide-send", a)
    <3>1. a \in Calls /\ a # c BY <2>2, <1>3
    <3>2. PeerSound(v, p, consented) /\ Keeps(r, v) BY <1>1, <2>2, <3>1, MovesSound
    <3>3. v.st[c] = "none"
      <4>1. e.st[c] = "none" BY <1>1, <1>5, <3>1 DEF Event, PeerSound, PeerRecord
      <4>2. PeerSound(e, p, consented) BY <1>1, <2>2, <3>1, EventSound
      <4>3. v = Notify(e, p, a, e.st[a]) BY DEF Moves
      <4> HIDE DEF e
      <4>4. v.st = e.st BY <4>2, <4>3, NotifyState, <3>1 DEF PeerSound
      <4> QED BY <4>1, <4>4
    <3>4. TaskSound(Task("collide-send", a), v.st, p, consented) BY DEF TaskSound, Task, ConsentOps
    <3> HIDE DEF v
    <3>5. PeerSound(w, p, consented) /\ Keeps(v, w) /\ w.st = v.st
      BY <3>1, <3>2, <3>4, SpawnSound DEF CallOps
    <3>6. q = Spawn(w, "ring", c) BY <2>2 DEF v
    <3> HIDE DEF w
    <3>7. TaskSound(Task("ring", c), w.st, p, consented)
      BY <3>3, <3>5 DEF TaskSound, Task, ConsentOps
    <3>8. PeerSound(Spawn(w, "ring", c), p, consented) /\ Keeps(w, Spawn(w, "ring", c))
      BY <3>5, <3>7, SpawnSound DEF CallOps
    <3>9. Keeps(r, Spawn(w, "ring", c)) BY <3>2, <3>5, <3>8, KeepsTwice
    <3> QED BY <3>6, <3>8, <3>9
  <2>3. CASE ~(c \in deadline) /\ ~yields /\ collides
    <3>1. TaskSound(Task("busy-send", c), r.st, p, consented) BY DEF TaskSound, Task, ConsentOps
    <3>2. q = Spawn(r, "busy-send", c) BY <2>3
    <3> QED BY <1>1, <3>1, <3>2, SpawnSound DEF CallOps
  <2>4. CASE ~(c \in deadline) /\ ~yields /\ ~collides
    <3>1. q = Spawn(r, "ring", c) BY <2>4
    <3> QED BY <1>1, <1>6, <3>1, SpawnSound DEF CallOps
  <2> QED BY <2>1, <2>2, <2>3, <2>4
<1> HIDE DEF q
<1> QED BY <1>2, <1>7, StepSound DEF r

LEMMA ReceiveSound ==
  ASSUME CallsInv, NEW p \in Peers, NEW s \in callWire, Receive(p, s)
  PROVE  CallsInv' /\ OverStaysOver
<1> DEFINE c == s.c  r == peer[p]
<1>1. s.to = p /\ consented' = consented /\ callWire' \subseteq callWire BY DEF Receive
<1>2. SignalSound(s, consented) BY DEF CallsInv
<1>3. c \in Calls /\ (s.ev = "accept" => c \in consented) /\ (s.ev = "invite" => p # CallerOf[c])
  BY <1>1, <1>2 DEF SignalSound
<1>4. PeerSound(r, p, consented) /\ r \in PeerRecord BY DEF CallsInv
<1>5. Keeps(r, r) BY DEF Keeps
<1>6. CASE s.ev = "invite" /\ r.st[c] = "none"
  <2>1. InviteArrives(p, c) BY <1>6 DEF Receive
  <2> QED BY <1>1, <1>3, <1>6, <2>1, InviteArrivesSound
<1>7. CASE s.ev = "invite" /\ r.st[c] # "none"
  <2>1. UNCHANGED peer BY <1>7 DEF Receive
  <2> QED BY <1>1, <2>1, PeersStay
<1>8. CASE s.ev = "offer"
  <2> DEFINE stays == \/ r.st[c] \notin Established \/ r.conn[c] = "none"
                      \/ r.st[c] = "accepted" /\ c \in deadline
             moved == IF r.st[c] \in {"accepted", "reconnecting"} THEN Event(r, c, "connect") ELSE r
             set == [moved EXCEPT !.conn[c] = "ready"]
             q == Spawn(set, "answer-send", c)
  <2>1. Set(p, IF stays THEN r ELSE q) BY <1>8 DEF Receive, OfferArrives
  <2>2. CASE stays BY <1>1, <1>4, <1>5, <2>1, <2>2, StepSound
  <2>3. CASE ~stays
    <3>1. PeerSound(moved, p, consented) /\ Keeps(r, moved)
      <4>1. CASE r.st[c] \in {"accepted", "reconnecting"}
        <5>1. Takes(r, c, "connect") BY <2>3, <4>1 DEF Takes, transitions, Setup
        <5> QED BY <1>3, <1>4, <4>1, <5>1, EventSound
      <4>2. CASE r.st[c] \notin {"accepted", "reconnecting"} BY <1>4, <1>5, <4>2
      <4> QED BY <4>1, <4>2
    <3> HIDE DEF moved
    <3>2. /\ set \in PeerRecord /\ set.st = moved.st /\ set.mic = moved.mic
          /\ set.tasks = moved.tasks
      BY <3>1 DEF PeerSound, PeerRecord
    <3> HIDE DEF set
    <3>3. PeerSound(set, p, consented) /\ Keeps(moved, set) BY <3>1, <3>2, AsideSound
    <3>4. TaskSound(Task("answer-send", c), set.st, p, consented) BY DEF TaskSound, Task, ConsentOps
    <3>5. PeerSound(q, p, consented) /\ Keeps(set, q) BY <1>3, <3>3, <3>4, SpawnSound DEF CallOps
    <3>6. Set(p, q) BY <2>1, <2>3
    <3> HIDE DEF q
    <3>7. Keeps(r, q) BY <3>1, <3>3, <3>5, KeepsTwice
    <3> QED BY <1>1, <3>5, <3>6, <3>7, StepSound
  <2> QED BY <2>2, <2>3
<1>9. CASE s.ev = "answer"
  <2> DEFINE q == [r EXCEPT !.conn[c] = "ready"]
  <2>1. Set(p, q) \/ Set(p, r) BY <1>9 DEF Receive, AnswerArrives
  <2>2. q \in PeerRecord /\ q.st = r.st /\ q.mic = r.mic /\ q.tasks = r.tasks
    BY <1>4 DEF PeerRecord
  <2> HIDE DEF q
  <2>3. PeerSound(q, p, consented) /\ Keeps(r, q) BY <1>4, <2>2, AsideSound
  <2> QED BY <1>1, <1>4, <1>5, <2>1, <2>3, StepSound
<1>10. CASE s.ev \notin {"invite", "offer", "answer"}
  <2> DEFINE takes == r.st[c] # "none" /\ Takes(r, c, s.ev)
  <2>1. Set(p, IF takes THEN Moves(r, p, c, s.ev) ELSE r) BY <1>10 DEF Receive, ControlArrives
  <2>2. CASE takes
    <3>1. PeerSound(Moves(r, p, c, s.ev), p, consented) /\ Keeps(r, Moves(r, p, c, s.ev))
      BY <1>3, <1>4, <2>2, MovesSound
    <3> QED BY <1>1, <2>1, <2>2, <3>1, StepSound
  <2>3. CASE ~takes BY <1>1, <1>4, <1>5, <2>1, <2>3, StepSound
  <2> QED BY <2>2, <2>3
<1> QED BY <1>6, <1>7, <1>8, <1>9, <1>10

LEMMA PrepareSound ==
  ASSUME CallsInv, NEW p \in Peers, NEW c \in Calls, PrepareStart(p, c)
  PROVE  CallsInv' /\ OverStaysOver
<1> DEFINE b == peer[p]  r == Done(b, "prepare", c)
<1>1. PeerSound(b, p, consented) BY DEF CallsInv
<1>2. Task("prepare", c) \in b.tasks /\ consented' = consented /\ callWire' = callWire
  BY DEF PrepareStart
<1>3. PICK q \in {EndCall(r, c), Spawn(r, "captured", c), EndCall(Release(r), c),
                  Spawn(r, "capture", c)} : Set(p, q)
  BY DEF PrepareStart
<1>4. TaskSound(Task("prepare", c), b.st, p, consented) BY <1>1, <1>2 DEF PeerSound
<1>5. c \in consented BY <1>4 DEF TaskSound, Task, ConsentOps
<1>6. PeerSound(r, p, consented) /\ Keeps(b, r) BY <1>1, DoneSound
<1> HIDE DEF r, b
<1>7. /\ PeerSound(EndCall(r, c), p, consented) /\ Keeps(b, EndCall(r, c))
      /\ PeerSound(EndCall(Release(r), c), p, consented) /\ Keeps(b, EndCall(Release(r), c))
  BY <1>6, ReleaseSound, EndCallSound, KeepsTwice
<1>8. ASSUME NEW op \in {"captured", "capture"}
      PROVE  PeerSound(Spawn(r, op, c), p, consented) /\ Keeps(b, Spawn(r, op, c))
  <2>1. TaskSound(Task(op, c), r.st, p, consented) BY <1>5 DEF TaskSound, Task
  <2> QED BY <1>6, <2>1, SpawnSound, KeepsTwice DEF CallOps
<1>9. PeerSound(q, p, consented) /\ Keeps(b, q) BY <1>3, <1>7, <1>8
<1> QED BY <1>2, <1>3, <1>9, StepSound DEF b

LEMMA CaptureSound ==
  ASSUME CallsInv, NEW p \in Peers, NEW c \in Calls, Capture(p, c)
  PROVE  CallsInv' /\ OverStaysOver
<1> DEFINE b == peer[p]  r == Done(b, "capture", c)  h == [r EXCEPT !.mic = c]
           q == Spawn(h, "captured", c)
<1>1. PeerSound(b, p, consented) BY DEF CallsInv
<1>2. /\ Task("capture", c) \in b.tasks /\ consented' = consented /\ callWire' = callWire /\ Set(p, q)
  BY DEF Capture
<1>3. TaskSound(Task("capture", c), b.st, p, consented) BY <1>1, <1>2 DEF PeerSound
<1>4. c \in consented BY <1>3 DEF TaskSound, Task, ConsentOps
<1>5. PeerSound(r, p, consented) /\ Keeps(b, r) BY <1>1, DoneSound
<1> HIDE DEF r, b
<1>6. h \in PeerRecord /\ h.st = r.st /\ h.mic = c /\ h.tasks = r.tasks
  BY <1>5 DEF PeerSound, PeerRecord
<1> HIDE DEF h
<1>7. PeerSound(h, p, consented) /\ Keeps(r, h) BY <1>4, <1>5, <1>6 DEF PeerSound, Keeps
<1>8. TaskSound(Task("captured", c), h.st, p, consented) BY <1>4 DEF TaskSound, Task
<1>9. PeerSound(q, p, consented) /\ Keeps(h, q) BY <1>7, <1>8, SpawnSound DEF CallOps
<1> HIDE DEF q
<1>10. Keeps(b, q) BY <1>5, <1>7, <1>9, KeepsTwice
<1> QED BY <1>2, <1>9, <1>10, StepSound DEF b

LEMMA VoidSound ==
  ASSUME CallsInv, NEW p \in Peers, NEW c \in Calls, CaptureFails(p, c) \/ CaptureVoid(p, c)
  PROVE  CallsInv' /\ OverStaysOver
<1> DEFINE b == peer[p]
<1>1. PeerSound(b, p, consented) BY DEF CallsInv
<1>2. consented' = consented /\ callWire' = callWire BY DEF CaptureFails, CaptureVoid
<1>3. \E op \in {"capture", "void", "stale"} :
         \/ Set(p, EndCall(Release(Done(b, op, c)), c))
         \/ Set(p, EndCall(Done(b, op, c), c))
  BY DEF CaptureFails, CaptureVoid
<1>4. PICK op : \/ Set(p, EndCall(Release(Done(b, op, c)), c))
                \/ Set(p, EndCall(Done(b, op, c), c)) BY <1>3
<1> DEFINE r == Done(b, op, c)
<1>5. PeerSound(r, p, consented) /\ Keeps(b, r) BY <1>1, DoneSound
<1>6. Set(p, EndCall(Release(r), c)) \/ Set(p, EndCall(r, c)) BY <1>4
<1> HIDE DEF r, b
<1>7. /\ PeerSound(EndCall(r, c), p, consented) /\ Keeps(b, EndCall(r, c))
      /\ PeerSound(EndCall(Release(r), c), p, consented) /\ Keeps(b, EndCall(Release(r), c))
  BY <1>5, ReleaseSound, EndCallSound, KeepsTwice
<1> QED BY <1>2, <1>6, <1>7, StepSound DEF b

LEMMA PreparedSound ==
  ASSUME CallsInv, NEW p \in Peers, NEW c \in Calls, Prepared(p, c)
  PROVE  CallsInv' /\ OverStaysOver
<1> DEFINE b == peer[p]  d == Done(b, "captured", c)  r == [d EXCEPT !.conn[c] = "open"]
           op == IF CallerOf[c] = p THEN "offer" ELSE "accept"
           q == Spawn(r, op, c)
<1>1. PeerSound(b, p, consented) BY DEF CallsInv
<1>2. /\ Task("captured", c) \in b.tasks /\ consented' = consented /\ callWire' = callWire /\ Set(p, q)
  BY DEF Prepared
<1>3. TaskSound(Task("captured", c), b.st, p, consented) BY <1>1, <1>2 DEF PeerSound
<1>4. c \in consented BY <1>3 DEF TaskSound, Task, ConsentOps
<1>5. PeerSound(d, p, consented) /\ Keeps(b, d) BY <1>1, DoneSound
<1> HIDE DEF d, b
<1>6. r \in PeerRecord /\ r.st = d.st /\ r.mic = d.mic /\ r.tasks = d.tasks
  BY <1>5 DEF PeerSound, PeerRecord
<1> HIDE DEF r
<1>7. PeerSound(r, p, consented) /\ Keeps(d, r) BY <1>5, <1>6, AsideSound
<1>8. TaskSound(Task(op, c), r.st, p, consented) BY <1>4 DEF TaskSound, Task
<1>9. PeerSound(q, p, consented) /\ Keeps(r, q) BY <1>7, <1>8, SpawnSound DEF CallOps
<1> HIDE DEF q
<1>10. Keeps(b, q) BY <1>5, <1>7, <1>9, KeepsTwice
<1> QED BY <1>2, <1>9, <1>10, StepSound DEF b

LEMMA OfferSound ==
  ASSUME CallsInv, NEW p \in Peers, NEW c \in Calls, Offer(p, c)
  PROVE  CallsInv' /\ OverStaysOver
<1> DEFINE b == peer[p]  r == Done(b, "offer", c)
           late == r.conn[c] = "none" \/ c \in deadline \/ r.st[c] \notin Established
           h == IF r.st[c] = "accepted" THEN Event(r, c, "connect") ELSE r
           q == Spawn(h, "offer-send", c)
<1>1. PeerSound(b, p, consented) BY DEF CallsInv
<1>2. /\ consented' = consented /\ callWire' = callWire /\ Set(p, IF late THEN EndCall(r, c) ELSE q)
  BY DEF Offer
<1>3. PeerSound(r, p, consented) /\ Keeps(b, r) BY <1>1, DoneSound
<1> HIDE DEF r, b
<1>4. CASE late
  <2>1. PeerSound(EndCall(r, c), p, consented) /\ Keeps(b, EndCall(r, c))
    BY <1>3, EndCallSound, KeepsTwice
  <2> QED BY <1>2, <1>4, <2>1, StepSound DEF b
<1>5. CASE ~late
  <2>1. PeerSound(h, p, consented) /\ Keeps(b, h)
    <3>1. CASE r.st[c] = "accepted"
      <4>1. Takes(r, c, "connect") BY <1>5, <3>1 DEF Takes, transitions
      <4> QED BY <1>3, <3>1, <4>1, EventSound, KeepsTwice
    <3>2. CASE r.st[c] # "accepted" BY <1>3, <3>2
    <3> QED BY <3>1, <3>2
  <2>2. Set(p, q) BY <1>2, <1>5
  <2> HIDE DEF h
  <2>3. TaskSound(Task("offer-send", c), h.st, p, consented) BY DEF TaskSound, Task, ConsentOps
  <2>4. PeerSound(q, p, consented) /\ Keeps(h, q) BY <2>1, <2>3, SpawnSound DEF CallOps
  <2> HIDE DEF q
  <2>5. Keeps(b, q) BY <2>1, <2>4, KeepsTwice
  <2> QED BY <1>2, <2>2, <2>4, <2>5, StepSound DEF b
<1> QED BY <1>4, <1>5

LEMMA IceSound ==
  ASSUME CallsInv, NEW p \in Peers, NEW c \in Calls,
         IceConnected(p, c) \/ ReconnectTimeout(p, c) \/ IceFailed(p, c)
  PROVE  CallsInv' /\ OverStaysOver
<1> DEFINE b == peer[p]  r == [b EXCEPT !.waiting = @ \ {c}, !.up = @ \cup {c}]
           q == Event(r, c, "connected")
<1>1. PeerSound(b, p, consented) BY DEF CallsInv
<1>2. consented' = consented /\ callWire' = callWire
  BY DEF IceConnected, ReconnectTimeout, IceFailed
<1>3. r \in PeerRecord /\ r.st = b.st /\ r.mic = b.mic /\ r.tasks = b.tasks
  BY <1>1 DEF PeerSound, PeerRecord
<1>4. CASE IceConnected(p, c)
  <2>1. Set(p, IF Takes(r, c, "connected") THEN q ELSE r) BY <1>4 DEF IceConnected
  <2> HIDE DEF r, b
  <2>2. PeerSound(r, p, consented) /\ Keeps(b, r) BY <1>1, <1>3, AsideSound
  <2>3. CASE Takes(r, c, "connected")
    <3>1. PeerSound(q, p, consented) /\ Keeps(b, q) BY <2>2, <2>3, EventSound, KeepsTwice
    <3>2. Set(p, q) BY <2>1, <2>3
    <3> HIDE DEF q
    <3> QED BY <1>2, <3>1, <3>2, StepSound DEF b
  <2>4. CASE ~Takes(r, c, "connected") BY <1>2, <2>1, <2>2, <2>4, StepSound DEF b
  <2> QED BY <2>3, <2>4
<1>5. CASE ReconnectTimeout(p, c) \/ IceFailed(p, c)
  <2>1. Set(p, FailCall(b, p, c)) BY <1>5 DEF ReconnectTimeout, IceFailed
  <2>2. PeerSound(FailCall(b, p, c), p, consented) /\ Keeps(b, FailCall(b, p, c))
    BY <1>1, FailCallSound
  <2> QED BY <1>2, <2>1, <2>2, StepSound
<1> QED BY <1>4, <1>5

LEMMA IceDisconnectedSound ==
  ASSUME CallsInv, NEW p \in Peers, NEW c \in Calls, IceDisconnected(p, c)
  PROVE  CallsInv' /\ OverStaysOver
<1> DEFINE b == peer[p]  r == [b EXCEPT !.up = @ \ {c}, !.waiting = @ \cup {c}]
           q == [r EXCEPT !.restarted = @ \cup {c}]
           h == [q EXCEPT !.st[c] = "connecting"]
<1>1. PeerSound(b, p, consented) BY DEF CallsInv
<1>2. consented' = consented /\ callWire' = callWire BY DEF IceDisconnected
<1>3. r \in PeerRecord /\ r.st = b.st /\ r.mic = b.mic /\ r.tasks = b.tasks
  BY <1>1 DEF PeerSound, PeerRecord
<1>4. \/ Set(p, r)
      \/ q.st[c] \in {"connected", "reconnecting"} /\ Set(p, Spawn(h, "restart-send", c))
      \/ Set(p, FailCall(q, p, c))
      \/ Set(p, Spawn(q, "restart-send", c))
  BY DEF IceDisconnected
<1> HIDE DEF r, b
<1>5. PeerSound(r, p, consented) /\ Keeps(b, r) BY <1>1, <1>3, AsideSound
<1>6. q \in PeerRecord /\ q.st = r.st /\ q.mic = r.mic /\ q.tasks = r.tasks BY <1>3 DEF PeerRecord
<1> HIDE DEF q
<1>7. PeerSound(q, p, consented) /\ Keeps(b, q) BY <1>5, <1>6, AsideSound, KeepsTwice
<1>8. CASE Set(p, r) BY <1>2, <1>5, <1>8, StepSound DEF b
<1>9. CASE q.st[c] \in {"connected", "reconnecting"} /\ Set(p, Spawn(h, "restart-send", c))
  <2> DEFINE s == Spawn(h, "restart-send", c)
  <2>1. PeerSound(h, p, consented) /\ Keeps(b, h)
    <3>1. q.st[c] # "none" /\ q.st[c] \notin FinalStates BY <1>9 DEF FinalStates
    <3>2. "connecting" \in CallStates BY DEF CallStates, Setup
    <3>3. PeerSound(h, p, consented) /\ Keeps(q, h) BY <1>7, <3>1, <3>2, StateSound
    <3> QED BY <1>7, <3>3, KeepsTwice
  <2> HIDE DEF h
  <2>2. TaskSound(Task("restart-send", c), h.st, p, consented) BY DEF TaskSound, Task, ConsentOps
  <2>3. PeerSound(s, p, consented) /\ Keeps(b, s) BY <2>1, <2>2, SpawnSound, KeepsTwice DEF CallOps
  <2>4. Set(p, s) BY <1>9
  <2> HIDE DEF s
  <2> QED BY <1>2, <2>3, <2>4, StepSound DEF b
<1>10. CASE Set(p, FailCall(q, p, c))
  <2>1. PeerSound(FailCall(q, p, c), p, consented) /\ Keeps(b, FailCall(q, p, c))
    BY <1>7, FailCallSound, KeepsTwice
  <2> QED BY <1>2, <1>10, <2>1, StepSound DEF b
<1>11. CASE Set(p, Spawn(q, "restart-send", c))
  <2>1. TaskSound(Task("restart-send", c), q.st, p, consented) BY DEF TaskSound, Task, ConsentOps
  <2>2. PeerSound(Spawn(q, "restart-send", c), p, consented) /\ Keeps(b, Spawn(q, "restart-send", c))
    BY <1>7, <2>1, SpawnSound, KeepsTwice DEF CallOps
  <2> QED BY <1>2, <1>11, <2>2, StepSound DEF b
<1> QED BY <1>4, <1>8, <1>9, <1>10, <1>11

LEMMA ExpiresSound ==
  ASSUME CallsInv, NEW p \in Peers, NEW c \in Calls, Expires(p, c)
  PROVE  CallsInv' /\ OverStaysOver
<1> DEFINE b == peer[p]  r == [b EXCEPT !.timer = @ \ {c}]  q == Moves(r, p, c, "expire")
<1>1. PeerSound(b, p, consented) BY DEF CallsInv
<1>2. consented' = consented /\ callWire' = callWire /\ Set(p, IF Takes(r, c, "expire") THEN q ELSE r)
  BY DEF Expires
<1>3. r \in PeerRecord /\ r.st = b.st /\ r.mic = b.mic /\ r.tasks = b.tasks
  BY <1>1 DEF PeerSound, PeerRecord
<1> HIDE DEF r, b
<1>4. PeerSound(r, p, consented) /\ Keeps(b, r) BY <1>1, <1>3, AsideSound
<1>5. CASE Takes(r, c, "expire")
  <2>1. PeerSound(q, p, consented) /\ Keeps(b, q) BY <1>4, <1>5, MovesSound, KeepsTwice
  <2>2. Set(p, q) BY <1>2, <1>5
  <2> HIDE DEF q
  <2> QED BY <1>2, <2>1, <2>2, StepSound DEF b
<1>6. CASE ~Takes(r, c, "expire") BY <1>2, <1>4, <1>6, StepSound DEF b
<1> QED BY <1>5, <1>6

-----------------------------------------------------------------------------
LEMMA CallsInitSound == CallsInit => CallsInv
<1> SUFFICES ASSUME CallsInit PROVE CallsInv OBVIOUS
<1>1. \A p \in Peers : /\ peer[p] \in PeerRecord /\ peer[p].mic = NoCall /\ peer[p].tasks = {}
  BY DEF CallsInit, PeerRecord
<1>2. peer \in [Peers -> PeerRecord]
  <2>1. peer = [p \in Peers |-> peer[p]] BY DEF CallsInit
  <2> QED BY <1>1, <2>1
<1>3. callWire = {} BY DEF CallsInit
<1> QED BY <1>1, <1>2, <1>3 DEF CallsInv, PeerSound

LEMMA CallsStep ==
  ASSUME CallsInv, [CallsNext]_callVars PROVE CallsInv' /\ [OverStaysOver]_callVars
<1>1. CASE UNCHANGED callVars
  <2>1. CallsInv' /\ OverStaysOver BY <1>1, PeersStay DEF callVars
  <2> QED BY <2>1
<1>2. CASE \E p \in Peers, c \in Calls :
              \/ StartCall(p, c) \/ AcceptCall(p, c) \/ RejectCall(p, c) \/ CancelCall(p, c)
              \/ HangUp(p, c) \/ VerificationLost(p, c)
  BY <1>2, StartSound, AcceptSound, UserSound
<1>3. CASE \E p \in Peers, c \in Calls : Works(p, c)
  <2> SUFFICES ASSUME NEW p \in Peers, NEW c \in Calls, Works(p, c) PROVE CallsInv' /\ OverStaysOver
    BY <1>3
  <2>1. \/ Invited(p, c) \/ EndState(p, c) \/ Rings(p, c) \/ PrepareStart(p, c)
        \/ \E ev \in {"accept", "reject", "cancel"} : Responds(p, c, ev)
        \/ Capture(p, c) \/ CaptureVoid(p, c) \/ Prepared(p, c) \/ Offer(p, c)
        \/ \E op \in SendOps : Sent(p, op, c)
        \/ \E op \in SendOps : SendFails(p, op, c)
    BY DEF Works, SendOps
  <2>2. CASE Invited(p, c) \/ EndState(p, c) \/ Rings(p, c) \/ PrepareStart(p, c)
    BY <2>2, InvitedSound, EndStateSound, RingsSound, PrepareSound
  <2>3. CASE \E ev \in {"accept", "reject", "cancel"} : Responds(p, c, ev) BY <2>3, RespondsSound
  <2>4. CASE Capture(p, c) \/ CaptureVoid(p, c) \/ Prepared(p, c) \/ Offer(p, c)
    BY <2>4, CaptureSound, VoidSound, PreparedSound, OfferSound
  <2>5. CASE \E op \in SendOps : Sent(p, op, c) BY <2>5, SentSound
  <2>6. CASE \E op \in SendOps : SendFails(p, op, c) BY <2>6, SendFailsSound
  <2> QED BY <2>1, <2>2, <2>3, <2>4, <2>5, <2>6
<1>4. CASE \E p \in Peers, c \in Calls : Timers(p, c) \/ IceConnected(p, c) \/ IceDisconnected(p, c)
  BY <1>4, ExpiresSound, IceSound, IceDisconnectedSound DEF Timers
<1>5. CASE \E p \in Peers, c \in Calls :
              \/ CaptureFails(p, c) \/ IceFailed(p, c)
              \/ \E op \in SendOps : SendFails(p, op, c)
  BY <1>5, VoidSound, IceSound, SendFailsSound
<1>6. CASE \E p \in Peers : \E s \in callWire : Receive(p, s) BY <1>6, ReceiveSound
<1>7. CASE \E s \in callWire : LoseSignal(s)
  <2>1. UNCHANGED <<peer, consented>> /\ callWire' \subseteq callWire BY <1>7 DEF LoseSignal
  <2> QED BY <2>1, PeersStay
<1>8. CASE \E c \in Calls : DeadlinePasses(c)
  <2>1. UNCHANGED <<peer, consented>> /\ callWire' \subseteq callWire BY <1>8 DEF DeadlinePasses
  <2> QED BY <2>1, PeersStay
<1> QED BY <1>1, <1>2, <1>3, <1>4, <1>5, <1>6, <1>7, <1>8 DEF CallsNext

LEMMA CallsInvAnswers == CallsInv => CallsTypeOK /\ CaptureNeedsConsent
  BY DEF CallsInv, CallsTypeOK, CaptureNeedsConsent, PeerSound

(* The safety of a call (composition.ts, negotiation.ts, media.ts, the       *)
(* product's handlers): the records are well formed, no microphone is        *)
(* captured for a call its callee's user has not accepted, and a call that   *)
(* is over is never revived by a late signal, answer, timer or task.         *)
THEOREM CallIsSafe == CallsSpec => CallsSafe
<1>1. CallsInit => CallsInv BY CallsInitSound
<1>2. CallsInv /\ [CallsNext]_callVars => CallsInv' BY CallsStep
<1>3. CallsInv /\ [CallsNext]_callVars => [OverStaysOver]_callVars BY CallsStep
<1>4. CallsInv => CallsTypeOK /\ CaptureNeedsConsent BY CallsInvAnswers
<1> QED BY <1>1, <1>2, <1>3, <1>4, PTL DEF CallsSpec, CallsSafe
=============================================================================
