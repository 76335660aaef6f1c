---------------------------- MODULE FileTransfer ----------------------------
(***************************************************************************)
(* File transfers: the relay's ledger of one account (backend/attachments/ *)
(* fileLedger.ts), the workflows that send through it and the one that     *)
(* receives (service/src/files/{workflow,state}.ts), and the requests      *)
(* between them (client/src/media/HttpFileGateway.ts).                     *)
(*                                                                         *)
(* A request outlives the client's interest in it: it is abandoned, not    *)
(* recalled.  Sealing a chunk again gives another object, so an object is  *)
(* the number of the seal that made it and 0 is none.  Sizes are one unit  *)
(* for each transfer; the bytes of the quota are counted in those units.   *)
(***************************************************************************)
EXTENDS Integers, FiniteSets, FiniteSetsExt

CONSTANTS Senders, Receiver, MaxTransfers, ChunkCount, Quota, MaxRuns, MaxDownloads, MaxFileFaults

ASSUME FileAssumption ==
    /\ Receiver \notin Senders
    /\ MaxTransfers \in Nat /\ ChunkCount \in Nat \ {0} /\ Quota \in Nat /\ MaxRuns \in Nat /\ MaxDownloads \in Nat /\ MaxFileFaults \in Nat

Flows == Senders \cup {Receiver}
Transfers == 1 .. MaxTransfers
Chunks == 1 .. ChunkCount
Objects == 0 .. ChunkCount      \* 0 is the manifest
NoFile == 0
NoObjects == [i \in Objects |-> 0]

VARIABLES
    file,      \* relay: transfer -> [state, reserved, has]; has = manifest and chunk records
    bytes,     \* relay: transfer -> the ciphertexts, in fields of their own of the same document
    revision,  \* relay: the revision of the account's document
    overdue,   \* transfers past their expiry
    query,     \* flow -> the request it waits for
    orphans,   \* requests nobody waits for
    flow,      \* client: flow -> [at, run, gen, phase, retryable, id, produced, cache, next]
    seals,     \* transfer -> object -> how often it was sealed
    references,\* transfers whose reference was sent to the contact
    fileFaults

fileVars == <<file, bytes, revision, overdue, query, orphans, flow, seals, references, fileFaults>>

Unused == [state |-> "unused", reserved |-> FALSE, has |-> NoObjects]
NoQuery == [op |-> "none", id |-> NoFile, index |-> 0, object |-> 0, stage |-> "none",
            seen |-> [t \in Transfers |-> Unused], at |-> 0, answer |-> "none", view |-> Unused]
NewFlow == [at |-> "idle", run |-> 0, gen |-> 0, phase |-> "Idle", retryable |-> FALSE,
            id |-> NoFile, produced |-> {}, cache |-> NoObjects, next |-> 1]

FileInit ==
    /\ file = [t \in Transfers |-> Unused]
    /\ bytes = [t \in Transfers |-> NoObjects]
    /\ revision = 0
    /\ overdue = {}
    /\ query = [w \in Flows |-> NoQuery]
    /\ orphans = {}
    /\ flow = [w \in Flows |-> NewFlow]
    /\ seals = [t \in Transfers |-> NoObjects]
    /\ references = {}
    /\ fileFaults = 0

FileFault == fileFaults < MaxFileFaults /\ fileFaults' = fileFaults + 1

(***************************************************************************)
(* The relay.                                                              *)
(***************************************************************************)
FileClosed(state) == [state |-> state, reserved |-> FALSE, has |-> NoObjects]

(* expire: a view of the ledger at the present time.  A record that is     *)
(* dropped a day later is refused as this one is.                          *)
Expired(l) == [t \in Transfers |-> IF t \in overdue /\ l[t].state # "unused" THEN FileClosed("expired") ELSE l[t]]

ReservedIn(l) == Cardinality({t \in Transfers : l[t].reserved})
Dead(f) == f.state \in {"expired", "canceled"}
Whole(f) == \A i \in Objects : f.has[i] # 0

(* What each change answers for a ledger; "ok" is the one that writes. *)
CreateAnswer(l) == IF ReservedIn(l) >= Quota THEN "quota" ELSE "ok"
PutAnswer(f, q) ==
    LET existing == IF f.has[q.index] = 0 THEN 0
                    ELSE IF q.index = 0 THEN f.has[0] ELSE bytes[q.id][q.index]
    IN  CASE Dead(f) -> f.state
          [] ~Dead(f) /\ existing # 0 -> IF existing = q.object THEN "ok" ELSE "conflict"
          [] OTHER -> IF f.state # "incomplete" \/ f.has[q.index] = q.object THEN "conflict" ELSE "ok"
CompleteAnswer(f) == IF Dead(f) THEN f.state ELSE IF Whole(f) THEN "ok" ELSE "incomplete"
Answer(l, q) ==
    CASE q.op = "create" -> CreateAnswer(l)
      [] q.op = "put" -> PutAnswer(l[q.id], q)
      [] q.op = "complete" -> CompleteAnswer(l[q.id])
      [] q.op = "cancel" -> "ok"

Changed(f, q) ==
    CASE q.op = "create" -> [Unused EXCEPT !.state = "incomplete", !.reserved = TRUE]
      [] q.op = "put" -> [f EXCEPT !.has[q.index] = q.object]
      [] q.op = "complete" -> [f EXCEPT !.state = "available"]
      [] q.op = "cancel" -> FileClosed(IF f.state = "expired" THEN "expired" ELSE "canceled")

(* replace: the records, the one new ciphertext and the removal of those   *)
(* whose reservation ended, in one write if the revision is the one read.  *)
Replace(before, after, q) ==
    /\ file' = after
    /\ revision' = revision + 1
    /\ bytes' = [t \in Transfers |->
         IF before[t].reserved /\ ~after[t].reserved THEN NoObjects
         ELSE IF q.op = "put" /\ t = q.id /\ q.index # 0 THEN [bytes[t] EXCEPT ![q.index] = q.object]
         ELSE bytes[t]]

Unwritten == UNCHANGED <<file, bytes, revision>>
FileAnswered(q, a, f) == [NoQuery EXCEPT !.op = q.op, !.id = q.id, !.stage = "done", !.answer = a, !.view = f]

(* read and locate: the snapshot that the change will be made to. *)
Located(q) == [q EXCEPT !.stage = "read", !.seen = file, !.at = revision]

(* One turn of atomic, from its snapshot to replace.  The transfer that a  *)
(* request creates gets the next number.                                   *)
Numbered(q) ==
    IF q.op = "create" THEN [q EXCEPT !.id = Min({t \in Transfers : file[t].state = "unused"} \cup {MaxTransfers})] ELSE q
Turn(q) ==
    LET l == Expired(q.seen)
        a == Answer(l, q)
    IN  [answer |-> IF a = "ok" /\ q.op \in {"put", "complete"} /\ q.id \in overdue THEN "expired" ELSE a,
         ledger |-> IF a = "ok" THEN [l EXCEPT ![q.id] = Changed(@, q)] ELSE l]

\* Variant for testing FileCorrect: the revision is not compared.
CommitsStale(r) ==
    LET q == Numbered(r) IN
    /\ q.op = "create" => file[q.id].state = "unused"
    /\ IF Turn(q).answer = "ok" THEN Replace(q.seen, Turn(q).ledger, q) ELSE Unwritten

Commits(r) ==
    LET q == Numbered(r) IN
    /\ q.op = "create" => file[q.id].state = "unused"
    /\ IF Turn(q).answer = "ok" /\ q.at = revision THEN Replace(q.seen, Turn(q).ledger, q) ELSE Unwritten
CommitResult(r) ==
    LET q == Numbered(r)
        turn == Turn(q)
    IN  IF turn.answer # "ok" THEN FileAnswered(q, turn.answer, Unused)
        ELSE IF q.at # revision THEN [r EXCEPT !.stage = "new", !.seen = NoQuery.seen, !.at = 0]
        ELSE FileAnswered(q, "ok", turn.ledger[q.id])

(* The reads: the ciphertext is fetched apart from the snapshot, and a     *)
(* second look at the ledger decides whether it is handed out.             *)
ChunkAnswer(f, q, object) ==
    IF Dead(f) THEN f.state
    ELSE IF f.state # "available" THEN "incomplete"
    ELSE IF object = 0 THEN "storage" ELSE "ok"
Fetched(q) ==
    LET f == Expired(q.seen)[q.id]
        object == bytes[q.id][q.index]
        a == ChunkAnswer(f, q, object)
    IN  IF a = "ok" THEN [q EXCEPT !.stage = "fetched", !.seen = [NoQuery.seen EXCEPT ![q.id] = f], !.object = object]
        ELSE FileAnswered(q, a, Unused)
Fenced(q) ==
    LET f == Expired(file)[q.id]
        a == IF f.state = q.seen[q.id].state THEN "ok" ELSE ChunkAnswer(f, q, q.object)
    IN  [FileAnswered(q, a, f) EXCEPT !.object = IF a = "ok" THEN q.object ELSE 0]
StatusOf(q) == FileAnswered(q, "ok", Expired(file)[q.id])

Underway(q) == q.stage \in {"new", "read", "fetched"}

(* The step of the relay that a request is at. *)
Handled(q) ==
    CASE q.stage = "new" /\ q.op # "status" -> Located(q)
      [] q.stage = "new" /\ q.op = "status" -> StatusOf(q)
      [] q.stage = "read" /\ q.op = "chunk" -> Fetched(q)
      [] q.stage = "fetched" -> Fenced(q)
      [] OTHER -> CommitResult(q)
Writes(q) == IF q.stage = "read" /\ q.op # "chunk" THEN Commits(q) ELSE Unwritten

RelayServes(w) ==
    /\ Underway(query[w])
    /\ Writes(query[w])
    /\ query' = [query EXCEPT ![w] = Handled(query[w])]
    /\ UNCHANGED <<overdue, orphans, flow, seals, references, fileFaults>>

RelayServesOrphan == \E q \in orphans :
    /\ Writes(q)
    /\ orphans' = (orphans \ {q}) \cup {r \in {Handled(q)} : r.stage # "done"}
    /\ UNCHANGED <<overdue, query, flow, seals, references, fileFaults>>

(* The proof of the request is refused, or the device was revoked before   *)
(* the write: trusted, revalidate.                                         *)
RelayDenies(w) ==
    /\ Underway(query[w]) /\ FileFault
    /\ query' = [query EXCEPT ![w] = FileAnswered(@, "authorization", Unused)]
    /\ Unwritten /\ UNCHANGED <<overdue, orphans, flow, seals, references>>

(* The connection fails or the request times out: "Network unavailable." *)
RequestLost(w) == \E reaches \in BOOLEAN :
    /\ Underway(query[w]) /\ FileFault
    /\ orphans' = IF reaches THEN orphans \cup {query[w]} ELSE orphans
    /\ query' = [query EXCEPT ![w] = FileAnswered(@, "network", Unused)]
    /\ Unwritten /\ UNCHANGED <<overdue, flow, seals, references>>
AnswerLostToNetwork(w) ==
    /\ query[w].stage = "done" /\ query[w].answer # "network" /\ FileFault
    /\ query' = [query EXCEPT ![w] = FileAnswered(@, "network", Unused)]
    /\ Unwritten /\ UNCHANGED <<overdue, orphans, flow, seals, references>>

TimePasses == \E t \in Transfers :
    /\ file[t].state # "unused" /\ t \notin overdue
    /\ overdue' = overdue \cup {t}
    /\ Unwritten /\ UNCHANGED <<query, orphans, flow, seals, references, fileFaults>>

(* cleanup, every minute: a change that only expires. *)
CleanupLedger ==
    /\ file # Expired(file)
    /\ Replace(file, Expired(file), NoQuery)
    /\ UNCHANGED <<overdue, query, orphans, flow, seals, references, fileFaults>>

(***************************************************************************)
(* FileTransferState.                                                      *)
(***************************************************************************)
Terminal == {"Idle", "WaitingForRecipient", "Complete", "Canceled", "Failed", "Expired", "RestartRequired"}
Live(f) == f.run = f.gen /\ f.phase \notin Terminal
BeginFile(f) == [f EXCEPT !.gen = @ + 1, !.run = f.gen + 1, !.phase = "Preparing", !.retryable = FALSE]
Move(f, phase) == IF Live(f) THEN [f EXCEPT !.phase = phase] ELSE f

(* release: the key, the cache and the transfer of the pending file.       *)
Released(f) == [f EXCEPT !.id = NoFile, !.produced = {}, !.cache = NoObjects]
CancelRequest(id) == [NoQuery EXCEPT !.op = "cancel", !.id = id, !.stage = "new"]
Forgets(w) == orphans' = orphans \cup {q \in {query[w]} : Underway(q)}
                                 \cup {CancelRequest(t) : t \in {flow[w].id} \ {NoFile}}

(* failed: which failures may be retried, and which need a new transfer. *)
Fail(f, reason) ==
    LET phase == CASE reason = "cache" -> "RestartRequired" [] reason = "expired" -> "Expired" [] OTHER -> "Failed"
        retry == f.id # NoFile /\ reason \in {"network", "storage"}
        g == [Move(f, phase) EXCEPT !.retryable = retry, !.at = "idle"]
    IN  IF ~Live(f) THEN [f EXCEPT !.at = "idle"] ELSE IF reason = "cache" THEN Released(g) ELSE g

AskRelay(w, op, index, object) ==
    query' = [query EXCEPT ![w] = [NoQuery EXCEPT !.op = op, !.id = flow[w].id, !.index = index,
                                                  !.object = object, !.stage = "new"]]
Steps(w, f) == flow' = [flow EXCEPT ![w] = f]
Relayless == Unwritten /\ UNCHANGED overdue

(***************************************************************************)
(* send, retry and receive.                                                *)
(***************************************************************************)
SendFile(w) ==
    /\ flow[w].at = "idle" /\ flow[w].gen < MaxRuns /\ \E t \in Transfers : file[t].state = "unused"
    /\ Forgets(w)
    /\ query' = [query EXCEPT ![w] = [NoQuery EXCEPT !.op = "create", !.stage = "new"]]
    /\ Steps(w, [BeginFile(Released(flow[w])) EXCEPT !.at = "create"])
    /\ Relayless /\ UNCHANGED <<seals, references, fileFaults>>

(* The reference is checked against the local binding; then the manifest   *)
(* is sealed and put into the cache.                                       *)
Created(w) ==
    LET f == flow[w]
        t == query[w].id
    IN  /\ f.at = "create" /\ query[w].stage = "done" /\ query[w].answer = "ok" /\ Live(f)
        /\ seals' = [seals EXCEPT ![t][0] = @ + 1]
        /\ flow' = [flow EXCEPT ![w] = [f EXCEPT !.id = t, !.produced = {0},
                      !.cache = [NoObjects EXCEPT ![0] = seals[t][0] + 1], !.at = "status"]]
        /\ query' = [query EXCEPT ![w] = [CancelRequest(t) EXCEPT !.op = "status"]]
        /\ Relayless /\ UNCHANGED <<orphans, references, fileFaults>>
BindingRejected(w) ==
    /\ flow[w].at = "create" /\ query[w].stage = "done" /\ query[w].answer = "ok" /\ FileFault
    /\ orphans' = orphans \cup {CancelRequest(query[w].id)}
    /\ query' = [query EXCEPT ![w] = NoQuery]
    /\ Steps(w, Fail(flow[w], "binding"))
    /\ Relayless /\ UNCHANGED <<seals, references>>

RetryFile(w) ==
    /\ flow[w].at = "idle" /\ flow[w].gen < MaxRuns /\ flow[w].phase = "Failed" /\ flow[w].retryable /\ flow[w].id # NoFile
    /\ Steps(w, [BeginFile(flow[w]) EXCEPT !.at = "status"])
    /\ AskRelay(w, "status", 0, 0)
    /\ Relayless /\ UNCHANGED <<orphans, seals, references, fileFaults>>

(* checkStatus *)
StatusReason(s) == IF s.state \in {"expired", "canceled"} THEN s.state ELSE "ok"

(* Where upload goes for a status: the first object the relay lacks. *)
Missing(s) == {i \in Objects : s.has[i] = 0}
Uploads(w, f, s) ==
    IF Missing(s) = {} THEN Steps(w, [f EXCEPT !.at = "complete"]) /\ AskRelay(w, "complete", 0, 0)
    ELSE /\ Steps(w, [f EXCEPT !.at = "seal", !.next = Min(Missing(s))])
         /\ query' = [query EXCEPT ![w] = NoQuery]

UploadStatus(w) ==
    LET f == flow[w]
        q == query[w]
    IN  /\ w \in Senders /\ f.at \in {"status", "put"} /\ Live(f) /\ q.stage = "done"
        /\ q.answer = "ok" /\ StatusReason(q.view) = "ok"
        /\ ~(f.at = "status" /\ (f.cache[0] = 0 \/ (q.view.has[0] # 0 /\ q.view.has[0] # f.cache[0])))
        /\ Uploads(w, [f EXCEPT !.phase = "Uploading"], q.view)
        /\ Relayless /\ UNCHANGED <<orphans, seals, references, fileFaults>>

(* A sealed object is sent again as it is; one that was sealed and is no   *)
(* longer there must not be sealed again under the same key.               *)
UploadObject(w) ==
    LET f == flow[w]
        i == f.next
        again == f.cache[i] # 0
        object == IF again THEN f.cache[i] ELSE seals[f.id][i] + 1
    IN  /\ f.at = "seal" /\ Live(f) /\ (again \/ i \notin f.produced)
        /\ Steps(w, [f EXCEPT !.produced = @ \cup {i}, !.cache[i] = object, !.at = "put", !.phase = "Uploading"])
        /\ seals' = IF again THEN seals ELSE [seals EXCEPT ![f.id][i] = object]
        /\ AskRelay(w, "put", i, object)
        /\ Relayless /\ UNCHANGED <<orphans, references, fileFaults>>

Completed(w) ==
    /\ flow[w].at = "complete" /\ Live(flow[w]) /\ query[w].stage = "done" /\ query[w].answer = "ok"
    /\ Steps(w, [flow[w] EXCEPT !.at = "publish"])
    /\ query' = [query EXCEPT ![w] = [NoQuery EXCEPT !.id = query[w].id]]
    /\ Relayless /\ UNCHANGED <<orphans, seals, references, fileFaults>>

(* The reference is a message: once started, its sending is not recalled.  *)
Publish(w) ==
    /\ flow[w].at = "publish"
    /\ references' = references \cup {query[w].id}
    /\ Steps(w, [flow[w] EXCEPT !.at = "published"])
    /\ Relayless /\ UNCHANGED <<query, orphans, seals, fileFaults>>
PublishFails(w) == \E sent \in BOOLEAN :
    /\ flow[w].at = "publish" /\ FileFault
    /\ references' = IF sent THEN references \cup {query[w].id} ELSE references
    /\ Steps(w, Fail(flow[w], "network"))
    /\ query' = [query EXCEPT ![w] = NoQuery]
    /\ Relayless /\ UNCHANGED <<orphans, seals>>
Published(w) ==
    /\ flow[w].at = "published" /\ Live(flow[w])
    /\ Steps(w, Released([flow[w] EXCEPT !.at = "idle", !.phase = "WaitingForRecipient"]))
    /\ query' = [query EXCEPT ![w] = NoQuery]
    /\ Relayless /\ UNCHANGED <<orphans, seals, references, fileFaults>>

ReceiveFile == \E t \in references :
    /\ flow[Receiver].at = "idle" /\ flow[Receiver].gen < MaxDownloads
    /\ Steps(Receiver, [BeginFile(flow[Receiver]) EXCEPT !.at = "status", !.id = t, !.next = 1, !.cache = NoObjects])
    /\ query' = [query EXCEPT ![Receiver] = [CancelRequest(t) EXCEPT !.op = "status"]]
    /\ Relayless /\ UNCHANGED <<orphans, seals, references, fileFaults>>

(* The receiver's cache stands for its output: the chunks written so far.  *)
ReceiveChunk ==
    LET f == flow[Receiver]
        q == query[Receiver]
        got == IF f.at = "chunk" THEN [f EXCEPT !.cache[f.next] = q.object, !.next = @ + 1, !.phase = "Downloading"]
               ELSE [f EXCEPT !.at = "chunk", !.phase = "Downloading"]
    IN  /\ f.at \in {"status", "chunk"} /\ Live(f) /\ q.stage = "done" /\ q.answer = "ok"
        /\ f.at = "status" => StatusReason(q.view) = "ok" /\ q.view.state = "available"
        /\ IF got.next > ChunkCount
           THEN /\ Steps(Receiver, [got EXCEPT !.at = "idle", !.phase = "Complete"])
                /\ query' = [query EXCEPT ![Receiver] = NoQuery]
           ELSE Steps(Receiver, got) /\ AskRelay(Receiver, "chunk", got.next, 0)
        /\ Relayless /\ UNCHANGED <<orphans, seals, references, fileFaults>>

(* Every other answer ends the run: of send, retry or receive. *)
Reason(w) ==
    LET f == flow[w]
        q == query[w]
    IN  CASE f.at = "seal" -> "cache"
          [] f.at # "seal" /\ q.answer # "ok" -> q.answer
          [] f.at = "status" /\ f.cache[0] = 0 /\ w \in Senders /\ StatusReason(q.view) = "ok" -> "cache"
          [] OTHER -> StatusReason(q.view)
FileProceeds(w) ==
    LET f == flow[w]
        q == query[w]
    IN  \/ f.at = "seal" /\ (f.cache[f.next] # 0 \/ f.next \notin f.produced)
        \/ f.at \in {"create", "complete", "publish", "published"} /\ q.answer \in {"ok", "none"}
        \/ f.at = "put" /\ q.answer = "ok" /\ StatusReason(q.view) = "ok"
        \/ f.at = "chunk" /\ q.answer = "ok"
        \/ /\ f.at = "status" /\ q.answer = "ok" /\ StatusReason(q.view) = "ok"
           /\ IF w = Receiver THEN q.view.state = "available"
              ELSE f.cache[0] # 0 /\ q.view.has[0] \in {0, f.cache[0]}

RunFails(w) ==
    /\ flow[w].at # "idle" /\ Live(flow[w]) /\ query[w].stage \in {"done", "none"} /\ ~FileProceeds(w)
    /\ orphans' = IF Reason(w) = "cache" THEN orphans \cup {CancelRequest(flow[w].id)} ELSE orphans
    /\ Steps(w, Fail(flow[w], Reason(w)))
    /\ query' = [query EXCEPT ![w] = NoQuery]
    /\ Relayless /\ UNCHANGED <<seals, references, fileFaults>>

(* cancel, and dispose when the room or the session changes. *)
CancelFile(w) ==
    LET f == flow[w] IN
    /\ FileFault
    /\ Steps(w, Released([f EXCEPT !.phase = IF Live(f) THEN "Canceled" ELSE @, !.gen = @ + 1]))
    /\ IF w \in Senders THEN Forgets(w) ELSE orphans' = orphans
    /\ query' = [query EXCEPT ![w] = IF f.at \in {"publish", "published"} THEN @ ELSE NoQuery]
    /\ Relayless /\ UNCHANGED <<seals, references>>

(* The run that was canceled meets its next fence. *)
Unwinds(w) ==
    /\ flow[w].at \notin {"idle", "publish"} /\ ~Live(flow[w])
    /\ Steps(w, [flow[w] EXCEPT !.at = "idle"])
    /\ query' = [query EXCEPT ![w] = NoQuery]
    /\ Relayless /\ UNCHANGED <<orphans, seals, references, fileFaults>>

(* The sealed objects are on a disk the browser may reclaim. *)
CacheLost(w) ==
    /\ flow[w].cache # NoObjects /\ FileFault
    /\ Steps(w, [flow[w] EXCEPT !.cache = NoObjects])
    /\ Relayless /\ UNCHANGED <<query, orphans, seals, references>>

FileNext ==
    \/ \E w \in Flows :
         \/ RelayServes(w) \/ RelayDenies(w) \/ RequestLost(w) \/ AnswerLostToNetwork(w)
         \/ CancelFile(w) \/ RunFails(w) \/ Unwinds(w)
    \/ \E w \in Senders :
         \/ SendFile(w) \/ Created(w) \/ BindingRejected(w) \/ RetryFile(w) \/ UploadStatus(w)
         \/ UploadObject(w) \/ Completed(w) \/ Publish(w) \/ PublishFails(w) \/ Published(w) \/ CacheLost(w)
    \/ ReceiveFile \/ ReceiveChunk
    \/ RelayServesOrphan \/ TimePasses \/ CleanupLedger

FileSpec == FileInit /\ [][FileNext]_fileVars

-----------------------------------------------------------------------------
(* Type correctness of the ledger and of the workflows. *)
FileTypeOK ==
    /\ \A t \in Transfers : /\ file[t].state \in {"unused", "incomplete", "available", "canceled", "expired"}
                            /\ file[t].has \in [Objects -> Nat] /\ bytes[t] \in [Objects -> Nat]
    /\ \A w \in Flows : flow[w].id \in Transfers \cup {NoFile} /\ flow[w].next \in 0 .. ChunkCount + 1

(* The reservations of concurrent creations never exceed the quota, and    *)
(* the document holds ciphertext for transfers with a reservation only.    *)
QuotaHolds ==
    /\ ReservedIn(file) <= Quota
    /\ \A t \in Transfers : file[t].reserved <=> file[t].state \in {"incomplete", "available"}
    /\ \A t \in Transfers : \A i \in Chunks : bytes[t][i] # 0 <=> file[t].has[i] # 0

(* A contact never holds the reference of a file that is still incomplete. *)
PublishedIsWhole ==
    \A t \in references : file[t].state # "incomplete" /\ (file[t].state = "available" => Whole(file[t]))

(* Under one key nothing is sealed twice, however a retry meets a cache    *)
(* that was lost, so no nonce or index stands for two ciphertexts.         *)
SealedOnce == \A t \in Transfers : \A i \in Objects : seals[t][i] <= 1

(* A receiver that reports a file as complete holds an object for every chunk. *)
CompleteIsWhole ==
    flow[Receiver].phase = "Complete" /\ flow[Receiver].id # NoFile =>
        \A i \in Chunks : flow[Receiver].cache[i] # 0

(* A transfer that was canceled or has expired stays so, whichever late    *)
(* put or complete still arrives, and a terminal phase of a workflow       *)
(* changes only with a new generation.                                     *)
EndedStaysEnded ==
    /\ \A t \in Transfers : Dead(file[t]) => Dead(file'[t]) /\ bytes'[t] = NoObjects
    /\ \A w \in Flows : flow[w].phase \in Terminal /\ flow'[w].phase # flow[w].phase =>
          flow'[w].gen > flow[w].gen

(* What file transfer promises: within the quota a file is published whole,  *)
(* sealed once, received whole, and dead once it ended.                      *)
FileCorrect ==
    /\ [](FileTypeOK /\ QuotaHolds /\ PublishedIsWhole /\ SealedOnce /\ CompleteIsWhole)
    /\ [][EndedStaysEnded]_fileVars
=============================================================================
