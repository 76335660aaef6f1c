---------------------------- MODULE RuntimeRecords ----------------------------
(* The encryption records of one private space.  Every chat has an engine of *)
(* its own (ModernConversation with a VodozemacRuntime), but the chats of a  *)
(* space share three records of the vault: the account with its one-time     *)
(* keys, the marker of an unfinished session write and the marker of an      *)
(* unfinished key publication.  An engine loads the account once and from    *)
(* then on works on its own copy.                                            *)
(*                                                                           *)
(* A key stands for a batch of one-time keys; a session is named by the key  *)
(* it was opened with, Outgoing when the contact's key was used.  A read of  *)
(* a record is one step with the computation that follows it; every write is *)
(* a step of its own.  The page may go away between any two steps.           *)
EXTENDS Naturals, FiniteSets

CONSTANTS
    Chats,          \* the chats of the space
    MaxKeys,        \* bound: batches of one-time keys ever made
    MaxPageLosses   \* bound: engines closed or lost, at any step

ASSUME RuntimeAssumption ==
    MaxKeys \in Nat \ {0} /\ MaxPageLosses \in Nat /\ "none" \notin Chats

VARIABLES
    account,        \* the stored account: its keys, and those not yet published
    made,           \* batches made so far
    marker,         \* 'vodozemac-commit/local': the chat of an unfinished write
    publication,    \* the publication marker: whose it is, and its address
    modes,          \* per chat: has an address, names a session
    sessions,       \* per chat: the stored session
    copies,         \* per engine: its copy of the account
    live,           \* per engine: the session in memory
    held,           \* per engine: what it read for the running step
    phase,          \* per engine: where it is
    offered,        \* the relay: keys of the chat's bundle
    publications,   \* the relay: bundles published for the chat
    letters,        \* keys claimed by the contact, their message on its way
    losses,
    together        \* two engines have been open at the same time

records == <<account, made, marker, publication, modes, sessions>>
engines == <<copies, live, held, phase>>
relay   == <<offered, publications, letters>>
runtimeVars == <<records, engines, relay, losses, together>>

None      == "none"
NoSession == 0
Outgoing  == MaxKeys + 1
Keys      == 1 .. MaxKeys
Sessions  == 0 .. MaxKeys + 1
Account   == [keys : SUBSET Keys, unpublished : SUBSET Keys]
NoCopy    == [keys |-> {}, unpublished |-> {}]
Nothing   == [account |-> NoCopy, key |-> NoSession, resumed |-> FALSE]
Phases    == {"closed", "recover", "clear", "load", "restore", "known", "renew",
             "renewed", "settle", "reserve", "publish", "address", "mode",
             "mark", "done", "open", "commit", "mutate", "unmark", "error"}

RuntimeInit ==
    /\ account = [keys |-> {1}, unpublished |-> {1}]
    /\ made = 1
    /\ marker = None
    /\ publication = [chat |-> None, address |-> FALSE]
    /\ modes = [c \in Chats |-> [address |-> FALSE, session |-> NoSession]]
    /\ sessions = [c \in Chats |-> NoSession]
    /\ copies = [c \in Chats |-> NoCopy]
    /\ live = [c \in Chats |-> NoSession]
    /\ held = [c \in Chats |-> Nothing]
    /\ phase = [c \in Chats |-> "closed"]
    /\ offered = [c \in Chats |-> {}]
    /\ publications = [c \in Chats |-> 0]
    /\ letters = [c \in Chats |-> {}]
    /\ losses = 0
    /\ together = FALSE

Goto(c, p) == phase' = [phase EXCEPT ![c] = p]
At(c, p)   == phase[c] = p

(*************************** Opening: recovery, account **********************)
OpenEngine(c) ==
    /\ At(c, "closed") /\ Goto(c, "recover")
    /\ together' = (together \/ \E d \in Chats : ~At(d, "closed"))
    /\ UNCHANGED <<records, copies, live, held, relay, losses>>

(* An unfinished write leaves a marker.  The session it names is dropped,    *)
(* whichever chat's it is; the account is left as it is.                     *)
RecoverPendingCommit(c) ==
    /\ At(c, "recover")
    /\ sessions' = IF marker = None THEN sessions
                                    ELSE [sessions EXCEPT ![marker] = NoSession]
    /\ Goto(c, IF marker = None THEN "load" ELSE "clear")
    /\ UNCHANGED <<account, made, marker, publication, modes, copies, live,
                   held, relay,
                   losses, together>>

ClearMarker(c) ==
    /\ At(c, "clear") /\ Goto(c, "load")
    /\ marker' = None
    /\ UNCHANGED <<account, made, publication, modes, sessions, copies, live,
                   held, relay,
                   losses, together>>

RestoreIdentity(c) ==
    /\ At(c, "load") /\ Goto(c, "restore")
    /\ copies' = [copies EXCEPT ![c] = account]
    /\ UNCHANGED <<records, live, held, relay,
                   losses, together>>

(* A publication whose outcome is not known, or another chat's, ends the     *)
(* opening.  A session named by the mode but not stored leaves the engine    *)
(* without one.                                                              *)
Uncertain(c) == publication.chat # None
                /\ (~publication.address \/ publication.chat # c)

(* Variant for testing RuntimeCorrect: the mode's session is restored though *)
(* its record is gone.                                                       *)
RestoresNamed(c) ==
    /\ At(c, "restore") /\ ~Uncertain(c)
    /\ live' = [live EXCEPT ![c] = modes[c].session]
    /\ held' = [held EXCEPT ![c].resumed = publication.address]
    /\ Goto(c, IF modes[c].address \/ publication.address THEN "known" ELSE "reserve")
    /\ UNCHANGED <<records, copies, relay, losses, together>>

RestoreSession(c) ==
    /\ At(c, "restore")
    /\ IF Uncertain(c)
       THEN /\ Goto(c, "error")
            /\ UNCHANGED <<live, held>>
       ELSE /\ live' = [live EXCEPT ![c] =
                  IF modes[c].session = NoSession THEN NoSession ELSE sessions[c]]
            /\ held' = [held EXCEPT ![c].resumed = publication.address]
            /\ Goto(c, IF modes[c].address \/ publication.address
                       THEN "known" ELSE "reserve")
    /\ UNCHANGED <<records, copies, relay, losses, together>>

(************************ Opening: the keys at the relay *********************)
(* Generates the deficit and writes the copy over the stored account.        *)
Persist(c, copy) == /\ copies' = [copies EXCEPT ![c] = copy]
                    /\ account' = copy

Replenishes(c) ==
    /\ made < MaxKeys
    /\ made' = made + 1
    /\ Persist(c, [keys |-> copies[c].keys \cup {made + 1},
                   unpublished |-> copies[c].unpublished \cup {made + 1}])

Replenish(c) ==
    /\ At(c, "known") /\ copies[c].unpublished = {}
    /\ Replenishes(c)
    /\ Goto(c, "renew")
    /\ UNCHANGED <<marker, publication, modes, sessions, live, held, relay,
                   losses, together>>

(* Renewal is availability work: a failure is swallowed.                     *)
SkipRenewal(c) ==
    /\ \/ At(c, "known")
       \/ At(c, "renew")
    /\ Goto(c, "settle")
    /\ UNCHANGED <<records, copies, live, held, relay,
                   losses, together>>

RenewBundle(c) ==
    /\ At(c, "renew") /\ modes[c].address
    /\ offered' = [offered EXCEPT ![c] = copies[c].unpublished]
    /\ \E p \in {"renewed", "settle"} : Goto(c, p)
    /\ UNCHANGED <<records, copies, live, held, publications, letters, losses, together>>

MarkPublished(c) == Persist(c, [copies[c] EXCEPT !.unpublished = {}])

MarkRenewed(c) ==
    /\ At(c, "renewed") /\ Goto(c, "settle")
    /\ MarkPublished(c)
    /\ UNCHANGED <<made, marker, publication, modes, sessions, live, held,
                   relay, losses, together>>

SettleAddress(c) ==
    /\ At(c, "settle")
    /\ Goto(c, IF held[c].resumed \/ ~modes[c].address THEN "mode" ELSE "open")
    /\ UNCHANGED <<records, copies, live, held, relay,
                   losses, together>>

ReservePublication(c) ==
    /\ At(c, "reserve")
    /\ IF copies[c].unpublished = {}
       THEN Replenishes(c) /\ UNCHANGED <<publication, phase>>
       ELSE /\ publication' = [chat |-> c, address |-> FALSE]
            /\ Goto(c, "publish")
            /\ UNCHANGED <<account, made, copies>>
    /\ UNCHANGED <<marker, modes, sessions, live, held, relay,
                   losses, together>>

(* The answer may be lost after the relay has published.                     *)
PublishBundle(c) ==
    /\ At(c, "publish")
    /\ offered' = [offered EXCEPT ![c] = copies[c].unpublished]
    /\ publications' = [publications EXCEPT ![c] = @ + 1]
    /\ \E p \in {"address", "error"} : Goto(c, p)
    /\ UNCHANGED <<records, copies, live, held, letters, losses, together>>

RecordAddress(c) ==
    /\ At(c, "address") /\ Goto(c, "mode")
    /\ publication' = [chat |-> c, address |-> TRUE]
    /\ UNCHANGED <<account, made, marker, modes, sessions, copies, live, held,
                   relay, losses, together>>

WriteMode(c) ==
    /\ At(c, "mode") /\ Goto(c, "mark")
    /\ modes' = [modes EXCEPT ![c].address = TRUE]
    /\ UNCHANGED <<account, made, marker, publication, sessions, copies, live,
                   held, relay,
                   losses, together>>

MarkFirst(c) ==
    /\ At(c, "mark") /\ Goto(c, "done")
    /\ MarkPublished(c)
    /\ UNCHANGED <<made, marker, publication, modes, sessions, live, held,
                   relay, losses, together>>

ClearPublication(c) ==
    /\ At(c, "done") /\ Goto(c, "open")
    /\ publication' = [chat |-> None, address |-> FALSE]
    /\ UNCHANGED <<account, made, marker, modes, sessions, copies, live, held,
                   relay, losses, together>>

(****************************** First contact ********************************)
(* The contact claims one key and seals its first message with it.           *)
PeerClaims(c) ==
    /\ \E k \in offered[c] :
         /\ offered' = [offered EXCEPT ![c] = @ \ {k}]
         /\ letters' = [letters EXCEPT ![c] = @ \cup {k}]
    /\ UNCHANGED <<records, engines, publications, losses, together>>

(* createInboundSession takes the key out of the copy; createOutboundSession *)
(* takes none.  The stored account is read first, as the expected value.     *)
FirstSession(c) ==
    /\ At(c, "open") /\ live[c] = NoSession /\ modes[c].session = NoSession
    /\ \E k \in (letters[c] \cap copies[c].keys) \cup {Outgoing} :
         /\ held' = [held EXCEPT ![c] =
                [account |-> account, key |-> k, resumed |-> FALSE]]
         /\ copies' = [copies EXCEPT ![c] =
                [keys |-> @.keys \ {k}, unpublished |-> @.unpublished \ {k}]]
    /\ Goto(c, "commit")
    /\ UNCHANGED <<records, live, relay, losses, together>>

(* A key the copy does not have: the session cannot be made, and the engine  *)
(* loads the stored account again.                                           *)
FirstSessionFails(c) ==
    /\ At(c, "open") /\ live[c] = NoSession /\ modes[c].session = NoSession
    /\ letters[c] \ copies[c].keys # {}
    /\ copies' = [copies EXCEPT ![c] = account]
    /\ UNCHANGED <<records, live, held, phase, relay, losses, together>>

(* One compare-and-swap of account, session and mode.                        *)
Swaps(c) == account = held[c].account /\ sessions[c] = NoSession

CommitSession(c) ==
    /\ At(c, "commit") /\ Swaps(c)
    /\ account' = copies[c]
    /\ sessions' = [sessions EXCEPT ![c] = held[c].key]
    /\ modes' = [modes EXCEPT ![c].session = held[c].key]
    /\ live' = [live EXCEPT ![c] = held[c].key]
    /\ letters' = [letters EXCEPT ![c] = @ \ {held[c].key}]
    /\ held' = [held EXCEPT ![c] = Nothing]
    /\ Goto(c, "open")
    /\ UNCHANGED <<made, marker, publication, copies, offered, publications,
                   losses, together>>

(* Another chat has written the account: an inbound session starts over from *)
(* the stored account, an outbound one locks the identity.                   *)
ConflictSession(c) ==
    /\ At(c, "commit") /\ ~Swaps(c)
    /\ copies' = [copies EXCEPT ![c] = IF held[c].key = Outgoing THEN NoCopy ELSE account]
    /\ Goto(c, IF held[c].key = Outgoing THEN "error" ELSE "open")
    /\ held' = [held EXCEPT ![c] = Nothing]
    /\ UNCHANGED <<records, live, relay, losses, together>>

(******************** Signals of an established session **********************)
PrepareMutation(c) ==
    /\ At(c, "open") /\ live[c] # NoSession /\ Goto(c, "mutate")
    /\ marker' = c
    /\ UNCHANGED <<account, made, publication, modes, sessions, copies, live,
                   held, relay,
                   losses, together>>

PersistSession(c) ==
    /\ At(c, "mutate") /\ Goto(c, "unmark")
    /\ sessions' = [sessions EXCEPT ![c] = live[c]]
    /\ UNCHANGED <<account, made, marker, publication, modes, copies, live,
                   held, relay,
                   losses, together>>

DeleteMarker(c) ==
    /\ At(c, "unmark") /\ Goto(c, "open")
    /\ marker' = None
    /\ UNCHANGED <<account, made, publication, modes, sessions, copies, live,
                   held, relay,
                   losses, together>>

(* The chat is closed, an awaited call throws, or the page goes away.        *)
LoseEngine(c) ==
    /\ ~At(c, "closed") /\ losses < MaxPageLosses
    /\ Goto(c, "closed")
    /\ copies' = [copies EXCEPT ![c] = NoCopy]
    /\ live' = [live EXCEPT ![c] = NoSession]
    /\ held' = [held EXCEPT ![c] = Nothing]
    /\ losses' = losses + 1
    /\ UNCHANGED <<records, relay, together>>

RuntimeNext ==
    \E c \in Chats :
        \/ OpenEngine(c) \/ RecoverPendingCommit(c) \/ ClearMarker(c)
        \/ RestoreIdentity(c) \/ RestoreSession(c)
        \/ Replenish(c) \/ SkipRenewal(c) \/ RenewBundle(c) \/ MarkRenewed(c)
        \/ SettleAddress(c)
        \/ ReservePublication(c) \/ PublishBundle(c) \/ RecordAddress(c)
        \/ WriteMode(c) \/ MarkFirst(c) \/ ClearPublication(c)
        \/ PeerClaims(c) \/ FirstSession(c) \/ FirstSessionFails(c) \/ CommitSession(c)
        \/ ConflictSession(c)
        \/ PrepareMutation(c) \/ PersistSession(c) \/ DeleteMarker(c)
        \/ LoseEngine(c)

RuntimeSpec == RuntimeInit /\ [][RuntimeNext]_runtimeVars

-------------------------------------------------------------------------------
(* Every record and every engine is well formed.                             *)
RuntimeTypeOK ==
    /\ account \in Account
    /\ marker \in Chats \cup {None}
    /\ publication.chat \in Chats \cup {None}
    /\ \A c \in Chats : /\ phase[c] \in Phases
                        /\ copies[c] \in Account
                        /\ sessions[c] \in Sessions
                        /\ modes[c].session \in Sessions
                        /\ offered[c] \subseteq Keys
                        /\ letters[c] \subseteq Keys
    /\ losses <= MaxPageLosses

(* Chats opened one after another.  A key that the relay offers, or that a   *)
(* contact has sealed its first message with, is in the stored account or    *)
(* has opened a session, whatever step the page was lost at: keys are stored *)
(* before they are published (replenishOneTimeKeys before                    *)
(* renewVodozemacBundle) and leave the account only with a session.          *)
NoKeyIsLost ==
    ~together => \A c \in Chats : offered[c] \cup letters[c] \subseteq
                    account.keys \cup {modes[d].session : d \in Chats}

(* A one-time key that opened a stored session is not in the stored account  *)
(* again, so its first message cannot open a second session                  *)
(* (establishInboundSessionAndCommit, one compare-and-swap).                 *)
ConsumedStaysConsumed ==
    \A c \in Chats : modes[c].session \notin account.keys

(* The same of chats opened one after another.                               *)
KeyUsedOnce == ~together => ConsumedStaysConsumed

(* Chats opened one after another: a chat publishes its first bundle at most *)
(* once.  The marker written before the request keeps a later opening from   *)
(* publishing again (PUBLICATION_RECORD in connectUnlocked).                 *)
PublishedOnce ==
    ~together => \A c \in Chats : publications[c] <= 1

(* Chats opened one after another: while an engine works with a session,     *)
(* that session is stored (recoverPendingCommit deletes the session of an    *)
(* unfinished write, never that of a running engine).                        *)
LiveSessionKept ==
    ~together => \A c \in Chats : live[c] # NoSession => sessions[c] = live[c]

(* Whatever the engines do at the same time, a stored session is the one its *)
(* chat's mode names: first sessions are committed with the mode that names  *)
(* them, and no recovery or signal brings another one back.                  *)
StoredIsNamed ==
    \A c \in Chats : sessions[c] \in {NoSession, modes[c].session}

(* What the records of the crypto runtime promise at every step at which a   *)
(* page may be lost.                                                         *)
RuntimeCorrect ==
    RuntimeTypeOK /\ NoKeyIsLost /\ KeyUsedOnce /\ PublishedOnce /\ LiveSessionKept /\ StoredIsNamed
===============================================================================
