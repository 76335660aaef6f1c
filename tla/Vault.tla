-------------------------------- MODULE Vault ---------------------------------
(* The encrypted vault of a browser.  Every page has its own view of one     *)
(* IndexedDB database: metadata that wrap the master key under the person's  *)
(* secret, and records encrypted under a key derived from the master key.    *)
(* Keys take long to derive, so that pages interleave between any two calls  *)
(* of the database; a transaction of the database is one step.               *)
(*                                                                           *)
(* A master key is named by the page that made it.  Ciphertexts carry fresh  *)
(* nonces: a stamp tells any two of a record apart.                          *)
EXTENDS Naturals, FiniteSets

CONSTANTS
    VaultPages,     \* the pages
    SetupPages,     \* pages in which the person sets the vault up
    Secrets,        \* unlock secrets
    MaxStamps       \* bound: writes to a record

ASSUME VaultAssumption == SetupPages \subseteq VaultPages /\ MaxStamps \in Nat

VARIABLES
    metadata,       \* what wraps the master key
    stored,         \* per record: key, stamp and plaintext
    pages,          \* per page: key in memory and running operation
    swaps           \* history: committed swaps of the pair

vaultVars == <<metadata, stored, pages, swaps>>

NoMaster  == "no key"
Masters   == VaultPages \cup {NoMaster}
AnySecret == Secrets \cup {NoMaster}
Pair      == {"session", "outbox"}      \* records that change together
Single    == "preference"               \* a record that is written alone
Records   == Pair \cup {Single}
Unread    == MaxStamps + 1
Blank     == [r \in Pair |-> Unread]
LostPage  == [key |-> NoMaster, step |-> "closed", secret |-> NoMaster,
              master |-> NoMaster, got |-> Blank, before |-> Blank]

(* What parseMetadata and parseRecord let through.                           *)
VaultMetadata  == [master : Masters, secret : AnySecret]
RecordEnvelope == [key : Masters, stamp : 0 .. MaxStamps, value : 0 .. MaxStamps]

VaultInit ==
    /\ metadata = [master |-> NoMaster, secret |-> NoMaster]
    /\ stored = [r \in Records |-> [key |-> NoMaster, stamp |-> 0, value |-> 0]]
    /\ pages = [p \in VaultPages |-> LostPage]
    /\ swaps = 0

PageAt(p, s) == pages[p].step = s
Step(p, s)   == pages' = [pages EXCEPT ![p].step = s]
Present      == metadata.master # NoMaster

(********************************** Keys *************************************)
(* What opens records is derived from the master key, and tells any two      *)
(* apart: the model takes the master key itself.                             *)
DeriveSubkey(master) == master

(* The page looks whether there is a vault and unlocks it or sets it up.     *)
OpenModernVault(p, s) ==
    /\ PageAt(p, "closed")
    /\ Present \/ p \in SetupPages
    /\ pages' = [pages EXCEPT ![p] = [LostPage EXCEPT !.secret = s,
           !.step = IF Present THEN "unlock" ELSE "initialize"]]
    /\ UNCHANGED <<metadata, stored, swaps>>

(* The metadata must still be absent, then a new master key is wrapped.      *)
InitializeWithPassphrase(p) ==
    /\ PageAt(p, "initialize")
    /\ pages' = [pages EXCEPT ![p] = IF Present THEN LostPage
           ELSE [@ EXCEPT !.step = "wrapped", !.master = p]]
    /\ UNCHANGED <<metadata, stored, swaps>>

UnwrapMasterKey(s) == IF metadata.secret = s THEN metadata.master ELSE NoMaster

Unlock(p) ==
    LET master == UnwrapMasterKey(pages[p].secret) IN
    /\ PageAt(p, "unlock")
    /\ pages' = [pages EXCEPT ![p] = IF master = NoMaster THEN LostPage
           ELSE [@ EXCEPT !.step = "derived", !.master = master]]
    /\ UNCHANGED <<metadata, stored, swaps>>

(* The same master key under another secret.                                 *)
ChangeUnlockSecret(p, s, next) ==
    /\ PageAt(p, "open") /\ UnwrapMasterKey(s) # NoMaster
    /\ pages' = [pages EXCEPT ![p].step = "wrapped", ![p].secret = next,
                              ![p].master = UnwrapMasterKey(s)]
    /\ UNCHANGED <<metadata, stored, swaps>>

(* The key that wraps is derived from the secret, and opens only with it.    *)
WrapMasterKey(master, s) == [master |-> master, secret |-> s]

SaveMetadata(p) ==
    /\ PageAt(p, "wrapped")
    /\ metadata' = WrapMasterKey(pages[p].master, pages[p].secret)
    /\ Step(p, "derived")
    /\ UNCHANGED <<stored, swaps>>

Activate(p) ==
    /\ PageAt(p, "derived")
    /\ pages' = [pages EXCEPT ![p] = [LostPage EXCEPT !.step = "open", !.key = DeriveSubkey(pages[p].master)]]
    /\ UNCHANGED <<metadata, stored, swaps>>

(* The key is forgotten at once; an operation under way meets its absence at *)
(* its next look, and a secret's change brings it back.                      *)
Lock(p) ==
    /\ pages[p].key # NoMaster
    /\ pages' = [pages EXCEPT ![p] = IF PageAt(p, "open") THEN LostPage
                                     ELSE [@ EXCEPT !.key = NoMaster]]
    /\ UNCHANGED <<metadata, stored, swaps>>

LoseVaultPage(p) ==
    /\ ~PageAt(p, "closed")
    /\ pages' = [pages EXCEPT ![p] = LostPage]
    /\ UNCHANGED <<metadata, stored, swaps>>

(********************************* Records ***********************************)
(* A record opens under the key it was sealed with.                          *)
Opens(p, r) == pages[p].key # NoMaster /\ stored[r].key \in {NoMaster, pages[p].key}
Sealed(r, k, v) == [key |-> k, stamp |-> stored[r].stamp + 1, value |-> v]
Aborts(p)   == pages' = [pages EXCEPT ![p] =
                   IF pages[p].key = NoMaster THEN LostPage
                   ELSE [LostPage EXCEPT !.step = "open", !.key = pages[p].key]]

(* Encrypts with the key at hand; the database gets the ciphertext later.    *)
Encrypt(p) ==
    /\ PageAt(p, "open")
    /\ stored[Single].stamp < MaxStamps
    /\ pages' = [pages EXCEPT ![p].step = "write", ![p].master = pages[p].key]
    /\ UNCHANGED <<metadata, stored, swaps>>

Write(p) ==
    /\ PageAt(p, "write") /\ stored[Single].stamp < MaxStamps
    /\ stored' = [stored EXCEPT ![Single] = Sealed(Single, pages[p].master, 1)]
    /\ Aborts(p)
    /\ UNCHANGED <<metadata, swaps>>

Delete(p) ==
    /\ PageAt(p, "open") /\ stored[Single].key # NoMaster
    /\ stored' = [stored EXCEPT ![Single].key = NoMaster, ![Single].value = 0]
    /\ UNCHANGED <<metadata, pages, swaps>>

(* A caller reads both records, works out what follows and swaps them.       *)
Read(p, r) ==
    /\ PageAt(p, "open") \/ PageAt(p, "read")
    /\ pages[p].got[r] = Unread
    /\ IF Opens(p, r)
       THEN pages' = [pages EXCEPT ![p].got[r] = stored[r].value,
              ![p].step = IF \A q \in Pair \ {r} : pages[p].got[q] # Unread
                          THEN "prepare" ELSE "read"]
       ELSE Aborts(p)
    /\ UNCHANGED <<metadata, stored, swaps>>

(* Per record: the ciphertext, its plaintext, and the ciphertext again; a    *)
(* change between them is a conflict.  Then the plaintext must be the        *)
(* expected one.                                                             *)
PrepareItem(p, r) ==
    /\ PageAt(p, "prepare") /\ pages[p].before[r] = Unread
    /\ \/ /\ Opens(p, r) /\ stored[r].value = pages[p].got[r]
          /\ pages' = [pages EXCEPT ![p].before[r] = stored[r].stamp]
       \/ /\ ~Opens(p, r) \/ stored[r].value # pages[p].got[r]
          /\ Aborts(p)
    /\ UNCHANGED <<metadata, stored, swaps>>

(* Variant for testing VaultCorrect: the ciphertexts are not compared.       *)
UnmovedAlways(p) == TRUE

(* One transaction: every ciphertext is the one prepared against, or none is *)
(* replaced.                                                                 *)
Unmoved(p) == \A r \in Pair : stored[r].stamp = pages[p].before[r]

CompareAndSwapRecords(p) ==
    /\ PageAt(p, "prepare") /\ \A r \in Pair : pages[p].before[r] # Unread
    /\ \A r \in Pair : stored[r].stamp < MaxStamps
    /\ IF pages[p].key # NoMaster /\ Unmoved(p)
       THEN /\ stored' = [r \in Records |-> IF r \in Pair
                  THEN Sealed(r, pages[p].key, pages[p].got[r] + 1) ELSE stored[r]]
            /\ swaps' = swaps + 1
       ELSE UNCHANGED <<stored, swaps>>
    /\ Aborts(p)
    /\ UNCHANGED metadata

VaultNext ==
    \E p \in VaultPages :
        \/ \E s \in Secrets : \/ OpenModernVault(p, s)
                              \/ \E n \in Secrets : ChangeUnlockSecret(p, s, n)
        \/ InitializeWithPassphrase(p)
        \/ Unlock(p)
        \/ SaveMetadata(p)
        \/ Activate(p)
        \/ Lock(p)
        \/ LoseVaultPage(p)
        \/ Encrypt(p)
        \/ Write(p)
        \/ Delete(p)
        \/ \E r \in Pair : Read(p, r) \/ PrepareItem(p, r)
        \/ CompareAndSwapRecords(p)

VaultSpec == VaultInit /\ [][VaultNext]_vaultVars

-----------------------------------------------------------------------------
(* Metadata, records and pages have their shapes.                            *)
VaultTypeOK ==
    /\ metadata \in VaultMetadata
    /\ stored \in [Records -> RecordEnvelope]
    /\ \A p \in VaultPages :
          /\ pages[p].key \in Masters /\ pages[p].master \in Masters
          /\ pages[p].secret \in AnySecret
          /\ pages[p].step \in {"closed", "unlock", "initialize", "wrapped",
                                "derived", "open", "write", "read", "prepare"}
          /\ pages[p].got \in [Pair -> 0 .. Unread]
          /\ pages[p].before \in [Pair -> 0 .. Unread]

(* What is stored can be opened by whoever unlocks the vault next, and so    *)
(* can what an open page will store: changes of the secret, locks, and pages *)
(* that work on stale metadata never part the records from the master key.   *)
RecordsStayReadable ==
    /\ \A r \in Records : stored[r].key \in {NoMaster, metadata.master}
    /\ \A p \in VaultPages : pages[p].key \in {NoMaster, metadata.master}

(* No swap of one page is undone by a swap of another that was worked out    *)
(* from what was there before, and the records of a swap change together.    *)
SwapsAreKept == \A r \in Pair : stored[r].value = swaps

(* What the vault promises to the page that opens it next.                   *)
VaultCorrect ==
    VaultTypeOK /\ RecordsStayReadable /\ SwapsAreKept
=============================================================================
