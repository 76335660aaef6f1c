--------------------------- MODULE ServiceProofs ---------------------------
(***************************************************************************)
(* Proofs about the client's service: its stores and its connection.       *)
(*                                                                         *)
(* The vault, for every number of pages, and the records of the crypto     *)
(* runtime, for every number of chats and keys. An engine keeps its own    *)
(* copy of the account and the records are written one at a time; what     *)
(* makes this safe is that the copy of the only open engine is the stored  *)
(* account outside its first session, and that each marker is written      *)
(* before and cleared after what it marks.                                 *)
(*                                                                         *)
(* The multiplexed connection, for every number of rooms, handles and      *)
(* restorations, and every plan. What a handle takes for subscribed is     *)
(* what the relay holds because a nonce is its operation's own, requests   *)
(* about a room arrive in order, and every request still on its way is     *)
(* awaited by the handle that sent it or was given up by one that knows    *)
(* so. Most steps are quiet, or end operations; the rest are about one     *)
(* room and leave the others as they are: the two lemmas QuietKeeps and    *)
(* ElsewhereKeeps are what they are reduced to. Only losing the socket and *)
(* connecting again are about everything.                                  *)
(*                                                                         *)
(* At the end three smaller ones: the transport of one room, the loop that *)
(* replays the mailbox, and the first contact. What each of them believes  *)
(* is backed by what the other side holds: a registration at the relay, a  *)
(* timer or a wake-up on its way, the session the inviter has accepted.    *)
(***************************************************************************)
EXTENDS MuxClient, Vault, RuntimeRecords, LegacyTransport, ReplayLoop, FirstContact,
        SequenceTheorems, TLAPS

Steps == {"closed", "unlock", "initialize", "wrapped", "derived", "open", "write", "read", "prepare"}
PageState == [key : Masters, step : Steps, secret : AnySecret, master : Masters,
              got : [Pair -> 0 .. Unread], before : [Pair -> 0 .. Unread]]

\* What a page holds fits the metadata; only a page in which the person sets the
\* vault up works on a master key of its own, and only while there is none.
PageFits(p, g, m) ==
    /\ g.key \in {NoMaster, m}
    /\ g.step = "initialize" => p \in SetupPages
    /\ g.step = "wrapped" => IF m # NoMaster THEN g.master = m ELSE g.master = p /\ p \in SetupPages
    /\ g.step = "derived" => m # NoMaster /\ g.master = m
    /\ g.step = "write" => g.master \in {NoMaster, m}
    /\ g.step # "prepare" => g.before = Blank
    /\ \A r \in Pair : g.before[r] \in {Unread, g.got[r]}

VaultInv ==
    /\ metadata \in VaultMetadata
    /\ stored \in [Records -> RecordEnvelope]
    /\ pages \in [VaultPages -> PageState]
    /\ swaps \in 0 .. MaxStamps
    /\ \A r \in Records : stored[r].key \in {NoMaster, metadata.master}
    /\ \A r \in Pair : stored[r].value = swaps /\ stored[r].stamp = swaps
    /\ \A p \in VaultPages : PageFits(p, pages[p], metadata.master)

\* The person sets the vault up in one page, and no page is named as the absent key is.
OneSetupPage == NoMaster \notin VaultPages /\ \A p, q \in SetupPages : p = q

\* A page that was lost or closed holds nothing.
LEMMA LostPageFits ==
  ASSUME NEW p, NEW m PROVE LostPage \in PageState /\ PageFits(p, LostPage, m)
  BY VaultAssumption DEF PageState, PageFits, LostPage, Blank, Unread, Steps, Masters, AnySecret

\* No vault, and no page that works on one.
LEMMA VaultInitHolds == VaultInit => VaultInv
<1> SUFFICES ASSUME VaultInit PROVE VaultInv
  OBVIOUS
<1>1. metadata \in VaultMetadata /\ metadata.master = NoMaster /\ swaps = 0 /\ 0 \in 0 .. MaxStamps
  BY VaultAssumption DEF VaultInit, VaultMetadata, Masters, AnySecret
<1>2. stored \in [Records -> RecordEnvelope]
  BY VaultAssumption DEF VaultInit, RecordEnvelope, Masters
<1>3. \A r \in Records : stored[r].key = NoMaster /\ stored[r].value = 0 /\ stored[r].stamp = 0
  BY DEF VaultInit
<1>4. pages \in [VaultPages -> PageState] /\ \A p \in VaultPages : PageFits(p, pages[p], metadata.master)
  BY LostPageFits DEF VaultInit
<1>5. Pair \subseteq Records
  BY DEF Records
<1> QED  BY <1>1, <1>2, <1>3, <1>4, <1>5 DEF VaultInv

\* A step of one page that leaves what is stored alone.
LEMMA PageStepHolds ==
  ASSUME VaultInv, NEW p \in VaultPages, NEW g \in PageState, PageFits(p, g, metadata.master),
         pages' = [pages EXCEPT ![p] = g], UNCHANGED <<metadata, stored, swaps>>
  PROVE  VaultInv'
  BY DEF VaultInv

\* A page that gives up what it is doing.
LEMMA AbortFits ==
  ASSUME VaultInv, NEW p \in VaultPages, Aborts(p)
  PROVE  \E g \in PageState : /\ pages' = [pages EXCEPT ![p] = g]
                              /\ PageFits(p, g, metadata.master) /\ g.step \in {"closed", "open"}
<1> DEFINE o == [LostPage EXCEPT !.step = "open", !.key = pages[p].key]
<1>1. pages[p] \in PageState /\ PageFits(p, pages[p], metadata.master)
  BY DEF VaultInv
<1>2. o \in PageState /\ PageFits(p, o, metadata.master) /\ o.step = "open"
  BY <1>1, LostPageFits DEF PageState, PageFits, LostPage, Steps
<1>3. LostPage.step = "closed"
  BY DEF LostPage
<1> QED  BY <1>2, <1>3, LostPageFits DEF Aborts

\* ... leaves the vault as it was.
LEMMA AbortHolds ==
  ASSUME VaultInv, NEW p \in VaultPages, Aborts(p), UNCHANGED <<metadata, stored, swaps>>
  PROVE  VaultInv'
  BY AbortFits, PageStepHolds

\* Every step keeps the invariant: whoever wraps a key, opens the vault or
\* writes a record works with the master key that is stored, since only the
\* setup makes a new one and only while there is none.
LEMMA VaultStepHolds ==
  ASSUME OneSetupPage, VaultInv, [VaultNext]_vaultVars
  PROVE  VaultInv'
<1> USE VaultAssumption
<1>0. ASSUME NEW p \in VaultPages
      PROVE  pages[p] \in PageState /\ PageFits(p, pages[p], metadata.master)
  BY DEF VaultInv
<1>m. metadata.master \in Masters /\ metadata.secret \in AnySecret
  BY DEF VaultInv, VaultMetadata
<1>1. ASSUME NEW p \in VaultPages, NEW s \in Secrets, OpenModernVault(p, s) PROVE VaultInv'
  <2> DEFINE g == [LostPage EXCEPT !.secret = s, !.step = IF Present THEN "unlock" ELSE "initialize"]
  <2>1. g \in PageState /\ PageFits(p, g, metadata.master)
    BY <1>1, LostPageFits DEF PageState, PageFits, LostPage, Steps, AnySecret, OpenModernVault, Blank
  <2>2. pages' = [pages EXCEPT ![p] = g] /\ UNCHANGED <<metadata, stored, swaps>>
    BY <1>1 DEF OpenModernVault
  <2> HIDE DEF g
  <2> QED  BY <2>1, <2>2, PageStepHolds
<1>2. ASSUME NEW p \in VaultPages, NEW s \in Secrets, NEW n \in Secrets, ChangeUnlockSecret(p, s, n)
      PROVE VaultInv'
  <2> DEFINE g == [pages[p] EXCEPT !.step = "wrapped", !.secret = n, !.master = UnwrapMasterKey(s)]
  <2>1. UnwrapMasterKey(s) = metadata.master /\ metadata.master # NoMaster
    BY <1>2 DEF ChangeUnlockSecret, UnwrapMasterKey
  <2>2. pages[p].step = "open"
    BY <1>2 DEF ChangeUnlockSecret, PageAt
  <2>3. g \in PageState /\ PageFits(p, g, metadata.master)
    BY <1>0, <1>m, <2>1, <2>2 DEF PageState, PageFits, Steps, AnySecret
  <2>4. pages' = [pages EXCEPT ![p] = g] /\ UNCHANGED <<metadata, stored, swaps>>
    BY <1>2 DEF ChangeUnlockSecret
  <2> HIDE DEF g
  <2> QED  BY <2>3, <2>4, PageStepHolds
<1>3. ASSUME NEW p \in VaultPages, InitializeWithPassphrase(p) PROVE VaultInv'
  <2> DEFINE g == IF Present THEN LostPage ELSE [pages[p] EXCEPT !.step = "wrapped", !.master = p]
  <2>1. pages[p].step = "initialize" /\ p \in SetupPages
    BY <1>3, <1>0 DEF InitializeWithPassphrase, PageAt, PageFits
  <2>2. g \in PageState /\ PageFits(p, g, metadata.master)
    <3>1. CASE Present
      BY <3>1, LostPageFits
    <3>2. CASE ~Present
      <4>1. g = [pages[p] EXCEPT !.step = "wrapped", !.master = p]
        BY <3>2
      <4>2. g \in PageState
        BY <1>0, <4>1 DEF PageState, Steps, Masters
      <4>3. PageFits(p, g, metadata.master)
        BY <1>0, <2>1, <3>2, <4>1 DEF PageState, PageFits, Present
      <4> QED  BY <4>2, <4>3
    <3> QED  BY <3>1, <3>2
  <2>3. pages' = [pages EXCEPT ![p] = g] /\ UNCHANGED <<metadata, stored, swaps>>
    BY <1>3 DEF InitializeWithPassphrase
  <2> HIDE DEF g
  <2> QED  BY <2>2, <2>3, PageStepHolds
<1>4. ASSUME NEW p \in VaultPages, Unlock(p) PROVE VaultInv'
  <2> DEFINE k == UnwrapMasterKey(pages[p].secret)
             g == IF k = NoMaster THEN LostPage ELSE [pages[p] EXCEPT !.step = "derived", !.master = k]
  <2>1. pages[p].step = "unlock" /\ (k # NoMaster => k = metadata.master)
    BY <1>4 DEF Unlock, PageAt, UnwrapMasterKey
  <2>2. pages' = [pages EXCEPT ![p] = g] /\ UNCHANGED <<metadata, stored, swaps>>
    BY <1>4 DEF Unlock
  <2> HIDE DEF k
  <2>3. CASE k # NoMaster
    <3>1. g = [pages[p] EXCEPT !.step = "derived", !.master = k]
      BY <2>3
    <3>2. g \in PageState
      BY <1>0, <1>m, <2>1, <2>3, <3>1 DEF PageState, Steps
    <3>3. PageFits(p, g, metadata.master)
      BY <1>0, <2>1, <2>3, <3>1 DEF PageState, PageFits
    <3> HIDE DEF g
    <3> QED  BY <2>2, <3>2, <3>3, PageStepHolds
  <2>4. CASE k = NoMaster
    BY <2>2, <2>4, LostPageFits, PageStepHolds
  <2> QED  BY <2>3, <2>4
<1>5. ASSUME NEW p \in VaultPages, SaveMetadata(p) PROVE VaultInv'
  <2>1. pages[p].step = "wrapped" /\ metadata' = [master |-> pages[p].master, secret |-> pages[p].secret]
        /\ pages' = [pages EXCEPT ![p].step = "derived"] /\ UNCHANGED <<stored, swaps>>
    BY <1>5 DEF SaveMetadata, PageAt, Step, WrapMasterKey
  <2>2. metadata' \in VaultMetadata /\ metadata'.master = pages[p].master
    BY <1>0, <2>1 DEF VaultMetadata, PageState
  <2>3. metadata.master \in {NoMaster, metadata'.master}
    BY <1>0, <2>1, <2>2 DEF PageFits
  <2>4. pages' \in [VaultPages -> PageState]
    <3> DEFINE g == [pages[p] EXCEPT !.step = "derived"]
    <3>1. g \in PageState
      BY <1>0 DEF PageState, Steps
    <3> HIDE DEF g
    <3>2. pages' = [pages EXCEPT ![p] = g]
      BY <2>1 DEF g
    <3> QED  BY <3>1, <3>2 DEF VaultInv
  <2>5. ASSUME NEW q \in VaultPages PROVE PageFits(q, pages'[q], metadata'.master)
    <3>1. CASE q = p
      <4>1. metadata'.master # NoMaster
        BY <1>0, <2>1, <2>2 DEF PageFits, OneSetupPage
      <4> DEFINE g == [pages[p] EXCEPT !.step = "derived"]
      <4>2. pages'[p] = g
        BY <2>1 DEF VaultInv
      <4>3. g.key = pages[p].key /\ g.step = "derived" /\ g.master = pages[p].master
            /\ g.before = pages[p].before /\ g.got = pages[p].got
        BY <1>0 DEF PageState
      <4> HIDE DEF g
      <4>4. PageFits(p, g, metadata'.master)
        BY <1>0, <2>1, <2>2, <2>3, <4>1, <4>3 DEF PageFits
      <4> QED  BY <3>1, <4>2, <4>4
    <3>2. CASE q # p
      <4>1. pages'[q] = pages[q]
        BY <2>1, <3>2 DEF VaultInv
      <4>2. CASE metadata.master = NoMaster
        <5>1. p \in SetupPages
          BY <1>0, <2>1, <4>2 DEF PageFits
        <5>2. q \notin SetupPages
          BY <3>2, <5>1 DEF OneSetupPage
        <5>3. pages[q].step # "wrapped"
          BY <1>0, <4>2, <5>2 DEF PageFits
        <5>4. pages[q].step # "derived"
          BY <1>0, <4>2 DEF PageFits
        <5> QED  BY <1>0, <2>3, <4>1, <4>2, <5>3, <5>4 DEF PageFits
      <4>3. CASE metadata.master # NoMaster
        BY <1>0, <2>3, <4>1, <4>3
      <4> QED  BY <4>2, <4>3
    <3> QED  BY <3>1, <3>2
  <2> QED  BY <2>1, <2>2, <2>3, <2>4, <2>5 DEF VaultInv
<1>6. ASSUME NEW p \in VaultPages, Activate(p) PROVE VaultInv'
  <2> DEFINE g == [LostPage EXCEPT !.step = "open", !.key = pages[p].master]
  <2>1. pages[p].step = "derived" /\ pages' = [pages EXCEPT ![p] = g] /\ UNCHANGED <<metadata, stored, swaps>>
    BY <1>6 DEF Activate, PageAt, DeriveSubkey
  <2>2. g \in PageState /\ PageFits(p, g, metadata.master)
    BY <1>0, <1>m, <2>1, LostPageFits DEF PageState, PageFits, LostPage, Steps
  <2> HIDE DEF g
  <2> QED  BY <2>1, <2>2, PageStepHolds
<1>7. ASSUME NEW p \in VaultPages, Lock(p) PROVE VaultInv'
  <2> DEFINE g == IF PageAt(p, "open") THEN LostPage ELSE [pages[p] EXCEPT !.key = NoMaster]
  <2>1. pages' = [pages EXCEPT ![p] = g] /\ UNCHANGED <<metadata, stored, swaps>>
    BY <1>7 DEF Lock
  <2>2. g \in PageState /\ PageFits(p, g, metadata.master)
    <3>1. CASE PageAt(p, "open")
      BY <3>1, LostPageFits
    <3>2. CASE ~PageAt(p, "open")
      <4>1. g = [pages[p] EXCEPT !.key = NoMaster]
        BY <3>2
      <4> QED  BY <1>0, <4>1 DEF PageState, PageFits, Masters
    <3> QED  BY <3>1, <3>2
  <2> HIDE DEF g
  <2> QED  BY <2>1, <2>2, PageStepHolds
<1>8. ASSUME NEW p \in VaultPages, LoseVaultPage(p) PROVE VaultInv'
  BY <1>8, LostPageFits, PageStepHolds DEF LoseVaultPage
<1>9. ASSUME NEW p \in VaultPages, Encrypt(p) PROVE VaultInv'
  <2> DEFINE g == [pages[p] EXCEPT !.step = "write", !.master = pages[p].key]
  <2>1. pages[p].step = "open" /\ pages' = [pages EXCEPT ![p] = g] /\ UNCHANGED <<metadata, stored, swaps>>
    BY <1>9 DEF Encrypt, PageAt
  <2>2. g \in PageState
    BY <1>0 DEF PageState, Steps
  <2>3. PageFits(p, g, metadata.master)
    BY <1>0, <2>1 DEF PageState, PageFits
  <2> HIDE DEF g
  <2> QED  BY <2>1, <2>2, <2>3, PageStepHolds
<1>10. ASSUME NEW p \in VaultPages, Write(p) PROVE VaultInv'
  <2> DEFINE e == [key |-> pages[p].master, stamp |-> stored[Single].stamp + 1, value |-> 1]
  <2>1. /\ pages[p].step = "write" /\ stored[Single].stamp < MaxStamps /\ Aborts(p)
        /\ stored' = [stored EXCEPT ![Single] = e] /\ UNCHANGED <<metadata, swaps>>
    BY <1>10 DEF Write, PageAt, Sealed
  <2>2. e \in RecordEnvelope /\ e.key \in {NoMaster, metadata.master}
    BY <1>0, <2>1 DEF RecordEnvelope, PageState, PageFits, VaultInv, Records
  <2>3. PICK g \in PageState : pages' = [pages EXCEPT ![p] = g] /\ PageFits(p, g, metadata.master)
    BY <2>1, AbortFits
  <2>4. Single \notin Pair /\ Pair \subseteq Records
    BY DEF Single, Pair, Records
  <2> HIDE DEF e
  <2> QED  BY <2>1, <2>2, <2>3, <2>4 DEF VaultInv
<1>11. ASSUME NEW p \in VaultPages, Delete(p) PROVE VaultInv'
  <2> DEFINE e == [stored[Single] EXCEPT !.key = NoMaster, !.value = 0]
  <2>1. /\ stored' = [stored EXCEPT ![Single] = e] /\ UNCHANGED <<metadata, pages, swaps>>
    BY <1>11 DEF Delete
  <2>2. e \in RecordEnvelope /\ e.key = NoMaster
    <3>1. stored[Single] \in RecordEnvelope
      BY DEF VaultInv, Records
    <3>2. 0 \in 0 .. MaxStamps
      OBVIOUS
    <3>3. e \in RecordEnvelope
      BY <3>1, <3>2 DEF RecordEnvelope, Masters
    <3>4. e.key = NoMaster
      BY <3>1 DEF RecordEnvelope
    <3> QED  BY <3>3, <3>4
  <2>3. Single \notin Pair /\ Pair \subseteq Records
    BY DEF Single, Pair, Records
  <2> HIDE DEF e
  <2> QED  BY <2>1, <2>2, <2>3 DEF VaultInv
<1>12. ASSUME NEW p \in VaultPages, NEW r \in Pair, Read(p, r) PROVE VaultInv'
  <2>1. CASE ~Opens(p, r)
    BY <1>12, <2>1, AbortHolds DEF Read
  <2>2. CASE Opens(p, r)
    <3> DEFINE st == IF \A q \in Pair \ {r} : pages[p].got[q] # Unread THEN "prepare" ELSE "read"
               gt == [pages[p].got EXCEPT ![r] = stored[r].value]
               g == [pages[p] EXCEPT !.got = gt, !.step = st]
    <3>1. /\ pages[p].step \in {"open", "read"} /\ pages' = [pages EXCEPT ![p] = g]
          /\ UNCHANGED <<metadata, stored, swaps>>
      BY <1>12, <2>2 DEF Read, PageAt
    <3>2. gt \in [Pair -> 0 .. Unread]
      BY <1>0, <1>m DEF PageState, VaultInv, RecordEnvelope, Unread, Records
    <3>3. st \in {"prepare", "read"}
      OBVIOUS
    <3> HIDE DEF gt, st
    <3>4. g \in PageState
      BY <1>0, <3>2, <3>3 DEF PageState, Steps
    <3>5. pages[p].before = Blank /\ \A x \in Pair : Blank[x] = Unread
      BY <1>0, <3>1 DEF PageFits, Blank
    <3>6. g.before = Blank /\ g.key = pages[p].key /\ g.step = st
      BY <1>0, <3>5 DEF PageState
    <3>7. PageFits(p, g, metadata.master)
      BY <1>0, <3>3, <3>5, <3>6 DEF PageFits
    <3> HIDE DEF g
    <3> QED  BY <3>1, <3>4, <3>7, PageStepHolds
  <2> QED  BY <2>1, <2>2
<1>13. ASSUME NEW p \in VaultPages, NEW r \in Pair, PrepareItem(p, r) PROVE VaultInv'
  <2>1. CASE Aborts(p)
    BY <1>13, <2>1, AbortHolds DEF PrepareItem
  <2>2. CASE ~Aborts(p)
    <3> DEFINE bf == [pages[p].before EXCEPT ![r] = stored[r].stamp]
               g == [pages[p] EXCEPT !.before = bf]
    <3>1. /\ pages[p].step = "prepare" /\ stored[r].value = pages[p].got[r]
          /\ pages' = [pages EXCEPT ![p] = g] /\ UNCHANGED <<metadata, stored, swaps>>
      BY <1>13, <2>2 DEF PrepareItem, PageAt
    <3>2. bf \in [Pair -> 0 .. Unread] /\ \A x \in Pair : bf[x] \in {Unread, pages[p].got[x]}
      BY <1>0, <3>1 DEF PageState, PageFits, VaultInv, RecordEnvelope, Unread, Records
    <3> HIDE DEF bf
    <3>3. g \in PageState /\ PageFits(p, g, metadata.master)
      BY <1>0, <3>1, <3>2 DEF PageState, PageFits
    <3> HIDE DEF g
    <3> QED  BY <3>1, <3>3, PageStepHolds
  <2> QED  BY <2>1, <2>2
<1>14. ASSUME NEW p \in VaultPages, CompareAndSwapRecords(p) PROVE VaultInv'
  <2>1. CASE ~(pages[p].key # NoMaster /\ Unmoved(p))
    BY <1>14, <2>1, AbortHolds DEF CompareAndSwapRecords
  <2>2. CASE pages[p].key # NoMaster /\ Unmoved(p)
    <3>1. /\ \A r \in Pair : pages[p].before[r] # Unread /\ stored[r].stamp < MaxStamps
          /\ stored' = [r \in Records |-> IF r \in Pair
                THEN [key |-> pages[p].key, stamp |-> stored[r].stamp + 1, value |-> pages[p].got[r] + 1]
                ELSE stored[r]]
          /\ swaps' = swaps + 1 /\ metadata' = metadata /\ Aborts(p)
      BY <1>14, <2>2 DEF CompareAndSwapRecords, Sealed
    <3>2. \A r \in Pair : pages[p].got[r] = swaps /\ stored[r].stamp = swaps
      BY <1>0, <2>2, <3>1 DEF PageFits, Unmoved, VaultInv
    <3>3. "session" \in Pair /\ Pair \subseteq Records
      BY DEF Pair, Records
    <3>4. swaps < MaxStamps /\ swaps + 1 \in 0 .. MaxStamps
      BY <3>1, <3>2, <3>3 DEF VaultInv
    <3>5. pages[p].key = metadata.master
      BY <1>0, <2>2 DEF PageFits
    <3>6. ASSUME NEW r \in Records PROVE
            /\ stored'[r] \in RecordEnvelope /\ stored'[r].key \in {NoMaster, metadata.master}
            /\ r \in Pair => stored'[r].value = swaps + 1 /\ stored'[r].stamp = swaps + 1
      BY <1>m, <3>1, <3>2, <3>4, <3>5 DEF RecordEnvelope, VaultInv
    <3>7. stored' \in [Records -> RecordEnvelope]
      BY <3>1, <3>6
    <3>8. PICK g \in PageState : pages' = [pages EXCEPT ![p] = g] /\ PageFits(p, g, metadata.master)
      BY <3>1, AbortFits
    <3> QED  BY <3>1, <3>3, <3>4, <3>6, <3>7, <3>8 DEF VaultInv
  <2> QED  BY <2>1, <2>2
<1>15. CASE UNCHANGED vaultVars
  BY <1>15 DEF VaultInv, vaultVars
<1> QED  BY <1>1, <1>2, <1>3, <1>4, <1>5, <1>6, <1>7, <1>8, <1>9, <1>10, <1>11, <1>12, <1>13, <1>14, <1>15
     DEF VaultNext

\* What the invariant says of the records is what the runs check.
LEMMA VaultInvCorrect == ASSUME VaultInv PROVE VaultCorrect
<1>1. VaultTypeOK
  BY DEF VaultInv, VaultTypeOK, PageState, Steps
<1>2. RecordsStayReadable
  BY DEF VaultInv, RecordsStayReadable, PageFits
<1>3. SwapsAreKept
  BY DEF VaultInv, SwapsAreKept
<1> QED  BY <1>1, <1>2, <1>3 DEF VaultCorrect

\* If one page only can set the vault up, every record and every open page has
\* the one master key of the metadata, whatever step a page is lost at,
\* whichever secret is changed meanwhile and however stale the metadata a page
\* has read; and no swap is undone by one worked out before it.
THEOREM VaultIsCorrect == ASSUME OneSetupPage PROVE VaultSpec => []VaultCorrect
<1>1. VaultInit => VaultInv
  BY VaultInitHolds
<1>2. VaultInv /\ [VaultNext]_vaultVars => VaultInv'
  BY VaultStepHolds
<1>3. VaultInv => VaultCorrect
  BY VaultInvCorrect
<1> QED  BY <1>1, <1>2, <1>3, PTL DEF VaultSpec

Held == [account : Account, key : Sessions, resumed : BOOLEAN]
RuntimeShape ==
    /\ account \in Account /\ made \in Keys /\ marker \in Chats \cup {None}
    /\ publication \in [chat : Chats \cup {None}, address : BOOLEAN]
    /\ modes \in [Chats -> [address : BOOLEAN, session : Sessions]]
    /\ sessions \in [Chats -> Sessions] /\ live \in [Chats -> Sessions]
    /\ copies \in [Chats -> Account] /\ held \in [Chats -> Held]
    /\ phase \in [Chats -> Phases]
    /\ offered \in [Chats -> SUBSET Keys] /\ letters \in [Chats -> SUBSET Keys]
    /\ publications \in [Chats -> Nat]
    /\ losses \in 0 .. MaxPageLosses /\ together \in BOOLEAN

\* Stored sessions and sessions in memory are those the modes name, whoever is open.
SessionsNamed ==
    \A c \in Chats : sessions[c] \in {NoSession, modes[c].session} /\ live[c] \in {NoSession, modes[c].session}

\* Of an engine that is the only one: what it holds is what is stored.
Unloaded == {"closed", "recover", "clear", "load"}
EngineFits(c) ==
    /\ phase[c] \in Unloaded \cup {"restore"} => live[c] = NoSession
    /\ phase[c] \notin Unloaded \cup {"commit"} => copies[c] = account
    /\ phase[c] = "commit" =>
          /\ held[c].account = account /\ held[c].key \in account.keys \cup {Outgoing}
          /\ copies[c].keys = account.keys \ {held[c].key}
          /\ copies[c].unpublished = account.unpublished \ {held[c].key}
          /\ live[c] = NoSession /\ modes[c].session = NoSession
    /\ live[c] # NoSession => sessions[c] = live[c]

\* The publication marker is the engine's own from the reservation until the mode has the address.
PublicationFits(c) ==
    /\ phase[c] \in {"known", "renew", "renewed", "settle"} =>
          IF held[c].resumed THEN publication.chat = c ELSE modes[c].address
    /\ phase[c] = "reserve" => publication.chat = None /\ ~modes[c].address
    /\ phase[c] = "publish" => publication.chat = c /\ publications[c] = 0
    /\ phase[c] \in {"address", "mode", "mark", "done"} => publication.chat = c
    /\ phase[c] \in {"mark", "done"} => modes[c].address
    /\ publications[c] \in 0 .. 1
    /\ publications[c] = 1 => modes[c].address \/ publication.chat = c

KeysFit ==
    /\ account.unpublished \subseteq account.keys /\ account.keys \subseteq 1 .. made
    /\ \A c \in Chats : offered[c] \cup letters[c] \subseteq account.keys \cup {modes[d].session : d \in Chats}
    /\ \A c \in Chats : modes[c].session \notin account.keys /\ modes[c].session \in 0 .. made \cup {Outgoing}

Alone ==
    /\ \A c, d \in Chats : c # d => phase[c] = "closed" \/ phase[d] = "closed"
    /\ \A c \in Chats : EngineFits(c) /\ PublicationFits(c)
    /\ publication.chat = None => ~publication.address
    /\ KeysFit

RuntimeInv == RuntimeShape /\ SessionsNamed /\ (~together => Alone)

USE RuntimeAssumption

\* A new space.
LEMMA RuntimeShapeInit ==
    RuntimeInit => RuntimeShape /\ SessionsNamed /\ Alone
  <1> SUFFICES ASSUME RuntimeInit PROVE RuntimeShape /\ SessionsNamed /\ Alone  OBVIOUS
  <1>1. RuntimeShape
    <2>1. account \in Account /\ made \in Keys /\ NoCopy \in Account /\ NoSession \in Sessions
      BY DEF RuntimeInit, Account, Keys, NoCopy, Sessions, NoSession
    <2>2. Nothing \in Held
      BY <2>1 DEF Nothing, Held
    <2>3. publication \in [chat : Chats \cup {None}, address : BOOLEAN]
      BY DEF RuntimeInit
    <2>4. modes \in [Chats -> [address : BOOLEAN, session : Sessions]]
      BY <2>1 DEF RuntimeInit
    <2>5. phase \in [Chats -> Phases]
      BY DEF RuntimeInit, Phases
    <2>6. held \in [Chats -> Held] /\ copies \in [Chats -> Account]
      BY <2>1, <2>2 DEF RuntimeInit
    <2>7. sessions \in [Chats -> Sessions] /\ live \in [Chats -> Sessions]
      BY <2>1 DEF RuntimeInit
    <2>8. offered \in [Chats -> SUBSET Keys] /\ letters \in [Chats -> SUBSET Keys]
      BY DEF RuntimeInit
    <2>9. publications \in [Chats -> Nat] /\ losses \in 0 .. MaxPageLosses
      BY DEF RuntimeInit
    <2>10. marker \in Chats \cup {None} /\ together \in BOOLEAN
      BY DEF RuntimeInit
    <2>. QED
      BY <2>1, <2>3, <2>4, <2>5, <2>6, <2>7, <2>8, <2>9, <2>10 DEF RuntimeShape
  <1>2. SessionsNamed
    BY DEF RuntimeInit, SessionsNamed
  <1>3. Alone
    <2>1. \A c \in Chats : EngineFits(c)
      BY DEF RuntimeInit, EngineFits, Unloaded
    <2>2. \A c \in Chats : PublicationFits(c)
      BY DEF RuntimeInit, PublicationFits
    <2>3. KeysFit
      BY DEF RuntimeInit, KeysFit, NoSession, Keys
    <2>. QED  BY <2>1, <2>2, <2>3 DEF RuntimeInit, Alone
  <1>. QED  BY <1>1, <1>2, <1>3

\* Every step keeps the types and stores or restores only a session that its
\* chat's mode names, whether or not two engines are open.
LEMMA RuntimeShapeNext ==
    RuntimeShape /\ SessionsNamed /\ [RuntimeNext]_runtimeVars => RuntimeShape' /\ SessionsNamed'
  <1> SUFFICES ASSUME RuntimeShape, SessionsNamed, [RuntimeNext]_runtimeVars
               PROVE  RuntimeShape' /\ SessionsNamed'
    OBVIOUS
  <1> USE DEF RuntimeShape, SessionsNamed, records, engines, relay, Goto, At, Sessions, Keys, NoSession,
       Outgoing, Account, Held
  <1>0. CASE UNCHANGED runtimeVars  BY <1>0 DEF runtimeVars
  <1>1. ASSUME NEW c \in Chats, OpenEngine(c) PROVE RuntimeShape' /\ SessionsNamed'
    BY <1>1, SMTT(30) DEF OpenEngine, Phases, Nothing, NoCopy, None
  <1>2. ASSUME NEW c \in Chats, RecoverPendingCommit(c) PROVE RuntimeShape' /\ SessionsNamed'
    BY <1>2, SMTT(30) DEF RecoverPendingCommit, Phases, Nothing, NoCopy, None
  <1>3. ASSUME NEW c \in Chats, ClearMarker(c) PROVE RuntimeShape' /\ SessionsNamed'
    BY <1>3, SMTT(30) DEF ClearMarker, Phases, Nothing, NoCopy, None
  <1>4. ASSUME NEW c \in Chats, RestoreIdentity(c) PROVE RuntimeShape' /\ SessionsNamed'
    BY <1>4, SMTT(30) DEF RestoreIdentity, Phases, Nothing, NoCopy, None
  <1>5. ASSUME NEW c \in Chats, RestoreSession(c) PROVE RuntimeShape' /\ SessionsNamed'
    <2>1. CASE Uncertain(c)
      <3>1. live' = live /\ held' = held /\ phase' = [phase EXCEPT ![c] = "error"]
        BY <1>5, <2>1 DEF RestoreSession
      <3>2. phase' \in [Chats -> Phases]
        BY <3>1 DEF Phases
      <3>. QED  BY <1>5, <3>1, <3>2 DEF RestoreSession
    <2>2. CASE ~Uncertain(c)
      <3>1. /\ live' = [live EXCEPT ![c] = IF modes[c].session = NoSession THEN NoSession ELSE sessions[c]]
            /\ held' = [held EXCEPT ![c] = [held[c] EXCEPT !.resumed = publication.address]]
            /\ phase' = [phase EXCEPT ![c] = IF modes[c].address \/ publication.address
                                             THEN "known" ELSE "reserve"]
        BY <1>5, <2>2 DEF RestoreSession
      <3>2. publication.address \in BOOLEAN /\ held[c] \in Held
        OBVIOUS
      <3>3. [held[c] EXCEPT !.resumed = publication.address] \in Held
        BY <3>2
      <3>4. held' \in [Chats -> Held]
        <4> HIDE DEF Held
        <4>. QED  BY <3>1, <3>3
      <3>5. phase' \in [Chats -> Phases]
        BY <3>1 DEF Phases
      <3>6. live' \in [Chats -> Sessions]
        BY <3>1
      <3>7. \A d \in Chats : live'[d] \in {NoSession, modes[d].session}
        BY <3>1
      <3>. QED  BY <1>5, <3>4, <3>5, <3>6, <3>7 DEF RestoreSession
    <2>. QED  BY <2>1, <2>2
  <1>6. ASSUME NEW c \in Chats, Replenish(c) PROVE RuntimeShape' /\ SessionsNamed'
    BY <1>6, SMTT(30) DEF Replenish, Phases, Replenishes, Persist, Nothing, NoCopy, None
  <1>7. ASSUME NEW c \in Chats, SkipRenewal(c) PROVE RuntimeShape' /\ SessionsNamed'
    BY <1>7, SMTT(30) DEF SkipRenewal, Phases, Nothing, NoCopy, None
  <1>8. ASSUME NEW c \in Chats, RenewBundle(c) PROVE RuntimeShape' /\ SessionsNamed'
    BY <1>8, SMTT(30) DEF RenewBundle, Phases, Nothing, NoCopy, None
  <1>9. ASSUME NEW c \in Chats, MarkRenewed(c) PROVE RuntimeShape' /\ SessionsNamed'
    <2>1. [copies[c] EXCEPT !.unpublished = {}] \in Account
      OBVIOUS
    <2>2. account' \in Account /\ copies' \in [Chats -> Account]
      BY <1>9, <2>1 DEF MarkRenewed, MarkPublished, Persist
    <2>3. phase' \in [Chats -> Phases]
      BY <1>9 DEF MarkRenewed, Phases
    <2>. QED  BY <1>9, <2>2, <2>3 DEF MarkRenewed
  <1>10. ASSUME NEW c \in Chats, SettleAddress(c) PROVE RuntimeShape' /\ SessionsNamed'
    BY <1>10, SMTT(30) DEF SettleAddress, Phases, Nothing, NoCopy, None
  <1>11. ASSUME NEW c \in Chats, ReservePublication(c) PROVE RuntimeShape' /\ SessionsNamed'
    <2>1. CASE copies[c].unpublished = {}
      <3>1. made' = made + 1 /\ made < MaxKeys /\ phase' = phase /\ publication' = publication
        BY <1>11, <2>1 DEF ReservePublication, Replenishes
      <3>2. [keys |-> copies[c].keys \cup {made + 1},
             unpublished |-> copies[c].unpublished \cup {made + 1}] \in Account
        BY <3>1
      <3>3. account' \in Account /\ copies' \in [Chats -> Account]
        <4> HIDE DEF Account
        <4>1. Replenishes(c)
          BY <1>11, <2>1 DEF ReservePublication
        <4>. QED  BY <3>2, <4>1 DEF Replenishes, Persist
      <3>. QED  BY <1>11, <3>1, <3>3 DEF ReservePublication
    <2>2. CASE copies[c].unpublished # {}
      <3>1. /\ publication' = [chat |-> c, address |-> FALSE]
            /\ phase' = [phase EXCEPT ![c] = "publish"]
            /\ UNCHANGED <<account, made, copies>>
        BY <1>11, <2>2 DEF ReservePublication
      <3>2. phase' \in [Chats -> Phases]
        BY <3>1 DEF Phases
      <3>3. publication' \in [chat : Chats \cup {None}, address : BOOLEAN]
        BY <3>1
      <3>. QED  BY <1>11, <3>1, <3>2, <3>3 DEF ReservePublication
    <2>. QED  BY <2>1, <2>2
  <1>12. ASSUME NEW c \in Chats, PublishBundle(c) PROVE RuntimeShape' /\ SessionsNamed'
    BY <1>12, SMTT(30) DEF PublishBundle, Phases, Nothing, NoCopy, None
  <1>13. ASSUME NEW c \in Chats, RecordAddress(c) PROVE RuntimeShape' /\ SessionsNamed'
    BY <1>13, SMTT(30) DEF RecordAddress, Phases, Nothing, NoCopy, None
  <1>14. ASSUME NEW c \in Chats, WriteMode(c) PROVE RuntimeShape' /\ SessionsNamed'
    <2>1. modes[c] \in [address : BOOLEAN, session : Sessions]
      OBVIOUS
    <2>2. modes' = [modes EXCEPT ![c] = [modes[c] EXCEPT !.address = TRUE]]
      BY <1>14 DEF WriteMode
    <2>3. [modes[c] EXCEPT !.address = TRUE] \in [address : BOOLEAN, session : Sessions]
      BY <2>1
    <2>4. modes' \in [Chats -> [address : BOOLEAN, session : Sessions]]
      BY <2>2, <2>3
    <2>5. \A d \in Chats : modes'[d].session = modes[d].session
      BY <2>1, <2>2
    <2>6. phase' \in [Chats -> Phases]
      BY <1>14 DEF WriteMode, Phases
    <2>. QED  BY <1>14, <2>4, <2>5, <2>6 DEF WriteMode
  <1>15. ASSUME NEW c \in Chats, MarkFirst(c) PROVE RuntimeShape' /\ SessionsNamed'
    <2>1. [copies[c] EXCEPT !.unpublished = {}] \in Account
      OBVIOUS
    <2>2. account' \in Account /\ copies' \in [Chats -> Account]
      BY <1>15, <2>1 DEF MarkFirst, MarkPublished, Persist
    <2>3. phase' \in [Chats -> Phases]
      BY <1>15 DEF MarkFirst, Phases
    <2>. QED  BY <1>15, <2>2, <2>3 DEF MarkFirst
  <1>16. ASSUME NEW c \in Chats, ClearPublication(c) PROVE RuntimeShape' /\ SessionsNamed'
    BY <1>16, SMTT(30) DEF ClearPublication, Phases, Nothing, NoCopy, None
  <1>17. ASSUME NEW c \in Chats, PeerClaims(c) PROVE RuntimeShape' /\ SessionsNamed'
    BY <1>17, SMTT(30) DEF PeerClaims, Phases, Nothing, NoCopy, None
  <1>18. ASSUME NEW c \in Chats, FirstSession(c) PROVE RuntimeShape' /\ SessionsNamed'
    BY <1>18, SMTT(30) DEF FirstSession, Phases, Nothing, NoCopy, None
  <1>19. ASSUME NEW c \in Chats, FirstSessionFails(c) PROVE RuntimeShape' /\ SessionsNamed'
    BY <1>19, SMTT(30) DEF FirstSessionFails, Phases, Nothing, NoCopy, None
  <1>20. ASSUME NEW c \in Chats, CommitSession(c) PROVE RuntimeShape' /\ SessionsNamed'
    <2>1. held[c].key \in Sessions /\ Nothing \in Held
      BY DEF Nothing, NoCopy
    <2>2. account' \in Account /\ sessions' \in [Chats -> Sessions] /\ live' \in [Chats -> Sessions]
      BY <1>20, <2>1 DEF CommitSession
    <2>3. /\ modes' = [modes EXCEPT ![c] = [modes[c] EXCEPT !.session = held[c].key]]
          /\ [modes[c] EXCEPT !.session = held[c].key] \in [address : BOOLEAN, session : Sessions]
      <3>1. modes' = [modes EXCEPT ![c] = [modes[c] EXCEPT !.session = held[c].key]]
        BY <1>20 DEF CommitSession
      <3>2. modes[c] \in [address : BOOLEAN, session : Sessions]
        OBVIOUS
      <3>. QED  BY <2>1, <3>1, <3>2
    <2>4. modes' \in [Chats -> [address : BOOLEAN, session : Sessions]]
      BY <2>3
    <2>5. \A d \in Chats : modes'[d].session = IF d = c THEN held[c].key ELSE modes[d].session
      BY <1>20, <2>1 DEF CommitSession
    <2>6. letters' \in [Chats -> SUBSET Keys]
      BY <1>20 DEF CommitSession
    <2>7. held' \in [Chats -> Held] /\ phase' \in [Chats -> Phases]
      BY <1>20, <2>1 DEF CommitSession, Phases
    <2>8. SessionsNamed'
      BY <1>20, <2>5 DEF CommitSession
    <2>. QED  BY <1>20, <2>2, <2>4, <2>6, <2>7, <2>8 DEF CommitSession
  <1>21. ASSUME NEW c \in Chats, ConflictSession(c) PROVE RuntimeShape' /\ SessionsNamed'
    BY <1>21, SMTT(30) DEF ConflictSession, Phases, Swaps, Nothing, NoCopy, None
  <1>22. ASSUME NEW c \in Chats, PrepareMutation(c) PROVE RuntimeShape' /\ SessionsNamed'
    BY <1>22, SMTT(30) DEF PrepareMutation, Phases, Nothing, NoCopy, None
  <1>23. ASSUME NEW c \in Chats, PersistSession(c) PROVE RuntimeShape' /\ SessionsNamed'
    BY <1>23, SMTT(30) DEF PersistSession, Phases, Nothing, NoCopy, None
  <1>24. ASSUME NEW c \in Chats, DeleteMarker(c) PROVE RuntimeShape' /\ SessionsNamed'
    BY <1>24, SMTT(30) DEF DeleteMarker, Phases, Nothing, NoCopy, None
  <1>25. ASSUME NEW c \in Chats, LoseEngine(c) PROVE RuntimeShape' /\ SessionsNamed'
    BY <1>25, SMTT(30) DEF LoseEngine, Phases, Nothing, NoCopy, None
  <1>. QED  BY <1>0, <1>1, <1>2, <1>3, <1>4, <1>5, <1>6, <1>7, <1>8, <1>9, <1>10, <1>11, <1>12, <1>13,
       <1>14, <1>15, <1>16, <1>17, <1>18, <1>19, <1>20, <1>21, <1>22, <1>23, <1>24, <1>25 DEF RuntimeNext

\* While chats are opened one after another, the others are closed.
LEMMA OnlyEngine ==
    ASSUME Alone, NEW c \in Chats, phase[c] # "closed"
    PROVE  \A d \in Chats \ {c} : phase[d] = "closed"
  BY DEF Alone

\* A step of the only engine, from what it does to its own records.
LEMMA AloneStep ==
    ASSUME Alone, NEW c \in Chats,
           \A d \in Chats \ {c} :
               /\ phase[d] = "closed" /\ phase'[d] = phase[d] /\ live'[d] = live[d]
               /\ publications'[d] = publications[d]
               /\ modes[d].address => modes'[d].address
               /\ publication.chat = d => publication'.chat = d,
           EngineFits(c)', PublicationFits(c)',
           publication'.chat = None => ~publication'.address,
           KeysFit'
    PROVE  Alone'
  <1>1. \A d, e \in Chats : d # e => phase'[d] = "closed" \/ phase'[e] = "closed"
    OBVIOUS
  <1>2. ASSUME NEW d \in Chats \ {c} PROVE EngineFits(d)' /\ PublicationFits(d)'
    <2>1. EngineFits(d) /\ PublicationFits(d)
      BY DEF Alone
    <2>2. EngineFits(d)'
      BY <2>1 DEF EngineFits, Unloaded
    <2>3. PublicationFits(d)'
      BY <2>1 DEF PublicationFits
    <2>. QED  BY <2>2, <2>3
  <1>. QED  BY <1>1, <1>2 DEF Alone

\* A step that makes, offers and takes no key.
LEMMA KeysKept ==
    ASSUME RuntimeShape, KeysFit, UNCHANGED <<account, made, offered, letters>>,
           \A d \in Chats : modes'[d].session = modes[d].session
    PROVE  KeysFit'
  BY DEF KeysFit

\* While chats are opened one after another, what the only engine holds is what
\* is stored, so no swap of it is refused, and the publication marker found by
\* an opening is of a publication whose outcome the mode does not yet have.
LEMMA AloneNext ==
    ASSUME RuntimeShape, SessionsNamed, Alone, [RuntimeNext]_runtimeVars, ~together'
    PROVE  Alone'
  <1> USE DEF records, engines, relay, Goto, At
  <1> DEFINE Still(c) == \A d \in Chats \ {c} :
               /\ phase[d] = "closed" /\ phase'[d] = phase[d] /\ live'[d] = live[d]
               /\ publications'[d] = publications[d]
               /\ modes[d].address => modes'[d].address
               /\ publication.chat = d => publication'.chat = d
  <1> DEFINE Fits(c) == /\ Still(c) /\ EngineFits(c)' /\ PublicationFits(c)' /\ KeysFit'
                        /\ (publication'.chat = None => ~publication'.address)
  <1>a. \A c \in Chats : EngineFits(c) /\ PublicationFits(c)
    BY DEF Alone
  <1>b. KeysFit /\ (publication.chat = None => ~publication.address)
    BY DEF Alone
  <1>c. ASSUME NEW c \in Chats, Fits(c) PROVE Alone'
    BY <1>c, AloneStep
  <1>d. \A c \in Chats : phase[c] # "closed" => \A d \in Chats \ {c} : phase[d] = "closed"
    BY OnlyEngine
  <1>0. CASE UNCHANGED runtimeVars
    BY <1>0 DEF runtimeVars, Alone, EngineFits, PublicationFits, KeysFit
  <1>1. ASSUME NEW c \in Chats, OpenEngine(c) PROVE Alone'
    <2>1. EngineFits(c)'
      BY <1>1, <1>a, SMTT(20) DEF OpenEngine, EngineFits, Unloaded, RuntimeShape
    <2>2. PublicationFits(c)'
      BY <1>1, <1>a, <1>b, SMTT(20) DEF OpenEngine, PublicationFits, RuntimeShape
    <2>3. Still(c)
      <3>1. \A d \in Chats : phase[d] = "closed"
        BY <1>1, ZenonT(20) DEF OpenEngine
      <3>. QED  BY <1>1, <3>1 DEF OpenEngine, RuntimeShape
    <2>4. KeysFit'
      BY <1>1, <1>a, <1>b, KeysKept DEF OpenEngine, RuntimeShape
    <2>5. publication'.chat = None => ~publication'.address
      BY <1>1, <1>b, RuntimeAssumption DEF OpenEngine, None
    <2>. QED  BY <1>c, <2>1, <2>2, <2>3, <2>4, <2>5
  <1>2. ASSUME NEW c \in Chats, RecoverPendingCommit(c) PROVE Alone'
    <2>1. EngineFits(c)'
      BY <1>2, <1>a, SMTT(20) DEF RecoverPendingCommit, EngineFits, Unloaded, RuntimeShape
    <2>2. PublicationFits(c)'
      BY <1>2, <1>a, <1>b, SMTT(20) DEF RecoverPendingCommit, PublicationFits, RuntimeShape
    <2>3. Still(c)
      BY <1>2, <1>d, SMTT(20) DEF RecoverPendingCommit, RuntimeShape
    <2>4. KeysFit'
      BY <1>2, <1>a, <1>b, KeysKept DEF RecoverPendingCommit, RuntimeShape
    <2>5. publication'.chat = None => ~publication'.address
      BY <1>2, <1>b, RuntimeAssumption DEF RecoverPendingCommit, None
    <2>. QED  BY <1>c, <2>1, <2>2, <2>3, <2>4, <2>5
  <1>3. ASSUME NEW c \in Chats, ClearMarker(c) PROVE Alone'
    <2>1. EngineFits(c)'
      BY <1>3, <1>a, SMTT(20) DEF ClearMarker, EngineFits, Unloaded, RuntimeShape
    <2>2. PublicationFits(c)'
      BY <1>3, <1>a, <1>b, SMTT(20) DEF ClearMarker, PublicationFits, RuntimeShape
    <2>3. Still(c)
      BY <1>3, <1>d, SMTT(20) DEF ClearMarker, RuntimeShape
    <2>4. KeysFit'
      BY <1>3, <1>a, <1>b, KeysKept DEF ClearMarker, RuntimeShape
    <2>5. publication'.chat = None => ~publication'.address
      BY <1>3, <1>b, RuntimeAssumption DEF ClearMarker, None
    <2>. QED  BY <1>c, <2>1, <2>2, <2>3, <2>4, <2>5
  <1>4. ASSUME NEW c \in Chats, RestoreIdentity(c) PROVE Alone'
    <2>1. EngineFits(c)'
      BY <1>4, <1>a, SMTT(20) DEF RestoreIdentity, EngineFits, Unloaded, RuntimeShape
    <2>2. PublicationFits(c)'
      BY <1>4, <1>a, <1>b, SMTT(20) DEF RestoreIdentity, PublicationFits, RuntimeShape
    <2>3. Still(c)
      BY <1>4, <1>d, SMTT(20) DEF RestoreIdentity, RuntimeShape
    <2>4. KeysFit'
      BY <1>4, <1>a, <1>b, KeysKept DEF RestoreIdentity, RuntimeShape
    <2>5. publication'.chat = None => ~publication'.address
      BY <1>4, <1>b, RuntimeAssumption DEF RestoreIdentity, None
    <2>. QED  BY <1>c, <2>1, <2>2, <2>3, <2>4, <2>5
  <1>5. ASSUME NEW c \in Chats, RestoreSession(c) PROVE Alone'
    <2>1. EngineFits(c)'
      BY <1>5, <1>a, SMTT(20) DEF RestoreSession, Uncertain, EngineFits, Unloaded, RuntimeShape, SessionsNamed
    <2>2. PublicationFits(c)'
      <3>1. publications[c] \in 0 .. 1 /\ (publications[c] = 1 => modes[c].address \/ publication.chat = c)
        BY <1>a DEF PublicationFits
      <3>2. UNCHANGED <<publications, modes, publication>>
        BY <1>5 DEF RestoreSession
      <3>3. CASE Uncertain(c)
        <4>1. phase'[c] = "error"
          BY <1>5, <3>3 DEF RestoreSession, RuntimeShape
        <4>. QED  BY <3>1, <3>2, <4>1 DEF PublicationFits
      <3>4. CASE ~Uncertain(c)
        <4>1. /\ held' = [held EXCEPT ![c] = [held[c] EXCEPT !.resumed = publication.address]]
              /\ phase' = [phase EXCEPT ![c] = IF modes[c].address \/ publication.address
                                               THEN "known" ELSE "reserve"]
          BY <1>5, <3>4 DEF RestoreSession
        <4>2. held'[c].resumed = publication.address
          BY <4>1 DEF RuntimeShape, Held
        <4>3. phase'[c] \in {"known", "reserve"}
              /\ (phase'[c] = "known" <=> modes[c].address \/ publication.address)
          BY <4>1 DEF RuntimeShape
        <4>. QED  BY <1>b, <3>1, <3>2, <3>4, <4>2, <4>3 DEF PublicationFits, Uncertain
      <3>. QED  BY <3>3, <3>4
    <2>3. Still(c)
      BY <1>5, <1>d, SMTT(20) DEF RestoreSession, Uncertain, RuntimeShape
    <2>4. KeysFit'
      BY <1>5, <1>a, <1>b, KeysKept DEF RestoreSession, Uncertain, RuntimeShape
    <2>5. publication'.chat = None => ~publication'.address
      BY <1>5, <1>b, RuntimeAssumption DEF RestoreSession, Uncertain, None
    <2>. QED  BY <1>c, <2>1, <2>2, <2>3, <2>4, <2>5
  <1>6. ASSUME NEW c \in Chats, Replenish(c) PROVE Alone'
    <2>1. EngineFits(c)'
      BY <1>6, <1>a, SMTT(20) DEF Replenish, Replenishes, Persist, EngineFits, Unloaded, RuntimeShape
    <2>2. PublicationFits(c)'
      BY <1>6, <1>a, <1>b, SMTT(20) DEF Replenish, Replenishes, Persist, PublicationFits, RuntimeShape
    <2>3. Still(c)
      BY <1>6, <1>d, SMTT(20) DEF Replenish, Replenishes, Persist, RuntimeShape
    <2>4. KeysFit'
      <3>1. phase[c] = "known" /\ Replenishes(c) /\ UNCHANGED <<modes, relay>>
        BY <1>6 DEF Replenish
      <3>2. copies[c] = account
        BY <1>a, <3>1 DEF EngineFits, Unloaded
      <3>3. /\ account'.keys = account.keys \cup {made + 1}
            /\ account'.unpublished = account.unpublished \cup {made + 1}
            /\ made < MaxKeys /\ made' = made + 1
        BY <3>1, <3>2 DEF Replenishes, Persist
      <3>4. \A d \in Chats : modes[d].session # made + 1 /\ modes[d].session \in 0 .. made' \cup {Outgoing}
        BY <1>b, <3>3 DEF KeysFit, RuntimeShape, Keys, Outgoing
      <3>5. made \in Nat
        BY DEF RuntimeShape, Keys
      <3>. QED  BY <1>b, <3>1, <3>3, <3>4, <3>5 DEF KeysFit
    <2>5. publication'.chat = None => ~publication'.address
      BY <1>6, <1>b, RuntimeAssumption DEF Replenish, Replenishes, Persist, None
    <2>. QED  BY <1>c, <2>1, <2>2, <2>3, <2>4, <2>5
  <1>7. ASSUME NEW c \in Chats, SkipRenewal(c) PROVE Alone'
    <2>1. EngineFits(c)'
      BY <1>7, <1>a, SMTT(20) DEF SkipRenewal, EngineFits, Unloaded, RuntimeShape
    <2>2. PublicationFits(c)'
      BY <1>7, <1>a, <1>b, SMTT(20) DEF SkipRenewal, PublicationFits, RuntimeShape
    <2>3. Still(c)
      BY <1>7, <1>d, SMTT(20) DEF SkipRenewal, RuntimeShape
    <2>4. KeysFit'
      BY <1>7, <1>a, <1>b, KeysKept DEF SkipRenewal, RuntimeShape
    <2>5. publication'.chat = None => ~publication'.address
      BY <1>7, <1>b, RuntimeAssumption DEF SkipRenewal, None
    <2>. QED  BY <1>c, <2>1, <2>2, <2>3, <2>4, <2>5
  <1>8. ASSUME NEW c \in Chats, RenewBundle(c) PROVE Alone'
    <2>1. EngineFits(c)'
      BY <1>8, <1>a, SMTT(20) DEF RenewBundle, EngineFits, Unloaded, RuntimeShape
    <2>2. PublicationFits(c)'
      BY <1>8, <1>a, <1>b, SMTT(20) DEF RenewBundle, PublicationFits, RuntimeShape
    <2>3. Still(c)
      BY <1>8, <1>d, SMTT(20) DEF RenewBundle, RuntimeShape
    <2>4. KeysFit'
      BY <1>8, <1>a, <1>b, SMTT(30) DEF RenewBundle, KeysFit, RuntimeShape, EngineFits, Unloaded
    <2>5. publication'.chat = None => ~publication'.address
      BY <1>8, <1>b, RuntimeAssumption DEF RenewBundle, None
    <2>. QED  BY <1>c, <2>1, <2>2, <2>3, <2>4, <2>5
  <1>9. ASSUME NEW c \in Chats, MarkRenewed(c) PROVE Alone'
    <2>1. EngineFits(c)'
      BY <1>9, <1>a, SMTT(20) DEF MarkRenewed, MarkPublished, Persist, EngineFits, Unloaded, RuntimeShape
    <2>2. PublicationFits(c)'
      BY <1>9, <1>a, <1>b, SMTT(20) DEF MarkRenewed, MarkPublished, Persist, PublicationFits, RuntimeShape
    <2>3. Still(c)
      BY <1>9, <1>d, SMTT(20) DEF MarkRenewed, MarkPublished, Persist, RuntimeShape
    <2>4. KeysFit'
      BY <1>9, <1>a, <1>b, SMTT(30) DEF MarkRenewed, MarkPublished, Persist, KeysFit, RuntimeShape,
           EngineFits, Unloaded
    <2>5. publication'.chat = None => ~publication'.address
      BY <1>9, <1>b, RuntimeAssumption DEF MarkRenewed, MarkPublished, Persist, None
    <2>. QED  BY <1>c, <2>1, <2>2, <2>3, <2>4, <2>5
  <1>10. ASSUME NEW c \in Chats, SettleAddress(c) PROVE Alone'
    <2>1. EngineFits(c)'
      BY <1>10, <1>a, SMTT(20) DEF SettleAddress, EngineFits, Unloaded, RuntimeShape
    <2>2. PublicationFits(c)'
      BY <1>10, <1>a, <1>b, SMTT(20) DEF SettleAddress, PublicationFits, RuntimeShape
    <2>3. Still(c)
      BY <1>10, <1>d, SMTT(20) DEF SettleAddress, RuntimeShape
    <2>4. KeysFit'
      BY <1>10, <1>a, <1>b, KeysKept DEF SettleAddress, RuntimeShape
    <2>5. publication'.chat = None => ~publication'.address
      BY <1>10, <1>b, RuntimeAssumption DEF SettleAddress, None
    <2>. QED  BY <1>c, <2>1, <2>2, <2>3, <2>4, <2>5
  <1>11. ASSUME NEW c \in Chats, ReservePublication(c) PROVE Alone'
    <2>1. CASE copies[c].unpublished = {}
      <3>1. phase[c] = "reserve" /\ Replenishes(c)
            /\ UNCHANGED <<phase, publication, marker, modes, sessions, live, held, relay, together>>
        BY <1>11, <2>1 DEF ReservePublication
      <3>2. EngineFits(c)'
        BY <1>a, <3>1, SMTT(20) DEF Replenishes, Persist, EngineFits, Unloaded, RuntimeShape
      <3>3. PublicationFits(c)'
        BY <1>a, <3>1 DEF PublicationFits
      <3>4. Still(c)
        BY <1>d, <3>1
      <3>5. KeysFit'
        BY <1>a, <1>b, <3>1, SMTT(30)
           DEF Replenishes, Persist, KeysFit, RuntimeShape, EngineFits, Unloaded, Keys, Outgoing, Account
      <3>6. publication'.chat = None => ~publication'.address
        BY <1>b, <3>1
      <3>. QED  BY <1>c, <3>2, <3>3, <3>4, <3>5, <3>6
    <2>2. CASE copies[c].unpublished # {}
      <3>1. /\ phase[c] = "reserve" /\ publication' = [chat |-> c, address |-> FALSE]
            /\ phase' = [phase EXCEPT ![c] = "publish"]
            /\ UNCHANGED <<account, made, copies, marker, modes, sessions, live, held, relay, together>>
        BY <1>11, <2>2 DEF ReservePublication
      <3>2. EngineFits(c)'
        BY <1>a, <3>1 DEF EngineFits, Unloaded, RuntimeShape
      <3>3. PublicationFits(c)'
        BY <1>a, <3>1, RuntimeAssumption, SMTT(20) DEF PublicationFits, RuntimeShape, None
      <3>4. Still(c)
        BY <1>a, <1>d, <3>1, RuntimeAssumption DEF PublicationFits, RuntimeShape, None
      <3>5. KeysFit'
        BY <1>b, <3>1, KeysKept
      <3>6. publication'.chat = None => ~publication'.address
        BY <3>1
      <3>. QED  BY <1>c, <3>2, <3>3, <3>4, <3>5, <3>6
    <2>. QED  BY <2>1, <2>2
  <1>12. ASSUME NEW c \in Chats, PublishBundle(c) PROVE Alone'
    <2>1. EngineFits(c)'
      BY <1>12, <1>a, SMTT(20) DEF PublishBundle, EngineFits, Unloaded, RuntimeShape
    <2>2. PublicationFits(c)'
      BY <1>12, <1>a, <1>b, SMTT(20) DEF PublishBundle, PublicationFits, RuntimeShape
    <2>3. Still(c)
      BY <1>12, <1>d, SMTT(20) DEF PublishBundle, RuntimeShape
    <2>4. KeysFit'
      BY <1>12, <1>a, <1>b, SMTT(30) DEF PublishBundle, KeysFit, RuntimeShape, EngineFits, Unloaded
    <2>5. publication'.chat = None => ~publication'.address
      BY <1>12, <1>b, RuntimeAssumption DEF PublishBundle, None
    <2>. QED  BY <1>c, <2>1, <2>2, <2>3, <2>4, <2>5
  <1>13. ASSUME NEW c \in Chats, RecordAddress(c) PROVE Alone'
    <2>1. EngineFits(c)'
      BY <1>13, <1>a, SMTT(20) DEF RecordAddress, EngineFits, Unloaded, RuntimeShape
    <2>2. PublicationFits(c)'
      BY <1>13, <1>a, <1>b, SMTT(20) DEF RecordAddress, PublicationFits, RuntimeShape
    <2>3. Still(c)
      BY <1>13, <1>a, <1>d, SMTT(20) DEF RecordAddress, RuntimeShape, PublicationFits
    <2>4. KeysFit'
      BY <1>13, <1>a, <1>b, KeysKept DEF RecordAddress, RuntimeShape
    <2>5. publication'.chat = None => ~publication'.address
      BY <1>13, <1>b, RuntimeAssumption DEF RecordAddress, None
    <2>. QED  BY <1>c, <2>1, <2>2, <2>3, <2>4, <2>5
  <1>14. ASSUME NEW c \in Chats, WriteMode(c) PROVE Alone'
    <2>1. EngineFits(c)'
      BY <1>14, <1>a, SMTT(20) DEF WriteMode, EngineFits, Unloaded, RuntimeShape
    <2>2. PublicationFits(c)'
      BY <1>14, <1>a, <1>b, SMTT(20) DEF WriteMode, PublicationFits, RuntimeShape
    <2>3. Still(c)
      BY <1>14, <1>d, SMTT(20) DEF WriteMode, RuntimeShape
    <2>4. KeysFit'
      BY <1>14, <1>a, <1>b, KeysKept DEF WriteMode, RuntimeShape
    <2>5. publication'.chat = None => ~publication'.address
      BY <1>14, <1>b, RuntimeAssumption DEF WriteMode, None
    <2>. QED  BY <1>c, <2>1, <2>2, <2>3, <2>4, <2>5
  <1>15. ASSUME NEW c \in Chats, MarkFirst(c) PROVE Alone'
    <2>1. EngineFits(c)'
      BY <1>15, <1>a, SMTT(20) DEF MarkFirst, MarkPublished, Persist, EngineFits, Unloaded, RuntimeShape
    <2>2. PublicationFits(c)'
      BY <1>15, <1>a, <1>b, SMTT(20) DEF MarkFirst, MarkPublished, Persist, PublicationFits, RuntimeShape
    <2>3. Still(c)
      BY <1>15, <1>d, SMTT(20) DEF MarkFirst, MarkPublished, Persist, RuntimeShape
    <2>4. KeysFit'
      BY <1>15, <1>a, <1>b, SMTT(30) DEF MarkFirst, MarkPublished, Persist, KeysFit, RuntimeShape,
           EngineFits, Unloaded
    <2>5. publication'.chat = None => ~publication'.address
      BY <1>15, <1>b, RuntimeAssumption DEF MarkFirst, MarkPublished, Persist, None
    <2>. QED  BY <1>c, <2>1, <2>2, <2>3, <2>4, <2>5
  <1>16. ASSUME NEW c \in Chats, ClearPublication(c) PROVE Alone'
    <2>1. EngineFits(c)'
      BY <1>16, <1>a, SMTT(20) DEF ClearPublication, EngineFits, Unloaded, RuntimeShape
    <2>2. PublicationFits(c)'
      BY <1>16, <1>a, <1>b, SMTT(20) DEF ClearPublication, PublicationFits, RuntimeShape
    <2>3. Still(c)
      BY <1>16, <1>a, <1>d, SMTT(20) DEF ClearPublication, RuntimeShape, PublicationFits
    <2>4. KeysFit'
      BY <1>16, <1>a, <1>b, KeysKept DEF ClearPublication, RuntimeShape
    <2>5. publication'.chat = None => ~publication'.address
      BY <1>16, <1>b, RuntimeAssumption DEF ClearPublication, None
    <2>. QED  BY <1>c, <2>1, <2>2, <2>3, <2>4, <2>5
  <1>17. ASSUME NEW c \in Chats, PeerClaims(c) PROVE Alone'
    <2>1. KeysFit'
      BY <1>17, <1>b, SMTT(30) DEF PeerClaims, KeysFit, RuntimeShape
    <2>2. \A e \in Chats : EngineFits(e)' /\ PublicationFits(e)'
      BY <1>17, <1>a DEF PeerClaims, EngineFits, PublicationFits
    <2>. QED  BY <1>17, <1>b, <2>1, <2>2 DEF Alone, PeerClaims
  <1>18. ASSUME NEW c \in Chats, FirstSession(c) PROVE Alone'
    <2>1. EngineFits(c)'
      BY <1>18, <1>a, SMTT(20) DEF FirstSession, EngineFits, Unloaded, RuntimeShape
    <2>2. PublicationFits(c)'
      BY <1>18, <1>a, <1>b, SMTT(20) DEF FirstSession, PublicationFits, RuntimeShape
    <2>3. Still(c)
      BY <1>18, <1>d, SMTT(20) DEF FirstSession, RuntimeShape
    <2>4. KeysFit'
      BY <1>18, <1>a, <1>b, KeysKept DEF FirstSession, RuntimeShape
    <2>5. publication'.chat = None => ~publication'.address
      BY <1>18, <1>b, RuntimeAssumption DEF FirstSession, None
    <2>. QED  BY <1>c, <2>1, <2>2, <2>3, <2>4, <2>5
  <1>19. ASSUME NEW c \in Chats, FirstSessionFails(c) PROVE Alone'
    <2>1. EngineFits(c)'
      BY <1>19, <1>a, SMTT(20) DEF FirstSessionFails, EngineFits, Unloaded, RuntimeShape
    <2>2. PublicationFits(c)'
      BY <1>19, <1>a, <1>b, SMTT(20) DEF FirstSessionFails, PublicationFits, RuntimeShape
    <2>3. Still(c)
      BY <1>19, <1>d, SMTT(20) DEF FirstSessionFails, RuntimeShape
    <2>4. KeysFit'
      BY <1>19, <1>a, <1>b, KeysKept DEF FirstSessionFails, RuntimeShape
    <2>5. publication'.chat = None => ~publication'.address
      BY <1>19, <1>b, RuntimeAssumption DEF FirstSessionFails, None
    <2>. QED  BY <1>c, <2>1, <2>2, <2>3, <2>4, <2>5
  <1>20. ASSUME NEW c \in Chats, CommitSession(c) PROVE Alone'
    <2>1. EngineFits(c)'
      BY <1>20, <1>a, SMTT(20) DEF CommitSession, Swaps, EngineFits, Unloaded, RuntimeShape
    <2>2. PublicationFits(c)'
      BY <1>20, <1>a, <1>b, SMTT(20) DEF CommitSession, Swaps, PublicationFits, RuntimeShape
    <2>3. Still(c)
      BY <1>20, <1>d, SMTT(20) DEF CommitSession, Swaps, RuntimeShape
    <2>4. KeysFit'
      <3> DEFINE k == held[c].key
      <3>1. /\ k \in account.keys \cup {Outgoing} /\ modes[c].session = NoSession
            /\ account'.keys = account.keys \ {k}
            /\ account'.unpublished = account.unpublished \ {k}
        BY <1>20, <1>a DEF CommitSession, EngineFits
      <3>2. /\ \A d \in Chats : modes'[d].session = IF d = c THEN k ELSE modes[d].session
            /\ \A d \in Chats : offered'[d] = offered[d] /\ letters'[d] \subseteq letters[d]
            /\ made' = made
        BY <1>20 DEF CommitSession, RuntimeShape
      <3>3. ASSUME NEW e \in Chats PROVE offered'[e] \cup letters'[e]
                                        \subseteq account'.keys \cup {modes'[d].session : d \in Chats}
        <4> SUFFICES ASSUME NEW x \in offered[e] \cup letters[e]
                     PROVE  x \in account'.keys \/ \E d \in Chats : modes'[d].session = x
          BY <3>2
        <4>1. x \in Keys /\ x # NoSession
          BY DEF RuntimeShape, Keys, NoSession
        <4>2. x \in account.keys \/ \E d \in Chats : modes[d].session = x
          BY <1>b DEF KeysFit
        <4>. QED  BY <3>1, <3>2, <4>1, <4>2
      <3>4. \A d \in Chats : modes'[d].session \notin account'.keys
        BY <1>b, <3>1, <3>2 DEF KeysFit
      <3>5. k \in 0 .. made \cup {Outgoing}
        BY <1>b, <3>1 DEF KeysFit, RuntimeShape, Keys
      <3>6. \A d \in Chats : modes'[d].session \in 0 .. made' \cup {Outgoing}
        BY <1>b, <3>2, <3>5 DEF KeysFit
      <3>7. account'.unpublished \subseteq account'.keys /\ account'.keys \subseteq 1 .. made'
        BY <1>b, <3>1, <3>2 DEF KeysFit
      <3>. QED  BY <3>3, <3>4, <3>6, <3>7 DEF KeysFit
    <2>5. publication'.chat = None => ~publication'.address
      BY <1>20, <1>b, RuntimeAssumption DEF CommitSession, Swaps, None
    <2>. QED  BY <1>c, <2>1, <2>2, <2>3, <2>4, <2>5
  <1>21. ASSUME NEW c \in Chats, ConflictSession(c) PROVE Alone'
    BY <1>21, <1>a DEF ConflictSession, Swaps, EngineFits, Unloaded, SessionsNamed
  <1>22. ASSUME NEW c \in Chats, PrepareMutation(c) PROVE Alone'
    <2>1. EngineFits(c)'
      BY <1>22, <1>a, SMTT(20) DEF PrepareMutation, EngineFits, Unloaded, RuntimeShape
    <2>2. PublicationFits(c)'
      BY <1>22, <1>a, <1>b, SMTT(20) DEF PrepareMutation, PublicationFits, RuntimeShape
    <2>3. Still(c)
      BY <1>22, <1>d, SMTT(20) DEF PrepareMutation, RuntimeShape
    <2>4. KeysFit'
      BY <1>22, <1>a, <1>b, KeysKept DEF PrepareMutation, RuntimeShape
    <2>5. publication'.chat = None => ~publication'.address
      BY <1>22, <1>b, RuntimeAssumption DEF PrepareMutation, None
    <2>. QED  BY <1>c, <2>1, <2>2, <2>3, <2>4, <2>5
  <1>23. ASSUME NEW c \in Chats, PersistSession(c) PROVE Alone'
    <2>1. EngineFits(c)'
      BY <1>23, <1>a, SMTT(20) DEF PersistSession, EngineFits, Unloaded, RuntimeShape, SessionsNamed
    <2>2. PublicationFits(c)'
      BY <1>23, <1>a, <1>b, SMTT(20) DEF PersistSession, PublicationFits, RuntimeShape
    <2>3. Still(c)
      BY <1>23, <1>d, SMTT(20) DEF PersistSession, RuntimeShape
    <2>4. KeysFit'
      BY <1>23, <1>a, <1>b, KeysKept DEF PersistSession, RuntimeShape
    <2>5. publication'.chat = None => ~publication'.address
      BY <1>23, <1>b, RuntimeAssumption DEF PersistSession, None
    <2>. QED  BY <1>c, <2>1, <2>2, <2>3, <2>4, <2>5
  <1>24. ASSUME NEW c \in Chats, DeleteMarker(c) PROVE Alone'
    <2>1. EngineFits(c)'
      BY <1>24, <1>a, SMTT(20) DEF DeleteMarker, EngineFits, Unloaded, RuntimeShape
    <2>2. PublicationFits(c)'
      BY <1>24, <1>a, <1>b, SMTT(20) DEF DeleteMarker, PublicationFits, RuntimeShape
    <2>3. Still(c)
      BY <1>24, <1>d, SMTT(20) DEF DeleteMarker, RuntimeShape
    <2>4. KeysFit'
      BY <1>24, <1>a, <1>b, KeysKept DEF DeleteMarker, RuntimeShape
    <2>5. publication'.chat = None => ~publication'.address
      BY <1>24, <1>b, RuntimeAssumption DEF DeleteMarker, None
    <2>. QED  BY <1>c, <2>1, <2>2, <2>3, <2>4, <2>5
  <1>25. ASSUME NEW c \in Chats, LoseEngine(c) PROVE Alone'
    <2>1. EngineFits(c)'
      BY <1>25, <1>a, SMTT(20) DEF LoseEngine, EngineFits, Unloaded, RuntimeShape
    <2>2. PublicationFits(c)'
      BY <1>25, <1>a, <1>b, SMTT(20) DEF LoseEngine, PublicationFits, RuntimeShape
    <2>3. Still(c)
      BY <1>25, <1>d, SMTT(20) DEF LoseEngine, RuntimeShape
    <2>4. KeysFit'
      BY <1>25, <1>a, <1>b, KeysKept DEF LoseEngine, RuntimeShape
    <2>5. publication'.chat = None => ~publication'.address
      BY <1>25, <1>b, RuntimeAssumption DEF LoseEngine, None
    <2>. QED  BY <1>c, <2>1, <2>2, <2>3, <2>4, <2>5
  <1>. QED  BY <1>0, <1>1, <1>2, <1>3, <1>4, <1>5, <1>6, <1>7, <1>8, <1>9, <1>10, <1>11, <1>12, <1>13,
       <1>14, <1>15, <1>16, <1>17, <1>18, <1>19, <1>20, <1>21, <1>22, <1>23, <1>24, <1>25 DEF RuntimeNext

\* What the invariant says of one engine is what the runs check.
LEMMA RuntimeInvMeans ==
    RuntimeInv => RuntimeCorrect
  <1> SUFFICES ASSUME RuntimeInv PROVE RuntimeCorrect  OBVIOUS
  <1>1. RuntimeTypeOK
    BY DEF RuntimeInv, RuntimeShape, RuntimeTypeOK
  <1>2. NoKeyIsLost /\ KeyUsedOnce
    BY DEF RuntimeInv, Alone, KeysFit, NoKeyIsLost, KeyUsedOnce, ConsumedStaysConsumed
  <1>3. PublishedOnce
    BY DEF RuntimeInv, Alone, PublicationFits, PublishedOnce
  <1>4. LiveSessionKept
    BY DEF RuntimeInv, Alone, EngineFits, LiveSessionKept
  <1>5. StoredIsNamed
    BY DEF RuntimeInv, SessionsNamed, StoredIsNamed
  <1>. QED  BY <1>1, <1>2, <1>3, <1>4, <1>5 DEF RuntimeCorrect

\* Two engines that were open at the same time are remembered.
LEMMA TogetherStays ==
    ASSUME [RuntimeNext]_runtimeVars, ~together' PROVE ~together
  BY ZenonT(30) DEF RuntimeNext, runtimeVars, OpenEngine, RecoverPendingCommit, ClearMarker, RestoreIdentity,
     RestoreSession, Replenish, SkipRenewal, RenewBundle, MarkRenewed, SettleAddress, ReservePublication,
     PublishBundle, RecordAddress, WriteMode, MarkFirst, ClearPublication, PeerClaims, FirstSession,
     FirstSessionFails, CommitSession, ConflictSession, PrepareMutation, PersistSession, DeleteMarker,
     LoseEngine

\* For any number of chats and keys and whatever step a page is lost at: a key
\* the relay offers is stored or has opened a session, a key that opened a
\* session does not come back, a chat publishes its first bundle at most once,
\* the session of a running engine is stored, and a stored session is the one
\* its mode names.
THEOREM RuntimeIsCorrect ==
    RuntimeSpec => []RuntimeCorrect
  <1>1. RuntimeInit => RuntimeInv
    BY RuntimeShapeInit DEF RuntimeInv
  <1>2. RuntimeInv /\ [RuntimeNext]_runtimeVars => RuntimeInv'
    BY RuntimeShapeNext, AloneNext, TogetherStays DEF RuntimeInv
  <1>. QED  BY <1>1, <1>2, RuntimeInvMeans, PTL DEF RuntimeSpec

-----------------------------------------------------------------------------
(* The multiplexed connection: MuxClient.                                    *)

\* A request about a room on its way, and a restoration.
MuxMessage == [what : {"subscribe", "undo", "unsubscribe"}, h : Handles, nonce : Nonces]
Restoration == [at : {"none", "auth", "walk", "join"}, seen : SUBSET Handles,
                on : Handles \cup {NoHandle}]
MuxRoomState == [made : BOOLEAN, cfg : BOOLEAN, closed : BOOLEAN, left : BOOLEAN,
            blocked : BOOLEAN, nonce : 0 .. MaxNonce, lease : {"none", "fresh", "due"},
            timer : {"none", "renewal", "retry"}, backoff : BOOLEAN, waiting : BOOLEAN]
MuxOperation == [kind : {"none", "subscribe", "renew"}, gen : Gens, nonce : 0 .. MaxNonce,
            at : {"none", "wait", "auth", "proof", "ack", "granted", "undo", "replay"}]

\* The types the type invariant leaves out; a handle of the map is of its room,
\* and without a connection nothing is on its way or held.
MuxShape ==
    /\ link \in {"down", "up", "ended"} /\ gen \in Gens /\ authGen \in {0, gen}
    /\ auth \in [gen : Gens, at : {"none", "proof", "ack"}]
    /\ rooms \in [Rooms -> Handles \cup {NoHandle}]
    /\ room \in [Handles -> MuxRoomState] /\ op \in [Handles -> MuxOperation]
    /\ un \subseteq [h : Handles, nonce : Nonces, gen : Gens, st : {"sent", "ok", "no"}]
    /\ relaySub \in [Rooms -> 0 .. MaxNonce] /\ notice \in [Rooms -> 0 .. MaxNonce]
    /\ faults \in 0 .. MaxFaults
    /\ loops \in [Slots -> Restoration] /\ wire \in [Rooms -> Seq(MuxMessage)]
    /\ online \in BOOLEAN /\ disposed \in BOOLEAN
    /\ told \subseteq Handles /\ dropped \subseteq Handles /\ refused \subseteq Handles
    /\ \A r \in Rooms : rooms[r] # NoHandle => RoomOf[rooms[r]] = r /\ room[rooms[r]].made
    /\ link # "up" => \A r \in Rooms : wire[r] = <<>> /\ relaySub[r] = 0

\* An operation has a nonce from its request to the relay's answer; past its
\* proof on the current connection, the connection is authenticated.
OpFits(h) ==
    /\ op[h] = NoOp \/ (op[h].kind # "none" /\ op[h].at # "none")
    /\ op[h].nonce # 0 <=> op[h].at \in {"ack", "granted", "undo"}
    /\ ~room[h].made => op[h] = NoOp
    /\ op[h].gen <= gen
    /\ op[h].at = "granted" => op[h].gen = gen /\ link = "up"
    /\ link = "up" /\ op[h].gen = gen /\ op[h].at \in {"proof", "ack", "granted", "undo", "replay"}
       => authGen = gen

\* Only a handle of the map has a nonce or a lease, and only on an authenticated
\* connection; while its replay is awaited it has a timer or was left out.
LeaseFits(h) ==
    /\ ~InMap(h) \/ link # "up" => room[h].nonce = 0 /\ room[h].lease = "none"
    /\ room[h].nonce # 0 => authGen = gen
    /\ link = "up" /\ InMap(h) /\ ~room[h].closed /\ op[h].at = "replay" /\ op[h].gen = gen
       => room[h].lease = "fresh" /\ (room[h].timer # "none" \/ h \in dropped)

NoSubscribe(r) == \A i \in DOMAIN wire[r] : wire[r][i].what # "subscribe"

\* What counts as subscribed, at the end of the operation or during its replay.
Counts(h) ==
    /\ link = "up" /\ InMap(h) /\ ~room[h].closed /\ room[h].timer = "renewal" /\ room[h].lease # "none"
    /\ h \notin told /\ (op[h] = NoOp \/ (op[h].at = "replay" /\ op[h].gen = gen))
\* It is what the relay holds, and nothing on its way will replace it.
HeldFits(h) ==
    Counts(h) => /\ authGen = gen /\ relaySub[RoomOf[h]] = room[h].nonce /\ room[h].nonce # 0
                 /\ NoSubscribe(RoomOf[h])
GrantFits(h) ==
    InMap(h) /\ op[h].at = "granted" => relaySub[RoomOf[h]] = op[h].nonce /\ NoSubscribe(RoomOf[h])

\* The nonce of an operation is its own.
NonceFits(h) ==
    op[h].nonce # 0 => \A k \in Of(RoomOf[h]) :
        room[k].nonce # op[h].nonce /\ (op[k].nonce = op[h].nonce => k = h)

\* A request on its way: whose nonce it has, who waits for its answer, and that
\* nothing behind the request of the handle of the map subscribes again.
Due(q) == op[q.h].at = "undo" /\ op[q.h].nonce = q.nonce
MessageFits(r, i) ==
    LET q == wire[r][i]
    IN  /\ RoomOf[q.h] = r
        /\ \A h \in Of(r) :
            /\ op[h].nonce = q.nonce
               => q.h = h /\ ((q.what = "subscribe" /\ Awaited(q)) \/ (q.what = "undo" /\ Due(q)))
            /\ room[h].nonce = q.nonce => q.what = "unsubscribe" /\ q.h = h /\ room[h].closed
        /\ q.what = "subscribe" =>
            /\ Awaited(q) \/ q.h \in refused
            /\ Awaited(q) => op[q.h].gen = gen
            /\ Awaited(q) /\ InMap(q.h) => \A j \in DOMAIN wire[r] : j > i => wire[r][j].what # "subscribe"
        /\ q.what = "undo" => Due(q) \/ q.h \in refused
        /\ q.what # "unsubscribe" => \A j \in DOMAIN wire[r] : j # i => wire[r][j].nonce # q.nonce

\* What the relay holds has someone who answers for it.
Accountable(r) ==
    relaySub[r] # 0 =>
        \E h \in Handles :
            /\ RoomOf[h] = r
            /\ \/ InMap(h) /\ room[h].nonce = relaySub[r]
               \/ op[h].at \in {"granted", "undo"} /\ op[h].nonce = relaySub[r]
               \/ h \in refused

\* An unsubscription of this connection: its handle still stands in the map with
\* its nonce, or the relay does not hold the nonce and never will again.
Standing(u) == InMap(u.h) /\ room[u.h].closed /\ room[u.h].nonce = u.nonce
Spent(r, n) == /\ relaySub[r] # n
               /\ \A i \in DOMAIN wire[r] : wire[r][i].what = "subscribe" => wire[r][i].nonce # n
GoodbyeFits(u) ==
    /\ u.gen <= gen
    /\ link = "up" /\ u.gen = gen => Standing(u) \/ Spent(RoomOf[u.h], u.nonce)
    /\ u.st = "ok" => link = "up" /\ u.gen = gen /\ Standing(u) /\ Spent(RoomOf[u.h], u.nonce)

Remembered(h) == link = "up" /\ ~disposed /\ Wanted(h) => Planned(h) \/ h \in told \cup dropped
Unstuck(h) == InMap(h) /\ room[h].closed => h \in refused \/ \E u \in un : u.h = h

HandleFits(h) == OpFits(h) /\ LeaseFits(h) /\ HeldFits(h) /\ GrantFits(h) /\ NonceFits(h)
                 /\ Remembered(h) /\ Unstuck(h)
WireFits(r) == \A i \in DOMAIN wire[r] : MessageFits(r, i)

MuxInv ==
    /\ MuxShape
    /\ \A h \in Handles : HandleFits(h)
    /\ \A r \in Rooms : Accountable(r) /\ WireFits(r)
    /\ \A u \in un : GoodbyeFits(u)

-----------------------------------------------------------------------------
\* What is left of a queue of requests once its first one has arrived: each of the
\* others, one place further on (Arrives).
LEMMA FrontRequest ==
    ASSUME NEW S, NEW s \in Seq(S), s # <<>>
    PROVE  /\ Head(s) \in S /\ 1 \in DOMAIN s /\ Head(s) = s[1] /\ Tail(s) \in Seq(S)
           /\ \A i \in DOMAIN Tail(s) : i \in Nat /\ i # 0 /\ i + 1 \in DOMAIN s /\ Tail(s)[i] = s[i + 1]
  <1>1. /\ Len(s) \in Nat \ {0} /\ DOMAIN s = 1 .. Len(s) /\ Tail(s) \in Seq(S) /\ Head(s) \in S
        /\ Len(Tail(s)) = Len(s) - 1 /\ \A i \in 1 .. Len(Tail(s)) : Tail(s)[i] = s[i + 1]
        /\ DOMAIN Tail(s) = 1 .. Len(Tail(s)) /\ Head(s) = s[1]
    BY HeadTailProperties, EmptySeq, LenProperties
  <1>. QED  BY <1>1

\* A queue to which a request is added: the old ones in their places, and the new
\* one behind them (Emit).
LEMMA LastRequest ==
    ASSUME NEW S, NEW s \in Seq(S), NEW e \in S
    PROVE  /\ Append(s, e) \in Seq(S) /\ Len(s) \in Nat
           /\ \A i \in DOMAIN s : i \in Nat /\ i <= Len(s) /\ i \in DOMAIN Append(s, e) /\ Append(s, e)[i] = s[i]
           /\ \A i \in DOMAIN Append(s, e) : i \in Nat /\ (i \in DOMAIN s \/ (i = Len(s) + 1 /\ Append(s, e)[i] = e))
  <1>1. /\ Len(s) \in Nat /\ DOMAIN s = 1 .. Len(s) /\ Append(s, e) \in Seq(S)
        /\ Len(Append(s, e)) = Len(s) + 1 /\ \A i \in 1 .. Len(s) : Append(s, e)[i] = s[i]
        /\ DOMAIN Append(s, e) = 1 .. Len(Append(s, e)) /\ Append(s, e)[Len(s) + 1] = e
    BY AppendProperties, LenProperties
  <1>. QED  BY <1>1

\* The connection starts with no socket, nothing on its way and every settled room
\* of the plan in the map.
LEMMA MuxInitHolds == ASSUME MuxInit PROVE MuxInv
  <1>1. MuxShape
    <2>1. plan \in Plans /\ plan.settled \subseteq Handles
      BY MuxAssumption DEF MuxInit
    <2>2. NewRoom \in MuxRoomState
      BY MuxAssumption DEF MuxRoomState, NewRoom
    <2>9. [NewRoom EXCEPT !.cfg = TRUE] \in MuxRoomState /\ [NewRoom EXCEPT !.made = FALSE] \in MuxRoomState
      BY <2>2 DEF MuxRoomState
    <2>3. room \in [Handles -> MuxRoomState]  BY <2>9 DEF MuxInit
    <2>4. op \in [Handles -> MuxOperation]
      BY MuxAssumption DEF MuxInit, MuxOperation, NoOp, Gens
    <2>5. rooms \in [Rooms -> Handles \cup {NoHandle}]
      BY <2>1 DEF MuxInit
    <2>6. \A r \in Rooms : rooms[r] # NoHandle => RoomOf[rooms[r]] = r /\ room[rooms[r]].made
      BY <2>1, MuxAssumption DEF MuxInit, NewRoom, NoHandle
    <2>7. loops \in [Slots -> Restoration]
      BY DEF MuxInit, Restoration, NoLoop
    <2>8. wire \in [Rooms -> Seq(MuxMessage)]
      BY DEF MuxInit
    <2>10. MaxFaults \in Nat /\ MaxNonce \in Nat /\ Gens = 0 .. MaxFaults + 1
      BY MuxAssumption DEF Gens
    <2>11. /\ link \in {"down", "up", "ended"} /\ gen \in Gens /\ authGen \in {0, gen}
           /\ un \subseteq [h : Handles, nonce : Nonces, gen : Gens, st : {"sent", "ok", "no"}]
           /\ faults \in 0 .. MaxFaults
           /\ told \subseteq Handles /\ dropped \subseteq Handles /\ refused \subseteq Handles
      BY <2>10 DEF MuxInit
    <2>14. online \in BOOLEAN /\ disposed \in BOOLEAN
      BY DEF MuxInit
    <2>12. auth \in [gen : Gens, at : {"none", "proof", "ack"}]
      BY <2>10 DEF MuxInit, NoAuth
    <2>13. /\ relaySub \in [Rooms -> 0 .. MaxNonce] /\ notice \in [Rooms -> 0 .. MaxNonce]
           /\ \A r \in Rooms : wire[r] = <<>> /\ relaySub[r] = 0
      BY <2>10 DEF MuxInit
    <2>. QED  BY <2>3, <2>4, <2>5, <2>6, <2>7, <2>8, <2>11, <2>12, <2>13, <2>14 DEF MuxShape
  <1>2. ASSUME NEW h \in Handles PROVE HandleFits(h)
    <2>1. op[h] = NoOp /\ room[h].nonce = 0 /\ room[h].lease = "none" /\ room[h].closed = FALSE
      BY DEF MuxInit, NewRoom
    <2>. QED  BY <2>1, MuxAssumption DEF MuxInit, HandleFits, OpFits, LeaseFits, HeldFits, Counts, GrantFits,
                  NonceFits, Remembered, Unstuck, NoOp, Gens
  <1>3. ASSUME NEW r \in Rooms PROVE Accountable(r) /\ WireFits(r)
    BY DEF MuxInit, Accountable, WireFits
  <1>. QED  BY <1>1, <1>2, <1>3 DEF MuxInit, MuxInv

-----------------------------------------------------------------------------
(* What a step leaves alone. *)

\* Nothing at the relay or on its way to it has the nonce any more.
Closing(r, n) == relaySub'[r] # n /\ \A i \in DOMAIN wire'[r] : wire'[r][i].nonce # n

\* An operation stays what it is to the relay, or ends; a nonce that is given up
\* unanswered leaves its handle among the refused.
Mild(h) ==
    /\ \/ op'[h].nonce = op[h].nonce /\ op'[h].at = op[h].at /\ op'[h].gen = op[h].gen
       \/ /\ op'[h].nonce = 0 /\ op'[h].at \notin {"ack", "granted", "undo"}
          /\ op[h].nonce # 0 => h \in refused' \/ Closing(RoomOf[h], op[h].nonce)
    /\ room'[h].closed = room[h].closed
    /\ room'[h].nonce = room[h].nonce \/ (room'[h].nonce = 0 /\ ~room[h].closed /\ h \in refused')
\* The relay takes the first request about a room, if any, and may give up what it
\* holds for it if that counts for nobody.
WireGoes(r) ==
    /\ wire'[r] = wire[r] \/ (wire[r] # <<>> /\ wire'[r] = Tail(wire[r]))
    /\ \/ relaySub'[r] = relaySub[r]
       \/ /\ relaySub'[r] = 0
          /\ \A k \in Of(r) : /\ ~room[k].closed => room[k].nonce # relaySub[r]
                              /\ op[k].at = "granted" => op[k].nonce # relaySub[r]
MildRoom(r) ==
    /\ UNCHANGED <<link, gen>> /\ refused \subseteq refused' /\ rooms'[r] = rooms[r]
    /\ WireGoes(r) /\ \A h \in Of(r) : Mild(h)

\* What the invariant says of one handle, one room and one unsubscription, taken
\* apart for the proofs below.
LEMMA MuxTypes ==
    ASSUME MuxInv
    PROVE  /\ \A h \in Handles : /\ RoomOf[h] \in Rooms /\ h # NoHandle /\ h \in Of(RoomOf[h])
                                 /\ room[h] \in MuxRoomState /\ op[h] \in MuxOperation
                                 /\ HandleFits(h)
           /\ \A r \in Rooms : /\ wire[r] \in Seq(MuxMessage) /\ relaySub[r] \in 0 .. MaxNonce
                               /\ rooms[r] \in Handles \cup {NoHandle} /\ Of(r) \subseteq Handles
                               /\ \A i \in DOMAIN wire[r] : /\ wire[r][i] \in MuxMessage /\ i \in Nat
                                                            /\ MessageFits(r, i) /\ wire[r][i].nonce # 0
           /\ \A u \in un : u.h \in Handles /\ u.nonce \in Nonces /\ u.nonce # 0 /\ GoodbyeFits(u)
           /\ MaxNonce \in Nat /\ MaxFaults \in Nat /\ gen \in Nat
  <1>1. MaxNonce \in Nat /\ MaxFaults \in Nat /\ RoomOf \in [Handles -> Rooms] /\ NoHandle \notin Handles
    BY MuxAssumption DEF NoHandle
  <1>2. \A h \in Handles : /\ RoomOf[h] \in Rooms /\ h # NoHandle /\ h \in Of(RoomOf[h])
                           /\ room[h] \in MuxRoomState /\ op[h] \in MuxOperation /\ HandleFits(h)
    BY <1>1 DEF MuxInv, MuxShape, Of
  <1>3. ASSUME NEW r \in Rooms
        PROVE  /\ wire[r] \in Seq(MuxMessage) /\ relaySub[r] \in 0 .. MaxNonce
               /\ rooms[r] \in Handles \cup {NoHandle} /\ Of(r) \subseteq Handles
    BY DEF MuxInv, MuxShape, Of
  <1>4. ASSUME NEW r \in Rooms, NEW i \in DOMAIN wire[r]
        PROVE  wire[r][i] \in MuxMessage /\ i \in Nat /\ MessageFits(r, i) /\ wire[r][i].nonce # 0
    <2>1. wire[r] \in Seq(MuxMessage)  BY <1>3
    <2>2. DOMAIN wire[r] = 1 .. Len(wire[r]) /\ Len(wire[r]) \in Nat
      BY <2>1, LenProperties
    <2>3. wire[r][i] \in MuxMessage  BY <2>1, <2>2, ElementOfSeq
    <2>4. wire[r][i].nonce \in 1 .. MaxNonce
      BY <2>3 DEF MuxMessage, Nonces
    <2>. QED  BY <2>2, <2>3, <2>4, <1>1 DEF MuxInv, WireFits
  <1>5. ASSUME NEW u \in un PROVE u.h \in Handles /\ u.nonce \in Nonces /\ u.nonce # 0 /\ GoodbyeFits(u)
    BY <1>1 DEF MuxInv, MuxShape, Nonces
  <1>. QED  BY <1>1, <1>2, <1>3, <1>4, <1>5 DEF MuxInv, MuxShape, Gens

\* When the relay takes the first request about a room, every other one is still on
\* its way, and what counts as subscribed stays held.
LEMMA WireGoesOn ==
    ASSUME MuxInv, NEW r \in Rooms, WireGoes(r)
    PROVE  /\ wire'[r] \in Seq(MuxMessage) /\ relaySub'[r] \in 0 .. MaxNonce
           /\ \E d \in {0, 1} : \A i \in DOMAIN wire'[r] :
                  i \in Nat /\ i + d \in DOMAIN wire[r] /\ wire'[r][i] = wire[r][i + d]
           /\ NoSubscribe(r) => NoSubscribe(r)'
           /\ \A k \in Of(r) : Counts(k) => relaySub'[r] = relaySub[r] /\ NoSubscribe(r)'
  <1>1. /\ wire[r] \in Seq(MuxMessage) /\ relaySub[r] \in 0 .. MaxNonce /\ MaxNonce \in Nat
        /\ \A i \in DOMAIN wire[r] : i \in Nat
    BY MuxTypes
  <1>2. wire'[r] \in Seq(MuxMessage) /\ relaySub'[r] \in 0 .. MaxNonce
    <2>1. wire[r] # <<>> => Tail(wire[r]) \in Seq(MuxMessage)  BY <1>1, FrontRequest
    <2>2. wire'[r] \in Seq(MuxMessage)  BY <1>1, <2>1 DEF WireGoes
    <2>3. relaySub'[r] \in 0 .. MaxNonce  BY <1>1 DEF WireGoes
    <2>. QED  BY <2>2, <2>3
  <1>3. PICK d \in {0, 1} : \A i \in DOMAIN wire'[r] :
                  i \in Nat /\ i + d \in DOMAIN wire[r] /\ wire'[r][i] = wire[r][i + d]
    <2>1. CASE wire'[r] = wire[r]
      <3>1. \A i \in DOMAIN wire'[r] : i \in Nat /\ i + 0 \in DOMAIN wire[r] /\ wire'[r][i] = wire[r][i + 0]
        BY <1>1, <2>1
      <3>. QED  BY <3>1
    <2>2. CASE wire[r] # <<>> /\ wire'[r] = Tail(wire[r])
      <3>1. \A i \in DOMAIN wire'[r] : i \in Nat /\ i + 1 \in DOMAIN wire[r] /\ wire'[r][i] = wire[r][i + 1]
        BY <1>1, <2>2, FrontRequest
      <3>. QED  BY <3>1
    <2>. QED  BY <2>1, <2>2 DEF WireGoes
  <1>4. NoSubscribe(r) => NoSubscribe(r)'
    BY <1>3 DEF NoSubscribe
  <1>5. ASSUME NEW k \in Of(r), Counts(k) PROVE relaySub'[r] = relaySub[r] /\ NoSubscribe(r)'
    <2>1. HeldFits(k) /\ RoomOf[k] = r  BY MuxTypes DEF Of, HandleFits
    <2>. QED  BY <1>4, <1>5, <2>1 DEF HeldFits, Counts, WireGoes
  <1>. QED  BY <1>2, <1>3, <1>4, <1>5

\* A request on its way is about the room of the handle that sent it.
LEMMA MessageHas ==
    ASSUME MuxInv, NEW r \in Rooms, NEW j \in DOMAIN wire[r]
    PROVE  LET q == wire[r][j]
           IN  /\ q \in MuxMessage /\ MessageFits(r, j) /\ q.nonce # 0
               /\ q.h \in Handles /\ RoomOf[q.h] = r /\ q.h \in Of(r)
  <1>1. wire[r][j] \in MuxMessage /\ MessageFits(r, j) /\ wire[r][j].nonce # 0  BY MuxTypes
  <1>2. RoomOf[wire[r][j].h] = r  BY <1>1 DEF MessageFits
  <1>. QED  BY <1>1, <1>2 DEF MuxMessage, Of

\* A step that neither sends nor delivers leaves every queue, and what the relay holds.
LEMMA WireRests ==
    ASSUME MuxInv, UNCHANGED <<wire, relaySub>>
    PROVE  /\ wire' = [r \in Rooms |-> wire'[r]] /\ relaySub' = [r \in Rooms |-> relaySub'[r]]
           /\ \A r \in Rooms : WireGoes(r)
           /\ \A k \in Handles : Counts(k) => relaySub'[RoomOf[k]] = relaySub[RoomOf[k]] /\ NoSubscribe(RoomOf[k])'
  <1>1. wire' = [r \in Rooms |-> wire'[r]] /\ relaySub' = [r \in Rooms |-> relaySub'[r]]
    BY DEF MuxInv, MuxShape
  <1>2. \A r \in Rooms : WireGoes(r)  BY DEF WireGoes
  <1>. QED  BY <1>1, <1>2, WireGoesOn, MuxTypes

\* A request that stays on its way.
MessageStays(r, i, q) ==
    /\ UNCHANGED gen /\ refused \subseteq refused'
    /\ \A h \in Of(r) :
          /\ op'[h].nonce = q.nonce => op[h].nonce = q.nonce /\ op'[h].at = op[h].at /\ op'[h].gen = op[h].gen
          /\ op[h].nonce = q.nonce => (op'[h].nonce = q.nonce /\ op'[h].at = op[h].at) \/ h \in refused'
          /\ room'[h].nonce = q.nonce => room[h].nonce = q.nonce /\ (room[h].closed => room'[h].closed)
    /\ q.what = "subscribe" /\ Awaited(q)' /\ InMap(q.h)'
              => \A k \in DOMAIN wire'[r] : k > i => wire'[r][k].what # "subscribe"
    /\ q.what # "unsubscribe" => \A k \in DOMAIN wire'[r] : k # i => wire'[r][k].nonce # q.nonce
\* A request that stays on its way, for the reasons MessageStays lists, still fits.
LEMMA MessageKeeps ==
    ASSUME MuxInv, NEW r \in Rooms, NEW i \in DOMAIN wire'[r], NEW j \in DOMAIN wire[r],
           wire[r][j] = wire'[r][i], MessageStays(r, i, wire[r][j])
    PROVE  MessageFits(r, i)'
  <1>0. PICK q : q = wire[r][j]  OBVIOUS
  <1>2. q = wire'[r][i] /\ MessageStays(r, i, q)  BY <1>0
  <1>1. q.nonce # 0 /\ q.h \in Handles /\ RoomOf[q.h] = r /\ q.h \in Of(r)
    BY <1>0, MessageHas
  <1>9. MessageFits(r, j)  BY MessageHas
  <1>3. /\ Awaited(q)' => Awaited(q) /\ op'[q.h].gen = op[q.h].gen
        /\ Awaited(q) => Awaited(q)' \/ q.h \in refused'
        /\ Due(q)' => Due(q)
        /\ Due(q) => Due(q)' \/ q.h \in refused'
    BY <1>1, <1>2 DEF Awaited, Due, MessageStays
  <1>4. \A h \in Of(r) : op'[h].nonce = q.nonce
              => q.h = h /\ ((q.what = "subscribe" /\ Awaited(q)') \/ (q.what = "undo" /\ Due(q)'))
    BY <1>0, <1>1, <1>2, <1>9 DEF MessageFits, Awaited, Due, MessageStays
  <1>5. \A h \in Of(r) : room'[h].nonce = q.nonce => q.what = "unsubscribe" /\ q.h = h /\ room'[h].closed
    BY <1>0, <1>1, <1>2, <1>9 DEF MessageFits, MessageStays
  <1>6. q.what = "undo" => Due(q)' \/ q.h \in refused'
    BY <1>0, <1>2, <1>3, <1>9 DEF MessageFits, MessageStays
  <1>7. q.what = "subscribe" => (Awaited(q)' \/ q.h \in refused') /\ (Awaited(q)' => op'[q.h].gen = gen')
    BY <1>0, <1>2, <1>3, <1>9 DEF MessageFits, MessageStays
  <1>8. Of(r)' = Of(r)  BY DEF Of
  <1>. QED  BY <1>1, <1>2, <1>4, <1>5, <1>6, <1>7, <1>8 DEF MessageFits, MessageStays

\* A step that is mild to a room keeps what is said of its requests, of the nonces of
\* its operations and of what the relay holds.
LEMMA RoomKeeps ==
    ASSUME MuxInv, NEW r \in Rooms, MildRoom(r)
    PROVE  /\ Accountable(r)' /\ WireFits(r)'
           /\ \A h \in Of(r) : NonceFits(h)' /\ GrantFits(h)'
           /\ \A u \in un : RoomOf[u.h] = r => GoodbyeFits(u)'
  <1>1. \A h \in Of(r) : h \in Handles /\ RoomOf[h] = r /\ Mild(h) /\ (InMap(h)' <=> InMap(h))
    BY DEF Of, MildRoom, InMap
  <1>2. Accountable(r)'
    <2>1. SUFFICES ASSUME relaySub'[r] # 0
          PROVE  \E h \in Of(r) :
                    \/ InMap(h)' /\ room'[h].nonce = relaySub'[r]
                    \/ op'[h].at \in {"granted", "undo"} /\ op'[h].nonce = relaySub'[r]
                    \/ h \in refused'
      BY DEF Accountable, Of
    <2>2. relaySub'[r] = relaySub[r]  BY <2>1 DEF MildRoom, WireGoes
    <2>3. PICK h \in Of(r) :
                    \/ InMap(h) /\ room[h].nonce = relaySub[r]
                    \/ op[h].at \in {"granted", "undo"} /\ op[h].nonce = relaySub[r]
                    \/ h \in refused
      BY <2>1, <2>2 DEF MuxInv, Accountable, Of
    <2>. QED  BY <1>1, <2>1, <2>2, <2>3 DEF Mild, MildRoom, Closing
  <1>3. WireFits(r)'
    <2>1. PICK d \in {0, 1} : \A i \in DOMAIN wire'[r] :
                  i \in Nat /\ i + d \in DOMAIN wire[r] /\ wire'[r][i] = wire[r][i + d]
      BY WireGoesOn DEF MildRoom
    <2> SUFFICES ASSUME NEW i \in DOMAIN wire'[r] PROVE MessageFits(r, i)'
      BY DEF WireFits
    <2>2. PICK j : j = i + d  OBVIOUS
    <2>3. PICK q : q = wire[r][j]  OBVIOUS
    <2>4. /\ i \in Nat /\ j \in DOMAIN wire[r] /\ q = wire'[r][i] /\ q.nonce # 0 /\ MessageFits(r, j)
          /\ q.h \in Handles /\ RoomOf[q.h] = r /\ q.h \in Of(r)
      BY <2>1, <2>2, <2>3, MessageHas
    <2>5. InMap(q.h)' <=> InMap(q.h)  BY <2>4, <1>1
    <2>6. ASSUME NEW h \in Of(r)
          PROVE  /\ op'[h].nonce = q.nonce => op[h].nonce = q.nonce /\ op'[h].at = op[h].at /\ op'[h].gen = op[h].gen
                 /\ op[h].nonce = q.nonce => (op'[h].nonce = q.nonce /\ op'[h].at = op[h].at) \/ h \in refused'
                 /\ room'[h].nonce = q.nonce => room[h].nonce = q.nonce /\ (room[h].closed => room'[h].closed)
      BY <1>1, <2>4 DEF Mild, Closing
    <2>7. q.what # "unsubscribe" => \A k \in DOMAIN wire'[r] : k # i => wire'[r][k].nonce # q.nonce
      <3> SUFFICES ASSUME q.what # "unsubscribe", NEW k \in DOMAIN wire'[r], k # i PROVE wire'[r][k].nonce # q.nonce
        OBVIOUS
      <3>1. k + d \in DOMAIN wire[r] /\ k + d # j /\ wire'[r][k] = wire[r][k + d]
        BY <2>1, <2>2, <2>4
      <3>. QED  BY <2>3, <2>4, <3>1 DEF MessageFits
    <2>8. q.what = "subscribe" /\ Awaited(q)' /\ InMap(q.h)'
              => \A k \in DOMAIN wire'[r] : k > i => wire'[r][k].what # "subscribe"
      <3> SUFFICES ASSUME q.what = "subscribe", Awaited(q)', InMap(q.h)', NEW k \in DOMAIN wire'[r], k > i
                   PROVE  wire'[r][k].what # "subscribe"
        OBVIOUS
      <3>1. k + d \in DOMAIN wire[r] /\ k + d > j /\ wire'[r][k] = wire[r][k + d]
        BY <2>1, <2>2, <2>4
      <3>2. Awaited(q)  BY <2>4, <2>6 DEF Awaited
      <3>. QED  BY <2>3, <2>4, <2>5, <3>1, <3>2 DEF MessageFits
    <2>9. UNCHANGED gen /\ refused \subseteq refused'  BY DEF MildRoom
    <2>10. MessageStays(r, i, q)  BY <2>5, <2>6, <2>7, <2>8, <2>9 DEF MessageStays
    <2>. QED  BY <2>3, <2>4, <2>10, MessageKeeps
  <1>4. ASSUME NEW h \in Of(r) PROVE NonceFits(h)' /\ GrantFits(h)'
    <2>1. h \in Handles /\ RoomOf[h] = r /\ NonceFits(h) /\ GrantFits(h) /\ Mild(h)
      BY <1>1, MuxTypes DEF HandleFits
    <2>2. NonceFits(h)'
      BY <2>1, <1>1 DEF NonceFits, Mild, Of
    <2>3. NoSubscribe(r) => NoSubscribe(r)'
      BY WireGoesOn DEF MildRoom
    <2>4. GrantFits(h)'
      BY <2>1, <2>3, <1>1 DEF GrantFits, Mild, MildRoom, WireGoes
    <2>. QED  BY <2>2, <2>4
  <1>5. ASSUME NEW u \in un, RoomOf[u.h] = r PROVE GoodbyeFits(u)'
    <2>1. u.h \in Of(r) /\ GoodbyeFits(u) /\ u.nonce # 0  BY <1>5, MuxTypes DEF Of
    <2>2. Standing(u) => Standing(u)'
      BY <2>1, <1>1 DEF Standing, Mild
    <2>3. Spent(r, u.nonce) => Spent(r, u.nonce)'
      <3>1. PICK d \in {0, 1} : \A i \in DOMAIN wire'[r] :
                  i \in Nat /\ i + d \in DOMAIN wire[r] /\ wire'[r][i] = wire[r][i + d]
        BY WireGoesOn DEF MildRoom
      <3>. QED  BY <2>1, <3>1 DEF Spent, MildRoom, WireGoes
    <2>. QED  BY <2>1, <2>2, <2>3, <1>5 DEF GoodbyeFits, MildRoom
  <1>. QED  BY <1>2, <1>3, <1>4, <1>5

\* A step that does not concern a handle.
LoopsGo(k) ==
    \A i \in Slots : loops[i] # NoLoop /\ k \notin loops[i].seen
        => (loops'[i] # NoLoop /\ k \notin loops'[i].seen) \/ k \in dropped' \/ ~InMap(k)'
\* A handle a step does not concern keeps its operation, its lease, what it counts as
\* and who remembers it.
LEMMA HandleKeeps ==
    ASSUME MuxInv, NEW k \in Handles, op'[k] = op[k], room'[k] = room[k],
           UNCHANGED <<link, gen, authGen>>, disposed => disposed',
           InMap(k)' <=> InMap(k),
           Counts(k) => relaySub'[RoomOf[k]] = relaySub[RoomOf[k]] /\ NoSubscribe(RoomOf[k])',
           k \in told' <=> k \in told, k \in dropped => k \in dropped', LoopsGo(k)
    PROVE  OpFits(k)' /\ LeaseFits(k)' /\ HeldFits(k)' /\ Remembered(k)'
  <1>1. HandleFits(k)  BY MuxTypes
  <1>2. OpFits(k)'
    BY <1>1 DEF HandleFits, OpFits
  <1>3. LeaseFits(k)'
    BY <1>1 DEF HandleFits, LeaseFits
  <1>4. HeldFits(k)'
    BY <1>1 DEF HandleFits, HeldFits, Counts
  <1>5. Remembered(k)'
    <2>1. Wanted(k)' => Wanted(k) /\ InMap(k)'  BY DEF Wanted
    <2>2. Planned(k) => Planned(k)' \/ k \in dropped' \/ ~InMap(k)'
      BY DEF Planned, LoopsGo
    <2>. QED  BY <1>1, <2>1, <2>2 DEF HandleFits, Remembered
  <1>. QED  BY <1>2, <1>3, <1>4, <1>5

\* A step that sends nothing and keeps the map.
Quiet ==
    /\ UNCHANGED <<link, gen, rooms, un>> /\ refused \subseteq refused'
    /\ \A r \in Rooms : WireGoes(r)
    /\ \A h \in Handles : Mild(h)
\* A quiet step keeps the invariant if what each handle says of itself still fits.
LEMMA QuietKeeps ==
    ASSUME MuxInv, MuxShape', Quiet,
           \A h \in Handles : OpFits(h)' /\ LeaseFits(h)' /\ HeldFits(h)' /\ Remembered(h)'
    PROVE  MuxInv'
  <1>1. \A r \in Rooms : MildRoom(r)
    BY MuxTypes DEF MildRoom, Quiet
  <1>2. \A r \in Rooms : Accountable(r)' /\ WireFits(r)'
    BY <1>1, RoomKeeps
  <1>3. ASSUME NEW h \in Handles PROVE NonceFits(h)' /\ GrantFits(h)' /\ Unstuck(h)'
    <2>1. RoomOf[h] \in Rooms /\ h \in Of(RoomOf[h]) /\ HandleFits(h)  BY MuxTypes
    <2>2. NonceFits(h)' /\ GrantFits(h)'  BY <2>1, <1>1, RoomKeeps
    <2>3. Unstuck(h)'
      BY <2>1 DEF HandleFits, Unstuck, Quiet, Mild, InMap
    <2>. QED  BY <2>2, <2>3
  <1>4. \A u \in un : GoodbyeFits(u)'
    BY <1>1, RoomKeeps, MuxTypes
  <1>. QED  BY <1>2, <1>3, <1>4 DEF MuxInv, HandleFits, Quiet

\* The operations of some handles end: those that gave up a nonce and those that
\* were refused for good are among the refused.
Ending(E, err) ==
    /\ E \subseteq Handles /\ err \in {"ok", "transient", "terminal"}
    /\ op' = [h \in Handles |-> IF h \in E THEN NoOp ELSE op[h]]
    /\ room' = [h \in Handles |-> IF h \in E THEN AfterOp(h, err) ELSE room[h]]
    /\ told' = told \cup {h \in E : op[h].kind = "subscribe" /\ err # "ok"}
    /\ dropped \subseteq dropped' /\ dropped' \subseteq Handles
    /\ loops' \in [Slots -> Restoration] /\ \A k \in Handles : LoopsGo(k)
    /\ refused \subseteq refused' /\ refused' \subseteq Handles
    /\ \A h \in E : /\ op[h] # NoOp
                    /\ op[h].nonce # 0 => h \in refused' \/ Closing(RoomOf[h], op[h].nonce)
                    /\ err = "terminal" => h \in refused'
                    /\ err = "ok" => op[h].at = "replay" /\ op[h].gen = gen /\ link = "up"
LinkRests ==
    /\ UNCHANGED <<link, gen, rooms, un, disposed, online, notice>>
    /\ wire' = [r \in Rooms |-> wire'[r]] /\ relaySub' = [r \in Rooms |-> relaySub'[r]]
    /\ \A r \in Rooms : WireGoes(r)
    /\ auth' \in [gen : Gens, at : {"none", "proof", "ack"}] /\ faults' \in 0 .. MaxFaults

\* What the end of an operation leaves in a RoomState.
LEMMA AfterOpFits ==
    ASSUME MuxInv, NEW h \in Handles, NEW err \in {"ok", "transient", "terminal"}
    PROVE  LET R == AfterOp(h, err)
           IN  /\ R \in MuxRoomState /\ R.made = room[h].made /\ R.closed = room[h].closed
               /\ R.nonce = room[h].nonce \/ (R.nonce = 0 /\ ~room[h].closed /\ err = "terminal")
               /\ R.lease = room[h].lease \/ (R.lease = "none" /\ R.nonce = 0)
               /\ R = room[h] \/ R.timer # "renewal"
               /\ op[h].kind # "subscribe" /\ err # "ok" /\ ~room[h].closed => R.blocked \/ R.timer # "none"
               /\ op[h].kind = "subscribe" \/ err = "ok" => R = room[h]
  <1>1. room[h] \in MuxRoomState /\ MaxNonce \in Nat  BY MuxTypes
  <1>2. PICK o : o = room[h]  OBVIOUS
  <1>3. /\ Block(o) \in MuxRoomState /\ Block(o).made = o.made /\ Block(o).closed = o.closed
        /\ Block(o).nonce = 0 /\ Block(o).lease = "none" /\ Block(o).timer = "none" /\ Block(o).blocked
    <2>4. 0 \in 0 .. MaxNonce  BY <1>1
    <2>5. o \in MuxRoomState  BY <1>1, <1>2
    <2>6. PICK s : s = [o EXCEPT !.blocked = TRUE, !.timer = "none", !.backoff = FALSE, !.waiting = FALSE]
      OBVIOUS
    <2>7. s \in MuxRoomState  BY <2>5, <2>6 DEF MuxRoomState
    <2>8. [s EXCEPT !.nonce = 0, !.lease = "none"] \in MuxRoomState  BY <2>4, <2>7 DEF MuxRoomState
    <2>9. Block(o) = [s EXCEPT !.nonce = 0, !.lease = "none"]
      BY <2>5, <2>6 DEF Block, MuxRoomState
    <2>1. Block(o) \in MuxRoomState  BY <2>8, <2>9
    <2>2. /\ Block(o).made = o.made /\ Block(o).closed = o.closed
          /\ Block(o).nonce = 0 /\ Block(o).lease = "none" /\ Block(o).timer = "none"
      BY <1>1, <1>2 DEF Block, MuxRoomState
    <2>3. Block(o).blocked = TRUE
      BY <1>1, <1>2 DEF Block, MuxRoomState
    <2>. QED  BY <2>1, <2>2, <2>3
  <1>4. /\ ScheduleRetry(o) \in MuxRoomState /\ ScheduleRetry(o).made = o.made
        /\ ScheduleRetry(o).closed = o.closed /\ ScheduleRetry(o).nonce = o.nonce
        /\ ScheduleRetry(o).lease = o.lease /\ ScheduleRetry(o).timer = "retry"
    BY <1>1, <1>2 DEF ScheduleRetry, MuxRoomState
  <1>. QED  BY <1>1, <1>2, <1>3, <1>4 DEF AfterOp

\* Operations that end (a proof or an answer that does not come, a refusal) keep the
\* invariant: a nonce given up leaves its handle among the refused.
LEMMA EndingHolds ==
    ASSUME MuxInv, LinkRests, UNCHANGED authGen, NEW E, NEW err, Ending(E, err)
    PROVE  MuxInv'
  <1>1. \A h \in E : room'[h] = AfterOp(h, err) /\ op'[h] = NoOp /\ h \in Handles
    BY DEF Ending
  <1>2. \A h \in Handles \ E : room'[h] = room[h] /\ op'[h] = op[h]
    BY DEF Ending
  <1>3. NoOp \in MuxOperation /\ NoOp.nonce = 0 /\ NoOp.at = "none" /\ NoOp.gen = 0
    BY MuxTypes DEF NoOp, MuxOperation, Gens
  <1>4. \A h \in E : room'[h] \in MuxRoomState /\ room'[h].made = room[h].made
    BY <1>1, AfterOpFits DEF Ending
  <1>5. room' \in [Handles -> MuxRoomState] /\ op' \in [Handles -> MuxOperation]
    <2>1. \A h \in Handles : room'[h] \in MuxRoomState /\ op'[h] \in MuxOperation
      BY <1>1, <1>2, <1>3, <1>4, MuxTypes
    <2>. QED  BY <2>1 DEF Ending
  <1>6. \A h \in Handles : room'[h].made = room[h].made
    BY <1>2, <1>4
  <1>7. told' \subseteq Handles
    BY DEF Ending, MuxInv, MuxShape
  <1>8. MuxShape'
    <2>1. \A r \in Rooms : wire'[r] \in Seq(MuxMessage) /\ relaySub'[r] \in 0 .. MaxNonce
      BY WireGoesOn DEF LinkRests
    <2>2. wire' \in [Rooms -> Seq(MuxMessage)] /\ relaySub' \in [Rooms -> 0 .. MaxNonce]
      BY <2>1 DEF LinkRests
    <2>3. link # "up" => \A r \in Rooms : wire'[r] = <<>> /\ relaySub'[r] = 0
      BY DEF LinkRests, WireGoes, MuxInv, MuxShape
    <2>. QED  BY <1>5, <1>6, <1>7, <2>2, <2>3, MuxTypes DEF MuxInv, MuxShape, LinkRests, Ending
  <1>9. Quiet
    <2>1. ASSUME NEW h \in E PROVE Mild(h)
      BY <1>1, <1>3, AfterOpFits DEF Ending, Mild
    <2>2. \A h \in Handles \ E : Mild(h)
      BY <1>2 DEF Mild
    <2>. QED  BY <2>1, <2>2 DEF Quiet, LinkRests, Ending
  <1>10. ASSUME NEW h \in E PROVE OpFits(h)' /\ LeaseFits(h)' /\ HeldFits(h)' /\ Remembered(h)'
    <2>1. /\ HandleFits(h) /\ op[h] # NoOp /\ room[h] \in MuxRoomState /\ op[h] \in MuxOperation
          /\ InMap(h)' <=> InMap(h)
      BY <1>1, MuxTypes DEF Ending, InMap, LinkRests
    <2>2. OpFits(h)'
      BY <1>1, <1>3, MuxTypes DEF OpFits, LinkRests
    <2>3. PICK R : R = AfterOp(h, err) /\ room'[h] = R  BY <1>1
    <2>4. /\ R.closed = room[h].closed /\ R.made = room[h].made
          /\ R.nonce = room[h].nonce \/ R.nonce = 0
          /\ R.lease = room[h].lease \/ (R.lease = "none" /\ R.nonce = 0)
          /\ R = room[h] \/ R.timer # "renewal"
          /\ op[h].kind # "subscribe" /\ err # "ok" /\ ~room[h].closed => R.blocked \/ R.timer # "none"
          /\ op[h].kind = "subscribe" \/ err = "ok" => R = room[h]
      BY <1>1, <2>3, AfterOpFits DEF Ending
    <2>5. LeaseFits(h)'
      BY <1>1, <1>3, <2>1, <2>3, <2>4 DEF HandleFits, LeaseFits, LinkRests
    <2>6. op[h].kind = "subscribe" /\ err # "ok" => h \in told'
      BY DEF Ending
    <2>7. HeldFits(h)'
      <3>1. SUFFICES ASSUME Counts(h)' PROVE Counts(h) /\ room'[h] = room[h]
        <4>1. Counts(h) => relaySub'[RoomOf[h]] = relaySub[RoomOf[h]] /\ NoSubscribe(RoomOf[h])'
          BY <1>1, MuxTypes, WireGoesOn DEF LinkRests
        <4>. QED  BY <4>1, <2>1, MuxTypes DEF HandleFits, HeldFits, LinkRests
      <3>2. room'[h] = room[h] /\ h \notin told /\ h \notin told'
        BY <3>1, <2>3, <2>4 DEF Counts, Ending
      <3>3. err = "ok"
        <4>1. CASE op[h].kind = "subscribe"  BY <4>1, <2>6, <3>2
        <4>2. CASE op[h].kind # "subscribe"
          <5>1. err # "ok" => AfterOp(h, err) = Block(room[h]) \/ AfterOp(h, err) = ScheduleRetry(room[h])
            BY <4>2, <3>1, <3>2 DEF AfterOp, Counts
          <5>2. err # "ok" => AfterOp(h, err).timer # "renewal"
            BY <5>1, <2>1 DEF Block, ScheduleRetry, MuxRoomState
          <5>. QED  BY <5>2, <2>3, <3>1 DEF Counts
        <4>. QED  BY <4>1, <4>2
      <3>. QED  BY <3>1, <3>2, <3>3, <2>1 DEF Counts, Ending, LinkRests
    <2>8. Remembered(h)'
      <3>1. SUFFICES ASSUME link = "up", ~disposed, Wanted(h)', h \notin told' \cup dropped'
            PROVE  Planned(h)'
        BY DEF Remembered, LinkRests
      <3>2. InMap(h) /\ ~room[h].closed /\ R.cfg /\ ~R.closed /\ ~R.blocked
        BY <2>1, <2>3, <2>4, <3>1 DEF Wanted
      <3>3. CASE err # "ok"
        BY <3>3, <3>1, <3>2, <2>3, <2>4, <2>6 DEF Planned
      <3>4. CASE err = "ok"
        BY <3>4, <3>1, <3>2, <2>1, <2>3, <2>4 DEF HandleFits, LeaseFits, Ending, Planned
      <3>. QED  BY <3>3, <3>4
    <2>. QED  BY <2>2, <2>5, <2>7, <2>8
  <1>11. ASSUME NEW k \in Handles \ E PROVE OpFits(k)' /\ LeaseFits(k)' /\ HeldFits(k)' /\ Remembered(k)'
    <2>1. Counts(k) => relaySub'[RoomOf[k]] = relaySub[RoomOf[k]] /\ NoSubscribe(RoomOf[k])'
      BY MuxTypes, WireGoesOn DEF LinkRests
    <2>2. k \in told' <=> k \in told  BY DEF Ending
    <2>3. k \in dropped => k \in dropped'  BY DEF Ending
    <2>4. LoopsGo(k)  BY DEF Ending
    <2>5. (InMap(k)' <=> InMap(k)) /\ (disposed => disposed')
      BY DEF LinkRests, InMap
    <2>. QED  BY <1>2, <2>1, <2>2, <2>3, <2>4, <2>5, HandleKeeps DEF LinkRests, InMap
  <1>. QED  BY <1>8, <1>9, <1>10, <1>11, QuietKeeps

\* A restoration that awaited an operation goes on or ends with it; the handles it had
\* not seen are still to be seen or were left out.
LEMMA LoopsAfterFits ==
    ASSUME MuxInv, UNCHANGED rooms, NEW E, NEW err, NEW i \in Slots
    PROVE  LET L == LoopsAfter(E, err)[i]
           IN  /\ L \in Restoration
               /\ \A k \in Handles : loops[i] # NoLoop /\ k \notin loops[i].seen
                    => (L # NoLoop /\ k \notin L.seen) \/ k \in Unvisited(E, err) \/ ~InMap(k)'
  <1>1. loops[i] \in Restoration  BY DEF MuxInv, MuxShape
  <1>2. NoLoop \in Restoration  BY DEF NoLoop, Restoration
  <1>3. PICK s : s = [loops[i] EXCEPT !.at = "walk", !.on = NoHandle]  OBVIOUS
  <1>4. s \in Restoration /\ s # NoLoop /\ s.seen = loops[i].seen
    BY <1>1, <1>3 DEF Restoration, NoLoop
  <1>5. LoopsAfter(E, err)[i] = IF loops[i].at = "join" /\ loops[i].on \in E
            THEN IF op[loops[i].on].kind = "subscribe" /\ err # "ok" THEN NoLoop ELSE s
            ELSE loops[i]
    BY <1>3 DEF LoopsAfter
  <1>6. \A k \in Handles : InMap(k)' <=> InMap(k)  BY DEF InMap
  <1>. QED  BY <1>1, <1>2, <1>4, <1>5, <1>6 DEF Unvisited

\* One operation that ends, however it ends.
LEMMA EndOpsHolds ==
    ASSUME MuxInv, LinkRests, UNCHANGED authGen, NEW h \in Handles, op[h] # NoOp,
           NEW err \in {"ok", "transient", "terminal"}, EndOps({h}, err),
           refused' = refused \/ refused' = refused \cup {h},
           op[h].nonce # 0 => h \in refused' \/ Closing(RoomOf[h], op[h].nonce),
           err = "terminal" => h \in refused',
           err = "ok" => op[h].at = "replay" /\ op[h].gen = gen /\ link = "up"
    PROVE  MuxInv'
  <1>1. PICK E : E = {h}  OBVIOUS
  <1>2. loops' = LoopsAfter(E, err) /\ dropped' = dropped \cup Unvisited(E, err)
    BY <1>1 DEF EndOps
  <1>3. loops' \in [Slots -> Restoration] /\ \A k \in Handles : LoopsGo(k)
    <2>1. \A i \in Slots : /\ loops'[i] \in Restoration
                           /\ \A k \in Handles : loops[i] # NoLoop /\ k \notin loops[i].seen
                              => (loops'[i] # NoLoop /\ k \notin loops'[i].seen) \/ k \in dropped' \/ ~InMap(k)'
      BY <1>2, LoopsAfterFits DEF LinkRests
    <2>. QED  BY <2>1, <1>2 DEF LoopsAfter, LoopsGo
  <1>4. dropped \subseteq dropped' /\ dropped' \subseteq Handles
    BY <1>2 DEF Unvisited, MuxInv, MuxShape
  <1>5. refused \subseteq refused' /\ refused' \subseteq Handles
    BY DEF MuxInv, MuxShape
  <1>6. Ending(E, err)
    BY <1>1, <1>3, <1>4, <1>5 DEF Ending, EndOps
  <1>. QED  BY <1>6, EndingHolds

\* waitForConnect fails, a proof fails, an answer does not come, a replay is answered.
LEMMA OperationEnds ==
    ASSUME MuxInv, NEW h \in Handles, NEW err \in {"transient", "terminal"},
           \/ ConnectFails(h) \/ ProofFails(h, err) \/ AnswerLost(h) \/ Replayed(h)
           \/ Proof(h) /\ ~(Current(h) /\ link = "up")
    PROVE  MuxInv'
  <1>1. op[h] # NoOp /\ (op[h].at \in {"wait", "proof", "replay"} => op[h].nonce = 0)
    <2>1. OpFits(h)  BY MuxTypes DEF HandleFits
    <2>. QED  BY <2>1 DEF NoOp, OpFits, ConnectFails, ProofFails, AnswerLost, Replayed, Proof
  <1>2. faults' \in 0 .. MaxFaults
    <2>1. faults \in 0 .. MaxFaults /\ MaxFaults \in Nat  BY MuxTypes DEF MuxInv, MuxShape
    <2>. QED  BY <2>1 DEF Fault, ConnectFails, ProofFails, AnswerLost, Replayed, Proof
  <1>3. LinkRests /\ UNCHANGED authGen
    <2>1. auth \in [gen : Gens, at : {"none", "proof", "ack"}]  BY DEF MuxInv, MuxShape
    <2>2. UNCHANGED <<wire, relaySub>>
      BY DEF relayVars, ConnectFails, ProofFails, AnswerLost, Replayed, Proof, EndOps
    <2>. QED  BY <1>2, <2>1, <2>2, WireRests DEF LinkRests, linkVars, relayVars, ConnectFails, ProofFails, AnswerLost, Replayed, Proof
  <1>4. CASE ConnectFails(h)
    BY <1>1, <1>3, <1>4, EndOpsHolds DEF ConnectFails
  <1>5. CASE ProofFails(h, err)
    BY <1>1, <1>3, <1>5, EndOpsHolds DEF ProofFails
  <1>6. CASE AnswerLost(h)
    BY <1>1, <1>3, <1>6, EndOpsHolds DEF AnswerLost
  <1>7. CASE Replayed(h)
    BY <1>1, <1>3, <1>7, EndOpsHolds DEF Replayed
  <1>8. CASE Proof(h) /\ ~(Current(h) /\ link = "up")
    BY <1>1, <1>3, <1>8, EndOpsHolds DEF Proof
  <1>. QED  BY <1>4, <1>5, <1>6, <1>7, <1>8

\* An authentication fails: everyone who waits for it shares its end.
LEMMA AuthEndsHolds ==
    ASSUME MuxInv, NEW err \in {"transient", "terminal"},
           AuthProofFails(err) \/ (AuthTimeout /\ err = "transient")
    PROVE  MuxInv'
  <1>1. PICK E : E = Waiting  OBVIOUS
  <1>2. E \subseteq Handles /\ \A h \in E : op[h].at = "auth" /\ op[h] # NoOp /\ op[h].nonce = 0
    <2>1. \A h \in E : h \in Handles /\ op[h].at = "auth" /\ OpFits(h)
      BY <1>1, MuxTypes DEF Waiting, HandleFits
    <2>. QED  BY <2>1 DEF OpFits, NoOp
  <1>3. AuthEnds(err)
    BY DEF AuthProofFails, AuthTimeout
  <1>4. PICK dead : dead = {i \in Slots : loops[i].at = "auth"}  OBVIOUS
  <1>5. /\ auth' = NoAuth
        /\ told' = told \cup {h \in E : op[h].kind = "subscribe"}
        /\ loops' = [i \in Slots |-> IF i \in dead THEN NoLoop ELSE LoopsAfter(E, err)[i]]
        /\ dropped' = dropped \cup Unvisited(E, err)
                      \cup IF dead = {} THEN {} ELSE {h \in Handles : InMap(h)}
    BY <1>1, <1>3, <1>4 DEF AuthEnds
  <1>6. /\ UNCHANGED <<link, gen, authGen, rooms, un, relaySub, wire, disposed, online, notice>>
        /\ op' = [h \in Handles |-> IF h \in E THEN NoOp ELSE op[h]]
        /\ room' = [h \in Handles |-> IF h \in E THEN AfterOp(h, err) ELSE room[h]]
        /\ refused' = IF err = "terminal" THEN refused \cup E ELSE refused
    BY <1>1 DEF AuthProofFails, AuthTimeout, linkVars, relayVars
  <1>7. faults' \in 0 .. MaxFaults
    <2>1. faults \in 0 .. MaxFaults /\ MaxFaults \in Nat  BY MuxTypes DEF MuxInv, MuxShape
    <2>. QED  BY <2>1 DEF Fault, AuthProofFails, AuthTimeout
  <1>8. LinkRests
    <2>1. NoAuth \in [gen : Gens, at : {"none", "proof", "ack"}]  BY MuxTypes DEF NoAuth, Gens
    <2>. QED  BY <1>5, <1>6, <1>7, <2>1, WireRests DEF LinkRests
  <1>9. loops' \in [Slots -> Restoration] /\ \A k \in Handles : LoopsGo(k)
    <2>1. NoLoop \in Restoration  BY DEF NoLoop, Restoration
    <2>2. ASSUME NEW i \in Slots
          PROVE  /\ loops'[i] \in Restoration
                 /\ \A k \in Handles : loops[i] # NoLoop /\ k \notin loops[i].seen
                       => (loops'[i] # NoLoop /\ k \notin loops'[i].seen) \/ k \in dropped' \/ ~InMap(k)'
      <3>1. \A k \in Handles : InMap(k)' <=> InMap(k)  BY <1>6 DEF InMap
      <3>2. CASE i \in dead
        BY <3>1, <3>2, <2>1, <1>5
      <3>3. CASE i \notin dead
        <4>1. loops'[i] = LoopsAfter(E, err)[i]  BY <3>3, <1>5
        <4>. QED  BY <4>1, <1>5, <1>6, LoopsAfterFits
      <3>. QED  BY <3>2, <3>3
    <2>. QED  BY <2>2, <1>5 DEF LoopsGo
  <1>10. dropped \subseteq dropped' /\ dropped' \subseteq Handles /\ refused \subseteq refused' /\ refused' \subseteq Handles
    BY <1>2, <1>5, <1>6 DEF Unvisited, MuxInv, MuxShape
  <1>11. Ending(E, err)
    BY <1>2, <1>5, <1>6, <1>9, <1>10 DEF Ending
  <1>. QED  BY <1>6, <1>8, <1>11, EndingHolds

\* subscribeState enters with no nonce, and skips the authentication only on a
\* connection that is authenticated.
LEMMA EnterFits ==
    ASSUME MuxInv, NEW h \in Handles, NEW kind \in {"subscribe", "renew"}, Enter(h, kind)
    PROVE  /\ op' \in [Handles -> MuxOperation] /\ auth' \in [gen : Gens, at : {"none", "proof", "ack"}]
           /\ \A k \in Handles \ {h} : op'[k] = op[k]
           /\ op'[h] # NoOp /\ op'[h].kind = kind /\ op'[h].nonce = 0 /\ op'[h].gen = gen
           /\ op'[h].at \in {"wait", "auth", "proof"}
           /\ op'[h].at = "proof" => link = "up" /\ authGen = gen
  <1>1. PICK at : at = IF link # "up" THEN "wait" ELSE IF authGen = gen THEN "proof" ELSE "auth"  OBVIOUS
  <1>2. /\ op' = [op EXCEPT ![h] = [NoOp EXCEPT !.kind = kind, !.at = at, !.gen = gen]]
        /\ auth' = IF at = "auth" /\ auth = NoAuth THEN [gen |-> gen, at |-> "proof"] ELSE auth
    BY <1>1 DEF Enter
  <1>3. gen \in Gens /\ auth \in [gen : Gens, at : {"none", "proof", "ack"}] /\ op \in [Handles -> MuxOperation]
    BY DEF MuxInv, MuxShape
  <1>4. PICK o : o = [NoOp EXCEPT !.kind = kind, !.at = at, !.gen = gen]  OBVIOUS
  <1>5. /\ o \in MuxOperation /\ o # NoOp /\ o.kind = kind /\ o.nonce = 0 /\ o.gen = gen /\ o.at = at
    <2>1. o = [kind |-> kind, at |-> at, gen |-> gen, nonce |-> 0]  BY <1>4 DEF NoOp
    <2>2. 0 \in 0 .. MaxNonce  BY MuxTypes
    <2>. QED  BY <1>1, <1>3, <2>1, <2>2 DEF NoOp, MuxOperation
  <1>. QED  BY <1>1, <1>2, <1>3, <1>4, <1>5

\* What renewRoom leaves in a RoomState.
LEMMA RenewedFits ==
    ASSUME NEW h, NEW R \in MuxRoomState
    PROVE  LET S == Renewed(h, R)
           IN  /\ S \in MuxRoomState /\ S.made = R.made /\ S.closed = R.closed /\ S.cfg = R.cfg
               /\ S.blocked = R.blocked /\ S.nonce = R.nonce /\ S.lease = R.lease
               /\ S.timer = R.timer \/ S.timer = "retry"
               /\ ~Skips(h, R) => S.timer # "none" \/ Proceeds(h, R)
  <1>1. PICK s : s = ScheduleRetry(R)  OBVIOUS
  <1>2. /\ s \in MuxRoomState /\ s.made = R.made /\ s.closed = R.closed /\ s.cfg = R.cfg
        /\ s.blocked = R.blocked /\ s.nonce = R.nonce /\ s.lease = R.lease /\ s.timer = "retry"
    BY <1>1 DEF ScheduleRetry, MuxRoomState
  <1>3. PICK w : w = [ScheduleRetry(R) EXCEPT !.waiting = TRUE]  OBVIOUS
  <1>4. /\ w \in MuxRoomState /\ w.made = R.made /\ w.closed = R.closed /\ w.cfg = R.cfg
        /\ w.blocked = R.blocked /\ w.nonce = R.nonce /\ w.lease = R.lease /\ w.timer = "retry"
    BY <1>1, <1>2, <1>3 DEF MuxRoomState
  <1>5. Renewed(h, R) \in {R, s, w}
    BY <1>1, <1>3 DEF Renewed
  <1>6. ~Skips(h, R) => Renewed(h, R).timer # "none" \/ Proceeds(h, R)
    <2>1. CASE ~Skips(h, R) /\ R.backoff
      <3>1. Renewed(h, R) = IF R.timer = "none" THEN s ELSE R
        BY <1>1, <2>1 DEF Renewed
      <3>. QED  BY <3>1, <1>2
    <2>2. CASE ~Skips(h, R) /\ ~R.backoff /\ ~online
      <3>1. Renewed(h, R) = w  BY <1>3, <2>2 DEF Renewed
      <3>. QED  BY <3>1, <1>4
    <2>3. CASE ~Skips(h, R) /\ ~R.backoff /\ online
      BY <2>3 DEF Proceeds
    <2>. QED  BY <2>1, <2>2, <2>3
  <1>. QED  BY <1>2, <1>4, <1>5, <1>6

\* renewRoom on behalf of a timer, of the page or of a restoration.
Renewal(h, R) ==
    /\ R \in MuxRoomState /\ RenewRoom(h, R)
    /\ R.made = room[h].made /\ R.closed = room[h].closed /\ R.cfg = room[h].cfg
    /\ R.blocked = room[h].blocked /\ R.nonce = room[h].nonce /\ R.lease = room[h].lease
    /\ R.timer = room[h].timer \/ R.timer = "none"
    /\ link = "up" /\ InMap(h) /\ ~room[h].closed /\ op[h].at = "replay" /\ op[h].gen = gen
       => R.timer = room[h].timer \/ h \in dropped'
    /\ UNCHANGED <<link, gen, authGen, rooms, un, wire, relaySub, disposed, online, notice, faults, told, refused>>
    /\ dropped \subseteq dropped' /\ dropped' \subseteq Handles
    /\ loops' \in [Slots -> Restoration] /\ \A k \in Handles \ {h} : LoopsGo(k)
\* renewRoom keeps the invariant, whoever calls it.
LEMMA RenewalHolds ==
    ASSUME MuxInv, NEW h \in Handles, NEW R, Renewal(h, R)
    PROVE  MuxInv'
  <1>1. /\ room[h] \in MuxRoomState /\ op[h] \in MuxOperation /\ HandleFits(h) /\ R \in MuxRoomState
        /\ room \in [Handles -> MuxRoomState] /\ op \in [Handles -> MuxOperation]
    BY MuxTypes DEF MuxInv, MuxShape, Renewal
  <1>2. PICK S : S = Renewed(h, R)  OBVIOUS
  <1>3. /\ S \in MuxRoomState /\ S.made = room[h].made /\ S.closed = room[h].closed /\ S.cfg = room[h].cfg
        /\ S.blocked = room[h].blocked /\ S.nonce = room[h].nonce /\ S.lease = room[h].lease
        /\ S.timer = R.timer \/ S.timer = "retry"
        /\ ~Skips(h, R) => S.timer # "none" \/ Proceeds(h, R)
    BY <1>1, <1>2, RenewedFits DEF Renewal
  <1>4. /\ room' = [room EXCEPT ![h] = S] /\ room'[h] = S /\ \A k \in Handles \ {h} : room'[k] = room[k]
        /\ room' \in [Handles -> MuxRoomState]
    BY <1>1, <1>2, <1>3 DEF Renewal, RenewRoom
  <1>5. /\ op' \in [Handles -> MuxOperation] /\ auth' \in [gen : Gens, at : {"none", "proof", "ack"}]
        /\ \A k \in Handles \ {h} : op'[k] = op[k]
        /\ \/ op'[h] = op[h] /\ (Proceeds(h, R) => op[h] # NoOp)
           \/ /\ op[h] = NoOp /\ op'[h] # NoOp /\ op'[h].kind # "none" /\ op'[h].nonce = 0 /\ op'[h].gen = gen
              /\ op'[h].at \in {"wait", "auth", "proof"} /\ Proceeds(h, R)
              /\ op'[h].at = "proof" => link = "up" /\ authGen = gen
    <2>1. CASE Proceeds(h, R) /\ op[h] = NoOp
      BY <2>1, EnterFits DEF Renewal, RenewRoom
    <2>2. CASE ~(Proceeds(h, R) /\ op[h] = NoOp)
      BY <2>2, <1>1 DEF Renewal, RenewRoom, MuxInv, MuxShape
    <2>. QED  BY <2>1, <2>2
  <1>6. \A k \in Handles : InMap(k)' <=> InMap(k)
    BY DEF Renewal, InMap
  <1>7. MuxShape'
    BY <1>3, <1>4, <1>5, MuxTypes DEF MuxInv, MuxShape, Renewal
  <1>8. NoOp.nonce = 0 /\ NoOp.at = "none" /\ NoOp.kind = "none"  BY DEF NoOp
  <1>9. Quiet
    <2>1. Mild(h)  BY <1>1, <1>3, <1>4, <1>5, <1>8 DEF Mild
    <2>. QED  BY <2>1, <1>4, <1>5, WireRests DEF Quiet, Mild, Renewal
  <1>10. OpFits(h)' /\ LeaseFits(h)' /\ HeldFits(h)' /\ Remembered(h)'
    <2>1. OpFits(h)'
      <3>1. op'[h] # op[h] => InMap(h) /\ room[h].made
        BY <1>5, MuxTypes DEF Proceeds, Skips, InMap, MuxInv, MuxShape, Renewal
      <3>. QED  BY <3>1, <1>1, <1>3, <1>4, <1>5, MuxTypes DEF HandleFits, OpFits, Renewal
    <2>2. LeaseFits(h)'
      <3>1. op'[h].at = "replay" => op'[h] = op[h]  BY <1>5
      <3>2. R.timer = room[h].timer \/ R.timer = "none"  BY DEF Renewal
      <3>3. link = "up" /\ InMap(h) /\ ~room[h].closed /\ op[h].at = "replay" /\ op[h].gen = gen
            => S.lease = "fresh" /\ (S.timer # "none" \/ h \in dropped')
        <4>1. LeaseFits(h) /\ dropped \subseteq dropped'  BY <1>1 DEF HandleFits, Renewal
        <4>2. link = "up" /\ InMap(h) /\ ~room[h].closed /\ op[h].at = "replay" /\ op[h].gen = gen
               => R.timer = room[h].timer \/ h \in dropped'
          BY DEF Renewal
        <4>. QED  BY <4>1, <4>2, <1>3 DEF LeaseFits
      <3>4. LeaseFits(h)  BY <1>1 DEF HandleFits
      <3>. QED  BY <3>1, <3>3, <3>4, <1>3, <1>4, <1>6 DEF LeaseFits, Renewal
    <2>3. HeldFits(h)'
      <3>1. Counts(h)' => Counts(h)
        <4>1. Counts(h)' => op'[h] = op[h]
          BY <1>5 DEF Counts
        <4>. QED  BY <4>1, <1>3, <1>4, <1>6 DEF Counts, Renewal
      <3>2. NoSubscribe(RoomOf[h])' <=> NoSubscribe(RoomOf[h])
        BY DEF NoSubscribe, Renewal
      <3>3. HeldFits(h)  BY <1>1 DEF HandleFits
      <3>. QED  BY <3>1, <3>2, <3>3, <1>3, <1>4 DEF HeldFits, Renewal
    <2>4. Remembered(h)'
      <3>1. SUFFICES ASSUME ~disposed, Wanted(h)' PROVE op'[h] # NoOp \/ S.timer # "none"
        BY <1>4 DEF Remembered, Planned, Renewal
      <3>2. ~Skips(h, R)
        BY <1>3, <1>4, <1>6, <3>1 DEF Wanted, Skips, Renewal
      <3>. QED  BY <3>2, <1>3, <1>5
    <2>. QED  BY <2>1, <2>2, <2>3, <2>4
  <1>11. ASSUME NEW k \in Handles \ {h} PROVE OpFits(k)' /\ LeaseFits(k)' /\ HeldFits(k)' /\ Remembered(k)'
    <2>1. Counts(k) => relaySub'[RoomOf[k]] = relaySub[RoomOf[k]] /\ NoSubscribe(RoomOf[k])'
      BY WireRests DEF Renewal
    <2>2. op'[k] = op[k] /\ room'[k] = room[k] /\ (InMap(k)' <=> InMap(k)) /\ LoopsGo(k)
      BY <1>4, <1>5, <1>6 DEF Renewal
    <2>3. (k \in told' <=> k \in told) /\ (k \in dropped => k \in dropped') /\ (disposed => disposed')
          /\ UNCHANGED <<link, gen, authGen>>
      BY DEF Renewal
    <2>. QED  BY <2>1, <2>2, <2>3, HandleKeeps
  <1>. QED  BY <1>7, <1>9, <1>10, <1>11, QuietKeeps

\* Its callers: the timer of a handle, the page, a restoration.
LEMMA RenewsHolds ==
    ASSUME MuxInv, NEW h \in Handles, TimerFires(h) \/ RefreshRoom(h) \/ \E i \in Slots : LoopStep(i, h)
    PROVE  MuxInv'
  <1>1. room[h] \in MuxRoomState /\ LeaseFits(h)  BY MuxTypes DEF HandleFits
  <1>2. /\ dropped \subseteq Handles /\ loops \in [Slots -> Restoration]
    BY DEF MuxInv, MuxShape
  <1>3. CASE TimerFires(h)
    <2>1. PICK R : R = [room[h] EXCEPT !.timer = "none", !.backoff = FALSE]  OBVIOUS
    <2>2. /\ R \in MuxRoomState /\ R.made = room[h].made /\ R.closed = room[h].closed /\ R.cfg = room[h].cfg
          /\ R.blocked = room[h].blocked /\ R.nonce = room[h].nonce /\ R.lease = room[h].lease
          /\ R.timer = "none"
      BY <1>1, <2>1 DEF MuxRoomState
    <2>3. ~(link = "up" /\ InMap(h) /\ ~room[h].closed /\ op[h].at = "replay" /\ op[h].gen = gen)
      BY <1>1, <1>3 DEF TimerFires, LeaseFits
    <2>4. \A k \in Handles : LoopsGo(k)
      BY <1>3 DEF TimerFires, LoopsGo
    <2>5. Renewal(h, R)
      BY <1>2, <1>3, <2>1, <2>2, <2>3, <2>4 DEF TimerFires, Renewal, linkVars, relayVars, history
    <2>. QED  BY <2>5, RenewalHolds
  <1>4. CASE RefreshRoom(h)
    <2>1. PICK R : R = IF room[h].waiting
             THEN [room[h] EXCEPT !.timer = "none", !.backoff = FALSE, !.waiting = FALSE] ELSE room[h]  OBVIOUS
    <2>2. /\ R \in MuxRoomState /\ R.made = room[h].made /\ R.closed = room[h].closed /\ R.cfg = room[h].cfg
          /\ R.blocked = room[h].blocked /\ R.nonce = room[h].nonce /\ R.lease = room[h].lease
          /\ R.timer = room[h].timer \/ (R.timer = "none" /\ room[h].waiting)
      BY <1>1, <2>1 DEF MuxRoomState
    <2>3. /\ RenewRoom(h, R)
          /\ dropped' = IF room[h].waiting /\ op[h].at = "replay" THEN dropped \cup {h} ELSE dropped
          /\ UNCHANGED <<plan, linkVars, rooms, un, loops, relayVars, faults, told, refused>>
      BY <1>4, <2>1 DEF RefreshRoom
    <2>4. \A k \in Handles : LoopsGo(k)
      BY <2>3 DEF LoopsGo
    <2>5. Renewal(h, R)
      BY <1>2, <2>2, <2>3, <2>4 DEF Renewal, linkVars, relayVars
    <2>. QED  BY <2>5, RenewalHolds
  <1>5. ASSUME NEW i \in Slots, LoopStep(i, h) PROVE MuxInv'
    <2>1. PICK R : R = room[h]  OBVIOUS
    <2>2. PICK L : L = loops[i]  OBVIOUS
    <2>3. PICK M : M = IF Proceeds(h, R) THEN [L EXCEPT !.seen = @ \cup {h}, !.at = "join", !.on = h]
                       ELSE [L EXCEPT !.seen = @ \cup {h}]  OBVIOUS
    <2>4. L.at = "walk" /\ loops' = [loops EXCEPT ![i] = M] /\ RenewRoom(h, R)
          /\ UNCHANGED <<plan, linkVars, rooms, un, relayVars, faults, history>>
      BY <1>5, <2>1, <2>2, <2>3 DEF LoopStep
    <2>5. L \in Restoration  BY <1>2, <2>2
    <2>6. M \in Restoration /\ M # NoLoop /\ M.seen = L.seen \cup {h}
      BY <2>3, <2>4, <2>5 DEF Restoration, NoLoop
    <2>7. loops' \in [Slots -> Restoration]  BY <1>2, <2>4, <2>6
    <2>8. \A k \in Handles \ {h} : LoopsGo(k)
      BY <1>2, <2>2, <2>4, <2>6 DEF LoopsGo
    <2>9. Renewal(h, R)
      BY <1>1, <1>2, <2>1, <2>4, <2>7, <2>8 DEF Renewal, linkVars, relayVars, history
    <2>. QED  BY <2>9, RenewalHolds
  <1>. QED  BY <1>3, <1>4, <1>5

\* Steps that leave every operation and every RoomState but its lease as it is.
LEMMA IdleHolds ==
    ASSUME MuxInv, UNCHANGED <<link, gen, authGen, rooms, op, un, wire, relaySub, notice, told, dropped, refused>>,
           auth' \in [gen : Gens, at : {"none", "proof", "ack"}], faults' \in 0 .. MaxFaults,
           online' \in BOOLEAN, disposed' \in BOOLEAN, disposed => disposed',
           loops' \in [Slots -> Restoration], \A k \in Handles : LoopsGo(k),
           \/ UNCHANGED room
           \/ \E h \in Handles : /\ room' = [room EXCEPT ![h].lease = "due"]
                                 /\ room[h].lease = "fresh" /\ op[h].at # "replay"
    PROVE  MuxInv'
  <1>1. room \in [Handles -> MuxRoomState]  BY DEF MuxInv, MuxShape
  <1>2. /\ room' \in [Handles -> MuxRoomState]
        /\ \A k \in Handles : /\ room'[k].made = room[k].made /\ room'[k].closed = room[k].closed
                              /\ room'[k].cfg = room[k].cfg /\ room'[k].blocked = room[k].blocked
                              /\ room'[k].nonce = room[k].nonce /\ room'[k].timer = room[k].timer
                              /\ \/ room'[k].lease = room[k].lease
                                 \/ room'[k].lease = "due" /\ room[k].lease = "fresh" /\ op[k].at # "replay"
    <2>1. CASE UNCHANGED room  BY <1>1, <2>1
    <2>2. CASE ~UNCHANGED room
      <3>1. PICK h \in Handles : /\ room' = [room EXCEPT ![h].lease = "due"]
                                 /\ room[h].lease = "fresh" /\ op[h].at # "replay"
        BY <2>2
      <3>2. PICK R : R = [room[h] EXCEPT !.lease = "due"]  OBVIOUS
      <3>3. /\ R \in MuxRoomState /\ R.made = room[h].made /\ R.closed = room[h].closed
            /\ R.cfg = room[h].cfg /\ R.blocked = room[h].blocked
            /\ R.nonce = room[h].nonce /\ R.timer = room[h].timer /\ R.lease = "due"
        BY <1>1, <3>2 DEF MuxRoomState
      <3>4. room' = [room EXCEPT ![h] = R]  BY <3>1, <3>2
      <3>. QED  BY <1>1, <3>1, <3>3, <3>4
    <2>. QED  BY <2>1, <2>2
  <1>3. \A k \in Handles : InMap(k)' <=> InMap(k)  BY DEF InMap
  <1>4. MuxShape'
    BY <1>2, MuxTypes DEF MuxInv, MuxShape
  <1>5. Quiet
    BY <1>2, WireRests DEF Quiet, Mild
  <1>6. ASSUME NEW k \in Handles PROVE OpFits(k)' /\ LeaseFits(k)' /\ HeldFits(k)' /\ Remembered(k)'
    <2>1. HandleFits(k)  BY MuxTypes
    <2>2. OpFits(k)'  BY <1>2, <2>1 DEF HandleFits, OpFits
    <2>3. LeaseFits(k)'  BY <1>2, <1>3, <2>1 DEF HandleFits, LeaseFits
    <2>4. HeldFits(k)'
      <3>1. NoSubscribe(RoomOf[k])' <=> NoSubscribe(RoomOf[k])  BY DEF NoSubscribe
      <3>2. Counts(k)' => Counts(k)
        BY <1>2, <1>3 DEF Counts
      <3>. QED  BY <1>2, <2>1, <3>1, <3>2 DEF HandleFits, HeldFits
    <2>5. Remembered(k)'
      <3>1. Wanted(k)' => Wanted(k)  BY <1>2, <1>3 DEF Wanted
      <3>2. Planned(k) => Planned(k)' \/ k \in dropped' \/ ~InMap(k)'
        BY <1>2 DEF Planned, LoopsGo
      <3>3. Wanted(k)' => InMap(k)'  BY DEF Wanted
      <3>. QED  BY <2>1, <3>1, <3>2, <3>3 DEF HandleFits, Remembered
    <2>. QED  BY <2>2, <2>3, <2>4, <2>5
  <1>. QED  BY <1>4, <1>5, <1>6, QuietKeeps

\* The proof of an authentication, the browser going offline and online, disposing, a
\* lease that runs out and a restoration that ends: no operation is touched.
LEMMA IdlersHold ==
    ASSUME MuxInv,
           \/ AuthProof \/ GoOffline \/ GoOnline \/ Dispose
           \/ (\E h \in Handles : Lapse(h)) \/ (\E i \in Slots : LoopEnds(i))
    PROVE  MuxInv'
  <1>1. /\ loops \in [Slots -> Restoration] /\ auth \in [gen : Gens, at : {"none", "proof", "ack"}]
        /\ faults \in 0 .. MaxFaults /\ online \in BOOLEAN /\ disposed \in BOOLEAN /\ MaxFaults \in Nat
    BY MuxTypes DEF MuxInv, MuxShape
  <1>2. UNCHANGED loops => \A k \in Handles : LoopsGo(k)
    BY DEF LoopsGo
  <1>3. CASE AuthProof
    BY <1>1, <1>2, <1>3, IdleHolds DEF AuthProof, relayVars, history
  <1>4. CASE GoOffline
    <2>1. online' \in BOOLEAN  BY <1>4 DEF GoOffline
    <2>2. faults' \in 0 .. MaxFaults  BY <1>1, <1>4 DEF GoOffline, Fault
    <2>. QED  BY <1>1, <1>2, <1>4, <2>1, <2>2, IdleHolds DEF GoOffline, relayVars, history
  <1>5. CASE GoOnline
    <2>1. online' \in BOOLEAN  BY <1>5 DEF GoOnline
    <2>. QED  BY <1>1, <1>2, <1>5, <2>1, IdleHolds DEF GoOnline, relayVars, history
  <1>6. CASE Dispose
    <2>1. disposed' = TRUE /\ disposed' \in BOOLEAN  BY <1>6 DEF Dispose
    <2>2. faults' \in 0 .. MaxFaults  BY <1>1, <1>6 DEF Dispose, Fault
    <2>. QED  BY <1>1, <1>2, <1>6, <2>1, <2>2, IdleHolds DEF Dispose, relayVars, history
  <1>7. CASE \E h \in Handles : Lapse(h)
    <2>1. PICK h \in Handles : Lapse(h)  BY <1>7
    <2>2. \E k \in Handles : /\ room' = [room EXCEPT ![k].lease = "due"]
                            /\ room[k].lease = "fresh" /\ op[k].at # "replay"
      BY <2>1 DEF Lapse
    <2>3. UNCHANGED <<link, gen, authGen, online, disposed, auth, rooms, op, un, loops, wire, relaySub, notice,
                      faults, told, dropped, refused>>
      BY <2>1 DEF Lapse, linkVars, relayVars, history
    <2>. QED  BY <1>1, <1>2, <2>2, <2>3, IdleHolds
  <1>8. ASSUME NEW i \in Slots, LoopEnds(i) PROVE MuxInv'
    <2>1. NoLoop \in Restoration  BY DEF NoLoop, Restoration
    <2>2. /\ loops' \in [Slots -> Restoration]
          /\ UNCHANGED <<plan, linkVars, auth, rooms, room, op, un, relayVars, faults, history>>
      BY <1>1, <1>8, <2>1 DEF LoopEnds
    <2>3. \A k \in Handles : LoopsGo(k)
      <3>1. \A k \in Handles : InMap(k)' <=> InMap(k)  BY <2>2 DEF InMap
      <3>. QED  BY <1>1, <1>8, <3>1 DEF LoopEnds, LoopsGo
    <2>. QED  BY <1>1, <2>2, <2>3, IdleHolds DEF linkVars, relayVars, history
  <1>. QED  BY <1>3, <1>4, <1>5, <1>6, <1>7, <1>8

\* An operation starts, or goes on now that the socket is there; subscribe()
\* lifts a refusal and a back-off.
LEMMA EntersHolds ==
    ASSUME MuxInv, NEW h \in Handles, Subscribe(h) \/ Connected(h)
    PROVE  MuxInv'
  <1>1. /\ room[h] \in MuxRoomState /\ op[h] \in MuxOperation /\ HandleFits(h)
        /\ room \in [Handles -> MuxRoomState] /\ op \in [Handles -> MuxOperation]
        /\ auth \in [gen : Gens, at : {"none", "proof", "ack"}]
    BY MuxTypes DEF MuxInv, MuxShape
  <1>2. NoOp.nonce = 0 /\ NoOp.at = "none" /\ NoOp.kind = "none"  BY DEF NoOp
  <1>3. /\ UNCHANGED <<link, gen, authGen, online, disposed, rooms, un, loops, wire, relaySub, notice, faults, dropped, refused>>
    BY DEF Subscribe, Connected, linkVars, relayVars, history
  <1>4. PICK R : R = IF Subscribe(h) THEN [room[h] EXCEPT !.cfg = TRUE, !.blocked = FALSE,
                                                !.backoff = FALSE, !.waiting = FALSE] ELSE room[h]  OBVIOUS
  <1>5. /\ R \in MuxRoomState /\ R.made = room[h].made /\ R.closed = room[h].closed
        /\ R.nonce = room[h].nonce /\ R.lease = room[h].lease /\ R.timer = room[h].timer
    BY <1>1, <1>4 DEF MuxRoomState
  <1>6. room' = [room EXCEPT ![h] = R] /\ room'[h] = R /\ room' \in [Handles -> MuxRoomState]
        /\ \A k \in Handles \ {h} : room'[k] = room[k]
    <2>1. room' = [room EXCEPT ![h] = R]
      BY <1>1, <1>4 DEF Subscribe, Connected
    <2>. QED  BY <1>1, <1>5, <2>1
  <1>7. /\ op' \in [Handles -> MuxOperation] /\ auth' \in [gen : Gens, at : {"none", "proof", "ack"}]
        /\ told' \subseteq Handles
        /\ \A k \in Handles \ {h} : op'[k] = op[k] /\ (k \in told' <=> k \in told)
        /\ \/ op'[h] = op[h] /\ (op[h] = NoOp => h \in told') /\ (h \in told => h \in told')
           \/ /\ op[h].nonce = 0 /\ op'[h] # NoOp /\ op'[h].kind # "none" /\ op'[h].nonce = 0 /\ op'[h].gen = gen
              /\ op'[h].at \in {"wait", "auth", "proof"}
              /\ op'[h].at = "proof" => link = "up" /\ authGen = gen
    <2>1. CASE Connected(h)
      <3>1. op[h].at = "wait" /\ op[h].nonce = 0 /\ op[h].kind \in {"subscribe", "renew"} /\ Enter(h, op[h].kind)
            /\ told' = told
        BY <1>1, <1>2, <2>1 DEF Connected, HandleFits, OpFits, MuxOperation, history
      <3>. QED  BY <1>1, <3>1, EnterFits DEF MuxInv, MuxShape
    <2>2. CASE Subscribe(h) /\ op[h] = NoOp /\ ~disposed
      <3>1. Enter(h, "subscribe") /\ told' = told \ {h}
        BY <2>2 DEF Subscribe
      <3>. QED  BY <1>1, <1>2, <2>2, <3>1, EnterFits DEF MuxInv, MuxShape
    <2>3. CASE Subscribe(h) /\ ~(op[h] = NoOp /\ ~disposed)
      BY <1>1, <2>3 DEF Subscribe, MuxInv, MuxShape
    <2>. QED  BY <2>1, <2>2, <2>3
  <1>8. \A k \in Handles : InMap(k)' <=> InMap(k)  BY <1>3 DEF InMap
  <1>9. MuxShape'
    BY <1>3, <1>5, <1>6, <1>7, MuxTypes DEF MuxInv, MuxShape
  <1>10. Quiet
    BY <1>3, <1>5, <1>6, <1>7, WireRests DEF Quiet, Mild
  <1>11. OpFits(h)' /\ LeaseFits(h)' /\ HeldFits(h)' /\ Remembered(h)'
    <2>1. InMap(h) => room[h].made
      BY MuxTypes DEF InMap, MuxInv, MuxShape
    <2>2. op'[h] # op[h] => room[h].made
      BY <1>1, <1>2, <1>7, <2>1 DEF Subscribe, Connected, HandleFits, OpFits
    <2>3. OpFits(h)'
      BY <1>1, <1>3, <1>5, <1>6, <1>7, <2>2, MuxTypes DEF HandleFits, OpFits
    <2>4. LeaseFits(h)'
      BY <1>1, <1>3, <1>5, <1>6, <1>7, <1>8 DEF HandleFits, LeaseFits
    <2>5. HeldFits(h)'
      <3>1. NoSubscribe(RoomOf[h])' <=> NoSubscribe(RoomOf[h])  BY <1>3 DEF NoSubscribe
      <3>2. Counts(h)' => Counts(h)
        BY <1>2, <1>3, <1>5, <1>6, <1>7, <1>8 DEF Counts
      <3>. QED  BY <1>1, <1>3, <1>5, <1>6, <3>1, <3>2 DEF HandleFits, HeldFits
    <2>6. Remembered(h)'
      BY <1>7 DEF Remembered, Planned
    <2>. QED  BY <2>3, <2>4, <2>5, <2>6
  <1>12. ASSUME NEW k \in Handles \ {h} PROVE OpFits(k)' /\ LeaseFits(k)' /\ HeldFits(k)' /\ Remembered(k)'
    <2>1. LoopsGo(k)
      BY <1>3 DEF LoopsGo
    <2>2. Counts(k) => relaySub'[RoomOf[k]] = relaySub[RoomOf[k]] /\ NoSubscribe(RoomOf[k])'
      BY <1>3, WireRests
    <2>. QED  BY <1>3, <1>6, <1>7, <1>8, <2>1, <2>2, HandleKeeps
  <1>. QED  BY <1>9, <1>10, <1>11, <1>12, QuietKeeps

\* The relay acknowledges: those who waited go on to their proofs.
LEMMA AuthAcknowledgedHolds ==
    ASSUME MuxInv, AuthAcknowledged
    PROVE  MuxInv'
  <1>1. /\ UNCHANGED <<link, gen, online, disposed, rooms, room, un, wire, relaySub, notice, faults, told, dropped, refused>>
        /\ authGen' = gen /\ auth' = NoAuth
        /\ op' = [h \in Handles |-> IF h \in Waiting
                                THEN [op[h] EXCEPT !.at = "proof", !.gen = gen] ELSE op[h]]
        /\ loops' = [i \in Slots |-> IF loops[i].at = "auth"
                                 THEN [loops[i] EXCEPT !.at = "walk"] ELSE loops[i]]
    BY DEF AuthAcknowledged, relayVars, history
  <1>2. loops' \in [Slots -> Restoration] /\ \A k \in Handles : LoopsGo(k)
    <2>1. loops \in [Slots -> Restoration]  BY DEF MuxInv, MuxShape
    <2>2. ASSUME NEW i \in Slots
          PROVE  loops'[i] \in Restoration /\ loops'[i].seen = loops[i].seen /\ (loops[i] # NoLoop => loops'[i] # NoLoop)
      BY <1>1, <2>1 DEF Restoration, NoLoop
    <2>. QED  BY <1>1, <2>2 DEF LoopsGo
  <1>3. NoAuth \in [gen : Gens, at : {"none", "proof", "ack"}]  BY MuxTypes DEF NoAuth, Gens
  <1>4. ASSUME NEW h \in Handles
        PROVE  /\ op'[h] \in MuxOperation /\ op'[h].kind = op[h].kind /\ op'[h].nonce = op[h].nonce
               /\ \/ op'[h] = op[h]
                  \/ op[h].at = "auth" /\ op'[h].at = "proof" /\ op'[h].gen = gen /\ op'[h] # NoOp
    <2>1. op[h] \in MuxOperation /\ gen \in Gens  BY MuxTypes DEF MuxInv, MuxShape
    <2>. QED  BY <1>1, <2>1 DEF Waiting, MuxOperation, NoOp
  <1>5. \A k \in Handles : InMap(k)' <=> InMap(k)  BY <1>1 DEF InMap
  <1>6. MuxShape'
    <2>1. op' \in [Handles -> MuxOperation]  BY <1>1, <1>4
    <2>. QED  BY <1>1, <1>2, <1>3, <2>1 DEF MuxInv, MuxShape
  <1>7. Quiet
    <2>1. ASSUME NEW h \in Handles PROVE Mild(h)
      <3>1. OpFits(h)  BY MuxTypes DEF HandleFits
      <3>. QED  BY <1>1, <1>4, <3>1 DEF Mild, OpFits
    <2>. QED  BY <1>1, <2>1, WireRests DEF Quiet
  <1>8. ASSUME NEW k \in Handles PROVE OpFits(k)' /\ LeaseFits(k)' /\ HeldFits(k)' /\ Remembered(k)'
    <2>1. HandleFits(k)  BY MuxTypes
    <2>2. OpFits(k)'
      <3>1. OpFits(k) /\ gen \in Nat  BY <2>1, MuxTypes DEF HandleFits
      <3>2. CASE op'[k] = op[k]
        BY <1>1, <3>1, <3>2 DEF OpFits
      <3>3. CASE op'[k] # op[k]
        <4>1. /\ op[k].at = "auth" /\ op'[k].at = "proof" /\ op'[k].gen = gen /\ op'[k] # NoOp
              /\ op'[k].kind = op[k].kind /\ op'[k].nonce = op[k].nonce
          BY <1>4, <3>3
        <4>2. op[k] # NoOp  BY <4>1 DEF NoOp
        <4>3. /\ op[k].kind # "none" /\ room[k].made /\ op[k].nonce = 0
          BY <3>1, <4>1, <4>2 DEF OpFits
        <4>5. room' = room /\ gen' = gen /\ authGen' = gen'
          BY <1>1
        <4>6. gen <= gen  BY <3>1
        <4>4. room'[k].made /\ gen <= gen'
          BY <4>3, <4>5, <4>6
        <4>. QED  BY <4>1, <4>3, <4>4, <4>5 DEF OpFits
      <3>. QED  BY <3>2, <3>3
    <2>3. LeaseFits(k)'
      BY <1>1, <1>4, <1>5, <2>1 DEF HandleFits, LeaseFits
    <2>4. HeldFits(k)'
      <3>1. NoSubscribe(RoomOf[k])' <=> NoSubscribe(RoomOf[k])  BY <1>1 DEF NoSubscribe
      <3>2. Counts(k)' => Counts(k)
        BY <1>1, <1>4, <1>5 DEF Counts, NoOp
      <3>. QED  BY <1>1, <2>1, <3>1, <3>2 DEF HandleFits, HeldFits
    <2>5. Remembered(k)'
      <3>1. Wanted(k)' => Wanted(k) /\ InMap(k)'  BY <1>1, <1>5 DEF Wanted
      <3>2. Planned(k) => Planned(k)' \/ k \in dropped' \/ ~InMap(k)'
        BY <1>1, <1>2, <1>4 DEF Planned, LoopsGo
      <3>. QED  BY <1>1, <2>1, <3>1, <3>2 DEF HandleFits, Remembered
    <2>. QED  BY <2>2, <2>3, <2>4, <2>5
  <1>. QED  BY <1>6, <1>7, <1>8, QuietKeeps

\* The socket is lost: what was on its way, what the relay held and every lease go
\* with it.
LEMMA LostHolds ==
    ASSUME MuxInv, NEW next \in {"down", "ended"}, Lost(next), UNCHANGED <<gen, rooms, online, disposed, refused>>,
           auth' \in [gen : Gens, at : {"none", "proof", "ack"}], faults' \in 0 .. MaxFaults,
           loops' \in [Slots -> Restoration], told' \subseteq Handles, dropped' \subseteq Handles,
           room' \in [Handles -> MuxRoomState], op' \in [Handles -> MuxOperation],
           \A h \in Handles : /\ room'[h].made = room[h].made /\ room'[h].closed = room[h].closed
                              /\ room'[h].nonce = 0 /\ room'[h].lease = "none"
                              /\ op'[h] = NoOp \/ op'[h] = Unanswered(op[h])
    PROVE  MuxInv'
  <1>1. /\ link' = next /\ authGen' = 0 /\ wire' = [r \in Rooms |-> <<>>]
        /\ relaySub' = [r \in Rooms |-> 0] /\ notice' = [r \in Rooms |-> 0]
        /\ un' = {[u EXCEPT !.st = "sent"] : u \in un}
    BY DEF Lost
  <1>2. un' \subseteq [h : Handles, nonce : Nonces, gen : Gens, st : {"sent", "ok", "no"}]
    <2>1. ASSUME NEW u \in un
          PROVE  [u EXCEPT !.st = "sent"] \in [h : Handles, nonce : Nonces, gen : Gens, st : {"sent", "ok", "no"}]
      <3>1. u \in [h : Handles, nonce : Nonces, gen : Gens, st : {"sent", "ok", "no"}]
        BY DEF MuxInv, MuxShape
      <3>. QED  BY <3>1
    <2>. QED  BY <1>1, <2>1
  <1>3. relaySub' \in [Rooms -> 0 .. MaxNonce] /\ notice' \in [Rooms -> 0 .. MaxNonce]
    BY <1>1, MuxTypes
  <1>4. wire' \in [Rooms -> Seq(MuxMessage)]  BY <1>1
  <1>5. MuxShape'
    BY <1>1, <1>2, <1>3, <1>4, MuxTypes DEF MuxInv, MuxShape
  <1>6. NoOp.nonce = 0 /\ NoOp.at = "none" /\ NoOp.gen = 0  BY DEF NoOp
  <1>7. ASSUME NEW h \in Handles
        PROVE  \/ op'[h] = NoOp
               \/ /\ op'[h].nonce = op[h].nonce /\ op'[h].gen = op[h].gen /\ op'[h].kind = op[h].kind
                  /\ op'[h].at = (IF op[h].at = "granted" THEN "ack" ELSE op[h].at)
                  /\ op[h] = NoOp => op'[h] = NoOp
    <2>1. op[h] \in MuxOperation  BY MuxTypes
    <2>2. CASE op'[h] = Unanswered(op[h])
      <3>1. Unanswered(NoOp) = NoOp  BY <1>6 DEF Unanswered
      <3>. QED  BY <2>1, <2>2, <3>1 DEF Unanswered, MuxOperation
    <2>. QED  BY <2>2
  <1>8. ASSUME NEW h \in Handles PROVE HandleFits(h)'
    <2>1. HandleFits(h) /\ gen \in Nat /\ op[h].nonce \in Nat  BY MuxTypes DEF MuxOperation
    <2>2. OpFits(h)'
      BY <1>1, <1>6, <1>7, <2>1 DEF HandleFits, OpFits
    <2>3. LeaseFits(h)'
      BY <1>1 DEF LeaseFits
    <2>4. HeldFits(h)' /\ Remembered(h)'
      BY <1>1 DEF HeldFits, Counts, Remembered
    <2>5. GrantFits(h)'
      BY <1>6, <1>7 DEF GrantFits
    <2>6. NonceFits(h)'
      BY <1>6, <1>7, <2>1 DEF HandleFits, NonceFits, Of
    <2>7. Unstuck(h)'
      <3>1. SUFFICES ASSUME InMap(h), room[h].closed, h \notin refused PROVE \E u \in un' : u.h = h
        BY DEF Unstuck, InMap
      <3>2. PICK u \in un : u.h = h  BY <2>1, <3>1 DEF HandleFits, Unstuck
      <3>3. [u EXCEPT !.st = "sent"] \in un' /\ [u EXCEPT !.st = "sent"].h = h
        BY <1>1, <3>2 DEF MuxInv, MuxShape
      <3>. QED  BY <3>3
    <2>. QED  BY <2>2, <2>3, <2>4, <2>5, <2>6, <2>7 DEF HandleFits
  <1>9. \A r \in Rooms : Accountable(r)' /\ WireFits(r)'
    BY <1>1 DEF Accountable, WireFits
  <1>10. \A u \in un' : GoodbyeFits(u)'
    <2>1. ASSUME NEW u \in un' PROVE u.gen <= gen /\ u.st = "sent"
      <3>1. PICK v \in un : u = [v EXCEPT !.st = "sent"]  BY <1>1
      <3>. QED  BY <3>1, MuxTypes DEF GoodbyeFits, MuxInv, MuxShape
    <2>. QED  BY <1>1, <2>1 DEF GoodbyeFits
  <1>. QED  BY <1>5, <1>8, <1>9, <1>10 DEF MuxInv

\* clearing a RoomState ends its lease and its nonce, and does not reopen it.
LEMMA ClearedFits ==
    ASSUME NEW R \in MuxRoomState, MaxNonce \in Nat
    PROVE  /\ Cleared(R) \in MuxRoomState /\ Cleared(R).made = R.made /\ Cleared(R).closed = R.closed
           /\ Cleared(R).nonce = 0 /\ Cleared(R).lease = "none"
  <1>1. 0 \in 0 .. MaxNonce  OBVIOUS
  <1>. QED  BY <1>1 DEF Cleared, MuxRoomState

\* The ways the socket is lost: the network, the end of disposing, and the relay
\* refusing the authentication.
LEMMA DisconnectsHold ==
    ASSUME MuxInv, Disconnect \/ DisposeEnds \/ \E stale \in BOOLEAN : RelayRefusesAuth(stale)
    PROVE  MuxInv'
  <1>1. /\ loops \in [Slots -> Restoration] /\ auth \in [gen : Gens, at : {"none", "proof", "ack"}]
        /\ faults \in 0 .. MaxFaults /\ MaxFaults \in Nat /\ MaxNonce \in Nat
        /\ told \subseteq Handles /\ dropped \subseteq Handles
    BY MuxTypes DEF MuxInv, MuxShape
  <1>2. ASSUME NEW h \in Handles
        PROVE  /\ ClearedRoom(h) \in MuxRoomState /\ ClearedRoom(h).made = room[h].made
               /\ ClearedRoom(h).closed = room[h].closed
               /\ ClearedRoom(h).nonce = 0 /\ ClearedRoom(h).lease = "none"
               /\ Unanswered(op[h]) \in MuxOperation
    <2>1. room[h] \in MuxRoomState /\ op[h] \in MuxOperation /\ LeaseFits(h)  BY MuxTypes DEF HandleFits
    <2>2. Unanswered(op[h]) \in MuxOperation  BY <2>1 DEF Unanswered, MuxOperation
    <2>. QED  BY <1>1, <2>1, <2>2, ClearedFits DEF ClearedRoom, LeaseFits
  <1>3. CASE Disconnect
    <2>1. faults' \in 0 .. MaxFaults  BY <1>1, <1>3 DEF Disconnect, Fault
    <2>2. /\ Lost("down") /\ UNCHANGED <<gen, auth, rooms, loops, online, disposed, told, dropped, refused>>
          /\ room' = [h \in Handles |-> ClearedRoom(h)] /\ op' = [h \in Handles |-> Unanswered(op[h])]
      BY <1>3 DEF Disconnect, history
    <2>. QED  BY <1>1, <1>2, <2>1, <2>2, LostHolds
  <1>4. CASE DisposeEnds
    <2>1. /\ Lost("ended") /\ UNCHANGED <<gen, auth, rooms, loops, online, disposed, faults, told, dropped, refused>>
          /\ room' = [h \in Handles |-> ClearedRoom(h)] /\ op' = [h \in Handles |-> Unanswered(op[h])]
      BY <1>4 DEF DisposeEnds, history
    <2>. QED  BY <1>1, <1>2, <2>1, LostHolds
  <1>5. ASSUME NEW stale \in BOOLEAN, RelayRefusesAuth(stale) PROVE MuxInv'
    <2>1. faults' \in 0 .. MaxFaults  BY <1>1, <1>5 DEF RelayRefusesAuth, Fault
    <2>2. /\ Lost("ended") /\ UNCHANGED <<gen, rooms, online, disposed, refused>>
      BY <1>5 DEF RelayRefusesAuth
    <2>3. CASE auth.at = "ack" /\ (auth.gen # gen \/ ~backlog)
      <3>1. /\ AuthEnds("transient")
            /\ op' = [h \in Handles |-> IF h \in Waiting THEN NoOp ELSE Unanswered(op[h])]
            /\ room' = [h \in Handles |-> IF h \in Waiting
                          THEN Cleared(AfterOp(h, "transient")) ELSE ClearedRoom(h)]
        BY <1>5, <2>3 DEF RelayRefusesAuth
      <3>2. PICK dead : dead = {i \in Slots : loops[i].at = "auth"}  OBVIOUS
      <3>3. PICK E : E = Waiting  OBVIOUS
      <3>4. /\ auth' = NoAuth
            /\ told' = told \cup {h \in E : op[h].kind = "subscribe"}
            /\ loops' = [i \in Slots |-> IF i \in dead THEN NoLoop ELSE LoopsAfter(E, "transient")[i]]
            /\ dropped' = dropped \cup Unvisited(E, "transient")
                      \cup IF dead = {} THEN {} ELSE {h \in Handles : InMap(h)}
        BY <3>1, <3>2, <3>3 DEF AuthEnds
      <3>5. NoAuth \in [gen : Gens, at : {"none", "proof", "ack"}] /\ NoLoop \in Restoration
            /\ NoOp \in MuxOperation
        BY MuxTypes DEF NoAuth, Gens, NoLoop, Restoration, NoOp, MuxOperation
      <3>6. loops' \in [Slots -> Restoration]
        BY <2>2, <3>4, <3>5, LoopsAfterFits
      <3>7. told' \subseteq Handles /\ dropped' \subseteq Handles
        BY <1>1, <3>3, <3>4 DEF Waiting, Unvisited
      <3>8. ASSUME NEW h \in Handles
            PROVE  /\ room'[h] \in MuxRoomState /\ op'[h] \in MuxOperation
                   /\ room'[h].made = room[h].made /\ room'[h].closed = room[h].closed
                   /\ room'[h].nonce = 0 /\ room'[h].lease = "none"
                   /\ op'[h] = NoOp \/ op'[h] = Unanswered(op[h])
        <4>1. CASE h \in Waiting
          <5>1. PICK R : R = AfterOp(h, "transient")  OBVIOUS
          <5>2. R \in MuxRoomState /\ R.made = room[h].made /\ R.closed = room[h].closed
            BY <5>1, AfterOpFits
          <5>3. room'[h] = Cleared(R) /\ op'[h] = NoOp  BY <3>1, <4>1, <5>1
          <5>. QED  BY <1>1, <3>5, <5>2, <5>3, ClearedFits
        <4>2. CASE h \notin Waiting
          BY <1>2, <3>1, <4>2
        <4>. QED  BY <4>1, <4>2
      <3>9. room' \in [Handles -> MuxRoomState] /\ op' \in [Handles -> MuxOperation]
        BY <3>1, <3>8
      <3>. QED  BY <2>1, <2>2, <3>4, <3>5, <3>6, <3>7, <3>8, <3>9, LostHolds
    <2>4. CASE ~(auth.at = "ack" /\ (auth.gen # gen \/ ~backlog))
      <3>1. /\ UNCHANGED <<auth, loops, told, dropped>>
            /\ room' = [h \in Handles |-> ClearedRoom(h)] /\ op' = [h \in Handles |-> Unanswered(op[h])]
        BY <1>5, <2>4 DEF RelayRefusesAuth
      <3>. QED  BY <1>1, <1>2, <2>1, <2>2, <3>1, LostHolds
    <2>. QED  BY <2>3, <2>4
  <1>. QED  BY <1>3, <1>4, <1>5

\* Connected again, under a new number: a restoration will reach every room.
LEMMA ConnectHolds ==
    ASSUME MuxInv, Connect
    PROVE  MuxInv'
  <1>1. /\ link = "down" /\ link' = "up" /\ gen' = gen + 1 /\ gen <= MaxFaults /\ authGen' = 0
        /\ UNCHANGED <<rooms, room, op, un, online, disposed, wire, relaySub, notice, faults, told, dropped, refused>>
    BY DEF Connect, relayVars, history
  <1>2. gen \in Nat /\ gen' \in Gens /\ gen' \in Nat
    BY <1>1, MuxTypes DEF Gens
  <1>3. /\ loops' \in [Slots -> Restoration] /\ auth' \in [gen : Gens, at : {"none", "proof", "ack"}]
        /\ disposed \/ (\A r \in Rooms : rooms[r] = NoHandle)
              \/ \E i \in Slots : loops'[i] # NoLoop /\ loops'[i].seen = {}
    <2>1. loops \in [Slots -> Restoration] /\ auth \in [gen : Gens, at : {"none", "proof", "ack"}]
      BY DEF MuxInv, MuxShape
    <2>2. CASE disposed \/ \A r \in Rooms : rooms[r] = NoHandle
      BY <2>1, <2>2 DEF Connect
    <2>3. CASE ~(disposed \/ \A r \in Rooms : rooms[r] = NoHandle)
      <3>1. PICK i \in FreeSlot :
              /\ loops' = [loops EXCEPT ![i] = [NoLoop EXCEPT !.at = "auth"]]
              /\ auth' = IF auth = NoAuth THEN [gen |-> gen + 1, at |-> "proof"] ELSE auth
        BY <2>3 DEF Connect
      <3>2. PICK L : L = [NoLoop EXCEPT !.at = "auth"]  OBVIOUS
      <3>3. L \in Restoration /\ L # NoLoop /\ L.seen = {}
        BY <3>2 DEF NoLoop, Restoration
      <3>4. i \in Slots  BY DEF FreeSlot
      <3>. QED  BY <1>1, <1>2, <2>1, <3>1, <3>2, <3>3, <3>4
    <2>. QED  BY <2>2, <2>3
  <1>4. \A k \in Handles : InMap(k)' <=> InMap(k)  BY <1>1 DEF InMap
  <1>5. MuxShape'
    BY <1>1, <1>2, <1>3 DEF MuxInv, MuxShape
  <1>6. ASSUME NEW h \in Handles PROVE HandleFits(h)'
    <2>1. HandleFits(h) /\ op[h].gen \in Nat  BY MuxTypes DEF MuxOperation, Gens
    <2>2. room[h].nonce = 0 /\ room[h].lease = "none"
      BY <1>1, <2>1 DEF HandleFits, LeaseFits
    <2>3. op[h].gen <= gen /\ op[h].gen # gen' /\ op[h].at # "granted"
      BY <1>1, <1>2, <2>1 DEF HandleFits, OpFits
    <2>4. OpFits(h)'
      BY <1>1, <1>2, <2>1, <2>3 DEF HandleFits, OpFits
    <2>5. LeaseFits(h)' /\ HeldFits(h)' /\ GrantFits(h)'
      BY <1>1, <2>2, <2>3 DEF LeaseFits, HeldFits, Counts, GrantFits
    <2>6. NonceFits(h)' /\ Unstuck(h)'
      BY <1>1, <1>4, <2>1 DEF HandleFits, NonceFits, Unstuck
    <2>7. Remembered(h)'
      <3>1. InMap(h) => rooms[RoomOf[h]] # NoHandle /\ RoomOf[h] \in Rooms
        BY MuxTypes DEF InMap
      <3>. QED  BY <1>1, <1>3, <1>4, <3>1 DEF Remembered, Wanted, Planned
    <2>. QED  BY <2>4, <2>5, <2>6, <2>7 DEF HandleFits
  <1>7. \A r \in Rooms : Accountable(r)' /\ WireFits(r)'
    <2>1. \A r \in Rooms : wire'[r] = <<>> /\ relaySub'[r] = 0
      BY <1>1 DEF MuxInv, MuxShape
    <2>. QED  BY <2>1 DEF Accountable, WireFits
  <1>8. ASSUME NEW u \in un PROVE GoodbyeFits(u)'
    <2>1. GoodbyeFits(u) /\ u.gen \in Nat  BY MuxTypes DEF MuxInv, MuxShape, Gens
    <2>. QED  BY <1>1, <1>2, <2>1 DEF GoodbyeFits
  <1>. QED  BY <1>1, <1>5, <1>6, <1>7, <1>8 DEF MuxInv

\* A step about one room leaves the others as they are.
Elsewhere(r) ==
    /\ UNCHANGED <<link, gen, authGen, disposed, loops>> /\ refused \subseteq refused'
    /\ \A s \in Rooms \ {r} : wire'[s] = wire[s] /\ relaySub'[s] = relaySub[s] /\ rooms'[s] = rooms[s]
    /\ \A k \in Handles : RoomOf[k] # r =>
          /\ op'[k] = op[k] /\ room'[k] = room[k]
          /\ (k \in told' <=> k \in told) /\ (k \in dropped => k \in dropped')
    /\ \A u \in un' : RoomOf[u.h] # r => u \in un
    /\ \A u \in un : RoomOf[u.h] # r => u \in un' \/ u.h \in refused'
\* A step about one room keeps the invariant if it keeps what is said of that room.
LEMMA ElsewhereKeeps ==
    ASSUME MuxInv, MuxShape', NEW r \in Rooms, Elsewhere(r),
           \A h \in Of(r) : HandleFits(h)', Accountable(r)', WireFits(r)',
           \A u \in un' : RoomOf[u.h] = r => GoodbyeFits(u)'
    PROVE  MuxInv'
  <1>1. \A s \in Rooms \ {r} : MildRoom(s)
    <2> SUFFICES ASSUME NEW s \in Rooms \ {r} PROVE MildRoom(s)
      OBVIOUS
    <2>1. \A h \in Of(s) : op'[h] = op[h] /\ room'[h] = room[h]
      BY DEF Of, Elsewhere
    <2>. QED  BY <2>1 DEF MildRoom, WireGoes, Mild, Elsewhere
  <1>2. ASSUME NEW k \in Handles, RoomOf[k] # r PROVE HandleFits(k)'
    <2>1. RoomOf[k] \in Rooms \ {r} /\ k \in Of(RoomOf[k]) /\ HandleFits(k)  BY <1>2, MuxTypes
    <2>2. NonceFits(k)' /\ GrantFits(k)'  BY <1>1, <2>1, RoomKeeps
    <2>3. InMap(k)' <=> InMap(k)  BY <2>1 DEF InMap, Elsewhere
    <2>4. Counts(k) => relaySub'[RoomOf[k]] = relaySub[RoomOf[k]] /\ NoSubscribe(RoomOf[k])'
      BY <1>1, <2>1, WireGoesOn DEF MildRoom
    <2>5. LoopsGo(k)  BY DEF LoopsGo, Elsewhere
    <2>6. OpFits(k)' /\ LeaseFits(k)' /\ HeldFits(k)' /\ Remembered(k)'
      BY <1>2, <2>3, <2>4, <2>5, HandleKeeps DEF Elsewhere
    <2>7. Unstuck(k)'
      <3>1. room'[k] = room[k]  BY <1>2 DEF Elsewhere
      <3>2. \A u \in un : u.h = k => u \in un' \/ k \in refused'
        BY <1>2 DEF Elsewhere
      <3>. QED  BY <2>1, <2>3, <3>1, <3>2 DEF Unstuck, HandleFits, Elsewhere
    <2>. QED  BY <2>2, <2>6, <2>7 DEF HandleFits
  <1>3. \A s \in Rooms \ {r} : Accountable(s)' /\ WireFits(s)'
    BY <1>1, RoomKeeps
  <1>4. ASSUME NEW u \in un', RoomOf[u.h] # r PROVE GoodbyeFits(u)'
    <2>1. u \in un /\ RoomOf[u.h] \in Rooms \ {r}
      BY <1>4, MuxTypes DEF Elsewhere
    <2>. QED  BY <1>1, <2>1, RoomKeeps
  <1>5. \A h \in Handles : RoomOf[h] = r => h \in Of(r)  BY DEF Of
  <1>. QED  BY <1>2, <1>3, <1>4, <1>5 DEF MuxInv

\* The request that arrives.
LEMMA Arrival ==
    ASSUME MuxInv, NEW r \in Rooms, NEW what, Arrives(r, what)
    PROVE  LET q == Head(wire[r])
           IN  /\ wire[r] # <<>> /\ 1 \in DOMAIN wire[r] /\ q = wire[r][1] /\ q.what = what
               /\ wire'[r] = Tail(wire[r]) /\ wire' \in [Rooms -> Seq(MuxMessage)]
               /\ \A s \in Rooms \ {r} : wire'[s] = wire[s]
               /\ \A i \in DOMAIN wire'[r] : i \in Nat /\ i # 0 /\ i + 1 \in DOMAIN wire[r] /\ wire'[r][i] = wire[r][i + 1]
               /\ q \in MuxMessage /\ MessageFits(r, 1) /\ q.nonce # 0 /\ q.nonce \in Nonces
               /\ q.h \in Handles /\ RoomOf[q.h] = r /\ q.h \in Of(r) /\ link = "up"
               /\ what # "unsubscribe" => \A i \in DOMAIN wire'[r] : wire'[r][i].nonce # q.nonce
  <1>1. /\ wire[r] # <<>> /\ Head(wire[r]).what = what /\ wire' = [wire EXCEPT ![r] = Tail(wire[r])]
        /\ wire \in [Rooms -> Seq(MuxMessage)] /\ (link # "up" => wire[r] = <<>>)
    BY DEF Arrives, MuxInv, MuxShape
  <1>2. /\ 1 \in DOMAIN wire[r] /\ Head(wire[r]) = wire[r][1] /\ Tail(wire[r]) \in Seq(MuxMessage)
        /\ \A i \in DOMAIN Tail(wire[r]) : i \in Nat /\ i # 0 /\ i + 1 \in DOMAIN wire[r] /\ Tail(wire[r])[i] = wire[r][i + 1]
    BY <1>1, FrontRequest
  <1>3. PICK q : q = wire[r][1]  OBVIOUS
  <1>4. /\ q \in MuxMessage /\ MessageFits(r, 1) /\ q.nonce # 0
        /\ q.h \in Handles /\ RoomOf[q.h] = r /\ q.h \in Of(r)
    BY <1>2, <1>3, MessageHas
  <1>5. q.nonce \in Nonces  BY <1>4 DEF MuxMessage
  <1>6. ASSUME what # "unsubscribe", NEW i \in DOMAIN Tail(wire[r]) PROVE Tail(wire[r])[i].nonce # q.nonce
    <2>1. q.what # "unsubscribe"  BY <1>1, <1>2, <1>3, <1>6
    <2>2. \A j \in DOMAIN wire[r] : j # 1 => wire[r][j].nonce # q.nonce
      BY <1>3, <1>4, <2>1 DEF MessageFits
    <2>3. i \in Nat /\ i # 0 /\ i + 1 \in DOMAIN wire[r] /\ Tail(wire[r])[i] = wire[r][i + 1]  BY <1>2
    <2>. QED  BY <2>2, <2>3
  <1>7. /\ wire'[r] = Tail(wire[r]) /\ wire' \in [Rooms -> Seq(MuxMessage)]
        /\ \A s \in Rooms \ {r} : wire'[s] = wire[s]
    BY <1>1, <1>2
  <1>. QED  BY <1>1, <1>2, <1>3, <1>4, <1>5, <1>6, <1>7

\* The relay refuses a subscription: it holds nothing new, and the operation ends.
LEMMA RelayRefusesHolds ==
    ASSUME MuxInv, NEW r \in Rooms, RelayRefuses(r)
    PROVE  MuxInv'
  <1>1. PICK h : h = Head(wire[r]).h  OBVIOUS
  <1>2. Arrives(r, "subscribe")  BY DEF RelayRefuses
  <1>3. h \in Handles /\ op[h].at = "ack" /\ op[h] # NoOp
    BY <1>1, <1>2, Arrival DEF RelayRefuses, Awaited, NoOp
  <1>4. /\ EndOps({h}, "terminal") /\ refused' = refused \cup {h}
        /\ UNCHANGED <<plan, linkVars, auth, rooms, un, relaySub, notice>>
    BY <1>1 DEF RelayRefuses
  <1>5. LinkRests /\ UNCHANGED authGen
    <2>1. \A s \in Rooms : WireGoes(s)
      BY <1>2, <1>4, Arrival DEF WireGoes
    <2>2. wire' = [s \in Rooms |-> wire'[s]] /\ relaySub' = [s \in Rooms |-> relaySub'[s]]
      BY <1>2, <1>4, Arrival DEF MuxInv, MuxShape
    <2>3. faults' \in 0 .. MaxFaults
      <3>1. faults \in 0 .. MaxFaults /\ MaxFaults \in Nat  BY MuxTypes DEF MuxInv, MuxShape
      <3>. QED  BY <3>1 DEF Fault, RelayRefuses
    <2>4. auth \in [gen : Gens, at : {"none", "proof", "ack"}]  BY DEF MuxInv, MuxShape
    <2>. QED  BY <1>4, <2>1, <2>2, <2>3, <2>4 DEF LinkRests, linkVars
  <1>. QED  BY <1>3, <1>4, <1>5, EndOpsHolds

\* The unsubscription that takes back a grant nobody waits for is answered, and the
\* operation ends with nothing held for its nonce.
LEMMA UndoneHolds ==
    ASSUME MuxInv, NEW r \in Rooms, Undone(r)
    PROVE  MuxInv'
  <1>1. PICK q : q = Head(wire[r])  OBVIOUS
  <1>2. Arrives(r, "undo")  BY DEF Undone
  <1>3. /\ relaySub' = [relaySub EXCEPT ![r] = IF @ = q.nonce THEN 0 ELSE @]
        /\ \/ op[q.h].at = "undo" /\ EndOps({q.h}, "transient")
           \/ op[q.h].at # "undo" /\ UNCHANGED <<op, room, loops, told, dropped>>
        /\ UNCHANGED <<plan, linkVars, auth, rooms, un, notice, faults, refused>>
    BY <1>1 DEF Undone
  <1>4. /\ q = wire[r][1] /\ q.what = "undo" /\ MessageFits(r, 1) /\ q.nonce # 0 /\ q.nonce \in Nonces
        /\ q.h \in Handles /\ RoomOf[q.h] = r /\ q.h \in Of(r)
        /\ \A i \in DOMAIN wire'[r] : wire'[r][i].nonce # q.nonce
        /\ wire' \in [Rooms -> Seq(MuxMessage)]
    BY <1>1, <1>2, Arrival
  <1>5. relaySub \in [Rooms -> 0 .. MaxNonce] /\ MaxNonce \in Nat  BY MuxTypes DEF MuxInv, MuxShape
  <1>6. relaySub' \in [Rooms -> 0 .. MaxNonce] /\ relaySub'[r] # q.nonce
        /\ (relaySub'[r] = relaySub[r] \/ (relaySub'[r] = 0 /\ relaySub[r] = q.nonce))
        /\ \A s \in Rooms \ {r} : relaySub'[s] = relaySub[s]
    BY <1>3, <1>4, <1>5
  <1>7. \A s \in Rooms : WireGoes(s)
    <2>1. \A k \in Of(r) : room[k].nonce # q.nonce /\ (op[k].at = "granted" => op[k].nonce # q.nonce)
      BY <1>4 DEF MessageFits, Due
    <2>2. WireGoes(r)
      BY <1>2, <1>6, <2>1, Arrival DEF WireGoes
    <2>. QED  BY <1>2, <1>6, <2>2, Arrival DEF WireGoes
  <1>8. LinkRests /\ UNCHANGED authGen
    <2>1. wire' = [s \in Rooms |-> wire'[s]] /\ relaySub' = [s \in Rooms |-> relaySub'[s]]
      BY <1>4, <1>6
    <2>2. faults \in 0 .. MaxFaults /\ auth \in [gen : Gens, at : {"none", "proof", "ack"}]  BY DEF MuxInv, MuxShape
    <2>. QED  BY <1>3, <1>7, <2>1, <2>2 DEF LinkRests, linkVars
  <1>9. CASE op[q.h].at = "undo"
    <2>1. EndOps({q.h}, "transient")  BY <1>3, <1>9
    <2>2. op[q.h] # NoOp  BY <1>9 DEF NoOp
    <2>3. q.h \in refused' \/ Closing(RoomOf[q.h], op[q.h].nonce)
      BY <1>3, <1>4, <1>6 DEF MessageFits, Due, Closing
    <2>4. refused' = refused  BY <1>3
    <2>. QED  BY <1>4, <1>8, <2>1, <2>2, <2>3, <2>4, EndOpsHolds
  <1>10. CASE op[q.h].at # "undo"
    <2>1. UNCHANGED <<op, room, loops, told, dropped>>  BY <1>3, <1>10
    <2>2. MuxShape'
      <3>1. link # "up" => \A s \in Rooms : wire'[s] = <<>> /\ relaySub'[s] = 0
        BY <1>7 DEF WireGoes, MuxInv, MuxShape
      <3>. QED  BY <1>3, <1>4, <1>6, <2>1, <3>1 DEF MuxInv, MuxShape, linkVars
    <2>3. Quiet
      BY <1>3, <1>7, <2>1 DEF Quiet, Mild, linkVars
    <2>4. ASSUME NEW k \in Handles PROVE OpFits(k)' /\ LeaseFits(k)' /\ HeldFits(k)' /\ Remembered(k)'
      <3>1. Counts(k) => relaySub'[RoomOf[k]] = relaySub[RoomOf[k]] /\ NoSubscribe(RoomOf[k])'
        BY <1>7, WireGoesOn, MuxTypes
      <3>2. LoopsGo(k) /\ (InMap(k)' <=> InMap(k))  BY <1>3, <2>1 DEF LoopsGo, InMap
      <3>. QED  BY <1>3, <2>1, <3>1, <3>2, HandleKeeps DEF linkVars
    <2>. QED  BY <2>2, <2>3, <2>4, QuietKeeps
  <1>. QED  BY <1>9, <1>10

\* The relay holds what is asked of it last: the request of the operation that awaits
\* the answer, or one whose handle gave it up and is among the refused.
LEMMA RelaySubscribesHolds ==
    ASSUME MuxInv, NEW r \in Rooms, RelaySubscribes(r)
    PROVE  MuxInv'
  <1>1. PICK q : q = Head(wire[r])  OBVIOUS
  <1>2. Arrives(r, "subscribe")  BY DEF RelaySubscribes
  <1>3. /\ q = wire[r][1] /\ 1 \in DOMAIN wire[r] /\ q.what = "subscribe" /\ MessageFits(r, 1)
        /\ q.nonce # 0 /\ q.nonce \in Nonces /\ q.h \in Handles /\ RoomOf[q.h] = r /\ q.h \in Of(r) /\ link = "up"
        /\ \A i \in DOMAIN wire'[r] : wire'[r][i].nonce # q.nonce
        /\ \A i \in DOMAIN wire'[r] : i \in Nat /\ i # 0 /\ i + 1 \in DOMAIN wire[r] /\ wire'[r][i] = wire[r][i + 1]
        /\ wire' \in [Rooms -> Seq(MuxMessage)] /\ \A s \in Rooms \ {r} : wire'[s] = wire[s]
    BY <1>1, <1>2, Arrival
  <1>4. /\ op' = IF Awaited(q) THEN [op EXCEPT ![q.h].at = "granted"] ELSE op
        /\ relaySub' = [relaySub EXCEPT ![r] = q.nonce]
        /\ UNCHANGED <<plan, link, gen, authGen, backlog, online, disposed, auth, rooms, room, un, loops, notice,
                       faults, told, dropped, refused>>
    BY <1>1 DEF RelaySubscribes, linkVars, history
  <1>5. /\ relaySub' \in [Rooms -> 0 .. MaxNonce] /\ relaySub'[r] = q.nonce
        /\ \A s \in Rooms \ {r} : relaySub'[s] = relaySub[s]
    BY <1>3, <1>4, MuxTypes DEF MuxInv, MuxShape, Nonces
  <1>6. /\ op' \in [Handles -> MuxOperation]
        /\ \A h \in Handles :
              /\ op'[h].nonce = op[h].nonce /\ op'[h].kind = op[h].kind /\ op'[h].gen = op[h].gen
              /\ \/ op'[h] = op[h] /\ (h = q.h => ~Awaited(q))
                 \/ h = q.h /\ Awaited(q) /\ op'[h].at = "granted" /\ op'[h] # NoOp
    <2>1. op \in [Handles -> MuxOperation]  BY DEF MuxInv, MuxShape
    <2>2. PICK o : o = [op[q.h] EXCEPT !.at = "granted"]  OBVIOUS
    <2>3. /\ o \in MuxOperation /\ o.at = "granted" /\ o # NoOp
          /\ o.nonce = op[q.h].nonce /\ o.kind = op[q.h].kind /\ o.gen = op[q.h].gen
      BY <1>3, <2>1, <2>2 DEF MuxOperation, NoOp
    <2>4. op' = IF Awaited(q) THEN [op EXCEPT ![q.h] = o] ELSE op  BY <1>4, <2>2
    <2>. QED  BY <1>3, <2>1, <2>3, <2>4
  <1>7. Awaited(q) => op[q.h].at = "ack" /\ op[q.h].nonce = q.nonce /\ op[q.h].gen = gen
    BY <1>3 DEF MessageFits, Awaited
  <1>8. \A k \in Handles : InMap(k)' <=> InMap(k)  BY <1>4 DEF InMap
  <1>9. MuxShape'
    BY <1>3, <1>4, <1>5, <1>6 DEF MuxInv, MuxShape
  <1>10. Elsewhere(r)
    BY <1>3, <1>4, <1>5, <1>6 DEF Elsewhere
  <1>11. ASSUME NEW h \in Of(r) PROVE HandleFits(h)'
    <2>1. h \in Handles /\ RoomOf[h] = r /\ HandleFits(h) /\ Of(r)' = Of(r)  BY MuxTypes DEF Of
    <2>2. ~NoSubscribe(r)  BY <1>3 DEF NoSubscribe
    <2>3. OpFits(h)'
      <3>1. OpFits(h)  BY <2>1 DEF HandleFits
      <3>2. CASE op'[h] = op[h]  BY <1>4, <3>1, <3>2 DEF OpFits
      <3>3. CASE op'[h] # op[h]
        <4>1. /\ op'[h].at = "granted" /\ op'[h] # NoOp /\ op[h].at = "ack" /\ op[h].nonce # 0 /\ op[h].gen = gen
              /\ op[h] # NoOp /\ op'[h].nonce = op[h].nonce /\ op'[h].kind = op[h].kind /\ op'[h].gen = gen
          BY <1>3, <1>6, <1>7, <2>1, <3>3 DEF NoOp
        <4>2. op[h].kind # "none" /\ room[h].made /\ authGen = gen /\ gen <= gen
          BY <1>3, <3>1, <4>1 DEF OpFits
        <4>. QED  BY <1>3, <1>4, <4>1, <4>2 DEF OpFits
      <3>. QED  BY <3>2, <3>3
    <2>4. LeaseFits(h)'
      BY <1>4, <1>6, <1>8, <2>1 DEF HandleFits, LeaseFits
    <2>5. HeldFits(h)'
      <3>1. Counts(h)' => Counts(h)  BY <1>4, <1>6, <1>8, <2>1 DEF Counts
      <3>. QED  BY <2>1, <2>2, <3>1 DEF HandleFits, HeldFits
    <2>6. GrantFits(h)'
      <3>1. op[h].at = "granted" /\ InMap(h) => FALSE
        BY <2>1, <2>2 DEF HandleFits, GrantFits
      <3>2. Awaited(q) /\ InMap(q.h) => NoSubscribe(r)'
        <4> SUFFICES ASSUME Awaited(q), InMap(q.h), NEW i \in DOMAIN wire'[r] PROVE wire'[r][i].what # "subscribe"
          BY DEF NoSubscribe
        <4>1. i + 1 \in DOMAIN wire[r] /\ i + 1 > 1 /\ wire'[r][i] = wire[r][i + 1]  BY <1>3
        <4>. QED  BY <1>3, <4>1 DEF MessageFits
      <3>. QED  BY <1>5, <1>6, <1>7, <1>8, <2>1, <3>1, <3>2 DEF GrantFits
    <2>7. NonceFits(h)'
      BY <1>4, <1>6, <2>1 DEF HandleFits, NonceFits, Of
    <2>8. Remembered(h)'
      <3>1. Wanted(h)' <=> Wanted(h)  BY <1>4, <1>8, <2>1 DEF Wanted
      <3>2. Planned(h) => Planned(h)'  BY <1>4, <1>6, <2>1 DEF Planned
      <3>. QED  BY <1>4, <2>1, <3>1, <3>2 DEF HandleFits, Remembered
    <2>9. Unstuck(h)'
      BY <1>4, <1>8, <2>1 DEF HandleFits, Unstuck
    <2>. QED  BY <2>3, <2>4, <2>5, <2>6, <2>7, <2>8, <2>9 DEF HandleFits
  <1>12. Accountable(r)'
    <2>1. Awaited(q) => op'[q.h].at = "granted" /\ op'[q.h].nonce = q.nonce  BY <1>3, <1>6, <1>7
    <2>2. Awaited(q) \/ q.h \in refused  BY <1>3 DEF MessageFits
    <2>. QED  BY <1>3, <1>4, <1>5, <2>1, <2>2 DEF Accountable
  <1>13. WireFits(r)'
    <2> SUFFICES ASSUME NEW i \in DOMAIN wire'[r] PROVE MessageFits(r, i)'
      BY DEF WireFits
    <2>1. PICK j : j = i + 1  OBVIOUS
    <2>2. PICK p : p = wire[r][j]  OBVIOUS
    <2>3. /\ i \in Nat /\ j \in DOMAIN wire[r] /\ p = wire'[r][i] /\ p.nonce # q.nonce /\ MessageFits(r, j)
          /\ p.h \in Handles /\ RoomOf[p.h] = r /\ p.h \in Of(r)
      BY <1>3, <2>1, <2>2, MessageHas
    <2>4. \A h \in Of(r) : /\ h \in Handles /\ op'[h].nonce = op[h].nonce /\ room'[h] = room[h]
                           /\ op[h].nonce = p.nonce => op'[h] = op[h]
      BY <1>4, <1>6, <1>7, <2>3 DEF Of
    <2>5. p.what # "unsubscribe" => \A k \in DOMAIN wire'[r] : k # i => wire'[r][k].nonce # p.nonce
      <3> SUFFICES ASSUME p.what # "unsubscribe", NEW k \in DOMAIN wire'[r], k # i PROVE wire'[r][k].nonce # p.nonce
        OBVIOUS
      <3>1. k + 1 \in DOMAIN wire[r] /\ k + 1 # j /\ wire'[r][k] = wire[r][k + 1]  BY <1>3, <2>1, <2>3
      <3>. QED  BY <2>2, <2>3, <3>1 DEF MessageFits
    <2>6. p.what = "subscribe" /\ Awaited(p)' /\ InMap(p.h)'
              => \A k \in DOMAIN wire'[r] : k > i => wire'[r][k].what # "subscribe"
      <3> SUFFICES ASSUME p.what = "subscribe", Awaited(p)', InMap(p.h)', NEW k \in DOMAIN wire'[r], k > i
                   PROVE  wire'[r][k].what # "subscribe"
        OBVIOUS
      <3>1. k + 1 \in DOMAIN wire[r] /\ k + 1 > j /\ wire'[r][k] = wire[r][k + 1]  BY <1>3, <2>1, <2>3
      <3>2. Awaited(p)  BY <2>3, <2>4 DEF Awaited
      <3>. QED  BY <1>8, <2>2, <2>3, <3>1, <3>2 DEF MessageFits
    <2>7. MessageStays(r, i, p)  BY <1>4, <1>8, <2>3, <2>4, <2>5, <2>6 DEF MessageStays
    <2>. QED  BY <2>2, <2>3, <2>7, MessageKeeps
  <1>14. ASSUME NEW u \in un, RoomOf[u.h] = r PROVE GoodbyeFits(u)'
    <2>1. GoodbyeFits(u) /\ u.h \in Handles  BY MuxTypes
    <2>2. Standing(u) => Standing(u)'  BY <1>4, <1>8, <2>1 DEF Standing
    <2>3. Spent(r, u.nonce) => Spent(r, u.nonce)'  BY <1>3, <1>5 DEF Spent
    <2>. QED  BY <1>4, <1>14, <2>1, <2>2, <2>3 DEF GoodbyeFits
  <1>. QED  BY <1>4, <1>9, <1>10, <1>11, <1>12, <1>13, <1>14, ElsewhereKeeps

\* A request goes out, behind those about its room that are on their way.
LEMMA Emission ==
    ASSUME MuxInv, NEW h \in Handles, NEW what \in {"subscribe", "undo", "unsubscribe"}, NEW n \in Nonces,
           Emit(what, h, n)
    PROVE  LET r == RoomOf[h]
               q == Request(what, h, n)
           IN  /\ r \in Rooms /\ wire' \in [Rooms -> Seq(MuxMessage)] /\ Len(wire[r]) \in Nat
               /\ q.what = what /\ q.h = h /\ q.nonce = n /\ n # 0
               /\ \A s \in Rooms \ {r} : wire'[s] = wire[s]
               /\ \A i \in DOMAIN wire'[r] :
                     i \in Nat /\ \/ i \in DOMAIN wire[r] /\ i <= Len(wire[r]) /\ wire'[r][i] = wire[r][i]
                                  \/ i = Len(wire[r]) + 1 /\ wire'[r][i] = q
               /\ what # "subscribe" /\ NoSubscribe(r) => NoSubscribe(r)'
  <1>1. PICK r : r = RoomOf[h]  OBVIOUS
  <1>2. PICK q : q = Request(what, h, n)  OBVIOUS
  <1>3. q \in MuxMessage /\ q.what = what /\ q.h = h /\ q.nonce = n
    BY <1>2 DEF Request, MuxMessage
  <1>4. r \in Rooms /\ wire \in [Rooms -> Seq(MuxMessage)] /\ n # 0
    BY <1>1, MuxTypes DEF MuxInv, MuxShape, Nonces
  <1>5. wire' = [wire EXCEPT ![r] = Append(wire[r], q)]
    BY <1>1, <1>2 DEF Emit
  <1>6. /\ Append(wire[r], q) \in Seq(MuxMessage) /\ Len(wire[r]) \in Nat
        /\ \A i \in DOMAIN wire[r] : i \in Nat /\ i <= Len(wire[r]) /\ i \in DOMAIN Append(wire[r], q)
                                     /\ Append(wire[r], q)[i] = wire[r][i]
        /\ \A i \in DOMAIN Append(wire[r], q) :
              i \in Nat /\ (i \in DOMAIN wire[r] \/ (i = Len(wire[r]) + 1 /\ Append(wire[r], q)[i] = q))
    BY <1>3, <1>4, LastRequest
  <1>7. wire'[r] = Append(wire[r], q) /\ wire' \in [Rooms -> Seq(MuxMessage)]
        /\ \A s \in Rooms \ {r} : wire'[s] = wire[s]
    BY <1>4, <1>5, <1>6
  <1>8. \A i \in DOMAIN wire'[r] :
            i \in Nat /\ \/ i \in DOMAIN wire[r] /\ i <= Len(wire[r]) /\ wire'[r][i] = wire[r][i]
                         \/ i = Len(wire[r]) + 1 /\ wire'[r][i] = q
    BY <1>6, <1>7
  <1>9. what # "subscribe" /\ NoSubscribe(r) => NoSubscribe(r)'
    BY <1>3, <1>8 DEF NoSubscribe
  <1>. QED  BY <1>1, <1>2, <1>3, <1>4, <1>6, <1>7, <1>8, <1>9

\* The subscription is granted to the handle that asked for it: its replay is awaited.
LEMMA GrantedHolds ==
    ASSUME MuxInv, NEW h \in Handles, Granted(h), Current(h)
    PROVE  MuxInv'
  <1>1. PICK r : r = RoomOf[h]  OBVIOUS
  <1>2. /\ r \in Rooms /\ h \in Of(r) /\ HandleFits(h) /\ Of(r)' = Of(r)
        /\ room \in [Handles -> MuxRoomState] /\ op \in [Handles -> MuxOperation]
    BY <1>1, MuxTypes DEF MuxInv, MuxShape, Of
  <1>3. /\ op[h].at = "granted" /\ InMap(h) /\ ~room[h].closed /\ gen = op[h].gen
    BY DEF Granted, Current
  <1>4. /\ op[h].nonce # 0 /\ link = "up" /\ authGen = gen /\ op[h].kind # "none" /\ room[h].made
        /\ relaySub[r] = op[h].nonce /\ NoSubscribe(r)
    <2>1. OpFits(h) /\ GrantFits(h)  BY <1>2 DEF HandleFits
    <2>2. op[h] # NoOp  BY <1>3 DEF NoOp
    <2>. QED  BY <1>1, <1>3, <2>1, <2>2 DEF OpFits, GrantFits
  <1>5. PICK R : R = [room[h] EXCEPT !.nonce = op[h].nonce, !.lease = "fresh",
                          !.timer = "renewal", !.backoff = FALSE, !.waiting = FALSE]  OBVIOUS
  <1>6. PICK o : o = [op[h] EXCEPT !.at = "replay", !.nonce = 0]  OBVIOUS
  <1>7. /\ room' = [room EXCEPT ![h] = R] /\ op' = [op EXCEPT ![h] = o]
        /\ told' = told \ {h} /\ dropped' = dropped \ {h}
        /\ UNCHANGED <<plan, link, gen, authGen, backlog, online, disposed, auth, rooms, un, loops, wire, relaySub,
                       notice, faults, refused>>
    BY <1>5, <1>6 DEF Granted, linkVars
  <1>8. /\ R \in MuxRoomState /\ R.made = room[h].made /\ R.closed = room[h].closed
        /\ R.nonce = op[h].nonce /\ R.lease = "fresh" /\ R.timer = "renewal"
    <2>1. op[h].nonce \in 0 .. MaxNonce  BY <1>2 DEF MuxOperation
    <2>. QED  BY <1>2, <1>5, <2>1 DEF MuxRoomState
  <1>9. /\ o \in MuxOperation /\ o.at = "replay" /\ o.nonce = 0 /\ o.gen = gen /\ o.kind = op[h].kind /\ o # NoOp
    <2>1. 0 \in 0 .. MaxNonce  BY MuxTypes
    <2>. QED  BY <1>2, <1>3, <1>6, <2>1 DEF MuxOperation, NoOp
  <1>10. /\ room' \in [Handles -> MuxRoomState] /\ op' \in [Handles -> MuxOperation] /\ room'[h] = R /\ op'[h] = o
         /\ \A k \in Handles \ {h} : room'[k] = room[k] /\ op'[k] = op[k]
    BY <1>2, <1>7, <1>8, <1>9
  <1>11. \A k \in Handles : InMap(k)' <=> InMap(k)  BY <1>7 DEF InMap
  <1>12. MuxShape'
    BY <1>7, <1>8, <1>10 DEF MuxInv, MuxShape
  <1>13. Elsewhere(r)
    BY <1>1, <1>7, <1>10 DEF Elsewhere
  <1>14. \A k \in Of(r) : k \in Handles /\ RoomOf[k] = r  BY DEF Of
  <1>15. \A k \in Of(r) : k # h => op[k].nonce # op[h].nonce
    <2>1. NonceFits(h)  BY <1>2 DEF HandleFits
    <2>. QED  BY <1>1, <1>4, <2>1 DEF NonceFits
  <1>16. NoSubscribe(r)' <=> NoSubscribe(r)  BY <1>7 DEF NoSubscribe
  <1>17. ASSUME NEW k \in Of(r), k # h PROVE HandleFits(k)'
    <2>1. k \in Handles /\ HandleFits(k) /\ RoomOf[k] = r  BY <1>14, MuxTypes
    <2>2. LoopsGo(k)  BY <1>7 DEF LoopsGo
    <2>3. Counts(k) => relaySub'[RoomOf[k]] = relaySub[RoomOf[k]] /\ NoSubscribe(RoomOf[k])'
      BY <1>7, <2>1, WireRests
    <2>4. OpFits(k)' /\ LeaseFits(k)' /\ HeldFits(k)' /\ Remembered(k)'
      BY <1>7, <1>10, <1>11, <1>17, <2>1, <2>2, <2>3, HandleKeeps
    <2>5. GrantFits(k)'
      BY <1>7, <1>10, <1>11, <1>16, <1>17, <2>1 DEF HandleFits, GrantFits
    <2>6. NonceFits(k)'
      BY <1>2, <1>8, <1>9, <1>10, <1>14, <1>15, <1>17, <2>1 DEF HandleFits, NonceFits
    <2>7. Unstuck(k)'
      BY <1>7, <1>10, <1>11, <1>17, <2>1 DEF HandleFits, Unstuck
    <2>. QED  BY <2>4, <2>5, <2>6, <2>7 DEF HandleFits
  <1>18. HandleFits(h)'
    <2>1. OpFits(h)'
      <3>1. R.made  BY <1>4, <1>8
      <3>2. room'[h].made  BY <1>10, <3>1
      <3>3. gen <= gen  BY MuxTypes
      <3>. QED  BY <1>4, <1>7, <1>9, <1>10, <3>2, <3>3 DEF OpFits
    <2>2. LeaseFits(h)'
      BY <1>3, <1>4, <1>7, <1>8, <1>9, <1>10, <1>11 DEF LeaseFits
    <2>3. HeldFits(h)'
      BY <1>1, <1>4, <1>7, <1>8, <1>10, <1>16 DEF HeldFits
    <2>4. GrantFits(h)' /\ NonceFits(h)'
      BY <1>9, <1>10 DEF GrantFits, NonceFits
    <2>5. Remembered(h)'
      BY <1>9, <1>10 DEF Remembered, Planned
    <2>6. Unstuck(h)'
      BY <1>3, <1>8, <1>10 DEF Unstuck
    <2>. QED  BY <2>1, <2>2, <2>3, <2>4, <2>5, <2>6 DEF HandleFits
  <1>19. Accountable(r)'
    BY <1>1, <1>3, <1>4, <1>7, <1>8, <1>10, <1>11 DEF Accountable
  <1>20. WireFits(r)'
    <2> SUFFICES ASSUME NEW i \in DOMAIN wire[r] PROVE MessageFits(r, i)'
      BY <1>7 DEF WireFits
    <2>1. PICK p : p = wire[r][i]  OBVIOUS
    <2>2. /\ p.nonce # 0 /\ p.h \in Handles /\ RoomOf[p.h] = r /\ p.h \in Of(r) /\ MessageFits(r, i)
      BY <1>2, <2>1, MessageHas
    <2>3. op[h].nonce # p.nonce
      BY <1>2, <1>3, <2>1, <2>2 DEF MessageFits, Awaited, Due
    <2>4. \A k \in Of(r) :
             /\ op'[k].nonce = p.nonce => op[k].nonce = p.nonce /\ op'[k].at = op[k].at /\ op'[k].gen = op[k].gen
             /\ op[k].nonce = p.nonce => (op'[k].nonce = p.nonce /\ op'[k].at = op[k].at) \/ k \in refused'
             /\ room'[k].nonce = p.nonce => room[k].nonce = p.nonce /\ (room[k].closed => room'[k].closed)
      BY <1>8, <1>9, <1>10, <1>14, <2>2, <2>3
    <2>5. p.what = "subscribe" /\ Awaited(p)' /\ InMap(p.h)'
              => \A k \in DOMAIN wire'[r] : k > i => wire'[r][k].what # "subscribe"
      BY <1>4, <1>7 DEF NoSubscribe
    <2>6. p.what # "unsubscribe" => \A k \in DOMAIN wire'[r] : k # i => wire'[r][k].nonce # p.nonce
      BY <1>7, <2>1, <2>2 DEF MessageFits
    <2>7. MessageStays(r, i, p)  BY <1>7, <1>11, <2>2, <2>4, <2>5, <2>6 DEF MessageStays
    <2>. QED  BY <1>2, <1>7, <2>1, <2>7, MessageKeeps
  <1>21. ASSUME NEW u \in un, RoomOf[u.h] = r PROVE GoodbyeFits(u)'
    <2>1. GoodbyeFits(u) /\ u.h \in Handles  BY MuxTypes
    <2>2. Standing(u) => Standing(u)'  BY <1>3, <1>10, <1>11, <2>1 DEF Standing
    <2>3. Spent(r, u.nonce) => Spent(r, u.nonce)'  BY <1>7 DEF Spent
    <2>. QED  BY <1>7, <1>21, <2>1, <2>2, <2>3 DEF GoodbyeFits
  <1>. QED  BY <1>2, <1>7, <1>12, <1>13, <1>17, <1>18, <1>19, <1>20, <1>21, ElsewhereKeeps

\* It is granted to an operation that no longer counts, which takes it back.
LEMMA UndoHolds ==
    ASSUME MuxInv, NEW h \in Handles, Granted(h), ~Current(h)
    PROVE  MuxInv'
  <1>1. PICK r : r = RoomOf[h]  OBVIOUS
  <1>2. /\ r \in Rooms /\ h \in Of(r) /\ HandleFits(h) /\ Of(r)' = Of(r)
        /\ room \in [Handles -> MuxRoomState] /\ op \in [Handles -> MuxOperation]
    BY <1>1, MuxTypes DEF MuxInv, MuxShape, Of
  <1>3. PICK n : n = op[h].nonce  OBVIOUS
  <1>4. /\ op[h].at = "granted" /\ n \in Nonces /\ link = "up" /\ authGen = gen /\ op[h].gen = gen
        /\ op[h].kind # "none" /\ room[h].made
    <2>1. OpFits(h) /\ op[h].at = "granted"  BY <1>2 DEF HandleFits, Granted
    <2>2. op[h] # NoOp  BY <2>1 DEF NoOp
    <2>3. n \in 0 .. MaxNonce /\ n # 0 /\ MaxNonce \in Nat  BY <1>2, <1>3, <2>1, MuxTypes DEF OpFits, MuxOperation
    <2>. QED  BY <2>1, <2>2, <2>3 DEF OpFits, Nonces
  <1>5. PICK o : o = [op[h] EXCEPT !.at = "undo"]  OBVIOUS
  <1>6. /\ op' = [op EXCEPT ![h] = o] /\ Emit("undo", h, n)
        /\ UNCHANGED <<plan, link, gen, authGen, backlog, online, disposed, auth, rooms, room, un, loops, relaySub,
                       notice, faults, told, dropped, refused>>
    BY <1>3, <1>5 DEF Granted, linkVars
  <1>7. o \in MuxOperation /\ o.at = "undo" /\ o.nonce = n /\ o.gen = gen /\ o.kind = op[h].kind /\ o # NoOp
    BY <1>2, <1>3, <1>4, <1>5 DEF MuxOperation, NoOp
  <1>8. /\ op' \in [Handles -> MuxOperation] /\ op'[h] = o
        /\ \A k \in Handles \ {h} : op'[k] = op[k]
    BY <1>2, <1>6, <1>7
  <1>9. PICK q : q = Request("undo", h, n)  OBVIOUS
  <1>10. /\ wire' \in [Rooms -> Seq(MuxMessage)] /\ Len(wire[r]) \in Nat
         /\ q.what = "undo" /\ q.h = h /\ q.nonce = n /\ n # 0
         /\ \A s \in Rooms \ {r} : wire'[s] = wire[s]
         /\ \A i \in DOMAIN wire'[r] :
                i \in Nat /\ \/ i \in DOMAIN wire[r] /\ i <= Len(wire[r]) /\ wire'[r][i] = wire[r][i]
                             \/ i = Len(wire[r]) + 1 /\ wire'[r][i] = q
         /\ NoSubscribe(r) => NoSubscribe(r)'
    BY <1>1, <1>4, <1>6, <1>9, Emission
  <1>11. \A k \in Handles : InMap(k)' <=> InMap(k)  BY <1>6 DEF InMap
  <1>12. MuxShape'
    BY <1>4, <1>6, <1>8, <1>10 DEF MuxInv, MuxShape
  <1>13. Elsewhere(r)
    BY <1>1, <1>6, <1>8, <1>10 DEF Elsewhere
  <1>14. \A k \in Of(r) : k \in Handles /\ RoomOf[k] = r  BY DEF Of
  <1>15. \A k \in Of(r) : room[k].nonce # n /\ (k # h => op[k].nonce # n)
    <2>1. NonceFits(h)  BY <1>2 DEF HandleFits
    <2>. QED  BY <1>1, <1>3, <1>10, <2>1 DEF NonceFits
  <1>16. ASSUME NEW k \in Of(r) PROVE HandleFits(k)'
    <2>1. k \in Handles /\ HandleFits(k) /\ RoomOf[k] = r  BY <1>14, MuxTypes
    <2>2. GrantFits(k)'
      BY <1>6, <1>7, <1>8, <1>10, <1>11, <2>1 DEF HandleFits, GrantFits
    <2>3. NonceFits(k)'
      <3>1. \A j \in Handles : op'[j].nonce = op[j].nonce /\ room'[j] = room[j]
        BY <1>3, <1>6, <1>7, <1>8
      <3>. QED  BY <1>2, <1>14, <2>1, <3>1 DEF HandleFits, NonceFits
    <2>4. Unstuck(k)'
      BY <1>6, <1>11, <2>1 DEF HandleFits, Unstuck
    <2>5. OpFits(k)' /\ LeaseFits(k)' /\ HeldFits(k)' /\ Remembered(k)'
      <3>1. CASE k # h
        <4>1. LoopsGo(k)  BY <1>6 DEF LoopsGo
        <4>2. Counts(k) => relaySub'[RoomOf[k]] = relaySub[RoomOf[k]] /\ NoSubscribe(RoomOf[k])'
          BY <1>6, <1>10, <2>1 DEF HandleFits, HeldFits
        <4>. QED  BY <1>6, <1>8, <1>11, <2>1, <3>1, <4>1, <4>2, HandleKeeps
      <3>2. CASE k = h
        <4>1. room'[h].made /\ gen <= gen  BY <1>4, <1>6, MuxTypes
        <4>2. OpFits(h)'  BY <1>4, <1>6, <1>7, <1>8, <1>10, <4>1 DEF OpFits
        <4>3. LeaseFits(h)'
          <5>1. LeaseFits(h)  BY <1>2 DEF HandleFits
          <5>. QED  BY <1>6, <1>7, <1>8, <1>11, <5>1 DEF LeaseFits
        <4>4. HeldFits(h)' /\ Remembered(h)'
          BY <1>7, <1>8 DEF HeldFits, Counts, Remembered, Planned
        <4>. QED  BY <3>2, <4>2, <4>3, <4>4
      <3>. QED  BY <3>1, <3>2
    <2>. QED  BY <2>2, <2>3, <2>4, <2>5 DEF HandleFits
  <1>17. Accountable(r)'
    <2>1. \A k \in Handles : /\ op'[k].nonce = op[k].nonce
                             /\ op[k].at \in {"granted", "undo"} => op'[k].at \in {"granted", "undo"}
      BY <1>3, <1>7, <1>8
    <2>. QED  BY <1>2, <1>6, <1>11, <2>1 DEF MuxInv, Accountable
  <1>18. WireFits(r)'
    <2> SUFFICES ASSUME NEW i \in DOMAIN wire'[r] PROVE MessageFits(r, i)'
      BY DEF WireFits
    <2>1. \A j \in DOMAIN wire[r] : wire[r][j].nonce # n
      <3> SUFFICES ASSUME NEW j \in DOMAIN wire[r], wire[r][j].nonce = n PROVE FALSE
        OBVIOUS
      <3>1. MessageFits(r, j)  BY <1>2, MessageHas
      <3>. QED  BY <1>2, <1>3, <1>4, <3>1 DEF MessageFits, Awaited, Due
    <2>2. CASE i \in DOMAIN wire[r] /\ i <= Len(wire[r]) /\ wire'[r][i] = wire[r][i]
      <3>1. PICK p : p = wire[r][i]  OBVIOUS
      <3>2. /\ p.nonce # n /\ p.h \in Handles /\ RoomOf[p.h] = r /\ p.h \in Of(r) /\ MessageFits(r, i)
        BY <1>2, <2>1, <2>2, <3>1, MessageHas
      <3>3. \A k \in Of(r) : room'[k] = room[k] /\ op'[k].nonce = op[k].nonce
                             /\ (op[k].nonce = p.nonce => op'[k] = op[k])
        BY <1>3, <1>6, <1>7, <1>8, <1>14, <3>2
      <3>4. p.what = "subscribe" /\ Awaited(p)' /\ InMap(p.h)'
                => \A k \in DOMAIN wire'[r] : k > i => wire'[r][k].what # "subscribe"
        <4>1. Awaited(p)' => Awaited(p)  BY <3>2, <3>3 DEF Awaited
        <4>. QED  BY <1>10, <1>11, <3>1, <3>2, <4>1 DEF MessageFits
      <3>5. p.what # "unsubscribe" => \A k \in DOMAIN wire'[r] : k # i => wire'[r][k].nonce # p.nonce
        BY <1>10, <3>1, <3>2 DEF MessageFits
      <3>6. MessageStays(r, i, p)  BY <1>6, <1>11, <3>2, <3>3, <3>4, <3>5 DEF MessageStays
      <3>. QED  BY <1>2, <2>2, <3>1, <3>6, MessageKeeps
    <2>3. CASE i = Len(wire[r]) + 1 /\ wire'[r][i] = q
      <3>1. Due(q)'  BY <1>7, <1>8, <1>10 DEF Due
      <3>2. \A k \in Of(r) : room'[k].nonce # n /\ (op'[k].nonce = n => k = h)
        BY <1>6, <1>8, <1>14, <1>15
      <3>3. \A k \in DOMAIN wire'[r] : k # i => wire'[r][k].nonce # n
        BY <1>10, <2>1, <2>3
      <3>. QED  BY <1>1, <1>2, <1>10, <2>3, <3>1, <3>2, <3>3 DEF MessageFits
    <2>. QED  BY <1>10, <2>2, <2>3
  <1>19. ASSUME NEW u \in un, RoomOf[u.h] = r PROVE GoodbyeFits(u)'
    <2>1. GoodbyeFits(u) /\ u.h \in Handles  BY MuxTypes
    <2>2. Standing(u) => Standing(u)'  BY <1>6, <1>11, <2>1 DEF Standing
    <2>3. Spent(r, u.nonce) => Spent(r, u.nonce)'  BY <1>6, <1>10 DEF Spent
    <2>. QED  BY <1>6, <1>19, <2>1, <2>2, <2>3 DEF GoodbyeFits
  <1>. QED  BY <1>2, <1>6, <1>12, <1>13, <1>16, <1>17, <1>18, <1>19, ElsewhereKeeps

\* The proof is there, and the room is asked for under a nonce nothing else has.
LEMMA ProofHolds ==
    ASSUME MuxInv, NEW h \in Handles, Proof(h), Current(h), link = "up"
    PROVE  MuxInv'
  <1>1. PICK r : r = RoomOf[h]  OBVIOUS
  <1>2. /\ r \in Rooms /\ h \in Of(r) /\ HandleFits(h) /\ Of(r)' = Of(r)
        /\ room \in [Handles -> MuxRoomState] /\ op \in [Handles -> MuxOperation]
    BY <1>1, MuxTypes DEF MuxInv, MuxShape, Of
  <1>3. PICK n : n = CHOOSE m \in Nonces : m \notin UsedNonces(r)  OBVIOUS
  <1>4. n \in Nonces /\ n \notin UsedNonces(r)
    BY <1>1, <1>3 DEF Proof
  <1>5. /\ \A k \in Of(r) : room[k].nonce # n /\ op[k].nonce # n
        /\ \A u \in un : RoomOf[u.h] = r => u.nonce # n
        /\ \A i \in DOMAIN wire[r] : wire[r][i].nonce # n
    BY <1>4 DEF UsedNonces
  <1>6. /\ op[h].at = "proof" /\ InMap(h) /\ ~room[h].closed /\ op[h].gen = gen /\ authGen = gen
        /\ op[h].kind # "none" /\ room[h].made /\ op[h].nonce = 0
    <2>1. OpFits(h) /\ op[h].at = "proof"  BY <1>2 DEF HandleFits, Proof
    <2>2. op[h] # NoOp  BY <2>1 DEF NoOp
    <2>. QED  BY <2>1, <2>2 DEF OpFits, Current
  <1>7. PICK o : o = [op[h] EXCEPT !.at = "ack", !.nonce = n]  OBVIOUS
  <1>8. /\ op' = [op EXCEPT ![h] = o] /\ Emit("subscribe", h, n)
        /\ UNCHANGED <<plan, link, gen, authGen, backlog, online, disposed, auth, rooms, room, un, loops, relaySub,
                       notice, faults, told, dropped, refused>>
    <2>1. op' = [op EXCEPT ![h].at = "ack", ![h].nonce = n] /\ Emit("subscribe", h, n)
      BY <1>1, <1>3 DEF Proof
    <2>2. op' = [op EXCEPT ![h] = o]  BY <1>2, <1>7, <2>1
    <2>. QED  BY <2>1, <2>2 DEF Proof, linkVars
  <1>9. o \in MuxOperation /\ o.at = "ack" /\ o.nonce = n /\ o.gen = gen /\ o.kind = op[h].kind /\ o # NoOp
    <2>1. n \in 0 .. MaxNonce  BY <1>4, MuxTypes DEF Nonces
    <2>. QED  BY <1>2, <1>6, <1>7, <2>1 DEF MuxOperation, NoOp
  <1>10. /\ op' \in [Handles -> MuxOperation] /\ op'[h] = o
         /\ \A k \in Handles \ {h} : op'[k] = op[k]
    BY <1>2, <1>8, <1>9
  <1>11. PICK q : q = Request("subscribe", h, n)  OBVIOUS
  <1>12. /\ wire' \in [Rooms -> Seq(MuxMessage)] /\ Len(wire[r]) \in Nat
         /\ q.what = "subscribe" /\ q.h = h /\ q.nonce = n /\ n # 0
         /\ \A s \in Rooms \ {r} : wire'[s] = wire[s]
         /\ \A i \in DOMAIN wire'[r] :
                i \in Nat /\ \/ i \in DOMAIN wire[r] /\ i <= Len(wire[r]) /\ wire'[r][i] = wire[r][i]
                             \/ i = Len(wire[r]) + 1 /\ wire'[r][i] = q
    BY <1>1, <1>4, <1>8, <1>11, Emission
  <1>13. \A k \in Handles : InMap(k)' <=> InMap(k)  BY <1>8 DEF InMap
  <1>14. MuxShape'
    BY <1>8, <1>10, <1>12 DEF MuxInv, MuxShape
  <1>15. Elsewhere(r)
    BY <1>1, <1>8, <1>10, <1>12 DEF Elsewhere
  <1>16. \A k \in Of(r) : k \in Handles /\ RoomOf[k] = r /\ (InMap(k) => k = h)
    BY <1>1, <1>6 DEF Of, InMap
  <1>17. ASSUME NEW k \in Of(r) PROVE HandleFits(k)'
    <2>1. k \in Handles /\ HandleFits(k) /\ RoomOf[k] = r  BY <1>16, MuxTypes
    <2>2. GrantFits(k)'
      BY <1>9, <1>10, <1>13, <1>16, <2>1 DEF GrantFits
    <2>3. NonceFits(k)'
      BY <1>2, <1>5, <1>8, <1>9, <1>10, <1>16, <2>1 DEF HandleFits, NonceFits
    <2>4. Unstuck(k)'
      BY <1>8, <1>13, <2>1 DEF HandleFits, Unstuck
    <2>5. OpFits(k)' /\ LeaseFits(k)' /\ HeldFits(k)' /\ Remembered(k)'
      <3>1. CASE k # h
        <4>1. LoopsGo(k)  BY <1>8 DEF LoopsGo
        <4>2. ~Counts(k)  BY <1>16, <3>1 DEF Counts
        <4>. QED  BY <1>8, <1>10, <1>13, <2>1, <3>1, <4>1, <4>2, HandleKeeps
      <3>2. CASE k = h
        <4>1. room'[h].made  BY <1>6, <1>8
        <4>5. gen <= gen  BY MuxTypes
        <4>2. OpFits(h)'  BY <1>6, <1>8, <1>9, <1>10, <1>12, <4>1, <4>5 DEF OpFits
        <4>3. LeaseFits(h)'
          <5>1. LeaseFits(h)  BY <1>2 DEF HandleFits
          <5>. QED  BY <1>8, <1>9, <1>10, <1>13, <5>1 DEF LeaseFits
        <4>4. HeldFits(h)' /\ Remembered(h)'
          BY <1>9, <1>10 DEF HeldFits, Counts, Remembered, Planned
        <4>. QED  BY <3>2, <4>2, <4>3, <4>4
      <3>. QED  BY <3>1, <3>2
    <2>. QED  BY <2>2, <2>3, <2>4, <2>5 DEF HandleFits
  <1>18. Accountable(r)'
    <2>1. \A k \in Handles : op[k].at \in {"granted", "undo"} => op'[k] = op[k]
      BY <1>6, <1>10
    <2>. QED  BY <1>2, <1>8, <1>13, <2>1 DEF MuxInv, Accountable
  <1>19. WireFits(r)'
    <2> SUFFICES ASSUME NEW i \in DOMAIN wire'[r] PROVE MessageFits(r, i)'
      BY DEF WireFits
    <2>1. CASE i \in DOMAIN wire[r] /\ i <= Len(wire[r]) /\ wire'[r][i] = wire[r][i]
      <3>1. PICK p : p = wire[r][i]  OBVIOUS
      <3>2. /\ p.nonce # n /\ p.nonce # 0 /\ p.h \in Handles /\ RoomOf[p.h] = r /\ p.h \in Of(r) /\ MessageFits(r, i)
        BY <1>2, <1>5, <2>1, <3>1, MessageHas
      <3>3. \A k \in Of(r) : /\ room'[k] = room[k]
                             /\ op'[k].nonce = p.nonce => op'[k] = op[k]
                             /\ op[k].nonce = p.nonce => op'[k] = op[k]
        BY <1>6, <1>8, <1>9, <1>10, <1>16, <3>2
      <3>4. p.what = "subscribe" /\ Awaited(p)' /\ InMap(p.h)'
                => \A k \in DOMAIN wire'[r] : k > i => wire'[r][k].what # "subscribe"
        <4>1. InMap(p.h)' => p.h = h  BY <1>13, <1>16, <3>2
        <4>. QED  BY <1>9, <1>10, <3>2, <4>1 DEF Awaited
      <3>5. p.what # "unsubscribe" => \A k \in DOMAIN wire'[r] : k # i => wire'[r][k].nonce # p.nonce
        BY <1>12, <3>1, <3>2 DEF MessageFits
      <3>6. MessageStays(r, i, p)  BY <1>8, <1>13, <3>2, <3>3, <3>4, <3>5 DEF MessageStays
      <3>. QED  BY <1>2, <2>1, <3>1, <3>6, MessageKeeps
    <2>2. CASE i = Len(wire[r]) + 1 /\ wire'[r][i] = q
      <3>1. Awaited(q)' /\ op'[q.h].gen = gen'  BY <1>8, <1>9, <1>10, <1>12 DEF Awaited
      <3>2. \A k \in Of(r) : room'[k].nonce # n /\ (op'[k].nonce = n => k = h)
        BY <1>5, <1>8, <1>10, <1>16
      <3>3. \A k \in DOMAIN wire'[r] : (k # i => wire'[r][k].nonce # n) /\ ~(k > i)
        BY <1>5, <1>12, <2>2
      <3>. QED  BY <1>1, <1>2, <1>12, <2>2, <3>1, <3>2, <3>3 DEF MessageFits
    <2>. QED  BY <1>12, <2>1, <2>2
  <1>20. ASSUME NEW u \in un, RoomOf[u.h] = r PROVE GoodbyeFits(u)'
    <2>1. GoodbyeFits(u) /\ u.h \in Handles /\ u.nonce # n  BY <1>5, <1>20, MuxTypes
    <2>2. Standing(u) => Standing(u)'  BY <1>8, <1>13, <2>1 DEF Standing
    <2>3. Spent(r, u.nonce) => Spent(r, u.nonce)'  BY <1>8, <1>12, <2>1 DEF Spent
    <2>. QED  BY <1>8, <1>20, <2>1, <2>2, <2>3 DEF GoodbyeFits
  <1>. QED  BY <1>2, <1>8, <1>14, <1>15, <1>17, <1>18, <1>19, <1>20, ElsewhereKeeps

\* The relay tells that a peer has changed, or the client is told of a subscription
\* it does not have: nothing else changes.
LEMMA NoticeHolds ==
    ASSUME MuxInv, notice' \in [Rooms -> 0 .. MaxNonce], faults' \in 0 .. MaxFaults,
           UNCHANGED <<linkVars, auth, rooms, room, op, un, loops, wire, relaySub, history>>
    PROVE  MuxInv'
  <1>1. UNCHANGED <<link, gen, authGen, online, disposed, auth, rooms, room, op, un, loops, wire, relaySub,
                    told, dropped, refused>>
    BY DEF linkVars, history
  <1>2. MuxShape'
    BY <1>1 DEF MuxInv, MuxShape
  <1>3. Quiet
    BY <1>1, WireRests DEF Quiet, Mild
  <1>4. ASSUME NEW k \in Handles PROVE OpFits(k)' /\ LeaseFits(k)' /\ HeldFits(k)' /\ Remembered(k)'
    <2>1. Counts(k) => relaySub'[RoomOf[k]] = relaySub[RoomOf[k]] /\ NoSubscribe(RoomOf[k])'
      BY <1>1, WireRests
    <2>2. LoopsGo(k) /\ (InMap(k)' <=> InMap(k))  BY <1>1 DEF LoopsGo, InMap
    <2>. QED  BY <1>1, <2>1, <2>2, HandleKeeps
  <1>. QED  BY <1>2, <1>3, <1>4, QuietKeeps

\* The relay gives up a room by itself and says so: the notice names the nonce it held.
LEMMA RelaySuspendsHolds ==
    ASSUME MuxInv, NEW r \in Rooms, RelaySuspends(r)
    PROVE  MuxInv'
  <1>1. /\ notice \in [Rooms -> 0 .. MaxNonce] /\ relaySub \in [Rooms -> 0 .. MaxNonce]
        /\ faults \in 0 .. MaxFaults /\ MaxFaults \in Nat
    BY MuxTypes DEF MuxInv, MuxShape
  <1>2. notice' \in [Rooms -> 0 .. MaxNonce] /\ faults' \in 0 .. MaxFaults
    BY <1>1 DEF RelaySuspends, Fault
  <1>. QED  BY <1>2, NoticeHolds DEF RelaySuspends

\* The relay takes an unsubscription: it gives up the nonce it names, or has another.
LEMMA RelayUnsubscribesHolds ==
    ASSUME MuxInv, NEW r \in Rooms, RelayUnsubscribes(r)
    PROVE  MuxInv'
  <1>1. PICK q : q = Head(wire[r])  OBVIOUS
  <1>2. Arrives(r, "unsubscribe")  BY DEF RelayUnsubscribes
  <1>3. /\ q = wire[r][1] /\ 1 \in DOMAIN wire[r] /\ q.what = "unsubscribe" /\ MessageFits(r, 1)
        /\ q.nonce # 0 /\ q.nonce \in Nonces /\ q.h \in Handles /\ RoomOf[q.h] = r /\ q.h \in Of(r) /\ link = "up"
        /\ wire[r] # <<>> /\ wire'[r] = Tail(wire[r])
        /\ \A i \in DOMAIN wire'[r] : i \in Nat /\ i # 0 /\ i + 1 \in DOMAIN wire[r] /\ wire'[r][i] = wire[r][i + 1]
        /\ wire' \in [Rooms -> Seq(MuxMessage)] /\ \A s \in Rooms \ {r} : wire'[s] = wire[s]
    BY <1>1, <1>2, Arrival
  <1>4. PICK same \in BOOLEAN : same <=> relaySub[r] = q.nonce  OBVIOUS
  <1>5. PICK answered : answered = [u \in un |->
                 IF u.h = q.h /\ u.gen = gen /\ u.st = "sent" /\ u.nonce = q.nonce
                 THEN [u EXCEPT !.st = IF same THEN "ok" ELSE "no"] ELSE u]
    OBVIOUS
  <1>6. /\ relaySub' = [relaySub EXCEPT ![r] = IF same THEN 0 ELSE @]
        /\ un' = {answered[u] : u \in un}
        /\ UNCHANGED <<plan, link, gen, authGen, backlog, online, disposed, auth, rooms, room, op, loops, notice,
                       faults, told, dropped, refused>>
    <2>1. UNCHANGED <<plan, link, gen, authGen, backlog, online, disposed, auth, rooms, room, op, loops, notice,
                      faults, told, dropped, refused>>
      BY DEF RelayUnsubscribes, linkVars, history
    <2>2. relaySub' = [relaySub EXCEPT ![r] = IF same THEN 0 ELSE @]
      BY <1>1, <1>4 DEF RelayUnsubscribes
    <2> DEFINE Answer(u) == IF u.h = q.h /\ u.gen = gen /\ u.st = "sent" /\ u.nonce = q.nonce
                            THEN [u EXCEPT !.st = IF same THEN "ok" ELSE "no"] ELSE u
    <2>3. un' = {Answer(u) : u \in un}
      BY <1>1, <1>4 DEF RelayUnsubscribes
    <2>4. ASSUME NEW u \in un PROVE answered[u] = Answer(u)
      BY <1>5
    <2>5. un' = {answered[u] : u \in un}
      <3> HIDE DEF Answer
      <3>. QED  BY <2>3, <2>4
    <2>. QED  BY <2>1, <2>2, <2>5
  <1>7. /\ relaySub' \in [Rooms -> 0 .. MaxNonce]
        /\ relaySub'[r] = (IF same THEN 0 ELSE relaySub[r]) /\ relaySub'[r] # q.nonce
        /\ \A s \in Rooms \ {r} : relaySub'[s] = relaySub[s]
    <2>1. relaySub \in [Rooms -> 0 .. MaxNonce] /\ 0 \in 0 .. MaxNonce  BY MuxTypes DEF MuxInv, MuxShape
    <2>. QED  BY <1>3, <1>4, <1>6, <2>1
  <1>8. ASSUME NEW u \in un
        PROVE  LET v == answered[u]
               IN  /\ v \in [h : Handles, nonce : Nonces, gen : Gens, st : {"sent", "ok", "no"}]
                   /\ v.h = u.h /\ v.nonce = u.nonce /\ v.gen = u.gen
                   /\ \/ v = u
                      \/ u.h = q.h /\ u.gen = gen /\ u.nonce = q.nonce /\ (v.st = "ok" => same)
    <2>1. u \in [h : Handles, nonce : Nonces, gen : Gens, st : {"sent", "ok", "no"}]  BY DEF MuxInv, MuxShape
    <2>. QED  BY <1>5, <2>1
  <1>9. \A k \in Handles : InMap(k)' <=> InMap(k)  BY <1>6 DEF InMap
  <1>10. MuxShape'
    <2>1. un' \subseteq [h : Handles, nonce : Nonces, gen : Gens, st : {"sent", "ok", "no"}]
      BY <1>6, <1>8
    <2>. QED  BY <1>3, <1>6, <1>7, <2>1 DEF MuxInv, MuxShape
  <1>11. MildRoom(r)
    <2>1. \A k \in Of(r) : /\ room[k].nonce = q.nonce => room[k].closed
                           /\ op[k].nonce # q.nonce
      BY <1>3 DEF MessageFits
    <2>2. WireGoes(r)
      BY <1>3, <1>4, <1>7, <2>1 DEF WireGoes
    <2>. QED  BY <1>6, <2>2 DEF MildRoom, Mild
  <1>12. Elsewhere(r)
    <2>1. \A u \in un' : RoomOf[u.h] # r => u \in un
      BY <1>3, <1>6, <1>8
    <2>2. \A u \in un : RoomOf[u.h] # r => u \in un'
      BY <1>3, <1>6, <1>8
    <2>. QED  BY <1>3, <1>6, <1>7, <2>1, <2>2 DEF Elsewhere
  <1>13. ASSUME NEW h \in Of(r) PROVE HandleFits(h)'
    <2>1. h \in Handles /\ RoomOf[h] = r /\ HandleFits(h)  BY MuxTypes DEF Of
    <2>2. Counts(h) => relaySub'[RoomOf[h]] = relaySub[RoomOf[h]] /\ NoSubscribe(RoomOf[h])'
      BY <1>11, <2>1, WireGoesOn DEF MildRoom
    <2>3. LoopsGo(h)  BY <1>6 DEF LoopsGo
    <2>4. OpFits(h)' /\ LeaseFits(h)' /\ HeldFits(h)' /\ Remembered(h)'
      BY <1>6, <1>9, <2>1, <2>2, <2>3, HandleKeeps
    <2>5. NonceFits(h)' /\ GrantFits(h)'  BY <1>11, RoomKeeps
    <2>6. Unstuck(h)'
      <3>1. \A u \in un : answered[u] \in un' /\ answered[u].h = u.h  BY <1>6, <1>8
      <3>. QED  BY <1>6, <1>9, <2>1, <3>1 DEF HandleFits, Unstuck
    <2>. QED  BY <2>4, <2>5, <2>6 DEF HandleFits
  <1>14. Accountable(r)' /\ WireFits(r)'  BY <1>11, RoomKeeps
  <1>15. ASSUME NEW v \in un', RoomOf[v.h] = r PROVE GoodbyeFits(v)'
    <2>1. PICK u \in un : v = answered[u]  BY <1>6
    <2>2. /\ v.h = u.h /\ v.nonce = u.nonce /\ v.gen = u.gen /\ u.h \in Handles /\ GoodbyeFits(u)
          /\ \/ v = u
             \/ u.h = q.h /\ u.gen = gen /\ u.nonce = q.nonce /\ (v.st = "ok" => same)
      BY <1>8, <2>1, MuxTypes
    <2>3. GoodbyeFits(u)'  BY <1>11, <1>15, <2>2, RoomKeeps
    <2>4. CASE v = u  BY <2>3, <2>4
    <2>5. CASE v # u
      <3>1. u.h = q.h /\ u.gen = gen /\ u.nonce = q.nonce /\ (v.st = "ok" => same)  BY <2>2, <2>5
      <3>2. v.st = "ok" => Standing(v)' /\ Spent(r, v.nonce)'
        <4> SUFFICES ASSUME v.st = "ok" PROVE Standing(v)' /\ Spent(r, v.nonce)'
          OBVIOUS
        <4>1. ~Spent(r, u.nonce)  BY <1>4, <3>1 DEF Spent
        <4>2. Standing(u)  BY <1>3, <1>15, <2>2, <3>1, <4>1 DEF GoodbyeFits
        <4>3. Standing(v)'  BY <1>6, <1>9, <2>2, <4>2 DEF Standing
        <4>4. Spent(r, v.nonce)'
          <5> SUFFICES ASSUME NEW i \in DOMAIN wire'[r], wire'[r][i].what = "subscribe"
                       PROVE  wire'[r][i].nonce # v.nonce
            BY <1>7, <2>2, <3>1 DEF Spent
          <5>1. i + 1 \in DOMAIN wire[r] /\ wire'[r][i] = wire[r][i + 1]  BY <1>3
          <5>2. MessageFits(r, i + 1)  BY <5>1, MessageHas
          <5>3. room[u.h].nonce = v.nonce /\ u.h \in Of(r)  BY <1>3, <2>2, <3>1, <4>2 DEF Standing
          <5>. QED  BY <5>1, <5>2, <5>3 DEF MessageFits
        <4>. QED  BY <4>3, <4>4
      <3>3. Standing(u)' => Standing(v)'  BY <2>2 DEF Standing
      <3>4. Spent(RoomOf[u.h], u.nonce)' => Spent(RoomOf[v.h], v.nonce)'  BY <2>2
      <3>. QED  BY <1>3, <1>6, <1>15, <2>2, <2>3, <3>1, <3>2, <3>3, <3>4 DEF GoodbyeFits
    <2>. QED  BY <2>4, <2>5
  <1>. QED  BY <1>10, <1>12, <1>13, <1>14, <1>15, ElsewhereKeeps

\* A handle that is in the map neither before nor after a step.
LEMMA OutsiderKeeps ==
    ASSUME MuxInv, NEW k \in Handles, ~InMap(k), ~InMap(k)', op'[k] = op[k],
           room'[k].made = room[k].made, room'[k].nonce = room[k].nonce, room'[k].lease = room[k].lease,
           UNCHANGED <<link, gen, authGen>>
    PROVE  /\ room[k].nonce = 0 /\ OpFits(k)' /\ LeaseFits(k)' /\ HeldFits(k)' /\ GrantFits(k)'
           /\ Remembered(k)' /\ Unstuck(k)'
  <1>1. OpFits(k) /\ LeaseFits(k)  BY MuxTypes DEF HandleFits
  <1>2. OpFits(k)'  BY <1>1 DEF OpFits
  <1>3. room[k].nonce = 0 /\ room[k].lease = "none"  BY <1>1 DEF LeaseFits
  <1>4. LeaseFits(k)'  BY <1>3 DEF LeaseFits
  <1>. QED  BY <1>2, <1>3, <1>4 DEF HeldFits, Counts, GrantFits, Remembered, Wanted, Unstuck

\* What a step does to the RoomStates of one room when it closes the handle of the map.
Closes(k) ==
    /\ room' \in [Handles -> MuxRoomState]
    /\ \A j \in Handles : RoomOf[j] # RoomOf[k] => room'[j] = room[j]
    /\ \A j \in Of(RoomOf[k]) : j # k =>
          /\ room'[j].made = room[j].made /\ room'[j].closed = room[j].closed
          /\ room'[j].nonce = room[j].nonce /\ room'[j].lease = room[j].lease
    /\ room'[k].made = room[k].made /\ room'[k].closed

\* It leaves the map, with nothing the relay still holds for it.
LEMMA RemovedHolds ==
    ASSUME MuxInv, NEW k \in Handles, InMap(k), rooms' = [rooms EXCEPT ![RoomOf[k]] = NoHandle],
           UNCHANGED <<linkVars, auth, op, loops, wire, relaySub, faults, history>>,
           notice' \in [Rooms -> 0 .. MaxNonce], un' \subseteq un, \A u \in un \ un' : u.h = k,
           Closes(k), room'[k].nonce = 0, room'[k].lease = "none",
           relaySub[RoomOf[k]] # 0 => relaySub[RoomOf[k]] # room[k].nonce,
           \A v \in un' : RoomOf[v.h] = RoomOf[k] /\ link = "up" /\ v.gen = gen
                => Spent(RoomOf[k], v.nonce) /\ v.st # "ok"
    PROVE  MuxInv'
  <1>1. PICK r : r = RoomOf[k]  OBVIOUS
  <1>2. r \in Rooms /\ k \in Of(r) /\ Of(r)' = Of(r) /\ HandleFits(k) /\ NoHandle \notin Handles
    BY <1>1, MuxTypes DEF Of
  <1>3. UNCHANGED <<link, gen, authGen, backlog, online, disposed, auth, op, loops, wire, relaySub, faults,
                    told, dropped, refused>>
    BY DEF linkVars, history
  <1>4. /\ rooms' \in [Rooms -> Handles \cup {NoHandle}] /\ rooms'[r] = NoHandle
        /\ \A s \in Rooms \ {r} : rooms'[s] = rooms[s]
    BY <1>1, <1>2 DEF MuxInv, MuxShape
  <1>5. \A j \in Handles : room'[j].made = room[j].made
    BY <1>1 DEF Closes, Of
  <1>6. MuxShape'
    <2>1. ASSUME NEW s \in Rooms, rooms'[s] # NoHandle PROVE RoomOf[rooms'[s]] = s /\ room'[rooms'[s]].made
      <3>1. rooms'[s] = rooms[s] /\ rooms[s] \in Handles  BY <1>4, <2>1, MuxTypes
      <3>2. RoomOf[rooms[s]] = s /\ room[rooms[s]].made  BY <2>1, <3>1 DEF MuxInv, MuxShape
      <3>3. PICK j \in Handles : j = rooms[s]  BY <3>1
      <3>4. room'[j].made = room[j].made  BY <1>5
      <3>. QED  BY <3>1, <3>2, <3>3, <3>4
    <2>2. room' \in [Handles -> MuxRoomState] /\ un' \subseteq [h : Handles, nonce : Nonces, gen : Gens, st : {"sent", "ok", "no"}]
      BY DEF Closes, MuxInv, MuxShape
    <2>. QED  BY <1>3, <1>4, <2>1, <2>2 DEF MuxInv, MuxShape
  <1>7. Elsewhere(r)
    <2>1. \A j \in Handles : RoomOf[j] # r => room'[j] = room[j]  BY <1>1 DEF Closes
    <2>. QED  BY <1>1, <1>3, <1>4, <2>1 DEF Elsewhere
  <1>8. \A j \in Of(r) : j \in Handles /\ RoomOf[j] = r /\ ~InMap(j)' /\ (j # k => ~InMap(j))
    BY <1>1, <1>2, <1>4 DEF Of, InMap
  <1>9. ASSUME NEW j \in Of(r), j # k
        PROVE  /\ room'[j].made = room[j].made /\ room'[j].closed = room[j].closed
               /\ room'[j].nonce = room[j].nonce /\ room'[j].lease = room[j].lease
    BY <1>1, <1>9 DEF Closes
  <1>10. ASSUME NEW j \in Of(r) PROVE HandleFits(j)' /\ (j # k => room[j].nonce = 0)
    <2>1. j \in Handles /\ RoomOf[j] = r /\ ~InMap(j)' /\ HandleFits(j)  BY <1>8, MuxTypes
    <2>2. NonceFits(j)'
      BY <1>2, <1>3, <1>8, <1>9, <2>1 DEF HandleFits, NonceFits
    <2>3. CASE j # k
      <3>1. ~InMap(j)  BY <1>8, <2>3
      <3>. QED  BY <1>3, <1>9, <2>1, <2>2, <2>3, <3>1, OutsiderKeeps DEF HandleFits
    <2>4. CASE j = k
      <3>1. OpFits(k)'  BY <1>2, <1>3, <1>5 DEF HandleFits, OpFits
      <3>2. LeaseFits(k)'  BY <1>8, <2>4, <1>3 DEF LeaseFits
      <3>3. HeldFits(k)' /\ GrantFits(k)' /\ Remembered(k)' /\ Unstuck(k)'
        BY <2>1, <2>4 DEF HeldFits, Counts, GrantFits, Remembered, Wanted, Unstuck
      <3>. QED  BY <2>2, <2>4, <3>1, <3>2, <3>3 DEF HandleFits
    <2>. QED  BY <2>3, <2>4
  <1>11. Accountable(r)'
    <2>1. SUFFICES ASSUME relaySub[r] # 0 PROVE Accountable(r)'
      BY <1>3 DEF Accountable
    <2>2. PICK h \in Of(r) : \/ InMap(h) /\ room[h].nonce = relaySub[r]
                             \/ op[h].at \in {"granted", "undo"} /\ op[h].nonce = relaySub[r]
                             \/ h \in refused
      BY <1>2, <2>1 DEF MuxInv, Accountable, Of
    <2>3. ~(InMap(h) /\ room[h].nonce = relaySub[r])  BY <1>1, <1>8, <2>1
    <2>. QED  BY <1>3, <1>8, <2>2, <2>3 DEF Accountable
  <1>12. WireFits(r)'
    <2> SUFFICES ASSUME NEW i \in DOMAIN wire[r] PROVE MessageFits(r, i)'
      BY <1>3 DEF WireFits
    <2>1. PICK p : p = wire[r][i]  OBVIOUS
    <2>2. p.nonce # 0 /\ p.h \in Handles /\ RoomOf[p.h] = r /\ p.h \in Of(r) /\ MessageFits(r, i)
      BY <1>2, <2>1, MessageHas
    <2>3. \A j \in Of(r) : room'[j].nonce = p.nonce => room[j].nonce = p.nonce /\ (room[j].closed => room'[j].closed)
      BY <1>9, <2>2
    <2>4. p.what = "subscribe" /\ Awaited(p)' /\ InMap(p.h)'
              => \A j \in DOMAIN wire'[r] : j > i => wire'[r][j].what # "subscribe"
      BY <1>8, <2>2
    <2>5. p.what # "unsubscribe" => \A j \in DOMAIN wire'[r] : j # i => wire'[r][j].nonce # p.nonce
      BY <1>3, <2>1, <2>2 DEF MessageFits
    <2>6. MessageStays(r, i, p)  BY <1>3, <2>2, <2>3, <2>4, <2>5 DEF MessageStays
    <2>. QED  BY <1>2, <1>3, <2>1, <2>6, MessageKeeps
  <1>13. ASSUME NEW v \in un', RoomOf[v.h] = r PROVE GoodbyeFits(v)'
    <2>1. v \in un /\ GoodbyeFits(v)  BY MuxTypes
    <2>2. link = "up" /\ v.gen = gen => Spent(r, v.nonce) /\ v.st # "ok"  BY <1>1, <1>13
    <2>3. Spent(r, v.nonce)' <=> Spent(r, v.nonce)  BY <1>3 DEF Spent
    <2>. QED  BY <1>3, <1>13, <2>1, <2>2, <2>3 DEF GoodbyeFits
  <1>. QED  BY <1>2, <1>6, <1>7, <1>10, <1>11, <1>12, <1>13, ElsewhereKeeps

\* The relay is told, and the handle stands in the map until it answers.
LEMMA AnnouncedHolds ==
    ASSUME MuxInv, NEW k \in Handles, InMap(k), Tells(k), Emit("unsubscribe", k, room[k].nonce),
           un' = un \cup {[h |-> k, nonce |-> room[k].nonce, gen |-> gen, st |-> "sent"]},
           UNCHANGED <<linkVars, auth, rooms, op, loops, relaySub, faults, history>>,
           notice' \in [Rooms -> 0 .. MaxNonce],
           Closes(k), room'[k].nonce = room[k].nonce, room'[k].lease = room[k].lease
    PROVE  MuxInv'
  <1>1. PICK r : r = RoomOf[k]  OBVIOUS
  <1>2. r \in Rooms /\ k \in Of(r) /\ Of(r)' = Of(r) /\ HandleFits(k) /\ room[k] \in MuxRoomState
    BY <1>1, MuxTypes DEF Of
  <1>3. UNCHANGED <<link, gen, authGen, backlog, online, disposed, auth, rooms, op, loops, relaySub, faults,
                    told, dropped, refused>>
    BY DEF linkVars, history
  <1>4. PICK n : n = room[k].nonce  OBVIOUS
  <1>5. n \in Nonces /\ link = "up" /\ authGen = gen
    <2>1. n \in 0 .. MaxNonce /\ n # 0 /\ MaxNonce \in Nat  BY <1>2, <1>4, MuxTypes DEF Tells, MuxRoomState
    <2>. QED  BY <2>1 DEF Nonces, Tells
  <1>6. PICK v : v = [h |-> k, nonce |-> n, gen |-> gen, st |-> "sent"]  OBVIOUS
  <1>7. un' = un \cup {v} /\ v \in [h : Handles, nonce : Nonces, gen : Gens, st : {"sent", "ok", "no"}]
        /\ v.h = k /\ v.nonce = n /\ v.gen = gen /\ v.st = "sent"
    BY <1>4, <1>5, <1>6 DEF MuxInv, MuxShape
  <1>8. PICK q : q = Request("unsubscribe", k, n)  OBVIOUS
  <1>9. /\ wire' \in [Rooms -> Seq(MuxMessage)] /\ Len(wire[r]) \in Nat
        /\ q.what = "unsubscribe" /\ q.h = k /\ q.nonce = n /\ n # 0
        /\ \A s \in Rooms \ {r} : wire'[s] = wire[s]
        /\ \A i \in DOMAIN wire'[r] :
               i \in Nat /\ \/ i \in DOMAIN wire[r] /\ i <= Len(wire[r]) /\ wire'[r][i] = wire[r][i]
                            \/ i = Len(wire[r]) + 1 /\ wire'[r][i] = q
        /\ NoSubscribe(r) => NoSubscribe(r)'
    BY <1>1, <1>4, <1>5, <1>8, Emission
  <1>10. \A j \in Handles : room'[j].made = room[j].made /\ (InMap(j)' <=> InMap(j))
    BY <1>1, <1>3 DEF Closes, Of, InMap
  <1>11. MuxShape'
    <2>1. ASSUME NEW s \in Rooms, rooms'[s] # NoHandle PROVE RoomOf[rooms'[s]] = s /\ room'[rooms'[s]].made
      <3>1. rooms'[s] = rooms[s] /\ rooms[s] \in Handles  BY <1>3, <2>1, MuxTypes
      <3>2. RoomOf[rooms[s]] = s /\ room[rooms[s]].made  BY <2>1, <3>1 DEF MuxInv, MuxShape
      <3>3. PICK j \in Handles : j = rooms[s]  BY <3>1
      <3>4. room'[j].made = room[j].made  BY <1>10
      <3>. QED  BY <3>1, <3>2, <3>3, <3>4
    <2>2. room' \in [Handles -> MuxRoomState] /\ un' \subseteq [h : Handles, nonce : Nonces, gen : Gens, st : {"sent", "ok", "no"}]
      BY <1>7 DEF Closes, MuxInv, MuxShape
    <2>. QED  BY <1>3, <1>5, <1>9, <2>1, <2>2 DEF MuxInv, MuxShape
  <1>12. Elsewhere(r)
    <2>1. \A j \in Handles : RoomOf[j] # r => room'[j] = room[j]  BY <1>1 DEF Closes
    <2>. QED  BY <1>1, <1>3, <1>7, <1>9, <2>1 DEF Elsewhere
  <1>13. \A j \in Of(r) : j \in Handles /\ RoomOf[j] = r /\ (j # k => ~InMap(j) /\ ~InMap(j)')
    BY <1>1, <1>10 DEF Of, InMap
  <1>14. ASSUME NEW j \in Of(r), j # k
         PROVE  /\ room'[j].made = room[j].made /\ room'[j].closed = room[j].closed
                /\ room'[j].nonce = room[j].nonce /\ room'[j].lease = room[j].lease
    BY <1>1, <1>14 DEF Closes
  <1>15. ASSUME NEW j \in Of(r) PROVE HandleFits(j)' /\ (j # k => room[j].nonce = 0)
    <2>1. j \in Handles /\ RoomOf[j] = r /\ HandleFits(j)  BY <1>13, MuxTypes
    <2>2. NonceFits(j)'
      BY <1>2, <1>3, <1>13, <1>14, <2>1 DEF HandleFits, NonceFits
    <2>3. CASE j # k
      <3>1. ~InMap(j) /\ ~InMap(j)'  BY <1>13, <2>3
      <3>. QED  BY <1>3, <1>14, <2>1, <2>2, <2>3, <3>1, OutsiderKeeps DEF HandleFits
    <2>4. CASE j = k
      <3>1. OpFits(k)'  BY <1>2, <1>3, <1>10 DEF HandleFits, OpFits
      <3>2. LeaseFits(k)'  BY <1>2, <1>3, <1>10 DEF HandleFits, LeaseFits, Closes
      <3>3. HeldFits(k)' /\ Remembered(k)'
        BY DEF HeldFits, Counts, Remembered, Wanted, Closes
      <3>4. GrantFits(k)'
        BY <1>1, <1>2, <1>3, <1>9, <1>10 DEF HandleFits, GrantFits
      <3>5. Unstuck(k)'  BY <1>7 DEF Unstuck
      <3>. QED  BY <2>2, <2>4, <3>1, <3>2, <3>3, <3>4, <3>5 DEF HandleFits
    <2>. QED  BY <2>3, <2>4
  <1>16. Accountable(r)'
    <2>1. \A j \in Handles : RoomOf[j] = r => room'[j].nonce = room[j].nonce
      BY <1>14 DEF Of
    <2>. QED  BY <1>2, <1>3, <1>10, <2>1 DEF MuxInv, Accountable
  <1>17. WireFits(r)'
    <2> SUFFICES ASSUME NEW i \in DOMAIN wire'[r] PROVE MessageFits(r, i)'
      BY DEF WireFits
    <2>1. CASE i \in DOMAIN wire[r] /\ i <= Len(wire[r]) /\ wire'[r][i] = wire[r][i]
      <3>1. PICK p : p = wire[r][i]  OBVIOUS
      <3>2. p.nonce # 0 /\ p.h \in Handles /\ RoomOf[p.h] = r /\ p.h \in Of(r) /\ MessageFits(r, i)
        BY <1>2, <2>1, <3>1, MessageHas
      <3>3. \A j \in Of(r) : room'[j].nonce = p.nonce => room[j].nonce = p.nonce /\ (room[j].closed => room'[j].closed)
        BY <1>14 DEF Closes
      <3>4. p.what = "subscribe" /\ Awaited(p)' /\ InMap(p.h)'
                => \A j \in DOMAIN wire'[r] : j > i => wire'[r][j].what # "subscribe"
        <4>1. Awaited(p)' => Awaited(p)  BY <1>3 DEF Awaited
        <4>. QED  BY <1>9, <1>10, <3>1, <3>2, <4>1 DEF MessageFits
      <3>5. p.what # "unsubscribe" => \A j \in DOMAIN wire'[r] : j # i => wire'[r][j].nonce # p.nonce
        <4>1. p.what # "unsubscribe" => p.nonce # n  BY <1>2, <1>4, <3>1, <3>2 DEF MessageFits
        <4>. QED  BY <1>9, <3>1, <3>2, <4>1 DEF MessageFits
      <3>6. MessageStays(r, i, p)  BY <1>3, <3>2, <3>3, <3>4, <3>5 DEF MessageStays
      <3>. QED  BY <1>2, <2>1, <3>1, <3>6, MessageKeeps
    <2>2. CASE i = Len(wire[r]) + 1 /\ wire'[r][i] = q
      <3>1. \A j \in Of(r) : op'[j].nonce # n
        <4> SUFFICES ASSUME NEW j \in Of(r), op[j].nonce = n PROVE FALSE
          BY <1>3
        <4>1. NonceFits(j) /\ RoomOf[j] = r  BY <1>13, MuxTypes DEF HandleFits
        <4>. QED  BY <1>2, <1>4, <1>9, <4>1 DEF NonceFits
      <3>2. \A j \in Of(r) : room'[j].nonce = n => j = k
        BY <1>9, <1>14, <1>15
      <3>. QED  BY <1>1, <1>2, <1>9, <2>2, <3>1, <3>2 DEF MessageFits, Closes
    <2>. QED  BY <1>9, <2>1, <2>2
  <1>18. ASSUME NEW u \in un', RoomOf[u.h] = r PROVE GoodbyeFits(u)'
    <2>1. CASE u \in un
      <3>1. GoodbyeFits(u) /\ u.h \in Of(r)  BY <1>18, <2>1, MuxTypes DEF Of
      <3>2. Standing(u) => Standing(u)'  BY <1>10, <1>13, <1>14, <3>1 DEF Standing, Closes
      <3>3. Spent(r, u.nonce) => Spent(r, u.nonce)'  BY <1>3, <1>9 DEF Spent
      <3>. QED  BY <1>3, <1>18, <3>1, <3>2, <3>3 DEF GoodbyeFits
    <2>2. CASE u = v
      <3>1. Standing(v)'  BY <1>4, <1>7, <1>10 DEF Standing, Closes
      <3>2. gen <= gen  BY MuxTypes
      <3>. QED  BY <1>3, <1>7, <2>2, <3>1, <3>2 DEF GoodbyeFits
    <2>. QED  BY <1>7, <2>1, <2>2
  <1>. QED  BY <1>2, <1>11, <1>12, <1>15, <1>16, <1>17, <1>18, ElsewhereKeeps

\* unsubscribe() closes a RoomState at once; its nonce and lease stay until it leaves
\* the map.
LEMMA ClosedFits ==
    ASSUME NEW R \in MuxRoomState, MaxNonce \in Nat
    PROVE  /\ Closed(R) \in MuxRoomState /\ Closed(R).made = R.made /\ Closed(R).closed
           /\ Closed(R).nonce = R.nonce /\ Closed(R).lease = R.lease
           /\ Gone(R) \in MuxRoomState /\ Gone(R).made = R.made /\ Gone(R).closed
           /\ Gone(R).nonce = 0 /\ Gone(R).lease = "none"
  <1>1. PICK c : c = Closed(R)  OBVIOUS
  <1>2. c \in MuxRoomState /\ c.nonce = R.nonce /\ c.lease = R.lease
    BY <1>1 DEF Closed, MuxRoomState
  <1>3. c.made = R.made
    BY <1>1 DEF Closed, MuxRoomState
  <1>4. c.closed = TRUE
    BY <1>1 DEF Closed, MuxRoomState
  <1>5. PICK g : g = Gone(R)  OBVIOUS
  <1>6. g = [c EXCEPT !.nonce = 0, !.lease = "none", !.cfg = FALSE, !.blocked = FALSE]
    BY <1>1, <1>5 DEF Gone
  <1>7. 0 \in 0 .. MaxNonce  OBVIOUS
  <1>8. g \in MuxRoomState /\ g.nonce = 0 /\ g.lease = "none"
    BY <1>2, <1>6, <1>7 DEF MuxRoomState
  <1>9. g.made = c.made /\ g.closed = c.closed
    BY <1>2, <1>6 DEF MuxRoomState
  <1>. QED  BY <1>1, <1>2, <1>3, <1>4, <1>5, <1>8, <1>9

\* unsubscribe(), whoever calls it.
LEMMA UnsubscribesHold ==
    ASSUME MuxInv, NEW k \in Handles, InMap(k), Unsubscribe(k),
           UNCHANGED <<linkVars, auth, op, loops, relaySub, faults, history>>,
           notice' \in [Rooms -> 0 .. MaxNonce], Closes(k),
           room'[k].nonce = (IF Tells(k) THEN room[k].nonce ELSE 0),
           room'[k].lease = (IF Tells(k) THEN room[k].lease ELSE "none")
    PROVE  MuxInv'
  <1>1. CASE Tells(k)
    BY <1>1, AnnouncedHolds DEF Unsubscribe
  <1>2. CASE ~Tells(k)
    <2>1. rooms' = [rooms EXCEPT ![RoomOf[k]] = NoHandle] /\ UNCHANGED <<un, wire>>
      BY <1>2 DEF Unsubscribe
    <2>2. room[k].nonce = 0
      <3>1. LeaseFits(k)  BY MuxTypes DEF HandleFits
      <3>. QED  BY <1>2, <3>1 DEF LeaseFits, Tells
    <2>3. ASSUME NEW v \in un, RoomOf[v.h] = RoomOf[k], link = "up", v.gen = gen
          PROVE  Spent(RoomOf[k], v.nonce) /\ v.st # "ok"
      <3>1. GoodbyeFits(v) /\ v.h \in Handles /\ v.nonce # 0  BY MuxTypes
      <3>2. ~Standing(v)
        <4>1. InMap(v.h) => v.h = k  BY <2>3 DEF InMap
        <4>. QED  BY <2>2, <3>1, <4>1 DEF Standing
      <3>. QED  BY <2>3, <3>1, <3>2 DEF GoodbyeFits
    <2>. QED  BY <1>2, <2>1, <2>2, <2>3, RemovedHolds
  <1>. QED  BY <1>1, <1>2

\* A handle out of the map is marked as left by its manager.
LEMMA LeavesHold ==
    ASSUME MuxInv, NEW h \in Handles, ~InMap(h), room' = [room EXCEPT ![h].left = TRUE],
           UNCHANGED <<rooms, un, wire, linkVars, auth, op, loops, relaySub, notice, faults, history>>
    PROVE  MuxInv'
  <1>1. UNCHANGED <<link, gen, authGen, online, disposed, auth, rooms, op, un, loops, wire, relaySub, notice, faults,
                    told, dropped, refused>>
    BY DEF linkVars, history
  <1>2. room \in [Handles -> MuxRoomState]  BY DEF MuxInv, MuxShape
  <1>3. PICK R : R = [room[h] EXCEPT !.left = TRUE]  OBVIOUS
  <1>4. /\ R \in MuxRoomState /\ R.made = room[h].made /\ R.closed = room[h].closed
        /\ R.nonce = room[h].nonce /\ R.lease = room[h].lease
    BY <1>2, <1>3 DEF MuxRoomState
  <1>5. /\ room' \in [Handles -> MuxRoomState] /\ room'[h] = R
        /\ \A k \in Handles \ {h} : room'[k] = room[k]
    BY <1>2, <1>3, <1>4
  <1>6. \A k \in Handles : /\ room'[k].made = room[k].made /\ room'[k].closed = room[k].closed
                           /\ room'[k].nonce = room[k].nonce /\ (InMap(k)' <=> InMap(k))
    BY <1>1, <1>4, <1>5 DEF InMap
  <1>7. MuxShape'
    <2>1. \A r \in Rooms : rooms[r] # NoHandle => rooms[r] \in Handles /\ room'[rooms[r]].made = room[rooms[r]].made
      BY <1>6, MuxTypes
    <2>. QED  BY <1>1, <1>5, <2>1 DEF MuxInv, MuxShape
  <1>8. Quiet
    BY <1>1, <1>6, WireRests DEF Quiet, Mild
  <1>9. ASSUME NEW k \in Handles PROVE OpFits(k)' /\ LeaseFits(k)' /\ HeldFits(k)' /\ Remembered(k)'
    <2>1. CASE k = h
      BY <1>1, <1>4, <1>5, <1>6, <2>1, OutsiderKeeps
    <2>2. CASE k # h
      <3>1. Counts(k) => relaySub'[RoomOf[k]] = relaySub[RoomOf[k]] /\ NoSubscribe(RoomOf[k])'
        BY <1>1, WireRests
      <3>2. LoopsGo(k)  BY <1>1 DEF LoopsGo
      <3>. QED  BY <1>1, <1>5, <1>6, <2>2, <3>1, <3>2, HandleKeeps
    <2>. QED  BY <2>1, <2>2
  <1>. QED  BY <1>7, <1>8, <1>9, QuietKeeps

\* The manager closes, the connection is disposed of, or the relay has suspended a room.
LEMMA CloseRoomHolds ==
    ASSUME MuxInv, NEW h \in Handles, CloseRoom(h)
    PROVE  MuxInv'
  <1>1. PICK k : k = rooms[RoomOf[h]]  OBVIOUS
  <1>2. /\ room \in [Handles -> MuxRoomState] /\ notice \in [Rooms -> 0 .. MaxNonce]
        /\ RoomOf[h] \in Rooms /\ h # NoHandle /\ MaxNonce \in Nat /\ k \in Handles \cup {NoHandle}
        /\ (k # NoHandle => RoomOf[k] = RoomOf[h])
    BY <1>1, MuxTypes DEF MuxInv, MuxShape
  <1>3. UNCHANGED <<linkVars, auth, op, loops, relaySub, notice, faults, history>>
    BY DEF CloseRoom
  <1>4. CASE k = NoHandle
    <2>1. ~InMap(h)  BY <1>1, <1>2, <1>4 DEF InMap
    <2>. QED  BY <1>1, <1>3, <1>4, <2>1, LeavesHold DEF CloseRoom
  <1>5. CASE k # NoHandle
    <2>1. k \in Handles /\ RoomOf[k] = RoomOf[h] /\ InMap(k)  BY <1>1, <1>2, <1>5 DEF InMap
    <2>2. PICK R : R = IF Tells(k) THEN Closed(room[k]) ELSE Gone(room[k])  OBVIOUS
    <2>3. room' = [room EXCEPT ![k] = R, ![h].left = TRUE] /\ Unsubscribe(k)
      BY <1>1, <1>5, <2>2 DEF CloseRoom
    <2>4. /\ R \in MuxRoomState /\ R.made = room[k].made /\ R.closed
          /\ R.nonce = (IF Tells(k) THEN room[k].nonce ELSE 0)
          /\ R.lease = (IF Tells(k) THEN room[k].lease ELSE "none")
      BY <1>2, <2>1, <2>2, ClosedFits
    <2>5. PICK m : m = [room EXCEPT ![k] = R]  OBVIOUS
    <2>6. m \in [Handles -> MuxRoomState] /\ m[k] = R /\ \A j \in Handles \ {k} : m[j] = room[j]
      BY <1>2, <2>1, <2>4, <2>5
    <2>7. PICK L : L = [m[h] EXCEPT !.left = TRUE]  OBVIOUS
    <2>8. /\ L \in MuxRoomState /\ L.made = m[h].made /\ L.closed = m[h].closed
          /\ L.nonce = m[h].nonce /\ L.lease = m[h].lease
      BY <2>6, <2>7 DEF MuxRoomState
    <2>9. room' = [m EXCEPT ![h] = L]
      BY <2>3, <2>5, <2>7
    <2>10. room' \in [Handles -> MuxRoomState] /\ room'[h] = L /\ \A j \in Handles \ {h} : room'[j] = m[j]
      BY <2>6, <2>8, <2>9
    <2>11. \A j \in Handles : /\ room'[j].made = m[j].made /\ room'[j].closed = m[j].closed
                              /\ room'[j].nonce = m[j].nonce /\ room'[j].lease = m[j].lease
      BY <2>8, <2>10
    <2>12. Closes(k)
      <3>1. \A j \in Handles : RoomOf[j] # RoomOf[k] => room'[j] = room[j]
        BY <2>1, <2>6, <2>10
      <3>2. \A j \in Of(RoomOf[k]) : j \in Handles  BY DEF Of
      <3>3. room'[k].made = room[k].made /\ room'[k].closed
        BY <2>1, <2>4, <2>6, <2>11
      <3>. QED  BY <2>6, <2>10, <2>11, <3>1, <3>2, <3>3 DEF Closes
    <2>13. /\ room'[k].nonce = (IF Tells(k) THEN room[k].nonce ELSE 0)
           /\ room'[k].lease = (IF Tells(k) THEN room[k].lease ELSE "none")
      BY <2>1, <2>4, <2>6, <2>11
    <2>. QED  BY <1>2, <1>3, <2>1, <2>3, <2>12, <2>13, UnsubscribesHold
  <1>. QED  BY <1>4, <1>5

\* A room closed by its manager or by a notice of the relay, told to the relay or not.
LEMMA SuspendsHold ==
    ASSUME MuxInv, NEW k \in Handles, InMap(k), Unsubscribe(k),
           room' = [room EXCEPT ![k] = IF Tells(k) THEN Closed(@) ELSE Gone(@)],
           UNCHANGED <<linkVars, auth, op, loops, relaySub, faults, history>>,
           notice' \in [Rooms -> 0 .. MaxNonce]
    PROVE  MuxInv'
  <1>1. room \in [Handles -> MuxRoomState] /\ MaxNonce \in Nat  BY MuxTypes DEF MuxInv, MuxShape
  <1>2. PICK R : R = IF Tells(k) THEN Closed(room[k]) ELSE Gone(room[k])  OBVIOUS
  <1>3. /\ R \in MuxRoomState /\ R.made = room[k].made /\ R.closed
        /\ R.nonce = (IF Tells(k) THEN room[k].nonce ELSE 0)
        /\ R.lease = (IF Tells(k) THEN room[k].lease ELSE "none")
    BY <1>1, <1>2, ClosedFits
  <1>4. room' \in [Handles -> MuxRoomState] /\ room'[k] = R /\ \A j \in Handles \ {k} : room'[j] = room[j]
    BY <1>1, <1>2, <1>3
  <1>5. Closes(k)
    <2>1. \A j \in Of(RoomOf[k]) : j \in Handles  BY DEF Of
    <2>. QED  BY <1>3, <1>4, <2>1 DEF Closes
  <1>6. /\ room'[k].nonce = (IF Tells(k) THEN room[k].nonce ELSE 0)
        /\ room'[k].lease = (IF Tells(k) THEN room[k].lease ELSE "none")
    BY <1>3, <1>4
  <1>. QED  BY <1>5, <1>6, UnsubscribesHold

\* The two callers of unsubscribe() for a handle of the map.
LEMMA UnsubscribersHold ==
    ASSUME MuxInv, (\E h \in Handles : DisposeRoom(h)) \/ (\E r \in Rooms : AcceptRoomSuspended(r))
    PROVE  MuxInv'
  <1>1. notice \in [Rooms -> 0 .. MaxNonce] /\ MaxNonce \in Nat /\ faults \in 0 .. MaxFaults
    BY MuxTypes DEF MuxInv, MuxShape
  <1>2. ASSUME NEW h \in Handles, DisposeRoom(h) PROVE MuxInv'
    BY <1>1, <1>2, SuspendsHold DEF DisposeRoom
  <1>3. ASSUME NEW r \in Rooms, AcceptRoomSuspended(r) PROVE MuxInv'
    <2>1. PICK k : k = rooms[r]  OBVIOUS
    <2>2. notice' \in [Rooms -> 0 .. MaxNonce]
      BY <1>1, <1>3 DEF AcceptRoomSuspended
    <2>3. UNCHANGED <<linkVars, auth, op, loops, relaySub, faults, history>>
      BY <1>3 DEF AcceptRoomSuspended
    <2>4. CASE k # NoHandle /\ authGen = gen /\ room[k].nonce = notice[r]
      <3>1. k \in Handles /\ InMap(k)  BY <2>1, <2>4, MuxTypes DEF InMap, MuxInv, MuxShape
      <3>2. room' = [room EXCEPT ![k] = IF Tells(k) THEN Closed(@) ELSE Gone(@)] /\ Unsubscribe(k)
        BY <1>3, <2>1, <2>4 DEF AcceptRoomSuspended
      <3>. QED  BY <2>2, <2>3, <3>1, <3>2, SuspendsHold
    <2>5. CASE ~(k # NoHandle /\ authGen = gen /\ room[k].nonce = notice[r])
      <3>1. UNCHANGED <<room, rooms, un, wire>>  BY <1>3, <2>1, <2>5 DEF AcceptRoomSuspended
      <3>. QED  BY <1>1, <2>2, <2>3, <3>1, NoticeHolds
    <2>. QED  BY <2>4, <2>5
  <1>. QED  BY <1>2, <1>3

\* The relay has agreed: the handle leaves the map.
LEMMA UnsubscribedHolds ==
    ASSUME MuxInv, NEW u \in un, Unsubscribed(u)
    PROVE  MuxInv'
  <1>1. PICK k : k = u.h  OBVIOUS
  <1>2. /\ u \in [h : Handles, nonce : Nonces, gen : Gens, st : {"sent", "ok", "no"}] /\ u.st = "ok" /\ GoodbyeFits(u)
        /\ k \in Handles /\ RoomOf[k] \in Rooms /\ u.nonce # 0
        /\ room \in [Handles -> MuxRoomState] /\ MaxNonce \in Nat /\ notice \in [Rooms -> 0 .. MaxNonce]
    BY <1>1, MuxTypes DEF Unsubscribed, MuxInv, MuxShape
  <1>3. /\ link = "up" /\ u.gen = gen /\ InMap(k) /\ room[k].nonce = u.nonce /\ Spent(RoomOf[k], u.nonce)
    BY <1>1, <1>2 DEF GoodbyeFits, Standing
  <1>4. /\ un' = un \ {u} /\ rooms' = [rooms EXCEPT ![RoomOf[k]] = NoHandle]
        /\ room' = [h \in Handles |-> IF InMap(h) /\ RoomOf[h] = RoomOf[k] THEN Gone(room[h]) ELSE room[h]]
        /\ UNCHANGED <<plan, linkVars, auth, op, loops, relayVars, faults, history>>
    BY <1>1 DEF Unsubscribed
  <1>5. /\ Gone(room[k]) \in MuxRoomState /\ Gone(room[k]).made = room[k].made /\ Gone(room[k]).closed
        /\ Gone(room[k]).nonce = 0 /\ Gone(room[k]).lease = "none"
    BY <1>2, ClosedFits
  <1>6. room'[k] = Gone(room[k]) /\ \A j \in Handles \ {k} : room'[j] = room[j]
    <2>1. \A j \in Handles : InMap(j) /\ RoomOf[j] = RoomOf[k] => j = k  BY <1>3 DEF InMap
    <2>. QED  BY <1>2, <1>3, <1>4, <2>1
  <1>7. Closes(k)
    <2>1. \A j \in Handles : room'[j] \in MuxRoomState  BY <1>2, <1>5, <1>6
    <2>2. room' \in [Handles -> MuxRoomState]  BY <1>4, <2>1
    <2>3. \A j \in Of(RoomOf[k]) : j \in Handles  BY DEF Of
    <2>. QED  BY <1>5, <1>6, <2>2, <2>3 DEF Closes
  <1>8. ASSUME NEW v \in un', RoomOf[v.h] = RoomOf[k], link = "up", v.gen = gen
        PROVE  Spent(RoomOf[k], v.nonce) /\ v.st # "ok"
    <2>1. /\ v \in un /\ v # u /\ GoodbyeFits(v) /\ v.h \in Handles
          /\ v \in [h : Handles, nonce : Nonces, gen : Gens, st : {"sent", "ok", "no"}]
      BY <1>4, <1>8, MuxTypes DEF MuxInv, MuxShape
    <2>2. Standing(v) => v.h = k /\ v.nonce = u.nonce
      BY <1>3, <1>8 DEF Standing, InMap
    <2>3. v.st = "ok" => v = u
      BY <1>1, <1>2, <1>3, <1>8, <2>1, <2>2 DEF GoodbyeFits
    <2>4. Spent(RoomOf[k], v.nonce)
      BY <1>3, <1>8, <2>1, <2>2 DEF GoodbyeFits
    <2>. QED  BY <2>1, <2>3, <2>4
  <1>9. room'[k].nonce = 0 /\ room'[k].lease = "none" /\ UNCHANGED <<wire, relaySub, notice>>
    BY <1>4, <1>5, <1>6 DEF relayVars
  <1>10. relaySub[RoomOf[k]] # room[k].nonce  BY <1>3 DEF Spent
  <1>. QED  BY <1>1, <1>2, <1>3, <1>4, <1>7, <1>8, <1>9, <1>10, RemovedHolds

\* It does not agree, or nobody hears it: the handle is among the refused.
LEMMA UnsubscribeFailsHolds ==
    ASSUME MuxInv, NEW u \in un, UnsubscribeFails(u)
    PROVE  MuxInv'
  <1>1. PICK r : r = RoomOf[u.h]  OBVIOUS
  <1>2. u.h \in Handles /\ r \in Rooms /\ faults \in 0 .. MaxFaults /\ MaxFaults \in Nat
    BY <1>1, MuxTypes DEF MuxInv, MuxShape
  <1>3. /\ un' = un \ {u} /\ refused' = refused \cup {u.h} /\ faults' \in 0 .. MaxFaults
        /\ UNCHANGED <<plan, link, gen, authGen, backlog, online, disposed, auth, rooms, room, op, loops,
                       wire, relaySub, notice, told, dropped>>
    <2>1. faults' \in 0 .. MaxFaults  BY <1>2 DEF UnsubscribeFails, Fault
    <2>. QED  BY <2>1 DEF UnsubscribeFails, linkVars, relayVars
  <1>4. MuxShape'
    BY <1>2, <1>3 DEF MuxInv, MuxShape
  <1>5. Elsewhere(r)
    BY <1>1, <1>3 DEF Elsewhere
  <1>6. MildRoom(r)
    BY <1>3 DEF MildRoom, Mild, WireGoes
  <1>7. Accountable(r)' /\ WireFits(r)'  BY <1>2, <1>6, RoomKeeps
  <1>8. ASSUME NEW h \in Of(r) PROVE HandleFits(h)'
    <2>1. h \in Handles /\ RoomOf[h] = r /\ HandleFits(h) /\ (InMap(h)' <=> InMap(h))
      BY <1>3, MuxTypes DEF Of, InMap
    <2>2. Counts(h) => relaySub'[RoomOf[h]] = relaySub[RoomOf[h]] /\ NoSubscribe(RoomOf[h])'
      BY <1>3, <2>1, WireRests
    <2>3. LoopsGo(h)  BY <1>3 DEF LoopsGo
    <2>4. OpFits(h)' /\ LeaseFits(h)' /\ HeldFits(h)' /\ Remembered(h)'
      BY <1>3, <2>1, <2>2, <2>3, HandleKeeps
    <2>5. NonceFits(h)' /\ GrantFits(h)'  BY <1>2, <1>6, RoomKeeps
    <2>6. Unstuck(h)'
      BY <1>3, <2>1 DEF HandleFits, Unstuck
    <2>. QED  BY <2>4, <2>5, <2>6 DEF HandleFits
  <1>9. ASSUME NEW v \in un', RoomOf[v.h] = r PROVE GoodbyeFits(v)'
    BY <1>2, <1>3, <1>6, <1>9, RoomKeeps
  <1>. QED  BY <1>2, <1>4, <1>5, <1>7, <1>8, <1>9, ElsewhereKeeps

\* A handle is made, and takes its room's place in the map, which is free.
LEMMA CreateRoomHolds ==
    ASSUME MuxInv, NEW h \in Handles, CreateRoom(h)
    PROVE  MuxInv'
  <1>1. PICK r : r = RoomOf[h]  OBVIOUS
  <1>2. /\ r \in Rooms /\ h \in Of(r) /\ Of(r)' = Of(r) /\ HandleFits(h) /\ h # NoHandle
        /\ room \in [Handles -> MuxRoomState] /\ rooms \in [Rooms -> Handles \cup {NoHandle}]
    BY <1>1, MuxTypes DEF Of, MuxInv, MuxShape
  <1>3. /\ ~room[h].made /\ rooms[r] = NoHandle
        /\ rooms' = [rooms EXCEPT ![r] = h] /\ room' = [room EXCEPT ![h] = NewRoom]
        /\ UNCHANGED <<link, gen, authGen, backlog, online, disposed, auth, op, un, loops, wire, relaySub, notice,
                       faults, told, dropped, refused>>
    BY <1>1 DEF CreateRoom, linkVars, relayVars, history
  <1>4. op[h] = NoOp /\ NoOp.nonce = 0 /\ NoOp.at = "none" /\ NoOp.kind = "none" /\ NoOp.gen = 0
    BY <1>2, <1>3 DEF HandleFits, OpFits, NoOp
  <1>5. /\ NewRoom \in MuxRoomState /\ NewRoom.made = TRUE /\ NewRoom.closed = FALSE /\ NewRoom.cfg = FALSE
        /\ NewRoom.nonce = 0 /\ NewRoom.lease = "none" /\ NewRoom.timer = "none"
    <2>1. 0 \in 0 .. MaxNonce  BY MuxTypes
    <2>. QED  BY <2>1 DEF NewRoom, MuxRoomState
  <1>6. /\ room' \in [Handles -> MuxRoomState] /\ room'[h] = NewRoom /\ \A k \in Handles \ {h} : room'[k] = room[k]
        /\ rooms' \in [Rooms -> Handles \cup {NoHandle}] /\ rooms'[r] = h /\ \A s \in Rooms \ {r} : rooms'[s] = rooms[s]
    BY <1>2, <1>3, <1>5
  <1>7. MuxShape'
    <2>1. ASSUME NEW s \in Rooms, rooms'[s] # NoHandle PROVE RoomOf[rooms'[s]] = s /\ room'[rooms'[s]].made
      <3>1. CASE s = r  BY <1>1, <1>5, <1>6, <3>1
      <3>2. CASE s # r
        <4>1. rooms'[s] = rooms[s] /\ rooms[s] \in Handles  BY <1>6, <2>1, <3>2, MuxTypes
        <4>2. RoomOf[rooms[s]] = s /\ room[rooms[s]].made  BY <2>1, <4>1 DEF MuxInv, MuxShape
        <4>3. rooms[s] # h  BY <1>1, <3>2, <4>2
        <4>. QED  BY <1>6, <4>1, <4>2, <4>3
      <3>. QED  BY <3>1, <3>2
    <2>. QED  BY <1>3, <1>6, <2>1 DEF MuxInv, MuxShape
  <1>8. Elsewhere(r)
    BY <1>1, <1>3, <1>6 DEF Elsewhere
  <1>9. \A k \in Of(r) : k \in Handles /\ RoomOf[k] = r /\ ~InMap(k) /\ (k # h => ~InMap(k)')
    <2>1. \A k \in Of(r) : k \in Handles /\ RoomOf[k] = r /\ k # NoHandle  BY MuxTypes DEF Of
    <2>. QED  BY <1>3, <1>6, <2>1 DEF InMap
  <1>10. ASSUME NEW k \in Of(r) PROVE HandleFits(k)'
    <2>1. k \in Handles /\ RoomOf[k] = r /\ HandleFits(k) /\ ~InMap(k)  BY <1>9, MuxTypes
    <2>2. NonceFits(k)'
      BY <1>2, <1>3, <1>4, <1>5, <1>6, <1>9, <2>1 DEF HandleFits, NonceFits
    <2>3. CASE k # h
      BY <1>3, <1>6, <1>9, <2>1, <2>2, <2>3, OutsiderKeeps DEF HandleFits
    <2>4. CASE k = h
      <3>1. OpFits(h)'
        <4>1. OpFits(h)  BY <1>2 DEF HandleFits
        <4>. QED  BY <1>3, <1>4, <4>1 DEF OpFits
      <3>2. LeaseFits(h)'
        BY <1>3, <1>4, <1>5, <1>6 DEF LeaseFits
      <3>3. HeldFits(h)' /\ GrantFits(h)' /\ Remembered(h)' /\ Unstuck(h)'
        BY <1>3, <1>4, <1>5, <1>6 DEF HeldFits, Counts, GrantFits, Remembered, Wanted, Unstuck
      <3>. QED  BY <2>2, <2>4, <3>1, <3>2, <3>3 DEF HandleFits
    <2>. QED  BY <2>3, <2>4
  <1>11. Accountable(r)'
    <2>1. SUFFICES ASSUME relaySub[r] # 0 PROVE Accountable(r)'
      BY <1>3 DEF Accountable
    <2>2. PICK k \in Of(r) : \/ InMap(k) /\ room[k].nonce = relaySub[r]
                             \/ op[k].at \in {"granted", "undo"} /\ op[k].nonce = relaySub[r]
                             \/ k \in refused
      BY <1>2, <2>1 DEF MuxInv, Accountable, Of
    <2>. QED  BY <1>3, <1>9, <2>2 DEF Accountable
  <1>12. WireFits(r)'
    <2> SUFFICES ASSUME NEW i \in DOMAIN wire[r] PROVE MessageFits(r, i)'
      BY <1>3 DEF WireFits
    <2>1. PICK p : p = wire[r][i]  OBVIOUS
    <2>2. p.nonce # 0 /\ p.h \in Handles /\ RoomOf[p.h] = r /\ p.h \in Of(r) /\ MessageFits(r, i)
      BY <1>2, <2>1, MessageHas
    <2>3. \A k \in Of(r) : room'[k].nonce = p.nonce => room[k].nonce = p.nonce /\ (room[k].closed => room'[k].closed)
      BY <1>5, <1>6, <1>9, <2>2
    <2>4. p.what = "subscribe" /\ Awaited(p)' /\ InMap(p.h)'
              => \A k \in DOMAIN wire'[r] : k > i => wire'[r][k].what # "subscribe"
      <3>1. InMap(p.h)' => p.h = h  BY <1>9, <2>2
      <3>. QED  BY <1>3, <1>4, <3>1 DEF Awaited
    <2>5. p.what # "unsubscribe" => \A k \in DOMAIN wire'[r] : k # i => wire'[r][k].nonce # p.nonce
      BY <1>3, <2>1, <2>2 DEF MessageFits
    <2>6. MessageStays(r, i, p)  BY <1>3, <2>2, <2>3, <2>4, <2>5 DEF MessageStays
    <2>. QED  BY <1>2, <1>3, <2>1, <2>6, MessageKeeps
  <1>13. ASSUME NEW v \in un, RoomOf[v.h] = r PROVE GoodbyeFits(v)'
    <2>1. GoodbyeFits(v) /\ v.h \in Handles  BY MuxTypes
    <2>2. ~Standing(v)  BY <1>9, <1>13, <2>1 DEF Standing, Of
    <2>3. Spent(r, v.nonce) => Spent(r, v.nonce)'  BY <1>3 DEF Spent
    <2>. QED  BY <1>3, <1>13, <2>1, <2>2, <2>3 DEF GoodbyeFits
  <1>. QED  BY <1>2, <1>3, <1>7, <1>8, <1>10, <1>11, <1>12, <1>13, ElsewhereKeeps

\* The steps of the multiplexed connection, one by one.
LEMMA HandleStepsHold ==
    ASSUME MuxInv, NEW h \in Handles,
           \/ MuxCaller(h) \/ MuxStep(h) \/ Lapse(h) \/ RefreshRoom(h)
           \/ \E err \in {"transient", "terminal"} : ProofFails(h, err)
    PROVE  MuxInv'
  <1>1. CASE CreateRoom(h)  BY <1>1, CreateRoomHolds
  <1>2. CASE Subscribe(h) \/ Connected(h)  BY <1>2, EntersHolds
  <1>3. CASE CloseRoom(h)  BY <1>3, CloseRoomHolds
  <1>4. CASE ConnectFails(h) \/ AnswerLost(h) \/ Replayed(h)  BY <1>4, OperationEnds
  <1>5. CASE Proof(h)  BY <1>5, ProofHolds, OperationEnds
  <1>6. CASE Granted(h)  BY <1>6, GrantedHolds, UndoHolds
  <1>7. CASE TimerFires(h) \/ RefreshRoom(h)  BY <1>7, RenewsHolds
  <1>8. CASE DisposeRoom(h)  BY <1>8, UnsubscribersHold
  <1>9. CASE Lapse(h)  BY <1>9, IdlersHold
  <1>10. CASE \E err \in {"transient", "terminal"} : ProofFails(h, err)  BY <1>10, OperationEnds
  <1>. QED
    BY <1>1, <1>2, <1>3, <1>4, <1>5, <1>6, <1>7, <1>8, <1>9, <1>10 DEF MuxCaller, MuxStep

\* Every step of the connection, and a step of something else, keeps the invariant.
LEMMA MuxStepsHold ==
    ASSUME MuxInv, [MuxNext]_muxVars
    PROVE  MuxInv'
  <1>1. ASSUME NEW h \in Handles,
               \/ MuxCaller(h) \/ MuxStep(h) \/ Lapse(h) \/ RefreshRoom(h)
               \/ \E err \in {"transient", "terminal"} : ProofFails(h, err)
        PROVE  MuxInv'
    BY <1>1, HandleStepsHold
  <1>2. ASSUME NEW r \in Rooms, MuxRelay(r) \/ RelayRefuses(r) \/ RelaySuspends(r) \/ AcceptRoomSuspended(r)
        PROVE  MuxInv'
    BY <1>2, RelaySubscribesHolds, RelayUnsubscribesHolds, UndoneHolds, RelayRefusesHolds, RelaySuspendsHolds,
       UnsubscribersHold DEF MuxRelay
  <1>3. CASE MuxReply
    BY <1>3, UnsubscribedHolds, UnsubscribeFailsHolds DEF MuxReply
  <1>4. CASE MuxLoop
    BY <1>4, IdlersHold, RenewsHolds DEF MuxLoop
  <1>5. CASE AuthProof \/ GoOffline \/ GoOnline \/ Dispose
    BY <1>5, IdlersHold
  <1>6. CASE AuthAcknowledged
    BY <1>6, AuthAcknowledgedHolds
  <1>7. CASE AuthTimeout \/ \E err \in {"transient", "terminal"} : AuthProofFails(err)
    BY <1>7, AuthEndsHolds
  <1>8. CASE Disconnect \/ DisposeEnds \/ RelayRefusesAuth(TRUE) \/ RelayRefusesAuth(FALSE)
    BY <1>8, DisconnectsHold
  <1>9. CASE Connect
    BY <1>9, ConnectHolds
  <1>10. CASE UNCHANGED muxVars
    <2>1. UNCHANGED <<notice, faults, linkVars, auth, rooms, room, op, un, loops, wire, relaySub, history>>
      BY <1>10 DEF muxVars, linkVars, history
    <2>2. notice' \in [Rooms -> 0 .. MaxNonce] /\ faults' \in 0 .. MaxFaults
      BY <2>1 DEF MuxInv, MuxShape
    <2>. QED  BY <2>1, <2>2, NoticeHolds
  <1>. QED
    BY <1>1, <1>2, <1>3, <1>4, <1>5, <1>6, <1>7, <1>8, <1>9, <1>10 DEF MuxNext, MuxAuth

\* What the invariant says of the properties of the runs.
LEMMA MuxInvMeans ==
    ASSUME MuxInv
    PROVE  MuxTypeOK /\ NeverForgotten /\ SubscribedIsHeld /\ NoOrphan /\ NoStuckRoom
  <1>1. MuxTypeOK
    BY DEF MuxInv, MuxShape, MuxTypeOK, MuxRoomState, MuxOperation
  <1>2. NeverForgotten
    BY MuxTypes DEF NeverForgotten, HandleFits, Remembered
  <1>3. SubscribedIsHeld
    <2> SUFFICES ASSUME link = "up", NEW h \in Handles, Wanted(h), op[h] = NoOp, room[h].timer = "renewal",
                        room[h].lease # "none", h \notin told
                 PROVE  AcceptsFrame(h, relaySub[RoomOf[h]])
      BY DEF SubscribedIsHeld
    <2>1. Counts(h) /\ InMap(h)  BY DEF Wanted, Counts
    <2>2. HeldFits(h)  BY MuxTypes DEF HandleFits
    <2>. QED  BY <2>1, <2>2 DEF HeldFits, AcceptsFrame
  <1>4. NoOrphan
    BY DEF MuxInv, NoOrphan, Accountable
  <1>5. NoStuckRoom
    BY MuxTypes DEF NoStuckRoom, HandleFits, Unstuck
  <1>. QED  BY <1>1, <1>2, <1>3, <1>4, <1>5

\* How a RoomState may change while it stays closed, and who leaves the map.
LEMMA RoomsRest ==
    ASSUME MuxInv, UNCHANGED rooms,
           \A h \in Handles : room[h].made /\ room[h].closed
              => room'[h] = room[h] \/ (room'[h].closed = room[h].closed /\ room'[h].nonce \in {0, room[h].nonce})
    PROVE  ClosedStaysClosed /\ OnlyClosedRemoved
  BY DEF ClosedStaysClosed, OnlyClosedRemoved

\* unsubscribe() takes from the map only the handle it closes.
LEMMA UnsubscribeMeans ==
    ASSUME MuxInv, NEW k \in Handles, InMap(k), Unsubscribe(k), room'[k].closed,
           room'[k].nonce \in {0, room[k].nonce},
           \A h \in Handles \ {k} : room'[h].closed = room[h].closed /\ room'[h].nonce = room[h].nonce
    PROVE  ClosedStaysClosed /\ OnlyClosedRemoved
  <1>1. ClosedStaysClosed
    BY DEF ClosedStaysClosed
  <1>2. rooms \in [Rooms -> Handles \cup {NoHandle}] /\ RoomOf[k] \in Rooms
    BY MuxTypes DEF MuxInv, MuxShape
  <1>3. \/ UNCHANGED rooms
        \/ rooms' = [rooms EXCEPT ![RoomOf[k]] = NoHandle]
    BY DEF Unsubscribe
  <1>4. OnlyClosedRemoved
    BY <1>2, <1>3 DEF OnlyClosedRemoved, InMap
  <1>. QED  BY <1>1, <1>4

\* renewRoom opens no closed handle and takes none from the map.
LEMMA RenewalsRest ==
    ASSUME MuxInv, NEW h \in Handles, TimerFires(h) \/ RefreshRoom(h) \/ \E i \in Slots : LoopStep(i, h)
    PROVE  ClosedStaysClosed /\ OnlyClosedRemoved
  <1>1. room \in [Handles -> MuxRoomState]  BY DEF MuxInv, MuxShape
  <1>2. PICK R : /\ RenewRoom(h, R)
                 /\ \/ R = room[h]
                    \/ R = [room[h] EXCEPT !.timer = "none", !.backoff = FALSE]
                    \/ R = [room[h] EXCEPT !.timer = "none", !.backoff = FALSE, !.waiting = FALSE]
    <2>1. CASE TimerFires(h)  BY <2>1 DEF TimerFires
    <2>2. CASE RefreshRoom(h)
      <3>1. PICK R : R = IF room[h].waiting
               THEN [room[h] EXCEPT !.timer = "none", !.backoff = FALSE, !.waiting = FALSE] ELSE room[h]  OBVIOUS
      <3>2. RenewRoom(h, R)  BY <2>2, <3>1 DEF RefreshRoom
      <3>. QED  BY <3>1, <3>2
    <2>3. CASE \E i \in Slots : LoopStep(i, h)  BY <2>3 DEF LoopStep
    <2>. QED  BY <2>1, <2>2, <2>3
  <1>3. R.closed = room[h].closed /\ R.nonce = room[h].nonce
    BY <1>1, <1>2 DEF MuxRoomState
  <1>4. room' = [room EXCEPT ![h] = Renewed(h, R)]  BY <1>2 DEF RenewRoom
  <1>5. R.closed => Renewed(h, R) = R  BY DEF Renewed, Skips
  <1>6. room[h].closed => room'[h] = R  BY <1>1, <1>3, <1>4, <1>5
  <1>7. \A k \in Handles \ {h} : room'[k] = room[k]  BY <1>1, <1>4
  <1>8. UNCHANGED rooms  BY DEF TimerFires, RefreshRoom, LoopStep
  <1>9. ASSUME NEW k \in Handles, room[k].closed
        PROVE  room'[k] = room[k] \/ (room'[k].closed = room[k].closed /\ room'[k].nonce \in {0, room[k].nonce})
    BY <1>3, <1>6, <1>7, <1>9
  <1>. QED  BY <1>8, <1>9, RoomsRest

\* Losing the socket opens no closed handle and takes none from the map.
LEMMA ClearedRests ==
    ASSUME MuxInv, Disconnect \/ DisposeEnds \/ \E stale \in BOOLEAN : RelayRefusesAuth(stale)
    PROVE  ClosedStaysClosed /\ OnlyClosedRemoved
  <1>1. room \in [Handles -> MuxRoomState] /\ MaxNonce \in Nat  BY MuxTypes DEF MuxInv, MuxShape
  <1>2. ASSUME NEW h \in Handles, room[h].closed
        PROVE  room'[h] = room[h] \/ room'[h] = Cleared(room[h])
    <2>1. AfterOp(h, "transient") = room[h]  BY <1>2 DEF AfterOp
    <2>. QED  BY <2>1 DEF Disconnect, DisposeEnds, RelayRefusesAuth, ClearedRoom
  <1>3. \A h \in Handles : Cleared(room[h]).closed = room[h].closed /\ Cleared(room[h]).nonce = 0
    BY <1>1, ClearedFits
  <1>4. UNCHANGED rooms  BY DEF Disconnect, DisposeEnds, RelayRefusesAuth
  <1>5. ASSUME NEW h \in Handles, room[h].closed
        PROVE  room'[h] = room[h] \/ (room'[h].closed = room[h].closed /\ room'[h].nonce \in {0, room[h].nonce})
    BY <1>2, <1>3, <1>5
  <1>. QED  BY <1>4, <1>5, RoomsRest

\* Whatever closes a handle opens none, and what leaves the map is closed.
LEMMA UnsubscribesRest ==
    ASSUME MuxInv,
           \/ \E h \in Handles : CloseRoom(h) \/ DisposeRoom(h)
           \/ \E r \in Rooms : AcceptRoomSuspended(r)
           \/ \E u \in un : Unsubscribed(u)
    PROVE  ClosedStaysClosed /\ OnlyClosedRemoved
  <1>1. room \in [Handles -> MuxRoomState] /\ MaxNonce \in Nat /\ rooms \in [Rooms -> Handles \cup {NoHandle}]
    BY MuxTypes DEF MuxInv, MuxShape
  <1>2. ASSUME NEW k \in Handles
        PROVE  /\ Closed(room[k]).closed /\ Closed(room[k]).nonce = room[k].nonce
               /\ Gone(room[k]).closed /\ Gone(room[k]).nonce = 0
    BY <1>1, ClosedFits
  <1>3. ASSUME NEW k \in Handles, InMap(k), Unsubscribe(k),
               room' = [room EXCEPT ![k] = IF Tells(k) THEN Closed(@) ELSE Gone(@)]
        PROVE  ClosedStaysClosed /\ OnlyClosedRemoved
    <2>1. room'[k] = Closed(room[k]) \/ room'[k] = Gone(room[k])  BY <1>1, <1>3
    <2>2. room'[k].closed /\ room'[k].nonce \in {0, room[k].nonce}  BY <1>2, <2>1
    <2>3. \A h \in Handles \ {k} : room'[h] = room[h]  BY <1>1, <1>3
    <2>. QED  BY <1>3, <2>2, <2>3, UnsubscribeMeans
  <1>4. ASSUME NEW h \in Handles, CloseRoom(h) PROVE ClosedStaysClosed /\ OnlyClosedRemoved
    <2>1. PICK k : k = rooms[RoomOf[h]]  OBVIOUS
    <2>2. CASE k = NoHandle
      <3>1. room' = [room EXCEPT ![h].left = TRUE] /\ UNCHANGED rooms  BY <1>4, <2>1, <2>2 DEF CloseRoom
      <3>2. PICK L : L = [room[h] EXCEPT !.left = TRUE]  OBVIOUS
      <3>3. L.closed = room[h].closed /\ L.nonce = room[h].nonce  BY <1>1, <3>2 DEF MuxRoomState
      <3>4. \A j \in Handles : room'[j] = room[j] \/ (room'[j] = L /\ j = h)  BY <1>1, <3>1, <3>2
      <3>5. ASSUME NEW j \in Handles
            PROVE  room'[j] = room[j] \/ (room'[j].closed = room[j].closed /\ room'[j].nonce \in {0, room[j].nonce})
        BY <3>3, <3>4
      <3>. QED  BY <3>1, <3>5, RoomsRest
    <2>3. CASE k # NoHandle
      <3>1. k \in Handles /\ InMap(k)  BY <2>1, <2>3, MuxTypes DEF InMap, MuxInv, MuxShape
      <3>2. PICK R : R = IF Tells(k) THEN Closed(room[k]) ELSE Gone(room[k])  OBVIOUS
      <3>3. R.closed /\ R.nonce \in {0, room[k].nonce} /\ R \in MuxRoomState  BY <1>1, <3>1, <3>2, ClosedFits
      <3>4. room' = [room EXCEPT ![k] = R, ![h].left = TRUE] /\ Unsubscribe(k)
        BY <1>4, <2>1, <2>3, <3>2 DEF CloseRoom
      <3>5. PICK m : m = [room EXCEPT ![k] = R]  OBVIOUS
      <3>6. m \in [Handles -> MuxRoomState] /\ m[k] = R /\ \A j \in Handles \ {k} : m[j] = room[j]
        BY <1>1, <3>1, <3>3, <3>5
      <3>7. PICK L : L = [m[h] EXCEPT !.left = TRUE]  OBVIOUS
      <3>8. L.closed = m[h].closed /\ L.nonce = m[h].nonce  BY <3>6, <3>7 DEF MuxRoomState
      <3>9. \A j \in Handles : room'[j] = IF j = h THEN L ELSE m[j]
        BY <3>4, <3>5, <3>6, <3>7
      <3>10. \A j \in Handles : room'[j].closed = m[j].closed /\ room'[j].nonce = m[j].nonce
        BY <3>8, <3>9
      <3>11. room'[k].closed /\ room'[k].nonce \in {0, room[k].nonce}  BY <3>1, <3>3, <3>6, <3>10
      <3>12. \A j \in Handles \ {k} : room'[j].closed = room[j].closed /\ room'[j].nonce = room[j].nonce
        BY <3>6, <3>10
      <3>. QED  BY <3>1, <3>4, <3>11, <3>12, UnsubscribeMeans
    <2>. QED  BY <2>2, <2>3
  <1>5. ASSUME NEW h \in Handles, DisposeRoom(h) PROVE ClosedStaysClosed /\ OnlyClosedRemoved
    BY <1>3, <1>5 DEF DisposeRoom
  <1>6. ASSUME NEW r \in Rooms, AcceptRoomSuspended(r) PROVE ClosedStaysClosed /\ OnlyClosedRemoved
    <2>1. PICK k : k = rooms[r]  OBVIOUS
    <2>2. CASE k # NoHandle /\ authGen = gen /\ room[k].nonce = notice[r]
      <3>1. k \in Handles /\ InMap(k)  BY <2>1, <2>2, MuxTypes DEF InMap, MuxInv, MuxShape
      <3>2. room' = [room EXCEPT ![k] = IF Tells(k) THEN Closed(@) ELSE Gone(@)] /\ Unsubscribe(k)
        BY <1>6, <2>1, <2>2 DEF AcceptRoomSuspended
      <3>. QED  BY <1>3, <3>1, <3>2
    <2>3. CASE ~(k # NoHandle /\ authGen = gen /\ room[k].nonce = notice[r])
      BY <1>6, <2>1, <2>3, RoomsRest DEF AcceptRoomSuspended
    <2>. QED  BY <2>2, <2>3
  <1>7. ASSUME NEW u \in un, Unsubscribed(u) PROVE ClosedStaysClosed /\ OnlyClosedRemoved
    <2>1. u.h \in Handles  BY MuxTypes
    <2>2. \A h \in Handles : room'[h] = room[h] \/ room'[h] = Gone(room[h])
      BY <1>7 DEF Unsubscribed
    <2>3. ClosedStaysClosed
      BY <1>2, <2>2 DEF ClosedStaysClosed
    <2>4. OnlyClosedRemoved
      <3> SUFFICES ASSUME NEW r \in Rooms, rooms[r] # NoHandle, rooms'[r] # rooms[r]
                   PROVE  rooms'[r] = NoHandle /\ room'[rooms[r]].closed
        BY DEF OnlyClosedRemoved
      <3>1. r = RoomOf[u.h] /\ rooms'[r] = NoHandle
        BY <1>1, <1>7, <2>1 DEF Unsubscribed
      <3>2. PICK k \in Handles : k = rooms[r]  BY <1>1
      <3>3. RoomOf[k] = r /\ InMap(k)  BY <3>2 DEF InMap, MuxInv, MuxShape
      <3>4. room'[k] = Gone(room[k])  BY <1>7, <3>1, <3>3 DEF Unsubscribed
      <3>. QED  BY <1>2, <3>1, <3>2, <3>4
    <2>. QED  BY <2>3, <2>4
  <1>. QED  BY <1>4, <1>5, <1>6, <1>7

\* Whatever ends, starts or is granted: no closed handle is touched.
LEMMA ClosedRest ==
    ASSUME MuxInv,
           \/ \E h \in Handles :
                 \/ Subscribe(h) \/ Connected(h) \/ ConnectFails(h) \/ Proof(h) \/ Granted(h) \/ AnswerLost(h)
                 \/ Replayed(h) \/ Lapse(h) \/ \E err \in {"transient", "terminal"} : ProofFails(h, err)
           \/ \E r \in Rooms : MuxRelay(r) \/ RelayRefuses(r) \/ RelaySuspends(r)
           \/ (\E u \in un : UnsubscribeFails(u)) \/ (\E i \in Slots : LoopEnds(i))
           \/ AuthProof \/ AuthAcknowledged \/ AuthTimeout
           \/ (\E err \in {"transient", "terminal"} : AuthProofFails(err))
           \/ Connect \/ Dispose \/ GoOffline \/ GoOnline \/ UNCHANGED muxVars
    PROVE  ClosedStaysClosed /\ OnlyClosedRemoved
  <1>1. room \in [Handles -> MuxRoomState]  BY DEF MuxInv, MuxShape
  <1>2. ASSUME NEW h \in Handles, NEW err, room[h].closed PROVE AfterOp(h, err) = room[h]
    BY <1>2 DEF AfterOp
  <1>3. ASSUME NEW E, NEW err, EndOps(E, err)
        PROVE  \A k \in Handles : room[k].closed => room'[k] = room[k]
    BY <1>2, <1>3 DEF EndOps
  <1>4. ASSUME NEW h \in Handles,
                 \/ Subscribe(h) \/ Connected(h) \/ ConnectFails(h) \/ Proof(h) \/ Granted(h) \/ AnswerLost(h)
                 \/ Replayed(h) \/ \E err \in {"transient", "terminal"} : ProofFails(h, err)
        PROVE  UNCHANGED rooms /\ \A k \in Handles : room[k].closed => room'[k] = room[k]
    <2>1. CASE Subscribe(h)  BY <1>1, <2>1 DEF Subscribe
    <2>2. CASE Connected(h)  BY <2>2 DEF Connected
    <2>3. CASE ConnectFails(h)  BY <1>3, <2>3 DEF ConnectFails
    <2>4. CASE Proof(h)  BY <1>3, <2>4 DEF Proof
    <2>5. CASE Granted(h)  BY <1>1, <2>5 DEF Granted, Current
    <2>6. CASE AnswerLost(h)  BY <1>3, <2>6 DEF AnswerLost
    <2>7. CASE Replayed(h)  BY <1>3, <2>7 DEF Replayed
    <2>8. CASE \E err \in {"transient", "terminal"} : ProofFails(h, err)  BY <1>3, <2>8 DEF ProofFails
    <2>. QED  BY <1>4, <2>1, <2>2, <2>3, <2>4, <2>5, <2>6, <2>7, <2>8
  <1>5. ASSUME NEW h \in Handles, Lapse(h) PROVE ClosedStaysClosed /\ OnlyClosedRemoved
    <2>1. PICK L : L = [room[h] EXCEPT !.lease = "due"]  OBVIOUS
    <2>2. L.closed = room[h].closed /\ L.nonce = room[h].nonce  BY <1>1, <2>1 DEF MuxRoomState
    <2>3. \A j \in Handles : room'[j] = room[j] \/ (room'[j] = L /\ j = h)  BY <1>1, <1>5, <2>1 DEF Lapse
    <2>4. ASSUME NEW j \in Handles
          PROVE  room'[j] = room[j] \/ (room'[j].closed = room[j].closed /\ room'[j].nonce \in {0, room[j].nonce})
      BY <2>2, <2>3
    <2>5. UNCHANGED rooms  BY <1>5 DEF Lapse
    <2>. QED  BY <2>4, <2>5, RoomsRest
  <1>6. ASSUME NEW r \in Rooms, MuxRelay(r) \/ RelayRefuses(r) \/ RelaySuspends(r)
        PROVE  UNCHANGED rooms /\ \A k \in Handles : room[k].closed => room'[k] = room[k]
    <2>1. CASE RelaySubscribes(r)  BY <2>1 DEF RelaySubscribes
    <2>2. CASE RelayUnsubscribes(r)  BY <2>2 DEF RelayUnsubscribes
    <2>3. CASE Undone(r)
      <3>1. UNCHANGED rooms  BY <2>3 DEF Undone
      <3>2. UNCHANGED room \/ EndOps({Head(wire[r]).h}, "transient")  BY <2>3 DEF Undone
      <3>. QED  BY <1>3, <3>1, <3>2
    <2>4. CASE RelayRefuses(r)
      <3>1. UNCHANGED rooms /\ EndOps({Head(wire[r]).h}, "terminal")  BY <2>4 DEF RelayRefuses
      <3>. QED  BY <1>3, <3>1
    <2>5. CASE RelaySuspends(r)  BY <2>5 DEF RelaySuspends
    <2>. QED  BY <1>6, <2>1, <2>2, <2>3, <2>4, <2>5 DEF MuxRelay
  <1>7. CASE (\E u \in un : UnsubscribeFails(u)) \/ \E i \in Slots : LoopEnds(i)
    BY <1>7, RoomsRest DEF UnsubscribeFails, LoopEnds
  <1>8. CASE AuthTimeout \/ \E err \in {"transient", "terminal"} : AuthProofFails(err)
    <2>1. UNCHANGED rooms /\ \A k \in Handles : room[k].closed => room'[k] = room[k]
      BY <1>2, <1>8 DEF AuthTimeout, AuthProofFails
    <2>. QED  BY <2>1, RoomsRest
  <1>9. CASE AuthProof \/ AuthAcknowledged \/ Connect \/ Dispose \/ GoOffline \/ GoOnline \/ UNCHANGED muxVars
    <2>1. UNCHANGED <<rooms, room>>
      BY <1>9 DEF AuthProof, AuthAcknowledged, Connect, Dispose, GoOffline, GoOnline, muxVars
    <2>. QED  BY <2>1, RoomsRest
  <1>. QED  BY <1>4, <1>5, <1>6, <1>7, <1>8, <1>9, RoomsRest

\* The action properties hold of every step from a state that satisfies the invariant.
LEMMA MuxActionsHold ==
    ASSUME MuxInv, [MuxNext]_muxVars
    PROVE  ClosedStaysClosed /\ OnlyClosedRemoved
  <1>1. ASSUME NEW h \in Handles, CreateRoom(h) PROVE ClosedStaysClosed /\ OnlyClosedRemoved
    <2>1. room \in [Handles -> MuxRoomState] /\ rooms \in [Rooms -> Handles \cup {NoHandle}]
      BY DEF MuxInv, MuxShape
    <2>2. ClosedStaysClosed  BY <1>1, <2>1 DEF CreateRoom, ClosedStaysClosed
    <2>3. OnlyClosedRemoved  BY <1>1, <2>1 DEF CreateRoom, OnlyClosedRemoved
    <2>. QED  BY <2>2, <2>3
  <1>2. CASE \E h \in Handles : CloseRoom(h) \/ DisposeRoom(h)
    BY <1>2, UnsubscribesRest
  <1>3. CASE \E r \in Rooms : AcceptRoomSuspended(r)
    BY <1>3, UnsubscribesRest
  <1>4. CASE \E u \in un : Unsubscribed(u)
    BY <1>4, UnsubscribesRest
  <1>5. CASE \E h \in Handles : TimerFires(h) \/ RefreshRoom(h) \/ \E i \in Slots : LoopStep(i, h)
    BY <1>5, RenewalsRest
  <1>6. CASE Disconnect \/ DisposeEnds \/ RelayRefusesAuth(TRUE) \/ RelayRefusesAuth(FALSE)
    BY <1>6, ClearedRests
  <1>7. CASE \/ \E h \in Handles :
                   \/ Subscribe(h) \/ Connected(h) \/ ConnectFails(h) \/ Proof(h) \/ Granted(h) \/ AnswerLost(h)
                   \/ Replayed(h) \/ Lapse(h) \/ \E err \in {"transient", "terminal"} : ProofFails(h, err)
             \/ \E r \in Rooms : MuxRelay(r) \/ RelayRefuses(r) \/ RelaySuspends(r)
             \/ (\E u \in un : UnsubscribeFails(u)) \/ (\E i \in Slots : LoopEnds(i))
             \/ AuthProof \/ AuthAcknowledged \/ AuthTimeout
             \/ (\E err \in {"transient", "terminal"} : AuthProofFails(err))
             \/ Connect \/ Dispose \/ GoOffline \/ GoOnline \/ UNCHANGED muxVars
    BY <1>7, ClosedRest
  <1>. QED
    BY <1>1, <1>2, <1>3, <1>4, <1>5, <1>6, <1>7 DEF MuxNext, MuxCaller, MuxStep, MuxReply, MuxLoop, MuxAuth

\* The multiplexed connection keeps its promises at every step, whatever is lost,
\* refused, closed or disposed of: no wanted room is forgotten, what counts as
\* subscribed is what the relay holds, and no subscription outlives who answers for it.
THEOREM MuxIsCorrect == MuxSpec => MuxCorrect
  <1>1. MuxInit => MuxInv
    BY MuxInitHolds
  <1>2. MuxInv /\ [MuxNext]_muxVars => MuxInv'
    BY MuxStepsHold
  <1>3. MuxInv => MuxTypeOK /\ NeverForgotten /\ SubscribedIsHeld /\ NoOrphan /\ NoStuckRoom
    BY MuxInvMeans
  <1>4. MuxInv /\ [MuxNext]_muxVars => ClosedStaysClosed /\ OnlyClosedRemoved
    BY MuxActionsHold
  <1>. QED  BY <1>1, <1>2, <1>3, <1>4, PTL DEF MuxSpec, MuxCorrect

-----------------------------------------------------------------------------
Promises == {"none", "wait", "chained", "proof", "ack", "acked"}
InboundMessage == [id : Nat, claimed : BOOLEAN, at : {"engine", "rejecting", "recorded"}]
InboundAnswer == [id : Nat, claimed : BOOLEAN, outcome : Decisions]

\* A join that was admitted and has not been heard of is of the connection there is, as is
\* a joined channel; a message waits for its answer behind the relay's record.
LegacyInv ==
    /\ sock \in {"down", "up", "stopped"} /\ sockGen \in SockGens
    /\ joinedGen \in SockGens \cup {-1}
    /\ promise \in [SockGens -> Promises]
    /\ waiters \in [SockGens -> SUBSET {"join", "send", "restore"}]
    /\ received \in 0 .. MaxInbound /\ drops \in 0 .. MaxDrops
    /\ wanted \in BOOLEAN /\ registered \in BOOLEAN
    /\ inbound \subseteq InboundMessage /\ answers \subseteq InboundAnswer
    /\ sock # "stopped" =>
          \A g \in SockGens : promise[g] = "acked" => sock = "up" /\ g = sockGen /\ registered
    /\ sock = "up" /\ joinedGen = sockGen => registered
    /\ \A m \in inbound : m.at = "recorded" => m.id \in recorded
    /\ \A a \in answers : a.claimed /\ a.outcome = "permanent-rejection" => a.id \in recorded

\* Each drop is counted within its bound.
LEMMA DropFits ==
    ASSUME LegacyInv, Drop
    PROVE  drops' \in 0 .. MaxDrops
  <1>. MaxDrops \in Nat  BY LegacyAssumption
  <1>. QED  BY DEF LegacyInv, Drop

\* What callers do, and losing the socket: no promise is admitted by it.
LEMMA LegacyCallersHold ==
    ASSUME LegacyInv, Join \/ SendEnvelope \/ Stop \/ SockDown
    PROVE  LegacyInv'
  <1>. MaxDrops \in Nat /\ MaxInbound \in Nat /\ SockGens = 0 .. MaxDrops + 1  BY LegacyAssumption DEF SockGens
  <1>1. ASSUME NEW g \in SockGens, NEW who \in {"join", "send"}, NEW up \in BOOLEAN, Ensure(g, who, up)
        PROVE  /\ waiters' \in [SockGens -> SUBSET {"join", "send", "restore"}]
               /\ promise' \in [SockGens -> Promises]
               /\ \A k \in SockGens : promise'[k] = "acked" => promise[k] = "acked"
    BY <1>1 DEF LegacyInv, Ensure, Promises
  <1>2. sockGen \in SockGens /\ (sock = "up") \in BOOLEAN  BY DEF LegacyInv
  <1>3. CASE Join
    <2>1. \/ UNCHANGED <<promise, waiters>>
          \/ Ensure(sockGen, "join", sock = "up")
      BY <1>3 DEF Join
    <2>2. /\ waiters' \in [SockGens -> SUBSET {"join", "send", "restore"}]
          /\ promise' \in [SockGens -> Promises]
          /\ \A k \in SockGens : promise'[k] = "acked" => promise[k] = "acked"
      BY <1>1, <1>2, <2>1 DEF LegacyInv
    <2>. QED  BY <1>3, <2>2 DEF LegacyInv, Join, inboundVars
  <1>4. CASE SendEnvelope
    <2>1. /\ waiters' \in [SockGens -> SUBSET {"join", "send", "restore"}]
          /\ promise' \in [SockGens -> Promises]
          /\ \A k \in SockGens : promise'[k] = "acked" => promise[k] = "acked"
      BY <1>1, <1>2, <1>4 DEF SendEnvelope
    <2>. QED  BY <1>4, <2>1 DEF LegacyInv, SendEnvelope, inboundVars
  <1>5. CASE Stop
    <2>1. drops' \in 0 .. MaxDrops  BY <1>5, DropFits DEF Stop
    <2>2. sock' = "stopped" /\ wanted' = FALSE /\ joinedGen' = -1 /\ registered' = FALSE
          /\ UNCHANGED <<sockGen, promise, waiters, inbound, answers, recorded, received>>
      BY <1>5 DEF Stop, inboundVars
    <2>. QED  BY <2>1, <2>2 DEF LegacyInv
  <1>6. CASE SockDown
    <2>1. /\ promise' \in [SockGens -> Promises]
          /\ \A k \in SockGens : promise'[k] # "acked"
      BY <1>6 DEF LegacyInv, SockDown, Promises
    <2>2. drops' \in 0 .. MaxDrops  BY <1>6, DropFits DEF SockDown
    <2>3. /\ sock' = "down" /\ joinedGen' = -1 /\ registered' = FALSE
          /\ UNCHANGED <<sockGen, wanted, waiters, inbound, answers, recorded, received>>
      BY <1>6 DEF SockDown, inboundVars
    <2>. QED  BY <2>1, <2>2, <2>3 DEF LegacyInv
  <1>. QED  BY <1>3, <1>4, <1>5, <1>6

\* A new connection: no join is admitted on it yet, and what is chained was not.
LEMMA SockUpHolds ==
    ASSUME LegacyInv, SockUp
    PROVE  LegacyInv'
  <1>. MaxDrops \in Nat /\ SockGens = 0 .. MaxDrops + 1  BY LegacyAssumption DEF SockGens
  <1>1. /\ promise' \in [SockGens -> Promises]
        /\ \A k \in SockGens : promise'[k] # "acked"
    BY DEF LegacyInv, SockUp, Promises
  <1>2. waiters' \in [SockGens -> SUBSET {"join", "send", "restore"}]
    BY DEF LegacyInv, SockUp
  <1>3. joinedGen' = -1 /\ sockGen' \in SockGens /\ sockGen' # -1 /\ sock' = "up"
    BY DEF LegacyInv, SockUp
  <1>4. UNCHANGED <<wanted, registered, inbound, answers, recorded, received, drops>>
    BY DEF SockUp, inboundVars
  <1>. QED  BY <1>1, <1>2, <1>3, <1>4 DEF LegacyInv

\* A promise settles with everyone who shares it.
LEMMA SettleFits ==
    ASSUME LegacyInv, NEW g \in SockGens, NEW ok \in BOOLEAN, Settle(g, ok)
    PROVE  /\ promise' \in [SockGens -> Promises]
           /\ waiters' \in [SockGens -> SUBSET {"join", "send", "restore"}]
           /\ \A k \in SockGens : promise'[k] = "acked" => promise[k] = "acked"
  BY DEF LegacyInv, Settle, Promises

\* One join: its proof, the relay's answer, and the promise that hears of it.
LEMMA LegacyJoinsHold ==
    ASSUME LegacyInv, NEW g \in SockGens,
           JoinProof(g) \/ RelayAdmits(g) \/ LateJoin(g) \/ Joined(g)
              \/ WaitFails(g) \/ JoinProofFails(g) \/ RelayRefusesJoin(g)
    PROVE  LegacyInv'
  <1>. MaxDrops \in Nat /\ SockGens = 0 .. MaxDrops + 1 /\ sockGen \in SockGens
    BY LegacyAssumption DEF SockGens, LegacyInv
  <1>1. CASE JoinProof(g)  BY <1>1 DEF LegacyInv, JoinProof, inboundVars, Promises
  <1>2. CASE RelayAdmits(g)  BY <1>2 DEF LegacyInv, RelayAdmits, inboundVars, Promises
  <1>3. CASE LateJoin(g)
    <2>1. /\ promise' \in [SockGens -> Promises]
          /\ \A k \in SockGens : promise'[k] = "acked" => promise[k] = "acked"
      BY <1>3 DEF LegacyInv, LateJoin, Promises
    <2>2. waiters' \in [SockGens -> SUBSET {"join", "send", "restore"}]
      BY <1>3 DEF LegacyInv, LateJoin
    <2>. QED  BY <1>3, <2>1, <2>2 DEF LegacyInv, LateJoin, inboundVars
  <1>4. CASE Joined(g)
    <2>1. PICK ok \in BOOLEAN : Settle(g, ok)  BY <1>4 DEF Joined
    <2>2. promise[g] = "acked" /\ (joinedGen' = joinedGen \/ joinedGen' = g)  BY <1>4 DEF Joined
    <2>. QED  BY <1>4, <2>1, <2>2, SettleFits DEF LegacyInv, Joined, inboundVars
  <1>5. CASE WaitFails(g)  BY <1>5 DEF LegacyInv, WaitFails, inboundVars, Promises
  <1>6. CASE JoinProofFails(g)
    <2>1. drops' \in 0 .. MaxDrops  BY <1>6, DropFits DEF JoinProofFails
    <2>2. /\ Settle(g, FALSE)
          /\ UNCHANGED <<sock, sockGen, wanted, joinedGen, registered,
                         inbound, answers, recorded, received>>
      BY <1>6 DEF JoinProofFails, inboundVars
    <2>3. /\ promise' \in [SockGens -> Promises]
          /\ waiters' \in [SockGens -> SUBSET {"join", "send", "restore"}]
          /\ \A k \in SockGens : promise'[k] = "acked" => promise[k] = "acked"
      BY <2>2, SettleFits
    <2>. QED  BY <2>1, <2>2, <2>3 DEF LegacyInv
  <1>7. CASE RelayRefusesJoin(g)
    <2>1. drops' \in 0 .. MaxDrops  BY <1>7, DropFits DEF RelayRefusesJoin
    <2>2. /\ Settle(g, FALSE)
          /\ UNCHANGED <<sock, sockGen, wanted, joinedGen, registered,
                         inbound, answers, recorded, received>>
      BY <1>7 DEF RelayRefusesJoin, inboundVars
    <2>3. /\ promise' \in [SockGens -> Promises]
          /\ waiters' \in [SockGens -> SUBSET {"join", "send", "restore"}]
          /\ \A k \in SockGens : promise'[k] = "acked" => promise[k] = "acked"
      BY <2>2, SettleFits
    <2>. QED  BY <2>1, <2>2, <2>3 DEF LegacyInv
  <1>. QED  BY <1>1, <1>2, <1>3, <1>4, <1>5, <1>6, <1>7

\* Messages change without the connection: what was recorded stays so, and a message or
\* an answer that is new is a fitting one.
LEMMA InboundFrame ==
    ASSUME LegacyInv, UNCHANGED <<sock, sockGen, joinVars, registered, drops, received>>,
           recorded \subseteq recorded',
           \A m \in inbound' :
              m \in inbound \/ (m \in InboundMessage /\ (m.at = "recorded" => m.id \in recorded')),
           \A a \in answers' :
              \/ a \in answers
              \/ /\ a \in InboundAnswer
                 /\ a.claimed /\ a.outcome = "permanent-rejection" => a.id \in recorded'
    PROVE  LegacyInv'
  <1>1. inbound' \subseteq InboundMessage  BY DEF LegacyInv
  <1>2. answers' \subseteq InboundAnswer  BY DEF LegacyInv
  <1>3. \A m \in inbound' : m.at = "recorded" => m.id \in recorded'  BY DEF LegacyInv
  <1>4. \A a \in answers' : a.claimed /\ a.outcome = "permanent-rejection" => a.id \in recorded'
    BY DEF LegacyInv
  <1>. QED  BY <1>1, <1>2, <1>3, <1>4 DEF LegacyInv, joinVars

\* A message and its answer: a permanent rejection of a claimed one waits for the relay.
LEMMA InboundHolds ==
    ASSUME LegacyInv,
           \/ \E claimed \in BOOLEAN : Deliver(claimed)
           \/ \E m \in inbound : \/ \E d \in Decisions : Decide(m, d)
                                 \/ RelayRecords(m) \/ RelayDeclines(m) \/ Rejected(m)
    PROVE  LegacyInv'
  <1>. MaxInbound \in Nat  BY LegacyAssumption
  <1>1. CASE \E claimed \in BOOLEAN : Deliver(claimed)
    <2>1. PICK claimed \in BOOLEAN : Deliver(claimed)  BY <1>1
    <2>2. /\ received' \in 0 .. MaxInbound
          /\ [id |-> received + 1, claimed |-> claimed, at |-> "engine"] \in InboundMessage
      BY <2>1 DEF LegacyInv, Deliver, InboundMessage
    <2>. QED  BY <2>1, <2>2 DEF LegacyInv, Deliver, joinVars
  <1>2. ASSUME NEW m \in inbound,
               (\E d \in Decisions : Decide(m, d)) \/ RelayRecords(m) \/ RelayDeclines(m) \/ Rejected(m)
        PROVE  LegacyInv'
    <2>0. m \in InboundMessage  BY DEF LegacyInv
    <2>1. CASE \E d \in Decisions : Decide(m, d)
      <3>1. PICK d \in Decisions : Decide(m, d)  BY <2>1
      <3>2. /\ [m EXCEPT !.at = "rejecting"] \in InboundMessage
            /\ [m EXCEPT !.at = "rejecting"].at # "recorded"
        BY <2>0 DEF InboundMessage
      <3>. DEFINE answer == [id |-> m.id, claimed |-> m.claimed, outcome |-> d]
      <3>3. answer \in InboundAnswer /\ answer.claimed = m.claimed /\ answer.outcome = d
        BY <2>0 DEF InboundMessage, InboundAnswer
      <3>4. CASE d = "permanent-rejection" /\ m.claimed
        <4>1. \A x \in inbound' : x \in inbound \/ x = [m EXCEPT !.at = "rejecting"]
          BY <3>1, <3>4 DEF Decide
        <4>2. UNCHANGED <<sock, sockGen, joinVars, registered, recorded, received, drops, answers>>
          BY <3>1, <3>4 DEF Decide
        <4>. QED  BY <4>1, <4>2, <3>2, InboundFrame
      <3>5. CASE ~(d = "permanent-rejection" /\ m.claimed)
        <4>1. /\ \A x \in inbound' : x \in inbound
              /\ \A a \in answers' : a \in answers \/ a = answer
          BY <3>1, <3>5 DEF Decide
        <4>2. UNCHANGED <<sock, sockGen, joinVars, registered, recorded, received, drops>>
          BY <3>1 DEF Decide
        <4>3. ~(answer.claimed /\ answer.outcome = "permanent-rejection")  BY <3>3, <3>5
        <4>. HIDE DEF answer
        <4>. QED  BY <4>1, <4>2, <4>3, <3>3, InboundFrame
      <3>. QED  BY <3>4, <3>5
    <2>2. CASE RelayRecords(m)
      <3>1. /\ [m EXCEPT !.at = "recorded"] \in InboundMessage
            /\ [m EXCEPT !.at = "recorded"].id = m.id
        BY <2>0 DEF InboundMessage
      <3>2. \A x \in inbound' : x \in inbound \/ x = [m EXCEPT !.at = "recorded"]
        BY <2>2 DEF RelayRecords
      <3>3. /\ recorded \subseteq recorded' /\ m.id \in recorded'
            /\ UNCHANGED <<sock, sockGen, joinVars, registered, received, drops, answers>>
        BY <2>2 DEF RelayRecords
      <3>. QED  BY <3>1, <3>2, <3>3, InboundFrame
    <2>3. CASE RelayDeclines(m)
      <3>. DEFINE answer == [id |-> m.id, claimed |-> TRUE, outcome |-> "retryable"]
      <3>1. answer \in InboundAnswer /\ answer.outcome # "permanent-rejection"
        BY <2>0 DEF InboundMessage, InboundAnswer, Decisions
      <3>2. /\ \A x \in inbound' : x \in inbound
            /\ \A a \in answers' : a \in answers \/ a = answer
        BY <2>3 DEF RelayDeclines
      <3>3. UNCHANGED <<sock, sockGen, joinVars, registered, recorded, received, drops>>
        BY <2>3 DEF RelayDeclines
      <3>. HIDE DEF answer
      <3>. QED  BY <3>1, <3>2, <3>3, InboundFrame
    <2>4. CASE Rejected(m)
      <3>. DEFINE answer == [id |-> m.id, claimed |-> TRUE, outcome |-> "permanent-rejection"]
      <3>1. answer \in InboundAnswer /\ answer.id \in recorded
        BY <2>0, <2>4 DEF InboundMessage, InboundAnswer, Decisions, LegacyInv, Rejected
      <3>2. /\ \A x \in inbound' : x \in inbound
            /\ \A a \in answers' : a \in answers \/ a = answer
        BY <2>4 DEF Rejected
      <3>3. UNCHANGED <<sock, sockGen, joinVars, registered, recorded, received, drops>>
        BY <2>4 DEF Rejected
      <3>. HIDE DEF answer
      <3>. QED  BY <3>1, <3>2, <3>3, InboundFrame
    <2>. QED  BY <1>2, <2>1, <2>2, <2>3, <2>4
  <1>. QED  BY <1>1, <1>2

\* A transport never takes its channel for joined when the relay has no registration of
\* its connection, and answers a permanent rejection only behind the relay's record.
THEOREM LegacyIsSafe == LegacySpec => LegacySafe
  <1>1. LegacyInit => LegacyInv
    <2>1. 0 \in SockGens /\ 0 \in 0 .. MaxDrops /\ 0 \in 0 .. MaxInbound
      BY LegacyAssumption DEF SockGens
    <2>. QED  BY <2>1 DEF LegacyInit, LegacyInv, Promises
  <1>2. LegacyInv /\ [LegacyNext]_legacyVars => LegacyInv'
    <2>. SUFFICES ASSUME LegacyInv, [LegacyNext]_legacyVars PROVE LegacyInv'  OBVIOUS
    <2>1. CASE LegacyNext
      BY <2>1, LegacyCallersHold, SockUpHolds, LegacyJoinsHold, InboundHolds DEF LegacyNext, LegacyJoin
    <2>2. CASE UNCHANGED legacyVars  BY <2>2 DEF LegacyInv, legacyVars
    <2>. QED  BY <2>1, <2>2
  <1>3. LegacyInv => LegacyTypeOK /\ PresenceIsReal /\ RejectionIsRecorded
    BY DEF LegacyInv, Promises, LegacyTypeOK, PresenceIsReal, RejectionIsRecorded, IsCurrentChannelJoined
  <1>. QED  BY <1>1, <1>2, <1>3, PTL DEF LegacySpec, LegacySafe

-----------------------------------------------------------------------------
ReplayAts == {"off", "deliver", "handed", "settle", "leased", "count", "end", "failed"}

\* A wake-up belongs to a message that was stored, and what is handed over is there.
\* A loop that is over, or about to end with no request to go on for, has left
\* waiting mail to a timer or to a wake-up on its way.
ReplayInv ==
    /\ mailbox \in [waiting : 0 .. stores, claimed : BOOLEAN]
    /\ loop \in ReplayAts
    /\ asked \in BOOLEAN /\ replayTimer \in BOOLEAN /\ owns \in BOOLEAN
    /\ stores \in 0 .. MaxMail /\ wakes \in 0 .. stores
    /\ loop = "handed" => mailbox.waiting > 0
    /\ owns /\ mailbox.waiting > 0 /\ loop \in {"off", "end"}
       => replayTimer \/ wakes > 0 \/ (loop = "end" /\ asked)

\* What the scheduler does with the mailbox keeps the invariant: whoever starts,
\* ends or asks for a replay (listeners.ts:232-300).
LEMMA ReplaysHold ==
    ASSUME ReplayInv, Replays
    PROVE  ReplayInv'
  <1>. MaxMail \in Nat  BY ReplayAssumption
  <1>. USE DEF ReplayInv, ReplayAts
  <1>. stores \in Nat /\ mailbox.waiting \in 0 .. stores /\ mailbox.claimed \in BOOLEAN  OBVIOUS
  <1>1. CASE WakeMailbox
    <2>1. wakes \in Nat \ {0} /\ wakes' \in 0 .. stores /\ stores' = stores /\ mailbox' = mailbox /\ owns' = owns
      BY <1>1 DEF WakeMailbox
    <2>2. \/ asked' = TRUE /\ loop' = loop /\ (loop # "off" \/ ~owns)
          \/ asked' = FALSE /\ loop' = "deliver"
      BY <1>1 DEF WakeMailbox, RequestReplay
    <2>3. replayTimer' = FALSE  BY <1>1 DEF WakeMailbox, RequestReplay
    <2>. QED  BY <2>1, <2>2, <2>3
  <1>2. CASE ReplayTimerFires  BY <1>2 DEF ReplayTimerFires, RequestReplay
  <1>3. CASE ClaimHead  BY <1>3 DEF ClaimHead
  <1>4. CASE RoundEnds  BY <1>4 DEF RoundEnds
  <1>5. CASE Accepted
    <2>1. mailbox.waiting - 1 \in 0 .. stores  BY <1>5 DEF Accepted
    <2>. QED  BY <1>5, <2>1 DEF Accepted
  <1>6. CASE Unaccepted  BY <1>6 DEF Unaccepted
  <1>7. CASE ReadLease  BY <1>7 DEF ReadLease
  <1>8. CASE CountPending  BY <1>8 DEF CountPending, ScheduleReplay
  <1>9. CASE ReplayEnds  BY <1>9 DEF ReplayEnds, Finish
  <1>10. CASE BackOff
    <2>1. CASE ScheduleReplay /\ UNCHANGED owns
      BY <1>10, <2>1 DEF BackOff, ScheduleReplay
    <2>2. CASE owns' = FALSE /\ UNCHANGED replayTimer
      BY <1>10, <2>2 DEF BackOff
    <2>. QED  BY <1>10, <2>1, <2>2 DEF BackOff
  <1>. QED  BY <1>1, <1>2, <1>3, <1>4, <1>5, <1>6, <1>7, <1>8, <1>9, <1>10 DEF Replays

\* So does everything else: mail that is stored, a lease that ends, a failure, the socket
\* that goes.
LEMMA ReplayStepsHold ==
    ASSUME ReplayInv, [ReplayNext]_replayVars
    PROVE  ReplayInv'
  <1>. MaxMail \in Nat  BY ReplayAssumption
  <1>1. CASE Replays  BY <1>1, ReplaysHold
  <1>2. CASE LeaseEnds  BY <1>2 DEF ReplayInv, ReplayAts, LeaseEnds
  <1>3. CASE StoreMail
    <2>1. mailbox' = [mailbox EXCEPT !.waiting = @ + 1] /\ stores' = stores + 1 /\ wakes' = wakes + 1
      BY <1>3 DEF StoreMail
    <2>2. mailbox' \in [waiting : 0 .. stores', claimed : BOOLEAN] /\ mailbox'.waiting > 0
      BY <2>1 DEF ReplayInv
    <2>3. wakes' > 0 /\ wakes' \in 0 .. stores' /\ stores' \in 0 .. MaxMail
      BY <1>3, <2>1 DEF ReplayInv, StoreMail
    <2>. QED  BY <1>3, <2>2, <2>3 DEF ReplayInv, ReplayAts, StoreMail
  <1>4. CASE Throws  BY <1>4 DEF ReplayInv, ReplayAts, Throws
  <1>5. CASE SocketGoes  BY <1>5 DEF ReplayInv, ReplayAts, SocketGoes
  <1>6. CASE UNCHANGED replayVars  BY <1>6 DEF ReplayInv, replayVars
  <1>. QED  BY <1>1, <1>2, <1>3, <1>4, <1>5, <1>6 DEF ReplayNext

\* Mail that waits for a connected device always has a loop, a timer or a wake-up to
\* bring it, whatever fails and whenever it is asked for.
THEOREM ReplayIsSafe == ReplaySpec => ReplaySafe
  <1>1. ReplayInit => ReplayInv
    <2>1. 0 \in 0 .. MaxMail /\ 0 \in 0 .. 0  BY ReplayAssumption
    <2>2. ReplayInit => mailbox \in [waiting : 0 .. stores, claimed : BOOLEAN] /\ ~(mailbox.waiting > 0)
      BY DEF ReplayInit
    <2>. QED  BY <2>1, <2>2 DEF ReplayInit, ReplayInv, ReplayAts
  <1>2. ReplayInv /\ [ReplayNext]_replayVars => ReplayInv'  BY ReplayStepsHold
  <1>3. ReplayInv => ReplayTypeOK /\ MailHasRunner
    BY ReplayAssumption DEF ReplayInv, ReplayAts, ReplayTypeOK, MailHasRunner
  <1>. QED  BY <1>1, <1>2, <1>3, PTL DEF ReplaySpec, ReplaySafe

-----------------------------------------------------------------------------
IntroRecord == [state : IntroStates, envelope : IntroKeys \cup {NoKey}, id : AnyId]
JoinerPage == [step : {"away", "idle", "begin", "claimed", "answered", "latest"},
               pending : BOOLEAN, early : SUBSET IntroIds, key : IntroKeys \cup {NoKey},
               id : AnyId, latest : IntroStates]

\* The introduction that is stored is the joiner's session, and what the inviter has
\* accepted is nothing else; before there is one, there is nothing to decide on.  A verdict
\* on its way, or kept because it came early, is about what the inviter holds.
ContactInv ==
    /\ intro \in IntroRecord /\ joiner \in JoinerPage
    /\ joined \in IntroKeys \cup {NoKey} /\ accepted \in IntroKeys \cup {NoKey}
    /\ keys \subseteq IntroKeys
    /\ mail \in [IntroIds -> {"free", "waiting", "accepted", "rejected"}]
    /\ intro.envelope = joined /\ accepted \in {NoKey, joined}
    /\ JoinerAt("claimed") => joined = NoKey /\ joiner.key # NoKey
    /\ joined = NoKey => /\ \A i \in IntroIds : mail[i] = "free"
                         /\ joiner.early = {} /\ intro.state # "ESTABLISHED"
    /\ accepted = NoKey => /\ \A i \in IntroIds : mail[i] # "accepted"
                           /\ joiner.early = {} /\ intro.state # "ESTABLISHED"

\* The joiner's page opens, tries again, claims a key and commits its introduction.
LEMMA JoinerBeginsHolds ==
    ASSUME ContactInv,
           \/ ConnectContact \/ ConnectFailsClosed \/ RetryJoinIntroduction \/ ClaimKey
           \/ CommitIntroduction \/ AttemptFails \/ LosePage \/ InvitationExpires
    PROVE  ContactInv' /\ OneIntroduction
  <1>. NoKey = 0 /\ NoKey \notin IntroKeys  BY DEF NoKey, IntroKeys
  <1>0. Away \in JoinerPage /\ Away.step = "away" /\ Away.early = {} /\ NoId \in AnyId
    BY DEF Away, JoinerPage, AnyId, IntroStates
  <1>1. CASE ConnectContact
    <2>1. /\ PendingRecord \in IntroRecord /\ PendingRecord.envelope = intro.envelope
          /\ PendingRecord.state = "ESTABLISHED" => intro.state = "ESTABLISHED"
      BY DEF ContactInv, PendingRecord, IntroRecord, IntroStates
    <2>2. joiner' \in JoinerPage /\ ~JoinerAt("claimed")' /\ joiner'.early = {}
      BY <1>0, <1>1 DEF ConnectContact, JoinerPage, Away, JoinerAt
    <2>. QED  BY <1>1, <2>1, <2>2 DEF ContactInv, ConnectContact, OneIntroduction
  <1>2. CASE ConnectFailsClosed
    <2>1. /\ intro' \in IntroRecord /\ intro'.envelope = intro.envelope
          /\ intro'.state = "ESTABLISHED" => intro.state = "ESTABLISHED"
      BY <1>2 DEF ContactInv, ConnectFailsClosed, PendingRecord, IntroRecord, IntroStates
    <2>. QED  BY <1>2, <2>1 DEF ContactInv, ConnectFailsClosed, OneIntroduction, JoinerAt
  <1>3. CASE RetryJoinIntroduction \/ AttemptFails \/ LosePage
    <2>1. /\ joiner' \in JoinerPage /\ ~JoinerAt("claimed")'
          /\ joiner'.early \subseteq joiner.early
      <3>0. joiner \in JoinerPage  BY DEF ContactInv
      <3>1. \/ joiner' = Away
            \/ joiner' = [joiner EXCEPT !.step = "begin"]
            \/ joiner' = [joiner EXCEPT !.step = "idle", !.key = NoKey]
        BY <1>3 DEF RetryJoinIntroduction, AttemptFails, LosePage
      <3>2. CASE joiner' = Away  BY <1>0, <3>2 DEF JoinerAt
      <3>3. CASE joiner' = [joiner EXCEPT !.step = "begin"]
        BY <3>0, <3>3 DEF JoinerPage, JoinerAt
      <3>4. CASE joiner' = [joiner EXCEPT !.step = "idle", !.key = NoKey]
        BY <3>0, <3>4 DEF JoinerPage, JoinerAt
      <3>. QED  BY <3>1, <3>2, <3>3, <3>4
    <2>. QED
      BY <1>3, <2>1 DEF ContactInv, RetryJoinIntroduction, AttemptFails, LosePage, OneIntroduction
  <1>4. CASE ClaimKey
    <2>1. /\ joiner' \in JoinerPage /\ keys' \subseteq IntroKeys
          /\ JoinerAt("claimed")' => joiner'.key # NoKey
          /\ joiner'.early = joiner.early
      BY <1>4 DEF ContactInv, ClaimKey, JoinerPage, JoinerAt
    <2>. QED  BY <1>4, <2>1 DEF ContactInv, ClaimKey, OneIntroduction
  <1>5. CASE CommitIntroduction
    <2>1. /\ intro' \in IntroRecord /\ intro'.envelope = joiner.key
          /\ intro'.state = "PENDING_LOCAL" /\ joiner.key \in IntroKeys
      BY <1>5 DEF ContactInv, CommitIntroduction, IntroRecord, IntroStates, JoinerPage
    <2>2. /\ joiner' \in JoinerPage /\ ~JoinerAt("claimed")' /\ joiner'.early = joiner.early
      BY <1>5 DEF ContactInv, CommitIntroduction, JoinerPage, JoinerAt
    <2>3. joined = NoKey /\ joined' = joiner.key
          /\ UNCHANGED <<accepted, mail, keys>>
      BY <1>5 DEF ContactInv, CommitIntroduction
    <2>. QED  BY <2>1, <2>2, <2>3 DEF ContactInv, OneIntroduction
  <1>6. CASE InvitationExpires
    BY <1>6 DEF ContactInv, InvitationExpires, OneIntroduction, JoinerAt
  <1>. QED  BY <1>1, <1>2, <1>3, <1>4, <1>5, <1>6

\* The introduction that is stored is submitted, and its id recorded.
LEMMA SubmissionHolds ==
    ASSUME ContactInv, Submit \/ ReadLatest \/ RecordId
    PROVE  ContactInv' /\ OneIntroduction
  <1>. NoKey = 0 /\ NoKey \notin IntroKeys  BY DEF NoKey, IntroKeys
  <1>1. CASE Submit
    <2>1. joiner' \in JoinerPage /\ ~JoinerAt("claimed")' /\ joiner'.early = joiner.early
      BY <1>1 DEF ContactInv, Submit, JoinerPage, JoinerAt, AnyId
    <2>2. /\ mail' \in [IntroIds -> {"free", "waiting", "accepted", "rejected"}]
          /\ \A i \in IntroIds : mail'[i] = "accepted" => mail[i] = "accepted"
      BY <1>1 DEF ContactInv, Submit
    <2>. QED  BY <1>1, <2>1, <2>2 DEF ContactInv, Submit, OneIntroduction
  <1>2. CASE ReadLatest
    <2>1. joiner' \in JoinerPage /\ ~JoinerAt("claimed")' /\ joiner'.early = joiner.early
      BY <1>2 DEF ContactInv, ReadLatest, JoinerPage, JoinerAt, IntroRecord
    <2>. QED  BY <1>2, <2>1 DEF ContactInv, ReadLatest, OneIntroduction
  <1>3. CASE RecordId
    <2>1. joiner' \in JoinerPage /\ ~JoinerAt("claimed")' /\ joiner'.early \subseteq joiner.early
      BY <1>3 DEF ContactInv, RecordId, JoinerPage, JoinerAt, AnyId, IntroStates
    <2>2. /\ intro' \in IntroRecord /\ intro'.envelope = intro.envelope
          /\ intro'.state = "ESTABLISHED" => intro.state = "ESTABLISHED" \/ joiner.early # {}
      BY <1>3 DEF ContactInv, RecordId, ContactEstablished, IntroRecord, IntroStates, JoinerPage
    <2>. QED  BY <1>3, <2>1, <2>2 DEF ContactInv, RecordId, OneIntroduction
  <1>. QED  BY <1>1, <1>2, <1>3

\* A verdict arrives, or nobody is there to hear it.
LEMMA VerdictHolds ==
    ASSUME ContactInv, NEW i \in IntroIds,
           AcceptDelivery(i) \/ RejectDelivery(i) \/ VerdictLost(i)
    PROVE  ContactInv' /\ OneIntroduction
  <1>1. /\ mail' \in [IntroIds -> {"free", "waiting", "accepted", "rejected"}]
        /\ \A k \in IntroIds : mail'[k] # "free" => mail'[k] = mail[k]
    BY DEF ContactInv, AcceptDelivery, RejectDelivery, VerdictLost
  <1>2. CASE AcceptDelivery(i)
    <2>1. accepted # NoKey /\ joined # NoKey  BY <1>2 DEF ContactInv, AcceptDelivery
    <2>2. /\ joiner' \in JoinerPage /\ (JoinerAt("claimed")' => JoinerAt("claimed"))
          /\ joiner'.key = joiner.key
      <3>0. joiner \in JoinerPage  BY DEF ContactInv
      <3>1. joiner' = joiner \/ joiner' = [joiner EXCEPT !.pending = FALSE]
            \/ joiner' = [joiner EXCEPT !.early = joiner.early \cup {i}]
        BY <1>2 DEF AcceptDelivery
      <3>2. joiner.early \cup {i} \in SUBSET IntroIds  BY <3>0 DEF JoinerPage
      <3>. QED  BY <3>0, <3>1, <3>2 DEF JoinerPage, JoinerAt
    <2>3. intro' \in IntroRecord /\ intro'.envelope = intro.envelope
      BY <1>2 DEF ContactInv, AcceptDelivery, ContactEstablished, IntroRecord, IntroStates
    <2>. QED  BY <1>1, <1>2, <2>1, <2>2, <2>3 DEF ContactInv, AcceptDelivery, OneIntroduction
  <1>3. CASE RejectDelivery(i)
    <2>1. /\ intro' \in IntroRecord /\ intro'.envelope = intro.envelope
          /\ intro'.state = "ESTABLISHED" => intro.state = "ESTABLISHED"
      BY <1>3 DEF ContactInv, RejectDelivery, IntroRecord, IntroStates
    <2>. QED  BY <1>1, <1>3, <2>1 DEF ContactInv, RejectDelivery, OneIntroduction, JoinerAt
  <1>4. CASE VerdictLost(i)
    BY <1>1, <1>4 DEF ContactInv, VerdictLost, OneIntroduction, JoinerAt
  <1>. QED  BY <1>2, <1>3, <1>4

\* The inviter decides: what it accepts is what the joiner has stored.
LEMMA DecisionHolds ==
    ASSUME ContactInv, NEW i \in IntroIds,
           AcceptJoinIntroduction(i) \/ RefuseJoinIntroduction(i)
    PROVE  ContactInv' /\ OneIntroduction
  <1>1. /\ mail' \in [IntroIds -> {"free", "waiting", "accepted", "rejected"}]
        /\ joined # NoKey
    BY DEF ContactInv, AcceptJoinIntroduction, RefuseJoinIntroduction
  <1>2. CASE AcceptJoinIntroduction(i)
    BY <1>1, <1>2 DEF ContactInv, AcceptJoinIntroduction, OneIntroduction, JoinerAt
  <1>3. CASE RefuseJoinIntroduction(i)
    <2>1. \A k \in IntroIds : mail'[k] = "accepted" => mail[k] = "accepted"
      BY <1>3 DEF ContactInv, RefuseJoinIntroduction
    <2>. QED  BY <1>1, <1>3, <2>1 DEF ContactInv, RefuseJoinIntroduction, OneIntroduction, JoinerAt
  <1>. QED  BY <1>2, <1>3

\* Established is mutual, whatever is retried, repeated, early or lost, and no second
\* introduction ever replaces the one that is stored (sendJoinIntroductionUnlocked,
\* acceptDelivery).
THEOREM ContactIsSafe == ContactSpec => ContactSafe
  <1>1. ContactInit => ContactInv
    BY DEF ContactInit, ContactInv, IntroRecord, JoinerPage, Away, AnyId, IntroStates, JoinerAt,
           NoId, NoKey
  <1>2. ContactInv /\ [ContactNext]_introVars => ContactInv' /\ (OneIntroduction \/ UNCHANGED introVars)
    <2>. SUFFICES ASSUME ContactInv, [ContactNext]_introVars
                  PROVE  ContactInv' /\ (OneIntroduction \/ UNCHANGED introVars)
      OBVIOUS
    <2>1. CASE ContactNext
      BY <2>1, JoinerBeginsHolds, SubmissionHolds, VerdictHolds, DecisionHolds
         DEF ContactNext, JoinerWorks, Decided, Verdict
    <2>2. CASE UNCHANGED introVars  BY <2>2 DEF ContactInv, introVars, JoinerAt
    <2>. QED  BY <2>1, <2>2
  <1>3. ContactInv => ContactTypeOK /\ EstablishedIsMutual
    BY DEF ContactInv, ContactTypeOK, EstablishedIsMutual, IntroRecord, JoinerPage
  <1>. QED  BY <1>1, <1>2, <1>3, PTL DEF ContactSpec, ContactSafe
=============================================================================
