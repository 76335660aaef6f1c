----------------------------- MODULE ContactTrust -----------------------------
(* What a private space believes about one contact, and the recovery that    *)
(* takes it back.  The contact's identity is pinned the first time it is     *)
(* seen; the person compares it and marks it verified; the relay may serve   *)
(* another identity later, which waits for a review.  A recovery replaces    *)
(* the local account and voids every verification made before it.            *)
(*                                                                           *)
(* Several tabs work on the same vault.  Within a tab the registry runs one  *)
(* operation at a time; between tabs a record is replaced only if it is what *)
(* the operation has read.  A tab may go away between any two steps.         *)
EXTENDS Naturals, FiniteSets

CONSTANTS
    TrustTabs,      \* the tabs
    Identities,     \* identities the relay may serve for the contact
    MaxClock,       \* bound: the time
    MaxOperations   \* bound: sends, recoveries, changes and losses of a tab

ASSUME TrustAssumption == "no one" \notin Identities /\ MaxClock \in Nat \ {0} /\ MaxOperations \in Nat

VARIABLES
    pin,            \* 'contact-identity': identity, time of verification, change
    reset,          \* 'contact-trust-reset': the time of the last recovery
    kept,           \* the conversation's session, whether its mode names one,
                    \* and the mark of a renewal
    recovery,       \* 'recovery-runtime' and the account binding
    tabs,           \* per tab: the engine and its running operation
    served,         \* the identity the relay serves
    clock,
    compared,       \* history: identities compared and confirmed, and still valid
    recent,         \* history, per tab that has taken the time of its recovery:
                    \* those of them that the recovery will not void
    torn,           \* history: a change is accepted, the former session is kept
                    \* or being made
    operations

trustVars == <<pin, reset, kept, recovery, tabs, served, clock, compared, recent, torn, operations>>

NoOne      == "no one"
NoPin      == [identity |-> NoOne, verifiedAt |-> 0, pending |-> NoOne]
Someone    == Identities \cup {NoOne}
Pin        == [identity : Someone, verifiedAt : 0 .. MaxClock, pending : Someone]
TrustTimes      == 0 .. MaxClock
ClosedTab  == [step |-> "closed", read |-> NoPin, next |-> NoPin, shown |-> NoOne,
               session |-> NoOne, health |-> "healthy", at |-> 0, time |-> 0]
Tab        == [step : {"closed", "ready", "write", "stamp", "verify", "discard", "unname",
                       "send", "file", "replace", "complete", "error"},
               read : Pin, next : Pin, shown : Someone, session : Someone,
               health : {"healthy", "unhealthy", "renewal"}, at : TrustTimes, time : TrustTimes]

TrustInit ==
    /\ pin = NoPin
    /\ reset = 0
    /\ kept = [session |-> NoOne, named |-> FALSE, renewal |-> FALSE]
    /\ recovery = [claimed |-> FALSE, pending |-> FALSE, completed |-> 0, scope |-> 0]
    /\ tabs = [t \in TrustTabs |-> ClosedTab]
    /\ served \in Identities
    /\ clock = 1
    /\ compared = {}
    /\ recent = [t \in TrustTabs |-> {}]
    /\ torn = FALSE
    /\ operations = 0

\* Variant for testing TrustCorrect: a verification of the very time counts.
CountsFrom(p, r) == IF p.verifiedAt >= r THEN p
                                         ELSE [p EXCEPT !.verifiedAt = 0]

(* A verification counts when it is later than the last recovery.            *)
ApplyRecoveryReset(p, r) == IF p.verifiedAt > r THEN p
                                                ELSE [p EXCEPT !.verifiedAt = 0]
Verified(p, r) == ApplyRecoveryReset(p, r).verifiedAt > 0
Unchanged(p)   == p.identity # NoOne /\ p.pending = NoOne

Counts    == operations < MaxOperations /\ operations' = operations + 1
TabReady(t)  == tabs[t].step = "ready"
On(t, s)  == tabs[t].step = s
TabFree(tab) == [tab EXCEPT !.step = "ready", !.read = NoPin, !.next = NoPin,
                            !.at = 0, !.time = 0]

(* Reads the record and works out the next one.                              *)
Begins(t, s, next) ==
    tabs' = [tabs EXCEPT ![t].step = s, ![t].read = pin, ![t].next = next]

(********************************* Opening ***********************************)
(* The stored session is restored; one that is named but missing leaves the  *)
(* engine unhealthy.                                                         *)
OpenTab(t) ==
    /\ On(t, "closed")
    /\ tabs' = [tabs EXCEPT ![t] = [ClosedTab EXCEPT
           !.step = "ready", !.shown = pin.identity,
           !.session = IF kept.named THEN kept.session ELSE NoOne,
           !.health = CASE kept.named /\ kept.session = NoOne -> "unhealthy"
                        [] kept.renewal -> "renewal"
                        [] OTHER -> "healthy"]]
    /\ UNCHANGED <<pin, reset, kept, recovery, served, clock, compared, recent, torn, operations>>

LoseTab(t) ==
    /\ ~On(t, "closed")
    /\ Counts
    /\ tabs' = [tabs EXCEPT ![t] = ClosedTab]
    /\ recent' = [recent EXCEPT ![t] = {}]
    /\ UNCHANGED <<pin, reset, kept, recovery, served, clock, compared, torn>>

(* The bundle is fetched and its identity compared with the pin: the first   *)
(* is pinned, another one waits for a review and ends a verification.        *)
Observed(id) ==
    IF pin.identity = NoOne
    THEN [NoPin EXCEPT !.identity = id]
    ELSE [pin EXCEPT !.verifiedAt = 0, !.pending = id]

Observe(t) ==
    /\ TabReady(t) /\ pin.identity # served
    /\ Begins(t, "write", Observed(served))
    /\ UNCHANGED <<pin, reset, kept, recovery, served, clock, compared, recent, torn, operations>>

(* Every look at the record stores the effect of a recovery.                 *)
GetContact(t) ==
    /\ TabReady(t)
    /\ tabs' = [tabs EXCEPT ![t].shown = pin.identity,
           ![t].step = IF ApplyRecoveryReset(pin, reset) # pin THEN "write" ELSE @,
           ![t].read = pin, ![t].next = ApplyRecoveryReset(pin, reset)]
    /\ UNCHANGED <<pin, reset, kept, recovery, served, clock, compared, recent, torn, operations>>

(******************************* Verification ********************************)
(* The person has compared the number on the screen; the record is read.     *)
MarkVerified(t) ==
    /\ TabReady(t) /\ tabs[t].shown # NoOne
    /\ pin.identity = tabs[t].shown /\ Unchanged(pin)
    /\ Begins(t, "stamp", pin)
    /\ compared' = compared \cup {tabs[t].shown}
    /\ recent' = [u \in TrustTabs |-> IF On(u, "complete") THEN recent[u] \cup {tabs[t].shown}
                                                          ELSE recent[u]]
    /\ UNCHANGED <<pin, reset, kept, recovery, served, clock, torn, operations>>

(* The time is taken before the record is written.                           *)
StampVerified(t) ==
    /\ On(t, "stamp")
    /\ tabs' = [tabs EXCEPT ![t].step = "verify", ![t].next.verifiedAt = clock]
    /\ UNCHANGED <<pin, reset, kept, recovery, served, clock, compared, recent, torn, operations>>

WriteVerified(t) ==
    /\ On(t, "verify")
    /\ pin' = IF pin = tabs[t].read THEN tabs[t].next ELSE pin
    /\ tabs' = [tabs EXCEPT ![t] = TabFree(@)]
    /\ UNCHANGED <<reset, kept, recovery, served, clock, compared, recent, torn, operations>>

MarkUnverified(t) ==
    /\ TabReady(t) /\ pin.verifiedAt > 0
    /\ Begins(t, "write", [pin EXCEPT !.verifiedAt = 0])
    /\ UNCHANGED <<pin, reset, kept, recovery, served, clock, compared, recent, torn, operations>>

(* The new identity becomes the pin, unverified; then the session with the   *)
(* former one is deleted, and the name of it in the mode.                    *)
AcceptPendingChange(t) ==
    /\ Counts
    /\ TabReady(t) /\ pin.pending # NoOne
    /\ Begins(t, "write", [NoPin EXCEPT !.identity = pin.pending])
    /\ UNCHANGED <<pin, reset, kept, recovery, served, clock, compared, recent, torn>>

Accepting(t) == tabs[t].read.pending # NoOne
                /\ tabs[t].next.identity = tabs[t].read.pending

(* Confirmations that are being written survive a change of the record, those *)
(* without a time also a recovery.                                           *)
Unstamped  == {tabs[u].shown : u \in {v \in TrustTabs : On(v, "stamp")}}
Confirming == Unstamped \cup {tabs[u].shown : u \in {v \in TrustTabs : On(v, "verify")}}

Sending == \E u \in TrustTabs : On(u, "send") \/ On(u, "file")

(* A record that another tab has replaced is left alone.                     *)
WriteRecord(t) ==
    /\ On(t, "write")
    /\ IF pin = tabs[t].read
       THEN /\ pin' = tabs[t].next
            /\ compared' = compared \cap Confirming
            /\ recent' = [u \in TrustTabs |-> recent[u] \cap Confirming]
            /\ tabs' = [tabs EXCEPT ![t] = IF Accepting(t)
                           THEN [TabFree(@) EXCEPT !.step = "discard"] ELSE TabFree(@)]
            /\ torn' = (torn \/ (Accepting(t) /\ (kept.session # NoOne \/ Sending)))
       ELSE /\ tabs' = [tabs EXCEPT ![t] = TabFree(@)]
            /\ UNCHANGED <<pin, compared, recent, torn>>
    /\ UNCHANGED <<reset, kept, recovery, served, clock, operations>>

DiscardSession(t) ==
    /\ On(t, "discard")
    /\ kept' = [kept EXCEPT !.session = NoOne]
    /\ torn' = (torn /\ Sending)
    /\ tabs' = [tabs EXCEPT ![t].step = "unname"]
    /\ UNCHANGED <<pin, reset, recovery, served, clock, compared, recent, operations>>

UnnameSession(t) ==
    /\ On(t, "unname")
    /\ kept' = [kept EXCEPT !.named = FALSE]
    /\ tabs' = [tabs EXCEPT ![t] = [TabFree(@) EXCEPT !.session = NoOne,
                                                   !.shown = pin.identity]]
    /\ UNCHANGED <<pin, reset, recovery, served, clock, compared, recent, torn,
                   operations>>

(******************************** Messages ***********************************)
(* The pin is read and must wait for no review.  Without a session one is    *)
(* prepared with the identity the relay serves, which must be the pin.       *)
Sends(t, s) ==
    /\ TabReady(t) /\ tabs[t].health # "unhealthy"
    /\ Unchanged(pin)
    /\ tabs[t].session = NoOne => served = pin.identity
    /\ tabs' = [tabs EXCEPT ![t].step = s, ![t].read = pin, ![t].at = reset]

SendMessage(t) ==
    /\ Counts
    /\ Sends(t, "send")
    /\ UNCHANGED <<pin, reset, kept, recovery, served, clock, compared, recent, torn>>

(* A reference to a file needs a verified contact, and is stored only        *)
(* against the records in which the contact was found verified.              *)
PrepareVerifiedFileGuards(t) ==
    /\ Counts
    /\ Sends(t, "file")
    /\ Verified(pin, reset)
    /\ UNCHANGED <<pin, reset, kept, recovery, served, clock, compared, recent, torn>>

GuardsHold(t) == On(t, "file") => pin = tabs[t].read /\ reset = tabs[t].at

(* Message and session are stored together, against the session restored or  *)
(* against none.                                                             *)
Stores(t)     == kept.session = tabs[t].session /\ GuardsHold(t)
SessionFor(t) == IF tabs[t].session = NoOne THEN tabs[t].read.identity
                                            ELSE tabs[t].session

CommitMessage(t) ==
    /\ On(t, "send") \/ On(t, "file")
    /\ IF Stores(t)
       THEN /\ kept' = [kept EXCEPT !.session = SessionFor(t), !.named = TRUE]
            /\ tabs' = [tabs EXCEPT ![t] = [TabFree(@) EXCEPT !.session = SessionFor(t)]]
       ELSE /\ tabs' = [tabs EXCEPT ![t] = TabFree(@)]
            /\ UNCHANGED kept
    /\ UNCHANGED <<pin, reset, recovery, served, clock, compared, recent, torn, operations>>

(* A lost session is renewed for a verified contact only, and only while the *)
(* mode still names it and its record is missing.                            *)
PrepareVerifiedSessionRenewal(t) ==
    /\ TabReady(t) /\ tabs[t].health = "unhealthy"
    /\ Verified(pin, reset) /\ Unchanged(pin) /\ served = pin.identity
    /\ kept.named /\ kept.session = NoOne
    /\ kept' = [kept EXCEPT !.named = FALSE, !.renewal = TRUE]
    /\ tabs' = [tabs EXCEPT ![t].health = "renewal"]
    /\ UNCHANGED <<pin, reset, recovery, served, clock, compared, recent, torn, operations>>

(* The contact has accepted the first message of the renewed session.        *)
AcceptRenewal(t) ==
    /\ TabReady(t) /\ tabs[t].health = "renewal" /\ kept.renewal /\ kept.named
    /\ kept' = [kept EXCEPT !.renewal = FALSE]
    /\ tabs' = [tabs EXCEPT ![t].health = "healthy"]
    /\ UNCHANGED <<pin, reset, recovery, served, clock, compared, recent, torn,
                   operations>>

(******************************** Recovery ***********************************)
(* The archive is opened for the account it was made by, once.               *)
Unclaimed == ~recovery.claimed /\ ~recovery.pending /\ recovery.scope = 0

StageRecovery(t) ==
    /\ Counts
    /\ TabReady(t)
    /\ Unclaimed
    /\ recovery' = [recovery EXCEPT !.claimed = TRUE, !.pending = TRUE]
    /\ UNCHANGED <<pin, reset, kept, tabs, served, clock, compared, recent, torn>>

RejectRecovery(t) ==
    /\ TabReady(t) /\ recovery.pending
    /\ recovery' = [recovery EXCEPT !.pending = FALSE]
    /\ UNCHANGED <<pin, reset, kept, tabs, served, clock, compared, recent, torn,
                   operations>>

(* The replacement is prepared in memory, also after a restart.              *)
ReplaceIdentity(t) ==
    /\ Counts
    /\ TabReady(t) /\ recovery.pending
    /\ tabs' = [tabs EXCEPT ![t].step = "replace", ![t].at = recovery.scope]
    /\ UNCHANGED <<pin, reset, kept, recovery, served, clock, compared, recent, torn>>

(* The pending recovery and the time are read; then several reads are        *)
(* awaited, before the one write for the account, both device lists and the  *)
(* reset of trust under that time.  The contact is no part of the write.     *)
TakeResetTime(t) ==
    /\ On(t, "replace")
    /\ IF recovery.pending
       THEN /\ tabs' = [tabs EXCEPT ![t].step = "complete", ![t].time = clock]
            /\ recent' = [recent EXCEPT ![t] = Unstamped]
       ELSE /\ tabs' = [tabs EXCEPT ![t] = TabFree(@)]
            /\ UNCHANGED recent
    /\ UNCHANGED <<pin, reset, kept, recovery, served, clock, compared, torn, operations>>

Confirms(t) == recovery.pending /\ recovery.scope = tabs[t].at

CompleteRecovery(t) ==
    /\ On(t, "complete")
    /\ IF Confirms(t)
       THEN /\ recovery' = [recovery EXCEPT !.pending = FALSE, !.scope = @ + 1,
                                            !.completed = @ + 1]
            /\ reset' = tabs[t].time
            /\ compared' = recent[t]
       ELSE UNCHANGED <<recovery, reset, compared>>
    /\ recent' = [recent EXCEPT ![t] = {}]
    /\ tabs' = [tabs EXCEPT ![t] = TabFree(@)]
    /\ UNCHANGED <<pin, kept, served, clock, torn, operations>>

(****************************** Environment **********************************)
ServeIdentity ==
    /\ Counts
    /\ served' \in Identities \ {served}
    /\ UNCHANGED <<pin, reset, kept, recovery, tabs, clock, compared, recent, torn>>

TimePasses ==
    /\ clock < MaxClock /\ clock' = clock + 1
    /\ UNCHANGED <<pin, reset, kept, recovery, tabs, served, compared, recent, torn,
                   operations>>

RegistryStep(t) ==
    \/ Observe(t)
    \/ GetContact(t)
    \/ MarkVerified(t)
    \/ StampVerified(t)
    \/ WriteVerified(t)
    \/ MarkUnverified(t)
    \/ AcceptPendingChange(t)
    \/ WriteRecord(t)

EngineStep(t) ==
    \/ OpenTab(t)
    \/ LoseTab(t)
    \/ DiscardSession(t)
    \/ UnnameSession(t)
    \/ SendMessage(t)
    \/ CommitMessage(t)
    \/ PrepareVerifiedSessionRenewal(t)
    \/ AcceptRenewal(t)
    \/ PrepareVerifiedFileGuards(t)

RecoveryStep(t) ==
    \/ StageRecovery(t)
    \/ RejectRecovery(t)
    \/ ReplaceIdentity(t)
    \/ TakeResetTime(t)
    \/ CompleteRecovery(t)

TrustNext ==
    \/ \E t \in TrustTabs : RegistryStep(t) \/ EngineStep(t) \/ RecoveryStep(t)
    \/ ServeIdentity
    \/ TimePasses

TrustSpec == TrustInit /\ [][TrustNext]_trustVars

-----------------------------------------------------------------------------
(* The records of the vault and the tabs have their shapes.                  *)
TrustTypeOK ==
    /\ pin \in Pin /\ reset \in TrustTimes /\ clock \in TrustTimes
    /\ kept \in [session : Someone, named : BOOLEAN, renewal : BOOLEAN]
    /\ recovery \in [claimed : BOOLEAN, pending : BOOLEAN, completed : 0 .. 1,
                     scope : 0 .. 1]
    /\ tabs \in [TrustTabs -> Tab]

(* A contact counts as verified only when the person compared exactly the    *)
(* pinned identity, no change of it was seen since, and the last recovery     *)
(* had not taken its time before the comparison got its own: a recovery       *)
(* voids all that was stamped until it took its time, whatever tabs, lookups  *)
(* and other recoveries do before its write, and nothing that is stamped      *)
(* later, also when that is written before it (ContactIdentityRegistry,       *)
(* complete).                                                                *)
VerifiedWasCompared == Verified(pin, reset) => pin.identity \in compared

(* A message is encrypted in a session with the identity it is addressed to, *)
(* except while the session with an identity that was replaced is still kept *)
(* or being made (sendUnlocked, acceptChangedIdentity).                      *)
SentToPinned ==
    \A t \in TrustTabs : CommitMessage(t) /\ Stores(t) /\ ~torn =>
        SessionFor(t) = tabs[t].read.identity

(* A file reference is stored only at a moment at which the contact is       *)
(* verified and unchanged, though the check was made steps earlier           *)
(* (prepareVerifiedFileGuards).                                              *)
FileToVerified ==
    \A t \in TrustTabs : CommitMessage(t) /\ On(t, "file") /\ Stores(t) =>
        Verified(pin, reset) /\ Unchanged(pin)

(* What trust in a contact promises: it follows a comparison the person      *)
(* made, and what is sent is sent under it.                                  *)
TrustCorrect ==
    /\ [](TrustTypeOK /\ VerifiedWasCompared)
    /\ [][SentToPinned /\ FileToVerified]_trustVars
=============================================================================
