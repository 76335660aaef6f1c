----------------------------- MODULE FirstContact -----------------------------
(* The first contact.  The joiner of an invitation claims one of the         *)
(* inviter's one-time keys, opens a session with it and stores, in the same  *)
(* write, the encrypted introduction; it submits that very introduction      *)
(* again and again until it learns that the inviter has accepted it.  The    *)
(* inviter has no session and no contact before; accepting gives it both.    *)
(*                                                                           *)
(* The joiner's sends run under the tab lock and its handling of verdicts    *)
(* under another, so that the two interleave.  A session is named by the key *)
(* it was opened with.  The relay's ids are used again once they are free.   *)
EXTENDS Naturals, FiniteSets

CONSTANTS
    IntroIds,       \* relay ids of submissions
    MaxInviteKeys,  \* bound: one-time keys in the inviter's bundle
    MaxIntroLosses  \* bound: pages lost, attempts that fail, verdicts that miss

ASSUME IntroAssumption ==
    MaxInviteKeys \in Nat \ {0} /\ MaxIntroLosses \in Nat

VARIABLES
    intro,          \* the joiner's 'join-introduction' record
    joiner,         \* the joiner's page: where it is, what it has read
    joined,         \* the joiner's stored session
    accepted,       \* the inviter: session and event of the accepted introduction
    taken,          \* the inviter has another contact already
    mail,           \* per relay id: the submission, then the verdict on it
    keys,           \* one-time keys left in the inviter's bundle
    expired,        \* the invitation is older than a day
    introLosses

introVars == <<intro, joiner, joined, accepted, taken, mail, keys, expired,
               introLosses>>

NoId      == 0
NoKey     == 0
IntroKeys == 1 .. MaxInviteKeys
AnyId     == IntroIds \cup {NoId}
IntroStates == {"none", "PENDING_LOCAL", "PENDING_REMOTE", "ESTABLISHED",
                "FAILED_OR_UNSUPPORTED"}
Away      == [step |-> "away", pending |-> FALSE, early |-> {}, key |-> NoKey,
              id |-> NoId, latest |-> "none"]

ContactInit ==
    /\ intro = [state |-> "none", envelope |-> NoKey, id |-> NoId]
    /\ joiner = Away
    /\ joined = NoKey
    /\ accepted = NoKey
    /\ taken \in BOOLEAN
    /\ mail = [i \in IntroIds |-> "free"]
    /\ keys = IntroKeys
    /\ expired = FALSE
    /\ introLosses = 0

JoinerAt(s) == joiner.step = s

(******************************** The joiner *********************************)
(* The record is made for a signed invitation; the inviter's bundle is       *)
(* fetched and the invitation verified against it.                           *)
PendingRecord == IF intro.state = "none" THEN [intro EXCEPT !.state = "PENDING_LOCAL"]
                                         ELSE intro

(* Once established the age of the invitation does not matter.               *)
Admits(r) == ~expired \/ (r.state = "ESTABLISHED" /\ joined # NoKey)

ConnectContact ==
    /\ JoinerAt("away")
    /\ Admits(PendingRecord)
    /\ intro' = PendingRecord
    /\ joiner' = [Away EXCEPT !.pending = PendingRecord.state # "ESTABLISHED",
           !.step = IF PendingRecord.state # "ESTABLISHED" THEN "begin" ELSE "idle"]
    /\ UNCHANGED <<joined, accepted, taken, mail, keys, expired, introLosses>>

(* A record without an introduction fails with its invitation.               *)
ConnectFailsClosed ==
    /\ JoinerAt("away")
    /\ ~Admits(PendingRecord)
    /\ intro' = IF PendingRecord.envelope = NoKey
                THEN [PendingRecord EXCEPT !.state = "FAILED_OR_UNSUPPORTED"]
                ELSE PendingRecord
    /\ UNCHANGED <<joiner, joined, accepted, taken, mail, keys, expired, introLosses>>

(* Every five seconds while the introduction is pending.  A verdict that     *)
(* takes longer than that counts as a loss: its id will be replaced.         *)
Slow == intro.id # NoId /\ mail[intro.id] # "free"

\* Variant for testing ContactCorrect: a recorded id ends the retries.
RetryOnce ==
    /\ JoinerAt("idle") /\ joiner.pending /\ intro.id = NoId
    /\ joiner' = [joiner EXCEPT !.step = "begin"]
    /\ UNCHANGED <<intro, joined, accepted, taken, mail, keys, expired, introLosses>>

RetryJoinIntroduction ==
    /\ JoinerAt("idle") /\ joiner.pending
    /\ Slow => introLosses < MaxIntroLosses
    /\ introLosses' = IF Slow THEN introLosses + 1 ELSE introLosses
    /\ joiner' = [joiner EXCEPT !.step = "begin"]
    /\ UNCHANGED <<intro, joined, accepted, taken, mail, keys, expired>>

(* Without a session the inviter's first key is claimed: it is gone from the *)
(* bundle whatever becomes of this attempt.                                  *)
ClaimKey ==
    /\ JoinerAt("begin")
    /\ intro.envelope = NoKey /\ joined = NoKey
    /\ IF keys = {}
       THEN joiner' = [joiner EXCEPT !.step = "idle"] /\ UNCHANGED keys
       ELSE \E k \in keys : /\ keys' = keys \ {k}
                            /\ joiner' = [joiner EXCEPT !.step = "claimed", !.key = k]
    /\ UNCHANGED <<intro, joined, accepted, taken, mail, expired, introLosses>>

(* Session, record and audit in one write, against a record that has no      *)
(* introduction yet.                                                         *)
CommitIntroduction ==
    /\ JoinerAt("claimed")
    /\ intro.envelope = NoKey
    /\ intro' = [intro EXCEPT !.envelope = joiner.key, !.state = "PENDING_LOCAL"]
    /\ joined' = joiner.key
    /\ joiner' = [joiner EXCEPT !.step = "begin", !.key = NoKey]
    /\ UNCHANGED <<accepted, taken, mail, keys, expired, introLosses>>

Submit ==
    /\ JoinerAt("begin") /\ intro.envelope # NoKey
    /\ \E i \in IntroIds :
          /\ mail[i] = "free" /\ i \notin joiner.early /\ i # intro.id
          /\ mail' = [mail EXCEPT ![i] = "waiting"]
          /\ joiner' = [joiner EXCEPT !.step = "answered", !.id = i]
    /\ UNCHANGED <<intro, joined, accepted, taken, keys, expired, introLosses>>

(* Neither the claim nor the submission need succeed.                        *)
AttemptFails ==
    /\ JoinerAt("claimed") \/ JoinerAt("begin")
    /\ introLosses < MaxIntroLosses /\ introLosses' = introLosses + 1
    /\ joiner' = [joiner EXCEPT !.step = "idle", !.key = NoKey]
    /\ UNCHANGED <<intro, joined, accepted, taken, mail, keys, expired>>

ReadLatest ==
    /\ JoinerAt("answered")
    /\ joiner' = [joiner EXCEPT !.step = "latest", !.latest = intro.state]
    /\ UNCHANGED <<intro, joined, accepted, taken, mail, keys, expired, introLosses>>

(* The id of the submission is recorded over whatever was decided since the  *)
(* record was read; a verdict that came early is applied now.                *)
ContactEstablished(r) == [r EXCEPT !.state = "ESTABLISHED"]

RecordId ==
    LET next == IF joiner.latest = "ESTABLISHED" THEN intro
                ELSE [intro EXCEPT !.id = joiner.id, !.state = "PENDING_REMOTE"]
        early == joiner.id \in joiner.early
        settles == early /\ next.id = joiner.id /\ next.state # "ESTABLISHED"
    IN /\ JoinerAt("latest")
       /\ intro' = IF settles THEN ContactEstablished(next) ELSE next
       /\ joiner' = [joiner EXCEPT !.step = "idle", !.id = NoId, !.latest = "none",
                                   !.early = @ \ {joiner.id},
                                   !.pending = @ /\ ~settles]
       /\ UNCHANGED <<joined, accepted, taken, mail, keys, expired, introLosses>>

(***************************** Verdicts arrive *******************************)
(* A verdict on the recorded submission settles the record; one that comes   *)
(* before any id is recorded is kept; one for an id that is not recorded yet *)
(* or not any more is dropped; the former counts as a loss.                  *)
Holds(i) == /\ intro.envelope # NoKey /\ intro.id = NoId
            /\ intro.state \in {"PENDING_LOCAL", "PENDING_REMOTE"}

AcceptDelivery(i) ==
    /\ ~JoinerAt("away") /\ mail[i] = "accepted"
    /\ mail' = [mail EXCEPT ![i] = "free"]
    /\ \/ /\ intro.id = i /\ intro.state # "ESTABLISHED"
          /\ intro' = ContactEstablished(intro)
          /\ joiner' = [joiner EXCEPT !.pending = FALSE]
          /\ UNCHANGED introLosses
       \/ /\ Holds(i)
          /\ joiner' = [joiner EXCEPT !.early = @ \cup {i}]
          /\ UNCHANGED <<intro, introLosses>>
       \/ /\ intro.id # i \/ intro.state = "ESTABLISHED"
          /\ ~Holds(i)
          /\ joiner.id = i => introLosses < MaxIntroLosses
          /\ introLosses' = IF joiner.id = i THEN introLosses + 1 ELSE introLosses
          /\ UNCHANGED <<intro, joiner>>
    /\ UNCHANGED <<joined, accepted, taken, keys, expired>>

RejectDelivery(i) ==
    /\ ~JoinerAt("away") /\ mail[i] = "rejected"
    /\ intro' = IF intro.id = i /\ intro.state # "ESTABLISHED"
                THEN [intro EXCEPT !.state = "FAILED_OR_UNSUPPORTED"] ELSE intro
    /\ mail' = [mail EXCEPT ![i] = "free"]
    /\ UNCHANGED <<joiner, joined, accepted, taken, keys, expired, introLosses>>

(* Nobody is there to hear the verdict.                                      *)
VerdictLost(i) ==
    /\ JoinerAt("away") /\ mail[i] \in {"accepted", "rejected"}
    /\ mail' = [mail EXCEPT ![i] = "free"]
    /\ UNCHANGED <<intro, joiner, joined, accepted, taken, keys, expired, introLosses>>

(******************************* The inviter *********************************)
(* A contact that is not the one the inviter has, or another event than the  *)
(* one accepted, is refused for good.                                        *)
AcceptJoinIntroduction(i) ==
    /\ mail[i] = "waiting"
    /\ ~taken /\ accepted \in {NoKey, intro.envelope}
    /\ accepted' = intro.envelope
    /\ mail' = [mail EXCEPT ![i] = "accepted"]
    /\ UNCHANGED <<intro, joiner, joined, taken, keys, expired, introLosses>>

RefuseJoinIntroduction(i) ==
    /\ mail[i] = "waiting"
    /\ taken \/ accepted \notin {NoKey, intro.envelope}
    /\ mail' = [mail EXCEPT ![i] = "rejected"]
    /\ UNCHANGED <<intro, joiner, joined, accepted, taken, keys, expired, introLosses>>

(****************************** Environment **********************************)
LosePage ==
    /\ ~JoinerAt("away")
    /\ introLosses < MaxIntroLosses /\ introLosses' = introLosses + 1
    /\ joiner' = Away
    /\ UNCHANGED <<intro, joined, accepted, taken, mail, keys, expired>>

InvitationExpires ==
    /\ ~expired /\ expired' = TRUE
    /\ UNCHANGED <<intro, joiner, joined, accepted, taken, mail, keys, introLosses>>

JoinerWorks ==
    \/ ConnectContact
    \/ ConnectFailsClosed
    \/ RetryJoinIntroduction
    \/ ClaimKey
    \/ CommitIntroduction
    \/ Submit
    \/ ReadLatest
    \/ RecordId

Decided(i)  == i # NoId /\ (AcceptJoinIntroduction(i) \/ RefuseJoinIntroduction(i))
Verdict(i)  == i # NoId /\ (AcceptDelivery(i) \/ RejectDelivery(i))

ContactNext ==
    \/ JoinerWorks
    \/ AttemptFails
    \/ LosePage
    \/ InvitationExpires
    \/ \E i \in IntroIds : Decided(i) \/ Verdict(i) \/ VerdictLost(i)

(* The page runs its steps and its timer while it is open, the inviter is    *)
(* there to decide, and the relay delivers what it has.                      *)
ContactFair ==
    /\ WF_introVars(JoinerWorks)
    /\ WF_introVars(\E i \in IntroIds : Decided(i))
    /\ WF_introVars(\E i \in IntroIds : Verdict(i))

ContactSpec == ContactInit /\ [][ContactNext]_introVars /\ ContactFair

-----------------------------------------------------------------------------
(* Record, page and mail have their shapes.                                  *)
ContactTypeOK ==
    /\ intro \in [state : IntroStates, envelope : IntroKeys \cup {NoKey}, id : AnyId]
    /\ joiner.step \in {"away", "idle", "begin", "claimed", "answered", "latest"}
    /\ joiner.early \subseteq IntroIds /\ joiner.id \in AnyId
    /\ joined \in IntroKeys \cup {NoKey} /\ accepted \in IntroKeys \cup {NoKey}
    /\ keys \subseteq IntroKeys
    /\ mail \in [IntroIds -> {"free", "waiting", "accepted", "rejected"}]

(* The joiner believes the contact established only when the inviter holds   *)
(* the very session that the joiner opened: through retries, repeated ids,   *)
(* early verdicts and lost pages (acceptDelivery).                           *)
EstablishedIsMutual ==
    intro.state = "ESTABLISHED" => joined # NoKey /\ accepted = joined

(* One introduction and one session: what is stored is never replaced by     *)
(* another, and once it is stored no key of the inviter's is claimed any     *)
(* more (prepareOutboundSession, sendJoinIntroductionUnlocked).              *)
OneIntroduction ==
    joined # NoKey => joined' = joined /\ keys' = keys
                      /\ intro'.envelope = intro.envelope

(* An introduction that the inviter has accepted is settled in the end,      *)
(* unless the invitation expires first: the record says so or the open page  *)
(* has learned it, though verdicts may come early, be lost, or lag behind    *)
(* the next submission (retryJoinIntroduction, acceptDelivery).              *)
IntroductionSettles ==
    (accepted # NoKey /\ intro.state # "ESTABLISHED") ~>
        \/ intro.state = "ESTABLISHED" \/ expired
        \/ ~JoinerAt("away") /\ ~joiner.pending

(* What the first contact never does: a contact that is established is so on *)
(* both sides, through one introduction.                                     *)
ContactSafe ==
    /\ [](ContactTypeOK /\ EstablishedIsMutual)
    /\ [][OneIntroduction]_introVars

(* What the first contact promises: that, and that the introduction settles. *)
ContactCorrect == ContactSafe /\ IntroductionSettles
=============================================================================
