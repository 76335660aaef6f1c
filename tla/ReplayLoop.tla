----------------------------- MODULE ReplayLoop -----------------------------
(***************************************************************************)
(* The replay scheduler of a legacy socket: which of its calls runs the    *)
(* delivery loop, what a request that comes while the loop runs leaves     *)
(* behind, and which timer brings the loop back.  The mailbox is a number  *)
(* of waiting messages and whether its head is claimed (the module         *)
(* OfflineMailbox has the rows).  Steps are the stretches between awaits.  *)
(***************************************************************************)
EXTENDS Integers

CONSTANTS MaxMail,         \* messages stored
          MaxReplayFaults  \* failed or unanswered deliveries, failing storage

ASSUME ReplayAssumption == {MaxMail, MaxReplayFaults} \subseteq Nat

VARIABLES mailbox,    \* waiting messages, and whether the head is claimed
          loop,       \* where the replay of this socket stands
          asked,      \* replayRequested
          replayTimer,
          wakes,      \* messages stored whose wake-up is still to be called
          stores,     \* messages stored so far
          owns,       \* currentLegacyOwner
          replayFaults

replayVars == <<mailbox, loop, asked, replayTimer, wakes, stores, owns, replayFaults>>

\* A socket that has joined and was asked to replay once.
ReplayInit ==
    /\ mailbox = [waiting |-> 0, claimed |-> FALSE]
    /\ loop = "off" /\ asked = FALSE /\ replayTimer = FALSE
    /\ wakes = 0 /\ stores = 0 /\ owns = TRUE /\ replayFaults = 0

\* requestReplay, from a wake-up, a timer or the end of the loop itself.
RequestReplay(at) ==
    /\ replayTimer' = FALSE
    /\ IF at # "off" \/ ~owns
       THEN asked' = TRUE /\ loop' = at
       ELSE asked' = FALSE /\ loop' = "deliver"

\* A message is stored for the mailbox; its wake-up is another step.
StoreMail ==
    /\ stores < MaxMail /\ stores' = stores + 1
    /\ mailbox' = [mailbox EXCEPT !.waiting = @ + 1]
    /\ wakes' = wakes + 1
    /\ UNCHANGED <<loop, asked, replayTimer, owns, replayFaults>>

WakeMailbox ==
    /\ wakes > 0 /\ wakes' = wakes - 1
    /\ RequestReplay(loop)
    /\ UNCHANGED <<mailbox, stores, owns, replayFaults>>

ReplayTimerFires ==
    /\ replayTimer /\ RequestReplay(loop)
    /\ UNCHANGED <<mailbox, wakes, stores, owns, replayFaults>>

\* deliverOffline: claim the head, hand it over, remove it when it was accepted.
ClaimHead ==
    /\ loop = "deliver" /\ owns /\ mailbox.waiting > 0 /\ ~mailbox.claimed
    /\ mailbox' = [mailbox EXCEPT !.claimed = TRUE] /\ loop' = "handed"
    /\ UNCHANGED <<asked, replayTimer, wakes, stores, owns, replayFaults>>

\* Nothing to claim, or another has it: the round is over.
RoundEnds ==
    /\ loop = "deliver" /\ (~owns \/ mailbox.waiting = 0 \/ mailbox.claimed)
    /\ loop' = IF asked /\ owns THEN "deliver" ELSE "settle"
    /\ asked' = (asked /\ ~owns)
    /\ UNCHANGED <<mailbox, replayTimer, wakes, stores, owns, replayFaults>>

\* Variant for testing ReplayCorrect: the accepted message is not removed.
AcceptedKeeps ==
    /\ loop = "handed" /\ owns
    /\ mailbox' = [mailbox EXCEPT !.claimed = FALSE] /\ loop' = "deliver"
    /\ UNCHANGED <<asked, replayTimer, wakes, stores, owns, replayFaults>>

Accepted ==
    /\ loop = "handed" /\ owns
    /\ mailbox' = [waiting |-> mailbox.waiting - 1, claimed |-> FALSE] /\ loop' = "deliver"
    /\ UNCHANGED <<asked, replayTimer, wakes, stores, owns, replayFaults>>

\* No acceptance in time: the claim stays until its lease ends.
Unaccepted ==
    /\ loop = "handed" /\ (owns => replayFaults < MaxReplayFaults)
    /\ replayFaults' = IF owns THEN replayFaults + 1 ELSE replayFaults
    /\ loop' = IF asked /\ owns THEN "deliver" ELSE "settle"
    /\ asked' = (asked /\ ~owns)
    /\ UNCHANGED <<mailbox, replayTimer, wakes, stores, owns>>

\* Storage or authorization throws, in the loop or in schedulePendingReplay.
Throws ==
    /\ loop \in {"deliver", "settle", "count"} /\ replayFaults < MaxReplayFaults
    /\ replayFaults' = replayFaults + 1 /\ loop' = "failed"
    /\ UNCHANGED <<mailbox, asked, replayTimer, wakes, stores, owns>>

ScheduleReplay == replayTimer' = (replayTimer \/ owns)

\* The `finally` of the loop: a request that came meanwhile starts the next one.
Finish == /\ loop' = (IF asked /\ owns THEN "deliver" ELSE "off")
          /\ asked' = (asked /\ ~owns)

\* schedulePendingReplay reads the lease of the head ...
ReadLease ==
    /\ loop = "settle" /\ loop' = (IF ~owns THEN "end" ELSE IF mailbox.claimed THEN "leased" ELSE "count")
    /\ UNCHANGED <<mailbox, asked, replayTimer, wakes, stores, owns, replayFaults>>

\* ... and then counts what waits: with any, a timer for the lease's end or a back-off.
CountPending ==
    /\ loop \in {"leased", "count"} /\ loop' = "end"
    /\ IF mailbox.waiting > 0 THEN ScheduleReplay ELSE UNCHANGED replayTimer
    /\ UNCHANGED <<mailbox, asked, wakes, stores, owns, replayFaults>>

\* The loop ends; what was asked for meanwhile takes the timer's place.
ReplayEnds ==
    /\ loop = "end" /\ Finish
    /\ replayTimer' = (replayTimer /\ ~(asked /\ owns))
    /\ UNCHANGED <<mailbox, wakes, stores, owns, replayFaults>>

\* backoffAfterReplayFailure: an inactive device is disconnected, any other failure backs off.
BackOff ==
    /\ loop = "failed" /\ loop' = "end"
    /\ \/ ScheduleReplay /\ UNCHANGED owns
       \/ owns' = FALSE /\ UNCHANGED replayTimer
    /\ UNCHANGED <<mailbox, asked, wakes, stores, replayFaults>>

LeaseEnds ==
    /\ mailbox.claimed /\ loop # "handed"
    /\ mailbox' = [mailbox EXCEPT !.claimed = FALSE]
    /\ UNCHANGED <<loop, asked, replayTimer, wakes, stores, owns, replayFaults>>

SocketGoes ==
    /\ owns /\ owns' = FALSE
    /\ UNCHANGED <<mailbox, loop, asked, replayTimer, wakes, stores, replayFaults>>

Replays == \/ WakeMailbox \/ ReplayTimerFires \/ ClaimHead \/ RoundEnds \/ Accepted \/ Unaccepted
           \/ ReadLease \/ CountPending \/ ReplayEnds \/ BackOff

ReplayNext == Replays \/ LeaseEnds \/ StoreMail \/ Throws \/ SocketGoes

ReplaySpec == /\ ReplayInit /\ [][ReplayNext]_replayVars
              /\ WF_replayVars(Replays) /\ WF_replayVars(LeaseEnds)

-----------------------------------------------------------------------------

ReplayTypeOK ==
    /\ mailbox.waiting \in 0 .. MaxMail /\ mailbox.claimed \in BOOLEAN
    /\ loop \in {"off", "deliver", "handed", "settle", "leased", "count", "end", "failed"}
    /\ {asked, replayTimer, owns} \subseteq BOOLEAN
    /\ wakes \in 0 .. MaxMail /\ stores \in 0 .. MaxMail

\* While the socket owns the mailbox, mail that waits has somebody to bring it:
\* a running loop, a timer or a wake-up on its way, whatever request fell into
\* the loop's last awaits (listeners.ts:247-265).
MailHasRunner == owns /\ mailbox.waiting > 0 => loop # "off" \/ replayTimer \/ wakes > 0

\* What waits is brought out in the end, through failures, unanswered deliveries
\* and leases, unless the socket goes.
MailIsReplayed == (mailbox.waiting > 0) ~> (mailbox.waiting = 0 \/ ~owns)

(* What the relay's replay loop promises: mail is never left without         *)
(* somebody to bring it, and is brought.                                     *)
ReplaySafe == [](ReplayTypeOK /\ MailHasRunner)
ReplayCorrect == ReplaySafe /\ MailIsReplayed
=============================================================================
