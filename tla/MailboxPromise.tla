--------------------------- MODULE MailboxPromise ---------------------------
(***************************************************************************)
(* What a mailbox promises about each envelope, without handlers, leases,  *)
(* claims or slots: it is queued, may be refused for good, and leaves the  *)
(* mailbox only after the recipient committed it or its time to live ran   *)
(* out.  OfflineMailbox implements this specification.                     *)
(***************************************************************************)
CONSTANT Envelopes

VARIABLES
  fate,      \* what the mailbox holds for each envelope
  applied,   \* envelopes the recipient has committed
  lapsed     \* envelopes whose time to live has run out at least once

pvars == <<fate, applied, lapsed>>

Fates == {"absent", "queued", "refused"}

PTypeOK ==
  /\ fate \in [Envelopes -> Fates]
  /\ applied \in SUBSET Envelopes
  /\ lapsed \in SUBSET Envelopes

PInit ==
  /\ fate = [e \in Envelopes |-> "absent"]
  /\ applied = {}
  /\ lapsed = {}

Enqueue(e) ==
  /\ fate[e] = "absent"
  /\ fate' = [fate EXCEPT ![e] = "queued"]
  /\ UNCHANGED <<applied, lapsed>>

\* There is no way back from "refused" to "queued" but through "absent".
Refuse(e) ==
  /\ fate[e] # "refused"
  /\ fate' = [fate EXCEPT ![e] = "refused"]
  /\ UNCHANGED <<applied, lapsed>>

Commit(e) ==
  /\ applied' = applied \cup {e}
  /\ UNCHANGED <<fate, lapsed>>

Lapse(e) ==
  /\ fate[e] # "absent"
  /\ lapsed' = lapsed \cup {e}
  /\ UNCHANGED <<fate, applied>>

Remove(e) ==
  /\ e \in applied \/ e \in lapsed
  /\ fate' = [fate EXCEPT ![e] = "absent"]
  /\ UNCHANGED <<applied, lapsed>>

PNext ==
  \E e \in Envelopes :
    Enqueue(e) \/ Refuse(e) \/ Commit(e) \/ Lapse(e) \/ Remove(e)

PSpec == PInit /\ [][PNext]_pvars
=============================================================================
