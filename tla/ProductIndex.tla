---------------------------- MODULE ProductIndex ----------------------------
(***************************************************************************)
(* The index of saved conversations.  It is one vault record with a record *)
(* of removal markers beside it; every change reads both, computes the new *)
(* entry from what it read and swaps both, again and again until nobody    *)
(* came between.  Tabs change it at once: a join saves, an engine writes   *)
(* the progress of its first contact and the peer's identity, the user     *)
(* archives, dismisses, removes.  Each tab shows a list that it reads in   *)
(* the background; the reads are numbered and only the latest is shown.    *)
(***************************************************************************)
EXTENDS Integers, FiniteSets

CONSTANTS IndexTabs,    \* open tabs
          IndexRooms,   \* rooms
          Peers,        \* identities of the contact
          MaxIndexOps   \* changes asked for

ASSUME IndexAssumption == MaxIndexOps \in Nat

VARIABLES index,      \* the entry of each room, or none
          removals,   \* rooms with a removal marker
          registered, \* the identity the contact registry holds
          changes,    \* changes under way
          lists,      \* each tab's list, its latest number and its reads under way
          indexOps,
          stamp       \* how often the index was swapped

indexVars == <<index, removals, registered, changes, lists, indexOps, stamp>>

NoPeer  == "none"
NoEntry == [bootstrap |-> "none", relationship |-> "none", peer |-> NoPeer, hidden |-> FALSE]
Shown0  == [shown |-> {}, at |-> 0, latest |-> 0]

IndexInit ==
    /\ index = [r \in IndexRooms |-> NoEntry] /\ removals = {}
    /\ registered \in Peers /\ changes = {}
    /\ lists = [t \in IndexTabs |-> [view |-> Shown0, reads |-> {}]]
    /\ indexOps = 0 /\ stamp = 0

Saved(r) == index[r] # NoEntry

\* validateConversationDescriptor: an entry that is established has a contact.
ValidDescriptor(e) ==
    /\ e.relationship \in {"invitation", "accepted"}
    /\ e.bootstrap \in {"none", "PENDING_LOCAL", "PENDING_REMOTE", "ESTABLISHED", "FAILED_OR_UNSUPPORTED"}
    /\ e.peer \in Peers \cup {NoPeer}

-----------------------------------------------------------------------------
(* What a change makes of the entry it read. *)

\* Variant for testing IndexCorrect: the newest word counts.
BootstrapTakes(old, new) == IF new = "none" THEN old.bootstrap ELSE new
\* Established and accepted are never taken back.
Bootstrap(old, new)    == IF old.bootstrap = "ESTABLISHED" \/ new = "none" THEN old.bootstrap ELSE new
Relationship(old, new) == IF old.relationship = "accepted" \/ new = "none" THEN old.relationship ELSE new

\* createModernChannel saves an invitation, joinModernChannel an accepted one.
CreateModernChannel == [NoEntry EXCEPT !.relationship = "invitation"]
JoinDescriptor(p)   == [NoEntry EXCEPT !.relationship = "accepted", !.bootstrap = "PENDING_LOCAL", !.peer = p]

\* saveConversationDescriptor merges; another identity in the same room is refused.
SaveDescriptor(old, new) ==
    IF old = NoEntry THEN {new}
    ELSE IF old.peer # NoPeer /\ old.peer # new.peer THEN {}
    ELSE {[new EXCEPT !.bootstrap = Bootstrap(old, @), !.relationship = Relationship(old, @), !.hidden = old.hidden]}

\* updateConversationDescriptor patches an entry that exists; an identity only if
\* the contact registry has accepted it.
UpdateDescriptor(old, patch) ==
    IF old = NoEntry \/ (patch.peer \notin {NoPeer, old.peer} /\ patch.peer # registered) THEN {}
    ELSE {[old EXCEPT !.bootstrap = Bootstrap(old, patch.bootstrap), !.relationship = Relationship(old, patch.relationship),
                      !.peer = IF patch.peer = NoPeer THEN @ ELSE patch.peer,
                      !.hidden = IF patch.hidden THEN ~@ ELSE @]}

\* The changes the application asks for.
Creates      == {[kind |-> "save", value |-> CreateModernChannel]}
Joins        == {[kind |-> "save", value |-> JoinDescriptor(p)] : p \in Peers}
Progresses   == {[kind |-> "update", value |-> [NoEntry EXCEPT !.bootstrap = b, !.relationship = IF b = "ESTABLISHED" THEN "accepted" ELSE "none"]]
                    : b \in {"ESTABLISHED", "FAILED_OR_UNSUPPORTED"}}
Identifies   == {[kind |-> "update", value |-> [NoEntry EXCEPT !.peer = p, !.relationship = "invitation"]] : p \in Peers}
Organizes    == {[kind |-> "update", value |-> [NoEntry EXCEPT !.hidden = TRUE]]}   \* archived or dismissed
Removes      == {[kind |-> "remove", value |-> NoEntry]}
Asked        == Creates \cup Joins \cup Progresses \cup Identifies \cup Organizes \cup Removes

Ask(t, r, c) ==
    /\ indexOps < MaxIndexOps /\ indexOps' = indexOps + 1
    /\ changes' = changes \cup {[n |-> indexOps, tab |-> t, room |-> r, change |-> c, step |-> "read", next |-> {}, moved |-> FALSE]}
    /\ UNCHANGED <<index, removals, registered, lists, stamp>>

\* mutate: both records are read, a removed room is refused, the entry computed.
Entry(j) ==
    IF j.change.kind = "remove" THEN {NoEntry}
    ELSE IF j.room \in removals THEN {}
    ELSE IF j.change.kind = "save" THEN SaveDescriptor(index[j.room], j.change.value)
    ELSE UpdateDescriptor(index[j.room], j.change.value)

ReadIndex(j) ==
    /\ j.step = "read"
    /\ changes' = (changes \ {j}) \cup {[j EXCEPT !.step = "swap", !.next = e, !.moved = FALSE] : e \in {Entry(j)} \ {{}}}
    /\ UNCHANGED <<index, removals, registered, lists, indexOps, stamp>>

\* The refresh that follows a change, or any other reason to read the list anew.
StartsRefresh(t) == [lists EXCEPT ![t].view.latest = @ + 1,
                       ![t].reads = @ \cup {[number |-> lists[t].view.latest + 1, at |-> -1, rooms |-> {}]}]

\* Swap both records, unless another change came between: then read again.
SwapIndex(j) ==
    /\ j.step = "swap"
    /\ IF j.moved
       THEN /\ changes' = (changes \ {j}) \cup {[j EXCEPT !.step = "read", !.next = {}, !.moved = FALSE]}
            /\ UNCHANGED <<index, removals, lists, stamp>>
       ELSE \E e \in j.next :
            /\ index' = [index EXCEPT ![j.room] = e]
            /\ removals' = IF j.change.kind = "remove" THEN removals \cup {j.room} ELSE removals
            /\ changes' = {[o EXCEPT !.moved = TRUE] : o \in changes \ {j}}
            /\ stamp' = stamp + 1 /\ lists' = StartsRefresh(j.tab)
    /\ UNCHANGED <<registered, indexOps>>

\* acceptChangedIdentity in the contact registry (module ContactTrust).
RegistryAccepts(p) ==
    /\ p # registered /\ registered' = p /\ indexOps < MaxIndexOps /\ indexOps' = indexOps + 1
    /\ UNCHANGED <<index, removals, changes, lists, stamp>>

-----------------------------------------------------------------------------
(* refreshConversations. *)

\* readConversationIndex: what can be listed; entries that cannot be read are kept aside.
Listed == {r \in IndexRooms : Saved(r)}

ReadList(t, d) ==
    /\ d.at = -1
    /\ lists' = [lists EXCEPT ![t].reads = (@ \ {d}) \cup {[d EXCEPT !.at = stamp, !.rooms = Listed]}]
    /\ UNCHANGED <<index, removals, registered, changes, indexOps, stamp>>

ShowList(t, d) ==
    /\ d.at >= 0
    /\ lists' = [lists EXCEPT ![t].reads = @ \ {d},
                   ![t].view = IF d.number = @.latest THEN [@ EXCEPT !.shown = d.rooms, !.at = d.at] ELSE @]
    /\ UNCHANGED <<index, removals, registered, changes, indexOps, stamp>>

IndexNext ==
    \/ \E t \in IndexTabs, r \in IndexRooms, c \in Asked : Ask(t, r, c)
    \/ \E j \in changes : ReadIndex(j) \/ SwapIndex(j)
    \/ \E p \in Peers : RegistryAccepts(p)
    \/ \E t \in IndexTabs : \E d \in lists[t].reads : ReadList(t, d) \/ ShowList(t, d)

IndexSpec == IndexInit /\ [][IndexNext]_indexVars

-----------------------------------------------------------------------------

IndexTypeOK ==
    /\ \A r \in IndexRooms : Saved(r) => ValidDescriptor(index[r])
    /\ removals \subseteq IndexRooms /\ registered \in Peers
    /\ \A j \in changes : j.step \in {"read", "swap"} /\ j.room \in IndexRooms
    /\ \A t \in IndexTabs : lists[t].view.shown \subseteq IndexRooms /\ lists[t].view.latest \in Nat

\* A room the user removed stays removed: no late save, no progress of its
\* engine and no other tab brings it back (sessionStore.ts:129).
RemovedStaysRemoved == \A r \in removals : ~Saved(r)

\* A contact once established or accepted stays so while it is saved, although
\* joins, failures and engines of several tabs write their own idea of its
\* progress (sessionStore.ts:156).
EstablishedStays ==
    \A r \in IndexRooms :
        /\ index[r].bootstrap = "ESTABLISHED" /\ index'[r] # NoEntry => index'[r].bootstrap = "ESTABLISHED"
        /\ index[r].relationship = "accepted" /\ index'[r] # NoEntry => index'[r].relationship = "accepted"

\* A list that was read before a change never replaces one that was read after
\* it, however the reads overtake each other (ChatContext.tsx:495).
ListNeverGoesBack == \A t \in IndexTabs : lists[t].view.at <= lists'[t].view.at

(* What the list of conversations promises: removals and established         *)
(* contacts are final, and no tab shows an older list after a newer one.     *)
IndexCorrect ==
    /\ [](IndexTypeOK /\ RemovedStaysRemoved)
    /\ [][EstablishedStays /\ ListNeverGoesBack]_indexVars
=============================================================================
