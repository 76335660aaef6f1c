--------------------------- MODULE ProductProofs ---------------------------
(***************************************************************************)
(* Proofs about the web product: the index of conversations, the trust in  *)
(* a contact, the messages of the SDK, and which conversation the page     *)
(* shows. Several tabs work on one vault; what a tab has read may be old   *)
(* when it acts on it. The invariants say what is still true of it then: a *)
(* change of the index that nobody overtook fits the entry, a confirmation *)
(* is of the record it is written over, what was shown is in the replay    *)
(* window or below it, and the opening asked for last is on the page,      *)
(* waits, stands in the queue or is being resolved.                        *)
(***************************************************************************)
EXTENDS ProductIndex, ContactTrust, SdkChat, Selection, FiniteSetTheorems, FunctionTheorems, TLAPS

Progress == {"none", "PENDING_LOCAL", "PENDING_REMOTE", "ESTABLISHED", "FAILED_OR_UNSUPPORTED"}
IndexEntry == [bootstrap : Progress, relationship : {"none", "invitation", "accepted"},
               peer : Peers \cup {NoPeer}, hidden : BOOLEAN]
IndexChange == [kind : {"save", "update", "remove"}, value : IndexEntry]

\* What a change may put in the place of the entry old.
Continues(old, e) ==
    /\ old.bootstrap = "ESTABLISHED" => e.bootstrap = "ESTABLISHED"
    /\ old.relationship = "accepted" => e.relationship = "accepted"

\* A change that nobody has overtaken fits the records as they are.
ChangeFits(j) ==
    /\ j.tab \in IndexTabs /\ j.room \in IndexRooms /\ j.step \in {"read", "swap"}
    /\ j.change \in IndexChange
    /\ j.change.kind = "save" => j.change.value.relationship # "none"
    /\ j.step = "swap" /\ ~j.moved => \A e \in j.next :
          IF j.change.kind = "remove" THEN e = NoEntry
          ELSE /\ j.room \notin removals
               /\ e \in IndexEntry /\ e.relationship # "none" /\ Continues(index[j.room], e)

\* Reads of a tab have numbers of their own; the one to be shown is not older than the list shown.
ListFits(l) ==
    /\ l.view.shown \subseteq IndexRooms /\ l.view.latest \in Nat
    /\ l.view.at \in 0 .. stamp
    /\ \A d \in l.reads :
          /\ d.number \in 1 .. l.view.latest /\ d.at \in -1 .. stamp /\ d.rooms \subseteq IndexRooms
          /\ d.number = l.view.latest /\ d.at # -1 => l.view.at <= d.at
    /\ \A d, e \in l.reads : d.number = e.number => d = e

Refresh == [number : Nat, at : Int, rooms : SUBSET IndexRooms]
TabList == [view : [shown : SUBSET IndexRooms, at : Int, latest : Nat], reads : SUBSET Refresh]

IndexInv ==
    /\ index \in [IndexRooms -> IndexEntry]
    /\ \A r \in IndexRooms : index[r] = NoEntry \/ index[r].relationship # "none"
    /\ removals \subseteq IndexRooms /\ RemovedStaysRemoved
    /\ registered \in Peers /\ stamp \in Nat
    /\ \A j \in changes : ChangeFits(j)
    /\ lists \in [IndexTabs -> TabList]
    /\ \A t \in IndexTabs : ListFits(lists[t])

\* An entry of the index is one of the descriptors that validate() lets
\* through, or none.
LEMMA EntryShape ==
    ASSUME NEW o \in IndexEntry
    PROVE  /\ o.bootstrap \in Progress /\ o.relationship \in {"none", "invitation", "accepted"}
           /\ o.peer \in Peers \cup {NoPeer} /\ o.hidden \in BOOLEAN
  BY DEF IndexEntry

\* A room that is not in the index.
LEMMA NoEntryShape ==
    NoEntry \in IndexEntry /\ NoEntry.bootstrap = "none" /\ NoEntry.relationship = "none"
  BY DEF NoEntry, IndexEntry, Progress

\* A change that has just been asked carries what its caller gave it.
LEMMA AskedShape ==
    ASSUME NEW c \in Asked
    PROVE  c \in IndexChange /\ (c.kind = "save" => c.value.relationship # "none")
  <1>1. CASE c \in Creates
    <2>1. CreateModernChannel \in IndexEntry /\ CreateModernChannel.relationship = "invitation"
      BY DEF CreateModernChannel, NoEntry, IndexEntry, Progress
    <2>. QED  BY <1>1, <2>1 DEF Creates, IndexChange
  <1>2. CASE c \in Joins
    <2>1. \A p \in Peers : JoinDescriptor(p) \in IndexEntry /\ JoinDescriptor(p).relationship = "accepted"
      BY DEF JoinDescriptor, NoEntry, IndexEntry, Progress
    <2>. QED  BY <1>2, <2>1 DEF Joins, IndexChange
  <1>3. CASE c \in Progresses
    <2>1. PICK b \in {"ESTABLISHED", "FAILED_OR_UNSUPPORTED"} :
            c = [kind |-> "update", value |-> [NoEntry EXCEPT !.bootstrap = b,
                   !.relationship = IF b = "ESTABLISHED" THEN "accepted" ELSE "none"]]
      BY <1>3 DEF Progresses
    <2>2. (IF b = "ESTABLISHED" THEN "accepted" ELSE "none") \in {"none", "invitation", "accepted"}
              /\ b \in Progress
      BY DEF Progress
    <2>3. c.kind = "update" /\ c.value \in IndexEntry
      BY <2>1, <2>2, NoEntryShape DEF IndexEntry
    <2>. QED  BY <2>1, <2>3 DEF IndexChange
  <1>4. CASE c \in Identifies
    <2>1. PICK p \in Peers : c = [kind |-> "update", value |-> [NoEntry EXCEPT !.peer = p, !.relationship = "invitation"]]
      BY <1>4 DEF Identifies
    <2>2. c.kind = "update" /\ c.value \in IndexEntry
      BY <2>1, NoEntryShape DEF IndexEntry
    <2>. QED  BY <2>1, <2>2 DEF IndexChange
  <1>5. CASE c \in Organizes
    <2>1. c = [kind |-> "update", value |-> [NoEntry EXCEPT !.hidden = TRUE]]
      BY <1>5 DEF Organizes
    <2>2. c.kind = "update" /\ c.value \in IndexEntry
      BY <2>1, NoEntryShape DEF IndexEntry
    <2>. QED  BY <2>1, <2>2 DEF IndexChange
  <1>6. CASE c \in Removes
    BY <1>6, NoEntryShape DEF Removes, IndexChange
  <1>. QED  BY <1>1, <1>2, <1>3, <1>4, <1>5, <1>6 DEF Asked

\* save() keeps an established bootstrap and an accepted relationship of the
\* entry it has read.
LEMMA SavedContinues ==
    ASSUME NEW o \in IndexEntry, NEW v \in IndexEntry, v.relationship # "none",
           NEW e \in SaveDescriptor(o, v)
    PROVE  e \in IndexEntry /\ e.relationship # "none" /\ Continues(o, e)
  <1>1. CASE o = NoEntry
    BY <1>1, NoEntryShape DEF SaveDescriptor, Continues
  <1>2. CASE o # NoEntry
    <2>1. e = [v EXCEPT !.bootstrap = Bootstrap(o, @), !.relationship = Relationship(o, @), !.hidden = o.hidden]
      BY <1>2 DEF SaveDescriptor
    <2>2. /\ Bootstrap(o, v.bootstrap) \in Progress
          /\ Relationship(o, v.relationship) \in {"none", "invitation", "accepted"}
          /\ Relationship(o, v.relationship) # "none"
      BY EntryShape DEF Bootstrap, Relationship
    <2>3. /\ o.bootstrap = "ESTABLISHED" => Bootstrap(o, v.bootstrap) = "ESTABLISHED"
          /\ o.relationship = "accepted" => Relationship(o, v.relationship) = "accepted"
      BY DEF Bootstrap, Relationship
    <2>4. e.bootstrap = Bootstrap(o, v.bootstrap) /\ e.relationship = Relationship(o, v.relationship)
      BY <2>1 DEF IndexEntry
    <2>5. e \in IndexEntry
      <3>1. o.hidden \in BOOLEAN
        BY EntryShape
      <3>. QED  BY <2>1, <2>2, <3>1 DEF IndexEntry
    <2>. QED  BY <2>2, <2>3, <2>4, <2>5 DEF Continues
  <1>. QED  BY <1>1, <1>2

\* update() does too, whatever it is given.
LEMMA UpdatedContinues ==
    ASSUME NEW o \in IndexEntry, o = NoEntry \/ o.relationship # "none", NEW v \in IndexEntry,
           NEW e \in UpdateDescriptor(o, v)
    PROVE  e \in IndexEntry /\ e.relationship # "none" /\ Continues(o, e)
  <1>1. o # NoEntry /\ o.relationship # "none"
    BY DEF UpdateDescriptor
  <1>2. e = [o EXCEPT !.bootstrap = Bootstrap(o, v.bootstrap), !.relationship = Relationship(o, v.relationship),
                      !.peer = IF v.peer = NoPeer THEN @ ELSE v.peer,
                      !.hidden = IF v.hidden THEN ~@ ELSE @]
    BY <1>1 DEF UpdateDescriptor
  <1>3. /\ Bootstrap(o, v.bootstrap) \in Progress
        /\ Relationship(o, v.relationship) \in {"none", "invitation", "accepted"}
        /\ Relationship(o, v.relationship) # "none"
    BY <1>1, EntryShape DEF Bootstrap, Relationship
  <1>4. /\ o.bootstrap = "ESTABLISHED" => Bootstrap(o, v.bootstrap) = "ESTABLISHED"
        /\ o.relationship = "accepted" => Relationship(o, v.relationship) = "accepted"
    BY DEF Bootstrap, Relationship
  <1>5. e.bootstrap = Bootstrap(o, v.bootstrap) /\ e.relationship = Relationship(o, v.relationship)
    BY <1>2 DEF IndexEntry
  <1>6. e \in IndexEntry
    <2>1. (IF v.peer = NoPeer THEN o.peer ELSE v.peer) \in Peers \cup {NoPeer}
      BY EntryShape
    <2>2. (IF v.hidden THEN ~o.hidden ELSE o.hidden) \in BOOLEAN
      BY EntryShape
    <2>. QED  BY <1>2, <1>3, <2>1, <2>2 DEF IndexEntry
  <1>. QED  BY <1>3, <1>4, <1>5, <1>6 DEF Continues

\* So whatever of its choices a change puts into its swap continues the entry
\* it has read.
LEMMA EntryContinues ==
    ASSUME IndexInv, NEW j \in changes, NEW e \in Entry(j)
    PROVE  IF j.change.kind = "remove" THEN e = NoEntry
           ELSE /\ j.room \notin removals
                /\ e \in IndexEntry /\ e.relationship # "none" /\ Continues(index[j.room], e)
  <1>1. /\ j.room \in IndexRooms /\ j.change \in IndexChange
        /\ j.change.kind = "save" => j.change.value.relationship # "none"
    BY DEF IndexInv, ChangeFits
  <1>2. j.change.value \in IndexEntry /\ j.change.kind \in {"save", "update", "remove"}
    BY <1>1 DEF IndexChange
  <1>3. index[j.room] \in IndexEntry /\ (index[j.room] = NoEntry \/ index[j.room].relationship # "none")
    BY <1>1 DEF IndexInv
  <1>4. CASE j.change.kind = "remove"
    BY <1>4 DEF Entry
  <1>5. CASE j.change.kind = "save"
    <2>1. j.room \notin removals /\ e \in SaveDescriptor(index[j.room], j.change.value)
      BY <1>5 DEF Entry
    <2>. QED  BY <1>1, <1>2, <1>3, <1>5, <2>1, SavedContinues
  <1>6. CASE j.change.kind = "update"
    <2>1. j.room \notin removals /\ e \in UpdateDescriptor(index[j.room], j.change.value)
      BY <1>6 DEF Entry
    <2>. QED  BY <1>2, <1>3, <1>6, <2>1, UpdatedContinues
  <1>. QED  BY <1>2, <1>4, <1>5, <1>6

\* A refresh of a tab that starts, or is answered, leaves the refreshes of the
\* other tabs as they were.
LEMMA RefreshFits ==
    ASSUME IndexInv, NEW t \in IndexTabs, lists' = StartsRefresh(t), stamp' = stamp + 1
    PROVE  lists' \in [IndexTabs -> TabList] /\ \A u \in IndexTabs : ListFits(lists[u])'
  <1> DEFINE v == lists[t].view
             n == v.latest + 1
             d == [number |-> n, at |-> -1, rooms |-> {}]
             l == [view |-> [shown |-> v.shown, at |-> v.at, latest |-> n], reads |-> lists[t].reads \cup {d}]
  <1>1. lists[t] \in TabList /\ ListFits(lists[t]) /\ stamp \in Nat
    BY DEF IndexInv
  <1>2. n \in Nat /\ d \in Refresh
    BY <1>1 DEF TabList, Refresh
  <1>3. lists'[t] \in TabList /\ lists'[t].view.shown = v.shown /\ lists'[t].view.at = v.at
        /\ lists'[t].view.latest = n /\ lists'[t].reads = lists[t].reads \cup {d}
    <2> HIDE DEF d, n
    <2>1. lists' = [lists EXCEPT ![t] = [lists[t] EXCEPT !.view = [lists[t].view EXCEPT !.latest = n],
                                                         !.reads = @ \cup {d}]]
      BY DEF StartsRefresh, IndexInv, n, d
    <2>2. lists'[t] = [lists[t] EXCEPT !.view = [lists[t].view EXCEPT !.latest = n], !.reads = @ \cup {d}]
      BY <2>1 DEF IndexInv
    <2>. QED  BY <1>1, <1>2, <2>2 DEF TabList
  <1>4. \A u \in IndexTabs \ {t} : lists'[u] = lists[u]
    BY DEF StartsRefresh, IndexInv
  <1>5. lists' \in [IndexTabs -> TabList]
    BY <1>3 DEF StartsRefresh, IndexInv
  <1>6. ASSUME NEW u \in IndexTabs \ {t} PROVE ListFits(lists[u])'
    BY <1>4, <1>1 DEF ListFits, IndexInv
  <1>7. ListFits(lists[t])'
    BY <1>1, <1>2, <1>3 DEF ListFits
  <1>. QED  BY <1>5, <1>6, <1>7

\* An empty index.
LEMMA IndexInitHolds == IndexInit => IndexInv
  <1> SUFFICES ASSUME IndexInit PROVE IndexInv  OBVIOUS
  <1>1. index \in [IndexRooms -> IndexEntry] /\ \A r \in IndexRooms : index[r] = NoEntry
    BY NoEntryShape DEF IndexInit
  <1>2. lists \in [IndexTabs -> TabList] /\ \A t \in IndexTabs : lists[t] = [view |-> Shown0, reads |-> {}]
    BY DEF IndexInit, TabList, Shown0
  <1>3. \A t \in IndexTabs : ListFits(lists[t])
    BY <1>2 DEF ListFits, Shown0, IndexInit
  <1>. QED  BY <1>1, <1>2, <1>3 DEF IndexInit, IndexInv, RemovedStaysRemoved

\* A change is asked for; nothing is read yet.
LEMMA AskHolds ==
    ASSUME IndexInv, NEW t \in IndexTabs, NEW r \in IndexRooms, NEW c \in Asked, Ask(t, r, c)
    PROVE  IndexInv' /\ EstablishedStays /\ ListNeverGoesBack
  <1> DEFINE j == [n |-> indexOps, tab |-> t, room |-> r, change |-> c, step |-> "read", next |-> {}, moved |-> FALSE]
  <1>1. changes' = changes \cup {j} /\ UNCHANGED <<index, removals, registered, lists, stamp>>
    BY DEF Ask
  <1>2. ChangeFits(j)
    BY AskedShape DEF ChangeFits
  <1>3. ASSUME NEW k \in changes' PROVE ChangeFits(k)'
    BY <1>1, <1>2, <1>3 DEF IndexInv, ChangeFits
  <1>. QED  BY <1>1, <1>3 DEF IndexInv, RemovedStaysRemoved, Saved, ListFits, EstablishedStays,
       ListNeverGoesBack

\* The change reads the index, and computes what it will swap in from the entry
\* it has read.
LEMMA ReadIndexHolds ==
    ASSUME IndexInv, NEW j \in changes, ReadIndex(j)
    PROVE  IndexInv' /\ EstablishedStays /\ ListNeverGoesBack
  <1>1. UNCHANGED <<index, removals, registered, lists, stamp>>
    BY DEF ReadIndex
  <1>2. ASSUME NEW k \in changes' PROVE ChangeFits(k)'
    <2>1. CASE k \in changes
      BY <1>1, <2>1 DEF IndexInv, ChangeFits
    <2>2. CASE k = [j EXCEPT !.step = "swap", !.next = Entry(j), !.moved = FALSE]
      <3>1. ChangeFits(j)
        BY DEF IndexInv
      <3>2. /\ k.tab = j.tab /\ k.room = j.room /\ k.change = j.change /\ k.step = "swap" /\ k.next = Entry(j)
        BY <2>2
      <3>3. \A e \in Entry(j) : IF j.change.kind = "remove" THEN e = NoEntry
                ELSE /\ j.room \notin removals
                     /\ e \in IndexEntry /\ e.relationship # "none" /\ Continues(index[j.room], e)
        BY EntryContinues
      <3>. QED  BY <1>1, <3>1, <3>2, <3>3 DEF ChangeFits
    <2>. QED  BY <2>1, <2>2 DEF ReadIndex
  <1>. QED  BY <1>1, <1>2 DEF IndexInv, RemovedStaysRemoved, Saved, ListFits, EstablishedStays,
       ListNeverGoesBack

\* compareAndSwap writes if nobody has moved the index since, so the entry
\* replaced is the one the change was computed from; or the change reads again.
LEMMA SwapIndexHolds ==
    ASSUME IndexInv, NEW j \in changes, SwapIndex(j)
    PROVE  IndexInv' /\ EstablishedStays /\ ListNeverGoesBack
  <1>0. ChangeFits(j)
    BY DEF IndexInv
  <1>1. CASE j.moved
    <2>1. UNCHANGED <<index, removals, registered, lists, stamp>>
          /\ changes' = (changes \ {j}) \cup {[j EXCEPT !.step = "read", !.next = {}, !.moved = FALSE]}
      BY <1>1 DEF SwapIndex
    <2>2. ASSUME NEW k \in changes' PROVE ChangeFits(k)'
      <3>1. CASE k \in changes
        BY <2>1, <3>1 DEF IndexInv, ChangeFits
      <3>2. CASE k = [j EXCEPT !.step = "read", !.next = {}, !.moved = FALSE]
        <4>1. k.tab = j.tab /\ k.room = j.room /\ k.change = j.change /\ k.step = "read"
          BY <3>2, <1>0 DEF ChangeFits, SwapIndex
        <4>. QED  BY <1>0, <2>1, <4>1 DEF ChangeFits
      <3>. QED  BY <2>1, <3>1, <3>2
    <2>. QED  BY <2>1, <2>2 DEF IndexInv, RemovedStaysRemoved, Saved, ListFits, EstablishedStays,
         ListNeverGoesBack
  <1>2. CASE ~j.moved
    <2>1. PICK e \in j.next :
            /\ index' = [index EXCEPT ![j.room] = e]
            /\ removals' = IF j.change.kind = "remove" THEN removals \cup {j.room} ELSE removals
            /\ changes' = {[o EXCEPT !.moved = TRUE] : o \in changes \ {j}}
            /\ stamp' = stamp + 1 /\ lists' = StartsRefresh(j.tab) /\ registered' = registered
      BY <1>2 DEF SwapIndex
    <2>2. j.step = "swap" /\ j.room \in IndexRooms /\ j.tab \in IndexTabs
      BY <1>0 DEF SwapIndex, ChangeFits
    <2>3. IF j.change.kind = "remove" THEN e = NoEntry
          ELSE j.room \notin removals /\ e \in IndexEntry /\ e.relationship # "none"
              /\ Continues(index[j.room], e)
      BY <1>0, <1>2, <2>2 DEF ChangeFits
    <2>4. e \in IndexEntry /\ (e = NoEntry \/ e.relationship # "none")
      BY <2>3, NoEntryShape
    <2>5. index' \in [IndexRooms -> IndexEntry]
          /\ \A r \in IndexRooms : index'[r] = NoEntry \/ index'[r].relationship # "none"
      BY <2>1, <2>2, <2>4 DEF IndexInv
    <2>6. removals' \subseteq IndexRooms /\ RemovedStaysRemoved'
      BY <2>1, <2>2, <2>3 DEF IndexInv, RemovedStaysRemoved, Saved
    <2>7. ASSUME NEW k \in changes' PROVE ChangeFits(k)'
      <3>1. PICK o \in changes : k = [o EXCEPT !.moved = TRUE]
        BY <2>1
      <3>2. ChangeFits(o)
        BY DEF IndexInv
      <3>3. k.tab = o.tab /\ k.room = o.room /\ k.step = o.step /\ k.change = o.change /\ (k.step = "swap"
                => k.moved)
        BY <3>1 DEF ChangeFits, IndexInv
      <3>. QED  BY <3>2, <3>3 DEF ChangeFits
    <2>8. lists' \in [IndexTabs -> TabList] /\ \A u \in IndexTabs : ListFits(lists[u])'
      BY <2>1, <2>2, RefreshFits
    <2>9. EstablishedStays
      BY <2>1, <2>2, <2>3 DEF EstablishedStays, Continues, IndexInv
    <2>10. ListNeverGoesBack
      <3>1. \A u \in IndexTabs : lists'[u].view.at = lists[u].view.at
        BY <2>1, <2>2 DEF StartsRefresh, IndexInv, TabList
      <3>. QED  BY <3>1 DEF ListNeverGoesBack, IndexInv, ListFits
    <2>. QED  BY <2>1, <2>5, <2>6, <2>7, <2>8, <2>9, <2>10 DEF IndexInv
  <1>. QED  BY <1>1, <1>2

\* A refresh of the list shows what it has read only if no later refresh has
\* started.
LEMMA ReadListHolds ==
    ASSUME IndexInv, NEW t \in IndexTabs, NEW d \in lists[t].reads, ReadList(t, d) \/ ShowList(t, d)
    PROVE  IndexInv' /\ EstablishedStays /\ ListNeverGoesBack
  <1>0. lists[t] \in TabList /\ ListFits(lists[t]) /\ d \in Refresh /\ stamp \in Nat
    BY DEF IndexInv, TabList
  <1>1. UNCHANGED <<index, removals, registered, changes, stamp>>
    BY DEF ReadList, ShowList
  <1>2. \A u \in IndexTabs \ {t} : lists'[u] = lists[u]
    BY DEF ReadList, ShowList, IndexInv
  <1>3. lists'[t] \in TabList /\ ListFits(lists[t])' /\ lists[t].view.at <= lists'[t].view.at
    <2>1. CASE ReadList(t, d)
      <3> DEFINE e == [d EXCEPT !.at = stamp, !.rooms = Listed]
      <3>1. e \in Refresh /\ e.number = d.number /\ e.at = stamp /\ e.rooms \subseteq IndexRooms
        <4>1. Listed \in SUBSET IndexRooms
          BY DEF Listed
        <4>2. stamp \in Int /\ d \in Refresh
          BY <1>0
        <4>3. e \in Refresh /\ e.number = d.number /\ e.at = stamp /\ e.rooms = Listed
          BY <4>1, <4>2 DEF Refresh
        <4>. QED  BY <4>1, <4>3
      <3>2. lists'[t] = [lists[t] EXCEPT !.reads = (lists[t].reads \ {d}) \cup {e}]
        BY <2>1 DEF ReadList, IndexInv
      <3> HIDE DEF e
      <3>3. lists'[t] \in TabList /\ lists'[t].view = lists[t].view
            /\ lists'[t].reads = (lists[t].reads \ {d}) \cup {e}
        BY <1>0, <3>1, <3>2 DEF TabList
      <3>4. ListFits(lists[t])'
        BY <1>0, <1>1, <3>1, <3>3 DEF ListFits
      <3>. QED  BY <1>0, <3>3, <3>4 DEF ListFits
    <2>2. CASE ShowList(t, d)
      <3> DEFINE w == IF d.number = lists[t].view.latest
                      THEN [lists[t].view EXCEPT !.shown = d.rooms, !.at = d.at] ELSE lists[t].view
      <3>1. lists'[t] = [lists[t] EXCEPT !.reads = @ \ {d}, !.view = w]
        BY <2>2 DEF ShowList, IndexInv
      <3>2. /\ w \in [shown : SUBSET IndexRooms, at : Int, latest : Nat] /\ w.latest = lists[t].view.latest
            /\ d.number = w.latest => w.shown = d.rooms /\ w.at = d.at
            /\ d.number # w.latest => w = lists[t].view
        BY <1>0 DEF TabList, Refresh
      <3> HIDE DEF w
      <3>3. lists'[t] \in TabList /\ lists'[t].view = w /\ lists'[t].reads = lists[t].reads \ {d}
        BY <1>0, <3>1, <3>2 DEF TabList
      <3>4. d.at # -1
        BY <2>2 DEF ShowList
      <3>5. ListFits(lists[t])' /\ lists[t].view.at <= w.at
        <4>1. CASE d.number = w.latest
          <5>1. lists[t].view.at <= d.at /\ d.at \in 0 .. stamp /\ d.rooms \subseteq IndexRooms
            BY <1>0, <3>2, <3>4, <4>1 DEF ListFits
          <5>2. \A f \in lists[t].reads \ {d} : f.number # w.latest
            BY <1>0, <3>2, <4>1 DEF ListFits
          <5>. QED  BY <1>0, <1>1, <3>2, <3>3, <4>1, <5>1, <5>2 DEF ListFits
        <4>2. CASE d.number # w.latest
          BY <1>0, <1>1, <3>2, <3>3, <4>2 DEF ListFits
        <4>. QED  BY <4>1, <4>2
      <3>. QED  BY <3>3, <3>5
    <2>. QED  BY <2>1, <2>2
  <1>4. lists' \in [IndexTabs -> TabList]
    BY <1>3 DEF ReadList, ShowList, IndexInv
  <1>5. \A u \in IndexTabs : ListFits(lists[u])' /\ lists[u].view.at <= lists'[u].view.at
    BY <1>1, <1>2, <1>3 DEF IndexInv, ListFits
  <1>. QED  BY <1>1, <1>4, <1>5 DEF IndexInv, RemovedStaysRemoved, Saved, ChangeFits, EstablishedStays,
       ListNeverGoesBack

\* Every step keeps the invariant, an established chat, and the order of the
\* lists.
LEMMA IndexStepHolds ==
    IndexInv /\ [IndexNext]_indexVars => IndexInv' /\ [EstablishedStays /\ ListNeverGoesBack]_indexVars
  <1> SUFFICES ASSUME IndexInv, [IndexNext]_indexVars
               PROVE  IndexInv' /\ [EstablishedStays /\ ListNeverGoesBack]_indexVars
    OBVIOUS
  <1>1. CASE UNCHANGED indexVars
    BY <1>1 DEF indexVars, IndexInv, RemovedStaysRemoved, Saved, ChangeFits, ListFits
  <1>2. CASE \E t \in IndexTabs, r \in IndexRooms, c \in Asked : Ask(t, r, c)
    BY <1>2, AskHolds
  <1>3. CASE \E j \in changes : ReadIndex(j) \/ SwapIndex(j)
    BY <1>3, ReadIndexHolds, SwapIndexHolds
  <1>4. ASSUME NEW p \in Peers, RegistryAccepts(p) PROVE IndexInv' /\ EstablishedStays /\ ListNeverGoesBack
    BY <1>4 DEF RegistryAccepts, IndexInv, RemovedStaysRemoved, Saved, ChangeFits, ListFits,
                EstablishedStays, ListNeverGoesBack
  <1>5. CASE \E t \in IndexTabs : \E d \in lists[t].reads : ReadList(t, d) \/ ShowList(t, d)
    BY <1>5, ReadListHolds
  <1>. QED  BY <1>1, <1>2, <1>3, <1>4, <1>5 DEF IndexNext

\* What the invariant says of the entries is what the run checks.
LEMMA IndexInvMeans == IndexInv => IndexTypeOK /\ RemovedStaysRemoved
  BY EntryShape DEF IndexInv, IndexTypeOK, Saved, ValidDescriptor, ChangeFits, ListFits, Progress

\* For any number of tabs and rooms, whatever changes of the index are under
\* way at once: an established chat and an accepted relationship are not taken
\* back by a change that had read the index before, a removed room does not
\* come back, and the list a tab shows is never replaced by one that was read
\* earlier.
THEOREM IndexIsCorrect == IndexSpec => IndexCorrect
  <1>1. IndexInit => IndexInv
    BY IndexInitHolds
  <1>2. IndexInv /\ [IndexNext]_indexVars => IndexInv' /\ [EstablishedStays /\ ListNeverGoesBack]_indexVars
    BY IndexStepHolds
  <1>3. IndexInv => IndexTypeOK /\ RemovedStaysRemoved
    BY IndexInvMeans
  <1>4. IndexSpec => [](IndexTypeOK /\ RemovedStaysRemoved) /\ [][EstablishedStays
            /\ ListNeverGoesBack]_indexVars
    BY <1>1, <1>2, <1>3, PTL DEF IndexSpec
  <1>. QED  BY <1>4, PTL DEF IndexCorrect

\* The vault's records fit together; clauses about the session wait for a torn moment to end.
RecordsFit ==
    /\ pin \in Pin /\ reset \in TrustTimes /\ clock \in TrustTimes \ {0}
    /\ kept \in [session : Someone, named : BOOLEAN, renewal : BOOLEAN]
    /\ recovery \in [claimed : BOOLEAN, pending : BOOLEAN, completed : 0 .. 1, scope : 0 .. 1]
    /\ recovery.completed = recovery.scope /\ (recovery.pending => recovery.scope = 0)
    /\ torn \in BOOLEAN
    /\ pin.verifiedAt <= clock /\ reset <= clock
    /\ pin.identity = NoOne => kept.session = NoOne
    /\ VerifiedWasCompared
    /\ ~torn /\ kept.session # NoOne => kept.session = pin.identity

\* What a tab has under way fits the records.
TabFits(b) ==
    /\ b.step = "write" =>
          /\ b.next.verifiedAt = 0
          /\ \/ b.next.identity = b.read.identity
             \/ b.read.identity = NoOne
             \/ b.read.pending # NoOne /\ b.next.identity = b.read.pending
    /\ b.step = "stamp" => b.next = b.read /\ b.read.identity = b.shown /\ b.shown \in compared
    /\ b.step = "verify" =>
          /\ b.next.identity = b.read.identity /\ b.read.identity = b.shown
          /\ b.next.verifiedAt <= clock
          /\ b.next.verifiedAt > reset => b.shown \in compared
    /\ b.step \in {"send", "file"} =>
          /\ b.read.identity # NoOne /\ b.read.pending = NoOne /\ pin.identity # NoOne
          /\ torn \/ b.read.identity = pin.identity
    /\ b.step = "file" => Verified(b.read, b.at)

TabsFit == tabs \in [TrustTabs -> Tab] /\ \A t \in TrustTabs : TabFits(tabs[t])

TrustInv == RecordsFit /\ TabsFit

\* What got its time after a recovery took its own, or has none yet, is in the
\* set of what that recovery leaves.
Leaves(t) ==
    /\ tabs[t].time <= clock
    /\ pin.verifiedAt > tabs[t].time => pin.identity \in recent[t]
    /\ \A u \in TrustTabs :
          /\ On(u, "stamp") => tabs[u].shown \in recent[t]
          /\ On(u, "verify") /\ tabs[u].next.verifiedAt > tabs[t].time => tabs[u].shown \in recent[t]

RecoveriesFit ==
    /\ recent \in [TrustTabs -> SUBSET Someone]
    /\ \A t \in TrustTabs : On(t, "complete") => Leaves(t)

\* The clock's bound, as it is used.
LEMMA ClockBound == MaxClock \in Nat /\ MaxClock # 0 /\ 0 \in 0 .. MaxClock /\ 1 \in 0 .. MaxClock
  <1>1. MaxClock \in Nat /\ MaxClock # 0
    BY TrustAssumption
  <1>. QED  BY <1>1

\* Nobody is pinned and nothing is under way.
LEMMA TrustInitHolds == TrustInit => TrustInv
  <1> SUFFICES ASSUME TrustInit PROVE TrustInv  OBVIOUS
  <1>1. NoPin \in Pin /\ NoPin.verifiedAt = 0 /\ NoPin.identity = NoOne
    BY ClockBound DEF NoPin, Pin, Someone
  <1>2. ClosedTab \in Tab /\ ClosedTab.step = "closed"
    BY <1>1, ClockBound DEF ClosedTab, Tab, TrustTimes, Someone
  <1>3. tabs \in [TrustTabs -> Tab] /\ \A t \in TrustTabs : tabs[t].step = "closed"
    BY <1>2 DEF TrustInit
  <1>4. TabsFit
    BY <1>3 DEF TabsFit, TabFits
  <1>5. ~Verified(pin, reset)
    <2>1. pin = NoPin /\ reset = 0
      BY DEF TrustInit
    <2>. QED  BY <1>1, <2>1 DEF Verified, ApplyRecoveryReset
  <1>6. RecordsFit
    <2>1. pin = NoPin /\ reset = 0 /\ clock = 1 /\ torn = FALSE
      BY DEF TrustInit
    <2>2. kept \in [session : Someone, named : BOOLEAN, renewal : BOOLEAN] /\ kept.session = NoOne
      BY DEF TrustInit, Someone
    <2>3. recovery \in [claimed : BOOLEAN, pending : BOOLEAN, completed : 0 .. 1, scope : 0 .. 1]
          /\ recovery.completed = recovery.scope /\ ~recovery.pending
      BY DEF TrustInit
    <2>4. pin \in Pin /\ pin.verifiedAt = 0
      BY <1>1, <2>1
    <2>5. VerifiedWasCompared
      BY <1>5 DEF VerifiedWasCompared
    <2>6. reset \in TrustTimes /\ clock \in TrustTimes \ {0} /\ pin.verifiedAt <= clock /\ reset <= clock
      BY <2>1, <2>4, ClockBound DEF TrustTimes
    <2>7. torn \in BOOLEAN
      BY <2>1
    <2>. QED  BY <2>2, <2>3, <2>4, <2>5, <2>6, <2>7 DEF RecordsFit
  <1>. QED  BY <1>4, <1>6 DEF TrustInv

\* Where a message or a file is under way in an untorn moment, it goes to the
\* identity pinned, and a file to a verified one.
LEMMA Promises == TrustInv => SentToPinned /\ FileToVerified
  <1> SUFFICES ASSUME TrustInv PROVE SentToPinned /\ FileToVerified  OBVIOUS
  <1>1. ASSUME NEW t \in TrustTabs, CommitMessage(t), Stores(t), ~torn
        PROVE  SessionFor(t) = tabs[t].read.identity
    <2>1. TabFits(tabs[t]) /\ tabs[t].step \in {"send", "file"} /\ kept.session = tabs[t].session
      BY <1>1 DEF TrustInv, TabsFit, CommitMessage, On, Stores
    <2>. QED  BY <1>1, <2>1 DEF TrustInv, RecordsFit, TabFits, SessionFor
  <1>2. ASSUME NEW t \in TrustTabs, On(t, "file"), Stores(t)
        PROVE  Verified(pin, reset) /\ Unchanged(pin)
    <2>1. TabFits(tabs[t]) /\ tabs[t].step = "file" /\ pin = tabs[t].read /\ reset = tabs[t].at
      BY <1>2 DEF TrustInv, TabsFit, On, Stores, GuardsHold
    <2>. QED  BY <2>1 DEF TabFits, Unchanged
  <1>. QED  BY <1>1, <1>2 DEF SentToPinned, FileToVerified

\* What the invariant says of the records is what the run checks.
LEMMA TrustInvCorrect == TrustInv => TrustTypeOK /\ VerifiedWasCompared
  BY DEF TrustInv, RecordsFit, TabsFit, TrustTypeOK

\* A step that leaves the vault alone.
LEMMA RecordsKeep ==
    ASSUME RecordsFit, UNCHANGED <<pin, reset, kept, recovery, clock, compared, torn>>
    PROVE  RecordsFit'
  BY DEF RecordsFit, VerifiedWasCompared, Verified, ApplyRecoveryReset

\* A step of one tab that leaves the pin alone.
LEMMA TabsKeep ==
    ASSUME TabsFit, NEW t \in TrustTabs, tabs' \in [TrustTabs -> Tab],
           \A u \in TrustTabs \ {t} : tabs'[u] = tabs[u],
           UNCHANGED <<pin, reset, clock>>, torn => torn', compared \subseteq compared', TabFits(tabs[t])'
    PROVE  TabsFit'
  <1>1. ASSUME NEW u \in TrustTabs \ {t} PROVE TabFits(tabs[u])'
    <2>1. TabFits(tabs[u]) /\ tabs'[u] = tabs[u]
      BY DEF TabsFit
    <2>. QED  BY <2>1 DEF TabFits, Verified, ApplyRecoveryReset
  <1>. QED  BY <1>1 DEF TabsFit

\* A tab that has let go of what it was doing.
LEMMA FreeTab ==
    ASSUME NEW b \in Tab
    PROVE  TabFree(b) \in Tab /\ TabFree(b).step = "ready" /\ TabFree(b).session = b.session
           /\ TabFree(b).shown = b.shown
  <1>1. NoPin \in Pin /\ 0 \in TrustTimes
    BY ClockBound DEF NoPin, Pin, Someone, TrustTimes
  <1>. QED  BY <1>1 DEF TabFree, Tab

\* The fields of a tab.
LEMMA TabShape ==
    ASSUME TabsFit, NEW t \in TrustTabs
    PROVE  /\ tabs[t] \in Tab /\ TabFits(tabs[t])
           /\ tabs[t].read \in Pin /\ tabs[t].next \in Pin /\ tabs[t].shown \in Someone
           /\ tabs[t].session \in Someone /\ tabs[t].at \in TrustTimes
  BY DEF TabsFit, Tab

\* A tab that has nothing under way fits.
Idle == {"closed", "ready", "discard", "unname", "replace", "complete", "error"}

\* A tab between two operations relies on nothing.
LEMMA IdleFits ==
    ASSUME NEW b, b.step \in Idle
    PROVE  TabFits(b)
  BY DEF TabFits, Idle

\* A tab starts an operation; the others go on.
LEMMA BeginsKeeps ==
    ASSUME TrustInv, NEW t \in TrustTabs, NEW s \in {"write", "stamp"}, NEW next \in Pin, Begins(t, s, next)
    PROVE  /\ tabs' \in [TrustTabs -> Tab] /\ \A u \in TrustTabs \ {t} : tabs'[u] = tabs[u]
           /\ tabs'[t].step = s /\ tabs'[t].read = pin /\ tabs'[t].next = next
           /\ tabs'[t].shown = tabs[t].shown /\ tabs'[t].session = tabs[t].session
  <1>1. tabs[t] \in Tab /\ pin \in Pin
    BY DEF TrustInv, TabsFit, RecordsFit
  <1>2. tabs' = [tabs EXCEPT ![t] = [tabs[t] EXCEPT !.step = s, !.read = pin, !.next = next]]
    BY DEF Begins, TrustInv, TabsFit
  <1>3. [tabs[t] EXCEPT !.step = s, !.read = pin, !.next = next] \in Tab
    BY <1>1 DEF Tab
  <1>. QED  BY <1>1, <1>2, <1>3 DEF TrustInv, TabsFit, Tab

-----------------------------------------------------------------------------
(* The actions of the registry. *)

\* applyRecoveryReset takes the verification off and leaves the identity.
LEMMA ResetShape ==
    ASSUME NEW p \in Pin, NEW r \in TrustTimes
    PROVE  /\ ApplyRecoveryReset(p, r) \in Pin /\ ApplyRecoveryReset(p, r).identity = p.identity
           /\ ApplyRecoveryReset(p, r) # p => ApplyRecoveryReset(p, r).verifiedAt = 0
           /\ Verified(p, r) <=> p.verifiedAt > r
  BY ClockBound DEF ApplyRecoveryReset, Pin, Verified, TrustTimes

\* A write of the contact's record waits with a record it may put in place of
\* the one it has read, and verifies nobody.
LEMMA WriteBegins ==
    ASSUME TrustInv, NEW t \in TrustTabs, NEW next \in Pin, Begins(t, "write", next), next.verifiedAt = 0,
           \/ next.identity = pin.identity
           \/ pin.identity = NoOne
           \/ pin.pending # NoOne /\ next.identity = pin.pending,
           UNCHANGED <<pin, reset, kept, recovery, clock, compared, torn>>
    PROVE  TrustInv'
  <1>1. /\ tabs' \in [TrustTabs -> Tab] /\ \A u \in TrustTabs \ {t} : tabs'[u] = tabs[u]
        /\ tabs'[t].step = "write" /\ tabs'[t].read = pin /\ tabs'[t].next = next
    BY BeginsKeeps
  <1>2. TabFits(tabs[t])'
    BY <1>1 DEF TabFits
  <1>3. TabsFit'
    BY <1>1, <1>2, TabsKeep DEF TrustInv
  <1>. QED  BY <1>3, RecordsKeep DEF TrustInv

\* observeIdentity: a first identity is pinned, another one waits for the
\* person.
LEMMA ObserveHolds ==
    ASSUME TrustInv, NEW t \in TrustTabs, Observe(t), served \in Identities
    PROVE  TrustInv'
  <1>1. pin \in Pin
    BY DEF TrustInv, RecordsFit
  <1>2. Observed(served) \in Pin /\ Observed(served).verifiedAt = 0
        /\ (Observed(served).identity = pin.identity \/ pin.identity = NoOne)
    BY <1>1, ClockBound DEF Observed, Pin, NoPin, Someone
  <1>. QED  BY <1>2, WriteBegins DEF Observe

\* markUnverified takes the verification off.
LEMMA MarkUnverifiedHolds ==
    ASSUME TrustInv, NEW t \in TrustTabs, MarkUnverified(t)
    PROVE  TrustInv'
  <1>1. pin \in Pin
    BY DEF TrustInv, RecordsFit
  <1>2. [pin EXCEPT !.verifiedAt = 0] \in Pin /\ [pin EXCEPT !.verifiedAt = 0].verifiedAt = 0
        /\ [pin EXCEPT !.verifiedAt = 0].identity = pin.identity
    BY <1>1, ClockBound DEF Pin
  <1>. QED  BY <1>2, WriteBegins DEF MarkUnverified

\* acceptPendingChange pins the identity that waited, unverified.
LEMMA AcceptPendingChangeHolds ==
    ASSUME TrustInv, NEW t \in TrustTabs, AcceptPendingChange(t)
    PROVE  TrustInv'
  <1> DEFINE n == [NoPin EXCEPT !.identity = pin.pending]
  <1>1. pin \in Pin /\ pin.pending # NoOne
    BY DEF TrustInv, RecordsFit, AcceptPendingChange
  <1>2. n \in Pin /\ n.verifiedAt = 0 /\ n.identity = pin.pending
    BY <1>1, ClockBound DEF Pin, NoPin, Someone
  <1>3. Begins(t, "write", n) /\ UNCHANGED <<pin, reset, kept, recovery, clock, compared, torn>>
    BY DEF AcceptPendingChange
  <1> HIDE DEF n
  <1>. QED  BY <1>1, <1>2, <1>3, WriteBegins

\* getContact reads the record, and voids a verification older than the
\* recovery.
LEMMA GetContactHolds ==
    ASSUME TrustInv, NEW t \in TrustTabs, GetContact(t)
    PROVE  TrustInv'
  <1> DEFINE a == ApplyRecoveryReset(pin, reset)
  <1>1. pin \in Pin /\ reset \in TrustTimes /\ tabs[t] \in Tab /\ pin.identity \in Someone
    BY DEF TrustInv, RecordsFit, TabsFit, Pin
  <1>2. a \in Pin /\ a.identity = pin.identity /\ (a # pin => a.verifiedAt = 0)
    BY <1>1, ResetShape
  <1> HIDE DEF a
  <1>3. UNCHANGED <<pin, reset, kept, recovery, clock, compared, torn>>
        /\ tabs' = [tabs EXCEPT ![t] = [tabs[t] EXCEPT !.shown = pin.identity,
                      !.step = IF a # pin THEN "write" ELSE tabs[t].step, !.read = pin, !.next = a]]
        /\ tabs[t].step = "ready"
    BY DEF GetContact, TrustInv, TabsFit, a, TabReady
  <1>4. tabs'[t] = [tabs[t] EXCEPT !.shown = pin.identity,
                      !.step = IF a # pin THEN "write" ELSE tabs[t].step, !.read = pin, !.next = a]
    BY <1>3 DEF TrustInv, TabsFit
  <1>5. tabs'[t] \in Tab /\ tabs'[t].step = (IF a # pin THEN "write" ELSE "ready")
        /\ tabs'[t].read = pin /\ tabs'[t].next = a
    <2> DEFINE s == IF a # pin THEN "write" ELSE tabs[t].step
    <2>1. s \in {"write", "ready"} /\ s = IF a # pin THEN "write" ELSE "ready"
      BY <1>3
    <2>2. tabs'[t] = [tabs[t] EXCEPT !.shown = pin.identity, !.step = s, !.read = pin, !.next = a]
      BY <1>4
    <2> HIDE DEF s
    <2>3. tabs'[t] \in Tab /\ tabs'[t].step = s /\ tabs'[t].read = pin /\ tabs'[t].next = a
      BY <1>1, <1>2, <2>1, <2>2 DEF Tab
    <2>. QED  BY <2>1, <2>3
  <1>6. tabs' \in [TrustTabs -> Tab] /\ \A u \in TrustTabs \ {t} : tabs'[u] = tabs[u]
    BY <1>3, <1>4, <1>5 DEF TrustInv, TabsFit
  <1>7. TabFits(tabs[t])'
    BY <1>2, <1>5 DEF TabFits
  <1>8. TabsFit'
    BY <1>3, <1>6, <1>7, TabsKeep DEF TrustInv
  <1>. QED  BY <1>3, <1>8, RecordsKeep DEF TrustInv

\* markVerified reads the record the person compared; the identity shown is the
\* identity in it, or the call ends.
LEMMA MarkVerifiedHolds ==
    ASSUME TrustInv, NEW t \in TrustTabs, MarkVerified(t)
    PROVE  TrustInv'
  <1>1. pin \in Pin
    BY DEF TrustInv, RecordsFit
  <1>2. /\ tabs' \in [TrustTabs -> Tab] /\ \A u \in TrustTabs \ {t} : tabs'[u] = tabs[u]
        /\ tabs'[t].step = "stamp" /\ tabs'[t].read = pin /\ tabs'[t].next = pin
        /\ tabs'[t].shown = tabs[t].shown
    BY <1>1, BeginsKeeps DEF MarkVerified
  <1>3. pin.identity = tabs[t].shown /\ compared' = compared \cup {tabs[t].shown}
        /\ UNCHANGED <<pin, reset, kept, recovery, clock, torn>>
    BY DEF MarkVerified
  <1>4. TabFits(tabs[t])'
    BY <1>2, <1>3 DEF TabFits
  <1>5. TabsFit'
    BY <1>2, <1>3, <1>4, TabsKeep DEF TrustInv
  <1>6. RecordsFit'
    BY <1>3 DEF TrustInv, RecordsFit, VerifiedWasCompared, Verified, ApplyRecoveryReset
  <1>. QED  BY <1>5, <1>6 DEF TrustInv

\* A tab that ends its operation.
LEMMA TabFreed ==
    ASSUME TrustInv, NEW t \in TrustTabs, tabs' = [tabs EXCEPT ![t] = TabFree(@)]
    PROVE  /\ tabs' \in [TrustTabs -> Tab] /\ \A u \in TrustTabs \ {t} : tabs'[u] = tabs[u]
           /\ tabs'[t].step \in Idle /\ TabFits(tabs[t])'
  <1>1. tabs[t] \in Tab /\ tabs'[t] = TabFree(tabs[t])
    BY DEF TrustInv, TabsFit
  <1>2. tabs'[t] \in Tab /\ tabs'[t].step = "ready"
    BY <1>1, FreeTab
  <1>3. TabFits(tabs[t])'
    BY <1>2 DEF TabFits
  <1>. QED  BY <1>2, <1>3 DEF TrustInv, TabsFit, Idle

\* The comparison gets the time of a clock that no recovery is ahead of.
LEMMA StampVerifiedHolds ==
    ASSUME TrustInv, NEW t \in TrustTabs, StampVerified(t)
    PROVE  TrustInv'
  <1> DEFINE n == [tabs[t].next EXCEPT !.verifiedAt = clock]
             b == [tabs[t] EXCEPT !.step = "verify", !.next = n]
  <1>1. /\ tabs[t] \in Tab /\ tabs[t].step = "stamp" /\ tabs[t].next = tabs[t].read /\ tabs[t].next \in Pin
        /\ tabs[t].read.identity = tabs[t].shown /\ tabs[t].shown \in compared
    BY TabShape DEF TrustInv, StampVerified, On, TabFits
  <1>2. clock \in 0 .. MaxClock
    BY DEF TrustInv, RecordsFit, TrustTimes
  <1>3. n \in Pin /\ n.identity = tabs[t].next.identity /\ n.verifiedAt = clock
    BY <1>1, <1>2 DEF Pin
  <1>4. tabs' = [tabs EXCEPT ![t] = b] /\ UNCHANGED <<pin, reset, kept, recovery, clock, compared, torn>>
    BY DEF StampVerified, TrustInv, TabsFit
  <1> HIDE DEF n
  <1>5. /\ b \in Tab /\ b.step = "verify" /\ b.next = n /\ b.read = tabs[t].read
        /\ b.shown = tabs[t].shown
    BY <1>1, <1>3 DEF Tab
  <1> HIDE DEF b
  <1>6. tabs'[t] = b /\ tabs' \in [TrustTabs -> Tab] /\ \A u \in TrustTabs \ {t} : tabs'[u] = tabs[u]
    BY <1>4, <1>5 DEF TrustInv, TabsFit
  <1>7. TabFits(tabs[t])'
    BY <1>1, <1>2, <1>3, <1>4, <1>5, <1>6 DEF TabFits
  <1>8. TabsFit'
    BY <1>4, <1>6, <1>7, TabsKeep DEF TrustInv
  <1>. QED  BY <1>4, <1>8, RecordsKeep DEF TrustInv

\* The verification is written over the record that was compared, so the one
\* pinned is the one compared, and one that counts has not been voided.
LEMMA WriteVerifiedHolds ==
    ASSUME TrustInv, NEW t \in TrustTabs, WriteVerified(t)
    PROVE  TrustInv'
  <1>1. /\ tabs' \in [TrustTabs -> Tab] /\ \A u \in TrustTabs \ {t} : tabs'[u] = tabs[u]
        /\ tabs'[t].step \in Idle /\ TabFits(tabs[t])'
    BY TabFreed DEF WriteVerified
  <1>2. UNCHANGED <<reset, kept, recovery, clock, compared, torn>> /\ tabs[t].step = "verify"
    BY DEF WriteVerified, On
  <1>3. CASE pin # tabs[t].read
    <2>1. pin' = pin
      BY <1>3 DEF WriteVerified
    <2>. QED  BY <1>1, <1>2, <2>1, TabsKeep, RecordsKeep DEF TrustInv
  <1>4. CASE pin = tabs[t].read
    <2>1. /\ pin' = tabs[t].next /\ pin' \in Pin /\ pin'.identity = pin.identity
          /\ pin'.identity = tabs[t].shown /\ pin'.verifiedAt <= clock
          /\ pin'.verifiedAt > reset => tabs[t].shown \in compared
      BY <1>2, <1>4, TabShape DEF TrustInv, TabFits, WriteVerified
    <2>2. VerifiedWasCompared'
      BY <1>2, <2>1, ResetShape DEF TrustInv, RecordsFit, VerifiedWasCompared
    <2>3. RecordsFit'
      BY <1>2, <2>1, <2>2 DEF TrustInv, RecordsFit
    <2>4. ASSUME NEW u \in TrustTabs \ {t} PROVE TabFits(tabs[u])'
      <3>1. TabFits(tabs[u]) /\ tabs'[u] = tabs[u]
        BY <1>1 DEF TrustInv, TabsFit
      <3>. QED  BY <1>2, <2>1, <3>1 DEF TabFits, Verified, ApplyRecoveryReset
    <2>. QED  BY <1>1, <2>3, <2>4 DEF TrustInv, TabsFit
  <1>. QED  BY <1>3, <1>4

\* Another write of the record: where the pin changes, a session of the one
\* before it is torn until it is discarded.
LEMMA WriteRecordHolds ==
    ASSUME TrustInv, NEW t \in TrustTabs, WriteRecord(t)
    PROVE  TrustInv'
  <1>1. CASE pin # tabs[t].read
    <2>1. tabs' = [tabs EXCEPT ![t] = TabFree(@)]
              /\ UNCHANGED <<pin, reset, kept, recovery, clock, compared, torn>>
      BY <1>1 DEF WriteRecord
    <2>. QED  BY <2>1, TabFreed, TabsKeep, RecordsKeep DEF TrustInv
  <1>2. CASE pin = tabs[t].read
    <2> DEFINE n == tabs[t].next
    <2>1. n \in Pin /\ n.verifiedAt = 0 /\ pin \in Pin
          /\ \/ n.identity = pin.identity
             \/ pin.identity = NoOne
             \/ pin.pending # NoOne /\ n.identity = pin.pending
      BY <1>2, TabShape DEF TrustInv, TabFits, RecordsFit, WriteRecord, On
    <2>2. /\ pin' = n /\ compared' = compared \cap Confirming /\ UNCHANGED <<reset, kept, recovery, clock>>
          /\ torn' = (torn \/ (Accepting(t) /\ (kept.session # NoOne \/ Sending)))
      BY <1>2, <2>1 DEF WriteRecord
    <2>3. tabs[t] \in Tab
      BY TabShape DEF TrustInv
    <2>4. tabs'[t] = IF Accepting(t) THEN [TabFree(tabs[t]) EXCEPT !.step = "discard"] ELSE TabFree(tabs[t])
      BY <1>2 DEF WriteRecord, TrustInv, TabsFit
    <2>5. tabs'[t] \in Tab /\ tabs'[t].step \in Idle
      <3>1. TabFree(tabs[t]) \in Tab /\ TabFree(tabs[t]).step = "ready"
        BY <2>3, FreeTab
      <3>. QED  BY <2>4, <3>1 DEF Tab, Idle
    <2>6. tabs' \in [TrustTabs -> Tab] /\ \A u \in TrustTabs \ {t} : tabs'[u] = tabs[u]
      BY <1>2, <2>5 DEF WriteRecord, TrustInv, TabsFit
    <2>7. torn' \/ n.identity = pin.identity \/ pin.identity = NoOne \/ (kept.session = NoOne /\ ~Sending)
      BY <1>2, <2>1, <2>2 DEF Accepting
    <2>8. RecordsFit'
      <3>1. ~Verified(n, reset)
        BY <2>1, ResetShape DEF TrustInv, RecordsFit, TrustTimes
      <3>2. VerifiedWasCompared'
        BY <2>2, <3>1 DEF VerifiedWasCompared, Verified, ApplyRecoveryReset
      <3>3. (pin.identity = NoOne => kept.session = NoOne)' /\ (~torn /\ kept.session # NoOne
                => kept.session = pin.identity)'
        BY <2>1, <2>2, <2>7 DEF TrustInv, RecordsFit
      <3>4. torn' \in BOOLEAN
        BY <2>2
      <3>. QED  BY <2>1, <2>2, <3>2, <3>3, <3>4 DEF TrustInv, RecordsFit, TrustTimes
    <2>9. ASSUME NEW u \in TrustTabs PROVE TabFits(tabs[u])'
      <3>1. CASE u = t
        BY <2>5, <3>1 DEF TabFits, Idle
      <3>2. CASE u # t
        <4>1. TabFits(tabs[u]) /\ tabs'[u] = tabs[u]
          BY <2>6, <3>2 DEF TrustInv, TabsFit
        <4>2. tabs[u].step \in {"stamp", "verify"} /\ tabs[u].shown \in compared => tabs[u].shown \in compared'
          BY <2>2 DEF Confirming, Unstamped, On
        <4>3. tabs[u].step \in {"send", "file"} => n.identity # NoOne
          BY <2>1, <4>1 DEF TabFits
        <4>4. tabs[u].step \in {"send", "file"} => torn' \/ tabs[u].read.identity = n.identity
          <5>1. tabs[u].step \in {"send", "file"} => Sending
            BY DEF Sending, On
          <5>. QED  BY <2>2, <2>7, <4>1, <5>1 DEF TabFits
        <4>. QED  BY <2>2, <4>1, <4>2, <4>3, <4>4 DEF TabFits, Verified, ApplyRecoveryReset
      <3>. QED  BY <3>1, <3>2
    <2>. QED  BY <2>6, <2>8, <2>9 DEF TrustInv, TabsFit
  <1>. QED  BY <1>1, <1>2
-----------------------------------------------------------------------------
(* The actions of an engine. *)

\* A tab opens with the session that is kept.
LEMMA OpenTabHolds ==
    ASSUME TrustInv, NEW t \in TrustTabs, OpenTab(t)
    PROVE  TrustInv'
  <1> DEFINE s == IF kept.named THEN kept.session ELSE NoOne
             h == CASE kept.named /\ kept.session = NoOne -> "unhealthy"
                    [] kept.renewal -> "renewal"
                    [] OTHER -> "healthy"
  <1>1. pin.identity \in Someone /\ kept.session \in Someone /\ s \in Someone
    BY DEF TrustInv, RecordsFit, Pin, Someone
  <1>2. h \in {"healthy", "unhealthy", "renewal"}
    OBVIOUS
  <1>3. NoPin \in Pin /\ 0 \in TrustTimes
    BY ClockBound DEF NoPin, Pin, Someone, TrustTimes
  <1>4. tabs' = [tabs EXCEPT ![t] = [ClosedTab EXCEPT !.step = "ready", !.shown = pin.identity,
                                       !.session = s, !.health = h]]
        /\ UNCHANGED <<pin, reset, kept, recovery, clock, compared, torn>>
    BY DEF OpenTab
  <1> HIDE DEF s, h
  <1>5. tabs'[t] = [ClosedTab EXCEPT !.step = "ready", !.shown = pin.identity, !.session = s, !.health = h]
    BY <1>4 DEF TrustInv, TabsFit
  <1>6. tabs'[t] \in Tab /\ tabs'[t].step = "ready"
    BY <1>1, <1>2, <1>3, <1>5 DEF ClosedTab, Tab
  <1>7. tabs' \in [TrustTabs -> Tab] /\ \A u \in TrustTabs \ {t} : tabs'[u] = tabs[u]
    BY <1>4, <1>5, <1>6 DEF TrustInv, TabsFit
  <1>8. TabFits(tabs[t])'
    BY <1>6 DEF TabFits
  <1>9. TabsFit'
    BY <1>4, <1>7, <1>8, TabsKeep DEF TrustInv
  <1>. QED  BY <1>4, <1>9, RecordsKeep DEF TrustInv

\* A tab that ends in a step with nothing under way, the contact's record as it
\* is.
LEMMA StepsAside ==
    ASSUME TrustInv, NEW t \in TrustTabs, NEW b \in Tab, b.step \in Idle, tabs' = [tabs EXCEPT ![t] = b],
           UNCHANGED <<pin, reset, clock>>, torn => torn', compared \subseteq compared'
    PROVE  TabsFit'
  <1>1. tabs'[t] = b /\ tabs' \in [TrustTabs -> Tab] /\ \A u \in TrustTabs \ {t} : tabs'[u] = tabs[u]
    BY DEF TrustInv, TabsFit
  <1>2. TabFits(tabs[t])'
    BY <1>1 DEF TabFits, Idle
  <1>. QED  BY <1>1, <1>2, TabsKeep DEF TrustInv

\* A tab is lost at any step.
LEMMA LoseTabHolds ==
    ASSUME TrustInv, NEW t \in TrustTabs, LoseTab(t)
    PROVE  TrustInv'
  <1>1. NoPin \in Pin /\ 0 \in TrustTimes
    BY ClockBound DEF NoPin, Pin, Someone, TrustTimes
  <1>2. ClosedTab \in Tab /\ ClosedTab.step \in Idle
    BY <1>1 DEF ClosedTab, Tab, Someone, Idle
  <1>3. TabsFit'
    BY <1>2, StepsAside DEF LoseTab
  <1>. QED  BY <1>3, RecordsKeep DEF LoseTab, TrustInv

\* The session of another identity is discarded, which ends the torn moment.
LEMMA DiscardSessionHolds ==
    ASSUME TrustInv, NEW t \in TrustTabs, DiscardSession(t)
    PROVE  TrustInv'
  <1>1. /\ kept' = [kept EXCEPT !.session = NoOne] /\ torn' = (torn /\ Sending)
        /\ tabs' = [tabs EXCEPT ![t].step = "unname"] /\ UNCHANGED <<pin, reset, recovery, clock, compared>>
    BY DEF DiscardSession
  <1>2. tabs[t] \in Tab
    BY TabShape DEF TrustInv
  <1>3. tabs'[t] = [tabs[t] EXCEPT !.step = "unname"] /\ \A u \in TrustTabs \ {t} : tabs'[u] = tabs[u]
    BY <1>1 DEF TrustInv, TabsFit
  <1>4. tabs'[t] \in Tab /\ tabs'[t].step = "unname"
    BY <1>2, <1>3 DEF Tab
  <1>5. tabs' \in [TrustTabs -> Tab]
    BY <1>1, <1>3, <1>4 DEF TrustInv, TabsFit
  <1>6. ASSUME NEW u \in TrustTabs PROVE TabFits(tabs[u])'
    <2>1. CASE u = t
      BY <1>4, <2>1 DEF TabFits
    <2>2. CASE u # t
      <3>1. TabFits(tabs[u]) /\ tabs'[u] = tabs[u]
        BY <1>3, <2>2 DEF TrustInv, TabsFit
      <3>2. tabs[u].step \in {"send", "file"} /\ torn => torn'
        BY <1>1 DEF Sending, On
      <3>3. UNCHANGED <<pin, reset, clock, compared>>
        BY <1>1
      <3>. QED  BY <3>1, <3>2, <3>3 DEF TabFits, Verified, ApplyRecoveryReset
    <2>. QED  BY <2>1, <2>2
  <1>7. kept' \in [session : Someone, named : BOOLEAN, renewal : BOOLEAN] /\ kept'.session = NoOne
    BY <1>1 DEF TrustInv, RecordsFit, Someone
  <1>8. torn' \in BOOLEAN
    BY <1>1
  <1>9. RecordsFit'
    BY <1>1, <1>7, <1>8 DEF TrustInv, RecordsFit, VerifiedWasCompared, Verified, ApplyRecoveryReset
  <1>. QED  BY <1>5, <1>6, <1>9 DEF TrustInv, TabsFit

\* The name of the session goes after the session.
LEMMA UnnameSessionHolds ==
    ASSUME TrustInv, NEW t \in TrustTabs, UnnameSession(t)
    PROVE  TrustInv'
  <1> DEFINE b == [TabFree(tabs[t]) EXCEPT !.session = NoOne, !.shown = pin.identity]
  <1>1. kept' = [kept EXCEPT !.named = FALSE] /\ tabs' = [tabs EXCEPT ![t] = b]
        /\ UNCHANGED <<pin, reset, recovery, clock, compared, torn>>
    BY DEF UnnameSession
  <1>2. tabs[t] \in Tab /\ pin.identity \in Someone /\ NoOne \in Someone
    BY TabShape DEF TrustInv, RecordsFit, Pin, Someone
  <1>3. b \in Tab /\ b.step \in Idle
    <2>1. TabFree(tabs[t]) \in Tab /\ TabFree(tabs[t]).step = "ready"
      BY <1>2, FreeTab
    <2>. QED  BY <1>2, <2>1 DEF Tab, Idle
  <1> HIDE DEF b
  <1>4. TabsFit'
    BY <1>1, <1>3, StepsAside
  <1>5. kept' \in [session : Someone, named : BOOLEAN, renewal : BOOLEAN] /\ kept'.session = kept.session
    BY <1>1 DEF TrustInv, RecordsFit
  <1>6. RecordsFit'
    BY <1>1, <1>5 DEF TrustInv, RecordsFit, VerifiedWasCompared, Verified, ApplyRecoveryReset
  <1>. QED  BY <1>4, <1>6 DEF TrustInv

\* A message or a file starts on its way when its session is the pinned one,
\* and a file when it is verified.
LEMMA SendsHolds ==
    ASSUME TrustInv, NEW t \in TrustTabs, NEW s \in {"send", "file"}, Sends(t, s), s = "file"
               => Verified(pin, reset),
           UNCHANGED <<pin, reset, kept, recovery, clock, compared, torn>>
    PROVE  TrustInv'
  <1>1. pin.identity # NoOne /\ pin.pending = NoOne /\ pin \in Pin /\ reset \in TrustTimes /\ tabs[t] \in Tab
    BY TabShape DEF Sends, Unchanged, TrustInv, RecordsFit
  <1>2. tabs' = [tabs EXCEPT ![t] = [tabs[t] EXCEPT !.step = s, !.read = pin, !.at = reset]]
    BY DEF Sends, TrustInv, TabsFit
  <1>3. tabs'[t] = [tabs[t] EXCEPT !.step = s, !.read = pin, !.at = reset]
        /\ \A u \in TrustTabs \ {t} : tabs'[u] = tabs[u]
    BY <1>2 DEF TrustInv, TabsFit
  <1>4. tabs'[t] \in Tab /\ tabs'[t].step = s /\ tabs'[t].read = pin /\ tabs'[t].at = reset
    BY <1>1, <1>3 DEF Tab
  <1>5. tabs' \in [TrustTabs -> Tab]
    BY <1>2, <1>3, <1>4 DEF TrustInv, TabsFit
  <1>6. TabFits(tabs[t])'
    BY <1>1, <1>4 DEF TabFits, Verified, ApplyRecoveryReset
  <1>7. TabsFit'
    BY <1>3, <1>5, <1>6, TabsKeep DEF TrustInv
  <1>. QED  BY <1>7, RecordsKeep DEF TrustInv

\* ... and is committed.
LEMMA CommitMessageHolds ==
    ASSUME TrustInv, NEW t \in TrustTabs, CommitMessage(t)
    PROVE  TrustInv'
  <1>1. UNCHANGED <<pin, reset, recovery, clock, compared, torn>> /\ tabs[t].step \in {"send", "file"}
    BY DEF CommitMessage, On
  <1>2. CASE ~Stores(t)
    <2>1. tabs' = [tabs EXCEPT ![t] = TabFree(@)] /\ kept' = kept
      BY <1>2 DEF CommitMessage
    <2>2. TabsFit'
      BY <1>1, <2>1, TabFreed, TabsKeep DEF TrustInv
    <2>. QED  BY <1>1, <2>1, <2>2, RecordsKeep DEF TrustInv
  <1>3. CASE Stores(t)
    <2> DEFINE s == SessionFor(t)
               b == [TabFree(tabs[t]) EXCEPT !.session = s]
    <2>1. /\ tabs[t] \in Tab /\ TabFits(tabs[t]) /\ tabs[t].read \in Pin /\ tabs[t].session \in Someone
          /\ kept.session = tabs[t].session
      BY <1>3, TabShape DEF TrustInv, Stores
    <2>2. s \in Someone /\ (s = tabs[t].read.identity \/ s = kept.session)
      BY <2>1 DEF SessionFor, Pin
    <2>3. kept' = [kept EXCEPT !.session = s, !.named = TRUE] /\ tabs' = [tabs EXCEPT ![t] = b]
      BY <1>3 DEF CommitMessage
    <2>4. ~torn => s = pin.identity
      BY <1>1, <2>1 DEF TabFits, SessionFor, TrustInv, RecordsFit
    <2>5. pin.identity # NoOne
      BY <1>1, <2>1 DEF TabFits
    <2> HIDE DEF s
    <2>6. b \in Tab /\ b.step \in Idle
      <3>1. TabFree(tabs[t]) \in Tab /\ TabFree(tabs[t]).step = "ready"
        BY <2>1, FreeTab
      <3>. QED  BY <2>2, <3>1 DEF Tab, Idle
    <2> HIDE DEF b
    <2>7. TabsFit'
      BY <1>1, <2>3, <2>6, StepsAside
    <2>8. kept' \in [session : Someone, named : BOOLEAN, renewal : BOOLEAN] /\ kept'.session = s
      BY <2>2, <2>3 DEF TrustInv, RecordsFit
    <2>9. RecordsFit'
      BY <1>1, <2>4, <2>5, <2>8 DEF TrustInv, RecordsFit, VerifiedWasCompared, Verified, ApplyRecoveryReset
    <2>. QED  BY <2>7, <2>9 DEF TrustInv
  <1>. QED  BY <1>2, <1>3

\* A renewal of the session is asked or ends.
LEMMA RenewalHolds ==
    ASSUME TrustInv, NEW t \in TrustTabs, PrepareVerifiedSessionRenewal(t) \/ AcceptRenewal(t)
    PROVE  TrustInv'
  <1>1. /\ tabs[t].step = "ready" /\ UNCHANGED <<pin, reset, recovery, clock, compared, torn>>
        /\ \E h \in {"renewal", "healthy"} : tabs' = [tabs EXCEPT ![t] = [tabs[t] EXCEPT !.health = h]]
    BY DEF PrepareVerifiedSessionRenewal, AcceptRenewal, TabReady
  <1>2. kept' \in [session : Someone, named : BOOLEAN, renewal : BOOLEAN] /\ kept'.session = kept.session
    BY DEF PrepareVerifiedSessionRenewal, AcceptRenewal, TrustInv, RecordsFit
  <1>3. PICK h \in {"renewal", "healthy"} : tabs' = [tabs EXCEPT ![t] = [tabs[t] EXCEPT !.health = h]]
    BY <1>1
  <1> DEFINE b == [tabs[t] EXCEPT !.health = h]
  <1>4. b \in Tab /\ b.step \in Idle
    BY <1>1, TabShape DEF TrustInv, Tab, Idle
  <1>5. tabs' = [tabs EXCEPT ![t] = b]
    BY <1>3
  <1> HIDE DEF b
  <1>6. TabsFit'
    BY <1>1, <1>4, <1>5, StepsAside
  <1>7. RecordsFit'
    BY <1>1, <1>2 DEF TrustInv, RecordsFit, VerifiedWasCompared, Verified, ApplyRecoveryReset
  <1>. QED  BY <1>6, <1>7 DEF TrustInv

-----------------------------------------------------------------------------
(* The actions of a recovery, and the environment. *)

\* A recovery is claimed.
LEMMA RecoveryBegins ==
    ASSUME TrustInv, NEW t \in TrustTabs, StageRecovery(t) \/ RejectRecovery(t)
    PROVE  TrustInv'
  <1>1. UNCHANGED <<pin, reset, kept, tabs, clock, compared, torn>>
    BY DEF StageRecovery, RejectRecovery
  <1>2. recovery' \in [claimed : BOOLEAN, pending : BOOLEAN, completed : 0 .. 1, scope : 0 .. 1]
        /\ recovery'.completed = recovery.completed /\ recovery'.scope = recovery.scope
        /\ (recovery'.pending => recovery.scope = 0)
    BY DEF StageRecovery, RejectRecovery, Unclaimed, TrustInv, RecordsFit
  <1>3. RecordsFit'
    BY <1>1, <1>2 DEF TrustInv, RecordsFit, VerifiedWasCompared, Verified, ApplyRecoveryReset
  <1>4. TabsFit'
    BY <1>1 DEF TrustInv, TabsFit, TabFits, Verified, ApplyRecoveryReset
  <1>. QED  BY <1>3, <1>4 DEF TrustInv

\* The identity of the account is replaced.
LEMMA ReplaceIdentityHolds ==
    ASSUME TrustInv, NEW t \in TrustTabs, ReplaceIdentity(t)
    PROVE  TrustInv'
  <1> DEFINE b == [tabs[t] EXCEPT !.step = "replace", !.at = recovery.scope]
  <1>1. tabs' = [tabs EXCEPT ![t] = b] /\ UNCHANGED <<pin, reset, kept, recovery, clock, compared, torn>>
    BY DEF ReplaceIdentity, TrustInv, TabsFit
  <1>2. recovery.scope \in TrustTimes
    BY ClockBound DEF TrustInv, RecordsFit, TrustTimes
  <1>3. b \in Tab /\ b.step \in Idle
    BY <1>2, TabShape DEF TrustInv, Tab, Idle
  <1> HIDE DEF b
  <1>4. TabsFit'
    BY <1>1, <1>3, StepsAside
  <1>. QED  BY <1>1, <1>4, RecordsKeep DEF TrustInv

\* The recovery takes its time, or ends.
LEMMA TakeResetTimeHolds ==
    ASSUME TrustInv, NEW t \in TrustTabs, TakeResetTime(t)
    PROVE  TrustInv'
  <1>1. UNCHANGED <<pin, reset, kept, recovery, clock, compared, torn>> /\ clock \in TrustTimes
            /\ tabs[t] \in Tab
    BY TabShape DEF TakeResetTime, TrustInv, RecordsFit
  <1>2. CASE recovery.pending
    <2> DEFINE b == [tabs[t] EXCEPT !.step = "complete", !.time = clock]
    <2>1. tabs' = [tabs EXCEPT ![t] = b]
      BY <1>2 DEF TakeResetTime, TrustInv, TabsFit
    <2>2. b \in Tab /\ b.step \in Idle
      BY <1>1 DEF Tab, Idle
    <2> HIDE DEF b
    <2>3. TabsFit'
      BY <1>1, <2>1, <2>2, StepsAside
    <2>. QED  BY <1>1, <2>3, RecordsKeep DEF TrustInv
  <1>3. CASE ~recovery.pending
    <2>1. tabs' = [tabs EXCEPT ![t] = TabFree(@)]
      BY <1>3 DEF TakeResetTime
    <2>2. TabsFit'
      BY <1>1, <2>1, TabFreed, TabsKeep DEF TrustInv
    <2>. QED  BY <1>1, <2>2, RecordsKeep DEF TrustInv
  <1>. QED  BY <1>2, <1>3

\* A completed recovery voids what was stamped until it took its time, and
\* leaves what got a later one, also where that is already written.
LEMMA CompleteRecoveryHolds ==
    ASSUME TrustInv, RecoveriesFit, NEW t \in TrustTabs, CompleteRecovery(t)
    PROVE  TrustInv'
  <1>1. tabs' = [tabs EXCEPT ![t] = TabFree(@)] /\ UNCHANGED <<pin, kept, clock, torn>>
            /\ tabs[t].step = "complete"
    BY DEF CompleteRecovery, On
  <1>2. /\ tabs' \in [TrustTabs -> Tab] /\ \A u \in TrustTabs \ {t} : tabs'[u] = tabs[u]
        /\ TabFits(tabs[t])'
    BY <1>1, TabFreed
  <1>3. CASE ~Confirms(t)
    <2>1. UNCHANGED <<reset, recovery, compared>>
      BY <1>3 DEF CompleteRecovery
    <2>2. TabsFit'
      BY <1>1, <1>2, <2>1, TabsKeep DEF TrustInv
    <2>. QED  BY <1>1, <2>1, <2>2, RecordsKeep DEF TrustInv
  <1>4. CASE Confirms(t)
    <2>1. /\ recovery' = [recovery EXCEPT !.pending = FALSE, !.scope = @ + 1, !.completed = @ + 1]
          /\ reset' = tabs[t].time /\ compared' = recent[t]
      BY <1>4 DEF CompleteRecovery
    <2>2. recovery.pending /\ recovery.scope = 0 /\ recovery.completed = 0
      BY <1>4 DEF Confirms, TrustInv, RecordsFit
    <2>3. recovery' \in [claimed : BOOLEAN, pending : BOOLEAN, completed : 0 .. 1, scope : 0 .. 1]
          /\ recovery'.completed = recovery'.scope /\ ~recovery'.pending
      <3>1. recovery' = [recovery EXCEPT !.pending = FALSE, !.scope = 1, !.completed = 1]
        BY <2>1, <2>2
      <3>2. recovery \in [claimed : BOOLEAN, pending : BOOLEAN, completed : 0 .. 1, scope : 0 .. 1]
            /\ 1 \in 0 .. 1
        BY DEF TrustInv, RecordsFit
      <3>. QED  BY <3>1, <3>2
    <2>4. Leaves(t) /\ tabs[t].time \in TrustTimes
      BY <1>1 DEF RecoveriesFit, On, TrustInv, TabsFit, Tab
    <2>5. RecordsFit'
      <3>1. VerifiedWasCompared'
        <4>1. SUFFICES ASSUME Verified(pin, tabs[t].time) PROVE pin.identity \in recent[t]
          BY <1>1, <2>1 DEF VerifiedWasCompared, Verified, ApplyRecoveryReset
        <4>2. pin.verifiedAt > tabs[t].time
          BY <2>4, <4>1, ResetShape DEF TrustInv, RecordsFit
        <4>. QED  BY <2>4, <4>2 DEF Leaves
      <3>2. reset' \in TrustTimes /\ reset' <= clock
        BY <2>1, <2>4 DEF Leaves
      <3>. QED  BY <1>1, <2>3, <3>1, <3>2 DEF TrustInv, RecordsFit
    <2>6. ASSUME NEW u \in TrustTabs \ {t} PROVE TabFits(tabs[u])'
      <3>1. TabFits(tabs[u]) /\ tabs'[u] = tabs[u]
        BY <1>2 DEF TrustInv, TabsFit
      <3>2. tabs[u].step = "stamp" => tabs[u].shown \in compared'
        BY <2>1, <2>4 DEF Leaves, On
      <3>3. tabs[u].step = "verify" /\ tabs[u].next.verifiedAt > reset' => tabs[u].shown \in compared'
        BY <2>1, <2>4 DEF Leaves, On
      <3>. QED  BY <1>1, <3>1, <3>2, <3>3 DEF TabFits, Verified, ApplyRecoveryReset
    <2>. QED  BY <1>2, <2>5, <2>6 DEF TrustInv, TabsFit
  <1>. QED  BY <1>3, <1>4

\* The contact serves another identity, or the clock goes on.
LEMMA EnvironmentHolds ==
    ASSUME TrustInv, ServeIdentity \/ TimePasses
    PROVE  TrustInv'
  <1>1. UNCHANGED <<pin, reset, kept, recovery, tabs, compared, torn>> /\ clock' \in TrustTimes
            /\ clock <= clock' /\ clock \in TrustTimes
    BY ClockBound DEF ServeIdentity, TimePasses, TrustInv, RecordsFit, TrustTimes
  <1>2. RecordsFit'
    BY <1>1 DEF TrustInv, RecordsFit, VerifiedWasCompared, Verified, ApplyRecoveryReset, TrustTimes, Pin
  <1>3. ASSUME NEW u \in TrustTabs PROVE TabFits(tabs[u])'
    <2>1. tabs[u].next.verifiedAt \in TrustTimes /\ TabFits(tabs[u])
      BY TabShape DEF TrustInv, Pin, TrustTimes
    <2>2. tabs[u].next.verifiedAt <= clock => tabs[u].next.verifiedAt <= clock'
      BY <1>1, <2>1 DEF TrustTimes
    <2>. QED  BY <1>1, <2>1, <2>2 DEF TabFits, Verified, ApplyRecoveryReset
  <1>4. TabsFit'
    BY <1>1, <1>3 DEF TrustInv, TabsFit
  <1>. QED  BY <1>2, <1>4 DEF TrustInv

-----------------------------------------------------------------------------
(* What a recovery under way leaves. *)

\* A tab that neither compares nor completes a recovery.
Apart == {"closed", "ready", "write", "discard", "unname", "send", "file", "replace", "error"}

\* A step of such a tab that leaves the pin alone.
LEMMA ApartLeaves ==
    ASSUME TrustInv, RecoveriesFit, NEW t \in TrustTabs, tabs'[t].step \in Apart,
           \A u \in TrustTabs \ {t} : tabs'[u] = tabs[u],
           UNCHANGED <<pin, clock>>, recent' \in [TrustTabs -> SUBSET Someone],
           \A u \in TrustTabs \ {t} : recent'[u] = recent[u]
    PROVE  RecoveriesFit'
  <1>1. tabs'[t].step \notin {"stamp", "verify", "complete"}
    BY DEF Apart
  <1>2. ASSUME NEW u \in TrustTabs, tabs'[u].step = "complete" PROVE Leaves(u)'
    <2>1. u # t /\ tabs'[u] = tabs[u] /\ recent'[u] = recent[u] /\ Leaves(u)
      BY <1>1, <1>2 DEF RecoveriesFit, On
    <2>2. ASSUME NEW v \in TrustTabs
          PROVE  /\ tabs'[v].step = "stamp" => tabs'[v].shown \in recent'[u]
                 /\ tabs'[v].step = "verify" /\ tabs'[v].next.verifiedAt > tabs'[u].time
                       => tabs'[v].shown \in recent'[u]
      BY <1>1, <2>1 DEF Leaves, On
    <2>. QED  BY <2>1, <2>2 DEF Leaves, On
  <1>. QED  BY <1>2 DEF RecoveriesFit, On

\* An operation that writes the record takes the tab apart.
LEMMA WritesApart ==
    ASSUME TrustInv, NEW t \in TrustTabs, Observe(t) \/ MarkUnverified(t) \/ AcceptPendingChange(t) \/ GetContact(t)
    PROVE  tabs'[t].step \in Apart /\ \A u \in TrustTabs \ {t} : tabs'[u] = tabs[u]
  <1>1. tabs[t] \in Tab
    BY TabShape DEF TrustInv
  <1>2. ASSUME NEW next, Begins(t, "write", next)
        PROVE  tabs'[t].step = "write" /\ \A u \in TrustTabs \ {t} : tabs'[u] = tabs[u]
    <2>1. tabs'[t] = [tabs[t] EXCEPT !.step = "write", !.read = pin, !.next = next]
          /\ \A u \in TrustTabs \ {t} : tabs'[u] = tabs[u]
      BY <1>2 DEF Begins, TrustInv, TabsFit
    <2>. QED  BY <1>1, <2>1 DEF Tab
  <1>3. CASE Observe(t) \/ MarkUnverified(t) \/ AcceptPendingChange(t)
    BY <1>2, <1>3 DEF Observe, MarkUnverified, AcceptPendingChange, Apart
  <1>4. CASE GetContact(t)
    <2> DEFINE a == ApplyRecoveryReset(pin, reset)
               s == IF a # pin THEN "write" ELSE tabs[t].step
    <2>1. s \in {"write", "ready"}
      BY <1>4 DEF GetContact, TabReady
    <2>2. tabs' = [tabs EXCEPT ![t] = [tabs[t] EXCEPT !.shown = pin.identity, !.step = s, !.read = pin, !.next = a]]
      BY <1>4 DEF GetContact, TrustInv, TabsFit
    <2> HIDE DEF a, s
    <2>3. tabs'[t].step = s /\ \A u \in TrustTabs \ {t} : tabs'[u] = tabs[u]
      BY <1>1, <2>2 DEF TrustInv, TabsFit, Tab
    <2>. QED  BY <2>1, <2>3 DEF Apart
  <1>. QED  BY <1>3, <1>4

\* So does a step of the engine, and the beginning of a recovery.
LEMMA EngineApart ==
    ASSUME TrustInv, NEW t \in TrustTabs, EngineStep(t) \/ ReplaceIdentity(t)
    PROVE  tabs'[t].step \in Apart /\ \A u \in TrustTabs \ {t} : tabs'[u] = tabs[u]
  <1>1. tabs[t] \in Tab /\ TabFree(tabs[t]) \in Tab /\ TabFree(tabs[t]).step = "ready"
    BY TabShape, FreeTab DEF TrustInv
  <1>2. \A u \in TrustTabs \ {t} : tabs'[u] = tabs[u]
    BY DEF EngineStep, OpenTab, LoseTab, DiscardSession, UnnameSession, SendMessage, Sends, CommitMessage,
           PrepareVerifiedSessionRenewal, AcceptRenewal, PrepareVerifiedFileGuards, ReplaceIdentity,
           TrustInv, TabsFit
  <1>3. CASE OpenTab(t) \/ LoseTab(t)
    <2>1. CASE OpenTab(t)
      <3>1. tabs'[t].step = "ready"
        <4>1. ASSUME NEW s, NEW h, NEW i
              PROVE  [ClosedTab EXCEPT !.step = "ready", !.shown = i, !.session = s, !.health = h].step = "ready"
          BY DEF ClosedTab
        <4> DEFINE s == IF kept.named THEN kept.session ELSE NoOne
                   h == CASE kept.named /\ kept.session = NoOne -> "unhealthy"
                          [] kept.renewal -> "renewal"
                          [] OTHER -> "healthy"
        <4>2. tabs' = [tabs EXCEPT ![t] = [ClosedTab EXCEPT !.step = "ready", !.shown = pin.identity,
                                             !.session = s, !.health = h]]
          BY <2>1 DEF OpenTab
        <4> HIDE DEF s, h
        <4>3. tabs'[t] = [ClosedTab EXCEPT !.step = "ready", !.shown = pin.identity, !.session = s, !.health = h]
          BY <4>2 DEF TrustInv, TabsFit
        <4>. QED  BY <4>1, <4>3
      <3>. QED  BY <1>2, <3>1 DEF Apart
    <2>2. CASE LoseTab(t)
      <3>1. tabs'[t] = ClosedTab
        BY <2>2 DEF LoseTab, TrustInv, TabsFit
      <3>. QED  BY <1>2, <3>1 DEF ClosedTab, Apart
    <2>. QED  BY <1>3, <2>1, <2>2
  <1>4. CASE DiscardSession(t)
    <2>1. tabs'[t] = [tabs[t] EXCEPT !.step = "unname"]
      BY <1>4 DEF DiscardSession, TrustInv, TabsFit
    <2>. QED  BY <1>1, <1>2, <2>1 DEF Tab, Apart
  <1>5. CASE UnnameSession(t)
    <2>1. tabs'[t] = [TabFree(tabs[t]) EXCEPT !.session = NoOne, !.shown = pin.identity]
      BY <1>5 DEF UnnameSession, TrustInv, TabsFit
    <2>. QED  BY <1>1, <1>2, <2>1 DEF Tab, Apart
  <1>6. CASE SendMessage(t) \/ PrepareVerifiedFileGuards(t)
    <2>1. ASSUME NEW s \in {"send", "file"}, Sends(t, s) PROVE tabs'[t].step = s
      <3>1. tabs'[t] = [tabs[t] EXCEPT !.step = s, !.read = pin, !.at = reset]
        BY <2>1 DEF Sends, TrustInv, TabsFit
      <3>. QED  BY <1>1, <3>1 DEF Tab
    <2>. QED  BY <1>2, <1>6, <2>1 DEF SendMessage, PrepareVerifiedFileGuards, Apart
  <1>7. CASE CommitMessage(t)
    <2>1. \/ tabs'[t] = TabFree(tabs[t])
          \/ tabs'[t] = [TabFree(tabs[t]) EXCEPT !.session = SessionFor(t)]
      BY <1>7 DEF CommitMessage, TrustInv, TabsFit
    <2>. QED  BY <1>1, <1>2, <2>1 DEF Tab, Apart
  <1>8. CASE PrepareVerifiedSessionRenewal(t) \/ AcceptRenewal(t)
    <2>1. tabs[t].step = "ready" /\ (\/ tabs'[t] = [tabs[t] EXCEPT !.health = "renewal"]
                                    \/ tabs'[t] = [tabs[t] EXCEPT !.health = "healthy"])
      BY <1>8 DEF PrepareVerifiedSessionRenewal, AcceptRenewal, TabReady, TrustInv, TabsFit
    <2>. QED  BY <1>1, <1>2, <2>1 DEF Tab, Apart
  <1>9. CASE ReplaceIdentity(t)
    <2>1. tabs'[t] = [tabs[t] EXCEPT !.step = "replace", !.at = recovery.scope]
      BY <1>9 DEF ReplaceIdentity, TrustInv, TabsFit
    <2>. QED  BY <1>1, <1>2, <2>1 DEF Tab, Apart
  <1>. QED  BY <1>3, <1>4, <1>5, <1>6, <1>7, <1>8, <1>9 DEF EngineStep

\* The steps that are apart.
LEMMA ApartSteps ==
    ASSUME TrustInv, RecoveriesFit, NEW t \in TrustTabs,
           \/ Observe(t) \/ GetContact(t) \/ MarkUnverified(t) \/ AcceptPendingChange(t)
           \/ EngineStep(t) \/ ReplaceIdentity(t)
    PROVE  RecoveriesFit'
  <1>1. UNCHANGED <<pin, clock>> /\ (recent' = recent \/ recent' = [recent EXCEPT ![t] = {}])
    BY DEF EngineStep, Observe, GetContact, MarkUnverified, AcceptPendingChange, OpenTab, LoseTab,
           DiscardSession, UnnameSession, SendMessage, CommitMessage, PrepareVerifiedSessionRenewal,
           AcceptRenewal, PrepareVerifiedFileGuards, ReplaceIdentity
  <1>2. recent' \in [TrustTabs -> SUBSET Someone] /\ \A u \in TrustTabs \ {t} : recent'[u] = recent[u]
    BY <1>1 DEF RecoveriesFit
  <1>. QED  BY <1>1, <1>2, WritesApart, EngineApart, ApartLeaves

\* A comparison begins: whatever recovery has taken its time leaves it.
LEMMA MarkVerifiedLeaves ==
    ASSUME TrustInv, RecoveriesFit, NEW t \in TrustTabs, MarkVerified(t)
    PROVE  RecoveriesFit'
  <1>1. pin \in Pin /\ tabs[t].shown \in Someone
    BY TabShape DEF TrustInv, RecordsFit
  <1>2. /\ \A u \in TrustTabs \ {t} : tabs'[u] = tabs[u]
        /\ tabs'[t].step = "stamp" /\ tabs'[t].shown = tabs[t].shown
    BY <1>1, BeginsKeeps DEF MarkVerified
  <1>3. /\ UNCHANGED <<pin, clock>>
        /\ recent' = [u \in TrustTabs |-> IF On(u, "complete") THEN recent[u] \cup {tabs[t].shown}
                                                              ELSE recent[u]]
    BY DEF MarkVerified
  <1>4. recent' \in [TrustTabs -> SUBSET Someone]
    BY <1>1, <1>3 DEF RecoveriesFit
  <1>5. ASSUME NEW u \in TrustTabs, tabs'[u].step = "complete" PROVE Leaves(u)'
    <2>1. u # t /\ tabs'[u] = tabs[u] /\ Leaves(u) /\ recent'[u] = recent[u] \cup {tabs[t].shown}
      BY <1>2, <1>3, <1>5 DEF RecoveriesFit, On
    <2>2. ASSUME NEW v \in TrustTabs
          PROVE  /\ tabs'[v].step = "stamp" => tabs'[v].shown \in recent'[u]
                 /\ tabs'[v].step = "verify" /\ tabs'[v].next.verifiedAt > tabs'[u].time
                       => tabs'[v].shown \in recent'[u]
      BY <1>2, <2>1 DEF Leaves, On
    <2>. QED  BY <1>3, <2>1, <2>2 DEF Leaves, On
  <1>. QED  BY <1>4, <1>5 DEF RecoveriesFit, On

\* A comparison is stamped: it was in what the recoveries leave.
LEMMA StampVerifiedLeaves ==
    ASSUME TrustInv, RecoveriesFit, NEW t \in TrustTabs, StampVerified(t)
    PROVE  RecoveriesFit'
  <1>1. tabs[t] \in Tab /\ tabs[t].step = "stamp" /\ UNCHANGED <<pin, clock, recent>>
    BY TabShape DEF TrustInv, StampVerified, On
  <1>2. /\ \A u \in TrustTabs \ {t} : tabs'[u] = tabs[u]
        /\ tabs'[t].step = "verify" /\ tabs'[t].shown = tabs[t].shown
    <2>1. tabs'[t] = [tabs[t] EXCEPT !.step = "verify", !.next = [tabs[t].next EXCEPT !.verifiedAt = clock]]
      BY DEF StampVerified, TrustInv, TabsFit
    <2>. QED  BY <1>1, <2>1 DEF StampVerified, TrustInv, TabsFit, Tab
  <1>3. ASSUME NEW u \in TrustTabs, tabs'[u].step = "complete" PROVE Leaves(u)'
    <2>1. u # t /\ tabs'[u] = tabs[u] /\ Leaves(u) /\ recent'[u] = recent[u]
      BY <1>1, <1>2, <1>3 DEF RecoveriesFit, On
    <2>2. tabs[t].shown \in recent[u]
      BY <1>1, <2>1 DEF Leaves, On
    <2>3. ASSUME NEW v \in TrustTabs
          PROVE  /\ tabs'[v].step = "stamp" => tabs'[v].shown \in recent'[u]
                 /\ tabs'[v].step = "verify" /\ tabs'[v].next.verifiedAt > tabs'[u].time
                       => tabs'[v].shown \in recent'[u]
      BY <1>2, <2>1, <2>2 DEF Leaves, On
    <2>. QED  BY <1>1, <2>1, <2>3 DEF Leaves, On
  <1>. QED  BY <1>1, <1>3 DEF RecoveriesFit, On

\* A comparison is written: what the recoveries leave says the same of the pin
\* as it said of the tab.
LEMMA WriteVerifiedLeaves ==
    ASSUME TrustInv, RecoveriesFit, NEW t \in TrustTabs, WriteVerified(t)
    PROVE  RecoveriesFit'
  <1>1. /\ \A u \in TrustTabs \ {t} : tabs'[u] = tabs[u]
        /\ tabs[t].step = "verify" /\ UNCHANGED <<clock, recent>>
    BY TabFreed DEF WriteVerified, On
  <1>0. tabs'[t].step = "ready"
    BY TabShape, FreeTab DEF WriteVerified, TrustInv, TabsFit
  <1>2. pin' = pin \/ (pin' = tabs[t].next /\ pin'.identity = tabs[t].shown)
    <2>1. TabFits(tabs[t])
      BY TabShape DEF TrustInv
    <2>2. tabs[t].next.identity = tabs[t].shown
      BY <1>1, <2>1 DEF TabFits
    <2>3. pin' = tabs[t].next \/ pin' = pin
      BY DEF WriteVerified
    <2>. QED  BY <2>2, <2>3
  <1>3. ASSUME NEW u \in TrustTabs, tabs'[u].step = "complete" PROVE Leaves(u)'
    <2>1. u # t /\ tabs'[u] = tabs[u] /\ Leaves(u) /\ recent'[u] = recent[u]
      BY <1>0, <1>1, <1>3 DEF RecoveriesFit, On
    <2>2. pin'.verifiedAt > tabs'[u].time => pin'.identity \in recent'[u]
      BY <1>1, <1>2, <2>1 DEF Leaves, On
    <2>3. ASSUME NEW v \in TrustTabs
          PROVE  /\ tabs'[v].step = "stamp" => tabs'[v].shown \in recent'[u]
                 /\ tabs'[v].step = "verify" /\ tabs'[v].next.verifiedAt > tabs'[u].time
                       => tabs'[v].shown \in recent'[u]
      BY <1>0, <1>1, <2>1 DEF Leaves, On
    <2>. QED  BY <1>1, <2>1, <2>2, <2>3 DEF Leaves, On
  <1>. QED  BY <1>1, <1>3 DEF RecoveriesFit, On

\* A change of the record voids what is not being written.
LEMMA WriteRecordLeaves ==
    ASSUME TrustInv, RecoveriesFit, NEW t \in TrustTabs, WriteRecord(t)
    PROVE  RecoveriesFit'
  <1>1. tabs[t] \in Tab /\ TabFits(tabs[t]) /\ tabs[t].step = "write"
    BY TabShape DEF TrustInv, WriteRecord, On
  <1>2. TabFree(tabs[t]) \in Tab /\ TabFree(tabs[t]).step = "ready"
    BY <1>1, FreeTab
  <1>3. CASE pin # tabs[t].read
    <2>1. tabs' = [tabs EXCEPT ![t] = TabFree(tabs[t])] /\ UNCHANGED <<pin, clock, recent>>
      BY <1>3 DEF WriteRecord
    <2>2. tabs'[t].step \in Apart /\ \A u \in TrustTabs \ {t} : tabs'[u] = tabs[u]
      BY <1>2, <2>1 DEF Apart, TrustInv, TabsFit
    <2>. QED  BY <2>1, <2>2, ApartLeaves DEF RecoveriesFit
  <1>4. CASE pin = tabs[t].read
    <2>1. /\ pin'.verifiedAt = 0 /\ clock' = clock
          /\ recent' = [u \in TrustTabs |-> recent[u] \cap Confirming]
      BY <1>1, <1>4 DEF WriteRecord, TabFits
    <2>2. recent' \in [TrustTabs -> SUBSET Someone]
      BY <2>1 DEF RecoveriesFit
    <2>3. tabs'[t] = IF Accepting(t) THEN [TabFree(tabs[t]) EXCEPT !.step = "discard"] ELSE TabFree(tabs[t])
      BY <1>4 DEF WriteRecord, TrustInv, TabsFit
    <2>4. tabs'[t].step \in {"ready", "discard"} /\ \A u \in TrustTabs \ {t} : tabs'[u] = tabs[u]
      BY <1>2, <1>4, <2>3 DEF WriteRecord, TrustInv, TabsFit, Tab
    <2>5. ASSUME NEW u \in TrustTabs, tabs'[u].step = "complete" PROVE Leaves(u)'
      <3>1. u # t /\ tabs'[u] = tabs[u] /\ Leaves(u) /\ recent'[u] = recent[u] \cap Confirming
                /\ tabs[u].time \in 0 .. MaxClock
        BY <2>1, <2>4, <2>5, TabShape DEF RecoveriesFit, On, TrustInv, Tab, TrustTimes
      <3>2. ~(pin'.verifiedAt > tabs'[u].time)
        BY <2>1, <3>1, ClockBound
      <3>3. ASSUME NEW v \in TrustTabs
            PROVE  /\ tabs'[v].step = "stamp" => tabs'[v].shown \in recent'[u]
                   /\ tabs'[v].step = "verify" /\ tabs'[v].next.verifiedAt > tabs'[u].time
                         => tabs'[v].shown \in recent'[u]
        <4>1. tabs[v].step \in {"stamp", "verify"} => tabs[v].shown \in Confirming
          BY DEF Confirming, Unstamped, On
        <4>. QED  BY <2>4, <3>1, <4>1 DEF Leaves, On
      <3>. QED  BY <2>1, <3>1, <3>2, <3>3 DEF Leaves, On
    <2>. QED  BY <2>2, <2>5 DEF RecoveriesFit, On
  <1>. QED  BY <1>3, <1>4

\* A recovery takes its time: nothing has a later one, and what has none is
\* left.
LEMMA TakeResetTimeLeaves ==
    ASSUME TrustInv, RecoveriesFit, NEW t \in TrustTabs, TakeResetTime(t)
    PROVE  RecoveriesFit'
  <1>1. tabs[t] \in Tab /\ UNCHANGED <<pin, clock>> /\ pin.verifiedAt <= clock /\ pin.verifiedAt \in 0 .. MaxClock
            /\ clock \in 0 .. MaxClock
    BY TabShape DEF TrustInv, TakeResetTime, RecordsFit, Pin, TrustTimes
  <1>2. CASE ~recovery.pending
    <2>1. tabs' = [tabs EXCEPT ![t] = TabFree(tabs[t])] /\ recent' = recent
      BY <1>2 DEF TakeResetTime
    <2>2. tabs'[t].step \in Apart /\ \A u \in TrustTabs \ {t} : tabs'[u] = tabs[u]
      BY <1>1, <2>1, FreeTab DEF Apart, TrustInv, TabsFit
    <2>. QED  BY <1>1, <2>1, <2>2, ApartLeaves DEF RecoveriesFit
  <1>3. CASE recovery.pending
    <2>1. recent' = [recent EXCEPT ![t] = Unstamped]
          /\ tabs' = [tabs EXCEPT ![t] = [tabs[t] EXCEPT !.step = "complete", !.time = clock]]
      BY <1>3 DEF TakeResetTime, TrustInv, TabsFit
    <2>2. tabs'[t].step = "complete" /\ tabs'[t].time = clock /\ \A u \in TrustTabs \ {t} : tabs'[u] = tabs[u]
      BY <1>1, <2>1 DEF TrustInv, TabsFit, Tab
    <2>3. Unstamped \subseteq Someone
      BY TabShape DEF Unstamped, TrustInv
    <2>4. recent' \in [TrustTabs -> SUBSET Someone] /\ recent'[t] = Unstamped
          /\ \A u \in TrustTabs \ {t} : recent'[u] = recent[u]
      BY <2>1, <2>3 DEF RecoveriesFit
    <2>5. Leaves(t)'
      <3>1. ~(pin'.verifiedAt > tabs'[t].time) /\ tabs'[t].time <= clock'
        BY <1>1, <2>2
      <3>2. ASSUME NEW v \in TrustTabs
            PROVE  /\ tabs'[v].step = "stamp" => tabs'[v].shown \in recent'[t]
                   /\ tabs'[v].step = "verify" => ~(tabs'[v].next.verifiedAt > tabs'[t].time)
        <4>1. tabs'[v].step = "stamp" => tabs'[v].shown \in recent'[t]
          BY <2>2, <2>4 DEF Unstamped, On
        <4>2. tabs'[v].step = "verify" => tabs'[v] = tabs[v]
          BY <2>2
        <4>3. tabs[v].step = "verify" => tabs[v].next.verifiedAt <= clock
          BY TabShape DEF TrustInv, TabFits
        <4>4. tabs[v].next.verifiedAt \in 0 .. MaxClock
          BY TabShape DEF TrustInv, Pin
        <4>. QED  BY <1>1, <2>2, <4>1, <4>2, <4>3, <4>4
      <3>. QED  BY <3>1, <3>2 DEF Leaves, On
    <2>6. ASSUME NEW u \in TrustTabs \ {t}, tabs'[u].step = "complete" PROVE Leaves(u)'
      <3>1. tabs'[u] = tabs[u] /\ Leaves(u) /\ recent'[u] = recent[u]
        BY <2>2, <2>4, <2>6 DEF RecoveriesFit, On
      <3>2. ASSUME NEW v \in TrustTabs
            PROVE  /\ tabs'[v].step = "stamp" => tabs'[v].shown \in recent'[u]
                   /\ tabs'[v].step = "verify" /\ tabs'[v].next.verifiedAt > tabs'[u].time
                         => tabs'[v].shown \in recent'[u]
        BY <2>2, <3>1 DEF Leaves, On
      <3>. QED  BY <1>1, <3>1, <3>2 DEF Leaves, On
    <2>. QED  BY <2>4, <2>5, <2>6 DEF RecoveriesFit, On
  <1>. QED  BY <1>2, <1>3

\* A recovery ends.
LEMMA CompleteRecoveryLeaves ==
    ASSUME TrustInv, RecoveriesFit, NEW t \in TrustTabs, CompleteRecovery(t)
    PROVE  RecoveriesFit'
  <1>1. tabs' = [tabs EXCEPT ![t] = TabFree(tabs[t])] /\ UNCHANGED <<pin, clock>>
            /\ recent' = [recent EXCEPT ![t] = {}]
    BY DEF CompleteRecovery
  <1>2. tabs'[t].step \in Apart /\ \A u \in TrustTabs \ {t} : tabs'[u] = tabs[u]
    BY <1>1, TabShape, FreeTab DEF TrustInv, TabsFit, Apart
  <1>3. recent' \in [TrustTabs -> SUBSET Someone] /\ \A u \in TrustTabs \ {t} : recent'[u] = recent[u]
    BY <1>1 DEF RecoveriesFit
  <1>. QED  BY <1>1, <1>2, <1>3, ApartLeaves

\* The other steps: the tabs and the pin stay, and the clock does not go back.
LEMMA OthersLeave ==
    ASSUME TrustInv, RecoveriesFit, UNCHANGED <<pin, tabs, recent>>, clock' \in TrustTimes, clock <= clock'
    PROVE  RecoveriesFit'
  <1>1. ASSUME NEW u \in TrustTabs, tabs[u].step = "complete" PROVE Leaves(u)'
    <2>1. Leaves(u) /\ tabs[u].time \in 0 .. MaxClock /\ clock \in 0 .. MaxClock
      BY <1>1, TabShape DEF RecoveriesFit, On, TrustInv, RecordsFit, Tab, TrustTimes
    <2>2. tabs[u].time <= clock'
      BY <2>1 DEF Leaves, TrustTimes
    <2>. QED  BY <2>1, <2>2 DEF Leaves, On
  <1>. QED  BY <1>1 DEF RecoveriesFit, On

\* What the relay serves is an identity.
ServedFits == served \in Identities

\* Every step keeps the invariant.
LEMMA TrustStepHolds ==
    TrustInv /\ RecoveriesFit /\ ServedFits /\ [TrustNext]_trustVars => TrustInv' /\ RecoveriesFit' /\ ServedFits'
  <1> SUFFICES ASSUME TrustInv, RecoveriesFit, ServedFits, [TrustNext]_trustVars
               PROVE  TrustInv' /\ RecoveriesFit' /\ ServedFits'
    OBVIOUS
  <1>1. ServedFits'
    BY DEF ServedFits, TrustNext, trustVars, RegistryStep, EngineStep, RecoveryStep, Observe, GetContact,
           MarkVerified, StampVerified, WriteVerified, MarkUnverified, AcceptPendingChange, WriteRecord,
           OpenTab, LoseTab, DiscardSession, UnnameSession, SendMessage, CommitMessage,
           PrepareVerifiedSessionRenewal, AcceptRenewal, PrepareVerifiedFileGuards, StageRecovery,
           RejectRecovery, ReplaceIdentity, TakeResetTime, CompleteRecovery, ServeIdentity, TimePasses
  <1>2. CASE UNCHANGED trustVars
    <2>1. UNCHANGED <<pin, reset, kept, recovery, clock, compared, recent, torn, tabs>>
      BY <1>2 DEF trustVars
    <2>2. TabsFit'
      BY <2>1 DEF TrustInv, TabsFit, TabFits, Verified, ApplyRecoveryReset
    <2>3. RecordsFit'
      BY <2>1, RecordsKeep DEF TrustInv
    <2>4. RecoveriesFit'
      BY <2>1 DEF RecoveriesFit, Leaves, On
    <2>. QED  BY <1>1, <2>2, <2>3, <2>4 DEF TrustInv
  <1>3. ASSUME NEW t \in TrustTabs, RegistryStep(t) PROVE TrustInv' /\ RecoveriesFit'
    <2>1. TrustInv'
      BY <1>3, ObserveHolds, GetContactHolds, MarkVerifiedHolds, StampVerifiedHolds, WriteVerifiedHolds,
         MarkUnverifiedHolds, AcceptPendingChangeHolds, WriteRecordHolds DEF RegistryStep, ServedFits
    <2>2. RecoveriesFit'
      BY <1>3, ApartSteps, MarkVerifiedLeaves, StampVerifiedLeaves, WriteVerifiedLeaves, WriteRecordLeaves
         DEF RegistryStep
    <2>. QED  BY <2>1, <2>2
  <1>4. ASSUME NEW t \in TrustTabs, SendMessage(t) \/ PrepareVerifiedFileGuards(t) PROVE TrustInv'
    <2>1. CASE SendMessage(t)
      BY <2>1, SendsHolds DEF SendMessage
    <2>2. CASE PrepareVerifiedFileGuards(t)
      BY <2>2, SendsHolds DEF PrepareVerifiedFileGuards
    <2>. QED  BY <1>4, <2>1, <2>2
  <1>5. ASSUME NEW t \in TrustTabs, EngineStep(t) PROVE TrustInv' /\ RecoveriesFit'
    <2>1. TrustInv'
      BY <1>4, <1>5, OpenTabHolds, LoseTabHolds, DiscardSessionHolds, UnnameSessionHolds, CommitMessageHolds,
         RenewalHolds DEF EngineStep
    <2>2. RecoveriesFit'
      BY <1>5, ApartSteps DEF EngineStep
    <2>. QED  BY <2>1, <2>2
  <1>6. ASSUME NEW t \in TrustTabs, RecoveryStep(t) PROVE TrustInv' /\ RecoveriesFit'
    <2>1. TrustInv'
      BY <1>6, RecoveryBegins, ReplaceIdentityHolds, TakeResetTimeHolds, CompleteRecoveryHolds
         DEF RecoveryStep
    <2>2. RecoveriesFit'
      <3>1. CASE StageRecovery(t) \/ RejectRecovery(t)
        <4>1. UNCHANGED <<pin, tabs, recent, clock>> /\ clock \in TrustTimes /\ clock <= clock
          BY <3>1 DEF StageRecovery, RejectRecovery, TrustInv, RecordsFit, TrustTimes
        <4>. QED  BY <4>1, OthersLeave
      <3>2. CASE ReplaceIdentity(t) \/ TakeResetTime(t) \/ CompleteRecovery(t)
        BY <3>2, ApartSteps, TakeResetTimeLeaves, CompleteRecoveryLeaves
      <3>. QED  BY <1>6, <3>1, <3>2 DEF RecoveryStep
    <2>. QED  BY <2>1, <2>2
  <1>7. ASSUME ServeIdentity \/ TimePasses PROVE TrustInv' /\ RecoveriesFit'
    <2>1. UNCHANGED <<pin, tabs, recent>> /\ clock' \in TrustTimes /\ clock <= clock'
      BY <1>7, ClockBound DEF ServeIdentity, TimePasses, TrustInv, RecordsFit, TrustTimes
    <2>. QED  BY <1>7, <2>1, EnvironmentHolds, OthersLeave
  <1>. QED  BY <1>1, <1>2, <1>3, <1>5, <1>6, <1>7 DEF TrustNext

\* No tab is open.
LEMMA RecoveriesInit == TrustInit => RecoveriesFit
  <1> SUFFICES ASSUME TrustInit PROVE RecoveriesFit  OBVIOUS
  <1>1. recent \in [TrustTabs -> SUBSET Someone]
    BY DEF TrustInit
  <1>2. \A t \in TrustTabs : ~On(t, "complete")
    BY DEF TrustInit, On, ClosedTab
  <1>. QED  BY <1>1, <1>2 DEF RecoveriesFit

\* For any number of tabs and identities: a contact counts as verified only if
\* the person compared that very identity and the last recovery had not taken
\* its time before that comparison got its own, though the recovery writes
\* later, from another tab, over records the comparison is no part of; a message
\* leaves only for the identity that is pinned, and a file only for a verified
\* one, wherever another tab replaces the pin between the check and the
\* sending.
THEOREM TrustIsCorrect == TrustSpec => TrustCorrect
  <1>1. TrustInit => TrustInv /\ RecoveriesFit /\ ServedFits
    BY TrustInitHolds, RecoveriesInit DEF TrustInit, ServedFits
  <1>2. TrustInv /\ RecoveriesFit /\ ServedFits /\ [TrustNext]_trustVars
            => TrustInv' /\ RecoveriesFit' /\ ServedFits'
    BY TrustStepHolds
  <1>3. TrustInv => TrustTypeOK /\ VerifiedWasCompared
    BY TrustInvCorrect
  <1>4. TrustInv => [SentToPinned /\ FileToVerified]_trustVars
    BY Promises
  <1>. QED  BY <1>1, <1>2, <1>3, <1>4, PTL DEF TrustSpec, TrustCorrect

Chat == [from : Users, join : Nat, seq : Nat \ {0}]
Guard == [highest : Nat, seen : SUBSET Nat]
Party == [ready : BOOLEAN, seq : Nat, guard : Guard, joins : Nat]

Sent(u, k) == [from |-> u, join |-> party[u].joins, seq |-> k]

\* The window holds numbers near its highest.
GuardFits(g) == \A k \in g.seen : 1 <= k /\ k <= g.highest /\ g.highest - WindowSize < k

\* What was shown since the join is in the window or below it.
Accounted(g, q) ==
    \A i \in DOMAIN q : /\ q[i].seq <= g.highest
                        /\ q[i].seq \in g.seen \/ q[i].seq <= g.highest - WindowSize

ChatInv ==
    /\ party \in [Users -> Party]
    /\ post \cup delivered \subseteq Chat /\ IsFiniteSet(post \cup delivered)
    /\ Cardinality(post \cup delivered) <= MaxChats
    /\ ever \subseteq post \cup delivered
    /\ shown \in [Users -> Seq(Chat)]
    /\ \A u \in Users :
          /\ party[u].joins <= MaxJoins
          /\ GuardFits(party[u].guard)
          /\ party[u].ready => Accounted(party[u].guard, shown[u])
          /\ \A k \in 1 .. party[u].seq : Sent(u, k) \in post \cup delivered
    /\ ShownOnce

\* The numbers a guard remembers are near its highest and fit its window.
LEMMA WindowBound ==
    ASSUME NEW g \in Guard, GuardFits(g)
    PROVE  g.seen \subseteq 1 .. g.highest /\ Cardinality(g.seen) <= WindowSize
  <1> DEFINE I == (g.highest - WindowSize + 1) .. g.highest
  <1>1. g.highest \in Nat /\ g.seen \subseteq Nat /\ WindowSize \in Nat \ {0}
    BY ChatAssumption DEF Guard
  <1>2. g.seen \subseteq I /\ g.seen \subseteq 1 .. g.highest
    BY <1>1 DEF GuardFits
  <1>3. IsFiniteSet(I) /\ Cardinality(I) = WindowSize
    <2>1. g.highest - WindowSize + 1 \in Int /\ g.highest \in Int /\ ~(g.highest - WindowSize + 1 > g.highest)
          /\ g.highest - (g.highest - WindowSize + 1) + 1 = WindowSize
      BY <1>1
    <2>. QED  BY <2>1, FS_Interval
  <1>4. Cardinality(g.seen) <= Cardinality(I)
    <2> HIDE DEF I
    <2>. QED  BY <1>2, <1>3, FS_Subset
  <1>. QED  BY <1>2, <1>3, <1>4

\* A sender's number counts messages it has sent since it joined, so it cannot
\* pass their bound.
LEMMA NumbersAreMessages ==
    ASSUME ChatInv, NEW u \in Users
    PROVE  party[u].seq \in 0 .. MaxChats
  <1> DEFINE n == party[u].seq
             f == [k \in 1 .. n |-> Sent(u, k)]
             S == post \cup delivered
  <1>1. n \in Nat /\ MaxChats \in Nat
    BY ChatAssumption DEF ChatInv, Party
  <1>2. IsFiniteSet(1 .. n) /\ Cardinality(1 .. n) = n
    <2>1. 1 \in Int /\ n \in Int /\ (1 > n => n = 0) /\ n - 1 + 1 = n
      BY <1>1
    <2>. QED  BY <2>1, FS_Interval
  <1>3. f \in [1 .. n -> S]
    BY DEF ChatInv
  <1>4. f \in Injection(1 .. n, S)
    <2>1. \A j, k \in 1 .. n : f[j] = f[k] => j = k
      BY DEF Sent
    <2> HIDE DEF f, S, n
    <2>. QED  BY <1>3, <2>1 DEF Injection, IsInjective
  <1>5. IsFiniteSet(S) /\ Cardinality(S) \in Nat /\ Cardinality(S) <= MaxChats
    BY FS_CardinalityType DEF ChatInv
  <1>6. n <= Cardinality(S)
    <2> HIDE DEF f, S, n
    <2>. QED  BY <1>2, <1>4, <1>5, FS_Injection
  <1>. QED  BY <1>1, <1>5, <1>6

\* What the run checks follows from the invariant.
LEMMA ChatInvCorrect == ChatInv => ChatCorrect
  <1> SUFFICES ASSUME ChatInv PROVE ChatCorrect  OBVIOUS
  <1>1. \A u \in Users : party[u].joins \in 0 .. MaxJoins
    BY ChatAssumption DEF ChatInv, Party
  <1>2. \A u \in Users : party[u].guard.seen \subseteq 1 .. party[u].guard.highest
                         /\ Cardinality(party[u].guard.seen) <= WindowSize
    BY WindowBound DEF ChatInv, Party
  <1>3. \A u \in Users : party[u].seq \in 0 .. MaxChats
    BY NumbersAreMessages
  <1>. QED  BY <1>1, <1>2, <1>3 DEF ChatCorrect, ChatTypeOK, ChatInv

\* Nobody has joined.
LEMMA ChatInitHolds == ChatInit => ChatInv
  <1> SUFFICES ASSUME ChatInit PROVE ChatInv  OBVIOUS
  <1>1. Away \in Party /\ Away.joins = 0 /\ Away.seq = 0 /\ ~Away.ready /\ Away.guard = NoGuard
    BY DEF Away, Party, Guard, NoGuard
  <1>2. \A u \in Users : party[u] = Away /\ shown[u] = <<>>
    BY DEF ChatInit
  <1>3. post \cup delivered = {} /\ ever = {}
    BY DEF ChatInit
  <1>4. IsFiniteSet(post \cup delivered) /\ Cardinality(post \cup delivered) = 0
    BY <1>3, FS_EmptySet
  <1>5. GuardFits(NoGuard)
    BY DEF GuardFits, NoGuard
  <1>6. ShownOnce
    BY <1>2 DEF ShownOnce
  <1>. QED  BY <1>1, <1>2, <1>3, <1>4, <1>5, <1>6, ChatAssumption DEF ChatInit, ChatInv

\* A channel that was cleared starts anew.
LEMMA ClearedShape ==
    ASSUME NEW p \in Party
    PROVE  /\ ChannelCleared(p) \in Party /\ ~ChannelCleared(p).ready /\ ChannelCleared(p).seq = 0
           /\ ChannelCleared(p).guard = NoGuard /\ ChannelCleared(p).joins = p.joins
           /\ GuardFits(NoGuard) /\ NoGuard.highest = 0
  BY DEF ChannelCleared, Away, Party, Guard, NoGuard, GuardFits

\* setChannel joins anew, with an empty guard and an empty list of what was
\* shown.
LEMMA SetChannelHolds ==
    ASSUME ChatInv, NEW u \in Users, SetChannel(u)
    PROVE  ChatInv'
  <1> DEFINE p == party'[u]
  <1>1. party[u] \in Party /\ party[u].joins < MaxJoins /\ MaxJoins \in Nat
    BY ChatAssumption DEF ChatInv, SetChannel
  <1>2. p \in Party /\ p.seq = 0 /\ p.guard = NoGuard /\ p.joins = party[u].joins + 1
    <2> DEFINE c == ChannelCleared(party[u])
    <2>1. p = [InitializeSession(c) EXCEPT !.joins = @ + 1]
      <3>1. party' = [party EXCEPT ![u] = [InitializeSession(c) EXCEPT !.joins = @ + 1]]
        BY DEF SetChannel
      <3>. QED  BY <3>1 DEF ChatInv
    <2>2. c \in Party /\ c.seq = 0 /\ c.guard = NoGuard /\ c.joins = party[u].joins
      BY <1>1, ClearedShape
    <2> HIDE DEF c, p
    <2>3. InitializeSession(c) \in Party /\ InitializeSession(c).seq = 0
          /\ InitializeSession(c).guard = NoGuard /\ InitializeSession(c).joins = party[u].joins
      BY <2>2 DEF InitializeSession, Party
    <2>. QED  BY <1>1, <2>1, <2>3 DEF Party
  <1>3. shown' \in [Users -> Seq(Chat)] /\ shown'[u] = <<>> /\ DOMAIN shown'[u] = {}
    <2>1. shown' \in [Users -> Seq(Chat)] /\ shown'[u] = <<>>
      BY DEF SetChannel, ChatInv
    <2>. QED  BY <2>1
  <1>4. \A w \in Users \ {u} : party'[w] = party[w] /\ shown'[w] = shown[w]
    BY DEF SetChannel, ChatInv
  <1>5. UNCHANGED <<post, ever, delivered>>
    BY DEF SetChannel
  <1>6. party' \in [Users -> Party]
    BY <1>2 DEF SetChannel, ChatInv
  <1>7. ASSUME NEW w \in Users
        PROVE  /\ party'[w].joins <= MaxJoins /\ GuardFits(party'[w].guard)
               /\ party'[w].ready => Accounted(party'[w].guard, shown'[w])
               /\ \A k \in 1 .. party'[w].seq : Sent(w, k)' \in (post \cup delivered)'
    <2>1. CASE w = u
      <3>1. GuardFits(NoGuard) /\ Accounted(NoGuard, shown'[u])
        BY <1>1, <1>3, ClearedShape DEF Accounted
      <3>2. party'[u].joins <= MaxJoins
        BY <1>1, <1>2 DEF Party
      <3>3. 1 .. party'[u].seq = {}
        BY <1>2
      <3>. QED  BY <1>2, <2>1, <3>1, <3>2, <3>3
    <2>2. CASE w # u
      BY <1>4, <1>5, <2>2 DEF ChatInv, Sent
    <2>. QED  BY <2>1, <2>2
  <1>8. ShownOnce'
    <2>1. \A w \in Users : w = u \/ shown'[w] = shown[w]
      BY <1>4
    <2>. QED  BY <1>3, <2>1 DEF ShownOnce, ChatInv
  <1>. QED  BY <1>3, <1>5, <1>6, <1>7, <1>8 DEF ChatInv

\* dispose leaves the channel.
LEMMA DisposeChannelHolds ==
    ASSUME ChatInv, NEW u \in Users, DisposeChannel(u)
    PROVE  ChatInv'
  <1>1. party[u] \in Party
    BY DEF ChatInv
  <1>2. party'[u] = ChannelCleared(party[u]) /\ party' \in [Users -> Party]
    BY <1>1, ClearedShape DEF DisposeChannel, ChatInv
  <1>4. \A w \in Users \ {u} : party'[w] = party[w]
    BY DEF DisposeChannel, ChatInv
  <1>5. UNCHANGED <<post, shown, ever, delivered>>
    BY DEF DisposeChannel
  <1>7. ASSUME NEW w \in Users
        PROVE  /\ party'[w].joins <= MaxJoins /\ GuardFits(party'[w].guard)
               /\ party'[w].ready => Accounted(party'[w].guard, shown'[w])
               /\ \A k \in 1 .. party'[w].seq : Sent(w, k)' \in (post \cup delivered)'
    <2>1. CASE w = u
      <3>1. party[u].joins <= MaxJoins
        BY DEF ChatInv
      <3>. QED  BY <1>1, <1>2, <2>1, <3>1, ClearedShape
    <2>2. CASE w # u
      BY <1>4, <1>5, <2>2 DEF ChatInv, Sent
    <2>. QED  BY <2>1, <2>2
  <1>8. ShownOnce'
    BY <1>5 DEF ShownOnce, ChatInv
  <1>. QED  BY <1>2, <1>5, <1>7, <1>8 DEF ChatInv

\* A sender takes its next number.
LEMMA SendChatHolds ==
    ASSUME ChatInv, NEW u \in Users, SendChat(u)
    PROVE  ChatInv'
  <1> DEFINE n == party[u].seq + 1
             S == post \cup delivered
             m == Sent(u, n)
  <1>1. party[u] \in Party /\ n \in Nat \ {0}
    BY DEF ChatInv, Party
  <1>2. party'[u] = [party[u] EXCEPT !.seq = n]
    BY DEF SendChat, ChatInv
  <1>3. party'[u] \in Party /\ party'[u].ready = party[u].ready /\ party'[u].seq = n
        /\ party'[u].guard = party[u].guard /\ party'[u].joins = party[u].joins
    <2> HIDE DEF n
    <2>. QED  BY <1>1, <1>2 DEF Party
  <1>4. \A w \in Users \ {u} : party'[w] = party[w]
    BY DEF SendChat, ChatInv
  <1>5. post' = post \cup {m} /\ UNCHANGED <<shown, ever, delivered>>
    BY DEF SendChat, Sent
  <1>6. m \in Chat
    BY <1>1 DEF Sent, Chat, Party
  <1>7. party' \in [Users -> Party]
    BY <1>3 DEF SendChat, ChatInv
  <1>8. IsFiniteSet(S) /\ Cardinality(S) \in Nat /\ Cardinality(S) < MaxChats /\ MaxChats \in Nat
    BY FS_CardinalityType, ChatAssumption DEF SendChat, ChatInv
  <1>9. (post \cup delivered)' = S \cup {m}
    BY <1>5
  <1>10. IsFiniteSet(S \cup {m}) /\ Cardinality(S \cup {m}) <= MaxChats
    <2> HIDE DEF S, m
    <2>1. IsFiniteSet(S \cup {m}) /\ Cardinality(S \cup {m}) = IF m \in S THEN Cardinality(S) ELSE Cardinality(S) + 1
      BY <1>8, FS_AddElement
    <2>. QED  BY <1>8, <2>1
  <1>11. ASSUME NEW w \in Users
        PROVE  /\ party'[w].joins <= MaxJoins /\ GuardFits(party'[w].guard)
               /\ party'[w].ready => Accounted(party'[w].guard, shown'[w])
               /\ \A k \in 1 .. party'[w].seq : Sent(w, k)' \in (post \cup delivered)'
    <2>1. CASE w = u
      <3>1. ASSUME NEW k \in 1 .. party'[u].seq PROVE Sent(u, k)' \in (post \cup delivered)'
        <4>1. Sent(u, k)' = Sent(u, k) /\ k \in 1 .. n
          BY <1>3 DEF Sent
        <4>2. k = n \/ k \in 1 .. party[u].seq
          BY <1>1, <4>1 DEF Party
        <4>. QED  BY <1>9, <4>1, <4>2 DEF ChatInv
      <3>. QED  BY <1>3, <1>5, <2>1, <3>1 DEF ChatInv
    <2>2. CASE w # u
      BY <1>4, <1>5, <1>9, <2>2 DEF ChatInv, Sent
    <2>. QED  BY <2>1, <2>2
  <1>12. ShownOnce'
    BY <1>5 DEF ShownOnce, ChatInv
  <1>13. S \cup {m} \subseteq Chat /\ ever \subseteq S
    BY <1>6 DEF ChatInv
  <1>. QED  BY <1>5, <1>7, <1>9, <1>10, <1>11, <1>12, <1>13 DEF ChatInv

\* The replay guard takes a number it has not seen and that is not below its
\* window, and remembers it.
LEMMA GuardAccepts ==
    ASSUME NEW g \in Guard, NEW n \in Nat \ {0}, NEW q \in Seq(Chat), GuardFits(g), Accounted(g, q),
               Passes(g, n)
    PROVE  /\ Remembers(g, n) \in Guard /\ GuardFits(Remembers(g, n))
           /\ Accounted(Remembers(g, n), q)
           /\ n <= Remembers(g, n).highest
           /\ n \in Remembers(g, n).seen \/ n <= Remembers(g, n).highest - WindowSize
           /\ \A i \in DOMAIN q : q[i].seq # n
  <1> DEFINE h == Remembers(g, n)
  <1>1. g.highest \in Nat /\ g.seen \subseteq Nat /\ WindowSize \in Nat \ {0}
    BY ChatAssumption DEF Guard
  <1>2. h.highest = (IF n > g.highest THEN n ELSE g.highest)
        /\ h.seen = {k \in g.seen \cup {n} : k >= h.highest - WindowSize + 1}
    BY DEF Remembers
  <1>3. h \in Guard
    BY <1>1 DEF Remembers, Guard
  <1>4. h.highest \in Nat /\ n <= h.highest /\ g.highest <= h.highest
    BY <1>1, <1>2
  <1>5. GuardFits(h)
    <2> HIDE DEF h
    <2>. QED  BY <1>1, <1>2, <1>4 DEF GuardFits
  <1>6. \A i \in DOMAIN q : q[i].seq \in Nat \ {0}
    <2>1. \A i \in DOMAIN q : q[i] \in Chat
      OBVIOUS
    <2>. QED  BY <2>1 DEF Chat
  <1>7. Accounted(h, q)
    <2> HIDE DEF h
    <2> SUFFICES ASSUME NEW i \in DOMAIN q
                 PROVE  q[i].seq <= h.highest /\ (q[i].seq \in h.seen \/ q[i].seq <= h.highest - WindowSize)
      BY DEF Accounted
    <2>1. q[i].seq <= g.highest /\ (q[i].seq \in g.seen \/ q[i].seq <= g.highest - WindowSize)
              /\ q[i].seq \in Nat
      BY <1>6 DEF Accounted
    <2>. QED  BY <1>1, <1>2, <1>4, <2>1
  <1>8. n \in h.seen \/ n <= h.highest - WindowSize
    <2> HIDE DEF h
    <2>. QED  BY <1>1, <1>2, <1>4
  <1>9. \A i \in DOMAIN q : q[i].seq # n
    BY <1>1, <1>6 DEF Accounted, Passes
  <1>. QED  BY <1>3, <1>4, <1>5, <1>7, <1>8, <1>9

\* A message is shown if the guard takes it; another one of that number was in
\* the window or below it, so it is not shown again.
LEMMA InboundHolds ==
    ASSUME ChatInv, NEW u \in Users, NEW m \in post, NEW lost \in BOOLEAN, Inbound(u, m, lost)
    PROVE  ChatInv'
  <1> DEFINE g == party[u].guard
  <1>1. party[u] \in Party /\ party[u].ready /\ g \in Guard /\ GuardFits(g) /\ shown[u] \in Seq(Chat)
        /\ Accounted(g, shown[u]) /\ m \in Chat /\ m.seq \in Nat \ {0}
    BY DEF ChatInv, Inbound, ChannelReady, Party, Chat
  <1>2. (post \cup delivered)' = post \cup delivered
    BY DEF Inbound
  <1>3. ever' \subseteq post \cup delivered
    BY DEF Inbound, HandleRawChatMessage, ChatInv
  <1>4. CASE ~Passes(g, m.seq)
    <2>1. UNCHANGED <<party, shown>>
      BY <1>4 DEF Inbound, HandleRawChatMessage
    <2>. QED  BY <1>2, <1>3, <2>1 DEF ChatInv, ShownOnce, Sent
  <1>5. CASE Passes(g, m.seq)
    <2>1. party' = [party EXCEPT ![u].guard = Remembers(@, m.seq)]
              /\ shown' = [shown EXCEPT ![u] = Append(@, m)]
      BY <1>5 DEF Inbound, HandleRawChatMessage
    <2>2. /\ Remembers(g, m.seq) \in Guard /\ GuardFits(Remembers(g, m.seq))
          /\ Accounted(Remembers(g, m.seq), shown[u])
          /\ m.seq <= Remembers(g, m.seq).highest
          /\ m.seq \in Remembers(g, m.seq).seen \/ m.seq <= Remembers(g, m.seq).highest - WindowSize
          /\ \A i \in DOMAIN shown[u] : shown[u][i].seq # m.seq
      BY <1>1, <1>5, GuardAccepts
    <2> DEFINE h == Remembers(g, m.seq)
    <2> HIDE DEF h
    <2>3. party'[u] = [party[u] EXCEPT !.guard = h] /\ shown'[u] = Append(shown[u], m)
      BY <2>1 DEF ChatInv, h
    <2>4. h \in Guard /\ GuardFits(h) /\ Accounted(h, shown[u]) /\ m.seq <= h.highest
          /\ (m.seq \in h.seen \/ m.seq <= h.highest - WindowSize)
      BY <2>2 DEF h
    <2>5. party'[u] \in Party /\ party'[u].guard = h /\ party'[u].seq = party[u].seq
          /\ party'[u].joins = party[u].joins /\ party'[u].ready
      BY <1>1, <2>3, <2>4 DEF Party
    <2>6. \A w \in Users \ {u} : party'[w] = party[w] /\ shown'[w] = shown[w]
      BY <2>1 DEF ChatInv
    <2>7. party' \in [Users -> Party] /\ shown' \in [Users -> Seq(Chat)]
      BY <1>1, <2>1, <2>3, <2>5 DEF ChatInv
    <2>8. /\ DOMAIN shown'[u] = 1 .. Len(shown[u]) + 1 /\ DOMAIN shown[u] = 1 .. Len(shown[u])
                 /\ Len(shown[u]) \in Nat
          /\ shown'[u][Len(shown[u]) + 1] = m
          /\ \A i \in DOMAIN shown[u] : shown'[u][i] = shown[u][i]
      BY <1>1, <2>3
    <2>9. Accounted(h, shown'[u])
      BY <2>4, <2>8 DEF Accounted
    <2>10. ASSUME NEW w \in Users
          PROVE  /\ party'[w].joins <= MaxJoins /\ GuardFits(party'[w].guard)
                 /\ party'[w].ready => Accounted(party'[w].guard, shown'[w])
                 /\ \A k \in 1 .. party'[w].seq : Sent(w, k)' \in (post \cup delivered)'
      <3>1. CASE w = u
        <4>1. \A k \in 1 .. party'[u].seq : Sent(u, k)' \in (post \cup delivered)'
          BY <1>2, <2>5 DEF ChatInv, Sent
        <4>. QED  BY <2>4, <2>5, <2>9, <3>1, <4>1 DEF ChatInv
      <3>2. CASE w # u
        BY <1>2, <2>6, <3>2 DEF ChatInv, Sent
      <3>. QED  BY <3>1, <3>2
    <2>11. ShownOnce'
      <3> SUFFICES ASSUME NEW w \in Users, NEW i \in DOMAIN shown'[w], NEW j \in DOMAIN shown'[w],
                          shown'[w][i] = shown'[w][j]
                   PROVE  i = j
        BY DEF ShownOnce
      <3>1. CASE w = u
        <4>1. i \in DOMAIN shown[u] \/ i = Len(shown[u]) + 1
          BY <2>8, <3>1
        <4>2. j \in DOMAIN shown[u] \/ j = Len(shown[u]) + 1
          BY <2>8, <3>1
        <4>. QED  BY <2>2, <2>8, <3>1, <4>1, <4>2 DEF ChatInv, ShownOnce
      <3>2. CASE w # u
        BY <2>6, <3>2 DEF ChatInv, ShownOnce
      <3>. QED  BY <3>1, <3>2
    <2>. QED  BY <1>2, <1>3, <2>7, <2>10, <2>11 DEF ChatInv
  <1>. QED  BY <1>4, <1>5

\* Every step keeps the invariant.
LEMMA ChatStepHolds == ChatInv /\ [ChatNext]_chatVars => ChatInv'
  <1> SUFFICES ASSUME ChatInv, [ChatNext]_chatVars PROVE ChatInv'  OBVIOUS
  <1>1. CASE UNCHANGED chatVars
    BY <1>1 DEF chatVars, ChatInv, ShownOnce, Sent
  <1>2. ASSUME NEW u \in Users, SetChannel(u) \/ DisposeChannel(u) \/ SendChat(u) PROVE ChatInv'
    BY <1>2, SetChannelHolds, DisposeChannelHolds, SendChatHolds
  <1>3. ASSUME NEW u \in Users, NEW m \in post, NEW lost \in BOOLEAN, Inbound(u, m, lost) PROVE ChatInv'
    BY <1>3, InboundHolds
  <1>. QED  BY <1>1, <1>2, <1>3 DEF ChatNext

\* For any number of users, joins and messages, repeated or late as they may
\* be: the SDK shows a message at most once for each join, with a guard whose
\* memory stays within its window.
THEOREM ChatIsCorrect == ChatSpec => []ChatCorrect
  <1>1. ChatInit => ChatInv
    BY ChatInitHolds
  <1>2. ChatInv /\ [ChatNext]_chatVars => ChatInv'
    BY ChatStepHolds
  <1>3. ChatInv => ChatCorrect
    BY ChatInvCorrect
  <1>. QED  BY <1>1, <1>2, <1>3, PTL DEF ChatSpec

Connections == {"saved", "connecting", "connected", "disconnected", "failed"}
Actor == [id : Nat \ {0}, room : ProductRooms, mux : BOOLEAN]
Person == Actor \cup {Nobody}
Place == [actor : Person, connection : Connections]
Page == [gen : 1 .. MaxAsks + 1, selected : Person, hash : ProductRooms \cup {"none"}, conn : Person,
         pending : [room : ProductRooms \cup {"none"}, number : Nat], locked : BOOLEAN, left : SUBSET Person,
         asked : [room : ProductRooms \cup {"none"}, ok : BOOLEAN]]
Book == [view : [ProductRooms -> Place], indexed : SUBSET ProductRooms, eligible : SUBSET ProductRooms,
         mux : SUBSET ProductRooms, details : SUBSET ProductRooms]
Openings == [room : ProductRooms, number : Nat, kind : {"open", "restore", "join"}]
Resolution == [room : ProductRooms \cup {"none"}, number : Nat, kind : {"none", "open", "restore", "join"}, back : BOOLEAN,
               step : {"none", "start", "same", "superseded", "reuse", "candidate", "connect", "previous", "finish"},
               actor : Person, previous : Person, tried : SUBSET ProductRooms]
Observer == [room : ProductRooms, number : Nat, known : SUBSET Actor]

SelShapes ==
    /\ page \in Page /\ book \in Book /\ turn \in Resolution
    /\ actors \subseteq Actor /\ IsFiniteSet(actors)
    /\ waiting \subseteq Openings /\ line \in Seq(Openings)
    /\ restoring \in [number : {1}, todo : SUBSET ProductRooms]
    /\ observers \subseteq Observer /\ deletion \in {"none", "closed", "over"}
    /\ deletion # "none" => page.locked

\* The numbers of openings.
Numbered(kind, n) ==
    /\ n <= page.gen
    /\ kind = "join" => n = 0
    /\ kind = "restore" => n = 1
    /\ kind = "open" => n >= 2

Queued(o) == \E i \in DOMAIN line : line[i] = o

NumbersFit ==
    /\ \A o \in waiting : Numbered(o.kind, o.number) /\ o.kind # "join"
    /\ \A i \in DOMAIN line : Numbered(line[i].kind, line[i].number)
    /\ turn.step # "none" => Numbered(turn.kind, turn.number) /\ turn.kind # "none"
           /\ turn.room \in ProductRooms
    /\ turn.step = "none" => turn = NoTurn
    /\ \A o, p \in waiting : o.number = p.number /\ o.number >= 2 => o = p
    /\ \A o \in waiting : o.number >= 2 => turn.number # o.number
           /\ \A i \in DOMAIN line : line[i].number # o.number
    /\ \A i, j \in DOMAIN line : line[i].number = line[j].number /\ line[i].number >= 2 => i = j
    /\ \A i \in DOMAIN line : line[i].number >= 2 => turn.number # line[i].number
    /\ \A i, j \in DOMAIN line : line[i].kind = "join" /\ line[j].kind = "join" => i = j
    /\ turn.kind = "join" => \A i \in DOMAIN line : line[i].kind # "join"

\* A subscribed engine that its room's row names.
Subscribed(a) == a.mux /\ a.room \in book.mux /\ book.view[a.room].actor = a

Early == {"none", "start", "same", "superseded", "reuse", "candidate"}

\* The opening that is being resolved.
TurnFits ==
    /\ turn.step \in Early => turn.actor = Nobody /\ turn.previous = Nobody
    /\ turn.step \in {"connect", "finish"} => turn.previous = Nobody
    /\ turn.step \in {"start", "same", "superseded", "reuse"} => ~turn.back
    /\ turn.step = "same" => page.selected # Nobody /\ page.selected.room = turn.room /\ ~page.selected.mux
           /\ turn.kind # "join"
    /\ turn.step = "reuse" => turn.room \in book.mux
    /\ turn.step = "candidate" => turn.room \notin book.mux
    /\ turn.step = "connect" =>
          /\ turn.actor \in Actor /\ turn.actor.room = turn.room
          /\ turn.actor # page.selected
          /\ book.view[turn.room].actor = turn.actor
          /\ turn.actor.mux <=> turn.room \in book.mux
          /\ turn.back /\ ~turn.actor.mux => turn.actor \in page.left
    /\ turn.step \in {"previous", "finish"} /\ ~turn.back =>
          /\ page.selected # Nobody /\ page.selected.room = turn.room
          /\ page.selected.mux <=> turn.room \in book.mux
          /\ page.selected.mux => Subscribed(page.selected)
    /\ turn.step = "previous" => book.view[turn.room].actor = turn.actor /\ turn.actor # Nobody
          /\ (turn.back => turn.previous = Nobody) /\ (~turn.back => turn.actor = page.selected)
    /\ turn.step \in {"previous", "finish"} /\ turn.actor \in actors \ page.left =>
          turn.actor = page.selected \/ Subscribed(turn.actor)
    /\ turn.back => page.selected.mux /\ turn.kind # "join"
    /\ turn.kind = "join" /\ turn.step = "connect" => ~turn.actor.mux
    /\ turn.kind = "join" /\ turn.step \in {"previous", "finish"} => turn.room \notin book.mux
    /\ turn.previous \in actors \ page.left /\ turn.previous.mux => Subscribed(turn.previous)

\* The page, the rows of its rooms and the engines.
PageFits ==
    /\ page.selected # Nobody => page.hash = page.selected.room
    /\ \A r \in ProductRooms : book.view[r].actor # Nobody => book.view[r].actor.room = r
    /\ \A r \in book.mux : book.view[r].actor # Nobody => book.view[r].actor.mux
    /\ book.details \subseteq book.mux
    /\ page.selected # Nobody /\ ~page.selected.mux /\ page.selected.room \in book.mux =>
          turn.step = "connect" /\ turn.room = page.selected.room /\ turn.actor.mux
    /\ page.conn # Nobody /\ page.conn = page.selected /\ page.conn.mux => Subscribed(page.conn)
    /\ page.selected \in actors \ page.left /\ page.selected.mux => Subscribed(page.selected)
    /\ page.selected # Nobody /\ ~page.selected.mux /\ turn.step \notin {"previous", "finish"}
           => page.conn = page.selected
    /\ NoStrayActor

\* The opening asked for last is under way, or the page shows its room.
Pursued ==
    page.asked.ok =>
        \/ page.selected # Nobody /\ page.selected.room = page.asked.room
        \/ \E o \in waiting : o.number = page.gen /\ o.room = page.asked.room
        \/ \E i \in DOMAIN line : line[i].number = page.gen /\ line[i].room = page.asked.room
        \/ /\ turn.number = page.gen /\ turn.room = page.asked.room /\ ~turn.back
           /\ turn.step \in (Early \ {"none"}) \cup {"connect"}

\* The probe of the latest opening, which has failed.
ProbeFits(o) ==
    /\ o.number <= page.gen /\ o.number >= 2
    /\ o.number = page.gen =>
        /\ \A p \in waiting : p.number # page.gen
        /\ \A i \in DOMAIN line : line[i].number # page.gen
        /\ turn.number # page.gen /\ ~turn.back
        /\ turn.step \in {"previous", "finish"} => turn.kind = "join"
        /\ turn.step # "same"
        /\ o.room \in book.details => \A a \in actors : a.room = o.room => a \in o.known
        /\ page.selected \in actors \ o.known /\ page.selected.room = o.room =>
              /\ ~page.selected.mux
              /\ book.view[o.room].connection = "connected"
              /\ \A i \in DOMAIN line : line[i].kind = "join" => line[i].room # o.room
              /\ turn.room = o.room => turn.step \in {"none", "start", "superseded", "previous", "finish"}
                                       /\ (turn.kind = "join" => turn.step \in {"previous", "finish"})

SelInv ==
    /\ SelShapes /\ NumbersFit /\ TurnFits /\ PageFits /\ Pursued
    /\ \A o \in observers : ProbeFits(o)

\* The records of an engine and of an opening, as they start.
LEMMA PageShapes ==
    /\ Nobody \notin Actor /\ Nobody \in Person /\ Nobody.id = 0 /\ Nobody.room = "none" /\ Nobody.mux = FALSE
    /\ Actor \subseteq Person /\ \A a \in Actor : a.id # 0 /\ a.room \in ProductRooms
    /\ NoTurn \in Resolution /\ Nothing \in [room : ProductRooms \cup {"none"}, number : Nat]
  <1>1. Nobody.id = 0 /\ Nobody.room = "none" /\ Nobody.mux = FALSE  BY DEF Nobody
  <1>2. Nobody \notin Actor /\ \A a \in Actor : a.id # 0 /\ a.room \in ProductRooms  BY <1>1 DEF Actor
  <1>3. Nobody \in Person /\ Actor \subseteq Person  BY DEF Person
  <1>4. NoTurn \in Resolution
    <2>1. "none" \in ProductRooms \cup {"none"} /\ {} \in SUBSET ProductRooms /\ 0 \in Nat  OBVIOUS
    <2>. QED  BY <1>3, <2>1 DEF NoTurn, Resolution
  <1>. QED  BY <1>1, <1>2, <1>3, <1>4 DEF Nothing

\* An engine gets a number that no other one has: there are more numbers than
\* engines, rooms and places that name one.
LEMMA FreshId ==
    ASSUME SelShapes, turn.previous = Nobody
    PROVE  /\ NewId \in Nat \ {0} /\ \A a \in actors : a.id # NewId
           /\ page.selected.id # NewId /\ page.conn.id # NewId
                  /\ \A r \in ProductRooms : book.view[r].actor.id # NewId
  <1> DEFINE V == {book.view[r].actor : r \in ProductRooms}
             P == {page.selected, page.conn, turn.previous}
             S == actors \cup P \cup V
             T == {a.id : a \in S}
             N == Cardinality(actors) + Cardinality(ProductRooms) + 3
  <1>1. IsFiniteSet(P) /\ Cardinality(P) <= 3 /\ Cardinality(P) \in Nat
    <2>1. IsFiniteSet({}) /\ Cardinality({}) = 0  BY FS_EmptySet
    <2>2. IsFiniteSet({page.selected}) /\ Cardinality({page.selected}) = 1  BY FS_Singleton
    <2>3. PICK Q : Q = {page.selected}  OBVIOUS
    <2>4. PICK R : R = Q \cup {page.conn}  OBVIOUS
    <2>6. IsFiniteSet(R) /\ Cardinality(R) = IF page.conn \in Q THEN Cardinality(Q) ELSE Cardinality(Q) + 1
      BY <2>2, <2>3, <2>4, FS_AddElement
    <2>7. /\ IsFiniteSet(R \cup {turn.previous})
          /\ Cardinality(R \cup {turn.previous}) = IF turn.previous \in R THEN Cardinality(R) ELSE Cardinality(R) + 1
      BY <2>6, FS_AddElement
    <2>5. P = R \cup {turn.previous}  BY <2>3, <2>4
    <2>8. Cardinality(Q) = 1  BY <2>2, <2>3
    <2>. HIDE DEF P
    <2>. QED  BY <2>5, <2>6, <2>7, <2>8
  <1>2. IsFiniteSet(V) /\ Cardinality(V) <= Cardinality(ProductRooms)
    <2>1. [r \in ProductRooms |-> book.view[r].actor] \in Surjection(ProductRooms, V)  BY Fun_IsSurj
    <2>. QED  BY <2>1, FS_Surjection, SelectionAssumption
  <1>3. IsFiniteSet(S) /\ Cardinality(S) <= N /\ N \in Nat /\ Cardinality(S) \in Nat
    <2>1. IsFiniteSet(actors) /\ IsFiniteSet(ProductRooms)  BY SelectionAssumption DEF SelShapes
    <2>2. /\ Cardinality(actors) \in Nat /\ Cardinality(ProductRooms) \in Nat /\ Cardinality(V) \in Nat
      BY <1>2, <2>1, FS_CardinalityType
    <2>3. IsFiniteSet(actors \cup P) /\ Cardinality(actors \cup P) <= Cardinality(actors) + 3
              /\ Cardinality(actors \cup P) \in Nat
      <3>1. Cardinality(actors \cup P) = Cardinality(actors) + Cardinality(P) - Cardinality(actors \cap P)
                /\ IsFiniteSet(actors \cup P)
        BY <1>1, <2>1, FS_Union
      <3>2. Cardinality(actors \cap P) \in Nat /\ Cardinality(actors \cup P) \in Nat
        BY <2>1, <3>1, FS_CardinalityType, FS_Intersection
      <3>. QED  BY <1>1, <2>2, <3>1, <3>2
    <2>4. IsFiniteSet((actors \cup P) \cup V)
              /\ Cardinality((actors \cup P) \cup V) <= Cardinality(actors \cup P) + Cardinality(V)
      <3>1. /\ Cardinality((actors \cup P) \cup V) = Cardinality(actors \cup P) + Cardinality(V) - Cardinality((actors \cup P) \cap V)
            /\ IsFiniteSet((actors \cup P) \cup V)
        BY <1>2, <2>3, FS_Union
      <3>2. Cardinality((actors \cup P) \cap V) \in Nat /\ Cardinality((actors \cup P) \cup V) \in Nat
        BY <2>3, <3>1, FS_CardinalityType, FS_Intersection
      <3>. QED  BY <2>2, <2>3, <3>1, <3>2
    <2>. QED  BY <1>2, <2>2, <2>3, <2>4, FS_CardinalityType
  <1>4. \E n \in 1 .. N : \A a \in S : a.id # n
    <2>1. SUFFICES ASSUME \A n \in 1 .. N : \E a \in S : a.id = n  PROVE FALSE  OBVIOUS
    <2>2. 0 .. N \subseteq T
      <3>1. Nobody \in S /\ Nobody.id = 0  BY PageShapes
      <3>. QED  BY <1>3, <2>1, <3>1
    <2>3. IsFiniteSet(T) /\ Cardinality(T) <= Cardinality(S)
      <3>1. [a \in S |-> a.id] \in Surjection(S, T)  BY Fun_IsSurj
      <3>. QED  BY <1>3, <3>1, FS_Surjection
    <2>4. Cardinality(0 .. N) = N + 1  BY <1>3, FS_Interval
    <2>5. Cardinality(0 .. N) <= Cardinality(T) /\ Cardinality(T) \in Nat
      BY <2>2, <2>3, FS_Subset, FS_CardinalityType
    <2>. QED  BY <1>3, <2>3, <2>4, <2>5
  <1>5. NewId \in 1 .. N /\ \A a \in S : a.id # NewId
    BY <1>4 DEF NewId
  <1>6. \A n \in 1 .. N : n \in Nat \ {0}  BY <1>3
  <1>7. page.selected \in S /\ page.conn \in S /\ actors \subseteq S
            /\ \A r \in ProductRooms : book.view[r].actor \in S  OBVIOUS
  <1>. HIDE DEF S, N
  <1>. QED  BY <1>5, <1>6, <1>7

SelStays == SelInv' /\ OldStaysUsable /\ ObserverSparesAdmitted

\* The rest of the page stays when openings only wait.
LEMMA AskingKeeps ==
    ASSUME SelInv, page' \in Page, page'.selected = page.selected, page'.hash = page.hash, page'.conn = page.conn,
           page'.locked = page.locked, page'.left = page.left,
           UNCHANGED <<book, actors, turn>>
    PROVE  TurnFits' /\ PageFits'
  <1>1. TurnFits'  BY DEF SelInv, TurnFits, Subscribed, SelShapes
  <1>2. NoStrayActor'  BY DEF SelInv, PageFits, NoStrayActor
  <1>3. PageFits'  BY <1>2 DEF SelInv, PageFits, Subscribed, SelShapes
  <1>. QED  BY <1>1, <1>3

\* The types that the steps need.
LEMMA PageTyped ==
    ASSUME SelInv
    PROVE  /\ page \in Page /\ page.gen \in 1 .. MaxAsks + 1 /\ MaxAsks \in Nat /\ page.gen \in Nat
                  /\ page.gen >= 1
           /\ page.selected \in Person /\ page.conn \in Person /\ page.left \subseteq Person
           /\ book \in Book /\ book.view \in [ProductRooms -> Place] /\ book.mux \subseteq ProductRooms
           /\ \A r \in ProductRooms : book.view[r].actor \in Person /\ book.view[r].connection \in Connections
           /\ turn \in Resolution /\ turn.number \in Nat /\ turn.actor \in Person /\ turn.previous \in Person
           /\ actors \subseteq Actor /\ IsFiniteSet(actors)
           /\ \A i \in DOMAIN line : line[i] \in Openings /\ line[i].number \in Nat
                  /\ line[i].room \in ProductRooms
           /\ \A o \in waiting : o \in Openings /\ o.number \in Nat /\ o.room \in ProductRooms
           /\ \A o \in observers : o \in Observer /\ o.number \in Nat /\ o.room \in ProductRooms
  <1>1. /\ page \in Page /\ page.gen \in 1 .. MaxAsks + 1 /\ MaxAsks \in Nat /\ page.gen \in Nat
               /\ page.gen >= 1
        /\ page.selected \in Person /\ page.conn \in Person /\ page.left \subseteq Person
    BY SelectionAssumption DEF SelInv, SelShapes, Page
  <1>2. /\ book \in Book /\ book.view \in [ProductRooms -> Place] /\ book.mux \subseteq ProductRooms
        /\ \A r \in ProductRooms : book.view[r].actor \in Person /\ book.view[r].connection \in Connections
    BY DEF SelInv, SelShapes, Book, Place
  <1>3. /\ turn \in Resolution /\ turn.number \in Nat /\ turn.actor \in Person /\ turn.previous \in Person
        /\ actors \subseteq Actor /\ IsFiniteSet(actors)
    BY DEF SelInv, SelShapes, Resolution
  <1>4. \A i \in DOMAIN line : line[i] \in Openings /\ line[i].number \in Nat /\ line[i].room \in ProductRooms
    <2>1. line \in Seq(Openings)  BY DEF SelInv, SelShapes
    <2>2. \A i \in DOMAIN line : line[i] \in Openings  BY <2>1
    <2>. QED  BY <2>2 DEF Openings
  <1>5. /\ \A o \in waiting : o \in Openings /\ o.number \in Nat /\ o.room \in ProductRooms
        /\ \A o \in observers : o \in Observer /\ o.number \in Nat /\ o.room \in ProductRooms
    BY DEF SelInv, SelShapes, Openings, Observer
  <1>. QED  BY <1>1, <1>2, <1>3, <1>4, <1>5

\* openConversation: a number of its own, and the room that was asked for is on
\* the page or waits.
LEMMA OpenConversationHolds ==
    ASSUME SelInv, NEW r \in ProductRooms, OpenConversation(r)
    PROVE  SelStays
  <1>1. PICK n : n = page.gen + 1  OBVIOUS
  <1>2. PICK visible \in BOOLEAN : visible <=> (page.hash = r /\ page.selected # Nobody)  OBVIOUS
  <1>3. PICK o : o = Opening(r, n, "open")  OBVIOUS
  <1>4. PICK q : q = IF visible THEN Nothing ELSE [room |-> r, number |-> n]  OBVIOUS
  <1>5. /\ n <= MaxAsks + 1 /\ page' = [page EXCEPT !.gen = n, !.asked = [room |-> r, ok |-> TRUE], !.pending = q]
        /\ waiting' = (IF visible THEN waiting ELSE waiting \cup {o})
        /\ UNCHANGED <<book, actors, line, turn, restoring, observers, deletion, pageFaults>>
    BY <1>1, <1>2, <1>3, <1>4 DEF OpenConversation
  <1>6. page \in Page /\ page.gen \in 1 .. MaxAsks + 1 /\ MaxAsks \in Nat /\ page.gen \in Nat
    BY SelectionAssumption DEF SelInv, SelShapes, Page
  <1>7. n \in Nat /\ n >= 2 /\ n \in 1 .. MaxAsks + 1  BY <1>1, <1>5, <1>6
  <1>8. q \in [room : ProductRooms \cup {"none"}, number : Nat]  BY <1>4, <1>7, PageShapes
  <1>9. /\ page' \in Page /\ page'.selected = page.selected /\ page'.hash = page.hash
               /\ page'.conn = page.conn
        /\ page'.locked = page.locked /\ page'.left = page.left
        /\ page'.gen = n /\ page'.asked.ok /\ page'.asked.room = r
    BY <1>5, <1>6, <1>7, <1>8 DEF Page
  <1>10. o \in Openings /\ o.room = r /\ o.number = n /\ o.kind = "open"  BY <1>3, <1>7 DEF Opening, Openings
  <1>11. SelShapes'  BY <1>5, <1>9, <1>10 DEF SelInv, SelShapes
  <1>12. TurnFits' /\ PageFits'  BY <1>5, <1>9, AskingKeeps
  <1>13. \A k : \A m \in Nat : Numbered(k, m) => Numbered(k, m)' /\ m # n
    BY <1>1, <1>6, <1>7, <1>9 DEF Numbered
  <1>14. NumbersFit'
    <2>1. Numbered("open", n)'  BY <1>7, <1>9 DEF Numbered
    <2>2. \A p \in waiting : Numbered(p.kind, p.number)' /\ p.number # n
      BY <1>13, PageTyped DEF SelInv, NumbersFit
    <2>3. turn.number # n /\ (turn.step # "none" => Numbered(turn.kind, turn.number)')
      <3>1. CASE turn.step = "none"
        <4>1. turn.number = 0  BY <3>1 DEF SelInv, NumbersFit, NoTurn
        <4>. QED  BY <1>7, <3>1, <4>1
      <3>2. CASE turn.step # "none"
        <4>1. Numbered(turn.kind, turn.number) /\ turn.number \in Nat
          BY <3>2, PageTyped DEF SelInv, NumbersFit
        <4>. QED  BY <1>5, <1>13, <4>1
      <3>. QED  BY <3>1, <3>2
    <2>4. \A i \in DOMAIN line : Numbered(line[i].kind, line[i].number)' /\ line[i].number # n
      <3>1. \A i \in DOMAIN line : line[i].number \in Nat /\ Numbered(line[i].kind, line[i].number)
        BY PageTyped DEF SelInv, NumbersFit
      <3>. QED  BY <1>5, <1>13, <3>1
    <2>. QED  BY <1>5, <1>10, <2>1, <2>2, <2>3, <2>4 DEF SelInv, NumbersFit
  <1>15. Pursued'  BY <1>2, <1>5, <1>9, <1>10 DEF SelInv, PageFits, Pursued
  <1>16. \A p \in observers : ProbeFits(p)'
    BY <1>1, <1>5, <1>6, <1>9 DEF SelInv, ProbeFits, SelShapes, Observer
  <1>. QED
    BY <1>5, <1>11, <1>12, <1>14, <1>15, <1>16 DEF SelInv, SelStays, OldStaysUsable, ObserverSparesAdmitted

\* A sequence with one element more.
LEMMA AppendHas ==
    ASSUME NEW S, NEW q \in Seq(S), NEW o \in S, NEW l, l = Append(q, o)
    PROVE  /\ l \in Seq(S)
           /\ \A i \in DOMAIN l : (i \in DOMAIN q /\ l[i] = q[i]) \/ (i \notin DOMAIN q /\ l[i] = o
                  /\ i = Len(q) + 1)
           /\ \A i \in DOMAIN q : i \in DOMAIN l /\ l[i] = q[i]
           /\ \E i \in DOMAIN l : l[i] = o
  <1>1. l \in Seq(S) /\ DOMAIN l = 1 .. Len(q) + 1 /\ DOMAIN q = 1 .. Len(q) /\ Len(q) \in Nat
    OBVIOUS
  <1>2. l[Len(q) + 1] = o /\ \A i \in 1 .. Len(q) : l[i] = q[i]
    OBVIOUS
  <1>3. Len(q) + 1 \in DOMAIN l  BY <1>1
  <1>4. \A i \in DOMAIN l : i \in 1 .. Len(q) \/ (i \notin 1 .. Len(q) /\ i = Len(q) + 1)  BY <1>1
  <1>5. \A i \in DOMAIN q : i \in DOMAIN l  BY <1>1
  <1>. QED  BY <1>1, <1>2, <1>3, <1>4, <1>5, Zenon

\* A sequence whose first element is gone.
LEMMA TailHas ==
    ASSUME NEW S, NEW q \in Seq(S), q # <<>>
    PROVE  /\ Tail(q) \in Seq(S) /\ Head(q) \in S /\ 1 \in DOMAIN q /\ Head(q) = q[1]
           /\ \A i \in DOMAIN Tail(q) : i + 1 \in DOMAIN q /\ Tail(q)[i] = q[i + 1] /\ i \in Nat \ {0}
           /\ \A i \in DOMAIN q \ {1} : i - 1 \in DOMAIN Tail(q) /\ Tail(q)[i - 1] = q[i]
  <1>1. Len(q) \in Nat \ {0} /\ DOMAIN q = 1 .. Len(q) /\ DOMAIN Tail(q) = 1 .. Len(q) - 1
            /\ Tail(q) \in Seq(S)
    OBVIOUS
  <1>2. Head(q) = q[1] /\ \A i \in 1 .. Len(q) - 1 : Tail(q)[i] = q[i + 1]
    OBVIOUS
  <1>3. q[1] \in S  BY <1>1
  <1>. QED  BY <1>1, <1>2, <1>3

\* The numbers of openings, while the generation stays.
LEMMA NumberedStays ==
    ASSUME page'.gen = page.gen
    PROVE  \A k, n : Numbered(k, n)' <=> Numbered(k, n)
  BY DEF Numbered

\* An opening enters the queue.
LEMMA LineGrows ==
    ASSUME SelInv, NEW o \in Openings, line' = Append(line, o), page'.gen = page.gen, UNCHANGED turn,
           waiting' \subseteq waiting, Numbered(o.kind, o.number),
           o.number >= 2 => /\ turn.number # o.number
                            /\ \A p \in waiting' : p.number # o.number
                            /\ \A i \in DOMAIN line : line[i].number # o.number,
           o.kind = "join" => turn.kind # "join" /\ \A i \in DOMAIN line : line[i].kind # "join"
    PROVE  /\ line' \in Seq(Openings) /\ NumbersFit'
           /\ \A i \in DOMAIN line' : line'[i] = o \/ \E j \in DOMAIN line : line'[i] = line[j]
           /\ \A i \in DOMAIN line : \E j \in DOMAIN line' : line'[j] = line[i]
           /\ \E i \in DOMAIN line' : line'[i] = o
  <1>1. PICK l : l = line'  OBVIOUS
  <1>2. /\ l \in Seq(Openings)
        /\ \A i \in DOMAIN l : (i \in DOMAIN line /\ l[i] = line[i]) \/ (i \notin DOMAIN line /\ l[i] = o
               /\ i = Len(line) + 1)
        /\ \A i \in DOMAIN line : i \in DOMAIN l /\ l[i] = line[i]
        /\ \E i \in DOMAIN l : l[i] = o
    BY <1>1, AppendHas DEF SelInv, SelShapes
  <1>3. \A i \in DOMAIN l : Numbered(l[i].kind, l[i].number)  BY <1>2 DEF SelInv, NumbersFit
  <1>4. \A i, j \in DOMAIN l : l[i].number = l[j].number /\ l[i].number >= 2 => i = j
    BY <1>2 DEF SelInv, NumbersFit
  <1>5. \A i \in DOMAIN l : l[i].number >= 2 => turn.number # l[i].number  BY <1>2 DEF SelInv, NumbersFit
  <1>6. \A i, j \in DOMAIN l : l[i].kind = "join" /\ l[j].kind = "join" => i = j
    BY <1>2 DEF SelInv, NumbersFit
  <1>7. turn.kind = "join" => \A i \in DOMAIN l : l[i].kind # "join"  BY <1>2 DEF SelInv, NumbersFit
  <1>8. \A p \in waiting' : p.number >= 2 => turn.number # p.number
            /\ \A i \in DOMAIN l : l[i].number # p.number
    BY <1>2 DEF SelInv, NumbersFit
  <1>9. \A p \in waiting' : Numbered(p.kind, p.number) /\ p.kind # "join"  BY DEF SelInv, NumbersFit
  <1>10. /\ turn.step # "none" => Numbered(turn.kind, turn.number) /\ turn.kind # "none"
                /\ turn.room \in ProductRooms
         /\ turn.step = "none" => turn = NoTurn
         /\ \A p, q \in waiting' : p.number = q.number /\ p.number >= 2 => p = q
    BY DEF SelInv, NumbersFit
  <1>11. NumbersFit'
    BY <1>1, <1>3, <1>4, <1>5, <1>6, <1>7, <1>8, <1>9, <1>10, NumberedStays DEF NumbersFit
  <1>. QED  BY <1>1, <1>2, <1>11

\* An invitation joins without a number, and not the room that is shown.
LEMMA JoinModernChannelHolds ==
    ASSUME SelInv, NEW r \in ProductRooms, JoinModernChannel(r)
    PROVE  SelStays
  <1>1. PICK o : o = Opening(r, 0, "join")  OBVIOUS
  <1>2. /\ turn.kind # "join" /\ ~(page.hash = r /\ page.selected # Nobody) /\ line' = Append(line, o)
        /\ UNCHANGED <<page, book, actors, waiting, turn, restoring, observers, deletion>>
        /\ \A i \in DOMAIN line : line[i].kind # "join"
    BY <1>1 DEF JoinModernChannel
  <1>3. o \in Openings /\ o.room = r /\ o.number = 0 /\ o.kind = "join"  BY <1>1 DEF Opening, Openings
  <1>4. Numbered(o.kind, o.number)  BY <1>3, PageTyped DEF Numbered
  <1>5. /\ line' \in Seq(Openings) /\ NumbersFit'
        /\ \A i \in DOMAIN line' : line'[i] = o \/ \E j \in DOMAIN line : line'[i] = line[j]
        /\ \A i \in DOMAIN line : \E j \in DOMAIN line' : line'[j] = line[i]
    BY <1>2, <1>3, <1>4, LineGrows
  <1>6. SelShapes'  BY <1>2, <1>5 DEF SelInv, SelShapes
  <1>7. TurnFits' /\ PageFits'
    <2>1. TurnFits'  BY <1>2 DEF SelInv, TurnFits, Subscribed
    <2>2. PageFits'  BY <1>2 DEF SelInv, PageFits, Subscribed, NoStrayActor
    <2>. QED  BY <2>1, <2>2
  <1>8. Pursued'  BY <1>2, <1>5 DEF SelInv, Pursued
  <1>9. \A p \in observers : ProbeFits(p)'
    <2>1. TAKE p \in observers
    <2>2. ProbeFits(p) /\ page.gen >= 1  BY PageTyped DEF SelInv
    <2>3. page.selected # Nobody => page.hash = page.selected.room  BY DEF SelInv, PageFits
    <2>4. page.selected \in actors => page.selected # Nobody  BY PageTyped, PageShapes
    <2>5. page.selected \in actors /\ page.selected.room = p.room => p.room # r  BY <1>2, <2>3, <2>4
    <2>6. p.number = page.gen => \A i \in DOMAIN line' : line'[i].number # page.gen
      BY <1>3, <1>5, <2>2 DEF ProbeFits
    <2>7. p.number = page.gen /\ page.selected \in actors \ p.known /\ page.selected.room = p.room =>
             \A i \in DOMAIN line' : line'[i].kind = "join" => line'[i].room # p.room
      BY <1>3, <1>5, <2>2, <2>5 DEF ProbeFits
    <2>. QED  BY <1>2, <2>2, <2>6, <2>7 DEF ProbeFits
  <1>. QED  BY <1>2, <1>5, <1>6, <1>7, <1>8, <1>9 DEF SelInv, SelStays, OldStaysUsable, ObserverSparesAdmitted

\* Unlocking opens a room, while nothing else was asked for.
LEMMA ReconnectFirstHolds ==
    ASSUME SelInv, NEW r \in ProductRooms, ReconnectFirst(r)
    PROVE  SelStays
  <1>1. PICK o : o = Opening(r, 1, "restore")  OBVIOUS
  <1>2. restoring \in [number : {1}, todo : SUBSET ProductRooms] /\ restoring.number = 1
    BY DEF SelInv, SelShapes
  <1>3. PICK q : q = [room |-> r, number |-> 1]  OBVIOUS
  <1>4. /\ page.gen = 1 /\ page' = [page EXCEPT !.pending = q, !.asked = [room |-> r, ok |-> TRUE]]
        /\ restoring' = [restoring EXCEPT !.todo = restoring.todo \ {r}] /\ waiting' = waiting \cup {o}
        /\ UNCHANGED <<book, actors, line, turn, observers, deletion, pageFaults>>
    BY <1>1, <1>2, <1>3 DEF ReconnectFirst
  <1>5. q \in [room : ProductRooms \cup {"none"}, number : Nat]  BY <1>3
  <1>6. /\ page' \in Page /\ page'.selected = page.selected /\ page'.hash = page.hash
               /\ page'.conn = page.conn
        /\ page'.locked = page.locked /\ page'.left = page.left
        /\ page'.gen = page.gen /\ page'.asked.ok /\ page'.asked.room = r
    BY <1>4, <1>5, PageTyped DEF Page
  <1>7. o \in Openings /\ o.room = r /\ o.number = 1 /\ o.kind = "restore"  BY <1>1 DEF Opening, Openings
  <1>8. SelShapes'
    <2>1. restoring' \in [number : {1}, todo : SUBSET ProductRooms]  BY <1>2, <1>4
    <2>. QED  BY <1>4, <1>6, <1>7, <2>1 DEF SelInv, SelShapes
  <1>9. TurnFits' /\ PageFits'  BY <1>4, <1>6, AskingKeeps
  <1>10. NumbersFit'
    <2>1. Numbered(o.kind, o.number)  BY <1>4, <1>7 DEF Numbered
    <2>2. \A k, m : Numbered(k, m)' <=> Numbered(k, m)  BY <1>6, NumberedStays
    <2>. QED  BY <1>4, <1>7, <2>1, <2>2 DEF SelInv, NumbersFit
  <1>11. Pursued'  BY <1>4, <1>6, <1>7 DEF Pursued
  <1>12. \A p \in observers : ProbeFits(p)'  BY <1>4, PageTyped DEF SelInv, ProbeFits
  <1>. QED
    BY <1>4, <1>8, <1>9, <1>10, <1>11, <1>12 DEF SelInv, SelStays, OldStaysUsable, ObserverSparesAdmitted

\* An opening whose descriptor is eligible goes from those that wait into the
\* queue.
LEMMA EntersHolds ==
    ASSUME SelInv, NEW o \in waiting, Enters(o)
    PROVE  SelStays
  <1>1. /\ waiting' = waiting \ {o} /\ line' = Append(line, o)
        /\ UNCHANGED <<page, book, actors, turn, restoring, observers, deletion, pageFaults>>
    BY DEF Enters
  <1>2. o \in Openings /\ o.number \in Nat  BY PageTyped
  <1>3. Numbered(o.kind, o.number) /\ o.kind # "join"  BY DEF SelInv, NumbersFit
  <1>4. o.number >= 2 => /\ turn.number # o.number /\ (\A p \in waiting' : p.number # o.number)
                         /\ \A i \in DOMAIN line : line[i].number # o.number
    BY <1>1 DEF SelInv, NumbersFit
  <1>5. /\ line' \in Seq(Openings) /\ NumbersFit'
        /\ \A i \in DOMAIN line' : line'[i] = o \/ \E j \in DOMAIN line : line'[i] = line[j]
        /\ \A i \in DOMAIN line : \E j \in DOMAIN line' : line'[j] = line[i]
        /\ \E i \in DOMAIN line' : line'[i] = o
    BY <1>1, <1>2, <1>3, <1>4, LineGrows
  <1>6. SelShapes'  BY <1>1, <1>5 DEF SelInv, SelShapes
  <1>7. TurnFits'  BY <1>1 DEF SelInv, TurnFits, Subscribed
  <1>8. PageFits'  BY <1>1 DEF SelInv, PageFits, Subscribed, NoStrayActor
  <1>9. Pursued'
    <2>1. \A p \in waiting : p \in waiting' \/ p = o  BY <1>1
    <2>2. (\E p \in waiting : p.number = page.gen /\ p.room = page.asked.room)
             => (\E p \in waiting' : p.number = page.gen /\ p.room = page.asked.room)
                \/ (o.number = page.gen /\ o.room = page.asked.room)
      BY <2>1
    <2>3. (\E i \in DOMAIN line : line[i].number = page.gen /\ line[i].room = page.asked.room)
             \/ (o.number = page.gen /\ o.room = page.asked.room)
             => \E i \in DOMAIN line' : line'[i].number = page.gen /\ line'[i].room = page.asked.room
      BY <1>5
    <2>. QED  BY <1>1, <2>2, <2>3 DEF SelInv, Pursued
  <1>10. \A p \in observers : ProbeFits(p)'
    <2>1. TAKE p \in observers
    <2>2. ProbeFits(p)  BY DEF SelInv
    <2>3. p.number = page.gen => \A i \in DOMAIN line' : line'[i].number # page.gen
      BY <1>5, <2>2 DEF ProbeFits
    <2>4. \A i \in DOMAIN line' : line'[i].kind = "join" => \E j \in DOMAIN line : line'[i] = line[j]
      BY <1>3, <1>5
    <2>. QED  BY <1>1, <2>2, <2>3, <2>4 DEF ProbeFits
  <1>. QED
    BY <1>1, <1>5, <1>6, <1>7, <1>8, <1>9, <1>10 DEF SelInv, SelStays, OldStaysUsable, ObserverSparesAdmitted

\* What a failed opening changes of the page: if it is the latest one, nothing
\* is pursued any more.
LEMMA AnsweredFits ==
    ASSUME SelInv, NEW o \in Openings, Answered(o)
    PROVE  /\ page' \in Page /\ page'.selected = page.selected /\ page'.hash = page.hash
                  /\ page'.conn = page.conn
           /\ page'.locked = page.locked /\ page'.left = page.left /\ page'.gen = page.gen
           /\ restoring' \in [number : {1}, todo : SUBSET ProductRooms]
           /\ page'.asked.ok => page.asked.ok /\ page'.asked.room = page.asked.room
           /\ o.kind # "join" /\ StillCurrent(o.number) => ~page'.asked.ok
  <1>1. restoring \in [number : {1}, todo : SUBSET ProductRooms]  BY DEF SelInv, SelShapes
  <1>2. CASE o.kind = "join" \/ ~StillCurrent(o.number)
    BY <1>1, <1>2, PageTyped DEF Answered
  <1>3. CASE ~(o.kind = "join" \/ ~StillCurrent(o.number))
    <2>1. PICK todo \in IF o.kind = "restore" THEN {{}, restoring.todo} ELSE {restoring.todo} :
             /\ restoring' = [restoring EXCEPT !.todo = todo]
             /\ page' = [page EXCEPT !.asked.ok = FALSE,
                           !.pending = IF o.kind = "open" \/ todo = {} THEN Nothing ELSE page.pending]
      BY <1>3 DEF Answered
    <2>2. restoring' \in [number : {1}, todo : SUBSET ProductRooms]  BY <1>1, <2>1
    <2>3. PICK q : q = IF o.kind = "open" \/ todo = {} THEN Nothing ELSE page.pending  OBVIOUS
    <2>4. q \in [room : ProductRooms \cup {"none"}, number : Nat]  BY <2>3, PageTyped, PageShapes DEF Page
    <2>5. page' = [page EXCEPT !.asked.ok = FALSE, !.pending = q]  BY <2>1, <2>3
    <2>6. /\ page' \in Page /\ page'.selected = page.selected /\ page'.hash = page.hash
                 /\ page'.conn = page.conn
          /\ page'.locked = page.locked /\ page'.left = page.left /\ page'.gen = page.gen
                 /\ page'.asked.ok = FALSE
      BY <2>4, <2>5, PageTyped DEF Page
    <2>. QED  BY <2>2, <2>6
  <1>. QED  BY <1>2, <1>3

\* What it changes of its room's row.
LEMMA RowFits ==
    ASSUME NEW b \in Book, NEW o \in Openings, NEW terminal \in BOOLEAN
    PROVE  /\ Row(b, o, terminal) \in Book /\ Row(b, o, terminal).mux = b.mux
                  /\ Row(b, o, terminal).details = b.details
           /\ \A r \in ProductRooms : Row(b, o, terminal).view[r].actor = b.view[r].actor
           /\ \A r \in ProductRooms : Row(b, o, terminal).view[r].connection # b.view[r].connection =>
                 o.kind # "join" /\ StillCurrent(o.number) /\ r = o.room
  <1>1. CASE o.kind = "join" \/ ~StillCurrent(o.number)  BY <1>1 DEF Row
  <1>2. CASE ~(o.kind = "join" \/ ~StillCurrent(o.number))
    <2>1. PICK c : c = IF terminal THEN "failed" ELSE "disconnected"  OBVIOUS
    <2>2. PICK s : s = IF terminal THEN b.indexed \ {o.room} ELSE b.indexed  OBVIOUS
    <2>3. PICK v : v = [b.view EXCEPT ![o.room].connection = c]  OBVIOUS
    <2>4. PICK d : d = [b EXCEPT !.view = v, !.indexed = s]  OBVIOUS
    <2>5. Row(b, o, terminal) = d
      BY <1>2, <2>1, <2>2, <2>3, <2>4 DEF Row, Book
    <2>6. o.room \in ProductRooms /\ c \in Connections /\ s \subseteq ProductRooms
      BY <2>1, <2>2 DEF Openings, Connections, Book
    <2>7. /\ v \in [ProductRooms -> Place] /\ \A r \in ProductRooms : v[r].actor = b.view[r].actor
          /\ \A r \in ProductRooms : v[r].connection # b.view[r].connection => r = o.room
      BY <2>3, <2>6 DEF Book, Place
    <2>8. d \in Book /\ d.mux = b.mux /\ d.details = b.details /\ d.view = v
      BY <2>4, <2>6, <2>7 DEF Book
    <2>. QED  BY <1>2, <2>5, <2>7, <2>8
  <1>. QED  BY <1>1, <1>2

\* Steps that leave the engines of the rooms and the selection.
LEMMA RowsStay ==
    ASSUME SelInv, book'.mux = book.mux, book'.details \subseteq book.details,
           \A r \in ProductRooms : book'.view[r].actor = book.view[r].actor,
           page'.selected = page.selected, page'.hash = page.hash, page'.conn = page.conn, page'.left = page.left,
           turn' = turn, actors' \subseteq actors
    PROVE  TurnFits' /\ PageFits'
  <1>1. \A a : Subscribed(a)' <=> Subscribed(a)  BY PageTyped DEF Subscribed
  <1>2. turn.step # "none" => turn.room \in ProductRooms  BY DEF SelInv, NumbersFit
  <1>3. TurnFits'  BY <1>1, <1>2 DEF SelInv, TurnFits, Early
  <1>4. NoStrayActor'
    <2>1. \A a \in actors : a.room \in ProductRooms  BY PageTyped, PageShapes
    <2>. QED  BY <2>1 DEF SelInv, PageFits, NoStrayActor
  <1>5. PageFits'  BY <1>1, <1>4, PageTyped DEF SelInv, PageFits
  <1>. QED  BY <1>3, <1>5

\* An opening that is refused before it is queued.
LEMMA RefusedHolds ==
    ASSUME SelInv, NEW o \in waiting, NEW terminal \in BOOLEAN, Refused(o, terminal)
    PROVE  SelStays
  <1>1. /\ waiting' = waiting \ {o} /\ Answered(o) /\ book' = Row(book, o, terminal)
        /\ UNCHANGED <<actors, line, turn, observers, deletion>>
    BY DEF Refused
  <1>2. o \in Openings /\ o.number \in Nat /\ Numbered(o.kind, o.number) /\ o.kind # "join"
    BY PageTyped DEF SelInv, NumbersFit
  <1>3. /\ page' \in Page /\ page'.selected = page.selected /\ page'.hash = page.hash
               /\ page'.conn = page.conn
        /\ page'.locked = page.locked /\ page'.left = page.left /\ page'.gen = page.gen
        /\ restoring' \in [number : {1}, todo : SUBSET ProductRooms]
        /\ page'.asked.ok => page.asked.ok /\ page'.asked.room = page.asked.room
        /\ o.kind # "join" /\ StillCurrent(o.number) => ~page'.asked.ok
    BY <1>1, <1>2, AnsweredFits
  <1>4. /\ book' \in Book /\ book'.mux = book.mux /\ book'.details = book.details
        /\ \A r \in ProductRooms : book'.view[r].actor = book.view[r].actor
        /\ \A r \in ProductRooms : book'.view[r].connection # book.view[r].connection
               => StillCurrent(o.number) /\ r = o.room
    BY <1>1, <1>2, PageTyped, RowFits
  <1>5. StillCurrent(o.number) => o.number = page.gen  BY <1>2 DEF StillCurrent, Numbered, Openings
  <1>6. SelShapes'
    <2>1. waiting' \subseteq Openings  BY <1>1 DEF SelInv, SelShapes
    <2>. QED  BY <1>1, <1>3, <1>4, <2>1 DEF SelInv, SelShapes
  <1>7. NumbersFit'
    <2>1. \A k, m : Numbered(k, m)' <=> Numbered(k, m)  BY <1>3, NumberedStays
    <2>. QED  BY <1>1, <2>1 DEF SelInv, NumbersFit
  <1>8. TurnFits' /\ PageFits'  BY <1>1, <1>3, <1>4, RowsStay
  <1>11. Pursued'
    <2>1. SUFFICES ASSUME page'.asked.ok
                   PROVE  Pursued'
      BY DEF Pursued
    <2>2. page.asked.ok /\ page'.asked.room = page.asked.room /\ o.number # page.gen
      BY <1>2, <1>3, <1>5, <2>1, PageTyped DEF StillCurrent
    <2>3. \A p \in waiting : p.number = page.gen => p \in waiting'  BY <1>1, <2>2
    <2>. QED  BY <1>1, <1>3, <2>2, <2>3 DEF SelInv, Pursued
  <1>12. \A p \in observers : ProbeFits(p)'
    <2>1. TAKE p \in observers
    <2>2. ProbeFits(p) /\ p \in Observer /\ p.room \in ProductRooms  BY PageTyped DEF SelInv
    <2>3. p.number = page.gen => ~StillCurrent(o.number)
      BY <1>5, <2>2 DEF ProbeFits
    <2>4. p.number = page.gen => book'.view[p.room].connection = book.view[p.room].connection
      BY <1>4, <2>2, <2>3
    <2>. QED  BY <1>1, <1>3, <1>4, <2>2, <2>4 DEF ProbeFits
  <1>. QED
    BY <1>1, <1>6, <1>7, <1>8, <1>11, <1>12 DEF SelInv, SelStays, OldStaysUsable, ObserverSparesAdmitted

\* The opening that is resolved moves on, or ends.
LEMMA TurnNumbers ==
    ASSUME SelInv, NEW q \in Resolution, turn' = q, page'.gen = page.gen, UNCHANGED <<waiting, line>>,
           \/ q = NoTurn
           \/ /\ turn.step # "none" /\ q.step # "none" /\ q.number = turn.number /\ q.kind = turn.kind
              /\ q.room \in ProductRooms
    PROVE  NumbersFit'
  <1>1. \A k, m : Numbered(k, m)' <=> Numbered(k, m)  BY NumberedStays
  <1>2. q.step # "none" => Numbered(q.kind, q.number) /\ q.kind # "none" /\ q.room \in ProductRooms
    BY DEF SelInv, NumbersFit, NoTurn
  <1>3. q.step = "none" => q = NoTurn  OBVIOUS
  <1>4. q.number # turn.number => q.number = 0  BY DEF NoTurn
  <1>5. q.kind = "join" => turn.kind = "join"  BY DEF NoTurn
  <1>6. \A p \in waiting : p.number >= 2 => q.number # p.number
            /\ \A i \in DOMAIN line : line[i].number # p.number
    BY <1>4 DEF SelInv, NumbersFit
  <1>7. \A i \in DOMAIN line : line[i].number >= 2 => q.number # line[i].number
    BY <1>4 DEF SelInv, NumbersFit
  <1>. QED  BY <1>1, <1>2, <1>3, <1>5, <1>6, <1>7 DEF SelInv, NumbersFit

\* The first one in the queue is resolved.
LEMMA BeginHolds ==
    ASSUME SelInv, Begin
    PROVE  SelStays
  <1>1. PICK o : o = Head(line)  OBVIOUS
  <1>2. PICK l : l = Tail(line)  OBVIOUS
  <1>3. PICK q : q = [NoTurn EXCEPT !.room = o.room, !.number = o.number, !.kind = o.kind, !.step = "start"]  OBVIOUS
  <1>4. /\ turn = NoTurn /\ line # <<>> /\ line' = l /\ turn' = q
        /\ UNCHANGED <<page, book, actors, waiting, restoring, observers, deletion, pageFaults>>
    BY <1>1, <1>2, <1>3 DEF Begin
  <1>5. /\ l \in Seq(Openings) /\ o \in Openings /\ 1 \in DOMAIN line /\ o = line[1]
        /\ \A i \in DOMAIN l : i + 1 \in DOMAIN line /\ l[i] = line[i + 1] /\ i \in Nat \ {0}
        /\ \A i \in DOMAIN line \ {1} : i - 1 \in DOMAIN l /\ l[i - 1] = line[i]
    BY <1>1, <1>2, <1>4, TailHas DEF SelInv, SelShapes
  <1>6. /\ q \in Resolution /\ q.room = o.room /\ q.number = o.number /\ q.kind = o.kind /\ q.step = "start"
        /\ q.actor = Nobody /\ q.previous = Nobody /\ ~q.back
    <2>1. o.room \in ProductRooms \cup {"none"} /\ o.number \in Nat
              /\ o.kind \in {"none", "open", "restore", "join"}
      BY <1>5 DEF Openings
    <2>2. PICK t \in Resolution : t = NoTurn /\ t.actor = Nobody /\ t.previous = Nobody /\ ~t.back
      BY PageShapes DEF NoTurn
    <2>3. q = [t EXCEPT !.room = o.room, !.number = o.number, !.kind = o.kind, !.step = "start"]
      BY <1>3, <2>2
    <2>. QED  BY <2>1, <2>2, <2>3 DEF Resolution
  <1>7. SelShapes'  BY <1>4, <1>5, <1>6 DEF SelInv, SelShapes
  <1>8. o.kind # "none" /\ o.room \in ProductRooms /\ o.number \in Nat /\ Numbered(o.kind, o.number)
    BY <1>5 DEF Openings, SelInv, NumbersFit
  <1>9. NumbersFit'
    <2>1. \A k, m : Numbered(k, m)' <=> Numbered(k, m)  BY <1>4, NumberedStays
    <2>2. \A i \in DOMAIN l : \E j \in DOMAIN line : j # 1 /\ l[i] = line[j]  BY <1>5
    <2>3. \A i \in DOMAIN l : /\ Numbered(l[i].kind, l[i].number)
                              /\ l[i].number >= 2 => q.number # l[i].number
                              /\ q.kind = "join" => l[i].kind # "join"
      BY <1>5, <1>6, <2>2 DEF SelInv, NumbersFit
    <2>4. \A i, j \in DOMAIN l : (l[i].number = l[j].number /\ l[i].number >= 2) \/ (l[i].kind = "join"
              /\ l[j].kind = "join") => i = j
      <3>1. TAKE i, j \in DOMAIN l
      <3>2. i \in Nat /\ j \in Nat /\ i + 1 \in DOMAIN line /\ j + 1 \in DOMAIN line /\ l[i] = line[i + 1]
                /\ l[j] = line[j + 1]
        BY <1>5
      <3>3. (l[i].number = l[j].number /\ l[i].number >= 2) \/ (l[i].kind = "join" /\ l[j].kind = "join")
                => i + 1 = j + 1
        BY <3>2 DEF SelInv, NumbersFit
      <3>. QED  BY <3>2, <3>3
    <2>5. \A p \in waiting : p.number >= 2 => q.number # p.number
              /\ \A i \in DOMAIN l : l[i].number # p.number
      BY <1>5, <1>6, <2>2 DEF SelInv, NumbersFit
    <2>6. /\ \A p \in waiting : Numbered(p.kind, p.number) /\ p.kind # "join"
          /\ \A p, r \in waiting : p.number = r.number /\ p.number >= 2 => p = r
      BY DEF SelInv, NumbersFit
    <2>. QED  BY <1>4, <1>6, <1>8, <2>1, <2>3, <2>4, <2>5, <2>6 DEF NumbersFit
  <1>10. TurnFits'
    BY <1>4, <1>6, PageTyped, PageShapes DEF SelInv, TurnFits, Early, Subscribed
  <1>11. NoStrayActor'
    BY <1>4, <1>6, PageTyped, PageShapes DEF SelInv, PageFits, NoStrayActor, NoTurn
  <1>12. PageFits'
    BY <1>4, <1>6, <1>11, PageTyped, PageShapes DEF SelInv, PageFits, NoTurn, Subscribed
  <1>13. Pursued'
    <2>1. ASSUME NEW i \in DOMAIN line, line[i].number = page.gen /\ line[i].room = page.asked.room
          PROVE  \/ \E j \in DOMAIN l : l[j].number = page.gen /\ l[j].room = page.asked.room
                 \/ q.number = page.gen /\ q.room = page.asked.room
      BY <1>5, <1>6, <2>1
    <2>. QED  BY <1>4, <1>6, <2>1 DEF SelInv, Pursued, Early, NoTurn
  <1>14. \A p \in observers : ProbeFits(p)'
    <2>1. TAKE p \in observers
    <2>2. ProbeFits(p)  BY DEF SelInv
    <2>3. \A i \in DOMAIN l : \E j \in DOMAIN line : l[i] = line[j]  BY <1>5
    <2>4. p.number = page.gen => q.number # page.gen /\ \A i \in DOMAIN l : l[i].number # page.gen
      BY <1>5, <1>6, <2>2, <2>3 DEF ProbeFits
    <2>5. p.number = page.gen /\ page.selected \in actors \ p.known /\ page.selected.room = p.room =>
             /\ \A i \in DOMAIN l : l[i].kind = "join" => l[i].room # p.room
             /\ q.kind = "join" => q.room # p.room
      BY <1>5, <1>6, <2>2, <2>3 DEF ProbeFits
    <2>. QED  BY <1>4, <1>6, <2>2, <2>4, <2>5 DEF ProbeFits
  <1>. QED
    BY <1>4, <1>7, <1>9, <1>10, <1>12, <1>13, <1>14
         DEF SelInv, SelStays, OldStaysUsable, ObserverSparesAdmitted

\* A turn at one of the early steps, the page unchanged: what the turn knows of
\* the rooms.
LEMMA EarlyTurn ==
    ASSUME SelInv, NEW q \in Resolution, turn' = q, UNCHANGED <<page, book, actors>>,
           turn.step \in Early, q.step \in Early \ {"none"}, q.actor = turn.actor, q.previous = turn.previous,
           q.room = turn.room, q.kind = turn.kind, q.back = turn.back,
           q.step \in {"same", "superseded", "reuse"} => ~q.back,
           q.step = "same" => page.selected # Nobody /\ page.selected.room = q.room /\ ~page.selected.mux
               /\ q.kind # "join",
           q.step = "reuse" => q.room \in book.mux,
           q.step = "candidate" => q.room \notin book.mux,
           q.step # "start"
    PROVE  TurnFits' /\ PageFits'
  <1>1. turn.actor = Nobody /\ turn.previous = Nobody /\ (turn.back => page.selected.mux
            /\ turn.kind # "join")
    BY DEF SelInv, TurnFits
  <1>2. turn.step # "connect" /\ turn.step # "previous" /\ turn.step # "finish" /\ q.step # "connect"
            /\ q.step # "previous" /\ q.step # "finish"
    BY DEF Early
  <1>3. Nobody \notin actors  BY PageTyped, PageShapes
  <1>4. TurnFits'  BY <1>1, <1>2, <1>3 DEF TurnFits
  <1>5. NoStrayActor'  BY <1>1, <1>3 DEF SelInv, PageFits, NoStrayActor
  <1>6. PageFits'  BY <1>1, <1>2, <1>5 DEF SelInv, PageFits, Subscribed
  <1>. QED  BY <1>4, <1>6

\* Where the resolution starts: the room's engine is on the page, is
\* subscribed, or has to be made.
LEMMA StartHolds ==
    ASSUME SelInv, Start
    PROVE  SelStays
  <1>1. PICK s : s = IF ~SameRoom THEN Elsewhere ELSE IF StillCurrent(turn.number) THEN "same" ELSE "superseded"  OBVIOUS
  <1>2. PICK q : q = [turn EXCEPT !.step = s]  OBVIOUS
  <1>3. /\ turn.step = "start" /\ turn' = q
        /\ UNCHANGED <<page, book, actors, waiting, line, restoring, observers, deletion, pageFaults>>
    BY <1>1, <1>2 DEF Start, At, Goto
  <1>4. ~turn.back /\ turn.room \in ProductRooms /\ turn.kind # "none" /\ Numbered(turn.kind, turn.number)
    BY <1>3 DEF SelInv, TurnFits, NumbersFit
  <1>5. /\ s \in {"same", "superseded", "reuse", "candidate"}
        /\ s \in {"same", "superseded"} => SameRoom
        /\ s = "same" => StillCurrent(turn.number)
        /\ SameRoom => s \in {"same", "superseded"}
        /\ s = "reuse" => turn.room \in book.mux
        /\ s = "candidate" => turn.room \notin book.mux
    BY <1>1, <1>4 DEF Elsewhere
  <1>6. /\ q \in Resolution /\ q.step = s /\ q.room = turn.room /\ q.number = turn.number
               /\ q.kind = turn.kind
        /\ q.actor = turn.actor /\ q.previous = turn.previous /\ q.back = turn.back
    BY <1>2, <1>4, <1>5, PageTyped DEF Resolution
  <1>7. SelShapes'  BY <1>3, <1>6 DEF SelInv, SelShapes
  <1>8. NumbersFit'  BY <1>3, <1>4, <1>5, <1>6, TurnNumbers
  <1>9. TurnFits' /\ PageFits'
    <2>1. SameRoom => page.selected # Nobody /\ page.selected.room = turn.room /\ ~page.selected.mux
              /\ turn.kind # "join"
      BY DEF SameRoom
    <2>2. q.step \in Early \ {"none"} /\ turn.step \in Early  BY <1>3, <1>5, <1>6 DEF Early
    <2>. QED  BY <1>3, <1>4, <1>5, <1>6, <2>1, <2>2, EarlyTurn
  <1>10. Pursued'  BY <1>3, <1>4, <1>5, <1>6 DEF SelInv, Pursued, Early
  <1>11. \A p \in observers : ProbeFits(p)'
    <2>1. TAKE p \in observers
    <2>2. ProbeFits(p)  BY DEF SelInv
    <2>3. CASE p.number = page.gen
      <3>1. turn.number # page.gen  BY <2>2, <2>3 DEF ProbeFits
      <3>2. s # "same"
        <4>1. turn.number = 0 => turn.kind = "join"  BY <1>4 DEF Numbered, SelInv, SelShapes, Resolution
        <4>. QED  BY <1>4, <1>5, <3>1, <4>1, PageTyped DEF StillCurrent, SameRoom, Resolution
      <3>3. page.selected \in actors \ p.known /\ page.selected.room = p.room /\ turn.room = p.room
               => s = "superseded" /\ turn.kind # "join"
        <4>1. ASSUME page.selected \in actors \ p.known, page.selected.room = p.room, turn.room = p.room
              PROVE  SameRoom
          <5>1. ~page.selected.mux /\ turn.kind # "join"  BY <1>3, <2>2, <2>3, <4>1 DEF ProbeFits
          <5>2. page.selected # Nobody  BY <4>1, PageTyped, PageShapes
          <5>3. page.conn = page.selected  BY <1>3, <5>1, <5>2 DEF SelInv, PageFits
          <5>. QED  BY <1>4, <4>1, <5>1, <5>2, <5>3 DEF SameRoom
        <4>. QED  BY <1>5, <3>2, <4>1 DEF SameRoom
      <3>. QED  BY <1>3, <1>5, <1>6, <2>2, <2>3, <3>1, <3>2, <3>3 DEF ProbeFits
    <2>4. CASE p.number # page.gen  BY <1>3, <2>2, <2>4 DEF ProbeFits
    <2>. QED  BY <2>3, <2>4
  <1>. QED
    BY <1>3, <1>7, <1>8, <1>9, <1>10, <1>11 DEF SelInv, SelStays, OldStaysUsable, ObserverSparesAdmitted

\* The engine on the page does not do for a room of the multiplexed connection.
LEMMA SameIsNotEnoughHolds ==
    ASSUME SelInv, SameIsNotEnough
    PROVE  SelStays
  <1>1. PICK s : s = Elsewhere  OBVIOUS
  <1>2. PICK q : q = [turn EXCEPT !.step = s]  OBVIOUS
  <1>3. /\ turn.step = "same" /\ turn' = q
        /\ UNCHANGED <<page, book, actors, waiting, line, restoring, observers, deletion>>
    BY <1>1, <1>2 DEF SameIsNotEnough, At, Goto
  <1>4. ~turn.back /\ turn.room \in ProductRooms  BY <1>3 DEF SelInv, TurnFits, NumbersFit
  <1>5. s \in {"reuse", "candidate"} /\ (s = "reuse" => turn.room \in book.mux) /\ (s = "candidate"
            => turn.room \notin book.mux)
    BY <1>1, <1>4 DEF Elsewhere
  <1>6. /\ q \in Resolution /\ q.step = s /\ q.room = turn.room /\ q.number = turn.number
               /\ q.kind = turn.kind
        /\ q.actor = turn.actor /\ q.previous = turn.previous /\ q.back = turn.back
    BY <1>2, <1>4, <1>5, PageTyped DEF Resolution
  <1>7. SelShapes'  BY <1>3, <1>6 DEF SelInv, SelShapes
  <1>8. NumbersFit'  BY <1>3, <1>4, <1>5, <1>6, TurnNumbers
  <1>9. TurnFits' /\ PageFits'  BY <1>3, <1>4, <1>5, <1>6, EarlyTurn DEF Early
  <1>10. Pursued'  BY <1>3, <1>4, <1>5, <1>6 DEF SelInv, Pursued, Early
  <1>11. \A p \in observers : ProbeFits(p)'
    BY <1>3, PageTyped DEF SelInv, ProbeFits
  <1>. QED
    BY <1>3, <1>7, <1>8, <1>9, <1>10, <1>11 DEF SelInv, SelStays, OldStaysUsable, ObserverSparesAdmitted

\* The engine on the page stays.
LEMMA CommitSameHolds ==
    ASSUME SelInv, CommitSame
    PROVE  SelStays
  <1>1. PICK q : q = [turn EXCEPT !.step = "finish"]  OBVIOUS
  <1>2. PICK v : v = View(turn.room, page.selected, "connected")  OBVIOUS
  <1>3. /\ turn.step = "same" /\ turn' = q /\ book' = [book EXCEPT !.view = v]
               /\ page' = [page EXCEPT !.hash = turn.room]
        /\ UNCHANGED <<actors, waiting, line, restoring, observers, deletion, pageFaults>>
    BY <1>1, <1>2 DEF CommitSame, At, Goto
  <1>4. /\ ~turn.back /\ turn.room \in ProductRooms /\ turn.actor = Nobody /\ turn.previous = Nobody
        /\ page.selected # Nobody /\ page.selected.room = turn.room /\ ~page.selected.mux
               /\ turn.kind # "join"
    BY <1>3 DEF SelInv, TurnFits, NumbersFit, Early
  <1>5. turn.room \notin book.mux /\ page.hash = turn.room  BY <1>3, <1>4 DEF SelInv, PageFits
  <1>6. page' = page
    <2>1. page'= [page EXCEPT !.hash = page.hash]  BY <1>3, <1>5
    <2>. QED  BY <2>1, PageTyped DEF Page
  <1>7. /\ v \in [ProductRooms -> Place] /\ v[turn.room].actor = page.selected
               /\ \A r \in ProductRooms \ {turn.room} : v[r] = book.view[r]
    <2>1. [actor |-> page.selected, connection |-> "connected"] \in Place  BY PageTyped DEF Place, Connections
    <2>. QED  BY <1>2, <1>4, <2>1, PageTyped DEF View
  <1>8. book' \in Book /\ book'.view = v /\ book'.mux = book.mux /\ book'.details = book.details
            /\ book'.indexed = book.indexed
    BY <1>3, <1>7, PageTyped DEF Book
  <1>9. /\ q \in Resolution /\ q.step = "finish" /\ q.room = turn.room /\ q.number = turn.number
               /\ q.kind = turn.kind
        /\ q.actor = Nobody /\ q.previous = Nobody /\ ~q.back
    BY <1>1, <1>4, PageTyped DEF Resolution
  <1>10. SelShapes'  BY <1>3, <1>6, <1>8, <1>9 DEF SelInv, SelShapes
  <1>11. NumbersFit'  BY <1>3, <1>4, <1>6, <1>9, TurnNumbers
  <1>12. \A a : Subscribed(a) <=> Subscribed(a)'  BY <1>5, <1>7, <1>8, PageTyped DEF Subscribed
  <1>13. Nobody \notin actors /\ \A a \in actors : a.room \in ProductRooms  BY PageTyped, PageShapes
  <1>14. TurnFits'  BY <1>3, <1>4, <1>5, <1>6, <1>8, <1>9, <1>13 DEF TurnFits, Early
  <1>15. NoStrayActor'
    BY <1>3, <1>4, <1>5, <1>6, <1>7, <1>8, <1>9, <1>13 DEF SelInv, PageFits, NoStrayActor
  <1>16. PageFits'
    BY <1>3, <1>4, <1>5, <1>6, <1>7, <1>8, <1>9, <1>12, <1>15, PageTyped DEF SelInv, PageFits
  <1>17. Pursued'  BY <1>3, <1>4, <1>6, <1>9 DEF SelInv, Pursued
  <1>18. \A p \in observers : ProbeFits(p)'  BY <1>3, <1>6 DEF SelInv, ProbeFits
  <1>. QED
    BY <1>3, <1>10, <1>11, <1>14, <1>16, <1>17, <1>18
         DEF SelInv, SelStays, OldStaysUsable, ObserverSparesAdmitted

\* The engine subscribed for a room is the one its row names.
LEMMA ExistingIs ==
    ASSUME SelInv, turn.step = "reuse"
    PROVE  /\ Existing = book.view[turn.room].actor /\ turn.room \in book.mux /\ turn.room \in ProductRooms
           /\ Existing \in Person /\ (Existing # Nobody => Existing \in Actor /\ Existing.room = turn.room
                  /\ Existing.mux)
           /\ ~turn.back /\ turn.actor = Nobody /\ turn.previous = Nobody
           /\ page.selected # Nobody /\ page.selected.room = turn.room => page.selected.mux
  <1>1. turn.room \in book.mux /\ turn.room \in ProductRooms /\ ~turn.back /\ turn.actor = Nobody
            /\ turn.previous = Nobody
    BY DEF SelInv, TurnFits, NumbersFit, Early
  <1>2. ASSUME page.conn = page.selected, page.conn.room = turn.room, page.conn.mux
        PROVE  page.selected = book.view[turn.room].actor
    <2>1. page.conn # Nobody  BY <1>2, PageShapes
    <2>2. Subscribed(page.conn)  BY <1>2, <2>1 DEF SelInv, PageFits
    <2>. QED  BY <1>2, <2>2 DEF Subscribed
  <1>3. Existing = book.view[turn.room].actor  BY <1>2 DEF Existing
  <1>4. PICK e : e = book.view[turn.room].actor  OBVIOUS
  <1>5. e \in Person /\ (e # Nobody => e \in Actor /\ e.room = turn.room /\ e.mux)
    BY <1>1, <1>4, PageTyped DEF SelInv, PageFits, Person
  <1>6. page.selected # Nobody /\ page.selected.room = turn.room => page.selected.mux
    <2>1. page.selected # Nobody => page.selected.mux \in BOOLEAN  BY PageTyped DEF Person, Actor
    <2>. QED  BY <1>1, <2>1 DEF SelInv, PageFits
  <1>7. Existing = e  BY <1>3, <1>4
  <1>. QED  BY <1>1, <1>4, <1>5, <1>6, <1>7

\* A subscribed engine is selected, which nothing has superseded.
LEMMA CommitPreparedHolds ==
    ASSUME SelInv, CommitPrepared
    PROVE  SelStays
  <1>1. PICK e : e = Existing  OBVIOUS
  <1>2. PICK q : q = [turn EXCEPT !.step = "finish"]  OBVIOUS
  <1>3. PICK v : v = View(turn.room, e, "connected")  OBVIOUS
  <1>4. PICK away : away = page.left \cup ({page.selected} \ {e})  OBVIOUS
  <1>5. /\ turn.step = "reuse" /\ e # Nobody /\ MuxEligible /\ StillCurrent(turn.number) /\ turn' = q
        /\ book' = [book EXCEPT !.view = v]
        /\ page' = [page EXCEPT !.selected = e, !.hash = turn.room, !.left = away, !.asked = [room |-> turn.room, ok |-> TRUE]]
        /\ UNCHANGED <<actors, waiting, line, restoring, observers, deletion, pageFaults>>
    BY <1>1, <1>2, <1>3, <1>4 DEF CommitPrepared, At, Goto
  <1>6. /\ e = book.view[turn.room].actor /\ turn.room \in book.mux /\ turn.room \in ProductRooms
        /\ e \in Actor /\ e.room = turn.room /\ e.mux /\ ~turn.back /\ turn.actor = Nobody
               /\ turn.previous = Nobody
    BY <1>1, <1>5, ExistingIs
  <1>7. /\ page' \in Page /\ page'.selected = e /\ page'.hash = turn.room /\ page'.left = away
               /\ page'.conn = page.conn
        /\ page'.locked = page.locked /\ page'.gen = page.gen /\ page'.asked.ok
               /\ page'.asked.room = turn.room
    <2>1. e \in Person /\ away \subseteq Person  BY <1>4, <1>6, PageTyped, PageShapes
    <2>. QED  BY <1>5, <1>6, <2>1, PageTyped DEF Page
  <1>8. /\ v \in [ProductRooms -> Place] /\ v[turn.room].actor = e
               /\ \A r \in ProductRooms \ {turn.room} : v[r] = book.view[r]
    <2>1. [actor |-> e, connection |-> "connected"] \in Place  BY <1>6, PageShapes DEF Place, Connections
    <2>. QED  BY <1>3, <1>6, <2>1, PageTyped DEF View
  <1>9. book' \in Book /\ book'.view = v /\ book'.mux = book.mux /\ book'.details = book.details
            /\ book'.indexed = book.indexed
    BY <1>5, <1>8, PageTyped DEF Book
  <1>10. /\ q \in Resolution /\ q.step = "finish" /\ q.room = turn.room /\ q.number = turn.number
                /\ q.kind = turn.kind
         /\ q.actor = Nobody /\ q.previous = Nobody /\ ~q.back
    BY <1>2, <1>6, PageTyped DEF Resolution
  <1>11. SelShapes'  BY <1>5, <1>7, <1>9, <1>10 DEF SelInv, SelShapes
  <1>12. NumbersFit'  BY <1>5, <1>6, <1>7, <1>10, TurnNumbers
  <1>13. \A r \in ProductRooms : v[r].actor = book.view[r].actor  BY <1>6, <1>8
  <1>15. Nobody \notin actors /\ \A a \in actors : a.room \in ProductRooms  BY PageTyped, PageShapes
  <1>17. TurnFits'
    <2>1. Subscribed(page.selected)'  BY <1>6, <1>7, <1>8, <1>9 DEF Subscribed
    <2>2. turn.kind # "join"  BY <1>5 DEF MuxEligible
    <2>. QED  BY <1>5, <1>6, <1>7, <1>9, <1>10, <1>15, <2>1, <2>2, PageShapes DEF TurnFits, Early
  <1>18. NoStrayActor'
    BY <1>4, <1>5, <1>6, <1>7, <1>9, <1>10, <1>13, <1>15 DEF SelInv, PageFits, NoStrayActor
  <1>19. PageFits'
    BY <1>5, <1>6, <1>7, <1>9, <1>10, <1>13, <1>18, PageTyped DEF SelInv, PageFits, Subscribed
  <1>20. Pursued'  BY <1>6, <1>7, PageShapes DEF Pursued
  <1>21. \A p \in observers : ProbeFits(p)'
    <2>1. TAKE p \in observers
    <2>2. ProbeFits(p)  BY DEF SelInv
    <2>3. turn.kind # "join" /\ turn.number # 0
      BY <1>5, PageTyped DEF SelInv, NumbersFit, Numbered, MuxEligible, Resolution
    <2>4. p.number # page.gen  BY <1>5, <2>2, <2>3 DEF ProbeFits, StillCurrent
    <2>. QED  BY <1>7, <2>2, <2>4 DEF ProbeFits
  <1>. QED
    BY <1>5, <1>11, <1>12, <1>17, <1>19, <1>20, <1>21
         DEF SelInv, SelStays, OldStaysUsable, ObserverSparesAdmitted

\* A subscribed engine goes, with the page's hold on it if it was selected: its
\* room is the one that is opened.
LEMMA CloseSubscribedHolds ==
    ASSUME SelInv, CloseSubscribed
    PROVE  SelStays
  <1>1. PICK e : e = Existing  OBVIOUS
  <1>2. PICK q : q = [turn EXCEPT !.step = "candidate"]  OBVIOUS
  <1>3. PICK v : v = View(turn.room, Nobody, "saved")  OBVIOUS
  <1>4. PICK c : c = IF page.conn = e THEN Nobody ELSE page.conn  OBVIOUS
  <1>5. /\ turn.step = "reuse" /\ turn' = q /\ actors' = actors \ {e} /\ page' = [page EXCEPT !.conn = c]
        /\ book' = [book EXCEPT !.mux = book.mux \ {turn.room}, !.details = book.details \ {turn.room}, !.view = v]
        /\ UNCHANGED <<waiting, line, restoring, observers, deletion, pageFaults>>
    BY <1>1, <1>2, <1>3, <1>4 DEF CloseSubscribed, At, Goto
  <1>6. /\ e = book.view[turn.room].actor /\ turn.room \in book.mux /\ turn.room \in ProductRooms
        /\ e # Nobody => e \in Actor /\ e.room = turn.room /\ e.mux
        /\ ~turn.back /\ turn.actor = Nobody /\ turn.previous = Nobody
        /\ page.selected # Nobody /\ page.selected.room = turn.room => page.selected.mux
    BY <1>1, <1>5, ExistingIs
  <1>7. /\ page' \in Page /\ page'.selected = page.selected /\ page'.hash = page.hash
               /\ page'.left = page.left /\ page'.conn = c
        /\ page'.locked = page.locked /\ page'.gen = page.gen /\ page'.asked = page.asked
    <2>1. c \in Person  BY <1>4, PageTyped, PageShapes
    <2>. QED  BY <1>5, <2>1, PageTyped DEF Page
  <1>8. /\ v \in [ProductRooms -> Place] /\ v[turn.room].actor = Nobody
               /\ \A r \in ProductRooms \ {turn.room} : v[r] = book.view[r]
    <2>1. [actor |-> Nobody, connection |-> "saved"] \in Place  BY PageShapes DEF Place, Connections
    <2>. QED  BY <1>3, <1>6, <2>1, PageTyped DEF View
  <1>9. /\ book' \in Book /\ book'.view = v /\ book'.mux = book.mux \ {turn.room}
        /\ book'.details = book.details \ {turn.room} /\ book'.indexed = book.indexed
    BY <1>5, <1>8, PageTyped DEF Book
  <1>10. /\ q \in Resolution /\ q.step = "candidate" /\ q.room = turn.room /\ q.number = turn.number
                /\ q.kind = turn.kind
         /\ q.actor = Nobody /\ q.previous = Nobody /\ q.back = FALSE
    BY <1>2, <1>6, PageTyped DEF Resolution
  <1>11. actors' \subseteq Actor /\ IsFiniteSet(actors') /\ Nobody \notin actors
             /\ \A a \in actors : a.room \in ProductRooms
    BY <1>5, PageTyped, PageShapes, FS_Subset
  <1>12. SelShapes'  BY <1>5, <1>7, <1>9, <1>10, <1>11 DEF SelInv, SelShapes
  <1>13. NumbersFit'  BY <1>5, <1>6, <1>7, <1>10, TurnNumbers
  <1>16. TurnFits'  BY <1>6, <1>9, <1>10, <1>11, <1>5 DEF TurnFits, Early
  <1>17. NoStrayActor'
    <2>1. \A a \in actors' : a \in actors /\ a # e  BY <1>5
    <2>. QED  BY <1>6, <1>7, <1>8, <1>9, <1>10, <1>11, <2>1 DEF SelInv, PageFits, NoStrayActor
  <1>18. PageFits'
    <2>1. page'.conn # Nobody /\ page'.conn = page'.selected /\ page'.conn.mux => Subscribed(page.conn)'
      BY <1>4, <1>6, <1>7, <1>8, <1>9, PageTyped DEF SelInv, PageFits, Subscribed
    <2>2. page'.selected \in actors' \ page'.left /\ page'.selected.mux => Subscribed(page.selected)'
      BY <1>5, <1>6, <1>7, <1>8, <1>9, PageTyped DEF SelInv, PageFits, Subscribed
    <2>3. page'.selected # Nobody /\ ~page'.selected.mux => page'.conn = page'.selected
      <3>1. e.mux \/ e = Nobody  BY <1>6
      <3>. QED  BY <1>4, <1>5, <1>7, <3>1 DEF SelInv, PageFits
    <2>4. \A r \in ProductRooms : v[r].actor = book.view[r].actor \/ v[r].actor = Nobody  BY <1>8
    <2>. QED
      BY <1>5, <1>6, <1>7, <1>8, <1>9, <1>10, <1>17, <2>1, <2>2, <2>3, <2>4, PageTyped DEF SelInv, PageFits
  <1>19. Pursued'  BY <1>5, <1>6, <1>7, <1>10 DEF SelInv, Pursued, Early
  <1>20. \A p \in observers : ProbeFits(p)'
    <2>1. TAKE p \in observers
    <2>2. ProbeFits(p) /\ p.room \in ProductRooms  BY PageTyped DEF SelInv
    <2>3. page.selected \in actors' \ p.known /\ page.selected.room = p.room =>
             page.selected # Nobody /\ page.selected \in actors
      BY <1>5, <1>11
    <2>4. page.selected \in actors' \ p.known /\ page.selected.room = p.room /\ p.number = page.gen
              => p.room # turn.room
      BY <1>6, <2>2, <2>3 DEF ProbeFits
    <2>. QED  BY <1>5, <1>7, <1>8, <1>9, <1>10, <2>2, <2>3, <2>4 DEF ProbeFits
  <1>21. OldStaysUsable
    <2>1. ASSUME page.selected \in actors, page.selected \notin actors'
          PROVE  turn.room = page.selected.room
      BY <1>5, <1>6, <1>11, <2>1
    <2>. QED  BY <2>1 DEF OldStaysUsable
  <1>. QED
    BY <1>5, <1>12, <1>13, <1>16, <1>18, <1>19, <1>20, <1>21 DEF SelInv, SelStays, ObserverSparesAdmitted

\* A new engine, in the hands of the opening.
LEMMA CandidateHolds ==
    ASSUME SelInv, Candidate
    PROVE  SelStays
  <1>1. PICK a : a = [id |-> NewId, room |-> turn.room, mux |-> MuxEligible]  OBVIOUS
  <1>2. PICK q : q = [turn EXCEPT !.step = "connect", !.actor = a]  OBVIOUS
  <1>3. PICK v : v = View(a.room, a, "connecting")  OBVIOUS
  <1>4. PICK m : m = IF a.mux THEN book.mux \cup {a.room} ELSE book.mux  OBVIOUS
  <1>5. PICK away : away = IF turn.back /\ ~a.mux THEN page.left \cup {a} ELSE page.left  OBVIOUS
  <1>6. /\ turn.step = "candidate" /\ actors' = actors \cup {a} /\ turn' = q
               /\ book' = [book EXCEPT !.mux = m, !.view = v]
        /\ page' = [page EXCEPT !.left = away]
               /\ UNCHANGED <<waiting, line, restoring, observers, deletion, pageFaults>>
    BY <1>1, <1>2, <1>3, <1>4, <1>5 DEF Candidate, At
  <1>7. /\ turn.room \notin book.mux /\ turn.room \in ProductRooms /\ turn.actor = Nobody
               /\ turn.previous = Nobody
        /\ turn.back => page.selected.mux /\ turn.kind # "join"
    BY <1>6 DEF SelInv, TurnFits, NumbersFit, Early
  <1>8. a \in Actor /\ a.room = turn.room /\ a.id = NewId /\ (a.mux => turn.kind # "join")
    <2>1. NewId \in Nat \ {0}  BY <1>7, FreshId DEF SelInv
    <2>2. MuxEligible \in BOOLEAN  BY DEF MuxEligible
    <2>. QED  BY <1>1, <1>7, <2>1, <2>2 DEF Actor, MuxEligible
  <1>9. a \notin actors /\ a # page.selected /\ a # page.conn /\ a # Nobody
            /\ \A r \in ProductRooms : book.view[r].actor # a
    BY <1>7, <1>8, FreshId, PageShapes DEF SelInv
  <1>10. /\ page' \in Page /\ page'.selected = page.selected /\ page'.hash = page.hash /\ page'.left = away
         /\ page'.conn = page.conn /\ page'.locked = page.locked /\ page'.gen = page.gen
                /\ page'.asked = page.asked
    <2>1. away \subseteq Person  BY <1>5, <1>8, PageTyped, PageShapes
    <2>. QED  BY <1>6, <2>1, PageTyped DEF Page
  <1>11. /\ v \in [ProductRooms -> Place] /\ v[turn.room].actor = a /\ v[turn.room].connection = "connecting"
         /\ \A r \in ProductRooms \ {turn.room} : v[r] = book.view[r]
    <2>1. [actor |-> a, connection |-> "connecting"] \in Place  BY <1>8, PageShapes DEF Place, Connections
    <2>. QED  BY <1>3, <1>7, <1>8, <2>1, PageTyped DEF View
  <1>12. m \subseteq ProductRooms /\ (turn.room \in m <=> a.mux)
             /\ \A r \in ProductRooms \ {turn.room} : r \in m <=> r \in book.mux
    BY <1>4, <1>7, <1>8, PageTyped
  <1>13. /\ book' \in Book /\ book'.view = v /\ book'.mux = m /\ book'.details = book.details
                /\ book'.indexed = book.indexed
    BY <1>6, <1>11, <1>12, PageTyped DEF Book
  <1>14. /\ q \in Resolution /\ q.step = "connect" /\ q.room = turn.room /\ q.number = turn.number
                /\ q.kind = turn.kind
         /\ q.actor = a /\ q.previous = Nobody /\ q.back = turn.back
    BY <1>2, <1>7, <1>8, PageTyped, PageShapes DEF Resolution
  <1>15. actors' \subseteq Actor /\ IsFiniteSet(actors') /\ Nobody \notin actors'
             /\ \A b \in actors : b.room \in ProductRooms
    BY <1>6, <1>8, PageTyped, PageShapes, FS_AddElement
  <1>16. SelShapes'  BY <1>6, <1>10, <1>13, <1>14, <1>15 DEF SelInv, SelShapes
  <1>17. NumbersFit'  BY <1>6, <1>7, <1>10, <1>14, TurnNumbers
  <1>18. TurnFits'
    <2>1. q.room = turn.room /\ q.actor = a /\ q.actor.room = q.room /\ a.mux \in BOOLEAN /\ a \in Actor
      BY <1>8, <1>14 DEF Actor
    <2>2. book'.view[q.room].actor = a /\ (a.mux <=> q.room \in book'.mux)  BY <1>11, <1>12, <1>13, <2>1
    <2>3. q.back /\ ~a.mux => a \in page'.left  BY <1>5, <1>10, <1>14
    <2>4. q.back => page'.selected.mux /\ q.kind # "join"  BY <1>7, <1>10, <1>14
    <2>5. q.kind = "join" => ~a.mux  BY <1>8, <1>14
    <2>6. Nobody \notin actors'  BY <1>15
    <2>7. a # page'.selected  BY <1>9, <1>10
    <2>. QED  BY <1>6, <1>14, <2>1, <2>2, <2>3, <2>4, <2>5, <2>6, <2>7 DEF TurnFits, Early
  <1>19. NoStrayActor'
    <2>1. \A b \in actors' \ page'.left : b = a \/ b \in actors \ page.left  BY <1>5, <1>6, <1>10
    <2>2. \A b \in actors \ page.left : b = page.selected \/ (b.mux /\ b.room \in book.mux
              /\ book.view[b.room].actor = b)
      BY <1>7, <1>15, <1>6 DEF SelInv, PageFits, NoStrayActor
    <2>3. \A b \in actors \ page.left : b = page.selected \/ (b.mux /\ b.room \in m /\ v[b.room].actor = b)
      BY <1>7, <1>11, <1>12, <1>15, <2>2
    <2>. QED  BY <1>6, <1>10, <1>13, <1>14, <2>1, <2>3 DEF NoStrayActor
  <1>20. PageFits'
    <2>1. page'.conn # Nobody /\ page'.conn = page'.selected /\ page'.conn.mux => Subscribed(page.conn)'
      BY <1>7, <1>10, <1>11, <1>12, <1>13, PageTyped DEF SelInv, PageFits, Subscribed
    <2>2. page'.selected \in actors' \ page'.left /\ page'.selected.mux => Subscribed(page.selected)'
      BY <1>5, <1>6, <1>7, <1>9, <1>10, <1>11, <1>12, <1>13, PageTyped DEF SelInv, PageFits, Subscribed
    <2>3. \A r \in ProductRooms : v[r].actor # Nobody => v[r].actor.room = r
      BY <1>8, <1>11 DEF SelInv, PageFits
    <2>4. \A r \in m : v[r].actor # Nobody => v[r].actor.mux
      BY <1>11, <1>12 DEF SelInv, PageFits
    <2>5. book'.details \subseteq m
      BY <1>4, <1>13 DEF SelInv, PageFits
    <2>6. page.selected # Nobody /\ ~page.selected.mux /\ page.selected.room \in m
              => turn.room = page.selected.room /\ a.mux
      BY <1>6, <1>12 DEF SelInv, PageFits
    <2>7. page.selected # Nobody => page.hash = page.selected.room /\ (~page.selected.mux
              => page.conn = page.selected)
      BY <1>6 DEF SelInv, PageFits
    <2>8. page'.selected # Nobody /\ ~page'.selected.mux /\ page'.selected.room \in book'.mux
             => turn'.step = "connect" /\ turn'.room = page'.selected.room /\ turn'.actor.mux
      BY <1>6, <1>10, <1>13, <1>14, <2>6
    <2>9. page'.selected # Nobody /\ ~page'.selected.mux => page'.conn = page'.selected
      BY <1>10, <2>7
    <2>10. page'.selected # Nobody => page'.hash = page'.selected.room  BY <1>10, <2>7
    <2>. QED  BY <1>10, <1>13, <1>19, <2>1, <2>2, <2>3, <2>4, <2>5, <2>8, <2>9, <2>10 DEF PageFits
  <1>21. Pursued'  BY <1>6, <1>10, <1>14 DEF SelInv, Pursued, Early
  <1>22. \A p \in observers : ProbeFits(p)'
    <2>1. TAKE p \in observers
    <2>2. ProbeFits(p) /\ p.room \in ProductRooms  BY PageTyped DEF SelInv
    <2>3. CASE p.number = page.gen
      <3>1. p.room \in book.details => p.room # turn.room  BY <1>7 DEF SelInv, PageFits
      <3>2. p.room \in book.details => \A b \in actors' : b.room = p.room => b \in p.known
        BY <1>6, <1>8, <2>2, <2>3, <3>1 DEF ProbeFits
      <3>3. page.selected \in actors' => page.selected \in actors  BY <1>6, <1>9
      <3>4. page.selected \in actors \ p.known /\ page.selected.room = p.room => p.room # turn.room
        BY <1>6, <2>2, <2>3 DEF ProbeFits
      <3>. QED  BY <1>6, <1>10, <1>11, <1>13, <1>14, <2>2, <2>3, <3>2, <3>3, <3>4 DEF ProbeFits
    <2>4. CASE p.number # page.gen  BY <1>10, <2>2, <2>4 DEF ProbeFits
    <2>. QED  BY <2>3, <2>4
  <1>. QED
    BY <1>6, <1>16, <1>17, <1>18, <1>20, <1>21, <1>22
         DEF SelInv, SelStays, OldStaysUsable, ObserverSparesAdmitted

\* The new engine is selected, and the one before it is in the hands of the
\* opening.
LEMMA CommitCandidateHolds ==
    ASSUME SelInv, CommitCandidate
    PROVE  SelStays
  <1>1. PICK a : a = turn.actor  OBVIOUS
  <1>2. PICK o : o = page.selected  OBVIOUS
  <1>3. PICK q : q = [turn EXCEPT !.step = "previous", !.previous = IF turn.back THEN Nobody ELSE o]  OBVIOUS
  <1>4. PICK v : v = View(a.room, a, "connected")  OBVIOUS
  <1>5. PICK d : d = IF a.mux THEN book.details \cup {a.room} ELSE book.details  OBVIOUS
  <1>6. PICK p : p = [page EXCEPT !.selected = a, !.hash = a.room, !.asked = [room |-> a.room, ok |-> TRUE]]  OBVIOUS
  <1>7. /\ turn.step = "connect" /\ StillCurrent(turn.number) /\ page' = (IF turn.back THEN page ELSE p)
        /\ book' = [book EXCEPT !.view = v, !.details = d] /\ turn' = q
        /\ UNCHANGED <<actors, waiting, line, restoring, observers, deletion, pageFaults>>
    BY <1>1, <1>2, <1>3, <1>4, <1>5, <1>6 DEF CommitCandidate, At
  <1>8. /\ a \in Actor /\ a.room = turn.room /\ a # o /\ book.view[turn.room].actor = a
        /\ (a.mux <=> turn.room \in book.mux) /\ (turn.back /\ ~a.mux => a \in page.left)
        /\ turn.previous = Nobody /\ turn.room \in ProductRooms
        /\ (turn.back => o.mux /\ turn.kind # "join") /\ (turn.kind = "join" => ~a.mux)
        /\ Numbered(turn.kind, turn.number)
    BY <1>1, <1>2, <1>7 DEF SelInv, TurnFits, NumbersFit
  <1>9. a # Nobody /\ a \in Person /\ a.mux \in BOOLEAN  BY <1>8, PageShapes DEF Actor
  <1>10. p \in Page /\ p.selected = a /\ p.hash = turn.room /\ p.asked.ok /\ p.asked.room = turn.room
             /\ p.left = page.left
         /\ p.conn = page.conn /\ p.locked = page.locked /\ p.gen = page.gen
    BY <1>6, <1>8, <1>9, PageTyped DEF Page
  <1>11. PICK s \in Person : s = IF turn.back THEN o ELSE a  BY <1>2, <1>9, PageTyped
  <1>12. /\ page' \in Page /\ page'.selected = s /\ page'.left = page.left
         /\ page'.conn = page.conn /\ page'.locked = page.locked /\ page'.gen = page.gen
         /\ (turn.back => page' = page) /\ (~turn.back => page' = p)
    BY <1>2, <1>7, <1>10, <1>11, PageTyped
  <1>13. /\ v \in [ProductRooms -> Place] /\ v[turn.room].actor = a /\ v[turn.room].connection = "connected"
         /\ \A r \in ProductRooms : v[r].actor = book.view[r].actor
         /\ \A r \in ProductRooms \ {turn.room} : v[r] = book.view[r]
    <2>1. [actor |-> a, connection |-> "connected"] \in Place  BY <1>9 DEF Place, Connections
    <2>. QED  BY <1>4, <1>8, <2>1, PageTyped DEF View
  <1>14. d \subseteq ProductRooms /\ d \subseteq book.mux
    BY <1>5, <1>8, PageTyped DEF SelInv, PageFits
  <1>15. /\ book' \in Book /\ book'.view = v /\ book'.mux = book.mux /\ book'.details = d
                /\ book'.indexed = book.indexed
    BY <1>7, <1>13, <1>14, PageTyped DEF Book
  <1>16. PICK h \in Person : h = IF turn.back THEN Nobody ELSE o  BY <1>2, PageTyped, PageShapes
  <1>17. /\ q \in Resolution /\ q.step = "previous" /\ q.room = turn.room /\ q.number = turn.number
                /\ q.kind = turn.kind
         /\ q.actor = a /\ q.previous = h /\ q.back = turn.back
    <2>1. q = [turn EXCEPT !.step = "previous", !.previous = h]  BY <1>3, <1>16
    <2>. QED  BY <1>1, <2>1, PageTyped DEF Resolution
  <1>18. actors \subseteq Actor /\ Nobody \notin actors /\ \A b \in actors : b.room \in ProductRooms
    BY PageTyped, PageShapes
  <1>19. SelShapes'  BY <1>7, <1>12, <1>15, <1>17 DEF SelInv, SelShapes
  <1>20. NumbersFit'  BY <1>7, <1>8, <1>12, <1>17, TurnNumbers
  <1>22. TurnFits'
    <2>1. ~turn.back /\ a.mux => Subscribed(page.selected)'
      BY <1>8, <1>11, <1>12, <1>13, <1>15 DEF Subscribed
    <2>2. a \in actors \ page.left => a = s \/ (turn.back /\ a.mux)
      BY <1>8, <1>11
    <2>3. a.mux => Subscribed(turn.actor)'
      BY <1>8, <1>13, <1>15, <1>17, <1>7 DEF Subscribed
    <2>4. h \in actors \ page.left /\ h.mux => Subscribed(turn.previous)'
      BY <1>2, <1>7, <1>13, <1>15, <1>16, <1>17, <1>18, PageTyped DEF SelInv, PageFits, Subscribed
    <2>. QED
      BY <1>7, <1>8, <1>9, <1>11, <1>12, <1>13, <1>15, <1>16, <1>17, <1>18, <2>1, <2>2, <2>3, <2>4
           DEF TurnFits, Early
  <1>23. NoStrayActor'
    <2>1. \A b \in actors \ page.left : b = o \/ b = a \/ (b.mux /\ b.room \in book.mux
              /\ book.view[b.room].actor = b)
      BY <1>1, <1>2, <1>8, <1>18 DEF SelInv, PageFits, NoStrayActor
    <2>. QED  BY <1>7, <1>11, <1>12, <1>13, <1>15, <1>16, <1>17, <1>18, <2>1 DEF NoStrayActor
  <1>24. PageFits'
    <2>1. page'.conn # Nobody /\ page'.conn = page'.selected /\ page'.conn.mux => Subscribed(page.conn)'
      BY <1>2, <1>8, <1>11, <1>12, <1>13, <1>15, PageTyped DEF SelInv, PageFits, Subscribed
    <2>2. page'.selected \in actors' \ page'.left /\ page'.selected.mux => Subscribed(page.selected)'
      BY <1>2, <1>7, <1>8, <1>11, <1>12, <1>13, <1>15, PageTyped DEF SelInv, PageFits, Subscribed
    <2>3. page'.selected # Nobody /\ ~page'.selected.mux => page'.selected.room \notin book.mux
      BY <1>2, <1>8, <1>11, <1>12
    <2>4. page'.selected # Nobody => page'.hash = page'.selected.room
      BY <1>2, <1>8, <1>10, <1>11, <1>12 DEF SelInv, PageFits
    <2>5. /\ \A r \in ProductRooms : v[r].actor # Nobody => v[r].actor.room = r
          /\ \A r \in book.mux : v[r].actor # Nobody => v[r].actor.mux
      BY <1>13, PageTyped DEF SelInv, PageFits
    <2>. QED  BY <1>14, <1>15, <1>17, <1>7, <1>23, <2>1, <2>2, <2>3, <2>4, <2>5 DEF PageFits
  <1>25. Pursued'
    <2>1. CASE turn.back  BY <1>7, <1>12, <2>1 DEF SelInv, Pursued
    <2>2. CASE ~turn.back  BY <1>8, <1>9, <1>10, <1>12, <2>2 DEF Pursued
    <2>. QED  BY <2>1, <2>2
  <1>26. \A w \in observers : ProbeFits(w)'
    <2>1. TAKE w \in observers
    <2>2. ProbeFits(w) /\ w.room \in ProductRooms  BY PageTyped DEF SelInv
    <2>3. CASE w.number = page.gen
      <3>1. turn.number = 0 /\ ~turn.back  BY <1>7, <2>2, <2>3 DEF ProbeFits, StillCurrent
      <3>2. turn.kind = "join"  BY <1>7, <1>8, <3>1 DEF SelInv, NumbersFit, Numbered, SelShapes, Resolution
      <3>3. ~a.mux /\ d = book.details /\ s = a  BY <1>5, <1>8, <1>11, <3>1, <3>2
      <3>4. \A i \in DOMAIN line : line[i].kind # "join"  BY <3>2 DEF SelInv, NumbersFit
      <3>. QED  BY <1>7, <1>8, <1>12, <1>13, <1>15, <1>17, <2>2, <2>3, <3>1, <3>2, <3>3, <3>4 DEF ProbeFits
    <2>4. CASE w.number # page.gen  BY <1>12, <2>2, <2>4 DEF ProbeFits
    <2>. QED  BY <2>3, <2>4
  <1>. QED
    BY <1>7, <1>19, <1>20, <1>22, <1>24, <1>25, <1>26
         DEF SelInv, SelStays, OldStaysUsable, ObserverSparesAdmitted

\* The engine that was selected is closed unless it is subscribed.
LEMMA ClosePreviousHolds ==
    ASSUME SelInv, ClosePrevious
    PROVE  SelStays
  <1>1. PICK p : p = turn.previous  OBVIOUS
  <1>2. PICK gone \in BOOLEAN : gone <=> (p # Nobody /\ ~p.mux)  OBVIOUS
  <1>3. PICK q : q = [turn EXCEPT !.step = "finish", !.previous = Nobody]  OBVIOUS
  <1>4. PICK v : v = IF gone /\ book.view[p.room].actor = p THEN View(p.room, Nobody, "saved") ELSE book.view  OBVIOUS
  <1>5. /\ turn.step = "previous" /\ actors' = (IF gone THEN actors \ {p} ELSE actors) /\ turn' = q
        /\ UNCHANGED <<page, waiting, line, restoring, observers, deletion, pageFaults>>
        /\ book' = IF gone /\ book.view[p.room].actor = p THEN [book EXCEPT !.view = v] ELSE book
    BY <1>1, <1>2, <1>3, <1>4 DEF ClosePrevious, At
  <1>6. /\ turn.room \in ProductRooms /\ book.view[turn.room].actor = turn.actor /\ turn.actor # Nobody
        /\ (turn.back => p = Nobody /\ page.selected.mux /\ turn.kind # "join") /\ (~turn.back
               => turn.actor = page.selected)
        /\ p \in Person /\ (p \in actors \ page.left /\ p.mux => Subscribed(p))
    BY <1>1, <1>5, PageTyped DEF SelInv, TurnFits, NumbersFit
  <1>7. /\ v \in [ProductRooms -> Place]
        /\ \A r \in ProductRooms : v[r] # book.view[r] => gone /\ r = p.room /\ book.view[r].actor = p
               /\ v[r].actor = Nobody
    <2>1. gone => p.room \in ProductRooms  BY <1>2, <1>6, PageShapes DEF Person
    <2>2. [actor |-> Nobody, connection |-> "saved"] \in Place  BY PageShapes DEF Place, Connections
    <2>. QED  BY <1>4, <2>1, <2>2, PageTyped DEF View
  <1>8. /\ book' \in Book /\ book'.view = v /\ book'.mux = book.mux /\ book'.details = book.details
               /\ book'.indexed = book.indexed
    BY <1>4, <1>5, <1>7, PageTyped DEF Book
  <1>9. /\ q \in Resolution /\ q.step = "finish" /\ q.room = turn.room /\ q.number = turn.number
               /\ q.kind = turn.kind
        /\ q.actor = turn.actor /\ q.previous = Nobody /\ q.back = turn.back
    BY <1>3, PageTyped, PageShapes DEF Resolution
  <1>10. /\ actors' \subseteq actors /\ IsFiniteSet(actors') /\ Nobody \notin actors
                /\ \A b \in actors : b.room \in ProductRooms
         /\ \A b \in actors : b \in actors' \/ (gone /\ b = p)
    BY <1>5, PageTyped, PageShapes, FS_Subset
  <1>11. SelShapes'  BY <1>5, <1>8, <1>9, <1>10 DEF SelInv, SelShapes
  <1>12. NumbersFit'  BY <1>5, <1>6, <1>9, TurnNumbers
  <1>13. \A r \in ProductRooms : book.view[r].actor.mux => v[r] = book.view[r]
    BY <1>2, <1>7
  <1>14. \A b : Subscribed(b) => Subscribed(b)'  BY <1>8, <1>13, PageTyped DEF Subscribed
  <1>15. TurnFits'
    <2>1. ~turn.back => /\ page.selected # Nobody /\ page.selected.room = turn.room
                        /\ (page.selected.mux <=> turn.room \in book.mux)
                        /\ (page.selected.mux => Subscribed(page.selected))
      BY <1>5 DEF SelInv, TurnFits
    <2>2. page.selected.mux /\ ~turn.back => Subscribed(page.selected)'
      BY <2>1, <1>5, <1>8, <1>13, PageTyped DEF Subscribed
    <2>3. turn.actor \in actors \ page.left => turn.actor = page.selected \/ Subscribed(turn.actor)
      BY <1>5 DEF SelInv, TurnFits
    <2>4. turn.actor \in actors \ page.left => turn.actor = page.selected \/ Subscribed(turn.actor)'
      BY <2>3, <1>8, <1>9, <1>5, <1>13, PageTyped DEF Subscribed
    <2>5. turn.kind = "join" => turn.room \notin book.mux  BY <1>5 DEF SelInv, TurnFits
    <2>. QED  BY <1>5, <1>6, <1>8, <1>9, <1>10, <2>1, <2>2, <2>4, <2>5 DEF TurnFits, Early
  <1>16. NoStrayActor'
    <2>1. \A b \in actors \ page.left :
             b = page.selected \/ b = turn.actor \/ b = p \/ (b.mux /\ b.room \in book.mux
                 /\ book.view[b.room].actor = b)
      <3>1. NoStrayActor  BY DEF SelInv, PageFits
      <3>. QED  BY <1>1, <3>1 DEF NoStrayActor
    <2>2. p \in actors' \ page.left => p.mux /\ p.room \in book.mux /\ book.view[p.room].actor = p
      <3>1. ASSUME p \in actors' \ page.left  PROVE p.mux
        <4>1. p \in Actor /\ p # Nobody /\ p.mux \in BOOLEAN  BY <1>10, <3>1, PageTyped DEF Actor
        <4>. QED  BY <1>2, <1>5, <3>1, <4>1
      <3>. QED  BY <1>6, <1>10, <3>1 DEF Subscribed
    <2>3. \A b \in actors' \ page.left :
             b = page.selected \/ b = turn.actor \/ (b.mux /\ b.room \in book.mux
                 /\ book.view[b.room].actor = b)
      BY <1>10, <2>1, <2>2
    <2>4. \A b \in actors : b.mux /\ book.view[b.room].actor = b => v[b.room].actor = b
      BY <1>10, <1>13
    <2>. QED  BY <1>5, <1>8, <1>9, <1>10, <2>3, <2>4 DEF NoStrayActor
  <1>17. PageFits'
    <2>1. page.conn # Nobody /\ page.conn = page.selected /\ page.conn.mux => Subscribed(page.conn)'
      BY <1>5, <1>8, <1>13, PageTyped DEF SelInv, PageFits, Subscribed
    <2>2. page.selected \in actors \ page.left /\ page.selected.mux => Subscribed(page.selected)'
      BY <1>5, <1>8, <1>13, PageTyped DEF SelInv, PageFits, Subscribed
    <2>3. /\ \A r \in ProductRooms : v[r].actor # Nobody => v[r].actor.room = r
          /\ \A r \in book.mux : v[r].actor # Nobody => v[r].actor.mux
      BY <1>7, PageTyped DEF SelInv, PageFits
    <2>4. page.selected # Nobody /\ ~page.selected.mux => page.selected.room \notin book.mux
      BY <1>5 DEF SelInv, PageFits
    <2>. QED  BY <1>5, <1>8, <1>9, <1>10, <1>16, <2>1, <2>2, <2>3, <2>4 DEF SelInv, PageFits
  <1>18. Pursued'  BY <1>5, <1>9 DEF SelInv, Pursued, Early
  <1>19. \A w \in observers : ProbeFits(w)'
    <2>1. TAKE w \in observers
    <2>2. ProbeFits(w) /\ w.room \in ProductRooms  BY PageTyped DEF SelInv
    <2>3. CASE w.number = page.gen
      <3>1. turn.number # page.gen /\ ~turn.back /\ turn.kind = "join"  BY <1>5, <2>2, <2>3 DEF ProbeFits
      <3>2. ASSUME page.selected \in actors' \ w.known, page.selected.room = w.room
            PROVE  v[w.room] = book.view[w.room]
        <4>1. page.selected # Nobody /\ page.selected.room = turn.room  BY <1>5, <3>1 DEF SelInv, TurnFits
        <4>2. gone => p # page.selected  BY <1>5, <3>2
        <4>. QED  BY <1>6, <1>7, <2>2, <3>1, <3>2, <4>1, <4>2
      <3>. QED  BY <1>5, <1>8, <1>9, <1>10, <2>2, <2>3, <3>1, <3>2 DEF ProbeFits
    <2>4. CASE w.number # page.gen  BY <1>5, <2>2, <2>4 DEF ProbeFits
    <2>. QED  BY <2>3, <2>4
  <1>20. OldStaysUsable
    <2>1. ASSUME page.selected \in actors, page.selected \notin actors'
          PROVE  turn.room = page.selected.room
      <3>1. gone /\ p = page.selected /\ p # Nobody  BY <1>2, <1>10, <2>1
      <3>2. ~turn.back  BY <1>6, <3>1
      <3>. QED  BY <1>5, <3>2 DEF SelInv, TurnFits
    <2>. QED  BY <2>1 DEF OldStaysUsable
  <1>. QED
    BY <1>5, <1>11, <1>12, <1>15, <1>17, <1>18, <1>19, <1>20 DEF SelInv, SelStays, ObserverSparesAdmitted

\* What the finish of a resolution leaves: its engine is selected, subscribed
\* or gone.
LEMMA FinishedTurn ==
    ASSUME SelInv, turn.step = "finish", NEW q \in Resolution, turn' = q, q.actor = Nobody, q.previous = Nobody,
           \/ q = NoTurn
           \/ /\ q.step = "candidate" /\ q.kind = turn.kind /\ q.number = turn.number /\ q.back
                  /\ q.room \notin book.mux
              /\ turn.back \/ turn.room \in book.mux,
           UNCHANGED <<book, actors, waiting, line, observers>>, page' \in Page, page'.selected = page.selected,
           page'.hash = page.hash, page'.left = page.left, page'.locked = page.locked, page'.gen = page.gen,
           page'.asked = page.asked, page'.conn = IF turn.back THEN page.conn ELSE page.selected
    PROVE  TurnFits' /\ PageFits' /\ Pursued' /\ \A w \in observers : ProbeFits(w)'
  <1>1. /\ turn.previous = Nobody /\ (turn.back => page.selected.mux /\ turn.kind # "join")
        /\ ~turn.back => /\ page.selected # Nobody /\ page.selected.room = turn.room
                         /\ (page.selected.mux <=> turn.room \in book.mux)
                         /\ (page.selected.mux => Subscribed(page.selected))
        /\ turn.actor \in actors \ page.left => turn.actor = page.selected \/ Subscribed(turn.actor)
        /\ turn.kind = "join" => turn.room \notin book.mux
    BY DEF SelInv, TurnFits
  <1>2. /\ q.step \in {"none", "candidate"} /\ (q.step = "candidate" => q # NoTurn)
        /\ q = NoTurn => q.step = "none" /\ ~q.back /\ q.kind = "none" /\ q.number = 0
    BY DEF NoTurn
  <1>3. q.step = "candidate" => turn.kind # "join" /\ page.selected.mux /\ q.kind # "join"  BY <1>1, <1>2
  <1>4. Nobody \notin actors /\ \A b \in actors : b.room \in ProductRooms  BY PageTyped, PageShapes
  <1>5. TurnFits'  BY <1>1, <1>2, <1>3, <1>4 DEF TurnFits
  <1>6. NoStrayActor'
    <2>1. \A b \in actors \ page.left : b = page.selected \/ (b.mux /\ b.room \in book.mux
              /\ book.view[b.room].actor = b)
      BY <1>1, <1>4 DEF SelInv, PageFits, NoStrayActor, Subscribed
    <2>. QED  BY <2>1 DEF NoStrayActor
  <1>7. PageFits'
    <2>1. page'.conn # Nobody /\ page'.conn = page'.selected /\ page'.conn.mux => Subscribed(page.conn)'
      BY <1>1 DEF SelInv, PageFits, Subscribed
    <2>2. page.selected \in actors \ page.left /\ page.selected.mux => Subscribed(page.selected)'
      BY DEF SelInv, PageFits, Subscribed
    <2>3. page.selected # Nobody /\ ~page.selected.mux => page.selected.room \notin book.mux
              /\ page'.conn = page'.selected
      BY <1>1 DEF SelInv, PageFits
    <2>. QED  BY <1>6, <2>1, <2>2, <2>3 DEF SelInv, PageFits
  <1>8. Pursued'  BY <1>2 DEF SelInv, Pursued, Early
  <1>9. ASSUME NEW w \in observers  PROVE ProbeFits(w)'
    <2>1. ProbeFits(w)  BY DEF SelInv
    <2>2. w.number = page.gen => turn.kind = "join" /\ q = NoTurn /\ page.gen # 0
      BY <1>2, <1>3, <2>1, PageTyped DEF ProbeFits
    <2>. QED  BY <1>2, <2>1, <2>2 DEF ProbeFits
  <1>. QED  BY <1>5, <1>7, <1>8, <1>9

\* The resolution ends, or goes on with the next room in the background.
LEMMA FinishHolds ==
    ASSUME SelInv, Finish
    PROVE  SelStays
  <1>1. turn.step = "finish" /\ UNCHANGED <<book, actors, waiting, line, observers, deletion, pageFaults>>
    BY DEF Finish, At
  <1>2. PICK c \in Person : c = IF turn.back THEN page.conn ELSE page.selected  BY PageTyped
  <1>3. restoring \in [number : {1}, todo : SUBSET ProductRooms]  BY DEF SelInv, SelShapes
  <1>4. CASE Over
    <2>1. PICK q : q = IF turn.number = page.gen THEN Nothing ELSE page.pending  OBVIOUS
    <2>2. turn' = NoTurn /\ page' = [page EXCEPT !.conn = c, !.pending = q]
      BY <1>2, <1>4, <2>1 DEF Over
    <2>3. q \in [room : ProductRooms \cup {"none"}, number : Nat]  BY <2>1, PageTyped, PageShapes DEF Page
    <2>4. restoring' \in [number : {1}, todo : SUBSET ProductRooms]  BY <1>3, <1>4 DEF Over
    <2>5. /\ page' \in Page /\ page'.selected = page.selected /\ page'.hash = page.hash
                 /\ page'.left = page.left /\ page'.conn = c
          /\ page'.locked = page.locked /\ page'.gen = page.gen /\ page'.asked = page.asked
      BY <2>2, <2>3, PageTyped DEF Page
    <2>6. NoTurn \in Resolution /\ NoTurn.actor = Nobody /\ NoTurn.previous = Nobody  BY PageShapes DEF NoTurn
    <2>7. SelShapes'  BY <1>1, <2>2, <2>4, <2>5, <2>6 DEF SelInv, SelShapes
    <2>8. NumbersFit'  BY <1>1, <2>2, <2>5, <2>6, TurnNumbers
    <2>9. TurnFits' /\ PageFits' /\ Pursued' /\ \A w \in observers : ProbeFits(w)'
      BY <1>1, <1>2, <2>2, <2>5, <2>6, FinishedTurn
    <2>. QED  BY <1>1, <2>7, <2>8, <2>9 DEF SelInv, SelStays, OldStaysUsable, ObserverSparesAdmitted
  <1>5. CASE ~Over
    <2>1. PICK r \in NextBackground(turn.tried) :
             /\ turn.back \/ turn.room \in book.mux
             /\ turn' = [turn EXCEPT !.step = "candidate", !.room = r, !.back = TRUE, !.tried = turn.tried \cup {r}, !.actor = Nobody]
             /\ page' = [page EXCEPT !.conn = IF turn.back THEN page.conn ELSE page.selected]
             /\ UNCHANGED restoring
      BY <1>5 DEF Finish
    <2>2. PICK q : q = [turn EXCEPT !.step = "candidate", !.room = r, !.back = TRUE, !.tried = turn.tried \cup {r}, !.actor = Nobody]
      OBVIOUS
    <2>3. turn' = q /\ page' = [page EXCEPT !.conn = c]  BY <1>2, <2>1, <2>2
    <2>4. r \in ProductRooms /\ r \notin book.mux
      BY PageTyped DEF NextBackground, Book
    <2>5. turn.previous = Nobody  BY <1>1 DEF SelInv, TurnFits
    <2>6. /\ q \in Resolution /\ q.step = "candidate" /\ q.room = r /\ q.number = turn.number
                 /\ q.kind = turn.kind
          /\ q.actor = Nobody /\ q.previous = Nobody /\ q.back
      BY <2>2, <2>4, <2>5, PageTyped, PageShapes DEF Resolution
    <2>7. /\ page' \in Page /\ page'.selected = page.selected /\ page'.hash = page.hash
                 /\ page'.left = page.left /\ page'.conn = c
          /\ page'.locked = page.locked /\ page'.gen = page.gen /\ page'.asked = page.asked
      BY <2>3, PageTyped DEF Page
    <2>8. SelShapes'  BY <1>1, <2>1, <2>3, <2>6, <2>7 DEF SelInv, SelShapes
    <2>9. NumbersFit'  BY <1>1, <2>3, <2>4, <2>6, <2>7, TurnNumbers
    <2>10. TurnFits' /\ PageFits' /\ Pursued' /\ \A w \in observers : ProbeFits(w)'
      BY <1>1, <1>2, <2>1, <2>3, <2>4, <2>6, <2>7, FinishedTurn
    <2>. QED  BY <1>1, <2>8, <2>9, <2>10 DEF SelInv, SelStays, OldStaysUsable, ObserverSparesAdmitted
  <1>. QED  BY <1>4, <1>5

\* An opening that fails closes the engine that was made for it and no other,
\* and its probe knows every engine there is.
LEMMA ResolveFailsHolds ==
    ASSUME SelInv, NEW terminal \in BOOLEAN, ResolveFails(terminal)
    PROVE  SelStays
  <1>1. PICK a : a = turn.actor  OBVIOUS
  <1>2. PICK o : o = Opening(turn.room, turn.number, turn.kind)  OBVIOUS
  <1>3. PICK made \in BOOLEAN : made <=> turn.step = "connect"  OBVIOUS
  <1>4. PICK m : m = IF made /\ a.mux THEN book.mux \ {a.room} ELSE book.mux  OBVIOUS
  <1>5. PICK d : d = IF made /\ a.mux THEN book.details \ {a.room} ELSE book.details  OBVIOUS
  <1>6. PICK v : v = IF made THEN View(a.room, Nobody, IF terminal THEN "failed" ELSE "disconnected") ELSE book.view  OBVIOUS
  <1>7. PICK b : b = [book EXCEPT !.mux = m, !.details = d, !.view = v]  OBVIOUS
  <1>8. /\ turn.room \in ProductRooms /\ Numbered(turn.kind, turn.number) /\ turn.kind # "none"
               /\ turn.previous = Nobody
        /\ (made => /\ a \in Actor /\ a.room = turn.room /\ a # page.selected /\ book.view[turn.room].actor = a
                    /\ (a.mux <=> turn.room \in book.mux))
        /\ (~made => a = Nobody) /\ (turn.back => page.selected.mux /\ turn.kind # "join")
        /\ turn.step \in {"same", "superseded", "reuse", "candidate", "connect"}
    BY <1>1, <1>3 DEF SelInv, TurnFits, NumbersFit, Early, ResolveFails
  <1>9. a.mux \in BOOLEAN /\ (made => a # Nobody)  BY <1>1, <1>8, PageTyped, PageShapes DEF Person, Actor
  <1>10. /\ actors' = (IF made THEN actors \ {a} ELSE actors)
         /\ UNCHANGED <<waiting, line, deletion>>
         /\ turn.back => book' = b /\ turn' = [turn EXCEPT !.step = "finish"]
                /\ UNCHANGED <<page, restoring, observers>>
         /\ ~turn.back =>
              /\ turn' = NoTurn /\ book' = Row(b, o, terminal) /\ Answered(o)
              /\ observers' = IF o.kind = "open" /\ StillCurrent(o.number)
                              THEN observers \cup {[room |-> o.room, number |-> o.number, known |-> actors']} ELSE observers
    <2>1. book \in Book  BY PageTyped
    <2>2. (IF a = Nobody \/ ~At("connect") THEN book
           ELSE [book EXCEPT !.mux = IF a.mux THEN @ \ {a.room} ELSE @, !.details = IF a.mux THEN @ \ {a.room} ELSE @,
                             !.view = View(a.room, Nobody, IF terminal THEN "failed" ELSE "disconnected")]) = b
      <3>1. CASE ~made
        <4>1. b = [book EXCEPT !.mux = book.mux, !.details = book.details, !.view = book.view]
          BY <1>4, <1>5, <1>6, <1>7, <3>1
        <4>2. b = book  BY <2>1, <4>1 DEF Book
        <4>. QED  BY <1>3, <3>1, <4>2 DEF At
      <3>2. CASE made
        BY <1>3, <1>4, <1>5, <1>6, <1>7, <1>9, <2>1, <3>2 DEF At, Book
      <3>. QED  BY <3>1, <3>2
    <2>3. AfterFailure(a) = IF made THEN actors \ {a} ELSE actors  BY <1>3 DEF AfterFailure, At
    <2>. QED  BY <1>1, <1>2, <2>2, <2>3 DEF ResolveFails, Goto
  <1>11. /\ v \in [ProductRooms -> Place] /\ \A r \in ProductRooms \ {turn.room} : v[r] = book.view[r]
         /\ (made => v[turn.room].actor = Nobody) /\ (~made => v = book.view)
    <2>1. PICK c : c = IF terminal THEN "failed" ELSE "disconnected"  OBVIOUS
    <2>2. [actor |-> Nobody, connection |-> c] \in Place  BY <2>1, PageShapes DEF Place, Connections
    <2>. QED  BY <1>6, <1>8, <2>1, <2>2, PageTyped DEF View
  <1>12. /\ m \subseteq ProductRooms /\ d \subseteq ProductRooms
         /\ (made => turn.room \notin m /\ turn.room \notin d) /\ (~made => m = book.mux /\ d = book.details)
         /\ d \subseteq m /\ d \subseteq book.details /\ m \subseteq book.mux
         /\ \A r \in ProductRooms \ {turn.room} : r \in m <=> r \in book.mux
    <2>1. book.details \subseteq book.mux  BY DEF SelInv, PageFits
    <2>. QED  BY <1>4, <1>5, <1>8, <1>9, <2>1, PageTyped DEF Book
  <1>13. b \in Book /\ b.view = v /\ b.mux = m /\ b.details = d /\ b.indexed = book.indexed
    BY <1>7, <1>11, <1>12, PageTyped DEF Book
  <1>14. /\ actors' \subseteq actors /\ IsFiniteSet(actors') /\ Nobody \notin actors
                /\ \A e \in actors : e.room \in ProductRooms
         /\ \A e \in actors : e \in actors' \/ (made /\ e = a)
         /\ made => a \notin actors'
    BY <1>10, PageTyped, PageShapes, FS_Subset
  <1>15. o \in Openings /\ o.room = turn.room /\ o.number = turn.number /\ o.kind = turn.kind
             /\ o.number \in Nat
    BY <1>2, <1>8, PageTyped DEF Opening, Openings, Resolution
  <1>16. PICK q \in Resolution : /\ turn' = q /\ (turn.back => q.step = "finish" /\ q.room = turn.room /\ q.number = turn.number /\ q.kind = turn.kind
                                                            /\ q.actor = a /\ q.previous = Nobody /\ q.back)
                                 /\ (~turn.back => q = NoTurn)
    <2>1. CASE turn.back
      <3>1. PICK q : q = [turn EXCEPT !.step = "finish"]  OBVIOUS
      <3>2. /\ q \in Resolution /\ q.step = "finish" /\ q.room = turn.room /\ q.number = turn.number
                   /\ q.kind = turn.kind
            /\ q.actor = a /\ q.previous = Nobody /\ q.back
        BY <1>1, <1>8, <2>1, <3>1, PageTyped DEF Resolution
      <3>. QED  BY <1>10, <2>1, <3>1, <3>2
    <2>2. CASE ~turn.back  BY <1>10, <2>2, PageShapes
    <2>. QED  BY <2>1, <2>2
  <1>17. /\ book' \in Book /\ book'.mux = m /\ book'.details = d
         /\ \A r \in ProductRooms : book'.view[r].actor = v[r].actor
         /\ \A r \in ProductRooms : book'.view[r].connection # v[r].connection =>
               ~turn.back /\ o.kind # "join" /\ StillCurrent(o.number) /\ r = o.room
    <2>1. CASE turn.back  BY <1>10, <1>13, <2>1
    <2>2. CASE ~turn.back  BY <1>10, <1>13, <1>15, <2>2, RowFits
    <2>. QED  BY <2>1, <2>2
  <1>18. /\ page' \in Page /\ page'.selected = page.selected /\ page'.hash = page.hash
                /\ page'.conn = page.conn
         /\ page'.locked = page.locked /\ page'.left = page.left /\ page'.gen = page.gen
         /\ restoring' \in [number : {1}, todo : SUBSET ProductRooms]
         /\ page'.asked.ok => page.asked.ok /\ page'.asked.room = page.asked.room
         /\ ~turn.back /\ o.kind # "join" /\ StillCurrent(o.number) => ~page'.asked.ok
    <2>1. CASE turn.back
      <3>1. restoring \in [number : {1}, todo : SUBSET ProductRooms]  BY DEF SelInv, SelShapes
      <3>. QED  BY <1>10, <2>1, <3>1, PageTyped
    <2>2. CASE ~turn.back  BY <1>10, <1>15, <2>2, AnsweredFits
    <2>. QED  BY <2>1, <2>2
  <1>19. \A w \in observers' : w \in observers \/ (/\ ~turn.back /\ o.kind = "open" /\ StillCurrent(o.number)
                                                   /\ w.room = o.room /\ w.number = o.number
                                        /\ w.known = actors' /\ w \in Observer)
    <2>1. PICK w : w = [room |-> o.room, number |-> o.number, known |-> actors']  OBVIOUS
    <2>2. w \in Observer /\ w.room = o.room /\ w.number = o.number /\ w.known = actors'
      BY <1>8, <1>14, <1>15, <2>1, PageTyped DEF Observer
    <2>3. turn.back \/ ~(o.kind = "open" /\ StillCurrent(o.number)) => observers' = observers  BY <1>10
    <2>4. ~turn.back /\ o.kind = "open" /\ StillCurrent(o.number) => observers' = observers \cup {w}
      BY <1>10, <2>1
    <2>. QED  BY <2>2, <2>3, <2>4
  <1>20. observers \subseteq observers'  BY <1>10
  <1>21. SelShapes'
    <2>1. observers' \subseteq Observer  BY <1>19 DEF SelInv, SelShapes
    <2>2. actors' \subseteq Actor  BY <1>14, PageTyped
    <2>. QED  BY <1>10, <1>14, <1>16, <1>17, <1>18, <2>1, <2>2 DEF SelInv, SelShapes
  <1>22. NumbersFit'  BY <1>8, <1>10, <1>16, <1>18, TurnNumbers
  <1>23. /\ q.step \in {"none", "finish"} /\ (q.step = "finish" <=> turn.back)
         /\ ~turn.back => ~q.back /\ q.number = 0 /\ q.kind = "none" /\ q.actor = Nobody
                /\ q.previous = Nobody
    BY <1>16 DEF NoTurn
  <1>24. TurnFits'
    <2>1. a \notin actors'  BY <1>8, <1>14
    <2>2. turn.back => page'.selected.mux /\ turn.kind # "join"  BY <1>8, <1>18
    <2>3. Nobody \notin actors'  BY <1>14
    <2>. QED  BY <1>16, <1>23, <2>1, <2>2, <2>3 DEF TurnFits, Early
  <1>25. NoStrayActor'
    <2>1. \A e \in actors \ page.left : e = page.selected \/ e = a \/ (e.mux /\ e.room \in book.mux
              /\ book.view[e.room].actor = e)
      <3>1. NoStrayActor  BY DEF SelInv, PageFits
      <3>. QED  BY <1>1, <1>8, <1>14, <3>1 DEF NoStrayActor
    <2>2. \A e \in actors' \ page.left : e = page.selected \/ (e.mux /\ e.room \in book.mux
              /\ book.view[e.room].actor = e)
      BY <1>8, <1>14, <2>1
    <2>3. \A e \in actors' \ page.left : e = page.selected \/ (e.mux /\ e.room \in m /\ v[e.room].actor = e)
      BY <1>8, <1>11, <1>12, <1>14, <2>2
    <2>. QED  BY <1>14, <1>17, <1>18, <2>3 DEF NoStrayActor
  <1>26. PageFits'
    <2>1. page.conn # Nobody /\ page.conn = page.selected /\ page.conn.mux => Subscribed(page.conn)'
      BY <1>8, <1>11, <1>12, <1>17, <1>18, PageTyped DEF SelInv, PageFits, Subscribed
    <2>2. page.selected \in actors' \ page.left /\ page.selected.mux => Subscribed(page.selected)'
      BY <1>8, <1>11, <1>12, <1>14, <1>17, <1>18, PageTyped DEF SelInv, PageFits, Subscribed
    <2>3. page.selected # Nobody /\ ~page.selected.mux => page.conn = page.selected
      BY <1>8 DEF SelInv, PageFits
    <2>4. page.selected # Nobody /\ ~page.selected.mux => page.selected.room \notin m
      BY <1>3, <1>12 DEF SelInv, PageFits
    <2>5. /\ \A r \in ProductRooms : v[r].actor # Nobody => v[r].actor.room = r
          /\ \A r \in m : v[r].actor # Nobody => v[r].actor.mux
      BY <1>8, <1>11, <1>12, PageTyped DEF SelInv, PageFits
    <2>6. page.selected # Nobody => page.hash = page.selected.room  BY DEF SelInv, PageFits
    <2>. QED  BY <1>12, <1>17, <1>18, <1>25, <2>1, <2>2, <2>3, <2>4, <2>5, <2>6 DEF PageFits
  <1>27. Pursued'
    <2>1. SUFFICES ASSUME page'.asked.ok
                   PROVE  Pursued'
      BY DEF Pursued
    <2>2. page.asked.ok /\ page'.asked.room = page.asked.room  BY <1>18, <2>1
    <2>3. ~turn.back => turn.number # page.gen
      <3>1. turn.kind = "join" => turn.number = 0  BY <1>8 DEF Numbered
      <3>2. turn.kind = "join" => turn.number # page.gen  BY <3>1, PageTyped
      <3>. QED  BY <1>15, <1>18, <2>1, <3>2 DEF StillCurrent
    <2>. QED  BY <1>10, <1>18, <2>2, <2>3 DEF SelInv, Pursued
  <1>28. \A w \in observers' : ProbeFits(w)'
    <2>1. TAKE w \in observers'
    <2>2. CASE w \in observers
      <3>1. ProbeFits(w) /\ w.room \in ProductRooms  BY <2>2, PageTyped DEF SelInv
      <3>2. CASE w.number = page.gen
        <4>1. turn.number # page.gen /\ ~turn.back /\ page.gen >= 2  BY <3>1, <3>2 DEF ProbeFits
        <4>2. StillCurrent(o.number) => o.kind = "join"
          BY <1>8, <1>15, <4>1, PageTyped DEF StillCurrent, Numbered, Openings
        <4>3. \A r \in ProductRooms : book'.view[r].connection = v[r].connection  BY <1>17, <4>2
        <4>4. ASSUME page.selected \in actors' \ w.known, page.selected.room = w.room
              PROVE  book'.view[w.room].connection = book.view[w.room].connection
          <5>1. made => turn.room # w.room  BY <1>3, <1>14, <3>1, <3>2, <4>4 DEF ProbeFits
          <5>. QED  BY <1>11, <3>1, <4>3, <5>1
        <4>5. w.room \in book'.details => w.room \in book.details  BY <1>12, <1>17
        <4>6. turn'.number = 0 /\ ~turn'.back /\ turn'.step = "none" /\ turn'.kind = "none"
          BY <1>16, <1>23, <4>1
        <4>. QED  BY <1>10, <1>14, <1>18, <3>1, <3>2, <4>1, <4>4, <4>5, <4>6 DEF ProbeFits
      <3>3. CASE w.number # page.gen  BY <1>18, <3>1, <3>3 DEF ProbeFits
      <3>. QED  BY <3>2, <3>3
    <2>3. CASE w \notin observers
      <3>1. ~turn.back /\ o.kind = "open" /\ StillCurrent(o.number) /\ w.room = o.room
                /\ w.number = o.number /\ w.known = actors'
        BY <1>19, <2>3
      <3>2. w.number = page.gen /\ w.number >= 2 /\ turn.number = page.gen
        BY <1>8, <1>15, <3>1, PageTyped DEF StillCurrent, Numbered
      <3>3. (\A p \in waiting : p.number # page.gen) /\ (\A i \in DOMAIN line : line[i].number # page.gen)
        BY <3>2 DEF SelInv, NumbersFit
      <3>4. turn'.number = 0 /\ ~turn'.back /\ turn'.step = "none" /\ turn'.kind = "none"
        BY <1>16, <1>23, <3>1
      <3>5. page.gen <= page.gen /\ page.gen >= 2  BY <3>2, PageTyped
      <3>. QED  BY <1>10, <1>18, <3>1, <3>2, <3>3, <3>4, <3>5 DEF ProbeFits
    <2>. QED  BY <2>2, <2>3
  <1>29. OldStaysUsable  BY <1>8, <1>14 DEF OldStaysUsable
  <1>30. ObserverSparesAdmitted  BY <1>20 DEF ObserverSparesAdmitted
  <1>. QED  BY <1>21, <1>22, <1>24, <1>26, <1>27, <1>28, <1>29, <1>30 DEF SelInv, SelStays

\* A probe that answers late takes its room off the list only if nothing was
\* asked for since and the room is not connected.
LEMMA ApplyTerminalHolds ==
    ASSUME SelInv, NEW o \in observers, ApplyTerminal(o)
    PROVE  SelStays
  <1>1. PICK now \in BOOLEAN : now <=> ObservationCurrent(o)  BY DEF ObservationCurrent
  <1>2. PICK s : s = book.indexed \ {o.room}  OBVIOUS
  <1>3. PICK v : v = [book.view EXCEPT ![o.room].connection = "failed"]  OBVIOUS
  <1>4. /\ observers' = observers \ {o}
               /\ UNCHANGED <<page, actors, waiting, line, turn, restoring, deletion, pageFaults>>
        /\ book' = IF now THEN [book EXCEPT !.indexed = s, !.view[o.room].connection = "failed"] ELSE book
    BY <1>1, <1>2 DEF ApplyTerminal
  <1>5. o.room \in ProductRooms /\ book \in Book  BY PageTyped
  <1>6. /\ v \in [ProductRooms -> Place] /\ \A r \in ProductRooms : v[r].actor = book.view[r].actor
        /\ \A r \in ProductRooms \ {o.room} : v[r] = book.view[r]
    BY <1>3, <1>5, PageTyped DEF Place, Connections
  <1>7. /\ book' \in Book /\ book'.mux = book.mux /\ book'.details = book.details
        /\ (now => book'.view = v /\ book'.indexed = s) /\ (~now => book' = book)
    <2>1. CASE now
      <3>1. book' = [book EXCEPT !.indexed = s, !.view = v]  BY <1>3, <1>4, <1>5, <2>1 DEF Book
      <3>2. s \subseteq ProductRooms  BY <1>2, <1>5 DEF Book
      <3>. QED  BY <1>5, <1>6, <2>1, <3>1, <3>2 DEF Book
    <2>2. CASE ~now  BY <1>4, <1>5, <2>2
    <2>. QED  BY <2>1, <2>2
  <1>8. /\ \A r \in ProductRooms : book'.view[r].actor = book.view[r].actor
        /\ \A r \in ProductRooms : book'.view[r] # book.view[r] => now /\ r = o.room
    BY <1>6, <1>7
  <1>9. SelShapes'
    <2>1. observers' \subseteq Observer  BY <1>4 DEF SelInv, SelShapes
    <2>. QED  BY <1>4, <1>7, <2>1 DEF SelInv, SelShapes
  <1>10. NumbersFit'
    <2>1. \A k, m : Numbered(k, m)' <=> Numbered(k, m)  BY <1>4, NumberedStays
    <2>. QED  BY <1>4, <2>1 DEF SelInv, NumbersFit
  <1>11. TurnFits' /\ PageFits'  BY <1>4, <1>7, <1>8, RowsStay
  <1>12. Pursued'  BY <1>4 DEF SelInv, Pursued
  <1>13. now => page.gen = o.number /\ book.view[o.room].connection # "connected"
    BY <1>1 DEF ObservationCurrent
  <1>14. \A w \in observers' : ProbeFits(w)'
    <2>1. TAKE w \in observers'
    <2>2. ProbeFits(w) /\ w.room \in ProductRooms  BY <1>4, PageTyped DEF SelInv
    <2>3. ASSUME w.number = page.gen, page.selected \in actors \ w.known, page.selected.room = w.room
          PROVE  book'.view[w.room] = book.view[w.room]
      BY <1>8, <1>13, <2>2, <2>3 DEF ProbeFits
    <2>. QED  BY <1>4, <1>7, <2>2, <2>3 DEF ProbeFits
  <1>15. ObserverSparesAdmitted
    <2>1. SUFFICES ASSUME NEW p \in observers \ observers', NEW a \in actors \ p.known, a = page.selected
                              \/ a.room \in book.details
                   PROVE  a.room \notin book.indexed \ book'.indexed
      BY DEF ObserverSparesAdmitted
    <2>2. p = o /\ ProbeFits(o)  BY <1>4 DEF SelInv
    <2>3. SUFFICES ASSUME a.room \in book.indexed \ book'.indexed
                   PROVE  FALSE
      OBVIOUS
    <2>4. now /\ a.room = o.room  BY <1>2, <1>7, <2>3
    <2>. QED  BY <1>13, <2>1, <2>2, <2>4 DEF ProbeFits
  <1>. QED  BY <1>4, <1>9, <1>10, <1>11, <1>12, <1>14, <1>15 DEF SelInv, SelStays, OldStaysUsable

\* A step that touches neither the openings nor the numbers.
LEMMA BesideHolds ==
    ASSUME SelInv, UNCHANGED <<waiting, line, turn, restoring, observers>>, page' \in Page, page'.gen = page.gen,
           page'.selected = page.selected, page'.hash = page.hash, page'.conn = page.conn, page'.left = page.left,
           page'.asked = page.asked \/ ~page'.asked.ok, deletion' \in {"none", "closed", "over"},
           deletion' # "none" => page'.locked,
           book' \in Book, book'.mux = book.mux, book'.details = book.details, book'.view = book.view,
           actors' \subseteq actors, actors' = actors \/ page'.locked
    PROVE  SelStays
  <1>1. IsFiniteSet(actors') /\ actors' \subseteq Actor  BY PageTyped, FS_Subset
  <1>2. SelShapes'  BY <1>1 DEF SelInv, SelShapes
  <1>3. NumbersFit'
    <2>1. \A k, m : Numbered(k, m)' <=> Numbered(k, m)  BY NumberedStays
    <2>. QED  BY <2>1 DEF SelInv, NumbersFit
  <1>4. TurnFits' /\ PageFits'  BY RowsStay
  <1>5. Pursued'  BY DEF SelInv, Pursued
  <1>6. \A w \in observers : ProbeFits(w)'
    <2>1. TAKE w \in observers
    <2>2. ProbeFits(w)  BY DEF SelInv
    <2>. QED  BY <2>2 DEF ProbeFits
  <1>. QED  BY <1>2, <1>3, <1>4, <1>5, <1>6 DEF SelInv, SelStays, OldStaysUsable, ObserverSparesAdmitted

\* A contact's verification comes or goes.
LEMMA ContactHolds ==
    ASSUME SelInv, VerifyContact \/ \E a \in actors : ContactChanges(a)
    PROVE  SelStays
  <1>1. page \in Page /\ book \in Book /\ deletion \in {"none", "closed", "over"} /\ (deletion # "none"
            => page.locked)
    BY DEF SelInv, SelShapes
  <1>2. PICK s : book' = [book EXCEPT !.eligible = s] /\ s \subseteq ProductRooms
    <2>1. CASE VerifyContact
      <3>1. page.selected.room \in ProductRooms  BY <2>1, PageTyped, PageShapes DEF VerifyContact
      <3>2. book' = [book EXCEPT !.eligible = book.eligible \cup {page.selected.room}]
        BY <2>1 DEF VerifyContact
      <3>3. book.eligible \cup {page.selected.room} \subseteq ProductRooms  BY <1>1, <3>1 DEF Book
      <3>. QED  BY <3>2, <3>3
    <2>2. CASE \E a \in actors : ContactChanges(a)
      <3>1. PICK a \in actors : ContactChanges(a)  BY <2>2
      <3>2. book' = [book EXCEPT !.eligible = book.eligible \ {a.room}]  BY <3>1 DEF ContactChanges
      <3>3. book.eligible \ {a.room} \subseteq ProductRooms  BY <1>1 DEF Book
      <3>. QED  BY <3>2, <3>3
    <2>. QED  BY <2>1, <2>2
  <1>3. book' \in Book /\ book'.mux = book.mux /\ book'.details = book.details /\ book'.view = book.view
    BY <1>1, <1>2 DEF Book
  <1>4. page' = page
    <2>1. CASE VerifyContact  BY <2>1 DEF VerifyContact
    <2>2. CASE \E a \in actors : ContactChanges(a)
      <3>1. PICK a \in actors : ContactChanges(a)  BY <2>2
      <3>2. CASE page.selected = a
        <4>1. page' = [page EXCEPT !.hash = a.room]  BY <3>1, <3>2 DEF ContactChanges, Projects
        <4>2. page.hash = a.room  BY <3>2, PageTyped, PageShapes DEF SelInv, PageFits
        <4>. QED  BY <1>1, <4>1, <4>2 DEF Page
      <3>3. CASE page.selected # a  BY <3>1, <3>3 DEF ContactChanges, Projects
      <3>. QED  BY <3>2, <3>3
    <2>. QED  BY <2>1, <2>2
  <1>5. UNCHANGED <<actors, waiting, line, turn, restoring, observers, deletion>>
    BY DEF VerifyContact, ContactChanges
  <1>. QED  BY <1>1, <1>3, <1>4, <1>5, BesideHolds

\* The conversation on the page is deleted, which locks the page.
LEMMA DeletionHolds ==
    ASSUME SelInv, DeleteRoom \/ RemoveDescriptor
    PROVE  SelStays
  <1>1. page \in Page /\ book \in Book /\ (deletion # "none" => page.locked)  BY DEF SelInv, SelShapes
  <1>2. CASE DeleteRoom
    <2>1. /\ actors' \subseteq actors /\ page' = [page EXCEPT !.locked = TRUE, !.asked.ok = FALSE]
                 /\ deletion' = "closed"
          /\ UNCHANGED <<book, waiting, line, turn, restoring, observers>>
      BY <1>2 DEF DeleteRoom
    <2>2. /\ page' \in Page /\ page'.gen = page.gen /\ page'.selected = page.selected
                 /\ page'.hash = page.hash
          /\ page'.conn = page.conn /\ page'.left = page.left /\ ~page'.asked.ok /\ page'.locked
      BY <1>1, <2>1 DEF Page
    <2>. QED  BY <1>1, <2>1, <2>2, BesideHolds
  <1>3. CASE RemoveDescriptor
    <2>1. deletion = "closed" /\ page.locked  BY <1>1, <1>3 DEF RemoveDescriptor
    <2>2. deletion' = "over" /\ UNCHANGED <<book, page, actors, waiting, line, turn, restoring, observers, pageFaults>>
      BY <1>3, <2>1 DEF RemoveDescriptor
    <2>. QED  BY <1>1, <2>1, <2>2, BesideHolds
  <1>. QED  BY <1>2, <1>3

\* Every step keeps the invariant and the page's promises.
LEMMA SelectionStepHolds == SelInv /\ [SelectionNext]_selVars => SelInv' /\ [OldStaysUsable
          /\ ObserverSparesAdmitted]_selVars
  <1>1. ASSUME SelInv, SelectionNext
        PROVE  SelStays
    <2>1. CASE \E r \in ProductRooms : OpenConversation(r) \/ JoinModernChannel(r) \/ ReconnectFirst(r)
      BY <1>1, <2>1, OpenConversationHolds, JoinModernChannelHolds, ReconnectFirstHolds
    <2>2. CASE \E o \in waiting : Enters(o) \/ \E terminal \in BOOLEAN : Refused(o, terminal)
      BY <1>1, <2>2, EntersHolds, RefusedHolds
    <2>3. CASE Begin \/ Start \/ SameIsNotEnough \/ CommitSame \/ CommitPrepared
      BY <1>1, <2>3, BeginHolds, StartHolds, SameIsNotEnoughHolds, CommitSameHolds, CommitPreparedHolds
    <2>4. CASE CloseSubscribed \/ Candidate \/ CommitCandidate \/ ClosePrevious \/ Finish
      BY <1>1, <2>4, CloseSubscribedHolds, CandidateHolds, CommitCandidateHolds, ClosePreviousHolds,
           FinishHolds
    <2>5. CASE \E terminal \in BOOLEAN : ResolveFails(terminal)
      BY <1>1, <2>5, ResolveFailsHolds
    <2>6. CASE \E o \in observers : ApplyTerminal(o)
      BY <1>1, <2>6, ApplyTerminalHolds
    <2>7. CASE VerifyContact \/ \E a \in actors : ContactChanges(a)
      BY <1>1, <2>7, ContactHolds
    <2>8. CASE DeleteRoom \/ RemoveDescriptor
      BY <1>1, <2>8, DeletionHolds
    <2>. QED  BY <1>1, <2>1, <2>2, <2>3, <2>4, <2>5, <2>6, <2>7, <2>8 DEF SelectionNext
  <1>2. ASSUME SelInv, UNCHANGED selVars
        PROVE  SelInv'
    BY <1>2 DEF SelInv, selVars, SelShapes, NumbersFit, Numbered, TurnFits, Subscribed, PageFits,
         NoStrayActor, Pursued, ProbeFits
  <1>. QED  BY <1>1, <1>2 DEF SelStays

\* A page that has just been unlocked.
LEMMA SelectionInitHolds == SelectionInit => SelInv
  <1> SUFFICES ASSUME SelectionInit  PROVE SelInv  OBVIOUS
  <1>1. PICK e \in SUBSET ProductRooms :
          book = [view |-> [r \in ProductRooms |-> Untouched], indexed |-> ProductRooms, eligible |-> e, mux |-> {}, details |-> {}]
    BY DEF SelectionInit
  <1>2. /\ page = [gen |-> 1, selected |-> Nobody, hash |-> "none", conn |-> Nobody,
                   pending |-> Nothing, locked |-> FALSE, left |-> {}, asked |-> [room |-> "none", ok |-> FALSE]]
        /\ actors = {} /\ waiting = {} /\ line = <<>> /\ turn = NoTurn
               /\ restoring = [number |-> 1, todo |-> ProductRooms]
        /\ observers = {} /\ deletion = "none"
    BY DEF SelectionInit
  <1>3. Untouched \in Place /\ Untouched.actor = Nobody  BY PageShapes DEF Untouched, Place, Connections
  <1>4. book \in Book /\ book.mux = {} /\ book.details = {}
            /\ \A r \in ProductRooms : book.view[r].actor = Nobody
    BY <1>1, <1>3 DEF Book
  <1>5. page \in Page /\ page.selected = Nobody /\ page.conn = Nobody /\ ~page.asked.ok
    <2>1. 1 \in 1 .. MaxAsks + 1  BY SelectionAssumption
    <2>. QED  BY <1>2, <2>1, PageShapes DEF Page
  <1>6. /\ NoTurn.step = "none" /\ NoTurn.actor = Nobody /\ NoTurn.previous = Nobody /\ ~NoTurn.back
               /\ NoTurn.kind = "none"
    BY DEF NoTurn
  <1>7. SelShapes
    <2>1. IsFiniteSet({}) /\ <<>> \in Seq(Openings)  BY FS_EmptySet
    <2>. QED  BY <1>2, <1>4, <1>5, <2>1, PageShapes DEF SelShapes
  <1>8. NumbersFit  BY <1>2, <1>6 DEF NumbersFit
  <1>9. TurnFits  BY <1>2, <1>6 DEF TurnFits, Early
  <1>10. PageFits  BY <1>2, <1>4, <1>5 DEF PageFits, NoStrayActor
  <1>11. Pursued  BY <1>5 DEF Pursued
  <1>. QED  BY <1>2, <1>7, <1>8, <1>9, <1>10, <1>11 DEF SelInv

\* What the run checks follows from the invariant.
LEMMA SelInvCorrect == SelInv => SelectionTypeOK /\ LatestWins /\ ShownIsSelected /\ NoStrayActor
  <1> SUFFICES ASSUME SelInv  PROVE SelectionTypeOK /\ LatestWins /\ ShownIsSelected /\ NoStrayActor  OBVIOUS
  <1>1. SelectionTypeOK
    <2>1. \A a \in actors : a.room \in ProductRooms /\ a.mux \in BOOLEAN  BY PageTyped DEF Actor
    <2>2. page.hash \in ProductRooms \cup {"none"} /\ book.indexed \subseteq ProductRooms
              /\ book.details \subseteq ProductRooms
      BY PageTyped DEF Page, Book
    <2>3. turn.step \in {"none", "start", "same", "superseded", "reuse", "candidate", "connect", "previous", "finish"}
      BY PageTyped DEF Resolution
    <2>. QED  BY <2>1, <2>2, <2>3, PageTyped DEF SelectionTypeOK, Connections
  <1>2. LatestWins
    <2>1. turn = NoTurn => turn.step = "none"  BY DEF NoTurn
    <2>. QED  BY <2>1 DEF SelInv, Pursued, LatestWins, Early
  <1>. QED  BY <1>1, <1>2 DEF SelInv, PageFits, ShownIsSelected

\* For any number of rooms, openings and failures, in whatever order openings
\* are checked, queued, superseded and fail: once nothing is under way the page
\* shows the conversation asked for last unless its opening failed, every
\* engine is selected, subscribed, in the hands of the opening or given up, the
\* conversation on the page stays connected while another is tried, and a late
\* probe takes no conversation off the list that was admitted meanwhile.
THEOREM SelectionIsCorrect == SelectionSpec => SelectionCorrect
  <1>1. SelectionInit => SelInv  BY SelectionInitHolds
  <1>2. SelInv /\ [SelectionNext]_selVars => SelInv' /\ [OldStaysUsable /\ ObserverSparesAdmitted]_selVars
    BY SelectionStepHolds
  <1>3. SelInv => SelectionTypeOK /\ LatestWins /\ ShownIsSelected /\ NoStrayActor  BY SelInvCorrect
  <1>4. SelectionSpec => [](SelectionTypeOK /\ LatestWins /\ ShownIsSelected /\ NoStrayActor)
            /\ [][OldStaysUsable /\ ObserverSparesAdmitted]_selVars
    BY <1>1, <1>2, <1>3, PTL DEF SelectionSpec
  <1>. QED  BY <1>4 DEF SelectionCorrect
=============================================================================
