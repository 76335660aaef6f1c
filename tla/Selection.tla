------------------------------ MODULE Selection ------------------------------
(***************************************************************************)
(* Which conversation the page shows.  Opening a saved conversation checks *)
(* it locally, waits in a queue (ConversationSelection), resolves to an    *)
(* engine - the one already selected, one that is subscribed in the        *)
(* background, or a new candidate - and only then moves the selection.     *)
(* A counter numbers the openings; one whose number is no longer the       *)
(* latest is superseded.  Unlocking starts an opening by itself, joining   *)
(* an invitation takes no number, and after an opening in a multiplexed    *)
(* room all other eligible rooms are subscribed.  Deleting the conversation*)
(* closes its engine, which locks the vault.                               *)
(***************************************************************************)
EXTENDS Integers, Sequences, FiniteSets

CONSTANTS ProductRooms,    \* saved conversations
          MaxAsks,         \* openings the user asks for
          MaxPageFaults    \* failures of storage, relay and probes

ASSUME SelectionAssumption == IsFiniteSet(ProductRooms) /\ {MaxAsks, MaxPageFaults} \subseteq Nat

VARIABLES page,        \* the refs and the projection: generation, selection, pending
          book,        \* per room: view, index, eligibility, multiplexed subscriptions
          actors,      \* engines that are not closed
          waiting,     \* openings that check their descriptor, not yet queued
          line,        \* the queue of openings
          turn,        \* the opening that is being resolved
          restoring,   \* the opening that unlocking started
          observers,   \* status probes of openings that failed, and the engines there were
          deletion,    \* the conversation that is being deleted
          pageFaults

selVars == <<page, book, actors, waiting, line, turn, restoring, observers, deletion, pageFaults>>

Nobody    == [id |-> 0, room |-> "none", mux |-> FALSE]
Nothing   == [room |-> "none", number |-> 0]
NoTurn    == [room |-> "none", number |-> 0, kind |-> "none", back |-> FALSE, step |-> "none",
              actor |-> Nobody, previous |-> Nobody, tried |-> {}]
Untouched == [actor |-> Nobody, connection |-> "saved"]

SelectionInit ==
    /\ page = [gen |-> 1, selected |-> Nobody, hash |-> "none", conn |-> Nobody,
               pending |-> Nothing, locked |-> FALSE, left |-> {}, asked |-> [room |-> "none", ok |-> FALSE]]
    /\ \E e \in SUBSET ProductRooms :
         book = [view |-> [r \in ProductRooms |-> Untouched], indexed |-> ProductRooms,
                 eligible |-> e, mux |-> {}, details |-> {}]
    /\ actors = {} /\ waiting = {} /\ line = <<>> /\ turn = NoTurn
    /\ restoring = [number |-> 1, todo |-> ProductRooms]
    /\ observers = {} /\ deletion = "none" /\ pageFaults = 0

StillCurrent(n) == n = 0 \/ page.gen = n

PageFault == pageFaults < MaxPageFaults /\ pageFaults' = pageFaults + 1

View(r, actor, connection) == [book.view EXCEPT ![r] = [actor |-> actor, connection |-> connection]]

-----------------------------------------------------------------------------
(* Asking. *)

Opening(r, n, kind) == [room |-> r, number |-> n, kind |-> kind]

\* openConversation: a number of its own; the room that is shown needs nothing else.
OpenConversation(r) ==
    LET n     == page.gen + 1
        shown == page.hash = r /\ page.selected # Nobody
    IN  /\ n <= MaxAsks + 1 /\ r \in book.indexed
        /\ page' = [page EXCEPT !.gen = n, !.asked = [room |-> r, ok |-> TRUE],
                      !.pending = IF shown THEN Nothing ELSE [room |-> r, number |-> n]]
        /\ waiting' = IF shown THEN waiting ELSE waiting \cup {Opening(r, n, "open")}
        /\ UNCHANGED <<book, actors, line, turn, restoring, observers, deletion, pageFaults>>

\* joinModernChannel: no number, so nothing supersedes it and it supersedes nothing.
JoinModernChannel(r) ==
    /\ ~\E o \in waiting \cup {line[i] : i \in DOMAIN line} : o.kind = "join"
    /\ turn.kind # "join" /\ PageFault /\ ~(page.hash = r /\ page.selected # Nobody) /\ ~page.locked
    /\ line' = Append(line, Opening(r, 0, "join"))
    /\ UNCHANGED <<page, book, actors, waiting, turn, restoring, observers, deletion>>

\* reconnectFirstConversation: one saved conversation after the other until one opens.
ReconnectFirst(r) ==
    /\ r \in restoring.todo /\ page.gen = restoring.number /\ ~page.locked
    /\ page.pending = Nothing \/ page.pending.number = restoring.number
    /\ ~\E o \in waiting \cup {line[i] : i \in DOMAIN line} \cup {turn} : o.kind = "restore"
    /\ restoring' = [restoring EXCEPT !.todo = @ \ {r}]
    /\ page' = [page EXCEPT !.pending = [room |-> r, number |-> restoring.number], !.asked = [room |-> r, ok |-> TRUE]]
    /\ waiting' = waiting \cup {Opening(r, restoring.number, "restore")}
    /\ UNCHANGED <<book, actors, line, turn, observers, deletion, pageFaults>>

\* The descriptor is eligible: the opening enters the queue.
Enters(o) ==
    /\ ~page.locked
    /\ waiting' = waiting \ {o} /\ line' = Append(line, o)
    /\ UNCHANGED <<page, book, actors, turn, restoring, observers, deletion, pageFaults>>

\* What a failed opening does to the page; one that is superseded, nothing.
\* The restoration tries the next room unless the network or the service is away.
Answered(o) ==
    IF o.kind = "join" \/ ~StillCurrent(o.number) THEN UNCHANGED <<page, restoring>>
    ELSE \E todo \in IF o.kind = "restore" THEN {{}, restoring.todo} ELSE {restoring.todo} :
             /\ restoring' = [restoring EXCEPT !.todo = todo]
             /\ page' = [page EXCEPT !.asked.ok = FALSE,
                           !.pending = IF o.kind = "open" \/ todo = {} THEN Nothing ELSE @]

\* The room's row after the opening failed: gone from the list if the relay says so.
Row(b, o, terminal) ==
    IF o.kind = "join" \/ ~StillCurrent(o.number) THEN b
    ELSE [b EXCEPT !.view[o.room].connection = IF terminal THEN "failed" ELSE "disconnected",
                   !.indexed = IF terminal THEN @ \ {o.room} ELSE @]

Refused(o, terminal) ==
    /\ \/ PageFault
       \/ page.locked /\ UNCHANGED pageFaults
    /\ waiting' = waiting \ {o}
    /\ Answered(o) /\ book' = Row(book, o, terminal)
    /\ UNCHANGED <<actors, line, turn, observers, deletion>>

-----------------------------------------------------------------------------
(* Resolving, one opening at a time. *)

Begin ==
    /\ turn = NoTurn /\ line # <<>>
    /\ line' = Tail(line)
    /\ turn' = [NoTurn EXCEPT !.room = Head(line).room, !.number = Head(line).number,
                              !.kind = Head(line).kind, !.step = "start"]
    /\ UNCHANGED <<page, book, actors, waiting, restoring, observers, deletion, pageFaults>>

At(step) == turn.step = step
Goto(step) == turn' = [turn EXCEPT !.step = step]

\* The multiplexed connection carries verified contacts, never an introduction.
MuxEligible == turn.room \in book.eligible /\ turn.kind # "join"

SameRoom ==
    /\ page.conn # Nobody /\ page.conn = page.selected /\ ~page.conn.mux
    /\ page.conn.room = turn.room /\ turn.kind # "join" /\ ~turn.back

Elsewhere == IF turn.room \in book.mux /\ ~turn.back THEN "reuse" ELSE "candidate"

Start ==
    /\ At("start")
    /\ Goto(IF ~SameRoom THEN Elsewhere ELSE IF StillCurrent(turn.number) THEN "same" ELSE "superseded")
    /\ UNCHANGED <<page, book, actors, waiting, line, restoring, observers, deletion, pageFaults>>

\* The contact has become one for the multiplexed connection, or its record is
\* not of the identity the descriptor names: a new engine after all.
SameIsNotEnough ==
    /\ At("same") /\ Goto(Elsewhere)
    /\ \/ MuxEligible /\ UNCHANGED pageFaults
       \/ PageFault
    /\ UNCHANGED <<page, book, actors, waiting, line, restoring, observers, deletion>>

\* The engine is the selected one already: no second one is made.
CommitSame ==
    /\ At("same") /\ ~MuxEligible /\ StillCurrent(turn.number) /\ ~page.locked
    /\ book' = [book EXCEPT !.view = View(turn.room, page.selected, "connected")]
    /\ page' = [page EXCEPT !.hash = turn.room]
    /\ Goto("finish")
    /\ UNCHANGED <<actors, waiting, line, restoring, observers, deletion, pageFaults>>

\* The engine that is subscribed for this room.
Existing == IF page.conn = page.selected /\ page.conn.room = turn.room /\ page.conn.mux THEN page.selected
            ELSE book.view[turn.room].actor

\* commitPreparedSelection: everything is read first, then the fence, then the projection.
CommitPrepared ==
    /\ At("reuse") /\ Existing # Nobody /\ turn.room \in book.details /\ MuxEligible
    /\ StillCurrent(turn.number) /\ ~page.locked
    /\ page' = [page EXCEPT !.selected = Existing, !.hash = turn.room, !.left = @ \cup ({page.selected} \ {Existing}),
                            !.asked = [room |-> turn.room, ok |-> TRUE]]
    /\ book' = [book EXCEPT !.view = View(turn.room, Existing, "connected")]
    /\ Goto("finish")
    /\ UNCHANGED <<actors, waiting, line, restoring, observers, deletion, pageFaults>>

\* The contact is no longer one for the multiplexed connection: its engine goes.
CloseSubscribed ==
    /\ At("reuse") /\ ~(Existing # Nobody /\ turn.room \in book.details /\ MuxEligible)
    /\ actors' = actors \ {Existing}
    /\ page' = [page EXCEPT !.conn = IF @ = Existing THEN Nobody ELSE @]
    /\ book' = [book EXCEPT !.mux = @ \ {turn.room}, !.details = @ \ {turn.room}, !.view = View(turn.room, Nobody, "saved")]
    /\ Goto("candidate")
    /\ UNCHANGED <<waiting, line, restoring, observers, deletion, pageFaults>>

NewId == CHOOSE n \in 1 .. Cardinality(actors) + Cardinality(ProductRooms) + 3 :
            \A a \in actors \cup {page.selected, page.conn, turn.previous} \cup {book.view[r].actor : r \in ProductRooms} : a.id # n

Candidate ==
    LET a == [id |-> NewId, room |-> turn.room, mux |-> MuxEligible]
    IN  /\ At("candidate") /\ ~page.locked
        /\ actors' = actors \cup {a}
        /\ turn' = [turn EXCEPT !.step = "connect", !.actor = a]
        /\ book' = [book EXCEPT !.mux = IF a.mux THEN @ \cup {a.room} ELSE @, !.view = View(a.room, a, "connecting")]
        /\ page' = [page EXCEPT !.left = IF turn.back /\ ~a.mux THEN @ \cup {a} ELSE @]
        /\ UNCHANGED <<waiting, line, restoring, observers, deletion, pageFaults>>

\* Connected, its records read again, and still the latest: the selection moves.
CommitCandidate ==
    LET a       == turn.actor
        asked   == IF StillCurrent(turn.number) THEN [room |-> a.room, ok |-> TRUE] ELSE page.asked
    IN  /\ At("connect") /\ StillCurrent(turn.number) /\ ~page.locked
        /\ page' = IF turn.back THEN page
                   ELSE [page EXCEPT !.selected = a, !.hash = a.room, !.asked = asked]
        /\ book' = [book EXCEPT !.view = View(a.room, a, "connected"),
                                !.details = IF a.mux THEN @ \cup {a.room} ELSE @]
        /\ turn' = [turn EXCEPT !.step = "previous", !.previous = IF turn.back THEN Nobody ELSE page.selected]
        /\ UNCHANGED <<actors, waiting, line, restoring, observers, deletion, pageFaults>>

\* The engine that was selected is closed unless it stays subscribed.
ClosePrevious ==
    LET p    == turn.previous
        gone == p # Nobody /\ ~p.mux
    IN  /\ At("previous")
        /\ actors' = IF gone THEN actors \ {p} ELSE actors
        /\ book' = IF gone /\ book.view[p.room].actor = p
                   THEN [book EXCEPT !.view = View(p.room, Nobody, "saved")] ELSE book
        /\ turn' = [turn EXCEPT !.step = "finish", !.previous = Nobody]
        /\ UNCHANGED <<page, waiting, line, restoring, observers, deletion, pageFaults>>

\* After an opening in a multiplexed room the other eligible rooms follow.
NextBackground(tried) == {r \in book.indexed \ (book.mux \cup tried) : r \in book.eligible}

Over == /\ turn' = NoTurn
        /\ page' = [page EXCEPT !.conn = IF turn.back THEN @ ELSE page.selected,
                                !.pending = IF turn.number = page.gen THEN Nothing ELSE @]
        /\ restoring' = IF turn.kind = "restore" THEN [restoring EXCEPT !.todo = {}] ELSE restoring

Finish ==
    /\ At("finish")
    /\ \/ /\ ~(turn.back \/ turn.room \in book.mux) \/ NextBackground(turn.tried) = {} \/ page.locked
          /\ Over
       \/ \E r \in NextBackground(turn.tried) :
             /\ turn.back \/ turn.room \in book.mux
             /\ ~page.locked
             /\ turn' = [turn EXCEPT !.step = "candidate", !.room = r, !.back = TRUE, !.tried = @ \cup {r}, !.actor = Nobody]
             /\ page' = [page EXCEPT !.conn = IF turn.back THEN @ ELSE page.selected]
             /\ UNCHANGED restoring
    /\ UNCHANGED <<book, actors, waiting, line, observers, deletion, pageFaults>>

\* Variant for testing SelectionCorrect: the engine on the page goes too.
AfterFailureAll(a) == actors \ {a, page.selected}

\* The engine made for an opening is closed with it.
AfterFailure(a) == IF At("connect") THEN actors \ {a} ELSE actors

\* An opening that fails, or was superseded, closes its own engine and no other.
ResolveFails(terminal) ==
    LET a == turn.actor
        o == Opening(turn.room, turn.number, turn.kind)
        b == IF a = Nobody \/ ~At("connect") THEN book
             ELSE [book EXCEPT !.mux = IF a.mux THEN @ \ {a.room} ELSE @, !.details = IF a.mux THEN @ \ {a.room} ELSE @,
                               !.view = View(a.room, Nobody, IF terminal THEN "failed" ELSE "disconnected")]
    IN  /\ turn.step \in {"same", "superseded", "reuse", "candidate", "connect"}
        /\ terminal => At("connect")
        /\ \/ (~StillCurrent(turn.number) \/ page.locked) /\ ~terminal /\ UNCHANGED pageFaults
           \/ StillCurrent(turn.number) /\ PageFault
        /\ actors' = AfterFailure(a)
        /\ IF turn.back
           THEN /\ book' = b /\ Goto("finish") /\ UNCHANGED <<page, restoring, observers>>
           ELSE /\ turn' = NoTurn /\ book' = Row(b, o, terminal) /\ Answered(o)
                /\ observers' = IF o.kind = "open" /\ StillCurrent(o.number)
                                THEN observers \cup {[room |-> o.room, number |-> o.number, known |-> actors']} ELSE observers
        /\ UNCHANGED <<waiting, line, deletion>>

-----------------------------------------------------------------------------
(* Everything else on the page. *)

\* The status probe of a failed opening answers "expired" or "missing".  It has
\* no authority over a newer opening or a room that is connected meanwhile.
ObservationCurrent(o) == page.gen = o.number /\ book.view[o.room].connection # "connected" /\ ~page.locked

ApplyTerminal(o) ==
    /\ observers' = observers \ {o}
    /\ book' = IF ObservationCurrent(o)
               THEN [book EXCEPT !.indexed = @ \ {o.room}, !.view[o.room].connection = "failed"] ELSE book
    /\ UNCHANGED <<page, actors, waiting, line, turn, restoring, deletion, pageFaults>>

\* Every engine reports to the page; only the selected one may project.
Projects(a) == page.selected = a

\* An engine tells of a change of its contact's identity.
ContactChanges(a) ==
    /\ a.room \in book.eligible /\ PageFault
    /\ book' = [book EXCEPT !.eligible = @ \ {a.room}]
    /\ page' = IF Projects(a) THEN [page EXCEPT !.hash = a.room] ELSE page
    /\ UNCHANGED <<actors, waiting, line, turn, restoring, observers, deletion>>

VerifyContact ==
    /\ page.selected \in actors /\ page.selected.room \notin book.eligible /\ PageFault
    /\ book' = [book EXCEPT !.eligible = @ \cup {page.selected.room}]
    /\ UNCHANGED <<page, actors, waiting, line, turn, restoring, observers, deletion>>

\* deleteChannel: the engine deletes the room and its records and closes itself,
\* which locks the vault ...
DeleteRoom ==
    /\ deletion = "none" /\ page.selected \in actors /\ page.hash = page.selected.room /\ PageFault
    /\ actors' = actors \ {page.selected}
    /\ page' = [page EXCEPT !.locked = TRUE, !.asked.ok = FALSE]
    /\ deletion' = "closed"
    /\ UNCHANGED <<book, waiting, line, turn, restoring, observers>>

\* ... and then the descriptor is removed from the index in the vault.
RemoveDescriptor ==
    /\ deletion = "closed"
    /\ IF page.locked
       THEN deletion' = "over" /\ UNCHANGED <<book, page>>
       ELSE /\ deletion' = "over" /\ book' = [book EXCEPT !.indexed = @ \ {page.hash}]
            /\ page' = [page EXCEPT !.selected = Nobody, !.conn = Nobody, !.hash = "none"]
    /\ UNCHANGED <<actors, waiting, line, turn, restoring, observers, pageFaults>>

SelectionNext ==
    \/ \E r \in ProductRooms : OpenConversation(r) \/ JoinModernChannel(r) \/ ReconnectFirst(r)
    \/ \E o \in waiting : Enters(o) \/ \E terminal \in BOOLEAN : Refused(o, terminal)
    \/ Begin \/ Start \/ SameIsNotEnough \/ CommitSame \/ CommitPrepared \/ CloseSubscribed \/ Candidate
    \/ CommitCandidate \/ ClosePrevious \/ Finish \/ \E terminal \in BOOLEAN : ResolveFails(terminal)
    \/ \E o \in observers : ApplyTerminal(o)
    \/ \E a \in actors : ContactChanges(a)
    \/ VerifyContact \/ DeleteRoom \/ RemoveDescriptor

SelectionSpec == SelectionInit /\ [][SelectionNext]_selVars

-----------------------------------------------------------------------------

SelectionTypeOK ==
    /\ page.gen \in 1 .. MaxAsks + 1 /\ page.hash \in ProductRooms \cup {"none"}
    /\ \A a \in actors : a.room \in ProductRooms /\ a.mux \in BOOLEAN
    /\ book.indexed \subseteq ProductRooms /\ book.details \subseteq ProductRooms
    /\ \A r \in ProductRooms : book.view[r].connection \in {"saved", "connecting", "connected", "disconnected", "failed"}
    /\ turn.step \in {"none", "start", "same", "superseded", "reuse", "candidate", "connect", "previous", "finish"}

\* Whatever the order in which openings are checked, queued, superseded and
\* fail, once nothing is under way the page shows the conversation that was
\* asked for last and did not fail (ChatContext.tsx:742).
LatestWins ==
    turn = NoTurn /\ line = <<>> /\ waiting = {} /\ page.asked.ok
        => page.selected # Nobody /\ page.selected.room = page.asked.room

\* The name, the messages and the send box on the page are those of the
\* selected engine, although every engine reports to the page (ChatContext.tsx:597).
ShownIsSelected == page.selected # Nobody => page.hash = page.selected.room

\* No engine is left running that nobody will close: it is selected, subscribed
\* or in the hands of the opening that runs (ChatContext.tsx:796).  The exception
\* is `left`: the engine a subscribed one replaces, and one started in the
\* background whose contact lost its verification meanwhile.
NoStrayActor ==
    \A a \in actors \ page.left :
        \/ a \in {page.selected, turn.actor, turn.previous}
        \/ a.mux /\ a.room \in book.mux /\ book.view[a.room].actor = a

\* The conversation on the page stays connected while another is tried and when
\* that one fails; it closes only after the selection has moved, when it is
\* deleted, or when its own room is opened anew over another transport.
OldStaysUsable ==
    page.selected \in actors /\ page.selected \notin actors'
        => page'.locked \/ turn.room = page.selected.room

\* A status probe that answers late never takes a conversation off the list that
\* was admitted after the opening it belongs to had failed (ChatContext.tsx:1079).
ObserverSparesAdmitted ==
    \A o \in observers \ observers' : \A a \in actors \ o.known :
        a = page.selected \/ a.room \in book.details => a.room \notin book.indexed \ book'.indexed

(* What the page promises of its conversations: it shows the one asked for   *)
(* last, leaves no engine behind, keeps the one it shows while another is    *)
(* tried, and a late probe takes none away.                                  *)
SelectionCorrect ==
    /\ [](SelectionTypeOK /\ LatestWins /\ ShownIsSelected /\ NoStrayActor)
    /\ [][OldStaysUsable /\ ObserverSparesAdmitted]_selVars
=============================================================================
