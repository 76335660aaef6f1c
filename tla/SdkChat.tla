------------------------------ MODULE SdkChat ------------------------------
(***************************************************************************)
(* Chat messages of the legacy SDK (invitation-secret rooms).  A sender    *)
(* numbers its messages from 1 at each join; the receiver keeps a window   *)
(* of numbers it has seen and drops what was there before.  The relay's    *)
(* mailbox delivers at least once and in any order (module OfflineMailbox).*)
(***************************************************************************)
EXTENDS Integers, Sequences, FiniteSets

CONSTANTS Users,          \* the two parties of the room
          WindowSize,     \* numbers the replay guard remembers
          MaxChats,       \* messages sent
          MaxJoins        \* joins of each party

ASSUME ChatAssumption == WindowSize \in Nat \ {0} /\ {MaxChats, MaxJoins} \subseteq Nat

VARIABLES party,      \* per user: joined, next number, the replay guard, how often joined
          post,       \* messages the relay holds
          shown,      \* per user: messages handed to the application since it joined
          ever,       \* messages handed to the application at any time
          delivered   \* messages whose sender was told they were delivered

chatVars == <<party, post, shown, ever, delivered>>

NoGuard == [highest |-> 0, seen |-> {}]
Away    == [ready |-> FALSE, seq |-> 0, guard |-> NoGuard, joins |-> 0]

ChatInit ==
    /\ party = [u \in Users |-> Away] /\ post = {}
    /\ shown = [u \in Users |-> <<>>] /\ ever = {} /\ delivered = {}

\* Room known and crypto session initialized.
ChannelReady(u) == party[u].ready

\* The session's keys are derived from the invitation anew; those of an earlier join go.
InitializeSession(p) == [p EXCEPT !.ready = TRUE]

\* clearChannelSecrets: with the secrets go the numbers and the window.
ChannelCleared(p) == [Away EXCEPT !.joins = p.joins]

\* setChannel, in a new page or again in the same one: numbers and window start anew.
SetChannel(u) ==
    /\ party[u].joins < MaxJoins
    /\ party' = [party EXCEPT ![u] = [InitializeSession(ChannelCleared(party[u])) EXCEPT !.joins = @ + 1]]
    /\ shown' = [shown EXCEPT ![u] = <<>>]
    /\ UNCHANGED <<post, ever, delivered>>

\* dispose, or delete once the relay has removed the link.
DisposeChannel(u) ==
    /\ ChannelReady(u)
    /\ party' = [party EXCEPT ![u] = ChannelCleared(@)]
    /\ UNCHANGED <<post, shown, ever, delivered>>

\* encrypt(...).send(): a number at once, then encryption and the relay.
SendChat(u) ==
    /\ ChannelReady(u) /\ Cardinality(post \cup delivered) < MaxChats
    /\ party' = [party EXCEPT ![u].seq = @ + 1]
    /\ post' = post \cup {[from |-> u, join |-> party[u].joins, seq |-> party[u].seq + 1]}
    /\ UNCHANGED <<shown, ever, delivered>>

\* Variant for testing ChatCorrect: only the numbers still remembered are refused.
PassesForgotten(g, n) == n \notin g.seen

\* ReplayGuard.accept and what it remembers then.
Passes(g, n) == g.highest = 0 \/ (n \notin g.seen /\ n > g.highest - WindowSize)

Remembers(g, n) ==
    LET top == IF n > g.highest THEN n ELSE g.highest
    IN  [highest |-> top, seen |-> {k \in g.seen \cup {n} : k >= top - WindowSize + 1}]

\* handleRawChatMessage: what the guard refuses is dropped without an error.
HandleRawChatMessage(u, m) ==
    LET pass == Passes(party[u].guard, m.seq)
    IN  /\ party' = IF pass THEN [party EXCEPT ![u].guard = Remembers(@, m.seq)] ELSE party
        /\ shown' = IF pass THEN [shown EXCEPT ![u] = Append(@, m)] ELSE shown
        /\ ever' = IF pass THEN ever \cup {m} ELSE ever

\* The transport's inbound handler: true unless handleRawChatMessage threw, so also
\* for what was dropped.  When that answer is lost the relay keeps the message.
Inbound(u, m, lost) ==
    /\ m.from # u /\ ChannelReady(u)
    /\ HandleRawChatMessage(u, m)
    /\ post' = IF lost THEN post ELSE post \ {m}
    /\ delivered' = IF lost THEN delivered ELSE delivered \cup {m}

ChatNext ==
    \/ \E u \in Users : SetChannel(u) \/ DisposeChannel(u) \/ SendChat(u)
    \/ \E u \in Users, m \in post, lost \in BOOLEAN : Inbound(u, m, lost)

ChatSpec == ChatInit /\ [][ChatNext]_chatVars

-----------------------------------------------------------------------------

ChatTypeOK ==
    /\ \A u \in Users : party[u].joins \in 0 .. MaxJoins /\ party[u].seq \in 0 .. MaxChats
    /\ \A u \in Users : party[u].guard.seen \subseteq 1 .. party[u].guard.highest
    /\ \A u \in Users : Cardinality(party[u].guard.seen) <= WindowSize
    /\ ever \subseteq post \cup delivered

\* However often and in whatever order the relay delivers, and although the
\* window forgets numbers, a message is handed to the application once per join.
ShownOnce == \A u \in Users : \A i, j \in DOMAIN shown[u] : shown[u][i] = shown[u][j] => i = j

(* The chat with its window of numbers, whatever the relay repeats.          *)
ChatCorrect ==
    ChatTypeOK /\ ShownOnce
=============================================================================
