------------------------------ MODULE ReplayLog -----------------------------
(***************************************************************************)
(* The exact replay log of a conversation: a root record that counts       *)
(* segments and entries, and segment records of bounded length.  A list in *)
(* the old format, one record at the root's address, becomes segments with *)
(* the first append.  An accepted message reads the log, looks its digest  *)
(* up and appends it in the swap that accepts it.  Tabs read and append at *)
(* once; the root and the segments are separate reads.                     *)
(***************************************************************************)
EXTENDS Integers, Sequences, SequencesExt, FiniteSets

CONSTANTS LogTabs,       \* open tabs
          Digests,       \* digests of messages that arrive
          SegmentSize,   \* REPLAY_SEGMENT_CAPACITY
          OldLists       \* lists in the old format a log may start from

\* No digest is twice in an old list: such lists are read, and no longer written.
ASSUME LogAssumption ==
    /\ SegmentSize \in Nat \ {0} /\ IsFiniteSet(Digests) /\ OldLists \subseteq Seq(Digests)
    /\ \A old \in OldLists : \A i, j \in DOMAIN old : old[i] = old[j] => i = j

VARIABLES root,      \* the record at the root's address
          segments,  \* the segment records
          readers,   \* what each tab has read
          history    \* digests accepted, in order

logVars == <<root, segments, readers, history>>

Absent(old)  == [kind |-> "absent", segmentCount |-> 0, entryCount |-> 0, old |-> old]
NoSegment    == <<>>
Away         == [step |-> "away"]
Capacity     == 1 .. Cardinality(Digests)

LogInit ==
    /\ \E old \in OldLists \cup {<<>>} :
          /\ root = IF old = <<>> THEN Absent(<<>>) ELSE [Absent(old) EXCEPT !.kind = "old"]
          /\ history = old
    /\ segments = [i \in Capacity |-> NoSegment]
    /\ readers = [t \in LogTabs |-> Away]

-----------------------------------------------------------------------------
(* loadReplayState: the root, then all its segments. *)

ReadRoot(t, d) ==
    /\ readers[t] = Away
    /\ readers' = [readers EXCEPT ![t] = [step |-> "root", digest |-> d, root |-> root]]
    /\ UNCHANGED <<root, segments, history>>

Flat(pages) == FlattenSeq(pages)

IsReplay(d, items) == d \in ToSet(items)

\* An old list is the log itself; otherwise a segment that is missing, or a
\* number of entries that is not the root's, is an error of the load.  A digest
\* that is in the log is a replay and ends the acceptance.
ReadSegments(t) ==
    LET r     == readers[t]
        pages == [i \in 1 .. r.root.segmentCount |-> segments[i]]
        items == IF r.root.kind = "root" THEN Flat(pages) ELSE r.root.old
        fails == \/ r.root.kind = "root" /\ Len(items) # r.root.entryCount
                 \/ \E i \in DOMAIN pages : pages[i] = NoSegment
    IN  /\ r.step = "root"
        /\ readers' = [readers EXCEPT ![t] =
              IF fails \/ IsReplay(r.digest, items) THEN Away
              ELSE [step |-> "read", digest |-> r.digest, root |-> r.root, items |-> items,
                    last |-> IF pages = <<>> THEN NoSegment ELSE pages[Len(pages)]]]
        /\ UNCHANGED <<root, segments, history>>

-----------------------------------------------------------------------------
(* prepareReplayAppend: the records an append expects and writes. *)

Pages(items) == LET n == (Len(items) + SegmentSize - 1) \div SegmentSize
                IN  [i \in 1 .. n |-> SubSeq(items, (i - 1) * SegmentSize + 1,
                                             IF i * SegmentSize < Len(items) THEN i * SegmentSize ELSE Len(items))]

\* Variant for testing LogCorrect: a full segment takes one more.
FitsOver(last) == last # NoSegment /\ Len(last) <= SegmentSize

Fits(last) == last # NoSegment /\ Len(last) + 1 <= SegmentSize

\* What an append to r writes: the index of each segment, its expected and its next content.
PrepareReplayAppend(r) ==
    LET all   == Append(r.items, r.digest)
        count == r.root.segmentCount
    IN  IF r.root.kind = "old"
        THEN [writes |-> [i \in DOMAIN Pages(all) |-> [expected |-> NoSegment, next |-> Pages(all)[i]]],
              count |-> Len(Pages(all)), entries |-> Len(all)]
        ELSE IF Fits(r.last)
        THEN [writes |-> [i \in {count} |-> [expected |-> r.last, next |-> Append(r.last, r.digest)]],
              count |-> count, entries |-> Len(all)]
        ELSE [writes |-> [i \in {count + 1} |-> [expected |-> NoSegment, next |-> <<r.digest>>]],
              count |-> count + 1, entries |-> Len(all)]

\* The swap of an acceptance: every record must be the one expected.
AppendDigest(t) ==
    LET r == readers[t]
        u == PrepareReplayAppend(r)
        unchanged == root = r.root /\ \A i \in DOMAIN u.writes : segments[i] = u.writes[i].expected
    IN  /\ r.step = "read"
        /\ readers' = [readers EXCEPT ![t] = Away]
        /\ IF unchanged
           THEN /\ root' = [kind |-> "root", segmentCount |-> u.count, entryCount |-> u.entries, old |-> <<>>]
                /\ segments' = [i \in Capacity |-> IF i \in DOMAIN u.writes THEN u.writes[i].next ELSE segments[i]]
                /\ history' = Append(history, r.digest)
           ELSE UNCHANGED <<root, segments, history>>

CloseTab(t) ==
    /\ readers[t] # Away /\ readers' = [readers EXCEPT ![t] = Away]
    /\ UNCHANGED <<root, segments, history>>

LogNext == \E t \in LogTabs : (\E d \in Digests : ReadRoot(t, d)) \/ ReadSegments(t) \/ AppendDigest(t) \/ CloseTab(t)

LogSpec == LogInit /\ [][LogNext]_logVars

-----------------------------------------------------------------------------

LogTypeOK ==
    /\ root.kind \in {"absent", "old", "root"} /\ root.segmentCount \in 0 .. Cardinality(Digests)
    /\ root.entryCount \in 0 .. Cardinality(Digests)
    /\ \A i \in Capacity : segments[i] \in Seq(Digests)
    /\ \A t \in LogTabs : readers[t].step \in {"away", "root", "read"}

\* The stored log is exactly the digests accepted, in order, in segments that
\* are full but for the last, and the root counts them (prepareReplayAppend).
LogIsHistory ==
    LET stored == [i \in 1 .. root.segmentCount |-> segments[i]]
    IN  IF root.kind = "root"
        THEN /\ Flat(stored) = history /\ root.entryCount = Len(history)
             /\ \A i \in DOMAIN stored : Len(stored[i]) \in 1 .. SegmentSize
             /\ \A i \in Capacity : i > root.segmentCount => segments[i] = NoSegment
        ELSE root.old = history /\ \A i \in Capacity : segments[i] = NoSegment

\* No digest is accepted twice, by whichever tabs and with whatever torn reads.
AcceptedOnce == \A i, j \in DOMAIN history : history[i] = history[j] => i = j

(* What the replay log promises to the tabs that share it.                   *)
LogCorrect ==
    LogTypeOK /\ LogIsHistory /\ AcceptedOnce
=============================================================================
