-------------------------------- MODULE Census --------------------------------
(****************************************************************************)
(* The broadcaster's metrics of one stream (monitor/census.go): the times at *)
(* which segments emerged, from which each is counted once, and the ring of  *)
(* the last segments from which the success rate is computed.  All of it is  *)
(* under one lock, so that each event is one step; events of a segment come  *)
(* in any order and number, also after the stream has ended.                 *)
(*                                                                           *)
(* Time is abstracted to whether a segment is older than the timeout of      *)
(* 8.5 seconds.  Counters that only add up are left out.                     *)
(****************************************************************************)
EXTENDS Integers, Sequences, FiniteSets

CONSTANTS
    Segs,   \* sequence numbers of segments
    Len30   \* length of the ring (30 in the code)

CensusAssumption == Segs \subseteq Nat /\ Len30 \in Nat \ {0}

VARIABLES
    stream,                \* "none", "created", "ending" (storage is closed) or "ended"
    phase,                 \* of a segment in processSegment: "none", "emerged", "gone" or
                           \* "appeared" (reported as fully transcoded)
    bad,                   \* segments of which a rendition could not be had
    late,                  \* segments reported with SegmentTranscodeErrorSessionEnded
    emergeTimes,           \* segments emerged and not yet counted
    old,                   \* those of them that emerged longer ago than the timeout
    segments, start, end,  \* the ring
    counted,               \* history: how often each segment was counted as emerged
    added                  \* history: segments in the order they came into the ring

ringVars == <<segments, start, end, added>>
vars == <<stream, phase, bad, late, emergeTimes, old, ringVars, counted>>

emerged == {s \in Segs : phase[s] # "none"}

Slot == [seqNo : Nat, emerged : 0 .. 1, transcoded : 0 .. 1, failed : BOOLEAN]

EmptyRing ==
    [i \in 0 .. Len30 - 1 |->
        [seqNo |-> 0, emerged |-> 0, transcoded |-> 0, failed |-> FALSE]]

advance(i) == IF i + 1 = Len30 THEN 0 ELSE i + 1

\* Indices from start to end
Window ==
    IF end = -1 THEN {}
    ELSE IF start <= end THEN start .. end ELSE (start .. Len30 - 1) \union (0 .. end)

-----------------------------------------------------------------------------
(* The ring *)

Found(seqNo) == {i \in Window : segments[i].seqNo = seqNo}

Last == IF end = -1 THEN 0 ELSE advance(end)

\* Mutant: the oldest entry is not given up.
MakeRoom_KeepsStart == end' = Last /\ UNCHANGED start

MakeRoom ==
    /\ end' = Last
    /\ start' = IF end # -1 /\ Last = start THEN advance(start) ELSE start

\* The item of seqNo, with known if it is in the window; otherwise a slot used
\* before, with what is left in it, changed into fresh.
getAddItem(seqNo, known, fresh) ==
    \/ \E i \in Found(seqNo) :
          /\ segments' = [segments EXCEPT ![i] = known[@]]
          /\ UNCHANGED <<start, end, added>>
    \/ /\ Found(seqNo) = {}
       /\ MakeRoom
       /\ segments' = [segments EXCEPT ![Last] = fresh[@]]
       /\ added' = Append(added, seqNo)

addEmerged(seqNo) ==
    LET set[item \in Slot] ==
            [item EXCEPT !.seqNo = seqNo, !.emerged = 1, !.transcoded = 0]
    IN  getAddItem(seqNo, set, set)

addTranscoded(seqNo, failed) ==
    LET known[item \in Slot] ==
            [item EXCEPT !.seqNo = seqNo, !.failed = failed,
                         !.transcoded = IF failed THEN @ ELSE 1]
        fresh[item \in Slot] == [known[item] EXCEPT !.emerged = 0]
    IN  getAddItem(seqNo, known, fresh)

\* Entries that successRate takes into account; one that is not waited for any more,
\* and has no outcome, is as old as timeoutWatcher requires.
Rated == {i \in Window : \/ segments[i].transcoded > 0
                         \/ segments[i].failed
                         \/ segments[i].seqNo \notin emergeTimes \ old}

-----------------------------------------------------------------------------
(* Events *)

\* gotRTMPStreamHandler has begun to segment the stream before it reports it.
streamCreated ==
    /\ stream = "none"
    /\ stream' = "created"
    /\ UNCHANGED <<phase, bad, late, emergeTimes, old, ringVars, counted>>

\* endRTMPStreamHandler closes the storage, waits for the session listener ...
Cleanup ==
    /\ stream = "created"
    /\ stream' = "ending"
    /\ UNCHANGED <<phase, bad, late, emergeTimes, old, ringVars, counted>>

\* ... and reports the end.
streamEnded ==
    /\ stream = "ending"
    /\ stream' = "ended"
    /\ emergeTimes' = {} /\ old' = {}
    /\ segments' = EmptyRing /\ start' = 0 /\ end' = -1 /\ added' = <<>>
    /\ UNCHANGED <<phase, bad, late, counted>>

HasRing == stream \in {"created", "ending"}

segmentEmerged(seqNo) ==
    /\ phase[seqNo] = "none"
    /\ phase' = [phase EXCEPT ![seqNo] = "emerged"]
    /\ emergeTimes' = emergeTimes \union {seqNo}
    /\ IF HasRing THEN addEmerged(seqNo) ELSE UNCHANGED ringVars
    /\ UNCHANGED <<stream, bad, late, old, counted>>

countSegmentEmerged(seqNo) ==
    /\ counted' = [counted EXCEPT ![seqNo] = IF seqNo \in emergeTimes THEN @ + 1 ELSE @]
    /\ emergeTimes' = emergeTimes \ {seqNo} /\ old' = old \ {seqNo}

countSegmentTranscoded(seqNo, failed) ==
    IF HasRing THEN addTranscoded(seqNo, failed) ELSE UNCHANGED ringVars

\* segmentUploadFailed, segmentTranscodeFailed
SegmentFailed(seqNo) ==
    /\ countSegmentEmerged(seqNo)
    /\ countSegmentTranscoded(seqNo, TRUE)

\* processSegment gives up: the source could not be stored or submitted, or there
\* is no orchestrator.
GiveUp(seqNo) ==
    /\ phase[seqNo] = "emerged" /\ seqNo \notin bad \union late
    /\ phase' = [phase EXCEPT ![seqNo] = "gone"]
    /\ SegmentFailed(seqNo)
    /\ UNCHANGED <<stream, bad, late>>

\* SubmitSegment stops the stream or returns nothing, and nothing is reported.
GiveUpSilently(seqNo) ==
    /\ phase[seqNo] = "emerged" /\ seqNo \notin bad \union late
    /\ phase' = [phase EXCEPT ![seqNo] = "gone"]
    /\ UNCHANGED <<stream, bad, late, emergeTimes, old, ringVars, counted>>

\* A failure is reported and the segment goes on: the source is not inserted into
\* the playlist, or a rendition is not downloaded, stored or inserted (gotErr is
\* not synchronised, so that several renditions may report).
GoesOn(seqNo) ==
    /\ phase[seqNo] = "emerged"
    /\ \/ bad' = bad \union {seqNo}
       \/ seqNo \notin bad \union late /\ UNCHANGED bad
    /\ SegmentFailed(seqNo)
    /\ UNCHANGED <<stream, phase, late>>

\* A rendition comes when the storage is closed: the success rate leaves it out.
SessionEnded(seqNo) ==
    /\ phase[seqNo] = "emerged" /\ stream \in {"ending", "ended"} /\ seqNo \notin bad
    /\ bad' = bad \union {seqNo}
    /\ late' = late \union {seqNo}
    /\ UNCHANGED <<stream, phase, emergeTimes, old, ringVars, counted>>

\* Every download has ended.  allSuccess compares the lengths of two slices of
\* the same length, and is always true.
SegmentFullyTranscoded(seqNo) ==
    /\ phase[seqNo] = "emerged"
    /\ phase' = [phase EXCEPT ![seqNo] = "appeared"]
    /\ countSegmentEmerged(seqNo)
    /\ countSegmentTranscoded(seqNo, FALSE)
    /\ UNCHANGED <<stream, bad, late>>

TimePasses(seqNo) ==
    /\ seqNo \in emergeTimes \ old
    /\ old' = old \union {seqNo}
    /\ UNCHANGED <<stream, phase, bad, late, emergeTimes, ringVars, counted>>

timeoutWatcher ==
    /\ old # {}
    /\ counted' = [s \in Segs |-> IF s \in old THEN counted[s] + 1 ELSE counted[s]]
    /\ emergeTimes' = emergeTimes \ old /\ old' = {}
    /\ UNCHANGED <<stream, phase, bad, late, ringVars>>

-----------------------------------------------------------------------------
Init ==
    /\ stream = "none" /\ phase = [s \in Segs |-> "none"] /\ bad = {} /\ late = {}
    /\ emergeTimes = {} /\ old = {}
    /\ segments = EmptyRing
    /\ start = 0 /\ end = -1
    /\ counted = [s \in Segs |-> 0] /\ added = <<>>

\* Segments that come back into the ring after they were given up
Bound == Len(added) <= Cardinality(Segs) + 1

Next ==
    \/ streamCreated \/ Cleanup \/ streamEnded \/ timeoutWatcher
    \/ \E s \in Segs : \/ segmentEmerged(s) \/ GiveUp(s) \/ GiveUpSilently(s) \/ GoesOn(s)
                       \/ SessionEnded(s) \/ SegmentFullyTranscoded(s) \/ TimePasses(s)

Spec == Init /\ [][Next /\ Bound']_vars

-----------------------------------------------------------------------------
(* Properties *)

\* Shapes of the state: a segment that is waited for, late or bad has emerged
TypeOK ==
    /\ stream \in {"none", "created", "ending", "ended"}
    /\ phase \in [Segs -> {"none", "emerged", "gone", "appeared"}]
    /\ old \subseteq emergeTimes /\ emergeTimes \union bad \subseteq emerged /\ late \subseteq bad
    /\ segments \in [0 .. Len30 - 1 -> Slot]
    /\ start \in 0 .. Len30 - 1 /\ end \in -1 .. Len30 - 1

\* Entries that the ring should have, and the index of the one j before the last
InRing == IF Len(added) < Len30 THEN Len(added) ELSE Len30
Back(j) == IF j <= end THEN end - j ELSE end - j + Len30

\* The ring holds the segments that came last, in their order and each once, also after
\* it has wrapped round and segments have come back that had been given up.
RingLatest ==
    /\ Window = {Back(j) : j \in 0 .. InRing - 1}
    /\ \A j \in 0 .. InRing - 1 : segments[Back(j)].seqNo = added[Len(added) - j]
    /\ \A i, j \in Window : segments[i].seqNo = segments[j].seqNo => i = j

\* A segment is counted as emerged at most once, by the first of its outcomes or by
\* the watcher; only the end of the stream leaves it uncounted.
CountedOnce ==
    \A s \in Segs :
        /\ counted[s] <= 1
        /\ (s \in emerged /\ stream # "ended") => (counted[s] = 1 <=> s \notin emergeTimes)

\* mSuccessRate is the measure "Success rate" of a stream: not more segments have
\* been transcoded than have emerged (successRate has none if none emerged).
RateBounded ==
    LET n == Cardinality({i \in Rated : segments[i].emerged = 1}) IN
    n > 0 => Cardinality({i \in Rated : segments[i].transcoded = 1}) <= n

\* segmentTranscodeFailed: "Do not count segments into success rate if transcoded
\* segment arrived after stream was ended".
LateNotRated ==
    HasRing => \A i \in Window : segments[i].transcoded = 1 => segments[i].seqNo \notin late

\* mSegmentTranscodedAllAppeared is the measure "SegmentTranscodedAllAppeared".
AllAppeared == \A s \in Segs : phase[s] = "appeared" => s \notin bad
=============================================================================
