------------------------------- MODULE EventLog -------------------------------
(****************************************************************************)
(* The event log of a broadcaster (monitor/events.go).  The goroutines of a  *)
(* stream call a Log function at every stage of a segment (server/           *)
(* broadcast.go, segment_rpc.go) and of the stream itself (mediaserver.go).  *)
(* Each call puts an event on a channel and waits while it is full; one      *)
(* goroutine, sendLoop, posts the events one by one to the collector and     *)
(* drops the one whose POST fails.                                           *)
(*                                                                           *)
(* A stream has four kinds of threads: the handlers of its RTMP connection   *)
(* (created, ended), its segmenter, one goroutine for each segment that is   *)
(* sent to an orchestrator, and one for each rendition that comes back.  The *)
(* handler that ends a stream logs while it holds connectionLock, which a    *)
(* new stream needs to register.                                             *)
(*                                                                           *)
(* The collector is external: a POST to it may fail, before or after it has  *)
(* taken the event.                                                          *)
(****************************************************************************)
EXTENDS Integers, Sequences

CONSTANTS
    Streams,   \* nonces of the streams
    Sending,   \* those whose publisher sends media
    Segs,      \* bound: segments of such a stream
    Profiles,  \* of the renditions of a segment
    ChanLen    \* capacity of metrics.ch

LogAssumption == Sending \subseteq Streams /\ Segs \in Nat /\ ChanLen \in Nat \ {0} /\ "none" \notin Streams

VARIABLES
    conn, cut, seg,  \* where the handlers, the segmenter and the segments of a stream are
    dl,              \* per segment and profile: where dlFunc of the rendition is
    out,             \* per thread: the event its sendPost waits to hand over
    lock,            \* holder of connectionLock
    ch,              \* metrics.ch
    sending,         \* sendLoop: the event it is posting
    last,            \* per segment: the last stage the collector has been told of
    lastNonce, lastSeqNo, inFlight  \* the other fields of metrics

metrics == <<lastNonce, lastSeqNo, inFlight>>
threads == <<conn, cut, seg, dl, out, lock>>
vars == <<threads, ch, sending, last, metrics>>

NoEvent == [name |-> "none"]
SegIds == Sending \X (1 .. Segs)
Segmenter(n) == <<n, 0>>
Connection(n) == <<n, Segs + 1>>
Rendition(n, s, p) == <<n, s, p>>
Threads ==
    (Sending \X (0 .. Segs)) \union {Connection(n) : n \in Streams}
    \union (Sending \X (1 .. Segs) \X Profiles)

Event(name, n, s) == [name |-> name, nonce |-> n, seqNo |-> s]

Waiting(t) == out[t] # NoEvent

\* A thread calls a Log function, and goes on when the event is on the channel.
Call(t, e) ==
    /\ ~Waiting(t)
    /\ out' = [out EXCEPT ![t] = e]

sendPost(t) ==
    /\ Waiting(t) /\ Len(ch) < ChanLen
    /\ ch' = Append(ch, out[t])
    /\ out' = [out EXCEPT ![t] = NoEvent]
    /\ UNCHANGED <<conn, cut, seg, dl, lock, sending, last, metrics>>

-----------------------------------------------------------------------------
(* sendLoop *)

Receive ==
    /\ sending = NoEvent /\ ch # <<>>
    /\ sending' = Head(ch) /\ ch' = Tail(ch)
    /\ UNCHANGED <<threads, last, metrics>>

\* The collector takes an event.
Told(e) ==
    last' = IF e.seqNo = 0 THEN last ELSE [last EXCEPT ![<<e.nonce, e.seqNo>>] = e.name]

\* Mutant: an event whose POST failed goes to the end of the channel again.
Post_Requeue ==
    /\ sending # NoEvent
    /\ \/ Told(sending) /\ UNCHANGED ch
       \/ Len(ch) < ChanLen /\ ch' = Append(ch, sending) /\ UNCHANGED last
    /\ sending' = NoEvent
    /\ UNCHANGED <<threads, metrics>>

\* Mutant: sendLoop returns when a POST fails.
Post_Return ==
    /\ sending # NoEvent /\ sending # Event("returned", "none", 0)
    /\ \/ Told(sending) /\ sending' = NoEvent
       \/ sending' = Event("returned", "none", 0) /\ UNCHANGED last
    /\ UNCHANGED <<threads, ch, metrics>>

Post ==
    /\ sending # NoEvent
    /\ Told(sending) \/ UNCHANGED last
    /\ sending' = NoEvent
    /\ UNCHANGED <<threads, ch, metrics>>

-----------------------------------------------------------------------------
(* The stream *)

Conn(n, from, to) == conn[n] = from /\ conn' = [conn EXCEPT ![n] = to]

\* registerConnection takes connectionLock.
Register(n) ==
    /\ lock = "none"
    /\ Conn(n, "new", "registered")
    /\ cut' = [cut EXCEPT ![n] = 0]
    /\ UNCHANGED <<seg, dl, out, lock, ch, sending, last, metrics>>

LogStreamCreateFailed(n) == Call(Connection(n), Event("StreamCreateFailed", n, 0))

\* It refuses the stream for a lack of deposit, which it logs, or of storage.
Refuse(n) ==
    /\ Conn(n, "new", "refused")
    /\ LogStreamCreateFailed(n) \/ UNCHANGED out
    /\ UNCHANGED <<cut, seg, dl, lock, ch, sending, last, metrics>>

LogStreamCreatedEvent(n) ==
    /\ Conn(n, "registered", "created")
    /\ Call(Connection(n), Event("StreamCreated", n, 0))
    /\ UNCHANGED <<cut, seg, dl, lock, ch, sending, last, metrics>>

\* The publisher is gone.
EndStream(n) ==
    /\ lock = "none" /\ ~Waiting(Connection(n))
    /\ Conn(n, "created", "ending") /\ lock' = n
    /\ UNCHANGED <<cut, seg, dl, out, ch, sending, last, metrics>>

LogStreamEndedEvent(n) ==
    /\ Conn(n, "ending", "logged")
    /\ Call(Connection(n), Event("StreamEnded", n, 0))
    /\ UNCHANGED <<cut, seg, dl, lock, ch, sending, last, metrics>>

Unlock(n) ==
    /\ ~Waiting(Connection(n))
    /\ Conn(n, "logged", "ended") /\ lock' = "none"
    /\ UNCHANGED <<cut, seg, dl, out, ch, sending, last, metrics>>

-----------------------------------------------------------------------------
(* A segment *)

Seg(n, s, from, to) == seg[<<n, s>>] = from /\ seg' = [seg EXCEPT ![<<n, s>>] = to]

\* The segmenter's callback logs the start of the stream with the first segment.
LogStreamStartedEvent(n) ==
    /\ cut[n] = 0
    /\ cut' = [cut EXCEPT ![n] = 1]
    /\ Call(Segmenter(n), Event("StreamStarted", n, 0))
    /\ UNCHANGED <<conn, seg, dl, lock, ch, sending, last, metrics>>

LogSegmentEmerged(n, s) ==
    /\ cut[n] = s /\ Seg(n, s, "new", "emerged")
    /\ Call(Segmenter(n), Event("SegmentEmerged", n, s))
    /\ \/ lastNonce = n /\ UNCHANGED metrics
       \/ lastNonce # n /\ lastNonce' = n /\ lastSeqNo' = s - 1 /\ inFlight' = 0
    /\ UNCHANGED <<conn, cut, dl, lock, ch, sending, last>>

\* The callback returns, and the segmenter goes on with the next segment.
NextSegment(n, s) == cut' = [cut EXCEPT ![n] = IF s < Segs THEN s + 1 ELSE Segs + 1]

\* The segment is not in the node's storage: it is not processed any further.
SaveFails(n, s) ==
    /\ Seg(n, s, "emerged", "done")
    /\ Call(Segmenter(n), Event("SegmentUploadFailed", n, s)) /\ NextSegment(n, s)
    /\ UNCHANGED <<conn, dl, lock, ch, sending, last, metrics>>

LogSourceSegmentAppeared(n, s) ==
    /\ Seg(n, s, "emerged", "appeared")
    /\ Call(Segmenter(n), Event("SourceSegmentAppeared", n, s))
    /\ UNCHANGED <<conn, cut, dl, lock, ch, sending, last, metrics>>

\* The playlist has the segment already.
InsertFails(n, s) ==
    /\ Seg(n, s, "appeared", "uninserted")
    /\ Call(Segmenter(n), Event("SegmentUploadFailed", n, s))
    /\ UNCHANGED <<conn, cut, dl, lock, ch, sending, last, metrics>>

\* The fields of metrics have no lock: an update may be lost to another thread's.
AddInFlight(n, d) ==
    inFlight' \in IF lastNonce = n THEN {inFlight + d, inFlight} ELSE {inFlight}

detectSeqDif(n, s) == lastSeqNo' = IF lastNonce = n THEN s ELSE lastSeqNo

\* t is the segmenter, or the segment's own goroutine.
LogSegmentTranscodeFailed(t, n, s) ==
    /\ Call(t, Event("SegmentTranscodeFailed", n, s))
    /\ AddInFlight(n, -1) /\ detectSeqDif(n, s) /\ UNCHANGED lastNonce

NoOrchestrator(n, s) ==
    /\ \E from \in {"appeared", "uninserted"} : Seg(n, s, from, "done")
    /\ LogSegmentTranscodeFailed(Segmenter(n), n, s) /\ NextSegment(n, s)
    /\ UNCHANGED <<conn, dl, lock, ch, sending, last>>

StartGoroutine(n, s) ==
    /\ \E from \in {"appeared", "uninserted"} : Seg(n, s, from, "async")
    /\ ~Waiting(Segmenter(n)) /\ NextSegment(n, s)
    /\ UNCHANGED <<conn, dl, out, lock, ch, sending, last, metrics>>

SegmentUploadStart(n, s) ==
    /\ Seg(n, s, "async", "uploading")
    /\ AddInFlight(n, 1)
    /\ UNCHANGED <<conn, cut, dl, out, lock, ch, sending, last, lastNonce, lastSeqNo>>

\* The orchestrator's storage, or the orchestrator, does not take the segment.
LogSegmentUploadFailed(n, s) ==
    /\ \E from \in {"async", "uploading"} : Seg(n, s, from, "done")
    /\ Call(<<n, s>>, Event("SegmentUploadFailed", n, s))
    /\ UNCHANGED <<conn, cut, dl, lock, ch, sending, last, metrics>>

LogSegmentUploaded(n, s) ==
    /\ Seg(n, s, "uploading", "uploaded")
    /\ Call(<<n, s>>, Event("SegmentUploaded", n, s))
    /\ UNCHANGED <<conn, cut, dl, lock, ch, sending, last, metrics>>

\* The answer is an error.
TranscodeFails(n, s) ==
    /\ Seg(n, s, "uploaded", "done")
    /\ LogSegmentTranscodeFailed(<<n, s>>, n, s)
    /\ UNCHANGED <<conn, cut, dl, lock, ch, sending, last>>

LogSegmentTranscoded(n, s) ==
    /\ Seg(n, s, "uploaded", "transcoded")
    /\ Call(<<n, s>>, Event("SegmentTranscoded", n, s))
    /\ AddInFlight(n, -1) /\ detectSeqDif(n, s)
    /\ UNCHANGED <<conn, cut, dl, lock, ch, sending, last, lastNonce>>

\* One dlFunc for each rendition that the answer names; the segment's own goroutine has
\* nothing more to log.
StartDownloads(n, s) ==
    /\ Seg(n, s, "transcoded", "renditions")
    /\ ~Waiting(<<n, s>>)
    /\ UNCHANGED <<conn, cut, dl, out, lock, ch, sending, last, metrics>>

Dl(n, s, p, from, to) ==
    /\ seg[<<n, s>>] = "renditions" /\ dl[<<n, s>>][p] \in from
    /\ dl' = [dl EXCEPT ![<<n, s>>][p] = to]

LogTranscodedSegmentAppeared(n, s, p) ==
    /\ Dl(n, s, p, {"get"}, "listed")
    /\ Call(Rendition(n, s, p), Event("TranscodedSegmentAppeared", n, s))
    /\ UNCHANGED <<conn, cut, seg, lock, ch, sending, last, metrics>>

\* gotErr, which is set when the error has been logged
gotErr(n, s) == \E p \in Profiles : dl[<<n, s>>][p] = "failed"

\* errFunc: the rendition cannot be downloaded or saved, or not be listed.
errFunc(n, s, p) ==
    /\ \/ /\ ~gotErr(n, s)
          /\ Dl(n, s, p, {"get", "listed"}, "failing")
          /\ LogSegmentTranscodeFailed(Rendition(n, s, p), n, s)
       \/ /\ gotErr(n, s) /\ ~Waiting(Rendition(n, s, p))
          /\ Dl(n, s, p, {"get", "listed"}, "done")
          /\ UNCHANGED <<out, metrics>>
    /\ UNCHANGED <<conn, cut, seg, lock, ch, sending, last>>

ErrorLogged(n, s, p) ==
    /\ Dl(n, s, p, {"failing"}, "failed") /\ ~Waiting(Rendition(n, s, p))
    /\ UNCHANGED <<conn, cut, seg, out, lock, ch, sending, last, metrics>>

-----------------------------------------------------------------------------
Init ==
    /\ conn = [n \in Streams |-> "new"] /\ cut = [n \in Streams |-> Segs + 1]
    /\ seg = [i \in SegIds |-> "new"] /\ dl = [i \in SegIds |-> [p \in Profiles |-> "get"]]
    /\ out = [t \in Threads |-> NoEvent] /\ lock = "none" /\ ch = <<>> /\ sending = NoEvent /\ last = [i \in SegIds |-> "none"]
    /\ lastNonce = "none" /\ lastSeqNo = 0 /\ inFlight = 0

sendLoop == Receive \/ Post

Handler(n) ==
    \/ Register(n) \/ LogStreamCreatedEvent(n) \/ LogStreamEndedEvent(n) \/ Unlock(n)

Segment(n, s) ==
    \/ LogSegmentEmerged(n, s) \/ SaveFails(n, s) \/ LogSourceSegmentAppeared(n, s)
    \/ InsertFails(n, s) \/ NoOrchestrator(n, s) \/ StartGoroutine(n, s)
    \/ SegmentUploadStart(n, s) \/ LogSegmentUploadFailed(n, s) \/ LogSegmentUploaded(n, s)
    \/ TranscodeFails(n, s) \/ LogSegmentTranscoded(n, s) \/ StartDownloads(n, s)

dlFunc(n, s, p) ==
    LogTranscodedSegmentAppeared(n, s, p) \/ errFunc(n, s, p) \/ ErrorLogged(n, s, p)

Next ==
    \/ sendLoop \/ \E t \in Threads : sendPost(t)
    \/ \E n \in Streams : Handler(n) \/ Refuse(n) \/ EndStream(n)
    \/ \E n \in Sending : LogStreamStartedEvent(n)
    \/ \E n \in Sending, s \in 1 .. Segs : Segment(n, s) \/ \E p \in Profiles : dlFunc(n, s, p)

Spec == Init /\ [][Next]_vars

\* Each POST ends, and the goroutines of the RTMP connections are not suspended for ever:
\* Go hands a free slot of a channel, and a mutex, to the one that has waited longest.
FairSpec ==
    /\ Spec /\ WF_vars(sendLoop)
    /\ \A n \in Streams : SF_vars(sendPost(Connection(n)) \/ Handler(n))

-----------------------------------------------------------------------------
(* Properties *)

\* Shapes of the state.
TypeOK ==
    /\ \A i \in 1 .. Len(ch) : ch[i].nonce \in Streams
    /\ Len(ch) <= ChanLen
    /\ lock \in Streams \union {"none"} /\ lastNonce \in Streams \union {"none"}
    /\ \A n \in Streams : lock = n <=> conn[n] \in {"ending", "logged"}

\* What is told of renditions comes last, in any order: one can fail while another appears.
Rank(name) ==
    CASE name = "SegmentEmerged" -> 1 [] name = "SourceSegmentAppeared" -> 2
      [] name = "SegmentUploadFailed" -> 3 [] name = "SegmentUploaded" -> 4
      [] name = "SegmentTranscoded" -> 5 [] name = "TranscodedSegmentAppeared" -> 6
      [] name = "SegmentTranscodeFailed" -> 6 [] OTHER -> 0

KeepsOrder == \A i \in SegIds : Rank(last[i]) <= Rank(last'[i])

\* sendLoop: the collector is told the story of a segment in order, up to its renditions,
\* although the segment is passed from the segmenter's goroutine to one of its own and
\* from there to those of its renditions, other threads log in between, and any of the
\* events may be lost.
StoryInOrder == [][KeepsOrder]_vars

\* sendPost, endRTMPStream: while each POST to the collector ends, whatever its result, a
\* new stream gets connectionLock and registers, although the lock is held while an
\* event waits for room on the channel.
StreamRegisters == <>(\A n \in Streams : conn[n] # "new")

\* metrics.segmentsInFlight: uploads that have started and not ended are in flight.
InFlightExact ==
    lastNonce # "none" =>
        inFlight = Len(SelectSeq([s \in 1 .. Segs |-> seg[lastNonce, s]],
                                 LAMBDA p : p \in {"uploading", "uploaded"}))

\* processSegment, of gotErr: "only send one error msg per segment list".
OneErrorPerList ==
    \A i \in SegIds : \A p, q \in Profiles :
        dl[i][p] \in {"failing", "failed"} /\ dl[i][q] \in {"failing", "failed"} => p = q

\* gotRTMPStreamHandler: a stream is logged as created before it is logged as started.
CreatedThenStarted == \A n \in Sending : cut[n] \in 1 .. Segs => conn[n] # "registered"
=============================================================================
