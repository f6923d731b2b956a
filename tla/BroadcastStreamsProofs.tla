----------------------- MODULE BroadcastStreamsProofs ------------------------
(****************************************************************************)
(* Proofs about the streams of a broadcaster: their RTMP connections         *)
(* (MediaServer) and what is reported of them (EventLog).                    *)
(****************************************************************************)
EXTENDS BroadcastStreams, Integers, Sequences, TLAPS

\* An element at the end of a sequence
LEMMA Appended ==
    ASSUME NEW T, NEW q \in Seq(T), NEW e \in T
    PROVE  /\ Append(q, e) \in Seq(T) /\ Len(Append(q, e)) = Len(q) + 1
           /\ Append(q, e)[Len(q) + 1] = e /\ \A i \in 1 .. Len(q) : Append(q, e)[i] = q[i]
OBVIOUS

\* The first element of a sequence, and the others
LEMMA HeadAndTail ==
    ASSUME NEW T, NEW q \in Seq(T), q # <<>>
    PROVE  /\ Head(q) \in T /\ Tail(q) \in Seq(T) /\ Len(Tail(q)) = Len(q) - 1
           /\ \A i \in 1 .. Len(Tail(q)) : Tail(q)[i] = q[i + 1]
OBVIOUS

-----------------------------------------------------------------------------
(* MediaServer *)

\* What a step of publisher p does to its connection, where f gives the manifests
Moves(f, p) ==
    \/ /\ pc[p] = "storage" /\ rtmpConnections[f[p]] = None
       /\ pc' = [pc EXCEPT ![p] = "registered"]
       /\ rtmpConnections' = [rtmpConnections EXCEPT ![f[p]] = p]
       /\ UNCHANGED <<lock, listener>>
    \/ /\ pc[p] = "registered" /\ pc' = [pc EXCEPT ![p] = "needOrch"]
       /\ listener' = [listener EXCEPT ![p] = "listening"]
       /\ UNCHANGED <<rtmpConnections, lock>>
    \/ /\ pc[p] \in {"failed", "eof"} /\ pc' = [pc EXCEPT ![p] = "sendEof"]
       /\ lock = None /\ lock' = p
       /\ UNCHANGED <<rtmpConnections, listener>>
    \/ /\ pc[p] = "sendEof" /\ pc' = [pc EXCEPT ![p] = "done"]
       /\ listener[rtmpConnections[f[p]]] = "listening"
       /\ listener' = [listener EXCEPT ![rtmpConnections[f[p]]] = "finished"]
       /\ rtmpConnections' = [rtmpConnections EXCEPT ![f[p]] = None]
       /\ lock' = None
    \/ /\ pc[p] \notin {"registered", "sendEof"}
       /\ \E l \in {"named", "storage", "failed", "streaming", "eof", "done"} :
             /\ pc' = [pc EXCEPT ![p] = l]
             /\ l \in {"named", "storage"} => pc[p] \in {"idle", "named"}
       /\ UNCHANGED <<rtmpConnections, lock, listener>>

\* A connection is registered under its own manifest; one that is not yet registered has
\* no listener, and so on as in ListenerOfRegistered.
ListenInv(f) ==
    /\ rtmpConnections \in [Manifests -> Publishers \union {None}]
    /\ \A m \in Manifests : rtmpConnections[m] # None => f[rtmpConnections[m]] = m
    /\ DOMAIN pc = Publishers /\ DOMAIN listener = Publishers
    /\ \A c \in Publishers :
          /\ pc[c] \in {"idle", "named", "storage"} => listener[c] = "none"
          /\ listener[c] = "listening" <=> rtmpConnections[f[c]] = c /\ pc[c] # "registered"
          /\ pc[c] = "registered" => rtmpConnections[f[c]] = c /\ listener[c] = "none"
          /\ lock = c <=> pc[c] = "sendEof"

LEMMA MovesPreserve ==
    ASSUME NEW f \in [Publishers -> Manifests], ListenInv(f), NEW p \in Publishers, Moves(f, p)
    PROVE  ListenInv(f)'
<1>0. None \notin Publishers /\ f[p] \in Manifests
  BY MediaServerAssumption, Zenon
<1>1. CASE /\ pc[p] = "storage" /\ rtmpConnections[f[p]] = None
           /\ pc' = [pc EXCEPT ![p] = "registered"]
           /\ rtmpConnections' = [rtmpConnections EXCEPT ![f[p]] = p]
           /\ UNCHANGED <<lock, listener>>
  BY <1>0, <1>1 DEF ListenInv
<1>2. CASE /\ pc[p] = "registered" /\ pc' = [pc EXCEPT ![p] = "needOrch"]
           /\ listener' = [listener EXCEPT ![p] = "listening"]
           /\ UNCHANGED <<rtmpConnections, lock>>
  BY <1>0, <1>2 DEF ListenInv
<1>3. CASE /\ pc[p] \in {"failed", "eof"} /\ pc' = [pc EXCEPT ![p] = "sendEof"]
           /\ lock = None /\ lock' = p /\ UNCHANGED <<rtmpConnections, listener>>
  BY <1>0, <1>3, Zenon DEF ListenInv
<1>4. CASE /\ pc[p] = "sendEof" /\ pc' = [pc EXCEPT ![p] = "done"]
           /\ listener[rtmpConnections[f[p]]] = "listening"
           /\ listener' = [listener EXCEPT ![rtmpConnections[f[p]]] = "finished"]
           /\ rtmpConnections' = [rtmpConnections EXCEPT ![f[p]] = None]
           /\ lock' = None
  BY <1>0, <1>4 DEF ListenInv
<1>5. ASSUME NEW l \in {"named", "storage", "failed", "streaming", "eof", "done"},
             pc[p] \notin {"registered", "sendEof"}, pc' = [pc EXCEPT ![p] = l],
             l \in {"named", "storage"} => pc[p] \in {"idle", "named"},
             UNCHANGED <<rtmpConnections, lock, listener>>
      PROVE  ListenInv(f)'
  BY <1>0, <1>5 DEF ListenInv
<1> QED
  BY <1>1, <1>2, <1>3, <1>4, <1>5, Zenon DEF Moves

\* Steps of the selection and of the segments leave the connections alone.
LEMMA StreamsMove ==
    ASSUME Next
    PROVE  (\E p \in Publishers : Moves(MidOf, p)) \/ UNCHANGED <<rtmpConnections, lock, pc, listener>>
<1>1. ASSUME NEW p \in Publishers,
             createRTMPStreamID(p) \/ LowDeposit(p) \/ NewSession(p) \/ FirstNeedOrch(p) \/ StreamEof(p)
      PROVE  Moves(MidOf, p)
  BY <1>1, Zenon
     DEF createRTMPStreamID, LowDeposit, NewSession, FirstNeedOrch, StreamEof, connVars, Moves
<1>2. ASSUME NEW p \in Publishers,
             registerConnection(p) \/ StartListener(p) \/ endRTMPStream(p) \/ SendEof(p)
      PROVE  Moves(MidOf, p)
  BY <1>2, Zenon
     DEF registerConnection, StartListener, endRTMPStream, SendEof, Active, connVars, Moves
<1>3. ASSUME NEW p \in Publishers, Select(p)
      PROVE  UNCHANGED <<rtmpConnections, lock, pc, listener>>
  BY <1>3, Zenon DEF Select, TrySem, ClearSession, startSession, AssignSession, ReleaseSem, connVars
<1>4. ASSUME NEW w \in Workers, Segment(w)
      PROVE  UNCHANGED <<rtmpConnections, lock, pc, listener>>
  BY <1>4, Zenon DEF Segment, processSegment, SaveData, SubmitSegment, SegmentNeedOrch, connVars
<1> QED
  BY <1>1, <1>2, <1>3, <1>4, Zenon DEF Next, GotStream, EndStream

\* mediaserver.go: whoever publishes under whatever manifest, the eof that endRTMPStream
\* sends with connectionLock held has a listener that takes it, and takes it once.
THEOREM EofAlwaysHasListener == Spec => []ListenerOfRegistered
<1> DEFINE Inv == ListenInv(MidOf)
<1>0. MidOf \in [Publishers -> Manifests] /\ None \notin Publishers
  BY MediaServerAssumption, Zenon
<1>1. Init => Inv
  BY <1>0 DEF Init, ListenInv
<1>2. Inv /\ [Next]_vars => Inv'
  <2> SUFFICES ASSUME Inv, [Next]_vars
               PROVE  Inv'
    BY Zenon
  <2>1. CASE Next
    BY <1>0, <2>1, StreamsMove, MovesPreserve DEF ListenInv
  <2>2. CASE UNCHANGED vars
    <3>1. UNCHANGED <<rtmpConnections, lock, pc, listener>>
      BY <2>2, Zenon DEF vars, connVars
    <3> QED
      BY <3>1, Zenon DEF ListenInv
  <2> QED
    BY <2>1, <2>2, Zenon
<1>3. Inv => ListenerOfRegistered
  BY Zenon DEF ListenInv, ListenerOfRegistered, Registered
<1> QED
  BY <1>1, <1>2, <1>3, PTL DEF Spec

-----------------------------------------------------------------------------
(* EventLog *)

SegNames ==
    {"SegmentEmerged", "SourceSegmentAppeared", "SegmentUploadFailed", "SegmentUploaded",
     "SegmentTranscoded", "TranscodedSegmentAppeared", "SegmentTranscodeFailed"}

\* Stages in which the segmenter reports of a segment, and in which its goroutine does
Early == {"new", "emerged", "appeared", "uninserted"}
Late == {"async", "uploading", "uploaded", "transcoded"}
Stages == Early \union Late \union {"renditions", "done"}

\* The rank that the last report of a segment can have at a stage
StageRank(p) ==
    CASE p = "new" -> 0 [] p = "emerged" -> 1 [] p = "appeared" -> 2
      [] p = "uninserted" -> 3 [] p = "async" -> 3 [] p = "uploading" -> 3
      [] p = "uploaded" -> 4 [] p = "transcoded" -> 5 [] OTHER -> 6

LEMMA Ranks ==
    /\ E!Rank("SegmentEmerged") = 1 /\ E!Rank("SourceSegmentAppeared") = 2
    /\ E!Rank("SegmentUploadFailed") = 3 /\ E!Rank("SegmentUploaded") = 4
    /\ E!Rank("SegmentTranscoded") = 5 /\ E!Rank("TranscodedSegmentAppeared") = 6
    /\ E!Rank("SegmentTranscodeFailed") = 6 /\ E!Rank("none") = 0
BY Zenon DEF E!Rank

LEMMA StageRanks ==
    /\ StageRank("new") = 0 /\ StageRank("emerged") = 1 /\ StageRank("appeared") = 2
    /\ StageRank("uninserted") = 3 /\ StageRank("async") = 3 /\ StageRank("uploading") = 3
    /\ StageRank("uploaded") = 4 /\ StageRank("transcoded") = 5
    /\ StageRank("renditions") = 6 /\ StageRank("done") = 6
BY Zenon DEF StageRank

\* Ranks are numbers.
LEMMA RankTypes ==
    /\ \A a \in SegNames \union {"none"} : E!Rank(a) \in 0 .. 6
    /\ \A p \in Stages : StageRank(p) \in 0 .. 6
<1>1. ASSUME NEW a \in SegNames \union {"none"}
      PROVE  E!Rank(a) \in 0 .. 6
  BY Ranks DEF SegNames
<1>2. ASSUME NEW p \in Stages
      PROVE  StageRank(p) \in 0 .. 6
  BY StageRanks DEF Stages, Early, Late
<1> QED
  BY <1>1, <1>2, Zenon

\* Reports of a segment i
Reports == [name : SegNames, nonce : Sending, seqNo : 1 .. LogSegs]
Of(i) == {e \in Reports : e.nonce = i[1] /\ e.seqNo = i[2]}
NotOfSegment == {E!NoEvent} \union [name : {"StreamCreateFailed", "StreamCreated", "StreamEnded",
                                           "StreamStarted"}, nonce : Streams, seqNo : {0}]

LogTypes ==
    /\ seg \in [E!SegIds -> Stages]
    /\ last \in [E!SegIds -> SegNames \union {"none"}]
    /\ out \in [E!Threads -> Reports \union NotOfSegment]
    /\ ch \in Seq(Reports \union NotOfSegment) /\ sending \in Reports \union NotOfSegment

\* The reports of segment i on their way, from the last one that the collector was told
\* to those that threads wait to hand over, and the stage that the segment is at.  Only of
\* its renditions do several threads report at a time.
Upto(e, f) == E!Rank(e.name) <= E!Rank(f.name)
Fits(e, i) == E!Rank(last[i]) <= E!Rank(e.name) /\ E!Rank(e.name) <= StageRank(seg[i])
ReportedBy(t, i) ==
    \/ t = E!Segmenter(i[1]) /\ seg[i] \in Early \union {"done"}
    \/ t = i /\ seg[i] \in Late \union {"done"}
    \/ seg[i] = "renditions" /\ E!Rank(out[t].name) = 6
InLine(i) ==
    /\ E!Rank(last[i]) <= StageRank(seg[i])
    /\ sending \in Of(i) => Fits(sending, i)
    /\ \A k \in 1 .. Len(ch) : ch[k] \in Of(i) =>
          /\ Fits(ch[k], i)
          /\ sending \in Of(i) => Upto(sending, ch[k])
          /\ \A l \in 1 .. Len(ch) : k < l /\ ch[l] \in Of(i) => Upto(ch[k], ch[l])
    /\ \A t \in E!Threads : out[t] \in Of(i) =>
          /\ Fits(out[t], i)
          /\ sending \in Of(i) => Upto(sending, out[t])
          /\ \A k \in 1 .. Len(ch) : ch[k] \in Of(i) => Upto(ch[k], out[t])
          /\ ReportedBy(t, i)
          /\ \A u \in E!Threads : out[u] \in Of(i) => Upto(out[t], out[u])

LogInv == LogTypes /\ \A i \in E!SegIds : InLine(i)

-----------------------------------------------------------------------------
\* Thread t reports of segment s of stream n, which goes on to stage p.
Report(t, n, s, name, p) ==
    /\ out[t] = E!NoEvent /\ out' = [out EXCEPT ![t] = E!Event(name, n, s)]
    /\ seg' = [seg EXCEPT ![<<n, s>>] = p]
    /\ StageRank(seg[<<n, s>>]) <= E!Rank(name) /\ E!Rank(name) <= StageRank(p)
    /\ \/ t = E!Segmenter(n) /\ seg[<<n, s>>] \in Early /\ p \in Early \union {"done"}
       \/ t = <<n, s>> /\ seg[<<n, s>>] \in Late /\ p \in Late \union {"done"}
    /\ UNCHANGED <<ch, sending, last>>

\* One of several threads reports of a rendition.
RenditionReport(t, n, s, name) ==
    /\ out[t] = E!NoEvent /\ out' = [out EXCEPT ![t] = E!Event(name, n, s)]
    /\ seg[<<n, s>>] = "renditions" /\ E!Rank(name) = 6
    /\ UNCHANGED <<seg, ch, sending, last>>

\* A segment goes on to another stage without a report.
Goes(n, s) == E!StartGoroutine(n, s) \/ E!SegmentUploadStart(n, s) \/ E!StartDownloads(n, s)

LEMMA SegmentReports ==
    ASSUME NEW n \in Sending, NEW s \in 1 .. LogSegs, E!Segment(n, s)
    PROVE  \/ \E t \in {E!Segmenter(n), <<n, s>>}, name \in SegNames,
                 p \in Stages : Report(t, n, s, name, p)
           \/ Goes(n, s)
<1>1. CASE E!LogSegmentEmerged(n, s)
  <2>1. Report(E!Segmenter(n), n, s, "SegmentEmerged", "emerged")
    BY <1>1, Ranks, StageRanks DEF E!LogSegmentEmerged, E!Seg, E!Call, E!Waiting, Report, Early
  <2> QED
    BY <2>1, Zenon DEF SegNames, Stages, Early
<1>2. CASE E!SaveFails(n, s)
  <2>1. Report(E!Segmenter(n), n, s, "SegmentUploadFailed", "done")
    BY <1>2, Ranks, StageRanks DEF E!SaveFails, E!Seg, E!Call, E!Waiting, Report, Early
  <2> QED
    BY <2>1, Zenon DEF SegNames, Stages
<1>3. CASE E!LogSourceSegmentAppeared(n, s)
  <2>1. Report(E!Segmenter(n), n, s, "SourceSegmentAppeared", "appeared")
    BY <1>3, Ranks, StageRanks
       DEF E!LogSourceSegmentAppeared, E!Seg, E!Call, E!Waiting, Report, Early
  <2> QED
    BY <2>1, Zenon DEF SegNames, Stages, Early
<1>4. CASE E!InsertFails(n, s)
  <2>1. Report(E!Segmenter(n), n, s, "SegmentUploadFailed", "uninserted")
    BY <1>4, Ranks, StageRanks DEF E!InsertFails, E!Seg, E!Call, E!Waiting, Report, Early
  <2> QED
    BY <2>1, Zenon DEF SegNames, Stages, Early
<1>5. CASE E!NoOrchestrator(n, s)
  <2>1. Report(E!Segmenter(n), n, s, "SegmentTranscodeFailed", "done")
    BY <1>5, Ranks, StageRanks
       DEF E!NoOrchestrator, E!LogSegmentTranscodeFailed, E!Seg, E!Call, E!Waiting, Report, Early
  <2> QED
    BY <2>1, Zenon DEF SegNames, Stages
<1>6. CASE E!LogSegmentUploadFailed(n, s)
  <2>1. Report(<<n, s>>, n, s, "SegmentUploadFailed", "done")
    BY <1>6, Ranks, StageRanks DEF E!LogSegmentUploadFailed, E!Seg, E!Call, E!Waiting, Report, Late
  <2> QED
    BY <2>1, Zenon DEF SegNames, Stages
<1>7. CASE E!LogSegmentUploaded(n, s)
  <2>1. Report(<<n, s>>, n, s, "SegmentUploaded", "uploaded")
    BY <1>7, Ranks, StageRanks DEF E!LogSegmentUploaded, E!Seg, E!Call, E!Waiting, Report, Late
  <2> QED
    BY <2>1, Zenon DEF SegNames, Stages, Late
<1>8. CASE E!TranscodeFails(n, s)
  <2>1. Report(<<n, s>>, n, s, "SegmentTranscodeFailed", "done")
    BY <1>8, Ranks, StageRanks
       DEF E!TranscodeFails, E!LogSegmentTranscodeFailed, E!Seg, E!Call, E!Waiting, Report, Late
  <2> QED
    BY <2>1, Zenon DEF SegNames, Stages
<1>9. CASE E!LogSegmentTranscoded(n, s)
  <2>1. Report(<<n, s>>, n, s, "SegmentTranscoded", "transcoded")
    BY <1>9, Ranks, StageRanks DEF E!LogSegmentTranscoded, E!Seg, E!Call, E!Waiting, Report, Late
  <2> QED
    BY <2>1, Zenon DEF SegNames, Stages, Late
<1> QED
  BY <1>1, <1>2, <1>3, <1>4, <1>5, <1>6, <1>7, <1>8, <1>9, Zenon DEF E!Segment, Goes

LEMMA RenditionReports ==
    ASSUME NEW n \in Sending, NEW s \in 1 .. LogSegs, NEW p \in LogProfiles, E!dlFunc(n, s, p)
    PROVE  \/ \E t \in E!Threads, name \in SegNames : RenditionReport(t, n, s, name)
           \/ UNCHANGED <<seg, out, ch, sending, last>>
<1>1. E!Rendition(n, s, p) \in E!Threads
  BY Zenon DEF E!Rendition, E!Threads
<1>2. CASE E!LogTranscodedSegmentAppeared(n, s, p)
  <2>1. RenditionReport(E!Rendition(n, s, p), n, s, "TranscodedSegmentAppeared")
    BY <1>2, Ranks, Zenon
       DEF E!LogTranscodedSegmentAppeared, E!Dl, E!Call, E!Waiting, RenditionReport
  <2> QED
    BY <1>1, <2>1, Zenon DEF SegNames
<1>3. CASE E!errFunc(n, s, p)
  <2>1. \/ RenditionReport(E!Rendition(n, s, p), n, s, "SegmentTranscodeFailed")
        \/ UNCHANGED <<seg, out, ch, sending, last>>
    BY <1>3, Ranks, Zenon
       DEF E!errFunc, E!LogSegmentTranscodeFailed, E!Dl, E!Call, E!Waiting, RenditionReport
  <2> QED
    BY <1>1, <2>1, Zenon DEF SegNames
<1>4. CASE E!ErrorLogged(n, s, p)
  BY <1>4, Zenon DEF E!ErrorLogged
<1> QED
  BY <1>2, <1>3, <1>4, Zenon DEF E!dlFunc

-----------------------------------------------------------------------------
LEMMA SegmentIds ==
    ASSUME NEW i \in E!SegIds
    PROVE  i = <<i[1], i[2]>> /\ i[1] \in Sending /\ i[2] \in 1 .. LogSegs
BY DEF E!SegIds

LEMMA ReportsOf ==
    ASSUME NEW i \in E!SegIds
    PROVE  /\ E!NoEvent \notin Of(i)
           /\ \A e \in NotOfSegment : e \notin Of(i)
           /\ \A e \in Of(i) : e.name \in SegNames
           /\ \A n \in Sending, s \in 1 .. LogSegs, name \in SegNames :
                 E!Event(name, n, s) \in Reports /\ (E!Event(name, n, s) \in Of(i) <=> i = <<n, s>>)
<1>1. E!NoEvent \notin Reports
  BY Zenon DEF E!NoEvent, Reports, SegNames
<1>2. \A e \in NotOfSegment : e \notin Reports
  BY <1>1 DEF NotOfSegment, Reports
<1>3. \A n \in Sending, s \in 1 .. LogSegs, name \in SegNames :
         E!Event(name, n, s) \in Reports /\ (E!Event(name, n, s) \in Of(i) <=> i = <<n, s>>)
  BY SegmentIds DEF E!Event, Reports, Of
<1> QED
  BY <1>1, <1>2, <1>3, Zenon DEF Of, Reports

LEMMA RanksOf ==
    ASSUME LogTypes, NEW i \in E!SegIds
    PROVE  /\ E!Rank(last[i]) \in 0 .. 6 /\ StageRank(seg[i]) \in 0 .. 6
           /\ \A e \in Of(i) : E!Rank(e.name) \in 0 .. 6
<1>1. last[i] \in SegNames \union {"none"} /\ seg[i] \in Stages
  BY Zenon DEF LogTypes
<1> QED
  BY <1>1, RankTypes, ReportsOf, Zenon

LEMMA ReportInLine ==
    ASSUME LogTypes, NEW i \in E!SegIds, InLine(i),
           NEW n \in Sending, NEW s \in 1 .. LogSegs, NEW t \in {E!Segmenter(n), <<n, s>>},
           NEW name \in SegNames, NEW p \in Stages,
           Report(t, n, s, name, p)
    PROVE  InLine(i)'
<1> DEFINE e == E!Event(name, n, s)
<1>1. t \in E!Threads /\ <<n, s>> \in E!SegIds /\ E!Segmenter(n) # <<n, s>>
  BY StreamsAssumption DEF E!LogAssumption, E!Segmenter, E!Threads, E!SegIds
<1>2. /\ out[t] = E!NoEvent /\ out'[t] = e /\ \A u \in E!Threads : u # t => out'[u] = out[u]
      /\ ch' = ch /\ sending' = sending /\ last' = last
      /\ seg'[<<n, s>>] = p /\ \A j \in E!SegIds : j # <<n, s>> => seg'[j] = seg[j]
  BY <1>1, Zenon DEF Report, LogTypes
<1>3. E!NoEvent \notin Of(i) /\ (e \in Of(i) <=> i = <<n, s>>)
  BY ReportsOf, Zenon
<1>4. CASE i # <<n, s>>
  <2>1. seg'[i] = seg[i] /\ \A u \in E!Threads : out'[u] \in Of(i) => out'[u] = out[u]
    BY <1>2, <1>3, <1>4, Zenon
  <2> QED
    BY <1>2, <2>1, Zenon DEF InLine, Fits, Upto, ReportedBy
<1>5. CASE i = <<n, s>>
  <2>0. i[1] = n /\ E!Segmenter(i[1]) = E!Segmenter(n)
    BY <1>5, Zenon
  <2>1. \A u \in E!Threads : out[u] \notin Of(i)
    <3>1. \/ t = E!Segmenter(i[1]) /\ seg[i] \in Early
          \/ t = i /\ seg[i] \in Late
      BY <1>5, <2>0, Zenon DEF Report
    <3>2. /\ seg[i] \in Early => seg[i] \notin Late \union {"done", "renditions"}
          /\ seg[i] \in Late => seg[i] \notin Early \union {"done", "renditions"}
      BY Zenon DEF Early, Late
    <3>3. \A u \in E!Threads : out[u] \in Of(i) => u = t
      BY <3>1, <3>2, Zenon DEF InLine, ReportedBy
    <3> QED
      BY <1>2, <1>3, <3>3, Zenon
  <2>2. \A u \in E!Threads : out'[u] \in Of(i) => u = t
    BY <1>2, <2>1, Zenon
  <2>3. E!Rank(name) \in 0 .. 6 /\ StageRank(p) \in 0 .. 6 /\ e.name = name
    BY RankTypes, Zenon DEF E!Event
  <2>4. /\ E!Rank(last[i]) \in 0 .. 6 /\ StageRank(seg[i]) \in 0 .. 6
        /\ \A f \in Of(i) : E!Rank(f.name) \in 0 .. 6
    BY RanksOf, Zenon
  <2>5. StageRank(seg[i]) <= E!Rank(name) /\ E!Rank(name) <= StageRank(p) /\ seg'[i] = p
    BY <1>2, <1>5, Zenon DEF Report
  <2>6. \A f \in Of(i) : Fits(f, i) => Fits(f, i)' /\ Upto(f, e)
    BY <1>2, <2>3, <2>4, <2>5, SMTT(30) DEF Fits, Upto
  <2>7. E!Rank(last'[i]) <= StageRank(seg'[i]) /\ Fits(e, i)'
    BY <1>2, <2>3, <2>4, <2>5, SMTT(30) DEF InLine, Fits
  <2>8. \/ t = E!Segmenter(i[1]) /\ seg'[i] \in Early \union {"done"}
        \/ t = i /\ seg'[i] \in Late \union {"done"}
    BY <1>5, <2>0, <2>5, Zenon DEF Report
  <2>9. sending \in Of(i) => Fits(sending, i)' /\ Upto(sending, e)
    BY <1>2, <2>6, Zenon DEF InLine, Fits
  <2>10. \A k \in 1 .. Len(ch) : ch[k] \in Of(i) => Fits(ch[k], i)' /\ Upto(ch[k], e)
    BY <1>2, <2>6, Zenon DEF InLine, Fits
  <2>11. Upto(e, e)
    BY <2>3 DEF Upto
  <2> QED
    BY <1>2, <2>2, <2>7, <2>8, <2>9, <2>10, <2>11, Zenon DEF InLine, ReportedBy
<1> QED
  BY <1>4, <1>5, Zenon

LEMMA RenditionInLine ==
    ASSUME LogTypes, NEW i \in E!SegIds, InLine(i),
           NEW n \in Sending, NEW s \in 1 .. LogSegs, NEW t \in E!Threads,
           NEW name \in SegNames, RenditionReport(t, n, s, name)
    PROVE  InLine(i)'
<1> DEFINE e == E!Event(name, n, s)
<1>2. /\ out'[t] = e /\ \A u \in E!Threads : u # t => out'[u] = out[u]
      /\ ch' = ch /\ sending' = sending /\ last' = last /\ seg' = seg
  BY Zenon DEF RenditionReport, LogTypes
<1>3. E!NoEvent \notin Of(i) /\ (e \in Of(i) <=> i = <<n, s>>) /\ e.name = name
  BY ReportsOf, Zenon DEF E!Event
<1>4. CASE i # <<n, s>>
  <2>1. \A u \in E!Threads : out'[u] \in Of(i) => out'[u] = out[u]
    BY <1>2, <1>3, <1>4, Zenon
  <2> QED
    BY <1>2, <2>1, Zenon DEF InLine, Fits, Upto, ReportedBy
<1>5. CASE i = <<n, s>>
  <2>1. seg[i] = "renditions" /\ StageRank(seg[i]) = 6 /\ E!Rank(e.name) = 6
    BY <1>3, <1>5, StageRanks, Zenon DEF RenditionReport
  <2>2. E!Rank(last[i]) \in 0 .. 6 /\ \A f \in Of(i) : E!Rank(f.name) \in 0 .. 6
    BY RanksOf, Zenon
  <2>3. Fits(e, i) /\ Upto(e, e) /\ \A f \in Of(i) : Upto(f, e)
    BY <2>1, <2>2, SMTT(30) DEF Fits, Upto
  <2>4. \A u \in E!Threads : out[u] \in Of(i) => Upto(e, out[u])
    <3>1. \A u \in E!Threads : out[u] \in Of(i) => E!Rank(out[u].name) = 6
      BY <2>1, Zenon DEF InLine, ReportedBy, Early, Late
    <3> QED
      BY <2>1, <3>1 DEF Upto
  <2>5. ASSUME NEW u \in E!Threads, out'[u] \in Of(i)
        PROVE  /\ Fits(out'[u], i) /\ (sending \in Of(i) => Upto(sending, out'[u]))
               /\ \A k \in 1 .. Len(ch) : ch[k] \in Of(i) => Upto(ch[k], out'[u])
               /\ ReportedBy(u, i)'
               /\ \A v \in E!Threads : out'[v] \in Of(i) => Upto(out'[u], out'[v])
    <3>1. CASE u = t
      BY <1>2, <2>1, <2>3, <2>4, <3>1, Zenon DEF ReportedBy
    <3>2. CASE u # t
      BY <1>2, <2>3, <2>5, <3>2, Zenon DEF InLine, ReportedBy
    <3> QED
      BY <3>1, <3>2, Zenon
  <2> QED
    BY <1>2, <2>5, Zenon DEF InLine, Fits, Upto
<1> QED
  BY <1>4, <1>5, Zenon

LEMMA StageInLine ==
    ASSUME LogTypes, NEW i \in E!SegIds, InLine(i),
           NEW n \in Sending, NEW s \in 1 .. LogSegs, Goes(n, s)
    PROVE  InLine(i)'
<1>1. <<n, s>> \in E!SegIds /\ E!Segmenter(n) \in E!Threads /\ <<n, s>> \in E!Threads
  BY StreamsAssumption DEF E!LogAssumption, E!Segmenter, E!Threads, E!SegIds
<1>2. PICK p \in {"async", "uploading", "renditions"} :
         /\ seg' = [seg EXCEPT ![<<n, s>>] = p] /\ UNCHANGED <<out, ch, sending, last>>
         /\ \/ /\ p = "async" /\ seg[<<n, s>>] \in {"appeared", "uninserted"}
               /\ out[E!Segmenter(n)] = E!NoEvent
            \/ p = "uploading" /\ seg[<<n, s>>] = "async"
            \/ p = "renditions" /\ seg[<<n, s>>] = "transcoded" /\ out[<<n, s>>] = E!NoEvent
  BY Zenon DEF Goes, E!StartGoroutine, E!SegmentUploadStart, E!StartDownloads, E!Seg, E!Waiting
<1>3. seg'[<<n, s>>] = p /\ \A j \in E!SegIds : j # <<n, s>> => seg'[j] = seg[j]
  BY <1>1, <1>2, Zenon DEF LogTypes
<1>4. CASE i # <<n, s>>
  <2>1. seg'[i] = seg[i] /\ UNCHANGED <<out, ch, sending, last>>
    BY <1>2, <1>3, <1>4, Zenon
  <2> QED
    BY <2>1, ZenonT(30) DEF InLine, Fits, Upto, ReportedBy
<1>5. CASE i = <<n, s>>
  <2>1. /\ E!Rank(last[i]) \in 0 .. 6 /\ StageRank(seg[i]) \in 0 .. 6
        /\ \A f \in Of(i) : E!Rank(f.name) \in 0 .. 6
    BY RanksOf, Zenon
  <2>2. StageRank(seg[i]) <= StageRank(seg'[i]) /\ StageRank(seg'[i]) \in 0 .. 6
    BY <1>2, <1>3, <1>5, StageRanks, SMTT(30)
  <2>3. \A f \in Of(i) : Fits(f, i) => Fits(f, i)'
    BY <1>2, <2>1, <2>2, SMTT(30) DEF Fits
  <2>4. E!Rank(last'[i]) <= StageRank(seg'[i])
    BY <1>2, <2>1, <2>2, SMTT(30) DEF InLine
  <2>5. ASSUME NEW t \in E!Threads, out[t] \in Of(i)
        PROVE  t = i /\ seg'[i] \in Late \union {"done"}
    <3>1. i[1] = n /\ E!Segmenter(i[1]) = E!Segmenter(n)
      BY <1>5, Zenon
    <3>2. ReportedBy(t, i)
      BY <2>5, Zenon DEF InLine
    <3>3. E!NoEvent \notin Of(i)
      BY ReportsOf, Zenon
    <3>4. CASE p = "async"
      BY <1>2, <1>5, <2>5, <3>1, <3>2, <3>3, <3>4, Zenon DEF ReportedBy, Early, Late
    <3>5. CASE p = "uploading"
      BY <1>2, <1>3, <1>5, <3>2, <3>5, Zenon DEF ReportedBy, Early, Late
    <3>6. CASE p = "renditions"
      BY <1>2, <1>5, <2>5, <3>2, <3>3, <3>6, Zenon DEF ReportedBy, Early, Late
    <3> QED
      BY <1>2, <3>4, <3>5, <3>6, Zenon
  <2>6. sending \in Of(i) => Fits(sending, i)'
    BY <1>2, <2>3, Zenon DEF InLine, Fits
  <2>7. \A k \in 1 .. Len(ch) : ch[k] \in Of(i) => Fits(ch[k], i)'
    BY <1>2, <2>3, Zenon DEF InLine, Fits
  <2>8. \A t \in E!Threads : out[t] \in Of(i) => Fits(out[t], i)'
    BY <1>2, <2>3, Zenon DEF InLine, Fits
  <2> QED
    BY <1>2, <2>4, <2>5, <2>6, <2>7, <2>8, Zenon DEF InLine, Upto, ReportedBy
<1> QED
  BY <1>4, <1>5, Zenon

\* A report of a stream is no report of a segment.
LEMMA StreamInLine ==
    ASSUME LogTypes, NEW i \in E!SegIds, InLine(i), UNCHANGED <<seg, ch, sending, last>>,
           NEW t \in E!Threads, NEW e \in NotOfSegment,
           out[t] = E!NoEvent, out' = [out EXCEPT ![t] = e]
    PROVE  InLine(i)'
<1>1. \A u \in E!Threads : out'[u] \in Of(i) => out'[u] = out[u]
  BY ReportsOf, SMTT(30) DEF LogTypes
<1> QED
  BY <1>1, Zenon DEF InLine, Fits, Upto, ReportedBy

LEMMA PostInLine ==
    ASSUME LogTypes, NEW i \in E!SegIds, InLine(i), NEW t \in E!Threads, E!sendPost(t)
    PROVE  InLine(i)'
<1> DEFINE e == out[t]
<1>1. /\ UNCHANGED <<seg, sending, last>> /\ e \in Reports \union NotOfSegment
      /\ out'[t] = E!NoEvent /\ \A u \in E!Threads : u # t => out'[u] = out[u]
  BY Zenon DEF E!sendPost, LogTypes
<1>2. /\ Len(ch') = Len(ch) + 1 /\ Len(ch) \in Nat /\ ch'[Len(ch) + 1] = e
      /\ \A k \in 1 .. Len(ch) : ch'[k] = ch[k]
  BY <1>1, Appended DEF E!sendPost, LogTypes
<1>3. PICK m \in Nat : m = Len(ch)
  BY <1>2, Zenon
<1>4. \A k \in 1 .. Len(ch') : k = m + 1 \/ (k \in 1 .. m /\ ch'[k] = ch[k])
  BY <1>2, <1>3
<1>5. E!NoEvent \notin Of(i)
  BY ReportsOf, Zenon
<1>6. \A u \in E!Threads : out'[u] \in Of(i) => u # t /\ out'[u] = out[u]
  BY <1>1, <1>5, Zenon
<1>7. sending' \in Of(i) => Fits(sending, i)'
  BY <1>1, Zenon DEF InLine, Fits
<1>8. ASSUME NEW k \in 1 .. Len(ch'), ch'[k] \in Of(i)
      PROVE  Fits(ch[k], i)' /\ (sending' \in Of(i) => Upto(sending', ch'[k]))
  <2>1. CASE k = m + 1
    BY <1>1, <1>2, <1>3, <1>8, <2>1, Zenon DEF InLine, Fits
  <2>2. CASE k \in 1 .. m /\ ch'[k] = ch[k]
    BY <1>1, <1>3, <1>8, <2>2, Zenon DEF InLine, Fits
  <2> QED
    BY <1>4, <2>1, <2>2, Zenon
<1>9. ASSUME NEW k \in 1 .. Len(ch'), ch'[k] \in Of(i),
             NEW l \in 1 .. Len(ch'), ch'[l] \in Of(i), k < l
      PROVE  Upto(ch'[k], ch'[l])
  <2>1. k \in 1 .. m /\ ch'[k] = ch[k]
    BY <1>2, <1>3, <1>4, <1>9, SMTT(30)
  <2>2. CASE l = m + 1
    BY <1>2, <1>3, <1>9, <2>1, <2>2, Zenon DEF InLine
  <2>3. CASE l \in 1 .. m /\ ch'[l] = ch[l]
    BY <1>3, <1>9, <2>1, <2>3, Zenon DEF InLine
  <2> QED
    BY <1>4, <2>2, <2>3, Zenon
<1>10. ASSUME NEW u \in E!Threads, out'[u] \in Of(i)
       PROVE  /\ Fits(out[u], i)' /\ (sending' \in Of(i) => Upto(sending', out'[u]))
              /\ ReportedBy(u, i)'
              /\ \A v \in E!Threads : out'[v] \in Of(i) => Upto(out'[u], out'[v])
  BY <1>1, <1>6, <1>10, Zenon DEF InLine, Fits, ReportedBy
<1>11. ASSUME NEW u \in E!Threads, out'[u] \in Of(i), NEW k \in 1 .. Len(ch'), ch'[k] \in Of(i)
       PROVE  Upto(ch'[k], out'[u])
  <2>1. CASE k \in 1 .. m /\ ch'[k] = ch[k]
    BY <1>3, <1>6, <1>11, <2>1, ZenonT(30) DEF InLine
  <2>2. CASE k = m + 1
    BY <1>2, <1>3, <1>6, <1>11, <2>2, Zenon DEF InLine
  <2> QED
    BY <1>4, <2>1, <2>2, Zenon
<1>12. E!Rank(last'[i]) <= StageRank(seg'[i])
  BY <1>1, ZenonT(30) DEF InLine
<1> QED
  BY <1>7, <1>8, <1>9, <1>10, <1>11, <1>12, Zenon DEF InLine, Upto

LEMMA ReceiveInLine ==
    ASSUME LogTypes, NEW i \in E!SegIds, InLine(i), E!Receive
    PROVE  InLine(i)'
<1>1. UNCHANGED <<seg, out, last>> /\ sending = E!NoEvent /\ E!NoEvent \notin Of(i)
  BY ReportsOf, Zenon DEF E!Receive, E!threads
<1>2. ch \in Seq(Reports \union NotOfSegment) /\ ch # <<>> /\ sending' = Head(ch) /\ ch' = Tail(ch)
  BY Zenon DEF E!Receive, LogTypes
<1>3. PICK m \in Nat : m = Len(ch')
  BY <1>2, HeadAndTail
<1>4. Len(ch) = m + 1 /\ sending' = ch[1] /\ \A k \in 1 .. m : ch'[k] = ch[k + 1]
  BY <1>2, <1>3, HeadAndTail
<1>5. 1 \in 1 .. Len(ch) /\ \A k \in 1 .. m : k + 1 \in 1 .. Len(ch) /\ 1 < k + 1
  BY <1>4, SMTT(30)
<1>6. sending' \in Of(i) => Fits(sending, i)'
  BY <1>1, <1>4, <1>5, Zenon DEF InLine, Fits
<1>7. ASSUME NEW k \in 1 .. Len(ch'), ch'[k] \in Of(i)
      PROVE  /\ Fits(ch[k], i)' /\ (sending' \in Of(i) => Upto(sending', ch'[k]))
             /\ \A t \in E!Threads : out'[t] \in Of(i) => Upto(ch'[k], out'[t])
  <2>1. PICK a \in 1 .. Len(ch) : a = k + 1 /\ ch'[k] = ch[a] /\ 1 < a
    BY <1>3, <1>4, <1>5, Zenon
  <2> QED
    BY <1>1, <1>4, <1>5, <1>7, <2>1, Zenon DEF InLine, Fits
<1>8. ASSUME NEW k \in 1 .. Len(ch'), ch'[k] \in Of(i),
             NEW l \in 1 .. Len(ch'), ch'[l] \in Of(i), k < l
      PROVE  Upto(ch'[k], ch'[l])
  <2>1. PICK a \in 1 .. Len(ch) : a = k + 1 /\ ch'[k] = ch[a]
    BY <1>3, <1>4, <1>5, Zenon
  <2>2. PICK b \in 1 .. Len(ch) : b = l + 1 /\ ch'[l] = ch[b]
    BY <1>3, <1>4, <1>5, Zenon
  <2>3. a < b
    BY <1>8, <2>1, <2>2, SMTT(30)
  <2> QED
    BY <1>8, <2>1, <2>2, <2>3, Zenon DEF InLine
<1>9. ASSUME NEW t \in E!Threads, out'[t] \in Of(i)
      PROVE  /\ Fits(out[t], i)' /\ (sending' \in Of(i) => Upto(sending', out'[t]))
             /\ ReportedBy(t, i)'
             /\ \A u \in E!Threads : out'[u] \in Of(i) => Upto(out'[t], out'[u])
  BY <1>1, <1>4, <1>5, <1>9, Zenon DEF InLine, Fits, ReportedBy
<1>10. E!Rank(last'[i]) <= StageRank(seg'[i])
  BY <1>1, Zenon DEF InLine
<1> QED
  BY <1>6, <1>7, <1>8, <1>9, <1>10, Zenon DEF InLine, Upto

\* What a POST can tell the collector: nothing new of a segment, or the report that was sent.
LEMMA PostTells ==
    ASSUME LogTypes, NEW i \in E!SegIds, InLine(i), E!Post
    PROVE  /\ UNCHANGED <<seg, out, ch>> /\ sending' = E!NoEvent
           /\ last'[i] = last[i] \/ (sending \in Of(i) /\ last'[i] = sending.name)
<1>1. UNCHANGED <<seg, out, ch>> /\ sending' = E!NoEvent
  BY Zenon DEF E!Post, E!threads
<1>2. CASE UNCHANGED last
  BY <1>1, <1>2, Zenon
<1>3. CASE E!Told(sending) /\ sending \in Reports
  <2>1. sending.nonce \in Sending /\ sending.seqNo \in 1 .. LogSegs /\ sending.seqNo # 0
    BY <1>3 DEF Reports
  <2>2. last' = [last EXCEPT ![<<sending.nonce, sending.seqNo>>] = sending.name]
    BY <1>3, <2>1, Zenon DEF E!Told
  <2>3. CASE i = <<sending.nonce, sending.seqNo>>
    <3>1. sending \in Of(i)
      BY <1>3, <2>3, Zenon DEF Of
    <3> QED
      BY <1>1, <2>2, <2>3, <3>1, Zenon DEF LogTypes
  <2>4. CASE i # <<sending.nonce, sending.seqNo>>
    BY <1>1, <2>2, <2>4, Zenon DEF LogTypes
  <2> QED
    BY <2>3, <2>4, Zenon
<1>4. CASE E!Told(sending) /\ sending \in NotOfSegment
  <2>1. sending.seqNo = 0
    BY <1>4, Zenon DEF NotOfSegment, E!Post
  <2> QED
    BY <1>1, <1>4, <2>1, Zenon DEF E!Told
<1> QED
  BY <1>2, <1>3, <1>4, Zenon DEF E!Post, LogTypes

LEMMA PostedInLine ==
    ASSUME LogTypes, NEW i \in E!SegIds, InLine(i), E!Post
    PROVE  InLine(i)' /\ E!Rank(last[i]) <= E!Rank(last'[i])
<1>1. /\ UNCHANGED <<seg, out, ch>> /\ sending' = E!NoEvent
      /\ last'[i] = last[i] \/ (sending \in Of(i) /\ last'[i] = sending.name)
  BY PostTells, Zenon
<1>2. E!NoEvent \notin Of(i)
  BY ReportsOf, Zenon
<1>3. CASE last'[i] = last[i]
  <2>1. InLine(i)'
    BY <1>1, <1>2, <1>3, ZenonT(30) DEF InLine, Fits, Upto, ReportedBy
  <2>2. E!Rank(last[i]) <= E!Rank(last[i])
    BY RanksOf
  <2> QED
    BY <1>3, <2>1, <2>2, Zenon
<1>4. CASE sending \in Of(i) /\ last'[i] = sending.name
  <2>1. InLine(i)'
    BY <1>1, <1>2, <1>4, ZenonT(30) DEF InLine, Fits, Upto, ReportedBy
  <2>2. E!Rank(last[i]) <= E!Rank(last'[i])
    BY <1>4, Zenon DEF InLine, Fits
  <2> QED
    BY <2>1, <2>2, Zenon
<1> QED
  BY <1>1, <1>3, <1>4, Zenon

-----------------------------------------------------------------------------
\* Report of a stream: of its connection or of its segmenter.
StreamReport(t, e) ==
    /\ out[t] = E!NoEvent /\ out' = [out EXCEPT ![t] = e] /\ UNCHANGED <<seg, ch, sending, last>>

LEMMA LogStep ==
    ASSUME E!Next
    PROVE  \/ UNCHANGED <<seg, out, ch, sending, last>>
           \/ \E t \in E!Threads, e \in NotOfSegment : StreamReport(t, e)
           \/ \E n \in Sending, s \in 1 .. LogSegs : E!Segment(n, s)
           \/ \E n \in Sending, s \in 1 .. LogSegs, t \in E!Threads, name \in SegNames :
                 RenditionReport(t, n, s, name)
           \/ \E t \in E!Threads : E!sendPost(t)
           \/ E!Receive
           \/ E!Post
<1>1. ASSUME NEW n \in Streams, E!Handler(n) \/ E!Refuse(n) \/ E!EndStream(n)
      PROVE  \/ UNCHANGED <<seg, out, ch, sending, last>>
             \/ \E t \in E!Threads, e \in NotOfSegment : StreamReport(t, e)
  <2>1. E!Connection(n) \in E!Threads
    BY Zenon DEF E!Threads
  <2>2. \A name \in {"StreamCreateFailed", "StreamCreated", "StreamEnded"} :
           E!Event(name, n, 0) \in NotOfSegment
    BY Zenon DEF E!Event, NotOfSegment
  <2>3. CASE E!Register(n) \/ E!Unlock(n) \/ E!EndStream(n)
    BY <2>3, Zenon DEF E!Register, E!Unlock, E!EndStream
  <2>4. CASE E!LogStreamCreatedEvent(n)
    <3>1. StreamReport(E!Connection(n), E!Event("StreamCreated", n, 0))
      BY <2>4, Zenon DEF E!LogStreamCreatedEvent, E!Call, E!Waiting, StreamReport
    <3> QED
      BY <2>1, <2>2, <3>1, Zenon
  <2>5. CASE E!LogStreamEndedEvent(n)
    <3>1. StreamReport(E!Connection(n), E!Event("StreamEnded", n, 0))
      BY <2>5, Zenon DEF E!LogStreamEndedEvent, E!Call, E!Waiting, StreamReport
    <3> QED
      BY <2>1, <2>2, <3>1, Zenon
  <2>6. CASE E!Refuse(n)
    <3>1. \/ StreamReport(E!Connection(n), E!Event("StreamCreateFailed", n, 0))
          \/ UNCHANGED <<seg, out, ch, sending, last>>
      BY <2>6, Zenon DEF E!Refuse, E!LogStreamCreateFailed, E!Call, E!Waiting, StreamReport
    <3> QED
      BY <2>1, <2>2, <3>1, Zenon
  <2> QED
    BY <1>1, <2>3, <2>4, <2>5, <2>6, Zenon DEF E!Handler
<1>2. ASSUME NEW n \in Sending, E!LogStreamStartedEvent(n)
      PROVE  \E t \in E!Threads, e \in NotOfSegment : StreamReport(t, e)
  <2>1. E!Segmenter(n) \in E!Threads /\ n \in Streams
    BY StreamsAssumption DEF E!LogAssumption, E!Segmenter, E!Threads
  <2>2. E!Event("StreamStarted", n, 0) \in NotOfSegment
    BY <2>1, Zenon DEF E!Event, NotOfSegment
  <2>3. StreamReport(E!Segmenter(n), E!Event("StreamStarted", n, 0))
    BY <1>2, Zenon DEF E!LogStreamStartedEvent, E!Call, E!Waiting, StreamReport
  <2> QED
    BY <2>1, <2>2, <2>3, Zenon
<1> QED
  BY <1>1, <1>2, RenditionReports, Zenon DEF E!Next, E!sendLoop

LEMMA LogTyped ==
    ASSUME LogTypes, E!Next
    PROVE  LogTypes'
<1>1. CASE UNCHANGED <<seg, out, ch, sending, last>>
  BY <1>1, Zenon DEF LogTypes
<1>2. ASSUME NEW t \in E!Threads, NEW e \in NotOfSegment, StreamReport(t, e)
      PROVE  LogTypes'
  BY <1>2, Zenon DEF StreamReport, LogTypes
<1>3. ASSUME NEW n \in Sending, NEW s \in 1 .. LogSegs, E!Segment(n, s)
      PROVE  LogTypes'
  <2>1. ASSUME NEW t \in {E!Segmenter(n), <<n, s>>}, NEW name \in SegNames,
               NEW p \in Stages, Report(t, n, s, name, p)
        PROVE  LogTypes'
    <3>1. E!Event(name, n, s) \in Reports
      BY Zenon DEF E!Event, Reports
    <3> QED
      BY <2>1, <3>1, Zenon DEF Report, LogTypes
  <2>2. ASSUME Goes(n, s)
        PROVE  LogTypes'
    <3>1. UNCHANGED <<out, ch, sending, last>>
      BY <2>2, Zenon DEF Goes, E!StartGoroutine, E!SegmentUploadStart, E!StartDownloads
    <3>2. PICK p \in {"async", "uploading", "renditions"} : seg' = [seg EXCEPT ![<<n, s>>] = p]
      BY <2>2, Zenon DEF Goes, E!StartGoroutine, E!SegmentUploadStart, E!StartDownloads, E!Seg
    <3>3. p \in Stages
      BY Zenon DEF Stages, Late
    <3> QED
      BY <3>1, <3>2, <3>3, Zenon DEF LogTypes
  <2> QED
    BY <1>3, <2>1, <2>2, SegmentReports, Zenon
<1>4. ASSUME NEW t \in E!Threads, E!sendPost(t)
      PROVE  LogTypes'
  <2>1. out[t] \in Reports \union NotOfSegment /\ E!NoEvent \in Reports \union NotOfSegment
    BY Zenon DEF LogTypes, NotOfSegment
  <2>2. ch' \in Seq(Reports \union NotOfSegment)
    BY <1>4, <2>1, Appended, Zenon DEF E!sendPost, LogTypes
  <2> QED
    BY <1>4, <2>1, <2>2, Zenon DEF E!sendPost, LogTypes
<1>5. CASE E!Receive
  <2>1. ch' \in Seq(Reports \union NotOfSegment) /\ sending' \in Reports \union NotOfSegment
    BY <1>5, HeadAndTail, Zenon DEF E!Receive, LogTypes
  <2> QED
    BY <1>5, <2>1, Zenon DEF E!Receive, E!threads, LogTypes
<1>6. CASE E!Post
  <2>1. UNCHANGED <<seg, out, ch>> /\ sending' = E!NoEvent /\ E!NoEvent \in NotOfSegment
    BY <1>6, Zenon DEF E!Post, E!threads, NotOfSegment
  <2>2. last' \in [E!SegIds -> SegNames \union {"none"}]
    <3>1. CASE UNCHANGED last
      BY <3>1, Zenon DEF LogTypes
    <3>2. CASE E!Told(sending) /\ sending \in Reports
      <4>1. sending.seqNo # 0 /\ sending.name \in SegNames
        BY <3>2 DEF Reports
      <4> QED
        BY <3>2, <4>1, Zenon DEF E!Told, LogTypes
    <3>3. CASE E!Told(sending) /\ sending \in NotOfSegment
      <4>1. sending.seqNo = 0
        BY <1>6, <3>3, Zenon DEF NotOfSegment, E!Post
      <4> QED
        BY <3>3, <4>1, Zenon DEF E!Told, LogTypes
    <3> QED
      BY <1>6, <3>1, <3>2, <3>3, Zenon DEF E!Post, LogTypes
  <2> QED
    BY <2>1, <2>2, Zenon DEF LogTypes
<1>7. ASSUME NEW n \in Sending, NEW s \in 1 .. LogSegs, NEW t \in E!Threads,
             NEW name \in SegNames, RenditionReport(t, n, s, name)
      PROVE  LogTypes'
  <2>1. E!Event(name, n, s) \in Reports
    BY Zenon DEF E!Event, Reports
  <2> QED
    BY <1>7, <2>1, Zenon DEF RenditionReport, LogTypes
<1> QED
  BY <1>1, <1>2, <1>3, <1>4, <1>5, <1>6, <1>7, LogStep, Zenon

LEMMA LogInLine ==
    ASSUME LogInv, E!Next
    PROVE  LogInv' /\ E!KeepsOrder
<1>1. LogTypes'
  BY LogTyped, Zenon DEF LogInv
<1>2. ASSUME NEW i \in E!SegIds
      PROVE  InLine(i)' /\ E!Rank(last[i]) <= E!Rank(last'[i])
  <2>0. LogTypes /\ InLine(i)
    BY Zenon DEF LogInv
  <2>1. ASSUME UNCHANGED <<seg, out, ch, sending, last>>
        PROVE  InLine(i)' /\ last' = last
    BY <2>0, <2>1, Zenon DEF InLine, Fits, Upto, ReportedBy
  <2>2. ASSUME NEW t \in E!Threads, NEW e \in NotOfSegment, StreamReport(t, e)
        PROVE  InLine(i)' /\ last' = last
    BY <2>0, <2>2, StreamInLine, Zenon DEF StreamReport
  <2>3. ASSUME NEW n \in Sending, NEW s \in 1 .. LogSegs, E!Segment(n, s)
        PROVE  InLine(i)' /\ last' = last
    <3>1. ASSUME NEW t \in {E!Segmenter(n), <<n, s>>}, NEW name \in SegNames,
                 NEW p \in Stages, Report(t, n, s, name, p)
          PROVE  InLine(i)' /\ last' = last
      <4>1. InLine(i)'
        BY <2>0, <3>1, ReportInLine, Zenon
      <4> QED
        BY <3>1, <4>1, Zenon DEF Report
    <3>2. ASSUME Goes(n, s)
          PROVE  InLine(i)' /\ last' = last
      <4>1. InLine(i)'
        BY <2>0, <3>2, StageInLine, Zenon
      <4> QED
        BY <3>2, <4>1, Zenon DEF Goes, E!StartGoroutine, E!SegmentUploadStart, E!StartDownloads
    <3> QED
      BY <2>3, <3>1, <3>2, SegmentReports, Zenon
  <2>4. ASSUME NEW t \in E!Threads, E!sendPost(t)
        PROVE  InLine(i)' /\ last' = last
    BY <2>0, <2>4, PostInLine, Zenon DEF E!sendPost
  <2>5. ASSUME E!Receive
        PROVE  InLine(i)' /\ last' = last
    BY <2>0, <2>5, ReceiveInLine, Zenon DEF E!Receive
  <2>6. CASE E!Post
    BY <2>0, <2>6, PostedInLine, Zenon
  <2>7. ASSUME NEW n \in Sending, NEW s \in 1 .. LogSegs, NEW t \in E!Threads,
               NEW name \in SegNames, RenditionReport(t, n, s, name)
        PROVE  InLine(i)' /\ last' = last
    BY <2>0, <2>7, RenditionInLine, Zenon DEF RenditionReport
  <2>8. E!Rank(last[i]) <= E!Rank(last[i])
    BY <2>0, RanksOf
  <2> QED
    BY <2>1, <2>2, <2>3, <2>4, <2>5, <2>6, <2>7, <2>8, LogStep, Zenon
<1> QED
  BY <1>1, <1>2, Zenon DEF LogInv, E!KeepsOrder

\* monitor/events.go, sendLoop: whatever the threads of a stream wait for, and whichever
\* posts fail, the collector is told of the stages of a segment in their order, and of its
\* renditions, whose goroutines report independently of each other, after them.
THEOREM StoryAlwaysInOrder == E!Spec => StoryInOrder
<1>1. E!Init => LogInv
  <2>1. ASSUME E!Init
        PROVE  LogTypes
    <3>1. E!NoEvent \in NotOfSegment /\ "new" \in Early
      BY Zenon DEF NotOfSegment, Early
    <3> QED
      BY <2>1, <3>1 DEF E!Init, LogTypes, Stages
  <2>2. ASSUME E!Init, NEW i \in E!SegIds
        PROVE  InLine(i)
    <3>1. E!NoEvent \notin Of(i)
      BY ReportsOf, Zenon
    <3>2. /\ sending \notin Of(i) /\ \A t \in E!Threads : out[t] \notin Of(i)
          /\ ch = <<>> /\ last[i] = "none" /\ seg[i] = "new"
      BY <2>2, <3>1, Zenon DEF E!Init
    <3> QED
      BY <3>2, Ranks, StageRanks DEF InLine
  <2> QED
    BY <2>1, <2>2, Zenon DEF LogInv
<1>2. LogInv /\ [E!Next]_E!vars => LogInv' /\ [E!KeepsOrder]_logVars
  <2>1. CASE UNCHANGED E!vars
    BY <2>1, ZenonT(30)
       DEF LogInv, LogTypes, InLine, Fits, Upto, ReportedBy, logVars, E!vars, E!threads, E!metrics
  <2>2. CASE E!Next
    BY <2>2, LogInLine, Zenon
  <2> QED
    BY <2>1, <2>2, Zenon
<1> QED
  BY <1>1, <1>2, PTL DEF E!Spec, StoryInOrder
=============================================================================
