------------------------------ MODULE Playlist ------------------------------
(****************************************************************************)
(* What viewers of a broadcaster get: the segments of one stream, saved in  *)
(* the memory store (drivers/local.go) and listed in the media playlists    *)
(* (core/playlistmanager.go) by processSegment (server/broadcast.go), and   *)
(* served by the HLS handlers (server/mediaserver.go).                      *)
(*                                                                          *)
(* The segmenter hands over the source segments one at a time.  The         *)
(* renditions that come back from the orchestrator are downloaded, saved    *)
(* and listed by one goroutine each, all of them concurrent.  Saving,       *)
(* removing the oldest and appending are steps of their own, between which  *)
(* viewers are served.  A segment is known by its sequence number, its data *)
(* by rendition and number.                                                 *)
(****************************************************************************)
EXTENDS Naturals, Sequences

CONSTANTS
    Profiles,   \* names of sess.Profiles
    Source,     \* the name of the source profile
    Count,      \* bound: segments of the stream, numbered from 0
    WinSize,    \* LIVE_LIST_LENGTH
    CacheLen    \* dataCacheLen

PlaylistAssumption ==
    /\ Source \notin Profiles
    /\ Count \in Nat
    /\ WinSize \in Nat \ {0} /\ CacheLen \in Nat /\ WinSize < CacheLen

Renditions == Profiles \union {Source}
SeqNos == 0 .. Count - 1

VARIABLES
    nextSeq,     \* the next segment of the segmenter
    ended,       \* MemorySession.ended
    dCache,      \* rendition -> names in its dataCache, oldest first
    mediaLists,  \* rendition -> the segments in its playlist
    listSeqNo,   \* rendition -> SeqNo of its playlist
    spc,         \* processSegment of a segment: none, remove, append, submit, wait, done
    left,        \* segment: n, the downloads to wait for
    dpc,         \* dlFunc of a segment and profile: next step
    lost         \* history: renditions the playlist had no room for

listVars == <<mediaLists, listSeqNo>>
vars == <<nextSeq, ended, dCache, listVars, spc, left, dpc, lost>>

-----------------------------------------------------------------------------
(* drivers/local.go: MemorySession *)

InCache(cache, name) == \E i \in 1 .. Len(cache) : cache[i] = name

\* Mutant: a full cache takes no more.
Insert_KeepsOldest(cache, name) ==
    IF InCache(cache, name) \/ Len(cache) >= CacheLen THEN cache ELSE Append(cache, name)

\* dataCache.Insert: an item that is there is replaced; a full cache drops its
\* oldest item.
Insert(cache, name) ==
    IF InCache(cache, name) THEN cache
    ELSE Append(IF Len(cache) >= CacheLen THEN Tail(cache) ELSE cache, name)

\* SaveData of a session that has not ended.
SaveData(r, s) == dCache' = [dCache EXCEPT ![r] = Insert(@, s)]

\* GetData, as getHLSSegmentHandler calls it: whether there is something to serve.
GetData(r, s) == InCache(dCache[r], s)

\* getHLSMediaPlaylistHandler: what a viewer is served.  endRTMPStream removes the
\* connection, with connectionLock held, when it ends the session.
getHLSMediaPlaylist(r) == IF ended THEN <<>> ELSE mediaLists[r]

-----------------------------------------------------------------------------
(* core/playlistmanager.go; the playlist itself is the m3u8 library's *)

\* Remove the oldest segment of a full playlist, which moves SeqNo on ...
removeIfFull(r, list, no) ==
    IF Len(list[r]) >= WinSize
    THEN [list |-> [list EXCEPT ![r] = Tail(@)], no |-> [no EXCEPT ![r] = @ + 1]]
    ELSE [list |-> list, no |-> no]

\* ... and append, with SeqNo set if the playlist is empty.  AppendSegment fails
\* if there is no room.
AppendSegment(r, s, list, no) ==
    [list |-> IF Len(list[r]) >= WinSize THEN list ELSE [list EXCEPT ![r] = Append(@, s)],
     no |-> IF list[r] = <<>> THEN [no EXCEPT ![r] = s] ELSE no]

-----------------------------------------------------------------------------
(* server/broadcast.go *)

\* The segmenter's callback saves the source segment.  In an ended session nothing can be
\* saved and the segment is dropped.
processSegment ==
    LET s == nextSeq IN
    /\ s < Count /\ spc[s] = "none"
    /\ \/ /\ ~ended
          /\ SaveData(Source, s)
          /\ spc' = [spc EXCEPT ![s] = "remove"]
          /\ UNCHANGED nextSeq
       \/ /\ ended
          /\ spc' = [spc EXCEPT ![s] = "done"]
          /\ nextSeq' = s + 1
          /\ UNCHANGED dCache
    /\ UNCHANGED <<ended, listVars, left, dpc, lost>>

\* InsertHLSSegment of the source makes room in the playlist ...
RemoveOldestSource ==
    LET removed == removeIfFull(Source, mediaLists, listSeqNo) IN
    /\ nextSeq < Count /\ spc[nextSeq] = "remove"
    /\ mediaLists' = removed.list /\ listSeqNo' = removed.no
    /\ spc' = [spc EXCEPT ![nextSeq] = "append"]
    /\ UNCHANGED <<nextSeq, ended, dCache, left, dpc, lost>>

\* ... and lists the segment.  The callback is over; with a session, a goroutine takes the
\* segment to the orchestrator.
InsertSource ==
    LET s == nextSeq
        added == AppendSegment(Source, s, mediaLists, listSeqNo)
    IN
    /\ s < Count /\ spc[s] = "append"
    /\ mediaLists' = added.list /\ listSeqNo' = added.no
    /\ nextSeq' = s + 1
    /\ \E next \in {"submit", "done"} : spc' = [spc EXCEPT ![s] = next]
    /\ UNCHANGED <<ended, dCache, left, dpc, lost>>

\* SubmitSegment fails, or answers with the URLs of some renditions: all of
\* them, or those before the one the orchestrator could not upload.
SubmitSegment(s) ==
    /\ spc[s] = "submit"
    /\ \/ spc' = [spc EXCEPT ![s] = "done"] /\ UNCHANGED <<left, dpc>>
       \/ \E urls \in SUBSET Profiles :
             /\ spc' = [spc EXCEPT ![s] = "wait"]
             /\ left' = [left EXCEPT ![s] = urls]
             /\ dpc' = [dpc EXCEPT ![s] = [p \in Profiles |->
                          IF p \in urls THEN "download" ELSE "none"]]
    /\ UNCHANGED <<nextSeq, ended, dCache, listVars, lost>>

\* The deferred function of dlFunc, on every way out.
DownloadDone(s, p) ==
    /\ left' = [left EXCEPT ![s] = @ \ {p}]
    /\ dpc' = [dpc EXCEPT ![s][p] = "done"]

\* Mutant: an early return without the deferred function.
GetSegmentDataFails_NotCounted(s, p) ==
    /\ dpc[s][p] = "download"
    /\ dpc' = [dpc EXCEPT ![s][p] = "done"]
    /\ UNCHANGED <<nextSeq, ended, dCache, listVars, spc, left, lost>>

GetSegmentDataFails(s, p) ==
    /\ dpc[s][p] = "download"
    /\ DownloadDone(s, p)
    /\ UNCHANGED <<nextSeq, ended, dCache, listVars, spc, lost>>

\* The HTTP client has no timeout: a server that stops answering keeps the download.
GetSegmentDataHangs(s, p) ==
    /\ dpc[s][p] = "download"
    /\ dpc' = [dpc EXCEPT ![s][p] = "hung"]
    /\ UNCHANGED <<nextSeq, ended, dCache, listVars, spc, left, lost>>

\* Mutant: data is saved in a session that has ended.
dlFunc_NotChecked(s, p) ==
    /\ dpc[s][p] = "download"
    /\ SaveData(p, s)
    /\ dpc' = [dpc EXCEPT ![s][p] = "remove"]
    /\ UNCHANGED <<nextSeq, ended, listVars, spc, left, lost>>

\* Download and save; the session may have ended meanwhile.
dlFunc(s, p) ==
    /\ dpc[s][p] = "download"
    /\ IF ended
         THEN DownloadDone(s, p) /\ UNCHANGED dCache
         ELSE /\ SaveData(p, s)
              /\ dpc' = [dpc EXCEPT ![s][p] = "remove"]
              /\ UNCHANGED left
    /\ UNCHANGED <<nextSeq, ended, listVars, spc, lost>>

\* InsertHLSSegment: nothing is locked while a playlist is changed.
RemoveOldest(s, p) ==
    LET removed == removeIfFull(p, mediaLists, listSeqNo) IN
    /\ dpc[s][p] = "remove"
    /\ mediaLists' = removed.list /\ listSeqNo' = removed.no
    /\ dpc' = [dpc EXCEPT ![s][p] = "append"]
    /\ UNCHANGED <<nextSeq, ended, dCache, spc, left, lost>>

InsertHLSSegment(s, p) ==
    LET added == AppendSegment(p, s, mediaLists, listSeqNo) IN
    /\ dpc[s][p] = "append"
    /\ mediaLists' = added.list /\ listSeqNo' = added.no
    /\ lost' = IF added.list = mediaLists THEN lost \union {<<p, s>>} ELSE lost
    /\ DownloadDone(s, p)
    /\ UNCHANGED <<nextSeq, ended, dCache, spc>>

\* cond.Wait until every download is over; then the signature is checked and
\* the outcome logged.
AllDownloaded(s) ==
    /\ spc[s] = "wait" /\ left[s] = {}
    /\ spc' = [spc EXCEPT ![s] = "done"]
    /\ UNCHANGED <<nextSeq, ended, dCache, listVars, left, dpc, lost>>

\* endRTMPStreamHandler: Cleanup ends the storage session and drops its data.
Cleanup ==
    /\ ~ended
    /\ ended' = TRUE
    /\ dCache' = [r \in Renditions |-> <<>>]
    /\ UNCHANGED <<nextSeq, listVars, spc, left, dpc, lost>>

-----------------------------------------------------------------------------
Init ==
    /\ nextSeq = 0
    /\ ended = FALSE
    /\ dCache = [r \in Renditions |-> <<>>]
    /\ mediaLists = [r \in Renditions |-> <<>>]
    /\ listSeqNo = [r \in Renditions |-> 0]
    /\ spc = [s \in SeqNos |-> "none"]
    /\ left = [s \in SeqNos |-> {}]
    /\ dpc = [s \in SeqNos |-> [p \in Profiles |-> "none"]]
    /\ lost = {}

Download(s, p) ==
    GetSegmentDataFails(s, p) \/ dlFunc(s, p) \/ RemoveOldest(s, p) \/ InsertHLSSegment(s, p)

Next ==
    \/ processSegment \/ RemoveOldestSource \/ InsertSource \/ Cleanup
    \/ \E s \in SeqNos :
          \/ SubmitSegment(s) \/ AllDownloaded(s)
          \/ \E p \in Profiles : Download(s, p) \/ GetSegmentDataHangs(s, p)

Spec == Init /\ [][Next]_vars

\* Goroutines run.  A download ends or hangs for good (GetSegmentDataHangs).
FairSpec ==
    /\ Spec
    /\ \A s \in SeqNos :
          /\ WF_vars(AllDownloaded(s))
          /\ \A p \in Profiles : WF_vars(Download(s, p))

-----------------------------------------------------------------------------
(* Properties *)

\* Shapes of the state; caches and playlists stay within their lengths.
TypeOK ==
    /\ nextSeq \in 0..Count
    /\ ended \in BOOLEAN
    /\ \A r \in Renditions :
          /\ dCache[r] \in Seq(SeqNos) /\ Len(dCache[r]) <= CacheLen
          /\ mediaLists[r] \in Seq(SeqNos) /\ Len(mediaLists[r]) <= WinSize
    /\ listSeqNo \in [Renditions -> Nat]
    /\ spc \in [SeqNos -> {"none", "remove", "append", "submit", "wait", "done"}]
    /\ left \in [SeqNos -> SUBSET Profiles]
    /\ dpc \in [SeqNos -> [Profiles -> {"none", "download", "hung", "remove", "append", "done"}]]
    /\ lost \subseteq Profiles \X SeqNos

\* The source playlist that a viewer is served is a window of consecutive segments from
\* SeqNo to the last one listed, and a viewer who follows it finds every one of them, also
\* while the next one is saved and makes room: LIVE_LIST_LENGTH against dataCacheLen, saved
\* before listed.
SourcePlayable ==
    LET list == getHLSMediaPlaylist(Source) IN
    list # <<>> =>
        /\ list = [i \in 1 .. Len(list) |-> listSeqNo[Source] + i - 1]
        /\ list[Len(list)] = nextSeq - 1
        /\ \A i \in 1 .. Len(list) : GetData(Source, list[i])

\* The source as a viewer meets it: what is served, the sequence number it begins with, and
\* what of it can be fetched.  The handlers find no stream once it has ended.
Served == getHLSMediaPlaylist(Source)
ServedSeqNo == IF ended THEN 0 ELSE listSeqNo[Source]
Fetchable == {Served[i] : i \in {j \in 1 .. Len(Served) : GetData(Source, Served[j])}}

\* Once the stream has ended no late download brings data back: what was saved
\* is gone and the memory given back.
NothingAfterEnd == ended => \A r \in Renditions : dCache[r] = <<>>

\* The goroutine of a segment that waits for its downloads is woken, whichever of them fail
\* and in whatever order they end, unless one of them hangs.
SegmentFinishes ==
    \A s \in SeqNos :
        (spc[s] = "wait") ~> (spc[s] = "done" \/ \E p \in Profiles : dpc[s][p] = "hung")

\* TestPlaylists (core/playlistmanager_test.go): "Insert out of order. Playlist
\* should accommodate this."  A playlist lists its segments in their order.
PlaylistInOrder ==
    \A r \in Renditions : \A i, j \in 1..Len(mediaLists[r]) :
        i < j => mediaLists[r][i] < mediaLists[r][j]

\* PlaylistManager (core/playlistmanager.go), of InsertHLSSegment: "Inserts in
\* media playlist given a link to a segment".
InsertedSegmentListed == lost = {}
=============================================================================
