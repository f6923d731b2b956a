-------------------------- MODULE BroadcastSegments --------------------------
(****************************************************************************)
(* The segments of a broadcaster's streams: what viewers are given of them   *)
(* (Playlist) and where they and their results are stored (Storage).  The    *)
(* two share no variable.                                                    *)
(****************************************************************************)

CONSTANTS
    Profiles, Source, Count, WinSize, CacheLen,                 \* of Playlist
    Kinds, Stored, SessionCache, ListLen, PolicyLife, MaxTime   \* of Storage

VARIABLES
    nextSeq, mosEnded, dCache, mediaLists, listSeqNo, spc, left, dpc, lost,
    kind, time, own, osSess, loop, bucket, kept, list, storing, url, os

L == INSTANCE Playlist WITH ended <- mosEnded
S == INSTANCE Storage WITH Segs <- Stored, CacheLen <- SessionCache, cache <- kept, pc <- storing,
                          sess <- osSess

playlistVars == <<nextSeq, mosEnded, dCache, mediaLists, listSeqNo, spc, left, dpc, lost>>
storageVars == <<kind, time, own, osSess, loop, bucket, kept, list, storing, url, os>>

ASSUME SegmentsAssumption ==
    /\ L!PlaylistAssumption
    /\ S!StorageAssumption

-----------------------------------------------------------------------------
\* The source playlist that a viewer is served is a window of consecutive segments from
\* SeqNo to the last one listed, and a viewer who follows it finds every one of them, also
\* while the next one is saved and makes room: LIVE_LIST_LENGTH against dataCacheLen, saved
\* before listed.
SourcePlayable == L!SourcePlayable

V == INSTANCE LiveStream WITH
        Window <- WinSize, made <- nextSeq, over <- mosEnded, served <- L!Served,
        seqNo <- L!ServedSeqNo, fetchable <- L!Fetchable

\* However the downloads of renditions and the end of the stream interleave with it, the
\* source is a live stream: whenever a viewer is served, between SaveData, Remove and
\* AppendSegment too, they get the latest segments, at most one short of a full window, and can
\* fetch all of them; after endRTMPStream nothing is served again.
ImplementsLiveStream == V!Spec

\* After EndSession no late download brings data back into the cache.
NothingAfterEnd == L!NothingAfterEnd

\* The goroutine of a segment that waits for its downloads is woken, whichever of them fail
\* and in whatever order they end, unless one of them hangs.
SegmentFinishes == L!SegmentFinishes

\* What the playlists of sources and results name is in the storage that its URL is of.
ListedIsStored == S!ListedIsStored
=============================================================================
