-------------------------- MODULE BroadcastStreams ---------------------------
(****************************************************************************)
(* The streams of a broadcaster: their RTMP connections and sessions        *)
(* (MediaServer) and what the node reports of a stream and its segments     *)
(* (EventLog).  The two share no variable.                                  *)
(****************************************************************************)
EXTENDS MediaServer

CONSTANTS Streams, Sending, LogSegs, LogProfiles, ChanLen  \* of EventLog

VARIABLES conn, cut, seg, dl, out, logLock, ch, sending, last, lastNonce, lastSeqNo, inFlight

E == INSTANCE EventLog WITH Segs <- LogSegs, Profiles <- LogProfiles, lock <- logLock

logVars ==
    <<conn, cut, seg, dl, out, logLock, ch, sending, last, lastNonce, lastSeqNo, inFlight>>

ASSUME StreamsAssumption == E!LogAssumption

-----------------------------------------------------------------------------
\* sendLoop: the collector is told of the stages of a segment in their order, and of its
\* renditions, which report independently of each other, after them.
StoryInOrder == [][E!KeepsOrder]_logVars
=============================================================================
