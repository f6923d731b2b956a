---------------------------- MODULE SegmentCensus ----------------------------
(****************************************************************************)
(* What the node counts of a broadcaster's segments (Census).               *)
(****************************************************************************)

CONSTANTS Segs, Len30

VARIABLES stream, phase, bad, late, emergeTimes, old, segments, start, end, counted, added

C == INSTANCE Census

censusVars == <<stream, phase, bad, late, emergeTimes, old, segments, start, end,
                counted, added>>

ASSUME SegmentCensusAssumption == C!CensusAssumption

-----------------------------------------------------------------------------
\* The census' ring holds the segments that came last, in their order and each once,
\* also after it has wrapped round.
RingLatest == C!RingLatest
=============================================================================
