---------------------------- MODULE TranscodeLoop ----------------------------
(****************************************************************************)
(* The orchestrator's transcoding sessions (core/orchestrator.go): one loop *)
(* goroutine and one channel of capacity 1 per manifest, at most MaxSessions *)
(* of them, created by the first segment of a manifest and closed after     *)
(* transcodeLoopTimeout without one.                                        *)
(*                                                                          *)
(* Requests are the goroutines of ServeSegment.  A request checks the       *)
(* capacity, gets the channel under segmentMutex, and sends on it after the *)
(* mutex is released; the loop it sends to may have ended in between.       *)
(* A request's segment is identified with the request.                      *)
(****************************************************************************)
EXTENDS Naturals, FiniteSets

CONSTANTS
    Manifests,    \* manifest IDs
    Requests,     \* ServeSegment goroutines
    ManifestOf,   \* the manifest of a request's segments
    Chans,        \* segment channels, each with the loop that reads it
    ChanFor,      \* the manifest a channel is made for
    MaxSessions,  \* core.MaxSessions
    NoChan, NoRequest

ASSUME TranscodeLoopAssumption ==
    /\ ManifestOf \in [Requests -> Manifests]
    /\ ChanFor \in [Chans -> Manifests]
    /\ MaxSessions \in Nat
    /\ NoChan \notin Chans /\ NoRequest \notin Requests
    /\ IsFiniteSet(Manifests)

VARIABLES
    SegmentChans,  \* manifest -> its channel, under segmentMutex
    closed,        \* channels that were closed
    buf,           \* the channel's buffer: the request waiting in it, if any
    lpc,           \* loop: none, select, transcode, stuck, ending, ended
    cur,           \* loop: the request whose segment it transcodes
    rpc,           \* request: idle, checked, send, wait, aborted
    rch,           \* request: the channel it got from getSegmentChan
    res            \* request: whether its result channel holds a result

loopVars == <<lpc, cur>>
requestVars == <<rpc, rch, res>>
vars == <<SegmentChans, closed, buf, loopVars, requestVars>>

Sessions == {m \in Manifests : SegmentChans[m] # NoChan}

Return(r) ==
    /\ rpc' = [rpc EXCEPT ![r] = "idle"]
    /\ rch' = [rch EXCEPT ![r] = NoChan]

-----------------------------------------------------------------------------
(* A segment request *)

\* verifySegCreds: the capacity check, under the read lock.  A request that is
\* refused here changes nothing.
CheckCapacity(r) ==
    /\ rpc[r] = "idle"
    /\ ManifestOf[r] \in Sessions \/ Cardinality(Sessions) < MaxSessions
    /\ rpc' = [rpc EXCEPT ![r] = "checked"]
    /\ UNCHANGED <<SegmentChans, closed, buf, loopVars, rch, res>>

\* Payment, body or hash is refused before TranscodeSeg.
Refuse(r) ==
    /\ rpc[r] = "checked"
    /\ Return(r)
    /\ UNCHANGED <<SegmentChans, closed, buf, loopVars, res>>

\* Mutant: the capacity was checked on the way in and is not checked again.
getSegmentChan_NoRecheck(r) ==
    LET m == ManifestOf[r] IN
    /\ rpc[r] = "checked"
    /\ \/ /\ SegmentChans[m] # NoChan
          /\ rch' = [rch EXCEPT ![r] = SegmentChans[m]]
          /\ UNCHANGED <<SegmentChans, lpc>>
       \/ \E c \in Chans :
             /\ SegmentChans[m] = NoChan
             /\ ChanFor[c] = m /\ lpc[c] = "none"
             /\ SegmentChans' = [SegmentChans EXCEPT ![m] = c]
             /\ lpc' = [lpc EXCEPT ![c] = "select"]
             /\ rch' = [rch EXCEPT ![r] = c]
    /\ rpc' = [rpc EXCEPT ![r] = "send"]
    /\ UNCHANGED <<closed, buf, cur, res>>

\* Under segmentMutex: the manifest's channel, or a new one with its loop.
getSegmentChan(r) ==
    LET m == ManifestOf[r] IN
    /\ rpc[r] = "checked"
    /\ \/ /\ SegmentChans[m] # NoChan
          /\ rch' = [rch EXCEPT ![r] = SegmentChans[m]]
          /\ UNCHANGED <<SegmentChans, lpc>>
       \/ \E c \in Chans :
             /\ SegmentChans[m] = NoChan
             /\ Cardinality(Sessions) < MaxSessions
             /\ ChanFor[c] = m /\ lpc[c] = "none"
             /\ SegmentChans' = [SegmentChans EXCEPT ![m] = c]
             /\ lpc' = [lpc EXCEPT ![c] = "select"]
             /\ rch' = [rch EXCEPT ![r] = c]
    /\ rpc' = [rpc EXCEPT ![r] = "send"]
    /\ UNCHANGED <<closed, buf, cur, res>>

\* ErrOrchCap: the sessions filled up after the check.
getSegmentChanFails(r) ==
    /\ rpc[r] = "checked"
    /\ SegmentChans[ManifestOf[r]] = NoChan
    /\ Cardinality(Sessions) >= MaxSessions
    /\ Return(r)
    /\ UNCHANGED <<SegmentChans, closed, buf, loopVars, res>>

\* The send of sendToTranscodeLoop, which does not block: a full buffer is
\* ErrOrchBusy, a closed channel a panic, which aborts the request.
sendToTranscodeLoop(r) ==
    LET c == rch[r] IN
    /\ rpc[r] = "send"
    /\ \/ /\ c \in closed
          /\ rpc' = [rpc EXCEPT ![r] = "aborted"]
          /\ UNCHANGED <<buf, rch>>
       \/ /\ c \notin closed /\ buf[c] # NoRequest
          /\ Return(r)
          /\ UNCHANGED buf
       \/ /\ c \notin closed /\ buf[c] = NoRequest
          /\ buf' = [buf EXCEPT ![c] = r]
          /\ rpc' = [rpc EXCEPT ![r] = "wait"]
          /\ UNCHANGED rch
    /\ UNCHANGED <<SegmentChans, closed, loopVars, res>>

\* <-segChanData.res
ReceiveResult(r) ==
    /\ rpc[r] = "wait" /\ res[r]
    /\ res' = [res EXCEPT ![r] = FALSE]
    /\ Return(r)
    /\ UNCHANGED <<SegmentChans, closed, buf, loopVars>>

-----------------------------------------------------------------------------
(* transcodeSegmentLoop *)

\* Mutant: a failed transcode is logged and not answered.
ReceiveSegment_DropsOnError(c) ==
    /\ lpc[c] = "select" /\ buf[c] # NoRequest
    /\ buf' = [buf EXCEPT ![c] = NoRequest]
    /\ UNCHANGED <<SegmentChans, closed, lpc, cur, requestVars>>

ReceiveSegment(c) ==
    /\ lpc[c] = "select" /\ buf[c] # NoRequest
    /\ cur' = [cur EXCEPT ![c] = buf[c]]
    /\ buf' = [buf EXCEPT ![c] = NoRequest]
    /\ lpc' = [lpc EXCEPT ![c] = "transcode"]
    /\ UNCHANGED <<SegmentChans, closed, requestVars>>

\* Mutant: a failed transcode is answered, and put back in the channel for another try.
transcodeSeg_Requeues(c) ==
    /\ lpc[c] = "transcode"
    /\ res' = [res EXCEPT ![cur[c]] = TRUE]
    /\ buf' = IF buf[c] = NoRequest THEN [buf EXCEPT ![c] = cur[c]] ELSE buf
    /\ cur' = [cur EXCEPT ![c] = NoRequest]
    /\ lpc' = [lpc EXCEPT ![c] = "select"]
    /\ UNCHANGED <<SegmentChans, closed, rpc, rch>>

\* transcodeSeg, successful or not, and the send on the result channel.
transcodeSeg(c) ==
    /\ lpc[c] = "transcode"
    /\ res' = [res EXCEPT ![cur[c]] = TRUE]
    /\ cur' = [cur EXCEPT ![c] = NoRequest]
    /\ lpc' = [lpc EXCEPT ![c] = "select"]
    /\ UNCHANGED <<SegmentChans, closed, buf, rpc, rch>>

\* A call of a remote transcoder that blocks on its eof channel, which is full and has no
\* reader left, does not return; neither does the loop, and its session stays.
TranscodeBlocks(c) ==
    /\ lpc[c] = "transcode"
    /\ lpc' = [lpc EXCEPT ![c] = "stuck"]
    /\ UNCHANGED <<SegmentChans, closed, buf, cur, requestVars>>

\* The context is done; with a segment in the buffer too, select may pick
\* either.  The storage sessions end here.
Timeout(c) ==
    /\ lpc[c] = "select"
    /\ lpc' = [lpc EXCEPT ![c] = "ending"]
    /\ UNCHANGED <<SegmentChans, closed, buf, cur, requestVars>>

\* Mutant: the loop gives its session up before it stops reading the channel.
CloseChan_KeepsReading(c) ==
    LET m == ChanFor[c] IN
    /\ lpc[c] = "ending"
    /\ SegmentChans' = [SegmentChans EXCEPT ![m] = NoChan]
    /\ lpc' = [lpc EXCEPT ![c] = "select"]
    /\ UNCHANGED <<closed, buf, cur, requestVars>>

\* Under segmentMutex: whatever channel is filed for the manifest is closed.
CloseChan(c) ==
    LET m == ChanFor[c] IN
    /\ lpc[c] = "ending"
    /\ IF SegmentChans[m] # NoChan
         THEN /\ closed' = closed \union {SegmentChans[m]}
              /\ SegmentChans' = [SegmentChans EXCEPT ![m] = NoChan]
         ELSE UNCHANGED <<closed, SegmentChans>>
    /\ lpc' = [lpc EXCEPT ![c] = "ended"]
    /\ UNCHANGED <<buf, cur, requestVars>>

-----------------------------------------------------------------------------
Init ==
    /\ SegmentChans = [m \in Manifests |-> NoChan]
    /\ closed = {}
    /\ buf = [c \in Chans |-> NoRequest]
    /\ lpc = [c \in Chans |-> "none"]
    /\ cur = [c \in Chans |-> NoRequest]
    /\ rpc = [r \in Requests |-> "idle"]
    /\ rch = [r \in Requests |-> NoChan]
    /\ res = [r \in Requests |-> FALSE]

Request(r) ==
    \/ CheckCapacity(r) \/ Refuse(r) \/ getSegmentChan(r) \/ getSegmentChanFails(r)
    \/ sendToTranscodeLoop(r) \/ ReceiveResult(r)

Loop(c) == ReceiveSegment(c) \/ transcodeSeg(c) \/ CloseChan(c)

Next ==
    \/ \E r \in Requests : Request(r)
    \/ \E c \in Chans : Loop(c) \/ TranscodeBlocks(c) \/ Timeout(c)

Spec == Init /\ [][Next]_vars

-----------------------------------------------------------------------------
(* Properties *)

\* Shapes of the state; a request that sends or waits has a channel.
TypeOK ==
    /\ SegmentChans \in [Manifests -> Chans \union {NoChan}]
    /\ closed \subseteq Chans
    /\ buf \in [Chans -> Requests \union {NoRequest}]
    /\ lpc \in [Chans -> {"none", "select", "transcode", "stuck", "ending", "ended"}]
    /\ cur \in [Chans -> Requests \union {NoRequest}]
    /\ rpc \in [Requests -> {"idle", "checked", "send", "wait", "aborted"}]
    /\ rch \in [Requests -> Chans \union {NoChan}]
    /\ \A r \in Requests : rpc[r] \in {"send", "wait", "aborted"} => rch[r] \in Chans
    /\ res \in [Requests -> BOOLEAN]

\* However requests race for the last session, and although the capacity is
\* checked long before the channel is made, the node never has more than
\* MaxSessions transcoding sessions.
SessionsWithinLimit == Cardinality(Sessions) <= MaxSessions

Alive(c) == lpc[c] \in {"select", "transcode", "stuck", "ending"}

\* A loop that has not ended is the one filed for its manifest, so a manifest
\* has at most one loop, a loop closes no channel but its own, and none twice
\* (which would take the process down).
LoopOwnsChannel ==
    /\ \A c \in Chans : Alive(c) <=> SegmentChans[ChanFor[c]] = c
    /\ \A m \in Sessions : ChanFor[SegmentChans[m]] = m
    /\ closed = {c \in Chans : lpc[c] = "ended"}

\* A segment that was taken by a channel is in one place: in that channel's
\* buffer, in its loop's hands, or answered; nothing else is in those places.
SegmentInOnePlace ==
    /\ \A c \in Chans : buf[c] # NoRequest =>
          rpc[buf[c]] = "wait" /\ rch[buf[c]] = c /\ ~res[buf[c]] /\ cur[c] # buf[c]
    /\ \A c \in Chans : /\ lpc[c] \in {"transcode", "stuck"} <=> cur[c] # NoRequest
                        /\ cur[c] # NoRequest =>
                              rpc[cur[c]] = "wait" /\ rch[cur[c]] = c /\ ~res[cur[c]]
    /\ \A r \in Requests : res[r] => rpc[r] = "wait"
    /\ \A r \in Requests :
          rpc[r] = "wait" => res[r] \/ buf[rch[r]] = r \/ cur[rch[r]] = r

\* Goroutines keep running, and a call of transcodeSeg returns or blocks for good
\* (TranscodeBlocks).  Nothing makes a loop time out.
Fairness ==
    /\ \A c \in Chans : WF_vars(Loop(c))
    /\ \A r \in Requests : WF_vars(ReceiveResult(r))

FairSpec == Spec /\ Fairness

\* A segment is answered unless its loop times out under it, or the loop's transcoder never
\* returns from it or from the segment before.
AnsweredUnlessTimeout ==
    \A r \in Requests : \A c \in Chans :
        (rpc[r] = "wait" /\ rch[r] = c)
            ~> (rpc[r] # "wait" \/ lpc[c] \in {"stuck", "ending", "ended"})

\* doc/networking.md, on what processing a segment request consists of: "Return
\* a TranscodeResult body based on the results of the transcode."
EverySegmentAnswered == \A r \in Requests : (rpc[r] = "wait") ~> (rpc[r] = "idle")

\* ServeSegment, once the 200 OK is sent: "Any further errors come through the
\* response body".
ErrorsThroughBody == \A r \in Requests : rpc[r] # "aborted"
=============================================================================
