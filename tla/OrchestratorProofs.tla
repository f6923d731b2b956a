------------------------- MODULE OrchestratorProofs --------------------------
(****************************************************************************)
(* For every number of requests, manifests and sessions: the limit on       *)
(* sessions, the loop's ownership of its channel, and the place of every    *)
(* segment.  For every number of loops, remote transcoders and tasks: the   *)
(* room for a result.  For every number of segments and every length of the *)
(* ring: what the census keeps.                                             *)
(****************************************************************************)
EXTENDS MCOrchestrator, SegmentCensus, Integers, Sequences, FiniteSetTheorems, TLAPS

\* An element at the end of a sequence
LEMMA Appended ==
    ASSUME NEW T, NEW q \in Seq(T), NEW e \in T
    PROVE  /\ Append(q, e) \in Seq(T) /\ Len(Append(q, e)) = Len(q) + 1
           /\ Append(q, e)[Len(q) + 1] = e /\ \A i \in 1 .. Len(q) : Append(q, e)[i] = q[i]
OBVIOUS

\* The first element of a sequence, and the others
LEMMA HeadAndTail ==
    ASSUME NEW T, NEW q \in Seq(T), q # <<>>
    PROVE  /\ Head(q) \in T /\ Tail(q) \in Seq(T) /\ Len(Tail(q)) = Len(q) - 1
           /\ \A i \in 1 .. Len(Tail(q)) : Tail(q)[i] = q[i + 1]
OBVIOUS

-----------------------------------------------------------------------------
(* TranscodeLoop *)

LoopInv == TypeOK /\ SessionsWithinLimit /\ LoopOwnsChannel /\ SegmentInOnePlace

\* The sessions are finitely many, and a step that files one more channel after
\* checking the limit keeps within it.
LEMMA OneMoreSession ==
    ASSUME TypeOK, NEW m \in Manifests, NEW c \in Chans,
           Cardinality(Sessions) < MaxSessions,
           SegmentChans' = [SegmentChans EXCEPT ![m] = c]
    PROVE  SessionsWithinLimit'
<1>1. IsFiniteSet(Sessions)
  BY TranscodeLoopAssumption, FS_Subset, Zenon DEF Sessions
<1>2. Sessions' = Sessions \union {m}
  BY TranscodeLoopAssumption DEF Sessions, TypeOK
<1>3. Cardinality(Sessions) \in Nat
  BY <1>1, FS_CardinalityType, Zenon
<1>4. Cardinality(Sessions \union {m}) = Cardinality(Sessions)
        \/ Cardinality(Sessions \union {m}) = Cardinality(Sessions) + 1
  BY <1>1, FS_AddElement, Zenon
<1> QED
  BY <1>2, <1>3, <1>4, TranscodeLoopAssumption DEF SessionsWithinLimit

\* A step that files no new channel keeps within the limit.
LEMMA NoNewSession ==
    ASSUME SessionsWithinLimit, Sessions' \subseteq Sessions
    PROVE  SessionsWithinLimit'
<1>1. IsFiniteSet(Sessions) /\ IsFiniteSet(Sessions')
  BY TranscodeLoopAssumption, FS_Subset, Zenon DEF Sessions
<1>2. /\ Cardinality(Sessions') <= Cardinality(Sessions)
      /\ Cardinality(Sessions) \in Nat /\ Cardinality(Sessions') \in Nat
  BY <1>1, FS_Subset, FS_CardinalityType, Zenon
<1> QED
  BY <1>2, TranscodeLoopAssumption DEF SessionsWithinLimit

\* Every step keeps the types.
LEMMA TypeStep == TypeOK /\ LoopOwnsChannel /\ SegmentInOnePlace /\ [Next]_vars => TypeOK'
<1> SUFFICES ASSUME TypeOK, LoopOwnsChannel, SegmentInOnePlace, [Next]_vars PROVE TypeOK'
  BY Zenon
<1> USE TranscodeLoopAssumption
<1>1. ASSUME NEW r \in Requests, CheckCapacity(r) PROVE TypeOK'
  BY <1>1, Zenon DEF TypeOK, CheckCapacity, loopVars
<1>2. ASSUME NEW r \in Requests, Refuse(r) PROVE TypeOK'
  BY <1>2, Zenon DEF TypeOK, Refuse, Return, loopVars
<1>3. ASSUME NEW r \in Requests, getSegmentChan(r) PROVE TypeOK'
  BY <1>3 DEF TypeOK, getSegmentChan
<1>4. ASSUME NEW r \in Requests, getSegmentChanFails(r) PROVE TypeOK'
  BY <1>4, Zenon DEF TypeOK, getSegmentChanFails, Return, loopVars
<1>5. ASSUME NEW r \in Requests, sendToTranscodeLoop(r) PROVE TypeOK'
  BY <1>5 DEF TypeOK, sendToTranscodeLoop, Return, loopVars
<1>6. ASSUME NEW r \in Requests, ReceiveResult(r) PROVE TypeOK'
  BY <1>6, Zenon DEF TypeOK, ReceiveResult, Return, loopVars
<1>7. ASSUME NEW c \in Chans, ReceiveSegment(c) PROVE TypeOK'
  BY <1>7, Zenon DEF TypeOK, ReceiveSegment, requestVars
<1>8. ASSUME NEW c \in Chans, transcodeSeg(c) PROVE TypeOK'
  BY <1>8, Zenon DEF TypeOK, transcodeSeg
<1>9. ASSUME NEW c \in Chans, Timeout(c) PROVE TypeOK'
  BY <1>9, Zenon DEF TypeOK, Timeout, requestVars
<1>10. ASSUME NEW c \in Chans, CloseChan(c) PROVE TypeOK'
  BY <1>10 DEF TypeOK, CloseChan, requestVars
<1>11. ASSUME NEW c \in Chans, TranscodeBlocks(c) PROVE TypeOK'
  BY <1>11, Zenon DEF TypeOK, TranscodeBlocks, requestVars
<1>12. CASE UNCHANGED vars
  BY <1>12, Zenon DEF TypeOK, vars, loopVars, requestVars
<1> QED
  BY <1>1, <1>2, <1>3, <1>4, <1>5, <1>6, <1>7, <1>8, <1>9, <1>10, <1>11, <1>12, Zenon
     DEF Next, Request, Loop

\* Every step keeps the loops and the filed channels in step.
LEMMA OwnStep == TypeOK /\ LoopOwnsChannel /\ [Next]_vars => LoopOwnsChannel'
<1> SUFFICES ASSUME TypeOK, LoopOwnsChannel, [Next]_vars PROVE LoopOwnsChannel'
  BY Zenon
<1> USE TranscodeLoopAssumption
<1>1. ASSUME NEW r \in Requests, getSegmentChan(r) PROVE LoopOwnsChannel'
  <2> DEFINE m == ManifestOf[r]
  <2>1. CASE UNCHANGED <<SegmentChans, lpc>>
    BY <1>1, <2>1, Zenon DEF LoopOwnsChannel, getSegmentChan, Alive, Sessions
  <2>2. ASSUME NEW c \in Chans, SegmentChans[m] = NoChan, ChanFor[c] = m, lpc[c] = "none",
               SegmentChans' = [SegmentChans EXCEPT ![m] = c],
               lpc' = [lpc EXCEPT ![c] = "select"], UNCHANGED closed
        PROVE  LoopOwnsChannel'
    <3>1. m \in Manifests
      BY Zenon
    <3>2. \A d \in Chans : Alive(d)' <=> SegmentChans'[ChanFor[d]] = d
      BY <2>2, <3>1 DEF LoopOwnsChannel, Alive, TypeOK
    <3>3. \A n \in Sessions' : ChanFor[SegmentChans'[n]] = n
      BY <2>2, <3>1, Zenon DEF LoopOwnsChannel, Sessions, TypeOK
    <3>4. closed' = {d \in Chans : lpc'[d] = "ended"}
      BY <2>2, Zenon DEF LoopOwnsChannel, TypeOK
    <3> QED
      BY <3>2, <3>3, <3>4, Zenon DEF LoopOwnsChannel, Alive
  <2> QED
    BY <1>1, <2>1, <2>2, Zenon DEF getSegmentChan
<1>2. ASSUME NEW c \in Chans, CloseChan(c) PROVE LoopOwnsChannel'
  <2>1. /\ SegmentChans[ChanFor[c]] = c
        /\ closed' = closed \union {c}
        /\ SegmentChans' = [SegmentChans EXCEPT ![ChanFor[c]] = NoChan]
        /\ lpc' = [lpc EXCEPT ![c] = "ended"]
    BY <1>2, Zenon DEF CloseChan, LoopOwnsChannel, Alive
  <2>2. \A d \in Chans : Alive(d)' <=> SegmentChans'[ChanFor[d]] = d
    BY <2>1 DEF LoopOwnsChannel, Alive, TypeOK
  <2>3. \A n \in Sessions' : ChanFor[SegmentChans'[n]] = n
    BY <2>1, Zenon DEF LoopOwnsChannel, Sessions, TypeOK
  <2>4. closed' = {d \in Chans : lpc'[d] = "ended"}
    BY <2>1 DEF LoopOwnsChannel, TypeOK
  <2> QED
    BY <2>2, <2>3, <2>4, Zenon DEF LoopOwnsChannel, Alive
<1>3. ASSUME NEW c \in Chans, lpc[c] \in {"select", "transcode", "ending"},
             NEW p \in {"select", "transcode", "stuck", "ending"},
             lpc' = [lpc EXCEPT ![c] = p], UNCHANGED <<SegmentChans, closed>>
      PROVE  LoopOwnsChannel'
  <2>1. \A d \in Chans : (Alive(d)' <=> Alive(d)) /\ (lpc'[d] = "ended" <=> lpc[d] = "ended")
    BY <1>3, Zenon DEF Alive, TypeOK
  <2> QED
    BY <1>3, <2>1, Zenon DEF LoopOwnsChannel, Sessions
<1>4. ASSUME NEW c \in Chans,
             ReceiveSegment(c) \/ transcodeSeg(c) \/ TranscodeBlocks(c) \/ Timeout(c)
      PROVE  LoopOwnsChannel'
  BY <1>3, <1>4, Zenon DEF ReceiveSegment, transcodeSeg, TranscodeBlocks, Timeout
<1>5. CASE UNCHANGED <<SegmentChans, closed, lpc>>
  BY <1>5, Zenon DEF LoopOwnsChannel, Alive, Sessions
<1>6. ASSUME NEW r \in Requests, Request(r) PROVE LoopOwnsChannel'
  BY <1>1, <1>5, <1>6, Zenon DEF Request, CheckCapacity, Refuse, getSegmentChanFails,
     sendToTranscodeLoop, ReceiveResult, loopVars
<1> QED
  BY <1>2, <1>4, <1>5, <1>6, Zenon DEF Next, Loop, vars, loopVars

\* Every step keeps within the limit on sessions.
LEMMA LimitStep == TypeOK /\ SessionsWithinLimit /\ [Next]_vars => SessionsWithinLimit'
<1> SUFFICES ASSUME TypeOK, SessionsWithinLimit, [Next]_vars PROVE SessionsWithinLimit'
  BY Zenon
<1>1. CASE UNCHANGED SegmentChans
  BY <1>1, NoNewSession, Zenon DEF Sessions
<1>2. ASSUME NEW r \in Requests, getSegmentChan(r) PROVE SessionsWithinLimit'
  BY <1>1, <1>2, OneMoreSession, TranscodeLoopAssumption, Zenon DEF getSegmentChan
<1>3. ASSUME NEW c \in Chans, CloseChan(c) PROVE SessionsWithinLimit'
  <2>1. Sessions' \subseteq Sessions
    BY <1>3, TranscodeLoopAssumption, Zenon DEF CloseChan, Sessions, TypeOK
  <2> QED
    BY <2>1, NoNewSession, Zenon
<1>4. ASSUME NEW r \in Requests, Request(r) PROVE SessionsWithinLimit'
  BY <1>1, <1>2, <1>4, Zenon DEF Request, CheckCapacity, Refuse, getSegmentChanFails,
     sendToTranscodeLoop, ReceiveResult
<1>5. ASSUME NEW c \in Chans, Loop(c) \/ TranscodeBlocks(c) \/ Timeout(c)
      PROVE  SessionsWithinLimit'
  BY <1>1, <1>3, <1>5, Zenon DEF Loop, ReceiveSegment, transcodeSeg, TranscodeBlocks, Timeout
<1> QED
  BY <1>1, <1>4, <1>5, Zenon DEF Next, vars

\* Every step leaves each accepted segment in one place.
LEMMA PlaceStep == TypeOK /\ SegmentInOnePlace /\ [Next]_vars => SegmentInOnePlace'
<1> SUFFICES ASSUME TypeOK, SegmentInOnePlace, [Next]_vars PROVE SegmentInOnePlace'
  BY Zenon
<1> USE TranscodeLoopAssumption
<1>1. ASSUME NEW r \in Requests, CheckCapacity(r) PROVE SegmentInOnePlace'
  BY <1>1 DEF TypeOK, SegmentInOnePlace, CheckCapacity, loopVars
<1>2. ASSUME NEW r \in Requests, Refuse(r) PROVE SegmentInOnePlace'
  BY <1>2 DEF TypeOK, SegmentInOnePlace, Refuse, Return, loopVars
<1>3. ASSUME NEW r \in Requests, getSegmentChan(r) PROVE SegmentInOnePlace'
  <2>1. \A c \in Chans :
            lpc'[c] \in {"transcode", "stuck"} <=> lpc[c] \in {"transcode", "stuck"}
    BY <1>3, ZenonT(60) DEF TypeOK, getSegmentChan
  <2>2. /\ rpc[r] = "checked" /\ rpc' = [rpc EXCEPT ![r] = "send"]
        /\ \A q \in Requests \ {r} : rch'[q] = rch[q]
        /\ UNCHANGED <<buf, cur, res>>
    BY <1>3, ZenonT(60) DEF TypeOK, getSegmentChan
  <2> QED
    BY <2>1, <2>2 DEF TypeOK, SegmentInOnePlace
<1>4. ASSUME NEW r \in Requests, getSegmentChanFails(r) PROVE SegmentInOnePlace'
  BY <1>4 DEF TypeOK, SegmentInOnePlace, getSegmentChanFails, Return, loopVars
<1>5. ASSUME NEW r \in Requests, sendToTranscodeLoop(r) PROVE SegmentInOnePlace'
  BY <1>5 DEF TypeOK, SegmentInOnePlace, sendToTranscodeLoop, Return, loopVars
<1>6. ASSUME NEW r \in Requests, ReceiveResult(r) PROVE SegmentInOnePlace'
  BY <1>6 DEF TypeOK, SegmentInOnePlace, ReceiveResult, Return, loopVars
<1>7. ASSUME NEW c \in Chans, ReceiveSegment(c) PROVE SegmentInOnePlace'
  BY <1>7 DEF TypeOK, SegmentInOnePlace, ReceiveSegment, requestVars
<1>8. ASSUME NEW c \in Chans, transcodeSeg(c) PROVE SegmentInOnePlace'
  BY <1>8 DEF TypeOK, SegmentInOnePlace, transcodeSeg
<1>9. ASSUME NEW c \in Chans, Timeout(c) PROVE SegmentInOnePlace'
  BY <1>9 DEF TypeOK, SegmentInOnePlace, Timeout, requestVars
<1>10. ASSUME NEW c \in Chans, CloseChan(c) PROVE SegmentInOnePlace'
  BY <1>10 DEF TypeOK, SegmentInOnePlace, CloseChan, requestVars
<1>11. ASSUME NEW c \in Chans, TranscodeBlocks(c) PROVE SegmentInOnePlace'
  BY <1>11 DEF TypeOK, SegmentInOnePlace, TranscodeBlocks, requestVars
<1>12. CASE UNCHANGED vars
  BY <1>12, Zenon DEF SegmentInOnePlace, vars, loopVars, requestVars
<1> QED
  BY <1>1, <1>2, <1>3, <1>4, <1>5, <1>6, <1>7, <1>8, <1>9, <1>10, <1>11, <1>12, Zenon
     DEF Next, Request, Loop

\* The conjunction of the four is inductive.
THEOREM LoopInvariant == Spec => []LoopInv
<1>1. Init => LoopInv
  <2> SUFFICES ASSUME Init PROVE LoopInv
    BY Zenon
  <2>1. TypeOK /\ LoopOwnsChannel /\ SegmentInOnePlace
    BY TranscodeLoopAssumption, Zenon
       DEF Init, TypeOK, LoopOwnsChannel, SegmentInOnePlace, Alive, Sessions
  <2>2. Sessions = {}
    BY Zenon DEF Init, Sessions
  <2>3. SessionsWithinLimit
    BY <2>2, FS_EmptySet, TranscodeLoopAssumption DEF SessionsWithinLimit
  <2> QED
    BY <2>1, <2>3, Zenon DEF LoopInv
<1>2. LoopInv /\ [Next]_vars => LoopInv'
  BY TypeStep, OwnStep, LimitStep, PlaceStep, Zenon DEF LoopInv
<1> QED
  BY <1>1, <1>2, PTL DEF Spec

\* Requests that race for the last session cannot exceed MaxSessions.
THEOREM WithinLimit == Spec => []SessionsWithinLimit
<1>1. LoopInv => SessionsWithinLimit
  BY Zenon DEF LoopInv
<1> QED
  BY <1>1, LoopInvariant, PTL

\* A manifest has one loop, which closes its own channel and only once.
THEOREM OneLoopPerManifest == Spec => []LoopOwnsChannel
<1>1. LoopInv => LoopOwnsChannel
  BY Zenon DEF LoopInv
<1> QED
  BY <1>1, LoopInvariant, PTL

\* An accepted segment is queued, being transcoded or answered, never two of them.
THEOREM NoSegmentLostOrDoubled == Spec => []SegmentInOnePlace
<1>1. LoopInv => SegmentInOnePlace
  BY Zenon DEF LoopInv
<1> QED
  BY <1>1, LoopInvariant, PTL

-----------------------------------------------------------------------------
(* RemoteTranscoder *)

Busy(rt) == wpc[rt] \in {"transcode", "send"}

\* The transcoder has the task: in a note on its stream, or in work.
Carries(rt, k) ==
    \/ \E i \in 1 .. Len(notes[rt]) : notes[rt][i] = k
    \/ Busy(rt) /\ wtask[rt] = k

RemoteTypes ==
    /\ Transcoder \in Transcoders \union {None}
    /\ taskCount \in Nat
    /\ clpc \in [Loops -> {"idle", "add", "send", "wait", "eof", "remove"}]
    /\ ltc \in [Loops -> Transcoders \union {None}]
    /\ \A l \in Loops : clpc[l] \in {"add", "send"} => ltc[l] \in Transcoders
    /\ ltask \in [Loops -> Nat]
    /\ notes \in [Transcoders -> Seq(Nat)]
    /\ wpc \in [Transcoders -> {"recv", "transcode", "send", "done"}]
    /\ wtask \in [Transcoders -> Nat]

\* A task has one transcoder, which has it once.
OneCarrier ==
    /\ \A rt, ot \in Transcoders, k \in Nat : Carries(rt, k) /\ Carries(ot, k) => rt = ot
    /\ \A rt \in Transcoders :
          /\ \A i, j \in 1 .. Len(notes[rt]) : notes[rt][i] = notes[rt][j] => i = j
          /\ Busy(rt) => \A i \in 1 .. Len(notes[rt]) : notes[rt][i] # wtask[rt]

\* Task IDs are not used twice: what a transcoder has was handed out and has no result
\* yet, and what a loop is about to send nobody has.
RemoteInv ==
    /\ RemoteTypes
    /\ OneCarrier
    /\ \A k \in results : k \in Nat /\ k < taskCount
    /\ \A rt \in Transcoders, k \in Nat : Carries(rt, k) => k < taskCount /\ k \notin results
    /\ \A l \in Loops : clpc[l] = "send" =>
          /\ ltask[l] < taskCount /\ ltask[l] \notin results
          /\ \A rt \in Transcoders : ~Carries(rt, ltask[l])
          /\ \A m \in Loops : clpc[m] = "send" /\ ltask[m] = ltask[l] => m = l

LEMMA RemoteInit == R!Init => RemoteInv
<1> SUFFICES ASSUME R!Init PROVE RemoteInv
  BY Zenon
<1>1. RemoteTypes
  BY DEF R!Init, RemoteTypes
<1>2. \A rt \in Transcoders, k \in Nat : ~Carries(rt, k)
  BY DEF R!Init, Carries, Busy
<1> QED
  BY <1>1, <1>2 DEF R!Init, RemoteInv, OneCarrier, Busy

\* Steps of serveTranscoder, and of a loop that leave alone what is sent
LEMMA RemoteElsewhere ==
    ASSUME RemoteInv,
           \/ \E rt \in Transcoders : R!Register(rt) \/ R!Serve(rt) \/ R!Disconnect(rt)
           \/ \E l \in Loops : R!ChooseTranscoder(l) \/ R!Call(l)
           \/ UNCHANGED R!vars
    PROVE  RemoteInv'
<1> USE DEF R!nodeVars, R!taskVars, R!loopVars, R!workVars
<1>1. UNCHANGED <<taskCount, notes, wpc, wtask, ltask>>
  BY Zenon
     DEF R!Register, R!Serve, R!ReceiveEof, R!Unregister, R!Disconnect, R!ChooseTranscoder, R!Call,
         R!SignalEof, R!ReceiveResult, R!Timeout, R!removeTaskChan, R!vars
<1>2. results' \subseteq results
  BY Zenon
     DEF R!Register, R!Serve, R!ReceiveEof, R!Unregister, R!Disconnect, R!ChooseTranscoder, R!Call,
         R!SignalEof, R!ReceiveResult, R!Timeout, R!removeTaskChan, R!vars
<1>3. RemoteTypes' /\ \A l \in Loops : clpc'[l] = "send" => clpc[l] = "send"
  <2> USE <1>1 DEF RemoteInv, RemoteTypes
  <2>1. ASSUME NEW rt \in Transcoders, R!Register(rt) \/ R!Serve(rt) \/ R!Disconnect(rt)
        PROVE  Transcoder' \in Transcoders \union {None} /\ UNCHANGED <<clpc, ltc>>
    BY <2>1, Zenon DEF R!Register, R!Serve, R!ReceiveEof, R!Unregister, R!Disconnect
  <2>2. CASE \E l \in Loops : R!ChooseTranscoder(l)
    BY <2>2, SMTT(30) DEF R!ChooseTranscoder
  <2>3. CASE \E l \in Loops : R!Call(l)
    BY <2>3, ZenonT(30) DEF R!Call, R!SignalEof, R!ReceiveResult, R!Timeout, R!removeTaskChan
  <2> QED
    BY <2>1, <2>2, <2>3, Zenon DEF R!vars
<1>4. \A rt \in Transcoders, k \in Nat : Carries(rt, k)' <=> Carries(rt, k)
  BY <1>1, Zenon DEF Carries, Busy
<1>5. OneCarrier'
  BY <1>1, <1>4, Zenon DEF RemoteInv, OneCarrier, Busy
<1>6. ltask \in [Loops -> Nat]
  BY Zenon DEF RemoteInv, RemoteTypes
<1> QED
  BY <1>1, <1>2, <1>3, <1>4, <1>5, <1>6, Zenon DEF RemoteInv

\* A task ID that was never used is handed out.
LEMMA RemoteAdd ==
    ASSUME RemoteInv, NEW l \in Loops, R!addTaskChan(l)
    PROVE  RemoteInv'
<1> USE DEF R!nodeVars, R!taskVars, R!loopVars, R!workVars
<1>1. /\ UNCHANGED <<Transcoder, results, ltc, notes, wpc, wtask>>
      /\ taskCount' = taskCount + 1
      /\ clpc[l] = "add" /\ clpc' = [clpc EXCEPT ![l] = "send"]
      /\ ltask' = [ltask EXCEPT ![l] = taskCount]
  BY Zenon DEF R!addTaskChan
<1>2. RemoteTypes'
  BY <1>1 DEF RemoteInv, RemoteTypes
<1>3. \A rt \in Transcoders, k \in Nat : Carries(rt, k)' <=> Carries(rt, k)
  BY <1>1, Zenon DEF Carries, Busy
<1>4. OneCarrier'
  BY <1>1, <1>3, Zenon DEF RemoteInv, OneCarrier, Busy
<1>5. taskCount \in Nat /\ ltask \in [Loops -> Nat] /\ DOMAIN clpc = Loops
  BY Zenon DEF RemoteInv, RemoteTypes
<1>6. /\ \A k \in results : k \in Nat /\ k < taskCount
      /\ \A rt \in Transcoders, k \in Nat : Carries(rt, k) => k < taskCount /\ k \notin results
  BY Zenon DEF RemoteInv
<1>7. ASSUME NEW m \in Loops, clpc'[m] = "send"
      PROVE  /\ ltask'[m] < taskCount' /\ ltask'[m] \notin results'
             /\ \A rt \in Transcoders : ~Carries(rt, ltask[m])'
             /\ \A n \in Loops : clpc'[n] = "send" /\ ltask'[n] = ltask'[m] => m = n
  <2>1. CASE m = l
    <3>1. ltask'[m] = taskCount
      BY <1>1, <1>5, <2>1, Zenon
    <3>2. \A rt \in Transcoders : ~Carries(rt, ltask[m])'
      BY <1>3, <1>5, <1>6, <3>1
    <3>3. \A n \in Loops : clpc'[n] = "send" /\ n # l => ltask'[n] < taskCount
      BY <1>1, <1>5, Zenon DEF RemoteInv
    <3> QED
      BY <1>1, <1>5, <1>6, <2>1, <3>1, <3>2, <3>3
  <2>2. CASE m # l
    <3>1. ltask'[m] = ltask[m] /\ clpc[m] = "send" /\ ltask[m] \in Nat
      BY <1>1, <1>5, <1>7, <2>2, Zenon
    <3>2. /\ ltask[m] < taskCount /\ ltask[m] \notin results
          /\ \A rt \in Transcoders : ~Carries(rt, ltask[m])
          /\ \A n \in Loops : clpc[n] = "send" /\ ltask[n] = ltask[m] => m = n
      BY <3>1, Zenon DEF RemoteInv
    <3>3. \A rt \in Transcoders : ~Carries(rt, ltask[m])'
      BY <1>3, <3>1, <3>2, Zenon
    <3> QED
      BY <1>1, <1>5, <3>1, <3>2, <3>3
  <2> QED
    BY <2>1, <2>2, Zenon
<1> QED
  BY <1>1, <1>2, <1>3, <1>4, <1>5, <1>6, <1>7 DEF RemoteInv

\* What was handed out goes to one transcoder, or is lost.
LEMMA RemoteSend ==
    ASSUME RemoteInv, NEW l \in Loops, R!Send(l)
    PROVE  RemoteInv'
<1> DEFINE rt == ltc[l]
<1> DEFINE k == ltask[l]
<1>1. /\ UNCHANGED <<Transcoder, taskCount, results, ltc, ltask, wpc, wtask>>
      /\ clpc[l] = "send" /\ \E next \in {"wait", "eof"} : clpc' = [clpc EXCEPT ![l] = next]
      /\ notes' = notes \/ notes' = [notes EXCEPT ![rt] = Append(@, k)]
  BY Zenon DEF R!Send, R!nodeVars, R!taskVars, R!workVars
<1>2. /\ rt \in Transcoders /\ k \in Nat /\ ltask \in [Loops -> Nat] /\ taskCount \in Nat
      /\ notes \in [Transcoders -> Seq(Nat)] /\ wtask \in [Transcoders -> Nat] /\ DOMAIN clpc = Loops
  BY <1>1, Zenon DEF RemoteInv, RemoteTypes
<1>3. /\ k < taskCount /\ k \notin results
      /\ \A ot \in Transcoders : ~Carries(ot, k)
      /\ \A m \in Loops : clpc[m] = "send" /\ ltask[m] = k => m = l
  BY <1>1, Zenon DEF RemoteInv
<1> HIDE DEF rt, k
<1>4. notes' \in [Transcoders -> Seq(Nat)]
  <2>1. Append(notes[rt], k) \in Seq(Nat)
    BY <1>2, Appended, Zenon
  <2> QED
    BY <1>1, <1>2, <2>1, Zenon
<1>5. RemoteTypes'
  BY <1>1, <1>4, Zenon DEF RemoteInv, RemoteTypes
<1>6. /\ Len(notes[rt]) \in Nat
      /\ notes'[rt] # notes[rt] =>
            /\ Len(notes'[rt]) = Len(notes[rt]) + 1
            /\ \A i \in 1 .. Len(notes[rt]) : notes'[rt][i] = notes[rt][i]
            /\ notes'[rt][Len(notes[rt]) + 1] = k
      /\ \A ot \in Transcoders : ot # rt => notes'[ot] = notes[ot]
  BY <1>1, <1>2, Appended
<1>7. \A ot \in Transcoders, j \in Nat : Carries(ot, j)' => Carries(ot, j) \/ (ot = rt /\ j = k)
  <2>1. ASSUME NEW ot \in Transcoders, NEW j \in Nat, NEW i \in 1 .. Len(notes'[ot]), notes'[ot][i] = j
        PROVE  (\E n \in 1 .. Len(notes[ot]) : notes[ot][n] = j) \/ (ot = rt /\ j = k)
    <3>1. CASE notes'[ot] = notes[ot]
      BY <2>1, <3>1, Zenon
    <3>2. CASE ot = rt /\ notes'[rt] # notes[rt]
      <4>1. i \in 1 .. Len(notes[rt]) \/ i = Len(notes[rt]) + 1
        BY <1>6, <2>1, <3>2, SMTT(30)
      <4> QED
        BY <1>6, <2>1, <3>2, <4>1, Zenon
    <3> QED
      BY <1>6, <3>1, <3>2, Zenon
  <2> QED
    BY <1>1, <2>1 DEF Carries, Busy
<1>8. OneCarrier'
  <2>1. \A ot, pt \in Transcoders, j \in Nat : Carries(ot, j)' /\ Carries(pt, j)' => ot = pt
    BY <1>3, <1>7, SMTT(30) DEF RemoteInv, OneCarrier
  <2>2. ASSUME NEW ot \in Transcoders, NEW i \in 1 .. Len(notes'[ot]), NEW j \in 1 .. Len(notes'[ot]),
               notes'[ot][i] = notes'[ot][j]
        PROVE  i = j
    <3>1. CASE notes'[ot] = notes[ot]
      BY <2>2, <3>1, Zenon DEF RemoteInv, OneCarrier
    <3>2. CASE ot = rt /\ notes'[rt] # notes[rt]
      <4>1. \A n \in 1 .. Len(notes[rt]) : notes[rt][n] # k
        BY <1>2, <1>3, Zenon DEF Carries
      <4>2. \A n, m \in 1 .. Len(notes[rt]) : notes[rt][n] = notes[rt][m] => n = m
        BY <1>2, Zenon DEF RemoteInv, OneCarrier
      <4>3. /\ i \in 1 .. Len(notes[rt]) \/ i = Len(notes[rt]) + 1
            /\ j \in 1 .. Len(notes[rt]) \/ j = Len(notes[rt]) + 1
        BY <1>6, <2>2, <3>2
      <4> QED
        BY <1>6, <2>2, <3>2, <4>1, <4>2, <4>3, Zenon
    <3> QED
      BY <1>6, <3>1, <3>2, Zenon
  <2>3. ASSUME NEW ot \in Transcoders, Busy(ot)', NEW i \in 1 .. Len(notes'[ot])
        PROVE  notes'[ot][i] # wtask'[ot]
    <3>0. Busy(ot) /\ wtask'[ot] = wtask[ot]
      BY <1>1, <2>3, Zenon DEF Busy
    <3>1. CASE notes'[ot] = notes[ot]
      BY <2>3, <3>0, <3>1, Zenon DEF RemoteInv, OneCarrier
    <3>2. CASE ot = rt /\ notes'[rt] # notes[rt]
      <4>1. \A n \in 1 .. Len(notes[rt]) : notes[rt][n] # wtask[rt]
        BY <1>2, <3>0, <3>2, Zenon DEF RemoteInv, OneCarrier
      <4>2. wtask[rt] # k
        BY <1>2, <1>3, <3>0, <3>2, Zenon DEF Carries
      <4> QED
        BY <1>6, <2>3, <3>0, <3>2, <4>1, <4>2, SMTT(30)
    <3> QED
      BY <1>6, <3>1, <3>2, SMTT(30)
  <2> QED
    BY <2>1, <2>2, <2>3, Zenon DEF OneCarrier
<1>9. \A m \in Loops : clpc'[m] = "send" => clpc[m] = "send" /\ m # l
  BY <1>1, <1>2, Zenon
<1>10. \A ot \in Transcoders, j \in Nat : Carries(ot, j)' => j < taskCount /\ j \notin results
  BY <1>3, <1>7, Zenon DEF RemoteInv
<1>11. ASSUME NEW m \in Loops, clpc'[m] = "send"
       PROVE  /\ ltask[m] < taskCount /\ ltask[m] \notin results
              /\ \A ot \in Transcoders : ~Carries(ot, ltask[m])'
              /\ \A n \in Loops : clpc'[n] = "send" /\ ltask[n] = ltask[m] => n = m
  <2>1. clpc[m] = "send" /\ m # l /\ ltask[m] # k /\ ltask[m] \in Nat /\ ltask'[m] = ltask[m]
    BY <1>1, <1>2, <1>3, <1>9, <1>11, Zenon
  <2>2. \A ot \in Transcoders : ~Carries(ot, ltask[m])
    BY <2>1, Zenon DEF RemoteInv
  <2>3. \A ot \in Transcoders : ~Carries(ot, ltask[m])'
    BY <1>7, <2>1, <2>2, Zenon
  <2> QED
    BY <1>9, <2>1, <2>3, Zenon DEF RemoteInv
<1> QED
  BY <1>1, <1>5, <1>8, <1>10, <1>11, Zenon DEF RemoteInv

\* Whatever leaves the loops alone, and lets no transcoder have more than it had, keeps
\* the loops' part of the invariant.
LEMMA RemoteLoops ==
    ASSUME RemoteInv, UNCHANGED <<taskCount, clpc, ltask>>,
           \A ot \in Transcoders, j \in Nat : Carries(ot, j)' => Carries(ot, j),
           \A j \in Nat : (j \in results' => j \in results \/ \E ot \in Transcoders : Carries(ot, j))
    PROVE  \A l \in Loops : clpc'[l] = "send" =>
              /\ ltask'[l] < taskCount' /\ ltask'[l] \notin results'
              /\ \A rt \in Transcoders : ~Carries(rt, ltask[l])'
              /\ \A m \in Loops : clpc'[m] = "send" /\ ltask'[m] = ltask'[l] => m = l
<1>1. ltask \in [Loops -> Nat]
  BY Zenon DEF RemoteInv, RemoteTypes
<1> SUFFICES ASSUME NEW l \in Loops, clpc[l] = "send"
             PROVE  /\ ltask'[l] < taskCount' /\ ltask'[l] \notin results'
                    /\ \A rt \in Transcoders : ~Carries(rt, ltask[l])'
                    /\ \A m \in Loops : clpc'[m] = "send" /\ ltask'[m] = ltask'[l] => m = l
  BY Zenon
<1>2. /\ ltask[l] < taskCount /\ ltask[l] \notin results
      /\ \A rt \in Transcoders : ~Carries(rt, ltask[l])
      /\ \A m \in Loops : clpc[m] = "send" /\ ltask[m] = ltask[l] => m = l
  BY Zenon DEF RemoteInv
<1>3. ltask[l] \in Nat /\ ltask'[l] = ltask[l]
  BY <1>1, Zenon
<1>4. \A rt \in Transcoders : ~Carries(rt, ltask[l])'
  BY <1>2, <1>3, Zenon
<1> QED
  BY <1>2, <1>3, <1>4, Zenon

LEMMA RemoteRecv ==
    ASSUME RemoteInv, NEW rt \in Transcoders, R!RecvSegment(rt)
    PROVE  RemoteInv'
<1>1. /\ UNCHANGED <<Transcoder, taskCount, results, clpc, ltc, ltask>>
      /\ wpc[rt] = "recv" /\ notes[rt] # <<>>
      /\ wtask' = [wtask EXCEPT ![rt] = Head(notes[rt])]
      /\ notes' = [notes EXCEPT ![rt] = Tail(notes[rt])]
      /\ wpc' = [wpc EXCEPT ![rt] = "transcode"]
  BY Zenon DEF R!RecvSegment, R!nodeVars, R!taskVars, R!loopVars
<1>2. /\ notes \in [Transcoders -> Seq(Nat)] /\ wtask \in [Transcoders -> Nat]
      /\ DOMAIN wpc = Transcoders
  BY Zenon DEF RemoteInv, RemoteTypes
<1>3. /\ Head(notes[rt]) \in Nat /\ Tail(notes[rt]) \in Seq(Nat)
      /\ Len(notes[rt]) \in Nat /\ Len(notes[rt]) >= 1
      /\ Head(notes[rt]) = notes[rt][1]
      /\ Len(Tail(notes[rt])) = Len(notes[rt]) - 1
      /\ \A i \in 1 .. Len(Tail(notes[rt])) : Tail(notes[rt])[i] = notes[rt][i + 1]
  BY <1>1, <1>2, HeadAndTail
<1>4. RemoteTypes'
  BY <1>1, <1>2, <1>3, Zenon DEF RemoteInv, RemoteTypes
<1>5. /\ notes'[rt] = Tail(notes[rt]) /\ wtask'[rt] = notes[rt][1] /\ ~Busy(rt) /\ Busy(rt)'
      /\ \A ot \in Transcoders : ot # rt =>
            notes'[ot] = notes[ot] /\ wtask'[ot] = wtask[ot] /\ (Busy(ot)' <=> Busy(ot))
  BY <1>1, <1>2, <1>3, Zenon DEF Busy
<1>6. ASSUME NEW ot \in Transcoders, NEW j \in Nat, Carries(ot, j)'
      PROVE  Carries(ot, j)
  <2>1. CASE ot # rt
    BY <1>5, <1>6, <2>1, Zenon DEF Carries
  <2>2. CASE ot = rt /\ j = notes[rt][1]
    BY <1>3, <2>2 DEF Carries
  <2>3. CASE ot = rt /\ j # notes[rt][1]
    <3>1. PICK i \in 1 .. Len(Tail(notes[rt])) : Tail(notes[rt])[i] = j
      BY <1>5, <1>6, <2>3, ZenonT(30) DEF Carries
    <3>2. i + 1 \in 1 .. Len(notes[rt]) /\ notes[rt][i + 1] = j
      BY <1>3, <3>1
    <3> QED
      BY <2>3, <3>2, Zenon DEF Carries
  <2> QED
    BY <2>1, <2>2, <2>3, Zenon
<1>7. \A n, m \in 1 .. Len(notes[rt]) : notes[rt][n] = notes[rt][m] => n = m
  BY Zenon DEF RemoteInv, OneCarrier
<1>8. OneCarrier'
  <2>1. \A ot, pt \in Transcoders, j \in Nat : Carries(ot, j)' /\ Carries(pt, j)' => ot = pt
    BY <1>6, Zenon DEF RemoteInv, OneCarrier
  <2>2. ASSUME NEW ot \in Transcoders
        PROVE  /\ \A i, j \in 1 .. Len(notes'[ot]) : notes'[ot][i] = notes'[ot][j] => i = j
               /\ Busy(ot)' => \A i \in 1 .. Len(notes'[ot]) : notes'[ot][i] # wtask'[ot]
    <3>1. CASE ot # rt
      BY <1>5, <3>1, SMTT(30) DEF RemoteInv, OneCarrier
    <3>2. CASE ot = rt
      <4>1. \A i \in 1 .. Len(Tail(notes[rt])) :
                i + 1 \in 1 .. Len(notes[rt]) /\ i + 1 # 1 /\ 1 \in 1 .. Len(notes[rt])
        BY <1>3
      <4>2. \A i, j \in 1 .. Len(Tail(notes[rt])) : i + 1 = j + 1 => i = j
        BY <1>3
      <4>3. \A i, j \in 1 .. Len(Tail(notes[rt])) : Tail(notes[rt])[i] = Tail(notes[rt])[j] => i = j
        <5> SUFFICES ASSUME NEW i \in 1 .. Len(Tail(notes[rt])), NEW j \in 1 .. Len(Tail(notes[rt])),
                            Tail(notes[rt])[i] = Tail(notes[rt])[j]
                     PROVE  i = j
          BY Zenon
        <5>1. notes[rt][i + 1] = notes[rt][j + 1]
          BY <1>3, Zenon
        <5> QED
          BY <1>7, <4>1, <4>2, <5>1, Zenon
      <4>4. \A i \in 1 .. Len(Tail(notes[rt])) : Tail(notes[rt])[i] # notes[rt][1]
        BY <1>3, <1>7, <4>1, Zenon
      <4>5. notes'[ot] = Tail(notes[rt]) /\ wtask'[ot] = notes[rt][1]
        BY <1>5, <3>2, Zenon
      <4> QED
        BY <4>3, <4>4, <4>5, Zenon
    <3> QED
      BY <3>1, <3>2, Zenon
  <2> QED
    BY <2>1, <2>2, Zenon DEF OneCarrier
<1> QED
  BY <1>1, <1>4, <1>6, <1>8, RemoteLoops, Zenon DEF RemoteInv

LEMMA RemotePost ==
    ASSUME RemoteInv, NEW rt \in Transcoders, R!TranscodeResults(rt) \/ R!PostFails(rt)
    PROVE  RemoteInv'
<1>1. /\ UNCHANGED <<Transcoder, taskCount, results, clpc, ltc, ltask, notes, wtask>>
      /\ Busy(rt)
      /\ \E next \in {"recv", "send", "done"} : wpc' = [wpc EXCEPT ![rt] = next]
  BY Zenon DEF R!TranscodeResults, R!PostFails, R!nodeVars, R!taskVars, R!loopVars, Busy
<1>2. RemoteTypes'
  BY <1>1, Zenon DEF RemoteInv, RemoteTypes
<1>3. \A ot \in Transcoders : Busy(ot)' => Busy(ot)
  BY <1>1, Zenon DEF Busy, RemoteInv, RemoteTypes
<1>4. \A ot \in Transcoders, j \in Nat : Carries(ot, j)' => Carries(ot, j)
  BY <1>1, <1>3, Zenon DEF Carries
<1>5. OneCarrier'
  BY <1>1, <1>3, <1>4, Zenon DEF RemoteInv, OneCarrier
<1> QED
  BY <1>1, <1>2, <1>4, <1>5, RemoteLoops, Zenon DEF RemoteInv

\* The result enters its channel as the task leaves the transcoder.
LEMMA RemoteResult ==
    ASSUME RemoteInv, NEW rt \in Transcoders, R!transcoderResults(rt)
    PROVE  RemoteInv'
<1>0. PICK k \in Nat : k = wtask[rt]
  BY Zenon DEF RemoteInv, RemoteTypes
<1>1. /\ UNCHANGED <<Transcoder, taskCount, clpc, ltc, ltask, notes, wtask>>
      /\ wpc[rt] = "send" /\ wpc' = [wpc EXCEPT ![rt] = "recv"]
      /\ results' = results \union {k}
  BY <1>0, Zenon DEF R!transcoderResults, R!nodeVars, R!loopVars
<1>2. RemoteTypes'
  BY <1>1, Zenon DEF RemoteInv, RemoteTypes
<1>3. k \in Nat /\ Carries(rt, k) /\ Busy(rt)
  BY <1>0, <1>1, Zenon DEF Carries, Busy
<1>4. ~Busy(rt)' /\ \A ot \in Transcoders : Busy(ot)' => Busy(ot)
  BY <1>1, Zenon DEF Busy, RemoteInv, RemoteTypes
<1>5. \A ot \in Transcoders, j \in Nat : Carries(ot, j)' => Carries(ot, j)
  BY <1>1, <1>4, Zenon DEF Carries
<1>6. OneCarrier'
  BY <1>1, <1>4, <1>5, Zenon DEF RemoteInv, OneCarrier
<1>7. \A ot \in Transcoders : ~Carries(ot, k)'
  <2>1. ~Carries(rt, k)'
    BY <1>0, <1>1, <1>3, <1>4, Zenon DEF Carries, RemoteInv, OneCarrier
  <2> QED
    BY <1>3, <1>5, <2>1, ZenonT(30) DEF RemoteInv, OneCarrier
<1>8. k < taskCount
  BY <1>3, Zenon DEF RemoteInv
<1>9. \A ot \in Transcoders, j \in Nat : Carries(ot, j)' => j < taskCount /\ j \notin results'
  BY <1>1, <1>5, <1>7, Zenon DEF RemoteInv
<1>10. \A j \in Nat : (j \in results' => j \in results \/ \E ot \in Transcoders : Carries(ot, j))
  BY <1>1, <1>3, Zenon
<1> QED
  BY <1>1, <1>2, <1>3, <1>5, <1>6, <1>8, <1>9, <1>10, RemoteLoops, Zenon DEF RemoteInv

LEMMA RemoteInvariant == R!Spec => []RemoteInv
<1>1. RemoteInv /\ [R!Next]_R!vars => RemoteInv'
  <2> SUFFICES ASSUME RemoteInv, [R!Next]_R!vars PROVE RemoteInv'
    BY Zenon
  <2>1. ASSUME NEW rt \in Transcoders,
               R!RecvSegment(rt) \/ R!TranscodeResults(rt) \/ R!PostFails(rt) \/ R!transcoderResults(rt)
        PROVE  RemoteInv'
    BY <2>1, RemoteRecv, RemotePost, RemoteResult, Zenon
  <2>2. ASSUME NEW l \in Loops, R!addTaskChan(l) \/ R!Send(l)
        PROVE  RemoteInv'
    BY <2>2, RemoteAdd, RemoteSend, Zenon
  <2> QED
    BY <2>1, <2>2, RemoteElsewhere, Zenon DEF R!Next
<1> QED
  BY <1>1, RemoteInit, PTL DEF R!Spec

\* Handler TranscodeResults never blocks on the channel it sends to: the result of a task
\* is posted once, whichever transcoders came and went meanwhile.
THEOREM ResultNeverEverBlocks == R!Spec => []ResultNeverBlocks
<1>1. RemoteInv => ResultNeverBlocks
  BY Zenon DEF RemoteInv, RemoteTypes, ResultNeverBlocks, R!ResultNeverBlocks, Carries, Busy
<1> QED
  BY <1>1, RemoteInvariant, PTL

-----------------------------------------------------------------------------
(* Census *)

\* The ring is empty, or not yet full and fills from 0, or full and turns.
RingPlace ==
    /\ added \in Seq(Nat)
    /\ \/ Len(added) = 0 /\ start = 0 /\ end = -1
       \/ Len(added) \in 1 .. Len30 - 1 /\ start = 0 /\ end = Len(added) - 1
       \/ /\ Len(added) >= Len30 /\ end \in 0 .. Len30 - 1
          /\ start = IF end + 1 = Len30 THEN 0 ELSE end + 1

RingInv ==
    /\ RingPlace
    /\ segments \in [0 .. Len30 - 1 -> C!Slot]
    /\ \A j \in 0 .. C!InRing - 1 : segments[C!Back(j)].seqNo = added[Len(added) - j]
    /\ \A i, j \in C!Window : segments[i].seqNo = segments[j].seqNo => i = j

\* The window is as long as the ring has entries, and going back from its end one meets
\* all of it.
Shaped ==
    /\ Len(added) \in Nat /\ C!InRing \in 0 .. Len30 /\ end \in -1 .. Len30 - 1
    /\ C!Window = 0 .. C!InRing - 1
    /\ \A j \in 0 .. C!InRing - 1 : C!Back(j) \in 0 .. C!InRing - 1
    /\ \A i \in 0 .. C!InRing - 1 : \E j \in 0 .. C!InRing - 1 : i = C!Back(j)

LEMMA RingShape == RingPlace => Shaped
<1> SUFFICES ASSUME RingPlace PROVE Shaped
  BY Zenon
<1>0. Len30 \in Nat \ {0}
  BY SegmentCensusAssumption, Zenon DEF C!CensusAssumption
<1>1. PICK n \in Nat : n = Len(added)
  BY DEF RingPlace
<1>2. C!InRing = IF n < Len30 THEN n ELSE Len30
  BY <1>1, Zenon DEF C!InRing
<1>3. \/ n = 0 /\ start = 0 /\ end = -1
      \/ n \in 1 .. Len30 - 1 /\ start = 0 /\ end = n - 1
      \/ n >= Len30 /\ end \in 0 .. Len30 - 1 /\ start = IF end + 1 = Len30 THEN 0 ELSE end + 1
  BY <1>1, Zenon DEF RingPlace
<1>4. C!Window = 0 .. C!InRing - 1
  <2>1. CASE n = 0 /\ start = 0 /\ end = -1
    BY <1>0, <1>2, <2>1 DEF C!Window
  <2>2. CASE n \in 1 .. Len30 - 1 /\ start = 0 /\ end = n - 1
    <3>1. C!Window = 0 .. n - 1 /\ C!InRing = n
      BY <1>0, <1>2, <2>2 DEF C!Window
    <3> QED
      BY <3>1, Zenon
  <2>3. CASE /\ n >= Len30 /\ end \in 0 .. Len30 - 1
             /\ start = IF end + 1 = Len30 THEN 0 ELSE end + 1
    <3>1. C!InRing = Len30 /\ end # -1
      BY <1>0, <1>2, <2>3
    <3>2. CASE end + 1 = Len30
      <4>1. start = 0 /\ end = Len30 - 1
        BY <1>0, <2>3, <3>2
      <4>2. C!Window = 0 .. Len30 - 1
        BY <1>0, <3>1, <4>1, Zenon DEF C!Window
      <4> QED
        BY <3>1, <4>2, Zenon
    <3>3. CASE end + 1 # Len30
      <4>1. C!Window = (end + 1 .. Len30 - 1) \union (0 .. end)
        BY <1>0, <2>3, <3>1, <3>3 DEF C!Window
      <4>2. (end + 1 .. Len30 - 1) \union (0 .. end) = 0 .. Len30 - 1
        BY <1>0, <2>3
      <4> QED
        BY <3>1, <4>1, <4>2, Zenon
    <3> QED
      BY <3>2, <3>3, Zenon
  <2> QED
    BY <1>3, <2>1, <2>2, <2>3, Zenon
<1>5. \A j \in 0 .. C!InRing - 1 : C!Back(j) \in 0 .. C!InRing - 1
  BY <1>0, <1>2, <1>3 DEF C!Back
<1>6. ASSUME NEW i \in 0 .. C!InRing - 1
      PROVE  \E j \in 0 .. C!InRing - 1 : i = C!Back(j)
  <2>1. CASE i <= end
    <3>1. end - i \in 0 .. C!InRing - 1 /\ i = C!Back(end - i)
      BY <1>0, <1>2, <1>3, <2>1 DEF C!Back
    <3> QED
      BY <3>1, Zenon
  <2>2. CASE ~(i <= end)
    <3>1. end - i + Len30 \in 0 .. C!InRing - 1 /\ i = C!Back(end - i + Len30)
      BY <1>0, <1>2, <1>3, <2>2 DEF C!Back
    <3> QED
      BY <3>1, Zenon
  <2> QED
    BY <2>1, <2>2, Zenon
<1>7. Len(added) \in Nat /\ C!InRing \in 0 .. Len30
  BY <1>0, <1>1, <1>2
<1>8. end \in -1 .. Len30 - 1
  BY <1>0, <1>3, SMTT(30)
<1> QED
  BY <1>4, <1>5, <1>6, <1>7, <1>8, Zenon DEF Shaped

\* An entry that stays where it is
LEMMA RingKeeps ==
    ASSUME RingInv, segments' \in [0 .. Len30 - 1 -> C!Slot], UNCHANGED <<start, end, added>>,
           \A i \in 0 .. Len30 - 1 : segments'[i].seqNo = segments[i].seqNo
    PROVE  RingInv'
<1>1. C!InRing' = C!InRing /\ C!Window' = C!Window
  BY Zenon DEF C!InRing, C!Window
<1>2. C!InRing \in 0 .. Len30 /\ C!Window = 0 .. C!InRing - 1 /\ Len30 \in Nat
  BY RingShape, SegmentCensusAssumption, Zenon DEF RingInv, Shaped, C!CensusAssumption
<1>3. \A i \in C!Window : segments'[i].seqNo = segments[i].seqNo
  BY <1>2
<1>4. \A j \in 0 .. C!InRing - 1 : segments'[C!Back(j)'].seqNo = added'[Len(added') - j]
  <2> TAKE j \in 0 .. C!InRing - 1
  <2>1. C!Back(j)' = C!Back(j) /\ C!Back(j) \in C!Window
    BY <1>2, RingShape, Zenon DEF RingInv, Shaped, C!Back
  <2> QED
    BY <1>3, <2>1, Zenon DEF RingInv
<1> QED
  BY <1>1, <1>3, <1>4 DEF RingInv, RingPlace

\* A segment that the ring does not have gets the place after the last one.
LEMMA RingAdds ==
    ASSUME RingInv, NEW s \in Nat, C!Found(s) = {}, C!MakeRoom,
           segments' \in [0 .. Len30 - 1 -> C!Slot], segments'[C!Last].seqNo = s,
           \A i \in 0 .. Len30 - 1 : i # C!Last => segments'[i] = segments[i],
           added' = Append(added, s)
    PROVE  RingInv'
<1>0. Len30 \in Nat \ {0}
  BY SegmentCensusAssumption, Zenon DEF C!CensusAssumption
<1>1. PICK n \in Nat : n = Len(added)
  BY DEF RingInv, RingPlace
<1>2. /\ added' \in Seq(Nat) /\ Len(added') = n + 1 /\ added'[n + 1] = s
      /\ \A k \in 1 .. n : added'[k] = added[k]
  BY <1>1 DEF RingInv, RingPlace
<1>3. \/ n = 0 /\ start = 0 /\ end = -1
      \/ n \in 1 .. Len30 - 1 /\ start = 0 /\ end = n - 1
      \/ n >= Len30 /\ end \in 0 .. Len30 - 1 /\ start = IF end + 1 = Len30 THEN 0 ELSE end + 1
  BY <1>1, Zenon DEF RingInv, RingPlace
<1>4. /\ end' = IF end + 1 = Len30 THEN 0 ELSE end + 1
      /\ end' = C!Last
      /\ start' = IF end # -1 /\ end' = start
                  THEN (IF start + 1 = Len30 THEN 0 ELSE start + 1) ELSE start
  BY <1>0, <1>3, SMTT(30) DEF C!MakeRoom, C!Last, C!advance
<1>5. \/ n + 1 \in 1 .. Len30 - 1 /\ start' = 0 /\ end' = n
      \/ /\ n + 1 >= Len30 /\ end' \in 0 .. Len30 - 1
         /\ start' = IF end' + 1 = Len30 THEN 0 ELSE end' + 1
  BY <1>0, <1>3, <1>4
<1>6. C!InRing = (IF n < Len30 THEN n ELSE Len30) /\ C!InRing' = IF n + 1 < Len30 THEN n + 1 ELSE Len30
  BY <1>1, <1>2, Zenon DEF C!InRing
<1>7. C!Window = 0 .. C!InRing - 1 /\ \A j \in 0 .. C!InRing - 1 : C!Back(j) \in 0 .. C!InRing - 1
  BY RingShape, Zenon DEF RingInv, Shaped
<1>8. \A i \in 0 .. C!InRing - 1 : segments[i].seqNo # s
  BY <1>7, Zenon DEF C!Found
<1>9. ASSUME NEW j \in 1 .. C!InRing' - 1
      PROVE  /\ j - 1 \in 0 .. C!InRing - 1 /\ C!Back(j)' = C!Back(j - 1) /\ C!Back(j)' # end'
             /\ C!Back(j)' \in 0 .. Len30 - 1
  <2>1. j - 1 \in 0 .. C!InRing - 1 /\ j \in 1 .. Len30 - 1
    BY <1>0, <1>6
  <2>2. C!Back(j)' = IF j <= end' THEN end' - j ELSE end' - j + Len30
    BY Zenon DEF C!Back
  <2>3. C!Back(j - 1) = IF j - 1 <= end THEN end - (j - 1) ELSE end - (j - 1) + Len30
    BY Zenon DEF C!Back
  <2>4. end \in -1 .. Len30 - 1 /\ (end = -1 => C!InRing = 0)
    BY <1>0, <1>3, <1>6, SMTT(30)
  <2>5. end \in 0 .. Len30 - 1
    BY <1>0, <2>1, <2>4, SMTT(30)
  <2> QED
    BY <1>0, <1>4, <2>1, <2>2, <2>3, <2>5, SMTT(30)
<1>10. C!Back(0)' = end' /\ end' \in 0 .. Len30 - 1
  BY <1>0, <1>5, SMTT(30) DEF C!Back
<1>11. ASSUME NEW j \in 1 .. C!InRing' - 1
       PROVE  /\ segments'[C!Back(j)'] = segments[C!Back(j - 1)]
              /\ segments'[C!Back(j)'].seqNo = added'[Len(added') - j]
              /\ segments'[C!Back(j)'].seqNo # s
  <2>1. segments'[C!Back(j)'] = segments[C!Back(j - 1)]
    BY <1>4, <1>9, Zenon
  <2>2. segments[C!Back(j - 1)].seqNo = added[n - (j - 1)]
    BY <1>1, <1>9, Zenon DEF RingInv
  <2>3. n - (j - 1) \in 1 .. n /\ Len(added') - j = n - (j - 1)
    BY <1>0, <1>2, <1>6, <1>9, SMTT(30)
  <2>4. segments[C!Back(j - 1)].seqNo # s
    BY <1>7, <1>8, <1>9, Zenon
  <2> QED
    BY <1>2, <2>1, <2>2, <2>3, <2>4, Zenon
<1>12. \A j \in 0 .. C!InRing' - 1 : segments'[C!Back(j)'].seqNo = added'[Len(added') - j]
  <2> TAKE j \in 0 .. C!InRing' - 1
  <2>1. CASE j = 0
    BY <1>2, <1>4, <1>10, <2>1
  <2>2. CASE j # 0
    <3>1. j \in 1 .. C!InRing' - 1
      BY <1>0, <1>6, <2>2
    <3> QED
      BY <1>11, <3>1, Zenon
  <2> QED
    BY <2>1, <2>2, ZenonT(30)

<1>13. RingPlace'
  BY <1>2, <1>5 DEF RingPlace
<1>14. Shaped'
  BY <1>13, RingShape, PTL
<1>15. ASSUME NEW i \in C!Window', NEW k \in C!Window', segments'[i].seqNo = segments'[k].seqNo
       PROVE  i = k
  <2>3. PICK m \in Nat : m = C!InRing'
    BY <1>0, <1>6, SMTT(30)
  <2>1. PICK a \in 0 .. m - 1 : i = C!Back(a)'
    BY <1>14, <2>3, Zenon DEF Shaped
  <2>2. PICK b \in 0 .. m - 1 : k = C!Back(b)'
    BY <1>14, <2>3, Zenon DEF Shaped
  <2>a. a # 0 => a \in 1 .. m - 1
    OBVIOUS
  <2>b. b # 0 => b \in 1 .. m - 1
    OBVIOUS
  <2>4. CASE a = 0 /\ b = 0
    BY <2>1, <2>2, <2>4, Zenon
  <2>5. CASE a # 0 /\ b = 0
    <3>1. segments'[i].seqNo # s
      BY <1>11, <2>1, <2>3, <2>a, <2>5, Zenon
    <3>2. segments'[k].seqNo = s
      BY <1>4, <1>10, <2>2, <2>5, Zenon
    <3> QED
      BY <1>15, <3>1, <3>2, Zenon
  <2>6. CASE a = 0 /\ b # 0
    <3>1. segments'[k].seqNo # s
      BY <1>11, <2>2, <2>3, <2>b, <2>6, Zenon
    <3>2. segments'[i].seqNo = s
      BY <1>4, <1>10, <2>1, <2>6, Zenon
    <3> QED
      BY <1>15, <3>1, <3>2, Zenon
  <2>7. CASE a # 0 /\ b # 0
    <3>1. a \in 1 .. C!InRing' - 1 /\ b \in 1 .. C!InRing' - 1
      BY <2>3, <2>a, <2>b, <2>7, Zenon
    <3>2. /\ segments'[i] = segments[i] /\ segments'[k] = segments[k]
          /\ i \in C!Window /\ k \in C!Window
      BY <1>7, <1>9, <1>11, <2>1, <2>2, <3>1, Zenon
    <3> QED
      BY <1>15, <3>2, Zenon DEF RingInv
  <2> QED
    BY <2>4, <2>5, <2>6, <2>7, Zenon
<1> QED
  BY <1>12, <1>13, <1>15, ZenonT(30) DEF RingInv

LEMMA RingAddItem ==
    ASSUME RingInv, NEW s \in Nat, NEW known \in [C!Slot -> C!Slot], NEW fresh \in [C!Slot -> C!Slot],
           \A item \in C!Slot : known[item].seqNo = s /\ fresh[item].seqNo = s,
           C!getAddItem(s, known, fresh)
    PROVE  RingInv'
<1>0. /\ Len30 \in Nat \ {0} /\ segments \in [0 .. Len30 - 1 -> C!Slot]
      /\ C!Window \subseteq 0 .. Len30 - 1 /\ C!Last \in 0 .. Len30 - 1
  <2>1. Len30 \in Nat \ {0}
    BY SegmentCensusAssumption, Zenon DEF C!CensusAssumption
  <2>2. C!Window = 0 .. C!InRing - 1 /\ C!InRing \in 0 .. Len30 /\ end \in -1 .. Len30 - 1
    BY RingShape, Zenon DEF RingInv, Shaped
  <2>3. C!Last \in 0 .. Len30 - 1
    BY <2>1, <2>2 DEF C!Last, C!advance
  <2> QED
    BY <2>1, <2>2, <2>3 DEF RingInv
<1>1. ASSUME NEW i \in C!Found(s), segments' = [segments EXCEPT ![i] = known[@]],
             UNCHANGED <<start, end, added>>
      PROVE  RingInv'
  <2>1. i \in 0 .. Len30 - 1 /\ segments[i].seqNo = s /\ segments[i] \in C!Slot
    BY <1>0, Zenon DEF C!Found
  <2>2. /\ segments' \in [0 .. Len30 - 1 -> C!Slot]
        /\ \A k \in 0 .. Len30 - 1 : segments'[k].seqNo = segments[k].seqNo
    BY <1>0, <1>1, <2>1, Zenon
  <2> QED
    BY <1>1, <2>2, RingKeeps, Zenon
<1>2. ASSUME C!Found(s) = {}, C!MakeRoom, segments' = [segments EXCEPT ![C!Last] = fresh[@]],
             added' = Append(added, s)
      PROVE  RingInv'
  <2>1. segments[C!Last] \in C!Slot
    BY <1>0, Zenon
  <2>2. /\ segments' \in [0 .. Len30 - 1 -> C!Slot] /\ segments'[C!Last].seqNo = s
        /\ \A k \in 0 .. Len30 - 1 : k # C!Last => segments'[k] = segments[k]
    BY <1>0, <1>2, <2>1, Zenon
  <2> QED
    BY <1>2, <2>2, RingAdds, Zenon
<1> QED
  BY <1>1, <1>2, Zenon DEF C!getAddItem

LEMMA RingEmerged ==
    ASSUME RingInv, NEW s \in Nat, C!addEmerged(s)
    PROVE  RingInv'
<1> DEFINE set == [item \in C!Slot |->
                     [item EXCEPT !.seqNo = s, !.emerged = 1, !.transcoded = 0]]
<1>1. set \in [C!Slot -> C!Slot] /\ \A item \in C!Slot : set[item].seqNo = s
  <2>1. ASSUME NEW item \in C!Slot
        PROVE  /\ [item EXCEPT !.seqNo = s, !.emerged = 1, !.transcoded = 0] \in C!Slot
               /\ [item EXCEPT !.seqNo = s, !.emerged = 1, !.transcoded = 0].seqNo = s
    <3>1. PICK x \in C!Slot : x = [item EXCEPT !.seqNo = s]
      BY Zenon DEF C!Slot
    <3>a. PICK a \in 0 .. 1 : a = 1
      OBVIOUS
    <3>b. PICK b \in 0 .. 1 : b = 0
      OBVIOUS
    <3>2. PICK y \in C!Slot : y = [x EXCEPT !.emerged = a]
      BY Zenon DEF C!Slot
    <3>3. PICK z \in C!Slot : z = [y EXCEPT !.transcoded = b]
      BY ZenonT(30) DEF C!Slot
    <3>4. [item EXCEPT !.seqNo = s, !.emerged = 1, !.transcoded = 0] = z
      BY <3>1, <3>a, <3>b, <3>2, <3>3, Zenon
    <3>5. z.seqNo = s
      BY <3>1, <3>2, <3>3, Zenon DEF C!Slot
    <3> QED
      BY <3>4, <3>5, Zenon
  <2> QED
    BY <2>1, Zenon
<1>2. C!getAddItem(s, set, set)
  BY Zenon DEF C!addEmerged
<1> QED
  BY <1>1, <1>2, RingAddItem, ZenonT(30)

LEMMA RingTranscoded ==
    ASSUME RingInv, NEW s \in Nat, NEW failed \in BOOLEAN, C!addTranscoded(s, failed)
    PROVE  RingInv'
<1> DEFINE known == [item \in C!Slot |->
                       [item EXCEPT !.seqNo = s, !.failed = failed,
                                    !.transcoded = IF failed THEN @ ELSE 1]]
           fresh == [item \in C!Slot |-> [known[item] EXCEPT !.emerged = 0]]
<1>1. known \in [C!Slot -> C!Slot] /\ \A item \in C!Slot : known[item].seqNo = s
  <2> DEFINE changed(item) == [item EXCEPT !.seqNo = s, !.failed = failed,
                                           !.transcoded = IF failed THEN @ ELSE 1]
  <2>1. ASSUME NEW item \in C!Slot PROVE changed(item) \in C!Slot /\ changed(item).seqNo = s
    <3>0. PICK b \in 0 .. 1 : b = IF failed THEN item.transcoded ELSE 1
      BY DEF C!Slot
    <3>1. PICK x \in C!Slot : x = [item EXCEPT !.seqNo = s]
      BY Zenon DEF C!Slot
    <3>2. PICK y \in C!Slot : y = [x EXCEPT !.failed = failed]
      BY Zenon DEF C!Slot
    <3>3. PICK z \in C!Slot : z = [y EXCEPT !.transcoded = b]
      BY Zenon DEF C!Slot
    <3>4. changed(item) = z
      BY <3>0, <3>1, <3>2, <3>3, Zenon
    <3>5. z.seqNo = s
      BY <3>1, <3>2, <3>3, Zenon DEF C!Slot
    <3> QED
      BY <3>4, <3>5, Zenon
  <2> QED
    BY <2>1, Zenon
<1>2. fresh \in [C!Slot -> C!Slot] /\ \A item \in C!Slot : fresh[item].seqNo = s
  <2> HIDE DEF known
  <2>1. ASSUME NEW item \in C!Slot
        PROVE  /\ [known[item] EXCEPT !.emerged = 0] \in C!Slot
               /\ [known[item] EXCEPT !.emerged = 0].seqNo = s
    <3>1. known[item] \in C!Slot /\ known[item].seqNo = s
      BY <1>1, Zenon
    <3> QED
      BY <3>1 DEF C!Slot
  <2> QED
    BY <2>1, Zenon
<1>3. C!getAddItem(s, known, fresh)
  BY Zenon DEF C!addTranscoded
<1> HIDE DEF known, fresh
<1> QED
  BY <1>1, <1>2, <1>3, RingAddItem, SMTT(30)

\* monitor/census.go, segmentsAverager: for every length of the ring and whatever order
\* the events of segments come in, the ring holds the segments that came last, in their
\* order and each once.
THEOREM RingAlwaysLatest == C!Spec => []RingLatest
<1>0. Len30 \in Nat \ {0} /\ Segs \subseteq Nat
  BY SegmentCensusAssumption, Zenon DEF C!CensusAssumption
<1>1. ASSUME segments = C!EmptyRing, start = 0, end = -1, added = <<>>
      PROVE  RingInv
  BY <1>0, <1>1 DEF RingInv, RingPlace, C!EmptyRing, C!Slot, C!InRing, C!Window
<1>2. C!Init => RingInv
  BY <1>1, Zenon DEF C!Init
<1>3. RingInv /\ [C!Next /\ C!Bound']_C!vars => RingInv'
  <2> SUFFICES ASSUME RingInv, [C!Next]_C!vars PROVE RingInv'
    BY Zenon
  <2>1. ASSUME UNCHANGED C!ringVars PROVE RingInv'
    BY <2>1 DEF C!ringVars, RingInv, RingPlace, C!InRing, C!Window, C!Back
  <2>2. CASE C!streamCreated \/ C!Cleanup \/ C!timeoutWatcher \/ UNCHANGED C!vars
    BY <2>1, <2>2, Zenon DEF C!streamCreated, C!Cleanup, C!timeoutWatcher, C!vars
  <2>3. CASE C!streamEnded
    BY <1>0, <2>3 DEF C!streamEnded, RingInv, RingPlace, C!EmptyRing, C!Slot, C!InRing, C!Window
  <2>4. ASSUME NEW s \in Segs, C!segmentEmerged(s) PROVE RingInv'
    BY <1>0, <2>1, <2>4, RingEmerged, Zenon DEF C!segmentEmerged
  <2>5. ASSUME NEW s \in Segs, NEW failed \in BOOLEAN, C!countSegmentTranscoded(s, failed)
        PROVE  RingInv'
    BY <1>0, <2>1, <2>5, RingTranscoded, Zenon DEF C!countSegmentTranscoded
  <2>6. ASSUME NEW s \in Segs, C!GiveUp(s) \/ C!GoesOn(s) \/ C!SegmentFullyTranscoded(s)
        PROVE  RingInv'
    BY <2>5, <2>6, ZenonT(30) DEF C!GiveUp, C!GoesOn, C!SegmentFullyTranscoded, C!SegmentFailed
  <2>7. ASSUME NEW s \in Segs, C!GiveUpSilently(s) \/ C!SessionEnded(s) \/ C!TimePasses(s)
        PROVE  RingInv'
    BY <2>1, <2>7, Zenon DEF C!GiveUpSilently, C!SessionEnded, C!TimePasses
  <2> QED
    BY <2>2, <2>3, <2>4, <2>6, <2>7, Zenon DEF C!Next
<1>4. RingInv => RingLatest
  <2> SUFFICES ASSUME RingInv PROVE C!Window = {C!Back(j) : j \in 0 .. C!InRing - 1}
    BY Zenon DEF RingInv, RingLatest, C!RingLatest
  <2>1. Shaped
    BY RingShape, Zenon DEF RingInv
  <2>2. \A i \in C!Window : i \in {C!Back(j) : j \in 0 .. C!InRing - 1}
    BY <2>1, Zenon DEF Shaped
  <2>3. \A j \in 0 .. C!InRing - 1 : C!Back(j) \in C!Window
    BY <2>1, Zenon DEF Shaped
  <2> QED
    BY <2>2, <2>3, Zenon
<1> QED
  BY <1>2, <1>3, <1>4, PTL DEF C!Spec
=============================================================================
