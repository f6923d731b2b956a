-------------------------- MODULE RemoteTranscoder --------------------------
(****************************************************************************)
(* An orchestrator without a transcoder of its own (core/orchestrator.go,   *)
(* server/ot_rpc.go): standalone transcoders register over a stream, the    *)
(* last one to register is the node's Transcoder, transcode loops send it   *)
(* tasks, and the results come back as HTTP requests that find the loop by  *)
(* task ID.                                                                 *)
(*                                                                          *)
(* An element of Transcoders is one registration: the RemoteTranscoder, its *)
(* serveTranscoder goroutine, its stream, and the runTranscoder at the      *)
(* other end.  A transcoder that comes back is another element.             *)
(****************************************************************************)
EXTENDS Naturals, Sequences

CONSTANTS
    Loops,        \* transcode loops
    Transcoders,  \* registrations
    MaxTasks,     \* bound: tasks handed out
    None

RemoteTranscoderAssumption ==
    /\ MaxTasks \in Nat
    /\ None \notin Transcoders

Tasks == 0 .. MaxTasks - 1

VARIABLES
    Transcoder,  \* node.Transcoder, under tcoderMutex
    rtpc,        \* serveTranscoder: none, serving, ending, ended
    eof,         \* whether the eof channel (capacity 1) is full
    up,          \* whether the stream is connected
    taskCount, taskChans,   \* under taskMutex
    results,     \* tasks whose channel (capacity 1) is full
    lpc, ltc, ltask,        \* loop: next step, its transcoder and task
    notes,       \* NotifySegment messages on the stream
    wpc, wtask   \* runTranscoder and the request that posts its result

nodeVars == <<Transcoder, rtpc, eof>>
taskVars == <<taskCount, taskChans, results>>
loopVars == <<lpc, ltc, ltask>>
workVars == <<wpc, wtask>>
vars == <<nodeVars, up, taskVars, loopVars, notes, workVars>>

-----------------------------------------------------------------------------
(* serveTranscoder *)

Register(rt) ==
    /\ rtpc[rt] = "none"
    /\ rtpc' = [rtpc EXCEPT ![rt] = "serving"]
    /\ up' = [up EXCEPT ![rt] = TRUE]
    /\ Transcoder' = rt
    /\ UNCHANGED <<eof, taskVars, loopVars, notes, workVars>>

ReceiveEof(rt) ==
    /\ rtpc[rt] = "serving" /\ eof[rt]
    /\ eof' = [eof EXCEPT ![rt] = FALSE]
    /\ rtpc' = [rtpc EXCEPT ![rt] = "ending"]
    /\ UNCHANGED <<Transcoder, up, taskVars, loopVars, notes, workVars>>

\* Whatever transcoder the node has by now is dropped; the stream is closed.
Unregister(rt) ==
    /\ rtpc[rt] = "ending"
    /\ Transcoder' = None
    /\ rtpc' = [rtpc EXCEPT ![rt] = "ended"]
    /\ up' = [up EXCEPT ![rt] = FALSE]
    /\ UNCHANGED <<eof, taskVars, loopVars, notes, workVars>>

\* The connection is lost, which serveTranscoder does not notice.
Disconnect(rt) ==
    /\ up[rt]
    /\ up' = [up EXCEPT ![rt] = FALSE]
    /\ UNCHANGED <<nodeVars, taskVars, loopVars, notes, workVars>>

-----------------------------------------------------------------------------
(* A transcode loop in transcodeSeg and RemoteTranscoder.Transcode *)

\* Without a transcoder the segment fails with ErrTranscoderAvail: no change.
ChooseTranscoder(l) ==
    /\ lpc[l] = "idle"
    /\ Transcoder # None
    /\ ltc' = [ltc EXCEPT ![l] = Transcoder]
    /\ lpc' = [lpc EXCEPT ![l] = "add"]
    /\ UNCHANGED <<nodeVars, up, taskVars, ltask, notes, workVars>>

\* Mutant: two calls may be given the same ID.
addTaskChan_SameId(l) ==
    /\ lpc[l] = "add" /\ taskCount < MaxTasks
    /\ ltask' = [ltask EXCEPT ![l] = taskCount]
    /\ taskChans' = taskChans \union {taskCount}
    /\ lpc' = [lpc EXCEPT ![l] = "send"]
    /\ UNCHANGED <<nodeVars, up, taskCount, results, ltc, notes, workVars>>

addTaskChan(l) ==
    /\ lpc[l] = "add" /\ taskCount < MaxTasks
    /\ ltask' = [ltask EXCEPT ![l] = taskCount]
    /\ taskCount' = taskCount + 1
    /\ taskChans' = taskChans \union {taskCount}
    /\ lpc' = [lpc EXCEPT ![l] = "send"]
    /\ UNCHANGED <<nodeVars, up, results, ltc, notes, workVars>>

\* stream.Send: on a broken connection it fails, or the message is lost.
Send(l) ==
    LET rt == ltc[l] IN
    /\ lpc[l] = "send"
    /\ \/ /\ up[rt]
          /\ notes' = [notes EXCEPT ![rt] = Append(@, ltask[l])]
          /\ lpc' = [lpc EXCEPT ![l] = "wait"]
       \/ /\ ~up[rt]
          /\ \E next \in {"wait", "eof"} : lpc' = [lpc EXCEPT ![l] = next]
          /\ UNCHANGED notes
    /\ UNCHANGED <<nodeVars, up, taskVars, ltc, ltask, workVars>>

ReceiveResult(l) ==
    /\ lpc[l] = "wait" /\ ltask[l] \in results
    /\ results' = results \ {ltask[l]}
    /\ lpc' = [lpc EXCEPT ![l] = "remove"]
    /\ UNCHANGED <<nodeVars, up, taskCount, taskChans, ltc, ltask, notes, workVars>>

\* RemoteTranscoderTimeout
Timeout(l) ==
    /\ lpc[l] = "wait"
    /\ lpc' = [lpc EXCEPT ![l] = "eof"]
    /\ UNCHANGED <<nodeVars, up, taskVars, ltc, ltask, notes, workVars>>

\* Mutant: the error is returned and the transcoder stays.
SignalEof_OnlyReturns(l) ==
    /\ lpc[l] = "eof"
    /\ lpc' = [lpc EXCEPT ![l] = "remove"]
    /\ UNCHANGED <<nodeVars, up, taskVars, ltc, ltask, notes, workVars>>

\* rt.eof <- struct{}{} blocks while the channel is full.
SignalEof(l) ==
    /\ lpc[l] = "eof" /\ ~eof[ltc[l]]
    /\ eof' = [eof EXCEPT ![ltc[l]] = TRUE]
    /\ lpc' = [lpc EXCEPT ![l] = "remove"]
    /\ UNCHANGED <<Transcoder, rtpc, up, taskVars, ltc, ltask, notes, workVars>>

removeTaskChan(l) ==
    /\ lpc[l] = "remove"
    /\ taskChans' = taskChans \ {ltask[l]}
    /\ lpc' = [lpc EXCEPT ![l] = "idle"]
    /\ UNCHANGED <<nodeVars, up, taskCount, results, ltc, ltask, notes, workVars>>

-----------------------------------------------------------------------------
(* runTranscoder, and TranscodeResults at the orchestrator *)

\* What was sent before the stream broke may still arrive.
RecvSegment(rt) ==
    /\ wpc[rt] = "recv" /\ notes[rt] # <<>>
    /\ wtask' = [wtask EXCEPT ![rt] = Head(notes[rt])]
    /\ notes' = [notes EXCEPT ![rt] = Tail(@)]
    /\ wpc' = [wpc EXCEPT ![rt] = "transcode"]
    /\ UNCHANGED <<nodeVars, up, taskVars, loopVars>>

\* The result, data or error, is posted and its channel looked up; the result
\* of a call that has returned is dropped.
TranscodeResults(rt) ==
    /\ wpc[rt] = "transcode"
    /\ wpc' = [wpc EXCEPT ![rt] = IF wtask[rt] \in taskChans THEN "send" ELSE "recv"]
    /\ UNCHANGED <<nodeVars, up, taskVars, loopVars, notes, wtask>>

\* The request fails or cannot be made: runTranscoder returns, to register anew.
PostFails(rt) ==
    /\ wpc[rt] = "transcode"
    /\ wpc' = [wpc EXCEPT ![rt] = "done"]
    /\ up' = [up EXCEPT ![rt] = FALSE]
    /\ UNCHANGED <<nodeVars, taskVars, loopVars, notes, wtask>>

\* remoteChan <- res blocks while the channel is full.
transcoderResults(rt) ==
    /\ wpc[rt] = "send" /\ wtask[rt] \notin results
    /\ results' = results \union {wtask[rt]}
    /\ wpc' = [wpc EXCEPT ![rt] = "recv"]
    /\ UNCHANGED <<nodeVars, up, taskCount, taskChans, loopVars, notes, wtask>>

-----------------------------------------------------------------------------
Init ==
    /\ Transcoder = None
    /\ rtpc = [rt \in Transcoders |-> "none"]
    /\ eof = [rt \in Transcoders |-> FALSE]
    /\ up = [rt \in Transcoders |-> FALSE]
    /\ taskCount = 0 /\ taskChans = {} /\ results = {}
    /\ lpc = [l \in Loops |-> "idle"]
    /\ ltc = [l \in Loops |-> None]
    /\ ltask = [l \in Loops |-> 0]
    /\ notes = [rt \in Transcoders |-> <<>>]
    /\ wpc = [rt \in Transcoders |-> "recv"]
    /\ wtask = [rt \in Transcoders |-> 0]

Serve(rt) == ReceiveEof(rt) \/ Unregister(rt)

Call(l) == SignalEof(l) \/ ReceiveResult(l) \/ Timeout(l) \/ removeTaskChan(l)

Next ==
    \/ \E rt \in Transcoders :
          \/ Register(rt) \/ Serve(rt) \/ Disconnect(rt)
          \/ RecvSegment(rt) \/ TranscodeResults(rt) \/ PostFails(rt) \/ transcoderResults(rt)
    \/ \E l \in Loops : ChooseTranscoder(l) \/ addTaskChan(l) \/ Send(l) \/ Call(l)

Spec == Init /\ [][Next]_vars

-----------------------------------------------------------------------------
(* Properties *)

\* Shapes of the state; a loop in Transcode has a transcoder.
TypeOK ==
    /\ Transcoder \in Transcoders \union {None}
    /\ rtpc \in [Transcoders -> {"none", "serving", "ending", "ended"}]
    /\ eof \in [Transcoders -> BOOLEAN]
    /\ up \in [Transcoders -> BOOLEAN]
    /\ taskCount \in 0..MaxTasks /\ taskChans \subseteq Tasks /\ results \subseteq Tasks
    /\ lpc \in [Loops -> {"idle", "add", "send", "wait", "eof", "remove"}]
    /\ ltc \in [Loops -> Transcoders \union {None}]
    /\ \A l \in Loops : lpc[l] # "idle" => ltc[l] # None
    /\ ltask \in [Loops -> Nat]
    /\ notes \in [Transcoders -> Seq(Tasks)]
    /\ wpc \in [Transcoders -> {"recv", "transcode", "send", "done"}]
    /\ wtask \in [Transcoders -> Nat]

\* The HTTP request that brings a result finds room in the task's channel, also
\* when the call it is for has timed out, and so never hangs.
ResultNeverBlocks ==
    \A rt \in Transcoders : wpc[rt] = "send" => wtask[rt] \notin results

\* Goroutines run; the timer of a call expires.
Fairness ==
    /\ \A rt \in Transcoders : WF_vars(Serve(rt))
    /\ \A l \in Loops : WF_vars(Call(l))

FairSpec == Spec /\ Fairness

\* A transcoder that failed a call is eventually not the node's transcoder.
FailedTranscoderDropped ==
    \A l \in Loops, rt \in Transcoders :
        (lpc[l] = "eof" /\ ltc[l] = rt) ~> (Transcoder # rt)

\* TestRemoteTranscoder (core/orch_test.go) expects of a call that outlives
\* RemoteTranscoderTimeout the error "Remote transcoder took too long": a call
\* that waits for its result returns.
CallReturns == \A l \in Loops : (lpc[l] = "wait") ~> (lpc[l] = "idle")

\* README.md, on a standalone transcoder that connected: "The orchestrator will
\* send transcoding tasks to this transcoder as segments come in."  A node with
\* a connected transcoder that failed no call has a transcoder.
ConnectedTranscoderKept ==
    (\E rt \in Transcoders :
        rtpc[rt] = "serving" /\ up[rt] /\ ~eof[rt] /\ \A l \in Loops : ltc[l] # rt)
    => Transcoder # None
=============================================================================
