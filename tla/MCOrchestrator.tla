---------------------------- MODULE MCOrchestrator ----------------------------
(****************************************************************************)
(* The orchestrator's transcoding: the sessions of TranscodeLoop, and the    *)
(* standalone transcoders of RemoteTranscoder.  The two share no            *)
(* variable: part says which of the two a behaviour is of, and the other     *)
(* keeps its initial state.                                                  *)
(****************************************************************************)
EXTENDS TranscodeLoop, TLC

CONSTANTS
    Parts,                              \* parts that a run is about
    m1, m2, r3, c3,                     \* members of the sets of TranscodeLoop
    Loops, Transcoders, MaxTasks, None  \* of RemoteTranscoder

VARIABLES
    part,
    Transcoder, rtpc, eof, up, taskCount, taskChans, results, clpc, ltc, ltask,
    notes, wpc, wtask

R == INSTANCE RemoteTranscoder WITH lpc <- clpc

remoteVars == <<Transcoder, rtpc, eof, up, taskCount, taskChans, results, clpc, ltc,
                ltask, notes, wpc, wtask>>

ASSUME OrchestratorAssumption ==
    /\ Parts \subseteq {"sessions", "remote"}
    /\ R!RemoteTranscoderAssumption

\* Two streams and room for one session: two requests for the first stream, one for
\* the second.
MCManifestOf == [r \in Requests |-> IF r = r3 THEN m2 ELSE m1]
MCChanFor == [c \in Chans |-> IF c = c3 THEN m2 ELSE m1]

Symmetry == Permutations(Loops) \union Permutations(Transcoders)

MCInit == Init /\ R!Init /\ part \in Parts

MCNext ==
    \/ part = "sessions" /\ Next /\ UNCHANGED <<part, remoteVars>>
    \/ part = "remote" /\ R!Next /\ UNCHANGED <<part, vars>>

MCSpec == MCInit /\ [][MCNext]_<<part, vars, remoteVars>>

\* The fairness of each part, as in its FairSpec.
MCFairSpec ==
    /\ MCSpec
    /\ \A c \in Chans : WF_vars(part = "sessions" /\ Loop(c))
    /\ \A r \in Requests : WF_vars(part = "sessions" /\ ReceiveResult(r))
    /\ \A rt \in Transcoders : WF_remoteVars(part = "remote" /\ R!Serve(rt))
    /\ \A l \in Loops : WF_remoteVars(part = "remote" /\ R!Call(l))

-----------------------------------------------------------------------------
\* Shapes of the state of both parts
TypesOK == TypeOK /\ R!TypeOK

\* The request that brings the result of a task finds room in the task's channel,
\* also when the call it is for has timed out, and so never hangs.
ResultNeverBlocks == R!ResultNeverBlocks

\* A transcoder that failed a call is eventually not the node's transcoder.
FailedTranscoderDropped == R!FailedTranscoderDropped
=============================================================================
