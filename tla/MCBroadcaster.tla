---------------------------- MODULE MCBroadcaster ----------------------------
(****************************************************************************)
(* The broadcaster: its streams (BroadcastStreams), what it does with their  *)
(* segments (BroadcastSegments) and what it counts of them (SegmentCensus).  *)
(* Their components share no variable: part says which of them a behaviour   *)
(* is of, and the others keep their initial state.  The streams are of       *)
(* publishers that ask for the same manifest ("streams") or for one of their *)
(* own ("own").                                                              *)
(****************************************************************************)
EXTENDS BroadcastStreams, BroadcastSegments, SegmentCensus

CONSTANTS
    Parts,      \* parts that a run is about
    m1, m2, p1  \* the manifests, and a publisher

VARIABLE part

ASSUME PartsAssumption ==
    /\ Parts \subseteq {"streams", "own", "playlist", "census", "storage", "log"}
    /\ {m1, m2} \subseteq Manifests

\* Publishers that ask for the same manifest, and publishers with their own.
MCSameMid == [p \in Publishers |-> m1]
MCOwnMid == [p \in Publishers |-> IF p = p1 THEN m1 ELSE m2]

O == INSTANCE MediaServer WITH MidOf <- MCOwnMid

\* A part that does not move has one initial state.
MCInit ==
    /\ Init /\ L!Init /\ C!Init /\ S!Init /\ E!Init /\ part \in Parts
    /\ part # "storage" => kind = [n \in S!Nodes |-> "memory"]

MCNext ==
    /\ UNCHANGED part
    /\ \/ /\ (part = "streams" /\ Next) \/ (part = "own" /\ O!Next)
          /\ UNCHANGED <<playlistVars, censusVars, storageVars, logVars>>
       \/ part = "playlist" /\ L!Next /\ UNCHANGED <<vars, censusVars, storageVars, logVars>>
       \/ /\ part = "census" /\ C!Next /\ C!Bound'
          /\ UNCHANGED <<vars, playlistVars, storageVars, logVars>>
       \/ part = "storage" /\ S!Next /\ UNCHANGED <<vars, playlistVars, censusVars, logVars>>
       \/ part = "log" /\ E!Next /\ UNCHANGED <<vars, playlistVars, censusVars, storageVars>>

MCSpec == MCInit /\ [][MCNext]_<<part, vars, playlistVars, censusVars, storageVars, logVars>>

\* The fairness of each part, as in its FairSpec; part does not change, so that the two
\* of MediaServer share their conditions.
MCFairSpec ==
    /\ MCSpec
    /\ \A p \in Publishers :
          /\ WF_vars((part = "streams" /\ GotStream(p)) \/ (part = "own" /\ O!GotStream(p)))
          /\ WF_vars((part = "streams" /\ EndStream(p)) \/ (part = "own" /\ O!EndStream(p)))
          /\ WF_vars((part = "streams" /\ Select(p)) \/ (part = "own" /\ O!Select(p)))
    /\ \A s \in L!SeqNos :
          /\ WF_playlistVars(part = "playlist" /\ L!AllDownloaded(s))
          /\ \A r \in Profiles : WF_playlistVars(part = "playlist" /\ L!Download(s, r))
    /\ WF_logVars(part = "log" /\ E!sendLoop)
    /\ \A n \in Streams :
           SF_logVars(part = "log" /\ (E!sendPost(E!Connection(n)) \/ E!Handler(n)))

-----------------------------------------------------------------------------
\* Shapes of the state of all parts, as each module states them.
TypesOK == (IF part = "own" THEN O!TypeOK ELSE TypeOK) /\ L!TypeOK /\ C!TypeOK
           /\ S!TypeOK /\ E!TypeOK

\* A publisher that got its connection is served by gotRTMPStream and, when it ends,
\* removed by endRTMPStream, if its manifest is its own.
OwnPublisherServed == (part = "own") => O!PublisherServed

\* endRTMPStream logs with connectionLock held: a new stream registers nevertheless.
StreamRegisters == (part = "log") ~> \A n \in Streams : conn[n] # "new"
=============================================================================
