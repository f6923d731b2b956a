----------------------------- MODULE MediaServer -----------------------------
(****************************************************************************)
(* The broadcaster's RTMP side (server/mediaserver.go): publishers that come *)
(* and go, the table of their connections under connectionLock, the session  *)
(* listener of each connection with its one orchestrator selection at a     *)
(* time, the segment goroutines of processSegment that ask for another      *)
(* orchestrator, and the storage sessions of drivers/local.go.              *)
(*                                                                          *)
(* A publisher is one run of the RTMP server's publish callback, which is    *)
(* outside src's own packages (vendored lpms): it calls createRTMPStreamID, *)
(* then gotRTMPStream, and endRTMPStream when the stream ends, but also      *)
(* when gotRTMPStream returns an error.                                     *)
(****************************************************************************)
EXTENDS Naturals, FiniteSets

CONSTANTS
    Publishers,   \* runs of the publish callback, and their connections
    Manifests,    \* manifest IDs
    MidOf,        \* the manifest ID a publisher asks for
    Workers,      \* goroutines of processSegment
    MaxSessions,  \* core.MaxSessions, 0 for no limit
    Discovery,    \* whether the node has an OrchestratorPool
    MaxPending,   \* bound: goroutines of a listener that have yet to try sem
    None

ASSUME MediaServerAssumption ==
    /\ MidOf \in [Publishers -> Manifests]
    /\ MaxSessions \in Nat /\ MaxPending \in Nat
    /\ Discovery \in BOOLEAN
    /\ None \notin Publishers

VARIABLES
    rtmpConnections,  \* manifest -> the connection registered for it
    lock,             \* the publisher that holds connectionLock over a step
    pc,               \* publisher: next step
    listener,         \* connection: none, listening, finished
    pending,          \* connection: goroutines about to try sem
    sel,              \* connection: the goroutine that holds sem, step by step
    found,            \* connection: whether that goroutine has a session
    sess,             \* connection: whether cxn.sess is set
    sessions,         \* MemoryOS.sessions: manifest -> storage session
    storage,          \* connection: its storage session
    ended,            \* storage sessions that were ended
    wpc, wcxn         \* segment goroutine: next step and connection

\* A storage session is named after the publisher that created it.
connVars == <<rtmpConnections, lock>>
selVars == <<pending, sel, found, sess>>
osVars == <<sessions, storage, ended>>
workVars == <<wpc, wcxn>>
vars == <<connVars, pc, listener, selVars, osVars, workVars>>

Active(c) == rtmpConnections[MidOf[c]] # None

-----------------------------------------------------------------------------
(* A publisher *)

\* The stream ID is refused if the node is full or the manifest exists: no
\* change.
createRTMPStreamID(p) ==
    /\ pc[p] = "idle" /\ lock = None
    /\ MaxSessions > 0 =>
          Cardinality({m \in Manifests : rtmpConnections[m] # None}) < MaxSessions
    /\ ~Active(p)
    /\ pc' = [pc EXCEPT ![p] = "named"]
    /\ UNCHANGED <<connVars, listener, selVars, osVars, workVars>>

\* registerConnection, before the lock: the deposit is checked ...
LowDeposit(p) ==
    /\ pc[p] = "named"
    /\ pc' = [pc EXCEPT ![p] = "failed"]
    /\ UNCHANGED <<connVars, listener, selVars, osVars, workVars>>

\* ... and the storage session found or made.
NewSession(p) ==
    LET m == MidOf[p]
        s == IF sessions[m] = None THEN p ELSE sessions[m]
    IN
    /\ pc[p] = "named"
    /\ sessions' = [sessions EXCEPT ![m] = s]
    /\ storage' = [storage EXCEPT ![p] = s]
    /\ pc' = [pc EXCEPT ![p] = "storage"]
    /\ UNCHANGED <<connVars, listener, selVars, ended, workVars>>

\* Mutant: the existence check of createRTMPStreamID is relied on.
registerConnection_NoRecheck(p) ==
    /\ pc[p] = "storage" /\ lock = None
    /\ rtmpConnections' = [rtmpConnections EXCEPT ![MidOf[p]] = p]
    /\ pc' = [pc EXCEPT ![p] = "registered"]
    /\ UNCHANGED <<lock, listener, selVars, osVars, workVars>>

\* Under the lock.  The number of connections is not checked again.
registerConnection(p) ==
    /\ pc[p] = "storage" /\ lock = None
    /\ IF Active(p)
         THEN /\ pc' = [pc EXCEPT ![p] = "failed"]
              /\ UNCHANGED rtmpConnections
         ELSE /\ pc' = [pc EXCEPT ![p] = "registered"]
              /\ rtmpConnections' = [rtmpConnections EXCEPT ![MidOf[p]] = p]
    /\ UNCHANGED <<lock, listener, selVars, osVars, workVars>>

\* Mutant: needOrch is sent without a listener.
StartListener_Missing(p) ==
    /\ pc[p] = "registered"
    /\ pc' = [pc EXCEPT ![p] = "needOrch"]
    /\ UNCHANGED <<connVars, listener, selVars, osVars, workVars>>

\* gotRTMPStream starts the segmenter and the listener ...
StartListener(p) ==
    /\ pc[p] = "registered"
    /\ listener' = [listener EXCEPT ![p] = "listening"]
    /\ pc' = [pc EXCEPT ![p] = "needOrch"]
    /\ UNCHANGED <<connVars, selVars, osVars, workVars>>

\* The listener takes a message from needOrch and starts a goroutine.
ReceiveNeedOrch(c) ==
    /\ listener[c] = "listening"
    /\ pending[c] < MaxPending
    /\ pending' = [pending EXCEPT ![c] = @ + 1]

\* ... and sends the first message on needOrch.
FirstNeedOrch(p) ==
    /\ pc[p] = "needOrch"
    /\ ReceiveNeedOrch(p)
    /\ pc' = [pc EXCEPT ![p] = "streaming"]
    /\ UNCHANGED <<connVars, listener, sel, found, sess, osVars, workVars>>

\* The publisher disconnects, or the segmenter fails and closes the stream.
StreamEof(p) ==
    /\ pc[p] = "streaming"
    /\ pc' = [pc EXCEPT ![p] = "eof"]
    /\ UNCHANGED <<connVars, listener, selVars, osVars, workVars>>

\* EndSession deletes the entry under its path, whatever session is there.
EndSession(s, m) ==
    /\ ended' = ended \union {s}
    /\ sessions' = [sessions EXCEPT ![m] = None]

\* endRTMPStream takes the lock and cleans up what is registered for the
\* manifest, or reports ErrUnknownStream.
endRTMPStream(p) ==
    LET m == MidOf[p] IN
    /\ pc[p] \in {"failed", "eof"} /\ lock = None
    /\ IF rtmpConnections[m] = None
         THEN /\ pc' = [pc EXCEPT ![p] = "done"]
              /\ UNCHANGED <<lock, osVars>>
         ELSE /\ EndSession(storage[rtmpConnections[m]], m)
              /\ lock' = p
              /\ pc' = [pc EXCEPT ![p] = "sendEof"]
              /\ UNCHANGED storage
    /\ UNCHANGED <<rtmpConnections, listener, selVars, workVars>>

\* Mutant: the eof is sent and the connection forgotten about later.
SendEof_KeepsConnection(p) ==
    LET m == MidOf[p] IN
    /\ pc[p] = "sendEof" /\ listener[rtmpConnections[m]] = "listening"
    /\ listener' = [listener EXCEPT ![rtmpConnections[m]] = "finished"]
    /\ lock' = None
    /\ pc' = [pc EXCEPT ![p] = "done"]
    /\ UNCHANGED <<rtmpConnections, selVars, osVars, workVars>>

\* The listener takes the eof, and the connection is removed.
SendEof(p) ==
    LET m == MidOf[p] IN
    /\ pc[p] = "sendEof" /\ listener[rtmpConnections[m]] = "listening"
    /\ listener' = [listener EXCEPT ![rtmpConnections[m]] = "finished"]
    /\ rtmpConnections' = [rtmpConnections EXCEPT ![m] = None]
    /\ lock' = None
    /\ pc' = [pc EXCEPT ![p] = "done"]
    /\ UNCHANGED <<selVars, osVars, workVars>>

-----------------------------------------------------------------------------
(* Orchestrator selection *)

\* With sem taken the request for an orchestrator is dropped.
TrySem(c) ==
    /\ pending[c] > 0
    /\ pending' = [pending EXCEPT ![c] = @ - 1]
    /\ sel' = [sel EXCEPT ![c] = IF @ = "none" THEN "clear" ELSE @]
    /\ UNCHANGED <<connVars, pc, listener, found, sess, osVars, workVars>>

ClearSession(c) ==
    /\ sel[c] = "clear"
    /\ sess' = [sess EXCEPT ![c] = FALSE]
    /\ sel' = [sel EXCEPT ![c] = "select"]
    /\ UNCHANGED <<connVars, pc, listener, pending, found, osVars, workVars>>

\* selectOrchestrator is retried until it answers or the manifest is inactive;
\* without discovery it is not retried, and there is no session.
startSession(c) ==
    /\ sel[c] = "select" /\ lock = None
    /\ \E ok \in BOOLEAN :
          /\ ok = Discovery \/ (~ok /\ ~Active(c))
          /\ found' = [found EXCEPT ![c] = ok]
    /\ sel' = [sel EXCEPT ![c] = "assign"]
    /\ UNCHANGED <<connVars, pc, listener, pending, sess, osVars, workVars>>

\* The check asks for the manifest, not for the connection.
AssignSession(c) ==
    /\ sel[c] = "assign" /\ lock = None
    /\ sess' = [sess EXCEPT ![c] = found[c] /\ Active(c)]
    /\ sel' = [sel EXCEPT ![c] = "release"]
    /\ UNCHANGED <<connVars, pc, listener, pending, found, osVars, workVars>>

ReleaseSem(c) ==
    /\ sel[c] = "release"
    /\ sel' = [sel EXCEPT ![c] = "none"]
    /\ UNCHANGED <<connVars, pc, listener, pending, found, sess, osVars, workVars>>

-----------------------------------------------------------------------------
(* processSegment *)

\* The session is read first: the segment goes to it even if it is replaced
\* while the segment is saved.  Without one the segment is only saved: no change.
processSegment(w, c) ==
    /\ wpc[w] = "idle"
    /\ pc[c] \in {"needOrch", "streaming", "eof"} /\ sess[c]
    /\ wcxn' = [wcxn EXCEPT ![w] = c]
    /\ wpc' = [wpc EXCEPT ![w] = "save"]
    /\ UNCHANGED <<connVars, pc, listener, selVars, osVars>>

\* Nothing can be saved in an ended session, and the segment is dropped.
SaveData(w) ==
    /\ wpc[w] = "save"
    /\ wpc' = [wpc EXCEPT ![w] = IF storage[wcxn[w]] \in ended THEN "idle" ELSE "submit"]
    /\ UNCHANGED <<connVars, pc, listener, selVars, osVars, wcxn>>

\* SubmitSegment; shouldStopSession holds of some of its errors.  An error that
\* stops the stream closes it (StreamEof).
SubmitSegment(w) ==
    /\ wpc[w] = "submit"
    /\ \E next \in {"idle", "needOrch"} : wpc' = [wpc EXCEPT ![w] = next]
    /\ UNCHANGED <<connVars, pc, listener, selVars, osVars, wcxn>>

SegmentNeedOrch(w) ==
    /\ wpc[w] = "needOrch"
    /\ ReceiveNeedOrch(wcxn[w])
    /\ wpc' = [wpc EXCEPT ![w] = "idle"]
    /\ UNCHANGED <<connVars, pc, listener, sel, found, sess, osVars, wcxn>>

-----------------------------------------------------------------------------
Init ==
    /\ rtmpConnections = [m \in Manifests |-> None]
    /\ lock = None
    /\ pc = [p \in Publishers |-> "idle"]
    /\ listener = [c \in Publishers |-> "none"]
    /\ pending = [c \in Publishers |-> 0]
    /\ sel = [c \in Publishers |-> "none"]
    /\ found = [c \in Publishers |-> FALSE]
    /\ sess = [c \in Publishers |-> FALSE]
    /\ sessions = [m \in Manifests |-> None]
    /\ storage = [c \in Publishers |-> None]
    /\ ended = {}
    /\ wpc = [w \in Workers |-> "idle"]
    /\ wcxn = [w \in Workers |-> None]

GotStream(p) ==
    NewSession(p) \/ registerConnection(p) \/ StartListener(p) \/ FirstNeedOrch(p)

EndStream(p) == endRTMPStream(p) \/ SendEof(p)

Select(c) ==
    TrySem(c) \/ ClearSession(c) \/ startSession(c) \/ AssignSession(c) \/ ReleaseSem(c)

Segment(w) ==
    \/ \E c \in Publishers : processSegment(w, c)
    \/ SaveData(w) \/ SubmitSegment(w) \/ SegmentNeedOrch(w)

Next ==
    \/ \E p \in Publishers :
          \/ createRTMPStreamID(p) \/ LowDeposit(p) \/ GotStream(p)
          \/ StreamEof(p) \/ EndStream(p) \/ Select(p)
    \/ \E w \in Workers : Segment(w)

Spec == Init /\ [][Next]_vars

-----------------------------------------------------------------------------
(* Properties *)

\* Shapes of the state; a connection is registered under its own manifest and
\* has a storage session.
TypeOK ==
    /\ rtmpConnections \in [Manifests -> Publishers \union {None}]
    /\ \A m \in Manifests : rtmpConnections[m] # None =>
          MidOf[rtmpConnections[m]] = m /\ storage[rtmpConnections[m]] # None
    /\ lock \in Publishers \union {None}
    /\ pc \in [Publishers -> {"idle", "named", "storage", "failed", "registered",
                              "needOrch", "streaming", "eof", "sendEof", "done"}]
    /\ listener \in [Publishers -> {"none", "listening", "finished"}]
    /\ pending \in [Publishers -> 0..MaxPending]
    /\ sel \in [Publishers -> {"none", "clear", "select", "assign", "release"}]
    /\ found \in [Publishers -> BOOLEAN]
    /\ sess \in [Publishers -> BOOLEAN]
    /\ sessions \in [Manifests -> Publishers \union {None}]
    /\ storage \in [Publishers -> Publishers \union {None}]
    /\ ended \subseteq Publishers
    /\ wpc \in [Workers -> {"idle", "save", "submit", "needOrch"}]
    /\ wcxn \in [Workers -> Publishers \union {None}]

Registered(c) == rtmpConnections[MidOf[c]] = c

\* A connection is in the table exactly from registerConnection until its
\* listener has taken the eof: so the eof that endRTMPStream sends with the lock
\* held has a listener, or one about to start, and is taken once.
ListenerOfRegistered ==
    \A c \in Publishers :
        /\ listener[c] = "listening" <=> Registered(c) /\ pc[c] # "registered"
        /\ pc[c] = "registered" => Registered(c) /\ listener[c] = "none"
        /\ lock = c <=> pc[c] = "sendEof"

\* Goroutines run; a publisher's callback goes on.
FairSpec ==
    /\ Spec
    /\ \A p \in Publishers :
          WF_vars(GotStream(p)) /\ WF_vars(EndStream(p)) /\ WF_vars(Select(p))

\* endRTMPStream waits for the listener while it holds connectionLock, which
\* every other operation needs: the lock is always given back.
LockGivenBack == \A p \in Publishers : (lock = p) ~> (lock # p)

\* A publisher that got its connection is served and, when it ends, removed.
PublisherServed ==
    \A p \in Publishers : /\ (pc[p] = "registered") ~> (pc[p] = "streaming")
                          /\ (pc[p] = "eof") ~> ~Registered(p)

\* A session is given only to a connection in the table: "Retain the
\* connectionLock for the rest of the function to ensure we don't terminate the
\* stream *then* assign the session to the cxn".
AssignsRegistered == \A c \in Publishers : ~sess[c] /\ sess'[c] => Registered(c)
AssignedWhileRegistered == [][AssignsRegistered]_vars

\* What a registered stream saves can be found: "We index the session by the
\* first entry of the path".
StorageIndexed ==
    \A c \in Publishers :
        Registered(c) /\ lock = None => storage[c] = sessions[MidOf[c]] /\ storage[c] \notin ended

Publishing(p) == pc[p] \in {"registered", "needOrch", "streaming"}

\* registerConnection: "We can only have one concurrent stream per ManifestID".
OneStreamPerManifest ==
    \A p, q \in Publishers : Publishing(p) /\ Publishing(q) /\ MidOf[p] = MidOf[q] => p = q

\* doc/ingest.md: "The node has a default maximum of 10 concurrent RTMP
\* sessions."
ConnectionsWithinLimit ==
    MaxSessions > 0 =>
        Cardinality({m \in Manifests : rtmpConnections[m] # None}) <= MaxSessions
=============================================================================
