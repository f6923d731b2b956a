------------------------------- MODULE Storage -------------------------------
(****************************************************************************)
(* Object storage (drivers) on the way of a segment from a broadcaster to an *)
(* orchestrator and of its transcoded result back (server/broadcast.go,      *)
(* server/segment_rpc.go, core/orchestrator.go).                             *)
(*                                                                           *)
(* Either node keeps data in memory, in S3 or in Google's storage.  A node   *)
(* with a bucket hands out sessions: a policy, signed by it, to upload until *)
(* it expires.  The broadcaster sends the session of its bucket along with   *)
(* every segment, and the orchestrator that of its own with its info.  The   *)
(* loop of a manifest at the orchestrator keeps the session that came with   *)
(* its first segment.  The copy of a source that a remote transcoder         *)
(* fetches is left out: nobody else reads it, and Transcode may fail anyway. *)
(*                                                                           *)
(* The bucket is external: it takes an upload whose policy has not expired,  *)
(* and may fail.  What it says of an error is in the body of its answer.     *)
(****************************************************************************)
EXTENDS Naturals, Sequences

CONSTANTS
    Kinds,       \* of storage
    Segs,        \* bound: segments of the stream
    CacheLen,    \* dataCacheLen
    ListLen,     \* LIVE_LIST_LENGTH
    PolicyLife,  \* S3_POLICY_EXPIRE_IN_HOURS
    MaxTime      \* bound: hours

StorageAssumption ==
    /\ Kinds \subseteq {"memory", "s3", "google"} /\ Segs \in Nat /\ MaxTime \in Nat
    /\ ListLen \in Nat \ {0} /\ CacheLen \in Nat /\ ListLen <= CacheLen /\ PolicyLife \in Nat

VARIABLES
    kind,      \* the storage of either node, "b" and "o"
    time,
    own,       \* the broadcaster's session of the stream
    sess,      \* its session with the orchestrator: BroadcasterOS and OrchestratorOS
    loop,      \* the session that the orchestrator's loop of the manifest stores results with
    bucket,    \* what each bucket holds
    cache,     \* what each memory session holds: source and result segments, oldest first
    list,      \* the broadcaster's playlists, of sources and of results
    pc, url,   \* of each segment
    os         \* the session sent along with it, then the one for its result

vars == <<kind, time, own, sess, loop, bucket, cache, list, pc, url, os>>

Nodes == {"b", "o"}
What == {"source", "result"}

-----------------------------------------------------------------------------
(* Sessions *)

NoSession == [node |-> "none", expires |-> 0, open |-> FALSE]

createPolicy(t) == t + PolicyLife
gsCreatePolicy(t) == t + PolicyLife

\* NewSession of each driver
memoryNewSession(n) == [node |-> n, expires |-> MaxTime + 1, open |-> TRUE]
s3NewSession(n, t) == [node |-> n, expires |-> createPolicy(t), open |-> TRUE]
gsNewSession(n, t) == [node |-> n, expires |-> gsCreatePolicy(t), open |-> TRUE]

NewSession(n, t) ==
    CASE kind[n] = "memory" -> memoryNewSession(n)
      [] kind[n] = "s3" -> s3NewSession(n, t)
      [] kind[n] = "google" -> gsNewSession(n, t)

IsExternal(n) == kind[n] # "memory"

\* GetInfo: what a node tells the other one of a session
GetInfo(s) == IF s # NoSession /\ IsExternal(s.node) THEN s ELSE NoSession

\* The session that the other node makes of it: with the same policy, not a new one
newS3Session(info) == info
newGSSession(info) == info

SessionOf(info) ==
    IF info = NoSession THEN NoSession
    ELSE IF kind[info.node] = "s3" THEN newS3Session(info) ELSE newGSSession(info)

\* Insert of dataCache: a name that is there already stays where it is.
Insert(c, x) ==
    IF \E i \in 1 .. Len(c) : c[i] = x THEN c
    ELSE Append(IF Len(c) >= CacheLen THEN Tail(c) ELSE c, x)

Has(n, w, x) ==
    IF IsExternal(n) THEN <<w, x>> \in bucket[n] ELSE \E i \in 1 .. Len(cache[n][w]) : cache[n][w][i] = x

\* Mutant: the answer of the bucket is not looked at.
SaveData_NoCheck(s, w, x) ==
    /\ s.open
    /\ IF IsExternal(s.node)
       THEN /\ bucket' \in {bucket, [bucket EXCEPT ![s.node] = @ \union {<<w, x>>}]}
            /\ UNCHANGED cache
       ELSE /\ cache' = [cache EXCEPT ![s.node][w] = Insert(@, x)]
            /\ UNCHANGED bucket

\* The bucket takes the data while the policy holds, and then its answer is empty.
postData(s, w, x) ==
    /\ time < s.expires
    /\ bucket' = [bucket EXCEPT ![s.node] = @ \union {<<w, x>>}]

\* It succeeds: a memory session must not have ended.
SaveData(s, w, x) ==
    /\ s.open
    /\ \/ IsExternal(s.node) /\ postData(s, w, x) /\ UNCHANGED cache
       \/ /\ ~IsExternal(s.node)
          /\ cache' = [cache EXCEPT ![s.node][w] = Insert(@, x)]
          /\ UNCHANGED bucket

\* It fails: a bucket may have taken the data all the same.
SaveFails(s, w, x) ==
    /\ IsExternal(s.node) \/ ~s.open
    /\ \/ UNCHANGED bucket
       \/ IsExternal(s.node) /\ postData(s, w, x)
    /\ UNCHANGED cache

\* GetSegmentData: no answer, or the data is not there any more
GetSegmentData(n, w, x) == Has(n, w, x)

-----------------------------------------------------------------------------
(* The broadcaster *)

At(x, from, to) == pc[x] = from /\ pc' = [pc EXCEPT ![x] = to]

\* InsertHLSSegment: the window of the playlist is full.
InsertHLSSegment(w, x, n) ==
    list' = [list EXCEPT ![w] = Append(IF Len(@) >= ListLen THEN Tail(@) ELSE @, [seg |-> x, node |-> n])]

\* selectOrchestrator: new sessions for the orchestrator, at any time
selectOrchestrator ==
    /\ sess' = [bos |-> IF IsExternal("b") THEN NewSession("b", time) ELSE own,
                ios |-> SessionOf(GetInfo(NewSession("o", time)))]
    /\ sess' # sess
    /\ UNCHANGED <<kind, time, own, loop, bucket, cache, list, pc, url, os>>

\* processSegment: the segment is stored and listed.
SaveSource(x) ==
    /\ x > 1 => pc[x - 1] # "new"
    /\ At(x, "new", "saved") /\ SaveData(own, "source", x)
    /\ InsertHLSSegment("source", x, own.node)
    /\ url' = [url EXCEPT ![x] = IF IsExternal("b") THEN "b" ELSE "none"]
    /\ UNCHANGED <<kind, time, own, sess, loop, os>>

SaveSourceFails(x) ==
    /\ x > 1 => pc[x - 1] # "new"
    /\ At(x, "new", "done") /\ SaveFails(own, "source", x)
    /\ UNCHANGED <<kind, time, own, sess, loop, list, url, os>>

\* To the storage that the orchestrator prefers; genSegCreds adds the broadcaster's.
Upload(x) ==
    /\ pc[x] = "saved" /\ sess # <<>>
    /\ \/ sess.ios = NoSession /\ At(x, "saved", "ready") /\ UNCHANGED <<bucket, cache, url>>
       \/ /\ sess.ios # NoSession
          /\ \/ /\ At(x, "saved", "ready") /\ SaveData(sess.ios, "source", x)
                /\ url' = [url EXCEPT ![x] = "o"]
             \/ /\ At(x, "saved", "done") /\ SaveFails(sess.ios, "source", x)
                /\ UNCHANGED url
    /\ os' = [os EXCEPT ![x] = SessionOf(GetInfo(sess.bos))]
    /\ UNCHANGED <<kind, time, own, sess, loop, list>>

\* Mutant: any bucket is taken for its own.
IsOwnExternal_Any(n) == \E m \in Nodes : IsExternal(m) /\ n \in Nodes

\* The URL is one of the broadcaster's own bucket.
IsOwnExternal(n) == n = "b" /\ IsExternal("b")

\* dlFunc: a result that is elsewhere is copied to the broadcaster's storage first.
Keep(x) ==
    /\ pc[x] = "answered"
    /\ \/ /\ IsOwnExternal(url[x])
          /\ At(x, "answered", "kept") /\ UNCHANGED <<bucket, cache, url>>
       \/ /\ ~IsOwnExternal(url[x])
          /\ \/ /\ GetSegmentData(url[x], "result", x)
                /\ At(x, "answered", "kept") /\ SaveData(sess.bos, "result", x)
                /\ url' = [url EXCEPT ![x] = "b"]
             \/ At(x, "answered", "done") /\ UNCHANGED <<bucket, cache, url>>
             \/ At(x, "answered", "done") /\ SaveFails(sess.bos, "result", x) /\ UNCHANGED url
    /\ UNCHANGED <<kind, time, own, sess, loop, list, os>>

List(x) ==
    /\ At(x, "kept", "done")
    /\ InsertHLSSegment("result", x, url[x])
    /\ UNCHANGED <<kind, time, own, sess, loop, bucket, cache, url, os>>

\* Cleanup: the publisher is gone.  A session of a bucket has nothing to end.
EndSession ==
    /\ own.open /\ ~IsExternal("b")
    /\ own' = [own EXCEPT !.open = FALSE]
    /\ sess' = IF sess = <<>> THEN sess ELSE [sess EXCEPT !.bos.open = FALSE]
    /\ cache' = [cache EXCEPT !["b"] = [w \in What |-> <<>>]]
    /\ UNCHANGED <<kind, time, loop, bucket, list, pc, url, os>>

-----------------------------------------------------------------------------
(* The orchestrator *)

\* ServeSegment: the segment is in the body, or where its URL says.
Serve(x) ==
    /\ pc[x] = "ready"
    /\ \/ url[x] = "none" /\ At(x, "ready", "sent")
       \/ url[x] # "none" /\ GetSegmentData(url[x], "source", x) /\ At(x, "ready", "sent")
       \/ At(x, "ready", "done")
    /\ UNCHANGED <<kind, time, own, sess, loop, bucket, cache, list, url, os>>

\* The first segment of the manifest starts its loop.
transcodeSegmentLoop(x) ==
    IF loop # NoSession THEN loop ELSE IF os[x] = NoSession THEN NewSession("o", time) ELSE os[x]

Transcode(x) ==
    /\ pc[x] = "sent"
    /\ loop' = transcodeSegmentLoop(x)
    /\ \/ At(x, "sent", "transcoded") /\ os' = [os EXCEPT ![x] = loop']
       \/ At(x, "sent", "done") /\ UNCHANGED os
    /\ UNCHANGED <<kind, time, own, sess, bucket, cache, list, url>>

\* ServeSegment: a result that cannot be saved is left out of the answer.
SaveResult(x) ==
    /\ \/ /\ At(x, "transcoded", "answered") /\ SaveData(os[x], "result", x)
          /\ url' = [url EXCEPT ![x] = os[x].node]
       \/ At(x, "transcoded", "done") /\ SaveFails(os[x], "result", x) /\ UNCHANGED url
    /\ UNCHANGED <<kind, time, own, sess, loop, list, os>>

\* No segment for a while: the loop ends its sessions.
LoopTimeout ==
    /\ loop # NoSession /\ loop' = NoSession
    /\ cache' = [cache EXCEPT !["o"] = [w \in What |-> <<>>]]
    /\ os' = [x \in 1 .. Segs |-> IF os[x] = loop /\ ~IsExternal(loop.node) THEN [os[x] EXCEPT !.open = FALSE]
                                 ELSE os[x]]
    /\ UNCHANGED <<kind, time, own, sess, bucket, list, pc, url>>

Tick ==
    /\ time < MaxTime /\ time' = time + 1
    /\ UNCHANGED <<kind, own, sess, loop, bucket, cache, list, pc, url, os>>

-----------------------------------------------------------------------------
Init ==
    /\ kind \in [Nodes -> Kinds]
    /\ time = 0
    /\ own = NewSession("b", 0) /\ sess = <<>> /\ loop = NoSession
    /\ bucket = [n \in Nodes |-> {}] /\ cache = [n \in Nodes |-> [w \in What |-> <<>>]]
    /\ list = [w \in What |-> <<>>]
    /\ pc = [x \in 1 .. Segs |-> "new"] /\ url = [x \in 1 .. Segs |-> "none"]
    /\ os = [x \in 1 .. Segs |-> NoSession]

Segment(x) ==
    \/ SaveSource(x) \/ SaveSourceFails(x) \/ Upload(x) \/ Serve(x) \/ Transcode(x)
    \/ SaveResult(x) \/ Keep(x) \/ List(x)

Next ==
    \/ \E x \in 1 .. Segs : Segment(x)
    \/ selectOrchestrator \/ EndSession \/ LoopTimeout \/ Tick

Spec == Init /\ [][Next]_vars

-----------------------------------------------------------------------------
(* Properties *)

\* Shapes of the state.
TypeOK ==
    /\ kind \in [Nodes -> Kinds]
    /\ \A n \in Nodes, w \in What : Len(cache[n][w]) <= CacheLen
    /\ \A w \in What : Len(list[w]) <= ListLen
    /\ url \in [1 .. Segs -> Nodes \union {"none"}]

\* processSegment, dlFunc: while the stream lasts, a segment that the broadcaster's
\* playlists list is in the broadcaster's own storage, whichever storage either node uses
\* and whichever uploads failed, came too late for their policy or were taken all the same.
\* (A result in memory may be dropped again: ResultKeptInMemory.)
ListedIsStored ==
    own.open => \A w \in What : \A i \in 1 .. Len(list[w]) :
        /\ list[w][i].node = "b"
        /\ w = "source" \/ IsExternal("b") => Has("b", w, list[w][i].seg)

\* A memory session is longer than a playlist: it holds the results that are listed.
ResultKeptInMemory ==
    own.open => \A i \in 1 .. Len(list["result"]) : Has("b", "result", list["result"][i].seg)

\* A stream outlasts the policy of its session: its segments can be stored all the same.
SessionOutlastsStream == \A x \in 1 .. Segs : pc[x] = "new" => time < own.expires
=============================================================================
