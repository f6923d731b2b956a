----------------------- MODULE BroadcastSegmentsProofs -----------------------
(****************************************************************************)
(* Proofs about the segments of a broadcaster: what viewers are given       *)
(* (Playlist) and what is stored (Storage).                                 *)
(****************************************************************************)
EXTENDS BroadcastSegments, Integers, Sequences, TLAPS

\* Sequences of the same elements
LEMMA SameSequence ==
    ASSUME NEW T, NEW q \in Seq(T), NEW r \in Seq(T), Len(q) = Len(r),
           \A i \in 1 .. Len(q) : q[i] = r[i]
    PROVE  q = r
OBVIOUS

-----------------------------------------------------------------------------
(* Windows of consecutive segments *)

\* q holds the segments just before n.
Trails(q, n) == \A i \in 1 .. Len(q) : q[i] + Len(q) + 1 = n + i

\* Without its first segment a window still trails.
LEMMA TrailsTail ==
    ASSUME NEW q \in Seq(Nat), NEW n \in Nat, Trails(q, n), q # <<>>
    PROVE  /\ Tail(q) \in Seq(Nat) /\ Len(Tail(q)) = Len(q) - 1 /\ Len(q) \in Nat \ {0}
           /\ Trails(Tail(q), n)
<1>1. /\ Tail(q) \in Seq(Nat) /\ Len(Tail(q)) = Len(q) - 1 /\ Len(q) \in Nat \ {0}
      /\ \A i \in 1 .. Len(Tail(q)) : Tail(q)[i] = q[i + 1]
  OBVIOUS
<1>2. PICK t \in Seq(Nat) : t = Tail(q)
  BY <1>1, Zenon
<1>3. PICK k \in Nat : k = Len(t)
  OBVIOUS
<1>4. Len(q) = k + 1
  BY <1>1, <1>2, <1>3
<1>5. \A i \in 1 .. k : t[i] + k + 1 = n + i
  <2> TAKE i \in 1 .. k
  <2>1. i + 1 \in 1 .. k + 1 /\ t[i] = q[i + 1]
    BY <1>1, <1>2, <1>3
  <2>2. q[i + 1] \in Nat /\ q[i + 1] + (k + 1) + 1 = n + (i + 1)
    <3>1. PICK j \in 1 .. Len(q) : j = i + 1
      BY <1>4, <2>1, Zenon
    <3>2. q[j] \in Nat /\ q[j] + Len(q) + 1 = n + j
      BY <3>1 DEF Trails
    <3> QED
      BY <1>4, <3>1, <3>2, Zenon
  <2>3. PICK x \in Nat : x = q[i + 1]
    BY <2>2, Zenon
  <2>4. x + (k + 1) + 1 = n + (i + 1)
    BY <2>2, <2>3, Zenon
  <2>5. x + k + 1 = n + i
    BY <2>4
  <2> QED
    BY <2>1, <2>3, <2>5, Zenon
<1>6. Trails(t, n)
  BY <1>3, <1>5, Zenon DEF Trails
<1> QED
  BY <1>1, <1>2, <1>6, Zenon

\* A window with n at its end trails n + 1, and did not hold n.
LEMMA TrailsAppend ==
    ASSUME NEW q \in Seq(Nat), NEW n \in Nat, Trails(q, n)
    PROVE  /\ Append(q, n) \in Seq(Nat) /\ Len(Append(q, n)) = Len(q) + 1 /\ Len(q) \in Nat
           /\ Trails(Append(q, n), n + 1)
           /\ \A i \in 1 .. Len(q) : q[i] # n
<1>1. /\ Append(q, n) \in Seq(Nat) /\ Len(Append(q, n)) = Len(q) + 1
      /\ \A i \in 1 .. Len(q) : Append(q, n)[i] = q[i]
      /\ Append(q, n)[Len(q) + 1] = n
  OBVIOUS
<1>2. PICK k \in Nat : k = Len(q)
  OBVIOUS
<1>3. PICK a \in Seq(Nat) : a = Append(q, n)
  BY <1>1, Zenon
<1>4. \A i \in 1 .. k : q[i] \in Nat /\ q[i] + k + 1 = n + i
  BY <1>2 DEF Trails
<1>5. \A i \in 1 .. k + 1 : a[i] + (k + 1) + 1 = n + 1 + i
  <2> TAKE i \in 1 .. k + 1
  <2>1. CASE i = k + 1
    BY <1>1, <1>2, <1>3, <2>1
  <2>2. CASE i # k + 1
    <3>1. i \in 1 .. k
      BY <2>2
    <3>2. PICK x \in Nat : x = q[i]
      BY <1>4, <3>1, Zenon
    <3>3. x + k + 1 = n + i
      BY <1>4, <3>1, <3>2, Zenon
    <3>4. a[i] = x
      BY <1>1, <1>2, <1>3, <3>1, <3>2, Zenon
    <3> QED
      BY <3>3, <3>4
  <2> QED
    BY <2>1, <2>2, Zenon
<1>6. Trails(a, n + 1)
  BY <1>1, <1>2, <1>3, <1>5, Zenon DEF Trails
<1>7. \A i \in 1 .. k : q[i] # n
  BY <1>4
<1> QED
  BY <1>1, <1>2, <1>3, <1>6, <1>7, Zenon

\* A window of at most k, after n has been added
Shift(q, k, n) == Append(IF Len(q) >= k THEN Tail(q) ELSE q, n)

LEMMA TrailsShift ==
    ASSUME NEW q \in Seq(Nat), NEW k \in Nat \ {0}, NEW n \in Nat, Trails(q, n), Len(q) <= k
    PROVE  /\ Shift(q, k, n) \in Seq(Nat) /\ Trails(Shift(q, k, n), n + 1)
           /\ Len(Shift(q, k, n)) = IF Len(q) = k THEN k ELSE Len(q) + 1
           /\ \A i \in 1 .. Len(q) : q[i] # n
<1>0. Len(q) \in Nat /\ \A i \in 1 .. Len(q) : q[i] # n
  BY TrailsAppend, Zenon
<1>1. CASE Len(q) = k
  <2>1. q # <<>>
    BY <1>1
  <2>2. PICK t \in Seq(Nat) : t = Tail(q) /\ Len(t) = k - 1 /\ Trails(t, n)
    BY <1>1, <2>1, TrailsTail, Zenon
  <2>3. Append(t, n) \in Seq(Nat) /\ Trails(Append(t, n), n + 1) /\ Len(Append(t, n)) = Len(t) + 1
    BY <2>2, TrailsAppend, Zenon
  <2>4. Shift(q, k, n) = Append(t, n)
    BY <1>0, <1>1, <2>2 DEF Shift
  <2>5. Len(Append(t, n)) = k
    BY <2>2, <2>3
  <2> QED
    BY <1>0, <1>1, <2>3, <2>4, <2>5, Zenon
<1>2. CASE Len(q) # k
  <2>1. Shift(q, k, n) = Append(q, n)
    BY <1>0, <1>2 DEF Shift
  <2> QED
    BY <1>0, <1>2, <2>1, TrailsAppend, Zenon
<1> QED
  BY <1>1, <1>2, Zenon

LEMMA Cancel == ASSUME NEW a \in Nat, NEW x \in Nat, NEW y \in Nat, y + a + 1 = x + a + 1 PROVE y = x
OBVIOUS

LEMMA Offset ==
    ASSUME NEW a \in Nat, NEW f \in Nat, NEW i \in Nat, NEW x \in Nat, x + a + 1 = (f + a) + i
    PROVE  x = f + i - 1
OBVIOUS

\* What trails is held by anything that trails, ends no earlier and begins no later.
LEMMA TrailsHeld ==
    ASSUME NEW q \in Seq(Nat), NEW c \in Seq(Nat), NEW n \in Nat, NEW m \in Nat,
           Trails(q, n), Trails(c, m), n <= m, Len(q) + m <= Len(c) + n, NEW i \in 1 .. Len(q)
    PROVE  \E j \in 1 .. Len(c) : c[j] = q[i]
<1>1. PICK a \in Nat : a = Len(q)
  OBVIOUS
<1>2. PICK b \in Nat : b = Len(c)
  OBVIOUS
<1>3. PICK x \in Nat : x = q[i]
  OBVIOUS
<1>4. a + m <= b + n /\ i \in 1 .. a /\ x + a + 1 = n + i
  BY <1>1, <1>2, <1>3, Zenon DEF Trails
<1>5. PICK d \in Nat : m = n + d
  <2>1. m - n \in Nat /\ m = n + (m - n)
    OBVIOUS
  <2> QED
    BY <2>1, Zenon
<1>6. PICK e \in Nat : b = a + d + e
  <2>1. b - (a + d) \in Nat /\ b = a + d + (b - (a + d))
    BY <1>4, <1>5
  <2> QED
    BY <2>1, Zenon
<1>7. PICK j \in 1 .. b : j = i + e
  BY <1>4, <1>6
<1>8. PICK y \in Nat : y = c[j] /\ y + b + 1 = m + j
  <2>1. j \in 1 .. Len(c)
    BY <1>2, Zenon
  <2>2. c[j] \in Nat /\ c[j] + b + 1 = m + j
    BY <1>2, <2>1, SMTT(30) DEF Trails
  <2> QED
    BY <2>2, Zenon
<1>9. y = x
  <2>1. PICK h \in Nat : h = i
    BY <1>4
  <2>2. x + a + 1 = n + h
    BY <1>4, <2>1, Zenon
  <2>3. y + (a + d + e) + 1 = (n + d) + (h + e)
    BY <1>5, <1>6, <1>7, <1>8, <2>1, Zenon
  <2>4. y + a + 1 = n + h
    BY <2>3
  <2>5. y + a + 1 = x + a + 1
    BY <2>2, <2>4, Zenon
  <2> QED
    BY <2>5, Cancel, Zenon
<1> QED
  BY <1>2, <1>3, <1>8, <1>9, Zenon

-----------------------------------------------------------------------------
(* Playlist *)

\* What has been saved is dropped with the end of the session.
DroppedInv == DOMAIN dCache = L!Renditions /\ L!NothingAfterEnd

\* drivers/local.go, MemorySession: whichever downloads come late, an ended session holds
\* nothing.
THEOREM NothingEverAfterEnd == L!Spec => []NothingAfterEnd
<1>1. L!Init => DroppedInv
  BY Zenon DEF L!Init, DroppedInv, L!NothingAfterEnd
<1>2. DroppedInv /\ [L!Next]_L!vars => DroppedInv'
  <2> SUFFICES ASSUME DroppedInv, [L!Next]_L!vars PROVE DroppedInv'
    BY Zenon
  <2>1. CASE L!processSegment
    BY <2>1, Zenon DEF L!processSegment, L!SaveData, L!listVars, DroppedInv, L!NothingAfterEnd
  <2>2. CASE L!Cleanup
    BY <2>2, Zenon DEF L!Cleanup, DroppedInv, L!NothingAfterEnd
  <2>3. ASSUME NEW s \in L!SeqNos, L!SubmitSegment(s) \/ L!AllDownloaded(s)
        PROVE  DroppedInv'
    BY <2>3 DEF L!SubmitSegment, L!AllDownloaded, DroppedInv, L!NothingAfterEnd
  <2>4. ASSUME NEW s \in L!SeqNos, NEW p \in Profiles, L!dlFunc(s, p)
        PROVE  DroppedInv'
    BY <2>4, Zenon DEF L!dlFunc, L!SaveData, DroppedInv, L!NothingAfterEnd
  <2>5. ASSUME NEW s \in L!SeqNos, NEW p \in Profiles,
               \/ L!GetSegmentDataFails(s, p) \/ L!GetSegmentDataHangs(s, p)
               \/ L!RemoveOldest(s, p) \/ L!InsertHLSSegment(s, p)
        PROVE  DroppedInv'
    BY <2>5 DEF L!GetSegmentDataFails, L!GetSegmentDataHangs, L!RemoveOldest,
       L!InsertHLSSegment, DroppedInv, L!NothingAfterEnd
  <2>6. CASE L!RemoveOldestSource \/ L!InsertSource
    BY <2>6 DEF L!RemoveOldestSource, L!InsertSource, DroppedInv, L!NothingAfterEnd
  <2>7. CASE UNCHANGED L!vars
    BY <2>7, Zenon DEF L!vars, DroppedInv, L!NothingAfterEnd
  <2> QED
    BY <2>1, <2>2, <2>3, <2>4, <2>5, <2>6, <2>7, Zenon DEF L!Next, L!Download
<1>3. DroppedInv => NothingAfterEnd
  BY Zenon DEF DroppedInv, NothingAfterEnd
<1> QED
  BY <1>1, <1>2, <1>3, PTL DEF L!Spec

\* processSegment has saved the next segment and not listed it yet.
Saving == nextSeq < Count /\ spc[nextSeq] \in {"remove", "append"}

Saved == IF Saving THEN nextSeq + 1 ELSE nextSeq

\* The segmenter is busy with the next segment, or with none.
SourceSteps ==
    /\ nextSeq \in Nat
    /\ DOMAIN dCache = L!Renditions /\ DOMAIN mediaLists = L!Renditions
    /\ listSeqNo \in [L!Renditions -> Nat]
    /\ DOMAIN spc = L!SeqNos
    /\ \A s \in L!SeqNos : s >= nextSeq => spc[s] \in {"none", "remove", "append"}
    /\ \A s \in L!SeqNos : s > nextSeq => spc[s] = "none"

\* While the session lasts, the cache of the source is a window that ends with the last segment
\* saved, and its playlist one that ends with the last listed and begins no earlier; there is
\* room in the playlist when the next segment is appended.
SourceInv ==
    /\ SourceSteps
    /\ ~mosEnded =>
        /\ dCache[Source] \in Seq(Nat) /\ mediaLists[Source] \in Seq(Nat)
        /\ Trails(dCache[Source], Saved) /\ Len(dCache[Source]) <= CacheLen
        /\ Trails(mediaLists[Source], nextSeq) /\ Len(mediaLists[Source]) <= WinSize
        /\ Len(mediaLists[Source]) + Saved <= Len(dCache[Source]) + nextSeq
        /\ nextSeq < Count /\ spc[nextSeq] = "append" => Len(mediaLists[Source]) < WinSize
        /\ mediaLists[Source] # <<>> => listSeqNo[Source] + Len(mediaLists[Source]) = nextSeq

\* What SourceInv says of the source's cache, its playlist and its sequence number
LEMMA SourceParts ==
    ASSUME SourceInv, ~mosEnded
    PROVE  \E q \in Seq(Nat), c \in Seq(Nat), no \in Nat :
              /\ q = mediaLists[Source] /\ c = dCache[Source] /\ no = listSeqNo[Source]
              /\ Len(q) \in Nat /\ Len(c) \in Nat
              /\ Trails(q, nextSeq) /\ Len(q) <= WinSize /\ Trails(c, Saved) /\ Len(c) <= CacheLen
              /\ Len(q) + Saved <= Len(c) + nextSeq
              /\ nextSeq < Count /\ spc[nextSeq] = "append" => Len(q) < WinSize
              /\ q # <<>> => no + Len(q) = nextSeq
<1>1. \A t \in Seq(Nat) : Len(t) \in Nat
  OBVIOUS
<1> QED
  BY <1>1, Zenon DEF SourceInv, SourceSteps, L!Renditions

\* The constants, and where the segmenter is
LEMMA SourcePlace ==
    ASSUME SourceSteps
    PROVE  /\ WinSize \in Nat \ {0} /\ CacheLen \in Nat \ {0} /\ WinSize < CacheLen /\ Count \in Nat
           /\ nextSeq \in Nat /\ nextSeq + 1 \in Nat /\ Saved \in Nat /\ nextSeq <= Saved
           /\ Source \in L!Renditions
           /\ nextSeq < Count => nextSeq \in L!SeqNos
BY SegmentsAssumption DEF L!PlaylistAssumption, SourceSteps, Saved, L!Renditions, L!SeqNos

\* Steps of the segmenter move spc of the next segment, and only to the next state.
LEMMA StepsKept ==
    ASSUME SourceSteps, L!processSegment \/ L!RemoveOldestSource \/ L!InsertSource
    PROVE  /\ nextSeq < Count /\ nextSeq \in L!SeqNos
           /\ \E p \in {"remove", "append", "submit", "done"} :
                 /\ spc' = [spc EXCEPT ![nextSeq] = p]
                 /\ nextSeq' = IF p \in {"remove", "append"} THEN nextSeq ELSE nextSeq + 1
           /\ DOMAIN spc' = L!SeqNos /\ nextSeq' \in Nat
           /\ \A s \in L!SeqNos : s >= nextSeq' => spc'[s] \in {"none", "remove", "append"}
           /\ \A s \in L!SeqNos : s > nextSeq' => spc'[s] = "none"
<1>1. nextSeq < Count /\ nextSeq \in L!SeqNos /\ nextSeq \in Nat
  BY SourcePlace, Zenon DEF L!processSegment, L!RemoveOldestSource, L!InsertSource
<1>2. PICK p \in {"remove", "append", "submit", "done"} :
         /\ spc' = [spc EXCEPT ![nextSeq] = p]
         /\ nextSeq' = IF p \in {"remove", "append"} THEN nextSeq ELSE nextSeq + 1
  BY Zenon DEF L!processSegment, L!RemoveOldestSource, L!InsertSource
<1>3. DOMAIN spc' = L!SeqNos /\ nextSeq' \in Nat
  BY <1>1, <1>2 DEF SourceSteps
<1>4. spc'[nextSeq] = p /\ \A s \in L!SeqNos : s # nextSeq => spc'[s] = spc[s]
  BY <1>1, <1>2, Zenon DEF SourceSteps
<1>5. CASE p \in {"remove", "append"}
  <2>1. nextSeq' = nextSeq
    BY <1>2, <1>5, Zenon
  <2>2. \A s \in L!SeqNos : s > nextSeq => s # nextSeq
    BY <1>1 DEF L!SeqNos
  <2>3. \A s \in L!SeqNos : s >= nextSeq' => spc'[s] \in {"none", "remove", "append"}
    BY <1>4, <1>5, <2>1, Zenon DEF SourceSteps
  <2>4. \A s \in L!SeqNos : s > nextSeq' => spc'[s] = "none"
    BY <1>4, <2>1, <2>2, Zenon DEF SourceSteps
  <2> QED
    BY <1>1, <1>2, <1>3, <2>3, <2>4, Zenon
<1>6. CASE p \notin {"remove", "append"}
  <2>1. nextSeq' = nextSeq + 1
    BY <1>2, <1>6, Zenon
  <2>2. \A s \in L!SeqNos : s >= nextSeq + 1 => s > nextSeq /\ s # nextSeq
    BY <1>1 DEF L!SeqNos
  <2>3. \A s \in L!SeqNos : s > nextSeq + 1 => s > nextSeq /\ s # nextSeq
    BY <1>1 DEF L!SeqNos
  <2>4. \A s \in L!SeqNos : s >= nextSeq' => spc'[s] = "none"
    BY <1>4, <2>1, <2>2, Zenon DEF SourceSteps
  <2>5. \A s \in L!SeqNos : s > nextSeq' => spc'[s] = "none"
    BY <1>4, <2>1, <2>3, Zenon DEF SourceSteps
  <2> QED
    BY <1>1, <1>2, <1>3, <2>4, <2>5, Zenon
<1> QED
  BY <1>5, <1>6, Zenon

\* InsertHLSSegment of a source segment: what is removed ...
LEMMA SourceRemoved ==
    ASSUME SourceInv, ~mosEnded, L!RemoveOldestSource
    PROVE  /\ spc[nextSeq] = "remove" /\ spc' = [spc EXCEPT ![nextSeq] = "append"]
           /\ UNCHANGED <<nextSeq, mosEnded, dCache>>
           /\ \/ /\ Len(mediaLists[Source]) = WinSize
                 /\ mediaLists' = [mediaLists EXCEPT ![Source] = Tail(@)]
                 /\ listSeqNo' = [listSeqNo EXCEPT ![Source] = @ + 1]
              \/ Len(mediaLists[Source]) < WinSize /\ UNCHANGED <<mediaLists, listSeqNo>>
<1>1. PICK q \in Seq(Nat) : q = mediaLists[Source] /\ Len(q) \in Nat /\ Len(q) <= WinSize
  BY SourceParts, Zenon
<1>2. WinSize \in Nat
  BY SourcePlace, Zenon DEF SourceInv
<1>3. CASE Len(q) = WinSize
  BY <1>1, <1>2, <1>3 DEF L!RemoveOldestSource, L!removeIfFull
<1>4. CASE Len(q) # WinSize
  <2>1. Len(q) < WinSize /\ ~(Len(q) >= WinSize)
    BY <1>1, <1>2, <1>4
  <2> QED
    BY <1>1, <2>1, Zenon DEF L!RemoveOldestSource, L!removeIfFull
<1> QED
  BY <1>3, <1>4, Zenon

\* ... and what is added
LEMMA SourceAppended ==
    ASSUME SourceInv, ~mosEnded, L!InsertSource
    PROVE  /\ nextSeq < Count /\ spc[nextSeq] = "append" /\ nextSeq' = nextSeq + 1
           /\ UNCHANGED <<mosEnded, dCache>>
           /\ Len(mediaLists[Source]) < WinSize
           /\ mediaLists' = [mediaLists EXCEPT ![Source] = Append(@, nextSeq)]
           /\ listSeqNo' = IF mediaLists[Source] = <<>> THEN [listSeqNo EXCEPT ![Source] = nextSeq]
                           ELSE listSeqNo
<1>1. nextSeq < Count /\ spc[nextSeq] = "append"
  BY Zenon DEF L!InsertSource
<1>2. PICK q \in Seq(Nat) : q = mediaLists[Source] /\ Len(q) \in Nat /\ Len(q) < WinSize
  BY <1>1, SourceParts, Zenon
<1>3. WinSize \in Nat
  BY SourcePlace, Zenon DEF SourceInv
<1>4. ~(Len(mediaLists[Source]) >= WinSize)
  BY <1>2, <1>3
<1> QED
  BY <1>1, <1>2, <1>4, Zenon DEF L!InsertSource, L!AppendSegment

\* Renditions other than the source have lists and caches of their own.
LEMMA OthersKeepSource ==
    ASSUME SourceInv, NEW s \in L!SeqNos, NEW p \in Profiles,
           L!Download(s, p) \/ L!GetSegmentDataHangs(s, p)
    PROVE  SourceInv'
<1>0. Source # p /\ p \in L!Renditions /\ Source \in L!Renditions
  BY SegmentsAssumption, Zenon DEF L!PlaylistAssumption, L!Renditions
<1>0a. s \in Nat
  BY DEF L!SeqNos
<1>1. CASE L!GetSegmentDataFails(s, p) \/ L!GetSegmentDataHangs(s, p)
  BY <1>1, Zenon DEF L!GetSegmentDataFails, L!GetSegmentDataHangs, L!listVars, SourceInv,
     SourceSteps, Saved, Saving
<1>2. CASE L!dlFunc(s, p)
  BY <1>0, <1>2, Zenon DEF L!dlFunc, L!SaveData, L!listVars, SourceInv, SourceSteps, Saved, Saving
<1>3. CASE L!RemoveOldest(s, p)
  <2>1. /\ UNCHANGED <<nextSeq, mosEnded, dCache, spc>>
        /\ mediaLists'[Source] = mediaLists[Source] /\ listSeqNo'[Source] = listSeqNo[Source]
        /\ DOMAIN mediaLists' = L!Renditions /\ listSeqNo' \in [L!Renditions -> Nat]
    BY <1>0, <1>3 DEF L!RemoveOldest, L!removeIfFull, SourceInv, SourceSteps
  <2> QED
    BY <2>1, Zenon DEF SourceInv, SourceSteps, Saved, Saving
<1>4. CASE L!InsertHLSSegment(s, p)
  <2>1. /\ UNCHANGED <<nextSeq, mosEnded, dCache, spc>>
        /\ mediaLists'[Source] = mediaLists[Source] /\ listSeqNo'[Source] = listSeqNo[Source]
        /\ DOMAIN mediaLists' = L!Renditions /\ listSeqNo' \in [L!Renditions -> Nat]
    BY <1>0, <1>0a, <1>4, Zenon DEF L!InsertHLSSegment, L!AppendSegment, SourceInv, SourceSteps
  <2> QED
    BY <2>1, Zenon DEF SourceInv, SourceSteps, Saved, Saving
<1> QED
  BY <1>1, <1>2, <1>3, <1>4, Zenon DEF L!Download

\* After the end only the steps are left.
LEMMA StepsKeptAfterEnd ==
    ASSUME SourceInv, mosEnded, L!processSegment \/ L!RemoveOldestSource \/ L!InsertSource
    PROVE  SourceInv'
<1>1. SourceSteps /\ Source \in L!Renditions
  BY SourcePlace, Zenon DEF SourceInv
<1>2. mosEnded' /\ dCache' = dCache
  BY Zenon DEF L!processSegment, L!RemoveOldestSource, L!InsertSource
<1>3. DOMAIN mediaLists' = L!Renditions /\ listSeqNo' \in [L!Renditions -> Nat]
  <2>1. CASE L!processSegment
    BY <1>1, <2>1, Zenon DEF L!processSegment, L!listVars, SourceSteps
  <2>2. CASE L!RemoveOldestSource
    BY <1>1, <2>2 DEF L!RemoveOldestSource, L!removeIfFull, SourceSteps
  <2>3. CASE L!InsertSource
    BY <1>1, <2>3, Zenon DEF L!InsertSource, L!AppendSegment, SourceSteps
  <2> QED
    BY <2>1, <2>2, <2>3, Zenon
<1>4. SourceSteps'
  BY <1>1, <1>2, <1>3, StepsKept, Zenon DEF SourceSteps
<1> QED
  BY <1>2, <1>4, Zenon DEF SourceInv

\* A saved segment: it is in the cache and nothing that is listed has been dropped.
LEMMA SourceSavedKept ==
    ASSUME SourceInv, ~mosEnded, L!processSegment
    PROVE  SourceInv'
<1>0. SourceSteps
  BY Zenon DEF SourceInv
<1>1. /\ WinSize \in Nat \ {0} /\ CacheLen \in Nat \ {0} /\ WinSize < CacheLen
      /\ Source \in L!Renditions
  BY <1>0, SourcePlace, Zenon
<1>2. /\ nextSeq < Count /\ nextSeq' = nextSeq /\ ~mosEnded' /\ UNCHANGED <<mediaLists, listSeqNo>>
      /\ spc[nextSeq] = "none" /\ spc' = [spc EXCEPT ![nextSeq] = "remove"]
      /\ dCache' = [dCache EXCEPT ![Source] = L!Insert(@, nextSeq)]
  BY Zenon DEF L!processSegment, L!SaveData, L!listVars
<1>3. spc'[nextSeq] = "remove"
  BY <1>0, <1>2, StepsKept, Zenon DEF SourceSteps
<1>4. Saved = nextSeq /\ Saved' = nextSeq + 1
  BY <1>2, <1>3 DEF Saved, Saving
<1>5. PICK n \in Nat : n = nextSeq
  BY <1>0, Zenon DEF SourceSteps
<1>6. PICK q \in Seq(Nat), c \in Seq(Nat), no \in Nat :
         /\ q = mediaLists[Source] /\ c = dCache[Source] /\ no = listSeqNo[Source]
         /\ Len(q) \in Nat /\ Len(c) \in Nat
         /\ Trails(q, n) /\ Len(q) <= WinSize /\ Trails(c, n) /\ Len(c) <= CacheLen
         /\ Len(q) + n <= Len(c) + n
         /\ q # <<>> => no + Len(q) = n
  BY <1>4, <1>5, SourceParts, Zenon
<1>7. /\ Shift(c, CacheLen, n) \in Seq(Nat) /\ Trails(Shift(c, CacheLen, n), n + 1)
      /\ Len(Shift(c, CacheLen, n)) = IF Len(c) = CacheLen THEN CacheLen ELSE Len(c) + 1
      /\ \A i \in 1 .. Len(c) : c[i] # n
  <2>1. Trails(c, n) /\ Len(c) <= CacheLen /\ CacheLen \in Nat \ {0}
    BY <1>1, <1>6, Zenon
  <2> QED
    BY <2>1, TrailsShift
<1>8. L!Insert(c, n) = Shift(c, CacheLen, n)
  BY <1>7, Zenon DEF L!Insert, L!InCache, Shift
<1>9. dCache'[Source] = Shift(c, CacheLen, n) /\ DOMAIN dCache' = L!Renditions
  BY <1>0, <1>1, <1>2, <1>5, <1>6, <1>8, Zenon DEF SourceSteps
<1>10. PICK z \in Nat : z = Len(Shift(c, CacheLen, n)) /\ z <= CacheLen /\ Len(q) + (n + 1) <= z + n
  <2>1. PICK a \in Nat : a = Len(q)
    BY <1>6, Zenon
  <2>2. PICK b \in Nat : b = Len(c)
    BY <1>6, Zenon
  <2>3. a <= WinSize /\ b <= CacheLen /\ a + n <= b + n
    BY <1>6, <2>1, <2>2, Zenon
  <2>4. PICK z \in Nat : z = IF b = CacheLen THEN CacheLen ELSE b + 1
    BY <1>1
  <2>5. z <= CacheLen /\ a + (n + 1) <= z + n
    BY <1>1, <2>3, <2>4
  <2> QED
    BY <1>7, <2>1, <2>2, <2>4, <2>5, Zenon
<1>11. SourceSteps'
  BY <1>0, <1>2, <1>9, StepsKept, Zenon DEF SourceSteps
<1>12. spc'[nextSeq'] # "append"
  BY <1>2, <1>3, Zenon
<1> QED
  BY <1>2, <1>4, <1>5, <1>6, <1>7, <1>9, <1>10, <1>11, <1>12, Zenon DEF SourceInv

\* Room for the segment: the playlist loses its oldest, if it is full.
LEMMA SourceRoomKept ==
    ASSUME SourceInv, ~mosEnded, L!RemoveOldestSource
    PROVE  SourceInv'
<1>0. SourceSteps
  BY Zenon DEF SourceInv
<1>1. WinSize \in Nat \ {0} /\ Source \in L!Renditions
  BY <1>0, SourcePlace, Zenon
<1>2. /\ nextSeq' = nextSeq /\ ~mosEnded' /\ dCache' = dCache
      /\ spc[nextSeq] = "remove" /\ spc' = [spc EXCEPT ![nextSeq] = "append"]
      /\ \/ /\ Len(mediaLists[Source]) = WinSize
            /\ mediaLists' = [mediaLists EXCEPT ![Source] = Tail(@)]
            /\ listSeqNo' = [listSeqNo EXCEPT ![Source] = @ + 1]
         \/ Len(mediaLists[Source]) < WinSize /\ UNCHANGED <<mediaLists, listSeqNo>>
  BY SourceRemoved
<1>3. nextSeq < Count /\ spc'[nextSeq] = "append"
  BY <1>0, <1>2, StepsKept, Zenon DEF SourceSteps
<1>4. Saved = nextSeq + 1 /\ Saved' = nextSeq + 1
  BY <1>2, <1>3 DEF Saved, Saving
<1>5. PICK n \in Nat : n = nextSeq
  BY <1>0, Zenon DEF SourceSteps
<1>6. PICK q \in Seq(Nat), c \in Seq(Nat), no \in Nat :
         /\ q = mediaLists[Source] /\ c = dCache[Source] /\ no = listSeqNo[Source]
         /\ Len(q) \in Nat /\ Len(c) \in Nat
         /\ Trails(q, n) /\ Len(q) <= WinSize /\ Trails(c, n + 1) /\ Len(c) <= CacheLen
         /\ Len(q) + (n + 1) <= Len(c) + n
         /\ q # <<>> => no + Len(q) = n
  BY <1>4, <1>5, SourceParts, Zenon
<1>7. PICK r \in Seq(Nat), nr \in Nat :
         /\ r = mediaLists'[Source] /\ nr = listSeqNo'[Source]
         /\ DOMAIN mediaLists' = L!Renditions /\ listSeqNo' \in [L!Renditions -> Nat]
         /\ Trails(r, n) /\ Len(r) < WinSize /\ Len(r) <= WinSize
         /\ Len(r) + (n + 1) <= Len(c) + n
         /\ r # <<>> => nr + Len(r) = n
  <2>1. CASE Len(q) = WinSize
    <3>1. q # <<>>
      BY <1>1, <2>1
    <3>2. PICK r \in Seq(Nat) : r = Tail(q) /\ Len(r) = WinSize - 1 /\ Trails(r, n)
      <4>1. Trails(q, n)
        BY <1>6, Zenon
      <4> QED
        BY <2>1, <3>1, <4>1, TrailsTail
    <3>3. mediaLists' = [mediaLists EXCEPT ![Source] = r] /\ listSeqNo' = [listSeqNo EXCEPT ![Source] = no + 1]
      <4>1. ~(WinSize < WinSize)
        BY <1>1
      <4> QED
        BY <1>2, <1>6, <2>1, <3>2, <4>1, Zenon
    <3>4. PICK nr \in Nat : nr = no + 1
      OBVIOUS
    <3>5. /\ mediaLists'[Source] = r /\ listSeqNo'[Source] = nr
          /\ DOMAIN mediaLists' = L!Renditions /\ listSeqNo' \in [L!Renditions -> Nat]
      BY <1>0, <1>1, <3>3, <3>4, Zenon DEF SourceSteps
    <3>6. PICK w \in Nat : w = WinSize - 1
      BY <1>1
    <3>7. PICK b \in Nat : b = Len(c)
      BY <1>6, Zenon
    <3>8. no + WinSize = n /\ WinSize + (n + 1) <= b + n
      BY <1>6, <2>1, <3>1, <3>7, Zenon
    <3>9. w < WinSize /\ w <= WinSize /\ w + (n + 1) <= b + n /\ nr + w = n
      BY <1>1, <3>4, <3>6, <3>8
    <3> QED
      BY <3>2, <3>5, <3>6, <3>7, <3>9, Zenon
  <2>2. CASE Len(q) # WinSize
    <3>1. Len(q) < WinSize /\ UNCHANGED <<mediaLists, listSeqNo>>
      BY <1>2, <1>6, <2>2, Zenon
    <3> QED
      BY <1>0, <1>6, <3>1, Zenon DEF SourceSteps
  <2> QED
    BY <2>1, <2>2, Zenon
<1>8. SourceSteps'
  BY <1>0, <1>2, <1>7, StepsKept, Zenon DEF SourceSteps
<1> QED
  BY <1>2, <1>4, <1>5, <1>6, <1>7, <1>8, Zenon DEF SourceInv

\* A listed segment is the last of the playlist, and of the cache.
LEMMA SourceInsertKept ==
    ASSUME SourceInv, ~mosEnded, L!InsertSource
    PROVE  SourceInv'
<1>0. SourceSteps
  BY Zenon DEF SourceInv
<1>1. WinSize \in Nat \ {0} /\ Source \in L!Renditions /\ Count \in Nat
  BY <1>0, SourcePlace, Zenon
<1>2. /\ nextSeq < Count /\ spc[nextSeq] = "append" /\ nextSeq' = nextSeq + 1
      /\ ~mosEnded' /\ dCache' = dCache
      /\ mediaLists' = [mediaLists EXCEPT ![Source] = Append(@, nextSeq)]
      /\ listSeqNo' = IF mediaLists[Source] = <<>> THEN [listSeqNo EXCEPT ![Source] = nextSeq]
                      ELSE listSeqNo
  BY SourceAppended
<1>3. PICK n \in Nat : n = nextSeq
  BY <1>0, Zenon DEF SourceSteps
<1>4. n + 1 < Count => spc'[n + 1] = "none"
  <2>1. n + 1 < Count => n + 1 \in L!SeqNos /\ n + 1 > n /\ n + 1 # n
    BY <1>1 DEF L!SeqNos
  <2>2. \A s \in L!SeqNos : s > n /\ s # n => spc'[s] = "none"
    BY <1>0, <1>3, StepsKept, Zenon DEF SourceSteps
  <2> QED
    BY <2>1, <2>2, Zenon
<1>5. Saved = n + 1 /\ Saved' = n + 1
  BY <1>2, <1>3, <1>4 DEF Saved, Saving
<1>6. PICK q \in Seq(Nat), c \in Seq(Nat), no \in Nat :
         /\ q = mediaLists[Source] /\ c = dCache[Source] /\ no = listSeqNo[Source]
         /\ Len(q) \in Nat /\ Len(c) \in Nat
         /\ Trails(q, n) /\ Len(q) < WinSize /\ Trails(c, n + 1) /\ Len(c) <= CacheLen
         /\ Len(q) + (n + 1) <= Len(c) + n
         /\ q # <<>> => no + Len(q) = n
  BY <1>2, <1>3, <1>5, SourceParts, Zenon
<1>7. PICK r \in Seq(Nat) : r = Append(q, n) /\ Len(r) = Len(q) + 1 /\ Trails(r, n + 1)
  BY <1>6, TrailsAppend, Zenon
<1>8. /\ mediaLists'[Source] = r /\ DOMAIN mediaLists' = L!Renditions
      /\ listSeqNo' \in [L!Renditions -> Nat]
      /\ listSeqNo'[Source] = IF q = <<>> THEN n ELSE no
  BY <1>0, <1>1, <1>2, <1>3, <1>6, <1>7, Zenon DEF SourceSteps
<1>9. /\ Len(r) <= WinSize /\ Len(r) + (n + 1) <= Len(c) + (n + 1)
      /\ listSeqNo'[Source] + Len(r) = n + 1
  <2>1. PICK a \in Nat : a = Len(q)
    BY <1>6, Zenon
  <2>2. PICK b \in Nat : b = Len(c)
    BY <1>6, Zenon
  <2>3. q = <<>> <=> a = 0
    BY <2>1
  <2>4. PICK nr \in Nat : nr = listSeqNo'[Source] /\ nr = IF a = 0 THEN n ELSE no
    <3>1. (IF a = 0 THEN n ELSE no) \in Nat
      BY Zenon
    <3> QED
      BY <1>8, <2>3, <3>1, Zenon
  <2>5. a < WinSize /\ a + (n + 1) <= b + n /\ (a # 0 => no + a = n)
    BY <1>6, <2>1, <2>2, <2>3, Zenon
  <2>6. a + 1 <= WinSize /\ (a + 1) + (n + 1) <= b + (n + 1) /\ nr + (a + 1) = n + 1
    <3>1. nr + a = n
      BY <2>4, <2>5
    <3> QED
      BY <1>1, <2>5, <3>1
  <2> QED
    BY <1>7, <2>1, <2>2, <2>4, <2>6, Zenon
<1>10. SourceSteps'
  BY <1>0, <1>2, <1>8, StepsKept, Zenon DEF SourceSteps
<1>11. ~(nextSeq' < Count /\ spc'[nextSeq'] = "append")
  BY <1>2, <1>3, <1>4
<1> QED
  BY <1>2, <1>3, <1>5, <1>6, <1>7, <1>8, <1>9, <1>10, <1>11, Zenon DEF SourceInv

LEMMA SourceBegins == L!Init => SourceInv
<1> SUFFICES ASSUME L!Init PROVE SourceInv
  BY Zenon
<1>0. Source \in L!Renditions
  BY Zenon DEF L!Renditions
<1>1. SourceSteps
  BY DEF L!Init, SourceSteps
<1>2. Count \in Nat /\ WinSize \in Nat \ {0} /\ CacheLen \in Nat /\ (0 < Count => 0 \in L!SeqNos)
  BY SegmentsAssumption DEF L!PlaylistAssumption, L!SeqNos
<1>3. ~Saving /\ Saved = 0
  BY <1>2 DEF L!Init, Saving, Saved
<1>4. 0 < Count => spc[0] = "none"
  BY <1>2, Zenon DEF L!Init
<1>5. dCache[Source] = <<>> /\ mediaLists[Source] = <<>> /\ nextSeq = 0
  BY <1>0, Zenon DEF L!Init
<1> QED
  BY <1>1, <1>2, <1>3, <1>4, <1>5 DEF SourceInv, Trails

LEMMA SourceKept == SourceInv /\ [L!Next]_L!vars => SourceInv'
<1> SUFFICES ASSUME SourceInv, [L!Next]_L!vars PROVE SourceInv'
  BY Zenon
<1>1. CASE L!Cleanup
  BY <1>1, Zenon DEF L!Cleanup, L!listVars, SourceInv, SourceSteps
<1>2. ASSUME NEW s \in L!SeqNos, L!SubmitSegment(s) \/ L!AllDownloaded(s)
      PROVE  SourceInv'
  <2>1. UNCHANGED <<nextSeq, mosEnded, dCache, mediaLists, listSeqNo>>
    BY <1>2, Zenon DEF L!SubmitSegment, L!AllDownloaded, L!listVars
  <2>2. PICK p \in {"wait", "done"} : spc' = [spc EXCEPT ![s] = p]
    BY <1>2, Zenon DEF L!SubmitSegment, L!AllDownloaded
  <2>3. spc[s] \in {"submit", "wait"}
    BY <1>2, Zenon DEF L!SubmitSegment, L!AllDownloaded
  <2>4. s \in Nat /\ nextSeq \in Nat /\ ~(s >= nextSeq)
    BY <2>3 DEF SourceInv, SourceSteps, L!SeqNos
  <2>5. \A t \in L!SeqNos : t >= nextSeq => spc'[t] = spc[t]
    BY <2>2, <2>4, Zenon DEF SourceInv, SourceSteps
  <2>6. \A t \in L!SeqNos : t > nextSeq => t >= nextSeq
    BY <2>4 DEF L!SeqNos
  <2>7. SourceSteps'
    <3>1. DOMAIN spc' = L!SeqNos
      BY <2>2, Zenon DEF SourceInv, SourceSteps
    <3> QED
      BY <2>1, <2>5, <2>6, <3>1, Zenon DEF SourceInv, SourceSteps
  <2>8. nextSeq < Count => spc'[nextSeq] = spc[nextSeq]
    <3>1. nextSeq < Count => nextSeq \in L!SeqNos /\ nextSeq >= nextSeq
      BY <2>4, SourcePlace DEF SourceInv
    <3> QED
      BY <2>5, <3>1, Zenon
  <2>9. Saved' = Saved /\ (nextSeq' < Count /\ spc'[nextSeq'] = "append" => nextSeq < Count /\ spc[nextSeq] = "append")
    BY <2>1, <2>8, Zenon DEF Saved, Saving
  <2> QED
    BY <2>1, <2>7, <2>9, Zenon DEF SourceInv
<1>3. CASE UNCHANGED L!vars
  BY <1>3, Zenon DEF L!vars, L!listVars, SourceInv, SourceSteps, Saved, Saving
<1>4. CASE L!processSegment \/ L!RemoveOldestSource \/ L!InsertSource
  BY <1>4, StepsKeptAfterEnd, SourceSavedKept, SourceRoomKept, SourceInsertKept, Zenon
<1> QED
  BY <1>1, <1>2, <1>3, <1>4, OthersKeepSource, Zenon DEF L!Next

\* The window, read from what SourceInv says of cache and playlist
LEMMA SourceWindow == SourceInv => SourcePlayable
<1>0. Source \in L!Renditions
  BY Zenon DEF L!Renditions
<1> SUFFICES ASSUME SourceInv, ~mosEnded, mediaLists[Source] # <<>>
             PROVE  /\ mediaLists[Source] =
                           [i \in 1 .. Len(mediaLists[Source]) |-> listSeqNo[Source] + i - 1]
                    /\ mediaLists[Source][Len(mediaLists[Source])] = nextSeq - 1
                    /\ \A i \in 1 .. Len(mediaLists[Source]) :
                          \E j \in 1 .. Len(dCache[Source]) :
                              dCache[Source][j] = mediaLists[Source][i]
  BY Zenon DEF SourcePlayable, L!SourcePlayable, L!getHLSMediaPlaylist, L!GetData, L!InCache
<1>0a. SourceSteps
  BY Zenon DEF SourceInv
<1>1. PICK q \in Seq(Nat), c \in Seq(Nat), no \in Nat :
         /\ q = mediaLists[Source] /\ c = dCache[Source] /\ no = listSeqNo[Source]
         /\ Len(q) \in Nat /\ Trails(q, nextSeq) /\ Trails(c, Saved)
         /\ Len(q) + Saved <= Len(c) + nextSeq
         /\ q # <<>> => no + Len(q) = nextSeq
  BY SourceParts, Zenon
<1>2. /\ Trails(q, nextSeq) /\ nextSeq \in Nat /\ listSeqNo[Source] \in Nat
      /\ listSeqNo[Source] + Len(q) = nextSeq /\ Len(q) \in Nat /\ Len(q) # 0
  <2>1. Len(q) # 0
    BY <1>1
  <2> QED
    BY <1>0a, <1>1, <2>1, SourcePlace, Zenon
<1>3. \A i \in 1 .. Len(q) : q[i] = listSeqNo[Source] + i - 1
  <2> TAKE i \in 1 .. Len(q)
  <2>1. q[i] \in Nat /\ q[i] + Len(q) + 1 = nextSeq + i
    BY <1>2 DEF Trails
  <2>2. PICK x \in Nat : x = q[i]
    BY <2>1, Zenon
  <2>3. PICK a \in Nat : a = Len(q)
    BY <1>2, Zenon
  <2>4. PICK f \in Nat : f = listSeqNo[Source]
    BY <1>2, Zenon
  <2>5. x + a + 1 = (f + a) + i
    BY <1>2, <2>1, <2>2, <2>3, <2>4, Zenon
  <2>6. x = f + i - 1
    <3>1. i \in Nat
      BY <1>2
    <3> QED
      BY <2>5, <3>1, Offset, ZenonT(60)
  <2> QED
    BY <2>2, <2>4, <2>6, Zenon
<1>4. q = [i \in 1 .. Len(q) |-> listSeqNo[Source] + i - 1]
  <2>1. q = [i \in 1 .. Len(q) |-> q[i]]
    OBVIOUS
  <2> QED
    BY <1>3, <2>1, Zenon
<1>5. q[Len(q)] = nextSeq - 1
  BY <1>2, <1>3, SMTT(30)
<1>6. \A i \in 1 .. Len(q) : \E j \in 1 .. Len(dCache[Source]) : dCache[Source][j] = q[i]
  BY <1>0a, <1>1, <1>2, SourcePlace, TrailsHeld, Zenon
<1> QED
  BY <1>1, <1>4, <1>5, <1>6, Zenon

\* server/broadcast.go, playlistmanager.go, drivers/local.go: what getHLSMediaPlaylistHandler
\* serves of the source are consecutive segments up to the last one listed, and
\* getHLSSegmentHandler has them all, however the playlists of renditions are changed.
THEOREM SourceAlwaysPlayable == L!Spec => []SourcePlayable
BY SourceBegins, SourceKept, SourceWindow, PTL DEF L!Spec

-----------------------------------------------------------------------------
(* Playlist implements LiveStream *)

\* What a viewer is served of the source can be fetched, and is numbered from SeqNo on.
WindowWhole ==
    /\ L!Fetchable = {L!Served[i] : i \in 1 .. Len(L!Served)}
    /\ L!Served # <<>> => L!ServedSeqNo = L!Served[1]

LEMMA SourceWhole == SourceInv => WindowWhole
<1> SUFFICES ASSUME SourceInv PROVE WindowWhole
  BY Zenon
<1>1. CASE mosEnded
  <2>1. L!Served = <<>>
    BY <1>1, Zenon DEF L!Served, L!getHLSMediaPlaylist
  <2> QED
    BY <2>1 DEF WindowWhole, L!Fetchable
<1>2. CASE ~mosEnded
  <2>1. L!Served = mediaLists[Source] /\ L!ServedSeqNo = listSeqNo[Source]
    BY <1>2, Zenon DEF L!Served, L!getHLSMediaPlaylist, L!ServedSeqNo
  <2>2. PICK q \in Seq(Nat) : q = mediaLists[Source]
    BY <1>2, Zenon DEF SourceInv
  <2>3. q # <<>> => /\ q = [i \in 1 .. Len(q) |-> listSeqNo[Source] + i - 1]
                    /\ \A i \in 1 .. Len(q) : L!GetData(Source, q[i])
    BY <1>2, <2>2, SourceWindow, Zenon DEF SourcePlayable, L!SourcePlayable, L!getHLSMediaPlaylist
  <2>4. \A i \in 1 .. Len(q) : L!GetData(Source, q[i])
    <3>1. q = <<>> => Len(q) = 0
      OBVIOUS
    <3> QED
      BY <2>3, <3>1
  <2>5. L!Fetchable = {q[i] : i \in 1 .. Len(q)}
    BY <2>1, <2>2, <2>4, Zenon DEF L!Fetchable
  <2>6. q # <<>> => q[1] = listSeqNo[Source]
    <3>1. listSeqNo[Source] \in Nat
      BY Zenon DEF SourceInv, SourceSteps, L!Renditions
    <3>2. q # <<>> => 1 \in 1 .. Len(q)
      OBVIOUS
    <3>3. 1 \in 1 .. Len(q) => [i \in 1 .. Len(q) |-> listSeqNo[Source] + i - 1][1] = listSeqNo[Source] + 1 - 1
      BY Zenon
    <3> QED
      BY <2>3, <3>1, <3>2, <3>3
  <2> QED
    BY <2>1, <2>2, <2>5, <2>6, Zenon DEF WindowWhole
<1> QED
  BY <1>1, <1>2, Zenon

\* After the end nothing is served, whatever the segmenter still does.
LEMMA NothingServed ==
    ASSUME mosEnded, UNCHANGED mosEnded
    PROVE  UNCHANGED <<L!Served, L!ServedSeqNo, L!Fetchable>>
<1>1. L!Served = <<>> /\ L!Served' = <<>> /\ L!ServedSeqNo = 0 /\ L!ServedSeqNo' = 0
  BY Zenon DEF L!Served, L!getHLSMediaPlaylist, L!ServedSeqNo
<1>2. L!Fetchable = {} /\ L!Fetchable' = {}
  BY <1>1 DEF L!Fetchable
<1> QED
  BY <1>1, <1>2, Zenon

\* The segmenter's callback shows the next segment, or drops it after the end.
LEMMA LiveShows ==
    ASSUME SourceInv, WindowWhole', L!InsertSource
    PROVE  V!Show \/ V!Drop
<1>1. nextSeq' = nextSeq + 1 /\ UNCHANGED mosEnded
  BY Zenon DEF L!InsertSource
<1>2. CASE mosEnded
  BY <1>1, <1>2, NothingServed, Zenon DEF V!Drop
<1>3. CASE ~mosEnded
  <2>1. L!Served = mediaLists[Source] /\ L!Served' = mediaLists'[Source]
    BY <1>1, <1>3, Zenon DEF L!Served, L!getHLSMediaPlaylist
  <2>2. /\ Len(mediaLists[Source]) < WinSize
        /\ mediaLists' = [mediaLists EXCEPT ![Source] = Append(@, nextSeq)]
    BY <1>3, SourceAppended, Zenon
  <2>3. L!Served' = Append(L!Served, nextSeq)
    BY <2>1, <2>2, Zenon DEF SourceInv, SourceSteps, L!Renditions
  <2>4. PICK q \in Seq(Nat), n \in Nat : q = L!Served /\ n = nextSeq
    BY <1>3, <2>1, Zenon DEF SourceInv, SourceSteps
  <2>5. Append(q, n) # <<>>
    BY SMTT(30)
  <2> QED
    BY <1>1, <1>3, <2>1, <2>2, <2>3, <2>4, <2>5, Zenon DEF V!Show, V!Segments, WindowWhole
<1> QED
  BY <1>2, <1>3, Zenon

\* A full playlist makes room, and is served one short.
LEMMA LiveMakesRoom ==
    ASSUME SourceInv, WindowWhole, WindowWhole', L!RemoveOldestSource
    PROVE  V!MakeRoom \/ UNCHANGED V!vars
<1>1. UNCHANGED <<nextSeq, mosEnded>>
  BY Zenon DEF L!RemoveOldestSource
<1>2. CASE mosEnded
  BY <1>1, <1>2, NothingServed, Zenon DEF V!vars
<1>3. CASE ~mosEnded
  <2>1. /\ L!Served = mediaLists[Source] /\ L!Served' = mediaLists'[Source]
        /\ L!ServedSeqNo = listSeqNo[Source] /\ L!ServedSeqNo' = listSeqNo'[Source]
    BY <1>1, <1>3, Zenon DEF L!Served, L!getHLSMediaPlaylist, L!ServedSeqNo
  <2>2. \/ /\ Len(mediaLists[Source]) = WinSize
           /\ mediaLists' = [mediaLists EXCEPT ![Source] = Tail(@)]
           /\ listSeqNo' = [listSeqNo EXCEPT ![Source] = @ + 1]
        \/ UNCHANGED <<mediaLists, listSeqNo>>
    BY <1>3, SourceRemoved, Zenon
  <2>3. DOMAIN mediaLists = L!Renditions /\ DOMAIN listSeqNo = L!Renditions /\ Source \in L!Renditions
    BY Zenon DEF SourceInv, SourceSteps, L!Renditions
  <2>4. CASE UNCHANGED <<mediaLists, listSeqNo>>
    <3>1. UNCHANGED <<L!Served, L!ServedSeqNo>>
      BY <2>1, <2>4, Zenon
    <3>2. UNCHANGED L!Fetchable
      BY <3>1, Zenon DEF WindowWhole
    <3> QED
      BY <1>1, <3>1, <3>2, Zenon DEF V!vars
  <2>5. CASE /\ Len(mediaLists[Source]) = WinSize
             /\ mediaLists' = [mediaLists EXCEPT ![Source] = Tail(@)]
             /\ listSeqNo' = [listSeqNo EXCEPT ![Source] = @ + 1]
    <3>1. L!Served' = Tail(L!Served) /\ L!ServedSeqNo' = L!ServedSeqNo + 1
      BY <2>1, <2>3, <2>5, Zenon
    <3>2. L!Fetchable' = V!Segments(L!Served')
      BY Zenon DEF WindowWhole, V!Segments
    <3> QED
      BY <1>1, <1>3, <2>1, <2>5, <3>1, <3>2, Zenon DEF V!MakeRoom, V!Segments
  <2> QED
    BY <2>2, <2>4, <2>5, Zenon
<1> QED
  BY <1>2, <1>3, Zenon

\* Renditions, and what the goroutines of a segment do, are not seen in the source.
LEMMA LiveStutters ==
    ASSUME WindowWhole, WindowWhole', UNCHANGED <<nextSeq, mosEnded>>,
           mediaLists'[Source] = mediaLists[Source], listSeqNo'[Source] = listSeqNo[Source]
    PROVE  UNCHANGED V!vars
<1>1. L!Served' = L!Served /\ L!ServedSeqNo' = L!ServedSeqNo
  BY Zenon DEF L!Served, L!getHLSMediaPlaylist, L!ServedSeqNo
<1>2. L!Fetchable' = L!Fetchable
  BY <1>1, Zenon DEF WindowWhole
<1> QED
  BY <1>1, <1>2, Zenon DEF V!vars

\* The lists of a rendition are not the source's.
LEMMA DownloadsLeaveSource ==
    ASSUME SourceInv, NEW s \in L!SeqNos, NEW p \in Profiles,
           L!Download(s, p) \/ L!GetSegmentDataHangs(s, p)
    PROVE  /\ UNCHANGED <<nextSeq, mosEnded>>
           /\ mediaLists'[Source] = mediaLists[Source] /\ listSeqNo'[Source] = listSeqNo[Source]
<1>0. Source # p /\ Source \in L!Renditions /\ DOMAIN mediaLists = L!Renditions /\ DOMAIN listSeqNo = L!Renditions
  BY SegmentsAssumption, Zenon DEF L!PlaylistAssumption, L!Renditions, SourceInv, SourceSteps
<1>1. CASE L!GetSegmentDataFails(s, p) \/ L!GetSegmentDataHangs(s, p)
  BY <1>1, Zenon DEF L!GetSegmentDataFails, L!GetSegmentDataHangs, L!listVars
<1>2. CASE L!dlFunc(s, p)
  BY <1>2, Zenon DEF L!dlFunc, L!listVars
<1>3. CASE L!RemoveOldest(s, p)
  BY <1>0, <1>3, Zenon DEF L!RemoveOldest, L!removeIfFull
<1>4. CASE L!InsertHLSSegment(s, p)
  BY <1>0, <1>4, Zenon DEF L!InsertHLSSegment, L!AppendSegment
<1> QED
  BY <1>1, <1>2, <1>3, <1>4, Zenon DEF L!Download

LEMMA LiveStep ==
    ASSUME SourceInv, WindowWhole, WindowWhole', [L!Next]_L!vars
    PROVE  [V!Next]_V!vars
<1>1. CASE L!RemoveOldestSource \/ L!InsertSource
  BY <1>1, LiveShows, LiveMakesRoom, Zenon DEF V!Next
<1>6. CASE L!processSegment
  <2>1. CASE mosEnded
    <3>1. nextSeq' = nextSeq + 1 /\ UNCHANGED mosEnded
      BY <1>6, <2>1, Zenon DEF L!processSegment
    <3> QED
      BY <2>1, <3>1, NothingServed, Zenon DEF V!Drop, V!Next
  <2>2. CASE ~mosEnded
    <3>1. UNCHANGED <<nextSeq, mosEnded, mediaLists, listSeqNo>>
      BY <1>6, <2>2, Zenon DEF L!processSegment, L!listVars
    <3> QED
      BY <3>1, LiveStutters, Zenon
  <2> QED
    BY <2>1, <2>2, Zenon
<1>2. CASE L!Cleanup
  <2>1. ~mosEnded /\ mosEnded' = TRUE /\ nextSeq' = nextSeq
    BY <1>2, Zenon DEF L!Cleanup
  <2>2. L!Served' = <<>> /\ L!ServedSeqNo' = 0
    BY <2>1, Zenon DEF L!Served, L!getHLSMediaPlaylist, L!ServedSeqNo
  <2>3. L!Fetchable' = {}
    BY <2>2 DEF L!Fetchable
  <2> QED
    BY <2>1, <2>2, <2>3, Zenon DEF V!Next, V!End
<1>3. ASSUME NEW s \in L!SeqNos, L!SubmitSegment(s) \/ L!AllDownloaded(s) PROVE UNCHANGED V!vars
  <2>1. UNCHANGED <<nextSeq, mosEnded, mediaLists, listSeqNo>>
    BY <1>3, Zenon DEF L!SubmitSegment, L!AllDownloaded, L!listVars
  <2> QED
    BY <2>1, LiveStutters, Zenon
<1>4. ASSUME NEW s \in L!SeqNos, NEW p \in Profiles,
             L!Download(s, p) \/ L!GetSegmentDataHangs(s, p)
      PROVE  UNCHANGED V!vars
  BY <1>4, DownloadsLeaveSource, LiveStutters, Zenon
<1>5. CASE UNCHANGED L!vars
  <2>1. UNCHANGED <<nextSeq, mosEnded, mediaLists, listSeqNo>>
    BY <1>5, Zenon DEF L!vars, L!listVars
  <2> QED
    BY <2>1, LiveStutters, Zenon
<1> QED
  BY <1>1, <1>2, <1>3, <1>4, <1>5, <1>6, Zenon DEF L!Next

\* server/broadcast.go, playlistmanager.go, drivers/local.go: seen by a viewer, processSegment,
\* the playlists, the cache and endRTMPStream are a live stream: the window grows by the next
\* segment, gives up its oldest only when it is full, and has nothing missing until the end;
\* for every length of the window and every longer cache, and whatever becomes of the
\* renditions meanwhile.
THEOREM LiveStreamImplemented == L!Spec => ImplementsLiveStream
<1>1. L!Init => V!Init
  <2> SUFFICES ASSUME L!Init PROVE V!Init
    BY Zenon
  <2>1. L!Served = <<>> /\ L!ServedSeqNo = 0
    BY Zenon DEF L!Init, L!Served, L!getHLSMediaPlaylist, L!ServedSeqNo, L!Renditions
  <2>2. L!Fetchable = {}
    BY <2>1 DEF L!Fetchable
  <2> QED
    BY <2>1, <2>2, Zenon DEF L!Init, V!Init
<1>2. SourceInv /\ WindowWhole /\ WindowWhole' /\ [L!Next]_L!vars => [V!Next]_V!vars
  BY LiveStep, Zenon
<1> QED
  BY <1>1, <1>2, SourceBegins, SourceKept, SourceWhole, PTL DEF L!Spec, V!Spec, ImplementsLiveStream

-----------------------------------------------------------------------------
(* Storage *)

Opened == [node : S!Nodes, expires : Nat, open : BOOLEAN]
Session == Opened \union {S!NoSession}
Entry == [seg : Nat, node : {"b"}]

\* With an orchestrator: a session of the broadcaster's own, and one of the orchestrator's
\* bucket if it has one
WithOrchestrator ==
    /\ osSess \in [bos : Opened, ios : Session] /\ osSess.bos.node = "b"
    /\ osSess.ios # S!NoSession => osSess.ios.node = "o" /\ S!IsExternal("o")

StoreTypes ==
    /\ kind \in [S!Nodes -> Kinds] /\ time \in Nat
    /\ own \in Opened /\ own.node = "b"
    /\ loop \in Session /\ os \in [1 .. Stored -> Session]
    /\ DOMAIN bucket = S!Nodes /\ kept \in [S!Nodes -> [S!What -> Seq(Nat)]]
    /\ list \in [S!What -> Seq(Entry)]
    /\ DOMAIN storing = 1 .. Stored /\ DOMAIN url = 1 .. Stored
    /\ osSess = <<>> \/ WithOrchestrator
    /\ \A x \in 1 .. Stored : storing[x] \notin {"new", "saved", "done"} => WithOrchestrator

\* What is kept is known by a URL of the broadcaster; what a bucket answered for is there.
BucketInv ==
    /\ \A x \in 1 .. Stored : storing[x] = "kept" => url[x] = "b"
    /\ S!IsExternal("b") =>
        /\ \A x \in 1 .. Stored :
              storing[x] = "kept" \/ (storing[x] = "answered" /\ url[x] = "b")
                  => <<"result", x>> \in bucket["b"]
        /\ \A w \in S!What : \A i \in 1 .. Len(list[w]) : <<w, list[w][i].seg>> \in bucket["b"]

\* Segments up to n have been stored: the cache and the playlist are both windows that end
\* with n, and the playlist is the shorter one.
SegNos(q) == [i \in 1 .. Len(q) |-> q[i].seg]
StoredUpTo(n) ==
    /\ \A x \in 1 .. Stored : storing[x] = "new" <=> x > n
    /\ Trails(kept["b"]["source"], n + 1) /\ Len(kept["b"]["source"]) <= SessionCache
    /\ Trails(SegNos(list["source"]), n + 1) /\ Len(list["source"]) <= ListLen
    /\ Len(list["source"]) <= Len(kept["b"]["source"])
MemoryInv == own.open /\ ~S!IsExternal("b") => \E n \in Nat : StoredUpTo(n)

StorageInv == StoreTypes /\ BucketInv /\ MemoryInv

LEMMA NewSessionOpened ==
    ASSUME kind \in [S!Nodes -> Kinds], NEW n \in S!Nodes, NEW t \in Nat
    PROVE  S!NewSession(n, t) \in Opened /\ S!NewSession(n, t).node = n
<1>1. Kinds \subseteq {"memory", "s3", "google"} /\ PolicyLife \in Nat /\ MaxTime \in Nat
  BY SegmentsAssumption, Zenon DEF S!StorageAssumption
<1>2. kind[n] = "memory" \/ kind[n] = "s3" \/ kind[n] = "google"
  BY <1>1, Zenon
<1>3. \E e \in Nat : S!NewSession(n, t) = [node |-> n, expires |-> e, open |-> TRUE]
  <2>1. CASE kind[n] = "memory"
    <3>1. S!NewSession(n, t) = [node |-> n, expires |-> MaxTime + 1, open |-> TRUE]
      BY <2>1, Zenon DEF S!NewSession, S!memoryNewSession
    <3>2. MaxTime + 1 \in Nat
      BY <1>1
    <3> QED
      BY <3>1, <3>2, Zenon
  <2>2. CASE kind[n] = "s3" \/ kind[n] = "google"
    <3>1. S!NewSession(n, t) = [node |-> n, expires |-> t + PolicyLife, open |-> TRUE]
      BY <2>2, Zenon
         DEF S!NewSession, S!s3NewSession, S!gsNewSession, S!createPolicy, S!gsCreatePolicy
    <3>2. t + PolicyLife \in Nat
      BY <1>1
    <3> QED
      BY <3>1, <3>2, Zenon
  <2> QED
    BY <1>2, <2>1, <2>2, Zenon
<1> QED
  BY <1>3 DEF Opened

\* What a node makes of the other's info is a session of the other's bucket, or none.
LEMMA SessionOfInfo ==
    ASSUME NEW s \in Session
    PROVE  /\ S!SessionOf(S!GetInfo(s)) \in Session
           /\ S!SessionOf(S!GetInfo(s)) # S!NoSession
                => S!SessionOf(S!GetInfo(s)) = s /\ S!IsExternal(s.node)
BY Zenon DEF S!SessionOf, S!GetInfo, S!newS3Session, S!newGSSession, Session

\* A bucket never loses anything; only a session of the broadcaster's memory adds to it.
LEMMA SaveDataEffect ==
    ASSUME StoreTypes, NEW s \in Session, NEW w \in S!What, NEW x \in Nat, S!SaveData(s, w, x)
    PROVE  /\ s \in Opened /\ DOMAIN bucket' = S!Nodes /\ bucket["b"] \subseteq bucket'["b"]
           /\ kept' \in [S!Nodes -> [S!What -> Seq(Nat)]]
           /\ S!IsExternal(s.node) => <<w, x>> \in bucket'[s.node]
           /\ kept'["b"]["source"] = IF s.node = "b" /\ w = "source" /\ ~S!IsExternal("b")
                                       THEN S!Insert(kept["b"]["source"], x)
                                       ELSE kept["b"]["source"]
<1>1. s \in Opened /\ s.node \in S!Nodes /\ "b" \in S!Nodes /\ "source" \in S!What
  BY DEF S!SaveData, Session, Opened, S!NoSession, S!Nodes, S!What
<1>2. CASE S!IsExternal(s.node) /\ S!postData(s, w, x) /\ UNCHANGED kept
  BY <1>1, <1>2, Zenon DEF S!postData, StoreTypes
<1>3. CASE /\ ~S!IsExternal(s.node) /\ UNCHANGED bucket
           /\ kept' = [kept EXCEPT ![s.node][w] = S!Insert(@, x)]
  <2>1. kept[s.node][w] \in Seq(Nat)
    BY <1>1, Zenon DEF StoreTypes
  <2>2. S!Insert(kept[s.node][w], x) \in Seq(Nat)
    <3>1. PICK q \in Seq(Nat) : q = kept[s.node][w]
      BY <2>1, Zenon
    <3>2. SessionCache \in Nat \ {0}
      BY SegmentsAssumption DEF S!StorageAssumption
    <3>3. Len(q) >= SessionCache => Tail(q) \in Seq(Nat)
      BY <3>2
    <3>4. S!Insert(q, x) \in Seq(Nat)
      BY <3>3 DEF S!Insert
    <3> QED
      BY <3>1, <3>4, Zenon
  <2> QED
    BY <1>1, <1>3, <2>2, Zenon DEF StoreTypes
<1> QED
  BY <1>1, <1>2, <1>3, Zenon DEF S!SaveData

LEMMA SaveFailsEffect ==
    ASSUME StoreTypes, NEW s \in Session, NEW w \in S!What, NEW x \in Nat, S!SaveFails(s, w, x)
    PROVE  /\ DOMAIN bucket' = S!Nodes /\ bucket["b"] \subseteq bucket'["b"] /\ UNCHANGED kept
BY Zenon DEF S!SaveFails, S!postData, StoreTypes, S!Nodes

LEMMA InsertTyped ==
    ASSUME list \in [S!What -> Seq(Entry)], NEW w \in S!What, NEW x \in Nat,
           S!InsertHLSSegment(w, x, "b")
    PROVE  /\ list' \in [S!What -> Seq(Entry)]
           /\ \A v \in S!What : v # w => list'[v] = list[v]
           /\ list'[w] = Shift(list[w], ListLen, [seg |-> x, node |-> "b"])
           /\ \A i \in 1 .. Len(list'[w]) : list'[w][i].seg = x
                  \/ \E j \in 1 .. Len(list[w]) : list'[w][i].seg = list[w][j].seg
<1>1. PICK q \in Seq(Entry) : q = list[w]
  BY Zenon
<1>2. PICK e \in Entry : e = [seg |-> x, node |-> "b"]
  BY Zenon DEF Entry
<1>3. ListLen \in Nat \ {0}
  BY SegmentsAssumption, Zenon DEF S!StorageAssumption
<1>4. PICK r \in Seq(Entry) : r = (IF Len(q) >= ListLen THEN Tail(q) ELSE q)
  <2>1. Len(q) >= ListLen => Tail(q) \in Seq(Entry)
    BY <1>3
  <2> QED
    BY <2>1, Zenon
<1>5. Append(r, e) \in Seq(Entry) /\ Shift(q, ListLen, e) = Append(r, e)
  BY <1>4 DEF Shift
<1>6. list' = [list EXCEPT ![w] = Append(r, e)]
  BY <1>1, <1>2, <1>4, Zenon DEF S!InsertHLSSegment
<1>7. \A i \in 1 .. Len(r) : \E j \in 1 .. Len(q) : r[i] = q[j]
  <2>1. CASE Len(q) >= ListLen
    <3>1. r = Tail(q) /\ Len(r) = Len(q) - 1 /\ \A i \in 1 .. Len(r) : r[i] = q[i + 1]
      BY <1>3, <1>4, <2>1
    <3>2. \A i \in 1 .. Len(r) : i + 1 \in 1 .. Len(q)
      BY <3>1
    <3> QED
      BY <3>1, <3>2, Zenon
  <2>2. CASE ~(Len(q) >= ListLen)
    BY <1>4, <2>2, Zenon
  <2> QED
    BY <2>1, <2>2, Zenon
<1>8. \A i \in 1 .. Len(Append(r, e)) : Append(r, e)[i] = e \/ \E j \in 1 .. Len(q) : Append(r, e)[i] = q[j]
  <2> TAKE i \in 1 .. Len(Append(r, e))
  <2>1. Len(r) \in Nat /\ Len(Append(r, e)) = Len(r) + 1
    OBVIOUS
  <2>2. CASE i = Len(r) + 1
    BY <2>2
  <2>3. CASE i # Len(r) + 1
    <3>1. i \in 1 .. Len(r) /\ Append(r, e)[i] = r[i]
      BY <2>1, <2>3
    <3> QED
      BY <1>7, <3>1, Zenon
  <2> QED
    BY <2>2, <2>3, Zenon
<1>9. list'[w] = Append(r, e) /\ e.seg = x
  BY <1>2, <1>6, Zenon
<1>10. list' \in [S!What -> Seq(Entry)] /\ \A v \in S!What : v # w => list'[v] = list[v]
  BY <1>5, <1>6, Zenon
<1>11. list'[w] = Shift(list[w], ListLen, [seg |-> x, node |-> "b"])
  BY <1>1, <1>2, <1>5, <1>9, Zenon
<1>12. \A i \in 1 .. Len(list'[w]) : list'[w][i].seg = x
           \/ \E j \in 1 .. Len(list[w]) : list'[w][i].seg = list[w][j].seg
  BY <1>1, <1>8, <1>9, Zenon
<1> QED
  BY <1>10, <1>11, <1>12, Zenon

\* A step of a segment's way, with what it does to the sessions
LEMMA StoreMoves ==
    ASSUME StoreTypes, UNCHANGED <<kind, time, own, osSess>>, loop' \in Session,
           os' \in [1 .. Stored -> Session], DOMAIN bucket' = S!Nodes,
           kept' \in [S!Nodes -> [S!What -> Seq(Nat)]], list' \in [S!What -> Seq(Entry)],
           DOMAIN url' = 1 .. Stored, NEW x \in 1 .. Stored, NEW l,
           storing' = [storing EXCEPT ![x] = l],
           l \notin {"new", "saved", "done"} => WithOrchestrator
    PROVE  StoreTypes'
<1>1. WithOrchestrator' <=> WithOrchestrator
  BY Zenon DEF WithOrchestrator, S!IsExternal
<1> QED
  BY <1>1, Zenon DEF StoreTypes

LEMMA StoreSegment ==
    ASSUME StoreTypes, BucketInv, NEW x \in 1 .. Stored, S!Segment(x)
    PROVE  StoreTypes'
<1>0. /\ x \in Nat /\ own \in Session /\ {"source", "result"} \subseteq S!What
      /\ loop \in Session /\ os \in [1 .. Stored -> Session] /\ DOMAIN bucket = S!Nodes
      /\ kept \in [S!Nodes -> [S!What -> Seq(Nat)]] /\ list \in [S!What -> Seq(Entry)]
      /\ DOMAIN url = 1 .. Stored /\ own.node = "b"
  BY DEF StoreTypes, Session, S!What
<1>1. CASE S!SaveSource(x)
  <2>1. DOMAIN bucket' = S!Nodes /\ kept' \in [S!Nodes -> [S!What -> Seq(Nat)]]
    BY <1>0, <1>1, SaveDataEffect, Zenon DEF S!SaveSource
  <2>2. list' \in [S!What -> Seq(Entry)]
    BY <1>0, <1>1, InsertTyped, ZenonT(30) DEF S!SaveSource
  <2>3. DOMAIN url' = 1 .. Stored /\ storing' = [storing EXCEPT ![x] = "saved"]
    BY <1>0, <1>1, Zenon DEF S!SaveSource, S!At
  <2> QED
    BY <1>0, <1>1, <2>1, <2>2, <2>3, StoreMoves, Zenon DEF S!SaveSource
<1>2. CASE S!SaveSourceFails(x)
  BY <1>0, <1>2, SaveFailsEffect, StoreMoves, Zenon DEF S!SaveSourceFails, S!At
<1>3. CASE S!Upload(x)
  <2>1. WithOrchestrator /\ osSess.ios \in Session /\ osSess.bos \in Session
    BY <1>3, Zenon DEF S!Upload, StoreTypes, WithOrchestrator, Session
  <2>2. os' \in [1 .. Stored -> Session]
    <3>1. S!SessionOf(S!GetInfo(osSess.bos)) \in Session
      BY <2>1, SessionOfInfo, Zenon
    <3> QED
      BY <1>0, <1>3, <3>1, Zenon DEF S!Upload
  <2>3. DOMAIN bucket' = S!Nodes /\ kept' \in [S!Nodes -> [S!What -> Seq(Nat)]]
    BY <1>0, <1>3, <2>1, SaveDataEffect, SaveFailsEffect, Zenon DEF S!Upload
  <2>4. DOMAIN url' = 1 .. Stored /\ \E l \in {"ready", "done"} : storing' = [storing EXCEPT ![x] = l]
    BY <1>0, <1>3, Zenon DEF S!Upload, S!At
  <2> QED
    BY <1>0, <1>3, <2>1, <2>2, <2>3, <2>4, StoreMoves, Zenon DEF S!Upload
<1>4. CASE S!Serve(x)
  <2>1. storing[x] = "ready" /\ \E l \in {"sent", "done"} : storing' = [storing EXCEPT ![x] = l]
    BY <1>4, Zenon DEF S!Serve, S!At
  <2>2. WithOrchestrator
    BY <2>1, Zenon DEF StoreTypes
  <2> QED
    BY <1>0, <1>4, <2>1, <2>2, StoreMoves, Zenon DEF S!Serve
<1>5. CASE S!Transcode(x)
  <2>1. storing[x] = "sent" /\ \E l \in {"transcoded", "done"} : storing' = [storing EXCEPT ![x] = l]
    BY <1>5, Zenon DEF S!Transcode, S!At
  <2>2. WithOrchestrator
    BY <2>1, Zenon DEF StoreTypes
  <2>3. loop' \in Session
    <3>1. "o" \in S!Nodes
      BY Zenon DEF S!Nodes
    <3>2. S!NewSession("o", time) \in Opened
      BY <3>1, NewSessionOpened, Zenon DEF StoreTypes
    <3> QED
      BY <1>0, <1>5, <3>2, Zenon DEF S!Transcode, S!transcodeSegmentLoop, Session
  <2>4. os' \in [1 .. Stored -> Session]
    BY <1>0, <1>5, <2>3, Zenon DEF S!Transcode
  <2> QED
    BY <1>0, <1>5, <2>1, <2>2, <2>3, <2>4, StoreMoves, Zenon DEF S!Transcode
<1>6. CASE S!SaveResult(x)
  <2>1. storing[x] = "transcoded" /\ \E l \in {"answered", "done"} : storing' = [storing EXCEPT ![x] = l]
    BY <1>6, Zenon DEF S!SaveResult, S!At
  <2>2. WithOrchestrator /\ os[x] \in Session
    BY <1>0, <2>1, Zenon DEF StoreTypes
  <2>3. DOMAIN bucket' = S!Nodes /\ kept' \in [S!Nodes -> [S!What -> Seq(Nat)]]
    BY <1>0, <1>6, <2>2, SaveDataEffect, SaveFailsEffect, Zenon DEF S!SaveResult
  <2>4. DOMAIN url' = 1 .. Stored
    BY <1>0, <1>6, Zenon DEF S!SaveResult
  <2> QED
    BY <1>0, <1>6, <2>1, <2>2, <2>3, <2>4, StoreMoves, Zenon DEF S!SaveResult
<1>7. CASE S!Keep(x)
  <2>1. storing[x] = "answered" /\ \E l \in {"kept", "done"} : storing' = [storing EXCEPT ![x] = l]
    BY <1>7, Zenon DEF S!Keep, S!At
  <2>2. WithOrchestrator /\ osSess.bos \in Session
    BY <2>1, Zenon DEF StoreTypes, WithOrchestrator, Session
  <2>3. DOMAIN bucket' = S!Nodes /\ kept' \in [S!Nodes -> [S!What -> Seq(Nat)]]
    BY <1>0, <1>7, <2>2, SaveDataEffect, SaveFailsEffect, Zenon DEF S!Keep
  <2>4. DOMAIN url' = 1 .. Stored
    BY <1>0, <1>7, Zenon DEF S!Keep
  <2> QED
    BY <1>0, <1>7, <2>1, <2>2, <2>3, <2>4, StoreMoves, Zenon DEF S!Keep
<1>8. CASE S!List(x)
  <2>1. url[x] = "b" /\ storing' = [storing EXCEPT ![x] = "done"]
    BY <1>8, Zenon DEF S!List, S!At, BucketInv
  <2>2. list' \in [S!What -> Seq(Entry)]
    BY <1>0, <1>8, <2>1, InsertTyped, ZenonT(30) DEF S!List
  <2> QED
    BY <1>0, <1>8, <2>1, <2>2, StoreMoves, Zenon DEF S!List
<1> QED
  BY <1>1, <1>2, <1>3, <1>4, <1>5, <1>6, <1>7, <1>8, Zenon DEF S!Segment

LEMMA StoreOther ==
    ASSUME StoreTypes, S!selectOrchestrator \/ S!EndSession \/ S!LoopTimeout \/ S!Tick
    PROVE  StoreTypes'
<1>0. "b" \in S!Nodes /\ "o" \in S!Nodes
  BY Zenon DEF S!Nodes
<1>1. CASE S!selectOrchestrator
  <2>1. S!NewSession("b", time) \in Opened /\ S!NewSession("b", time).node = "b"
    BY <1>0, NewSessionOpened, Zenon DEF StoreTypes
  <2>2. S!NewSession("o", time) \in Session /\ S!NewSession("o", time).node = "o"
    BY <1>0, NewSessionOpened, Zenon DEF StoreTypes, Session
  <2>3. PICK bos \in Opened : bos.node = "b"
            /\ bos = IF S!IsExternal("b") THEN S!NewSession("b", time) ELSE own
    BY <2>1, Zenon DEF StoreTypes
  <2>4. PICK ios \in Session : /\ ios = S!SessionOf(S!GetInfo(S!NewSession("o", time)))
                               /\ ios # S!NoSession => ios.node = "o" /\ S!IsExternal("o")
    BY <2>2, SessionOfInfo, Zenon
  <2>5. osSess' = [bos |-> bos, ios |-> ios] /\ UNCHANGED kind
    BY <1>1, <2>3, <2>4, Zenon DEF S!selectOrchestrator
  <2>6. WithOrchestrator'
    BY <2>3, <2>4, <2>5, Zenon DEF WithOrchestrator, S!IsExternal
  <2> QED
    BY <1>1, <2>6, Zenon DEF S!selectOrchestrator, StoreTypes
<1>2. CASE S!EndSession
  <2>1. own' \in Opened /\ own'.node = "b"
    BY <1>2, Zenon DEF S!EndSession, StoreTypes, Opened
  <2>2. kept' \in [S!Nodes -> [S!What -> Seq(Nat)]]
    BY <1>0, <1>2 DEF S!EndSession, StoreTypes
  <2>3. ASSUME WithOrchestrator PROVE WithOrchestrator'
    <3>1. osSess # <<>>
      BY <2>3, SMTT(30) DEF WithOrchestrator
    <3>2. osSess.bos \in Opened /\ osSess.bos.node = "b" /\ osSess.ios \in Session
      BY <2>3, Zenon DEF WithOrchestrator
    <3>3. [osSess.bos EXCEPT !.open = FALSE] \in Opened
             /\ [osSess.bos EXCEPT !.open = FALSE].node = "b"
      BY <3>2, Zenon DEF Opened
    <3>4. osSess' = [osSess EXCEPT !.bos.open = FALSE] /\ UNCHANGED kind
      BY <1>2, <3>1, Zenon DEF S!EndSession
    <3>5. osSess' = [osSess EXCEPT !.bos = [osSess.bos EXCEPT !.open = FALSE]]
      BY <3>4, Zenon
    <3>6. /\ osSess' \in [bos : Opened, ios : Session]
          /\ osSess'.bos = [osSess.bos EXCEPT !.open = FALSE] /\ osSess'.ios = osSess.ios
      BY <2>3, <3>3, <3>5, Zenon DEF WithOrchestrator
    <3> QED
      BY <2>3, <3>3, <3>4, <3>6, Zenon DEF WithOrchestrator, S!IsExternal
  <2>4. osSess = <<>> => osSess' = <<>>
    BY <1>2, Zenon DEF S!EndSession
  <2> QED
    BY <1>2, <2>1, <2>2, <2>3, <2>4, Zenon DEF S!EndSession, StoreTypes
<1>3. CASE S!LoopTimeout
  <2>1. ASSUME NEW x \in 1 .. Stored, os[x] = loop
        PROVE  [os[x] EXCEPT !.open = FALSE] \in Session
    <3>1. os[x] \in Opened
      BY <1>3, <2>1, Zenon DEF S!LoopTimeout, StoreTypes, Session
    <3> QED
      BY <3>1, Zenon DEF Opened, Session
  <2>2. os' \in [1 .. Stored -> Session] /\ loop' \in Session
    BY <1>3, <2>1, Zenon DEF S!LoopTimeout, StoreTypes, Session
  <2>3. kept' \in [S!Nodes -> [S!What -> Seq(Nat)]]
    BY <1>0, <1>3 DEF S!LoopTimeout, StoreTypes
  <2>4. WithOrchestrator' <=> WithOrchestrator
    BY <1>3, Zenon DEF S!LoopTimeout, WithOrchestrator, S!IsExternal
  <2> QED
    BY <1>3, <2>2, <2>3, <2>4, Zenon DEF S!LoopTimeout, StoreTypes
<1>4. CASE S!Tick
  <2>1. WithOrchestrator' <=> WithOrchestrator
    BY <1>4, Zenon DEF S!Tick, WithOrchestrator, S!IsExternal
  <2>2. time' \in Nat
    BY <1>4 DEF S!Tick, StoreTypes
  <2> QED
    BY <1>4, <2>1, <2>2, Zenon DEF S!Tick, StoreTypes
<1> QED
  BY <1>1, <1>2, <1>3, <1>4, Zenon

\* What is in a bucket stays there: it is enough to look at the segment that moves.
LEMMA BucketMoves ==
    ASSUME BucketInv, NEW x \in 1 .. Stored, UNCHANGED kind, bucket["b"] \subseteq bucket'["b"],
           \A y \in 1 .. Stored : y # x => storing'[y] = storing[y] /\ url'[y] = url[y],
           storing'[x] = "kept" => url'[x] = "b",
           S!IsExternal("b") /\ (storing'[x] = "kept" \/ (storing'[x] = "answered" /\ url'[x] = "b"))
               => <<"result", x>> \in bucket'["b"],
           S!IsExternal("b") => \A w \in S!What : \A i \in 1 .. Len(list'[w]) :
               <<w, list'[w][i].seg>> \in bucket'["b"]
    PROVE  BucketInv'
<1>1. S!IsExternal("b")' <=> S!IsExternal("b")
  BY Zenon DEF S!IsExternal
<1> QED
  BY <1>1, SMTT(30) DEF BucketInv

\* The playlist has what it had, or the new segment, and that is in the bucket.
LEMMA ListedInBucket ==
    ASSUME StoreTypes, BucketInv, S!IsExternal("b"), bucket["b"] \subseteq bucket'["b"],
           NEW w \in S!What, NEW x \in Nat, S!InsertHLSSegment(w, x, "b"), <<w, x>> \in bucket'["b"]
    PROVE  \A v \in S!What : \A i \in 1 .. Len(list'[v]) : <<v, list'[v][i].seg>> \in bucket'["b"]
<1>1. /\ \A v \in S!What : v # w => list'[v] = list[v]
      /\ \A i \in 1 .. Len(list'[w]) : list'[w][i].seg = x
             \/ \E j \in 1 .. Len(list[w]) : list'[w][i].seg = list[w][j].seg
  BY InsertTyped, Zenon DEF StoreTypes
<1> QED
  BY <1>1, SMTT(30) DEF BucketInv

LEMMA BucketSegment ==
    ASSUME StoreTypes, BucketInv, NEW x \in 1 .. Stored, S!Segment(x)
    PROVE  BucketInv'
<1>0. /\ x \in Nat /\ own \in Session /\ own.node = "b" /\ {"source", "result"} \subseteq S!What
      /\ "b" \in S!Nodes /\ os[x] \in Session
      /\ DOMAIN url = 1 .. Stored /\ DOMAIN storing = 1 .. Stored
  <2>1. x \in Nat /\ {"source", "result"} \subseteq S!What /\ "b" \in S!Nodes
    BY DEF S!What, S!Nodes
  <2>2. own \in Session /\ own.node = "b" /\ os[x] \in Session
    BY ZenonT(30) DEF StoreTypes, Session
  <2>3. DOMAIN url = 1 .. Stored /\ DOMAIN storing = 1 .. Stored
    BY Zenon DEF StoreTypes
  <2> QED
    BY <2>1, <2>2, <2>3, Zenon
<1>k. UNCHANGED kind
  BY Zenon
     DEF S!Segment, S!SaveSource, S!SaveSourceFails, S!Upload, S!Serve, S!Transcode, S!SaveResult,
     S!Keep, S!List
<1>e. \A y \in 1 .. Stored : y # x => storing'[y] = storing[y] /\ url'[y] = url[y]
  BY ZenonT(30)
     DEF S!Segment, S!SaveSource, S!SaveSourceFails, S!Upload, S!Serve, S!Transcode, S!SaveResult,
     S!Keep, S!List, S!At, StoreTypes
<1>s. ASSUME UNCHANGED list, bucket["b"] \subseteq bucket'["b"], S!IsExternal("b")
      PROVE  \A w \in S!What : \A i \in 1 .. Len(list'[w]) : <<w, list'[w][i].seg>> \in bucket'["b"]
  BY <1>s, Zenon DEF BucketInv
<1>1. CASE S!SaveSource(x)
  <2>1. bucket["b"] \subseteq bucket'["b"] /\ (S!IsExternal("b") => <<"source", x>> \in bucket'["b"])
    BY <1>0, <1>1, SaveDataEffect, Zenon DEF S!SaveSource
  <2>2. S!InsertHLSSegment("source", x, "b")
    BY <1>0, <1>1, Zenon DEF S!SaveSource
  <2>3. S!IsExternal("b") => \A w \in S!What : \A i \in 1 .. Len(list'[w]) :
            <<w, list'[w][i].seg>> \in bucket'["b"]
    BY <1>0, <2>1, <2>2, ListedInBucket, ZenonT(30)
  <2>4. storing'[x] = "saved"
    BY <1>0, <1>1, Zenon DEF S!SaveSource, S!At
  <2> QED
    BY <1>k, <1>e, <2>1, <2>3, <2>4, BucketMoves, ZenonT(30)
<1>2. CASE S!SaveSourceFails(x)
  <2>1. bucket["b"] \subseteq bucket'["b"]
    BY <1>0, <1>2, SaveFailsEffect, Zenon DEF S!SaveSourceFails
  <2>2. storing'[x] = "done" /\ UNCHANGED list
    BY <1>0, <1>2, Zenon DEF S!SaveSourceFails, S!At
  <2> QED
    BY <1>k, <1>e, <1>s, <2>1, <2>2, BucketMoves, ZenonT(30)
<1>3. CASE S!Upload(x)
  <2>1. osSess.ios \in Session
    BY <1>3, Zenon DEF S!Upload, StoreTypes, WithOrchestrator
  <2>2. bucket["b"] \subseteq bucket'["b"]
    BY <1>0, <1>3, <2>1, SaveDataEffect, SaveFailsEffect, Zenon DEF S!Upload
  <2>3. UNCHANGED list /\ storing'[x] \in {"ready", "done"}
    BY <1>0, <1>3, Zenon DEF S!Upload, S!At
  <2> QED
    BY <1>k, <1>e, <1>s, <2>2, <2>3, BucketMoves, ZenonT(30)
<1>4. CASE S!Serve(x) \/ S!Transcode(x)
  <2>1. UNCHANGED <<list, bucket>>
    BY <1>4, Zenon DEF S!Serve, S!Transcode
  <2>2. storing'[x] \in {"sent", "transcoded", "done"}
    BY <1>0, <1>4, ZenonT(30) DEF S!Serve, S!Transcode, S!At
  <2> QED
    BY <1>k, <1>e, <1>s, <2>1, <2>2, BucketMoves, Zenon
<1>5. CASE S!SaveResult(x)
  <2>0. UNCHANGED list
    BY <1>5, Zenon DEF S!SaveResult
  <2>1. CASE /\ S!At(x, "transcoded", "answered") /\ S!SaveData(os[x], "result", x)
             /\ url' = [url EXCEPT ![x] = os[x].node]
    <3>1. /\ bucket["b"] \subseteq bucket'["b"]
          /\ S!IsExternal("b") /\ os[x].node = "b" => <<"result", x>> \in bucket'["b"]
      BY <1>0, <2>1, SaveDataEffect, Zenon
    <3> QED
      BY <1>k, <1>e, <1>s, <2>0, <2>1, <3>1, BucketMoves, <1>0, Zenon DEF S!At
  <2>2. CASE S!At(x, "transcoded", "done") /\ S!SaveFails(os[x], "result", x) /\ UNCHANGED url
    <3>1. bucket["b"] \subseteq bucket'["b"]
      BY <1>0, <2>2, SaveFailsEffect, Zenon
    <3> QED
      BY <1>k, <1>e, <1>s, <2>0, <2>2, <3>1, BucketMoves, <1>0, ZenonT(30) DEF S!At
  <2> QED
    BY <1>5, <2>1, <2>2, Zenon DEF S!SaveResult
<1>6. CASE S!Keep(x)
  <2>0. UNCHANGED list /\ storing[x] = "answered"
    BY <1>6, Zenon DEF S!Keep
  <2>a. osSess.bos \in Session /\ osSess.bos.node = "b"
    BY <2>0, ZenonT(30) DEF StoreTypes, WithOrchestrator, Session
  <2>1. CASE /\ S!IsOwnExternal(url[x]) /\ S!At(x, "answered", "kept")
             /\ UNCHANGED <<bucket, kept, url>>
    <3>1. url[x] = "b" /\ (S!IsExternal("b") => <<"result", x>> \in bucket["b"])
      BY <2>0, <2>1, Zenon DEF S!IsOwnExternal, BucketInv
    <3> QED
      BY <1>k, <1>e, <1>s, <2>0, <2>1, <3>1, BucketMoves, <1>0, Zenon DEF S!At
  <2>2. CASE /\ S!At(x, "answered", "kept") /\ S!SaveData(osSess.bos, "result", x)
             /\ url' = [url EXCEPT ![x] = "b"]
    <3>1. /\ bucket["b"] \subseteq bucket'["b"]
          /\ S!IsExternal("b") => <<"result", x>> \in bucket'["b"]
      BY <1>0, <2>2, <2>a, SaveDataEffect, Zenon
    <3> QED
      BY <1>k, <1>e, <1>s, <2>0, <2>2, <3>1, BucketMoves, <1>0, Zenon DEF S!At
  <2>3. CASE S!At(x, "answered", "done") /\ UNCHANGED <<bucket, kept, url>>
    BY <1>k, <1>e, <1>s, <2>0, <2>3, BucketMoves, <1>0, Zenon DEF S!At
  <2>4. CASE S!At(x, "answered", "done") /\ S!SaveFails(osSess.bos, "result", x) /\ UNCHANGED url
    <3>1. bucket["b"] \subseteq bucket'["b"]
      BY <1>0, <2>4, <2>a, SaveFailsEffect, Zenon
    <3> QED
      BY <1>k, <1>e, <1>s, <2>0, <2>4, <3>1, BucketMoves, <1>0, ZenonT(30) DEF S!At
  <2> QED
    BY <1>6, <2>1, <2>2, <2>3, <2>4, Zenon DEF S!Keep
<1>7. CASE S!List(x)
  <2>1. /\ storing'[x] = "done" /\ UNCHANGED bucket /\ url[x] = "b"
        /\ S!IsExternal("b") => <<"result", x>> \in bucket["b"]
    BY <1>0, <1>7, Zenon DEF S!List, S!At, BucketInv
  <2>2. S!InsertHLSSegment("result", x, "b")
    BY <1>7, <2>1, Zenon DEF S!List
  <2>3. S!IsExternal("b") => \A w \in S!What : \A i \in 1 .. Len(list'[w]) :
            <<w, list'[w][i].seg>> \in bucket'["b"]
    BY <1>0, <2>1, <2>2, ListedInBucket, ZenonT(30)
  <2> QED
    BY <1>k, <1>e, <2>1, <2>3, BucketMoves, Zenon
<1> QED
  BY <1>1, <1>2, <1>3, <1>4, <1>5, <1>6, <1>7, Zenon DEF S!Segment

LEMMA SegNosShift ==
    ASSUME NEW q \in Seq(Entry), NEW k \in Nat \ {0}, NEW x \in Nat
    PROVE  /\ SegNos(q) \in Seq(Nat) /\ Len(SegNos(q)) = Len(q)
           /\ SegNos(Shift(q, k, [seg |-> x, node |-> "b"])) = Shift(SegNos(q), k, x)
<1>0. PICK e \in Entry : e = [seg |-> x, node |-> "b"]
  BY Zenon DEF Entry
<1>a. e.seg = x
  BY <1>0, Zenon
<1>1. ASSUME NEW p \in Seq(Entry)
      PROVE  /\ SegNos(p) \in Seq(Nat) /\ Len(SegNos(p)) = Len(p)
             /\ \A i \in 1 .. Len(p) : SegNos(p)[i] = p[i].seg
  <2>1. \A i \in 1 .. Len(p) : p[i] \in Entry
    OBVIOUS
  <2>2. \A i \in 1 .. Len(p) : p[i].seg \in Nat
    BY <2>1, Zenon DEF Entry
  <2>3. Len(p) \in Nat
    OBVIOUS
  <2> QED
    BY <2>2, <2>3 DEF SegNos
<1>2. PICK r \in Seq(Entry) : r = IF Len(q) >= k THEN Tail(q) ELSE q
  <2>1. Len(q) >= k => Tail(q) \in Seq(Entry)
    OBVIOUS
  <2> QED
    BY <2>1, Zenon
<1>3. SegNos(r) = IF Len(SegNos(q)) >= k THEN Tail(SegNos(q)) ELSE SegNos(q)
  <2>1. CASE Len(q) >= k
    <3>1. r = Tail(q) /\ Len(r) = Len(q) - 1 /\ Len(q) \in Nat /\ Len(r) \in Nat
             /\ \A i \in 1 .. Len(r) : r[i] = q[i + 1]
      BY <1>2, <2>1
    <3>2. \A i \in 1 .. Len(r) : i + 1 \in 1 .. Len(q)
      BY <3>1
    <3>3. PICK s \in Seq(Nat) : s = SegNos(q)
      BY <1>1, Zenon
    <3>4. Len(s) = Len(q) /\ \A i \in 1 .. Len(q) : s[i] = q[i].seg
      BY <1>1, <3>3, Zenon
    <3>5. Tail(s) \in Seq(Nat) /\ Len(Tail(s)) = Len(r) /\ \A i \in 1 .. Len(r) : Tail(s)[i] = s[i + 1]
      BY <2>1, <3>1, <3>4
    <3>6. \A i \in 1 .. Len(r) : SegNos(r)[i] = Tail(s)[i]
      <4> TAKE i \in 1 .. Len(r)
      <4>1. SegNos(r)[i] = r[i].seg /\ r[i] = q[i + 1]
        BY <1>1, <3>1, Zenon
      <4>2. Tail(s)[i] = s[i + 1] /\ s[i + 1] = q[i + 1].seg
        BY <3>2, <3>4, <3>5, Zenon
      <4> QED
        BY <4>1, <4>2, Zenon
    <3>7. SegNos(r) \in Seq(Nat) /\ Len(SegNos(r)) = Len(r)
      BY <1>1, Zenon
    <3>8. SegNos(r) = Tail(s)
      BY <3>5, <3>6, <3>7, SameSequence, Zenon
    <3> QED
      BY <2>1, <3>3, <3>4, <3>8, Zenon
  <2>2. CASE ~(Len(q) >= k)
    BY <1>1, <1>2, <2>2, Zenon
  <2> QED
    BY <2>1, <2>2, Zenon
<1>4. SegNos(Append(r, e)) = Append(SegNos(r), x)
  <2>1. /\ Append(r, e) \in Seq(Entry) /\ Len(Append(r, e)) = Len(r) + 1 /\ Len(r) \in Nat
        /\ \A i \in 1 .. Len(r) : Append(r, e)[i] = r[i]
        /\ Append(r, e)[Len(r) + 1] = e
    OBVIOUS
  <2>2. PICK s \in Seq(Nat) : s = SegNos(r)
    BY <1>1, Zenon
  <2>3. Len(s) = Len(r) /\ \A i \in 1 .. Len(r) : s[i] = r[i].seg
    BY <1>1, <2>2, Zenon
  <2>4. /\ Append(s, x) \in Seq(Nat) /\ Len(Append(s, x)) = Len(r) + 1
        /\ \A i \in 1 .. Len(r) : Append(s, x)[i] = s[i]
        /\ Append(s, x)[Len(r) + 1] = x
    BY <2>3
  <2>5. /\ SegNos(Append(r, e)) \in Seq(Nat) /\ Len(SegNos(Append(r, e))) = Len(r) + 1
        /\ \A i \in 1 .. Len(r) + 1 : SegNos(Append(r, e))[i] = Append(r, e)[i].seg
    BY <1>1, <2>1, Zenon
  <2>6. \A i \in 1 .. Len(r) + 1 : SegNos(Append(r, e))[i] = Append(s, x)[i]
    <3> TAKE i \in 1 .. Len(r) + 1
    <3>1. CASE i = Len(r) + 1
      BY <1>a, <2>1, <2>4, <2>5, <3>1, Zenon
    <3>2. CASE i # Len(r) + 1
      <4>1. i \in 1 .. Len(r)
        BY <2>1, <3>2
      <4> QED
        BY <2>1, <2>3, <2>4, <2>5, <4>1, ZenonT(30)
    <3> QED
      BY <3>1, <3>2, Zenon
  <2> QED
    BY <2>2, <2>4, <2>5, <2>6, SameSequence, Zenon
<1> QED
  BY <1>0, <1>1, <1>2, <1>3, <1>4, Zenon DEF Shift

\* A source segment that is saved in memory is the next one.
LEMMA MemorySaves ==
    ASSUME StoreTypes, NEW x \in 1 .. Stored, S!SaveSource(x), NEW n \in Nat, StoredUpTo(n),
           ~S!IsExternal("b")
    PROVE  StoredUpTo(x)'
<1>0. /\ SessionCache \in Nat \ {0} /\ ListLen \in Nat \ {0} /\ ListLen <= SessionCache
      /\ "source" \in S!What /\ "b" \in S!Nodes /\ own \in Session /\ x \in Nat
  BY SegmentsAssumption DEF S!StorageAssumption, S!What, S!Nodes, StoreTypes, Session
<1>1. x = n + 1
  <2>1. storing[x] = "new" /\ (x > 1 => storing[x - 1] # "new")
    BY Zenon DEF S!SaveSource, S!At
  <2>2. x > n
    BY <2>1, Zenon DEF StoredUpTo
  <2>3. x > 1 => x - 1 \in 1 .. Stored
    BY SegmentsAssumption DEF S!StorageAssumption
  <2>4. x > 1 => ~(x - 1 > n)
    BY <2>1, <2>3, Zenon DEF StoredUpTo
  <2> QED
    BY <1>0, <2>2, <2>4
<1>2. PICK c \in Seq(Nat) : c = kept["b"]["source"]
  BY <1>0 DEF StoreTypes
<1>3. PICK q \in Seq(Entry) : q = list["source"]
  BY <1>0, Zenon DEF StoreTypes
<1>4. SegNos(q) \in Seq(Nat) /\ Len(SegNos(q)) = Len(q)
         /\ SegNos(Shift(q, ListLen, [seg |-> x, node |-> "b"])) = Shift(SegNos(q), ListLen, x)
  BY <1>0, SegNosShift, Zenon
<1>5. /\ Trails(c, x) /\ Len(c) <= SessionCache /\ Trails(SegNos(q), x) /\ Len(SegNos(q)) <= ListLen
      /\ Len(SegNos(q)) <= Len(c)
  BY <1>1, <1>2, <1>3, <1>4, Zenon DEF StoredUpTo
<1>6. /\ Trails(Shift(c, SessionCache, x), x + 1)
      /\ Len(Shift(c, SessionCache, x)) = IF Len(c) = SessionCache THEN SessionCache ELSE Len(c) + 1
      /\ \A i \in 1 .. Len(c) : c[i] # x
  BY <1>0, <1>5, TrailsShift, Zenon
<1>7. /\ Trails(Shift(SegNos(q), ListLen, x), x + 1)
      /\ Len(Shift(SegNos(q), ListLen, x)) = IF Len(SegNos(q)) = ListLen THEN ListLen
                                             ELSE Len(SegNos(q)) + 1
  <2>1. PICK z \in Seq(Nat) : z = SegNos(q)
    BY <1>4, Zenon
  <2>2. Trails(z, x) /\ Len(z) <= ListLen
    BY <1>5, <2>1, Zenon
  <2>3. /\ Trails(Shift(z, ListLen, x), x + 1)
        /\ Len(Shift(z, ListLen, x)) = IF Len(z) = ListLen THEN ListLen ELSE Len(z) + 1
    BY <1>0, <2>2, TrailsShift, Zenon
  <2> QED
    BY <2>1, <2>3, Zenon
<1>8. kept'["b"]["source"] = Shift(c, SessionCache, x)
  <2>1. S!Insert(c, x) = Shift(c, SessionCache, x)
    BY <1>6, Zenon DEF S!Insert, Shift
  <2>2. own.node = "b" /\ S!SaveData(own, "source", x)
    BY Zenon DEF StoreTypes, S!SaveSource
  <2> QED
    BY <1>0, <1>2, <2>1, <2>2, SaveDataEffect, Zenon
<1>9. /\ list'["source"] = Shift(q, ListLen, [seg |-> x, node |-> "b"])
      /\ list' \in [S!What -> Seq(Entry)]
  BY <1>0, <1>3, InsertTyped, SMTT(30) DEF S!SaveSource, StoreTypes
<1>10. SegNos(list["source"])' = Shift(SegNos(q), ListLen, x)
  BY <1>4, <1>9, Zenon DEF SegNos
<1>11. Len(list'["source"]) = Len(Shift(SegNos(q), ListLen, x))
  <2>1. PICK p \in Seq(Entry) : p = list'["source"]
    BY <1>0, <1>9, Zenon
  <2>2. Len(SegNos(p)) = Len(p)
    BY <1>0, SegNosShift, Zenon
  <2>3. SegNos(p) = Shift(SegNos(q), ListLen, x)
    BY <1>4, <1>9, <2>1, Zenon
  <2> QED
    BY <2>1, <2>2, <2>3, Zenon
<1>12. /\ Len(Shift(c, SessionCache, x)) <= SessionCache
       /\ Len(Shift(SegNos(q), ListLen, x)) <= ListLen
       /\ Len(Shift(SegNos(q), ListLen, x)) <= Len(Shift(c, SessionCache, x))
  <2>1. PICK a \in Nat : a = Len(SegNos(q))
    BY <1>4
  <2>2. PICK b \in Nat : b = Len(c)
    OBVIOUS
  <2>3. a <= b /\ a <= ListLen /\ b <= SessionCache
    BY <1>5, <2>1, <2>2, Zenon
  <2>4. Len(Shift(SegNos(q), ListLen, x)) = IF a = ListLen THEN ListLen ELSE a + 1
    BY <1>7, <2>1, Zenon
  <2>5. Len(Shift(c, SessionCache, x)) = IF b = SessionCache THEN SessionCache ELSE b + 1
    BY <1>6, <2>2, Zenon
  <2> QED
    BY <1>0, <2>3, <2>4, <2>5, SMTT(30)
<1>13. \A y \in 1 .. Stored : storing'[y] = "new" <=> y > x
  <2> TAKE y \in 1 .. Stored
  <2>1. storing'[y] = IF y = x THEN "saved" ELSE storing[y]
    BY Zenon DEF S!SaveSource, S!At, StoreTypes
  <2>2. storing[y] = "new" <=> y > n
    BY Zenon DEF StoredUpTo
  <2>3. y = x => ~(y > x)
    OBVIOUS
  <2>4. y # x => (y > n <=> y > x)
    BY <1>1, SMTT(30)
  <2> QED
    BY <2>1, <2>2, <2>3, <2>4, Zenon
<1> QED
  BY <1>6, <1>7, <1>8, <1>10, <1>11, <1>12, <1>13, Zenon DEF StoredUpTo

LEMMA MemoryKeeps ==
    ASSUME NEW n \in Nat, StoredUpTo(n), kept'["b"]["source"] = kept["b"]["source"],
           list'["source"] = list["source"],
           \A y \in 1 .. Stored : storing'[y] = "new" <=> storing[y] = "new"
    PROVE  StoredUpTo(n)'
BY Zenon DEF StoredUpTo, SegNos

LEMMA MemorySegment ==
    ASSUME StoreTypes, BucketInv, MemoryInv, NEW x \in 1 .. Stored, S!Segment(x)
    PROVE  MemoryInv'
<1>0. UNCHANGED <<kind, own>>
  BY Zenon
     DEF S!Segment, S!SaveSource, S!SaveSourceFails, S!Upload, S!Serve, S!Transcode, S!SaveResult,
     S!Keep, S!List
<1> SUFFICES ASSUME own.open, ~S!IsExternal("b"), NEW n \in Nat, StoredUpTo(n)
             PROVE  \E m \in Nat : StoredUpTo(m)'
  BY <1>0, Zenon DEF MemoryInv, S!IsExternal
<1>1. /\ x \in Nat /\ {"source", "result"} \subseteq S!What /\ "b" \in S!Nodes
      /\ DOMAIN storing = 1 .. Stored /\ "source" # "result"
  BY DEF S!What, S!Nodes, StoreTypes
<1>2. CASE S!SaveSource(x)
  BY <1>1, <1>2, MemorySaves, Zenon
<1>3. CASE S!SaveSourceFails(x)
  <2>1. own.node = "b" /\ (S!IsExternal(own.node) \/ ~own.open)
    BY <1>3, Zenon DEF S!SaveSourceFails, S!SaveFails, StoreTypes
  <2> QED
    BY <2>1, Zenon
<1>4. ASSUME kept'["b"]["source"] = kept["b"]["source"], list'["source"] = list["source"],
             storing[x] # "new", NEW l \in {"ready", "sent", "transcoded", "answered", "kept", "done"},
             storing' = [storing EXCEPT ![x] = l]
      PROVE  StoredUpTo(n)'
  BY <1>1, <1>4, MemoryKeeps, Zenon
<1>5. CASE S!Upload(x)
  <2>1. WithOrchestrator
    BY <1>5, Zenon DEF S!Upload, StoreTypes
  <2>2. osSess.ios \in Session /\ (osSess.ios # S!NoSession => osSess.ios.node = "o")
    BY <2>1, Zenon DEF WithOrchestrator
  <2>3. kept'["b"]["source"] = kept["b"]["source"]
    BY <1>1, <1>5, <2>2, SaveDataEffect, SaveFailsEffect, Zenon DEF S!Upload
  <2>4. /\ UNCHANGED list /\ storing[x] = "saved"
        /\ \E l \in {"ready", "done"} : storing' = [storing EXCEPT ![x] = l]
    BY <1>5, Zenon DEF S!Upload, S!At
  <2> QED
    BY <1>4, <2>3, <2>4, Zenon
<1>6. CASE S!Serve(x) \/ S!Transcode(x)
  <2>1. /\ UNCHANGED <<list, kept>> /\ storing[x] \in {"ready", "sent"}
        /\ \E l \in {"sent", "transcoded", "done"} : storing' = [storing EXCEPT ![x] = l]
    BY <1>6, Zenon DEF S!Serve, S!Transcode, S!At
  <2> QED
    BY <1>4, <2>1, Zenon
<1>7. CASE S!SaveResult(x)
  <2>1. os[x] \in Session
    BY Zenon DEF StoreTypes
  <2>2. kept'["b"]["source"] = kept["b"]["source"]
    BY <1>1, <1>7, <2>1, SaveDataEffect, SaveFailsEffect, ZenonT(30) DEF S!SaveResult
  <2>3. /\ UNCHANGED list /\ storing[x] = "transcoded"
        /\ \E l \in {"answered", "done"} : storing' = [storing EXCEPT ![x] = l]
    BY <1>7, Zenon DEF S!SaveResult, S!At
  <2> QED
    BY <1>4, <2>2, <2>3, Zenon
<1>8. CASE S!Keep(x)
  <2>1. /\ UNCHANGED list /\ storing[x] = "answered"
        /\ \E l \in {"kept", "done"} : storing' = [storing EXCEPT ![x] = l]
    BY <1>8, Zenon DEF S!Keep, S!At
  <2>2. osSess.bos \in Session
    BY <2>1, Zenon DEF StoreTypes, WithOrchestrator, Session
  <2>3. kept'["b"]["source"] = kept["b"]["source"]
    BY <1>1, <1>8, <2>2, SaveDataEffect, SaveFailsEffect, ZenonT(30) DEF S!Keep
  <2> QED
    BY <1>4, <2>1, <2>3, Zenon
<1>9. CASE S!List(x)
  <2>1. /\ UNCHANGED kept /\ storing[x] = "kept" /\ storing' = [storing EXCEPT ![x] = "done"]
        /\ S!InsertHLSSegment("result", x, "b")
    BY <1>9, Zenon DEF S!List, S!At, BucketInv
  <2>2. list'["source"] = list["source"]
    BY <1>1, <2>1, InsertTyped, ZenonT(30) DEF StoreTypes
  <2> QED
    BY <1>4, <2>1, <2>2, ZenonT(30)
<1> QED
  BY <1>2, <1>3, <1>5, <1>6, <1>7, <1>8, <1>9, Zenon DEF S!Segment

\* drivers, server/broadcast.go: while the stream lasts, a segment that is listed is in the
\* broadcaster's storage, for every pair of storages and however long playlists, caches and
\* policies are, as long as a cache is no shorter than a playlist.
THEOREM ListedAlwaysStored == S!Spec => []ListedIsStored
<1>1. S!Init => StorageInv
  <2> SUFFICES ASSUME S!Init PROVE StorageInv
    BY Zenon
  <2>1. "b" \in S!Nodes /\ kind \in [S!Nodes -> Kinds] /\ 0 \in Nat /\ "source" \in S!What
    BY Zenon DEF S!Nodes, S!What, S!Init
  <2>2. own \in Opened /\ own.node = "b"
    BY <2>1, NewSessionOpened, Zenon DEF S!Init
  <2>3. StoreTypes
    BY <2>1, <2>2 DEF S!Init, StoreTypes, Session
  <2>4. BucketInv
    BY DEF S!Init, BucketInv
  <2>5. StoredUpTo(0)
    <3>1. kept["b"]["source"] = <<>> /\ list["source"] = <<>>
      BY <2>1, Zenon DEF S!Init
    <3>2. \A x \in 1 .. Stored : storing[x] = "new" <=> x > 0
      BY SegmentsAssumption DEF S!Init, S!StorageAssumption
    <3>3. SessionCache \in Nat /\ ListLen \in Nat
      BY SegmentsAssumption, Zenon DEF S!StorageAssumption
    <3> QED
      BY <3>1, <3>2, <3>3 DEF StoredUpTo, Trails, SegNos
  <2> QED
    BY <2>3, <2>4, <2>5, Zenon DEF StorageInv, MemoryInv
<1>2. StorageInv /\ [S!Next]_S!vars => StorageInv'
  <2> SUFFICES ASSUME StorageInv, [S!Next]_S!vars PROVE StorageInv'
    BY Zenon
  <2>0. StoreTypes /\ BucketInv /\ MemoryInv
    BY Zenon DEF StorageInv
  <2>1. ASSUME NEW x \in 1 .. Stored, S!Segment(x) PROVE StorageInv'
    BY <2>0, <2>1, StoreSegment, BucketSegment, MemorySegment, Zenon DEF StorageInv
  <2>2. CASE S!selectOrchestrator \/ S!EndSession \/ S!LoopTimeout \/ S!Tick
    <3>1. UNCHANGED <<kind, bucket, list, storing, url>>
      BY <2>2, Zenon DEF S!selectOrchestrator, S!EndSession, S!LoopTimeout, S!Tick
    <3>2. BucketInv'
      BY <2>0, <3>1, Zenon DEF BucketInv, S!IsExternal
    <3>3. own'.open => own.open /\ kept'["b"]["source"] = kept["b"]["source"]
      BY <2>0, <2>2, Zenon
         DEF S!selectOrchestrator, S!EndSession, S!LoopTimeout, S!Tick, StoreTypes,
         Opened, S!Nodes
    <3>4. MemoryInv'
      BY <2>0, <3>1, <3>3, MemoryKeeps, Zenon DEF MemoryInv, S!IsExternal
    <3> QED
      BY <2>0, <2>2, <3>2, <3>4, StoreOther, Zenon DEF StorageInv
  <2>3. CASE UNCHANGED S!vars
    BY <2>0, <2>3, ZenonT(30)
       DEF S!vars, StorageInv, StoreTypes, WithOrchestrator, BucketInv, MemoryInv,
       StoredUpTo, SegNos, S!IsExternal
  <2> QED
    BY <2>1, <2>2, <2>3, Zenon DEF S!Next

<1>3. StorageInv => ListedIsStored
  <2> SUFFICES ASSUME StorageInv, own.open, NEW w \in S!What, NEW i \in 1 .. Len(list[w])
               PROVE  /\ list[w][i].node = "b"
                      /\ w = "source" \/ S!IsExternal("b") => S!Has("b", w, list[w][i].seg)
    BY Zenon DEF ListedIsStored, S!ListedIsStored
  <2>1. list[w] \in Seq(Entry)
    BY Zenon DEF StorageInv, StoreTypes
  <2>2. list[w][i] \in Entry
    BY <2>1
  <2>3. list[w][i].node = "b"
    BY <2>2, Zenon DEF Entry
  <2>4. S!IsExternal("b") => S!Has("b", w, list[w][i].seg)
    BY Zenon DEF StorageInv, BucketInv, S!Has
  <2>5. ASSUME w = "source", ~S!IsExternal("b") PROVE S!Has("b", w, list[w][i].seg)
    <3>1. PICK n \in Nat : StoredUpTo(n)
      BY <2>5, Zenon DEF StorageInv, MemoryInv
    <3>2. PICK q \in Seq(Entry) : q = list[w]
      BY <2>1, Zenon
    <3>3. kept["b"]["source"] \in Seq(Nat)
      BY Zenon DEF StorageInv, StoreTypes, S!Nodes, S!What
    <3>4. PICK c \in Seq(Nat) : c = kept["b"]["source"]
      BY <3>3, Zenon
    <3>5. 1 \in Nat \ {0} /\ 1 \in Nat
      OBVIOUS
    <3>6. SegNos(q) \in Seq(Nat) /\ Len(SegNos(q)) = Len(q)
      BY <3>5, SegNosShift, Zenon
    <3>7. Trails(c, n + 1) /\ Trails(SegNos(q), n + 1) /\ Len(SegNos(q)) <= Len(c)
      BY <2>5, <3>1, <3>2, <3>4, <3>6, Zenon DEF StoredUpTo
    <3>8. i \in 1 .. Len(SegNos(q)) /\ SegNos(q)[i] = list[w][i].seg
      BY <3>2, <3>6, Zenon DEF SegNos
    <3>9. PICK m \in Nat : m = n + 1 /\ m <= m /\ Len(SegNos(q)) + m <= Len(c) + m
      <4>1. Len(q) \in Nat /\ Len(c) \in Nat
        OBVIOUS
      <4> QED
        BY <3>6, <3>7, <4>1
    <3>10. \E j \in 1 .. Len(c) : c[j] = SegNos(q)[i]
      BY <3>6, <3>7, <3>8, <3>9, TrailsHeld, Zenon
    <3> QED
      BY <2>5, <3>4, <3>8, <3>10, Zenon DEF S!Has
  <2> QED
    BY <2>3, <2>4, <2>5, Zenon
<1> QED
  BY <1>1, <1>2, <1>3, PTL DEF S!Spec
=============================================================================
