----------------------------- MODULE LiveStream -----------------------------
(****************************************************************************)
(* What a viewer of the source of a stream may count on, without the store,  *)
(* the playlists and the goroutines behind it: a window of the latest        *)
(* segments, all of which can be fetched, until the stream ends and nothing  *)
(* is served any more.  The window grows by a new segment at its end; only a *)
(* full one gives up its oldest, and then is one short until the next.       *)
(****************************************************************************)
EXTENDS Naturals, Sequences

CONSTANT Window  \* the segments served at a time

VARIABLES
    made,       \* segments the source has made so far, numbered from 0
    over,       \* whether the stream has ended
    served,     \* the segments of the playlist a viewer is given
    seqNo,      \* the sequence number in front of them
    fetchable   \* those of them that the viewer can fetch

vars == <<made, over, served, seqNo, fetchable>>

Init ==
    /\ made = 0
    /\ over = FALSE
    /\ served = <<>>
    /\ seqNo = 0
    /\ fetchable = {}

Segments(list) == {list[i] : i \in 1 .. Len(list)}

\* A new segment is served.
Show ==
    /\ ~over /\ Len(served) < Window
    /\ made' = made + 1
    /\ served' = Append(served, made)
    /\ seqNo' = served'[1]
    /\ fetchable' = Segments(served')
    /\ UNCHANGED over

\* A full window makes room for the next.
MakeRoom ==
    /\ ~over /\ Len(served) = Window
    /\ served' = Tail(served)
    /\ seqNo' = seqNo + 1
    /\ fetchable' = Segments(served')
    /\ UNCHANGED <<made, over>>

\* The source has not noticed yet that the stream is over.
Drop ==
    /\ over
    /\ made' = made + 1
    /\ UNCHANGED <<over, served, seqNo, fetchable>>

End ==
    /\ ~over
    /\ over' = TRUE
    /\ served' = <<>>
    /\ seqNo' = 0
    /\ fetchable' = {}
    /\ UNCHANGED made

Next == Show \/ MakeRoom \/ Drop \/ End

Spec == Init /\ [][Next]_vars
=============================================================================
