---------------------------- MODULE RoundsService ----------------------------
(****************************************************************************)
(* How the active orchestrators initialize a new round between them          *)
(* (eth/eventservices/roundservice.go).  Each follows the block headers      *)
(* through the event monitor (eth/eventmonitor.go); by number and hash of a  *)
(* block it is the turn of one of them to send the transaction.  One whose   *)
(* transaction fails in a round that is still not initialized stops          *)
(* watching.                                                                 *)
(*                                                                           *)
(* Chain and Ethereum nodes are external.  Headers wait for an orchestrator  *)
(* that is busy, and meanwhile the pool of transcoders may change, which it  *)
(* asks for when it handles a header.                                        *)
(****************************************************************************)
EXTENDS Integers, Sequences, FiniteSets

CONSTANTS
    Nodes,           \* orchestrators that run the service
    Pools,           \* the registered transcoders, in the order of the pool, and the
                     \* size of the active set: as they are at first, and as they become
    Hashes,          \* block hashes, as numbers
    RoundLength, BlocksToWait,
    MaxBlock,        \* bound: blocks
    MaxFail,         \* bound: transactions that fail for a reason of their own
    MaxSubErr,       \* bound: subscriptions that fail
    Prompt,          \* transactions are mined within BlocksToWait blocks
    None

RoundsAssumption ==
    /\ Pools \in Seq([transcoders : Seq(Nodes \union {None}), numActive : Nat]) /\ Pools # <<>>
    /\ Hashes \subseteq Nat
    /\ RoundLength \in Nat \ {0} /\ BlocksToWait \in Nat \ {0}
    /\ MaxBlock \in Nat /\ MaxFail \in Nat /\ MaxSubErr \in Nat /\ Prompt \in BOOLEAN

VARIABLES
    blk, initRound,     \* chain: last block, last round initialized
    calls,              \* chain: initializeRound transactions not yet mined
    pool,               \* chain: the one of Pools
    subscribed, queue,  \* per node: subscription, headers not yet handled
    watching, pc, hdr,  \* per node: watchBlocks runs; tryInitializeRound: step, header
    transcoders,        \* per node: variable of shouldInitializeRound
    result,             \* per node: what has become of its transaction
    minedIn,            \* history, per node: round in which it was mined
    sent,               \* history: <<node, block number>> of each call
    stopped,            \* history: nodes that stopped, and why their call had failed
    fails, subErrs

chainVars == <<blk, initRound, calls, pool>>
subVars == <<subscribed, queue, watching>>
vars == <<chainVars, subVars, pc, hdr, transcoders, result, minedIn, sent, stopped, fails, subErrs>>

CurrentRound == blk \div RoundLength
CurrentRoundInitialized == initRound >= CurrentRound

Goto(n, l) == pc' = [pc EXCEPT ![n] = l]

-----------------------------------------------------------------------------
(* The chain *)

NewBlock ==
    /\ blk < MaxBlock
    /\ Prompt => \A c \in calls : c.at + BlocksToWait > blk + 1
    /\ blk' = blk + 1
    /\ \E hash \in Hashes :
          queue' = [n \in Nodes |->
                      IF subscribed[n] /\ watching[n]
                      THEN Append(queue[n], [number |-> blk + 1, hash |-> hash])
                      ELSE queue[n]]
    /\ UNCHANGED <<initRound, calls, pool, subscribed, watching, pc, hdr, transcoders, result, minedIn, sent, stopped, fails, subErrs>>

\* A transcoder registers, resigns or changes its stake, or the active set its size.
PoolChanges ==
    /\ pool < Len(Pools)
    /\ pool' = pool + 1
    /\ UNCHANGED <<blk, initRound, calls, subVars, pc, hdr, transcoders, result, minedIn, sent, stopped, fails, subErrs>>

\* The node is in CheckTx for this call.
WaitsFor(c) == pc[c.node] = "check" /\ hdr[c.node].number = c.number

\* A call in a round that is initialized reverts.
Mine(c) ==
    /\ calls' = calls \ {c}
    /\ initRound' = IF CurrentRoundInitialized THEN initRound ELSE CurrentRound
    /\ IF WaitsFor(c) /\ result[c.node] = "none"
       THEN /\ result' = [result EXCEPT ![c.node] =
                            IF CurrentRoundInitialized THEN "initialized" ELSE "success"]
            /\ minedIn' = [minedIn EXCEPT ![c.node] = CurrentRound]
       ELSE UNCHANGED <<result, minedIn>>
    /\ UNCHANGED <<blk, pool, subVars, pc, hdr, transcoders, sent, stopped, fails, subErrs>>

\* The call fails, out of gas for instance, or it is not mined in time; then it may be later.
CallFails(c) ==
    /\ WaitsFor(c) /\ result[c.node] = "none" /\ fails < MaxFail
    /\ fails' = fails + 1
    /\ calls' \in {calls, calls \ {c}}
    /\ result' = [result EXCEPT ![c.node] = "failed"]
    /\ UNCHANGED <<blk, initRound, pool, subVars, pc, hdr, transcoders, minedIn, sent, stopped, subErrs>>

-----------------------------------------------------------------------------
(* watchBlocks *)

SubErr(n) ==
    /\ watching[n] /\ pc[n] = "select" /\ subscribed[n] /\ subErrs < MaxSubErr
    /\ subErrs' = subErrs + 1
    /\ subscribed' = [subscribed EXCEPT ![n] = FALSE]
    /\ queue' = [queue EXCEPT ![n] = <<>>]
    /\ Goto(n, "resubscribe")
    /\ UNCHANGED <<chainVars, watching, hdr, transcoders, result, minedIn, sent, stopped, fails>>

\* SubscribeNewBlock, and its retries
Subscribe(n) ==
    /\ pc[n] = "resubscribe"
    /\ subscribed' = [subscribed EXCEPT ![n] = TRUE]
    /\ Goto(n, "select")
    /\ UNCHANGED <<chainVars, queue, watching, hdr, transcoders, result, minedIn, sent, stopped, fails, subErrs>>

-----------------------------------------------------------------------------
(* tryInitializeRound *)

tryInitializeRound(n) ==
    /\ watching[n] /\ pc[n] = "select" /\ queue[n] # <<>>
    /\ hdr' = [hdr EXCEPT ![n] = Head(queue[n])]
    /\ queue' = [queue EXCEPT ![n] = Tail(@)]
    /\ Goto(n, IF CurrentRoundInitialized THEN "select" ELSE "should")
    /\ UNCHANGED <<chainVars, subscribed, watching, transcoders, result, minedIn, sent, stopped, fails, subErrs>>

\* Only in multiples of BlocksToWait blocks
shouldInitializeRound(n) ==
    /\ pc[n] = "should"
    /\ Goto(n, IF (hdr[n].number - CurrentRound * RoundLength) % BlocksToWait = 0
               THEN "list" ELSE "select")
    /\ UNCHANGED <<chainVars, subVars, hdr, transcoders, result, minedIn, sent, stopped, fails, subErrs>>

RegisteredTranscoders(n) ==
    /\ pc[n] = "list"
    /\ transcoders' = [transcoders EXCEPT ![n] = Pools[pool].transcoders]
    /\ Goto(n, "size")
    /\ UNCHANGED <<chainVars, subVars, hdr, result, minedIn, sent, stopped, fails, subErrs>>

\* If fewer are registered than may be active, all of them are.
MyTurn(n) ==
    LET registered == Len(transcoders[n])
        numActive == IF Pools[pool].numActive > registered THEN registered ELSE Pools[pool].numActive
    IN \E rank \in 1 .. numActive :
          transcoders[n][rank] = n /\ hdr[n].hash % numActive = rank - 1

NumActiveTranscoders(n) ==
    /\ pc[n] = "size"
    /\ Goto(n, IF MyTurn(n) THEN "initialize" ELSE "select")
    /\ transcoders' = [transcoders EXCEPT ![n] = <<>>]
    /\ UNCHANGED <<chainVars, subVars, hdr, result, minedIn, sent, stopped, fails, subErrs>>

\* The client does not send it if the round has been initialized by now.
InitializeRound(n) ==
    /\ pc[n] = "initialize"
    /\ \/ /\ CurrentRoundInitialized
          /\ Goto(n, "select")
          /\ UNCHANGED <<calls, result, sent>>
       \/ /\ ~CurrentRoundInitialized
          /\ calls' = calls \union {[node |-> n, number |-> hdr[n].number, at |-> blk]}
          /\ result' = [result EXCEPT ![n] = "none"]
          /\ sent' = sent \union {<<n, hdr[n].number>>}
          /\ Goto(n, "check")
    /\ UNCHANGED <<blk, initRound, pool, subVars, hdr, transcoders, minedIn, stopped, fails, subErrs>>

CheckTx(n) ==
    /\ pc[n] = "check" /\ result[n] # "none"
    /\ Goto(n, IF result[n] = "success" THEN "select" ELSE "recheck")
    /\ UNCHANGED <<chainVars, subVars, hdr, transcoders, result, minedIn, sent, stopped, fails, subErrs>>

\* A query of the client fails: the header is done with.
QueryFails(n) ==
    /\ pc[n] \in {"should", "list", "size", "initialize", "recheck"}
    /\ Goto(n, "select")
    /\ transcoders' = [transcoders EXCEPT ![n] = <<>>]
    /\ UNCHANGED <<chainVars, subVars, hdr, result, minedIn, sent, stopped, fails, subErrs>>

StopWatching(n) ==
    /\ watching' = [watching EXCEPT ![n] = FALSE]
    /\ stopped' = stopped \union {[node |-> n, why |-> result[n],
                                    sameRound |-> minedIn[n] = CurrentRound]}

\* Mutant: any failure stops the node.
Recheck_Stops(n) ==
    /\ pc[n] = "recheck"
    /\ StopWatching(n)
    /\ Goto(n, "select")
    /\ UNCHANGED <<chainVars, subscribed, queue, hdr, transcoders, result, minedIn, sent, fails, subErrs>>

\* Someone else may have initialized the round.
Recheck(n) ==
    /\ pc[n] = "recheck"
    /\ IF CurrentRoundInitialized THEN UNCHANGED <<watching, stopped>> ELSE StopWatching(n)
    /\ Goto(n, "select")
    /\ UNCHANGED <<chainVars, subscribed, queue, hdr, transcoders, result, minedIn, sent, fails, subErrs>>

-----------------------------------------------------------------------------
Init ==
    /\ blk = RoundLength - 1 /\ initRound = 0 /\ calls = {} /\ pool = 1
    /\ subscribed = [n \in Nodes |-> TRUE] /\ queue = [n \in Nodes |-> <<>>]
    /\ watching = [n \in Nodes |-> TRUE]
    /\ pc = [n \in Nodes |-> "select"]
    /\ hdr = [n \in Nodes |-> [number |-> 0, hash |-> 0]]
    /\ transcoders = [n \in Nodes |-> <<>>]
    /\ result = [n \in Nodes |-> "none"] /\ minedIn = [n \in Nodes |-> 0]
    /\ sent = {} /\ stopped = {} /\ fails = 0 /\ subErrs = 0

Node(n) ==
    \/ SubErr(n) \/ Subscribe(n)
    \/ tryInitializeRound(n) \/ shouldInitializeRound(n) \/ RegisteredTranscoders(n)
    \/ NumActiveTranscoders(n) \/ InitializeRound(n)
    \/ CheckTx(n) \/ Recheck(n) \/ QueryFails(n)

Next ==
    \/ NewBlock \/ PoolChanges \/ \E c \in calls : Mine(c) \/ CallFails(c)
    \/ \E n \in Nodes : Node(n)

Spec == Init /\ [][Next]_vars

-----------------------------------------------------------------------------
(* Properties *)

\* Shapes of the state; a call has been sent for a header that the node has had.
TypeOK ==
    /\ blk \in 0 .. MaxBlock /\ initRound \in 0 .. CurrentRound /\ pool \in DOMAIN Pools
    /\ \A c \in calls : <<c.node, c.number>> \in sent /\ c.at <= blk
    /\ \A n \in Nodes : \A i \in 1 .. Len(queue[n]) : queue[n][i].number <= blk
    /\ pc \in [Nodes -> {"select", "resubscribe", "should", "list", "size", "initialize",
                          "check", "recheck"}]
    /\ result \in [Nodes -> {"none", "success", "initialized", "failed"}]
    /\ subscribed \in [Nodes -> BOOLEAN] /\ watching \in [Nodes -> BOOLEAN]
    /\ fails \in 0 .. MaxFail /\ subErrs \in 0 .. MaxSubErr

\* tryInitializeRound: a node that was overtaken, so that its transaction reverts because
\* the round is initialized, does not stop watching in that round, whichever queries come
\* late and however many orchestrators take the turn to be theirs.
WatchesAfterRace == \A s \in stopped : s.why = "initialized" => ~s.sameRound

\* tryInitializeRound: when its transaction fails and the round was initialized,
\* "someone manually initialized the round - keep watching".  Hence only a failure of
\* its own makes a node stop.
KeepsWatching == \A s \in stopped : s.why = "failed"

\* shouldInitializeRound: a node waits for multiples of BlocksToWait blocks "to make
\* sure a previous initializeRound call by someone else is processed".
PreviousProcessed == \A c, d \in calls : c = d

\* roundservice.go:184: "If blockHash % numActive == my rank, it is my turn to initialize the
\* round": no two nodes send a transaction for the same header.
TurnUnique == \A s, t \in sent : s[2] = t[2] => s[1] = t[1]
=============================================================================
