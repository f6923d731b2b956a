---------------------------- MODULE ChainServices ----------------------------
(****************************************************************************)
(* What follows the chain: the record of unbonding locks (UnbondingService),*)
(* the call of initializeRound() (RoundsService) and the bindings that      *)
(* deliver events to such services (ContractEvents).  They share no variable.*)
(****************************************************************************)

CONSTANTS
    Ids, MaxBlock, MaxCrash, MaxSubErr, MaxAsk,          \* of UnbondingService
    Nodes, Pools, Hashes, RoundLength, BlocksToWait, MaxHeader,
    MaxFail, Prompt, Absent,                             \* of RoundsService
    ChanLen, Past, New, MaxSubFail                       \* of ContractEvents

VARIABLES
    height, at, lastBlock, locks, upc, start, filtered, logs, upTo, subscribed, pending, watching,
    asking, missing, found, crashes, subErrs, asks,
    blk, initRound, calls, transcoderPool, following, queue, watchBlocks, ipc, hdr, transcoders,
    result, minedIn, sent, stopped, fails, followErrs,
    logsOf, vpc, iter, buff, feedEnded, eventSub, subFails

U == INSTANCE UnbondingService WITH pc <- upc
I == INSTANCE RoundsService WITH
        pc <- ipc, subscribed <- following, watching <- watchBlocks,
        pool <- transcoderPool, subErrs <- followErrs, MaxBlock <- MaxHeader, None <- Absent
V == INSTANCE ContractEvents WITH
        chain <- logsOf, pc <- vpc, it <- iter, ended <- feedEnded, sub <- eventSub,
        fails <- subFails, MaxFail <- MaxSubFail

unbondingVars == <<height, at, lastBlock, locks, upc, start, filtered, logs, upTo, subscribed,
                   pending, watching, asking, missing, found, crashes, subErrs, asks>>
roundsVars == <<blk, initRound, calls, transcoderPool, following, queue, watchBlocks, ipc, hdr,
                transcoders, result, minedIn, sent, stopped, fails, followErrs>>
eventVars == <<logsOf, vpc, iter, buff, feedEnded, eventSub, subFails>>

ASSUME ServicesAssumption ==
    /\ U!UnbondingAssumption
    /\ I!RoundsAssumption
    /\ V!EventsAssumption

-----------------------------------------------------------------------------
\* A lock recorded as used stays so, however often the node restarts and
\* UnbondingService replays the event that made it.
UsedForGood == [][U!KeepsUsed]_unbondingVars

\* However a replay of UnbondingService ends, it has recorded the locks made since the last
\* block seen, up to where it came, and as used those whose use it came to.
ReplayComplete == U!ReplayComplete

\* A node whose initializeRound() reverts, as another one's was mined first, does not stop
\* watching for headers in that round.
WatchesAfterRace == I!WatchesAfterRace

\* An iterator over past events that says it is done, without an error, has given all.
IterationComplete == V!IterationComplete
=============================================================================
