---------------------------- MODULE OperatorNode -----------------------------
(****************************************************************************)
(* The node's process from its start to its end (NodeLife) and its database *)
(* (Database).  They share no variable.                                     *)
(****************************************************************************)

CONSTANTS
    MaxHead, MaxSubErr,                                                     \* of NodeLife
    Goroutines, Tickets, Locks, LivepeerDBVersion, Versions, MaxStarts, MaxOps  \* of Database

VARIABLES
    opts, mainPc, defers, exit, dbOpen, notified, services, started, toStop, stopped,
    sub, queue, closed, watch, head, lastSeen, replayed, media, web, rpc, checker, ctxDone, subErrs,
    disk, dbPc, fields, open, dbConn, dbOp, stored, starts, ops

N == INSTANCE NodeLife WITH pc <- mainPc
B == INSTANCE Database WITH pc <- dbPc, conn <- dbConn, op <- dbOp

lifeVars == <<opts, mainPc, defers, exit, dbOpen, notified, services, started, toStop, stopped,
              sub, queue, closed, watch, head, lastSeen, replayed, media, web, rpc, checker, ctxDone,
              subErrs>>
dbVars == <<disk, dbPc, fields, open, dbConn, dbOp, stored, starts, ops>>

ASSUME NodeAssumption == N!LifeAssumption /\ B!DatabaseAssumption

-----------------------------------------------------------------------------
\* StartEthServices: no block is recorded as seen before UnbondingService has read from
\* where to replay.
BlocksAfterReplay == N!BlocksAfterReplay

\* main: the database is closed when main returns, and after StopEthServices.
CleanReturn == N!CleanReturn

\* InitDB, Close: a failed start leaves nothing open, a start that succeeds has all.
NothingLeftOpen == B!NothingLeftOpen

\* Queries: the one connection is given back on every way out of a function.
ConnectionFreed == B!ConnectionFreed
=============================================================================
