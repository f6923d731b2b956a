--------------------------- MODULE UnbondingService ---------------------------
(****************************************************************************)
(* The record a node keeps of its unbonding locks, over restarts.  The       *)
(* unbonding service (eth/eventservices/unbondingservice.go) first replays   *)
(* the events since the last block seen and then follows three               *)
(* subscriptions; the block service (blockservice.go), started after it,     *)
(* stores the number of each new block.  /unbondingLocks of the CLI web      *)
(* server (server/webserver.go) adds the locks it finds missing.  The table  *)
(* of locks and the block number are in the database (common/db.go) and      *)
(* survive a crash.                                                          *)
(*                                                                           *)
(* Locks are of one delegator, the node's account.  The chain and the        *)
(* node's Ethereum client are external: a subscription delivers what happens *)
(* while it lasts.                                                           *)
(****************************************************************************)
EXTENDS Naturals, FiniteSets

CONSTANTS
    Ids,        \* unbonding lock ids
    MaxBlock,   \* bound: blocks
    MaxCrash,   \* bound: crashes of the node
    MaxSubErr,  \* bound: subscriptions that fail
    MaxAsk      \* bound: requests of /unbondingLocks

UnbondingAssumption ==
    MaxBlock \in Nat /\ MaxCrash \in Nat /\ MaxSubErr \in Nat /\ MaxAsk \in Nat

Kinds == {"unbond", "rebond", "withdrawStake"}
Uses == {"rebond", "withdrawStake"}

VARIABLES
    height, at,      \* chain: last block; block of each event, 0 if not yet
    lastBlock,       \* table kv: last block seen
    locks,           \* table unbondingLocks: "none", "unused" or "used"
    pc,              \* service: "down", a kind to replay, "watch" or "select"
    start,           \* processHistoricalEvents: startBlock
    filtered, logs,  \* processHistoricalEvents: the logs of a kind are at hand, those left
    upTo,            \* history: block up to which a kind was replayed, 0 if not
    subscribed,      \* per kind, the negation of the resubscribe flag
    pending,         \* per kind, events delivered and not yet handled
    watching,        \* the block service runs
    asking,          \* /unbondingLocks: "idle", "ids" or "fill"
    missing,         \* ids below the delegator's next id that are still to be looked up
    found,           \* lock looked up, unused, to be inserted
    crashes, subErrs, asks

chainVars == <<height, at>>
dbVars == <<lastBlock, locks>>
svcVars == <<pc, start, filtered, logs, upTo, subscribed>>
askVars == <<asking, missing, found, asks>>
vars == <<chainVars, dbVars, svcVars, pending, watching, askVars, crashes, subErrs>>

-----------------------------------------------------------------------------
(* The chain *)

\* A block with events: locks made, and locks used, once, by a rebond or a withdrawal.
NewBlock(new) ==
    /\ height < MaxBlock
    /\ height' = height + 1
    /\ at' = [k \in Kinds |-> [i \in Ids |-> IF i \in new[k] THEN height + 1 ELSE at[k][i]]]
    /\ pending' = [k \in Kinds |-> IF subscribed[k] THEN pending[k] \union new[k] ELSE pending[k]]
    /\ UNCHANGED <<askVars, dbVars, svcVars, watching, crashes, subErrs>>

Mine ==
    \E made \in SUBSET {i \in Ids : at["unbond"][i] = 0} :
    \E used \in SUBSET {i \in Ids :
                          /\ i \in made \/ at["unbond"][i] # 0
                          /\ \A k \in Uses : at[k][i] = 0} :
    \E rebonded \in SUBSET used :
        NewBlock([unbond |-> made, rebond |-> rebonded, withdrawStake |-> used \ rebonded])

-----------------------------------------------------------------------------
(* Database *)

\* Mutant: a row of the same lock is replaced.
InsertUnbondingLock_Replace(t, ids) == [i \in Ids |-> IF i \in ids THEN "unused" ELSE t[i]]

\* INSERT fails on the primary key: an existing row stays as it is.
InsertUnbondingLock(t, ids) ==
    [i \in Ids |-> IF i \in ids /\ t[i] = "none" THEN "unused" ELSE t[i]]

\* UPDATE changes no row, and is no error, if there is none.
UseUnbondingLock(t, ids) ==
    [i \in Ids |-> IF i \in ids /\ t[i] # "none" THEN "used" ELSE t[i]]

-----------------------------------------------------------------------------
(* Start *)

StartService ==
    /\ pc = "down"
    /\ start' = lastBlock
    /\ upTo' = [k \in Kinds |-> 0]
    /\ pc' = IF lastBlock = 0 THEN "watch" ELSE "unbond"
    /\ UNCHANGED <<askVars, chainVars, dbVars, filtered, logs, subscribed, pending, watching, crashes, subErrs>>

\* Mutant: the filter starts after the last block seen.
Historical_After(k) == {i \in Ids : at[k][i] > start /\ at[k][i] # 0}

Historical(k) == {i \in Ids : at[k][i] >= start /\ at[k][i] # 0}

replayVars == <<askVars, chainVars, lastBlock, start, subscribed, pending, watching, crashes, subErrs>>

\* FilterUnbond, FilterRebond, FilterWithdrawStake
FilterLogs(k) ==
    /\ pc = k /\ ~filtered
    /\ filtered' = TRUE /\ logs' = Historical(k)
    /\ upTo' = [upTo EXCEPT ![k] = height]
    /\ UNCHANGED <<pc, locks, replayVars>>

\* The iterator's next log of a kind, in the order of the blocks
First(k, i) ==
    /\ pc = k /\ filtered /\ i \in logs
    /\ \A j \in logs : at[k][i] <= at[k][j]

\* The logs of a kind are over: processHistoricalEvents goes on to next.
Leave(next) == pc' = next /\ filtered' = FALSE /\ logs' = {}

After(k) == CASE k = "unbond" -> "rebond" [] k = "rebond" -> "withdrawStake" [] OTHER -> "watch"

ProcessHistoricalUnbond(i) ==
    /\ First("unbond", i) /\ locks[i] = "none"
    /\ locks' = InsertUnbondingLock(locks, {i})
    /\ logs' = logs \ {i}
    /\ UNCHANGED <<pc, filtered, upTo, replayVars>>

\* ProcessHistoricalRebond, ProcessHistoricalWithdrawStake
ProcessHistoricalUse(k, i) ==
    /\ First(k, i)
    /\ locks' = UseUnbondingLock(locks, {i})
    /\ logs' = logs \ {i}
    /\ UNCHANGED <<pc, filtered, upTo, replayVars>>

\* A log that does not unpack ends the iteration, and it.Error() is not asked: the next
\* kind is replayed as if this one were complete.  An error of the database, as for a lock
\* that has a row already, ends the replay.
ReplayCut(k, i) ==
    /\ First(k, i)
    /\ upTo' = [upTo EXCEPT ![k] = at[k][i] - 1]
    /\ \E next \in {After(k), "watch"} : Leave(next)
    /\ UNCHANGED <<locks, replayVars>>

LogsEnd(k) ==
    /\ pc = k /\ filtered /\ logs = {}
    /\ Leave(After(k))
    /\ UNCHANGED <<locks, upTo, replayVars>>

\* The client fails to filter the logs: the error is logged, the service goes on.
HistoricalFails ==
    /\ pc \in Kinds /\ ~filtered
    /\ pc' = "watch"
    /\ UNCHANGED <<filtered, logs, upTo, locks, replayVars>>

-----------------------------------------------------------------------------
(* The worker *)

Before(k) == CASE k = "unbond" -> {} [] k = "rebond" -> {"unbond"}
               [] k = "withdrawStake" -> {"unbond", "rebond"}

\* WatchForUnbond, WatchForRebond, WatchForWithdrawStake in turn, each retried until
\* it succeeds.
Watch(k) ==
    /\ pc = "watch" /\ ~subscribed[k] /\ \A j \in Before(k) : subscribed[j]
    /\ subscribed' = [subscribed EXCEPT ![k] = TRUE]
    /\ pc' = IF \A j \in Kinds \ {k} : subscribed[j] THEN "select" ELSE "watch"
    /\ UNCHANGED <<askVars, chainVars, dbVars, start, filtered, logs, upTo, pending, watching, crashes, subErrs>>

Take(k, i) ==
    /\ pc = "select" /\ i \in pending[k]
    /\ pending' = [pending EXCEPT ![k] = @ \ {i}]

NewUnbond(i) ==
    /\ Take("unbond", i)
    /\ locks' = InsertUnbondingLock(locks, {i})
    /\ UNCHANGED <<askVars, chainVars, lastBlock, svcVars, watching, crashes, subErrs>>

\* newRebond, newWithdrawStake
NewUse(k, i) ==
    /\ Take(k, i)
    /\ locks' = UseUnbondingLock(locks, {i})
    /\ UNCHANGED <<askVars, chainVars, lastBlock, svcVars, watching, crashes, subErrs>>

\* What the subscription had still to deliver is dropped.
SubErr(k) ==
    /\ pc = "select" /\ subErrs < MaxSubErr
    /\ subErrs' = subErrs + 1
    /\ subscribed' = [subscribed EXCEPT ![k] = FALSE]
    /\ pending' = [pending EXCEPT ![k] = {}]
    /\ pc' = "watch"
    /\ UNCHANGED <<askVars, chainVars, dbVars, start, filtered, logs, upTo, watching, crashes>>

-----------------------------------------------------------------------------
(* Block service, and crashes *)

\* Started when Start of the unbonding service has returned, its worker running.
StartBlockService ==
    /\ ~watching /\ pc \in {"watch", "select"}
    /\ watching' = TRUE
    /\ UNCHANGED <<askVars, chainVars, dbVars, svcVars, pending, crashes, subErrs>>

\* Headers come in order; those of a time without a subscription are left out.
SetLastSeenBlock ==
    /\ watching
    /\ \E b \in lastBlock + 1 .. height : lastBlock' = b
    /\ UNCHANGED <<askVars, chainVars, locks, svcVars, pending, watching, crashes, subErrs>>

Down ==
    /\ Leave("down") /\ watching' = FALSE
    /\ subscribed' = [k \in Kinds |-> FALSE] /\ pending' = [k \in Kinds |-> {}]
    /\ asking' = "idle" /\ missing' = {} /\ found' = {}

Crash ==
    /\ pc # "down" /\ crashes < MaxCrash
    /\ crashes' = crashes + 1
    /\ Down
    /\ UNCHANGED <<chainVars, dbVars, start, upTo, subErrs, asks>>

-----------------------------------------------------------------------------
(* /unbondingLocks *)

\* The web server starts after the services.  NextUnbondingLockId is the number of
\* locks made.
GetDelegator ==
    /\ watching /\ asking = "idle" /\ asks < MaxAsk
    /\ asks' = asks + 1
    /\ asking' = "ids" /\ missing' = {i \in Ids : at["unbond"][i] # 0}
    /\ UNCHANGED <<chainVars, dbVars, svcVars, pending, watching, found, crashes, subErrs>>

\* db.UnbondingLockIDs: the locks that have a row, used or not.
LockIDs == {i \in Ids : locks[i] # "none"}

\* Only the numbers are compared.  The ids that have a row are taken out of a map whose
\* keys are pointers, so that all of them stay.
UnbondingLockIDs ==
    /\ asking = "ids"
    /\ \/ /\ Cardinality(LockIDs) < Cardinality(missing)
          /\ asking' = "fill" /\ UNCHANGED missing
       \/ /\ Cardinality(LockIDs) >= Cardinality(missing)
          /\ asking' = "idle" /\ missing' = {}
    /\ UNCHANGED <<chainVars, dbVars, svcVars, pending, watching, found, asks, crashes, subErrs>>

\* A lock that has been used, or cannot be queried, is left out.
GetDelegatorUnbondingLock(i) ==
    /\ asking = "fill" /\ found = {} /\ i \in missing
    /\ missing' = missing \ {i}
    /\ \/ found' = {}
       \/ (\A k \in Uses : at[k][i] = 0) /\ found' = {i}
    /\ UNCHANGED <<chainVars, dbVars, svcVars, pending, watching, asking, asks, crashes, subErrs>>

InsertFound ==
    /\ found # {}
    /\ locks' = InsertUnbondingLock(locks, found)
    /\ found' = {}
    /\ UNCHANGED <<chainVars, lastBlock, svcVars, pending, watching, asking, missing, asks,
                   crashes, subErrs>>

Filled ==
    /\ asking = "fill" /\ missing = {} /\ found = {}
    /\ asking' = "idle"
    /\ UNCHANGED <<chainVars, dbVars, svcVars, pending, watching, missing, found, asks,
                   crashes, subErrs>>

-----------------------------------------------------------------------------
Init ==
    /\ height = 1 /\ at = [k \in Kinds |-> [i \in Ids |-> 0]]
    /\ lastBlock = 0 /\ locks = [i \in Ids |-> "none"]
    /\ pc = "down" /\ start = 0 /\ filtered = FALSE /\ logs = {} /\ upTo = [k \in Kinds |-> 0]
    /\ subscribed = [k \in Kinds |-> FALSE] /\ pending = [k \in Kinds |-> {}]
    /\ watching = FALSE /\ crashes = 0 /\ subErrs = 0
    /\ asking = "idle" /\ missing = {} /\ found = {} /\ asks = 0

ProcessHistoricalEvents ==
    \/ HistoricalFails
    \/ \E k \in Kinds :
          FilterLogs(k) \/ LogsEnd(k) \/ \E i \in Ids : ReplayCut(k, i)
    \/ \E i \in Ids : ProcessHistoricalUnbond(i) \/ \E k \in Uses : ProcessHistoricalUse(k, i)

Next ==
    \/ Mine \/ StartService \/ ProcessHistoricalEvents
    \/ \E k \in Kinds : Watch(k) \/ SubErr(k)
    \/ \E i \in Ids : NewUnbond(i) \/ \E k \in Uses : NewUse(k, i)
    \/ StartBlockService \/ SetLastSeenBlock \/ Crash
    \/ GetDelegator \/ UnbondingLockIDs \/ InsertFound \/ Filled
    \/ \E i \in Ids : GetDelegatorUnbondingLock(i)

Spec == Init /\ [][Next]_vars

-----------------------------------------------------------------------------
(* Properties *)

\* Shapes of the state; the worker selects only with all three subscriptions.
TypeOK ==
    /\ height \in 1 .. MaxBlock /\ at \in [Kinds -> [Ids -> 0 .. height]]
    /\ lastBlock \in 0 .. height /\ locks \in [Ids -> {"none", "unused", "used"}]
    /\ pc \in {"down", "watch", "select"} \union Kinds
    /\ start \in 0 .. lastBlock /\ filtered \in BOOLEAN /\ logs \subseteq Ids /\ upTo \in [Kinds -> 0 .. height]
    /\ subscribed \in [Kinds -> BOOLEAN] /\ pending \in [Kinds -> SUBSET Ids]
    /\ watching \in BOOLEAN
    /\ pc = "select" => \A k \in Kinds : subscribed[k]
    /\ asking \in {"idle", "ids", "fill"} /\ missing \subseteq Ids /\ found \subseteq Ids
    /\ crashes \in 0 .. MaxCrash /\ subErrs \in 0 .. MaxSubErr /\ asks \in 0 .. MaxAsk

\* A lock recorded as used stays so, however often the node restarts and replays
\* the event that made it.
KeepsUsed == \A i \in Ids : locks[i] = "used" => locks'[i] = "used"
UsedForGood == [][KeepsUsed]_vars

\* When a replay is over, for the locks made since the last block seen before the restart,
\* that block included, and up to the block the replay of locks came to: they are
\* recorded, and as used if a use of theirs is in the blocks the replay of uses came to.
\* That is so however a replay ends, with an error, with a log that does not unpack or
\* whole, and whatever crash cut the one before short.
ReplayComplete ==
    pc \in {"watch", "select"} =>
        \A i \in Ids :
            at["unbond"][i] \in start .. upTo["unbond"] /\ at["unbond"][i] # 0 =>
                /\ locks[i] # "none"
                /\ \A k \in Uses : at[k][i] \in 1 .. upTo[k] => locks[i] = "used"

\* StartEthServices (core/livepeernode.go): the block service is initialized last "so
\* other services can create filters starting from the last seen block".  When the
\* replay is over, the locks made since then are recorded, unless the Ethereum
\* client failed.
RecordsHistory ==
    pc = "unbond" /\ filtered /\ ~filtered' /\ pc' # "down" =>
        \A i \in Historical("unbond") : locks'[i] # "none"
HistoryRecorded == [][RecordsHistory]_vars

\* /unbondingLocks: "If lock has been used (i.e. withdrawRound == 0) do not insert into
\* DB".  A lock that has been used is inserted only if the event of its use is still
\* to be handled.
InsertsUnused ==
    InsertFound => \A i \in found : locks[i] = "none" =>
        \A k \in Uses : at[k][i] = 0 \/ i \in pending[k]
UseRecorded == [][InsertsUnused]_vars
=============================================================================
