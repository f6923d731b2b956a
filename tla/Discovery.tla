------------------------------ MODULE Discovery ------------------------------
(****************************************************************************)
(* How a broadcaster finds orchestrators (discovery/): a refresh, at the     *)
(* start and by the hour, walks the on-chain pool and updates the table of   *)
(* orchestrators (common/db.go); GetOrchestrators asks those updated within  *)
(* a day, all at once, and takes the first that answer.                      *)
(*                                                                           *)
(* The pool on chain is a linked list in the bonding contract, outside this  *)
(* repository; it changes while it is walked.  Time is counted in refresh    *)
(* intervals, and a refresh takes less than one.                             *)
(****************************************************************************)
EXTENDS Naturals, Sequences, FiniteSets

CONSTANTS
    Orchs,             \* orchestrators, by Ethereum address
    StartPool,         \* the pool when the broadcaster starts
    NumOrchestrators,  \* how many GetOrchestrators is asked for
    MaxAge,            \* the day of selectOrchs, in refresh intervals
    MaxTime,           \* bound: refresh intervals
    MaxChanges,        \* bound: orchestrators that leave or join the pool
    None

DiscoveryAssumption ==
    /\ NumOrchestrators \in Nat \ {0}
    /\ MaxAge \in Nat /\ MaxTime \in Nat /\ MaxChanges \in Nat
    /\ None \notin Orchs /\ StartPool \in Seq(Orchs)

VARIABLES
    now, pool, changes,  \* time, the on-chain pool and how often it changed
    lastIn,              \* history: when an orchestrator was last in the pool
    rpc, tAddr, found,   \* refresh: next step, cursor, transcoders found
    updatedAt,           \* table orchestrators: row of an address, None if none
    pc, uris,            \* GetOrchestrators: next step, whom it asks
    orchInfos, numResp,  \* answers and number of responses
    respLock,            \* None, "main" or the goroutine that holds it
    gpc,                 \* goroutine getOrchInfo: next step
    timedOut,            \* history: the context expired
    returnOrchs          \* what GetOrchestrators returned

chainVars == <<now, pool, changes, lastIn>>
cacheVars == <<rpc, tAddr, found, updatedAt>>
callVars == <<pc, uris, timedOut, returnOrchs>>
respVars == <<orchInfos, numResp, respLock, gpc>>
vars == <<chainVars, cacheVars, callVars, respVars>>

Members(p) == {p[i] : i \in DOMAIN p}

InPool(o) == o \in Members(pool)

-----------------------------------------------------------------------------
(* The chain, and time *)

\* Every orchestrator in the pool at any time of an interval counts for it.
Seen(p, t) == [o \in Orchs |-> IF o \in Members(p) THEN t ELSE lastIn[o]]

Change(p) ==
    /\ changes < MaxChanges
    /\ changes' = changes + 1
    /\ pool' = p
    /\ lastIn' = Seen(p, now)
    /\ UNCHANGED <<now, cacheVars, callVars, respVars>>

Leave(o) ==
    \E i \in 1 .. Len(pool) :
        /\ pool[i] = o
        /\ Change(SubSeq(pool, 1, i - 1) \o SubSeq(pool, i + 1, Len(pool)))

Join(o) ==
    /\ ~InPool(o)
    /\ \E i \in 0 .. Len(pool) :
          Change(SubSeq(pool, 1, i) \o <<o>> \o SubSeq(pool, i + 1, Len(pool)))

Tick ==
    /\ now < MaxTime /\ rpc = "idle"
    /\ now' = now + 1
    /\ lastIn' = Seen(pool, now + 1)
    /\ UNCHANGED <<pool, changes, cacheVars, callVars, respVars>>

-----------------------------------------------------------------------------
(* cacheRegisteredTranscoders *)

First == IF pool = <<>> THEN None ELSE Head(pool)

\* The contract answers the null address for one that is not in the pool.
GetNextTranscoderInPool(o) ==
    LET after == {i \in 2 .. Len(pool) : pool[i - 1] = o} IN
    IF after = {} THEN None ELSE pool[CHOOSE i \in after : TRUE]

GetFirstTranscoderInPool ==
    /\ rpc = "idle"
    /\ tAddr' = First /\ found' = {}
    /\ rpc' = "walk"
    /\ UNCHANGED <<updatedAt, chainVars, callVars, respVars>>

\* GetTranscoder answers for an address whether or not it is in the pool, so that
\* only the block at which GetNextTranscoderInPool is asked matters.
RegisteredTranscoders ==
    /\ rpc = "walk" /\ tAddr # None
    /\ found' = found \union {tAddr}
    /\ tAddr' = GetNextTranscoderInPool(tAddr)
    /\ UNCHANGED <<rpc, updatedAt, chainVars, callVars, respVars>>

\* An error of the client ends the refresh; nothing is stored.
WalkFails ==
    /\ rpc = "walk"
    /\ rpc' = "idle"
    /\ UNCHANGED <<tAddr, found, updatedAt, chainVars, callVars, respVars>>

\* Mutant: the rows of orchestrators that were not found are renewed as well.
cacheDBOrchs_AllRows ==
    /\ rpc = "walk" /\ tAddr = None
    /\ updatedAt' = [o \in Orchs |->
                       IF o \in found \/ updatedAt[o] # None THEN now ELSE None]
    /\ rpc' = "idle"
    /\ UNCHANGED <<tAddr, found, chainVars, callVars, respVars>>

\* Insert or replace a row for each; those that fail are skipped.
cacheDBOrchs ==
    /\ rpc = "walk" /\ tAddr = None
    /\ \E stored \in SUBSET found :
          updatedAt' = [o \in Orchs |-> IF o \in stored THEN now ELSE updatedAt[o]]
    /\ rpc' = "idle"
    /\ UNCHANGED <<tAddr, found, chainVars, callVars, respVars>>

-----------------------------------------------------------------------------
(* GetOrchestrators *)

SelectOrchs == {o \in Orchs : updatedAt[o] # None /\ updatedAt[o] + MaxAge >= now}

Return(orchs) ==
    /\ returnOrchs' = orchs
    /\ pc' = "done"

\* Addresses whose URIs cannot be parsed are left out of the pool; the others are
\* all asked at once, so that the order they are shuffled to does not matter.
NewOrchestratorPool(addresses) == SUBSET addresses

\* DBOrchestratorPoolCache.GetOrchestrators: without rows it returns at once.
GetOrchestrators ==
    /\ pc = "idle"
    /\ IF SelectOrchs = {}
         THEN Return(<<>>) /\ UNCHANGED <<uris, gpc>>
         ELSE /\ uris' \in NewOrchestratorPool(SelectOrchs)
              /\ gpc' = [o \in Orchs |-> IF o \in uris' THEN "call" ELSE "none"]
              /\ pc' = "select"
              /\ UNCHANGED returnOrchs
    /\ UNCHANGED <<chainVars, cacheVars, timedOut, orchInfos, numResp, respLock>>

Enough(infos, resps) == Len(infos) >= NumOrchestrators \/ resps >= Cardinality(uris)

\* GetOrchestratorInfo has returned, with the information or an error; the
\* response is counted under the lock.
getOrchInfo(o) ==
    /\ gpc[o] = "call" /\ respLock = None
    /\ respLock' = o
    /\ numResp' = numResp + 1
    /\ orchInfos' \in {orchInfos, Append(orchInfos, o)}
    /\ gpc' = [gpc EXCEPT ![o] = IF Enough(orchInfos', numResp') THEN "send" ELSE "unlock"]
    /\ UNCHANGED <<chainVars, cacheVars, callVars>>

\* orchChan is unbuffered: the send waits, with the lock held, for the select.
SignalMain(o) ==
    /\ gpc[o] = "send" /\ pc = "select"
    /\ gpc' = [gpc EXCEPT ![o] = "unlock"]
    /\ pc' = "lock"
    /\ UNCHANGED <<chainVars, cacheVars, uris, timedOut, returnOrchs, orchInfos, numResp, respLock>>

Unlock(o) ==
    /\ gpc[o] = "unlock"
    /\ gpc' = [gpc EXCEPT ![o] = "done"]
    /\ respLock' = None
    /\ UNCHANGED <<chainVars, cacheVars, callVars, orchInfos, numResp>>

\* GetOrchestratorsTimeoutLoop
Timeout ==
    /\ pc = "select"
    /\ timedOut' = TRUE
    /\ pc' = "lock"
    /\ UNCHANGED <<chainVars, cacheVars, uris, returnOrchs, respVars>>

\* Under the lock, which is given back at once.
ReturnOrchs ==
    /\ pc = "lock" /\ respLock = None
    /\ Return(SubSeq(orchInfos, 1, IF Len(orchInfos) < NumOrchestrators
                                   THEN Len(orchInfos) ELSE NumOrchestrators))
    /\ UNCHANGED <<chainVars, cacheVars, uris, timedOut, respVars>>

-----------------------------------------------------------------------------
Init ==
    /\ now = 0 /\ changes = 0
    /\ pool = StartPool
    /\ lastIn = [o \in Orchs |-> 0]
    /\ rpc = "idle" /\ tAddr = None /\ found = {}
    /\ updatedAt = [o \in Orchs |-> None]
    /\ pc = "idle" /\ uris = {} /\ timedOut = FALSE /\ returnOrchs = <<>>
    /\ orchInfos = <<>> /\ numResp = 0 /\ respLock = None
    /\ gpc = [o \in Orchs |-> "none"]

Refresh == GetFirstTranscoderInPool \/ RegisteredTranscoders \/ WalkFails \/ cacheDBOrchs

Respond(o) == getOrchInfo(o) \/ SignalMain(o) \/ Unlock(o)

Next ==
    \/ Tick \/ Refresh
    \/ GetOrchestrators \/ Timeout \/ ReturnOrchs
    \/ \E o \in Orchs : Leave(o) \/ Join(o) \/ Respond(o)

Spec == Init /\ [][Next]_vars

\* Goroutines run; requests to orchestrators have an end, and the context expires.
FairSpec ==
    /\ Spec
    /\ WF_vars(Timeout) /\ WF_vars(ReturnOrchs)
    /\ \A o \in Orchs : WF_vars(Respond(o))

-----------------------------------------------------------------------------
(* Properties *)

\* Shapes of the state; respLock is held by the goroutine that is past it, and
\* by one at a time.
TypeOK ==
    /\ now \in 0..MaxTime /\ changes \in 0..MaxChanges
    /\ pool \in Seq(Orchs)
    /\ lastIn \in [Orchs -> 0..MaxTime]
    /\ rpc \in {"idle", "walk"} /\ tAddr \in Orchs \union {None} /\ found \subseteq Orchs
    /\ \A o \in Orchs : updatedAt[o] = None \/ updatedAt[o] \in 0..now
    /\ pc \in {"idle", "select", "lock", "done"}
    /\ uris \subseteq Orchs /\ timedOut \in BOOLEAN
    /\ orchInfos \in Seq(uris) /\ returnOrchs \in Seq(uris)
    /\ numResp \in 0..Cardinality(uris)
    /\ gpc \in [Orchs -> {"none", "call", "send", "unlock", "done"}]
    /\ \A o \in Orchs : respLock = o <=> gpc[o] \in {"send", "unlock"}

\* An orchestrator that has left the pool is not asked any more a day later: the
\* age of a row in the table is that of the last refresh that found it.
AsksFresh == \A o \in uris' \ uris : lastIn[o] + MaxAge >= now
AskedWhileFresh == [][AsksFresh]_vars

\* startSession (server/mediaserver.go), which calls GetOrchestrators, is to
\* "retry for as long as the RTMP stream is alive".  For that the call has to return.
GetOrchestratorsReturns == (pc = "select") ~> (pc = "done")
=============================================================================
