------------------------- MODULE ChainServicesProofs -------------------------
(****************************************************************************)
(* Proofs about what follows the chain: the initialization of rounds        *)
(* (RoundsService), the record of unbonding locks (UnbondingService) and the*)
(* iterators over past events (ContractEvents).                             *)
(****************************************************************************)
EXTENDS ChainServices, Integers, Sequences, TLAPS

\* An element at the end of a sequence
LEMMA Appended ==
    ASSUME NEW T, NEW q \in Seq(T), NEW e \in T
    PROVE  /\ Append(q, e) \in Seq(T) /\ Len(Append(q, e)) = Len(q) + 1
           /\ Append(q, e)[Len(q) + 1] = e /\ \A i \in 1 .. Len(q) : Append(q, e)[i] = q[i]
OBVIOUS

-----------------------------------------------------------------------------
(* RoundsService *)

\* A transaction that was mined, with success or not, found the round initialized, or
\* initialized it; the last round initialized only grows.
RoundsInv ==
    /\ blk \in Int /\ initRound \in Int /\ minedIn \in [Nodes -> Int]
    /\ \A n \in Nodes : minedIn[n] <= initRound
    /\ WatchesAfterRace

LEMMA CurrentRoundInt == RoundsInv => I!CurrentRound \in Int
BY ServicesAssumption DEF RoundsInv, I!RoundsAssumption, I!CurrentRound

LEMMA RoundsMine ==
    ASSUME RoundsInv, NEW c \in calls, I!Mine(c)
    PROVE  RoundsInv'
<1>1. PICK r \in Int : r = I!CurrentRound
  BY CurrentRoundInt, Zenon
<1>2. /\ UNCHANGED <<blk, stopped>>
      /\ initRound' = IF initRound >= r THEN initRound ELSE r
      /\ minedIn' = [minedIn EXCEPT ![c.node] = r] \/ minedIn' = minedIn
  BY <1>1, Zenon DEF I!Mine, I!CurrentRoundInitialized
<1>3. initRound' \in Int /\ initRound <= initRound' /\ r <= initRound'
  BY <1>1, <1>2 DEF RoundsInv
<1>4. minedIn' \in [Nodes -> Int] /\ \A n \in Nodes : minedIn'[n] = r \/ minedIn'[n] = minedIn[n]
  BY <1>2, Zenon DEF RoundsInv
<1>5. ASSUME NEW n \in Nodes PROVE minedIn'[n] <= initRound'
  <2>1. minedIn[n] \in Int /\ minedIn[n] <= initRound /\ initRound \in Int
    BY Zenon DEF RoundsInv
  <2> QED
    BY <1>1, <1>3, <1>4, <2>1
<1> QED
  BY <1>2, <1>3, <1>4, <1>5, Zenon DEF RoundsInv, WatchesAfterRace, I!WatchesAfterRace

LEMMA RoundsRecheck ==
    ASSUME RoundsInv, NEW n \in Nodes, I!Recheck(n)
    PROVE  RoundsInv'
<1>1. UNCHANGED <<blk, initRound, minedIn>>
  BY Zenon DEF I!Recheck, I!chainVars
<1>2. CASE I!CurrentRoundInitialized
  BY <1>1, <1>2, Zenon DEF I!Recheck, RoundsInv, WatchesAfterRace, I!WatchesAfterRace
<1>3. CASE ~I!CurrentRoundInitialized
  <2>1. PICK s : /\ s = [node |-> n, why |-> result[n], sameRound |-> minedIn[n] = I!CurrentRound]
                 /\ stopped' = stopped \union {s}
    BY <1>3, Zenon DEF I!Recheck, I!StopWatching
  <2>2. minedIn[n] # I!CurrentRound
    <3>1. I!CurrentRound \in Int /\ minedIn[n] \in Int /\ initRound \in Int /\ minedIn[n] <= initRound
      BY CurrentRoundInt, Zenon DEF RoundsInv
    <3> QED
      BY <1>3, <3>1 DEF I!CurrentRoundInitialized
  <2>3. ~s.sameRound
    BY <2>1, <2>2, Zenon
  <2> QED
    BY <1>1, <2>1, <2>3, Zenon DEF RoundsInv, WatchesAfterRace, I!WatchesAfterRace
<1> QED
  BY <1>2, <1>3, Zenon

\* roundservice.go, tryInitializeRound: for any set of orchestrators, any pools that they
\* find and any delay of their headers and queries, one whose transaction reverts, since the
\* round is initialized, does not stop watching in that round.
THEOREM AlwaysWatchesAfterRace == I!Spec => []WatchesAfterRace
<1>1. I!Init => RoundsInv
  BY ServicesAssumption DEF I!RoundsAssumption, I!Init, RoundsInv, WatchesAfterRace, I!WatchesAfterRace
<1>2. RoundsInv /\ [I!Next]_I!vars => RoundsInv'
  <2> SUFFICES ASSUME RoundsInv, [I!Next]_I!vars PROVE RoundsInv'
    BY Zenon
  <2>1. CASE I!NewBlock
    <3>1. blk' = blk + 1 /\ UNCHANGED <<initRound, minedIn, stopped>> /\ blk' \in Int
      BY <2>1 DEF I!NewBlock, RoundsInv
    <3> QED
      BY <3>1, Zenon DEF RoundsInv, WatchesAfterRace, I!WatchesAfterRace
  <2>2. ASSUME NEW c \in calls, I!Mine(c) PROVE RoundsInv'
    BY <2>2, RoundsMine, Zenon
  <2>3. ASSUME NEW n \in Nodes, I!Recheck(n) PROVE RoundsInv'
    BY <2>3, RoundsRecheck, Zenon
  <2>4. ASSUME UNCHANGED <<blk, initRound, minedIn, stopped>> PROVE RoundsInv'
    BY <2>4, Zenon DEF RoundsInv, WatchesAfterRace, I!WatchesAfterRace
  <2>5. CASE I!PoolChanges \/ (\E c \in calls : I!CallFails(c)) \/ UNCHANGED I!vars
    BY <2>4, <2>5, Zenon DEF I!PoolChanges, I!CallFails, I!vars, I!chainVars
  <2>6. ASSUME NEW n \in Nodes, I!Node(n), ~I!Recheck(n) PROVE RoundsInv'
    BY <2>4, <2>6, Zenon
       DEF I!Node, I!SubErr, I!Subscribe, I!tryInitializeRound, I!shouldInitializeRound,
         I!RegisteredTranscoders, I!NumActiveTranscoders, I!InitializeRound, I!CheckTx,
         I!QueryFails, I!chainVars
  <2> QED
    BY <2>1, <2>2, <2>3, <2>5, <2>6, Zenon DEF I!Next
<1>3. RoundsInv => WatchesAfterRace
  BY Zenon DEF RoundsInv
<1> QED
  BY <1>1, <1>2, <1>3, PTL DEF I!Spec

-----------------------------------------------------------------------------
(* UnbondingService *)

LockState == {"none", "unused", "used"}

ChainTypes ==
    /\ height \in Nat /\ at \in [U!Kinds -> [Ids -> Nat]]
    /\ \A k \in U!Kinds : \A i \in Ids : at[k][i] <= height
    /\ \A k \in U!Uses : \A i \in Ids :
          at[k][i] # 0 => at["unbond"][i] # 0 /\ at["unbond"][i] <= at[k][i]

ReplayTypes ==
    /\ locks \in [Ids -> LockState] /\ lastBlock \in Nat /\ start \in Nat
    /\ upTo \in [U!Kinds -> Nat] /\ \A k \in U!Kinds : upTo[k] <= height
    /\ upc = "unbond" => \A k \in U!Uses : upTo[k] = 0
    /\ logs \subseteq Ids /\ (logs # {} => upc \in U!Kinds /\ filtered)
    /\ upc \in U!Kinds => \A i \in logs : at[upc][i] # 0 /\ at[upc][i] <= upTo[upc]

\* The lock was made in the blocks that were replayed.
Replayed(i) ==
    at["unbond"][i] # 0 /\ start <= at["unbond"][i] /\ at["unbond"][i] <= upTo["unbond"]

\* The event of the lock is among the logs still to be handled.
ToCome(k, i) == upc = k /\ i \in logs

\* So far as the replay has come, it has recorded what it met.
RecordedOf(i) ==
    /\ locks[i] # "none" \/ ToCome("unbond", i)
    /\ \A k \in U!Uses : at[k][i] # 0 /\ at[k][i] <= upTo[k] => locks[i] = "used" \/ ToCome(k, i)
Recorded == upc # "down" => \A i \in Ids : Replayed(i) => RecordedOf(i)

UnbondingInv == ChainTypes /\ ReplayTypes /\ Recorded

\* A row is never taken out of the table, nor made unused again.
Grows ==
    /\ locks' \in [Ids -> LockState]
    /\ \A i \in Ids : locks[i] # "none" => locks'[i] # "none"
    /\ \A i \in Ids : locks[i] = "used" => locks'[i] = "used"

LEMMA InsertGrows ==
    ASSUME locks \in [Ids -> LockState], NEW ids, locks' = U!InsertUnbondingLock(locks, ids)
    PROVE  Grows /\ \A i \in Ids : i \in ids => locks'[i] # "none"
BY Zenon DEF U!InsertUnbondingLock, Grows, LockState

LEMMA UseGrows ==
    ASSUME locks \in [Ids -> LockState], NEW ids, locks' = U!UseUnbondingLock(locks, ids)
    PROVE  Grows /\ \A i \in Ids : i \in ids /\ locks[i] # "none" => locks'[i] = "used"
BY Zenon DEF U!UseUnbondingLock, Grows, LockState

LEMMA LocksGrow ==
    ASSUME locks \in [Ids -> LockState], [U!Next]_U!vars
    PROVE  Grows
<1>0. ASSUME UNCHANGED locks PROVE Grows
  BY <1>0, Zenon DEF Grows
<1>1. CASE U!ProcessHistoricalEvents
  <2>1. ASSUME NEW i \in Ids, U!ProcessHistoricalUnbond(i) PROVE Grows
    BY <2>1, InsertGrows, Zenon DEF U!ProcessHistoricalUnbond
  <2>2. ASSUME NEW k, NEW i, U!ProcessHistoricalUse(k, i) PROVE Grows
    BY <2>2, UseGrows, Zenon DEF U!ProcessHistoricalUse
  <2>3. ASSUME NEW k, U!FilterLogs(k) \/ U!LogsEnd(k) \/ (\E i \in Ids : U!ReplayCut(k, i)) PROVE Grows
    BY <1>0, <2>3, Zenon DEF U!FilterLogs, U!LogsEnd, U!ReplayCut
  <2>4. CASE U!HistoricalFails
    BY <1>0, <2>4, Zenon DEF U!HistoricalFails
  <2> QED
    BY <1>1, <2>1, <2>2, <2>3, <2>4, Zenon DEF U!ProcessHistoricalEvents
<1>2. ASSUME NEW i \in Ids, U!NewUnbond(i) \/ \E k \in U!Uses : U!NewUse(k, i) PROVE Grows
  BY <1>2, InsertGrows, UseGrows, Zenon DEF U!NewUnbond, U!NewUse
<1>3. CASE U!InsertFound
  BY <1>3, InsertGrows, Zenon DEF U!InsertFound
<1>4. CASE \/ U!Mine \/ U!StartService \/ \E k \in U!Kinds : U!Watch(k) \/ U!SubErr(k)
           \/ U!StartBlockService \/ U!SetLastSeenBlock \/ U!Crash
           \/ U!GetDelegator \/ U!UnbondingLockIDs \/ U!Filled
           \/ \E i \in Ids : U!GetDelegatorUnbondingLock(i)
           \/ UNCHANGED U!vars
  <2>1. UNCHANGED locks
    BY <1>4, Zenon DEF U!Mine, U!NewBlock, U!StartService, U!Watch, U!SubErr, U!StartBlockService,
         U!SetLastSeenBlock, U!Crash, U!GetDelegator, U!UnbondingLockIDs, U!Filled,
         U!GetDelegatorUnbondingLock, U!vars, U!dbVars
  <2> QED
    BY <1>0, <2>1, Zenon
<1> QED
  BY <1>1, <1>2, <1>3, <1>4, Zenon DEF U!Next

LEMMA UnbondingMine ==
    ASSUME UnbondingInv, U!Mine
    PROVE  UnbondingInv'
<1>1. PICK made \in SUBSET {i \in Ids : at["unbond"][i] = 0} :
          \E used \in SUBSET {i \in Ids :
                                 /\ i \in made \/ at["unbond"][i] # 0
                                 /\ \A k \in U!Uses : at[k][i] = 0} :
          \E rebonded \in SUBSET used :
              U!NewBlock([unbond |-> made, rebond |-> rebonded,
                          withdrawStake |-> used \ rebonded])
  BY Zenon DEF U!Mine
<1>a. PICK used \in SUBSET {i \in Ids :
                              /\ i \in made \/ at["unbond"][i] # 0
                              /\ \A k \in U!Uses : at[k][i] = 0} :
          \E rebonded \in SUBSET used :
              U!NewBlock([unbond |-> made, rebond |-> rebonded,
                          withdrawStake |-> used \ rebonded])
  BY <1>1, Zenon
<1>b. PICK rebonded \in SUBSET used :
          U!NewBlock([unbond |-> made, rebond |-> rebonded, withdrawStake |-> used \ rebonded])
  BY <1>a, Zenon
<1> DEFINE new == [unbond |-> made, rebond |-> rebonded, withdrawStake |-> used \ rebonded]
           AtOf(k) == [i \in Ids |-> IF i \in new[k] THEN height + 1 ELSE at[k][i]]
<1>2. /\ height' = height + 1 /\ UNCHANGED <<locks, lastBlock, upc, start, filtered, logs, upTo>>
      /\ at' = [k \in U!Kinds |-> AtOf(k)]
  BY <1>b, Zenon DEF U!NewBlock, U!dbVars, U!svcVars
<1>3. new["unbond"] = made /\ \A k \in U!Uses : new[k] \subseteq used
  BY DEF U!Uses
<1>4. \A k \in U!Kinds : new[k] \subseteq {i \in Ids : at[k][i] = 0}
  BY <1>3, Zenon DEF U!Kinds, U!Uses
<1> HIDE DEF new
<1>5. /\ at' \in [U!Kinds -> [Ids -> Nat]]
      /\ \A k \in U!Kinds : \A i \in Ids :
            at'[k][i] = (IF i \in new[k] THEN height + 1 ELSE at[k][i])
  BY <1>2 DEF UnbondingInv, ChainTypes
<1>6. "unbond" \in U!Kinds /\ U!Uses \subseteq U!Kinds
  BY Zenon DEF U!Kinds, U!Uses
<1>7. ChainTypes'
  <2>1. height' \in Nat /\ \A k \in U!Kinds : \A i \in Ids : at'[k][i] <= height'
    BY <1>2, <1>5 DEF UnbondingInv, ChainTypes
  <2>2. ASSUME NEW k \in U!Uses, NEW i \in Ids, at'[k][i] # 0
        PROVE  at'["unbond"][i] # 0 /\ at'["unbond"][i] <= at'[k][i]
    <3>1. CASE i \in new[k]
      <4>1. i \in made \/ at["unbond"][i] # 0
        BY <1>3, <3>1, Zenon
      <4> QED
        BY <1>3, <1>5, <1>6, <3>1, <4>1 DEF UnbondingInv, ChainTypes
    <3>2. CASE i \notin new[k]
      <4>1. at[k][i] # 0 /\ at'[k][i] = at[k][i]
        BY <1>5, <1>6, <2>2, <3>2, Zenon
      <4>2. at["unbond"][i] # 0 /\ at["unbond"][i] <= at[k][i]
        BY <4>1, Zenon DEF UnbondingInv, ChainTypes
      <4>3. i \notin new["unbond"]
        BY <1>4, <1>6, <4>2, Zenon
      <4> QED
        BY <1>5, <1>6, <4>1, <4>2, <4>3, Zenon
    <3> QED
      BY <3>1, <3>2, Zenon
  <2> QED
    BY <1>5, <2>1, <2>2, Zenon DEF ChainTypes
<1>8. ReplayTypes'
  <2>1. \A k \in U!Kinds : upTo[k] <= height'
    BY <1>2, SMTT(30) DEF UnbondingInv, ReplayTypes, ChainTypes
  <2>2. \A k \in U!Kinds : \A i \in Ids : at[k][i] # 0 => at'[k][i] = at[k][i]
    BY <1>4, <1>5, Zenon
  <2> QED
    BY <1>2, <2>1, <2>2, Zenon DEF UnbondingInv, ReplayTypes
<1>9. Recorded'
  <2>1. ASSUME NEW k \in U!Kinds, NEW i \in Ids, at'[k][i] <= upTo[k]
        PROVE  at'[k][i] = at[k][i]
    BY <1>5, <2>1, SMTT(30) DEF UnbondingInv, ChainTypes, ReplayTypes
  <2> SUFFICES ASSUME upc # "down", NEW i \in Ids, Replayed(i)'
               PROVE  RecordedOf(i)'
    BY <1>2, Zenon DEF Recorded
  <2>2. Replayed(i)
    BY <1>2, <1>6, <2>1, Zenon DEF Replayed
  <2>3. RecordedOf(i)
    BY <2>2, Zenon DEF UnbondingInv, Recorded
  <2> QED
    BY <1>2, <1>6, <2>1, <2>3, Zenon DEF RecordedOf, ToCome
<1> QED
  BY <1>7, <1>8, <1>9, Zenon DEF UnbondingInv

\* The replay starts from the last block that was seen.
LEMMA UnbondingStart ==
    ASSUME UnbondingInv, U!StartService
    PROVE  UnbondingInv'
<1>1. /\ start' = lastBlock /\ upTo' = [k \in U!Kinds |-> 0] /\ upc = "down"
      /\ UNCHANGED <<height, at, locks, lastBlock, logs>>
  BY Zenon DEF U!StartService, U!chainVars, U!dbVars
<1>2. ReplayTypes'
  <2>1. logs = {} /\ U!Uses \subseteq U!Kinds
    BY <1>1, Zenon DEF UnbondingInv, ReplayTypes, U!Kinds, U!Uses
  <2> QED
    BY <1>1, <2>1 DEF UnbondingInv, ReplayTypes, ChainTypes
<1>3. Recorded'
  <2>1. \A i \in Ids : ~Replayed(i)'
    <3>1. "unbond" \in U!Kinds
      BY Zenon DEF U!Kinds
    <3> QED
      BY <1>1, <3>1 DEF UnbondingInv, ChainTypes, Replayed
  <2> QED
    BY <2>1, Zenon DEF Recorded
<1> QED
  BY <1>1, <1>2, <1>3, Zenon DEF UnbondingInv, ChainTypes

\* A step that leaves the chain, and how far the replay has come, alone
LEMMA UnbondingElse ==
    ASSUME UnbondingInv, Grows, UNCHANGED <<height, at, start, upTo, filtered, logs>>, lastBlock' \in Nat,
           \/ upc' = upc
           \/ upc # "down" /\ logs = {} /\ upc' # "unbond"
    PROVE  UnbondingInv'
<1>1. ChainTypes' /\ ReplayTypes'
  BY Zenon DEF UnbondingInv, ChainTypes, ReplayTypes, Grows
<1>2. Recorded'
  BY Zenon DEF UnbondingInv, Recorded, RecordedOf, Replayed, ToCome, Grows
<1> QED
  BY <1>1, <1>2, Zenon DEF UnbondingInv

\* What is left of a replay after a crash is not used.
LEMMA UnbondingCrash ==
    ASSUME UnbondingInv, U!Crash
    PROVE  UnbondingInv'
<1>1. UNCHANGED <<height, at, start, upTo, locks, lastBlock>> /\ upc' = "down" /\ logs' = {}
  BY Zenon DEF U!Crash, U!Down, U!Leave, U!chainVars, U!dbVars
<1> QED
  BY <1>1, Zenon DEF UnbondingInv, ChainTypes, ReplayTypes, Recorded, U!Kinds

LEMMA KindNames == "unbond" \in U!Kinds /\ U!Uses \subseteq U!Kinds /\ "unbond" \notin U!Uses
BY Zenon DEF U!Kinds, U!Uses

LEMMA UnbondingFilter ==
    ASSUME UnbondingInv, NEW k \in U!Kinds, U!FilterLogs(k)
    PROVE  UnbondingInv'
<1>1. /\ UNCHANGED <<height, at, start, lastBlock, locks, upc>> /\ upc = k /\ filtered'
      /\ logs' = U!Historical(k) /\ upTo' = [upTo EXCEPT ![k] = height]
  BY Zenon DEF U!FilterLogs, U!replayVars, U!chainVars
<1>2. /\ ChainTypes /\ ReplayTypes /\ Recorded /\ height \in Nat /\ height <= height
  BY DEF UnbondingInv, ChainTypes
<1>3. upTo'[k] = height /\ \A j \in U!Kinds : j # k => upTo'[j] = upTo[j]
  BY <1>1, <1>2, Zenon DEF ReplayTypes
<1>4. ReplayTypes'
  <2>1. upTo' \in [U!Kinds -> Nat] /\ \A j \in U!Kinds : upTo'[j] <= height
    BY <1>1, <1>2, <1>3, Zenon DEF ReplayTypes
  <2>2. k = "unbond" => \A j \in U!Uses : upTo'[j] = 0
    BY <1>1, <1>2, <1>3, KindNames, Zenon DEF ReplayTypes
  <2>3. logs' \subseteq Ids /\ \A i \in logs' : at[k][i] # 0 /\ at[k][i] <= upTo'[k]
    BY <1>1, <1>2, <1>3, Zenon DEF U!Historical, ChainTypes
  <2> QED
    BY <1>1, <1>2, <2>1, <2>2, <2>3, Zenon DEF ReplayTypes
<1>5. ASSUME upc # "down", NEW i \in Ids, Replayed(i)'
      PROVE  RecordedOf(i)'
  <2>0. PICK u \in Nat : u = at["unbond"][i]
    BY <1>2, KindNames, Zenon DEF ChainTypes
  <2>1. u # 0 /\ start <= u /\ start \in Nat
    BY <1>1, <1>2, <1>5, <2>0, Zenon DEF Replayed, ReplayTypes
  <2>2. CASE k = "unbond"
    <3>1. i \in U!Historical("unbond")
      BY <2>0, <2>1 DEF U!Historical
    <3>2. \A j \in U!Uses : at[j][i] \in Nat /\ upTo'[j] = 0
      BY <1>1, <1>2, <1>3, <2>2, KindNames, Zenon DEF ReplayTypes, ChainTypes
    <3>3. \A j \in U!Uses : ~(at[j][i] # 0 /\ at[j][i] <= upTo'[j])
      BY <3>2
    <3> QED
      BY <1>1, <2>2, <3>1, <3>3, Zenon DEF RecordedOf, ToCome
  <2>3. CASE k # "unbond"
    <3>1. Replayed(i)
      BY <1>1, <1>3, <1>5, <2>3, KindNames, Zenon DEF Replayed
    <3>2. RecordedOf(i)
      BY <1>2, <1>5, <3>1, Zenon DEF Recorded
    <3>3. k \in U!Uses
      BY <2>3, Zenon DEF U!Kinds, U!Uses
    <3>4. at[k][i] # 0 => i \in U!Historical(k)
      <4>1. PICK v \in Nat : v = at[k][i]
        BY <1>2, Zenon DEF ChainTypes
      <4>2. v # 0 => u <= v
        BY <1>2, <2>0, <3>3, <4>1, Zenon DEF ChainTypes
      <4> QED
        BY <2>0, <2>1, <4>1, <4>2 DEF U!Historical
    <3>5. \A j \in U!Uses : j # k => upTo'[j] = upTo[j]
      BY <1>3, KindNames, Zenon
    <3> QED
      BY <1>1, <2>3, <3>2, <3>3, <3>4, <3>5, Zenon DEF RecordedOf, ToCome
  <2> QED
    BY <2>2, <2>3, Zenon
<1>6. Recorded'
  BY <1>1, <1>5, Zenon DEF Recorded
<1> QED
  BY <1>1, <1>2, <1>4, <1>6, Zenon DEF UnbondingInv, ChainTypes

\* A log that is handled is not to come any more.
LEMMA UnbondingLog ==
    ASSUME UnbondingInv, NEW i \in Ids,
           U!ProcessHistoricalUnbond(i) \/ \E k \in U!Uses : U!ProcessHistoricalUse(k, i)
    PROVE  UnbondingInv'
<1>1. UNCHANGED <<height, at, start, upTo, lastBlock, upc, filtered>> /\ logs' = logs \ {i} /\ upc \in U!Kinds
  BY KindNames, Zenon DEF U!ProcessHistoricalUnbond, U!ProcessHistoricalUse, U!First, U!replayVars, U!chainVars
<1>2. ChainTypes /\ ReplayTypes /\ Recorded
  BY Zenon DEF UnbondingInv
<1>3. Grows
  BY <1>2, InsertGrows, UseGrows, Zenon DEF ReplayTypes, U!ProcessHistoricalUnbond, U!ProcessHistoricalUse
<1>4. ChainTypes' /\ ReplayTypes'
  BY <1>1, <1>2, <1>3, Zenon DEF ChainTypes, ReplayTypes, Grows
<1>5. ASSUME upc # "down", NEW j \in Ids, Replayed(j)'
      PROVE  RecordedOf(j)'
  <2>1. RecordedOf(j)
    BY <1>1, <1>2, <1>5, Zenon DEF Recorded, Replayed
  <2>2. CASE j # i
    BY <1>1, <1>3, <2>1, <2>2, Zenon DEF RecordedOf, ToCome, Grows
  <2>3. CASE j = i /\ U!ProcessHistoricalUnbond(i)
    <3>1. locks'[i] # "none" /\ upc = "unbond"
      BY <1>2, <2>3, InsertGrows, Zenon DEF ReplayTypes, U!ProcessHistoricalUnbond, U!First
    <3> QED
      BY <1>1, <1>3, <2>1, <2>3, <3>1, KindNames, Zenon DEF RecordedOf, ToCome, Grows
  <2>4. CASE j = i /\ \E k \in U!Uses : U!ProcessHistoricalUse(k, i)
    <3>1. PICK k \in U!Uses : U!ProcessHistoricalUse(k, i)
      BY <2>4, Zenon
    <3>2. upc = k /\ locks' = U!UseUnbondingLock(locks, {i})
      BY <3>1, Zenon DEF U!ProcessHistoricalUse, U!First
    <3>3. locks[i] # "none"
      BY <2>1, <2>4, <3>2, KindNames, Zenon DEF RecordedOf, ToCome
    <3>4. locks'[i] = "used"
      BY <1>2, <3>2, <3>3, UseGrows, Zenon DEF ReplayTypes
    <3> QED
      BY <2>4, <3>4, Zenon DEF RecordedOf
  <2> QED
    BY <2>2, <2>3, <2>4, Zenon
<1>6. Recorded'
  BY <1>1, <1>5, Zenon DEF Recorded
<1> QED
  BY <1>4, <1>6, Zenon DEF UnbondingInv

\* Where the replay of a kind is cut short, what came before has been handled.
LEMMA UnbondingCut ==
    ASSUME UnbondingInv, NEW k \in U!Kinds, NEW i \in Ids, U!ReplayCut(k, i)
    PROVE  UnbondingInv'
<1>1. /\ UNCHANGED <<height, at, start, lastBlock, locks>> /\ upc = k /\ logs' = {}
      /\ upc' # "unbond" /\ i \in logs /\ \A j \in logs : at[k][i] <= at[k][j]
      /\ upTo' = [upTo EXCEPT ![k] = at[k][i] - 1]
  BY Zenon DEF U!ReplayCut, U!Leave, U!After, U!First, U!replayVars, U!chainVars
<1>2. ChainTypes /\ ReplayTypes /\ Recorded
  BY Zenon DEF UnbondingInv
<1>3. PICK a \in Nat, b \in Nat : a = at[k][i] /\ b = a - 1 /\ b < a /\ b <= height /\ b < upTo[k]
  <2>1. PICK a \in Nat : /\ a = at[k][i] /\ a # 0 /\ a <= height /\ height \in Nat
                         /\ a <= upTo[k] /\ upTo[k] \in Nat
    BY <1>1, <1>2, Zenon DEF ChainTypes, ReplayTypes
  <2>2. a - 1 \in Nat /\ a - 1 < a /\ a - 1 <= height /\ a - 1 < upTo[k]
    BY <2>1
  <2> QED
    BY <2>1, <2>2, Zenon
<1>4. /\ upTo' \in [U!Kinds -> Nat] /\ upTo'[k] = b
      /\ \A j \in U!Kinds : j # k => upTo'[j] = upTo[j]
  BY <1>1, <1>2, <1>3, Zenon DEF ReplayTypes
<1>5. ReplayTypes'
  <2>1. \A j \in U!Kinds : upTo'[j] <= height
    BY <1>2, <1>3, <1>4, Zenon DEF ReplayTypes
  <2> QED
    BY <1>1, <1>2, <1>4, <2>1, Zenon DEF ReplayTypes
<1>6. \A j \in Ids : at[k][j] <= b => at[k][j] <= upTo[k] /\ j \notin logs
  <2>1. ASSUME NEW j \in Ids, at[k][j] <= b
        PROVE  at[k][j] <= upTo[k] /\ ~(a <= at[k][j])
    <3>1. at[k][j] \in Nat /\ upTo[k] \in Nat
      BY <1>2, Zenon DEF ChainTypes, ReplayTypes
    <3> QED
      BY <1>3, <2>1, <3>1
  <2> QED
    BY <1>1, <1>3, <2>1, Zenon
<1>7. ASSUME upc # "down", NEW j \in Ids, Replayed(j)'
      PROVE  RecordedOf(j)'
  <2>1. Replayed(j)
    BY <1>1, <1>4, <1>6, <1>7, KindNames, Zenon DEF Replayed
  <2>2. RecordedOf(j)
    BY <1>2, <1>7, <2>1, Zenon DEF Recorded
  <2>3. locks[j] # "none"
    <3>1. k = "unbond" => j \notin logs
      BY <1>1, <1>4, <1>6, <1>7, Zenon DEF Replayed
    <3> QED
      BY <1>1, <2>2, <3>1, Zenon DEF RecordedOf, ToCome
  <2>4. ASSUME NEW l \in U!Uses, at[l][j] # 0, at[l][j] <= upTo'[l] PROVE locks[j] = "used"
    <3>1. at[l][j] <= upTo[l] /\ (l = k => j \notin logs)
      BY <1>4, <1>6, <2>4, KindNames, Zenon
    <3> QED
      BY <1>1, <2>2, <2>4, <3>1, Zenon DEF RecordedOf, ToCome
  <2> QED
    BY <1>1, <2>3, <2>4, Zenon DEF RecordedOf
<1>8. Recorded'
  <2>1. upc # "down"
    BY <1>1, Zenon DEF U!Kinds
  <2> QED
    BY <1>7, <2>1, Zenon DEF Recorded
<1> QED
  BY <1>1, <1>2, <1>5, <1>8, Zenon DEF UnbondingInv, ChainTypes

LEMMA UnbondingInvariant == U!Spec => []UnbondingInv
<1>1. U!Init => UnbondingInv
  BY DEF U!Init, UnbondingInv, ChainTypes, ReplayTypes, Recorded, Replayed, LockState,
     U!Kinds, U!Uses
<1>2. UnbondingInv /\ [U!Next]_U!vars => UnbondingInv'
  <2> SUFFICES ASSUME UnbondingInv, [U!Next]_U!vars PROVE UnbondingInv'
    BY Zenon
  <2>1. Grows
    BY LocksGrow, Zenon DEF UnbondingInv, ReplayTypes
  <2>2. CASE U!Mine \/ U!StartService \/ U!Crash
    BY <2>2, UnbondingMine, UnbondingStart, UnbondingCrash, Zenon
  <2>3. CASE U!ProcessHistoricalEvents
    <3>1. ASSUME NEW k \in U!Kinds, U!LogsEnd(k) PROVE UnbondingInv'
      <4>1. /\ UNCHANGED <<height, at, start, upTo, lastBlock, locks>>
            /\ upc \in U!Kinds /\ upc' # "unbond" /\ logs = {} /\ logs' = {}
        BY <3>1, Zenon DEF U!LogsEnd, U!Leave, U!After, U!replayVars, U!chainVars
      <4> QED
        BY <4>1, Zenon DEF UnbondingInv, ChainTypes, ReplayTypes, Recorded, RecordedOf, Replayed,
           ToCome, U!Kinds
    <3>2. CASE U!HistoricalFails
      <4>1. /\ UNCHANGED <<height, at, start, upTo, lastBlock, filtered, logs>>
            /\ upc \in U!Kinds /\ upc' # "unbond" /\ ~filtered
        BY <3>2, Zenon DEF U!HistoricalFails, U!replayVars, U!chainVars
      <4> QED
        BY <2>1, <4>1, UnbondingElse, Zenon DEF UnbondingInv, ReplayTypes, U!Kinds
    <3> QED
      BY <2>3, <3>1, <3>2, UnbondingFilter, UnbondingLog, UnbondingCut, Zenon
         DEF U!ProcessHistoricalEvents
  <2>4. CASE \/ \E k \in U!Kinds : U!Watch(k) \/ U!SubErr(k)
             \/ \E i \in Ids : U!NewUnbond(i) \/ \E k \in U!Uses : U!NewUse(k, i)
             \/ U!StartBlockService
             \/ U!GetDelegator \/ U!UnbondingLockIDs \/ U!InsertFound \/ U!Filled
             \/ \E i \in Ids : U!GetDelegatorUnbondingLock(i)
             \/ UNCHANGED U!vars
    <3>1. /\ UNCHANGED <<height, at, start, upTo, lastBlock, filtered, logs>>
          /\ upc' = upc \/ (upc \in {"watch", "select"} /\ upc' # "unbond")
      BY <2>4, Zenon
         DEF U!Watch, U!SubErr, U!NewUnbond, U!NewUse, U!StartBlockService,
           U!GetDelegator, U!UnbondingLockIDs, U!InsertFound, U!Filled, U!Leave,
           U!GetDelegatorUnbondingLock, U!vars, U!chainVars, U!svcVars, U!dbVars
    <3> QED
      BY <2>1, <3>1, UnbondingElse, Zenon DEF UnbondingInv, ReplayTypes, U!Kinds
  <2>5. CASE U!SetLastSeenBlock
    <3>1. UNCHANGED <<height, at, start, upTo, upc, filtered, logs>> /\ lastBlock' \in Nat
      BY <2>5 DEF U!SetLastSeenBlock, U!chainVars, U!svcVars, UnbondingInv, ChainTypes, ReplayTypes
    <3> QED
      BY <2>1, <3>1, UnbondingElse, Zenon
  <2> QED
    BY <2>2, <2>3, <2>4, <2>5, Zenon DEF U!Next
<1> QED
  BY <1>1, <1>2, PTL DEF U!Spec

\* UnbondingService.processHistoricalEvents: however often the node crashes and restarts,
\* whatever else writes the table meanwhile, and wherever the replay of a kind of events is
\* cut short, the service watches for new events with the locks and the uses recorded that
\* the replay came to.
THEOREM ReplayAlwaysComplete == U!Spec => []ReplayComplete
<1>1. UnbondingInv => ReplayComplete
  <2> SUFFICES ASSUME UnbondingInv, upc \in {"watch", "select"},
                      NEW i \in Ids, at["unbond"][i] \in start .. upTo["unbond"],
                      at["unbond"][i] # 0
               PROVE  /\ locks[i] # "none"
                      /\ \A k \in U!Uses : at[k][i] \in 1 .. upTo[k] => locks[i] = "used"
    BY Zenon DEF ReplayComplete, U!ReplayComplete
  <2>1. Replayed(i)
    BY DEF Replayed
  <2>2. RecordedOf(i) /\ logs = {}
    BY <2>1, Zenon DEF UnbondingInv, Recorded, ReplayTypes, U!Kinds
  <2>3. \A k \in U!Uses : at[k][i] \in 1 .. upTo[k] => at[k][i] # 0 /\ at[k][i] <= upTo[k]
    BY DEF UnbondingInv, ReplayTypes
  <2> QED
    BY <2>2, <2>3, Zenon DEF RecordedOf, ToCome
<1> QED
  BY <1>1, UnbondingInvariant, PTL

\* db.go, InsertUnbondingLock and UseUnbondingLock: no replay, no late event and no request
\* of /unbondingLocks makes a lock that was recorded as used unused again.
THEOREM UsedAlwaysForGood == U!Spec => UsedForGood
<1>1. UnbondingInv /\ [U!Next]_U!vars => [U!KeepsUsed]_unbondingVars
  BY LocksGrow, Zenon DEF UnbondingInv, ReplayTypes, Grows, U!KeepsUsed
<1> QED
  BY <1>1, UnbondingInvariant, PTL DEF U!Spec, UsedForGood

-----------------------------------------------------------------------------
(* ContractEvents *)

Iterator ==
    [at : {"filter", "next", "callback", "false", "left"}, logs : Seq(Nat),
     done : BOOLEAN, fail : BOOLEAN, got : Seq(Nat)]

\* The logs after the first n
Counts(n, s) == \A j \in 1 .. Len(s) : s[j] = n + j

\* What the callback got, what is in the channel and what the goroutine has still to send
\* are, one after the other, the logs 1, 2, 3 ...; the goroutine ends when it has sent
\* all, the iterator when it has received all.
InOrder(i, b, closed) ==
    /\ Len(i.got) + Len(i.logs) + Len(b) >= Past
    /\ Counts(0, i.got) /\ Counts(Len(i.got), i.logs) /\ Counts(Len(i.got) + Len(i.logs), b)
    /\ closed => b = <<>>
    /\ i.done => closed
    /\ i.at = "false" => i.done /\ i.logs = <<>>

Iterates(i) == i.at \in {"next", "callback", "false"} /\ ~i.fail

EventTypes ==
    /\ logsOf \in [V!Events -> Nat] /\ \A e \in V!Events : logsOf[e] >= Past
    /\ iter \in [V!Events -> Iterator] /\ buff \in [V!Events -> Seq(Nat)]
    /\ feedEnded \in [V!Events -> BOOLEAN]

EventInv ==
    /\ EventTypes
    /\ \A e \in V!Events : iter[e].at = "filter" => iter[e] = V!NoIterator
    /\ \A e \in V!Events : Iterates(iter[e]) => InOrder(iter[e], buff[e], feedEnded[e])

\* A log goes from the head of one sequence to the end of the one before it.
LEMMA HandOver ==
    ASSUME NEW n \in Nat, NEW x \in Seq(Nat), NEW y \in Seq(Nat), y # <<>>,
           Counts(n, x), Counts(n + Len(x), y)
    PROVE  /\ Counts(n, Append(x, Head(y)))
           /\ Counts(n + Len(Append(x, Head(y))), Tail(y))
           /\ n + Len(Append(x, Head(y))) + Len(Tail(y)) = n + Len(x) + Len(y)
<1> DEFINE xx == Append(x, Head(y))
           yy == Tail(y)
<1>0. Len(x) \in Nat /\ Len(y) \in Nat /\ Len(y) # 0
  OBVIOUS
<1>1. /\ Head(y) \in Nat /\ Head(y) = y[1] /\ yy \in Seq(Nat) /\ Len(yy) = Len(y) - 1
      /\ \A j \in 1 .. Len(yy) : yy[j] = y[j + 1]
  OBVIOUS
<1>2. /\ xx \in Seq(Nat) /\ Len(xx) = Len(x) + 1 /\ xx[Len(x) + 1] = Head(y)
      /\ \A j \in 1 .. Len(x) : xx[j] = x[j]
  BY <1>1, Appended
<1> HIDE DEF xx, yy
<1>3. Counts(n, xx)
  <2> SUFFICES ASSUME NEW j \in 1 .. Len(xx) PROVE xx[j] = n + j
    BY Zenon DEF Counts
  <2>1. CASE j = Len(x) + 1
    <3>1. y[1] = n + Len(x) + 1
      BY <1>0 DEF Counts
    <3> QED
      BY <1>0, <1>1, <1>2, <2>1, <3>1
  <2>2. CASE j \in 1 .. Len(x)
    BY <1>2, <2>2, Zenon DEF Counts
  <2> QED
    BY <1>0, <1>2, <2>1, <2>2
<1>4. Counts(n + Len(xx), yy)
  <2> SUFFICES ASSUME NEW j \in 1 .. Len(yy) PROVE yy[j] = n + Len(xx) + j
    BY Zenon DEF Counts
  <2>1. j + 1 \in 1 .. Len(y) /\ yy[j] = y[j + 1]
    BY <1>0, <1>1
  <2>2. y[j + 1] = n + Len(x) + (j + 1)
    BY <2>1, Zenon DEF Counts
  <2> QED
    BY <1>0, <1>2, <2>1, <2>2
<1>5. n + Len(xx) + Len(yy) = n + Len(x) + Len(y)
  BY <1>0, <1>1, <1>2, SMTT(30)
<1> QED
  BY <1>3, <1>4, <1>5, Zenon DEF xx, yy

\* A step of the iterator of one event
LEMMA EventStep ==
    ASSUME EventInv, NEW e \in V!Events, UNCHANGED logsOf,
           NEW i \in Iterator, iter' = [iter EXCEPT ![e] = i],
           NEW b \in Seq(Nat), buff' = [buff EXCEPT ![e] = b],
           NEW closed \in BOOLEAN, feedEnded' = [feedEnded EXCEPT ![e] = closed],
           i.at # "filter", Iterates(i) => InOrder(i, b, closed)
    PROVE  EventInv'
<1>1. EventTypes'
  BY Zenon DEF EventInv, EventTypes
<1>2. ASSUME NEW f \in V!Events, Iterates(iter'[f])
      PROVE  InOrder(iter'[f], buff'[f], feedEnded'[f])
  <2>1. CASE f = e
    BY <1>2, <2>1, Zenon DEF EventInv, EventTypes
  <2>2. CASE f # e
    BY <1>2, <2>2, Zenon DEF EventInv, EventTypes
  <2> QED
    BY <2>1, <2>2, Zenon
<1>3. ASSUME NEW f \in V!Events, iter'[f].at = "filter" PROVE iter'[f] = V!NoIterator
  <2>1. f # e /\ iter'[f] = iter[f]
    BY <1>3, Zenon DEF EventInv, EventTypes
  <2> QED
    BY <1>3, <2>1, Zenon DEF EventInv
<1> QED
  BY <1>1, <1>2, <1>3, Zenon DEF EventInv, V!NoIterator

\* The step leaves what the goroutine has alone.
LEMMA EventConsumes ==
    ASSUME EventInv, NEW e \in V!Events, UNCHANGED <<logsOf, buff, feedEnded>>,
           NEW i \in Iterator, iter' = [iter EXCEPT ![e] = i],
           i.at # "filter", Iterates(i) => InOrder(i, buff[e], feedEnded[e])
    PROVE  EventInv'
<1>1. EventTypes'
  BY Zenon DEF EventInv, EventTypes
<1>2. ASSUME NEW f \in V!Events, f # e PROVE iter'[f] = iter[f]
  BY <1>2, Zenon DEF EventInv, EventTypes
<1>3. iter'[e] = i
  BY Zenon DEF EventInv, EventTypes
<1>4. \A f \in V!Events : iter'[f].at = "filter" => iter'[f] = V!NoIterator
  BY <1>2, <1>3, Zenon DEF EventInv
<1>5. \A f \in V!Events : Iterates(iter'[f]) => InOrder(iter'[f], buff[f], feedEnded[f])
  BY <1>2, <1>3, Zenon DEF EventInv
<1> QED
  BY <1>1, <1>4, <1>5, Zenon DEF EventInv, V!NoIterator

LEMMA EventFilter ==
    ASSUME EventInv, NEW e \in V!Events, V!Filter(e)
    PROVE  EventInv'
<1>1. CASE UNCHANGED <<iter, buff, feedEnded>>
  BY <1>1, Zenon DEF V!Filter, EventInv, EventTypes
<1>2. CASE /\ iter' = [iter EXCEPT ![e].at = "next"]
           /\ buff' = [buff EXCEPT ![e] = [j \in 1 .. logsOf[e] |-> j]]
           /\ feedEnded' = [feedEnded EXCEPT ![e] = FALSE]
  <2> DEFINE i == [iter[e] EXCEPT !.at = "next"]
             b == [j \in 1 .. logsOf[e] |-> j]
  <2>0. iter[e] \in Iterator /\ logsOf[e] \in Nat /\ logsOf[e] >= Past /\ Past \in Nat
    BY ServicesAssumption, Zenon DEF EventInv, EventTypes, V!EventsAssumption
  <2>1. i \in Iterator /\ i.at = "next" /\ i.logs = iter[e].logs /\ i.got = iter[e].got
           /\ i.done = iter[e].done
    BY <2>0, Zenon DEF Iterator
  <2>2. b \in Seq(Nat) /\ Len(b) = logsOf[e] /\ \A j \in 1 .. Len(b) : b[j] = j
    BY <2>0, SMTT(30)
  <2>3. iter[e].logs = <<>> /\ iter[e].got = <<>> /\ iter[e].done = FALSE
    BY DEF EventInv, V!NoIterator, V!Filter
  <2>4. InOrder(i, b, FALSE)
    <3> HIDE DEF i, b
    <3>1. Len(i.got) = 0 /\ Len(i.logs) = 0
      BY <2>1, <2>3, SMTT(30)
    <3>2. Counts(0, i.got) /\ Counts(0, i.logs) /\ Counts(0, b)
      BY <2>2, <3>1, SMTT(30) DEF Counts
    <3>3. 0 + 0 = 0 /\ 0 + 0 + Len(b) >= Past
      BY <2>0, <2>2, SMTT(30)
    <3> QED
      BY <2>1, <2>3, <3>1, <3>2, <3>3, Zenon DEF InOrder
  <2>5. iter' = [iter EXCEPT ![e] = i]
    BY <1>2, Zenon
  <2> HIDE DEF i, b
  <2> QED
    BY <1>2, <2>1, <2>2, <2>4, <2>5, EventStep, Zenon DEF V!Filter, b
<1> QED
  BY <1>1, <1>2, Zenon DEF V!Filter

LEMMA EventFeed ==
    ASSUME EventInv, NEW e \in V!Events, V!Feed(e)
    PROVE  EventInv'
<1>0. /\ iter[e] \in Iterator /\ buff[e] \in Seq(Nat) /\ feedEnded[e] = FALSE
      /\ iter[e].at # "filter" /\ UNCHANGED logsOf
  BY Zenon DEF EventInv, EventTypes, V!Feed
<1>1. CASE /\ buff[e] # <<>>
           /\ iter' = [iter EXCEPT ![e].logs = Append(@, Head(buff[e]))]
           /\ buff' = [buff EXCEPT ![e] = Tail(@)] /\ UNCHANGED feedEnded
  <2> DEFINE waiting == Append(iter[e].logs, Head(buff[e]))
             i == [iter[e] EXCEPT !.logs = waiting]
             b == Tail(buff[e])
  <2>1. waiting \in Seq(Nat) /\ b \in Seq(Nat)
    BY <1>0, <1>1 DEF Iterator
  <2> HIDE DEF waiting, b
  <2>2. /\ i \in Iterator /\ i.at = iter[e].at /\ i.logs = waiting /\ i.got = iter[e].got
        /\ i.done = iter[e].done /\ i.fail = iter[e].fail
    BY <1>0, <2>1, ZenonT(30) DEF Iterator
  <2>3. iter' = [iter EXCEPT ![e] = i] /\ buff' = [buff EXCEPT ![e] = b]
          /\ feedEnded' = [feedEnded EXCEPT ![e] = FALSE]
    BY <1>0, <1>1, Zenon DEF waiting, b, EventInv, EventTypes
  <2> HIDE DEF i
  <2>4. ASSUME Iterates(i) PROVE InOrder(i, b, FALSE)
    <3>1. InOrder(iter[e], buff[e], feedEnded[e])
      BY <2>2, <2>4, Zenon DEF EventInv, Iterates
    <3>2. i.done = FALSE /\ i.at # "false"
      BY <1>0, <2>2, <3>1, Zenon DEF InOrder, Iterator
    <3>3. iter[e].got \in Seq(Nat) /\ iter[e].logs \in Seq(Nat)
      BY <1>0, Zenon DEF Iterator
    <3>4. Len(iter[e].got) \in Nat
      BY <3>3, SMTT(30)
    <3>5. /\ Counts(Len(iter[e].got), iter[e].logs)
          /\ Counts(Len(iter[e].got) + Len(iter[e].logs), buff[e])
      BY <3>1, Zenon DEF InOrder
    <3>6. /\ Counts(Len(iter[e].got), waiting) /\ Counts(Len(iter[e].got) + Len(waiting), b)
          /\ Len(iter[e].got) + Len(waiting) + Len(b)
                = Len(iter[e].got) + Len(iter[e].logs) + Len(buff[e])
      BY <1>0, <1>1, <3>3, <3>4, <3>5, HandOver, Zenon DEF waiting, b
    <3> QED
      BY <2>2, <3>1, <3>2, <3>6, Zenon DEF InOrder
  <2> QED
    BY <1>0, <2>1, <2>2, <2>3, <2>4, EventStep, Zenon
<1>2. CASE buff[e] = <<>> /\ feedEnded' = [feedEnded EXCEPT ![e] = TRUE] /\ UNCHANGED <<iter, buff>>
  <2>1. iter' = [iter EXCEPT ![e] = iter[e]] /\ buff' = [buff EXCEPT ![e] = buff[e]]
    BY <1>2, Zenon DEF EventInv, EventTypes
  <2>2. Iterates(iter[e]) => InOrder(iter[e], buff[e], TRUE)
    BY <1>2, Zenon DEF EventInv, InOrder
  <2> QED
    BY <1>0, <1>2, <2>1, <2>2, EventStep, Zenon
<1> QED
  BY <1>1, <1>2, Zenon DEF V!Feed

\* Next hands on the next log, or fails.
LEMMA TakenInOrder ==
    ASSUME NEW i \in Iterator, NEW b \in Seq(Nat), NEW closed \in BOOLEAN,
           i.at = "next", i.logs # <<>>, ~i.fail, InOrder(i, b, closed),
           NEW r \in V!TakeLog(i)
    PROVE  r \in Iterator /\ r.at # "filter" /\ (Iterates(r) => InOrder(r, b, closed))
<1>0. i.logs \in Seq(Nat) /\ i.got \in Seq(Nat)
  BY Zenon DEF Iterator
<1> DEFINE waiting == Tail(i.logs)
           gotten == Append(i.got, Head(i.logs))
<1>1. waiting \in Seq(Nat) /\ gotten \in Seq(Nat)
  BY <1>0
<1>2. /\ Counts(0, gotten) /\ Counts(Len(gotten), waiting)
      /\ Len(gotten) + Len(waiting) = Len(i.got) + Len(i.logs)
  <2>1. \A q \in Seq(Nat) : Len(q) \in Nat /\ 0 + Len(q) = Len(q)
    BY SMTT(30)
  <2>2. Counts(0, i.got) /\ Counts(0 + Len(i.got), i.logs)
    BY <1>0, <2>1, Zenon DEF InOrder
  <2>3. /\ Counts(0, gotten) /\ Counts(0 + Len(gotten), waiting)
        /\ 0 + Len(gotten) + Len(waiting) = 0 + Len(i.got) + Len(i.logs)
    BY <1>0, <2>2, HandOver, Zenon
  <2> HIDE DEF gotten, waiting
  <2> QED
    BY <1>0, <1>1, <2>1, <2>3, Zenon
<1>3. CASE r = [i EXCEPT !.at = "callback", !.logs = Tail(@), !.got = Append(@, Head(i.logs))]
  <2>1. r.at = "callback" /\ r.logs = waiting /\ r.got = gotten /\ r.done = i.done /\ r.fail = i.fail
    BY <1>3, Zenon DEF Iterator
  <2>2. r \in Iterator
    BY <1>1, <1>3, Zenon DEF Iterator
  <2> HIDE DEF waiting, gotten
  <2>3. InOrder(r, b, closed)
    BY <1>2, <2>1, Zenon DEF InOrder
  <2> QED
    BY <2>1, <2>2, <2>3, Zenon
<1>4. CASE r = [i EXCEPT !.at = "false", !.logs = Tail(@), !.fail = TRUE]
  <2>1. r.at = "false" /\ r.fail = TRUE
    BY <1>4, Zenon DEF Iterator
  <2>2. r \in Iterator
    BY <1>1, <1>4, Zenon DEF Iterator
  <2> QED
    BY <2>1, <2>2, Zenon DEF Iterates
<1> QED
  BY <1>3, <1>4, Zenon DEF V!TakeLog

LEMMA EventAdvance ==
    ASSUME EventInv, NEW e \in V!Events, V!Advance(e)
    PROVE  EventInv'
<1>1. /\ iter[e] \in Iterator /\ buff[e] \in Seq(Nat) /\ feedEnded[e] \in BOOLEAN
      /\ iter[e].at = "next" /\ UNCHANGED <<logsOf, buff, feedEnded>>
      /\ iter[e].fail \in BOOLEAN /\ iter[e].done \in BOOLEAN
  BY Zenon DEF EventInv, EventTypes, V!Advance, Iterator
<1>2. ~iter[e].fail => InOrder(iter[e], buff[e], feedEnded[e])
  BY <1>1, Zenon DEF EventInv, Iterates
<1>3. PICK i \in V!NextOf(iter[e], feedEnded[e]) : iter' = [iter EXCEPT ![e] = i]
  BY Zenon DEF V!Advance
<1>4. i \in Iterator /\ i.at # "filter" /\ (Iterates(i) => InOrder(i, buff[e], feedEnded[e]))
  <2>1. CASE iter[e].fail
    <3>1. i = [iter[e] EXCEPT !.at = "false"]
      BY <1>3, <2>1, Zenon DEF V!NextOf
    <3>2. i \in Iterator /\ i.at = "false" /\ i.fail = iter[e].fail
      BY <1>1, <3>1, Zenon DEF Iterator
    <3> QED
      BY <2>1, <3>2, Zenon DEF Iterates
  <2>2. CASE ~iter[e].fail /\ iter[e].logs # <<>> /\ i \in V!TakeLog(iter[e])
    BY <1>1, <1>2, <2>2, TakenInOrder, Zenon
  <2>3. CASE /\ ~iter[e].fail /\ iter[e].done /\ iter[e].logs = <<>>
             /\ i = [iter[e] EXCEPT !.at = "false"]
    <3>1. /\ i \in Iterator /\ i.at = "false" /\ i.fail = iter[e].fail /\ i.done = iter[e].done
          /\ i.logs = iter[e].logs /\ i.got = iter[e].got
      BY <1>1, <2>3, Zenon DEF Iterator
    <3> QED
      BY <1>2, <2>3, <3>1, Zenon DEF InOrder
  <2>4. CASE ~iter[e].fail /\ feedEnded[e] /\ i = [iter[e] EXCEPT !.done = TRUE]
    <3>1. /\ i \in Iterator /\ i.at = "next" /\ i.fail = iter[e].fail /\ i.done = TRUE
          /\ i.logs = iter[e].logs /\ i.got = iter[e].got
      BY <1>1, <2>4, Zenon DEF Iterator
    <3> QED
      BY <1>2, <2>4, <3>1, Zenon DEF InOrder
  <2> QED
    BY <1>3, <2>1, <2>2, <2>3, <2>4, Zenon DEF V!NextOf
<1> QED
  BY <1>1, <1>3, <1>4, EventConsumes, ZenonT(30)

LEMMA EventProcess ==
    ASSUME EventInv, NEW e \in V!Events, V!ProcessHistorical(e)
    PROVE  EventInv'
<1>1. iter[e] \in Iterator /\ UNCHANGED <<logsOf, buff, feedEnded>>
  BY Zenon DEF EventInv, EventTypes, V!ProcessHistorical
<1>2. CASE iter[e].at = "callback" /\ iter' = [iter EXCEPT ![e].at = "next"]
  <2> DEFINE i == [iter[e] EXCEPT !.at = "next"]
  <2>1. /\ i \in Iterator /\ i.at = "next" /\ i.fail = iter[e].fail /\ i.done = iter[e].done
        /\ i.logs = iter[e].logs /\ i.got = iter[e].got
    BY <1>1, Zenon DEF Iterator
  <2>2. iter' = [iter EXCEPT ![e] = i]
    BY <1>2, Zenon
  <2> HIDE DEF i
  <2>3. Iterates(i) => InOrder(i, buff[e], feedEnded[e])
    <3>1. Iterates(i) => InOrder(iter[e], buff[e], feedEnded[e])
      BY <1>2, <2>1, Zenon DEF EventInv, Iterates
    <3> QED
      BY <2>1, <3>1, Zenon DEF InOrder
  <2> QED
    BY <1>1, <2>1, <2>2, <2>3, EventConsumes, Zenon
<1>3. CASE iter' = [iter EXCEPT ![e] = V!Left(iter[e])]
  <2>1. V!Left(iter[e]) \in Iterator /\ V!Left(iter[e]).at = "left"
    <3>1. iter[e].logs \in Seq(Nat) /\ <<>> \in Seq(Nat)
      BY <1>1 DEF Iterator
    <3>2. V!NoIterator \in Iterator
      BY <3>1, Zenon DEF V!NoIterator, Iterator
    <3> QED
      BY <3>1, <3>2, ZenonT(30) DEF V!Left, Iterator
  <2> QED
    BY <1>1, <1>3, <2>1, EventConsumes, Zenon DEF Iterates
<1> QED
  BY <1>2, <1>3, Zenon DEF V!ProcessHistorical

\* bondingManager.go, Next of the iterators: although it may learn that the goroutine has
\* sent everything before it has received it, an iteration that ends without an error has
\* given all logs there were, in their order, for every length of the channel.
THEOREM IterationAlwaysComplete == V!Spec => []IterationComplete
<1>1. V!Init => EventInv
  <2> SUFFICES ASSUME V!Init PROVE EventInv
    BY Zenon
  <2>1. V!NoIterator \in Iterator /\ V!NoIterator.at = "filter" /\ Past \in Nat
    BY ServicesAssumption, SMTT(30) DEF V!NoIterator, Iterator, V!EventsAssumption
  <2>2. EventTypes
    BY <2>1 DEF V!Init, EventTypes
  <2>3. \A e \in V!Events : iter[e] = V!NoIterator
    BY Zenon DEF V!Init
  <2> HIDE DEF V!NoIterator
  <2> QED
    BY <2>1, <2>2, <2>3, Zenon DEF EventInv, Iterates
<1>2. EventInv /\ [V!Next]_V!vars => EventInv'
  <2> SUFFICES ASSUME EventInv, [V!Next]_V!vars PROVE EventInv'
    BY Zenon
  <2>1. {"Unbond", "Rebond", "WithdrawStake"} \subseteq V!Events
    BY Zenon DEF V!Events
  <2>2. CASE V!FilterUnbond \/ V!FilterRebond \/ V!FilterWithdrawStake
    BY <2>1, <2>2, EventFilter, Zenon DEF V!FilterUnbond, V!FilterRebond, V!FilterWithdrawStake
  <2>3. CASE V!UnbondNext \/ V!RebondNext \/ V!WithdrawStakeNext
    BY <2>1, <2>3, EventAdvance, Zenon DEF V!UnbondNext, V!RebondNext, V!WithdrawStakeNext
  <2>4. CASE \E e \in V!Events : V!Feed(e) \/ V!ProcessHistorical(e)
    BY <2>4, EventFeed, EventProcess, Zenon
  <2>5. ASSUME NEW e \in V!Events, V!NewLog(e) PROVE EventInv'
    <3>1. logsOf' = [logsOf EXCEPT ![e] = logsOf[e] + 1] /\ UNCHANGED <<iter, buff, feedEnded>>
      BY <2>5, Zenon DEF V!NewLog
    <3>2. Past \in Nat
      BY ServicesAssumption, Zenon DEF V!EventsAssumption
    <3> QED
      BY <3>1, <3>2 DEF EventInv, EventTypes
  <2>6. CASE \/ V!WatchUnbond \/ V!WatchRebond \/ V!WatchWithdrawStake \/ V!Select
             \/ \E e \in V!Events : V!SubscriptionFails(e) \/ V!Receive(e)
             \/ UNCHANGED V!vars
    <3>1. UNCHANGED <<logsOf, iter, buff, feedEnded>>
      BY <2>6, Zenon DEF V!WatchUnbond, V!WatchRebond, V!WatchWithdrawStake, V!Watch, V!Forwards,
           V!Select, V!SubscriptionFails, V!Receive, V!vars
    <3> QED
      BY <3>1, Zenon DEF EventInv, EventTypes
  <2> QED
    BY <2>2, <2>3, <2>4, <2>5, <2>6, Zenon DEF V!Next
<1>3. EventInv => IterationComplete
  <2> SUFFICES ASSUME EventInv, NEW e \in V!Events, iter[e].at = "false", ~iter[e].fail
               PROVE  /\ Len(iter[e].got) >= Past
                      /\ iter[e].got = [i \in 1 .. Len(iter[e].got) |-> i]
    BY Zenon DEF IterationComplete, V!IterationComplete
  <2>1. InOrder(iter[e], buff[e], feedEnded[e])
    BY Zenon DEF EventInv, Iterates
  <2>2. iter[e].logs = <<>> /\ buff[e] = <<>> /\ Counts(0, iter[e].got)
    BY <2>1, Zenon DEF InOrder
  <2>3. iter[e] \in Iterator
    BY Zenon DEF EventInv, EventTypes
  <2>4. iter[e].got \in Seq(Nat) /\ Len(iter[e].got) \in Nat
    BY <2>3, SMTT(30) DEF Iterator
  <2>5. Len(iter[e].got) >= Past
    BY <2>1, <2>2, <2>4, SMTT(30) DEF InOrder
  <2>6. \A j \in 1 .. Len(iter[e].got) : iter[e].got[j] = j
    BY <2>2, <2>4 DEF Counts
  <2> QED
    BY <2>4, <2>5, <2>6, SMTT(30)
<1> QED
  BY <1>1, <1>2, <1>3, PTL DEF V!Spec
=============================================================================
