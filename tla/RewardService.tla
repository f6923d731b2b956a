---------------------------- MODULE RewardService ----------------------------
(****************************************************************************)
(* An orchestrator's calls of reward(), once a round (eth/eventservices/     *)
(* rewardservice.go).  A call whose transaction is not confirmed in time is  *)
(* kept as pendingTx, and replaced at the next tick by one with the same     *)
(* nonce and a higher price (ReplaceTransaction, eth/client.go).             *)
(*                                                                           *)
(* A transaction is <<nonce, version>>; versions of a nonce replace each     *)
(* other, and one of them is mined.  Chain and Ethereum node are external;   *)
(* the node may forget a transaction, any version it knows may be the one    *)
(* that is mined, and a send that it reports as failed may have gone         *)
(* through.  The calls of reward() are the only transactions of the account, *)
(* and the gas price is not set, which would make a new NonceManager.        *)
(****************************************************************************)
EXTENDS Naturals, Sequences

CONSTANTS
    MaxRound,     \* bound: rounds
    MaxDeadline,  \* bound: transactions in the pool that are not confirmed in time
    MaxError,     \* bound: requests to the Ethereum node that fail
    MaxDrop,      \* bound: transactions that the node forgets
    None

RewardAssumption ==
    /\ MaxRound \in Nat /\ MaxDeadline \in Nat /\ MaxError \in Nat /\ MaxDrop \in Nat
    /\ None \notin Nat \X Nat

VARIABLES
    round, ready,      \* current round; it is initialized and the node is active
    lastRewardRound,   \* of the transcoder, on chain
    pool,              \* transactions that the Ethereum node knows and may be mined
    mined,             \* sequence: version mined for each nonce, and its success
    localNonce,        \* of NonceManager; nonces are counted from 1
    lost,              \* history: nonces of calls whose send was reported as failed
    pc, pendingTx, tx, \* tryReward: next step; the service's field; its variable
    deadlines, errors, drops

chainVars == <<round, ready, lastRewardRound, pool, mined>>
nonceVars == <<localNonce, lost>>
vars == <<chainVars, nonceVars, pc, pendingTx, tx, deadlines, errors, drops>>

IsMined(t) == t[1] <= Len(mined) /\ mined[t[1]].version = t[2]
NonceUsed(t) == t[1] <= Len(mined)

-----------------------------------------------------------------------------
(* The chain *)

NewRound ==
    /\ round < MaxRound
    /\ round' = round + 1 /\ ready' = FALSE
    /\ UNCHANGED <<lastRewardRound, pool, mined, nonceVars, pc, pendingTx, tx, deadlines, errors, drops>>

GetReady ==
    /\ ~ready
    /\ ready' = TRUE
    /\ UNCHANGED <<round, lastRewardRound, pool, mined, nonceVars, pc, pendingTx, tx, deadlines, errors, drops>>

\* reward() reverts in a round that is not initialized, and the second time.
Mine(t) ==
    /\ t \in pool /\ t[1] = Len(mined) + 1
    /\ LET ok == ready /\ lastRewardRound < round IN
       /\ mined' = Append(mined, [version |-> t[2], success |-> ok])
       /\ lastRewardRound' = IF ok THEN round ELSE lastRewardRound
    /\ pool' = {u \in pool : u[1] # t[1]}
    /\ UNCHANGED <<round, ready, nonceVars, pc, pendingTx, tx, deadlines, errors, drops>>

Drop(t) ==
    /\ drops < MaxDrop
    /\ drops' = drops + 1
    /\ pool' = pool \ {t}
    /\ UNCHANGED <<round, ready, lastRewardRound, mined, nonceVars, pc, pendingTx, tx, deadlines, errors>>

-----------------------------------------------------------------------------
(* tryReward *)

\* A tick; otherwise, or if one of the queries fails, there is nothing to do.
tryReward ==
    /\ pc = "idle"
    /\ lastRewardRound < round /\ ready
    /\ pc' = IF pendingTx # None THEN "replace" ELSE "reward"
    /\ UNCHANGED <<chainVars, nonceVars, pendingTx, tx, deadlines, errors, drops>>

Sent(t) ==
    /\ pool' = pool \union {t}
    /\ tx' = t /\ pc' = "check"

\* Mutant: a mined transaction is not forgotten.
Replaced_KeepsPending ==
    /\ pc' = "idle"
    /\ UNCHANGED <<chainVars, pendingTx, tx>>

\* ErrReplacingMinedTx, "nonce too low"
Replaced ==
    /\ pendingTx' = None
    /\ pc' = "idle"
    /\ UNCHANGED <<chainVars, tx>>

\* ReplaceTransaction asks for the transaction first: mined, it is not replaced.  If
\* another version was mined, the node does not know this one, and refuses its nonce.
ReplaceTransaction ==
    /\ pc = "replace"
    /\ \/ IsMined(pendingTx) /\ Replaced
       \/ /\ ~IsMined(pendingTx)
          /\ pc' = "resend"
          /\ UNCHANGED <<chainVars, pendingTx, tx>>
    /\ UNCHANGED <<nonceVars, deadlines, errors, drops>>

\* Bumped from the price of pendingTx
Replacement == <<pendingTx[1], pendingTx[2] + 1>>

\* A replacement that the node got although it reported an error is "known" to it.
Resend ==
    /\ pc = "resend"
    /\ \/ NonceUsed(pendingTx) /\ Replaced
       \/ /\ ~NonceUsed(pendingTx) /\ Replacement \in pool
          /\ pc' = "idle"
          /\ UNCHANGED <<chainVars, pendingTx, tx>>
       \/ /\ ~NonceUsed(pendingTx) /\ Replacement \notin pool
          /\ Sent(Replacement)
          /\ UNCHANGED <<round, ready, lastRewardRound, mined, pendingTx>>
    /\ UNCHANGED <<nonceVars, deadlines, errors, drops>>

\* PendingNonceAt of the Ethereum node, which may be behind
PendingNonces ==
    {n \in {Len(mined) + 1} \union {u[1] + 1 : u \in pool} :
        \A m \in Len(mined) + 1 .. n - 1 : \E u \in pool : u[1] = m}

\* NonceManager.Next
NextNonce(remoteNonce) == IF remoteNonce > localNonce THEN remoteNonce ELSE localNonce

Reward ==
    /\ pc = "reward"
    /\ \E remoteNonce \in PendingNonces :
          LET nonce == NextNonce(remoteNonce) IN
          Sent(<<nonce, 1>>) /\ localNonce' = nonce + 1
    /\ UNCHANGED <<round, ready, lastRewardRound, mined, lost, pendingTx, deadlines, errors, drops>>

\* Reward or ReplaceTransaction fails before it sends anything.
RequestFails ==
    /\ pc \in {"replace", "resend", "reward"} /\ errors < MaxError
    /\ errors' = errors + 1
    /\ pc' = "idle"
    /\ UNCHANGED <<chainVars, nonceVars, pendingTx, tx, deadlines, drops>>

\* The send is reported as failed: the transaction, which is not kept, may be in the pool.
\* NonceManager.Update is called all the same.
RewardSendFails ==
    /\ pc = "reward" /\ errors < MaxError
    /\ errors' = errors + 1
    /\ \E remoteNonce \in PendingNonces :
          LET nonce == NextNonce(remoteNonce) IN
          /\ pool' \in {pool, pool \union {<<nonce, 1>>}}
          /\ localNonce' = nonce + 1 /\ lost' = lost \union {nonce}
    /\ pc' = "idle"
    /\ UNCHANGED <<round, ready, lastRewardRound, mined, pendingTx, tx, deadlines, drops>>

ResendFails ==
    /\ pc = "resend" /\ ~NonceUsed(pendingTx) /\ errors < MaxError
    /\ errors' = errors + 1
    /\ pool' = pool \union {Replacement}
    /\ pc' = "idle"
    /\ UNCHANGED <<round, ready, lastRewardRound, mined, nonceVars, pendingTx, tx, deadlines, drops>>

\* CheckTx: a transaction that was mined and failed leaves pendingTx.
CheckTx ==
    /\ pc = "check" /\ IsMined(tx)
    /\ pendingTx' = IF mined[tx[1]].success THEN None ELSE pendingTx
    /\ pc' = "idle"
    /\ UNCHANGED <<chainVars, nonceVars, tx, deadlines, errors, drops>>

\* Mutant: the transaction is not stored.
DeadlineExceeded_NotStored ==
    /\ pc = "check" /\ ~IsMined(tx)
    /\ IF tx \in pool THEN deadlines < MaxDeadline /\ deadlines' = deadlines + 1
                      ELSE UNCHANGED deadlines
    /\ pc' = "idle"
    /\ UNCHANGED <<chainVars, nonceVars, pendingTx, tx, errors, drops>>

\* The bound is on those that the node still has.
DeadlineExceeded ==
    /\ pc = "check" /\ ~IsMined(tx)
    /\ IF tx \in pool THEN deadlines < MaxDeadline /\ deadlines' = deadlines + 1
                      ELSE UNCHANGED deadlines
    /\ pendingTx' = tx
    /\ pc' = "idle"
    /\ UNCHANGED <<chainVars, nonceVars, tx, errors, drops>>

-----------------------------------------------------------------------------
Init ==
    /\ round = 1 /\ ready = FALSE /\ lastRewardRound = 0
    /\ pool = {} /\ mined = <<>> /\ localNonce = 1 /\ lost = {}
    /\ pc = "idle" /\ pendingTx = None /\ tx = None
    /\ deadlines = 0 /\ errors = 0 /\ drops = 0

Service ==
    \/ tryReward \/ ReplaceTransaction \/ Resend \/ Reward
    \/ CheckTx \/ DeadlineExceeded

Next ==
    \/ NewRound \/ GetReady \/ \E t \in pool : Mine(t) \/ Drop(t)
    \/ Service \/ RequestFails \/ RewardSendFails \/ ResendFails

Spec == Init /\ [][Next]_vars

\* The ticker ticks, requests have an end, and what stays in the pool is mined.
FairSpec == Spec /\ WF_vars(Service) /\ WF_vars(\E t \in pool : Mine(t))

-----------------------------------------------------------------------------
(* Properties *)

Tx == (Nat \ {0}) \X (Nat \ {0})

\* Shapes of the state; only nonces not yet mined are in the pool.
TypeOK ==
    /\ round \in 1 .. MaxRound /\ ready \in BOOLEAN /\ lastRewardRound \in 0 .. round
    /\ pool \subseteq Tx /\ \A t \in pool : ~NonceUsed(t)
    /\ mined \in Seq([version : Nat, success : BOOLEAN])
    /\ localNonce \in Nat \ {0} /\ lost \subseteq 1 .. localNonce - 1
    /\ pc \in {"idle", "replace", "resend", "reward", "check"}
    /\ pendingTx \in Tx \union {None} /\ tx \in Tx \union {None}
    /\ pc \in {"replace", "resend"} => pendingTx # None
    /\ pc = "check" => tx # None
    /\ deadlines \in 0 .. MaxDeadline /\ errors \in 0 .. MaxError /\ drops \in 0 .. MaxDrop

\* The service never has two calls of reward() outstanding, but for those whose send was
\* reported as failed: before it takes a new nonce, the transaction of the last one is
\* mined, or no version of it is left.
OneOutstanding ==
    \A t, u \in pool : t[1] \notin lost /\ u[1] \notin lost => t[1] = u[1]

\* A nonce that no transaction has and that the service will not use again
Gap == \E n \in lost : n > Len(mined) /\ \A u \in pool : u[1] # n

\* In a round that stays, in which the node is active, reward() is called with
\* success, although transactions of this or an earlier round were late, replaced,
\* overtaken by the one they were to replace, forgotten, or failed, as long as no send
\* that failed has left a gap in the nonces.
RewardCalled ==
    \A r \in 1 .. MaxRound : (round = r /\ ready) ~> (lastRewardRound = r \/ round > r \/ Gap)

\* rewardservice.go:118: "No previous attempt to call reward(), invoke with next nonce"
NoPreviousAttempt == pc = "reward" => pool = {}
=============================================================================
