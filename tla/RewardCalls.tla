----------------------------- MODULE RewardCalls -----------------------------
(****************************************************************************)
(* The call of reward() in each round (RewardService).                      *)
(****************************************************************************)

CONSTANTS
    MaxRound, MaxDeadline, MaxError, MaxDrop,
    NoTx  \* None of RewardService

VARIABLES
    round, ready, lastRewardRound, pool, rewarded, localNonce, lost, wpc, pendingTx, tx,
    deadlines, errors, drops

W == INSTANCE RewardService WITH pc <- wpc, mined <- rewarded, None <- NoTx

rewardVars == <<round, ready, lastRewardRound, pool, rewarded, localNonce, lost, wpc,
                pendingTx, tx, deadlines, errors, drops>>

ASSUME CallsAssumption == W!RewardAssumption

-----------------------------------------------------------------------------
\* RewardService never has two calls of reward() outstanding, but for those whose send was
\* reported as failed.
OneOutstanding == W!OneOutstanding

\* In a round that stays, in which the node is active, RewardService calls reward()
\* with success, although transactions were late, replaced, forgotten, or failed, as long
\* as no send that failed has left a gap in the nonces.
RewardCalled == W!RewardCalled
=============================================================================
