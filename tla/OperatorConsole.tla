--------------------------- MODULE OperatorConsole ---------------------------
(****************************************************************************)
(* The console of the node's operator (Console).                            *)
(****************************************************************************)

CONSTANTS
    AccountTokens, MinEscrow, UnlockPeriod, Period, ClaimRounds, MaxOptions, MaxBlock, LastRound, MaxFunds

VARIABLES
    orchestrator, balance, stake, self, unbonding, roundNow, rewarded, claimed,
    deposit, escrow, withdrawBlock, block, seen, listed, claimUpTo,
    wizard, op, toRead, info, arg, options, redeemed, posted

K == INSTANCE Console WITH
        Tokens <- AccountTokens, MaxClaims <- ClaimRounds, MaxRound <- LastRound, bonded <- stake, locks <- unbonding,
        round <- roundNow, lastClaim <- claimed, endRound <- claimUpTo, pc <- wizard

consoleVars == <<orchestrator, balance, stake, self, unbonding, roundNow, rewarded, claimed,
                 deposit, escrow, withdrawBlock, block, seen, listed, claimUpTo,
                 wizard, op, toRead, info, arg, options, redeemed, posted>>

ASSUME OperatorAssumption == K!ConsoleAssumption

-----------------------------------------------------------------------------
\* The console's bond, unbond, unlock, cancelUnlock and withdraw: what the wizard lets
\* through is still right when it is mined, unless a ticket was redeemed or a round began
\* meanwhile or the amount is negative.
LetThroughAccepted == K!LetThroughAccepted
=============================================================================
