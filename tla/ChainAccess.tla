----------------------------- MODULE ChainAccess -----------------------------
(****************************************************************************)
(* The node's own transactions: its client and account (EthClient), and the *)
(* nonces of one account (NonceManager).  They share no variable.           *)
(****************************************************************************)
EXTENDS NonceManager

CONSTANTS Callers, Amounts, MaxPrice, MaxCalls, MaxChanges  \* of EthClient

VARIABLES
    keyStore, unlockedKey, given, account, unlocked, cpc, gasSetting, bound, sessPrice, value,
    gasPrice, call, lastTx, callsMade, chain, read

E == INSTANCE EthClient WITH
        pc <- cpc, setting <- gasSetting, price <- sessPrice, sent <- lastTx, calls <- callsMade

clientVars == <<keyStore, unlockedKey, given, account, unlocked, cpc, gasSetting, bound, sessPrice,
                value, gasPrice, call, lastTx, callsMade, chain, read>>

ASSUME AccessAssumption == E!ClientAssumption

-----------------------------------------------------------------------------
\* A transaction carries the value of its own call.
OwnValue == E!OwnValue
=============================================================================
