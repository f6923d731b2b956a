----------------------------- MODULE NonceManager -----------------------------
(****************************************************************************)
(* The nonces of the node's Ethereum transactions.  Calls of contract        *)
(* methods run concurrently (transact, vendored go-ethereum bind/base.go);   *)
(* each takes a nonce from the NonceManager of its contract session, under   *)
(* the manager's lock on the address.  SetGasInfo makes a new manager and    *)
(* rebuilds the sessions one after the other (eth/client.go);                *)
(* ReplaceTransaction sends a transaction again for a higher price.          *)
(*                                                                           *)
(* There is one address, the node's account.  The Ethereum node is external: *)
(* it may be behind the transactions it was sent, and a send that it reports *)
(* as failed may have gone through.  Other clients may use the account.      *)
(****************************************************************************)
EXTENDS Integers, FiniteSets

CONSTANTS
    Calls,        \* calls of contract methods, one transaction each
    Sessions,     \* number of contract sessions that send transactions
    Managers,     \* bound: nonce managers made, 1 .. Managers
    MaxNonce,     \* bound: nonces the Ethereum node has seen
    Prices,       \* gas prices asked for or suggested
    None

ASSUME NonceAssumption ==
    /\ Sessions \in Nat \ {0} /\ Managers \in Nat \ {0} /\ MaxNonce \in Nat
    /\ Prices \subseteq Nat
    /\ None \notin Calls /\ None \notin Nat

VARIABLES
    nonce, holder,     \* per manager: next nonce, call that holds the lock
    manager, session,  \* newest manager; manager of each contract session
    setting,           \* SetGasInfo: session to be rebuilt next, 0 if not running
    pc, using, got,    \* per call: next step, its manager, its nonce
    txs,               \* transactions of this client that the node has got
    others,            \* nonces used by other clients of the account
    mined              \* number of transactions of the account mined

Mgrs == 1 .. Managers

mgrVars == <<nonce, holder>>
setVars == <<manager, session, setting>>
callVars == <<pc, using, got>>
ethVars == <<txs, others, mined>>
vars == <<mgrVars, setVars, callVars, ethVars>>

Used == {t.nonce : t \in txs} \union others

Goto(c, l) == pc' = [pc EXCEPT ![c] = l]

-----------------------------------------------------------------------------
(* The Ethereum node *)

\* PendingNonceAt: some number of transactions of the account without a gap, at
\* least those mined.
PendingNonces == {n \in mined .. MaxNonce : 0 .. n - 1 \subseteq Used}

\* A transaction arrives; the node refuses nonces already mined.
SendTransaction(t) ==
    /\ t.nonce >= mined /\ t.nonce < MaxNonce
    /\ txs' = txs \union {t}

OtherClient ==
    /\ \E n \in PendingNonces \ Used : n < MaxNonce /\ others' = others \union {n}
    /\ UNCHANGED <<mgrVars, setVars, callVars, txs, mined>>

Mine ==
    /\ mined \in Used
    /\ mined' = mined + 1
    /\ UNCHANGED <<mgrVars, setVars, callVars, txs, others>>

-----------------------------------------------------------------------------
(* transact *)

\* The call copies its options, with the manager, from its session.
Transact(c) ==
    /\ pc[c] = "idle"
    /\ \E k \in 1 .. Sessions : using' = [using EXCEPT ![c] = session[k]]
    /\ Goto(c, "lock")
    /\ UNCHANGED <<got, mgrVars, setVars, ethVars>>

Lock(c) ==
    /\ pc[c] = "lock" /\ holder[using[c]] = None
    /\ holder' = [holder EXCEPT ![using[c]] = c]
    /\ Goto(c, "next")
    /\ UNCHANGED <<using, got, nonce, setVars, ethVars>>

\* Mutant: the manager hands out what the node says.
NextNonce_RemoteOnly(c, remoteNonce) == remoteNonce

\* NonceManager.Next
NextNonce(c, remoteNonce) ==
    IF remoteNonce > nonce[using[c]] THEN remoteNonce ELSE nonce[using[c]]

TakeNext(c) ==
    /\ pc[c] = "next"
    /\ \E remoteNonce \in PendingNonces :
          got' = [got EXCEPT ![c] = NextNonce(c, remoteNonce)]
    /\ Goto(c, "send")
    /\ UNCHANGED <<using, mgrVars, setVars, ethVars>>

Unlock(c) ==
    /\ holder' = [holder EXCEPT ![using[c]] = None]
    /\ Goto(c, "done")

\* Next, the suggested gas price, the gas estimate or the signature fails: the
\* deferred function sees the error and does not call Update.
TransactFails(c) ==
    /\ pc[c] \in {"next", "send"}
    /\ Unlock(c)
    /\ UNCHANGED <<using, got, nonce, setVars, ethVars>>

\* SendTransaction, which does or does not succeed.  Its error is a variable of an
\* inner scope (and so is that of PendingCodeAt): the deferred function calls
\* Update in any case.
Send(c) ==
    /\ pc[c] = "send"
    /\ \/ \E p \in Prices :
             SendTransaction([call |-> c, mgr |-> using[c], nonce |-> got[c],
                              price |-> p, replaced |-> None])
       \/ UNCHANGED txs
    /\ Goto(c, "update")
    /\ UNCHANGED <<using, got, mgrVars, setVars, others, mined>>

\* NonceManager.Update; its two branches are the same.
Update(c) ==
    /\ pc[c] = "update"
    /\ nonce' = [nonce EXCEPT ![using[c]] = got[c] + 1]
    /\ Unlock(c)
    /\ UNCHANGED <<using, got, setVars, ethVars>>

-----------------------------------------------------------------------------
(* SetGasInfo and ReplaceTransaction *)

NewNonceManager ==
    /\ setting = 0 /\ manager < Managers
    /\ manager' = manager + 1
    /\ setting' = 1
    /\ UNCHANGED <<session, mgrVars, callVars, ethVars>>

\* One contract after the other gets a session with the new options; each asks the
\* controller for an address first.
setContracts ==
    /\ setting > 0
    /\ session' = [session EXCEPT ![setting] = manager]
    /\ setting' = IF setting = Sessions THEN 0 ELSE setting + 1
    /\ UNCHANGED <<manager, mgrVars, callVars, ethVars>>

\* An error leaves the sessions rebuilt so far.
setContractsFails ==
    /\ setting > 0
    /\ setting' = 0
    /\ UNCHANGED <<manager, session, mgrVars, callVars, ethVars>>

\* Mutant: the price bump without the "little extra".
minGasPrice_Truncated(price) == price + (price \div 10)

minGasPrice(price) == (price + (price \div 10)) + 10

Larger(a, b) == IF a > b THEN a ELSE b

\* The price that was given, if it is high enough; else the bumped one, or the
\* node's suggestion if that is higher.
ReplacementPrices(price) ==
    {p \in Prices : p >= minGasPrice(price)} \union
    {Larger(minGasPrice(price), s) : s \in Prices}

\* Only what the node knows to be mined is not sent again.  Bound: a transaction is
\* replaced, not its replacement.
ReplaceTransaction(t) ==
    /\ t.replaced = None
    /\ \E p \in ReplacementPrices(t.price) :
          SendTransaction([t EXCEPT !.price = p, !.replaced = t.price])
    /\ UNCHANGED <<mgrVars, setVars, callVars, others, mined>>

-----------------------------------------------------------------------------
Init ==
    /\ nonce = [m \in Mgrs |-> 0]
    /\ holder = [m \in Mgrs |-> None]
    /\ manager = 1 /\ session = [k \in 1 .. Sessions |-> 1] /\ setting = 0
    /\ pc = [c \in Calls |-> "idle"]
    /\ using = [c \in Calls |-> 1]
    /\ got = [c \in Calls |-> 0]
    /\ txs = {} /\ others = {} /\ mined = 0

Step(c) ==
    \/ Transact(c) \/ Lock(c) \/ TakeNext(c) \/ TransactFails(c) \/ Send(c) \/ Update(c)

Next ==
    \/ \E c \in Calls : Step(c)
    \/ NewNonceManager \/ setContracts \/ setContractsFails
    \/ \E t \in txs : ReplaceTransaction(t)
    \/ OtherClient \/ Mine

Spec == Init /\ [][Next]_vars

-----------------------------------------------------------------------------
(* Properties *)

Tx == [call : Calls, mgr : Mgrs, nonce : Nat, price : Nat,
       replaced : Nat \union {None}]

LockHeld ==
    \A c \in Calls, m \in Mgrs :
        holder[m] = c <=> using[c] = m /\ pc[c] \in {"next", "send", "update"}

\* Shapes of the state; the lock of a manager is held by the call that is past it.
TypeOK ==
    /\ nonce \in [Mgrs -> Nat]
    /\ holder \in [Mgrs -> Calls \union {None}]
    /\ manager \in Mgrs /\ session \in [1 .. Sessions -> Mgrs]
    /\ setting \in 0 .. Sessions
    /\ pc \in [Calls -> {"idle", "lock", "next", "send", "update", "done"}]
    /\ using \in [Calls -> Mgrs] /\ got \in [Calls -> Nat]
    /\ txs \subseteq Tx /\ others \subseteq Nat /\ mined \in Nat
    /\ LockHeld

\* Two calls that share a manager do not use the same nonce, whatever the Ethereum
\* node answers PendingNonceAt, whichever sends fail (or seem to), and whatever
\* other clients do.
UniqueNonces ==
    \A s, t \in txs : s.mgr = t.mgr /\ s.nonce = t.nonce => s.call = t.call

\* ReplaceTransaction offers at least 10% more than the transaction it replaces,
\* the price bump that nodes require, for every price.
PriceBump == \A t \in txs : t.replaced # None => 10 * t.price >= 11 * t.replaced

\* NonceManager.Lock: "Lock locks the provided address."  At most one call at a time
\* is between Lock and Unlock for the account.
AddressLocked ==
    LET Inside == {c \in Calls : pc[c] \in {"next", "send", "update"}} IN
    \A c, d \in Inside : c = d

\* NonceManager.Next: "Next returns the next transaction nonce to be used for the
\* provided address": no nonce below that of a transaction is left out.
NoGaps == \A t \in txs : 0 .. t.nonce - 1 \subseteq Used
=============================================================================
