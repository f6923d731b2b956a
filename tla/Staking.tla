------------------------------- MODULE Staking -------------------------------
(****************************************************************************)
(* The operations of the node's account that an operator asks for over the   *)
(* CLI web server (server/webserver.go, server/handlers.go) and the Ethereum  *)
(* client's methods behind them (eth/client.go, eth/client_ticketbroker.go).  *)
(* Each HTTP request runs in a goroutine of its own: it sends transactions,   *)
(* waits for each of them with CheckTx and stops at the first error.  Nothing *)
(* keeps two requests from interleaving.                                      *)
(*                                                                            *)
(* A bonding action first claims the earnings of past rounds, at most         *)
(* MaxEarningsClaimsRounds of them in a transaction (autoClaimEarnings).      *)
(*                                                                            *)
(* The contracts are external and modelled from how the client uses them.     *)
(* The account's transactions are mined in the order they were sent (their    *)
(* nonces).                                                                   *)
(****************************************************************************)
EXTENDS Naturals, Sequences

CONSTANTS
    Handlers,   \* goroutines that serve requests
    Amounts,    \* amounts of tokens
    MaxClaims,  \* MaxEarningsClaimsRounds
    MaxRetries, \* /claimEarnings: retries after the first attempt
    MaxRequests, \* bound: requests
    MaxRound,   \* bound: rounds
    MaxTxs      \* bound: transactions

ASSUME StakingAssumption ==
    /\ Amounts \subseteq Nat /\ MaxClaims \in Nat \ {0}
    /\ MaxRetries \in Nat /\ MaxRequests \in Nat /\ MaxRound \in Nat /\ MaxTxs \in Nat

VARIABLES
    round, lastClaim, bonded, allowance, locks, registered,  \* the contracts
    txs,        \* the account's transactions, in the order of their nonces
    pc,         \* of each handler
    todo,       \* calls of the client left to the request, the current one first
    end, last,  \* autoClaimEarnings: endRound, lastClaimRound
    tries,      \* /claimEarnings: attempts that failed, each as the transaction that it gave up
    tx, mine,   \* last transaction, transactions of the request
    reply,      \* how the request ended: "ok" or "error"; "none" before
    asked       \* requests so far

chainVars == <<round, lastClaim, bonded, allowance, locks, registered>>
handlerVars == <<pc, todo, end, last, tries, tx, mine, reply, asked>>
vars == <<chainVars, txs, handlerVars>>

\* Calls that claim earnings before they send their own transaction
Bonding == {"bond", "rebond", "rebondFromUnbonded", "unbond", "withdrawFees"}

\* Calls that only send a transaction: initializeRound, withdrawStake, reward,
\* transfer, request, setServiceURI and those of the ticket broker
Others == {"transcoder", "plain"}

Ops == Bonding \union Others \union {"claimEarnings"}

Call == [op : Ops, arg : Nat]
Tx == [op : Ops \union {"approve"}, arg : Nat,
       status : {"pending", "ok", "failed"}]

-----------------------------------------------------------------------------
(* The contracts *)

\* Unbonding locks by id: the amount, 0 once used.
Locked(id) == id \in 1 .. Len(locks) /\ locks[id] # 0

\* A bonding action claims through the current round.
ClaimsRest == bonded # 0 => round <= lastClaim + MaxClaims

Accepts(t) ==
    \/ t.op \in {"approve", "plain"}
    \/ t.op = "transcoder" /\ bonded # 0
    \/ /\ t.op = "claimEarnings" /\ bonded # 0
       /\ lastClaim < t.arg /\ t.arg <= round /\ t.arg <= lastClaim + MaxClaims
    \/ t.op \in Bonding /\ ClaimsRest
       /\ \/ t.op = "bond" /\ t.arg <= allowance
          \/ t.op = "unbond" /\ t.arg <= bonded
          \/ t.op = "rebond" /\ bonded # 0 /\ Locked(t.arg)
          \/ t.op = "rebondFromUnbonded" /\ bonded = 0 /\ Locked(t.arg)
          \/ t.op = "withdrawFees"

Execute(t) ==
    /\ lastClaim' = CASE t.op = "claimEarnings" -> t.arg
                      [] t.op \in Bonding -> round
                      [] OTHER -> lastClaim
    /\ bonded' = CASE t.op = "bond" -> bonded + t.arg
                   [] t.op = "unbond" -> bonded - t.arg
                   [] t.op \in {"rebond", "rebondFromUnbonded"} -> bonded + locks[t.arg]
                   [] OTHER -> bonded
    /\ allowance' = CASE t.op = "approve" -> t.arg
                      [] t.op = "bond" -> allowance - t.arg
                      [] OTHER -> allowance
    /\ locks' = CASE t.op = "unbond" -> Append(locks, t.arg)
                  [] t.op \in {"rebond", "rebondFromUnbonded"} -> [locks EXCEPT ![t.arg] = 0]
                  [] OTHER -> locks
    /\ registered' = (registered \/ t.op = "transcoder")
    /\ UNCHANGED round

\* The next transaction is mined.  It may also fail for want of gas.
Mine(i) ==
    /\ i \in 1 .. Len(txs) /\ txs[i].status = "pending"
    /\ \A j \in 1 .. i - 1 : txs[j].status # "pending"
    /\ \/ /\ Accepts(txs[i]) /\ Execute(txs[i])
          /\ txs' = [txs EXCEPT ![i].status = "ok"]
       \/ /\ txs' = [txs EXCEPT ![i].status = "failed"]
          /\ UNCHANGED chainVars
    /\ UNCHANGED handlerVars

NewRound ==
    /\ round < MaxRound
    /\ round' = round + 1
    /\ UNCHANGED <<lastClaim, bonded, allowance, locks, registered, txs, handlerVars>>

-----------------------------------------------------------------------------
(* Steps of a handler *)

Now(h) == Head(todo[h])

\* CheckTx is running.
Waiting == {"claiming", "claimingRest", "approving", "sent"}

Goto(h, l) == pc' = [pc EXCEPT ![h] = l]

Answer(h, r) ==
    /\ Goto(h, "idle")
    /\ todo' = [todo EXCEPT ![h] = <<>>]
    /\ reply' = [reply EXCEPT ![h] = r]

\* The transaction that CheckTx was waiting for
GivesUp(h) == IF pc[h] \in Waiting THEN tx[h] ELSE 0

\* An error ends the request, whatever it has sent.  /claimEarnings is attempted again.
\* /rebond goes on to CheckTx without a transaction, which panics.
Fail(h) ==
    /\ \/ /\ Now(h).op = "claimEarnings" /\ Len(tries[h]) < MaxRetries
          /\ tries' = [tries EXCEPT ![h] = Append(@, GivesUp(h))]
          /\ Goto(h, "call")
          /\ UNCHANGED <<todo, reply>>
       \/ /\ Now(h).op # "claimEarnings" \/ Len(tries[h]) = MaxRetries
          /\ Answer(h, "error")
          /\ UNCHANGED tries
    /\ UNCHANGED <<end, last, tx, mine, asked>>

\* A query of the node or the sending of a transaction fails.
CallFails(h) ==
    /\ pc[h] \in {"call", "status", "delegator", "claim", "act", "send"}
    /\ Fail(h)
    /\ UNCHANGED <<chainVars, txs>>

Transact(h, op, arg, l) ==
    /\ Len(txs) < MaxTxs
    /\ txs' = Append(txs, [op |-> op, arg |-> arg, status |-> "pending"])
    /\ tx' = [tx EXCEPT ![h] = Len(txs) + 1]
    /\ mine' = [mine EXCEPT ![h] = @ \union {Len(txs) + 1}]
    /\ Goto(h, l)

Sent(h) == txs[tx[h]]

\* Mutant: the receipt's status is not looked at.
Confirmed_AnyStatus(h) == Sent(h).status # "pending"

\* CheckTx returns nil.
Confirmed(h) == Sent(h).status = "ok"

\* CheckTx returns an error: the transaction failed, or txTimeout has passed.  It may
\* be mined later, or have been since the receipt was last asked for.
CheckFails(h) ==
    /\ pc[h] \in Waiting
    /\ Fail(h)
    /\ UNCHANGED <<chainVars, txs>>

-----------------------------------------------------------------------------
(* Requests *)

C(op, arg) == <<[op |-> op, arg |-> arg]>>

Maybe(calls) == {<<>>} \union calls

\* The amounts, the lock and the round are the operator's; claimEarnings is given any.
Bond == {C("bond", a) : a \in Amounts}
Rebond ==
    {C("rebond", i) : i \in 1 .. Len(locks)}
    \union {C("rebondFromUnbonded", i) : i \in 1 .. Len(locks)}
Unbond == {C("unbond", a) : a \in Amounts}
ClaimEarnings == {C("claimEarnings", r) : r \in 0 .. MaxRound}
WithdrawFees == {C("withdrawFees", 0)}

\* Requests of a plain transaction: /withdrawStake, /initializeRound, /reward, the token's
\* (/transferTokens, /requestTokens) and the ticket broker's (/fundAndApproveSigners,
\* /fundDeposit, /unlock, /cancelUnlock, /withdraw)
WithdrawStake == {C("plain", 0)}
InitializeRound == {C("plain", 0)}
Reward == {C("plain", 0)}
Tokens == {C("plain", 0)}
TicketBroker == {C("plain", 0)}

Single ==
    Bond \union Rebond \union Unbond \union ClaimEarnings \union WithdrawFees
    \union WithdrawStake \union InitializeRound \union Reward \union Tokens \union TicketBroker

SetServiceURI == C("plain", 0)

\* /activateOrchestrator: use a lock, bond, register, set the service URI.
Activate(h) ==
    \E a \in Maybe({C("rebondFromUnbonded", i) : i \in 1 .. Len(locks)}) :
    \E b \in Maybe({C("bond", x) : x \in Amounts \ {0}}) :
    \E u \in Maybe({SetServiceURI}) :
        /\ ~registered
        /\ todo' = [todo EXCEPT ![h] = a \o b \o C("transcoder", 0) \o u]

\* /setOrchestratorConfig: what differs from the configuration on the chain
Config == {C("transcoder", 0), SetServiceURI, C("transcoder", 0) \o SetServiceURI}

Request(h) ==
    /\ pc[h] = "idle" /\ asked < MaxRequests
    /\ asked' = asked + 1
    /\ \/ \E calls \in Single \union Config : todo' = [todo EXCEPT ![h] = calls]
       \/ Activate(h)
    /\ mine' = [mine EXCEPT ![h] = {}] /\ tries' = [tries EXCEPT ![h] = <<>>]
    /\ reply' = [reply EXCEPT ![h] = "none"]
    /\ Goto(h, "call")
    /\ UNCHANGED <<chainVars, txs, end, last, tx>>

-----------------------------------------------------------------------------
(* Methods of the client *)

\* Bond, Rebond, RebondFromUnbonded, Unbond and WithdrawFees ask for the current round;
\* ClaimEarnings is given one.
Begin(h) ==
    /\ pc[h] = "call"
    /\ \/ /\ Now(h).op \in Bonding
          /\ end' = [end EXCEPT ![h] = round]
          /\ Goto(h, "status")
       \/ /\ Now(h).op = "claimEarnings"
          /\ end' = [end EXCEPT ![h] = Now(h).arg]
          /\ Goto(h, "status")
       \/ /\ Now(h).op \in Others
          /\ UNCHANGED end
          /\ Goto(h, "send")
    /\ UNCHANGED <<chainVars, txs, todo, last, tries, tx, mine, reply, asked>>

\* Where autoClaimEarnings returns to
Claimed(h) ==
    IF Now(h).op = "claimEarnings" THEN Answer(h, "ok")
    ELSE /\ Goto(h, IF Now(h).op = "bond" THEN "act" ELSE "send")
         /\ UNCHANGED <<todo, reply>>

\* Only a bonded delegator has earnings to claim.
DelegatorStatus(h) ==
    /\ pc[h] = "status"
    /\ \/ bonded # 0 /\ Goto(h, "delegator") /\ UNCHANGED <<todo, reply>>
       \/ bonded = 0 /\ Claimed(h)
    /\ UNCHANGED <<chainVars, txs, end, last, tries, tx, mine, asked>>

GetDelegator(h) ==
    /\ pc[h] = "delegator"
    /\ last' = [last EXCEPT ![h] = lastClaim]
    /\ Goto(h, "claim")
    /\ UNCHANGED <<chainVars, txs, todo, end, tries, tx, mine, reply, asked>>

\* Mutant: the loop stops one claim too early.
TooMany_OffByOne(h) == end[h] > last[h] + MaxClaims + 1

TooMany(h) == end[h] > last[h] + MaxClaims

\* autoClaimEarnings: one turn of the loop, or what follows it
Claim(h) ==
    /\ pc[h] = "claim"
    /\ \/ /\ TooMany(h)
          /\ Transact(h, "claimEarnings", last[h] + MaxClaims, "claiming")
          /\ UNCHANGED <<todo, reply>>
       \/ /\ ~TooMany(h) /\ Now(h).op = "claimEarnings" /\ last[h] < end[h]
          /\ Transact(h, "claimEarnings", end[h], "claimingRest")
          /\ UNCHANGED <<todo, reply>>
       \/ /\ ~TooMany(h) /\ (Now(h).op = "claimEarnings" => end[h] <= last[h])
          /\ Claimed(h)
          /\ UNCHANGED <<txs, tx, mine>>
    /\ UNCHANGED <<chainVars, end, last, tries, asked>>

\* Mutant: the next claim is prepared before this one is mined.
CheckClaim_NoWait(h) ==
    /\ pc[h] = "claiming"
    /\ last' = [last EXCEPT ![h] = @ + MaxClaims]
    /\ Goto(h, "claim")
    /\ UNCHANGED <<chainVars, txs, todo, end, tries, tx, mine, reply, asked>>

CheckClaim(h) ==
    /\ pc[h] = "claiming" /\ Confirmed(h)
    /\ last' = [last EXCEPT ![h] = @ + MaxClaims]
    /\ Goto(h, "claim")
    /\ UNCHANGED <<chainVars, txs, todo, end, tries, tx, mine, reply, asked>>

CheckRest(h) ==
    /\ pc[h] = "claimingRest" /\ Confirmed(h)
    /\ Answer(h, "ok")
    /\ UNCHANGED <<chainVars, txs, end, last, tries, tx, mine, asked>>

\* Bond: the allowance of the bonding manager
Allowance(h) ==
    /\ pc[h] = "act"
    /\ \/ allowance < Now(h).arg /\ Transact(h, "approve", Now(h).arg, "approving")
       \/ allowance >= Now(h).arg /\ Goto(h, "send") /\ UNCHANGED <<txs, tx, mine>>
    /\ UNCHANGED <<chainVars, todo, end, last, tries, reply, asked>>

CheckApprove(h) ==
    /\ pc[h] = "approving" /\ Confirmed(h)
    /\ Goto(h, "send")
    /\ UNCHANGED <<chainVars, txs, todo, end, last, tries, tx, mine, reply, asked>>

\* The call's own transaction
Send(h) ==
    /\ pc[h] = "send"
    /\ Transact(h, Now(h).op, Now(h).arg, "sent")
    /\ UNCHANGED <<chainVars, todo, end, last, tries, reply, asked>>

CheckTx(h) ==
    /\ pc[h] = "sent" /\ Confirmed(h)
    /\ \/ Len(todo[h]) = 1 /\ Answer(h, "ok")
       \/ /\ Len(todo[h]) > 1
          /\ todo' = [todo EXCEPT ![h] = Tail(@)]
          /\ Goto(h, "call")
          /\ UNCHANGED reply
    /\ UNCHANGED <<chainVars, txs, end, last, tries, tx, mine, asked>>

-----------------------------------------------------------------------------
Init ==
    /\ round = 0 /\ lastClaim = 0 /\ bonded \in Amounts \union {0} /\ allowance = 0
    /\ locks = <<>> /\ registered = FALSE /\ txs = <<>>
    /\ pc = [h \in Handlers |-> "idle"] /\ todo = [h \in Handlers |-> <<>>]
    /\ end = [h \in Handlers |-> 0] /\ last = [h \in Handlers |-> 0]
    /\ tries = [h \in Handlers |-> <<>>]
    /\ tx = [h \in Handlers |-> 0] /\ mine = [h \in Handlers |-> {}]
    /\ reply = [h \in Handlers |-> "none"] /\ asked = 0

Step(h) ==
    \/ Request(h) \/ Begin(h) \/ DelegatorStatus(h) \/ GetDelegator(h)
    \/ Claim(h) \/ CheckClaim(h) \/ CheckRest(h)
    \/ Allowance(h) \/ CheckApprove(h) \/ Send(h) \/ CheckTx(h)
    \/ CallFails(h) \/ CheckFails(h)

Next == NewRound \/ (\E i \in 1 .. MaxTxs : Mine(i)) \/ \E h \in Handlers : Step(h)

Spec == Init /\ [][Next]_vars

-----------------------------------------------------------------------------
(* Properties *)

Labels ==
    {"idle", "call", "status", "delegator", "claim", "act", "send"} \union Waiting

\* A handler is idle exactly when it has no call to make.
IdleHandlers == \A h \in Handlers : (pc[h] = "idle") <=> (todo[h] = <<>>)

\* Shapes of the state; a handler is idle exactly when it has no call to make, and
\* waits only for a transaction it has sent.
TypeOK ==
    /\ round \in 0 .. MaxRound /\ lastClaim \in 0 .. round
    /\ bonded \in Nat /\ allowance \in Nat /\ locks \in Seq(Nat)
    /\ registered \in BOOLEAN
    /\ txs \in Seq(Tx) /\ Len(txs) <= MaxTxs
    /\ pc \in [Handlers -> Labels]
    /\ todo \in [Handlers -> Seq(Call)]
    /\ end \in [Handlers -> Nat] /\ last \in [Handlers -> Nat]
    /\ tries \in [Handlers -> Seq(Nat)] /\ \A h \in Handlers : Len(tries[h]) <= MaxRetries
    /\ tx \in [Handlers -> 0 .. Len(txs)]
    /\ mine \in [Handlers -> SUBSET (1 .. Len(txs))]
    /\ reply \in [Handlers -> {"none", "ok", "error"}] /\ asked \in 0 .. MaxRequests
    /\ IdleHandlers
    /\ \A h \in Handlers : pc[h] \in Waiting => tx[h] # 0

\* autoClaimEarnings: whatever other requests do, and whatever is mined late, no
\* transaction claims more rounds than the contract allows.
ClaimsFit ==
    \A i \in 1 .. Len(txs) :
        txs[i].op = "claimEarnings" /\ txs[i].status = "pending"
            => txs[i].arg <= lastClaim + MaxClaims

\* autoClaimEarnings: when a bonding action goes on to its own transaction, the rounds
\* up to the one it has read fit in one claim, also if another request has bonded or
\* claimed in the meantime.
RestFits ==
    \A h \in Handlers :
        pc[h] \in {"act", "approving", "send"} /\ Now(h).op \in Bonding /\ bonded # 0
            => end[h] <= lastClaim + MaxClaims

\* The transactions that a request has given up: none but a retried /claimEarnings goes on
\* after one, and there is at most one for each attempt that failed.
GivenUp(h) == {tries[h][t] : t \in 1 .. Len(tries[h])}

\* A request sends a transaction only when those before it have been mined and have
\* not failed (/activateOrchestrator registers only with the stake in place), and is
\* done only when all of them have, except for those that an earlier attempt of
\* /claimEarnings gave up, which may still be mined, or have failed.
MinedInTurn ==
    \A h \in Handlers : \A i \in mine[h] :
        i # tx[h] \/ reply[h] = "ok" => txs[i].status = "ok" \/ i \in GivenUp(h)

\* What ClaimsFit and RestFits rest on, for a handler: its lastClaimRound is not ahead
\* of the contract's; it waits for the claim that takes it MaxClaims further; a bonding
\* action claims through a round that has begun, and what is left fits in one claim.
ClaimInv(h) ==
    /\ pc[h] \in {"claim", "claiming"} => last[h] <= lastClaim
    /\ pc[h] = "claiming" => Sent(h).op = "claimEarnings" /\ Sent(h).arg = last[h] + MaxClaims
    /\ pc[h] \notin {"idle", "call"} /\ Now(h).op \in Bonding => end[h] <= round
    /\ pc[h] \in {"act", "approving", "send"} =>
          /\ Now(h).op # "claimEarnings"
          /\ Now(h).op \in Bonding /\ bonded # 0 => end[h] <= lastClaim + MaxClaims

\* For the transactions: the contract has counted the claims that were mined.
StakingInv ==
    /\ \A h \in Handlers : ClaimInv(h)
    /\ \A i \in 1 .. Len(txs) :
          txs[i].op = "claimEarnings" /\ txs[i].status = "ok" => txs[i].arg <= lastClaim
    /\ ClaimsFit

\* What MinedInTurn rests on: while a handler goes on, all its transactions have been
\* mined and have not failed, or were given up.
Turn(h) ==
    /\ pc[h] # "idle" => reply[h] # "ok"
    /\ \A i \in mine[h] :
          i # tx[h] \/ pc[h] \notin Waiting \union {"idle"} \/ reply[h] = "ok"
              => txs[i].status = "ok" \/ i \in GivenUp(h)

TurnInv == \A h \in Handlers : Turn(h)

\* Client.autoClaimEarnings: "any subsequent bonding action will automatically claim
\* through the rest of the rounds".  No bonding action fails because there are too
\* many rounds to claim.
BondingClaims ==
    [][\A i \in 1 .. Len(txs) :
          txs[i].op \in Bonding /\ txs[i].status = "pending" /\ txs'[i].status # "pending"
              => ClaimsRest]_vars

\* Client.Bond: "approve the necessary amount".  The allowance covers a bond when it is
\* mined.
BondCovered ==
    [][\A i \in 1 .. Len(txs) :
          txs[i].op = "bond" /\ txs[i].status = "pending" /\ txs'[i].status # "pending"
              => txs[i].arg <= allowance]_vars
=============================================================================
