------------------------------- MODULE Console -------------------------------
(****************************************************************************)
(* The operator's console, livepeer_cli (cmd/livepeer_cli).  The wizard asks *)
(* which option to run.  An option gets what it needs from the node's web    *)
(* server, one GET after the other, checks it, asks the operator for the     *)
(* rest, and sends a POST that the node turns into transactions: a bonding   *)
(* action is preceded by claims of the earnings so far.  Between the GETs,   *)
(* the POST and the last transaction blocks are mined, rounds begin and      *)
(* others redeem the account's tickets.                                      *)
(*                                                                           *)
(* Two of the answers lag behind the chain: the current block is the last    *)
(* one the node has seen, and the unbonding locks are those of its database. *)
(*                                                                           *)
(* The contracts are external and modelled from how the code uses them.  The *)
(* operator is the only one who uses the account.                            *)
(****************************************************************************)
EXTENDS Integers, Sequences

CONSTANTS
    Tokens,        \* tokens of the account
    MinEscrow,     \* minPenaltyEscrow
    UnlockPeriod,  \* blocks
    Period,        \* unbondingPeriod, in rounds
    MaxClaims,     \* maxEarningsClaimsRounds
    MaxOptions, MaxBlock, MaxRound, MaxFunds  \* bounds

ConsoleAssumption ==
    /\ Tokens \in Nat /\ MinEscrow \in Nat /\ UnlockPeriod \in Nat /\ Period \in Nat
    /\ MaxClaims \in Nat \ {0}
    /\ MaxOptions \in Nat /\ MaxBlock \in Nat /\ MaxRound \in Nat /\ MaxFunds \in Nat

VARIABLES
    orchestrator,                  \* w.orchestrator
    balance, bonded, self, locks,  \* tokens, stake, it is with oneself, locks by id
    round, rewarded, lastClaim,    \* current round, last one with a reward, last one claimed
    deposit, escrow, withdrawBlock, block,
    seen, listed,                  \* the node: last block seen, locks in its database
    endRound,                      \* the node: current round that a bonding action began in
    pc, op, toRead, info, arg,     \* the wizard: GETs left, answers, form of the POST
    options, redeemed,             \* options run so far, tickets redeemed since the last began
    posted                         \* the option's POST, whether the contracts took it, and whether
                                   \* a round began after the node had asked for it

stakeVars == <<balance, bonded, self, locks, round, rewarded>>
claimVars == <<lastClaim, endRound>>
fundVars == <<deposit, escrow, withdrawBlock>>
nodeVars == <<seen, listed>>
wizardVars == <<orchestrator, pc, op, toRead, info, arg, options, posted>>
vars == <<stakeVars, claimVars, fundVars, block, nodeVars, wizardVars, redeemed>>

Addresses == {"self", "other", "zero"}

\* GETs of the tables that the status of the node is made of
broadcastStats == <<"sender", "config">>
orchestratorStats == <<"orchestrator">>
orchestratorEventSubscriptions == <<"subscriptions">>
delegatorStats == <<"delegator">>

stats ==
    <<"addresses">>
    \o (IF orchestrator THEN orchestratorStats \o orchestratorEventSubscriptions
                        ELSE broadcastStats)
    \o delegatorStats \o <<"round">>

\* The options, and their GETs in order
initializeOptions ==
         [stats |-> stats,
          protocolStats |-> <<"protocol">>,
          plain |-> <<>>,
          fees |-> <<>>,
          bond |-> <<"orchestrators", "balance">>,
          unbond |-> <<"delegator">>,
          rebond |-> <<"delegator", "locks">>,
          withdrawStake |-> <<"delegator", "withdrawable">>,
          claim |-> <<"delegator">>,
          transfer |-> <<"balance">>,
          reward |-> <<"rewarded", "round">>,
          activate |-> <<"delegator", "locks", "balance">>,
          deposit |-> <<"sender", "params">>,
          unlock |-> <<"sender", "block", "params">>,
          cancelUnlock |-> <<"sender", "block">>,
          withdraw |-> <<"sender", "block">>]

ForOrchestrators == {"reward", "activate"}
ForOthers == {"deposit", "unlock", "cancelUnlock", "withdraw"}

-----------------------------------------------------------------------------
(* The node's web server *)

senderInfo == [deposit |-> deposit, escrow |-> escrow, withdrawBlock |-> withdrawBlock]

ticketBrokerParams == [minPenaltyEscrow |-> MinEscrow, unlockPeriod |-> UnlockPeriod]

\* Mutant: the node answers with the block after the last one it has seen.
currentBlock_Next == seen + 1

currentBlock == seen

currentRound == round

delegatorInfo == [bonded |-> bonded, self |-> self]

\* Of a transcoder the round it last called reward() in
orchestratorInfo == rewarded

tokenBalance == balance

registeredOrchestrators == {"self", "other"}

\* Of the database, and those that can be withdrawn in this round
unbondingLocks(withdrawable) ==
    {l \in listed' : withdrawable => locks[l].round <= round}

\* Before it answers, /unbondingLocks adds the locks that the contract has and the
\* database has not, those apart that it cannot ask for.
FindLocks(name) ==
    IF name \in {"locks", "withdrawable"}
    THEN \E found \in SUBSET {l \in 1 .. Len(locks) : ~locks[l].used} : listed' = listed \union found
    ELSE UNCHANGED listed

Response(name) ==
    CASE name = "sender" -> senderInfo
      [] name = "params" -> ticketBrokerParams
      [] name = "block" -> currentBlock
      [] name = "delegator" -> delegatorInfo
      [] name = "locks" -> unbondingLocks(FALSE)
      [] name = "withdrawable" -> unbondingLocks(TRUE)
      [] name = "balance" -> tokenBalance
      [] name = "orchestrators" -> registeredOrchestrators
      [] name = "rewarded" -> orchestratorInfo
      [] name = "round" -> currentRound
      [] OTHER -> TRUE   \* used by no check

-----------------------------------------------------------------------------
(* The wizard's loop *)

ToMenu == pc' = "menu" /\ toRead' = <<>> /\ info' = <<>> /\ arg' = <<>>

run ==
    /\ pc = "start"
    /\ pc' \in {"menu", "exit"}   \* the node does not answer: exit
    /\ UNCHANGED <<orchestrator, op, toRead, info, arg, options, posted, stakeVars, claimVars, fundVars, block,
                   nodeVars, redeemed>>

NotPosted == [op |-> "plain", ok |-> TRUE, form |-> <<>>, redeemed |-> FALSE, late |-> FALSE]

filterOptions ==
    DOMAIN initializeOptions \ (IF orchestrator THEN ForOthers ELSE ForOrchestrators)

doCLIOpt(o) ==
    /\ pc = "menu" /\ o \in filterOptions /\ options < MaxOptions
    /\ options' = options + 1 /\ op' = o
    /\ toRead' = initializeOptions[o] /\ info' = <<>> /\ arg' = <<>>
    /\ pc' = "reading" /\ redeemed' = FALSE /\ posted' = NotPosted
    /\ UNCHANGED <<orchestrator, stakeVars, claimVars, fundVars, block, nodeVars>>

Known(name) == name \in DOMAIN info

\* Only shown to the operator
Shown == op \in {"stats", "protocolStats"}

\* The answer to the next GET
httpGet ==
    /\ pc = "reading" /\ toRead # <<>>
    /\ FindLocks(Head(toRead))
    /\ info' = IF Shown THEN info ELSE
               [n \in DOMAIN info \union {Head(toRead)} |->
                    IF n = Head(toRead) THEN Response(n) ELSE info[n]]
    /\ toRead' = Tail(toRead)
    /\ UNCHANGED <<orchestrator, pc, op, arg, options, posted, stakeVars, claimVars, fundVars, block, seen, redeemed>>

\* What some of the options do without
Optional(name) ==
    \/ op = "stats" /\ name # "addresses"
    \/ op = "bond" /\ name = "orchestrators"
    \/ op = "activate" /\ name \in {"locks", "balance"}
    \/ op = "transfer"
    \/ op = "reward" /\ name = "round"
    \/ name \in {"locks", "withdrawable"}

\* No answer, or not the one expected
GetFails ==
    /\ pc = "reading" /\ toRead # <<>>
    /\ \/ Optional(Head(toRead)) /\ toRead' = Tail(toRead) /\ UNCHANGED <<pc, info, arg>>
       \/ ~Optional(Head(toRead)) /\ ToMenu
    /\ UNCHANGED <<orchestrator, op, options, posted, stakeVars, claimVars, fundVars, block, nodeVars, redeemed>>

Asking(o) == pc = "reading" /\ toRead = <<>> /\ op = o

\* The form is filled in.
Submit(form) ==
    /\ pc' = "posting" /\ arg' = form
    /\ UNCHANGED <<toRead, info>>

-----------------------------------------------------------------------------
(* The options: a check of what has been read, and what the operator may enter.  Input *)
(* that is not valid is asked for again.                                                *)

\* A prompt is repeated until what is entered is in the set.
readStringAndValidate(valid) == valid
\* Only a sign tells negative numbers apart: -1 stands for all of them.
readBigInt(valid) == valid
readPositiveFloatAndValidate(valid) == valid

protocolStats == Asking("protocolStats") /\ ToMenu
Show == Asking("stats") /\ ToMenu

\* The options that neither read nor check what the node says
initializeRound == Submit(<<>>)
requestTokens == Submit(<<>>)
setGasPrice == Submit(<<>>)
\* The public address is looked up and offered.
promptOrchestratorConfig == Submit(<<>>)
setOrchestratorConfig == promptOrchestratorConfig

\* The identifiers may not be in the list of video profiles.
idListToVideoProfileList == Submit(<<>>) \/ ToMenu
\* The list may not be had.
setBroadcastConfig == ToMenu \/ idListToVideoProfileList

plain ==
    /\ Asking("plain")
    /\ \/ initializeRound \/ requestTokens \/ setGasPrice
       \/ setOrchestratorConfig \/ setBroadcastConfig

withdrawFees == Asking("fees") /\ Submit(<<>>)

\* The table of locks; none when they cannot be had
unbondingLockStats(name) == IF Known(name) THEN info[name] ELSE {}

\* An identifier that is not in the list stands for the zero address.  Without a list
\* the address is typed in.
registeredOrchestratorStats ==
    IF Known("orchestrators") THEN info["orchestrators"] \union {"zero"} ELSE Addresses

bond ==
    /\ Asking("bond")
    /\ \/ \E to \in registeredOrchestratorStats, a \in readBigInt(-1 .. info["balance"]) :
             Submit([to |-> to, amount |-> a])
       \/ ~Known("orchestrators") /\ ToMenu   \* not an address

\* "y" stands for all of the stake, unless that is nothing.
unbond ==
    /\ Asking("unbond")
    /\ \E a \in readBigInt(-1 .. info["delegator"].bonded) : a # 0 /\ Submit([amount |-> a])

rebond ==
    /\ Asking("rebond")
    /\ \/ unbondingLockStats("locks") = {} /\ ToMenu
       \/ \E l \in unbondingLockStats("locks"), to \in Addresses :
             /\ info["delegator"].bonded # 0 => to = "zero"   \* not asked for
             /\ Submit([lock |-> l, to |-> to])
       \/ info["delegator"].bonded = 0 /\ ToMenu   \* not an address

withdrawStake ==
    /\ Asking("withdrawStake")
    /\ \/ unbondingLockStats("withdrawable") = {} /\ ToMenu
       \/ \E l \in unbondingLockStats("withdrawable") : Submit([lock |-> l])

claimRewardsAndFees == Asking("claim") /\ Submit(<<>>)

transferTokens == Asking("transfer") /\ \E a \in readBigInt(-1 .. Tokens) : Submit([amount |-> a])

\* A round that cannot be read is round 0.
callReward ==
    /\ Asking("reward")
    /\ LET c == IF Known("round") THEN info["round"] ELSE 0
       IN (c = info["rewarded"] /\ ToMenu) \/ (c # info["rewarded"] /\ Submit(<<>>))

\* Who has no stake with themselves rebonds a lock or bonds tokens, but nothing only if
\* there is some stake already.
activateOrchestrator ==
    /\ Asking("activate")
    /\ LET d == info["delegator"]
           has == d.bonded > 0 /\ d.self
       IN \/ has /\ Submit([lock |-> 0, amount |-> 0])
          \/ /\ ~has
             /\ \E l \in unbondingLockStats("locks") : Submit([lock |-> l, amount |-> 0])
          \/ ~has /\ ~Known("balance") /\ ToMenu
          \/ /\ ~has /\ Known("balance")
             /\ \E a \in readBigInt(-1 .. info["balance"]) :
                   (a = 0 => d.bonded > 0) /\ Submit([lock |-> 0, amount |-> a])

\* What is missing from the penalty escrow
Required(e, min) == IF e < min THEN min - e ELSE 0

\* The escrow is filled up from the amount, and the rest is deposited.
fundAndApproveSigners(req) ==
    \E a \in readPositiveFloatAndValidate(req .. MaxFunds) : Submit([deposit |-> a - req, escrow |-> req])

fundDeposit ==
    \E a \in readPositiveFloatAndValidate(0 .. MaxFunds) : Submit([deposit |-> a, escrow |-> 0])

depositFunds ==
    /\ Asking("deposit")
    /\ LET req == Required(info["sender"].escrow, info["params"].minPenaltyEscrow)
       IN \/ req > 0 /\ fundAndApproveSigners(req)
          \/ req = 0 /\ fundDeposit

\* Mutant: the withdraw block is not reached yet.
senderStatus_Early(s, b) ==
    CASE s.deposit = 0 /\ s.escrow = 0 -> "Empty"
      [] s.withdrawBlock > 0 /\ s.withdrawBlock <= b + 1 -> "Unlocked"
      [] s.withdrawBlock > b + 1 -> "Unlocking"
      [] OTHER -> "Locked"

senderStatus(s, b) ==
    IF s.deposit = 0 /\ s.escrow = 0 THEN "Empty"
    ELSE IF s.withdrawBlock = 0 THEN "Locked"
    ELSE IF s.withdrawBlock <= b THEN "Unlocked" ELSE "Unlocking"

\* The operator may answer "n".
IfStatus(status) ==
    LET is == senderStatus(info["sender"], info["block"]) = status
    IN \/ ~is /\ ToMenu
       \/ is /\ \E answer \in readStringAndValidate({"y", "n"}) :
                   IF answer = "y" THEN Submit(<<>>) ELSE ToMenu

unlock == Asking("unlock") /\ IfStatus("Locked")
cancelUnlock == Asking("cancelUnlock") /\ IfStatus("Unlocking")
withdraw == Asking("withdraw") /\ IfStatus("Unlocked")

Option ==
    /\ \/ Show \/ protocolStats \/ plain \/ withdrawFees \/ bond \/ unbond \/ rebond \/ withdrawStake \/ claimRewardsAndFees
       \/ transferTokens \/ callReward \/ activateOrchestrator \/ depositFunds
       \/ unlock \/ cancelUnlock \/ withdraw
    /\ UNCHANGED <<orchestrator, op, options, posted, stakeVars, claimVars, fundVars, block, nodeVars, redeemed>>

-----------------------------------------------------------------------------
(* The contracts *)

InUse(l) == l \in 1 .. Len(locks) /\ ~locks[l].used
HasFunds == deposit > 0 \/ escrow > 0

\* /activateOrchestrator bonds no amount that is not positive.
Activates(a) == a.amount > 0 \/ a.lock # 0

\* The requests that come down to a bonding action, which claims through the current round
Bonding(o, a) ==
    o \in {"bond", "unbond", "rebond", "fees"} \/ (o = "activate" /\ Activates(a))

ClaimsRest == bonded # 0 => round <= lastClaim + MaxClaims

\* A negative amount is encoded as a number that nobody has so many tokens for.
Allows(o, a) ==
    \/ o \in {"plain", "fees", "claim", "deposit"}
    \/ o \in {"bond", "transfer"} /\ 0 <= a.amount /\ a.amount <= balance
    \/ o = "unbond" /\ 0 < a.amount /\ a.amount <= bonded
    \/ o = "rebond" /\ InUse(a.lock)
    \/ o = "withdrawStake" /\ InUse(a.lock) /\ locks[a.lock].round <= round
    \/ o = "reward" /\ rewarded < round
    \/ /\ o = "activate" /\ a.amount <= balance /\ (a.lock # 0 => InUse(a.lock) /\ bonded = 0)
       /\ Activates(a) \/ (bonded > 0 /\ self)
    \/ o = "unlock" /\ HasFunds /\ withdrawBlock = 0
    \/ o = "cancelUnlock" /\ withdrawBlock > 0
    \/ o = "withdraw" /\ HasFunds /\ withdrawBlock > 0 /\ withdrawBlock <= block

Accepts(o, a) == Allows(o, a) /\ (Bonding(o, a) => ClaimsRest)

Amount(l) == locks[l].amount
Use(l) == locks' = [locks EXCEPT ![l].used = TRUE]

ExecuteStake(o, a) ==
    \/ /\ o \in {"plain", "fees", "claim"} \union ForOthers /\ UNCHANGED stakeVars
    \/ /\ o = "transfer" /\ balance' = balance - a.amount
       /\ UNCHANGED <<bonded, self, locks, round, rewarded>>
    \/ /\ o = "bond" /\ balance' = balance - a.amount /\ bonded' = bonded + a.amount
       /\ self' = (a.to = "self") /\ UNCHANGED <<locks, round, rewarded>>
    \/ /\ o = "unbond" /\ bonded' = bonded - a.amount
       /\ locks' = Append(locks, [amount |-> a.amount, round |-> round + Period, used |-> FALSE])
       /\ UNCHANGED <<balance, self, round, rewarded>>
    \/ /\ o = "rebond" /\ Use(a.lock) /\ bonded' = bonded + Amount(a.lock)
       /\ self' = IF bonded = 0 THEN a.to = "self" ELSE self
       /\ UNCHANGED <<balance, round, rewarded>>
    \/ /\ o = "withdrawStake" /\ Use(a.lock) /\ balance' = balance + Amount(a.lock)
       /\ UNCHANGED <<bonded, self, round, rewarded>>
    \/ /\ o = "reward" /\ rewarded' = round
       /\ UNCHANGED <<balance, bonded, self, locks, round>>
    \/ /\ o = "activate" /\ self' = TRUE
       /\ IF a.amount > 0 THEN balance' = balance - a.amount /\ bonded' = bonded + a.amount
          ELSE /\ UNCHANGED balance
               /\ bonded' = bonded + (IF a.lock = 0 THEN 0 ELSE Amount(a.lock))
       /\ IF a.lock = 0 THEN UNCHANGED locks ELSE Use(a.lock)
       /\ UNCHANGED <<round, rewarded>>

\* Funding ends an unlock period.
ExecuteFunds(o, a) ==
    \/ /\ o \notin ForOthers /\ UNCHANGED fundVars
    \/ /\ o = "deposit" /\ deposit' = deposit + a.deposit /\ escrow' = escrow + a.escrow
       /\ withdrawBlock' = 0
    \/ /\ o = "unlock" /\ withdrawBlock' = block + UnlockPeriod /\ UNCHANGED <<deposit, escrow>>
    \/ /\ o = "cancelUnlock" /\ withdrawBlock' = 0 /\ UNCHANGED <<deposit, escrow>>
    \/ /\ o = "withdraw" /\ deposit' = 0 /\ escrow' = 0 /\ withdrawBlock' = 0

\* A claim is through the round that the operator has entered.
ExecuteClaims(o, a) ==
    /\ CASE Bonding(o, a) -> lastClaim' = round
         [] o = "claim" /\ bonded # 0 -> lastClaim' \in lastClaim .. round
         [] OTHER -> UNCHANGED lastClaim
    /\ endRound' = 0

\* What claims of MaxClaims rounds each can come to
Claims == {r \in lastClaim .. round : (r - lastClaim) % MaxClaims = 0}

\* The handler of a bonding action claims until no more rounds are left than the action
\* itself claims.  Only a bonded delegator has earnings to claim.
autoClaimEarnings ==
    /\ pc = "posting" /\ Bonding(op, arg)
    /\ \/ /\ IF bonded = 0 THEN UNCHANGED lastClaim
             ELSE \E r \in Claims :
                      /\ round <= r + MaxClaims /\ (r # lastClaim => r < round)
                      /\ lastClaim' = r
          /\ endRound' = round /\ pc' = "sending"
          /\ UNCHANGED <<toRead, info, arg>>
       \* One of the claims fails.
       \/ bonded # 0 /\ lastClaim' \in Claims /\ UNCHANGED endRound /\ ToMenu
    /\ UNCHANGED <<orchestrator, op, options, posted, stakeVars, fundVars, block, nodeVars, redeemed>>

Post(ok) ==
    posted' = [op |-> op, ok |-> ok, form |-> arg, redeemed |-> redeemed,
               late |-> Bonding(op, arg) /\ round # endRound]

\* The handler sends the transaction and waits until it is mined.
httpPost ==
    /\ (pc = "posting" /\ ~Bonding(op, arg)) \/ pc = "sending"
    /\ \/ /\ Accepts(op, arg)
          /\ ExecuteStake(op, arg) /\ ExecuteFunds(op, arg) /\ ExecuteClaims(op, arg)
          /\ deposit' <= MaxFunds
          /\ Post(TRUE)
       \/ /\ ~Accepts(op, arg)
          /\ Post(FALSE)
          /\ endRound' = 0 /\ UNCHANGED <<stakeVars, lastClaim, fundVars>>
       \* The node, or its Ethereum client, fails before that.
       \/ endRound' = 0 /\ UNCHANGED <<posted, stakeVars, lastClaim, fundVars>>
    /\ ToMenu
    /\ UNCHANGED <<orchestrator, op, options, block, nodeVars, redeemed>>

-----------------------------------------------------------------------------
(* Meanwhile *)

NewBlock ==
    /\ block < MaxBlock /\ block' = block + 1
    /\ UNCHANGED <<stakeVars, claimVars, fundVars, nodeVars, wizardVars, redeemed>>

NewRound ==
    /\ round < MaxRound /\ round' = round + 1
    /\ UNCHANGED <<balance, bonded, self, locks, rewarded, claimVars, fundVars, block, nodeVars, wizardVars, redeemed>>

\* A ticket is redeemed: the deposit pays, or what is left and the escrow.
Redeem ==
    /\ HasFunds
    /\ \/ deposit > 0 /\ deposit' = deposit - 1 /\ UNCHANGED escrow
       \/ deposit = 0 /\ escrow' = escrow - 1 /\ UNCHANGED deposit
    /\ redeemed' = TRUE
    /\ UNCHANGED <<withdrawBlock, stakeVars, claimVars, block, nodeVars, wizardVars>>

SeeBlock ==
    /\ seen' \in seen + 1 .. block
    /\ UNCHANGED <<stakeVars, claimVars, fundVars, block, listed, wizardVars, redeemed>>

\* UnbondingService follows the events.
SeeLocks ==
    /\ listed' = {l \in 1 .. Len(locks) : ~locks[l].used} /\ listed' # listed
    /\ UNCHANGED <<stakeVars, claimVars, fundVars, block, seen, wizardVars, redeemed>>

-----------------------------------------------------------------------------
Init ==
    /\ orchestrator \in BOOLEAN
    /\ balance = Tokens /\ bonded = 0 /\ self = FALSE /\ locks = <<>>
    /\ round = 1 /\ rewarded = 0 /\ lastClaim = 0 /\ endRound = 0 /\ deposit = 0 /\ escrow = 0 /\ withdrawBlock = 0
    /\ block = 1 /\ seen = 1 /\ listed = {}
    /\ pc = "start" /\ op = "stats" /\ toRead = <<>> /\ info = <<>> /\ arg = <<>>
    /\ options = 0 /\ redeemed = FALSE
    /\ posted = NotPosted

Wizard == run \/ httpGet \/ GetFails \/ Option \/ autoClaimEarnings \/ httpPost

Next ==
    \/ Wizard \/ \E o \in filterOptions : doCLIOpt(o)
    \/ NewBlock \/ NewRound \/ Redeem \/ SeeBlock \/ SeeLocks

Spec == Init /\ [][Next]_vars

-----------------------------------------------------------------------------
(* Properties *)

\* Shapes of the state.
TypeOK ==
    /\ balance \in 0 .. Tokens /\ bonded \in 0 .. Tokens
    /\ \A l \in listed : l \in 1 .. Len(locks)
    /\ seen \in 1 .. block /\ block \in 1 .. MaxBlock /\ round \in 1 .. MaxRound
    /\ deposit \in 0 .. MaxFunds /\ escrow \in Nat /\ withdrawBlock \in Nat
    /\ pc \in {"start", "menu", "reading", "posting", "sending", "exit"} /\ op \in DOMAIN initializeOptions

\* bond, unbond, unlock, cancelUnlock, withdraw: what the wizard lets through is still
\* right when the transaction is mined, although blocks and rounds have gone by since it
\* looked and the block it compares with is one the node has seen.  Three things are not
\* looked at: tickets redeemed meanwhile, a round that begins after a bonding action has
\* asked for the current one (there may then be too many rounds left to claim), and the
\* sign of an amount.
LetThroughAccepted ==
    /\ posted.op \in {"bond", "unbond", "unlock", "cancelUnlock", "withdraw"}
    /\ ~posted.redeemed /\ ~posted.late
    /\ posted.op \in {"bond", "unbond"} => posted.form.amount >= 0
    => posted.ok

\* unbond, activateOrchestrator: "You are not bonded" is for who has no stake.  An amount
\* is asked for, again and again, only where a positive one is valid.
SomethingToEnter ==
    pc = "reading" /\ toRead = <<>> =>
        /\ op = "unbond" => info["delegator"].bonded > 0
        /\ op = "activate" /\ info["delegator"].bonded = 0 /\ Known("balance") =>
               info["balance"] > 0 \/ unbondingLockStats("locks") # {}

\* rebond, withdrawStake: a lock in the list has not been used.
LockAccepted == posted.op \in {"rebond", "withdrawStake"} => posted.ok

\* bond: tokens are bonded to somebody.
BondToSomebody == posted.op = "bond" => posted.form.to # "zero"
=============================================================================
