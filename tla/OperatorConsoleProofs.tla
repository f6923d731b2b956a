------------------------ MODULE OperatorConsoleProofs ------------------------
(****************************************************************************)
(* Proofs about what the node's operator has sent: the console's options    *)
(* (Console), the nonces of one account (NonceManager) and the client       *)
(* that signs with it (EthClient).                                          *)
(****************************************************************************)
EXTENDS OperatorConsole, ChainAccess, Integers, Sequences, TLAPS

\* An element at the end of a sequence
LEMMA Appended ==
    ASSUME NEW T, NEW q \in Seq(T), NEW e \in T
    PROVE  /\ Append(q, e) \in Seq(T) /\ Len(Append(q, e)) = Len(q) + 1
           /\ Append(q, e)[Len(q) + 1] = e /\ \A i \in 1 .. Len(q) : Append(q, e)[i] = q[i]
OBVIOUS

\* The first element of a sequence, and the others
LEMMA HeadAndTail ==
    ASSUME NEW T, NEW q \in Seq(T), q # <<>>
    PROVE  /\ Head(q) \in T /\ Tail(q) \in Seq(T) /\ Len(Tail(q)) = Len(q) - 1
           /\ \A i \in 1 .. Len(Tail(q)) : Tail(q)[i] = q[i + 1]
OBVIOUS

-----------------------------------------------------------------------------
(* Console *)

Checked == {"bond", "unbond", "unlock", "cancelUnlock", "withdraw"}

Gets == {"orchestrators", "balance", "delegator", "sender", "block", "params"}

\* What an option cannot do without
Needed(name) ==
    \/ name = "balance" /\ op = "bond"
    \/ name = "delegator" /\ op = "unbond"
    \/ name \in {"sender", "block"} /\ op \in {"unlock", "cancelUnlock", "withdraw"}
    \/ name \in {"sender", "params"} /\ op = "deposit"

ConsoleLock == [amount : Nat, round : Nat, used : BOOLEAN]

AccountTypes ==
    /\ balance \in Nat /\ stake \in Nat /\ unbonding \in Seq(ConsoleLock) /\ roundNow \in Nat
    /\ deposit \in Nat /\ escrow \in Nat /\ withdrawBlock \in Nat
    /\ claimed \in Nat /\ claimUpTo \in Nat /\ claimUpTo <= roundNow

\* The account is the operator's: what was read of it holds until the POST, the funds
\* apart, which shrink when a ticket is redeemed.
StillTrue ==
    wizard = "reading" =>
        /\ "balance" \in DOMAIN info => info["balance"] = balance
        /\ "delegator" \in DOMAIN info => info["delegator"].bonded = stake
        /\ "sender" \in DOMAIN info =>
              /\ info["sender"].withdrawBlock = withdrawBlock
              /\ info["sender"].deposit \in Nat /\ info["sender"].escrow \in Nat
              /\ ~redeemed => info["sender"].deposit = deposit /\ info["sender"].escrow = escrow
        /\ "block" \in DOMAIN info => info["block"] \in Nat /\ info["block"] <= block
        /\ "params" \in DOMAIN info => info["params"].minPenaltyEscrow = MinEscrow

\* What an option needs it has read, or will read before it asks.
WillRead ==
    wizard = "reading" /\ op \in Checked \union {"deposit"} =>
        /\ toRead \in Seq(Gets)
        /\ \A name \in Gets :
              Needed(name) => name \in DOMAIN info \/ \E i \in 1 .. Len(toRead) : toRead[i] = name

NotNegative == op \in {"bond", "unbond"} => arg.amount >= 0

\* The form that is sent
Filled ==
    wizard \in {"posting", "sending"} =>
        /\ op \in {"bond", "transfer", "activate", "unbond"} => arg.amount \in Int
        /\ op = "deposit" => arg.deposit \in Nat /\ arg.escrow \in Nat
        /\ op \in Checked /\ ~redeemed /\ NotNegative => K!Allows(op, arg)

\* The claims that a bonding action begins with
Claimed == wizard = "sending" /\ roundNow = claimUpTo => K!ClaimsRest

ConsoleInv ==
    /\ AccountTypes /\ block \in Nat /\ seen \in Nat /\ seen <= block
    /\ redeemed \in BOOLEAN
    /\ StillTrue /\ WillRead /\ Filled /\ Claimed

\* Blocks, rounds and redeemed tickets, and what the node sees of them
LEMMA ConsoleMeanwhile ==
    ASSUME ConsoleInv, K!NewBlock \/ K!NewRound \/ K!Redeem \/ K!SeeBlock \/ K!SeeLocks \/ UNCHANGED K!vars
    PROVE  ConsoleInv' /\ UNCHANGED posted
<1>i. /\ AccountTypes /\ StillTrue /\ WillRead /\ Filled /\ Claimed
      /\ block \in Nat /\ seen \in Nat /\ seen <= block
  BY Zenon DEF ConsoleInv
<1> USE DEF K!stakeVars, K!claimVars, K!fundVars, K!nodeVars, K!wizardVars
<1>0. UNCHANGED <<wizard, op, toRead, info, arg, posted, balance, stake, unbonding, withdrawBlock,
                 claimed, claimUpTo>>
  BY Zenon DEF K!NewBlock, K!NewRound, K!Redeem, K!SeeBlock, K!SeeLocks, K!vars
<1>1. /\ block' \in Nat /\ seen' \in Nat /\ seen' <= block' /\ block <= block'
      /\ roundNow' \in Nat /\ deposit' \in Nat /\ escrow' \in Nat /\ claimUpTo <= roundNow'
      /\ roundNow' # roundNow => claimUpTo # roundNow'
  <2>1. /\ block \in Nat /\ seen \in Nat /\ seen <= block
        /\ roundNow \in Nat /\ deposit \in Nat /\ escrow \in Nat
        /\ claimUpTo \in Nat /\ claimUpTo <= roundNow
    BY <1>i, Zenon DEF AccountTypes
  <2>2. CASE K!NewBlock \/ K!NewRound
    BY <2>1, <2>2 DEF K!NewBlock, K!NewRound
  <2>3. CASE K!Redeem
    BY <2>1, <2>3, SMTT(30) DEF K!Redeem, K!HasFunds
  <2>4. CASE K!SeeBlock \/ K!SeeLocks \/ UNCHANGED K!vars
    <3>1. /\ block' = block /\ deposit' = deposit /\ escrow' = escrow /\ roundNow' = roundNow
          /\ seen' = seen \/ seen' \in seen + 1 .. block
      BY <2>4, Zenon DEF K!SeeBlock, K!SeeLocks, K!vars
    <3> QED
      BY <2>1, <3>1
  <2> QED
    BY <2>2, <2>3, <2>4, Zenon
<1>2. redeemed' \in BOOLEAN /\ (~redeemed' => ~redeemed)
  BY Zenon DEF ConsoleInv, K!NewBlock, K!NewRound, K!Redeem, K!SeeBlock, K!SeeLocks, K!vars
<1>3. ~redeemed' => UNCHANGED <<deposit, escrow>>
  BY Zenon DEF K!NewBlock, K!NewRound, K!Redeem, K!SeeBlock, K!SeeLocks, K!vars
<1>4. AccountTypes'
  BY <1>i, <1>0, <1>1, Zenon DEF AccountTypes
<1>5. StillTrue'
  BY <1>i, <1>0, <1>1, <1>2, <1>3 DEF StillTrue
<1>6. WillRead'
  BY <1>i, <1>0, Zenon DEF WillRead, Needed
<1>7. op \in Checked /\ K!Allows(op, arg) /\ ~redeemed' => K!Allows(op, arg)'
  <2>1. withdrawBlock \in Nat /\ block \in Nat
    BY <1>i, Zenon DEF AccountTypes
  <2> QED
    BY <1>0, <1>1, <1>3, <2>1 DEF K!Allows, K!HasFunds, Checked
<1>8. Filled'
  BY <1>i, <1>0, <1>2, <1>7, Zenon DEF Filled, NotNegative
<1>9. Claimed'
  BY <1>i, <1>0, <1>1, Zenon DEF Claimed, K!ClaimsRest
<1> QED
  BY <1>0, <1>1, <1>2, <1>4, <1>5, <1>6, <1>8, <1>9, Zenon DEF ConsoleInv

\* The menu, and an option that begins
LEMMA ConsoleMenu ==
    ASSUME ConsoleInv, K!run \/ \E o \in K!filterOptions : K!doCLIOpt(o)
    PROVE  ConsoleInv' /\ (UNCHANGED posted \/ posted' = K!NotPosted)
<1>i. /\ AccountTypes /\ StillTrue /\ WillRead /\ Filled /\ Claimed
      /\ block \in Nat /\ seen \in Nat /\ seen <= block
  BY Zenon DEF ConsoleInv
<1>0. /\ UNCHANGED <<balance, stake, unbonding, roundNow, deposit, escrow, withdrawBlock, block, seen,
                     claimed, claimUpTo>>
      /\ wizard' \notin {"posting", "sending"} /\ (UNCHANGED posted \/ posted' = K!NotPosted)
  BY Zenon DEF K!run, K!doCLIOpt, K!stakeVars, K!claimVars, K!fundVars, K!nodeVars
<1>1. redeemed' \in BOOLEAN
  BY Zenon DEF ConsoleInv, K!run, K!doCLIOpt
<1>2. AccountTypes'
  BY <1>i, <1>0, Zenon DEF AccountTypes
<1>3. CASE K!run
  <2>1. wizard' # "reading"
    BY <1>3, Zenon DEF K!run
  <2>2. StillTrue' /\ WillRead' /\ Filled' /\ Claimed'
    BY <1>0, <2>1, Zenon DEF StillTrue, WillRead, Filled, Claimed
  <2> QED
    BY <1>i, <1>0, <1>1, <1>2, <2>2, Zenon DEF ConsoleInv
<1>4. ASSUME NEW o \in K!filterOptions, K!doCLIOpt(o) PROVE ConsoleInv'
  <2>1. op' = o /\ toRead' = K!initializeOptions[o] /\ DOMAIN info' = {} /\ o \in DOMAIN K!initializeOptions
    BY <1>4 DEF K!doCLIOpt, K!filterOptions
  <2>2. StillTrue'
    BY <2>1, Zenon DEF StillTrue
  <2>3. Filled' /\ Claimed'
    BY <1>0, Zenon DEF Filled, Claimed
  <2>4. WillRead'
    <3>1. CASE o \notin Checked \union {"deposit"}
      BY <2>1, <3>1, Zenon DEF WillRead
    <3>2. CASE o = "bond"
      <4>1. toRead' = <<"orchestrators", "balance">>
        BY <2>1, <3>2, Zenon DEF K!initializeOptions
      <4>2. toRead' \in Seq(Gets)
        BY <4>1 DEF Gets
      <4>3. 2 \in 1 .. Len(toRead') /\ toRead'[2] = "balance"
        BY <4>1
      <4> QED
        BY <2>1, <3>2, <4>2, <4>3, Zenon DEF WillRead, Needed
    <3>3. CASE o = "unbond"
      <4>1. toRead' = <<"delegator">>
        BY <2>1, <3>3, Zenon DEF K!initializeOptions
      <4>2. toRead' \in Seq(Gets)
        BY <4>1 DEF Gets
      <4>3. 1 \in 1 .. Len(toRead') /\ toRead'[1] = "delegator"
        BY <4>1
      <4> QED
        BY <2>1, <3>3, <4>2, <4>3, Zenon DEF WillRead, Needed
    <3>4. CASE o \in {"unlock", "cancelUnlock", "withdraw"}
      <4>1. toRead' \in {<<"sender", "block", "params">>, <<"sender", "block">>}
        BY <2>1, <3>4 DEF K!initializeOptions
      <4>2. toRead' \in Seq(Gets)
        <5>1. <<"sender", "block", "params">> \in Seq(Gets) /\ <<"sender", "block">> \in Seq(Gets)
          BY DEF Gets
        <5> QED
          BY <4>1, <5>1, Zenon
      <4>3. /\ 1 \in 1 .. Len(toRead') /\ toRead'[1] = "sender"
            /\ 2 \in 1 .. Len(toRead') /\ toRead'[2] = "block"
        BY <4>1
      <4> QED
        BY <2>1, <3>4, <4>2, <4>3, Zenon DEF WillRead, Needed
    <3>5. CASE o = "deposit"
      <4>1. toRead' = <<"sender", "params">>
        BY <2>1, <3>5, Zenon DEF K!initializeOptions
      <4>2. toRead' \in Seq(Gets)
        BY <4>1 DEF Gets
      <4>3. /\ 1 \in 1 .. Len(toRead') /\ toRead'[1] = "sender"
            /\ 2 \in 1 .. Len(toRead') /\ toRead'[2] = "params"
        BY <4>1
      <4> QED
        BY <2>1, <3>5, <4>2, <4>3, Zenon DEF WillRead, Needed
    <3> QED
      BY <3>1, <3>2, <3>3, <3>4, <3>5, Zenon DEF Checked
  <2> QED
    BY <1>i, <1>0, <1>1, <1>2, <2>2, <2>3, <2>4, Zenon DEF ConsoleInv
<1> QED
  BY <1>0, <1>3, <1>4, Zenon

\* What a GET gets
LEMMA Answers ==
    /\ K!Response("balance") = balance
    /\ K!Response("delegator").bonded = stake
    /\ /\ K!Response("sender").withdrawBlock = withdrawBlock
       /\ K!Response("sender").deposit = deposit /\ K!Response("sender").escrow = escrow
    /\ K!Response("block") = seen
    /\ K!Response("params").minPenaltyEscrow = MinEscrow
BY Zenon
   DEF K!Response, K!tokenBalance, K!delegatorInfo, K!senderInfo, K!currentBlock,
       K!ticketBrokerParams

LEMMA ConsoleGet ==
    ASSUME ConsoleInv, K!httpGet \/ K!GetFails
    PROVE  ConsoleInv' /\ UNCHANGED posted
<1>i. /\ AccountTypes /\ StillTrue /\ WillRead /\ Filled /\ Claimed
      /\ block \in Nat /\ seen \in Nat /\ seen <= block
  BY Zenon DEF ConsoleInv
<1> USE DEF K!stakeVars, K!claimVars, K!fundVars, K!nodeVars
<1> DEFINE h == Head(toRead)
<1>0. /\ UNCHANGED <<posted, balance, stake, unbonding, roundNow, deposit, escrow, withdrawBlock, block, seen,
                     claimed, claimUpTo, op, redeemed>>
      /\ wizard = "reading" /\ wizard' \notin {"posting", "sending"} /\ toRead # <<>>
  BY Zenon DEF K!httpGet, K!GetFails, K!ToMenu
<1>1. AccountTypes'
  BY <1>i, <1>0, Zenon DEF AccountTypes
<1>2. Filled' /\ Claimed'
  BY <1>0, Zenon DEF Filled, Claimed
<1>3. CASE wizard' # "reading"
  <2>1. StillTrue' /\ WillRead'
    BY <1>3, Zenon DEF StillTrue, WillRead
  <2> QED
    BY <1>i, <1>0, <1>1, <1>2, <2>1, Zenon DEF ConsoleInv
<1>4. CASE wizard' = "reading"
  <2>1. toRead' = Tail(toRead) /\ (info' = info \/ ~K!Shown)
    BY <1>4, Zenon DEF K!httpGet, K!GetFails, K!ToMenu
  <2>2. info' # info => info' = [n \in DOMAIN info \union {h} |-> IF n = h THEN K!Response(n) ELSE info[n]]
    BY <2>1, <1>4, Zenon DEF K!httpGet, K!GetFails, K!ToMenu
  <2>3. StillTrue'
    <3>1. CASE info' = info
      BY <1>i, <1>0, <3>1, Zenon DEF StillTrue
    <3>2. CASE info' # info
      BY <1>i, <1>0, <2>2, <3>2, Answers, Zenon DEF StillTrue, AccountTypes
    <3> QED
      BY <3>1, <3>2, Zenon
  <2>4. op \in Checked \union {"deposit"} => h \in DOMAIN info' \/ ~Needed(h)
    <3>1. CASE K!httpGet
      BY <3>1, Zenon DEF K!httpGet, K!Shown, Checked
    <3>2. CASE K!GetFails
      BY <1>4, <3>2, Zenon DEF K!GetFails, K!ToMenu, K!Optional, Needed, Checked
    <3> QED
      BY <3>1, <3>2, Zenon
  <2>5. DOMAIN info \subseteq DOMAIN info'
    BY <2>2, Zenon
  <2>6. WillRead'
    <3> SUFFICES ASSUME op \in Checked \union {"deposit"}
                 PROVE  /\ Tail(toRead) \in Seq(Gets)
                        /\ \A name \in Gets : Needed(name) =>
                              name \in DOMAIN info' \/ \E i \in 1 .. Len(Tail(toRead)) : Tail(toRead)[i] = name
      BY <1>0, <2>1, Zenon DEF WillRead, Needed
    <3>1. toRead \in Seq(Gets)
      BY <1>i, <1>0, Zenon DEF WillRead
    <3>2. /\ Tail(toRead) \in Seq(Gets) /\ h = toRead[1]
          /\ Len(toRead) \in Nat /\ Len(Tail(toRead)) = Len(toRead) - 1
          /\ \A i \in 1 .. Len(Tail(toRead)) : Tail(toRead)[i] = toRead[i + 1]
      BY <1>0, <3>1, HeadAndTail
    <3>3. ASSUME NEW name \in Gets, Needed(name), name \notin DOMAIN info'
          PROVE  \E i \in 1 .. Len(Tail(toRead)) : Tail(toRead)[i] = name
      <4>1. PICK i \in 1 .. Len(toRead) : toRead[i] = name
        BY <1>i, <1>0, <2>5, <3>3, Zenon DEF WillRead
      <4>2. i # 1
        BY <2>4, <3>2, <3>3, <4>1, Zenon
      <4>3. i - 1 \in 1 .. Len(Tail(toRead)) /\ Tail(toRead)[i - 1] = name
        BY <3>2, <4>1, <4>2
      <4> QED
        BY <4>3, Zenon
    <3> QED
      BY <3>2, <3>3, Zenon
  <2> QED
    BY <1>i, <1>0, <1>1, <1>2, <2>3, <2>6, Zenon DEF ConsoleInv
<1> QED
  BY <1>0, <1>3, <1>4, Zenon

\* What an option has read when it asks for the rest
LEMMA AllRead ==
    ASSUME ConsoleInv, NEW o \in Checked \union {"deposit"}, K!Asking(o), NEW name \in Gets, Needed(name)
    PROVE  name \in DOMAIN info
<1>1. wizard = "reading" /\ op = o /\ Len(toRead) = 0
  BY Zenon DEF K!Asking
<1>2. WillRead
  BY Zenon DEF ConsoleInv
<1> QED
  BY <1>1, <1>2 DEF WillRead

\* The status that a confirmed prompt was about
LEMMA ConsoleStatus ==
    ASSUME ConsoleInv, NEW o \in {"unlock", "cancelUnlock", "withdraw"}, K!Asking(o),
           NEW status, K!IfStatus(status), wizard' = "posting", ~redeemed
    PROVE  /\ K!senderStatus(K!senderInfo, info["block"]) = status
           /\ info["block"] \in Nat /\ info["block"] <= block
<1>1. wizard = "reading" /\ op = o /\ StillTrue
  BY Zenon DEF K!Asking, ConsoleInv
<1>2. "sender" \in DOMAIN info /\ "block" \in DOMAIN info
  BY <1>1, AllRead, Zenon DEF Gets, Needed, Checked
<1>3. /\ info["sender"].withdrawBlock = withdrawBlock
      /\ info["sender"].deposit = deposit /\ info["sender"].escrow = escrow
      /\ info["block"] \in Nat /\ info["block"] <= block
  BY <1>1, <1>2, Zenon DEF StillTrue
<1>4. K!senderStatus(info["sender"], info["block"]) = status
  BY Zenon DEF K!IfStatus, K!ToMenu
<1> QED
  BY <1>3, <1>4, Zenon DEF K!senderStatus, K!senderInfo

\* An option asks when its own name was chosen.
LEMMA OptionAsks ==
    /\ K!Show => K!Asking("stats")
    /\ K!protocolStats => K!Asking("protocolStats")
    /\ K!plain => K!Asking("plain")
    /\ K!withdrawFees => K!Asking("fees")
    /\ K!bond => K!Asking("bond")
    /\ K!unbond => K!Asking("unbond")
    /\ K!rebond => K!Asking("rebond")
    /\ K!withdrawStake => K!Asking("withdrawStake")
    /\ K!claimRewardsAndFees => K!Asking("claim")
    /\ K!transferTokens => K!Asking("transfer")
    /\ K!callReward => K!Asking("reward")
    /\ K!activateOrchestrator => K!Asking("activate")
    /\ K!depositFunds => K!Asking("deposit")
    /\ K!unlock => K!Asking("unlock")
    /\ K!cancelUnlock => K!Asking("cancelUnlock")
    /\ K!withdraw => K!Asking("withdraw")
<1>1. /\ K!Show => K!Asking("stats")
      /\ K!protocolStats => K!Asking("protocolStats")
      /\ K!plain => K!Asking("plain")
      /\ K!withdrawFees => K!Asking("fees")
      /\ K!bond => K!Asking("bond")
      /\ K!unbond => K!Asking("unbond")
      /\ K!rebond => K!Asking("rebond")
      /\ K!withdrawStake => K!Asking("withdrawStake")
  BY Zenon DEF K!Show, K!protocolStats, K!plain, K!withdrawFees, K!bond, K!unbond, K!rebond, K!withdrawStake
<1>2. /\ K!claimRewardsAndFees => K!Asking("claim")
      /\ K!transferTokens => K!Asking("transfer")
      /\ K!callReward => K!Asking("reward")
      /\ K!activateOrchestrator => K!Asking("activate")
      /\ K!depositFunds => K!Asking("deposit")
      /\ K!unlock => K!Asking("unlock")
      /\ K!cancelUnlock => K!Asking("cancelUnlock")
      /\ K!withdraw => K!Asking("withdraw")
  BY Zenon DEF K!claimRewardsAndFees, K!transferTokens, K!callReward, K!activateOrchestrator,
     K!depositFunds, K!unlock, K!cancelUnlock, K!withdraw
<1> QED
  BY <1>1, <1>2, Zenon

\* The option that is under way is the one that was chosen.
LEMMA OptionChosen ==
    ASSUME K!Option
    PROVE  /\ wizard = "reading" /\ toRead = <<>>
           /\ op = "bond" => K!bond
           /\ op = "unbond" => K!unbond
           /\ op \in {"transfer", "activate"} => K!transferTokens \/ K!activateOrchestrator
           /\ op = "deposit" => K!depositFunds
           /\ op = "unlock" => K!unlock
           /\ op = "cancelUnlock" => K!cancelUnlock
           /\ op = "withdraw" => K!withdraw
BY OptionAsks, Zenon DEF K!Option, K!Asking

\* It ends with a form or in the menu.
LEMMA OptionEnds ==
    ASSUME K!Option
    PROVE  wizard' \in {"posting", "menu"}
<1>1. (\E form : K!Submit(form)) \/ K!ToMenu => wizard' \in {"posting", "menu"}
  BY Zenon DEF K!Submit, K!ToMenu
<1>2. CASE K!Show \/ K!protocolStats \/ K!plain \/ K!withdrawFees
  BY <1>1, <1>2, Zenon
     DEF K!Show, K!protocolStats, K!plain, K!initializeRound, K!withdrawFees, K!requestTokens,
     K!setGasPrice, K!setOrchestratorConfig, K!promptOrchestratorConfig, K!setBroadcastConfig,
     K!idListToVideoProfileList
<1>3. CASE K!bond \/ K!unbond \/ K!rebond \/ K!withdrawStake \/ K!claimRewardsAndFees
  BY <1>1, <1>3, Zenon DEF K!bond, K!unbond, K!rebond, K!withdrawStake, K!claimRewardsAndFees
<1>4. CASE K!transferTokens \/ K!callReward \/ K!activateOrchestrator \/ K!depositFunds
  BY <1>1, <1>4, Zenon DEF K!transferTokens, K!callReward, K!activateOrchestrator, K!depositFunds,
     K!fundDeposit, K!fundAndApproveSigners
<1>5. CASE K!unlock \/ K!cancelUnlock \/ K!withdraw
  BY <1>1, <1>5, Zenon DEF K!unlock, K!cancelUnlock, K!withdraw, K!IfStatus
<1> QED
  BY <1>2, <1>3, <1>4, <1>5, Zenon DEF K!Option

\* A prompt is answered, or the option given up.
LEMMA ConsoleAsk ==
    ASSUME ConsoleInv, K!Option
    PROVE  ConsoleInv' /\ UNCHANGED posted
<1>i. /\ AccountTypes /\ StillTrue /\ WillRead /\ Filled /\ Claimed
      /\ block \in Nat /\ seen \in Nat /\ seen <= block
  BY Zenon DEF ConsoleInv
<1>0. /\ UNCHANGED <<posted, balance, stake, unbonding, roundNow, deposit, escrow, withdrawBlock, block, seen,
                     claimed, claimUpTo, op, redeemed>>
      /\ wizard = "reading" /\ toRead = <<>> /\ wizard' # "reading"
  <2>1. UNCHANGED <<posted, balance, stake, unbonding, roundNow, deposit, escrow, withdrawBlock, block, seen,
                    claimed, claimUpTo, op, redeemed>>
    BY Zenon DEF K!Option, K!stakeVars, K!claimVars, K!fundVars, K!nodeVars
  <2> QED
    BY <2>1, OptionChosen, OptionEnds, Zenon
<1>1. AccountTypes'
  BY <1>i, <1>0, Zenon DEF AccountTypes
<1>2. /\ balance \in Nat /\ stake \in Nat /\ escrow \in Nat /\ deposit \in Nat /\ withdrawBlock \in Nat
      /\ AccountTokens \in Nat /\ MinEscrow \in Nat /\ MaxFunds \in Nat
  BY <1>i, OperatorAssumption, Zenon DEF AccountTypes, K!ConsoleAssumption
<1>6. wizard' # "sending"
  BY OptionEnds, Zenon
<1>3. Filled'
  <2> SUFFICES ASSUME wizard' = "posting"
               PROVE  /\ op \in {"bond", "transfer", "activate", "unbond"} => arg'.amount \in Int
                      /\ op = "deposit" => arg'.deposit \in Nat /\ arg'.escrow \in Nat
                      /\ op \in Checked /\ ~redeemed /\ NotNegative' => K!Allows(op, arg)'
    BY <1>0, <1>6, Zenon DEF Filled
  <2>1. CASE op = "bond"
    <3>1. K!bond /\ K!Asking("bond")
      BY <2>1, OptionChosen, OptionAsks, Zenon
    <3>2. "balance" \in DOMAIN info
      BY <2>1, <3>1, AllRead, Zenon DEF Checked, Gets, Needed
    <3>3. info["balance"] = balance
      BY <1>i, <1>0, <3>2, Zenon DEF StillTrue
    <3>4. arg'.amount \in -1 .. balance
      BY <3>1, <3>3 DEF K!bond, K!Submit, K!ToMenu, K!readBigInt
    <3> QED
      BY <1>0, <1>2, <2>1, <3>4 DEF K!Allows, NotNegative
  <2>2. CASE op = "unbond"
    <3>1. K!unbond /\ K!Asking("unbond")
      BY <2>2, OptionChosen, OptionAsks, Zenon
    <3>2. "delegator" \in DOMAIN info
      BY <2>2, <3>1, AllRead, Zenon DEF Checked, Gets, Needed
    <3>3. info["delegator"].bonded = stake
      BY <1>i, <1>0, <3>2, Zenon DEF StillTrue
    <3>4. arg'.amount \in -1 .. stake /\ arg'.amount # 0
      BY <3>1, <3>3 DEF K!unbond, K!Submit, K!readBigInt
    <3> QED
      BY <1>0, <1>2, <2>2, <3>4 DEF K!Allows, NotNegative
  <2>3. CASE op \in {"transfer", "activate"}
    <3>1. CASE K!transferTokens
      BY <1>2, <2>3, <3>1 DEF K!transferTokens, K!Submit, K!readBigInt, Checked
    <3>2. CASE K!activateOrchestrator
      <4>1. K!Known("balance") => info["balance"] = balance
        BY <1>i, <1>0, Zenon DEF StillTrue, K!Known
      <4> QED
        BY <1>2, <2>3, <3>2, <4>1
           DEF K!activateOrchestrator, K!Submit, K!ToMenu, K!readBigInt, Checked
    <3> QED
      BY <2>3, <3>1, <3>2, OptionChosen, Zenon
  <2>4. CASE op = "deposit"
    <3>1. K!depositFunds /\ K!Asking("deposit")
      BY <2>4, OptionChosen, OptionAsks, Zenon
    <3>2. "sender" \in DOMAIN info /\ "params" \in DOMAIN info
      BY <2>4, <3>1, AllRead, Zenon DEF Gets, Needed
    <3>3. info["sender"].escrow \in Nat /\ info["params"].minPenaltyEscrow = MinEscrow
      BY <1>i, <1>0, <3>2, Zenon DEF StillTrue
    <3>4. arg'.deposit \in Nat /\ arg'.escrow \in Nat
      BY <1>2, <3>1, <3>3 DEF K!depositFunds, K!Required, K!fundAndApproveSigners, K!fundDeposit,
                              K!Submit, K!readPositiveFloatAndValidate
    <3> QED
      BY <2>4, <3>4, Zenon DEF Checked
  <2>5. CASE op \in {"unlock", "cancelUnlock", "withdraw"}
    <3> SUFFICES ASSUME ~redeemed PROVE K!Allows(op, arg)'
      BY <2>5, Zenon
    <3>1. \/ op = "unlock" /\ K!unlock
          \/ op = "cancelUnlock" /\ K!cancelUnlock
          \/ op = "withdraw" /\ K!withdraw
      BY <2>5, OptionChosen, Zenon
    <3>2. CASE op = "unlock"
      <4>1. K!senderStatus(K!senderInfo, info["block"]) = "Locked"
        BY <3>1, <3>2, OptionAsks, ConsoleStatus, Zenon DEF K!unlock
      <4> QED
        BY <1>0, <1>2, <3>2, <4>1 DEF K!Allows, K!HasFunds, K!senderStatus, K!senderInfo
    <3>3. CASE op = "cancelUnlock"
      <4>1. K!senderStatus(K!senderInfo, info["block"]) = "Unlocking"
        BY <3>1, <3>3, OptionAsks, ConsoleStatus, Zenon DEF K!cancelUnlock
      <4> QED
        BY <1>0, <1>2, <3>3, <4>1 DEF K!Allows, K!HasFunds, K!senderStatus, K!senderInfo
    <3>4. CASE op = "withdraw"
      <4>1. /\ K!senderStatus(K!senderInfo, info["block"]) = "Unlocked"
            /\ info["block"] \in Nat /\ info["block"] <= block
        BY <3>1, <3>4, OptionAsks, ConsoleStatus, Zenon DEF K!withdraw
      <4>2. block \in Nat
        BY <1>i, Zenon
      <4> QED
        BY <1>0, <1>2, <3>4, <4>1, <4>2 DEF K!Allows, K!HasFunds, K!senderStatus, K!senderInfo
    <3> QED
      BY <3>1, <3>2, <3>3, <3>4, Zenon
  <2> QED
    BY <2>1, <2>2, <2>3, <2>4, <2>5, Zenon DEF Checked
<1>4. StillTrue' /\ WillRead' /\ Claimed'
  BY <1>0, <1>6, Zenon DEF StillTrue, WillRead, Claimed
<1>5. redeemed' \in BOOLEAN
  BY <1>0, Zenon DEF ConsoleInv
<1> QED
  BY <1>i, <1>0, <1>1, <1>3, <1>4, <1>5, Zenon DEF ConsoleInv

\* A transaction that the contracts take
LEMMA Executes ==
    ASSUME ConsoleInv, wizard \in {"posting", "sending"}, K!Allows(op, arg),
           K!ExecuteStake(op, arg), K!ExecuteFunds(op, arg), K!ExecuteClaims(op, arg)
    PROVE  AccountTypes'
<1>1. /\ balance \in Nat /\ stake \in Nat /\ unbonding \in Seq(ConsoleLock) /\ roundNow \in Nat
      /\ deposit \in Nat /\ escrow \in Nat /\ withdrawBlock \in Nat /\ block \in Nat
      /\ UnlockPeriod \in Nat /\ Period \in Nat /\ claimed \in Nat
      /\ op \in {"bond", "transfer", "activate", "unbond"} => arg.amount \in Int
      /\ op = "deposit" => arg.deposit \in Nat /\ arg.escrow \in Nat
  <2>1. AccountTypes /\ Filled /\ block \in Nat
    BY Zenon DEF ConsoleInv
  <2> QED
    BY <2>1, OperatorAssumption, Zenon DEF AccountTypes, Filled, K!ConsoleAssumption
<1>2. deposit' \in Nat /\ escrow' \in Nat /\ withdrawBlock' \in Nat
  BY <1>1 DEF K!ExecuteFunds, K!fundVars, K!ForOthers
<1>3. \A l : K!InUse(l) => l \in 1 .. Len(unbonding) /\ K!Amount(l) \in Nat
  <2> SUFFICES ASSUME NEW l \in 1 .. Len(unbonding) PROVE K!Amount(l) \in Nat
    BY Zenon DEF K!InUse
  <2>1. unbonding[l] \in ConsoleLock
    BY <1>1
  <2> QED
    BY <2>1, Zenon DEF K!Amount, ConsoleLock
<1>4. \A l : K!InUse(l) /\ K!Use(l) => unbonding' \in Seq(ConsoleLock)
  <2> SUFFICES ASSUME NEW l \in 1 .. Len(unbonding), K!Use(l) PROVE unbonding' \in Seq(ConsoleLock)
    BY <1>3, Zenon
  <2>1. unbonding[l] \in ConsoleLock
    BY <1>1
  <2>2. [unbonding[l] EXCEPT !.used = TRUE] \in ConsoleLock
    BY <2>1, Zenon DEF ConsoleLock
  <2> QED
    BY <1>1, <2>2 DEF K!Use
<1>a. claimed' \in Nat /\ claimUpTo' = 0
  <2>1. claimUpTo' = 0 /\ (claimed' = roundNow \/ claimed' \in claimed .. roundNow \/ claimed' = claimed)
    BY Zenon DEF K!ExecuteClaims
  <2> QED
    BY <1>1, <2>1, SMT
<1>b. ASSUME balance' \in Nat, stake' \in Nat, unbonding' \in Seq(ConsoleLock), UNCHANGED roundNow
      PROVE  AccountTypes'
  <2>1. 0 \in Nat /\ 0 <= roundNow
    BY <1>1, SMT
  <2> QED
    BY <1>1, <1>2, <1>a, <1>b, <2>1, Zenon DEF AccountTypes
<1>5. CASE op \in {"plain", "fees", "claim", "reward"} \union K!ForOthers
  <2>1. UNCHANGED <<balance, stake, unbonding, roundNow>>
    BY <1>5, Zenon DEF K!ExecuteStake, K!ForOthers, K!stakeVars
  <2> QED
    BY <1>1, <1>b, <2>1, Zenon
<1>6. CASE op \in {"transfer", "bond"}
  <2>1. /\ balance' = balance - arg.amount /\ stake' \in {stake, stake + arg.amount}
        /\ UNCHANGED <<unbonding, roundNow>>
    BY <1>6, Zenon DEF K!ExecuteStake, K!ForOthers
  <2>2. 0 <= arg.amount /\ arg.amount <= balance
    BY <1>6, Zenon DEF K!Allows
  <2>3. balance' \in Nat /\ stake' \in Nat
    BY <1>1, <1>6, <2>1, <2>2, SMT
  <2> QED
    BY <1>1, <1>b, <2>1, <2>3, Zenon
<1>7. CASE op = "unbond"
  <2>1. /\ stake' = stake - arg.amount /\ UNCHANGED <<balance, roundNow>>
        /\ unbonding' = Append(unbonding, [amount |-> arg.amount, round |-> roundNow + Period, used |-> FALSE])
    BY <1>7, Zenon DEF K!ExecuteStake, K!ForOthers
  <2>2. 0 < arg.amount /\ arg.amount <= stake
    BY <1>7, Zenon DEF K!Allows
  <2>5. arg.amount \in Nat /\ roundNow + Period \in Nat /\ stake' \in Nat
    BY <1>1, <1>7, <2>1, <2>2, SMT
  <2>3. [amount |-> arg.amount, round |-> roundNow + Period, used |-> FALSE] \in ConsoleLock
    BY <2>5, Zenon DEF ConsoleLock
  <2>4. unbonding' \in Seq(ConsoleLock)
    BY <1>1, <2>1, <2>3, Appended, Zenon
  <2> QED
    BY <1>1, <1>b, <2>1, <2>4, <2>5, Zenon
<1>8. CASE op \in {"rebond", "withdrawStake"}
  <2>1. K!InUse(arg.lock)
    BY <1>8, Zenon DEF K!Allows
  <2>2. /\ K!Use(arg.lock) /\ UNCHANGED roundNow
        /\ balance' \in {balance, balance + K!Amount(arg.lock)}
        /\ stake' \in {stake, stake + K!Amount(arg.lock)}
    BY <1>8, Zenon DEF K!ExecuteStake, K!ForOthers
  <2>3. K!Amount(arg.lock) \in Nat /\ unbonding' \in Seq(ConsoleLock)
    BY <1>3, <1>4, <2>1, <2>2, Zenon
  <2>4. balance' \in Nat /\ stake' \in Nat
    BY <1>1, <2>2, <2>3, SMT
  <2> QED
    BY <1>b, <2>2, <2>3, <2>4, Zenon
<1>9. CASE op = "activate"
  <2>1. arg.amount <= balance /\ (arg.lock # 0 => K!InUse(arg.lock))
    BY <1>9, Zenon DEF K!Allows
  <2>2. /\ UNCHANGED roundNow
        /\ \/ arg.amount > 0 /\ balance' = balance - arg.amount /\ stake' = stake + arg.amount
           \/ /\ UNCHANGED balance
              /\ stake' = stake + (IF arg.lock = 0 THEN 0 ELSE K!Amount(arg.lock))
        /\ IF arg.lock = 0 THEN UNCHANGED unbonding ELSE K!Use(arg.lock)
    BY <1>9, Zenon DEF K!ExecuteStake, K!ForOthers
  <2>3. unbonding' \in Seq(ConsoleLock) /\ (arg.lock # 0 => K!Amount(arg.lock) \in Nat)
    BY <1>1, <1>3, <1>4, <2>1, <2>2, Zenon
  <2>4. balance' \in Nat /\ stake' \in Nat
    <3>1. arg.amount \in Int /\ balance \in Nat /\ stake \in Nat
      BY <1>1, <1>9, Zenon
    <3>2. (IF arg.lock = 0 THEN 0 ELSE K!Amount(arg.lock)) \in Nat
      BY <2>3, SMT
    <3> QED
      BY <2>1, <2>2, <3>1, <3>2, SMT
  <2> QED
    BY <1>b, <2>2, <2>3, <2>4, Zenon
<1> QED
  BY <1>5, <1>6, <1>7, <1>8, <1>9, Zenon DEF K!ExecuteStake, K!ForOthers

\* The claims before a bonding action
LEMMA ConsoleClaims ==
    ASSUME ConsoleInv, K!autoClaimEarnings
    PROVE  ConsoleInv' /\ UNCHANGED posted
<1>i. /\ AccountTypes /\ Filled /\ block \in Nat /\ seen \in Nat /\ seen <= block
      /\ redeemed \in BOOLEAN
  BY Zenon DEF ConsoleInv
<1>0. /\ UNCHANGED <<posted, balance, stake, unbonding, roundNow, deposit, escrow, withdrawBlock, block, seen,
                     op, redeemed, self, rewarded>>
      /\ wizard = "posting" /\ wizard' # "reading"
  BY Zenon DEF K!autoClaimEarnings, K!ToMenu, K!stakeVars, K!fundVars, K!nodeVars
<1>1. claimed \in Nat /\ roundNow \in Nat /\ claimUpTo \in Nat /\ claimUpTo <= roundNow
  BY <1>i, Zenon DEF AccountTypes
<1>2. \A r \in K!Claims : r \in Nat
  BY <1>1, SMT DEF K!Claims
<1>3. claimed' \in Nat /\ claimUpTo' \in Nat /\ claimUpTo' <= roundNow
  <2>1. /\ claimed' = claimed \/ claimed' \in K!Claims
        /\ claimUpTo' = claimUpTo \/ claimUpTo' = roundNow
    BY Zenon DEF K!autoClaimEarnings
  <2> QED
    BY <1>1, <1>2, <2>1, SMT
<1>4. AccountTypes'
  BY <1>i, <1>0, <1>3, Zenon DEF AccountTypes
<1>5. StillTrue' /\ WillRead'
  BY <1>0, Zenon DEF StillTrue, WillRead
<1>6. CASE wizard' = "sending"
  <2>1. UNCHANGED arg /\ (stake = 0 \/ roundNow <= claimed' + ClaimRounds)
    BY <1>6, Zenon DEF K!autoClaimEarnings, K!ToMenu
  <2>2. Claimed'
    BY <1>0, <2>1, Zenon DEF Claimed, K!ClaimsRest
  <2>3. K!Allows(op, arg) => K!Allows(op, arg)'
    BY <1>0, <2>1, Zenon DEF K!Allows, K!InUse, K!HasFunds
  <2>4. Filled'
    BY <1>i, <1>0, <2>1, <2>3, Zenon DEF Filled, NotNegative
  <2> QED
    BY <1>i, <1>0, <1>4, <1>5, <2>2, <2>4, Zenon DEF ConsoleInv
<1>7. CASE wizard' # "sending"
  <2>1. wizard' = "menu"
    BY <1>7, Zenon DEF K!autoClaimEarnings, K!ToMenu
  <2>2. Claimed' /\ Filled'
    BY <2>1, Zenon DEF Claimed, Filled
  <2> QED
    BY <1>i, <1>0, <1>4, <1>5, <2>2, Zenon DEF ConsoleInv
<1> QED
  BY <1>0, <1>6, <1>7, Zenon

LEMMA ConsolePost ==
    ASSUME ConsoleInv, K!LetThroughAccepted, K!httpPost
    PROVE  ConsoleInv' /\ K!LetThroughAccepted'
<1>0. /\ (wizard = "posting" /\ ~K!Bonding(op, arg)) \/ wizard = "sending"
      /\ wizard' = "menu" /\ UNCHANGED <<op, block, seen, redeemed>>
  BY Zenon DEF K!httpPost, K!ToMenu, K!nodeVars
<1>i. AccountTypes /\ Filled /\ Claimed /\ block \in Nat /\ seen \in Nat /\ seen <= block
  BY Zenon DEF ConsoleInv
<1>f. StillTrue' /\ WillRead' /\ Filled' /\ Claimed'
  BY <1>0, Zenon DEF StillTrue, WillRead, Filled, Claimed
<1>r. redeemed' \in BOOLEAN
  BY <1>0, Zenon DEF ConsoleInv
<1>q. ASSUME claimUpTo' = 0, UNCHANGED <<K!stakeVars, claimed, K!fundVars>> PROVE AccountTypes'
  <2>1. 0 \in Nat /\ 0 <= roundNow
    BY <1>i, SMT DEF AccountTypes
  <2> QED
    BY <1>i, <1>q, <2>1, Zenon DEF AccountTypes, K!stakeVars, K!fundVars
<1>1. CASE /\ K!Accepts(op, arg) /\ K!ExecuteStake(op, arg) /\ K!ExecuteFunds(op, arg)
           /\ K!ExecuteClaims(op, arg) /\ K!Post(TRUE)
  <2>1. AccountTypes'
    BY <1>0, <1>1, Executes, Zenon DEF K!Accepts
  <2>2. K!LetThroughAccepted'
    BY <1>1, Zenon DEF K!LetThroughAccepted, K!Post
  <2> QED
    BY <1>i, <1>f, <1>r, <1>0, <2>1, <2>2, Zenon DEF ConsoleInv
<1>2. CASE /\ ~K!Accepts(op, arg) /\ K!Post(FALSE)
           /\ claimUpTo' = 0 /\ UNCHANGED <<K!stakeVars, claimed, K!fundVars>>
  <2>1. AccountTypes'
    BY <1>q, <1>2, Zenon
  <2>3. /\ posted'.op = op /\ posted'.redeemed = redeemed /\ posted'.form = arg
        /\ posted'.late = (K!Bonding(op, arg) /\ roundNow # claimUpTo)
    BY <1>2, Zenon DEF K!Post
  <2>2. op \in Checked /\ ~redeemed /\ NotNegative => K!Bonding(op, arg) /\ roundNow # claimUpTo
    <3> SUFFICES ASSUME op \in Checked /\ ~redeemed /\ NotNegative
                 PROVE  K!Bonding(op, arg) /\ roundNow # claimUpTo
      BY Zenon
    <3>1. K!Allows(op, arg)
      BY <1>i, <1>0, Zenon DEF Filled
    <3>2. K!Bonding(op, arg) /\ ~K!ClaimsRest
      BY <1>2, <3>1, Zenon DEF K!Accepts
    <3> QED
      BY <1>i, <1>0, <3>2, Zenon DEF Claimed
  <2>4. K!LetThroughAccepted'
    BY <2>2, <2>3, Zenon DEF K!LetThroughAccepted, Checked, NotNegative
  <2> QED
    BY <1>i, <1>f, <1>r, <1>0, <2>1, <2>4, Zenon DEF ConsoleInv
<1>3. CASE claimUpTo' = 0 /\ UNCHANGED <<posted, K!stakeVars, claimed, K!fundVars>>
  <2>1. AccountTypes'
    BY <1>q, <1>3, Zenon
  <2>2. K!LetThroughAccepted'
    BY <1>3, Zenon DEF K!LetThroughAccepted
  <2> QED
    BY <1>i, <1>f, <1>r, <1>0, <2>1, <2>2, Zenon DEF ConsoleInv
<1> QED
  BY <1>1, <1>2, <1>3, Zenon DEF K!httpPost

\* livepeer_cli: a bond, unbond, unlock, cancelUnlock or withdraw that the wizard lets
\* through is still right when it is mined, however many blocks and rounds have gone by
\* since it looked, unless tickets were redeemed meanwhile, a round began after the node
\* had asked for the one to claim through, or the amount is negative.
THEOREM LetThroughAlwaysAccepted == K!Spec => []LetThroughAccepted
<1> DEFINE Inv == ConsoleInv /\ K!LetThroughAccepted
<1>1. K!Init => Inv
  <2> SUFFICES ASSUME K!Init PROVE Inv
    BY Zenon
  <2>1. redeemed \in BOOLEAN
    BY Zenon DEF K!Init
  <2>2. AccountTypes /\ block \in Nat /\ seen \in Nat /\ seen <= block
    BY OperatorAssumption, SMTT(30) DEF K!Init, AccountTypes, K!ConsoleAssumption
  <2>3. StillTrue /\ WillRead /\ Filled /\ Claimed /\ K!LetThroughAccepted
    BY Zenon DEF K!Init, K!NotPosted, StillTrue, WillRead, Filled, Claimed, K!LetThroughAccepted
  <2> QED
    BY <2>1, <2>2, <2>3, Zenon DEF ConsoleInv
<1>2. Inv /\ [K!Next]_K!vars => Inv'
  <2> SUFFICES ASSUME Inv, [K!Next]_K!vars PROVE Inv'
    BY Zenon
  <2>1. CASE K!httpPost
    BY <2>1, ConsolePost, Zenon
  <2>2. CASE ~K!httpPost
    <3>1. ConsoleInv' /\ (UNCHANGED posted \/ posted' = K!NotPosted)
      BY <2>2, ConsoleMeanwhile, ConsoleMenu, ConsoleGet, ConsoleAsk, ConsoleClaims, Zenon
         DEF K!Next, K!Wizard
    <3>2. posted' = K!NotPosted => K!LetThroughAccepted'
      BY SMT DEF K!LetThroughAccepted, K!NotPosted
    <3>3. UNCHANGED posted => K!LetThroughAccepted'
      BY Zenon DEF K!LetThroughAccepted
    <3> QED
      BY <3>1, <3>2, <3>3, Zenon
  <2> QED
    BY <2>1, <2>2, Zenon
<1>3. Inv => LetThroughAccepted
  BY Zenon DEF LetThroughAccepted
<1> QED
  BY <1>1, <1>2, <1>3, PTL DEF K!Spec

-----------------------------------------------------------------------------
(* NonceManager *)

\* A nonce handed out and not yet counted is not below the manager's.
Ahead == \A c \in Calls : pc[c] \in {"send", "update"} => got[c] >= nonce[using[c]]

\* A transaction sent is below the manager's nonce, but for the call that has sent
\* it and is about to count it.
Below ==
    \A t \in txs :
        \/ t.nonce < nonce[t.mgr]
        \/ /\ pc[t.call] = "update"
           /\ using[t.call] = t.mgr
           /\ got[t.call] = t.nonce

IInv == TypeOK /\ Ahead /\ Below /\ UniqueNonces /\ PriceBump

\* The integer arithmetic of the price bump in ReplaceTransaction.
LEMMA BumpSuffices ==
    ASSUME NEW p \in Nat
    PROVE  /\ minGasPrice(p) \in Nat
           /\ 10 * minGasPrice(p) >= 11 * p
BY SMT DEF minGasPrice

\* Every price of a replacement is high enough.
LEMMA ReplacementBump ==
    ASSUME NEW p \in Nat, NEW q \in ReplacementPrices(p)
    PROVE  q \in Nat /\ 10 * q >= 11 * p
<1>1. minGasPrice(p) \in Nat /\ 10 * minGasPrice(p) >= 11 * p
  BY BumpSuffices, Zenon
<1>2. q \in Nat /\ q >= minGasPrice(p)
  BY <1>1, NonceAssumption DEF ReplacementPrices, Larger
<1> QED
  BY <1>1, <1>2

LEMMA InitHolds == Init => IInv
<1> SUFFICES ASSUME Init PROVE IInv
  BY Zenon
<1>1. TypeOK
  BY NonceAssumption DEF Init, TypeOK, LockHeld, Mgrs
<1> QED
  BY <1>1, Zenon DEF Init, IInv, Ahead, Below, UniqueNonces, PriceBump

LEMMA TransactPreserves ==
    ASSUME IInv, NEW c \in Calls, Transact(c) PROVE IInv'
<1> USE DEF IInv
<1>1. PICK k \in 1 .. Sessions : using' = [using EXCEPT ![c] = session[k]]
  BY Zenon DEF Transact
<1>2. /\ pc[c] = "idle" /\ pc' = [pc EXCEPT ![c] = "lock"]
      /\ UNCHANGED <<got, nonce, holder, manager, session, setting, txs, others, mined>>
  BY Zenon DEF Transact, Goto, mgrVars, setVars, ethVars
<1>3. session[k] \in Mgrs
  BY Zenon DEF TypeOK
<1>4. LockHeld'
  BY <1>1, <1>2, <1>3 DEF TypeOK, LockHeld
<1>5. TypeOK'
  BY <1>1, <1>2, <1>3, <1>4, Zenon DEF TypeOK
<1>6. Ahead'
  BY <1>1, <1>2, Zenon DEF TypeOK, Ahead
<1>7. Below'
  BY <1>1, <1>2, Zenon DEF TypeOK, Tx, Below
<1>8. UniqueNonces' /\ PriceBump'
  BY <1>2, Zenon DEF UniqueNonces, PriceBump
<1> QED
  BY <1>5, <1>6, <1>7, <1>8, Zenon

LEMMA LockPreserves ==
    ASSUME IInv, NEW c \in Calls, Lock(c) PROVE IInv'
<1> USE DEF IInv
<1>1. /\ pc[c] = "lock" /\ pc' = [pc EXCEPT ![c] = "next"]
      /\ holder[using[c]] = None /\ holder' = [holder EXCEPT ![using[c]] = c]
      /\ UNCHANGED <<using, got, nonce, manager, session, setting, txs, others, mined>>
  BY Zenon DEF Lock, Goto, setVars, ethVars
<1>2. LockHeld'
  <2> SUFFICES ASSUME NEW d \in Calls, NEW m \in Mgrs
               PROVE  holder'[m] = d <=>
                      using[d] = m /\ pc'[d] \in {"next", "send", "update"}
    BY <1>1 DEF LockHeld
  <2>1. using[c] \in Mgrs /\ None # d
    BY NonceAssumption, Zenon DEF TypeOK
  <2>2. CASE m = using[c]
    BY <1>1, <2>1, <2>2 DEF TypeOK, LockHeld
  <2>3. CASE m # using[c]
    BY <1>1, <2>1, <2>3 DEF TypeOK, LockHeld
  <2> QED
    BY <2>2, <2>3, Zenon
<1>3. TypeOK'
  BY <1>1, <1>2, Zenon DEF TypeOK
<1>4. Ahead'
  BY <1>1, Zenon DEF TypeOK, Ahead
<1>5. Below'
  BY <1>1, Zenon DEF TypeOK, Tx, Below
<1>6. UniqueNonces' /\ PriceBump'
  BY <1>1, Zenon DEF UniqueNonces, PriceBump
<1> QED
  BY <1>3, <1>4, <1>5, <1>6, Zenon

LEMMA TakeNextPreserves ==
    ASSUME IInv, NEW c \in Calls, TakeNext(c) PROVE IInv'
<1> USE DEF IInv
<1>1. PICK r \in PendingNonces : got' = [got EXCEPT ![c] = NextNonce(c, r)]
  BY Zenon DEF TakeNext
<1>2. r \in Nat
  BY NonceAssumption DEF PendingNonces, TypeOK
<1>3. NextNonce(c, r) \in Nat /\ NextNonce(c, r) >= nonce[using[c]]
  BY <1>2 DEF NextNonce, TypeOK
<1>4. TypeOK'
  BY <1>1, <1>3 DEF TakeNext, Goto, TypeOK, LockHeld, mgrVars, setVars, ethVars
<1>5. Ahead'
  BY <1>1, <1>3, Zenon DEF TakeNext, Goto, TypeOK, Ahead, mgrVars, setVars, ethVars
<1>6. Below' /\ UniqueNonces' /\ PriceBump'
  BY <1>1, Zenon DEF TakeNext, Goto, TypeOK, Tx, Below, UniqueNonces, PriceBump, mgrVars,
     setVars, ethVars
<1> QED
  BY <1>4, <1>5, <1>6, Zenon

\* Giving the lock back keeps it with those that are inside.
LEMMA UnlockKeepsLockHeld ==
    ASSUME TypeOK, NEW c \in Calls, pc[c] \in {"next", "send", "update"},
           Unlock(c), using' = using
    PROVE  LockHeld' /\ holder' \in [Mgrs -> Calls \union {None}]
<1>1. /\ pc' = [pc EXCEPT ![c] = "done"]
      /\ holder' = [holder EXCEPT ![using[c]] = None]
  BY Zenon DEF Unlock, Goto
<1>2. LockHeld'
  <2> SUFFICES ASSUME NEW d \in Calls, NEW m \in Mgrs
               PROVE  holder'[m] = d <=>
                      using[d] = m /\ pc'[d] \in {"next", "send", "update"}
    BY ZenonT(60) DEF LockHeld
  <2>1. using[c] \in Mgrs /\ None # d
    BY NonceAssumption, Zenon DEF TypeOK
  <2>2. CASE m = using[c]
    BY <1>1, <2>1, <2>2 DEF TypeOK, LockHeld
  <2>3. CASE m # using[c]
    BY <1>1, <2>1, <2>3 DEF TypeOK, LockHeld
  <2> QED
    BY <2>2, <2>3, Zenon
<1> QED
  BY <1>1, <1>2, Zenon DEF TypeOK

LEMMA TransactFailsPreserves ==
    ASSUME IInv, NEW c \in Calls, TransactFails(c) PROVE IInv'
<1> USE DEF IInv
<1>1. /\ pc[c] \in {"next", "send"} /\ pc' = [pc EXCEPT ![c] = "done"] /\ Unlock(c)
      /\ UNCHANGED <<using, got, nonce, manager, session, setting, txs, others, mined>>
  BY Zenon DEF TransactFails, Unlock, Goto, setVars, ethVars
<1>2. LockHeld' /\ holder' \in [Mgrs -> Calls \union {None}]
  BY <1>1, UnlockKeepsLockHeld, Zenon
<1>3. TypeOK'
  BY <1>1, <1>2, Zenon DEF TypeOK
<1>4. Ahead'
  BY <1>1, Zenon DEF TypeOK, Ahead
<1>5. Below'
  BY <1>1, Zenon DEF TypeOK, Tx, Below
<1>6. UniqueNonces' /\ PriceBump'
  BY <1>1, Zenon DEF UniqueNonces, PriceBump
<1> QED
  BY <1>3, <1>4, <1>5, <1>6, Zenon

LEMMA SendPreserves ==
    ASSUME IInv, NEW c \in Calls, Send(c) PROVE IInv'
<1> USE DEF IInv
<1> DEFINE tx(p) == [call |-> c, mgr |-> using[c], nonce |-> got[c],
                     price |-> p, replaced |-> None]
<1>1. /\ pc[c] = "send" /\ pc' = [pc EXCEPT ![c] = "update"]
      /\ UNCHANGED <<using, got, nonce, holder, manager, session, setting, others, mined>>
  BY Zenon DEF Send, Goto, mgrVars, setVars
<1>2. Ahead'
  BY <1>1, Zenon DEF Ahead, TypeOK
<1>3. CASE UNCHANGED txs
  <2>1. TypeOK'
    BY <1>1, <1>3 DEF TypeOK, LockHeld
  <2>2. Below' /\ UniqueNonces' /\ PriceBump'
    BY <1>1, <1>3, Zenon DEF TypeOK, Tx, Below, UniqueNonces, PriceBump
  <2> QED
    BY <1>2, <2>1, <2>2, Zenon
<1>4. ASSUME NEW p \in Prices, SendTransaction(tx(p))
      PROVE  IInv'
  <2>1. txs' = txs \union {tx(p)}
    BY <1>4, Zenon DEF SendTransaction
  <2>2. tx(p) \in Tx
    BY NonceAssumption, Zenon DEF TypeOK, Tx
  <2>3. TypeOK'
    BY <1>1, <2>1, <2>2, SMTT(30) DEF TypeOK, LockHeld
  <2>4. Below'
    BY <1>1, <2>1 DEF TypeOK, Tx, Below
  <2>5. ASSUME NEW s \in txs, s.mgr = using[c], s.nonce = got[c]
        PROVE  s.call = c
    <3>1. ~(s.nonce < nonce[s.mgr])
      BY <1>1, <2>5 DEF Ahead, TypeOK
    <3>2. pc[s.call] = "update" /\ using[s.call] = s.mgr /\ s.call \in Calls
      BY <3>1, Zenon DEF Below, TypeOK, Tx
    <3>3. holder[using[c]] = s.call /\ holder[using[c]] = c
      BY <1>1, <2>5, <3>2, SMTT(30) DEF TypeOK, LockHeld
    <3> QED
      BY <3>3, Zenon
  <2>6. UniqueNonces'
    BY <2>1, <2>5, SMTT(30) DEF UniqueNonces
  <2>7. PriceBump'
    BY <2>1 DEF PriceBump
  <2> QED
    BY <1>2, <2>3, <2>4, <2>6, <2>7, Zenon
<1> QED
  BY <1>3, <1>4, Zenon DEF Send

LEMMA UpdatePreserves ==
    ASSUME IInv, NEW c \in Calls, Update(c) PROVE IInv'
<1> USE DEF IInv
<1>1. /\ pc[c] = "update" /\ pc' = [pc EXCEPT ![c] = "done"]
      /\ nonce' = [nonce EXCEPT ![using[c]] = got[c] + 1] /\ Unlock(c)
      /\ UNCHANGED <<using, got, manager, session, setting, txs, others, mined>>
  BY Zenon DEF Update, Unlock, Goto, setVars, ethVars
<1>2. TypeOK'
  <2>1. LockHeld' /\ holder' \in [Mgrs -> Calls \union {None}]
    BY <1>1, UnlockKeepsLockHeld, Zenon
  <2>2. got[c] + 1 \in Nat
    BY DEF TypeOK
  <2>3. nonce' \in [Mgrs -> Nat]
    BY <1>1, <2>2, Zenon DEF TypeOK
  <2>4. pc' \in [Calls -> {"idle", "lock", "next", "send", "update", "done"}]
    BY <1>1, Zenon DEF TypeOK
  <2> QED
    BY <1>1, <2>1, <2>3, <2>4, Zenon DEF TypeOK
<1>3. Ahead'
  <2> SUFFICES ASSUME NEW d \in Calls, pc'[d] \in {"send", "update"}
               PROVE  got[d] >= nonce'[using[d]]
    BY <1>1, Zenon DEF Ahead
  <2>1. d # c /\ pc[d] \in {"send", "update"}
    BY <1>1, Zenon DEF TypeOK
  <2>2. using[d] # using[c]
    BY <1>1, <2>1 DEF TypeOK, LockHeld
  <2> QED
    BY <1>1, <2>1, <2>2, Zenon DEF Ahead, TypeOK
<1>4. Below'
  <2> SUFFICES ASSUME NEW t \in txs
               PROVE  \/ t.nonce < nonce'[t.mgr]
                      \/ /\ pc'[t.call] = "update"
                         /\ using[t.call] = t.mgr
                         /\ got[t.call] = t.nonce
    BY <1>1, Zenon DEF Below
  <2>1. t.call \in Calls /\ t.mgr \in Mgrs /\ t.nonce \in Nat
    BY Zenon DEF TypeOK, Tx
  <2>2. got[c] >= nonce[using[c]]
    BY <1>1, Zenon DEF Ahead
  <2>3. CASE t.nonce < nonce[t.mgr]
    BY <1>1, <2>1, <2>2, <2>3 DEF TypeOK
  <2>4. CASE t.call = c /\ ~(t.nonce < nonce[t.mgr])
    BY <1>1, <2>1, <2>4 DEF TypeOK, Below
  <2>5. CASE t.call # c /\ ~(t.nonce < nonce[t.mgr])
    BY <1>1, <2>1, <2>5, Zenon DEF TypeOK, Below
  <2> QED
    BY <2>3, <2>4, <2>5, Zenon
<1>5. UniqueNonces' /\ PriceBump'
  BY <1>1, Zenon DEF UniqueNonces, PriceBump
<1> QED
  BY <1>2, <1>3, <1>4, <1>5, Zenon

LEMMA SetGasInfoPreserves ==
    ASSUME IInv, NewNonceManager \/ setContracts \/ setContractsFails PROVE IInv'
<1> USE DEF IInv
<1>1. TypeOK'
  <2>1. /\ manager' \in Mgrs /\ setting' \in 0 .. Sessions
        /\ session' \in [1 .. Sessions -> Mgrs]
    <3>a. Sessions \in Nat \ {0} /\ Managers \in Nat \ {0}
      BY NonceAssumption, Zenon
    <3>b. /\ manager \in Mgrs /\ setting \in 0 .. Sessions
          /\ session \in [1 .. Sessions -> Mgrs]
      BY Zenon DEF TypeOK
    <3>1. CASE NewNonceManager
      <4>1. /\ manager < Managers /\ manager' = manager + 1
            /\ setting' = 1 /\ session' = session
        BY <3>1, Zenon DEF NewNonceManager
      <4> QED
        BY ONLY <3>a, <3>b, <4>1 DEF Mgrs
    <3>2. CASE setContracts
      <4>1. manager \in Mgrs /\ session' = [session EXCEPT ![setting] = manager]
        BY <3>2, Zenon DEF setContracts, TypeOK
      <4>2. session' \in [1 .. Sessions -> Mgrs]
        BY <4>1, Zenon DEF TypeOK
      <4>3. manager' = manager /\ setting' = IF setting = Sessions THEN 0 ELSE setting + 1
        BY <3>2, Zenon DEF setContracts
      <4>4. setting' \in 0 .. Sessions
        BY ONLY <3>a, <3>b, <4>3
      <4> QED
        BY <4>1, <4>2, <4>3, <4>4, Zenon
    <3>3. CASE setContractsFails
      <4>1. manager' = manager /\ setting' = 0 /\ session' = session
        BY <3>3, Zenon DEF setContractsFails
      <4> QED
        BY ONLY <3>a, <3>b, <4>1
    <3> QED
      BY <3>1, <3>2, <3>3, Zenon
  <2>2. UNCHANGED <<nonce, holder, pc, using, got, txs, others, mined>>
    BY Zenon DEF NewNonceManager, setContracts, setContractsFails, mgrVars, callVars, ethVars
  <2> QED
    BY <2>1, <2>2, ZenonT(60) DEF TypeOK, LockHeld
<1>2. UNCHANGED <<nonce, pc, using, got, txs>>
  BY Zenon DEF NewNonceManager, setContracts, setContractsFails, mgrVars, callVars, ethVars
<1> QED
  BY <1>1, <1>2, Zenon DEF Ahead, Below, UniqueNonces, PriceBump

LEMMA ReplacePreserves ==
    ASSUME IInv, NEW t \in txs, ReplaceTransaction(t) PROVE IInv'
<1> USE DEF IInv
<1>1. PICK p \in ReplacementPrices(t.price) :
         txs' = txs \union {[t EXCEPT !.price = p, !.replaced = t.price]}
  BY Zenon DEF ReplaceTransaction, SendTransaction
<1>2. UNCHANGED <<nonce, holder, manager, session, setting, pc, using, got, others, mined>>
  BY Zenon DEF ReplaceTransaction, mgrVars, setVars, callVars
<1>3. t \in Tx
  BY Zenon DEF TypeOK
<1>4. p \in Nat /\ 10 * p >= 11 * t.price
  BY <1>3, ReplacementBump, Zenon DEF Tx
<1> DEFINE r == [t EXCEPT !.price = p, !.replaced = t.price]
<1>5. /\ r \in Tx
      /\ r.call = t.call /\ r.mgr = t.mgr /\ r.nonce = t.nonce
      /\ r.price = p /\ r.replaced = t.price
  BY <1>3, <1>4, Zenon DEF Tx
<1>6. txs' = txs \union {r}
  BY <1>1, ZenonT(30)
<1> HIDE DEF r
<1>7. TypeOK'
  BY <1>2, <1>5, <1>6 DEF TypeOK, LockHeld
<1>8. Ahead'
  BY <1>2, Zenon DEF Ahead
<1>9. Below'
  BY <1>2, <1>5, <1>6, Zenon DEF Below
<1>10. UniqueNonces'
  BY <1>5, <1>6 DEF UniqueNonces
<1>11. PriceBump'
  BY <1>4, <1>5, <1>6, Zenon DEF PriceBump
<1> QED
  BY <1>7, <1>8, <1>9, <1>10, <1>11, Zenon

LEMMA NodePreserves ==
    ASSUME IInv, OtherClient \/ Mine PROVE IInv'
<1> USE DEF IInv
<1>1. UNCHANGED <<nonce, holder, manager, session, setting, pc, using, got, txs>>
  BY Zenon DEF OtherClient, Mine, mgrVars, setVars, callVars
<1>2. others' \subseteq Nat /\ mined' \in Nat
  <2>1. CASE OtherClient
    <3>1. PICK n \in PendingNonces : others' = others \union {n}
      BY <2>1, Zenon DEF OtherClient
    <3>2. n \in Nat
      BY NonceAssumption DEF PendingNonces, TypeOK
    <3> QED
      BY <2>1, <3>1, <3>2, Zenon DEF OtherClient, TypeOK
  <2>2. CASE Mine
    BY <2>2 DEF Mine, TypeOK
  <2> QED
    BY <2>1, <2>2, Zenon
<1>3. TypeOK'
  BY <1>1, <1>2, ZenonT(60) DEF TypeOK, LockHeld
<1> QED
  BY <1>1, <1>3, Zenon DEF Ahead, Below, UniqueNonces, PriceBump

LEMMA NextPreserves == IInv /\ [Next]_vars => IInv'
<1> SUFFICES ASSUME IInv, [Next]_vars PROVE IInv'
  BY Zenon
<1>1. CASE UNCHANGED vars
  BY <1>1, ZenonT(60) DEF vars, mgrVars, setVars, callVars, ethVars, IInv, TypeOK, LockHeld,
     Ahead, Below,
              UniqueNonces, PriceBump
<1>2. ASSUME NEW c \in Calls, Step(c) PROVE IInv'
  BY <1>2, TransactPreserves, LockPreserves, TakeNextPreserves, TransactFailsPreserves,
     SendPreserves, UpdatePreserves, Zenon DEF Step
<1>3. CASE NewNonceManager \/ setContracts \/ setContractsFails
  BY <1>3, SetGasInfoPreserves, Zenon
<1>4. ASSUME NEW t \in txs, ReplaceTransaction(t) PROVE IInv'
  BY <1>4, ReplacePreserves, Zenon
<1>5. CASE OtherClient \/ Mine
  BY <1>5, NodePreserves, Zenon
<1> QED
  BY <1>1, <1>2, <1>3, <1>4, <1>5, Zenon DEF Next

\* Calls that share a nonce manager never send different transactions with the same
\* nonce, for any number of calls and managers; the lock of a manager is held by
\* at most one call.
THEOREM NoncesAreUnique == Spec => [](TypeOK /\ UniqueNonces)
<1>1. IInv => TypeOK /\ UniqueNonces
  BY Zenon DEF IInv
<1> QED
  BY InitHolds, NextPreserves, <1>1, PTL DEF Spec

\* Every replacement sent by ReplaceTransaction pays at least 10% more, for every
\* price.
THEOREM ReplacementsPayEnough == Spec => []PriceBump
<1>1. IInv => PriceBump
  BY Zenon DEF IInv
<1> QED
  BY InitHolds, NextPreserves, <1>1, PTL DEF Spec

-----------------------------------------------------------------------------
(* EthClient *)

\* The options of a session never hold a value, so that a call has none but its own; and
\* the client is not ready before the key of its account, which then stays, is unlocked.
ClientInv ==
    /\ call = [g \in Callers |-> call[g]]
    /\ value = [c \in E!Bindings |-> 0]
    /\ lastTx.value = lastTx.amount
    /\ \A g \in Callers : call[g].value = call[g].amount
    /\ cpc \in {"setGas", "ready"} => account \in unlockedKey
    /\ gasSetting # 0 => cpc \in {"setGas", "ready"}

LEMMA ClientSessions == "BondingManager" \in E!Bindings /\ "TicketBroker" \in E!Bindings
<1>1. /\ 4 \in DOMAIN E!Contracts /\ E!Contracts[4] = "BondingManager"
      /\ 5 \in DOMAIN E!Contracts /\ E!Contracts[5] = "TicketBroker"
  BY DEF E!Contracts
<1> QED
  BY <1>1, Zenon DEF E!Bindings

LEMMA ClientInit == E!Init => ClientInv
BY DEF E!Init, ClientInv, E!NoCall

LEMMA ClientAccount == ASSUME ClientInv, E!NewAccountManager \/ E!Unlock PROVE ClientInv'
<1>1. CASE E!NewAccountManager
  BY <1>1, Zenon
     DEF E!NewAccountManager, E!createAccount, E!getAccount, E!sessionVars, E!callVars, ClientInv
<1>2. CASE E!Unlock
  BY <1>2, Zenon DEF E!Unlock, E!sessionVars, E!callVars, ClientInv
<1> QED
  BY <1>1, <1>2, Zenon

\* setContracts: new options have no value.
LEMMA ClientBinding ==
    ASSUME ClientInv, E!SetGasInfo \/ E!setContracts \/ E!setContractsFails \/ E!SetGasInfoDone
    PROVE  ClientInv'
<1>1. CASE E!SetGasInfo
  BY <1>1, Zenon DEF E!SetGasInfo, E!accountVars, E!callVars, ClientInv
<1>2. CASE E!setContracts
  <2>1. PICK c : value' = [value EXCEPT ![c] = 0]
    BY <1>2, ZenonT(30) DEF E!setContracts
  <2>2. value' = [d \in E!Bindings |-> 0]
    BY <2>1, Zenon DEF ClientInv
  <2>3. UNCHANGED <<E!accountVars, cpc, gasSetting, E!callVars>>
    BY <1>2, Zenon DEF E!setContracts
  <2> QED
    BY <2>2, <2>3, Zenon DEF ClientInv, E!accountVars, E!callVars
<1>3. CASE E!setContractsFails
  BY <1>3, Zenon DEF E!setContractsFails, E!accountVars, E!callVars, ClientInv
<1>4. CASE E!SetGasInfoDone
  BY <1>4, Zenon DEF E!SetGasInfoDone, E!accountVars, E!callVars, ClientInv
<1> QED
  BY <1>1, <1>2, <1>3, <1>4, Zenon

\* A call is made with the options of its session or a copy of them with its own value.
LEMMA ClientCalls ==
    ASSUME ClientInv, NEW g \in Callers,
           \/ E!Call(g, "BondingManager") \/ E!RedeemWinningTicket(g)
           \/ E!FundAndApproveSigners(g) \/ E!FundDeposit(g) \/ E!FundPenaltyEscrow(g)
    PROVE  ClientInv'
<1>1. ASSUME NEW c \in E!Bindings, E!Call(g, c) PROVE ClientInv'
  <2>1. value[c] = 0
    BY Zenon DEF ClientInv
  <2> QED
    BY <1>1, <2>1, Zenon DEF E!Call, E!accountVars, E!sessionVars, ClientInv
<1>2. ASSUME NEW amount, E!Fund(g, amount) PROVE ClientInv'
  BY <1>2, Zenon DEF E!Fund, E!accountVars, E!sessionVars, ClientInv
<1>3. CASE E!Call(g, "BondingManager") \/ E!RedeemWinningTicket(g)
  BY <1>1, <1>3, ClientSessions, Zenon DEF E!RedeemWinningTicket
<1>4. CASE E!FundAndApproveSigners(g)
  BY <1>2, <1>4, Zenon DEF E!FundAndApproveSigners
<1>5. CASE E!FundDeposit(g) \/ E!FundPenaltyEscrow(g)
  BY <1>2, <1>5, Zenon DEF E!FundDeposit, E!FundPenaltyEscrow
<1> QED
  BY <1>3, <1>4, <1>5, Zenon

LEMMA ClientSigning == ASSUME ClientInv, NEW g \in Callers, E!Sign(g) PROVE ClientInv'
BY Zenon DEF E!Sign, E!NoCall, E!accountVars, E!sessionVars, ClientInv

LEMMA ClientReads == ASSUME ClientInv, E!Change \/ E!GetTranscoder \/ E!GetDelegator PROVE ClientInv'
<1>1. UNCHANGED <<E!accountVars, cpc, E!sessionVars, E!callVars>>
  BY Zenon DEF E!Change, E!GetTranscoder, E!GetDelegator, E!Ask
<1> QED
  BY <1>1, Zenon DEF E!accountVars, E!sessionVars, E!callVars, ClientInv

LEMMA ClientStep == ClientInv /\ [E!Next]_E!vars => ClientInv'
<1> SUFFICES ASSUME ClientInv, [E!Next]_E!vars PROVE ClientInv'
  BY Zenon
<1>1. CASE E!Next
  BY <1>1, ClientAccount, ClientBinding, ClientCalls, ClientSigning, ClientReads, Zenon DEF E!Next
<1>2. CASE UNCHANGED E!vars
  BY <1>2, Zenon DEF E!vars, ClientInv
<1> QED
  BY <1>1, <1>2, Zenon

\* FundDeposit and the others, CreateTransactOpts: however calls and changes of the gas
\* price overlap, a transaction carries the value of its own call, and the client is
\* ready only with the key of its account unlocked.
THEOREM ValuesNeverMix == E!Spec => []OwnValue
<1>1. ClientInv => OwnValue
  BY Zenon DEF ClientInv, OwnValue, E!OwnValue
<1> QED
  BY <1>1, ClientInit, ClientStep, PTL DEF E!Spec
=============================================================================
