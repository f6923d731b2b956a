------------------------------ MODULE EthClient ------------------------------
(****************************************************************************)
(* The client of the node for Ethereum (eth/client.go): the account that it  *)
(* finds, makes and unlocks (eth/accountmanager.go), the sessions with the   *)
(* contracts that it binds one by one, again whenever the gas price is set,  *)
(* the calls that goroutines make meanwhile, those with a value among them   *)
(* (eth/client_ticketbroker.go), and reads that ask the chain several times. *)
(*                                                                           *)
(* Nonces are in NonceManager, staking calls in Staking.  The key store and  *)
(* the Ethereum node are external.                                           *)
(****************************************************************************)
EXTENDS Naturals, Sequences

CONSTANTS
    Callers,            \* goroutines
    Amounts,            \* that they deposit
    MaxPrice, MaxCalls, \* bounds: gas prices set, calls
    MaxChanges          \* bound: changes of the chain while it is read

ClientAssumption ==
    Amounts \subseteq Nat \ {0} /\ MaxPrice \in Nat /\ MaxCalls \in Nat /\ MaxChanges \in Nat

VARIABLES
    keyStore, unlockedKey, \* accounts, in order; those whose key is in memory
    given,                 \* -ethAcctAddr, or Nothing
    account, unlocked,     \* of accountManager
    pc,                    \* of NewClient and Setup, then "ready"
    setting, bound,        \* SetGasInfo: the price being set; contracts bound to it
    price, value,          \* gasPrice; the price and value in the options of each session
    gasPrice,
    call, sent, calls,     \* the call of a goroutine; the last transaction; their number
    chain, read            \* changes of the chain; what a read has seen of them

vars == <<keyStore, unlockedKey, given, account, unlocked, pc, setting, bound, price, value,
          gasPrice, call, sent, calls, chain, read>>
accountVars == <<keyStore, unlockedKey, given, account, unlocked>>
sessionVars == <<setting, bound, price, value, gasPrice>>
callVars == <<call, sent, calls>>
readVars == <<chain, read>>

Nothing == "none"
Old == "0x01"    \* in the key store from the start
Other == "0x02"  \* given, and not there
Made == "0x03"   \* the address of a new key

\* In the order of setContracts
Contracts == <<"Controller", "LivepeerToken", "ServiceRegistry", "BondingManager", "TicketBroker",
               "RoundsManager", "Minter", "Verifier", "LivepeerTokenFaucet">>
Bindings == {Contracts[i] : i \in DOMAIN Contracts}

-----------------------------------------------------------------------------
(* The account *)

\* The user confirms the passphrase, or not.
createAccount ==
    \/ keyStore' = Append(keyStore, Made) /\ account' = Made /\ pc' = "unlock"
    \/ pc' = "failed" /\ UNCHANGED <<keyStore, account>>

getAccount ==
    account' = IF given # Nothing THEN given ELSE Head(keyStore)

Accounts == {keyStore[i] : i \in DOMAIN keyStore}

NewAccountManager ==
    /\ pc = "account"
    /\ \/ /\ keyStore = <<>> \/ (given # Nothing /\ given \notin Accounts)
          /\ createAccount
       \/ /\ keyStore # <<>> /\ (given = Nothing \/ given \in Accounts)
          /\ getAccount /\ pc' = "unlock" /\ UNCHANGED keyStore
    /\ UNCHANGED <<unlockedKey, given, unlocked, sessionVars, callVars, readVars>>

\* With the passphrase of the command line, else with the one the user is asked for
Unlock ==
    /\ pc = "unlock"
    /\ \/ /\ unlockedKey' = unlockedKey \union {account} /\ unlocked' = TRUE /\ pc' = "setGas"
       \/ pc' = "failed" /\ UNCHANGED <<unlockedKey, unlocked>>
    /\ UNCHANGED <<keyStore, given, account, sessionVars, callVars, readVars>>

-----------------------------------------------------------------------------
(* The sessions *)

\* Reads share nothing with transactions: they are looked at by themselves.
Reading == read.name # Nothing

\* From Setup, and from a handler of the web server, one at a time.  New options each time;
\* prices that rise are a bound.
SetGasInfo ==
    /\ pc \in {"setGas", "ready"} /\ setting = 0 /\ unlocked /\ ~Reading
    /\ \E p \in 1 .. MaxPrice : p > gasPrice /\ setting' = p
    /\ bound' = 0
    /\ UNCHANGED <<accountVars, pc, price, value, gasPrice, callVars, readVars>>

\* The controller is asked for the address of the contract.
setContracts ==
    /\ setting # 0 /\ bound < Len(Contracts)
    /\ LET c == Contracts[bound + 1] IN
          /\ price' = [price EXCEPT ![c] = IF c \in {"Minter", "Verifier"} THEN @ ELSE setting]
          /\ value' = [value EXCEPT ![c] = 0]
    /\ bound' = bound + 1
    /\ UNCHANGED <<accountVars, pc, setting, gasPrice, callVars, readVars>>

\* It fails at some contract: those before it are bound anew already.
setContractsFails ==
    /\ setting # 0 /\ bound < Len(Contracts)
    /\ setting' = 0 /\ bound' = 0
    /\ pc' = IF pc = "ready" THEN pc ELSE "failed"
    /\ UNCHANGED <<accountVars, price, value, gasPrice, callVars, readVars>>

SetGasInfoDone ==
    /\ setting # 0 /\ bound = Len(Contracts)
    /\ gasPrice' = setting /\ setting' = 0 /\ bound' = 0 /\ pc' = "ready"
    /\ UNCHANGED <<accountVars, price, value, callVars, readVars>>

-----------------------------------------------------------------------------
(* Transactions *)

NoCall == [contract |-> Nothing, amount |-> 0, value |-> 0, price |-> 0]

\* A call through the session of a contract has the options of the session.
Call(g, c) ==
    /\ pc = "ready" /\ ~Reading /\ call[g] = NoCall /\ calls < MaxCalls
    /\ calls' = calls + 1
    /\ call' = [call EXCEPT ![g] = [contract |-> c, amount |-> 0, value |-> value[c], price |-> price[c]]]
    /\ UNCHANGED <<accountVars, pc, sessionVars, sent, readVars>>

\* Mutant: the options are those of the session, not a copy of them.
Fund_Shared(g, amount) ==
    /\ pc = "ready" /\ ~Reading /\ call[g] = NoCall /\ calls < MaxCalls
    /\ calls' = calls + 1
    /\ value' = [value EXCEPT !["TicketBroker"] = amount]
    /\ call' = [call EXCEPT ![g] = [contract |-> "TicketBroker", amount |-> amount,
                                    value |-> amount, price |-> price["TicketBroker"]]]
    /\ UNCHANGED <<accountVars, pc, setting, bound, price, gasPrice, sent, readVars>>

\* A call with a value: the options are a copy of the session's.
Fund(g, amount) ==
    /\ pc = "ready" /\ ~Reading /\ call[g] = NoCall /\ calls < MaxCalls
    /\ calls' = calls + 1
    /\ call' = [call EXCEPT ![g] = [contract |-> "TicketBroker", amount |-> amount,
                                    value |-> amount, price |-> price["TicketBroker"]]]
    /\ UNCHANGED <<accountVars, pc, sessionVars, sent, readVars>>

FundAndApproveSigners(g) == \E deposit, escrow \in Amounts : Fund(g, deposit + escrow)
FundDeposit(g) == \E amount \in Amounts : Fund(g, amount)
FundPenaltyEscrow(g) == \E amount \in Amounts : Fund(g, amount)
RedeemWinningTicket(g) == Call(g, "TicketBroker")

\* SignTx: with the key of the account
Sign(g) ==
    /\ call[g] # NoCall
    /\ call' = [call EXCEPT ![g] = NoCall]
    /\ sent' = IF account \in unlockedKey THEN call[g] ELSE sent
    /\ UNCHANGED <<accountVars, pc, sessionVars, calls, readVars>>

-----------------------------------------------------------------------------
(* Reads *)

Change ==
    /\ Reading /\ chain < MaxChanges /\ chain' = chain + 1
    /\ UNCHANGED <<accountVars, pc, sessionVars, callVars, read>>

Ask(name, questions) ==
    /\ pc = "ready"
    /\ \/ /\ ~Reading /\ setting = 0 /\ calls = 0
          /\ read' = [name |-> name, saw |-> <<chain>>]
       \/ /\ read.name = name /\ Len(read.saw) < Len(questions)
          /\ \/ read' = [read EXCEPT !.saw = Append(@, chain)]
             \/ read' = [name |-> Nothing, saw |-> <<>>]    \* an error
       \/ read.name = name /\ Len(read.saw) = Len(questions) /\ read' = [name |-> Nothing, saw |-> <<>>]
    /\ UNCHANGED <<accountVars, pc, sessionVars, callVars, chain>>

GetTranscoder ==
    Ask("GetTranscoder", <<"GetTranscoder", "TranscoderStatus", "TranscoderTotalStake", "CurrentRound",
                           "IsActiveTranscoder", "GetServiceURI">>)

\* A pending stake or fee that the contract cannot tell is -1.
GetDelegator ==
    Ask("GetDelegator", <<"GetDelegator", "DelegatorStatus", "CurrentRound", "PendingStake", "PendingFees">>)

-----------------------------------------------------------------------------
Init ==
    /\ keyStore \in {<<>>, <<Old>>} /\ unlockedKey = {} /\ given \in {Nothing, Old, Other}
    /\ account = Nothing /\ unlocked = FALSE /\ pc = "account"
    /\ setting = 0 /\ bound = 0 /\ gasPrice = 0
    /\ price = [c \in Bindings |-> 0] /\ value = [c \in Bindings |-> 0]
    /\ call = [g \in Callers |-> NoCall] /\ sent = NoCall /\ calls = 0
    /\ chain = 0 /\ read = [name |-> Nothing, saw |-> <<>>]

Next ==
    \/ NewAccountManager \/ Unlock
    \/ SetGasInfo \/ setContracts \/ setContractsFails \/ SetGasInfoDone
    \/ Change \/ GetTranscoder \/ GetDelegator
    \/ \E g \in Callers :
          \/ Call(g, "BondingManager") \/ RedeemWinningTicket(g)
          \/ FundAndApproveSigners(g) \/ FundDeposit(g) \/ FundPenaltyEscrow(g) \/ Sign(g)

Spec == Init /\ [][Next]_vars

-----------------------------------------------------------------------------
(* Properties *)

\* Shapes of the state.
TypeOK ==
    /\ account \in {Nothing, Old, Other, Made} /\ setting \in 0 .. MaxPrice
    /\ bound \in 0 .. Len(Contracts) /\ gasPrice \in 0 .. MaxPrice

\* FundDeposit and the others: a transaction carries the value of its own call and none of
\* another one's, although calls share the session and its options, and a session is only
\* used with the key of the client's account unlocked.
OwnValue ==
    /\ sent.value = sent.amount
    /\ \A g \in Callers : call[g].value = call[g].amount
    /\ pc = "ready" => account \in unlockedKey

\* GetGasInfo tells the price that transactions are sent with.
GasInfoTrue ==
    setting = 0 /\ pc = "ready" =>
        \A c \in Bindings \ {"Minter", "Verifier"} : price[c] = gasPrice

\* The node uses the account it was given.
UsesGivenAccount == given # Nothing /\ account # Nothing => account = given

\* What GetTranscoder and GetDelegator return was so at one time.
ReadAtOnce == \A i, j \in 1 .. Len(read.saw) : read.saw[i] = read.saw[j]
=============================================================================
