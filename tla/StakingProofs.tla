---------------------------- MODULE StakingProofs ----------------------------
(****************************************************************************)
(* Proofs about Staking, for any number of handlers, rounds, transactions    *)
(* and any amounts: TypeOK and StakingInv are inductive together, and so are  *)
(* TypeOK and TurnInv.                                                        *)
(****************************************************************************)
EXTENDS Staking, SequenceTheorems, TLAPS

-----------------------------------------------------------------------------
(* Types *)

\* The calls that Request plans are a non-empty sequence.
LEMMA Plans ==
    ASSUME TypeOK, NEW h \in Handlers, Request(h)
    PROVE  /\ todo' \in [Handlers -> Seq(Call)] /\ todo'[h] # <<>>
           /\ \A g \in Handlers \ {h} : todo'[g] = todo[g]
<1> SUFFICES ASSUME NEW calls, todo' = [todo EXCEPT ![h] = calls],
                    calls \in Single \union Config
                    \/ \E a \in Maybe({C("rebondFromUnbonded", i) : i \in 1 .. Len(locks)}) :
                       \E b \in Maybe({C("bond", x) : x \in Amounts \ {0}}) :
                       \E u \in Maybe({SetServiceURI}) :
                          calls = a \o b \o C("transcoder", 0) \o u
             PROVE  calls \in Seq(Call) /\ calls # <<>>
  BY ZenonT(60) DEF TypeOK, Request, Activate
<1>a. Amounts \subseteq Nat /\ 1 .. Len(locks) \subseteq Nat /\ 0 .. MaxRound \subseteq Nat
  BY StakingAssumption DEF StakingAssumption, TypeOK
<1>1. \A op \in Ops, arg \in Nat :
         C(op, arg) \in Seq(Call) /\ C(op, arg) # <<>>
  BY DEF C, Call
<1>2. CASE calls \in Single
  <2>1. PICK op \in Ops, arg \in Nat :
             calls = C(op, arg)
    <3>1. CASE calls \in Bond \union Unbond
      BY <3>1, <1>a, Zenon DEF Bond, Unbond, Ops, Bonding
    <3>2. CASE calls \in Rebond
      BY <3>2, <1>a, Zenon DEF Rebond, Ops, Bonding
    <3>3. CASE calls \in ClaimEarnings
      BY <3>3, <1>a, Zenon DEF ClaimEarnings, Ops
    <3>4. CASE calls \in WithdrawFees
      BY <3>4, Zenon DEF WithdrawFees, Ops, Bonding
    <3>5. CASE calls \in WithdrawStake \union InitializeRound \union Reward \union Tokens
                         \union TicketBroker
      BY <3>5, Zenon DEF WithdrawStake, InitializeRound, Reward, Tokens, TicketBroker, Ops,
         Others
    <3> QED
      BY <1>2, <3>1, <3>2, <3>3, <3>4, <3>5, Zenon DEF Single
  <2> QED
    BY <2>1, <1>1, Zenon
<1>3. ASSUME NEW a \in Seq(Call), NEW b \in Seq(Call), a # <<>> \/ b # <<>>
      PROVE  a \o b \in Seq(Call) /\ a \o b # <<>>
  BY <1>3
<1>4. C("transcoder", 0) \in Seq(Call) \ {<<>>} /\ SetServiceURI \in Seq(Call) \ {<<>>}
  BY <1>1, Zenon DEF Ops, Others, SetServiceURI
<1>5. CASE calls \in Config
  BY <1>3, <1>4, <1>5, Zenon DEF Config
<1>6. ASSUME NEW a \in Maybe({C("rebondFromUnbonded", i) : i \in 1 .. Len(locks)}),
             NEW b \in Maybe({C("bond", x) : x \in Amounts \ {0}}),
             NEW u \in Maybe({SetServiceURI}),
             calls = a \o b \o C("transcoder", 0) \o u
      PROVE  calls \in Seq(Call) /\ calls # <<>>
  <2>1. /\ \A i \in 1 .. Len(locks) : C("rebondFromUnbonded", i) \in Seq(Call)
        /\ \A x \in Amounts \ {0} : C("bond", x) \in Seq(Call)
    BY <1>1, <1>a, Zenon DEF Ops, Bonding
  <2>2. <<>> \in Seq(Call)
    OBVIOUS
  <2>3. a \in Seq(Call)
    BY <2>1, <2>2, Zenon DEF Maybe
  <2>4. b \in Seq(Call)
    BY <2>1, <2>2, Zenon DEF Maybe
  <2>5. u \in Seq(Call)
    BY <1>4, <2>2, Zenon DEF Maybe
  <2>6. a \o b \in Seq(Call)
    BY <2>3, <2>4
  <2>7. (a \o b) \o C("transcoder", 0) \in Seq(Call) \ {<<>>}
    BY <2>6, <1>3, <1>4, Zenon
  <2> QED
    BY <1>6, <2>5, <2>7, <1>3, Zenon
<1> QED
  BY <1>2, <1>5, <1>6, Zenon

\* What the sending of a transaction leaves behind
LEMMA Transacted ==
    ASSUME TypeOK, NEW h \in Handlers, NEW op \in Ops \union {"approve"},
           NEW arg \in Nat, NEW l, Transact(h, op, arg, l)
    PROVE  /\ txs' \in Seq(Tx) /\ Len(txs) \in Nat
           /\ Len(txs') = Len(txs) + 1 /\ Len(txs') <= MaxTxs
           /\ \A i \in 1 .. Len(txs) : txs'[i] = txs[i]
           /\ txs'[Len(txs) + 1] = [op |-> op, arg |-> arg, status |-> "pending"]
           /\ tx' \in [Handlers -> 0 .. Len(txs')] /\ tx'[h] = Len(txs) + 1
           /\ mine' \in [Handlers -> SUBSET (1 .. Len(txs'))]
           /\ mine'[h] = mine[h] \union {Len(txs) + 1}
           /\ \A g \in Handlers \ {h} : tx'[g] = tx[g] /\ mine'[g] = mine[g]
<1> DEFINE t == [op |-> op, arg |-> arg, status |-> "pending"]
<1>1. t \in Tx
  BY Zenon DEF Tx
<1>2. txs \in Seq(Tx) /\ Len(txs) \in Nat /\ Len(txs) < MaxTxs /\ MaxTxs \in Nat
  BY StakingAssumption DEF StakingAssumption, TypeOK, Transact
<1>3. /\ txs' = Append(txs, t)
      /\ tx' = [tx EXCEPT ![h] = Len(txs) + 1]
      /\ mine' = [mine EXCEPT ![h] = @ \union {Len(txs) + 1}]
  BY Zenon DEF Transact
<1>4. /\ txs' \in Seq(Tx) /\ Len(txs') = Len(txs) + 1 /\ Len(txs') <= MaxTxs
      /\ \A i \in 1 .. Len(txs) : txs'[i] = txs[i]
      /\ txs'[Len(txs) + 1] = t
  BY <1>1, <1>2, <1>3
<1>5. /\ tx \in [Handlers -> 0 .. Len(txs)]
      /\ mine \in [Handlers -> SUBSET (1 .. Len(txs))]
  BY Zenon DEF TypeOK
<1> HIDE DEF t
<1>6. tx' \in [Handlers -> 0 .. Len(txs')] /\ tx'[h] = Len(txs) + 1
  BY <1>2, <1>3, <1>4, <1>5
<1>7. \A g \in Handlers : mine[g] \subseteq 1 .. Len(txs')
  BY <1>2, <1>4, <1>5
<1>8. mine' \in [Handlers -> SUBSET (1 .. Len(txs'))]
  BY <1>2, <1>3, <1>4, <1>5, <1>7
<1>9. /\ mine'[h] = mine[h] \union {Len(txs) + 1}
      /\ \A g \in Handlers \ {h} : tx'[g] = tx[g] /\ mine'[g] = mine[g]
  BY <1>3, <1>5, Zenon
<1> QED
  BY <1>2, <1>4, <1>6, <1>8, <1>9, Zenon DEF t

\* The current call
LEMMA NowTyped ==
    ASSUME TypeOK, NEW h \in Handlers, pc[h] # "idle"
    PROVE  /\ Now(h) \in Call /\ Now(h).arg \in Nat
           /\ Now(h).op \in Ops
           /\ Len(todo[h]) \in Nat /\ Tail(todo[h]) \in Seq(Call)
           /\ Len(todo[h]) > 1 => Tail(todo[h]) # <<>>
<1> DEFINE s == todo[h]
<1>0. /\ todo \in [Handlers -> Seq(Call)]
      /\ IdleHandlers
  BY Zenon DEF TypeOK
<1>1. s \in Seq(Call) /\ s # <<>>
  BY <1>0, Zenon DEF IdleHandlers
<1> HIDE DEF s
<1>2. /\ Len(s) \in Nat /\ Head(s) \in Call /\ Tail(s) \in Seq(Call)
      /\ Len(Tail(s)) = Len(s) - 1
  BY <1>1, HeadTailProperties
<1>3. Len(s) > 1 => Tail(s) # <<>>
  BY <1>2, SMTT(60)
<1>4. \A c \in Call : c.arg \in Nat /\ c.op \in Ops
  BY Zenon DEF Call
<1> QED
  BY <1>2, <1>3, <1>4, Zenon DEF Now, s

\* The transaction a handler waits for
LEMMA SentTyped ==
    ASSUME TypeOK, NEW h \in Handlers, tx[h] # 0
    PROVE  tx[h] \in 1 .. Len(txs) /\ Sent(h) \in Tx
<1>1. tx[h] \in 0 .. Len(txs) /\ txs \in Seq(Tx) /\ Len(txs) \in Nat
  BY DEF TypeOK
<1> QED
  BY <1>1 DEF Sent

\* How the mining of a transaction changes the account's transactions
LEMMA Mined ==
    ASSUME TypeOK, NEW i, Mine(i)
    PROVE  /\ i \in 1 .. Len(txs) /\ txs' \in Seq(Tx) /\ Len(txs') = Len(txs)
           /\ \A j \in 1 .. Len(txs) : j # i => txs'[j] = txs[j]
           /\ txs[i] \in Tx /\ txs[i].status = "pending"
           /\ txs'[i].op = txs[i].op /\ txs'[i].arg = txs[i].arg
           /\ txs'[i].status \in {"ok", "failed"}
           /\ txs'[i].status = "ok" => Accepts(txs[i]) /\ Execute(txs[i])
           /\ txs'[i].status = "failed" => UNCHANGED chainVars
<1>1. txs \in Seq(Tx) /\ i \in 1 .. Len(txs) /\ Len(txs) \in Nat /\ txs[i] \in Tx
  BY DEF TypeOK, Mine
<1>2. PICK st \in {"ok", "failed"} :
         /\ txs' = [txs EXCEPT ![i].status = st]
         /\ st = "ok" => Accepts(txs[i]) /\ Execute(txs[i])
         /\ st = "failed" => UNCHANGED chainVars
  BY Zenon DEF Mine
<1>3. [txs[i] EXCEPT !.status = st] \in Tx
  BY <1>1, Zenon DEF Tx
<1>4. txs' = [txs EXCEPT ![i] = [txs[i] EXCEPT !.status = st]]
  BY <1>2, Zenon
<1>5. txs' \in Seq(Tx) /\ Len(txs') = Len(txs)
  BY <1>1, <1>3, <1>4, ExceptSeq
<1>6. /\ txs'[i] = [txs[i] EXCEPT !.status = st]
      /\ \A j \in 1 .. Len(txs) : j # i => txs'[j] = txs[j]
  BY <1>1, <1>4
<1>7. txs'[i].op = txs[i].op /\ txs'[i].arg = txs[i].arg /\ txs'[i].status = st
  BY <1>1, <1>6, Zenon DEF Tx
<1>8. txs[i].status = "pending"
  BY Zenon DEF Mine
<1> QED
  BY <1>1, <1>2, <1>5, <1>6, <1>7, <1>8, Zenon

\* A handler goes on with the calls it has.
LEMMA GoesOn ==
    ASSUME TypeOK, NEW h \in Handlers, pc[h] # "idle",
           NEW l \in Labels \ {"idle"}, Goto(h, l), UNCHANGED todo
    PROVE  /\ pc' \in [Handlers -> Labels] /\ pc'[h] = l
           /\ \A g \in Handlers \ {h} : pc'[g] = pc[g]
           /\ todo' \in [Handlers -> Seq(Call)] /\ IdleHandlers'
<1>1. pc \in [Handlers -> Labels] /\ todo \in [Handlers -> Seq(Call)] /\ IdleHandlers
  BY Zenon DEF TypeOK
<1> QED
  BY <1>1, Zenon DEF Goto, IdleHandlers

\* A handler is done.
LEMMA Answered ==
    ASSUME TypeOK, NEW h \in Handlers, NEW r \in {"ok", "error"}, Answer(h, r)
    PROVE  /\ pc' \in [Handlers -> Labels] /\ pc'[h] = "idle"
           /\ todo' \in [Handlers -> Seq(Call)]
           /\ \A g \in Handlers \ {h} :
                 pc'[g] = pc[g] /\ todo'[g] = todo[g] /\ reply'[g] = reply[g]
           /\ reply' \in [Handlers -> {"none", "ok", "error"}] /\ reply'[h] = r
           /\ IdleHandlers'
<1>1. /\ pc \in [Handlers -> Labels] /\ todo \in [Handlers -> Seq(Call)] /\ IdleHandlers
      /\ reply \in [Handlers -> {"none", "ok", "error"}]
  BY Zenon DEF TypeOK
<1>2. "idle" \in Labels /\ <<>> \in Seq(Call)
  BY DEF Labels
<1> QED
  BY <1>1, <1>2, Zenon DEF Answer, Goto, IdleHandlers

\* The contracts keep their types, whatever transaction is mined.
LEMMA Executed ==
    ASSUME TypeOK, NEW t \in Tx, Accepts(t), Execute(t)
    PROVE  /\ round' = round /\ lastClaim' \in 0 .. round'
           /\ bonded' \in Nat /\ allowance' \in Nat /\ locks' \in Seq(Nat)
           /\ registered' \in BOOLEAN
           /\ lastClaim <= lastClaim'
<1>1. /\ t.arg \in Nat /\ t.op \in Ops \union {"approve"}
      /\ round \in Nat /\ lastClaim \in 0 .. round /\ bonded \in Nat /\ allowance \in Nat
      /\ locks \in Seq(Nat) /\ registered \in BOOLEAN
  BY StakingAssumption DEF StakingAssumption, TypeOK, Tx
<1>2. round' = round /\ lastClaim' \in 0 .. round /\ lastClaim <= lastClaim'
  BY <1>1 DEF Accepts, Execute, Bonding
<1>3. t.op \in {"rebond", "rebondFromUnbonded"} => t.arg \in 1 .. Len(locks) /\ locks[t.arg] \in Nat
  BY <1>1 DEF Accepts, Locked, Bonding
<1>4. bonded' \in Nat
  <2>1. /\ t.op = "bond" => bonded' = bonded + t.arg
        /\ t.op = "unbond" => bonded' = bonded - t.arg
        /\ t.op \in {"rebond", "rebondFromUnbonded"} => bonded' = bonded + locks[t.arg]
        /\ t.op \notin {"bond", "unbond", "rebond", "rebondFromUnbonded"} => bonded' = bonded
    BY Zenon DEF Execute
  <2>2. t.op = "unbond" => t.arg <= bonded
    BY Zenon DEF Accepts
  <2> QED
    BY <1>1, <1>3, <2>1, <2>2, SMTT(60)
<1>5. allowance' \in Nat
  BY <1>1 DEF Accepts, Execute, Bonding
<1>6. locks' \in Seq(Nat)
  <2>1. t.op \in {"rebond", "rebondFromUnbonded"} => [locks EXCEPT ![t.arg] = 0] \in Seq(Nat)
    BY <1>1, <1>3, ExceptSeq, Zenon
  <2>2. Append(locks, t.arg) \in Seq(Nat)
    BY <1>1
  <2>3. /\ t.op = "unbond" => locks' = Append(locks, t.arg)
        /\ t.op \in {"rebond", "rebondFromUnbonded"} => locks' = [locks EXCEPT ![t.arg] = 0]
        /\ t.op \notin {"unbond", "rebond", "rebondFromUnbonded"} => locks' = locks
    BY Zenon DEF Execute
  <2> QED
    BY <1>1, <2>1, <2>2, <2>3, Zenon
<1>7. registered' \in BOOLEAN
  BY Zenon DEF Execute
<1> QED
  BY <1>2, <1>4, <1>5, <1>6, <1>7, Zenon

\* Where autoClaimEarnings returns to: the handler is done, or goes on.
LEMMA Returned ==
    ASSUME TypeOK, NEW h \in Handlers, pc[h] # "idle", Claimed(h)
    PROVE  \/ Answer(h, "ok")
           \/ /\ \E l \in {"act", "send"} : Goto(h, l)
              /\ Now(h).op # "claimEarnings"
              /\ UNCHANGED <<todo, reply>>
BY Zenon DEF Claimed

\* What a failure leaves behind
LEMMA Failed ==
    ASSUME TypeOK, NEW h \in Handlers, pc[h] # "idle", Fail(h)
    PROVE  /\ tries' \in [Handlers -> Seq(Nat)]
           /\ \A g \in Handlers : Len(tries'[g]) <= MaxRetries
           /\ UNCHANGED <<end, last, tx, mine, asked>>
           /\ \A g \in Handlers \ {h} : tries'[g] = tries[g]
           /\ \/ /\ Goto(h, "call") /\ UNCHANGED <<todo, reply>>
                 /\ tries'[h] = Append(tries[h], GivesUp(h))
              \/ Answer(h, "error") /\ UNCHANGED tries
<1>1. /\ tries \in [Handlers -> Seq(Nat)] /\ MaxRetries \in Nat
      /\ \A g \in Handlers : Len(tries[g]) <= MaxRetries
      /\ tx[h] \in 0 .. Len(txs) /\ txs \in Seq(Tx)
  BY StakingAssumption, Zenon DEF StakingAssumption, TypeOK
<1>a. Len(txs) \in Nat
  BY <1>1
<1>b. GivesUp(h) \in Nat
  BY <1>1, <1>a, SMT DEF GivesUp
<1>2. CASE /\ Len(tries[h]) < MaxRetries
           /\ tries' = [tries EXCEPT ![h] = Append(@, GivesUp(h))]
           /\ Goto(h, "call")
           /\ UNCHANGED <<todo, reply, end, last, tx, mine, asked>>
  <2>1. tries[h] \in Seq(Nat)
    BY <1>1, Zenon
  <2>2. Append(tries[h], GivesUp(h)) \in Seq(Nat) /\ Len(Append(tries[h], GivesUp(h))) <= MaxRetries
    BY <1>1, <1>b, <1>2, <2>1, SMT
  <2>3. tries' = [tries EXCEPT ![h] = Append(tries[h], GivesUp(h))]
    BY <1>2, Zenon
  <2> QED
    BY <1>1, <1>2, <2>2, <2>3, Zenon
<1>3. CASE Answer(h, "error") /\ UNCHANGED <<tries, mine, end, last, tx, asked>>
  BY <1>1, <1>3, Zenon
<1> QED
  BY <1>2, <1>3, Zenon DEF Fail

\* A step of a handler keeps TypeOK if it leaves the contracts alone, the handler
\* goes on or is done, and no transaction is sent.
LEMMA QuietStep ==
    ASSUME TypeOK, NEW h \in Handlers, pc[h] # "idle",
           UNCHANGED <<chainVars, txs, tx>>,
           \/ (\E l \in Labels \ Waiting : l # "idle" /\ Goto(h, l)) /\ UNCHANGED <<todo, reply>>
           \/ \E r \in {"ok", "error"} : Answer(h, r),
           end' \in [Handlers -> Nat], last' \in [Handlers -> Nat],
           tries' \in [Handlers -> Seq(Nat)], \A g \in Handlers : Len(tries'[g]) <= MaxRetries,
           mine' \in [Handlers -> SUBSET (1 .. Len(txs))],
           asked' \in 0 .. MaxRequests
    PROVE  TypeOK'
<1>1. /\ pc' \in [Handlers -> Labels] /\ todo' \in [Handlers -> Seq(Call)]
      /\ reply' \in [Handlers -> {"none", "ok", "error"}] /\ IdleHandlers'
      /\ \A g \in Handlers : pc'[g] \in Waiting => pc[g] \in Waiting
  <2>1. CASE (\E l \in Labels \ Waiting : l # "idle" /\ Goto(h, l)) /\ UNCHANGED <<todo, reply>>
    <3>1. PICK l \in Labels \ Waiting : l # "idle" /\ Goto(h, l)
      BY <2>1, Zenon
    <3>2. reply' \in [Handlers -> {"none", "ok", "error"}]
      BY <2>1, Zenon DEF TypeOK
    <3>3. /\ pc' \in [Handlers -> Labels] /\ pc'[h] = l
          /\ \A g \in Handlers \ {h} : pc'[g] = pc[g]
          /\ todo' \in [Handlers -> Seq(Call)] /\ IdleHandlers'
      BY <2>1, <3>1, GoesOn, Zenon
    <3> QED
      BY <3>1, <3>2, <3>3, Zenon
  <2>2. CASE \E r \in {"ok", "error"} : Answer(h, r)
    BY <2>2, Answered, Zenon DEF Waiting
  <2> QED
    BY <2>1, <2>2, Zenon
<1> QED
  BY <1>1, Zenon DEF chainVars, TypeOK

\* A step of a handler that sends a transaction keeps TypeOK.
LEMMA SendingStep ==
    ASSUME TypeOK, NEW h \in Handlers, pc[h] # "idle",
           NEW op \in Ops \union {"approve"},
           NEW arg \in Nat, NEW l \in Waiting, Transact(h, op, arg, l),
           UNCHANGED <<chainVars, todo, end, last, tries, reply, asked>>
    PROVE  TypeOK'
<1>1. /\ txs' \in Seq(Tx) /\ Len(txs') <= MaxTxs
      /\ tx' \in [Handlers -> 0 .. Len(txs')]
      /\ mine' \in [Handlers -> SUBSET (1 .. Len(txs'))]
      /\ tx'[h] = Len(txs) + 1 /\ Len(txs) \in Nat
      /\ \A g \in Handlers \ {h} : tx'[g] = tx[g]
  BY Transacted, Zenon
<1>2. l \in Labels \ {"idle"} /\ Goto(h, l)
  BY Zenon DEF Labels, Waiting, Transact
<1>3. /\ pc' \in [Handlers -> Labels]
      /\ \A g \in Handlers \ {h} : pc'[g] = pc[g]
      /\ todo' \in [Handlers -> Seq(Call)] /\ IdleHandlers'
  BY <1>2, GoesOn, Zenon
<1>4. \A g \in Handlers : pc[g] \in Waiting => tx[g] # 0
  BY Zenon DEF TypeOK
<1>5. ASSUME NEW g \in Handlers, pc'[g] \in Waiting
      PROVE  tx'[g] # 0
  <2>1. CASE g = h
    BY <1>1, <2>1
  <2>2. CASE g # h
    BY <1>1, <1>3, <1>4, <1>5, <2>2, Zenon
  <2> QED
    BY <2>1, <2>2, Zenon
<1> QED
  BY <1>1, <1>3, <1>5, Zenon DEF chainVars, TypeOK

\* Every step keeps TypeOK.
LEMMA TypeStep ==
    TypeOK /\ [Next]_vars => TypeOK'
<1> SUFFICES ASSUME TypeOK, [Next]_vars
             PROVE  TypeOK'
  BY Zenon
<1> USE StakingAssumption DEF StakingAssumption
<1>1. CASE NewRound
  BY <1>1 DEF NewRound, handlerVars, TypeOK, IdleHandlers
<1>2. ASSUME NEW i \in 1 .. MaxTxs, Mine(i)
      PROVE  TypeOK'
  <2>1. UNCHANGED handlerVars
    BY <1>2, Zenon DEF Mine
  <2>2. /\ round' = round /\ lastClaim' \in 0 .. round'
        /\ bonded' \in Nat /\ allowance' \in Nat /\ locks' \in Seq(Nat)
        /\ registered' \in BOOLEAN
    <3>1. CASE txs'[i].status = "ok"
      BY <1>2, <3>1, Mined, Executed, Zenon
    <3>2. CASE txs'[i].status = "failed"
      BY <1>2, <3>2, Mined, Zenon DEF chainVars, TypeOK
    <3> QED
      BY <1>2, <3>1, <3>2, Mined, Zenon
  <2>3. txs' \in Seq(Tx) /\ Len(txs') = Len(txs)
    BY <1>2, Mined, Zenon
  <2> QED
    BY <2>1, <2>2, <2>3, Zenon DEF handlerVars, TypeOK, IdleHandlers
<1>3. ASSUME NEW h \in Handlers, Request(h)
      PROVE  TypeOK'
  <2>1. /\ todo' \in [Handlers -> Seq(Call)] /\ todo'[h] # <<>>
        /\ \A g \in Handlers \ {h} : todo'[g] = todo[g]
    BY <1>3, Plans, Zenon
  <2>2. pc' = [pc EXCEPT ![h] = "call"] /\ pc \in [Handlers -> Labels] /\ IdleHandlers
    BY <1>3, Zenon DEF Request, Goto, TypeOK
  <2>3. IdleHandlers'
    BY <2>1, <2>2, Zenon DEF IdleHandlers
  <2>4. pc' \in [Handlers -> Labels]
    BY <2>2, Zenon DEF Labels
  <2>5. \A g \in Handlers : pc'[g] \in Waiting => pc[g] \in Waiting
    BY <2>2, Zenon DEF Waiting
  <2>6. /\ mine' = [mine EXCEPT ![h] = {}] /\ tries' = [tries EXCEPT ![h] = <<>>]
        /\ reply' = [reply EXCEPT ![h] = "none"]
        /\ asked < MaxRequests /\ asked' = asked + 1
        /\ UNCHANGED <<chainVars, txs, end, last, tx>>
    BY <1>3, Zenon DEF Request
  <2>7. <<>> \in Seq(Nat) /\ Len(<<>>) <= MaxRetries
    BY SMT
  <2>8. tries' \in [Handlers -> Seq(Nat)] /\ \A g \in Handlers : Len(tries'[g]) <= MaxRetries
    BY <2>6, <2>7, Zenon DEF TypeOK
  <2>9. /\ mine' \in [Handlers -> SUBSET (1 .. Len(txs))]
        /\ reply' \in [Handlers -> {"none", "ok", "error"}]
    BY <2>6, Zenon DEF TypeOK
  <2>10. asked' \in 0 .. MaxRequests
    BY <2>6, SMT DEF TypeOK
  <2> QED
    BY <2>1, <2>3, <2>4, <2>5, <2>6, <2>8, <2>9, <2>10, Zenon DEF chainVars, TypeOK
<1>a. /\ end \in [Handlers -> Nat] /\ last \in [Handlers -> Nat]
      /\ tries \in [Handlers -> Seq(Nat)] /\ \A g \in Handlers : Len(tries[g]) <= MaxRetries
      /\ mine \in [Handlers -> SUBSET (1 .. Len(txs))]
      /\ asked \in 0 .. MaxRequests
      /\ lastClaim \in Nat /\ round \in Nat /\ MaxClaims \in Nat
  <2>1. lastClaim \in Nat /\ round \in Nat /\ MaxClaims \in Nat
    BY SMT DEF TypeOK
  <2> QED
    BY <2>1, Zenon DEF TypeOK
<1>b. /\ \A l \in {"call", "status", "delegator", "claim", "act", "send"} :
            l \in Labels \ Waiting /\ l # "idle"
      /\ \A l \in Waiting : l # "idle"
  BY Zenon DEF Labels, Waiting
<1>4. ASSUME NEW h \in Handlers, Begin(h)
      PROVE  TypeOK'
  <2>1. pc[h] # "idle" /\ UNCHANGED <<todo, reply>> /\ UNCHANGED <<chainVars, txs, tx>>
    BY <1>4, Zenon DEF Begin
  <2>2. \E l \in {"status", "send"} : Goto(h, l)
    BY <1>4, Zenon DEF Begin
  <2>3. Now(h).arg \in Nat
    BY <2>1, NowTyped, Zenon
  <2>4. end' \in [Handlers -> Nat]
    BY <1>4, <1>a, <2>3, Zenon DEF Begin
  <2>5. UNCHANGED <<last, tries, mine, asked>>
    BY <1>4, Zenon DEF Begin
  <2> QED
    BY <1>a, <1>b, <2>1, <2>2, <2>4, <2>5, QuietStep, Zenon
<1>5. ASSUME NEW h \in Handlers, DelegatorStatus(h)
      PROVE  TypeOK'
  <2>1. /\ pc[h] # "idle" /\ UNCHANGED <<chainVars, txs, tx>>
        /\ UNCHANGED <<end, last, tries, mine, asked>>
    BY <1>5, Zenon DEF DelegatorStatus
  <2>2. \/ (\E l \in {"delegator", "act", "send"} : Goto(h, l)) /\ UNCHANGED <<todo, reply>>
        \/ Answer(h, "ok")
    BY <1>5, <2>1, Returned, Zenon DEF DelegatorStatus
  <2> QED
    BY <1>a, <1>b, <2>1, <2>2, QuietStep, Zenon
<1>6. ASSUME NEW h \in Handlers, GetDelegator(h)
      PROVE  TypeOK'
  <2>1. /\ pc[h] # "idle" /\ UNCHANGED <<todo, reply>> /\ UNCHANGED <<chainVars, txs, tx>>
        /\ UNCHANGED <<end, tries, mine, asked>> /\ Goto(h, "claim")
    BY <1>6, Zenon DEF GetDelegator
  <2>2. last' \in [Handlers -> Nat]
    BY <1>6, <1>a, Zenon DEF GetDelegator
  <2> QED
    BY <1>a, <1>b, <2>1, <2>2, QuietStep, Zenon
<1>7. ASSUME NEW h \in Handlers, Claim(h)
      PROVE  TypeOK'
  <2>1. pc[h] # "idle" /\ UNCHANGED <<chainVars, end, last, tries, asked>>
    BY <1>7, Zenon DEF Claim
  <2>2. ASSUME NEW arg \in Nat, NEW l \in Waiting, Transact(h, "claimEarnings", arg, l),
               UNCHANGED <<todo, reply>>
        PROVE  TypeOK'
    <3>1. "claimEarnings" \in Ops \union {"approve"}
      BY Zenon DEF Ops
    <3> QED
      BY <2>1, <2>2, <3>1, SendingStep, Zenon
  <2>3. CASE Claimed(h) /\ UNCHANGED <<txs, tx, mine>>
    <3>1. \/ (\E l \in {"act", "send"} : Goto(h, l)) /\ UNCHANGED <<todo, reply>>
          \/ Answer(h, "ok")
      BY <2>1, <2>3, Returned, Zenon
    <3> QED
      BY <1>a, <1>b, <2>1, <2>3, <3>1, QuietStep, Zenon
  <2>4. last[h] + MaxClaims \in Nat /\ end[h] \in Nat
        /\ "claiming" \in Waiting /\ "claimingRest" \in Waiting
    BY <1>a DEF Waiting
  <2> QED
    BY <1>7, <2>2, <2>3, <2>4, Zenon DEF Claim
<1>8. ASSUME NEW h \in Handlers, CheckClaim(h)
      PROVE  TypeOK'
  <2>1. /\ pc[h] # "idle" /\ UNCHANGED <<todo, reply>> /\ UNCHANGED <<chainVars, txs, tx>>
        /\ UNCHANGED <<end, tries, mine, asked>> /\ Goto(h, "claim")
    BY <1>8, Zenon DEF CheckClaim
  <2>2. last' \in [Handlers -> Nat]
    BY <1>8, <1>a DEF CheckClaim
  <2> QED
    BY <1>a, <1>b, <2>1, <2>2, QuietStep, Zenon
<1>9. ASSUME NEW h \in Handlers, CheckRest(h)
      PROVE  TypeOK'
  <2>1. /\ pc[h] # "idle" /\ UNCHANGED <<chainVars, txs, tx>>
        /\ UNCHANGED <<end, last, tries, mine, asked>> /\ Answer(h, "ok")
    BY <1>9, Zenon DEF CheckRest
  <2> QED
    BY <1>a, <2>1, QuietStep, Zenon
<1>10. ASSUME NEW h \in Handlers, Allowance(h)
       PROVE  TypeOK'
  <2>1. pc[h] # "idle" /\ UNCHANGED <<chainVars, todo, end, last, tries, reply, asked>>
    BY <1>10, Zenon DEF Allowance
  <2>2. CASE Transact(h, "approve", Now(h).arg, "approving")
    <3>1. Now(h).arg \in Nat /\ "approving" \in Waiting
      BY <2>1, NowTyped, Zenon DEF Waiting
    <3> QED
      BY <2>1, <2>2, <3>1, SendingStep, Zenon
  <2>3. CASE Goto(h, "send") /\ UNCHANGED <<txs, tx, mine>>
    BY <1>a, <1>b, <2>1, <2>3, QuietStep, Zenon
  <2> QED
    BY <1>10, <2>2, <2>3, Zenon DEF Allowance
<1>11. ASSUME NEW h \in Handlers, CheckApprove(h)
       PROVE  TypeOK'
  <2>1. /\ pc[h] # "idle" /\ UNCHANGED <<todo, reply>> /\ UNCHANGED <<chainVars, txs, tx>>
        /\ UNCHANGED <<end, last, tries, mine, asked>> /\ Goto(h, "send")
    BY <1>11, Zenon DEF CheckApprove
  <2> QED
    BY <1>a, <1>b, <2>1, QuietStep, Zenon
<1>12. ASSUME NEW h \in Handlers, Send(h)
       PROVE  TypeOK'
  <2>1. pc[h] # "idle" /\ UNCHANGED <<chainVars, todo, end, last, tries, reply, asked>>
    BY <1>12, Zenon DEF Send
  <2>2. /\ Now(h).arg \in Nat /\ "sent" \in Waiting
        /\ Now(h).op \in Ops \union {"approve"}
    BY <1>12, <2>1, NowTyped, Zenon DEF Waiting
  <2> QED
    BY <1>12, <2>1, <2>2, SendingStep, Zenon DEF Send
<1>13. ASSUME NEW h \in Handlers, CheckTx(h)
       PROVE  TypeOK'
  <2>1. /\ pc[h] # "idle" /\ UNCHANGED <<chainVars, txs, tx>>
        /\ UNCHANGED <<end, last, tries, mine, asked>>
    BY <1>13, Zenon DEF CheckTx
  <2>2. CASE Answer(h, "ok")
    BY <1>a, <2>1, <2>2, QuietStep, Zenon
  <2>3. CASE /\ Len(todo[h]) > 1
             /\ todo' = [todo EXCEPT ![h] = Tail(@)]
             /\ Goto(h, "call")
             /\ UNCHANGED reply
    <3>1. Tail(todo[h]) \in Seq(Call) /\ Tail(todo[h]) # <<>>
      BY <2>1, <2>3, NowTyped, Zenon
    <3>2. /\ pc \in [Handlers -> Labels] /\ todo \in [Handlers -> Seq(Call)]
          /\ IdleHandlers
      BY Zenon DEF TypeOK
    <3>3. pc' \in [Handlers -> Labels] /\ todo' \in [Handlers -> Seq(Call)] /\ IdleHandlers'
      BY <1>b, <2>3, <3>1, <3>2, Zenon DEF Goto, IdleHandlers
    <3>4. \A g \in Handlers : pc'[g] \in Waiting => pc[g] \in Waiting
      BY <1>b, <2>3, <3>2, Zenon DEF Goto
    <3> QED
      BY <2>1, <2>3, <3>3, <3>4, Zenon DEF chainVars, TypeOK
  <2> QED
    BY <1>13, <2>2, <2>3, Zenon DEF CheckTx
<1>14. ASSUME NEW h \in Handlers, CallFails(h) \/ CheckFails(h)
       PROVE  TypeOK'
  <2>1. pc[h] # "idle" /\ UNCHANGED <<chainVars, txs>> /\ Fail(h)
    BY <1>14, <1>b, Zenon DEF CallFails, CheckFails
  <2> QED
    BY <1>a, <1>b, <2>1, Failed, QuietStep, Zenon
<1>15. CASE UNCHANGED vars
  BY <1>15, Zenon DEF vars, chainVars, handlerVars, TypeOK, IdleHandlers
<1> QED
  BY <1>1, <1>2, <1>3, <1>4, <1>5, <1>6, <1>7, <1>8, <1>9, <1>10, <1>11, <1>12, <1>13,
     <1>14, <1>15, Zenon DEF Next, Step

-----------------------------------------------------------------------------
(* The claiming of earnings *)

\* A step of a handler keeps StakingInv if it leaves the contracts and the other
\* handlers alone, keeps ClaimInv of its own, and sends no claim of too many rounds.
LEMMA ClaimFrame ==
    ASSUME TypeOK, StakingInv, NEW h \in Handlers, UNCHANGED chainVars,
           \A g \in Handlers \ {h} : /\ pc'[g] = pc[g] /\ todo'[g] = todo[g]
                                     /\ tx'[g] = tx[g] /\ end'[g] = end[g] /\ last'[g] = last[g],
           \/ UNCHANGED txs
           \/ /\ Len(txs') = Len(txs) + 1
              /\ \A i \in 1 .. Len(txs) : txs'[i] = txs[i]
              /\ txs'[Len(txs) + 1].status = "pending"
              /\ txs'[Len(txs) + 1].op = "claimEarnings"
                    => txs'[Len(txs) + 1].arg <= lastClaim + MaxClaims,
           ClaimInv(h)'
    PROVE  StakingInv'
<1>0. Len(txs) \in Nat
  <2>1. txs \in Seq(Tx)
    BY Zenon DEF TypeOK
  <2> QED
    BY ONLY <2>1
<1>1. Len(txs) \in Nat /\ \A i \in 1 .. Len(txs) : txs'[i] = txs[i]
  BY <1>0, Zenon
<1>2. ASSUME NEW g \in Handlers \ {h}
      PROVE  ClaimInv(g)'
  <2>1. ClaimInv(g)
    BY Zenon DEF StakingInv
  <2>2. pc[g] \in Waiting => Sent(g)' = Sent(g)
    BY <1>1, SentTyped, Zenon DEF Sent, TypeOK
  <2>3. "claiming" \in Waiting
    BY Zenon DEF Waiting
  <2> QED
    BY <2>1, <2>2, <2>3, Zenon DEF ClaimInv, Now, chainVars
<1>3. ASSUME NEW i \in 1 .. Len(txs'), txs'[i].op = "claimEarnings"
      PROVE  /\ txs'[i].status = "ok" => txs'[i].arg <= lastClaim'
             /\ txs'[i].status = "pending" => txs'[i].arg <= lastClaim' + MaxClaims
  <2>1. CASE i \in 1 .. Len(txs)
    BY <1>1, <1>3, <2>1, Zenon DEF StakingInv, ClaimsFit, chainVars
  <2>2. CASE i \notin 1 .. Len(txs)
    <3>1. i = Len(txs) + 1 /\ ~UNCHANGED txs
      BY <1>1, <2>2
    <3> QED
      BY <1>3, <3>1, Zenon DEF chainVars
  <2> QED
    BY <2>1, <2>2, Zenon
<1> QED
  BY <1>2, <1>3, Zenon DEF StakingInv, ClaimsFit

\* The mining of a transaction keeps StakingInv.
LEMMA ClaimMined ==
    ASSUME TypeOK, StakingInv, NEW i, Mine(i)
    PROVE  StakingInv'
<1>1. /\ i \in 1 .. Len(txs) /\ Len(txs') = Len(txs)
      /\ \A j \in 1 .. Len(txs) : j # i => txs'[j] = txs[j]
      /\ txs[i] \in Tx /\ txs'[i].op = txs[i].op /\ txs'[i].arg = txs[i].arg
      /\ txs'[i].status \in {"ok", "failed"}
      /\ txs'[i].status = "ok" => Accepts(txs[i]) /\ Execute(txs[i])
      /\ txs'[i].status = "failed" => UNCHANGED chainVars
  BY Mined, Zenon
<1>2. /\ lastClaim \in Nat /\ round \in Nat /\ MaxClaims \in Nat
      /\ end \in [Handlers -> Nat] /\ last \in [Handlers -> Nat]
      /\ txs \in Seq(Tx)
  BY StakingAssumption DEF StakingAssumption, TypeOK
<1>a. \A j \in 1 .. Len(txs) : txs[j] \in Tx /\ txs[j].arg \in Nat
  <2>1. \A t \in Tx : t.arg \in Nat
    BY Zenon DEF Tx
  <2>2. \A j \in 1 .. Len(txs) : txs[j] \in Tx
    BY <1>2
  <2> QED
    BY <2>1, <2>2, Zenon
<1>3. UNCHANGED handlerVars
  BY Zenon DEF Mine
<1>4. lastClaim' \in Nat /\ lastClaim <= lastClaim' /\ round' = round
  <2>1. CASE txs'[i].status = "ok"
    BY <1>1, <1>2, <2>1, Executed
  <2>2. CASE txs'[i].status = "failed"
    BY <1>1, <1>2, <2>2 DEF chainVars
  <2> QED
    BY <1>1, <2>1, <2>2, Zenon
<1>5. bonded = 0 /\ bonded' # 0 => lastClaim' = round
  <2>1. CASE txs'[i].status = "ok"
    BY <1>1, <2>1, Zenon DEF Execute, Bonding
  <2>2. CASE txs'[i].status = "failed"
    BY <1>1, <2>2, Zenon DEF chainVars
  <2> QED
    BY <1>1, <2>1, <2>2, Zenon
<1>6. ASSUME NEW h \in Handlers
      PROVE  ClaimInv(h)'
  <2>1. ClaimInv(h)
    BY Zenon DEF StakingInv
  <2>2. pc[h] \in Waiting => Sent(h)'.op = Sent(h).op /\ Sent(h)'.arg = Sent(h).arg
    BY <1>1, <1>3, SentTyped, Zenon DEF Sent, TypeOK, handlerVars
  <2>3. UNCHANGED <<pc, todo, end, last>> /\ Now(h)' = Now(h)
    BY <1>3, Zenon DEF handlerVars, Now
  <2>4. pc[h] \in {"claim", "claiming"} => last[h] <= lastClaim'
    BY <1>2, <1>4, <2>1 DEF ClaimInv
  <2>5. pc[h] = "claiming" => Sent(h)'.op = "claimEarnings" /\ Sent(h)'.arg = last[h] + MaxClaims
    BY <2>1, <2>2, Zenon DEF ClaimInv, Waiting
  <2>6. pc[h] \in {"act", "approving", "send"} /\ Now(h).op \in Bonding /\ bonded' # 0
           => end[h] <= lastClaim' + MaxClaims
    <3>1. CASE bonded = 0
      <4>1. pc[h] \in {"act", "approving", "send"} /\ Now(h).op \in Bonding => end[h] <= round
        BY <2>1, Zenon DEF ClaimInv
      <4> QED
        BY <1>2, <1>4, <1>5, <3>1, <4>1
    <3>2. CASE bonded # 0
      BY <1>2, <1>4, <2>1, <3>2 DEF ClaimInv
    <3> QED
      BY <3>1, <3>2, Zenon
  <2> QED
    BY <1>4, <2>1, <2>3, <2>4, <2>5, <2>6, Zenon DEF ClaimInv
<1>7. ASSUME NEW j \in 1 .. Len(txs'), txs'[j].op = "claimEarnings"
      PROVE  /\ txs'[j].status = "ok" => txs'[j].arg <= lastClaim'
             /\ txs'[j].status = "pending" => txs'[j].arg <= lastClaim' + MaxClaims
  <2>1. CASE j = i
    <3>0. txs[i].op = "claimEarnings"
      BY <1>1, <1>7, <2>1, Zenon
    <3>1. txs'[i].status = "ok" => lastClaim' = txs[i].arg
      <4>1. Execute(txs[i]) => lastClaim' = txs[i].arg
        BY <3>0, Zenon DEF Execute, Bonding
      <4> QED
        BY <1>1, <4>1, Zenon
    <3> QED
      BY <1>1, <1>2, <1>a, <1>4, <2>1, <3>1
  <2>2. CASE j # i
    BY <1>1, <1>2, <1>a, <1>4, <1>7, <2>2, SMTT(60) DEF StakingInv, ClaimsFit
  <2> QED
    BY <2>1, <2>2, Zenon
<1> QED
  BY <1>6, <1>7, Zenon DEF StakingInv, ClaimsFit

\* Every step keeps StakingInv.
LEMMA StakingStep ==
    TypeOK /\ StakingInv /\ [Next]_vars => StakingInv'
<1> SUFFICES ASSUME TypeOK, StakingInv, [Next]_vars
             PROVE  StakingInv'
  BY Zenon
<1>a. /\ pc \in [Handlers -> Labels] /\ todo \in [Handlers -> Seq(Call)]
      /\ end \in [Handlers -> Nat] /\ last \in [Handlers -> Nat]
      /\ tx \in [Handlers -> 0 .. Len(txs)]
      /\ lastClaim \in Nat /\ round \in Nat /\ MaxClaims \in Nat /\ Len(txs) \in Nat
  BY StakingAssumption DEF StakingAssumption, TypeOK
<1>b. \A h \in Handlers : ClaimInv(h)
  BY Zenon DEF StakingInv
<1>1. CASE NewRound
  <2>1. /\ round' = round + 1
        /\ UNCHANGED <<lastClaim, bonded, txs, pc, todo, end, last, tx>>
    BY <1>1, Zenon DEF NewRound, handlerVars
  <2>2. \A h \in Handlers : ClaimInv(h)'
    BY <1>a, <1>b, <2>1 DEF ClaimInv, Now, Sent
  <2> QED
    BY <2>1, <2>2, Zenon DEF StakingInv, ClaimsFit
<1>2. ASSUME NEW i \in 1 .. MaxTxs, Mine(i)
      PROVE  StakingInv'
  BY <1>2, ClaimMined, Zenon
<1>3. ASSUME NEW h \in Handlers, Request(h)
      PROVE  StakingInv'
  <2>1. /\ UNCHANGED <<chainVars, txs, end, last, tx>>
        /\ pc' = [pc EXCEPT ![h] = "call"]
        /\ \A g \in Handlers \ {h} : todo'[g] = todo[g]
    BY <1>3, Plans, Zenon DEF Request, Goto
  <2>2. ClaimInv(h)'
    BY <1>a, <2>1, Zenon DEF ClaimInv
  <2> QED
    BY <1>a, <2>1, <2>2, ClaimFrame, Zenon
<1>4. ASSUME NEW h \in Handlers, Begin(h)
      PROVE  StakingInv'
  <2>1. UNCHANGED <<chainVars, txs, todo, last, tx>> /\ Now(h)' = Now(h)
    BY <1>4, Zenon DEF Begin, Now
  <2>2. /\ \A g \in Handlers \ {h} : pc'[g] = pc[g] /\ end'[g] = end[g]
        /\ \/ Now(h).op \in Bonding /\ end'[h] = round /\ pc'[h] = "status"
           \/ Now(h).op = "claimEarnings" /\ pc'[h] = "status"
           \/ Now(h).op \in Others /\ pc'[h] = "send"
    BY <1>4, <1>a, Zenon DEF Begin, Goto
  <2>3. ClaimInv(h)'
    BY <1>a, <2>1, <2>2 DEF ClaimInv, Bonding, Others, chainVars
  <2> QED
    BY <2>1, <2>2, <2>3, ClaimFrame, Zenon
<1>5. ASSUME NEW h \in Handlers, DelegatorStatus(h)
      PROVE  StakingInv'
  <2>1. UNCHANGED <<chainVars, txs, end, last, tx>> /\ pc[h] = "status"
    BY <1>5, Zenon DEF DelegatorStatus
  <2>2. CASE bonded # 0 /\ Goto(h, "delegator") /\ UNCHANGED <<todo, reply>>
    <3>1. ClaimInv(h)'
      BY <1>a, <1>b, <2>1, <2>2, Zenon DEF ClaimInv, Goto, Now, chainVars
    <3> QED
      BY <1>a, <2>1, <2>2, <3>1, ClaimFrame, Zenon DEF Goto
  <2>3. CASE bonded = 0 /\ Answer(h, "ok")
    <3>1. ClaimInv(h)'
      BY <2>3, Answered, Zenon DEF ClaimInv
    <3> QED
      BY <2>1, <2>3, <3>1, Answered, ClaimFrame, Zenon
  <2>4. CASE /\ bonded = 0 /\ (\E l \in {"act", "send"} : Goto(h, l))
             /\ Now(h).op # "claimEarnings" /\ UNCHANGED <<todo, reply>>
    <3>1. ClaimInv(h)'
      BY <1>a, <1>b, <2>1, <2>4, Zenon DEF ClaimInv, Goto, Now, chainVars
    <3> QED
      BY <1>a, <2>1, <2>4, <3>1, ClaimFrame, Zenon DEF Goto
  <2>5. \/ bonded # 0 /\ Goto(h, "delegator") /\ UNCHANGED <<todo, reply>>
        \/ bonded = 0 /\ Claimed(h)
    BY <1>5, Zenon DEF DelegatorStatus
  <2>6. pc[h] # "idle"
    BY <2>1, Zenon
  <2> QED
    BY <2>2, <2>3, <2>4, <2>5, <2>6, Returned, Zenon
<1>6. ASSUME NEW h \in Handlers, GetDelegator(h)
      PROVE  StakingInv'
  <2>1. /\ UNCHANGED <<chainVars, txs, todo, end, tx>> /\ pc[h] = "delegator"
        /\ pc' = [pc EXCEPT ![h] = "claim"] /\ last' = [last EXCEPT ![h] = lastClaim]
    BY <1>6, Zenon DEF GetDelegator, Goto
  <2>a. /\ pc'[h] = "claim" /\ last'[h] = lastClaim /\ end'[h] = end[h] /\ Now(h)' = Now(h)
        /\ lastClaim' = lastClaim /\ round' = round /\ bonded' = bonded
    BY <1>a, <2>1, Zenon DEF Now, chainVars
  <2>b. Now(h).op \in Bonding => end[h] <= round
    BY <1>b, <2>1, Zenon DEF ClaimInv
  <2>c. lastClaim <= lastClaim
    BY <1>a
  <2>2. ClaimInv(h)'
    BY <2>a, <2>b, <2>c, Zenon DEF ClaimInv
  <2> QED
    BY <1>a, <2>1, <2>2, ClaimFrame, Zenon
<1>7. ASSUME NEW h \in Handlers, Claim(h)
      PROVE  StakingInv'
  <2>1. UNCHANGED <<chainVars, end, last>> /\ pc[h] = "claim"
    BY <1>7, Zenon DEF Claim
  <2>2. last[h] <= lastClaim /\ ClaimInv(h)
    BY <1>b, <2>1, Zenon DEF ClaimInv
  <2>3. ASSUME NEW arg \in Nat, NEW l \in {"claiming", "claimingRest"},
               Transact(h, "claimEarnings", arg, l), UNCHANGED todo,
               arg <= lastClaim + MaxClaims, l = "claiming" => arg = last[h] + MaxClaims
        PROVE  StakingInv'
    <3>1. "claimEarnings" \in Ops \union {"approve"}
      BY Zenon DEF Ops
    <3>2. /\ Len(txs') = Len(txs) + 1
          /\ \A i \in 1 .. Len(txs) : txs'[i] = txs[i]
          /\ txs'[Len(txs) + 1] = [op |-> "claimEarnings", arg |-> arg, status |-> "pending"]
          /\ tx'[h] = Len(txs) + 1
          /\ \A g \in Handlers \ {h} : tx'[g] = tx[g]
      BY <2>3, <3>1, Transacted, Zenon
    <3>3. pc' = [pc EXCEPT ![h] = l]
      BY <2>3, Zenon DEF Transact, Goto
    <3>4. Sent(h)'.op = "claimEarnings" /\ Sent(h)'.arg = arg
      BY <3>2 DEF Sent
    <3>5. ClaimInv(h)'
      BY <1>a, <2>1, <2>2, <2>3, <3>3, <3>4, Zenon DEF ClaimInv, Now, chainVars
    <3> QED
      BY <1>a, <2>1, <2>3, <3>2, <3>3, <3>5, ClaimFrame
  <2>4. CASE TooMany(h) /\ Transact(h, "claimEarnings", last[h] + MaxClaims, "claiming")
             /\ UNCHANGED <<todo, reply>>
    BY <1>a, <2>2, <2>3, <2>4
  <2>5. CASE /\ ~TooMany(h) /\ Transact(h, "claimEarnings", end[h], "claimingRest")
             /\ UNCHANGED <<todo, reply>>
    BY <1>a, <2>2, <2>3, <2>5 DEF TooMany
  <2>6. CASE ~TooMany(h) /\ Claimed(h) /\ UNCHANGED <<txs, tx, mine>>
    <3>1. CASE Answer(h, "ok")
      <4>1. ClaimInv(h)'
        BY <3>1, Answered, Zenon DEF ClaimInv
      <4> QED
        BY <2>1, <2>6, <3>1, <4>1, Answered, ClaimFrame, Zenon
    <3>2. CASE /\ \E l \in {"act", "send"} : Goto(h, l)
               /\ Now(h).op # "claimEarnings" /\ UNCHANGED <<todo, reply>>
      <4>1. end[h] <= lastClaim + MaxClaims
        BY <1>a, <2>2, <2>6 DEF TooMany
      <4>2. ClaimInv(h)'
        BY <1>a, <2>1, <2>2, <3>2, <4>1, Zenon DEF ClaimInv, Goto, Now, chainVars
      <4> QED
        BY <1>a, <2>1, <2>6, <3>2, <4>2, ClaimFrame, Zenon DEF Goto
    <3> QED
      BY <2>1, <2>6, <3>1, <3>2, Returned, Zenon
  <2> QED
    BY <1>7, <2>4, <2>5, <2>6, Zenon DEF Claim
<1>8. ASSUME NEW h \in Handlers, CheckClaim(h)
      PROVE  StakingInv'
  <2>1. /\ UNCHANGED <<chainVars, txs, todo, end, tx>> /\ pc[h] = "claiming"
        /\ pc' = [pc EXCEPT ![h] = "claim"] /\ last' = [last EXCEPT ![h] = @ + MaxClaims]
        /\ Sent(h).status = "ok"
    BY <1>8, Zenon DEF CheckClaim, Confirmed, Goto
  <2>2. tx[h] \in 1 .. Len(txs)
    BY <2>1, SentTyped, Zenon DEF TypeOK, Waiting
  <2>3. Sent(h).op = "claimEarnings" /\ Sent(h).arg = last[h] + MaxClaims
    BY <1>b, <2>1, Zenon DEF ClaimInv
  <2>4. last[h] + MaxClaims <= lastClaim
    BY <2>1, <2>2, <2>3, Zenon DEF StakingInv, Sent
  <2>5. ClaimInv(h)'
    BY <1>a, <1>b, <2>1, <2>4, Zenon DEF ClaimInv, Now, chainVars
  <2> QED
    BY <1>a, <2>1, <2>5, ClaimFrame, Zenon
<1>9. ASSUME NEW h \in Handlers, CheckRest(h)
      PROVE  StakingInv'
  <2>1. UNCHANGED <<chainVars, txs, end, last, tx>> /\ Answer(h, "ok")
    BY <1>9, Zenon DEF CheckRest
  <2>2. ClaimInv(h)'
    BY <2>1, Answered, Zenon DEF ClaimInv
  <2> QED
    BY <2>1, <2>2, Answered, ClaimFrame, Zenon
<1>10. ASSUME NEW h \in Handlers, Allowance(h)
       PROVE  StakingInv'
  <2>1. UNCHANGED <<chainVars, todo, end, last>> /\ pc[h] = "act"
    BY <1>10, Zenon DEF Allowance
  <2>2. CASE Transact(h, "approve", Now(h).arg, "approving")
    <3>1. Now(h).arg \in Nat
      BY <2>1, NowTyped, Zenon
    <3>2. /\ Len(txs') = Len(txs) + 1
          /\ \A i \in 1 .. Len(txs) : txs'[i] = txs[i]
          /\ txs'[Len(txs) + 1] = [op |-> "approve", arg |-> Now(h).arg, status |-> "pending"]
          /\ \A g \in Handlers \ {h} : tx'[g] = tx[g]
      BY <2>2, <3>1, Transacted
    <3>3. pc' = [pc EXCEPT ![h] = "approving"]
      BY <2>2, Zenon DEF Transact, Goto
    <3>4. ClaimInv(h)'
      BY <1>a, <1>b, <2>1, <3>3, Zenon DEF ClaimInv, Now, chainVars
    <3> QED
      BY <1>a, <2>1, <3>2, <3>3, <3>4, ClaimFrame
  <2>3. CASE Goto(h, "send") /\ UNCHANGED <<txs, tx, mine>>
    <3>1. ClaimInv(h)'
      BY <1>a, <1>b, <2>1, <2>3, Zenon DEF ClaimInv, Goto, Now, chainVars
    <3> QED
      BY <1>a, <2>1, <2>3, <3>1, ClaimFrame, Zenon DEF Goto
  <2> QED
    BY <1>10, <2>2, <2>3, Zenon DEF Allowance
<1>11. ASSUME NEW h \in Handlers, CheckApprove(h)
       PROVE  StakingInv'
  <2>1. /\ UNCHANGED <<chainVars, txs, todo, end, last, tx>> /\ pc[h] = "approving"
        /\ pc' = [pc EXCEPT ![h] = "send"]
    BY <1>11, Zenon DEF CheckApprove, Goto
  <2>2. ClaimInv(h)'
    BY <1>a, <1>b, <2>1, Zenon DEF ClaimInv, Now, chainVars
  <2> QED
    BY <1>a, <2>1, <2>2, ClaimFrame, Zenon
<1>12. ASSUME NEW h \in Handlers, Send(h)
       PROVE  StakingInv'
  <2>1. /\ UNCHANGED <<chainVars, todo, end, last>> /\ pc[h] = "send"
        /\ Transact(h, Now(h).op, Now(h).arg, "sent")
    BY <1>12, Zenon DEF Send
  <2>2. Now(h).arg \in Nat /\ Now(h).op \in Ops \union {"approve"} /\ Now(h).op # "claimEarnings"
    BY <1>b, <2>1, NowTyped, Zenon DEF ClaimInv
  <2>3. /\ Len(txs') = Len(txs) + 1
        /\ \A i \in 1 .. Len(txs) : txs'[i] = txs[i]
        /\ txs'[Len(txs) + 1] = [op |-> Now(h).op, arg |-> Now(h).arg, status |-> "pending"]
        /\ \A g \in Handlers \ {h} : tx'[g] = tx[g]
    BY <2>1, <2>2, Transacted, Zenon
  <2>4. pc' = [pc EXCEPT ![h] = "sent"]
    BY <2>1, Zenon DEF Transact, Goto
  <2>5. ClaimInv(h)'
    BY <1>a, <1>b, <2>1, <2>4, Zenon DEF ClaimInv, Now, chainVars
  <2> QED
    BY <1>a, <2>1, <2>2, <2>3, <2>4, <2>5, ClaimFrame
<1>13. ASSUME NEW h \in Handlers, CheckTx(h)
       PROVE  StakingInv'
  <2>1. UNCHANGED <<chainVars, txs, end, last, tx>>
    BY <1>13, Zenon DEF CheckTx
  <2>2. /\ pc'[h] \in {"idle", "call"}
        /\ \A g \in Handlers \ {h} : pc'[g] = pc[g] /\ todo'[g] = todo[g]
    BY <1>13, <1>a, Zenon DEF CheckTx, Answer, Goto
  <2>3. ClaimInv(h)'
    BY <2>2, Zenon DEF ClaimInv
  <2> QED
    BY <2>1, <2>2, <2>3, ClaimFrame, Zenon
<1>14. ASSUME NEW h \in Handlers, CallFails(h) \/ CheckFails(h)
       PROVE  StakingInv'
  <2>1. UNCHANGED <<chainVars, txs, end, last, tx>>
    BY <1>14, Zenon DEF CallFails, CheckFails, Fail
  <2>2. /\ pc'[h] \in {"idle", "call"}
        /\ \A g \in Handlers \ {h} : pc'[g] = pc[g] /\ todo'[g] = todo[g]
    BY <1>14, <1>a, Zenon DEF CallFails, CheckFails, Fail, Answer, Goto
  <2>3. ClaimInv(h)'
    BY <2>2, Zenon DEF ClaimInv
  <2> QED
    BY <2>1, <2>2, <2>3, ClaimFrame, Zenon
<1>15. CASE UNCHANGED vars
  <2>1. UNCHANGED <<round, lastClaim, bonded, txs, pc, todo, end, last, tx>>
    BY <1>15, Zenon DEF vars, chainVars, handlerVars
  <2> QED
    BY <2>1, Zenon DEF StakingInv, ClaimsFit, ClaimInv, Now, Sent
<1> QED
  BY <1>1, <1>2, <1>3, <1>4, <1>5, <1>6, <1>7, <1>8, <1>9, <1>10, <1>11, <1>12, <1>13,
     <1>14, <1>15, Zenon DEF Next, Step

-----------------------------------------------------------------------------
(* The order of a request's transactions *)

\* A step of a handler keeps TurnInv if it changes no transaction that was sent, leaves
\* the other handlers alone and keeps Turn of its own.
LEMMA TurnFrame ==
    ASSUME TypeOK, TurnInv, NEW h \in Handlers,
           \A g \in Handlers \ {h} : /\ pc'[g] = pc[g] /\ reply'[g] = reply[g]
                                     /\ tx'[g] = tx[g] /\ mine'[g] = mine[g]
                                     /\ tries'[g] = tries[g],
           \A i \in 1 .. Len(txs) : txs'[i] = txs[i],
           Turn(h)'
    PROVE  TurnInv'
<1> SUFFICES ASSUME NEW g \in Handlers \ {h}
             PROVE  Turn(g)'
  BY Zenon DEF TurnInv
<1>1. Turn(g) /\ mine[g] \subseteq 1 .. Len(txs)
  BY Zenon DEF TurnInv, TypeOK
<1>2. GivenUp(g)' = GivenUp(g)
  BY Zenon DEF GivenUp
<1> QED
  BY <1>1, <1>2, ZenonT(60) DEF Turn

\* A handler that goes on after its transactions have been mined keeps Turn when it
\* sends the next one.
LEMMA TurnSends ==
    ASSUME TypeOK, TurnInv, NEW h \in Handlers, pc[h] \in Labels \ (Waiting \union {"idle"}),
           NEW op \in Ops \union {"approve"}, NEW arg \in Nat, NEW l \in Waiting,
           Transact(h, op, arg, l), UNCHANGED <<reply, tries>>
    PROVE  TurnInv'
<1>1. /\ Len(txs) \in Nat /\ \A i \in 1 .. Len(txs) : txs'[i] = txs[i]
      /\ tx'[h] = Len(txs) + 1 /\ mine'[h] = mine[h] \union {Len(txs) + 1}
      /\ \A g \in Handlers \ {h} : tx'[g] = tx[g] /\ mine'[g] = mine[g]
  BY Transacted, Zenon
<1>2. pc'[h] = l /\ \A g \in Handlers \ {h} : pc'[g] = pc[g]
  BY Zenon DEF Transact, Goto, TypeOK
<1>3. /\ reply[h] # "ok" /\ mine[h] \subseteq 1 .. Len(txs)
      /\ \A i \in mine[h] : txs[i].status = "ok" \/ i \in GivenUp(h)
      /\ GivenUp(h)' = GivenUp(h)
  BY Zenon DEF TurnInv, Turn, TypeOK, GivenUp
<1>4. l # "idle"
  BY Zenon DEF Waiting
<1>5. Turn(h)'
  BY <1>1, <1>2, <1>3, <1>4, Zenon DEF Turn
<1> QED
  BY <1>1, <1>2, <1>5, TurnFrame, Zenon

\* Every step keeps TurnInv.
LEMMA TurnStep ==
    TypeOK /\ TurnInv /\ [Next]_vars => TurnInv'
<1> SUFFICES ASSUME TypeOK, TurnInv, [Next]_vars
             PROVE  TurnInv'
  BY Zenon
<1>a. /\ pc \in [Handlers -> Labels] /\ tx \in [Handlers -> 0 .. Len(txs)]
      /\ mine \in [Handlers -> SUBSET (1 .. Len(txs))]
      /\ reply \in [Handlers -> {"none", "ok", "error"}] /\ tries \in [Handlers -> Seq(Nat)]
  BY Zenon DEF TypeOK
<1>b. \A h \in Handlers : Turn(h)
  BY Zenon DEF TurnInv
<1>c. Waiting \subseteq Labels /\ "idle" \notin Waiting
      /\ {"call", "status", "delegator", "claim", "act", "send"} \subseteq Labels \ (Waiting \union {"idle"})
  BY Zenon DEF Waiting, Labels
<1>1. CASE NewRound
  BY <1>1, Zenon DEF NewRound, handlerVars, TurnInv, Turn, GivenUp
<1>2. ASSUME NEW i \in 1 .. MaxTxs, Mine(i)
      PROVE  TurnInv'
  <2>1. /\ \A j \in 1 .. Len(txs) : j # i => txs'[j] = txs[j]
        /\ txs[i].status = "pending"
    BY <1>2, Mined, Zenon
  <2>2. UNCHANGED <<pc, reply, tx, mine, tries>>
    BY <1>2, Zenon DEF Mine, handlerVars
  <2>3. \A h \in Handlers : mine[h] \subseteq 1 .. Len(txs)
    BY <1>a, Zenon
  <2> QED
    BY <1>b, <2>1, <2>2, <2>3, ZenonT(30) DEF TurnInv, Turn, GivenUp
<1>3. ASSUME NEW h \in Handlers, Request(h)
      PROVE  TurnInv'
  <2>1. /\ UNCHANGED <<txs, tx>> /\ pc' = [pc EXCEPT ![h] = "call"]
        /\ mine' = [mine EXCEPT ![h] = {}] /\ reply' = [reply EXCEPT ![h] = "none"]
        /\ tries' = [tries EXCEPT ![h] = <<>>]
    BY <1>3, Zenon DEF Request, Goto
  <2>2. Turn(h)'
    BY <1>a, <2>1, Zenon DEF Turn
  <2> QED
    BY <1>a, <2>1, <2>2, TurnFrame, Zenon
\* A handler goes on that has no transaction to wait for.
<1>4. ASSUME NEW h \in Handlers, NEW l \in Labels \ (Waiting \union {"idle"}), Goto(h, l),
             pc[h] \in Labels \ (Waiting \union {"idle"}), UNCHANGED <<txs, tx, mine, tries, reply>>
      PROVE  TurnInv'
  <2>2. pc'[h] = l /\ GivenUp(h)' = GivenUp(h)
    BY <1>a, <1>4, Zenon DEF Goto, GivenUp
  <2>1. Turn(h)'
    BY <1>b, <1>4, <2>2, Zenon DEF Turn
  <2> QED
    BY <1>a, <1>4, <2>1, TurnFrame, Zenon DEF Goto
\* A handler goes on, or is done, once its transaction has been mined.
<1>5. ASSUME NEW h \in Handlers, pc[h] # "idle",
             pc[h] \in Waiting => Confirmed(h), UNCHANGED <<txs, tx, mine, tries>>,
             \/ (\E l \in Labels \ (Waiting \union {"idle"}) : Goto(h, l)) /\ UNCHANGED reply
             \/ Answer(h, "ok")
      PROVE  TurnInv'
  <2>1. \A i \in mine[h] : txs[i].status = "ok" \/ i \in GivenUp(h)
    BY <1>b, <1>5, Zenon DEF Turn, Confirmed, Sent
  <2>6. GivenUp(h)' = GivenUp(h)
    BY <1>5, Zenon DEF GivenUp
  <2>2. reply[h] # "ok"
    BY <1>b, <1>5, Zenon DEF Turn
  <2>3. \A g \in Handlers \ {h} : pc'[g] = pc[g] /\ reply'[g] = reply[g]
    BY <1>a, <1>5, Zenon DEF Answer, Goto
  <2>4. pc'[h] = "idle" \/ reply'[h] = reply[h]
    BY <1>a, <1>5, Zenon DEF Answer, Goto
  <2>5. Turn(h)'
    BY <1>5, <2>1, <2>2, <2>4, <2>6, Zenon DEF Turn
  <2> QED
    BY <1>5, <2>3, <2>5, TurnFrame, Zenon
<1>6. ASSUME NEW h \in Handlers, Begin(h) \/ GetDelegator(h)
      PROVE  TurnInv'
  BY <1>6, <1>c, <1>4, Zenon DEF Begin, GetDelegator
<1>7. ASSUME NEW h \in Handlers, pc[h] \in {"status", "claim"}, Claimed(h),
             UNCHANGED <<txs, tx, mine, tries>>
      PROVE  TurnInv'
  <2>1. \/ (\E l \in {"act", "send"} : Goto(h, l)) /\ UNCHANGED reply
        \/ Answer(h, "ok")
    BY <1>7, Returned, Zenon
  <2> QED
    BY <1>7, <1>c, <2>1, <1>5, Zenon
<1>8. ASSUME NEW h \in Handlers, DelegatorStatus(h)
      PROVE  TurnInv'
  BY <1>8, <1>c, <1>4, <1>7, Zenon DEF DelegatorStatus
<1>9. ASSUME NEW h \in Handlers, Claim(h)
      PROVE  TurnInv'
  <2>1. pc[h] = "claim" /\ UNCHANGED <<end, last, tries>>
    BY <1>9, Zenon DEF Claim
  <2>2. last[h] + MaxClaims \in Nat /\ end[h] \in Nat
    BY StakingAssumption, SMTT(60) DEF StakingAssumption, TypeOK
  <2>3. "claimEarnings" \in Ops \union {"approve"} /\ {"claiming",
  "claimingRest"} \subseteq Waiting
    BY Zenon DEF Ops, Waiting
  <2>4. CASE Transact(h, "claimEarnings", last[h] + MaxClaims,
  "claiming") /\ UNCHANGED <<todo, reply>>
    BY <1>c, <2>1, <2>2, <2>3, <2>4, TurnSends, Zenon
  <2>5. CASE Transact(h, "claimEarnings", end[h], "claimingRest") /\ UNCHANGED <<todo, reply>>
    BY <1>c, <2>1, <2>2, <2>3, <2>5, TurnSends, Zenon
  <2>6. CASE Claimed(h) /\ UNCHANGED <<txs, tx, mine, tries>>
    BY <2>1, <2>6, <1>7, Zenon
  <2> QED
    BY <1>9, <2>4, <2>5, <2>6, Zenon DEF Claim
<1>10. ASSUME NEW h \in Handlers, CheckClaim(h) \/ CheckRest(h) \/ CheckApprove(h)
       PROVE  TurnInv'
  <2>1. /\ pc[h] # "idle" /\ Confirmed(h) /\ UNCHANGED <<txs, tx, mine, tries>>
        /\ \/ (\E l \in {"claim", "send"} : Goto(h, l)) /\ UNCHANGED reply
           \/ Answer(h, "ok")
    BY <1>10, Zenon DEF CheckClaim, CheckRest, CheckApprove
  <2> QED
    BY <1>c, <1>5, <2>1, Zenon
<1>11. ASSUME NEW h \in Handlers, Allowance(h)
       PROVE  TurnInv'
  <2>1. pc[h] = "act" /\ UNCHANGED <<reply, tries>>
    BY <1>11, Zenon DEF Allowance
  <2>2. Now(h).arg \in Nat /\ "approving" \in Waiting
    BY <2>1, NowTyped, Zenon DEF Waiting
  <2>3. CASE Transact(h, "approve", Now(h).arg, "approving")
    BY <1>c, <2>1, <2>2, <2>3, TurnSends, Zenon
  <2>4. CASE Goto(h, "send") /\ UNCHANGED <<txs, tx, mine, tries>>
    BY <1>c, <1>4, <2>1, <2>4, Zenon
  <2> QED
    BY <1>11, <2>3, <2>4, Zenon DEF Allowance
<1>12. ASSUME NEW h \in Handlers, Send(h)
       PROVE  TurnInv'
  <2>1. pc[h] = "send" /\ UNCHANGED <<reply, tries>> /\ Transact(h, Now(h).op, Now(h).arg, "sent")
    BY <1>12, Zenon DEF Send
  <2>2. Now(h).arg \in Nat /\ Now(h).op \in Ops \union {"approve"} /\ "sent" \in Waiting
    BY <2>1, NowTyped, Zenon DEF Waiting
  <2> QED
    BY <1>c, <2>1, <2>2, TurnSends, Zenon
<1>13. ASSUME NEW h \in Handlers, CheckTx(h)
       PROVE  TurnInv'
  <2>1. /\ pc[h] # "idle" /\ Confirmed(h) /\ UNCHANGED <<txs, tx, mine, tries>>
        /\ \/ Goto(h, "call") /\ UNCHANGED reply
           \/ Answer(h, "ok")
    BY <1>13, Zenon DEF CheckTx
  <2> QED
    BY <1>c, <1>5, <2>1, Zenon
<1>14. ASSUME NEW h \in Handlers, CallFails(h) \/ CheckFails(h)
       PROVE  TurnInv'
  <2>1. pc[h] # "idle" /\ UNCHANGED txs /\ Fail(h)
    BY <1>14, <1>c, Zenon DEF CallFails, CheckFails
  <2>2. /\ UNCHANGED <<tx, mine>>
        /\ \A g \in Handlers \ {h} : /\ pc'[g] = pc[g] /\ reply'[g] = reply[g]
                                     /\ tries'[g] = tries[g]
    BY <1>a, <2>1, Failed, Zenon DEF Answer, Goto
  <2>3. CASE /\ Goto(h, "call") /\ UNCHANGED <<todo, reply>>
             /\ tries'[h] = Append(tries[h], GivesUp(h))
    <3>2. /\ \A i \in GivenUp(h) : i \in GivenUp(h)'
          /\ GivesUp(h) \in GivenUp(h)'
      <4> DEFINE n == Len(tries[h])
      <4>1. tries[h] \in Seq(Nat) /\ n \in Nat
        BY <1>a
      <4>2. GivesUp(h) \in Nat
        BY <1>a, SMT DEF GivesUp, TypeOK
      <4>3. /\ Len(tries'[h]) = n + 1 /\ tries'[h][n + 1] = GivesUp(h)
            /\ \A t \in 1 .. n : tries'[h][t] = tries[h][t] /\ t \in 1 .. n + 1
            /\ n + 1 \in 1 .. n + 1
        BY <2>3, <4>1, <4>2, SMT
      <4> QED
        BY <4>3, Zenon DEF GivenUp
    <3>3. \A i \in mine[h] : txs[i].status = "ok" \/ i \in GivenUp(h) \/ i = GivesUp(h)
      BY <1>b, <2>1, Zenon DEF Turn, GivesUp
    <3>4. reply'[h] # "ok"
      BY <1>b, <2>1, <2>3, Zenon DEF Turn
    <3>1. Turn(h)'
      BY <2>1, <2>2, <3>2, <3>3, <3>4, Zenon DEF Turn
    <3> QED
      BY <2>1, <2>2, <3>1, TurnFrame, Zenon
  <2>4. CASE Answer(h, "error") /\ UNCHANGED tries
    <3>1. pc'[h] = "idle" /\ reply'[h] = "error"
      BY <2>4, Answered, Zenon
    <3>2. Turn(h)'
      BY <1>b, <2>1, <2>2, <2>4, <3>1, Zenon DEF Turn, GivenUp
    <3> QED
      BY <2>1, <2>2, <3>2, TurnFrame, Zenon
  <2> QED
    BY <2>1, <2>3, <2>4, Failed, Zenon
<1>15. CASE UNCHANGED vars
  BY <1>15, Zenon DEF vars, handlerVars, TurnInv, Turn, GivenUp
<1> QED
  BY <1>1, <1>2, <1>3, <1>6, <1>8, <1>9, <1>10, <1>11, <1>12, <1>13, <1>14, <1>15, Zenon
     DEF Next, Step

-----------------------------------------------------------------------------
(* Theorems *)

\* The initial states satisfy the invariants.
LEMMA InitInv ==
    Init => TypeOK /\ StakingInv /\ TurnInv
<1> SUFFICES ASSUME Init
             PROVE  TypeOK /\ StakingInv /\ TurnInv
  BY Zenon
<1>1. TypeOK
  <2>1. "idle" \in Labels \ Waiting
    BY Zenon DEF Labels, Waiting
  <2>2. /\ txs = <<>> /\ Len(txs) = 0 /\ txs \in Seq(Tx) /\ locks \in Seq(Nat)
        /\ todo \in [Handlers -> Seq(Call)]
    BY DEF Init
  <2>3. /\ round \in 0 .. MaxRound /\ lastClaim \in 0 .. round
        /\ bonded \in Nat /\ allowance \in Nat
        /\ Len(txs) <= MaxTxs /\ asked \in 0 .. MaxRequests
    BY <2>2, StakingAssumption DEF StakingAssumption, Init
  <2>a. registered \in BOOLEAN
    BY Zenon DEF Init
  <2>4. /\ pc \in [Handlers -> Labels] /\ IdleHandlers
        /\ \A h \in Handlers : pc[h] \in Waiting => tx[h] # 0
    BY <2>1, Zenon DEF Init, IdleHandlers
  <2>5. /\ end \in [Handlers -> Nat] /\ last \in [Handlers -> Nat]
        /\ tx \in [Handlers -> 0 .. Len(txs)]
    BY <2>2, StakingAssumption DEF StakingAssumption, Init
  <2>7. <<>> \in Seq(Nat) /\ Len(<<>>) <= MaxRetries
    BY StakingAssumption, SMT DEF StakingAssumption
  <2>8. tries \in [Handlers -> Seq(Nat)] /\ \A h \in Handlers : Len(tries[h]) <= MaxRetries
    BY <2>7, Zenon DEF Init
  <2>6. /\ mine \in [Handlers -> SUBSET (1 .. Len(txs))]
        /\ reply \in [Handlers -> {"none", "ok", "error"}]
    BY Zenon DEF Init
  <2> QED
    BY <2>2, <2>3, <2>a, <2>4, <2>5, <2>6, <2>8, Zenon DEF TypeOK
<1>2. \A h \in Handlers : ClaimInv(h) /\ Turn(h)
  BY Zenon DEF Init, ClaimInv, Turn
<1>3. Len(txs) = 0
  BY Zenon DEF Init
<1>4. 1 .. Len(txs) = {}
  BY <1>3
<1> QED
  BY <1>1, <1>2, <1>4, Zenon DEF StakingInv, ClaimsFit, TurnInv

\* The state keeps its shape: a handler is idle exactly when it has no call left to
\* make, and CheckTx is only called with a transaction.
THEOREM StakingTypes == Spec => []TypeOK
<1>1. Init => TypeOK
  BY InitInv, Zenon
<1>2. TypeOK /\ [Next]_vars => TypeOK'
  BY TypeStep, Zenon
<1> QED
  BY <1>1, <1>2, PTL DEF Spec

\* autoClaimEarnings of any number of requests, however they interleave and whenever
\* their transactions are mined, never sends a claim of more rounds than
\* MaxEarningsClaimsRounds.
THEOREM ClaimsAlwaysFit == Spec => []ClaimsFit
<1>1. Init => TypeOK /\ StakingInv
  BY InitInv, Zenon
<1>2. TypeOK /\ StakingInv /\ [Next]_vars => (TypeOK /\ StakingInv)'
  BY TypeStep, StakingStep, Zenon
<1>3. StakingInv => ClaimsFit
  BY Zenon DEF StakingInv
<1> QED
  BY <1>1, <1>2, <1>3, PTL DEF Spec

\* When autoClaimEarnings returns to a bonding action, the rounds up to the one it has
\* read fit in one claim, and they still do when the action's transaction is sent.
THEOREM RestAlwaysFits == Spec => []RestFits
<1>1. Init => TypeOK /\ StakingInv
  BY InitInv, Zenon
<1>2. TypeOK /\ StakingInv /\ [Next]_vars => (TypeOK /\ StakingInv)'
  BY TypeStep, StakingStep, Zenon
<1>3. StakingInv => RestFits
  BY Zenon DEF StakingInv, ClaimInv, RestFits
<1> QED
  BY <1>1, <1>2, <1>3, PTL DEF Spec

\* A request's transactions are mined one after the other, none failed but perhaps the
\* last, and all of them have succeeded when the request is answered with success.  The
\* exception are those that failed attempts of /claimEarnings gave up.
THEOREM AlwaysMinedInTurn == Spec => []MinedInTurn
<1>1. Init => TypeOK /\ TurnInv
  BY InitInv, Zenon
<1>2. TypeOK /\ TurnInv /\ [Next]_vars => (TypeOK /\ TurnInv)'
  BY TypeStep, TurnStep, Zenon
<1>3. TurnInv => MinedInTurn
  BY Zenon DEF TurnInv, Turn, MinedInTurn
<1> QED
  BY <1>1, <1>2, <1>3, PTL DEF Spec
=============================================================================
