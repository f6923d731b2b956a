------------------------- MODULE OperatorNodeProofs --------------------------
(****************************************************************************)
(* Proofs about the node's process (NodeLife), its database (Database) and  *)
(* its calls of reward() (RewardService).                                   *)
(****************************************************************************)
EXTENDS OperatorNode, RewardCalls, Integers, Sequences, TLAPS

\* An element at the end of a sequence
LEMMA Appended ==
    ASSUME NEW T, NEW q \in Seq(T), NEW e \in T
    PROVE  /\ Append(q, e) \in Seq(T) /\ Len(Append(q, e)) = Len(q) + 1
           /\ Append(q, e)[Len(q) + 1] = e /\ \A i \in 1 .. Len(q) : Append(q, e)[i] = q[i]
OBVIOUS

\* A part of a sequence
LEMMA PartOfSequence ==
    ASSUME NEW T, NEW q, NEW m \in Int, NEW n \in Int, \A i \in m .. n : q[i] \in T
    PROVE  /\ SubSeq(q, m, n) \in Seq(T) /\ Len(SubSeq(q, m, n)) = IF m <= n THEN n - m + 1 ELSE 0
           /\ \A i \in 1 .. n - m + 1 : SubSeq(q, m, n)[i] = q[m + i - 1]
OBVIOUS

-----------------------------------------------------------------------------
(* NodeLife *)

Watching == {"none", "select", "resubscribe", "ended"}

-----------------------------------------------------------------------------
(* Blocks are recorded after the replay *)

\* MayStart has BlockService wait for UnbondingService, which is created with it; its
\* watcher runs only once it was started.
ReplayInv ==
    /\ watch \in [N!Watchers -> Watching]
    /\ "BlockService" \in services => "UnbondingService" \in services
    /\ "UnbondingService" \in started => replayed
    /\ watch["BlockService"] # "none" => replayed
    /\ N!BlocksAfterReplay

\* The start of a service: of BlockService only when the replay is done.
LEMMA StartKeepsReplay ==
    ASSUME ReplayInv, NEW s \in services, N!StartService(s)
    PROVE  ReplayInv'
<1>1. "UnbondingService" \in started' => replayed'
  BY Zenon DEF N!StartService, ReplayInv
<1>2. replayed => replayed'
  BY Zenon DEF N!StartService
<1>3. s = "BlockService" => replayed'
  BY <1>1, Zenon DEF N!StartService, N!MayStart, ReplayInv
<1>4. watch' \in [N!Watchers -> Watching] /\ (watch'["BlockService"] # "none" => replayed')
  <2>1. CASE UNCHANGED N!watchVars
    BY <2>1, <1>2, Zenon DEF N!watchVars, ReplayInv
  <2>2. CASE N!SubscribeNewBlock(s)
    BY <2>2, <1>2, <1>3, ZenonT(30) DEF N!SubscribeNewBlock, ReplayInv, N!Watchers, Watching
  <2> QED
    BY <2>1, <2>2, Zenon DEF N!StartService
<1> QED
  BY <1>1, <1>2, <1>4, Zenon DEF N!StartService, ReplayInv, N!BlocksAfterReplay

\* Every step keeps it.
LEMMA ReplayStep ==
    ASSUME ReplayInv, [N!Next]_N!vars
    PROVE  ReplayInv'
<1> USE DEF ReplayInv, N!BlocksAfterReplay
<1>1. ASSUME NEW s \in services, N!StartService(s) PROVE ReplayInv'
  BY <1>1, StartKeepsReplay, Zenon
<1>2. CASE N!SetupEth
  BY <1>2, Zenon DEF N!SetupEth, N!watchVars
<1>3. CASE N!setupOrchestrator
  BY <1>3, Zenon DEF N!setupOrchestrator, N!watchVars
<1>4. CASE N!ParseFlags \/ N!InitDB \/ N!NodeType \/ N!RunTranscoder \/ N!SetupRecipient \/ N!StartEthServices
           \/ N!SetupStorage \/ N!SetupAddress
  BY <1>4, Zenon
     DEF N!ParseFlags, N!InitDB, N!NodeType, N!RunTranscoder, N!SetupRecipient, N!StartEthServices,
              N!SetupStorage, N!SetupAddress, N!serviceVars, N!watchVars
<1>5. CASE N!Serve \/ N!Notify \/ N!Select \/ N!RunDeferred \/ N!Exit \/ N!Interrupt
  BY <1>5, Zenon
     DEF N!Serve, N!Notify, N!Select, N!RunDeferred, N!Exit, N!Interrupt, N!serviceVars, N!watchVars
<1>6. ASSUME NEW s \in toStop, N!StopService(s) PROVE ReplayInv'
  BY <1>6, Zenon DEF N!StopService, N!StopReward, N!CloseHeaders, N!Unsubscribe
<1>7. CASE N!NewHead
  BY <1>7, Zenon DEF N!NewHead, N!serviceVars
<1>8. ASSUME NEW w \in N!Watchers, N!SubErr(w) PROVE ReplayInv'
  BY <1>8, Zenon DEF N!SubErr, N!serviceVars
<1>9. ASSUME NEW w \in N!Watchers, N!watchBlocks(w) PROVE ReplayInv'
  <2>1. UNCHANGED N!serviceVars /\ watch[w] = "select"
    BY <1>9, Zenon DEF N!watchBlocks
  <2>2. PICK to \in Watching : watch' = [watch EXCEPT ![w] = to]
    BY <1>9, Zenon DEF N!watchBlocks, Watching
  <2>3. lastSeen' # lastSeen => w = "BlockService"
    BY <1>9, Zenon DEF N!watchBlocks, N!SetLastSeenBlock
  <2>4. w = "BlockService" => replayed
    BY <2>1, Zenon
  <2> QED
    BY <2>1, <2>2, <2>3, <2>4, Zenon DEF N!serviceVars, N!Watchers
<1>10. ASSUME NEW w \in N!Watchers, N!Resubscribe(w) PROVE ReplayInv'
  BY <1>10, Zenon
     DEF N!Resubscribe, N!SubscribeNewBlock, N!serviceVars, N!watchVars, N!Watchers, Watching
<1>11. CASE N!StartMediaServer \/ N!StartWebserver \/ N!StartTranscodeServer \/ N!CheckOrchestratorAvailability
  BY <1>11, Zenon
     DEF N!StartMediaServer, N!StartWebserver, N!StartTranscodeServer,
         N!CheckOrchestratorAvailability,
               N!serviceVars, N!watchVars
<1>12. CASE UNCHANGED N!vars
  BY <1>12, Zenon DEF N!vars, N!serviceVars, N!watchVars
<1> QED
  BY <1>1, <1>2, <1>3, <1>4, <1>5, <1>6, <1>7, <1>8, <1>9, <1>10, <1>11, <1>12, Zenon
     DEF N!Next, N!Main

\* StartEthServices: whatever order the map of services is walked in, and whenever headers
\* come and subscriptions fail, no block is recorded as seen before UnbondingService has
\* read from where to replay.
THEOREM BlocksAlwaysAfterReplay == N!Spec => []BlocksAfterReplay
<1>1. N!Init => ReplayInv
  BY Zenon DEF N!Init, ReplayInv, N!BlocksAfterReplay, N!Watchers, Watching
<1>2. ReplayInv /\ [N!Next]_N!vars => ReplayInv'
  BY ReplayStep, Zenon
<1>3. ReplayInv => BlocksAfterReplay
  BY Zenon DEF ReplayInv, BlocksAfterReplay
<1> QED
  BY <1>1, <1>2, <1>3, PTL DEF N!Spec

-----------------------------------------------------------------------------
(* The deferred calls *)

Calls == {"close", "stop", "cancel"}

StopDeferred == Len(defers) \in {2, 3} /\ defers[2] = "stop"

\* The calls deferred: that which closes the database, then, in a node that follows
\* Ethereum, that which stops the services, then that which cancels the context.
Deferred ==
    /\ defers \in Seq(Calls) /\ Len(defers) \in 0 .. 3
    /\ Len(defers) > 0 => defers[1] = "close"
    /\ Len(defers) = 3 => defers[2] = "stop"
    /\ Len(defers) > 1 => defers[2] # "close"
    /\ Len(defers) = 3 => defers[3] = "cancel"

\* main defers the call that closes the database as soon as that is open, and the one that
\* stops the services before it creates any: so the first is the last to run.
ReturnInv ==
    /\ Deferred
    /\ dbOpen \in BOOLEAN /\ stopped \in BOOLEAN /\ (dbOpen <=> Len(defers) > 0)
    /\ mainPc \in {"flags", "db"} => Len(defers) = 0 /\ started = {}
    /\ mainPc \in {"type", "standalone", "eth"} => Len(defers) = 1 /\ started = {}
    /\ mainPc \in {"setup", "recipient", "start"} => Len(defers) = 2 /\ StopDeferred
    /\ mainPc \in {"storage", "address", "serve"} => Len(defers) = 1 \/ (Len(defers) = 2 /\ StopDeferred)
    /\ mainPc = "stopping" => Len(defers) = 1
    /\ started # {} => stopped \/ mainPc = "stopping" \/ StopDeferred
    /\ exit = "return" => Len(defers) = 0

\* How the list of deferred calls grows
LEMMA Grows ==
    ASSUME NEW d \in Seq(Calls), NEW c \in Calls
    PROVE  /\ Append(d, c) \in Seq(Calls) /\ Len(Append(d, c)) = Len(d) + 1
           /\ \A i \in 1 .. Len(d) : Append(d, c)[i] = d[i]
           /\ Append(d, c)[Len(d) + 1] = c
BY Appended

\* and shrinks
LEMMA Shrinks ==
    ASSUME NEW d \in Seq(Calls), d # <<>>
    PROVE  /\ SubSeq(d, 1, Len(d) - 1) \in Seq(Calls) /\ Len(SubSeq(d, 1, Len(d) - 1)) = Len(d) - 1 /\ Len(d) > 0
           /\ \A i \in 1 .. Len(d) - 1 : SubSeq(d, 1, Len(d) - 1)[i] = d[i]
<1>0. Len(d) \in Nat \ {0}
  OBVIOUS
<1>1. Len(d) \in Nat /\ Len(d) > 0 /\ \A i \in 1 .. Len(d) : d[i] \in Calls
  BY <1>0
<1> DEFINE n == Len(d) - 1
<1>2. n \in Int /\ 1 \in Int /\ (\A i \in 1 .. n : d[i] \in Calls) /\ n - 1 + 1 = n /\ n >= 0
  BY <1>1
<1> HIDE DEF n
<1>3. /\ SubSeq(d, 1, n) \in Seq(Calls)
      /\ Len(SubSeq(d, 1, n)) = IF 1 <= n THEN n - 1 + 1 ELSE 0
      /\ \A i \in 1 .. n - 1 + 1 : SubSeq(d, 1, n)[i] = d[1 + i - 1]
  BY <1>2, PartOfSequence
<1>4. Len(SubSeq(d, 1, n)) = n /\ \A i \in 1 .. n : SubSeq(d, 1, n)[i] = d[i]
  BY <1>2, <1>3
<1> QED
  BY <1>1, <1>3, <1>4, Zenon DEF n

\* Steps that neither defer a call nor run one
LEMMA MainElsewhere ==
    ASSUME ReturnInv, UNCHANGED <<defers, dbOpen, stopped>>, mainPc' = mainPc, exit' # "return" \/ exit' = exit,
           started' = started
    PROVE  ReturnInv'
BY Zenon DEF ReturnInv, Deferred, StopDeferred

\* The steps of main up to the deferred calls
LEMMA SetUp ==
    ASSUME ReturnInv,
           \/ N!ParseFlags \/ N!InitDB \/ N!NodeType \/ N!RunTranscoder \/ N!SetupEth \/ N!setupOrchestrator
           \/ N!SetupRecipient \/ (\E s \in services : N!StartService(s)) \/ N!StartEthServices
           \/ N!SetupStorage \/ N!SetupAddress \/ N!Serve \/ N!Notify \/ N!Select
    PROVE  ReturnInv'
<1> USE DEF ReturnInv, Deferred, StopDeferred, N!Running, N!Step, N!Return, N!Fatal, N!End, N!Defer
<1>1. CASE N!ParseFlags
  BY <1>1, Zenon DEF N!ParseFlags, N!serviceVars
<1>2. CASE N!InitDB
  <2>1. CASE N!Return("db") /\ UNCHANGED <<dbOpen, defers>>
    BY <1>2, <2>1, Zenon DEF N!InitDB, N!serviceVars
  <2>2. CASE N!Step("db", "type") /\ dbOpen' = TRUE /\ N!Defer("close")
    <3>1. defers' \in Seq(Calls) /\ Len(defers') = 1 /\ defers'[1] = "close"
      BY <2>2, Grows DEF Calls
    <3> QED
      BY <1>2, <2>2, <3>1 DEF N!InitDB, N!serviceVars
  <2> QED
    BY <1>2, <2>1, <2>2, ZenonT(30) DEF N!InitDB
<1>3. CASE N!NodeType \/ N!RunTranscoder
  BY <1>3 DEF N!NodeType, N!RunTranscoder, N!serviceVars
<1>4. CASE N!SetupEth
  <2>1. CASE N!Return("eth") /\ UNCHANGED defers
    BY <1>4, <2>1, Zenon DEF N!SetupEth
  <2>2. CASE N!Step("eth", IF opts.type = "orchestrator" THEN "setup" ELSE "start") /\ N!Defer("stop")
    <3>1. defers' \in Seq(Calls) /\ Len(defers') = 2 /\ defers'[1] = "close" /\ defers'[2] = "stop"
      <4>1. Len(defers) = 1 /\ defers[1] = "close" /\ defers' = Append(defers, "stop")
        BY <2>2
      <4>2. defers \in Seq(Calls) /\ "stop" \in Calls
        BY Zenon DEF Calls
      <4> HIDE DEF ReturnInv, Deferred, StopDeferred
      <4>3. /\ Append(defers, "stop") \in Seq(Calls) /\ Len(Append(defers, "stop")) = Len(defers) + 1
            /\ \A i \in 1 .. Len(defers) : Append(defers, "stop")[i] = defers[i]
            /\ Append(defers, "stop")[Len(defers) + 1] = "stop"
        BY <4>2, Grows, Zenon
      <4> QED
        BY <4>1, <4>3
    <3> QED
      BY <1>4, <2>2, <3>1 DEF N!SetupEth
  <2> QED
    BY <1>4, <2>1, <2>2, Zenon DEF N!SetupEth
<1>5. CASE N!setupOrchestrator \/ N!SetupRecipient
  BY <1>5 DEF N!setupOrchestrator, N!SetupRecipient, N!serviceVars
<1>6. CASE \E s \in services : N!StartService(s)
  BY <1>6, SMTT(30) DEF N!StartService
<1>7. CASE N!StartEthServices \/ N!SetupStorage
  BY <1>7 DEF N!StartEthServices, N!SetupStorage, N!serviceVars
<1>8. CASE N!SetupAddress
  BY <1>8, Zenon DEF N!SetupAddress, N!getAuthWebhookURL, N!getServiceURI, N!serviceVars
<1>9. CASE N!Serve
  <2>1. Append(defers, "cancel") \in Seq(Calls) /\ Len(Append(defers, "cancel")) = Len(defers) + 1
    BY Grows, Zenon DEF Calls
  <2>2. \A i \in 1 .. Len(defers) : defers'[i] = defers[i]
    BY <1>9, Grows, Zenon DEF N!Serve, Calls
  <2>3. defers'[Len(defers) + 1] = "cancel"
    BY <1>9, Grows, Zenon DEF N!Serve, Calls
  <2> QED
    BY <1>9, <2>1, <2>2, <2>3 DEF N!Serve, N!serviceVars
<1>10. CASE N!Notify \/ N!Select
  BY <1>10 DEF N!Notify, N!Select, N!serviceVars
<1> QED
  BY <1>1, <1>2, <1>3, <1>4, <1>5, <1>6, <1>7, <1>8, <1>9, <1>10, ZenonT(30)

\* The deferred calls themselves
LEMMA Deferring ==
    ASSUME ReturnInv, N!RunDeferred
    PROVE  ReturnInv'
<1>1. defers \in Seq(Calls) /\ defers # <<>> /\ mainPc = "defers" /\ N!Running
  BY Zenon DEF N!RunDeferred, ReturnInv, Deferred
<1> PICK n : n = Len(defers)
  BY Zenon
<1>2. /\ defers' \in Seq(Calls) /\ Len(defers') = n - 1 /\ n > 0
      /\ \A i \in 1 .. n - 1 : defers'[i] = defers[i]
      /\ N!LastDeferred = defers[n]
  BY <1>1, Shrinks, Zenon DEF N!RunDeferred, N!LastDeferred
<1>3. /\ n \in 0 .. 3 /\ defers[1] = "close"
      /\ n = 3 => defers[2] = "stop" /\ defers[3] = "cancel"
      /\ n > 1 => defers[2] # "close"
  BY <1>2, Zenon DEF ReturnInv, Deferred
<1>4. Len(defers') = n - 1 /\ (n > 1 => defers'[1] = defers[1]) /\ (n > 2 => defers'[2] = defers[2])
  BY <1>2, <1>3
<1>5. Len(defers)' = n - 1 /\ n > 0 /\ N!LastDeferred = defers[n]
  BY <1>2, Zenon
<1>6. Deferred'
  BY <1>2, <1>3, <1>4 DEF Deferred
<1>7. CASE N!LastDeferred = "cancel"
  <2>0. n > 1
    <3>1. defers[n] = "cancel"
      BY <1>5, <1>7, Zenon
    <3>2. n # 1
      BY <1>3, <3>1, Zenon
    <3> QED
      BY <1>3, <1>5, <3>2
  <2>1. UNCHANGED <<mainPc, dbOpen, stopped, started, exit>>
    BY <1>7, Zenon DEF N!RunDeferred
  <2>2. StopDeferred => StopDeferred'
    <3>1. defers[n] = "cancel"
      BY <1>5, <1>7, Zenon
    <3>2. StopDeferred => n = 3
      BY <1>3, <3>1, Zenon DEF StopDeferred
    <3> QED
      BY <1>4, <3>2 DEF StopDeferred
  <2> QED
    BY <1>1, <1>5, <1>6, <2>0, <2>1, <2>2 DEF ReturnInv, N!Running
<1>8. CASE N!LastDeferred = "stop"
  <2>0. n = 2
    <3>1. defers[n] = "stop"
      BY <1>5, <1>8, Zenon
    <3>2. n # 1 /\ n # 3
      BY <1>3, <3>1, Zenon
    <3> QED
      BY <1>3, <1>5, <3>2
  <2>1. mainPc' = "stopping" /\ UNCHANGED <<dbOpen, stopped, started, exit>>
    BY <1>8, Zenon DEF N!RunDeferred
  <2> QED
    BY <1>1, <1>5, <1>6, <2>0, <2>1 DEF ReturnInv, N!Running
<1>9. CASE N!LastDeferred = "close"
  <2>0. n = 1
    <3>1. defers[n] = "close"
      BY <1>5, <1>9, Zenon
    <3>2. n # 2 /\ n # 3
      BY <1>3, <3>1
    <3> QED
      BY <1>3, <1>5, <3>2
  <2>1. dbOpen' = FALSE /\ UNCHANGED <<mainPc, stopped, started, exit>>
    BY <1>9, Zenon DEF N!RunDeferred
  <2>2. ~dbOpen' /\ dbOpen' \in BOOLEAN
    BY <2>1, Zenon
  <2>3. UNCHANGED <<mainPc, stopped, started, exit>>
    BY <2>1, Zenon
  <2>4. ~StopDeferred
    BY <2>0 DEF StopDeferred
  <2>5. Len(defers)' = 0
    BY <1>5, <2>0
  <2> QED
    BY <1>1, <1>6, <2>2, <2>3, <2>4, <2>5 DEF ReturnInv, N!Running
<1> QED
  BY <1>7, <1>8, <1>9, Zenon DEF N!RunDeferred

\* Every step keeps ReturnInv.
LEMMA ReturnStep ==
    ASSUME ReturnInv, [N!Next]_N!vars
    PROVE  ReturnInv'
<1>1. CASE N!RunDeferred
  BY <1>1, Deferring, Zenon
<1>2. ASSUME NEW s \in toStop, N!StopService(s) PROVE ReturnInv'
  <2>1. CASE N!StopFails(s) /\ stopped' = TRUE /\ mainPc' = "defers" /\ UNCHANGED <<exit, started>>
    BY <1>2, <2>1, Zenon DEF N!StopService, ReturnInv, Deferred, StopDeferred
  <2>2. CASE N!StopReward(s) \/ N!CloseHeaders(s) \/ N!Unsubscribe(s)
    BY <1>2, <2>2, Zenon
       DEF N!StopService, N!StopReward, N!CloseHeaders, N!Unsubscribe, N!End, N!Running, ReturnInv,
                      Deferred, StopDeferred
  <2> QED
    BY <1>2, <2>1, <2>2, Zenon DEF N!StopService
<1>3. CASE N!Exit
  <2>1. defers = <<>> /\ UNCHANGED <<defers, dbOpen, stopped, started, mainPc>>
    BY <1>3, Zenon DEF N!Exit, N!End, N!serviceVars
  <2> QED
    BY <2>1, Zenon DEF ReturnInv, Deferred, StopDeferred
<1>4. CASE N!Interrupt
  BY <1>4, Zenon
     DEF N!Interrupt, N!Return, N!Step, N!End, N!Running, N!serviceVars, ReturnInv, Deferred,
         StopDeferred
<1>5. CASE N!NewHead \/ \E w \in N!Watchers : N!SubErr(w) \/ N!watchBlocks(w) \/ N!Resubscribe(w)
  BY <1>5, MainElsewhere, Zenon
     DEF N!NewHead, N!SubErr, N!watchBlocks, N!Resubscribe, N!End, N!serviceVars, N!mainVars
<1>6. CASE N!StartMediaServer \/ N!StartWebserver \/ N!StartTranscodeServer \/ N!CheckOrchestratorAvailability
  BY <1>6, MainElsewhere, Zenon DEF N!StartMediaServer, N!StartWebserver, N!StartTranscodeServer,
                         N!CheckOrchestratorAvailability, N!serviceVars, N!mainVars
<1>7. CASE UNCHANGED N!vars
  BY <1>7, MainElsewhere, Zenon DEF N!vars, N!serviceVars, N!mainVars
<1> QED
  BY <1>1, <1>2, <1>3, <1>4, <1>5, <1>6, <1>7, SetUp, Zenon DEF N!Next, N!Main

\* main: from whichever step it returns, the database is closed by then, and it was not
\* closed before StopEthServices was called for the services that had been started.
THEOREM AlwaysCleanReturn == N!Spec => []CleanReturn
<1>1. N!Init => ReturnInv
  <2>1. <<>> \in Seq(Calls) /\ Len(<<>>) = 0
    OBVIOUS
  <2> SUFFICES ASSUME N!Init PROVE ReturnInv
    BY Zenon
  <2>2. defers \in Seq(Calls) /\ Len(defers) = 0
    BY <2>1, Zenon DEF N!Init
  <2>3. Deferred
    BY <2>2 DEF Deferred
  <2>4. ~dbOpen /\ dbOpen \in BOOLEAN /\ stopped \in BOOLEAN
    BY Zenon DEF N!Init
  <2>5. mainPc = "flags" /\ started = {} /\ exit = "none"
    BY Zenon DEF N!Init
  <2> QED
    BY <2>2, <2>3, <2>4, <2>5 DEF ReturnInv
<1>2. ReturnInv /\ [N!Next]_N!vars => ReturnInv'
  BY ReturnStep, Zenon
<1>3. ReturnInv => CleanReturn
  BY DEF ReturnInv, CleanReturn, N!CleanReturn, Deferred, StopDeferred
<1> QED
  BY <1>1, <1>2, <1>3, PTL DEF N!Spec

-----------------------------------------------------------------------------
(* Database *)

AnyRow == Tickets \union Locks \union {"orch"}

File == [version : Versions \union {LivepeerDBVersion}, lastBlock : 0 .. 1, orchs : SUBSET {"orch"},
         locks : SUBSET Locks, used : SUBSET Locks, tickets : SUBSET Tickets]

QueryNames == {"idle", "tickets", "orchs", "locks"}
Places == {"idle", "rows", "answer", "error"}
DbOp == [name : QueryNames, at : Places, rows : SUBSET AnyRow, got : SUBSET AnyRow,
       before : SUBSET Tickets]

\* Shapes that the steps of a goroutine rely on.
DbShapes ==
    /\ disk \in File /\ stored \subseteq Tickets
    /\ dbOp \in [Goroutines -> DbOp]
    /\ dbConn \in Goroutines \union {B!Nobody}

\* What is open is held by a field, until a failed start has closed it.
OpenHeld == open \subseteq fields /\ (dbPc = "down" => open = {})

\* The database and the first n statements
Prepared(n) == {"dbh"} \union {B!Statements[i] : i \in 1 .. n}

\* How far InitDB has come, and that the file's version is accepted by then.
StartInv ==
    /\ dbPc \in {"schema", "version"} => open = Prepared(0)
    /\ dbPc = "prepare" => open = fields /\ \E n \in 0 .. 7 : fields = Prepared(n)
    /\ dbPc = "up" => open = Prepared(8)
    /\ dbPc \in {"schema", "version"} => fields = Prepared(0)
    /\ dbPc \in {"prepare", "up"} => disk.version <= LivepeerDBVersion

DbInv == DbShapes /\ B!ConnectionFreed /\ OpenHeld /\ B!FailureClosesAll

LEMMA IdleIsDbOp == B!Idle \in DbOp
BY Zenon DEF B!Idle, DbOp, QueryNames, Places

LEMMA DbInit == B!Init => DbInv
<1> SUFFICES ASSUME B!Init PROVE DbInv
  BY Zenon
<1>1. DbShapes
  BY IdleIsDbOp, SMT DEF B!Init, DbShapes, File
<1>2. B!ConnectionFreed /\ OpenHeld /\ B!FailureClosesAll
  BY Zenon DEF B!Init, B!ConnectionFreed, OpenHeld, B!FailureClosesAll, B!Nobody
<1> QED
  BY <1>1, <1>2, Zenon DEF DbInv

\* InitDB and the end of the process: nobody has the connection while the database is
\* not in use.
LEMMA StartsAndStops ==
    ASSUME DbInv, B!Open \/ B!Schema \/ B!CheckVersion \/ B!Prepare \/ B!GiveUp \/ B!Stop
    PROVE  DbInv'
<1> USE DEF DbInv
<1>1. CASE B!Open
  BY <1>1, Zenon DEF B!Open, DbShapes, B!ConnectionFreed, OpenHeld, B!FailureClosesAll
<1>2. CASE B!Schema
  <2>1. B!schema(disk) \in File
    BY SMT DEF DbShapes, B!schema, File
  <2> QED
    BY <1>2, <2>1, Zenon
       DEF B!Schema, B!Fail, B!Close, DbShapes, B!ConnectionFreed, OpenHeld, B!FailureClosesAll
<1>3. CASE B!CheckVersion
  BY <1>3, Zenon
     DEF B!CheckVersion, B!Fail, B!Close, DbShapes, B!ConnectionFreed, OpenHeld, B!FailureClosesAll
<1>4. CASE B!Prepare
  <2>1. CASE B!Fail
    BY <1>4, <2>1, Zenon
       DEF B!Prepare, B!Fail, B!Close, DbShapes, B!ConnectionFreed, OpenHeld, B!FailureClosesAll
  <2>2. ASSUME NEW s, fields' = fields \union {s}, open' = open \union {s}, dbPc' \in {"up", dbPc}
        PROVE  DbInv'
    BY <1>4, <2>2, Zenon DEF B!Prepare, DbShapes, B!ConnectionFreed, OpenHeld, B!FailureClosesAll
  <2> QED
    BY <1>4, <2>1, <2>2, Zenon DEF B!Prepare
<1>5. CASE B!GiveUp
  BY <1>5, Zenon DEF B!GiveUp, DbShapes, B!ConnectionFreed, OpenHeld, B!FailureClosesAll
<1>6. CASE B!Stop
  BY <1>6, IdleIsDbOp, Zenon
     DEF B!Stop, DbShapes, B!ConnectionFreed, OpenHeld, B!FailureClosesAll, B!Nobody
<1> QED
  BY <1>1, <1>2, <1>3, <1>4, <1>5, <1>6, Zenon

\* Exec: the connection is free again when a write returns, and the file keeps its shape.
LEMMA Writes ==
    ASSUME DbInv, NEW g \in Goroutines,
           \/ B!SetLastSeenBlock(g) \/ B!LastSeenBlock(g) \/ B!UpdateOrch(g) \/ B!InsertUnbondingLock(g)
           \/ B!UseUnbondingLock(g) \/ B!StoreWinningTicket(g)
    PROVE  DbInv'
<1>1. ASSUME NEW f \in File, B!Exec(g, f), stored' \subseteq Tickets PROVE DbInv'
  BY <1>1, Zenon
     DEF B!Exec, B!MayBegin, DbInv, DbShapes, B!ConnectionFreed, OpenHeld, B!FailureClosesAll
<1>2. disk \in File /\ stored \subseteq Tickets
  BY Zenon DEF DbInv, DbShapes
<1>3. CASE B!SetLastSeenBlock(g)
  <2>1. [disk EXCEPT !.lastBlock = 1 - @] \in File
    BY <1>2, SMT DEF File
  <2> QED
    BY <1>1, <1>2, <1>3, <2>1, Zenon DEF B!SetLastSeenBlock
<1>4. CASE B!UpdateOrch(g)
  <2>1. [disk EXCEPT !.orchs = {"orch"}] \in File
    BY <1>2, Zenon DEF File
  <2> QED
    BY <1>1, <1>2, <1>4, <2>1, Zenon DEF B!UpdateOrch
<1>5. CASE B!InsertUnbondingLock(g)
  <2>1. PICK l \in Locks : B!Exec(g, [disk EXCEPT !.locks = @ \union {l}]) /\ UNCHANGED stored
    BY <1>5, Zenon DEF B!InsertUnbondingLock
  <2>2. [disk EXCEPT !.locks = @ \union {l}] \in File
    BY <1>2, Zenon DEF File
  <2> QED
    BY <1>1, <1>2, <2>1, <2>2, Zenon
<1>6. CASE B!UseUnbondingLock(g)
  <2>1. PICK l \in disk.locks : B!Exec(g, [disk EXCEPT !.used = @ \union {l}]) /\ UNCHANGED stored
    BY <1>6, Zenon DEF B!UseUnbondingLock
  <2>2. [disk EXCEPT !.used = @ \union {l}] \in File
    BY <1>2, Zenon DEF File
  <2> QED
    BY <1>1, <1>2, <2>1, <2>2, Zenon
<1>7. CASE B!StoreWinningTicket(g)
  <2>1. PICK t \in Tickets \ disk.tickets :
            /\ B!Exec(g, [disk EXCEPT !.tickets = @ \union {t}])
            /\ stored' = IF disk' # disk THEN stored \union {t} ELSE stored
    BY <1>7, Zenon DEF B!StoreWinningTicket
  <2>2. [disk EXCEPT !.tickets = @ \union {t}] \in File
    BY <1>2, Zenon DEF File
  <2>3. stored' \subseteq Tickets
    BY <1>2, <2>1, Zenon
  <2> QED
    BY <1>1, <2>1, <2>2, <2>3, Zenon
<1>8. CASE B!LastSeenBlock(g)
  BY <1>1, <1>2, <1>8, Zenon DEF B!LastSeenBlock
<1> QED
  BY <1>3, <1>4, <1>5, <1>6, <1>7, <1>8, Zenon

\* A query takes the connection, which is free, or does not begin.
LEMMA Queries ==
    ASSUME DbInv, NEW g \in Goroutines,
           \/ B!LoadWinningTickets(g) \/ B!SelectOrchs(g) \/ B!UnbondingLockIDs(g) \/ B!UnbondingLocks(g)
    PROVE  DbInv'
<1>1. ASSUME NEW name \in QueryNames, NEW rows \in SUBSET AnyRow, B!Query(g, name, rows) PROVE DbInv'
  <2>1. [name |-> name, at |-> "rows", rows |-> rows, got |-> {}, before |-> stored] \in DbOp
    BY Zenon DEF DbInv, DbShapes, DbOp, Places
  <2>2. dbOp' \in [Goroutines -> DbOp] /\ dbOp'[g].at = "rows"
    BY <1>1, <2>1, Zenon DEF B!Query, DbInv, DbShapes
  <2> QED
    BY <1>1, <2>2, Zenon
       DEF B!Query, B!MayBegin, DbInv, DbShapes, B!ConnectionFreed, OpenHeld, B!FailureClosesAll
<1>2. ASSUME NEW name \in QueryNames, B!QueryFails(g, name) PROVE DbInv'
  <2>1. [B!Idle EXCEPT !.name = name, !.at = "error"] \in DbOp
    <3>1. [B!Idle EXCEPT !.name = name] \in DbOp
      BY IdleIsDbOp, Zenon DEF DbOp
    <3> QED
      BY <3>1, ZenonT(30) DEF DbOp, Places
  <2> QED
    BY <1>2, <2>1, Zenon
       DEF B!QueryFails, B!MayBegin, DbInv, DbShapes, B!ConnectionFreed, OpenHeld,
           B!FailureClosesAll
<1>3. ASSUME B!QueryPanics(g) PROVE DbInv'
  BY <1>3, Zenon
     DEF B!QueryPanics, B!MayBegin, DbInv, DbShapes, B!ConnectionFreed, OpenHeld, B!FailureClosesAll
<1>4. /\ disk.tickets \in SUBSET AnyRow /\ disk.orchs \in SUBSET AnyRow
      /\ disk.locks \in SUBSET AnyRow
  BY Zenon DEF DbInv, DbShapes, File, AnyRow
<1>5. CASE B!LoadWinningTickets(g)
  BY <1>1, <1>3, <1>4, <1>5, ZenonT(30) DEF B!LoadWinningTickets, QueryNames
<1>6. CASE B!SelectOrchs(g)
  BY <1>1, <1>3, <1>4, <1>6, ZenonT(30) DEF B!SelectOrchs, QueryNames
<1>7. CASE B!UnbondingLockIDs(g)
  BY <1>1, <1>2, <1>4, <1>7, ZenonT(30) DEF B!UnbondingLockIDs, QueryNames
<1>8. CASE B!UnbondingLocks(g)
  BY <1>1, <1>2, <1>4, <1>8, ZenonT(30) DEF B!UnbondingLocks, QueryNames
<1> QED
  BY <1>5, <1>6, <1>7, <1>8, Zenon

\* Rows: the one who reads goes on reading, or gives the connection back.
LEMMA Reads ==
    ASSUME DbInv, NEW g \in Goroutines, B!Rows(g) \/ B!Took(g)
    PROVE  DbInv'
<1> USE DEF DbInv, DbShapes
<1>1. ASSUME B!Rows(g), NEW r \in dbOp[g].rows, B!Row(g, r) PROVE DbInv'
  <2>1. [dbOp[g] EXCEPT !.rows = @ \ {r}, !.got = @ \union {r}] \in DbOp
    <3>1. dbOp[g] \in DbOp
      BY Zenon
    <3>2. [dbOp[g] EXCEPT !.rows = @ \ {r}] \in DbOp
      BY <3>1, Zenon DEF DbOp
    <3>3. r \in AnyRow
      BY <1>1, <3>1, Zenon DEF DbOp
    <3> QED
      BY <3>2, <3>3, Zenon DEF DbOp
  <2>2. dbOp' = [dbOp EXCEPT ![g] = [dbOp[g] EXCEPT !.rows = @ \ {r}, !.got = @ \union {r}]]
    BY <1>1, Zenon DEF B!Row
  <2>3. dbOp' \in [Goroutines -> DbOp] /\ \A h \in Goroutines : dbOp'[h].at = dbOp[h].at
    BY <2>1, <2>2, Zenon DEF DbOp
  <2>4. UNCHANGED <<disk, dbPc, fields, open, dbConn, stored>>
    BY <1>1, Zenon DEF B!Rows, B!Row
  <2> QED
    BY <2>3, <2>4, Zenon DEF B!ConnectionFreed, OpenHeld, B!FailureClosesAll
<1>2. ASSUME B!Rows(g), NEW at \in Places, B!Return(g, at) PROVE DbInv'
  BY <1>2, SMTT(30) DEF B!Rows, B!Return, DbOp, B!ConnectionFreed, OpenHeld, B!FailureClosesAll
<1>3. ASSUME B!Rows(g), NEW r \in dbOp[g].rows, B!ScanFails(g, r) PROVE DbInv'
  <2>1. CASE dbOp[g].name = "tickets"
    BY <1>2, <1>3, <2>1, Zenon DEF B!ScanFails, Places
  <2>2. CASE dbOp[g].name # "tickets"
    BY <1>3, <2>2, SMTT(30)
       DEF B!Rows, B!ScanFails, DbOp, B!ConnectionFreed, OpenHeld, B!FailureClosesAll
  <2> QED
    BY <2>1, <2>2, Zenon
<1>4. CASE B!Rows(g)
  BY <1>1, <1>2, <1>3, <1>4, Zenon DEF B!Rows, Places
<1>5. CASE B!Took(g)
  BY <1>5, IdleIsDbOp, Zenon DEF B!Took, B!ConnectionFreed, OpenHeld, B!FailureClosesAll
<1> QED
  BY <1>4, <1>5, Zenon

LEMMA DbStep == DbInv /\ [B!Next]_B!vars => DbInv'
<1> SUFFICES ASSUME DbInv, [B!Next]_B!vars PROVE DbInv'
  BY Zenon
<1>1. CASE B!Open \/ B!Schema \/ B!CheckVersion \/ B!Prepare \/ B!GiveUp \/ B!Stop
  BY <1>1, StartsAndStops, Zenon
<1>2. ASSUME NEW g \in Goroutines, B!Goroutine(g) PROVE DbInv'
  BY <1>2, Writes, Queries, Reads, Zenon DEF B!Goroutine
<1>3. CASE UNCHANGED B!vars
  BY <1>3, Zenon DEF B!vars, DbInv, DbShapes, B!ConnectionFreed, OpenHeld, B!FailureClosesAll
<1> QED
  BY <1>1, <1>2, <1>3, Zenon DEF B!Next

\* SetMaxOpenConns(1): whatever the goroutines of the node do, and whichever statements,
\* queries and rows fail, only one that is still reading its rows has the connection.
THEOREM ConnectionAlwaysFreed == B!Spec => []ConnectionFreed
<1>1. DbInv => ConnectionFreed
  BY Zenon DEF DbInv, ConnectionFreed
<1> QED
  BY <1>1, DbInit, DbStep, PTL DEF B!Spec

\* InitDB: a start that fails, at whichever statement, leaves nothing open.
THEOREM FailureAlwaysClosesAll == B!Spec => []B!FailureClosesAll
<1>1. DbInv => B!FailureClosesAll
  BY Zenon DEF DbInv
<1> QED
  BY <1>1, DbInit, DbStep, PTL DEF B!Spec

\* The eight statements are different ones.
LEMMA StatementsDiffer ==
    /\ DOMAIN B!Statements = 1 .. 8 /\ Len(B!Statements) = 8
    /\ \A i, j \in 1 .. 8 : B!Statements[i] = B!Statements[j] => i = j
    /\ \A i \in 1 .. 8 : B!Statements[i] # "dbh"
BY DEF B!Statements

\* One more is prepared.
LEMMA NextStatement ==
    ASSUME NEW n \in 0 .. 7, NEW k \in 1 .. 8, B!Statements[k] \notin Prepared(n),
           \A j \in 1 .. k - 1 : B!Statements[j] \in Prepared(n)
    PROVE  k = n + 1 /\ Prepared(n) \union {B!Statements[k]} = Prepared(k)
<1>1. k > n
  BY DEF Prepared
<1>2. ~(n + 1 < k)
  <2> SUFFICES ASSUME n + 1 < k PROVE FALSE
    BY Zenon
  <2>1. B!Statements[n + 1] \in Prepared(n) /\ n + 1 \in 1 .. 8
    OBVIOUS
  <2>2. PICK i \in 1 .. n : B!Statements[i] = B!Statements[n + 1]
    BY <2>1, StatementsDiffer, Zenon DEF Prepared
  <2> QED
    BY <2>1, <2>2, StatementsDiffer
<1>3. k = n + 1
  BY <1>1, <1>2
<1>4. 1 .. k = (1 .. n) \union {k}
  BY <1>3
<1> QED
  BY <1>3, <1>4 DEF Prepared

LEMMA StartStep ==
    ASSUME DbInv, StartInv, [B!Next]_B!vars
    PROVE  StartInv'
<1>1. CASE B!Open
  BY <1>1 DEF B!Open, StartInv, Prepared
<1>2. CASE B!Schema
  BY <1>2, Zenon DEF B!Schema, B!Fail, StartInv
<1>3. CASE B!CheckVersion
  <2>1. CASE B!Fail
    BY <1>3, <2>1, Zenon DEF B!CheckVersion, B!Fail, StartInv
  <2>2. CASE ~B!Fail
    BY <1>3, <2>2 DEF B!CheckVersion, StartInv
  <2> QED
    BY <2>1, <2>2, Zenon
<1>4. CASE B!Prepare
  <2>1. CASE B!Fail
    BY <1>4, <2>1, Zenon DEF B!Prepare, B!Fail, StartInv
  <2>2. ASSUME NEW k \in DOMAIN B!Statements,
               B!Statements[k] \notin fields, \A j \in 1 .. k - 1 : B!Statements[j] \in fields,
               fields' = fields \union {B!Statements[k]}, open' = open \union {B!Statements[k]},
               dbPc' = IF k = Len(B!Statements) THEN "up" ELSE dbPc
        PROVE  StartInv'
    <3>1. dbPc = "prepare" /\ UNCHANGED disk /\ k \in 1 .. 8 /\ open = fields
      BY <1>4, StatementsDiffer, Zenon DEF B!Prepare, StartInv
    <3>2. PICK n \in 0 .. 7 : fields = Prepared(n)
      BY <3>1, Zenon DEF StartInv
    <3>3. k = n + 1 /\ fields' = Prepared(k)
      BY <2>2, <3>1, <3>2, NextStatement, Zenon
    <3>4. dbPc' = IF k = 8 THEN "up" ELSE "prepare"
      BY <2>2, <3>1, StatementsDiffer, Zenon
    <3>5. CASE k = 8
      BY <2>2, <3>1, <3>3, <3>4, <3>5, Zenon DEF StartInv
    <3>6. CASE k # 8
      BY <2>2, <3>1, <3>3, <3>4, <3>6 DEF StartInv
    <3> QED
      BY <3>5, <3>6, Zenon
  <2> QED
    BY <1>4, <2>1, <2>2, Zenon DEF B!Prepare
<1>5. CASE B!GiveUp \/ B!Stop
  BY <1>5, Zenon DEF B!GiveUp, B!Stop, StartInv
<1>6. ASSUME NEW g \in Goroutines, B!Goroutine(g) PROVE StartInv'
  <2>1. UNCHANGED <<fields, open>> /\ (dbPc' = dbPc \/ dbPc' = "panicked")
    BY <1>6, Zenon
       DEF B!Goroutine, B!SetLastSeenBlock, B!LastSeenBlock, B!UpdateOrch, B!InsertUnbondingLock,
                B!UseUnbondingLock, B!StoreWinningTicket, B!LoadWinningTickets, B!UnbondingLocks,
                B!UnbondingLockIDs, B!SelectOrchs, B!Rows, B!Took, B!Exec, B!Query, B!QueryFails, B!QueryPanics
  <2>2. \A f : B!Exec(g, f) /\ f.version = disk.version => disk'.version = disk.version
    BY Zenon DEF B!Exec
  <2>3. disk'.version = disk.version
    <3>1. CASE B!SetLastSeenBlock(g) \/ B!UpdateOrch(g) \/ B!InsertUnbondingLock(g)
               \/ B!UseUnbondingLock(g) \/ B!StoreWinningTicket(g)
      <4>1. /\ [disk EXCEPT !.lastBlock = 1 - @].version = disk.version
            /\ [disk EXCEPT !.orchs = {"orch"}].version = disk.version
            /\ \A l : /\ [disk EXCEPT !.locks = @ \union {l}].version = disk.version
                      /\ [disk EXCEPT !.used = @ \union {l}].version = disk.version
                      /\ [disk EXCEPT !.tickets = @ \union {l}].version = disk.version
        BY Zenon DEF DbInv, DbShapes, File
      <4> QED
        BY <2>2, <3>1, <4>1, Zenon DEF B!SetLastSeenBlock, B!UpdateOrch, B!InsertUnbondingLock,
                                B!UseUnbondingLock, B!StoreWinningTicket
    <3>2. CASE ~(B!SetLastSeenBlock(g) \/ B!UpdateOrch(g) \/ B!InsertUnbondingLock(g)
                 \/ B!UseUnbondingLock(g) \/ B!StoreWinningTicket(g))
      BY <1>6, <2>2, <3>2, Zenon
         DEF B!Goroutine, B!LastSeenBlock, B!LoadWinningTickets, B!UnbondingLocks,
                B!UnbondingLockIDs, B!SelectOrchs, B!Rows, B!Took, B!Query, B!QueryFails, B!QueryPanics
    <3> QED
      BY <3>1, <3>2, Zenon
  <2> QED
    BY <2>1, <2>3, Zenon DEF StartInv
<1>7. CASE UNCHANGED B!vars
  BY <1>7, Zenon DEF B!vars, StartInv
<1> QED
  BY <1>1, <1>2, <1>3, <1>4, <1>5, <1>6, <1>7, Zenon DEF B!Next

\* InitDB: the database is in use only with all eight statements prepared and a file that
\* is not of a later version, and a start that fails leaves nothing open.
THEOREM NothingEverLeftOpen == B!Spec => []NothingLeftOpen
<1>1. B!Init => StartInv
  BY Zenon DEF B!Init, StartInv
<1>2. DbInv /\ StartInv => NothingLeftOpen
  BY StatementsDiffer, Zenon DEF DbInv, StartInv, Prepared, NothingLeftOpen, B!NothingLeftOpen
<1> QED
  BY <1>1, <1>2, DbInit, DbStep, StartStep, PTL DEF B!Spec

-----------------------------------------------------------------------------
(* RewardService *)

Outcome == [version : Nat, success : BOOLEAN]

\* What is in the pool is of a call whose send was reported as failed, or of the nonce that
\* the service waits for, or else of the one that it keeps as pendingTx; and the nonces are
\* not used.
RewardInv ==
    /\ pool \subseteq W!Tx /\ rewarded \in Seq(Outcome) /\ localNonce \in Nat
    /\ pendingTx \in W!Tx \union {NoTx} /\ (wpc = "check" => tx \in W!Tx)
    /\ wpc \in {"replace", "resend"} => pendingTx # NoTx
    /\ wpc = "reward" => pendingTx = NoTx
    /\ \A t \in pool : t[1] > Len(rewarded)
    /\ wpc = "check" => \A t \in pool : t[1] \in lost \/ t[1] = tx[1]
    /\ wpc # "check" =>
          \A t \in pool : t[1] \in lost \/ (pendingTx # NoTx /\ t[1] = pendingTx[1])

\* The chain, and the pool of the Ethereum node
LEMMA RewardChain ==
    ASSUME RewardInv, W!NewRound \/ W!GetReady \/ \E t \in pool : W!Mine(t) \/ W!Drop(t)
    PROVE  RewardInv'
<1>1. UNCHANGED <<wpc, pendingTx, tx, lost, localNonce>> /\ pool' \subseteq pool
  BY ZenonT(30) DEF W!NewRound, W!GetReady, W!Mine, W!Drop, W!nonceVars
<1>2. ASSUME UNCHANGED rewarded PROVE RewardInv'
  BY <1>1, <1>2, Zenon DEF RewardInv
<1>3. ASSUME NEW t \in pool, W!Mine(t) PROVE RewardInv'
  <2>1. t[1] \in Nat /\ t[2] \in Nat /\ rewarded \in Seq(Outcome) /\ pool \subseteq W!Tx
    BY Zenon DEF RewardInv, W!Tx
  <2>2. PICK ok \in BOOLEAN : rewarded' = Append(rewarded, [version |-> t[2], success |-> ok])
    BY <1>3, Zenon DEF W!Mine
  <2>3. [version |-> t[2], success |-> ok] \in Outcome
    BY <2>1, Zenon DEF Outcome
  <2>4. rewarded' \in Seq(Outcome) /\ Len(rewarded') = Len(rewarded) + 1 /\ Len(rewarded) \in Nat
    BY <2>1, <2>2, <2>3, Appended
  <2>5. t[1] = Len(rewarded) + 1 /\ pool' = {u \in pool : u[1] # t[1]}
    BY <1>3, Zenon DEF W!Mine
  <2>6. \A u \in pool' : u[1] \in Nat /\ u[1] > Len(rewarded) /\ u[1] # Len(rewarded) + 1
    BY <2>1, <2>5, Zenon DEF RewardInv, W!Tx
  <2>7. \A u \in pool' : u[1] > Len(rewarded')
    BY <2>4, <2>6
  <2> QED
    BY <1>1, <2>4, <2>7, Zenon DEF RewardInv
<1> QED
  BY <1>2, <1>3, Zenon DEF W!NewRound, W!GetReady, W!Drop

\* A nonce that is used has left the pool.
LEMMA UsedLeaves ==
    ASSUME RewardInv, NEW t \in W!Tx, W!NonceUsed(t),
           \A u \in pool : u[1] \in lost \/ u[1] = t[1]
    PROVE  \A u \in pool : u[1] \in lost
<1>1. t[1] \in Nat /\ Len(rewarded) \in Nat /\ t[1] <= Len(rewarded)
  BY DEF RewardInv, W!Tx, W!NonceUsed
<1>2. \A u \in pool : u[1] \in Nat /\ u[1] > Len(rewarded)
  BY Zenon DEF RewardInv, W!Tx
<1>3. \A u \in pool : u[1] # t[1]
  BY <1>1, <1>2
<1> QED
  BY <1>3, Zenon

LEMMA RewardReplaced ==
    ASSUME RewardInv, wpc \in {"replace", "resend"}, W!NonceUsed(pendingTx), W!Replaced,
           UNCHANGED W!nonceVars
    PROVE  RewardInv'
<1>1. pendingTx \in W!Tx /\ \A u \in pool : u[1] \in lost
  BY UsedLeaves, Zenon DEF RewardInv
<1> QED
  BY <1>1, Zenon DEF RewardInv, W!Replaced, W!chainVars, W!nonceVars

LEMMA RewardTries ==
    ASSUME RewardInv, W!tryReward \/ W!ReplaceTransaction \/ W!RequestFails
    PROVE  RewardInv'
<1>1. CASE W!tryReward
  BY <1>1, Zenon DEF W!tryReward, W!chainVars, W!nonceVars, RewardInv
<1>2. CASE W!ReplaceTransaction
  <2>1. CASE W!IsMined(pendingTx) /\ W!Replaced
    BY <1>2, <2>1, RewardReplaced, Zenon
       DEF W!ReplaceTransaction, W!IsMined, W!NonceUsed, W!nonceVars
  <2>2. CASE ~W!IsMined(pendingTx)
    BY <1>2, <2>2 DEF W!ReplaceTransaction, W!chainVars, W!nonceVars, RewardInv
  <2> QED
    BY <1>2, <2>1, <2>2, Zenon DEF W!ReplaceTransaction
<1>3. CASE W!RequestFails
  BY <1>3, Zenon DEF W!RequestFails, W!chainVars, W!nonceVars, RewardInv
<1> QED
  BY <1>1, <1>2, <1>3, Zenon

LEMMA ReplacementNonce ==
    ASSUME RewardInv, wpc = "resend", ~W!NonceUsed(pendingTx)
    PROVE  /\ W!Replacement \in W!Tx /\ W!Replacement[1] = pendingTx[1]
           /\ W!Replacement[1] > Len(rewarded) /\ pendingTx \in W!Tx /\ pendingTx # NoTx
<1>1. pendingTx \in W!Tx /\ pendingTx # NoTx /\ Len(rewarded) \in Nat
  BY DEF RewardInv
<1> QED
  BY <1>1 DEF W!Tx, W!NonceUsed, W!Replacement

\* The nonce of a new call is not used.
LEMMA NewNonce ==
    ASSUME RewardInv, localNonce \in Nat, NEW remoteNonce \in W!PendingNonces
    PROVE  /\ W!NextNonce(remoteNonce) \in Nat \ {0}
           /\ W!NextNonce(remoteNonce) > Len(rewarded)
<1>1. Len(rewarded) \in Nat /\ \A u \in pool : u[1] \in Nat /\ u[1] > Len(rewarded)
  BY DEF RewardInv, W!Tx
<1>2. remoteNonce = Len(rewarded) + 1 \/ \E u \in pool : remoteNonce = u[1] + 1
  BY DEF W!PendingNonces
<1>3. remoteNonce \in Nat /\ remoteNonce > Len(rewarded)
  BY <1>1, <1>2
<1> QED
  BY <1>1, <1>3 DEF W!NextNonce

\* A transaction is sent: the next version of the one that is pending, or, when none is,
\* and hence none is in the pool that the service knows of, the first of the next nonce.
LEMMA RewardSends ==
    ASSUME RewardInv, W!Resend \/ W!Reward
    PROVE  RewardInv'
<1>1. CASE W!Resend
  <2>1. CASE W!NonceUsed(pendingTx) /\ W!Replaced
    BY <1>1, <2>1, RewardReplaced, Zenon DEF W!Resend, W!nonceVars
  <2>2. CASE ~W!NonceUsed(pendingTx) /\ W!Replacement \in pool
    <3>1. /\ wpc = "resend" /\ wpc' = "idle"
          /\ UNCHANGED <<rewarded, pool, pendingTx, lost, localNonce>>
      BY <1>1, <2>2, Zenon DEF W!Resend, W!chainVars, W!nonceVars
    <3> QED
      BY <3>1, Zenon DEF RewardInv
  <2>3. CASE ~W!NonceUsed(pendingTx) /\ W!Replacement \notin pool
    <3>1. /\ wpc = "resend" /\ wpc' = "check" /\ UNCHANGED <<rewarded, pendingTx, lost, localNonce>>
          /\ tx' = W!Replacement /\ pool' = pool \union {tx'}
      BY <1>1, <2>3, Zenon DEF W!Resend, W!Sent, W!nonceVars
    <3>2. \A t \in pool : t[1] \in lost \/ t[1] = pendingTx[1]
      BY <3>1, Zenon DEF RewardInv
    <3>3. tx' \in W!Tx /\ tx'[1] = pendingTx[1] /\ tx'[1] > Len(rewarded)
      BY <2>3, <3>1, ReplacementNonce, Zenon
    <3> QED
      BY <3>1, <3>2, <3>3, Zenon DEF RewardInv
  <2> QED
    BY <1>1, <2>1, <2>2, <2>3, Zenon DEF W!Resend
<1>2. CASE W!Reward
  <2>1. PICK remoteNonce \in W!PendingNonces :
            /\ wpc = "reward" /\ wpc' = "check" /\ UNCHANGED <<rewarded, pendingTx, lost>>
            /\ tx' = <<W!NextNonce(remoteNonce), 1>> /\ pool' = pool \union {tx'}
            /\ localNonce' = W!NextNonce(remoteNonce) + 1
    BY <1>2 DEF W!Reward, W!Sent
  <2>2. \A t \in pool : t[1] \in lost
    BY <2>1, Zenon DEF RewardInv
  <2>3. tx' \in W!Tx /\ tx'[1] > Len(rewarded) /\ localNonce' \in Nat
    BY <2>1, NewNonce DEF RewardInv, W!Tx
  <2> QED
    BY <2>1, <2>2, <2>3, Zenon DEF RewardInv
<1> QED
  BY <1>1, <1>2, Zenon

\* A send that is reported as failed leaves a transaction that the service does not know
\* of, or one of the nonce that is pending.
LEMMA RewardSendsFail ==
    ASSUME RewardInv, W!RewardSendFails \/ W!ResendFails
    PROVE  RewardInv'
<1>1. CASE W!RewardSendFails
  <2>1. PICK remoteNonce \in W!PendingNonces :
            /\ wpc = "reward" /\ wpc' = "idle" /\ UNCHANGED <<rewarded, pendingTx>>
            /\ pool' \in {pool, pool \union {<<W!NextNonce(remoteNonce), 1>>}}
            /\ localNonce' = W!NextNonce(remoteNonce) + 1
            /\ lost' = lost \union {W!NextNonce(remoteNonce)}
    BY <1>1 DEF W!RewardSendFails
  <2>2. PICK t : t = <<W!NextNonce(remoteNonce), 1>>
    OBVIOUS
  <2>3. t \in W!Tx /\ t[1] > Len(rewarded) /\ localNonce' \in Nat /\ t[1] \in lost'
    BY <2>1, <2>2, NewNonce DEF RewardInv, W!Tx
  <2>4. \A u \in pool' : u \in pool \/ u = t
    BY <2>1, <2>2, Zenon
  <2> QED
    BY <2>1, <2>3, <2>4, Zenon DEF RewardInv
<1>2. CASE W!ResendFails
  <2>1. /\ wpc = "resend" /\ wpc' = "idle" /\ UNCHANGED <<rewarded, pendingTx, lost, localNonce>>
        /\ pool' = pool \union {W!Replacement} /\ ~W!NonceUsed(pendingTx)
    BY <1>2, Zenon DEF W!ResendFails, W!nonceVars
  <2> QED
    BY <2>1, ReplacementNonce, Zenon DEF RewardInv
<1> QED
  BY <1>1, <1>2, Zenon

LEMMA RewardChecks ==
    ASSUME RewardInv, W!CheckTx \/ W!DeadlineExceeded
    PROVE  RewardInv'
<1>0. wpc = "check" /\ tx \in W!Tx /\ tx # NoTx /\ wpc' = "idle"
  <2>1. NoTx \notin W!Tx
    BY CallsAssumption, Zenon DEF W!RewardAssumption, W!Tx
  <2> QED
    BY <2>1, Zenon DEF W!CheckTx, W!DeadlineExceeded, RewardInv
<1>1. CASE W!CheckTx
  <2>1. W!NonceUsed(tx)
    BY <1>1, ZenonT(30) DEF W!CheckTx, W!IsMined, W!NonceUsed
  <2>2. \A u \in pool : u[1] \in lost
    BY <1>0, <2>1, UsedLeaves, Zenon DEF RewardInv
  <2> QED
    BY <1>0, <1>1, <2>2, Zenon DEF W!CheckTx, W!chainVars, W!nonceVars, RewardInv
<1>2. CASE W!DeadlineExceeded
  BY <1>0, <1>2, Zenon DEF W!DeadlineExceeded, W!chainVars, W!nonceVars, RewardInv
<1> QED
  BY <1>1, <1>2, Zenon

\* RewardService.tryReward: however many transactions are late, replaced, forgotten or
\* failed, no two of its calls of reward() with different nonces are ever in the pool,
\* apart from those whose send was reported as failed.
THEOREM AlwaysOneOutstanding == W!Spec => []OneOutstanding
<1>1. W!Init => RewardInv
  BY DEF W!Init, RewardInv
<1>2. RewardInv /\ [W!Next]_W!vars => RewardInv'
  <2>1. ASSUME RewardInv, UNCHANGED W!vars PROVE RewardInv'
    BY <2>1, Zenon DEF W!vars, W!chainVars, W!nonceVars, RewardInv
  <2> QED
    BY <2>1, RewardChain, RewardTries, RewardSends, RewardSendsFail, RewardChecks, Zenon
       DEF W!Next, W!Service
<1>3. RewardInv => OneOutstanding
  BY Zenon DEF RewardInv, OneOutstanding, W!OneOutstanding
<1> QED
  BY <1>1, <1>2, <1>3, PTL DEF W!Spec
=============================================================================
