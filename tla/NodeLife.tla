------------------------------- MODULE NodeLife -------------------------------
(****************************************************************************)
(* The life of a node's process: main (cmd/livepeer/livepeer.go) sets the    *)
(* node up, starts the services that follow Ethereum (core/livepeernode.go,  *)
(* eth/eventservices) and the servers, waits for one of them to end or for   *)
(* an interrupt, and runs its deferred calls.  glog.Fatal, an interrupt      *)
(* before signal.Notify and a panic end the process without them.            *)
(*                                                                           *)
(* Two services follow the headers of new blocks through the event monitor   *)
(* (eth/eventmonitor.go): BlockService records the last block seen,          *)
(* RoundsService initializes rounds.  Its map of subscriptions has no lock.  *)
(*                                                                           *)
(* Whatever depends on flags, files or other hosts may fail.  The Ethereum   *)
(* node and the RPC client are external: the client keeps the headers that a *)
(* service has not taken, and panics when it hands one to a closed channel.  *)
(****************************************************************************)
EXTENDS Naturals, Sequences

CONSTANTS
    MaxHead,    \* bound: blocks
    MaxSubErr   \* bound: subscriptions that fail

LifeAssumption == MaxHead \in Nat /\ MaxSubErr \in Nat

VARIABLES
    opts,               \* the flags: kind of node, on chain, -initializeRound
    pc, defers, exit,   \* main: next step, deferred calls, how the process ended
    dbOpen, notified,   \* the database is open, signal.Notify has been called
    services, started,  \* services created, and those that Start has been called for
    toStop, stopped,    \* StopEthServices: services left, it has returned
    sub, queue, closed, \* per watcher: subscription, headers not yet taken, channel closed
    watch,              \* per watcher: where watchBlocks is
    head, lastSeen,     \* last block of the chain, and of the database
    replayed,           \* UnbondingService has read the database's last block
    media, web, rpc, checker,  \* goroutines of the servers
    ctxDone,            \* the media server's context is cancelled
    subErrs

mainVars == <<opts, pc, defers, exit, dbOpen, notified>>
serviceVars == <<services, started, toStop, stopped, replayed>>
watchVars == <<sub, queue, closed, watch, subErrs>>
serverVars == <<media, web, rpc, checker, ctxDone>>
vars == <<mainVars, serviceVars, watchVars, serverVars, head, lastSeen>>

Watchers == {"BlockService", "RoundsService"}
Types == {"orchestrator", "broadcaster", "transcoder", "none"}

Options ==
    {o \in [type : Types, onchain : BOOLEAN, rounds : BOOLEAN] :
        o.rounds => o.type = "orchestrator" /\ o.onchain}

Running == exit = "none"

\* A step of main, from a label to a label
Step(from, to) ==
    /\ Running /\ pc = from /\ pc' = to
    /\ UNCHANGED exit

\* return, from any label: the deferred calls are next.
Return(from) == Step(from, "defers")

End(how) == exit' = how /\ UNCHANGED pc

Fatal(from) == Running /\ pc = from /\ End("fatal")

\* Mutant: the call is not deferred.
Defer_Forgotten(call) == UNCHANGED defers

Defer(call) == defers' = Append(defers, call)

-----------------------------------------------------------------------------
(* Setting the node up *)

\* Flags, and what they default to on a network.  -version only prints.  A data directory
\* that cannot be made is only logged.
ParseFlags ==
    /\ Fatal("flags") \/ Return("flags") \/ Step("flags", "db")
    /\ UNCHANGED <<opts, defers, dbOpen, notified, serviceVars, watchVars, serverVars, head, lastSeen>>

InitDB ==
    /\ \/ Return("db") /\ UNCHANGED <<dbOpen, defers>>
       \/ Step("db", "type") /\ dbOpen' = TRUE /\ Defer("close")
    /\ UNCHANGED <<opts, notified, serviceVars, watchVars, serverVars, head, lastSeen>>

\* A transcoder that stands alone needs a secret and an orchestrator's address.
NodeType ==
    /\ \/ opts.type \in {"none", "transcoder"} /\ Fatal("type")
       \/ opts.type = "transcoder" /\ Step("type", "standalone")
       \/ /\ opts.type \in {"orchestrator", "broadcaster"}
          /\ Step("type", IF opts.onchain THEN "eth" ELSE "storage")
    /\ UNCHANGED <<opts, defers, dbOpen, notified, serviceVars, watchVars, serverVars, head, lastSeen>>

\* It serves until the orchestrator refuses its secret.
RunTranscoder ==
    /\ Return("standalone")
    /\ UNCHANGED <<opts, defers, dbOpen, notified, serviceVars, watchVars, serverVars, head, lastSeen>>

SetupEth ==
    /\ \/ Return("eth") /\ UNCHANGED <<services, defers>>
       \/ /\ Step("eth", IF opts.type = "orchestrator" THEN "setup" ELSE "start")
          /\ Defer("stop")
          /\ services' = {"BlockService", "UnbondingService"}
    /\ UNCHANGED <<opts, dbOpen, notified, started, toStop, stopped, replayed, watchVars, serverVars,
                   head, lastSeen>>

setupOrchestrator ==
    /\ \/ Return("setup") /\ UNCHANGED services
       \/ /\ Step("setup", "recipient")
          /\ services' = services \union {"RewardService"}
                         \union (IF opts.rounds THEN {"RoundsService"} ELSE {})
    /\ UNCHANGED <<opts, defers, dbOpen, notified, started, toStop, stopped, replayed, watchVars,
                   serverVars, head, lastSeen>>

\* -faceValue, -winProb and the recipient of payments
SetupRecipient ==
    /\ Return("recipient") \/ Step("recipient", "start")
    /\ UNCHANGED <<opts, defers, dbOpen, notified, serviceVars, watchVars, serverVars, head, lastSeen>>

SetupStorage ==
    /\ Return("storage") \/ Step("storage", "address")
    /\ UNCHANGED <<opts, defers, dbOpen, notified, serviceVars, watchVars, serverVars, head, lastSeen>>

\* A URL that is not one of HTTP is fatal.
getAuthWebhookURL == Fatal("address") \/ Step("address", "serve")

\* The one given, or else the public address looked up, and on chain the registered one.
getServiceURI == Fatal("address") \/ Step("address", "serve")

\* An orchestrator needs a transcoder or a secret for one.
SetupAddress ==
    /\ \/ opts.type = "broadcaster" /\ getAuthWebhookURL
       \/ opts.type = "orchestrator" /\ (getServiceURI \/ Fatal("address"))
    /\ UNCHANGED <<opts, defers, dbOpen, notified, serviceVars, watchVars, serverVars, head, lastSeen>>

-----------------------------------------------------------------------------
(* The event monitor *)

Subscribed(w) == sub[w] \in {"active", "renewed"}

\* The map is written while another watcher may be reading it.
RaceOnMap(w) == \E v \in Watchers \ {w} : watch[v] \in {"select", "resubscribe"}

SubscribeNewBlock(w) ==
    /\ sub' = [sub EXCEPT ![w] = IF @ = "none" THEN "active" ELSE "renewed"]
    /\ watch' = [watch EXCEPT ![w] = "select"]
    /\ UNCHANGED <<queue, closed, subErrs>>

NewHead ==
    /\ Running /\ head < MaxHead
    /\ head' = head + 1
    /\ \/ /\ \A w \in Watchers : Subscribed(w) => ~closed[w]
          /\ queue' = [w \in Watchers |-> IF Subscribed(w) THEN Append(queue[w], head + 1)
                                                            ELSE queue[w]]
          /\ UNCHANGED <<exit, pc>>
       \/ /\ \E w \in Watchers : Subscribed(w) /\ closed[w]
          /\ End("panic") /\ UNCHANGED queue
    /\ UNCHANGED <<opts, defers, dbOpen, notified, serviceVars, sub, closed, watch, subErrs,
                   serverVars, lastSeen>>

\* The Ethereum node ends a subscription.
SubErr(w) ==
    /\ Running /\ Subscribed(w) /\ subErrs < MaxSubErr
    /\ subErrs' = subErrs + 1
    /\ sub' = [sub EXCEPT ![w] = "cancelled"] /\ queue' = [queue EXCEPT ![w] = <<>>]
    /\ UNCHANGED <<mainVars, serviceVars, closed, watch, serverVars, head, lastSeen>>

SetLastSeenBlock(w, n) == lastSeen' = IF w = "BlockService" /\ dbOpen THEN n ELSE lastSeen

\* watchBlocks: one turn of the loop.  RoundsService may have done with watching.
\* The error of a cancelled subscription can be received again and again.
watchBlocks(w) ==
    /\ Running /\ watch[w] = "select"
    /\ \/ /\ queue[w] # <<>> /\ ~closed[w]
          /\ SetLastSeenBlock(w, Head(queue[w]))
          /\ queue' = [queue EXCEPT ![w] = Tail(@)]
          /\ \E to \in {"select"} \union (IF w = "RoundsService" THEN {"ended"} ELSE {}) :
                watch' = [watch EXCEPT ![w] = to]
       \/ /\ closed[w]
          /\ watch' = [watch EXCEPT ![w] = "ended"]
          /\ UNCHANGED <<queue, lastSeen>>
       \/ /\ sub[w] = "cancelled"
          /\ watch' = [watch EXCEPT ![w] = "resubscribe"]
          /\ UNCHANGED <<queue, lastSeen>>
    /\ UNCHANGED <<mainVars, serviceVars, sub, closed, subErrs, serverVars, head>>

Resubscribe(w) ==
    /\ Running /\ watch[w] = "resubscribe"
    /\ \/ SubscribeNewBlock(w) /\ UNCHANGED <<exit, pc>>
       \/ RaceOnMap(w) /\ End("panic") /\ UNCHANGED watchVars
    /\ UNCHANGED <<opts, defers, dbOpen, notified, serviceVars, serverVars, head, lastSeen>>

-----------------------------------------------------------------------------
(* StartEthServices, StopEthServices *)

\* Mutant: the services are started in any order.
MayStart_AnyOrder(s) == s \in services \ started

\* In any order, and BlockService at the end.  No Start fails: a subscription is retried
\* for ever, and UnbondingService goes on without what it could not replay.
MayStart(s) ==
    /\ s \in services \ started
    /\ s = "BlockService" => services \ started = {"BlockService"}

StartService(s) ==
    /\ Running /\ pc = "start" /\ MayStart(s)
    /\ started' = started \union {s}
    /\ replayed' = (replayed \/ s = "UnbondingService")
    /\ \/ /\ IF s \in Watchers THEN SubscribeNewBlock(s) ELSE UNCHANGED watchVars
          /\ UNCHANGED <<exit, pc>>
       \/ /\ s \in Watchers /\ RaceOnMap(s)
          /\ End("panic") /\ UNCHANGED watchVars
    /\ UNCHANGED <<opts, defers, dbOpen, notified, services, toStop, stopped, serverVars, head, lastSeen>>

StartEthServices ==
    /\ started = services /\ Step("start", "storage")
    /\ UNCHANGED <<opts, defers, dbOpen, notified, serviceVars, watchVars, serverVars, head, lastSeen>>

\* working is never set in BlockService and UnbondingService: their Stop is an error,
\* with which StopEthServices returns.
StopFails(s) == s \in {"BlockService", "UnbondingService"} \/ s \notin started

StopReward(s) ==
    /\ s = "RewardService" /\ s \in started
    /\ started' = started \ {s} /\ toStop' = toStop \ {s}
    /\ UNCHANGED <<pc, exit, stopped, sub, queue, closed>>

\* The web server's account of the services: it asks for RoundsService by another name.
orchestratorEventSubscriptions ==
    [RewardService |-> "RewardService" \in started, RoundsService |-> "RoundService" \in started]

\* RoundsService closes the channel first.  A header that waits for it panics.
CloseHeaders(s) ==
    /\ s = "RoundsService" /\ s \in started /\ ~closed[s]
    /\ closed' = [closed EXCEPT ![s] = TRUE]
    /\ \/ queue[s] # <<>> /\ End("panic")
       \/ queue[s] = <<>> /\ UNCHANGED <<exit, pc>>
    /\ UNCHANGED <<started, toStop, stopped, sub, queue>>

\* The service knows only its first subscription.
Unsubscribe(s) ==
    /\ s = "RoundsService" /\ s \in started /\ closed[s]
    /\ sub' = [sub EXCEPT ![s] = IF @ = "active" THEN "cancelled" ELSE @]
    /\ queue' = [queue EXCEPT ![s] = <<>>]
    /\ started' = started \ {s} /\ toStop' = toStop \ {s}
    /\ UNCHANGED <<pc, exit, stopped, closed>>

StopService(s) ==
    /\ Running /\ pc = "stopping" /\ s \in toStop
    \* The one whose Stop has begun goes on.
    /\ \A t \in toStop : t \in Watchers /\ closed[t] => t = s
    /\ \/ /\ StopFails(s)
          /\ stopped' = TRUE /\ pc' = "defers"
          /\ UNCHANGED <<exit, started, toStop, sub, queue, closed>>
       \/ StopReward(s) \/ CloseHeaders(s) \/ Unsubscribe(s)
    /\ UNCHANGED <<opts, defers, dbOpen, notified, services, replayed, watch, subErrs, serverVars, head, lastSeen>>

-----------------------------------------------------------------------------
(* The servers *)

Serve ==
    /\ Step("serve", "notify")
    /\ Defer("cancel")
    /\ media' = "serving" /\ web' = "serving"
    /\ rpc' = IF opts.type = "orchestrator" THEN "starting" ELSE "off"
    /\ checker' = IF opts.type = "orchestrator" THEN "waiting" ELSE "off"
    /\ UNCHANGED <<opts, dbOpen, notified, serviceVars, watchVars, ctxDone, head, lastSeen>>

Goroutine(v, from, to) == Running /\ v = from /\ v' = to

\* A broadcaster's LPMS is started again after an error, and the error of the second
\* time is reported.  An orchestrator's returns without an error.
StartMediaServer ==
    /\ \/ /\ opts.type = "broadcaster"
          /\ Goroutine(media, "serving", "serving again") \/ Goroutine(media, "serving again", "reporting")
       \/ opts.type = "orchestrator" /\ Goroutine(media, "serving", "idle")
       \/ ctxDone /\ Running /\ media \notin {"off", "reporting"} /\ media' = "reporting"
    /\ UNCHANGED <<mainVars, serviceVars, watchVars, web, rpc, checker, ctxDone, head, lastSeen>>

StartWebserver ==
    /\ Goroutine(web, "serving", "closed")
    /\ UNCHANGED <<mainVars, serviceVars, watchVars, media, rpc, checker, ctxDone, head, lastSeen>>

\* The key and the certificate are made anew each time; one of them, or writing it to its
\* file, may fail.
getCert == {"listening", "reporting"}

\* Without a certificate it returns at once.
StartTranscodeServer ==
    /\ \/ \E to \in getCert : Goroutine(rpc, "starting", to)
       \/ Goroutine(rpc, "listening", "reporting")
    /\ UNCHANGED <<mainVars, serviceVars, watchVars, media, web, checker, ctxDone, head, lastSeen>>

\* The node answers its own call while its server listens.
ping == rpc = "listening"

\* After two seconds the orchestrator calls itself.
CheckOrchestratorAvailability ==
    /\ \/ ping /\ Goroutine(checker, "waiting", "done")
       \/ Goroutine(checker, "waiting", "reporting")
    /\ UNCHANGED <<mainVars, serviceVars, watchVars, media, web, rpc, ctxDone, head, lastSeen>>

Notify ==
    /\ \/ Step("notify", "notified") /\ notified' = TRUE
       \/ Step("notified", "select") /\ UNCHANGED notified
    /\ UNCHANGED <<opts, defers, dbOpen, serviceVars, watchVars, serverVars, head, lastSeen>>

\* ec, tc or wc is ready.
Ended == media = "reporting" \/ rpc = "reporting" \/ checker = "reporting" \/ web = "closed"

Select ==
    /\ Ended /\ Return("select")
    /\ UNCHANGED <<opts, defers, dbOpen, notified, serviceVars, watchVars, serverVars, head, lastSeen>>

\* The channel has no room: unless main is waiting, the signal is dropped.
Interrupt ==
    /\ Running
    /\ \/ ~notified /\ End("killed")
       \/ notified /\ Return("select")
    /\ UNCHANGED <<opts, defers, dbOpen, notified, serviceVars, watchVars, serverVars, head, lastSeen>>

-----------------------------------------------------------------------------
(* The deferred calls, the last one first *)

LastDeferred == defers[Len(defers)]

RunDeferred ==
    /\ Running /\ pc = "defers" /\ defers # <<>>
    /\ defers' = SubSeq(defers, 1, Len(defers) - 1)
    /\ \/ /\ LastDeferred = "cancel"
          /\ ctxDone' = TRUE
          /\ UNCHANGED <<pc, toStop, dbOpen>>
       \/ /\ LastDeferred = "stop"
          /\ toStop' = services /\ pc' = "stopping"
          /\ UNCHANGED <<ctxDone, dbOpen>>
       \/ /\ LastDeferred = "close"
          /\ dbOpen' = FALSE
          /\ UNCHANGED <<ctxDone, toStop, pc>>
    /\ UNCHANGED <<opts, exit, notified, services, started, stopped, replayed, watchVars,
                   media, web, rpc, checker, head, lastSeen>>

Exit ==
    /\ Running /\ pc = "defers" /\ defers = <<>>
    /\ End("return")
    /\ UNCHANGED <<opts, defers, dbOpen, notified, serviceVars, watchVars, serverVars, head, lastSeen>>

-----------------------------------------------------------------------------
Init ==
    /\ opts \in Options
    /\ pc = "flags" /\ defers = <<>> /\ exit = "none" /\ dbOpen = FALSE /\ notified = FALSE
    /\ services = {} /\ started = {} /\ toStop = {} /\ stopped = FALSE /\ replayed = FALSE
    /\ sub = [w \in Watchers |-> "none"] /\ queue = [w \in Watchers |-> <<>>]
    /\ closed = [w \in Watchers |-> FALSE] /\ watch = [w \in Watchers |-> "none"]
    /\ head = 1 /\ lastSeen = 0 /\ subErrs = 0
    /\ media = "off" /\ web = "off" /\ rpc = "off" /\ checker = "off" /\ ctxDone = FALSE

Main ==
    \/ ParseFlags \/ InitDB \/ NodeType \/ RunTranscoder \/ SetupEth \/ setupOrchestrator \/ SetupRecipient
    \/ (\E s \in services : StartService(s)) \/ StartEthServices
    \/ SetupStorage \/ SetupAddress \/ Serve \/ Notify \/ Select
    \/ RunDeferred \/ (\E s \in toStop : StopService(s)) \/ Exit

Next ==
    \/ Main \/ Interrupt
    \/ NewHead \/ \E w \in Watchers : SubErr(w) \/ watchBlocks(w) \/ Resubscribe(w)
    \/ StartMediaServer \/ StartWebserver \/ StartTranscodeServer \/ CheckOrchestratorAvailability

Spec == Init /\ [][Next]_vars

-----------------------------------------------------------------------------
(* Properties *)

\* Shapes of the state.
TypeOK ==
    /\ opts \in Options /\ dbOpen \in BOOLEAN /\ notified \in BOOLEAN
    /\ exit \in {"none", "return", "fatal", "killed", "panic"}
    /\ started \subseteq services /\ toStop \subseteq services
    /\ sub \in [Watchers -> {"none", "active", "renewed", "cancelled"}]
    /\ watch \in [Watchers -> {"none", "select", "resubscribe", "ended"}]
    /\ \A w \in Watchers : Subscribed(w) => w \in services
    /\ head \in 1 .. MaxHead /\ lastSeen \in 0 .. head

\* StartEthServices: "make sure to initialize BlockService last so other services can
\* create filters starting from the last seen block".  No block is recorded as seen
\* before UnbondingService has read from where to replay, whatever order the map of
\* services is walked in and however soon the first header comes.
BlocksAfterReplay == lastSeen # 0 => replayed

\* main: the database is closed when main returns, from whichever step, and if services
\* have been started, not before StopEthServices was called for them.
CleanReturn ==
    /\ exit = "return" => ~dbOpen
    /\ ~dbOpen /\ started # {} => stopped

\* StopEthServices: a node that returns has stopped its services.
ServicesStopped == exit = "return" => started = {}

\* /orchestratorEventSubscriptions: the operator is told which services work.
SubscriptionsTrue ==
    web = "serving" =>
        orchestratorEventSubscriptions = [s \in {"RewardService", "RoundsService"} |-> s \in started]

\* RoundsService.Stop, eventMonitor: no header meets a closed channel, and the map of
\* subscriptions is not read and written at once.
NoPanic == exit # "panic"
=============================================================================
