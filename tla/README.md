# go-livepeer in TLA+

TLA+ models of the go-livepeer node, TLC configurations that check them on small
instances, and TLAPS proofs of the safety properties that matter most. Every
definition is written from the Go source; `PROJECT.json` maps each one to the lines
it stands for.

## 1. The system

A node is a **broadcaster**, an **orchestrator** or a **standalone transcoder**.

```
 RTMP publisher                                              HLS viewers
      |                                                          ^
      v                  segments + tickets                      |
 [ broadcaster ] ------------------------------> [ orchestrator ] <---> [ transcoder ]
   mediaserver.go   server/segment_rpc.go          core/orchestrator.go   ot_rpc.go
   broadcast.go     discovery/                     pm/recipient.go
   playlistmanager  pm/sender.go
      |                                                 |
      +------------------- Ethereum --------------------+
         eth/client.go, noncemanager.go, eventservices/, server/webserver.go
```

A stream that is published over RTMP becomes a connection with a manifest ID. Its
segments are stored and listed for viewers, and each is sent with a lottery ticket to an
orchestrator found by discovery. The orchestrator checks ticket and signature, hands the
segment to the transcode loop of its manifest (which may use a remote transcoder) and
returns the renditions' URLs; the broadcaster downloads, stores and lists them. When a
loop has been idle for long enough it ends and the winning tickets of its sessions are
redeemed. Beside this, services follow the chain (unbonding locks, reward, rounds), and
the operator bonds, claims and withdraws through a local web server.

### Inventory

| Part | Source | Module | State kept by the code |
|---|---|---|---|
| Micropayments | `pm/`, `core/orchestrator.go`, `common/db.go` | `Recipient`, and `Ledger`, what it promises | secret, `invalidRands`, `senderNonces`, `pmSessions`, table `winningTickets` |
| Transcode sessions | `core/orchestrator.go` | `TranscodeLoop` | `SegmentChans`, channels, loops |
| Remote transcoders | `core/orchestrator.go`, `server/ot_rpc.go` | `RemoteTranscoder` | `Transcoder`, `taskChans`, `eof` channels, streams |
| RTMP connections, selection | `server/mediaserver.go`, `server/broadcast.go`, `drivers/local.go` | `MediaServer` | `rtmpConnections`, `connectionLock`, listeners, storage sessions |
| Playlists and storage | `core/playlistmanager.go`, `drivers/local.go`, `server/broadcast.go` | `Playlist`, and `LiveStream`, what viewers may count on | media playlists, data caches, download goroutines |
| Segment exchange | `server/segment_rpc.go`, `pm/sender.go` | `SegmentExchange` | requests at both ends, nonces, responses |
| Discovery | `discovery/`, `common/db.go`, `server/rpc.go` | `Discovery` | table `orchestrators`, responses, `respLock` |
| Transactions | `eth/noncemanager.go`, `eth/client.go` | `NonceManager` | nonces, address locks, contract sessions |
| Unbonding locks | `eth/eventservices/`, `server/webserver.go` | `UnbondingService` | table `unbondingLocks`, last block seen, subscriptions |
| Reward | `eth/eventservices/rewardservice.go` | `RewardService` | `pendingTx` |
| Rounds | `eth/eventservices/roundservice.go`, `eth/eventmonitor.go` | `RoundsService` | subscription, headers |
| Metrics | `monitor/census.go` | `Census` | `emergeTimes`, rings of segment counts |
| Event log | `monitor/events.go`, `server/mediaserver.go`, `server/broadcast.go` | `EventLog` | the channel `ch`, `segmentsInFlight` and the other counters, `connectionLock` |
| Object storage | `drivers/`, `server/broadcast.go`, `core/orchestrator.go` | `Storage` | storage sessions of both nodes, policies and their expiry, buckets |
| Contract bindings | `eth/contracts/bondingManager.go`, `eth/client.go` | `ContractEvents` | iterators, subscriptions, the goroutines that feed them |
| Account and client | `eth/accountmanager.go`, `eth/client.go`, `eth/client_ticketbroker.go` | `EthClient` | account, `unlocked`, gas settings, contract sessions |
| Operator's requests | `server/webserver.go`, `server/handlers.go`, `eth/client.go` | `Staking` | HTTP handlers and their transactions |
| Console | `cmd/livepeer_cli/`, `server/webserver.go` | `Console` | what the wizard has read, asked for and posted |
| Node process | `cmd/livepeer/livepeer.go`, `core/livepeernode.go`, `eth/eventservices/`, `eth/eventmonitor.go` | `NodeLife` | deferred calls, services, subscriptions, servers |
| Database | `common/db.go` | `Database` | the file, prepared statements, the one connection |
| Merkle tree | `eth/types/merkletree.go` | `MerkleTree` | none: a pure algorithm |

Section 8 lists the parts that are not modelled.

## 2. How the modules are built

**Data.** A segment, a ticket, an address or an orchestrator is a model value; a ticket is
its `recipientRand` and nonce. Signatures, hashes, encodings and ffmpeg are kept as what
they decide (valid or not, won or not, transcoded or failed). Where a number matters it is
a number: nonces, prices with the integer division of the 10% bump, rounds and block
numbers, cache and playlist lengths, ring indices.

**Control.** An action is what the code does between two points at which another goroutine
can be seen: a critical section of a mutex, a channel operation, one database statement,
one RPC or transaction. Program counters (`pc`, `hpc`, `lpc`, ...) hold where a goroutine
is. Errors of calls are disjuncts (`LoadFails`, `RedeemFails`, `setContractsFails`, ...).
A panic of a request is a state of its own (`"aborted"` in `TranscodeLoop`), as net/http
recovers it. Names are those of the source where TLA+ allows.

**Environment.** The chain, the Ethereum node, the RTMP server, the network and the
contracts are outside this repository and are marked external in the map. They are as
unfriendly as the code has to expect: messages are lost, late or repeated, answers of the
Ethereum node are behind, transactions are mined late or fail, connections break,
subscriptions fail.

**Bounds.** Every counter that the code does not bound has a named bound (`MaxNonce`,
`MaxEpoch`, `MaxTasks`, `MaxBlock`, ...), declared as a bound where the constant is.

### What an action stands for, module by module

* **Recipient.** `validRand`, `updateSenderNonce`, `StoreWinningTicket`,
  `cachePMSessionID` and `getSegmentChan` are the steps of a segment request in
  `ProcessPayment`/`ReceiveTicket` and `TranscodeSeg`, each under a lock of its own;
  `LoopTimeout`, `getAndClearPMSessionIDsByManifestID`, `LoadWinningTickets`, `redeemWinningTicket`,
  `updateInvalidRands`, `clearSenderNonce` are those of the loop that ends. `Restart`
  loses the memory and keeps the table; the new secret makes old tickets invalid.
* **Ledger.** What `Recipient` promises of its sessions, with nothing of how it does it: a
  session is opened once, credits its tickets once and in the order of their nonces while it
  is open, is never open again once it is revealed, and credits nothing once it has ended.
  `Recipient` implements it under the mapping `Phase`: a session is new until its rand is
  drawn, revealed with `updateInvalidRands`, and ended when its secret is lost (`Restart`).
  A ticket that is accepted after the reveal (section 6) is a step of the ledger too,
  `Late`, of which neither order nor uniqueness is promised; every credit of the code is a
  step of the ledger, and the other steps are stutters.
* **TranscodeLoop.** One channel per incarnation of a loop. `sendToTranscodeLoop` uses the
  channel after `segmentMutex` is released, so it may find it closed, full or without a
  reader. A loop may time out whenever it selects, and a call of a standalone transcoder may
  block for good on `eof` (`TranscodeBlocks`), which leaves the loop stuck.
* **RemoteTranscoder.** A registration is `serveTranscoder` and the stream; `Send` on a
  broken stream fails or loses the message; the result of a call comes back as an HTTP
  request (`TranscodeResults`, `transcoderResults`); `SignalEof` blocks while the channel
  of capacity 1 is full.
* **MediaServer.** A publisher is one run of the RTMP server's callback: `createRTMPStreamID`,
  `NewSession`, `registerConnection`, `StartListener`, `FirstNeedOrch`, and `endRTMPStream`
  with `SendEof` (unbuffered, under `connectionLock`) and `EndSession`. Each connection has
  a listener and at most one orchestrator selection (`TrySem` ... `ReleaseSem`). Workers are
  goroutines of `processSegment`.
* **Playlist.** The segmenter's callback (sequential) saves a segment (`processSegment`),
  makes room in the playlist (`RemoveOldestSource`) and appends to it (`InsertSource`), and
  viewers see each of the three. `dlFunc`, `RemoveOldest` and `InsertHLSSegment` are the same
  unsynchronised steps of the download goroutines; a download may fail, or hang
  (`GetSegmentDataHangs`). `Cleanup` ends the storage session.
* **LiveStream.** What a viewer of the source may count on: a window of the latest segments,
  which gives up its oldest only when it is full and grows by the next one, all of which can
  be fetched, and nothing after the end. `Playlist` implements it under the mapping `Served`,
  `ServedSeqNo`, `Fetchable`: what the handlers of playlists and segments answer.
  `RemoveOldestSource` is `MakeRoom`, `InsertSource` is `Show`, or `Drop` after the end,
  `Cleanup` is `End`; saving a segment and the steps of renditions are stutters.
* **SegmentExchange.** `SubmitSegment`, `Timeout`, `ReceiveHeader`, `ReceiveBody` at the
  broadcaster; `verifySegCreds` to `WriteResult` at the orchestrator, in the order of
  `ServeSegment`, with the status written once.
* **Discovery.** The refresh walks a linked list that changes under it; `getOrchInfo`,
  `SignalMain` and `Unlock` are a response's goroutine, which sends on an unbuffered
  channel with `respLock` held.
* **NonceManager.** `transact` from `Lock` to `Unlock` or `Update`; `NewNonceManager` and
  `setContracts` are `SetGasInfo`, session by session.
* **UnbondingService.** Start; the replay, kind by kind and log by log, which may fail, or be
  cut short without an error by a log that does not unpack (`ReplayCut`); subscriptions and
  their errors, the events of the three kinds in any order, `BlockService`, crashes, and
  `/unbondingLocks`, which fills in missing locks from the chain.
* **RewardService.** `tryReward` between its queries, sends and waits. A nonce is the larger of
  the node's own and the Ethereum node's, and a send counts as done also when it is reported
  as failed: the transaction may be in the pool (`lost` has its nonce) or nowhere, which
  leaves a gap (`Gap`). Transactions are late, replaced, forgotten by the pool, or fail.
* **RoundsService.** `tryInitializeRound` query by query, for several nodes on one chain: the
  list of transcoders and the number of active ones are asked for one after the other while
  the pool changes (`PoolChanges`), headers wait in a queue, and calls are mined or fail.
* **Census.** The ring of `segmentsAverager` with its indices, `emergeTimes`, and the calls
  in the order `processSegment` and the RTMP handlers make them.
* **EventLog.** A stream's handlers (`Register`, `LogStreamStartedEvent`, the segment's
  events from `LogSegmentEmerged` to `LogTranscodedSegmentAppeared`, `EndStream`) put events
  on a bounded channel and wait for room; each rendition has a goroutine of its own
  (`StartDownloads`, `dlFunc`) and reports that it appeared or failed; `endRTMPStream` logs
  with `connectionLock` held. `sendLoop` takes one and posts it; the counters change with the call that logs.
* **Storage.** Two nodes, each with memory, S3 or Google storage. A session has a node and
  an expiry; `SaveSource`, `Upload`, `Serve`, `Transcode`, `SaveResult`, `Keep` and `List`
  take a segment from the segmenter to the playlist, and each save may fail or be too late.
* **ContractEvents.** `Filter...`, the iterator's `Next` in its three states and the
  goroutine behind it (`Feed`), for the three events that `UnbondingService` follows;
  `Watch...` with its goroutine, failures and resubscription.
* **EthClient.** `NewAccountManager` and `Unlock` (the account given, the first, or a new
  one), `SetGasInfo` contract by contract with its failures, the calls that set a value in
  a copy of the transaction options and send, and reads that take several requests.
* **Staking.** Each handler of the web server is a list of client calls; a call claims
  (`autoClaimEarnings`), approves (`Bond`) and sends, and waits for each transaction, or gives
  it up (`GivesUp`); `/claimEarnings` then tries again, and `mine` keeps what a request has
  sent over its attempts.
* **Console.** `run`, the options of the menu, and for each what it reads (`httpGet`, one
  request at a time), what it compares and asks for (`Option`) and what it posts
  (`httpPost`). The node claims the earnings of earlier rounds before a bonding action
  (`autoClaimEarnings`), and the chain accepts what is sent or not. Amounts that are read may
  be negative where the wizard does not look (`readBigInt`). Blocks, rounds, redemptions and the node's
  view of locks and blocks move meanwhile.
* **NodeLife.** `main` step by step with its early returns, `glog.Fatal` and list of
  deferred calls; `StartEthServices` and `StopEthServices` over a Go map (any order); the
  goroutines of the block subscriptions, of the servers and of the availability check.
* **Database.** `InitDB` statement by statement with `Close` where one fails, and functions
  over the pool of one connection, which rows keep until they are closed.
* **MerkleTree.** `NewMerkleTree`, `buildMerkleTree` and `VerifyProof` as operators over
  sequences of hashes. TLC evaluates the assumption `MerkleProofsVerify` in the runs of
  `MCEthereum`: for every list of up to five hashes, duplicates are refused, and otherwise a
  proof verifies the leaf it is of and no other, and is no longer than the tree is high.

### Modules that join components

`MCPayments`, `MCOrchestrator`, `MCBroadcaster`, `MCEthereum` and `MCOperator` hold several
components whose models share no state. A behaviour is of one of them: `part` is chosen in
the initial state and the others keep theirs. Since no action of one reads or writes what
another holds, the states of a component in such a run are exactly those of its own
`Spec`, and nothing is lost by not interleaving them. In `MCBroadcaster` the part `"own"`
is `MediaServer` once more, for publishers with a manifest ID each. A part that does not
move has one initial state, so that none is counted twice.

Between the components and the larger MC modules stand modules that instantiate the
components of one area, with the assumptions on their constants and their properties under
the names the runs use:

| Module | Components | Below |
|---|---|---|
| `ChainServices` | `UnbondingService`, `RoundsService`, `ContractEvents` | `MCEthereum` |
| `RewardCalls` | `RewardService` | `MCEthereum` |
| `ChainAccess` | `NonceManager`, `EthClient` | `MCEthereum` |
| `BroadcastStreams` | `MediaServer`, `EventLog` | `MCBroadcaster` |
| `BroadcastSegments` | `Playlist`, `Storage` | `MCBroadcaster` |
| `SegmentCensus` | `Census` | `MCBroadcaster` |
| `OperatorNode` | `NodeLife`, `Database` | `MCOperator` |
| `OperatorConsole` | `Console` | `MCOperator` |

The theorems are about these modules, so that what is proved and what TLC checks is the
same definition; they speak of each component's own `Spec`.

Where components meet in the code, the module that a property is about has both sides:
`Recipient` has the requests and loops of `core/orchestrator.go`,
`MediaServer` the storage of `drivers/local.go`, `Playlist` the store and the playlists,
`UnbondingService` the database, both services and the web server, `EventLog` the log and
the lock of the connections, `Storage` the drivers of both nodes, `Console` the wizard, the
node it asks and the contracts.

Symmetry is used in safety runs only, over sets whose elements no constant tells apart.

## 3. What the runs check

| Run | Instance | Shows | States |
|---|---|---|---|
| `payments` | 1 session of winning tickets with nonces 1..2, 2 requests, 2 loops; 2 paid segments, 2 renditions; 2 orchestrators, 1 wanted, 2 changes of the pool over 2 intervals | `RecipientInv` (inductive invariant of the payments), `WorkedForPaidAndSigned`, `AskedWhileFresh` | 489,106 |
| `payments_progress` | 2 sessions, a restart; 2 segments off chain | `ImplementsLedger`, `WinningTicketTracked`, `FiledTicketRedeemed`, `SubmitReturns` | 45,305 |
| `orchestrator` | 3 requests, 2 manifests, 3 channels, 1 session allowed; 2 loops, 2 registrations, 3 tasks | `SessionsWithinLimit`, `LoopOwnsChannel`, `SegmentInOnePlace`, `ResultNeverBlocks` | 907,951 |
| `orchestrator_progress` | the same with one registration | `AnsweredUnlessTimeout`, `FailedTranscoderDropped` | 60,621 |
| `broadcaster` | 3 publishers of one manifest; 4 segments, window 2, cache 3; 3 segments, ring 2; 2 segments over every pair of storages, policies of an hour; 2 streams, one of which sends a segment, and an event log with room for two | `ListenerOfRegistered`, `ImplementsLiveStream`, `NothingAfterEnd`, `RingLatest`, `ListedIsStored`, `StoryInOrder` | 762,079 |
| `broadcaster_progress` | 2 publishers, one manifest or one each, 1 worker; 2 segments in 2 renditions; 2 streams, an event log with room for one | `LockGivenBack`, `OwnPublisherServed`, `SegmentFinishes`, `StreamRegisters` | 76,353 |
| `ethereum` | 3 calls, 2 managers; 2 locks, 3 blocks, a crash, a failed subscription; 3 rounds, 2 deadlines, 2 errors, 2 forgotten transactions; 2 orchestrators, rounds of 2 blocks, 4 blocks, a pool that changes; 2 past events of each kind and a new one; 2 callers, 2 gas prices | `UniqueNonces`, `PriceBump`, `ReplayComplete`, `OneOutstanding`, `WatchesAfterRace`, `IterationComplete`, `OwnValue` | 1,115,033 |
| `ethereum_progress` | 1 lock, a crash and a request of `/unbondingLocks`; 2 rounds | `UsedForGood`, `RewardCalled` | 145,930 |
| `operator` | 2 handlers, 2 requests, 4 transactions, 2 rounds, 1 round per claim; 3 options of the console for one token, 3 blocks; a node's life over 2 blocks and a failed subscription; 2 starts of the database, 2 goroutines with 2 operations each | `ClaimsFit`, `RestFits`, `MinedInTurn`, `LetThroughAccepted`, `BlocksAfterReplay`, `CleanReturn`, `NothingLeftOpen`, `ConnectionFreed` | 1,203,518 |
| `reveal` | as `payments` | `NoAcceptanceAfterReveal` is violated | |
| `unanswered` | as `orchestrator_progress` | `EverySegmentAnswered` is violated | |
| `two_streams` | 3 publishers, 1 worker | `OneStreamPerManifest` is violated | |

Every module has a `TypeOK`, and every MC module with several parts joins them as
`TypesOK`. They hold on the instances of the safety runs and are left out of the
configurations to keep these to the properties of interest; to check them again, add
`INVARIANT TypesOK`. `CountedOnce` of `Census`, which needs no more than the lock around its
counters, holds on the instance of `broadcaster` too.

`ImplementsLedger` and `ImplementsLiveStream` are refinements: the property is the whole
specification of `Ledger` or `LiveStream`. They say more than the invariants
`CreditedOnceWhileOpen` (a conjunct of `RecipientInv`) and `SourcePlayable` (which still has
its theorem): also the order of credits, that a session never opens again, that nothing is
credited after a restart, and that the window neither jumps nor goes back.

Three properties name what they do not cover, since the code does not look at it.
`LetThroughAccepted` leaves out tickets redeemed after the wizard looked, a round that begins
after the node has asked for the one to claim through, and negative amounts. `MinedInTurn`
leaves out what failed attempts of `/claimEarnings` gave up (`GivenUp`), which may be mined
later or fail. `OneOutstanding` and `RewardCalled` leave out sends that were reported as
failed (`lost`, `Gap`).

With `MaxNonce = 1` no transaction of the run `ethereum` takes a nonce that the Ethereum
node is ahead with; the theorem `NoncesAreUnique` has no such bound. `Close` of `Database`
closes what the fields of the database hold, where the code lists nine of them
(`common/db.go:210-239`).

Deadlock is not checked: every component stops when its bounded inputs are used up.

**Why the bounds are enough.** They are the smallest at which the races the properties are
about happen. Two requests and two loops give a ticket that passes `validRand` while a
redemption clears its nonce, and a ticket filed between the clearing and the loading; a
second rand with a restart gives tickets of an old secret. Three requests against one
session give one that holds it, one that checked early, and one whose channel is closed
under it. Two registrations give one that ends after the other has begun; three tasks a
result that comes after its call. Three publishers are one that runs, one that is refused
and ends it, and one that takes its place. Windows and caches of 2 and 3 wrap with four
segments, a ring of 2 with three. Two pools give two nodes that take the same turn, one by
the old list and one by the new. Three calls over two managers give two on the old one
while the third uses the new. One round per claim with two rounds makes every bonding
action claim first. A segment's story has several stages; a log with room for two
makes its threads wait while later ones are ready. A channel of one log and two past events
make an iterator's feed end before, while or after the last is taken. One token can be
bonded, unbonded and rebonded within three options. Two goroutines are enough for the one
connection of the database to be wanted while it is held; two starts find the file that a
failed or a successful start left. The theorems below remove these bounds for their properties.

## 4. Fairness

Assumed are what the Go runtime or a timer of the code gives, per goroutine, and two
conditions on the environment; weak fairness with one exception:

* goroutines run: a handler past its last refusal, a loop that redeems, `serveTranscoder`,
  the listener and the selection of a connection, the downloads and the goroutine that
  waits for them, the reward worker, `sendLoop`;
* timers expire: `HTTPTimeout` (`SubmitReturns`), `RemoteTranscoderTimeout`
  (`FailedTranscoderDropped`), the timeout of a transcode loop in `FiledTicketRedeemed`
  (no more segments come once the bound is used up);
* a call of a transcoder returns, or blocks for good on the `eof` channel (`CallReturns` in
  section 6): `AnsweredUnlessTimeout` has a loop that is stuck as an outcome;
* a download ends, or hangs: the client of `drivers/drivers.go` has no timeout, and
  `SegmentFinishes` has a download that hangs as an outcome;
* what is in the Ethereum node's pool, and has no gap below it, is mined (`RewardCalled`);
* a POST to the collector ends, with whatever result (`StreamRegisters`). This is a
  condition on the collector: the client of `sendLoop` has no timeout, and while a POST
  does not end a full channel keeps `connectionLock` from whoever wants it;
* strong fairness for the thread of a connection in `EventLog` (`StreamRegisters`): it waits
  for a mutex and for room on a channel, both of which others take and give back again and
  again. Go serves the senders of a channel in their order, and a `sync.Mutex` goes to the
  waiter that has been starved for a millisecond.

Not assumed: that a transcode loop times out (`AnsweredUnlessTimeout`,
`EverySegmentAnswered`), that the orchestrator answers (`SubmitReturns`), that publishers
stop, or that a connection stays up.

## 5. What is proved

`tlapm` checks these for every value of the constants that satisfies the assumptions of
the module (types of the constants, and that the "none" values are not members of the sets
they stand beside; for `TranscodeLoop` also that `Manifests` is finite, for `Playlist` that a
playlist is shorter than the cache behind it, for `Storage` that it is no longer, as
`LIVE_LIST_LENGTH` and `dataCacheLen` are). Every safety property of the passing runs has a theorem, the action
properties `UsedForGood`, `AskedWhileFresh` and `StoryInOrder` and the refinements
`ImplementsLedger` and `ImplementsLiveStream` among them. Each proof shows that `Init`
establishes an inductive invariant, that every action keeps it, one step per action, and
combines the steps with PTL; a refinement also shows that initial states map to initial
states and every step, from a state of the invariant, to a step or a stutter. What each
invariant adds to its property:

**PaymentsProofs.**
* `Recipient` (`TypeCorrect`, `RecipientInvariant`, `CreditedOnce`,
  `NoWinningTicketForgotten`). That a ticket is credited once needs `NonceRemembered` (the
  highest nonce accepted for an open rand is in `senderNonces`), which `clearSenderNonce`
  would break but for `RevealedBeforeForgotten` (a loop clears only rands it has
  invalidated); a restart keeps it because no rand of an older secret is open
  (`DrawnBeforeUse`). That no winning ticket is forgotten needs `RowsOnlyWhileRedeeming` and
  the order of two pairs of steps: a row is stored before its session is filed, and sessions
  are taken out before rows are loaded.
* `Recipient` implements `Ledger` (`LedgerImplemented`). Initial states map to initial states,
  and every step to a step of the ledger or a stutter: the draw of a rand to `Open`,
  `updateSenderNonce` to `Credit` while the session is open and to `Late` after, `Restart` to
  `End`, `updateInvalidRands` to `Reveal`. That `Credit` finds all credited nonces lower is
  `NonceRemembered` again, and that nothing is credited for an ended session is that a
  request does not survive a restart. That what a loop reveals was open needs one invariant
  more, `DrawnBeforeFiled`: what is stored, filed, loaded or revealed is of a
  rand that was drawn. It is proved beside `RecipientInv`, over the path of a ticket from
  the request to the loop.
* `SegmentExchange` (`AlwaysPaidAndSigned`). `ExchangeInv` says what `ServeSegment` knows of
  a segment at each of its steps; a segment is submitted once, so no second handler starts
  from the beginning.
* `Discovery` (`AlwaysAskedWhileFresh`). `FreshInv`: whoever the walk of the linked list has
  met was in the pool during the present interval, and a row's `updatedAt` is no later than
  the last time its orchestrator was in the pool.

**OrchestratorProofs.**
* `TranscodeLoop` (`LoopInvariant`, `WithinLimit`, `OneLoopPerManifest`,
  `NoSegmentLostOrDoubled`). The four invariants are inductive only together: a loop closes
  the channel it finds in the map, and that this is its own follows from `LoopOwnsChannel`,
  which in turn bounds the sessions.
* `RemoteTranscoder` (`ResultNeverEverBlocks`). A task's channel has room for one result;
  `RemoteInv` says that a task ID is in one place: about to be sent by one loop, or with one
  transcoder, once, or answered (`OneCarrier` and the clauses beside it).
* `Census` (`RingAlwaysLatest`). `RingInv`: the ring is empty, or fills from slot 0, or is
  full and turns, and going back from its end one meets the latest segments in their order.

**BroadcastStreamsProofs.**
* `MediaServer` (`EofAlwaysHasListener`), for any assignment of manifests to publishers, so
  that it covers publishers of one manifest and publishers with one each. `ListenInv` says
  for each step of a connection whether it is registered and whether its listener is there.
* `EventLog` (`StoryAlwaysInOrder`). `LogInv` follows a segment's reports from the last one
  the collector was told, through the one being posted and those on the channel, to the one
  a thread waits to hand over: their ranks never fall, and none is above the stage the segment
  is at. The segmenter reports before the segment has a goroutine of its own, that goroutine
  after, and those of its renditions last; only the last may have several reports to hand over
  at once, all of one rank.

**BroadcastSegmentsProofs.**
* `Playlist` (`NothingEverAfterEnd`, `SourceAlwaysPlayable`). `SourceInv`: the cache of the
  source is a window of the sequence numbers that ends with the last segment saved, its
  playlist one that ends with the last listed and begins no earlier, and there is room in it
  when the next is appended. The cache has to be longer than the window: it drops its
  oldest when the next is saved, and the playlist only after that.
* `Playlist` implements `LiveStream` (`LiveStreamImplemented`). `SourceInv` gives that the
  window is whole before and after a step (`WindowWhole`: all that is served can be fetched,
  and is numbered from `SeqNo` on); what is left is that `RemoveOldestSource` and
  `InsertSource` change it by one segment at one end, and that renditions have lists of their
  own.
* `Storage` (`ListedAlwaysStored`). `StorageInv` has a case for buckets (what was answered
  for is there) and one for memory (windows as in `Playlist`).

**ChainServicesProofs.**
* `UnbondingService` (`ReplayAlwaysComplete`, `UsedAlwaysForGood`). `Recorded`: as far as each
  of the three replays has come (`upTo`, wherever it was cut short), what it met is in the
  table, or among the logs still to be handled; a row is never taken out nor made unused
  again (`Grows`).
* `RoundsService` (`AlwaysWatchesAfterRace`). `RoundsInv`: the round in which a node's call was
  mined, or reverted because the round was initialized, is no later than the last round
  initialized, so in that round the second look finds it initialized.
* `ContractEvents` (`IterationAlwaysComplete`). `EventInv`: what the callback got, what is on
  the channel and what the goroutine still has are one sequence without gaps, and `Next`
  takes the end of the goroutine for the end of the logs only once the channel is empty.

**OperatorNodeProofs.**
* `NodeLife` (`BlocksAlwaysAfterReplay`, `AlwaysCleanReturn`). `ReplayInv` has what the order
  of the services is for: `BlockService` is created with `UnbondingService` and started after
  all others, and the goroutine that handles headers exists only then. `ReturnInv` gives the
  list of deferred calls at every step of `main`, and from it that the database is open
  exactly while calls are deferred, and that `StopEthServices` is deferred, under way or done
  whenever a service has been started.
* `Database` (`ConnectionAlwaysFreed`, `FailureAlwaysClosesAll`, `NothingEverLeftOpen`). A
  function that reads rows took the connection when nobody had it, and every way out of the
  rows gives it back. Whatever is open has a field by which `Close` finds it (`OpenHeld`), and
  what is open is the database and the statements up to the one `InitDB` is at (`StartInv`).
* `RewardService` (`AlwaysOneOutstanding`). `RewardInv`: what the pool holds is of a call whose
  send was reported as failed, or of the nonce the service waits for, or else of the one it
  keeps as `pendingTx`; and these nonces are not used yet.

**OperatorConsoleProofs.**
* `Console` (`LetThroughAlwaysAccepted`). `StillTrue`: what the wizard has read of the
  operator's own account holds until it posts, funds that redeemed tickets take apart, and
  the block it has read is not ahead of the chain; `Claimed`: when a bonding action is sent in
  the round the node has asked for, the rounds left fit in one claim; `WillRead`: what
  an option compares it has read, or will read before it asks; `Filled`: a form that is sent
  passed the comparisons.
* `NonceManager` (`NoncesAreUnique`, `ReplacementsPayEnough`). The first rests on the lock
  (`LockHeld`) and on the fact that a manager's nonce is above all nonces sent with it except
  that of the call which holds the lock; the Ethereum node's answers are arbitrary. The
  second is the arithmetic of `minGasPrice`, for every price.
* `EthClient` (`ValuesNeverMix`). `FundDeposit` and the others set the value in a copy of the
  session's options, which only the call has; the sessions' own value stays 0 through every
  `SetGasInfo`. The client is used only with its account unlocked.

**StakingProofs.** `StakingTypes`, `ClaimsAlwaysFit`, `RestAlwaysFits`,
`AlwaysMinedInTurn`. Two inductive invariants beside `TypeOK`. `StakingInv`: the
`lastClaimRound` a handler has in hand is never ahead of the contract's, the claim it waits
for is the one `MaxClaims` further on, and claims that were mined have been counted; since
`lastClaim` only grows, a pending claim can only become smaller. `TurnInv`: while a handler
goes on, every transaction it has sent over all its attempts, except one it waits for and
those it gave up, has been mined and has not failed.

**Only model-checked.** The liveness properties: `FiledTicketRedeemed`, `SubmitReturns`,
`AnsweredUnlessTimeout`, `FailedTranscoderDropped`, `LockGivenBack`, `OwnPublisherServed`,
`SegmentFinishes`, `StreamRegisters` and `RewardCalled`. They need fairness and `ENABLED`,
which the prover does not handle. So is `MerkleProofsVerify`: `MerkleTree` is recursive over
its data, and facts about what a recursion computes for every input need an induction the
installed provers cannot carry out.

## 6. Where the code and its own words differ

Three runs show one each (`findings` in `PROJECT.json` quotes the lines):

* `reveal`: `ReceiveTicket` checks `validRand` and takes the nonce later; a redemption in
  between reveals the rand and clears its nonce, and the ticket is accepted.
* `unanswered`: a segment put in the channel of a loop that has left its `select` is never
  answered, and its request waits for ever.
* `two_streams`: a refused publisher ends the running stream of its manifest ID, and
  another can start beside it.

The modules state more of what comments, docs or tests of the repository say and TLC
refutes. These statements are not part of a run; the instance that refutes each is given
so that it can be repeated.

| Statement (module) | What happens | Instance |
|---|---|---|
| `ErrorsThroughBody` (TranscodeLoop) | the send on a closed channel panics after the 200 OK | as `orchestrator` |
| `CallReturns` (RemoteTranscoder) | the third call that fails on one registration blocks on `eof` | 3 loops, 1 transcoder, 3 tasks, fair |
| `ConnectedTranscoderKept` (RemoteTranscoder) | a registration that ends drops its successor | 1 loop, 2 transcoders, 1 task |
| `AssignedWhileRegistered`, `StorageIndexed` (MediaServer) | a stream under the same manifest ID gets the older one's session or an ended storage session | 2 publishers of one manifest, 1 worker, no limit |
| `ConnectionsWithinLimit` (MediaServer) | the limit is checked before, not when, a connection is entered | own manifests, limit 1 |
| `PlaylistInOrder`, `InsertedSegmentListed` (Playlist) | renditions are listed as they arrive; two inserts may find room for one | 3 segments, window 2, cache 3 |
| `SlowNotTranscoded`, `UploadErrorReported` (SegmentExchange) | a slow download is refused and transcoded; an upload error is hidden by an inner `err` | 1 segment, 2 profiles |
| `GetOrchestratorsReturns` (Discovery) | a response waits for a reader with `respLock` held, the reader for `respLock` | 2 orchestrators, 1 wanted, fair |
| `AddressLocked`, `NoGaps` (NonceManager) | two managers lock the account independently; a failed send is counted as a nonce used | 2 calls; 2 managers, or 1 |
| `NoPreviousAttempt` (RewardService) | a send that was reported as failed may be in the pool, and is not kept as `pendingTx` | 2 rounds, 1 error |
| `HistoryRecorded` (UnbondingService) | the replay includes the last block seen and ends at a lock that is there | a restart in a block with a lock |
| `UseRecorded` (UnbondingService) | a lock is recorded as unused after its use was handled: the row was missing then | 2 locks, 3 blocks, a crash, a request |
| `KeepsWatching` (RoundsService) | after a failed call the service looks at the current round and stops watching | 2 nodes, rounds of 2 blocks, wait 1, 4 blocks |
| `TurnUnique` (RoundsService) | two nodes ask for the pool before and after it changes, and take the same turn | as `ethereum` |
| `PreviousProcessed` (RoundsService) | the turn is that of a queued header, not of the present block | rounds of 4, wait 2, 6 blocks |
| `RateBounded`, `LateNotRated`, `AllAppeared` (Census) | outcomes without an emergence count only above; late segments are rated; `allSuccess` is always true | 2 segments, ring 3 |
| `BondingClaims` (Staking) | a round passes between the claims and the bonding action | as `operator` |
| `BondCovered` (Staking) | two bonds, or one that timed out and another, share an allowance | as `operator` |
| `InFlightExact` (EventLog) | a segment that no orchestrator takes is counted down although it was not counted up | 2 streams, one sending a segment, room for 2 |
| `CreatedThenStarted` (EventLog) | the first segment may be logged before the stream's creation | the same |
| `OneErrorPerList` (EventLog) | `gotErr` is set after the event was handed over, so the goroutines of two renditions both report | the same, 2 renditions |
| `ResultKeptInMemory` (Storage) | results that are listed late have left the memory session | 2 segments, cache 1, window 1 |
| `SessionOutlastsStream` (Storage) | the policy of a stream's storage session expires and is not renewed | policies of 1 hour, 2 hours |
| `ReplayedAll` (ContractEvents) | an iterator that fails looks like one that is done: its error is not asked for | channel of 1, 2 past events |
| `FeedEnds` (ContractEvents) | iterators are not closed; what feeds one that was left waits for ever | the same, and a new event |
| `NoLogMissed` (ContractEvents) | an event between the replay, or a failed subscription, and the next subscription is not delivered | the same |
| `GasInfoTrue` (EthClient) | a `SetGasInfo` that fails half way has bound some contracts with the new price | 2 prices |
| `UsesGivenAccount` (EthClient) | an account that the key store does not have is replaced by a new one | any |
| `ReadAtOnce` (EthClient) | `GetTranscoder` and `GetDelegator` ask several times while blocks come | 1 change |
| `SomethingToEnter` (Console) | `unbond` asks for a positive amount of an account with no stake, again and again | as `operator` |
| `LockAccepted` (Console) | a lock that was used is offered until the node has seen its use | as `operator`, 4 options |
| `BondToSomebody` (Console) | an identifier that is not in the list of orchestrators stands for the zero address | as `operator` |
| `ServicesStopped` (NodeLife) | `StopEthServices` ends at the first service that refuses: `BlockService` and `UnbondingService` always do | as `operator` |
| `SubscriptionsTrue` (NodeLife) | the web server asks for `RoundService`, the service's name is `RoundsService` | as `operator` |
| `NoPanic` (NodeLife) | two services use the event monitor's map at once; a header meets the channel that `RoundsService.Stop` closed | as `operator` |
| `LoadComplete` (Database) | rows that end with an error end like rows that are done | as `operator` |
| `NoPanic` (Database) | `rows.Close` is deferred before the error is looked at, and `rows` is nil | as `operator` |

## 7. Files

Component modules as in section 1; the modules that join them as in section 2; `...Proofs`
hold the theorems; `MC...` modules and `.cfg` files are the runs. Operators marked "Mutant" change one definition the
way a slip in the code would, and stand before the definition they change; `PROJECT.json`
names, for every property of a passing run, the one that breaks it.

    tlc -config MCPayments.cfg MCPayments
    tlapm StakingProofs.tla

## 8. Not modelled

* `eth/contracts/`: generated. Of some twelve thousand lines of bindings, the iterators and
  subscriptions of the three events the node follows are in `ContractEvents`. The rest
  repeats the same text for other events, which nobody follows, or passes one call on to
  the contract; a model of it would say nothing that those do not. The contracts'
  behaviour is external.
* `net/lp_rpc.pb.go`: generated messages without state.
* `drivers/ipfs.go`, `ipfs/`: no caller in the node. The signing of a policy in
  `drivers/s3.go` and `gs.go` is abstracted to its expiry.
* `cmd/devtool`, `cmd/simple_auth_server`, and the tables that `livepeer_cli` prints:
  process and terminal I/O.
* `server/cert.go`, `pm/signer.go`, `pm/sigverifier.go`: keys, certificates and signatures;
  they succeed or fail.
* In `monitor/census.go` the counters that only add up, the tags and the exporter; in
  `monitor/events.go` durations and the orchestrator's events, which nothing else reads.
* In `cmd/livepeer/livepeer.go` the values of flags, the port mapping and directories.
* Of `server/webserver.go`, handlers that read one value and change nothing, the profiles of
  `/setBroadcastConfig` and the in-memory service URI; `SubscribeNewRound` and `watchLogs`
  (no caller outside tests).
* Inside the m3u8 library, the steps of `Remove`, `AppendSegment` and `Encode`: each is one
  step here, although nothing locks a playlist against its readers.
* Slashing, and amounts below zero in the requests of `Staking` (the handlers pass them on,
  and the contracts, whose amounts are unsigned, refuse them).
* `eth/types/` other than the Merkle tree, `eth/helpers.go`, `common/util.go`: conversions
  and formats, pure functions of one step.
* `pm/stub.go`, `eth/stubclient.go`, `common/testutil.go`: test doubles.

## 9. Plan

1. **Broadcaster, composed**: `MediaServer`, `Playlist` and `Storage` over one storage
   session, so that `LiveStream` also holds over the publishers that follow each other under
   a manifest ID.
2. **Redemption in the ledger**: `Ledger` with the states "redeemed" and "given up" of a
   winning ticket, once the broker's transactions are followed to their end by the code.
3. **Events end to end**: `ContractEvents` below `UnbondingService`, in place of the latter's
   own delivery of events.
