------------------------------ MODULE MCPayments ------------------------------
(****************************************************************************)
(* What a broadcaster and an orchestrator do with each other: tickets        *)
(* (Recipient), the exchange of segments (SegmentExchange) and the search    *)
(* for orchestrators (Discovery).  The three share no variable: part says    *)
(* which of them a behaviour is of, and the others keep their initial state. *)
(****************************************************************************)
EXTENDS Recipient, TLC

CONSTANTS
    Parts,                                                  \* parts that a run is about
    m1,                                                     \* the stream of Recipient
    Segments, NumProfiles, Onchain,                         \* of SegmentExchange
    Orchs, StartPool, NumOrchestrators, MaxAge, MaxTime, MaxChanges, None  \* of Discovery

VARIABLES
    part,
    senderNonce, nonce, bpc, outcome, opc, highest, paid, status, uploaded, result,
    slow, corrupt, transcoded, uploadFailed,
    now, pool, changes, lastIn, rpc, tAddr, found, updatedAt, pc, uris, orchInfos,
    numResp, respLock, gpc, timedOut, returnOrchs

X == INSTANCE SegmentExchange
D == INSTANCE Discovery

exchangeVars == <<senderNonce, nonce, bpc, outcome, opc, highest, paid, status, uploaded,
                  result, slow, corrupt, transcoded, uploadFailed>>
discoveryVars == <<now, pool, changes, lastIn, rpc, tAddr, found, updatedAt, pc, uris,
                   orchInfos, numResp, respLock, gpc, timedOut, returnOrchs>>

ASSUME PaymentsAssumption ==
    /\ Parts \subseteq {"tickets", "exchange", "discovery"}
    /\ X!SegmentExchangeAssumption
    /\ D!DiscoveryAssumption

\* Every PM session pays for stream m1, and every loop is of it.
MCManifestOf == [r \in Rands |-> m1]
MCLoopFor == [l \in Loops |-> m1]
MCWinning == Ticket
\* All tickets but the first of a session.
MCLaterWins == {t \in Ticket : t.nonce > 1}

\* All orchestrators are in the pool, in some order.
MCStartPool ==
    CHOOSE p \in [1 .. Cardinality(Orchs) -> Orchs] : {p[i] : i \in DOMAIN p} = Orchs

Symmetry == Permutations(Handlers) \union Permutations(Loops)

MCInit == Init /\ X!Init /\ D!Init /\ part \in Parts

MCNext ==
    \/ part = "tickets" /\ Next /\ UNCHANGED <<part, exchangeVars, discoveryVars>>
    \/ part = "exchange" /\ X!Next /\ UNCHANGED <<part, vars, discoveryVars>>
    \/ part = "discovery" /\ D!Next /\ UNCHANGED <<part, vars, exchangeVars>>

MCSpec == MCInit /\ [][MCNext]_<<part, vars, exchangeVars, discoveryVars>>

\* The fairness of each part, as in its FairSpec.
MCFairSpec ==
    /\ MCSpec
    /\ \A h \in Handlers :
          WF_vars(part = "tickets" /\ (updateSenderNonce(h) \/ StoreWinningTicket(h)
                                       \/ cachePMSessionID(h)))
    /\ \A l \in Loops : /\ WF_vars(part = "tickets" /\ LoopTimeout(l))
                        /\ WF_vars(part = "tickets" /\ Redeem(l))
    /\ \A s \in Segments : WF_exchangeVars(part = "exchange" /\ X!Broadcaster(s))
    /\ WF_discoveryVars(part = "discovery" /\ D!Timeout)
    /\ WF_discoveryVars(part = "discovery" /\ D!ReturnOrchs)
    /\ \A o \in Orchs : WF_discoveryVars(part = "discovery" /\ D!Respond(o))

-----------------------------------------------------------------------------
\* Shapes of the state of all parts, as each module states them.
TypesOK == TypeOK /\ X!TypeOK /\ D!TypeOK

\* ServeSegment gives TranscodeSeg only segments that were paid and are what the
\* broadcaster signed.
WorkedForPaidAndSigned == X!WorkedForPaidAndSigned

\* SubmitSegment returns, whatever the orchestrator does.
SubmitReturns == X!SubmitReturns

\* An orchestrator that left the pool is not asked by GetOrchestrators a day later.
AskedWhileFresh == [][D!AsksFresh]_discoveryVars
=============================================================================
