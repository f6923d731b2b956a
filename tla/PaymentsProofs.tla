--------------------------- MODULE PaymentsProofs ----------------------------
(****************************************************************************)
(* The exchange of segments (SegmentExchange), the search for orchestrators  *)
(* (Discovery) and the tickets (Recipient), for every number of segments,    *)
(* profiles, orchestrators, changes of the pool, sessions, tickets, request  *)
(* handlers, transcode loops and restarts.                                   *)
(****************************************************************************)
EXTENDS MCPayments, Integers, Sequences, TLAPS

\* A part of a sequence
LEMMA PartOfSequence ==
    ASSUME NEW T, NEW q, NEW m \in Int, NEW n \in Int, \A i \in m .. n : q[i] \in T
    PROVE  /\ SubSeq(q, m, n) \in Seq(T) /\ Len(SubSeq(q, m, n)) = IF m <= n THEN n - m + 1 ELSE 0
           /\ \A i \in 1 .. n - m + 1 : SubSeq(q, m, n)[i] = q[m + i - 1]
OBVIOUS

\* One sequence after another
LEMMA Joined ==
    ASSUME NEW T, NEW q \in Seq(T), NEW r \in Seq(T)
    PROVE  q \o r \in Seq(T)
OBVIOUS

-----------------------------------------------------------------------------
(* SegmentExchange *)

\* Where the handler of a segment is past its payment, and past its hash.
Charged == {"read", "download", "hash", "transcode", "upload", "respond"}
Worked == {"upload", "respond", "done"}

\* What ServeSegment knows of a segment, by the step it is at.  A segment is submitted
\* once, so that no second handler starts from the beginning.
ExchangeInv ==
    /\ opc \in [Segments -> Charged \union {"none", "creds", "payment", "done"}]
    /\ bpc \in [Segments -> {"idle", "header", "body", "done"}]
    /\ \A s \in Segments :
          /\ bpc[s] = "idle" => opc[s] = "none"
          /\ opc[s] \in Charged => s \in paid
          /\ opc[s] = "transcode" => s \notin corrupt
          /\ s \in transcoded => opc[s] \in Worked
    /\ WorkedForPaidAndSigned
    /\ transcoded \subseteq Segments

LEMMA ExchangeInit == X!Init => ExchangeInv
BY Zenon DEF X!Init, ExchangeInv, Charged, Worked, WorkedForPaidAndSigned, X!WorkedForPaidAndSigned

LEMMA ExchangeStep == ExchangeInv /\ [X!Next]_X!vars => ExchangeInv'
<1> SUFFICES ASSUME ExchangeInv, [X!Next]_X!vars PROVE ExchangeInv'
  BY Zenon
<1> USE DEF ExchangeInv, Charged, Worked, WorkedForPaidAndSigned, X!WorkedForPaidAndSigned,
            X!payVars, X!bcastVars, X!dataVars, X!workVars, X!Goto
<1>1. ASSUME NEW s \in Segments, X!SubmitSegment(s) PROVE ExchangeInv'
  BY <1>1, Zenon DEF X!SubmitSegment
<1>2. ASSUME NEW s \in Segments, X!Broadcaster(s) PROVE ExchangeInv'
  BY <1>2, Zenon DEF X!Broadcaster, X!Timeout, X!ReceiveHeader, X!ReceiveBody, X!Return
<1>3. ASSUME NEW s \in Segments, X!verifySegCreds(s) \/ X!ProcessPayment(s) \/ X!ReadBody(s)
      PROVE  ExchangeInv'
  BY <1>3 DEF X!verifySegCreds, X!ProcessPayment, X!ReadBody, X!Refuse
<1>4. ASSUME NEW s \in Segments, X!GetSegmentData(s) PROVE ExchangeInv'
  BY <1>4, Zenon DEF X!GetSegmentData, X!Refuse
<1>5. ASSUME NEW s \in Segments, X!CheckHash(s) PROVE ExchangeInv'
  BY <1>5, Zenon DEF X!CheckHash, X!Refuse
<1>6. ASSUME NEW s \in Segments, X!TranscodeSeg(s) PROVE ExchangeInv'
  BY <1>6, Zenon DEF X!TranscodeSeg, X!Respond
<1>7. ASSUME NEW s \in Segments, X!SaveData(s) \/ X!WriteResult(s) PROVE ExchangeInv'
  BY <1>7, Zenon DEF X!SaveData, X!WriteResult, X!Respond
<1>8. CASE UNCHANGED X!vars
  BY <1>8, Zenon DEF X!vars
<1> QED
  BY <1>1, <1>2, <1>3, <1>4, <1>5, <1>6, <1>7, <1>8, Zenon DEF X!Next, X!ServeSegment

\* ServeSegment gives TranscodeSeg only segments that were paid and are what the
\* broadcaster signed, whatever order the requests come in and whatever fails.
THEOREM AlwaysPaidAndSigned == X!Spec => []WorkedForPaidAndSigned
<1>1. X!Spec => []ExchangeInv
  BY ExchangeInit, ExchangeStep, PTL DEF X!Spec
<1>2. ExchangeInv => WorkedForPaidAndSigned
  BY Zenon DEF ExchangeInv
<1> QED
  BY <1>1, <1>2, PTL

-----------------------------------------------------------------------------
(* Discovery *)

\* Who is in the pool, or was met by the refresh under way, was there in this interval;
\* a row is not younger than the last interval its orchestrator was in the pool.
FreshInv ==
    /\ now \in Nat /\ lastIn \in [Orchs -> Nat]
    /\ pool \in Seq(Orchs)
    /\ DOMAIN updatedAt = Orchs
    /\ \A o \in Orchs :
          /\ lastIn[o] <= now
          /\ D!InPool(o) => lastIn[o] = now
          /\ rpc = "walk" /\ (o \in found \/ o = tAddr) => lastIn[o] = now
          /\ updatedAt[o] # None => updatedAt[o] \in Nat /\ updatedAt[o] <= lastIn[o]

LEMMA FreshInit == D!Init => FreshInv
BY PaymentsAssumption, SMTT(30) DEF D!DiscoveryAssumption, FreshInv, D!Init

LEMMA FreshStep == FreshInv /\ [D!Next]_D!vars => FreshInv'
<1> SUFFICES ASSUME FreshInv, [D!Next]_D!vars PROVE FreshInv'
  BY Zenon
<1> USE DEF FreshInv, D!InPool, D!Members, D!chainVars, D!cacheVars, D!callVars, D!respVars
<1>1. ASSUME NEW p \in Seq(Orchs), D!Change(p) PROVE FreshInv'
  BY <1>1 DEF D!Change, D!Seen
<1>2. CASE D!Tick
  BY <1>2 DEF D!Tick, D!Seen
<1>3. CASE D!GetFirstTranscoderInPool
  <2>1. tAddr' \in Orchs => D!InPool(tAddr')
    BY <1>3, PaymentsAssumption DEF D!GetFirstTranscoderInPool, D!First, D!DiscoveryAssumption
  <2> QED
    BY <1>3, <2>1 DEF D!GetFirstTranscoderInPool
<1>4. CASE D!RegisteredTranscoders
  <2> DEFINE after == {i \in 2 .. Len(pool) : pool[i - 1] = tAddr}
  <2>1. None \notin Orchs
    BY PaymentsAssumption, Zenon DEF D!DiscoveryAssumption
  <2>2. tAddr' \in Orchs => D!InPool(tAddr')
    <3>1. CASE after = {}
      BY <1>4, <2>1, <3>1, Zenon DEF D!RegisteredTranscoders, D!GetNextTranscoderInPool
    <3>2. CASE after # {}
      <4>1. (CHOOSE i \in after : TRUE) \in DOMAIN pool
        BY <3>2
      <4>2. tAddr' = pool[CHOOSE i \in after : TRUE]
        BY <1>4, <3>2, Zenon DEF D!RegisteredTranscoders, D!GetNextTranscoderInPool
      <4> QED
        BY <4>1, <4>2, Zenon
    <3> QED
      BY <3>1, <3>2, Zenon
  <2> QED
    BY <1>4, <2>1, <2>2 DEF D!RegisteredTranscoders
<1>5. CASE D!WalkFails \/ D!cacheDBOrchs
  BY <1>5 DEF D!WalkFails, D!cacheDBOrchs
<1>6. CASE D!GetOrchestrators \/ D!Timeout \/ D!ReturnOrchs
  BY <1>6, Zenon DEF D!GetOrchestrators, D!Timeout, D!ReturnOrchs
<1>7. ASSUME NEW o \in Orchs, D!Respond(o) PROVE FreshInv'
  BY <1>7 DEF D!Respond, D!getOrchInfo, D!SignalMain, D!Unlock
<1>8. ASSUME NEW o \in Orchs, D!Leave(o) \/ D!Join(o) PROVE FreshInv'
  <2>1. ASSUME NEW m \in Int, NEW n \in Int, m >= 1, n <= Len(pool)
        PROVE  SubSeq(pool, m, n) \in Seq(Orchs)
    BY <2>1, PartOfSequence
  <2>2. ASSUME D!Leave(o) PROVE FreshInv'
    <3>1. PICK i \in 1 .. Len(pool) :
             D!Change(SubSeq(pool, 1, i - 1) \o SubSeq(pool, i + 1, Len(pool)))
      BY <2>2, Zenon DEF D!Leave
    <3>2. SubSeq(pool, 1, i - 1) \in Seq(Orchs) /\ SubSeq(pool, i + 1, Len(pool)) \in Seq(Orchs)
      BY <2>1
    <3> QED
      BY <1>1, <3>1, <3>2, Joined, Zenon
  <2>3. ASSUME D!Join(o) PROVE FreshInv'
    <3>1. PICK i \in 0 .. Len(pool) :
             D!Change(SubSeq(pool, 1, i) \o <<o>> \o SubSeq(pool, i + 1, Len(pool)))
      BY <2>3, Zenon DEF D!Join
    <3>2. SubSeq(pool, 1, i) \in Seq(Orchs) /\ SubSeq(pool, i + 1, Len(pool)) \in Seq(Orchs)
      BY <2>1
    <3>3. SubSeq(pool, 1, i) \o <<o>> \in Seq(Orchs)
      BY <3>2, Joined
    <3> QED
      BY <1>1, <3>1, <3>2, <3>3, Joined, Zenon
  <2> QED
    BY <1>8, <2>2, <2>3, Zenon
<1>9. CASE UNCHANGED D!vars
  BY <1>9, Zenon DEF D!vars
<1> QED
  BY <1>2, <1>3, <1>4, <1>5, <1>6, <1>7, <1>8, <1>9, Zenon DEF D!Next, D!Refresh

\* GetOrchestrators does not ask an orchestrator a day after it has left the pool,
\* however often the pool changes while a refresh walks it and whichever refreshes fail.
THEOREM AlwaysAskedWhileFresh == D!Spec => AskedWhileFresh
<1>1. D!Spec => []FreshInv
  BY FreshInit, FreshStep, PTL DEF D!Spec
<1>2. FreshInv /\ [D!Next]_D!vars => [D!AsksFresh]_discoveryVars
  <2> SUFFICES ASSUME FreshInv, D!Next, NEW o \in uris' \ uris PROVE lastIn[o] + MaxAge >= now
    BY Zenon
       DEF D!AsksFresh, D!vars, discoveryVars, D!chainVars, D!cacheVars, D!callVars, D!respVars
  <2>1. D!GetOrchestrators /\ uris' # uris
    BY ZenonT(30)
       DEF D!Next, D!Refresh, D!Respond, D!Tick, D!GetFirstTranscoderInPool,
           D!RegisteredTranscoders,
           D!WalkFails, D!cacheDBOrchs, D!Timeout, D!ReturnOrchs, D!Leave, D!Join, D!Change,
           D!getOrchInfo, D!SignalMain, D!Unlock, D!chainVars, D!cacheVars, D!callVars, D!respVars
  <2>2. o \in Orchs /\ updatedAt[o] # None /\ updatedAt[o] + MaxAge >= now
    BY <2>1, Zenon DEF D!GetOrchestrators, D!SelectOrchs, D!NewOrchestratorPool
  <2>3. MaxAge \in Nat
    BY PaymentsAssumption, Zenon DEF D!DiscoveryAssumption
  <2> QED
    BY <2>2, <2>3 DEF FreshInv
<1> QED
  BY <1>1, <1>2, PTL DEF D!Spec, AskedWhileFresh

-----------------------------------------------------------------------------
(* Recipient *)

\* The names under which Recipient groups its variables and its actions.
USE RecipientAssumption DEF senderVars, randVars, handlerVars, loopVars, history, vars

\* A ticket names a recipientRand and a nonce within the bound.
LEMMA TicketFields ==
    /\ \A t \in Ticket : t.rand \in Rands /\ t.nonce \in 1..MaxNonce
    /\ \A r \in Rands, n \in 1..MaxNonce : [rand |-> r, nonce |-> n] \in Ticket
BY Zenon DEF Ticket

\* Counting one more ticket keeps a table of counts one.
LEMMA CountOneMore ==
    ASSUME NEW f \in [Ticket -> Nat], NEW t \in Ticket
    PROVE  [f EXCEPT ![t] = @ + 1] \in [Ticket -> Nat]
OBVIOUS

\* After a restart no rand that was drawn before is open: its secret is gone.
LEMMA RestartOpensNothing ==
    ASSUME TypeOK, DrawnBeforeUse, Restart, NEW r \in Rands
    PROVE  randEpoch'[r] # epoch'
<1>1. randEpoch[r] \in Nat /\ epoch \in Nat /\ randEpoch[r] <= epoch
  BY RecipientAssumption DEF TypeOK, DrawnBeforeUse
<1>2. randEpoch' = randEpoch /\ epoch' = epoch + 1
  BY Zenon DEF Restart
<1> QED
  BY ONLY <1>1, <1>2

\* Every state respects the declared types; in particular a handler that is at
\* work holds a ticket.
THEOREM TypeCorrect == Spec => []TypeOK
<1> USE TicketFields DEF TypeOK, NoRows
<1>1. Init => TypeOK
  BY DEF Init, InitVolatile
<1>2. TypeOK /\ [Next]_vars => TypeOK'
  <2> SUFFICES ASSUME TypeOK, [Next]_vars PROVE TypeOK'
    BY Zenon
  <2>1. ASSUME NEW r \in Rands, StartSession(r) PROVE TypeOK'
    BY <2>1, SMTT(30) DEF StartSession
  <2>2. ASSUME NEW r \in Rands, CreateTicket(r) PROVE TypeOK'
    BY <2>2 DEF CreateTicket
  <2>3. ASSUME NEW h \in Handlers, NEW t \in Ticket, validRand(h, t) PROVE TypeOK'
    BY <2>3, Zenon DEF validRand, ValidateTicket
  <2>4. ASSUME NEW h \in Handlers, updateSenderNonce(h) PROVE TypeOK'
    <3>1. /\ hticket[h] \in Ticket
          /\ hticket[h].rand \in Rands /\ hticket[h].nonce \in 0..MaxNonce
      BY <2>4 DEF updateSenderNonce
    <3>2. accepted' \in [Ticket -> Nat]
      <4>1. \/ accepted' = accepted
            \/ accepted' = [accepted EXCEPT ![hticket[h]] = @ + 1]
        BY <2>4, Zenon DEF updateSenderNonce
      <4>2. accepted \in [Ticket -> Nat] /\ hticket[h] \in Ticket
        BY <3>1, Zenon
      <4>3. [accepted EXCEPT ![hticket[h]] = @ + 1] \in [Ticket -> Nat]
        BY ONLY <4>2, CountOneMore, Zenon
      <4>4. QED BY ONLY <4>1, <4>2, <4>3, Zenon
    <3>3. senderNonces' \in [Rands -> 0..MaxNonce]
      BY <2>4, <3>1, Zenon DEF updateSenderNonce
    <3>4. CASE Finish(h)
      BY <2>4, <3>2, <3>3, <3>4, Zenon DEF updateSenderNonce, Finish
    <3>5. CASE /\ hpc' = [hpc EXCEPT ![h] = IF hticket[h] \in Winning
                                            THEN "store" ELSE "transcode"]
               /\ UNCHANGED hticket
      BY <2>4, <3>1, <3>2, <3>3, <3>5, Zenon DEF updateSenderNonce
    <3>6. QED BY <2>4, <3>4, <3>5, Zenon DEF updateSenderNonce
  <2>5. ASSUME NEW h \in Handlers, StoreWinningTicket(h) PROVE TypeOK'
    <3>1. hticket[h] \in Ticket
      BY <2>5, Zenon DEF StoreWinningTicket
    <3>2. winningTickets' \in [Ticket -> Nat] /\ abandoned' \subseteq Ticket
      BY <2>5, <3>1, SMTT(30) DEF StoreWinningTicket
    <3>3. CASE Finish(h)
      BY <2>5, <3>2, <3>3, Zenon DEF StoreWinningTicket, Finish
    <3>4. CASE UNCHANGED hticket
      BY <2>5, <3>1, <3>2, <3>4, SMTT(60) DEF StoreWinningTicket, Finish
    <3>5. QED BY <2>5, <3>3, <3>4, Zenon DEF StoreWinningTicket
  <2>6. ASSUME NEW h \in Handlers, cachePMSessionID(h) PROVE TypeOK'
    BY <2>6 DEF cachePMSessionID
  <2>7. ASSUME NEW h \in Handlers, getSegmentChan(h) PROVE TypeOK'
    BY <2>7, Zenon DEF getSegmentChan, Finish
  <2>8. ASSUME NEW h \in Handlers, RefuseSegment(h) PROVE TypeOK'
    BY <2>8, Zenon DEF RefuseSegment, Finish
  <2>9. ASSUME NEW l \in Loops, LoopTimeout(l) PROVE TypeOK'
    BY <2>9, Zenon DEF LoopTimeout
  <2>10. ASSUME NEW l \in Loops, getAndClearPMSessionIDsByManifestID(l) PROVE TypeOK'
    BY <2>10, Zenon DEF getAndClearPMSessionIDsByManifestID
  <2>11. ASSUME NEW l \in Loops, LoadWinningTickets(l) PROVE TypeOK'
    BY <2>11, Zenon DEF LoadWinningTickets, RowsOf
  <2>12. ASSUME NEW l \in Loops, LoadFails(l) PROVE TypeOK'
    BY <2>12, Zenon DEF LoadFails
  <2>13. ASSUME NEW l \in Loops, redeemWinningTicket(l) PROVE TypeOK'
    BY <2>13 DEF redeemWinningTicket
  <2>14. ASSUME NEW l \in Loops, RedeemFails(l) PROVE TypeOK'
    BY <2>14, Zenon DEF RedeemFails
  <2>15. ASSUME NEW l \in Loops, updateInvalidRands(l) PROVE TypeOK'
    BY <2>15, Zenon DEF updateInvalidRands
  <2>16. ASSUME NEW l \in Loops, clearSenderNonce(l) PROVE TypeOK'
    BY <2>16 DEF clearSenderNonce
  <2>17. ASSUME NEW l \in Loops, BatchDone(l) PROVE TypeOK'
    BY <2>17, Zenon DEF BatchDone
  <2>18. CASE Restart
    BY <2>18 DEF Restart
  <2>19. CASE UNCHANGED vars
    BY <2>19, Zenon
  <2>20. QED
    BY <2>1, <2>2, <2>3, <2>4, <2>5, <2>6, <2>7, <2>8, <2>9, <2>10, <2>11, <2>12,
       <2>13, <2>14, <2>15, <2>16, <2>17, <2>18, <2>19, Zenon
       DEF Next, Sender, Handler, Redeem
<1>3. QED
  BY <1>1, <1>2, PTL DEF Spec

\* A step uses only rands drawn before it.
LEMMA DrawnStep ==
    ASSUME TypeOK, DrawnBeforeUse, [Next]_vars
    PROVE  DrawnBeforeUse'
<1> USE TicketFields DEF TypeOK, DrawnBeforeUse
<1>1. ASSUME NEW r \in Rands, StartSession(r) PROVE DrawnBeforeUse'
  BY <1>1 DEF StartSession
<1>2. ASSUME NEW r \in Rands, CreateTicket(r) PROVE DrawnBeforeUse'
  BY <1>2, Zenon DEF CreateTicket
<1>3. ASSUME NEW h \in Handlers, NEW t \in Ticket, validRand(h, t) PROVE DrawnBeforeUse'
  BY <1>3, Zenon DEF validRand, ValidateTicket
<1>4. ASSUME NEW h \in Handlers, updateSenderNonce(h) PROVE DrawnBeforeUse'
  <2>1. hpc[h] = "nonce" /\ hticket[h] \in Ticket /\ randEpoch[hticket[h].rand] = epoch
    BY <1>4, Zenon DEF updateSenderNonce
  <2>2. /\ \A t \in Ticket : accepted'[t] > 0 => accepted[t] > 0 \/ t = hticket[h]
        /\ UNCHANGED randVars
    BY <1>4, <2>1, Zenon DEF updateSenderNonce
  <2>3. \A g \in Handlers : hpc'[g] # "idle" => hpc[g] # "idle" /\ hticket'[g] = hticket[g]
    BY <1>4, <2>1, Zenon DEF updateSenderNonce, Finish
  <2>4. QED BY <2>1, <2>2, <2>3
<1>5. ASSUME NEW h \in Handlers, StoreWinningTicket(h) PROVE DrawnBeforeUse'
  BY <1>5, Zenon DEF StoreWinningTicket, Finish
<1>6. ASSUME NEW h \in Handlers, cachePMSessionID(h) PROVE DrawnBeforeUse'
  BY <1>6, Zenon DEF cachePMSessionID
<1>7. ASSUME NEW h \in Handlers, getSegmentChan(h) PROVE DrawnBeforeUse'
  BY <1>7, Zenon DEF getSegmentChan, Finish
<1>8. ASSUME NEW h \in Handlers, RefuseSegment(h) PROVE DrawnBeforeUse'
  BY <1>8, Zenon DEF RefuseSegment, Finish
<1>9. ASSUME NEW l \in Loops, LoopTimeout(l) PROVE DrawnBeforeUse'
  BY <1>9, Zenon DEF LoopTimeout
<1>10. ASSUME NEW l \in Loops, getAndClearPMSessionIDsByManifestID(l) PROVE DrawnBeforeUse'
  BY <1>10, Zenon DEF getAndClearPMSessionIDsByManifestID
<1>11. ASSUME NEW l \in Loops, LoadWinningTickets(l) PROVE DrawnBeforeUse'
  BY <1>11, Zenon DEF LoadWinningTickets, RowsOf
<1>12. ASSUME NEW l \in Loops, LoadFails(l) PROVE DrawnBeforeUse'
  BY <1>12, Zenon DEF LoadFails, RowsOf
<1>13. ASSUME NEW l \in Loops, redeemWinningTicket(l) PROVE DrawnBeforeUse'
  BY <1>13, Zenon DEF redeemWinningTicket
<1>14. ASSUME NEW l \in Loops, RedeemFails(l) PROVE DrawnBeforeUse'
  BY <1>14, Zenon DEF RedeemFails
<1>15. ASSUME NEW l \in Loops, updateInvalidRands(l) PROVE DrawnBeforeUse'
  BY <1>15, Zenon DEF updateInvalidRands
<1>16. ASSUME NEW l \in Loops, clearSenderNonce(l) PROVE DrawnBeforeUse'
  BY <1>16, Zenon DEF clearSenderNonce
<1>17. ASSUME NEW l \in Loops, BatchDone(l) PROVE DrawnBeforeUse'
  BY <1>17, Zenon DEF BatchDone
<1>18. CASE Restart
  BY <1>18 DEF Restart
<1>19. CASE UNCHANGED vars
  BY <1>19, Zenon
<1>20. QED
  BY <1>1, <1>2, <1>3, <1>4, <1>5, <1>6, <1>7, <1>8, <1>9, <1>10, <1>11, <1>12, <1>13, <1>14,
     <1>15, <1>16, <1>17, <1>18, <1>19, ZenonT(30)
     DEF Next, Sender, Handler, Redeem

\* A step gives rows to a loop only when it starts redeeming.
LEMMA RowsStep ==
    ASSUME TypeOK, RowsOnlyWhileRedeeming, [Next]_vars
    PROVE  RowsOnlyWhileRedeeming'
<1> USE TicketFields DEF TypeOK, RowsOnlyWhileRedeeming, NoRows
<1>1. ASSUME NEW r \in Rands, StartSession(r) PROVE RowsOnlyWhileRedeeming'
  BY <1>1, Zenon DEF StartSession
<1>2. ASSUME NEW r \in Rands, CreateTicket(r) PROVE RowsOnlyWhileRedeeming'
  BY <1>2, Zenon DEF CreateTicket
<1>3. ASSUME NEW h \in Handlers, NEW t \in Ticket, validRand(h, t) PROVE RowsOnlyWhileRedeeming'
  BY <1>3, Zenon DEF validRand, ValidateTicket
<1>4. ASSUME NEW h \in Handlers, updateSenderNonce(h) PROVE RowsOnlyWhileRedeeming'
  BY <1>4, Zenon DEF updateSenderNonce, Finish
<1>5. ASSUME NEW h \in Handlers, StoreWinningTicket(h) PROVE RowsOnlyWhileRedeeming'
  BY <1>5, Zenon DEF StoreWinningTicket, Finish
<1>6. ASSUME NEW h \in Handlers, cachePMSessionID(h) PROVE RowsOnlyWhileRedeeming'
  BY <1>6, Zenon DEF cachePMSessionID
<1>7. ASSUME NEW h \in Handlers, getSegmentChan(h) PROVE RowsOnlyWhileRedeeming'
  BY <1>7, Zenon DEF getSegmentChan, Finish
<1>8. ASSUME NEW h \in Handlers, RefuseSegment(h) PROVE RowsOnlyWhileRedeeming'
  BY <1>8, Zenon DEF RefuseSegment, Finish
<1>9. ASSUME NEW l \in Loops, LoopTimeout(l) PROVE RowsOnlyWhileRedeeming'
  BY <1>9, Zenon DEF LoopTimeout
<1>10. ASSUME NEW l \in Loops, getAndClearPMSessionIDsByManifestID(l) PROVE RowsOnlyWhileRedeeming'
  BY <1>10, Zenon DEF getAndClearPMSessionIDsByManifestID
<1>11. ASSUME NEW l \in Loops, LoadWinningTickets(l) PROVE RowsOnlyWhileRedeeming'
  BY <1>11, Zenon DEF LoadWinningTickets, RowsOf
<1>12. ASSUME NEW l \in Loops, LoadFails(l) PROVE RowsOnlyWhileRedeeming'
  BY <1>12, Zenon DEF LoadFails, RowsOf
<1>13. ASSUME NEW l \in Loops, redeemWinningTicket(l) PROVE RowsOnlyWhileRedeeming'
  BY <1>13, Zenon DEF redeemWinningTicket
<1>14. ASSUME NEW l \in Loops, RedeemFails(l) PROVE RowsOnlyWhileRedeeming'
  BY <1>14, Zenon DEF RedeemFails
<1>15. ASSUME NEW l \in Loops, updateInvalidRands(l) PROVE RowsOnlyWhileRedeeming'
  BY <1>15, Zenon DEF updateInvalidRands
<1>16. ASSUME NEW l \in Loops, clearSenderNonce(l) PROVE RowsOnlyWhileRedeeming'
  BY <1>16, Zenon DEF clearSenderNonce
<1>17. ASSUME NEW l \in Loops, BatchDone(l) PROVE RowsOnlyWhileRedeeming'
  BY <1>17, Zenon DEF BatchDone
<1>18. CASE Restart
  BY <1>18, Zenon DEF Restart
<1>19. CASE UNCHANGED vars
  BY <1>19, Zenon
<1>20. QED
  BY <1>1, <1>2, <1>3, <1>4, <1>5, <1>6, <1>7, <1>8, <1>9, <1>10, <1>11, <1>12, <1>13, <1>14,
     <1>15, <1>16, <1>17, <1>18, <1>19, Zenon
     DEF Next, Sender, Handler, Redeem

\* A step lets a loop forget a nonce only after it invalidated the rand.
LEMMA RevealStep ==
    ASSUME TypeOK, RevealedBeforeForgotten, [Next]_vars
    PROVE  RevealedBeforeForgotten'
<1> USE TicketFields DEF TypeOK, RevealedBeforeForgotten
<1>1. ASSUME NEW r \in Rands, StartSession(r) PROVE RevealedBeforeForgotten'
  BY <1>1, Zenon DEF StartSession
<1>2. ASSUME NEW r \in Rands, CreateTicket(r) PROVE RevealedBeforeForgotten'
  BY <1>2, Zenon DEF CreateTicket
<1>3. ASSUME NEW h \in Handlers, NEW t \in Ticket, validRand(h, t) PROVE RevealedBeforeForgotten'
  BY <1>3, Zenon DEF validRand, ValidateTicket
<1>4. ASSUME NEW h \in Handlers, updateSenderNonce(h) PROVE RevealedBeforeForgotten'
  BY <1>4, Zenon DEF updateSenderNonce, Finish
<1>5. ASSUME NEW h \in Handlers, StoreWinningTicket(h) PROVE RevealedBeforeForgotten'
  BY <1>5, Zenon DEF StoreWinningTicket, Finish
<1>6. ASSUME NEW h \in Handlers, cachePMSessionID(h) PROVE RevealedBeforeForgotten'
  BY <1>6, Zenon DEF cachePMSessionID
<1>7. ASSUME NEW h \in Handlers, getSegmentChan(h) PROVE RevealedBeforeForgotten'
  BY <1>7, ZenonT(60) DEF getSegmentChan, Finish
<1>8. ASSUME NEW h \in Handlers, RefuseSegment(h) PROVE RevealedBeforeForgotten'
  BY <1>8, Zenon DEF RefuseSegment, Finish
<1>9. ASSUME NEW l \in Loops, LoopTimeout(l) PROVE RevealedBeforeForgotten'
  BY <1>9, Zenon DEF LoopTimeout
<1>10. ASSUME NEW l \in Loops, getAndClearPMSessionIDsByManifestID(l) PROVE RevealedBeforeForgotten'
  BY <1>10, Zenon DEF getAndClearPMSessionIDsByManifestID
<1>11. ASSUME NEW l \in Loops, LoadWinningTickets(l) PROVE RevealedBeforeForgotten'
  BY <1>11, Zenon DEF LoadWinningTickets, RowsOf
<1>12. ASSUME NEW l \in Loops, LoadFails(l) PROVE RevealedBeforeForgotten'
  BY <1>12, Zenon DEF LoadFails, RowsOf
<1>13. ASSUME NEW l \in Loops, redeemWinningTicket(l) PROVE RevealedBeforeForgotten'
  BY <1>13, Zenon DEF redeemWinningTicket
<1>14. ASSUME NEW l \in Loops, RedeemFails(l) PROVE RevealedBeforeForgotten'
  BY <1>14, Zenon DEF RedeemFails
<1>15. ASSUME NEW l \in Loops, updateInvalidRands(l) PROVE RevealedBeforeForgotten'
  BY <1>15, Zenon DEF updateInvalidRands
<1>16. ASSUME NEW l \in Loops, clearSenderNonce(l) PROVE RevealedBeforeForgotten'
  BY <1>16, Zenon DEF clearSenderNonce
<1>17. ASSUME NEW l \in Loops, BatchDone(l) PROVE RevealedBeforeForgotten'
  BY <1>17, Zenon DEF BatchDone
<1>18. CASE Restart
  BY <1>18, Zenon DEF Restart
<1>19. CASE UNCHANGED vars
  BY <1>19, Zenon
<1>20. QED
  BY <1>1, <1>2, <1>3, <1>4, <1>5, <1>6, <1>7, <1>8, <1>9, <1>10, <1>11, <1>12, <1>13, <1>14,
     <1>15, <1>16, <1>17, <1>18, <1>19, Zenon
     DEF Next, Sender, Handler, Redeem

\* A step keeps the highest accepted nonce of every open rand in the map.
LEMMA NonceStep ==
    ASSUME TypeOK, DrawnBeforeUse, RevealedBeforeForgotten, NonceRemembered, [Next]_vars
    PROVE  NonceRemembered'
<1> USE TicketFields DEF TypeOK, NonceRemembered, Open
<1>1. ASSUME NEW r \in Rands, StartSession(r) PROVE NonceRemembered'
  BY <1>1, Zenon DEF StartSession, DrawnBeforeUse
<1>2. ASSUME NEW r \in Rands, CreateTicket(r) PROVE NonceRemembered'
  BY <1>2, Zenon DEF CreateTicket
<1>3. ASSUME NEW h \in Handlers, NEW t \in Ticket, validRand(h, t) PROVE NonceRemembered'
  BY <1>3, Zenon DEF validRand, ValidateTicket
<1>4. ASSUME NEW h \in Handlers, updateSenderNonce(h) PROVE NonceRemembered'
  <2>1. /\ hticket[h] \in Ticket
        /\ hticket[h].rand \in Rands /\ hticket[h].nonce \in 1..MaxNonce
    BY <1>4, Zenon DEF updateSenderNonce
  <2>2. CASE UNCHANGED <<senderNonces, accepted>>
    BY <1>4, <2>2, Zenon DEF updateSenderNonce
  <2>3. CASE /\ hticket[h].nonce > senderNonces[hticket[h].rand]
             /\ senderNonces' = [senderNonces EXCEPT ![hticket[h].rand] = hticket[h].nonce]
             /\ accepted' = [accepted EXCEPT ![hticket[h]] = @ + 1]
    <3>1. SUFFICES ASSUME NEW t \in Ticket, Open(t.rand)', accepted'[t] > 0
                   PROVE  t.nonce <= senderNonces'[t.rand]
      BY Zenon
    <3>2. Open(t.rand)
      BY <1>4, <3>1, Zenon DEF updateSenderNonce
    <3>3. CASE t = hticket[h]
      BY <2>1, <2>3, <3>3
    <3>4. CASE t # hticket[h]
      <4>1. t.nonce <= senderNonces[t.rand]
        BY <2>1, <2>3, <3>1, <3>2, <3>4, Zenon
      <4>2. t.rand \in Rands /\ t.nonce \in Nat /\ senderNonces[t.rand] \in Nat
        BY <3>1, SMTT(30)
      <4>3. senderNonces \in [Rands -> Nat]
        OBVIOUS
      <4>4. QED BY ONLY <2>1, <2>3, <4>1, <4>2, <4>3
    <3>5. QED BY <3>3, <3>4, Zenon
  <2>4. QED BY <1>4, <2>2, <2>3, Zenon DEF updateSenderNonce
<1>5. ASSUME NEW h \in Handlers, StoreWinningTicket(h) PROVE NonceRemembered'
  BY <1>5, Zenon DEF StoreWinningTicket, Finish
<1>6. ASSUME NEW h \in Handlers, cachePMSessionID(h) PROVE NonceRemembered'
  BY <1>6, Zenon DEF cachePMSessionID
<1>7. ASSUME NEW h \in Handlers, getSegmentChan(h) PROVE NonceRemembered'
  BY <1>7, Zenon DEF getSegmentChan, Finish
<1>8. ASSUME NEW h \in Handlers, RefuseSegment(h) PROVE NonceRemembered'
  BY <1>8, Zenon DEF RefuseSegment, Finish
<1>9. ASSUME NEW l \in Loops, LoopTimeout(l) PROVE NonceRemembered'
  BY <1>9, Zenon DEF LoopTimeout
<1>10. ASSUME NEW l \in Loops, getAndClearPMSessionIDsByManifestID(l) PROVE NonceRemembered'
  BY <1>10, Zenon DEF getAndClearPMSessionIDsByManifestID
<1>11. ASSUME NEW l \in Loops, LoadWinningTickets(l) PROVE NonceRemembered'
  BY <1>11, Zenon DEF LoadWinningTickets, RowsOf
<1>12. ASSUME NEW l \in Loops, LoadFails(l) PROVE NonceRemembered'
  BY <1>12, Zenon DEF LoadFails, RowsOf
<1>13. ASSUME NEW l \in Loops, redeemWinningTicket(l) PROVE NonceRemembered'
  BY <1>13, Zenon DEF redeemWinningTicket
<1>14. ASSUME NEW l \in Loops, RedeemFails(l) PROVE NonceRemembered'
  BY <1>14, Zenon DEF RedeemFails
<1>15. ASSUME NEW l \in Loops, updateInvalidRands(l) PROVE NonceRemembered'
  BY <1>15, Zenon DEF updateInvalidRands
<1>16. ASSUME NEW l \in Loops, clearSenderNonce(l) PROVE NonceRemembered'
  BY <1>16, Zenon DEF clearSenderNonce, RevealedBeforeForgotten
<1>17. ASSUME NEW l \in Loops, BatchDone(l) PROVE NonceRemembered'
  BY <1>17, Zenon DEF BatchDone
<1>18. CASE Restart
  <2>1. \A r \in Rands : ~Open(r)'
    BY <1>18, RestartOpensNothing, Zenon
  <2>2. QED BY <2>1, Zenon
<1>19. CASE UNCHANGED vars
  BY <1>19, Zenon
<1>20. QED
  BY <1>1, <1>2, <1>3, <1>4, <1>5, <1>6, <1>7, <1>8, <1>9, <1>10, <1>11, <1>12, <1>13, <1>14,
     <1>15, <1>16, <1>17, <1>18, <1>19, Zenon
     DEF Next, Sender, Handler, Redeem

\* A step does not credit a ticket of an open rand a second time.
LEMMA CreditStep ==
    ASSUME TypeOK, DrawnBeforeUse, NonceRemembered, CreditedOnceWhileOpen, [Next]_vars
    PROVE  CreditedOnceWhileOpen'
<1> USE TicketFields DEF TypeOK, CreditedOnceWhileOpen, Open
<1>1. ASSUME NEW r \in Rands, StartSession(r) PROVE CreditedOnceWhileOpen'
  <2>1. /\ UNCHANGED <<accepted, invalidRands, epoch>> /\ randEpoch[r] = 0
        /\ \A q \in Rands \ {r} : randEpoch'[q] = randEpoch[q]
    BY <1>1, Zenon DEF StartSession, history
  <2>2. accepted \in [Ticket -> Nat] /\ \A t \in Ticket : t.rand \in Rands
    BY Zenon
  <2>3. \A t \in Ticket : t.rand = r => accepted[t] = 0
    BY ONLY <2>1, <2>2, DrawnBeforeUse DEF DrawnBeforeUse
  <2>4. QED BY ONLY <2>1, <2>2, <2>3, CreditedOnceWhileOpen DEF CreditedOnceWhileOpen, Open
<1>2. ASSUME NEW r \in Rands, CreateTicket(r) PROVE CreditedOnceWhileOpen'
  BY <1>2, Zenon DEF CreateTicket
<1>3. ASSUME NEW h \in Handlers, NEW t \in Ticket, validRand(h, t) PROVE CreditedOnceWhileOpen'
  BY <1>3, Zenon DEF validRand, ValidateTicket
<1>4. ASSUME NEW h \in Handlers, updateSenderNonce(h) PROVE CreditedOnceWhileOpen'
  <2> hticket[h] \in Ticket /\ UNCHANGED randVars
    BY <1>4, Zenon DEF updateSenderNonce
  <2>1. /\ hticket[h] \in Ticket /\ UNCHANGED randVars
        /\ hticket[h].nonce \in Nat /\ senderNonces[hticket[h].rand] \in Nat
        /\ accepted \in [Ticket -> Nat] /\ accepted[hticket[h]] \in Nat
    OBVIOUS
  <2>2. CASE UNCHANGED accepted
    BY <2>1, <2>2, Zenon
  <2>3. CASE /\ hticket[h].nonce > senderNonces[hticket[h].rand]
             /\ accepted' = [accepted EXCEPT ![hticket[h]] = @ + 1]
    <3>1. Open(hticket[h].rand) => accepted[hticket[h]] = 0
      <4>1. Open(hticket[h].rand) /\ accepted[hticket[h]] > 0
            => hticket[h].nonce <= senderNonces[hticket[h].rand]
        BY <2>1, Zenon DEF NonceRemembered
      <4>2. QED BY ONLY <2>1, <2>3, <4>1
    <3>2. accepted'[hticket[h]] = accepted[hticket[h]] + 1
      BY ONLY <2>1, <2>3, Zenon
    <3>3. \A t \in Ticket \ {hticket[h]} : accepted'[t] = accepted[t]
      BY ONLY <2>1, <2>3, Zenon
    <3>4. \A r \in Rands : Open(r)' <=> Open(r)
      BY <2>1, Zenon DEF randVars
    <3>5. \A t \in Ticket : t.rand \in Rands
      BY Zenon
    <3>6. ASSUME NEW t \in Ticket, Open(t.rand)' PROVE accepted'[t] <= 1
      <4>1. Open(t.rand)
        BY ONLY <3>4, <3>5, <3>6, Zenon
      <4>2. CASE t = hticket[h]
        BY ONLY <3>1, <3>2, <4>1, <4>2
      <4>3. CASE t # hticket[h]
        BY ONLY <3>3, <4>1, <4>3, CreditedOnceWhileOpen, Zenon DEF CreditedOnceWhileOpen
      <4>4. QED BY ONLY <4>2, <4>3, Zenon
    <3>7. QED BY ONLY <3>6, Zenon DEF CreditedOnceWhileOpen
  <2>4. QED BY <1>4, <2>2, <2>3, Zenon DEF updateSenderNonce
<1>5. ASSUME NEW h \in Handlers, StoreWinningTicket(h) PROVE CreditedOnceWhileOpen'
  BY <1>5, Zenon DEF StoreWinningTicket, Finish
<1>6. ASSUME NEW h \in Handlers, cachePMSessionID(h) PROVE CreditedOnceWhileOpen'
  BY <1>6, Zenon DEF cachePMSessionID
<1>7. ASSUME NEW h \in Handlers, getSegmentChan(h) PROVE CreditedOnceWhileOpen'
  BY <1>7, Zenon DEF getSegmentChan, Finish
<1>8. ASSUME NEW h \in Handlers, RefuseSegment(h) PROVE CreditedOnceWhileOpen'
  BY <1>8, Zenon DEF RefuseSegment, Finish
<1>9. ASSUME NEW l \in Loops, LoopTimeout(l) PROVE CreditedOnceWhileOpen'
  BY <1>9, Zenon DEF LoopTimeout
<1>10. ASSUME NEW l \in Loops, getAndClearPMSessionIDsByManifestID(l) PROVE CreditedOnceWhileOpen'
  BY <1>10, Zenon DEF getAndClearPMSessionIDsByManifestID
<1>11. ASSUME NEW l \in Loops, LoadWinningTickets(l) PROVE CreditedOnceWhileOpen'
  BY <1>11, Zenon DEF LoadWinningTickets, RowsOf
<1>12. ASSUME NEW l \in Loops, LoadFails(l) PROVE CreditedOnceWhileOpen'
  BY <1>12, Zenon DEF LoadFails, RowsOf
<1>13. ASSUME NEW l \in Loops, redeemWinningTicket(l) PROVE CreditedOnceWhileOpen'
  BY <1>13, Zenon DEF redeemWinningTicket
<1>14. ASSUME NEW l \in Loops, RedeemFails(l) PROVE CreditedOnceWhileOpen'
  BY <1>14, Zenon DEF RedeemFails
<1>15. ASSUME NEW l \in Loops, updateInvalidRands(l) PROVE CreditedOnceWhileOpen'
  BY <1>15, Zenon DEF updateInvalidRands
<1>16. ASSUME NEW l \in Loops, clearSenderNonce(l) PROVE CreditedOnceWhileOpen'
  BY <1>16, Zenon DEF clearSenderNonce
<1>17. ASSUME NEW l \in Loops, BatchDone(l) PROVE CreditedOnceWhileOpen'
  BY <1>17, Zenon DEF BatchDone
<1>18. CASE Restart
  <2>1. \A r \in Rands : ~Open(r)'
    BY <1>18, RestartOpensNothing, Zenon
  <2>2. QED BY <2>1, Zenon
<1>19. CASE UNCHANGED vars
  BY <1>19, Zenon
<1>20. QED
  BY <1>1, <1>2, <1>3, <1>4, <1>5, <1>6, <1>7, <1>8, <1>9, <1>10, <1>11, <1>12, <1>13, <1>14,
     <1>15, <1>16, <1>17, <1>18, <1>19, Zenon
     DEF Next, Sender, Handler, Redeem

\* A step loses track of no winning ticket.
LEMMA TrackedStep ==
    ASSUME TypeOK, DrawnBeforeUse, RowsOnlyWhileRedeeming, WinningTicketTracked, [Next]_vars
    PROVE  WinningTicketTracked'
<1> USE TicketFields DEF TypeOK, WinningTicketTracked, Tracked, Storing, Filed
<1>1. ASSUME NEW r \in Rands, StartSession(r) PROVE WinningTicketTracked'
  BY <1>1, Zenon DEF StartSession, DrawnBeforeUse
<1>2. ASSUME NEW r \in Rands, CreateTicket(r) PROVE WinningTicketTracked'
  BY <1>2, Zenon DEF CreateTicket
<1>3. ASSUME NEW h \in Handlers, NEW t \in Ticket, validRand(h, t) PROVE WinningTicketTracked'
  BY <1>3, Zenon DEF validRand, ValidateTicket
<1>4. ASSUME NEW h \in Handlers, updateSenderNonce(h) PROVE WinningTicketTracked'
  <2>1. hticket[h] \in Ticket /\ hpc[h] = "nonce"
    BY <1>4, Zenon DEF updateSenderNonce
  <2> SUFFICES ASSUME NEW t \in Winning, accepted'[t] > 0, randEpoch'[t.rand] = epoch'
               PROVE  Tracked(t)'
    BY Zenon
  <2>2. CASE accepted[t] > 0
    <3>1. Tracked(t)
      BY <1>4, <2>2, Zenon DEF updateSenderNonce
    <3>2. \A g \in Handlers : hpc[g] \in {"store", "cache"} =>
             hpc'[g] = hpc[g] /\ hticket'[g] = hticket[g]
      BY <1>4, <2>1, Zenon DEF updateSenderNonce, Finish
    <3>3. QED BY <1>4, <3>1, <3>2, Zenon DEF updateSenderNonce
  <2>3. CASE ~(accepted[t] > 0)
    <3>1. /\ accepted' = [accepted EXCEPT ![hticket[h]] = @ + 1]
          /\ hpc' = [hpc EXCEPT ![h] =
                        IF hticket[h] \in Winning THEN "store" ELSE "transcode"]
          /\ UNCHANGED hticket
      <4>1. accepted' # accepted
        BY <2>3, Zenon
      <4>2. QED BY <1>4, <4>1, Zenon DEF updateSenderNonce
    <3>2. accepted \in [Ticket -> Nat] /\ DOMAIN hpc = Handlers
      BY Zenon
    <3>3. t = hticket[h]
      BY ONLY <2>1, <2>3, <3>1, <3>2, accepted'[t] > 0
    <3>4. hpc'[h] = "store"
      BY ONLY <3>1, <3>2, <3>3, t \in Winning, h \in Handlers,
              hpc = [g \in Handlers |-> hpc[g]], Zenon
    <3>5. QED BY <3>1, <3>3, <3>4, Zenon
  <2>4. QED BY <2>2, <2>3, Zenon
<1>5. ASSUME NEW h \in Handlers, StoreWinningTicket(h) PROVE WinningTicketTracked'
  <2>1. hticket[h] \in Ticket /\ hpc[h] = "store"
    BY <1>5, Zenon DEF StoreWinningTicket
  <2> SUFFICES ASSUME NEW t \in Winning, accepted'[t] > 0, randEpoch'[t.rand] = epoch'
               PROVE  Tracked(t)'
    BY Zenon
  <2>2. Tracked(t)
    BY <1>5, Zenon DEF StoreWinningTicket
  <2>3. \A g \in Handlers \ {h} : hpc'[g] = hpc[g] /\ hticket'[g] = hticket[g]
    BY <1>5, Zenon DEF StoreWinningTicket, Finish
  <2>4. \A u \in Ticket : winningTickets[u] > 0 => winningTickets'[u] > 0
    <3>1. \/ UNCHANGED winningTickets
          \/ winningTickets' = [winningTickets EXCEPT ![hticket[h]] = @ + 1]
      BY <1>5, Zenon DEF StoreWinningTicket
    <3>2. winningTickets \in [Ticket -> Nat]
      BY Zenon
    <3>3. QED BY ONLY <2>1, <3>1, <3>2
  <2>5. CASE t = hticket[h]
    <3>1. CASE hpc'[h] = "cache" /\ UNCHANGED hticket /\ winningTickets'[t] > 0
      BY <3>1, <2>5, Zenon
    <3>2. CASE abandoned' = abandoned \union {t}
      BY <3>2, Zenon
    <3>3. CASE /\ winningTickets' = [winningTickets EXCEPT ![t] = @ + 1]
               /\ hpc' = [hpc EXCEPT ![h] = "cache"] /\ UNCHANGED hticket
      <4>1. winningTickets \in [Ticket -> Nat] /\ t \in Ticket /\ hpc'[h] = "cache"
        BY <2>1, <2>5, <3>3, Zenon
      <4>2. winningTickets'[t] > 0
        BY ONLY <3>3, <4>1
      <4>3. QED BY <3>1, <3>3, <4>1, <4>2, Zenon
    <3>4. QED BY <1>5, <2>5, <3>2, <3>3, Zenon DEF StoreWinningTicket
  <2>6. CASE t # hticket[h]
    BY <1>5, <2>1, <2>2, <2>3, <2>4, <2>6, Zenon DEF StoreWinningTicket
  <2>7. QED BY <2>5, <2>6, Zenon
<1>6. ASSUME NEW h \in Handlers, cachePMSessionID(h) PROVE WinningTicketTracked'
  BY <1>6, Zenon DEF cachePMSessionID
<1>7. ASSUME NEW h \in Handlers, getSegmentChan(h) PROVE WinningTicketTracked'
  BY <1>7, Zenon DEF getSegmentChan, Finish
<1>8. ASSUME NEW h \in Handlers, RefuseSegment(h) PROVE WinningTicketTracked'
  BY <1>8, Zenon DEF RefuseSegment, Finish
<1>9. ASSUME NEW l \in Loops, LoopTimeout(l) PROVE WinningTicketTracked'
  BY <1>9, Zenon DEF LoopTimeout
<1>10. ASSUME NEW l \in Loops, getAndClearPMSessionIDsByManifestID(l) PROVE WinningTicketTracked'
  BY <1>10, Zenon DEF getAndClearPMSessionIDsByManifestID
<1>11. ASSUME NEW l \in Loops, LoadWinningTickets(l) PROVE WinningTicketTracked'
  <2> SUFFICES ASSUME NEW t \in Winning, accepted'[t] > 0, randEpoch'[t.rand] = epoch'
               PROVE  Tracked(t)'
    BY Zenon
  <2>1. Tracked(t)
    BY <1>11, Zenon DEF LoadWinningTickets
  <2>2. /\ winningTickets[t] > 0 /\ t.rand \in lids[l] => lbatch'[l][t] > 0
        /\ lbatch[l][t] = 0
    <3>1. lbatch[l] = NoRows /\ t \in Ticket
      BY <1>11, Zenon DEF LoadWinningTickets, RowsOnlyWhileRedeeming
    <3>2. lbatch'[l] = [u \in Ticket |-> IF u.rand \in lids[l] THEN winningTickets[u] ELSE 0]
      BY <1>11, Zenon DEF LoadWinningTickets, RowsOf
    <3>3. QED BY ONLY <3>1, <3>2, Zenon DEF NoRows
  <2>3. \A k \in Loops \ {l} : /\ lpc'[k] = lpc[k] /\ lids'[k] = lids[k]
                               /\ lbatch'[k] = lbatch[k]
    BY <1>11, Zenon DEF LoadWinningTickets
  <2>4. UNCHANGED <<pmSessions, hpc, hticket, winningTickets, submitted, abandoned>>
    BY <1>11, Zenon DEF LoadWinningTickets, handlerVars, history
  <2>5. CASE Storing(t) \/ submitted[t] > 0 \/ t \in abandoned
    BY <2>4, <2>5, Zenon
  <2>6. CASE winningTickets[t] > 0 /\ Filed(t)
    <3>1. CASE \E g \in Handlers : hpc[g] = "cache" /\ hticket[g] = t
      BY <2>4, <2>6, <3>1, Zenon
    <3>2. CASE t.rand \in pmSessions[ManifestOf[t.rand]]
      BY <2>4, <2>6, <3>2, Zenon
    <3>3. ASSUME NEW k \in Loops, (lpc[k] = "load" /\ t.rand \in lids[k]) \/ lbatch[k][t] > 0
          PROVE  Filed(t)'
      <4>1. CASE k = l
        BY ONLY <2>2, <2>6, <3>3, <4>1 DEF Filed
      <4>2. CASE k # l
        BY ONLY <2>3, <3>3, <4>2, Zenon DEF Filed
      <4>3. QED BY <4>1, <4>2, Zenon
    <3>4. QED BY <2>4, <2>6, <3>1, <3>2, <3>3, Zenon
  <2>7. QED BY <2>1, <2>5, <2>6, Zenon
<1>12. ASSUME NEW l \in Loops, LoadFails(l) PROVE WinningTicketTracked'
  BY <1>12, Zenon DEF LoadFails, RowsOf
<1>13. ASSUME NEW l \in Loops, redeemWinningTicket(l) PROVE WinningTicketTracked'
  <2> SUFFICES ASSUME NEW t \in Winning, accepted'[t] > 0, randEpoch'[t.rand] = epoch'
               PROVE  Tracked(t)'
    BY Zenon
  <2>1. Tracked(t)
    BY <1>13, Zenon DEF redeemWinningTicket
  <2>2. PICK u \in Ticket :
           /\ submitted' = [submitted EXCEPT ![u] = @ + 1]
           /\ lids' = [lids EXCEPT ![l] = {u.rand}]
           /\ lbatch' = [lbatch EXCEPT ![l][u] = @ - 1]
    BY <1>13, Zenon DEF redeemWinningTicket
  <2>3. CASE t = u
    <3>1. submitted \in [Ticket -> Nat] /\ u \in Ticket
      BY Zenon
    <3>2. submitted'[t] > 0
      BY ONLY <2>2, <2>3, <3>1
    <3>3. QED BY <3>2, Zenon
  <2>4. CASE t # u
    <3>1. \A k \in Loops : lbatch'[k][t] = lbatch[k][t]
      BY <2>2, <2>4, Zenon
    <3>2. \A k \in Loops : lpc[k] = "load" => lpc'[k] = "load" /\ lids'[k] = lids[k]
      BY <1>13, <2>2, Zenon DEF redeemWinningTicket
    <3>3. submitted'[t] = submitted[t]
      BY <2>2, <2>4, Zenon
    <3>4. QED BY <1>13, <2>1, <3>1, <3>2, <3>3, Zenon DEF redeemWinningTicket
  <2>5. QED BY <2>3, <2>4, Zenon
<1>14. ASSUME NEW l \in Loops, RedeemFails(l) PROVE WinningTicketTracked'
  BY <1>14, Zenon DEF RedeemFails
<1>15. ASSUME NEW l \in Loops, updateInvalidRands(l) PROVE WinningTicketTracked'
  BY <1>15, Zenon DEF updateInvalidRands
<1>16. ASSUME NEW l \in Loops, clearSenderNonce(l) PROVE WinningTicketTracked'
  BY <1>16, Zenon DEF clearSenderNonce
<1>17. ASSUME NEW l \in Loops, BatchDone(l) PROVE WinningTicketTracked'
  BY <1>17, Zenon DEF BatchDone
<1>18. CASE Restart
  <2> SUFFICES ASSUME NEW t \in Winning, accepted'[t] > 0, randEpoch'[t.rand] = epoch'
               PROVE  FALSE
    BY Zenon
  <2>1. t.rand \in Rands
    BY RecipientAssumption, TicketFields, Zenon
  <2>2. QED BY <1>18, <2>1, RestartOpensNothing, Zenon
<1>19. CASE UNCHANGED vars
  BY <1>19, Zenon
<1>20. QED
  BY <1>1, <1>2, <1>3, <1>4, <1>5, <1>6, <1>7, <1>8, <1>9, <1>10, <1>11, <1>12, <1>13, <1>14,
     <1>15, <1>16, <1>17, <1>18, <1>19, Zenon
     DEF Next, Sender, Handler, Redeem


\* Nothing accepted is ever unaccounted for: the recipient's maps, the filed
\* sessions, the table and the rows the loops hold stay in step.
THEOREM RecipientInvariant == Spec => []RecipientInv
<1>1. Init => RecipientInv
  BY TicketFields DEF Init, InitVolatile, NoRows, RecipientInv, DrawnBeforeUse,
     NonceRemembered, RevealedBeforeForgotten, RowsOnlyWhileRedeeming,
     CreditedOnceWhileOpen, WinningTicketTracked
<1>2. TypeOK /\ RecipientInv /\ [Next]_vars => RecipientInv'
  BY DrawnStep, NonceStep, RevealStep, RowsStep, CreditStep, TrackedStep, Zenon DEF RecipientInv
<1>3. QED
  BY <1>1, <1>2, TypeCorrect, PTL DEF Spec

\* No ticket is credited twice while its recipientRand is open, whatever the
\* interleaving of requests, redemptions and restarts.
THEOREM CreditedOnce == Spec => []CreditedOnceWhileOpen
<1>1. RecipientInv => CreditedOnceWhileOpen
  BY Zenon DEF RecipientInv
<1>2. QED
  BY <1>1, RecipientInvariant, PTL

\* No winning ticket accepted by the running process is silently forgotten.
THEOREM NoWinningTicketForgotten == Spec => []WinningTicketTracked
<1>1. RecipientInv => WinningTicketTracked
  BY Zenon DEF RecipientInv
<1>2. QED
  BY <1>1, RecipientInvariant, PTL

-----------------------------------------------------------------------------
(* Recipient implements Ledger *)

Drawn(r) == randEpoch[r] # 0

\* What is stored, filed, loaded or revealed is of sessions that were started: so no
\* session is revealed before it is open.
DrawnBeforeFiled ==
    /\ \A t \in Ticket : winningTickets[t] > 0 => Drawn(t.rand)
    /\ \A m \in Manifests : \A r \in pmSessions[m] : Drawn(r)
    /\ \A l \in Loops : \A r \in lids[l] : Drawn(r)
    /\ \A l \in Loops, t \in Ticket : lbatch[l][t] > 0 => Drawn(t.rand)
    /\ \A r \in invalidRands : Drawn(r)

\* Steps that leave alone all that is stored, filed, loaded and revealed
LEMMA NothingFiled ==
    ASSUME DrawnBeforeFiled, UNCHANGED <<winningTickets, pmSessions, lids, lbatch, invalidRands>>,
           \A r \in Rands : Drawn(r) => Drawn(r)', TypeOK
    PROVE  DrawnBeforeFiled'
BY TicketFields, Zenon DEF DrawnBeforeFiled, TypeOK

\* The steps of a request: what it stores and files is of the session of its ticket.
LEMMA RequestFiles ==
    ASSUME TypeOK, DrawnBeforeUse, DrawnBeforeFiled, NEW h \in Handlers, Handler(h)
    PROVE  DrawnBeforeFiled'
<1>1. epoch # 0
  BY DEF TypeOK
<1>2. UNCHANGED randVars /\ \A r \in Rands : Drawn(r) => Drawn(r)'
  BY Zenon
     DEF Handler, validRand, updateSenderNonce, StoreWinningTicket, cachePMSessionID,
         getSegmentChan,
               RefuseSegment, Drawn
<1>3. CASE StoreWinningTicket(h)
  <2>1. hticket[h] \in Ticket /\ Drawn(hticket[h].rand)
    BY <1>1, <1>3, Zenon DEF StoreWinningTicket, DrawnBeforeUse, TypeOK, Drawn
  <2>2. \A t \in Ticket : winningTickets'[t] > 0 => winningTickets[t] > 0 \/ t = hticket[h]
    BY <1>3, Zenon DEF StoreWinningTicket, TypeOK
  <2>3. UNCHANGED <<pmSessions, lids, lbatch, invalidRands, randEpoch>>
    BY <1>3, Zenon DEF StoreWinningTicket
  <2> QED
    BY <2>1, <2>2, <2>3, Zenon DEF DrawnBeforeFiled, Drawn
<1>4. CASE cachePMSessionID(h)
  <2>1. hticket[h] \in Ticket /\ Drawn(hticket[h].rand)
    BY <1>1, <1>4, Zenon DEF cachePMSessionID, DrawnBeforeUse, TypeOK, Drawn
  <2>2. \A m \in Manifests : \A r \in pmSessions'[m] : r \in pmSessions[m] \/ r = hticket[h].rand
    BY <1>4, Zenon DEF cachePMSessionID, TypeOK
  <2>3. UNCHANGED <<winningTickets, lids, lbatch, invalidRands, randEpoch>>
    BY <1>4, Zenon DEF cachePMSessionID
  <2> QED
    BY <2>1, <2>2, <2>3, Zenon DEF DrawnBeforeFiled, Drawn
<1>5. CASE ~StoreWinningTicket(h) /\ ~cachePMSessionID(h)
  <2>1. UNCHANGED <<winningTickets, pmSessions, lids, lbatch, invalidRands>>
    BY <1>5, Zenon DEF Handler, validRand, updateSenderNonce, getSegmentChan, RefuseSegment
  <2> QED
    BY <1>2, <2>1, NothingFiled, Zenon
<1> QED
  BY <1>3, <1>4, <1>5, Zenon

\* The steps of a loop: it takes the sessions filed, and the rows of their tickets.
LEMMA LoopFiles ==
    ASSUME TypeOK, DrawnBeforeFiled, NEW l \in Loops, LoopTimeout(l) \/ Redeem(l)
    PROVE  DrawnBeforeFiled'
<1>1. UNCHANGED <<randEpoch, winningTickets>>
  BY Zenon
     DEF LoopTimeout, Redeem, getAndClearPMSessionIDsByManifestID, LoadWinningTickets, LoadFails,
               redeemWinningTicket, RedeemFails, updateInvalidRands, clearSenderNonce, BatchDone
<1>2. \A r \in Rands : Drawn(r)' = Drawn(r)
  BY <1>1, Zenon DEF Drawn
<1>3. \A m \in Manifests : pmSessions'[m] \subseteq pmSessions[m]
  BY Zenon
     DEF LoopTimeout, Redeem, getAndClearPMSessionIDsByManifestID, LoadWinningTickets, LoadFails,
               redeemWinningTicket, RedeemFails, updateInvalidRands, clearSenderNonce, BatchDone, TypeOK
<1>4. \A k \in Loops, t \in Ticket : lbatch'[k][t] > 0 => lbatch[k][t] > 0 \/ winningTickets[t] > 0
  <2>1. CASE LoadWinningTickets(l)
    <3>1. lbatch' = [lbatch EXCEPT ![l] = RowsOf(lids[l])] /\ lbatch \in [Loops -> [Ticket -> Nat]]
      BY <2>1, Zenon DEF LoadWinningTickets, TypeOK
    <3>2. \A t \in Ticket : RowsOf(lids[l])[t] > 0 => winningTickets[t] > 0
      BY DEF RowsOf
    <3> QED
      BY <3>1, <3>2, Zenon
  <2>2. CASE redeemWinningTicket(l)
    <3>1. PICK u \in Ticket : lbatch[l][u] > 0 /\ lbatch' = [lbatch EXCEPT ![l][u] = @ - 1]
      BY <2>2, Zenon DEF redeemWinningTicket
    <3>2. lbatch \in [Loops -> [Ticket -> Nat]]
      BY Zenon DEF TypeOK
    <3> QED
      BY <3>1, <3>2, Zenon
  <2>3. CASE RedeemFails(l)
    BY <2>3 DEF RedeemFails, NoRows, TypeOK
  <2>4. CASE ~LoadWinningTickets(l) /\ ~redeemWinningTicket(l) /\ ~RedeemFails(l)
    BY <2>4, Zenon DEF LoopTimeout, Redeem, getAndClearPMSessionIDsByManifestID, LoadFails,
                       updateInvalidRands, clearSenderNonce, BatchDone
  <2> QED
    BY <2>1, <2>2, <2>3, <2>4, Zenon
<1>5. \A k \in Loops : \A r \in lids'[k] :
          \/ r \in lids[k] \/ (\E m \in Manifests : r \in pmSessions[m])
          \/ \E t \in Ticket : r = t.rand /\ lbatch[l][t] > 0
  <2>1. CASE getAndClearPMSessionIDsByManifestID(l)
    BY <2>1, Zenon DEF getAndClearPMSessionIDsByManifestID, TypeOK
  <2>2. CASE redeemWinningTicket(l)
    <3>1. PICK u \in Ticket : lbatch[l][u] > 0 /\ lids' = [lids EXCEPT ![l] = {u.rand}]
      BY <2>2, Zenon DEF redeemWinningTicket
    <3> QED
      BY <3>1, Zenon DEF TypeOK
  <2>3. CASE ~getAndClearPMSessionIDsByManifestID(l) /\ ~redeemWinningTicket(l)
    BY <2>3, Zenon
       DEF LoopTimeout, Redeem, LoadWinningTickets, LoadFails, RedeemFails, updateInvalidRands,
                       clearSenderNonce, BatchDone, TypeOK
  <2> QED
    BY <2>1, <2>2, <2>3, Zenon
<1>6. \A r \in invalidRands' : r \in invalidRands \/ r \in lids[l]
  BY Zenon
     DEF LoopTimeout, Redeem, getAndClearPMSessionIDsByManifestID, LoadWinningTickets, LoadFails,
               redeemWinningTicket, RedeemFails, updateInvalidRands, clearSenderNonce, BatchDone
<1>7. /\ \A m \in Manifests : pmSessions[m] \subseteq Rands
      /\ \A k \in Loops : lids[k] \subseteq Rands
      /\ invalidRands \subseteq Rands
      /\ \A t \in Ticket : t.rand \in Rands
  BY TicketFields, Zenon DEF TypeOK
<1>8. \A r \in invalidRands' : Drawn(r)'
  BY <1>2, <1>6, <1>7, Zenon DEF DrawnBeforeFiled
<1>9. \A k \in Loops : \A r \in lids'[k] : Drawn(r)'
  <2>1. /\ \A k \in Loops : \A r \in lids[k] : Drawn(r)
        /\ \A m \in Manifests : \A r \in pmSessions[m] : Drawn(r)
        /\ \A t \in Ticket : lbatch[l][t] > 0 => Drawn(t.rand)
    BY Zenon DEF DrawnBeforeFiled
  <2> QED
    BY <1>2, <1>5, <1>7, <2>1
<1>10. \A k \in Loops, t \in Ticket : lbatch'[k][t] > 0 => Drawn(t.rand)'
  BY <1>2, <1>4, <1>7, Zenon DEF DrawnBeforeFiled
<1>11. /\ \A t \in Ticket : winningTickets'[t] > 0 => Drawn(t.rand)'
       /\ \A m \in Manifests : \A r \in pmSessions'[m] : Drawn(r)'
  BY <1>1, <1>2, <1>3, <1>7, Zenon DEF DrawnBeforeFiled
<1> QED
  BY <1>8, <1>9, <1>10, <1>11, Zenon DEF DrawnBeforeFiled

\* Every step keeps it; a restart keeps the table and the sessions that were started.
LEMMA FiledStep ==
    ASSUME TypeOK, DrawnBeforeUse, DrawnBeforeFiled, [Next]_vars
    PROVE  DrawnBeforeFiled'
<1>1. ASSUME NEW r \in Rands, StartSession(r) \/ CreateTicket(r) PROVE DrawnBeforeFiled'
  <2>1. UNCHANGED <<winningTickets, pmSessions, lids, lbatch, invalidRands>>
    BY <1>1, Zenon DEF StartSession, CreateTicket
  <2>2. epoch # 0
    BY DEF TypeOK
  <2>3. \A s \in Rands : Drawn(s) => Drawn(s)'
    BY <1>1, <2>2, Zenon DEF StartSession, CreateTicket, Drawn, TypeOK
  <2> QED
    BY <2>1, <2>3, NothingFiled, Zenon
<1>2. CASE Restart
  <2>1. /\ UNCHANGED <<winningTickets, randEpoch>> /\ invalidRands' = {}
        /\ pmSessions' = [m \in Manifests |-> {}] /\ lids' = [l \in Loops |-> {}]
        /\ lbatch' = [l \in Loops |-> NoRows]
    BY <1>2, Zenon DEF Restart
  <2>2. \A l \in Loops, t \in Ticket : ~(lbatch'[l][t] > 0)
    BY <2>1 DEF NoRows
  <2> QED
    BY <2>1, <2>2, Zenon DEF DrawnBeforeFiled, Drawn
<1>3. CASE UNCHANGED vars
  <2>1. UNCHANGED <<winningTickets, pmSessions, lids, lbatch, invalidRands, randEpoch>>
    BY <1>3, Zenon
  <2> QED
    BY <2>1, Zenon DEF DrawnBeforeFiled, Drawn
<1> QED
  BY <1>1, <1>2, <1>3, RequestFiles, LoopFiles, Zenon DEF Next, Sender

\* The mapping of a step that changes neither rands nor counts of accepted tickets
LEMMA LedgerStutters ==
    ASSUME UNCHANGED <<randVars, accepted>>
    PROVE  UNCHANGED L!vars
BY Zenon DEF L!vars, Phase

\* Tickets are the same on both sides of the mapping, and an open rand is an open session.
LEMMA LedgerReads ==
    ASSUME TypeOK
    PROVE  /\ L!Ticket = Ticket
           /\ \A r \in Rands : Open(r) => Phase[r] = "open"
<1>1. epoch # 0
  BY DEF TypeOK
<1> QED
  BY <1>1, Zenon DEF L!Ticket, Ticket, Phase, Open

\* A session is started: its rand is not revealed.
LEMMA LedgerOpens ==
    ASSUME TypeOK, DrawnBeforeFiled, NEW r \in Rands, StartSession(r)
    PROVE  L!Open(r)
<1>1. epoch # 0 /\ randEpoch \in [Rands -> Nat]
  BY DEF TypeOK
<1>2. /\ randEpoch[r] = 0 /\ randEpoch' = [randEpoch EXCEPT ![r] = epoch]
      /\ UNCHANGED <<epoch, invalidRands, accepted>>
  BY Zenon DEF StartSession
<1>3. r \notin invalidRands
  BY <1>2, Zenon DEF DrawnBeforeFiled, Drawn
<1>4. Phase[r] = "new"
  BY <1>2, Zenon DEF Phase
<1>5. Phase' = [Phase EXCEPT ![r] = "open"]
  BY <1>1, <1>2, <1>3, Zenon DEF Phase
<1> QED
  BY <1>2, <1>4, <1>5, Zenon DEF L!Open

\* A ticket is accepted: in turn if its session is open, and late if the rand was revealed
\* since its validRand; the request would not have survived the end of the process.
LEMMA LedgerCredits ==
    ASSUME TypeOK, DrawnBeforeUse, NonceRemembered, NEW h \in Handlers, updateSenderNonce(h)
    PROVE  [L!Next]_L!vars
<1> DEFINE t == hticket[h]
<1>1. t \in Ticket /\ t.rand \in Rands /\ t.nonce \in Nat
  BY TicketFields DEF updateSenderNonce, TypeOK
<1>2. senderNonces \in [Rands -> Nat] /\ accepted \in [Ticket -> Nat]
  BY DEF TypeOK
<1>3. UNCHANGED <<epoch, randEpoch, invalidRands>>
  BY Zenon DEF updateSenderNonce
<1>4. Phase' = Phase
  BY <1>3, Zenon DEF Phase
<1>5. CASE UNCHANGED accepted
  BY <1>3, <1>5, LedgerStutters, Zenon
<1>6. CASE t.nonce > senderNonces[t.rand] /\ accepted' = [accepted EXCEPT ![t] = @ + 1]
  <2>1. CASE Open(t.rand)
    <3>1. \A u \in Ticket : u.rand = t.rand /\ accepted[u] > 0 => u.nonce < t.nonce
      <4> SUFFICES ASSUME NEW u \in Ticket, u.rand = t.rand, accepted[u] > 0 PROVE u.nonce < t.nonce
        BY Zenon
      <4>1. u.nonce <= senderNonces[t.rand] /\ u.nonce \in Nat
        BY <2>1, TicketFields DEF NonceRemembered
      <4> QED
        BY <1>1, <1>2, <1>6, <4>1
    <3>2. accepted[t] = 0
      BY <1>1, <1>2, <3>1
    <3>3. accepted' = [accepted EXCEPT ![t] = 1]
      BY <1>1, <1>2, <1>6, <3>2
    <3>4. Phase[t.rand] = "open"
      BY <1>1, <2>1, LedgerReads, Zenon
    <3>5. L!Credit(t)
      BY <1>4, <3>1, <3>3, <3>4, LedgerReads, Zenon DEF L!Credit
    <3> QED
      BY <1>1, <3>5, LedgerReads, Zenon DEF L!Next
  <2>2. CASE ~Open(t.rand)
    <3>1. epoch # 0 /\ randEpoch[t.rand] = epoch
      <4>1. hpc[h] # "idle"
        BY DEF updateSenderNonce
      <4>2. epoch # 0
        BY DEF TypeOK
      <4> QED
        BY <4>1, <4>2, Zenon DEF DrawnBeforeUse
    <3>2. t.rand \in invalidRands
      BY <2>2, <3>1, Zenon DEF Open
    <3>3. Phase[t.rand] = "revealed"
      BY <1>1, <3>1, <3>2, Zenon DEF Phase
    <3>4. L!Late(t)
      BY <1>4, <1>6, <3>3, Zenon DEF L!Late
    <3> QED
      BY <1>1, <3>4, LedgerReads, Zenon DEF L!Next
  <2> QED
    BY <2>1, <2>2, Zenon
<1> QED
  BY <1>5, <1>6, Zenon DEF updateSenderNonce

\* A rand is invalidated: of the sessions it names, those that are open are revealed.
LEMMA LedgerReveals ==
    ASSUME TypeOK, NEW l \in Loops, updateInvalidRands(l)
    PROVE  L!Next
<1> DEFINE R == {r \in lids[l] : Phase[r] = "open"}
<1>1. lids[l] \subseteq Rands
  BY Zenon DEF TypeOK
<1>2. UNCHANGED <<epoch, randEpoch, accepted>> /\ invalidRands' = invalidRands \union lids[l]
  BY Zenon DEF updateInvalidRands
<1>3. \A r \in Rands : Phase'[r] = IF r \in R THEN "revealed" ELSE Phase[r]
  <2> SUFFICES ASSUME NEW r \in Rands PROVE Phase'[r] = IF r \in R THEN "revealed" ELSE Phase[r]
    BY Zenon
  <2>1. /\ Phase'[r] = IF randEpoch[r] = 0 THEN "new" ELSE IF randEpoch[r] # epoch THEN "ended"
                       ELSE IF r \in invalidRands \/ r \in lids[l] THEN "revealed" ELSE "open"
        /\ Phase[r] = IF randEpoch[r] = 0 THEN "new" ELSE IF randEpoch[r] # epoch THEN "ended"
                      ELSE IF r \in invalidRands THEN "revealed" ELSE "open"
    BY <1>2, Zenon DEF Phase
  <2> QED
    BY <2>1
<1>4. Phase' = [r \in Rands |-> IF r \in R THEN "revealed" ELSE Phase[r]]
  <2>1. Phase' = [r \in Rands |-> Phase'[r]]
    BY Zenon DEF Phase
  <2> QED
    BY <1>3, <2>1, Zenon
<1>5. L!Reveal(R)
  BY <1>2, <1>4, Zenon DEF L!Reveal
<1> QED
  BY <1>1, <1>5, Zenon DEF L!Next

\* The process is started again with a new secret: the sessions of the old one have ended.
LEMMA LedgerEnds ==
    ASSUME TypeOK, DrawnBeforeUse, Restart
    PROVE  L!End
<1>1. UNCHANGED <<randEpoch, accepted>>
  BY Zenon DEF Restart
<1>2. \A r \in Rands : randEpoch[r] # epoch'
  BY <1>1, RestartOpensNothing, Zenon
<1>3. \A r \in Rands : Phase'[r] = IF Phase[r] = "new" THEN "new" ELSE "ended"
  <2> SUFFICES ASSUME NEW r \in Rands PROVE Phase'[r] = IF Phase[r] = "new" THEN "new" ELSE "ended"
    BY Zenon
  <2>1. /\ Phase'[r] = IF randEpoch[r] = 0 THEN "new" ELSE "ended"
        /\ Phase[r] = IF randEpoch[r] = 0 THEN "new" ELSE IF randEpoch[r] # epoch THEN "ended"
                      ELSE IF r \in invalidRands THEN "revealed" ELSE "open"
    BY <1>1, <1>2, Zenon DEF Phase
  <2> QED
    BY <2>1
<1>4. Phase' = [r \in Rands |-> IF Phase[r] = "new" THEN "new" ELSE "ended"]
  <2>1. Phase' = [r \in Rands |-> Phase'[r]]
    BY Zenon DEF Phase
  <2> QED
    BY <1>3, <2>1, Zenon
<1> QED
  BY <1>1, <1>4, Zenon DEF L!End

\* Every step of the recipient is one of the ledger, or none.
LEMMA LedgerStep ==
    ASSUME TypeOK, RecipientInv, DrawnBeforeFiled, [Next]_vars
    PROVE  [L!Next]_L!vars
<1>0. DrawnBeforeUse /\ NonceRemembered
  BY Zenon DEF RecipientInv
<1>1. ASSUME NEW r \in Rands, StartSession(r) PROVE [L!Next]_L!vars
  BY <1>0, <1>1, LedgerOpens, Zenon DEF L!Next
<1>2. ASSUME NEW h \in Handlers, updateSenderNonce(h) PROVE [L!Next]_L!vars
  BY <1>0, <1>2, LedgerCredits, Zenon
<1>3. ASSUME NEW l \in Loops, updateInvalidRands(l) PROVE [L!Next]_L!vars
  BY <1>3, LedgerReveals, Zenon
<1>4. CASE Restart
  BY <1>0, <1>4, LedgerEnds, Zenon DEF L!Next
<1>5. CASE UNCHANGED <<randVars, accepted>>
  BY <1>5, LedgerStutters, Zenon
<1>6. ASSUME NEW r \in Rands, CreateTicket(r) PROVE UNCHANGED <<randVars, accepted>>
  BY <1>6, Zenon DEF CreateTicket
<1>7. ASSUME NEW h \in Handlers, Handler(h), ~updateSenderNonce(h) PROVE UNCHANGED <<randVars, accepted>>
  BY <1>7, Zenon
     DEF Handler, validRand, StoreWinningTicket, cachePMSessionID, getSegmentChan, RefuseSegment
<1>8. ASSUME NEW l \in Loops, LoopTimeout(l) \/ Redeem(l), ~updateInvalidRands(l)
      PROVE  UNCHANGED <<randVars, accepted>>
  BY <1>8, Zenon
     DEF LoopTimeout, Redeem, getAndClearPMSessionIDsByManifestID, LoadWinningTickets, LoadFails,
                     redeemWinningTicket, RedeemFails, clearSenderNonce, BatchDone
<1>9. CASE UNCHANGED vars
  BY <1>5, <1>9, Zenon
<1> QED
  BY <1>1, <1>2, <1>3, <1>4, <1>5, <1>6, <1>7, <1>8, <1>9, Zenon DEF Next, Sender

\* ReceiveTicket, redeemWinningTicket and the restarts of the process implement a ledger
\* of payment sessions: each is opened once; as long as it is open it credits its tickets
\* once and in the order of their nonces; once revealed it is never open again, though
\* requests let in before may be credited late; and after a restart it credits nothing.
THEOREM LedgerImplemented == Spec => ImplementsLedger
<1>1. Init => L!Init
  <2> SUFFICES ASSUME Init PROVE L!Init
    BY Zenon
  <2>1. randEpoch = [r \in Rands |-> 0] /\ epoch = 1 /\ accepted = [t \in Ticket |-> 0]
    BY Zenon DEF Init, NoRows
  <2>2. Phase = [r \in Rands |-> "new"]
    BY <2>1, Zenon DEF Phase
  <2> QED
    BY <2>1, <2>2, Zenon DEF L!Init, L!Ticket, Ticket
<1>2. Init => DrawnBeforeFiled
  BY DEF Init, InitVolatile, NoRows, DrawnBeforeFiled
<1>3. TypeOK /\ RecipientInv /\ DrawnBeforeFiled /\ [Next]_vars => DrawnBeforeFiled'
  BY FiledStep, Zenon DEF RecipientInv
<1>4. TypeOK /\ RecipientInv /\ DrawnBeforeFiled /\ [Next]_vars => [L!Next]_L!vars
  BY LedgerStep, Zenon
<1> QED
  BY <1>1, <1>2, <1>3, <1>4, TypeCorrect, RecipientInvariant, PTL DEF Spec, ImplementsLedger, L!Spec
=============================================================================
