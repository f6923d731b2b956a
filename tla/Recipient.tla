------------------------------ MODULE Recipient ------------------------------
(****************************************************************************)
(* Probabilistic micropayments between one broadcaster (pm/sender.go) and   *)
(* one orchestrator (pm/recipient.go), with what the orchestrator keeps     *)
(* around the recipient: the session IDs that won something, per manifest   *)
(* (core/orchestrator.go), the winningTickets table (common/db.go), and the *)
(* transcode loops whose timeout starts the redemption.                     *)
(*                                                                          *)
(* A recipientRand, its hash and the PM session ID determine one another,   *)
(* so an element of Rands stands for the three.  Segment requests run in    *)
(* concurrent HTTP handlers; each of the recipient's locks and the database *)
(* is one atomic step, and nothing is held from one step to the next.       *)
(****************************************************************************)
EXTENDS Naturals, FiniteSets

CONSTANTS
    Rands,       \* recipientRand values the recipient can draw
    Manifests,   \* manifest IDs
    ManifestOf,  \* the stream a broadcaster's PM session pays for
    Handlers,    \* goroutines of ServeSegment
    Loops,       \* goroutines of transcodeSegmentLoop
    LoopFor,     \* the manifest a loop goroutine is started for
    MaxNonce,    \* bound: tickets a PM session creates
    MaxEpoch,    \* bound: starts of the orchestrator process
    Winning,     \* tickets for which IsWinningTicket answers true
    NoTicket

Ticket == [rand : Rands, nonce : 1..MaxNonce]

ASSUME RecipientAssumption ==
    /\ ManifestOf \in [Rands -> Manifests]
    /\ LoopFor \in [Loops -> Manifests]
    /\ MaxNonce \in Nat /\ MaxEpoch \in Nat \ {0}
    /\ Winning \subseteq Ticket
    /\ NoTicket \notin Ticket

VARIABLES
    \* The broadcaster.
    nonces,          \* nonces[r]: senderNonce of the session of r
    sent,            \* tickets sent; each may arrive late, more than once or never
    \* The orchestrator process: lost in a crash.
    epoch,           \* which start of the process; its secret is drawn afresh
    randEpoch,       \* randEpoch[r]: the secret r was derived from, 0 if not drawn
    invalidRands,    \* recipientRands that have been revealed
    senderNonces,    \* highest nonce accepted, 0 if the map has no entry
    pmSessions,      \* pmSessions[m]: sessions of m that won
    hpc, hticket,    \* handlers: next step and the ticket of the request
    lpc,             \* loops: next step; "running" while in SegmentChans
    lids, lbatch,    \* loops: session IDs, and rows still to redeem
    \* Persistent.
    winningTickets,  \* rows per ticket of the winningTickets table
    \* History, for the properties only.
    accepted,        \* times a ticket was accepted
    submitted,       \* times a ticket was submitted to the broker
    abandoned        \* tickets given up on an error path

senderVars  == <<nonces, sent>>
randVars    == <<epoch, randEpoch, invalidRands>>
handlerVars == <<hpc, hticket>>
loopVars    == <<lpc, lids, lbatch>>
history     == <<accepted, submitted, abandoned>>
vars == <<senderVars, randVars, senderNonces, pmSessions, handlerVars,
          loopVars, winningTickets, history>>

NoRows == [t \in Ticket |-> 0]

-----------------------------------------------------------------------------
(* The broadcaster *)

\* GetOrchestratorInfo: the recipient draws a seed, the broadcaster starts a
\* session on the parameters it gets back.
StartSession(r) ==
    /\ randEpoch[r] = 0
    /\ randEpoch' = [randEpoch EXCEPT ![r] = epoch]
    /\ nonces' = [nonces EXCEPT ![r] = 0]
    /\ UNCHANGED <<sent, epoch, invalidRands, senderNonces, pmSessions,
                   handlerVars, loopVars, winningTickets, history>>

CreateTicket(r) ==
    /\ randEpoch[r] # 0
    /\ nonces[r] < MaxNonce
    /\ nonces' = [nonces EXCEPT ![r] = @ + 1]
    /\ sent' = sent \union {[rand |-> r, nonce |-> nonces[r] + 1]}
    /\ UNCHANGED <<randVars, senderNonces, pmSessions, handlerVars,
                   loopVars, winningTickets, history>>

-----------------------------------------------------------------------------
(* ReceiveTicket and the rest of a segment request, lock by lock *)

\* Tickets that a broadcaster signs are of the recipient's address and parameters.  One
\* whose rand was derived from an earlier secret does not hash to its RecipientRandHash.
ValidateTicket(t) == randEpoch[t.rand] = epoch

\* The checks of a request, up to validRand.
validRand(h, t) ==
    /\ hpc[h] = "idle"
    /\ t \in sent
    /\ ValidateTicket(t)
    /\ t.rand \notin invalidRands
    /\ hpc' = [hpc EXCEPT ![h] = "nonce"]
    /\ hticket' = [hticket EXCEPT ![h] = t]
    /\ UNCHANGED <<senderVars, randVars, senderNonces, pmSessions, loopVars,
                   winningTickets, history>>

Finish(h) ==
    /\ hpc' = [hpc EXCEPT ![h] = "idle"]
    /\ hticket' = [hticket EXCEPT ![h] = NoTicket]

\* updateSenderNonce under senderNoncesLock; sender nonces start at 1, so an
\* absent entry (0) refuses none.
updateSenderNonce(h) ==
    LET t == hticket[h] IN
    /\ hpc[h] = "nonce"
    /\ \/ /\ t.nonce <= senderNonces[t.rand]
          /\ Finish(h)
          /\ UNCHANGED <<senderNonces, accepted>>
       \/ /\ t.nonce > senderNonces[t.rand]
          /\ senderNonces' = [senderNonces EXCEPT ![t.rand] = t.nonce]
          /\ accepted' = [accepted EXCEPT ![t] = @ + 1]
          /\ hpc' = [hpc EXCEPT ![h] = IF t \in Winning THEN "store" ELSE "transcode"]
          /\ UNCHANGED hticket
    /\ UNCHANGED <<senderVars, randVars, pmSessions, loopVars, winningTickets,
                   submitted, abandoned>>

\* The insert has no key to collide with; if it fails the request is refused.
StoreWinningTicket(h) ==
    LET t == hticket[h] IN
    /\ hpc[h] = "store"
    /\ \/ /\ winningTickets' = [winningTickets EXCEPT ![t] = @ + 1]
          /\ hpc' = [hpc EXCEPT ![h] = "cache"]
          /\ UNCHANGED <<hticket, abandoned>>
       \/ /\ abandoned' = abandoned \union {t}
          /\ Finish(h)
          /\ UNCHANGED winningTickets
    /\ UNCHANGED <<senderVars, randVars, senderNonces, pmSessions, loopVars,
                   accepted, submitted>>

cachePMSessionID(h) ==
    LET r == hticket[h].rand IN
    /\ hpc[h] = "cache"
    /\ pmSessions' = [pmSessions EXCEPT ![ManifestOf[r]] = @ \union {r}]
    /\ hpc' = [hpc EXCEPT ![h] = "transcode"]
    /\ UNCHANGED <<senderVars, randVars, senderNonces, hticket, loopVars,
                   winningTickets, history>>

\* TranscodeSeg reaches the manifest's loop, or starts it if there is none.
getSegmentChan(h) ==
    LET m == ManifestOf[hticket[h].rand]
        serving == {l \in Loops : LoopFor[l] = m /\ lpc[l] = "running"}
    IN
    /\ hpc[h] = "transcode"
    /\ \/ /\ serving # {}
          /\ UNCHANGED lpc
       \/ /\ serving = {}
          /\ \E l \in Loops :
                /\ LoopFor[l] = m /\ lpc[l] = "idle"
                /\ lpc' = [lpc EXCEPT ![l] = "running"]
    /\ Finish(h)
    /\ UNCHANGED <<senderVars, randVars, senderNonces, pmSessions, lids, lbatch,
                   winningTickets, history>>

\* The body cannot be read, its hash differs, or the node is at MaxSessions:
\* the payment stays processed.
RefuseSegment(h) ==
    /\ hpc[h] = "transcode"
    /\ Finish(h)
    /\ UNCHANGED <<senderVars, randVars, senderNonces, pmSessions, loopVars,
                   winningTickets, history>>

-----------------------------------------------------------------------------
(* A transcode loop's timeout and RedeemWinningTickets *)

LoopTimeout(l) ==
    /\ lpc[l] = "running"
    /\ lpc' = [lpc EXCEPT ![l] = "clear"]
    /\ UNCHANGED <<senderVars, randVars, senderNonces, pmSessions, handlerVars,
                   lids, lbatch, winningTickets, history>>

\* Mutant: the sessions are cleared but the ones handed to the recipient are lost.
getAndClear_Empty(l) ==
    /\ lpc[l] = "clear"
    /\ pmSessions' = [pmSessions EXCEPT ![LoopFor[l]] = {}]
    /\ lpc' = [lpc EXCEPT ![l] = "idle"]
    /\ UNCHANGED <<senderVars, randVars, senderNonces, handlerVars, lids, lbatch,
                   winningTickets, history>>

getAndClearPMSessionIDsByManifestID(l) ==
    LET m == LoopFor[l] IN
    /\ lpc[l] = "clear"
    /\ lids' = [lids EXCEPT ![l] = pmSessions[m]]
    /\ pmSessions' = [pmSessions EXCEPT ![m] = {}]
    /\ lpc' = [lpc EXCEPT ![l] = IF pmSessions[m] = {} THEN "idle" ELSE "load"]
    /\ UNCHANGED <<senderVars, randVars, senderNonces, handlerVars, lbatch, winningTickets, history>>

\* Every row of these sessions, redeemed before or not: rows are never deleted.
RowsOf(ids) ==
    [t \in Ticket |-> IF t.rand \in ids THEN winningTickets[t] ELSE 0]

LoadWinningTickets(l) ==
    /\ lpc[l] = "load"
    /\ lbatch' = [lbatch EXCEPT ![l] = RowsOf(lids[l])]
    /\ lids' = [lids EXCEPT ![l] = {}]
    /\ lpc' = [lpc EXCEPT ![l] = "redeem"]
    /\ UNCHANGED <<senderVars, randVars, senderNonces, pmSessions, handlerVars,
                   winningTickets, history>>

\* A row cannot be scanned: RedeemWinningTickets returns, the IDs are gone.  (A
\* failing query closes nil rows and takes the process down: Restart.)
LoadFails(l) ==
    /\ lpc[l] = "load"
    /\ abandoned' = abandoned \union {t \in Ticket : RowsOf(lids[l])[t] > 0}
    /\ lids' = [lids EXCEPT ![l] = {}]
    /\ lpc' = [lpc EXCEPT ![l] = "idle"]
    /\ UNCHANGED <<senderVars, randVars, senderNonces, pmSessions, handlerVars,
                   lbatch, winningTickets, accepted, submitted>>

\* One iteration of the loop, up to the broker's answer.
redeemWinningTicket(l) ==
    /\ lpc[l] = "redeem"
    /\ \E t \in Ticket :
          /\ lbatch[l][t] > 0
          /\ submitted' = [submitted EXCEPT ![t] = @ + 1]
          /\ lids' = [lids EXCEPT ![l] = {t.rand}]
          /\ lbatch' = [lbatch EXCEPT ![l][t] = @ - 1]
    /\ lpc' = [lpc EXCEPT ![l] = "invalidate"]
    /\ UNCHANGED <<senderVars, randVars, senderNonces, pmSessions, handlerVars,
                   winningTickets, accepted, abandoned>>

\* Senders or RedeemWinningTicket fails, or the sender has neither deposit nor
\* penalty escrow: the whole batch is dropped.
RedeemFails(l) ==
    /\ lpc[l] = "redeem"
    /\ lbatch[l] # NoRows
    /\ abandoned' = abandoned \union {t \in Ticket : lbatch[l][t] > 0}
    /\ lbatch' = [lbatch EXCEPT ![l] = NoRows]
    /\ lpc' = [lpc EXCEPT ![l] = "idle"]
    /\ UNCHANGED <<senderVars, randVars, senderNonces, pmSessions, handlerVars,
                   lids, winningTickets, accepted, submitted>>

\* Mutant: the revealed rand stays valid.
updateInvalidRands_Skipped(l) ==
    /\ lpc[l] = "invalidate"
    /\ lpc' = [lpc EXCEPT ![l] = "clearNonce"]
    /\ UNCHANGED <<senderVars, randVars, senderNonces, pmSessions, handlerVars,
                   lids, lbatch, winningTickets, history>>

updateInvalidRands(l) ==
    /\ lpc[l] = "invalidate"
    /\ invalidRands' = invalidRands \union lids[l]
    /\ lpc' = [lpc EXCEPT ![l] = "clearNonce"]
    /\ UNCHANGED <<senderVars, epoch, randEpoch, senderNonces, pmSessions,
                   handlerVars, lids, lbatch,
                   winningTickets, history>>

clearSenderNonce(l) ==
    /\ lpc[l] = "clearNonce"
    /\ senderNonces' = [r \in Rands |-> IF r \in lids[l] THEN 0 ELSE senderNonces[r]]
    /\ lids' = [lids EXCEPT ![l] = {}]
    /\ lpc' = [lpc EXCEPT ![l] = "redeem"]
    /\ UNCHANGED <<senderVars, randVars, pmSessions, handlerVars, lbatch, winningTickets, history>>

BatchDone(l) ==
    /\ lpc[l] = "redeem"
    /\ lbatch[l] = NoRows
    /\ lpc' = [lpc EXCEPT ![l] = "idle"]
    /\ UNCHANGED <<senderVars, randVars, senderNonces, pmSessions, handlerVars,
                   lids, lbatch, winningTickets, history>>

-----------------------------------------------------------------------------
(* The orchestrator process stops and is started again: NewRecipient draws a *)
(* new secret, every map is empty, the database is as it was.                *)

InitVolatile ==
    /\ invalidRands = {}
    /\ senderNonces = [r \in Rands |-> 0]
    /\ pmSessions = [m \in Manifests |-> {}]
    /\ hpc = [h \in Handlers |-> "idle"]
    /\ hticket = [h \in Handlers |-> NoTicket]
    /\ lpc = [l \in Loops |-> "idle"]
    /\ lids = [l \in Loops |-> {}]
    /\ lbatch = [l \in Loops |-> NoRows]

\* Mutant: the secret survives the restart, what was derived from it stays valid.
Restart_SecretKept ==
    /\ epoch < MaxEpoch
    /\ epoch' = epoch + 1
    /\ randEpoch' = [r \in Rands |-> IF randEpoch[r] = 0 THEN 0 ELSE epoch + 1]
    /\ invalidRands' = {}
    /\ senderNonces' = [r \in Rands |-> 0]
    /\ pmSessions' = [m \in Manifests |-> {}]
    /\ hpc' = [h \in Handlers |-> "idle"]
    /\ hticket' = [h \in Handlers |-> NoTicket]
    /\ lpc' = [l \in Loops |-> "idle"]
    /\ lids' = [l \in Loops |-> {}]
    /\ lbatch' = [l \in Loops |-> NoRows]
    /\ UNCHANGED <<senderVars, winningTickets, history>>

Restart ==
    /\ epoch < MaxEpoch
    /\ epoch' = epoch + 1
    /\ invalidRands' = {}
    /\ senderNonces' = [r \in Rands |-> 0]
    /\ pmSessions' = [m \in Manifests |-> {}]
    /\ hpc' = [h \in Handlers |-> "idle"]
    /\ hticket' = [h \in Handlers |-> NoTicket]
    /\ lpc' = [l \in Loops |-> "idle"]
    /\ lids' = [l \in Loops |-> {}]
    /\ lbatch' = [l \in Loops |-> NoRows]
    /\ UNCHANGED <<senderVars, randEpoch, winningTickets, history>>

Init ==
    /\ nonces = [r \in Rands |-> 0]
    /\ sent = {}
    /\ epoch = 1
    /\ randEpoch = [r \in Rands |-> 0]
    /\ InitVolatile
    /\ winningTickets = NoRows
    /\ accepted = NoRows
    /\ submitted = NoRows
    /\ abandoned = {}

Sender == \E r \in Rands : StartSession(r) \/ CreateTicket(r)

Handler(h) ==
    \/ \E t \in Ticket : validRand(h, t)
    \/ updateSenderNonce(h) \/ StoreWinningTicket(h) \/ cachePMSessionID(h)
    \/ getSegmentChan(h) \/ RefuseSegment(h)

Redeem(l) ==
    \/ getAndClearPMSessionIDsByManifestID(l) \/ LoadWinningTickets(l)
    \/ LoadFails(l) \/ redeemWinningTicket(l) \/ RedeemFails(l)
    \/ updateInvalidRands(l) \/ clearSenderNonce(l) \/ BatchDone(l)

Next ==
    \/ Sender
    \/ \E h \in Handlers : Handler(h)
    \/ \E l \in Loops : LoopTimeout(l) \/ Redeem(l)
    \/ Restart

Spec == Init /\ [][Next]_vars

-----------------------------------------------------------------------------
(* Properties *)

TypeOK ==
    /\ nonces \in [Rands -> 0..MaxNonce]
    /\ sent \subseteq Ticket
    /\ epoch \in 1..MaxEpoch
    /\ randEpoch \in [Rands -> 0..MaxEpoch]
    /\ invalidRands \subseteq Rands
    /\ senderNonces \in [Rands -> 0..MaxNonce]
    /\ pmSessions \in [Manifests -> SUBSET Rands]
    /\ hpc \in [Handlers -> {"idle", "nonce", "store", "cache", "transcode"}]
    /\ hticket \in [Handlers -> Ticket \union {NoTicket}]
    /\ \A h \in Handlers : hpc[h] # "idle" => hticket[h] \in Ticket
    /\ lpc \in [Loops -> {"idle", "running", "clear", "load", "redeem",
                          "invalidate", "clearNonce"}]
    /\ lids \in [Loops -> SUBSET Rands]
    /\ lbatch \in [Loops -> [Ticket -> Nat]]
    /\ winningTickets \in [Ticket -> Nat]
    /\ accepted \in [Ticket -> Nat]
    /\ submitted \in [Ticket -> Nat]
    /\ abandoned \subseteq Ticket

\* A rand the recipient would still take tickets for: derived from the secret
\* of this run of the process, and not revealed.
Open(r) == randEpoch[r] = epoch /\ r \notin invalidRands

\* No ticket is credited twice as long as its recipientRand is open, however
\* requests are repeated, reordered or interleaved and across restarts: what
\* updateSenderNonce remembers is dropped only after the rand is invalid or the
\* secret is gone.
CreditedOnceWhileOpen ==
    \A t \in Ticket : Open(t.rand) => accepted[t] <= 1

\* Work on t is under way: its handler has still to store it or to file its
\* session, or its session is filed, or a loop is about to load or redeem it.
Storing(t) == \E h \in Handlers : hpc[h] = "store" /\ hticket[h] = t

Filed(t) ==
    \/ \E h \in Handlers : hpc[h] = "cache" /\ hticket[h] = t
    \/ t.rand \in pmSessions[ManifestOf[t.rand]]
    \/ \E l \in Loops : \/ lpc[l] = "load" /\ t.rand \in lids[l]
                        \/ lbatch[l][t] > 0

Tracked(t) ==
    \/ Storing(t)
    \/ winningTickets[t] > 0 /\ Filed(t)
    \/ submitted[t] > 0
    \/ t \in abandoned

\* A winning ticket accepted by this run of the process is never silently
\* forgotten: it is still on its way to the broker, or was submitted, or an
\* error path gave it up.  It depends on the row being stored before the
\* session is filed, and the session being cleared before the rows are loaded.
WinningTicketTracked ==
    \A t \in Winning :
        accepted[t] > 0 /\ randEpoch[t.rand] = epoch => Tracked(t)

\* The inductive invariant behind the two properties above, by parts.

\* Only rands drawn under some secret are used, by handlers only current ones.
DrawnBeforeUse ==
    /\ \A r \in Rands : randEpoch[r] <= epoch
    /\ \A t \in Ticket : accepted[t] > 0 => randEpoch[t.rand] # 0
    /\ \A h \in Handlers : hpc[h] # "idle" => randEpoch[hticket[h].rand] = epoch

\* The highest nonce accepted for an open rand is remembered.
NonceRemembered ==
    \A t \in Ticket : Open(t.rand) /\ accepted[t] > 0 => t.nonce <= senderNonces[t.rand]

\* redeemWinningTicket invalidates the rand before it clears the nonce.
RevealedBeforeForgotten ==
    \A l \in Loops : lpc[l] = "clearNonce" => lids[l] \subseteq invalidRands

\* A loop holds rows only while it redeems.
RowsOnlyWhileRedeeming ==
    \A l \in Loops :
        lpc[l] \notin {"redeem", "invalidate", "clearNonce"} => lbatch[l] = NoRows

\* How the recipient's maps, the filed sessions, the table and the loops' rows
\* stay in step: nothing accepted is unaccounted for in any reachable state.
RecipientInv ==
    /\ DrawnBeforeUse
    /\ NonceRemembered
    /\ RevealedBeforeForgotten
    /\ RowsOnlyWhileRedeeming
    /\ CreditedOnceWhileOpen
    /\ WinningTicketTracked

\* The recipient seen as a ledger of payment sessions: a session is new until its rand is
\* drawn, revealed once the rand is invalid, and ended when its secret is gone.
Phase ==
    [r \in Rands |->
        IF randEpoch[r] = 0 THEN "new"
        ELSE IF randEpoch[r] # epoch THEN "ended"
        ELSE IF r \in invalidRands THEN "revealed" ELSE "open"]

L == INSTANCE Ledger WITH Sessions <- Rands, phase <- Phase, credit <- accepted

\* However requests, redemptions and restarts interleave, ReceiveTicket is such a ledger:
\* an open session credits tickets once and in the order of their nonces; one that
\* redeemWinningTicket has revealed is never open again, though it may still credit what was
\* let in before; and one of an earlier run of the process credits nothing any more.
ImplementsLedger == L!Spec

\* What the comment before clearSenderNonce relies on: once a recipientRand is
\* invalidated no ticket for it is accepted.
NoAcceptanceAfterReveal ==
    [][\A t \in Ticket : accepted'[t] > accepted[t] => t.rand \notin invalidRands]_vars

\* A goroutine keeps running and a loop that gets no more segments times out
\* (transcodeLoopTimeout); a broadcast is finite.
FairSpec ==
    /\ Spec
    /\ \A h \in Handlers : WF_vars(updateSenderNonce(h) \/ StoreWinningTicket(h)
                                   \/ cachePMSessionID(h))
    /\ \A l \in Loops : WF_vars(LoopTimeout(l)) /\ WF_vars(Redeem(l))

\* A winning ticket whose session is filed while a loop of its manifest runs
\* reaches the broker, unless an error path gives it up or the process restarts.
FiledTicketRedeemed ==
    \A t \in Winning :
        (/\ randEpoch[t.rand] = epoch
         /\ winningTickets[t] > 0
         /\ t.rand \in pmSessions[ManifestOf[t.rand]]
         /\ \E l \in Loops : LoopFor[l] = ManifestOf[t.rand] /\ lpc[l] = "running")
        ~> (submitted[t] > 0 \/ t \in abandoned \/ randEpoch[t.rand] # epoch)
=============================================================================
