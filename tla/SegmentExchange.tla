--------------------------- MODULE SegmentExchange ---------------------------
(****************************************************************************)
(* A segment on its way from broadcaster to orchestrator and back           *)
(* (server/segment_rpc.go): SubmitSegment in one goroutine per segment, and *)
(* the ServeSegment handler of its request.  The segments belong to one     *)
(* stream and are paid from one PM session; their requests are concurrent   *)
(* and arrive in any order.                                                 *)
(*                                                                          *)
(* The answer is an HTTP status, sent when the segment has been received,   *)
(* and a TranscodeResult in the body: an error, or the number of URLs of    *)
(* renditions, which are in the order of the profiles.                      *)
(****************************************************************************)
EXTENDS Naturals

CONSTANTS
    Segments,
    NumProfiles,  \* len(segData.Profiles)
    Onchain       \* whether the nodes have a Sender and a Recipient

SegmentExchangeAssumption ==
    /\ NumProfiles \in Nat \ {0}
    /\ Onchain \in BOOLEAN

Urls == 0 .. NumProfiles
\* A result is the number of URLs, or one of two values of their own.
NoResult == NumProfiles + 1
Error == NumProfiles + 2
Results == Urls \union {NoResult, Error}
Statuses == {"none", "OK", "PaymentRequired", "Forbidden", "BadRequest", "InternalServerError"}

VARIABLES
    senderNonce,  \* of the PM session
    nonce,        \* segment: nonce of its ticket, 0 without payment
    bpc,          \* SubmitSegment: idle, header, body, done
    outcome,      \* what SubmitSegment returned
    opc,          \* ServeSegment: next step
    highest,      \* senderNonces of the recipient, 0 if none
    paid,         \* segments whose payment was processed
    status,       \* the status sent, of which only the first counts
    uploaded,     \* renditions saved so far
    result,       \* the TranscodeResult written
    slow,         \* history: downloads that took longer than HTTPTimeout
    corrupt,      \* history: downloads that brought other data
    transcoded,   \* history: segments given to TranscodeSeg
    uploadFailed  \* history: segments with a rendition that could not be saved

payVars == <<senderNonce, nonce, highest, paid>>
bcastVars == <<bpc, outcome>>
dataVars == <<slow, corrupt>>
workVars == <<uploaded, transcoded, uploadFailed>>
vars == <<payVars, bcastVars, opc, status, result, dataVars, workVars>>

Goto(s, l) == opc' = [opc EXCEPT ![s] = l]

\* http.Error and WriteHeader: a status that is there stays.
WriteHeader(s, code) ==
    status' = [status EXCEPT ![s] = IF @ = "none" THEN code ELSE @]

-----------------------------------------------------------------------------
(* The broadcaster *)

\* The sender's next ticket; none off-chain, or if CreateTicket fails.
genPayment(s) ==
    \/ /\ Onchain
       /\ senderNonce' = senderNonce + 1
       /\ nonce' = [nonce EXCEPT ![s] = senderNonce + 1]
    \/ UNCHANGED <<senderNonce, nonce>>

\* SubmitSegment up to the request, which is sent also without a ticket.  It may
\* not reach the orchestrator.
SubmitSegment(s) ==
    /\ bpc[s] = "idle"
    /\ genPayment(s)
    /\ bpc' = [bpc EXCEPT ![s] = "header"]
    /\ \E next \in {"none", "creds"} : Goto(s, next)
    /\ UNCHANGED <<outcome, highest, paid, status, result, dataVars, workVars>>

Return(s, res) ==
    /\ bpc' = [bpc EXCEPT ![s] = "done"]
    /\ outcome' = [outcome EXCEPT ![s] = res]

\* Mutant: the timeout covers the wait for the status only.
Timeout_HeaderOnly(s) ==
    /\ bpc[s] = "header"
    /\ Return(s, Error)
    /\ UNCHANGED <<payVars, opc, status, result, dataVars, workVars>>

\* The request fails: HTTPTimeout covers all of it, body included.  The handler
\* at the other end goes on.
Timeout(s) ==
    /\ bpc[s] \in {"header", "body"}
    /\ Return(s, Error)
    /\ UNCHANGED <<payVars, opc, status, result, dataVars, workVars>>

ReceiveHeader(s) ==
    /\ bpc[s] = "header" /\ status[s] # "none"
    /\ bpc' = [bpc EXCEPT ![s] = "body"]
    /\ UNCHANGED <<payVars, outcome, opc, status, result, dataVars, workVars>>

\* The body is read to its end; with a status other than OK it is the error.
ReceiveBody(s) ==
    /\ bpc[s] = "body" /\ opc[s] = "done"
    /\ Return(s, IF status[s] = "OK" /\ result[s] # NoResult THEN result[s] ELSE Error)
    /\ UNCHANGED <<payVars, opc, status, result, dataVars, workVars>>

-----------------------------------------------------------------------------
(* The orchestrator: ServeSegment *)

Refuse(s, code) ==
    /\ WriteHeader(s, code)
    /\ Goto(s, "done")

\* The signature is checked against the sender of the ticket; then the capacity.
verifySegCreds(s) ==
    /\ opc[s] = "creds"
    /\ \/ /\ Onchain => nonce[s] > 0
          /\ Goto(s, "payment")
          /\ UNCHANGED status
       \/ Refuse(s, "Forbidden")
    /\ UNCHANGED <<payVars, bcastVars, result, dataVars, workVars>>

\* A ticket that a later one has overtaken is refused.
ProcessPayment(s) ==
    /\ opc[s] = "payment"
    /\ IF Onchain /\ nonce[s] <= highest
         THEN Refuse(s, "PaymentRequired") /\ UNCHANGED <<highest, paid>>
         ELSE /\ highest' = nonce[s]
              /\ paid' = paid \union {s}
              /\ Goto(s, "read") /\ UNCHANGED status
    /\ UNCHANGED <<senderNonce, nonce, bcastVars, result, dataVars, workVars>>

\* The segment is in the body, or the body is the URI to get it from.
ReadBody(s) ==
    /\ opc[s] = "read"
    /\ \/ Refuse(s, "InternalServerError")
       \/ /\ \E next \in {"download", "hash"} : Goto(s, next)
          /\ UNCHANGED status
    /\ UNCHANGED <<payVars, bcastVars, result, dataVars, workVars>>

\* A download that took too long is answered with an error; the handler does
\* not return.
GetSegmentData(s) ==
    /\ opc[s] = "download"
    /\ \/ Refuse(s, "BadRequest") /\ UNCHANGED dataVars
       \/ /\ \E wrong \in BOOLEAN :
                corrupt' = IF wrong THEN corrupt \union {s} ELSE corrupt
          /\ \/ UNCHANGED <<slow, status>>
             \/ slow' = slow \union {s} /\ WriteHeader(s, "BadRequest")
          /\ Goto(s, "hash")
    /\ UNCHANGED <<payVars, bcastVars, result, workVars>>

\* Mutant: the hash is not compared.
CheckHash_Skipped(s) ==
    /\ opc[s] = "hash"
    /\ WriteHeader(s, "OK")
    /\ Goto(s, "transcode")
    /\ UNCHANGED <<payVars, bcastVars, result, dataVars, workVars>>

CheckHash(s) ==
    /\ opc[s] = "hash"
    /\ IF s \in corrupt
         THEN Refuse(s, "Forbidden")
         ELSE WriteHeader(s, "OK") /\ Goto(s, "transcode")
    /\ UNCHANGED <<payVars, bcastVars, result, dataVars, workVars>>

\* Write the result and return.
Respond(s, res) ==
    /\ result' = [result EXCEPT ![s] = res]
    /\ Goto(s, "done")

\* The transcode loop answers with an error or with all renditions.
TranscodeSeg(s) ==
    /\ opc[s] = "transcode"
    /\ \/ Respond(s, Error) /\ UNCHANGED transcoded
       \/ /\ transcoded' = transcoded \union {s}
          /\ Goto(s, "upload") /\ UNCHANGED result
    /\ UNCHANGED <<payVars, bcastVars, status, dataVars, uploaded, uploadFailed>>

\* Save the next rendition.  If that fails the loop ends, with an err of its own.
SaveData(s) ==
    /\ opc[s] = "upload" /\ uploaded[s] < NumProfiles
    /\ \/ /\ uploaded' = [uploaded EXCEPT ![s] = @ + 1]
          /\ UNCHANGED <<uploadFailed, opc>>
       \/ /\ uploadFailed' = uploadFailed \union {s}
          /\ Goto(s, "respond")
          /\ UNCHANGED uploaded
    /\ UNCHANGED <<payVars, bcastVars, status, result, dataVars, transcoded>>

\* What was saved is the result.
WriteResult(s) ==
    /\ opc[s] = "respond" \/ (opc[s] = "upload" /\ uploaded[s] = NumProfiles)
    /\ Respond(s, uploaded[s])
    /\ UNCHANGED <<payVars, bcastVars, status, dataVars, workVars>>

-----------------------------------------------------------------------------
Init ==
    /\ senderNonce = 0 /\ highest = 0
    /\ nonce = [s \in Segments |-> 0]
    /\ bpc = [s \in Segments |-> "idle"]
    /\ outcome = [s \in Segments |-> NoResult]
    /\ opc = [s \in Segments |-> "none"]
    /\ status = [s \in Segments |-> "none"]
    /\ uploaded = [s \in Segments |-> 0]
    /\ result = [s \in Segments |-> NoResult]
    /\ paid = {} /\ slow = {} /\ corrupt = {} /\ transcoded = {} /\ uploadFailed = {}

Broadcaster(s) == Timeout(s) \/ ReceiveHeader(s) \/ ReceiveBody(s)

ServeSegment(s) ==
    \/ verifySegCreds(s) \/ ProcessPayment(s) \/ ReadBody(s) \/ GetSegmentData(s)
    \/ CheckHash(s) \/ TranscodeSeg(s) \/ SaveData(s) \/ WriteResult(s)

Next == \E s \in Segments : SubmitSegment(s) \/ Broadcaster(s) \/ ServeSegment(s)

Spec == Init /\ [][Next]_vars

\* The HTTP client's timer; nothing is assumed of the orchestrator.
FairSpec == Spec /\ \A s \in Segments : WF_vars(Broadcaster(s))

-----------------------------------------------------------------------------
(* Properties *)

\* Shapes of the state; only segments whose handler got that far have results.
TypeOK ==
    /\ senderNonce \in Nat /\ highest \in 0..senderNonce
    /\ nonce \in [Segments -> 0..senderNonce]
    /\ bpc \in [Segments -> {"idle", "header", "body", "done"}]
    /\ outcome \in [Segments -> Results]
    /\ opc \in [Segments -> {"none", "creds", "payment", "read", "download", "hash",
                             "transcode", "upload", "respond", "done"}]
    /\ status \in [Segments -> Statuses]
    /\ uploaded \in [Segments -> Urls]
    /\ result \in [Segments -> Results]
    /\ \A S \in {paid, slow, corrupt, transcoded, uploadFailed} : S \subseteq Segments
    /\ \A s \in Segments : result[s] # NoResult => opc[s] = "done"

\* The orchestrator spends work only on segments that were paid and are what
\* the broadcaster signed.
WorkedForPaidAndSigned == transcoded \subseteq paid \ corrupt

\* SubmitSegment returns, whatever the orchestrator does.
SubmitReturns == \A s \in Segments : (bpc[s] = "header") ~> (bpc[s] = "done")

\* ServeSegment, of a download that took longer than HTTPTimeout: "so there is
\* no point to start transcoding process" and "took too long, aborting".
SlowNotTranscoded == slow \intersect transcoded = {}

\* ServeSegment, after the status: "Any further errors come through the response
\* body".
UploadErrorReported ==
    \A s \in uploadFailed : opc[s] = "done" => result[s] = Error
=============================================================================
