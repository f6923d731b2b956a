------------------------------- MODULE Ledger -------------------------------
(****************************************************************************)
(* What the recipient of tickets (pm/recipient.go) promises of its payment   *)
(* sessions, without its locks, maps and goroutines.  A session is opened    *)
(* once.  While it is open its tickets are credited in the order of their    *)
(* nonces, and each once.  Once its rand is revealed it is never open again; *)
(* what is still credited is late and without that promise.  When the        *)
(* process has ended, no ticket of the session is credited any more.         *)
(****************************************************************************)
EXTENDS Naturals

CONSTANTS Sessions, MaxNonce

Ticket == [rand : Sessions, nonce : 1 .. MaxNonce]

VARIABLES
    phase,   \* phase[r]: "new", "open", "revealed" or "ended"
    credit   \* credit[t]: times t is credited

vars == <<phase, credit>>

Init ==
    /\ phase = [r \in Sessions |-> "new"]
    /\ credit = [t \in Ticket |-> 0]

\* Parameters with a fresh recipientRand are given out.
Open(r) ==
    /\ phase[r] = "new"
    /\ phase' = [phase EXCEPT ![r] = "open"]
    /\ UNCHANGED credit

\* A ticket is accepted for the first time: its nonce is higher than those before.
Credit(t) ==
    /\ phase[t.rand] = "open"
    /\ \A u \in Ticket : u.rand = t.rand /\ credit[u] > 0 => u.nonce < t.nonce
    /\ credit' = [credit EXCEPT ![t] = 1]
    /\ UNCHANGED phase

\* A ticket is accepted after the reveal; the ledger says neither which nor how often.
Late(t) ==
    /\ phase[t.rand] = "revealed"
    /\ credit' = [credit EXCEPT ![t] = @ + 1]
    /\ UNCHANGED phase

\* Recipient rands are revealed.
Reveal(R) ==
    /\ \A r \in R : phase[r] = "open"
    /\ phase' = [r \in Sessions |-> IF r \in R THEN "revealed" ELSE phase[r]]
    /\ UNCHANGED credit

\* The process that knows the secret of its sessions ends.
End ==
    /\ phase' = [r \in Sessions |-> IF phase[r] = "new" THEN "new" ELSE "ended"]
    /\ UNCHANGED credit

Next ==
    \/ \E r \in Sessions : Open(r)
    \/ \E t \in Ticket : Credit(t) \/ Late(t)
    \/ \E R \in SUBSET Sessions : Reveal(R)
    \/ End

Spec == Init /\ [][Next]_vars
=============================================================================
