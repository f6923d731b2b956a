--------------------------- MODULE ContractEvents ---------------------------
(****************************************************************************)
(* How the events of a delegator reach the unbonding service through the     *)
(* bindings of the BondingManager contract (eth/contracts/bondingManager.go):*)
(* the iterators over past events, each fed by a goroutine of its own, and   *)
(* the subscriptions to new ones, each with a goroutine that forwards what   *)
(* the Ethereum client delivers to the sink of the service.                  *)
(*                                                                           *)
(* go-ethereum is external: FilterLogs puts the logs it found into a channel *)
(* of ChanLen and then closes the error channel of its subscription; a       *)
(* subscription delivers the logs since it was made until it fails.          *)
(****************************************************************************)
EXTENDS Naturals, Sequences

CONSTANTS
    ChanLen,  \* of the channels of logs
    Past,     \* logs of each event there are when the service starts
    New,      \* bound: logs that come later, of all events
    MaxFail   \* bound: failures of subscriptions

EventsAssumption == ChanLen \in Nat \ {0} /\ Past \in Nat /\ New \in Nat /\ MaxFail \in Nat

VARIABLES
    chain,  \* logs of each event so far
    pc,     \* of the service: the event it iterates over, "watch", or "select"
    it,     \* the iterator of each event
    buff,   \* logs its goroutine has not sent yet
    ended,  \* whether that goroutine closed the error channel
    sub,    \* the subscription of each event
    fails

vars == <<chain, pc, it, buff, ended, sub, fails>>

Events == {"Unbond", "Rebond", "WithdrawStake"}
After == [Unbond |-> "Rebond", Rebond |-> "WithdrawStake", WithdrawStake |-> "watch"]

NoIterator == [at |-> "filter", logs |-> <<>>, done |-> FALSE, fail |-> FALSE, got |-> <<>>]
NoSub == [at |-> "off", logs |-> <<>>, event |-> 0, up |-> FALSE, from |-> 0]

-----------------------------------------------------------------------------
(* Past events *)

\* FilterLogs of go-ethereum, which may fail: the replay ends.
Filter(e) ==
    /\ pc = e /\ it[e].at = "filter"
    /\ \/ /\ it' = [it EXCEPT ![e].at = "next"]
          /\ buff' = [buff EXCEPT ![e] = [i \in 1 .. chain[e] |-> i]]
          /\ ended' = [ended EXCEPT ![e] = FALSE]
          /\ UNCHANGED pc
       \/ pc' = "watch" /\ UNCHANGED <<it, buff, ended>>
    /\ UNCHANGED <<chain, sub, fails>>

\* By delegate, none of which is given, and delegator, which is the node's account
FilterUnbond == Filter("Unbond")
FilterRebond == Filter("Rebond")
\* By delegator only
FilterWithdrawStake == Filter("WithdrawStake")

\* The goroutine of FilterLogs
Feed(e) ==
    /\ it[e].at # "filter" /\ ~ended[e]
    /\ \/ /\ buff[e] # <<>> /\ Len(it[e].logs) < ChanLen
          /\ it' = [it EXCEPT ![e].logs = Append(@, Head(buff[e]))]
          /\ buff' = [buff EXCEPT ![e] = Tail(@)]
          /\ UNCHANGED ended
       \/ /\ buff[e] = <<>> /\ ended' = [ended EXCEPT ![e] = TRUE]
          /\ UNCHANGED <<it, buff>>
    /\ UNCHANGED <<chain, pc, sub, fails>>

\* A log arrived; UnpackLog may fail.
TakeLog(i) ==
    {[i EXCEPT !.at = "callback", !.logs = Tail(@), !.got = Append(@, Head(i.logs))],
     [i EXCEPT !.at = "false", !.logs = Tail(@), !.fail = TRUE]}

\* Mutant: the end of the subscription ends the iteration.
Next_AtOnce(i, closed) ==
    (IF i.logs # <<>> THEN TakeLog(i) ELSE {}) \union (IF closed THEN {[i EXCEPT !.at = "false"]} ELSE {})

\* Next of an iterator in progress waits for a log or for the end of the subscription,
\* and takes either if both are there; once the subscription has ended it takes what
\* there is.
NextOf(i, closed) ==
    IF i.fail THEN {[i EXCEPT !.at = "false"]}
    ELSE IF i.done THEN IF i.logs # <<>> THEN TakeLog(i) ELSE {[i EXCEPT !.at = "false"]}
    ELSE (IF i.logs # <<>> THEN TakeLog(i) ELSE {}) \union (IF closed THEN {[i EXCEPT !.done = TRUE]} ELSE {})

Advance(e) ==
    /\ pc = e /\ it[e].at = "next"
    /\ \E i \in NextOf(it[e], ended[e]) : it' = [it EXCEPT ![e] = i]
    /\ UNCHANGED <<chain, pc, buff, ended, sub, fails>>

UnbondNext == Advance("Unbond")
RebondNext == Advance("Rebond")
WithdrawStakeNext == Advance("WithdrawStake")

\* Nobody looks at the iterator any more; it is not closed.
Left(i) == [NoIterator EXCEPT !.at = "left", !.logs = i.logs]

\* ProcessHistoricalUnbond and the others: an error of the callback ends the replay, one
\* of the iterator is not asked for.
ProcessHistorical(e) ==
    /\ pc = e
    /\ \/ /\ it[e].at = "callback"
          /\ \/ it' = [it EXCEPT ![e].at = "next"] /\ UNCHANGED pc
             \/ it' = [it EXCEPT ![e] = Left(@)] /\ pc' = "watch"
       \/ it[e].at = "false" /\ it' = [it EXCEPT ![e] = Left(@)] /\ pc' = After[e]
    /\ UNCHANGED <<chain, buff, ended, sub, fails>>

-----------------------------------------------------------------------------
(* New events *)

\* A block with a log of the event; a subscription that is up delivers it.
NewLog(e) ==
    /\ chain["Unbond"] + chain["Rebond"] + chain["WithdrawStake"] < 3 * Past + New
    /\ Len(sub[e].logs) < ChanLen
    /\ chain' = [chain EXCEPT ![e] = @ + 1]
    /\ sub' = IF sub[e].up THEN [sub EXCEPT ![e].logs = Append(@, chain'[e])] ELSE sub
    /\ UNCHANGED <<pc, it, buff, ended, fails>>

SubscriptionFails(e) ==
    /\ sub[e].up /\ fails < MaxFail /\ fails' = fails + 1
    /\ sub' = [sub EXCEPT ![e].up = FALSE]
    /\ UNCHANGED <<chain, pc, it, buff, ended>>

\* The service (re)subscribes what needs it.
Watch(e) ==
    /\ pc = "watch" /\ sub[e].at = "off"
    /\ sub' = [sub EXCEPT ![e] = [NoSub EXCEPT !.at = "run", !.up = TRUE, !.from = chain[e]]]
    /\ UNCHANGED <<chain, pc, it, buff, ended, fails>>

Select ==
    /\ pc = "watch" /\ \A e \in Events : sub[e].at # "off" /\ pc' = "select"
    /\ UNCHANGED <<chain, it, buff, ended, sub, fails>>

\* The goroutine of a subscription: it unpacks a log and offers it to the sink.
Forward(e) ==
    /\ sub[e].event = 0 /\ sub[e].logs # <<>>
    /\ sub' \in {[sub EXCEPT ![e].event = Head(sub[e].logs), ![e].logs = Tail(@)],
                 [sub EXCEPT ![e].at = "ended", ![e].up = FALSE]}

Forwards(e) ==
    /\ sub[e].at = "run"
    /\ \/ Forward(e)
       \/ ~sub[e].up /\ sub' = [sub EXCEPT ![e].at = "ended", ![e].event = 0]
    /\ UNCHANGED <<chain, pc, it, buff, ended, fails>>

WatchUnbond == Watch("Unbond") \/ Forwards("Unbond")
WatchRebond == Watch("Rebond") \/ Forwards("Rebond")
WatchWithdrawStake == Watch("WithdrawStake") \/ Forwards("WithdrawStake")

\* The service takes an event from the sink, or learns that the subscription ended.
Receive(e) ==
    /\ pc = "select"
    /\ \/ /\ sub[e].at = "run" /\ sub[e].event # 0
          /\ sub' = [sub EXCEPT ![e].event = 0]
       \/ sub[e].at = "ended" /\ sub' = [sub EXCEPT ![e] = NoSub]
    /\ pc' = "watch"
    /\ UNCHANGED <<chain, it, buff, ended, fails>>

-----------------------------------------------------------------------------
Init ==
    /\ chain = [e \in Events |-> Past]
    /\ pc = "Unbond"
    /\ it = [e \in Events |-> NoIterator]
    /\ buff = [e \in Events |-> <<>>] /\ ended = [e \in Events |-> FALSE]
    /\ sub = [e \in Events |-> NoSub]
    /\ fails = 0

Next ==
    \/ FilterUnbond \/ FilterRebond \/ FilterWithdrawStake
    \/ UnbondNext \/ RebondNext \/ WithdrawStakeNext
    \/ WatchUnbond \/ WatchRebond \/ WatchWithdrawStake
    \/ Select
    \/ \E e \in Events :
          Feed(e) \/ ProcessHistorical(e) \/ NewLog(e) \/ SubscriptionFails(e) \/ Receive(e)

Spec == Init /\ [][Next]_vars

-----------------------------------------------------------------------------
(* Properties *)

\* Shapes of the state.
TypeOK ==
    /\ pc \in Events \union {"watch", "select"}
    /\ \A e \in Events : Len(it[e].logs) <= ChanLen /\ Len(sub[e].logs) <= ChanLen

\* Next: an iteration that came to its end without failing gave the callback all logs
\* there were when it began, in their order, although Next may learn that the goroutine
\* has sent everything before it has received it.
IterationComplete ==
    \A e \in Events :
        it[e].at = "false" /\ ~it[e].fail => Len(it[e].got) >= Past /\ it[e].got = [i \in 1 .. Len(it[e].got) |-> i]

\* A replay that ProcessHistorical... ends without an error is complete.
ReplayedAll ==
    \A e \in Events : it[e].at = "false" => Len(it[e].got) >= Past

\* The goroutine of an iterator ends: what it still has to send fits the channel.
FeedEnds ==
    \A e \in Events : it[e].at = "left" => Len(buff[e]) + Len(it[e].logs) <= ChanLen

\* No log is missed: it was replayed or some subscription delivered it.
NoLogMissed ==
    \A e \in Events : sub[e].at # "off" => sub[e].from <= Past
=============================================================================
