------------------------------ MODULE MCEthereum ------------------------------
(****************************************************************************)
(* The node's dealings with Ethereum: its own transactions (ChainAccess,     *)
(* RewardCalls), the services that follow the chain (ChainServices), and the *)
(* proofs of a segment's place in a claim (MerkleTree).  Their components    *)
(* share no variable: part says which of them a behaviour is of, and the     *)
(* others keep their initial state.                                          *)
(****************************************************************************)
EXTENDS ChainServices, RewardCalls, ChainAccess, MerkleTree, TLC

CONSTANTS
    Parts,  \* parts that a run is about
    n1, n2  \* nodes of RoundsService

VARIABLE part

ASSUME PartsAssumption ==
    Parts \subseteq {"nonces", "unbonding", "reward", "rounds", "events", "client"}

\* Two orchestrators with a transcoder without the service between them, which resigns; the
\* second one overtakes the first.
PoolsOfTwo ==
    <<[transcoders |-> <<n1, Absent, n2>>, numActive |-> 4],
      [transcoders |-> <<n2, n1>>, numActive |-> 2]>>

Symmetry == Permutations(Calls) \union Permutations(Ids)

\* A part that does not move has one initial state.
MCInit ==
    /\ Init /\ U!Init /\ W!Init /\ I!Init /\ V!Init /\ E!Init /\ part \in Parts
    /\ part # "client" => keyStore = <<>> /\ given = E!Nothing

MCNext ==
    \/ /\ part = "nonces" /\ Next
       /\ UNCHANGED <<part, unbondingVars, rewardVars, roundsVars, eventVars, clientVars>>
    \/ /\ part = "unbonding" /\ U!Next
       /\ UNCHANGED <<part, vars, rewardVars, roundsVars, eventVars, clientVars>>
    \/ /\ part = "reward" /\ W!Next
       /\ UNCHANGED <<part, vars, unbondingVars, roundsVars, eventVars, clientVars>>
    \/ /\ part = "rounds" /\ I!Next
       /\ UNCHANGED <<part, vars, unbondingVars, rewardVars, eventVars, clientVars>>
    \/ /\ part = "events" /\ V!Next
       /\ UNCHANGED <<part, vars, unbondingVars, rewardVars, roundsVars, clientVars>>
    \/ /\ part = "client" /\ E!Next
       /\ UNCHANGED <<part, vars, unbondingVars, rewardVars, roundsVars, eventVars>>

MCSpec ==
    MCInit /\ [][MCNext]_<<part, vars, unbondingVars, rewardVars, roundsVars, eventVars, clientVars>>

\* The fairness of each part, as in its FairSpec.
MCFairSpec ==
    /\ MCSpec
    /\ WF_rewardVars(part = "reward" /\ W!Service)
    /\ WF_rewardVars(part = "reward" /\ \E t \in pool : W!Mine(t))

-----------------------------------------------------------------------------
\* Shapes of the state of all parts, as each module states them.
TypesOK == TypeOK /\ U!TypeOK /\ W!TypeOK /\ I!TypeOK /\ V!TypeOK /\ E!TypeOK
=============================================================================
