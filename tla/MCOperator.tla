----------------------------- MODULE MCOperator -----------------------------
(****************************************************************************)
(* The node and its operator: requests of the web server (Staking, whose     *)
(* handlers are interchangeable), the node's process and database            *)
(* (OperatorNode) and the operator's console (OperatorConsole).  They share  *)
(* no variable: part says which of them a behaviour is of, and the others    *)
(* keep their initial state.                                                 *)
(****************************************************************************)
EXTENDS Staking, OperatorNode, OperatorConsole, TLC

CONSTANT Parts  \* parts that a run is about

VARIABLE part

ASSUME PartsAssumption == Parts \subseteq {"requests", "console", "life", "database"}

Symmetry == Permutations(Handlers) \union Permutations(Goroutines) \union Permutations(Tickets)

\* A part that does not move has one initial state.
MCInit ==
    /\ part \in Parts /\ Init /\ K!Init /\ N!Init /\ B!Init
    /\ part # "requests" => bonded = 0
    /\ part # "console" => ~orchestrator
    /\ part # "life" => opts = CHOOSE o \in N!Options : TRUE
    /\ part # "database" => disk.version = LivepeerDBVersion

MCNext ==
    \/ part = "requests" /\ Next /\ UNCHANGED <<part, consoleVars, lifeVars, dbVars>>
    \/ part = "console" /\ K!Next /\ UNCHANGED <<part, vars, lifeVars, dbVars>>
    \/ part = "life" /\ N!Next /\ UNCHANGED <<part, vars, consoleVars, dbVars>>
    \/ part = "database" /\ B!Next /\ UNCHANGED <<part, vars, consoleVars, lifeVars>>

MCSpec == MCInit /\ [][MCNext]_<<part, vars, consoleVars, lifeVars, dbVars>>

-----------------------------------------------------------------------------
\* Shapes of the state of all parts, as each module states them.
TypesOK == TypeOK /\ K!TypeOK /\ N!TypeOK /\ B!TypeOK
=============================================================================
