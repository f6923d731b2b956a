------------------------------ MODULE Database ------------------------------
(****************************************************************************)
(* The node's SQLite database (common/db.go): InitDB, which opens it, brings *)
(* its schema up and prepares eight statements, any of which may fail;       *)
(* Close; and the reads and writes of the node's goroutines, which share one *)
(* connection.  A crash leaves what is on disk.                              *)
(*                                                                           *)
(* database/sql and SQLite are external: an Exec is atomic and durable, and  *)
(* a statement waits for the connection, which rows hold until closed.       *)
(****************************************************************************)
EXTENDS Naturals, Sequences

CONSTANTS
    Goroutines,         \* that use the database
    Tickets,            \* winning tickets, all of one session
    Locks,              \* unbonding locks
    LivepeerDBVersion,
    Versions,           \* of the file the node finds
    MaxStarts, MaxOps   \* bounds: starts of the node, operations of a goroutine

DatabaseAssumption ==
    /\ LivepeerDBVersion \in Nat /\ Versions \subseteq Nat
    /\ MaxStarts \in Nat /\ MaxOps \in Nat

VARIABLES
    disk,             \* the file: version, lastBlock, orchestrators, locks, used locks, tickets
    pc, fields, open, \* InitDB; the fields of DB that are set; what is open in the driver
    conn,             \* the goroutine that has the connection, or nobody
    op,               \* what a goroutine is at: its query, the rows left, those it has
    stored,           \* tickets whose callers were told that they are stored
    starts, ops

vars == <<disk, pc, fields, open, conn, op, stored, starts, ops>>

Nobody == "nobody"
Idle == [name |-> "idle", at |-> "idle", rows |-> {}, got |-> {}, before |-> {}]

\* In the order InitDB prepares them
Statements == <<"selectOrchs", "updateOrch", "updateKV", "insertUnbondingLock",
                "useUnbondingLock", "unbondingLocks", "withdrawableUnbondingLocks",
                "insertWinningTicket">>

\* The tables that the schema makes, and the rows it adds, unless they are there.
schema(f) ==
    IF f.version # 0 THEN f
    ELSE [version |-> LivepeerDBVersion, lastBlock |-> 0, orchs |-> {}, locks |-> {}, used |-> {},
          tickets |-> {}]

-----------------------------------------------------------------------------
(* InitDB and Close *)

\* Mutant: a statement added to DB and not to Close.
Close_Forgets ==
    open' = open \ (fields \ {"withdrawableUnbondingLocks"})

Close == open' = open \ fields

Fail == Close /\ pc' = "failed" /\ UNCHANGED fields

Open ==
    /\ pc = "down" /\ starts < MaxStarts /\ starts' = starts + 1
    /\ \/ pc' = "failed" /\ UNCHANGED <<fields, open>>
       \/ pc' = "schema" /\ fields' = {"dbh"} /\ open' = {"dbh"}
    /\ UNCHANGED <<disk, conn, op, stored, ops>>

Schema ==
    /\ pc = "schema"
    /\ \/ Fail /\ UNCHANGED disk
       \/ disk' = schema(disk) /\ pc' = "version" /\ UNCHANGED <<fields, open>>
    /\ UNCHANGED <<conn, op, stored, starts, ops>>

\* A file of a later version is refused; one of an earlier version is taken as it is.
CheckVersion ==
    /\ pc = "version"
    /\ \/ Fail
       \/ disk.version <= LivepeerDBVersion /\ pc' = "prepare" /\ UNCHANGED <<fields, open>>
    /\ UNCHANGED <<disk, conn, op, stored, starts, ops>>

\* The next statement is the first that is not prepared.
Prepare ==
    /\ pc = "prepare"
    /\ \/ Fail
       \/ \E k \in DOMAIN Statements :
             /\ Statements[k] \notin fields /\ \A j \in 1 .. k - 1 : Statements[j] \in fields
             /\ fields' = fields \union {Statements[k]} /\ open' = open \union {Statements[k]}
             /\ pc' = IF k = Len(Statements) THEN "up" ELSE pc
    /\ UNCHANGED <<disk, conn, op, stored, starts, ops>>

\* InitDB returned an error: main returns, and may be run again.
GiveUp ==
    /\ pc = "failed" /\ pc' = "down" /\ fields' = {} /\ open' = {}
    /\ UNCHANGED <<disk, conn, op, stored, starts, ops>>

\* The node stops, with or without the deferred Close, and everything but the file goes.
Stop ==
    /\ pc \notin {"down", "failed"}
    /\ pc' = "down" /\ fields' = {} /\ open' = {} /\ conn' = Nobody
    /\ op' = [g \in Goroutines |-> Idle]
    /\ UNCHANGED <<disk, stored, starts, ops>>

-----------------------------------------------------------------------------
(* Writes, and a read of one row: they have the connection for as long as they last. *)

MayBegin(g) ==
    /\ pc = "up" /\ op[g] = Idle /\ conn = Nobody
    /\ ops[g] < MaxOps /\ ops' = [ops EXCEPT ![g] = @ + 1]

Exec(g, f) ==
    /\ MayBegin(g)
    /\ disk' \in {disk, f}
    /\ UNCHANGED <<pc, fields, open, conn, op, starts>>

\* UPDATE: the row is there since schema.
SetLastSeenBlock(g) ==
    Exec(g, [disk EXCEPT !.lastBlock = 1 - @]) /\ UNCHANGED stored

\* QueryRow gives the connection back when it has scanned the one row.
LastSeenBlock(g) == Exec(g, disk) /\ UNCHANGED stored

\* INSERT OR REPLACE: one row for each address
UpdateOrch(g) ==
    Exec(g, [disk EXCEPT !.orchs = {"orch"}]) /\ UNCHANGED stored

\* A second row of the same id is an error.
InsertUnbondingLock(g) ==
    \E l \in Locks : Exec(g, [disk EXCEPT !.locks = @ \union {l}]) /\ UNCHANGED stored

\* The row stays in the table.
UseUnbondingLock(g) ==
    \E l \in disk.locks : Exec(g, [disk EXCEPT !.used = @ \union {l}]) /\ UNCHANGED stored

StoreWinningTicket(g) ==
    \E t \in Tickets \ disk.tickets :
        /\ Exec(g, [disk EXCEPT !.tickets = @ \union {t}])
        /\ stored' = IF disk' # disk THEN stored \union {t} ELSE stored

-----------------------------------------------------------------------------
(* Reads: rows keep the connection until they are closed. *)

Query(g, name, rows) ==
    /\ MayBegin(g)
    /\ op' = [op EXCEPT ![g] = [name |-> name, at |-> "rows", rows |-> rows, got |-> {}, before |-> stored]]
    /\ conn' = g
    /\ UNCHANGED <<disk, pc, fields, open, stored, starts>>

Return(g, at) ==
    /\ op' = [op EXCEPT ![g].at = at, ![g].rows = {}] /\ conn' = Nobody

\* The query fails where the error is looked at before the rows are closed.
QueryFails(g, name) ==
    /\ MayBegin(g)
    /\ op' = [op EXCEPT ![g] = [Idle EXCEPT !.name = name, !.at = "error"]]
    /\ UNCHANGED <<disk, pc, fields, open, conn, stored, starts>>

\* defer rows.Close() comes before the error is looked at, and rows is nil.
QueryPanics(g) ==
    /\ MayBegin(g)
    /\ pc' = "panicked"
    /\ UNCHANGED <<disk, fields, open, conn, op, stored, starts>>

LoadWinningTickets(g) == Query(g, "tickets", disk.tickets) \/ QueryPanics(g)
SelectOrchs(g) == Query(g, "orchs", disk.orchs) \/ QueryPanics(g)
UnbondingLockIDs(g) == Query(g, "locks", disk.locks) \/ QueryFails(g, "locks")

\* With a round, those that can be withdrawn by then
UnbondingLocks(g) ==
    \/ \E due \in SUBSET (disk.locks \ disk.used) : Query(g, "locks", due)
    \/ QueryFails(g, "locks")

Row(g, r) ==
    /\ op' = [op EXCEPT ![g].rows = @ \ {r}, ![g].got = @ \union {r}] /\ UNCHANGED conn

\* Mutant: the rows of tickets are not closed when one does not scan.
ScanFails_KeepsRows(g, r) ==
    /\ op' = [op EXCEPT ![g].rows = @ \ {r}, ![g].at = IF op[g].name = "tickets" THEN "error" ELSE @]
    /\ UNCHANGED conn

\* The next row does not scan: with tickets that is an error, and others do without it.
ScanFails(g, r) ==
    IF op[g].name = "tickets" THEN Return(g, "error")
    ELSE op' = [op EXCEPT ![g].rows = @ \ {r}] /\ UNCHANGED conn

\* rows.Next is false after the last row, and when the next one cannot be read: nobody
\* asks for rows.Err.
Rows(g) ==
    /\ pc = "up" /\ op[g].at = "rows"
    /\ \/ \E r \in op[g].rows : Row(g, r) \/ ScanFails(g, r)
       \/ Return(g, "answer")
    /\ UNCHANGED <<disk, pc, fields, open, stored, starts, ops>>

\* The caller goes on.
Took(g) ==
    /\ op[g].at \in {"answer", "error"}
    /\ op' = [op EXCEPT ![g] = Idle]
    /\ UNCHANGED <<disk, pc, fields, open, conn, stored, starts, ops>>

-----------------------------------------------------------------------------
Init ==
    /\ disk \in [version : Versions, lastBlock : {0}, orchs : {{}}, locks : {{}}, used : {{}},
                tickets : {{}}]
    /\ pc = "down" /\ fields = {} /\ open = {} /\ conn = Nobody
    /\ op = [g \in Goroutines |-> Idle] /\ stored = {}
    /\ starts = 0 /\ ops = [g \in Goroutines |-> 0]

Goroutine(g) ==
    \/ SetLastSeenBlock(g) \/ LastSeenBlock(g) \/ UpdateOrch(g)
    \/ InsertUnbondingLock(g) \/ UseUnbondingLock(g) \/ StoreWinningTicket(g)
    \/ LoadWinningTickets(g) \/ UnbondingLocks(g) \/ UnbondingLockIDs(g) \/ SelectOrchs(g)
    \/ Rows(g) \/ Took(g)

Next ==
    \/ Open \/ Schema \/ CheckVersion \/ Prepare \/ GiveUp \/ Stop
    \/ \E g \in Goroutines : Goroutine(g)

Spec == Init /\ [][Next]_vars

-----------------------------------------------------------------------------
(* Properties *)

\* Shapes of the state.
TypeOK ==
    /\ disk.lastBlock \in 0 .. 1 /\ disk.tickets \subseteq Tickets
    /\ disk.used \subseteq disk.locks /\ disk.locks \subseteq Locks
    /\ conn \in Goroutines \union {Nobody} /\ stored \subseteq disk.tickets

\* InitDB: wherever it fails, of whatever it had opened and prepared until then nothing
\* stays open.
FailureClosesAll == pc = "failed" => open = {}

\* And the database is in use only with all eight statements prepared and a file that is
\* not of a later version.
NothingLeftOpen ==
    /\ FailureClosesAll
    /\ pc = "up" => disk.version <= LivepeerDBVersion /\ open = {"dbh"} \union {Statements[i] : i \in DOMAIN Statements}

\* SetMaxOpenConns(1): only a goroutine that is still reading its rows keeps the one
\* connection, whichever way it came out of an earlier query: no other goroutine waits
\* for it for ever.
ConnectionFreed == conn # Nobody => op[conn].at = "rows" /\ pc = "up"

\* LoadWinningTickets: what it returns without an error has all tickets that
\* StoreWinningTicket had stored before: none is left out of a redemption unnoticed.
LoadComplete ==
    \A g \in Goroutines :
        op[g].name = "tickets" /\ op[g].at = "answer" => op[g].before \subseteq op[g].got

\* A query that fails is an error of the operation, not of the node.
NoPanic == pc # "panicked"
=============================================================================
