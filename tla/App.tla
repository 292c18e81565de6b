-------------------------------- MODULE App --------------------------------
(***************************************************************************)
(* The life of a process: cmd/lpbot/main.go with the opening of the store  *)
(* (sqlite/store.go) and the scanner's own loop (core/scanner).  The main  *)
(* goroutine starts the parts one after the other, two workers run until   *)
(* the context is cancelled, and the store is closed when they have ended. *)
(* The database file outlives the process, which may end at any moment.    *)
(***************************************************************************)
EXTENDS Integers, Sequences

CONSTANT
  ByHand    \* the tables named without the underscore that somebody has made

(* The tables NewStore creates, and the columns it then adds.  A table is
   named here by what follows the prefix: runMigrations leaves the underscore
   out, so the tables it alters are not the tables migrate creates. *)
Creates == <<"_transactions", "_positions", "_pools", "_risk_events", "_ledger",
             "_kill_switch_state">>

Adds == <<<<"positions", "amount_usd">>, <<"positions", "tier">>,
          <<"risk_events", "position_id">>, <<"risk_events", "pool_key">>,
          <<"risk_events", "action">>>>

Statements == Len(Creates) + Len(Adds)
Altered == {Adds[i][1] : i \in 1..Len(Adds)}

(* The columns that tables of an older program may lack, and those that a
   table is created with today. *)
Later == {"_positions"} \X {"amount_usd", "tier"}
           \cup {"_risk_events"} \X {"position_id", "pool_key", "action"}
Grown == {"_positions", "_risk_events"}
ColumnsOf(table) == {c \in Later : c[1] = table}

Columns == Later \cup {Adds[i] : i \in 1..Len(Adds)}

Workers == {"scanner", "strategy"}

VARIABLES
  phase,      \* of the main goroutine
  step,       \* statements of the migration that are done
  tables,     \* in the database: the tables that exist
  columns,    \* in the database: which of Columns exist
  store,      \* none, open or closed
  worker,     \* per worker: where its goroutine is
  cancelled,  \* has a signal cancelled the context
  failure     \* why the process gave up, or none

vars == <<phase, step, tables, columns, store, worker, cancelled, failure>>

database == <<tables, columns>>
AllOff == [w \in Workers |-> "off"]
AllDone == \A w \in Workers : worker[w] \in {"off", "done"}

-----------------------------------------------------------------------------
(* Run returns 1; the deferred cleanup closes a store that was opened. *)
GiveUp(reason) ==
  /\ phase' = "exited"
  /\ failure' = reason
  /\ store' = IF store = "open" THEN "closed" ELSE store
  /\ UNCHANGED <<step, tables, columns, worker, cancelled>>

Proceed(from, to) ==
  /\ phase = from
  /\ phase' = to
  /\ UNCHANGED <<step, tables, columns, store, worker, cancelled, failure>>

ValidateMode ==
  \/ Proceed("mode", "rpc")
  \/ phase = "mode" /\ GiveUp("mode")

CreateProviders ==
  \/ Proceed("rpc", "migrating")
  \/ phase = "rpc" /\ GiveUp("rpc")

StatementDone == step' = step + 1 /\ UNCHANGED <<phase, store, worker, cancelled, failure>>

(* CREATE TABLE IF NOT EXISTS: a table of an older program keeps the columns
   it has. *)
CreateTable ==
  /\ phase = "migrating" /\ step < Len(Creates)
  /\ LET table == Creates[step + 1]
     IN  /\ tables' = tables \cup {table}
         /\ columns' = IF table \in tables THEN columns ELSE columns \cup ColumnsOf(table)
  /\ StatementDone

Adding == Adds[step - Len(Creates) + 1]

(* addColumnIfNotExists: the columns of a table that does not exist are an
   empty answer, so the ALTER TABLE is tried, and fails. *)
AddColumn ==
  /\ phase = "migrating" /\ step \in Len(Creates)..(Statements - 1)
  /\ \/ Adding \in columns /\ UNCHANGED database /\ StatementDone
     \/ /\ Adding \notin columns /\ Adding[1] \in tables
        /\ columns' = columns \cup {Adding}
        /\ UNCHANGED tables
        /\ StatementDone
     \/ Adding[1] \notin tables /\ GiveUp("no such table")

(* Any statement may fail; NewStore then closes the database itself. *)
StatementFails ==
  /\ phase = "migrating" /\ step < Statements
  /\ GiveUp("io")

(* The rest of initAdapters, initCore and wireMainLoop cannot fail. *)
OpenStore ==
  /\ phase = "migrating" /\ step = Statements
  /\ phase' = "core"
  /\ store' = "open"
  /\ UNCHANGED <<step, tables, columns, worker, cancelled, failure>>

StartWorkers ==
  /\ phase = "core"
  /\ phase' = "running"
  /\ worker' = [w \in Workers |-> "select"]
  /\ UNCHANGED <<step, tables, columns, store, cancelled, failure>>

SeeShutdown == cancelled /\ Proceed("running", "stopping")

(* Mutant: shutdown does not wait for the workers. *)
ExitAtOnce ==
  /\ phase = "stopping"
  /\ phase' = "exited"
  /\ store' = "closed"
  /\ UNCHANGED <<step, tables, columns, worker, cancelled, failure>>

(* shutdown waits for the workers; then the deferred cleanup closes the store. *)
Exit ==
  /\ phase = "stopping" /\ AllDone
  /\ phase' = "exited"
  /\ store' = "closed"
  /\ UNCHANGED <<step, tables, columns, worker, cancelled, failure>>

-----------------------------------------------------------------------------
Moves(w, from, to) ==
  /\ worker[w] = from
  /\ worker' = [worker EXCEPT ![w] = to]
  /\ UNCHANGED <<phase, step, tables, columns, store, cancelled, failure>>

(* The scanner's loop calls Scanner.Run, a loop of its own that scans, waits
   for its own ticker and returns only when the context is cancelled. *)
ScannerTick == Moves("scanner", "select", "scanning")
ScanReturns == Moves("scanner", "scanning", "waiting")
ScanAgain == Moves("scanner", "waiting", "scanning")

(* Mutant: Run returns with an error of a scan alone. *)
ScannerRunNeverReturns == FALSE /\ Moves("scanner", "waiting", "select")

ScannerRunReturns == cancelled /\ Moves("scanner", "waiting", "select")

StrategyTick == Moves("strategy", "select", "evaluating")
Evaluated == Moves("strategy", "evaluating", "select")

WorkerStops(w) == cancelled /\ Moves(w, "select", "done")

(* The first signal cancels the context; a second one is not listened to. *)
Signal ==
  /\ phase # "exited" /\ ~cancelled
  /\ cancelled' = TRUE
  /\ UNCHANGED <<phase, step, tables, columns, store, worker, failure>>

(* The process ends, of itself or not, and is started again. *)
Restart ==
  /\ phase' = "mode" /\ step' = 0 /\ store' = "none"
  /\ worker' = AllOff /\ cancelled' = FALSE /\ failure' = "none"
  /\ UNCHANGED <<tables, columns>>

(* A database may be new, or of an older program whose tables have only some
   of the columns.  No program makes the tables of ByHand. *)
Init ==
  /\ phase = "mode" /\ step = 0 /\ store = "none"
  /\ \E old \in SUBSET Grown :
       /\ tables = old \cup ByHand
       /\ columns \in SUBSET {c \in Later : c[1] \in old}
  /\ worker = AllOff /\ cancelled = FALSE /\ failure = "none"

MainStep ==
  \/ ValidateMode \/ CreateProviders
  \/ CreateTable \/ AddColumn \/ StatementFails \/ OpenStore
  \/ StartWorkers \/ SeeShutdown \/ Exit

WorkReturns == ScanReturns \/ Evaluated

Next ==
  \/ MainStep
  \/ ScannerTick \/ ScanAgain \/ ScannerRunReturns \/ StrategyTick \/ WorkReturns
  \/ \E w \in Workers : WorkerStops(w)
  \/ Signal \/ Restart

Spec == Init /\ [][Next]_vars

-----------------------------------------------------------------------------
(* Types of the process and of the database. *)
TypeOK ==
  /\ phase \in {"mode", "rpc", "migrating", "core", "running", "stopping", "exited"}
  /\ step \in 0..Statements
  /\ tables \subseteq Altered \cup {Creates[i] : i \in 1..Len(Creates)}
  /\ columns \subseteq Columns
  /\ store \in {"none", "open", "closed"}
  /\ worker \in [Workers -> {"off", "select", "scanning", "waiting", "evaluating", "done"}]
  /\ cancelled \in BOOLEAN
  /\ failure \in {"none", "mode", "rpc", "no such table", "io"}

(* No worker runs without an open store: neither one that a failed start left
   behind nor one that a shutdown did not wait for. *)
StoreOutlivesWorkers == ~AllDone => store = "open"

(* A process that runs has all the tables, wherever earlier processes were
   stopped within their migrations.  It is not said to have the columns: those
   of an old table never come (see MigrationFindsTables). *)
RunningHasTables ==
  phase \in {"core", "running", "stopping"} =>
    \A i \in 1..Len(Creates) : Creates[i] \in tables

(* A signal ends the process, at whatever point of its life it comes. *)
SignalEndsProcess == cancelled ~> phase = "exited" \/ ~cancelled

(* store.go: "Run ALTER TABLE statements for existing databases / Use PRAGMA
   table_info to check if columns exist before adding": a migration that came
   to its end has given every table that was created all its columns, and none
   ends for want of the table it alters. *)
MigrationFindsTables ==
  /\ failure # "no such table"
  /\ step = Statements => Later \subseteq columns
=============================================================================
