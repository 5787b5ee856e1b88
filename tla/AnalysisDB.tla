----------------------------- MODULE AnalysisDB -----------------------------
(***************************************************************************)
(* AnalysisDatabaseConnection and AnalysisDatabase of                      *)
(* src/vm/checker/check_db.rs: a table type_analysis_table from contract   *)
(* names to their serialized ContractAnalysis, kept in SQLite, written     *)
(* only through one savepoint at a time.                                   *)
(*                                                                         *)
(* Two databases can be opened: a file, which outlives the process, and    *)
(* ":memory:", which lives as long as its connection.  begin_save_point    *)
(* borrows the connection mutably, so at most one AnalysisDatabase exists  *)
(* per connection and its calls are sequential.  A SAVEPOINT outside a     *)
(* transaction starts one; RELEASE of it (commit) makes its writes         *)
(* durable; dropping an uncommitted rusqlite Savepoint rolls it back and   *)
(* releases it.  Every SQL call ends in .expect(SQL_FAIL_MESSAGE), so a    *)
(* failing call panics, and unwinding drops the savepoint.  The process    *)
(* may also die at any point; SQLite's journal then restores the file to   *)
(* its last committed contents.  An analysis is a model value: the        *)
(* serialize/deserialize round trip of ContractAnalysis is not under src/. *)
(***************************************************************************)
EXTENDS Naturals

CONSTANTS
    Contracts,          \* contract names
    Analyses,           \* contract analyses
    FunctionNames,      \* public function names
    MapNames,           \* data map names
    PublicFunctions,    \* PublicFunctions[a]: public functions of analysis a
    Maps,               \* Maps[a]: data maps of analysis a
    None,               \* no row for a contract name
    MaxFaults           \* bound on SQL failures and process crashes

ASSUME None \notin Analyses
ASSUME \A a \in Analyses : PublicFunctions[a] \subseteq FunctionNames
                           /\ Maps[a] \subseteq MapNames
ASSUME MaxFaults \in Nat

Targets == {"file", "memory"}

VARIABLES
    db,         \* db[t]: committed rows of type_analysis_table in database t
    schema,     \* schema[t]: type_analysis_table exists in database t
    conn,       \* "closed", the database the connection is open on, or "panicked"
    sp,         \* an AnalysisDatabase (its savepoint) is open
    working,    \* the rows as seen through the open savepoint
    pending,    \* history: rows inserted since the savepoint began or last rolled back
    op,         \* the last operation
    result,     \* what the last operation returned
    faults      \* SQL failures and crashes so far

vars == <<db, schema, conn, sp, working, pending, op, result, faults>>

Table == [Contracts -> Analyses \cup {None}]
EmptyTable == [c \in Contracts |-> None]

\* t with the rows of u laid over it.
Overlay(t, u) == [c \in Contracts |-> IF u[c] # None THEN u[c] ELSE t[c]]

Connected == conn \in Targets

-----------------------------------------------------------------------------
(* AnalysisDatabaseConnection                                              *)

\* inner_open: Connection::open(filename).  A fresh ":memory:" database is
\* empty and has no schema.
InnerOpen(t) ==
    /\ conn = "closed"
    /\ conn' = t

\* initialize: inner_open, CREATE TABLE IF NOT EXISTS, check_schema.
Initialize(t) ==
    /\ InnerOpen(t)
    /\ schema' = [schema EXCEPT ![t] = TRUE]
    /\ op' = "initialize"
    /\ UNCHANGED <<db, sp, working, pending, result, faults>>

\* open: inner_open and check_schema, whose query_row finds no
\* type_analysis_table in a database never initialized and panics.
Open(t) ==
    /\ conn = "closed"
    /\ conn' = IF schema[t] THEN t ELSE "panicked"
    /\ op' = "open"
    /\ result' = IF schema[t] THEN "Ok" ELSE "BadSchema"
    /\ UNCHANGED <<db, schema, sp, working, pending, faults>>

\* begin_save_point / from_savepoint: SAVEPOINT on the connection.
BeginSavePoint ==
    /\ Connected
    /\ ~sp
    /\ sp' = TRUE
    /\ working' = db[conn]
    /\ pending' = EmptyTable
    /\ op' = "begin"
    /\ UNCHANGED <<db, schema, conn, result, faults>>

\* The AnalysisDatabaseConnection is dropped; a ":memory:" database goes
\* with it.
Forget(t) ==
    /\ db' = [db EXCEPT ![t] = IF t = "memory" THEN EmptyTable ELSE @]
    /\ schema' = [schema EXCEPT ![t] = IF t = "memory" THEN FALSE ELSE @]

Close ==
    /\ Connected
    /\ ~sp
    /\ conn' = "closed"
    /\ Forget(conn)
    /\ op' = "close"
    /\ UNCHANGED <<sp, working, pending, result, faults>>

-----------------------------------------------------------------------------
(* AnalysisDatabase                                                        *)

\* load_contract: SELECT through the savepoint, which sees its own writes.
LoadContract(name) == working[name]

\* get_public_function_type
GetPublicFunctionType(name, fn) ==
    /\ sp
    /\ result' = CASE LoadContract(name) = None -> "NoSuchContract"
                   [] fn \notin PublicFunctions[LoadContract(name)] -> "NoSuchPublicFunction"
                   [] OTHER -> "Ok"
    /\ op' = "get_public_function_type"
    /\ UNCHANGED <<db, schema, conn, sp, working, pending, faults>>

\* get_map_type
GetMapType(name, map) ==
    /\ sp
    /\ result' = CASE LoadContract(name) = None -> "NoSuchContract"
                   [] map \notin Maps[LoadContract(name)] -> "NoSuchMap"
                   [] OTHER -> "Ok"
    /\ op' = "get_map_type"
    /\ UNCHANGED <<db, schema, conn, sp, working, pending, faults>>

\* The INSERT that execute runs for insert_contract.
InsertRow(t, name, a) == [t EXCEPT ![name] = a]

\* insert_contract: ContractAlreadyExists if load_contract finds the name,
\* else the INSERT.
InsertContract(name, a) ==
    /\ sp
    /\ IF LoadContract(name) # None
       THEN /\ result' = "ContractAlreadyExists"
            /\ UNCHANGED <<working, pending>>
       ELSE /\ result' = "Ok"
            /\ working' = InsertRow(working, name, a)
            /\ pending' = InsertRow(pending, name, a)
    /\ op' = "insert_contract"
    /\ UNCHANGED <<db, schema, conn, sp, faults>>

\* Mutation of RollBack: the ROLLBACK TO is not issued.
RollBackKeepsWrites ==
    /\ sp
    /\ pending' = EmptyTable
    /\ op' = "roll_back"
    /\ UNCHANGED <<db, schema, conn, sp, working, result, faults>>

\* roll_back: ROLLBACK TO the savepoint, which stays open.
RollBack ==
    /\ sp
    /\ working' = db[conn]
    /\ pending' = EmptyTable
    /\ op' = "roll_back"
    /\ UNCHANGED <<db, schema, conn, sp, result, faults>>

\* commit: RELEASE the savepoint, making its writes the database's rows.
Commit ==
    /\ sp
    /\ db' = [db EXCEPT ![conn] = working]
    /\ sp' = FALSE
    /\ op' = "commit"
    /\ UNCHANGED <<schema, conn, working, pending, result, faults>>

\* The AnalysisDatabase dropped without commit: rusqlite's Savepoint drop
\* rolls back and releases.
DropSavePoint ==
    /\ sp
    /\ sp' = FALSE
    /\ op' = "drop"
    /\ UNCHANGED <<db, schema, conn, working, pending, result, faults>>

\* Mutation of SqlFailure: the panic leaves the savepoint open.
SqlFailureKeepsSavepoint ==
    /\ Connected
    /\ faults < MaxFaults
    /\ conn' = "panicked"
    /\ faults' = faults + 1
    /\ op' = "sql_failure"
    /\ UNCHANGED <<db, schema, sp, working, pending, result>>

\* A SQL call (SAVEPOINT, ROLLBACK TO, RELEASE, execute, query_row) fails
\* and .expect panics: unwinding drops the savepoint, which rolls back.
SqlFailure ==
    /\ Connected
    /\ faults < MaxFaults
    /\ conn' = "panicked"
    /\ sp' = FALSE
    /\ faults' = faults + 1
    /\ op' = "sql_failure"
    /\ UNCHANGED <<db, schema, working, pending, result>>

\* The process dies (or ends after a panic) and is started again: the
\* journal restores the file's last committed rows, ":memory:" is gone.
Crash ==
    /\ conn # "closed"
    /\ faults < MaxFaults \/ conn = "panicked"
    /\ conn' = "closed"
    /\ sp' = FALSE
    /\ Forget("memory")
    /\ faults' = IF conn = "panicked" THEN faults ELSE faults + 1
    /\ op' = "crash"
    /\ UNCHANGED <<working, pending, result>>

-----------------------------------------------------------------------------

Init ==
    /\ db = [t \in Targets |-> EmptyTable]
    /\ schema = [t \in Targets |-> FALSE]
    /\ conn = "closed"
    /\ sp = FALSE
    /\ working = EmptyTable
    /\ pending = EmptyTable
    /\ op = "none"
    /\ result = "none"
    /\ faults = 0

Next ==
    \/ \E t \in Targets : Initialize(t) \/ Open(t)
    \/ BeginSavePoint \/ Close
    \/ \E c \in Contracts : \E fn \in FunctionNames : GetPublicFunctionType(c, fn)
    \/ \E c \in Contracts : \E m \in MapNames : GetMapType(c, m)
    \/ \E c \in Contracts : \E a \in Analyses : InsertContract(c, a)
    \/ RollBack \/ Commit \/ DropSavePoint
    \/ SqlFailure \/ Crash

Spec == Init /\ [][Next]_vars

-----------------------------------------------------------------------------

TypeOK ==
    /\ db \in [Targets -> Table]
    /\ schema \in [Targets -> BOOLEAN]
    /\ conn \in Targets \cup {"closed", "panicked"}
    /\ sp \in BOOLEAN
    /\ sp => Connected
    /\ working \in Table /\ pending \in Table
    /\ faults \in 0..MaxFaults

\* Savepoint atomicity of AnalysisDatabase: the committed rows of the file
\* change only in a commit on a connection to the file, and a commit (on
\* either database) lays over the committed rows exactly the contracts
\* inserted since the savepoint began or was last rolled back -- nothing a
\* roll_back, a drop without commit, a panic or a crash discarded.
CommitAtomicity ==
    [][ /\ db'["file"] # db["file"] => op' = "commit" /\ conn = "file"
        /\ op' = "commit" => db'[conn] = Overlay(db[conn], pending) ]_vars

=============================================================================
