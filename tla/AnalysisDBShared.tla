-------------------------- MODULE AnalysisDBShared --------------------------
(***************************************************************************)
(* Several AnalysisDatabaseConnections (src/vm/checker/check_db.rs) open  *)
(* on one initialized file -- several processes sharing one analysis DB   *)
(* -- each with at most one AnalysisDatabase at a time.  insert_contract  *)
(* checks for the name (line 133) and then INSERTs it (line 136): two     *)
(* steps between which the other connections run.                         *)
(*                                                                         *)
(* What serializes them is SQLite's file locking in rollback-journal      *)
(* mode, the default for Connection::open:                                 *)
(*   - SAVEPOINT outside a transaction begins a DEFERRED one: no lock;     *)
(*   - a read takes SHARED, which a connection waiting to commit (PENDING) *)
(*     refuses to newcomers;                                               *)
(*   - a write takes RESERVED, held by one connection at a time; a SHARED *)
(*     holder that meets another's RESERVED gets SQLITE_BUSY at once,     *)
(*     because waiting could deadlock;                                     *)
(*   - RELEASE of the outermost savepoint writes the file under EXCLUSIVE, *)
(*     which waits (PENDING) until no other connection holds SHARED;       *)
(*   - ROLLBACK TO keeps the transaction and its locks;                    *)
(*   - a wait that outlasts the busy timeout returns SQLITE_BUSY.          *)
(* Every SQLITE_BUSY reaches an .expect and panics; unwinding drops the    *)
(* savepoint (rollback and release), and the process is started again.     *)
(* The answers of the get_* readers are modelled in AnalysisDB; here they  *)
(* matter only for the SHARED lock they take.                              *)
(***************************************************************************)
EXTENDS Naturals

CONSTANTS
    Conns,      \* connections to the file
    Contracts,  \* contract names
    Analyses,   \* contract analyses
    None        \* no row; no insert_contract call in progress

ASSUME None \notin Analyses /\ None \notin Contracts \X Analyses

VARIABLES
    file,   \* committed rows of the file's type_analysis_table
    lock,   \* lock[c]: the lock connection c holds on the file
    sp,     \* sp[c]: connection c has an AnalysisDatabase open
    writes, \* writes[c]: rows c inserted through its savepoint since it began
            \*            or was last rolled back
    ins,    \* ins[c]: the <<name, analysis>> of c's insert_contract between
            \*         its check and its INSERT, or None
    alive   \* alive[c]: c's process has not panicked since it last started

vars == <<file, lock, sp, writes, ins, alive>>

Locks == {"none", "shared", "reserved", "pending"}

Table == [Contracts -> Analyses \cup {None}]
EmptyTable == [c \in Contracts |-> None]
Overlay(t, u) == [n \in Contracts |-> IF u[n] # None THEN u[n] ELSE t[n]]

\* The rows connection c's savepoint sees: the file and its own writes.
Seen(c) == Overlay(file, writes[c])

Others(c) == Conns \ {c}

\* c may read now: it holds a lock already, or no other is PENDING.
CanRead(c) == lock[c] # "none" \/ \A o \in Others(c) : lock[o] # "pending"

WithShared(c) == [lock EXCEPT ![c] = IF @ = "none" THEN "shared" ELSE @]

\* Connection c is between calls of its AnalysisDatabase.
Idle(c) == alive[c] /\ sp[c] /\ ins[c] = None /\ lock[c] # "pending"

\* A SQL call of c returns an error and .expect panics: the savepoint is
\* dropped, which rolls it back and releases its locks.
Panic(c) ==
    /\ alive' = [alive EXCEPT ![c] = FALSE]
    /\ sp' = [sp EXCEPT ![c] = FALSE]
    /\ writes' = [writes EXCEPT ![c] = EmptyTable]
    /\ lock' = [lock EXCEPT ![c] = "none"]
    /\ ins' = [ins EXCEPT ![c] = None]
    /\ UNCHANGED file

-----------------------------------------------------------------------------

\* begin_save_point: SAVEPOINT, a deferred transaction.
BeginSavePoint(c) ==
    /\ alive[c] /\ ~sp[c]
    /\ sp' = [sp EXCEPT ![c] = TRUE]
    /\ writes' = [writes EXCEPT ![c] = EmptyTable]
    /\ UNCHANGED <<file, lock, ins, alive>>

\* get_public_function_type / get_map_type: load_contract's SELECT.
ReadContract(c) ==
    /\ Idle(c) /\ CanRead(c)
    /\ lock' = WithShared(c)
    /\ UNCHANGED <<file, sp, writes, ins, alive>>

\* Mutation of InsertCheck: the check's read takes no lock.
InsertCheckUnlocked(c, n, a) ==
    /\ Idle(c) /\ CanRead(c)
    /\ ins' = [ins EXCEPT ![c] = IF Seen(c)[n] = None THEN <<n, a>> ELSE None]
    /\ UNCHANGED <<file, lock, sp, writes, alive>>

\* insert_contract up to line 135: load_contract's SELECT, and
\* ContractAlreadyExists if it finds the name.
InsertCheck(c, n, a) ==
    /\ Idle(c) /\ CanRead(c)
    /\ lock' = WithShared(c)
    /\ ins' = [ins EXCEPT ![c] = IF Seen(c)[n] = None THEN <<n, a>> ELSE None]
    /\ UNCHANGED <<file, sp, writes, alive>>

\* insert_contract lines 136-139: execute's INSERT.  It needs RESERVED; if
\* another connection holds it, SQLite answers SQLITE_BUSY at once, and a
\* name already present breaks the UNIQUE constraint: either way .expect
\* panics.
InsertExecute(c) ==
    /\ alive[c] /\ ins[c] # None
    /\ LET n == ins[c][1]
           a == ins[c][2]
       IN IF \/ \E o \in Others(c) : lock[o] \in {"reserved", "pending"}
             \/ Seen(c)[n] # None
          THEN Panic(c)
          ELSE /\ writes' = [writes EXCEPT ![c][n] = a]
               /\ lock' = [lock EXCEPT ![c] = "reserved"]
               /\ ins' = [ins EXCEPT ![c] = None]
               /\ UNCHANGED <<file, sp, alive>>

\* roll_back: ROLLBACK TO; the transaction and its locks stay.
RollBack(c) ==
    /\ Idle(c)
    /\ writes' = [writes EXCEPT ![c] = EmptyTable]
    /\ UNCHANGED <<file, lock, sp, ins, alive>>

\* Mutation of Commit: RELEASE of a transaction that only read keeps its
\* SHARED lock.
CommitKeepsLock(c) ==
    /\ alive[c] /\ sp[c] /\ ins[c] = None
    /\ IF lock[c] \in {"reserved", "pending"}
       THEN IF \A o \in Others(c) : lock[o] = "none"
            THEN /\ file' = Seen(c)
                 /\ lock' = [lock EXCEPT ![c] = "none"]
                 /\ sp' = [sp EXCEPT ![c] = FALSE]
            ELSE /\ lock' = [lock EXCEPT ![c] = "pending"]
                 /\ UNCHANGED <<file, sp>>
       ELSE /\ sp' = [sp EXCEPT ![c] = FALSE]
            /\ UNCHANGED <<file, lock>>
    /\ UNCHANGED <<writes, ins, alive>>

\* commit: RELEASE.  A transaction that wrote waits (PENDING) until no
\* other connection holds SHARED, then writes the file.
Commit(c) ==
    /\ alive[c] /\ sp[c] /\ ins[c] = None
    /\ IF lock[c] \in {"reserved", "pending"}
       THEN IF \A o \in Others(c) : lock[o] = "none"
            THEN /\ file' = Seen(c)
                 /\ lock' = [lock EXCEPT ![c] = "none"]
                 /\ sp' = [sp EXCEPT ![c] = FALSE]
            ELSE /\ lock' = [lock EXCEPT ![c] = "pending"]
                 /\ UNCHANGED <<file, sp>>
       ELSE /\ lock' = [lock EXCEPT ![c] = "none"]
            /\ sp' = [sp EXCEPT ![c] = FALSE]
            /\ UNCHANGED file
    /\ UNCHANGED <<writes, ins, alive>>

\* The AnalysisDatabase dropped without commit: rollback and release.
DropSavePoint(c) ==
    /\ Idle(c)
    /\ sp' = [sp EXCEPT ![c] = FALSE]
    /\ writes' = [writes EXCEPT ![c] = EmptyTable]
    /\ lock' = [lock EXCEPT ![c] = "none"]
    /\ UNCHANGED <<file, ins, alive>>

\* c has waited the busy timeout: for the other connections' SHARED locks
\* to go (a pending commit), or for another's PENDING to clear (a read).
BusyTimeout(c) ==
    /\ alive[c] /\ sp[c]
    /\ \/ lock[c] = "pending" /\ \E o \in Others(c) : lock[o] # "none"
       \/ ins[c] = None /\ ~CanRead(c)
    /\ Panic(c)

\* The process of a panicked connection is started again and opens the file.
Restart(c) ==
    /\ ~alive[c]
    /\ alive' = [alive EXCEPT ![c] = TRUE]
    /\ UNCHANGED <<file, lock, sp, writes, ins>>

-----------------------------------------------------------------------------

Init ==
    /\ file = EmptyTable
    /\ lock = [c \in Conns |-> "none"]
    /\ sp = [c \in Conns |-> FALSE]
    /\ writes = [c \in Conns |-> EmptyTable]
    /\ ins = [c \in Conns |-> None]
    /\ alive = [c \in Conns |-> TRUE]

Next ==
    \E c \in Conns :
       \/ BeginSavePoint(c) \/ ReadContract(c)
       \/ \E n \in Contracts, a \in Analyses : InsertCheck(c, n, a)
       \/ InsertExecute(c) \/ RollBack(c) \/ Commit(c) \/ DropSavePoint(c)
       \/ BusyTimeout(c) \/ Restart(c)

Spec == Init /\ [][Next]_vars

-----------------------------------------------------------------------------

TypeOK ==
    /\ file \in Table
    /\ lock \in [Conns -> Locks]
    /\ sp \in [Conns -> BOOLEAN]
    /\ writes \in [Conns -> Table]
    /\ ins \in [Conns -> (Contracts \X Analyses) \cup {None}]
    /\ alive \in [Conns -> BOOLEAN]
    /\ \A c \in Conns : lock[c] # "none" \/ ins[c] # None => sp[c]

\* insert_contract's check is never stale: while a call sits between the
\* load_contract of line 133, which found the name absent, and the INSERT
\* of line 136, no other connection's commit has put the name in the rows
\* its savepoint sees -- so a duplicate is reported as
\* ContractAlreadyExists, never met by the UNIQUE constraint.
InsertCheckHolds ==
    \A c \in Conns : ins[c] # None => Seen(c)[ins[c][1]] = None

=============================================================================
