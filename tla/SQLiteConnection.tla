-------------------------- MODULE SQLiteConnection --------------------------
(***************************************************************************)
(* The transaction bookkeeping of SQLiteConnection (src/tce/src/tools/     *)
(* SQLiteConnection.cc) over an SQLite connection.  The class keeps one    *)
(* flag, transactionActive_, beside the engine's own transaction state,    *)
(* and runs every statement through updateQuery(): prepare, step, and      *)
(* finalize only when the step succeeded.                                  *)
(*                                                                         *)
(* SQLite is the environment.  A statement may fail when it is prepared    *)
(* (no statement exists then) or when it is stepped.  BEGIN inside a       *)
(* transaction, and COMMIT or ROLLBACK outside one, fail at the step.  A   *)
(* step may also fail on its own (a constraint, SQLITE_BUSY on COMMIT),    *)
(* leaving the transaction open; with AbortErrors, an update may fail      *)
(* with an error after which SQLite rolls the whole transaction back       *)
(* itself (SQLITE_FULL, SQLITE_IOERR, SQLITE_NOMEM).  Injected failures    *)
(* are bounded by MaxFailures.  The client is any sequence of calls, each  *)
(* exception caught, ending with the destructor.                           *)
(***************************************************************************)
EXTENDS Integers, FiniteSets

CONSTANTS
  Updates,      \* distinct UPDATE/INSERT/DELETE statements of the client
  AbortErrors,  \* SQLite may roll back a transaction on an update error
  MaxFailures,  \* bound on injected SQLite failures
  MaxLeaked     \* bound on unfinalized statements (calls that fail at the step)

VARIABLES
  transactionActive,  \* transactionActive_
  engineTx,           \* SQLite is inside a transaction (not autocommit)
  txWork,             \* updates done in SQLite's open transaction
  db,                 \* updates durable in the database file
  leaked,             \* prepared statements never finalized
  failures,           \* injected failures so far
  issued,             \* updates the client has issued (each once)
  pending,            \* updates issued while transactionActive_ and not ended
  open,               \* sqlite3 handle not yet closed
  destroyed           \* the destructor has run

vars == << transactionActive, engineTx, txWork, db, leaked, failures, issued,
           pending, open, destroyed >>

\* The part of the state one call works on, whether it threw, and whether
\* a commit() or rollback() in it returned normally.
Cur == [flag |-> transactionActive, eng |-> engineTx, work |-> txWork,
        db |-> db, leaked |-> leaked, fails |-> failures, thrown |-> FALSE,
        ended |-> FALSE]

Throw(s) == [s EXCEPT !.thrown = TRUE]
\* compileQuery(): sqlite3_prepare fails, no statement is created.
PrepareFails(s) == [Throw(s) EXCEPT !.fails = @ + 1]
\* throwIfSQLiteError(sqlite3_step(stmt)) throws before finalizeQuery().
StepFails(s) == [Throw(s) EXCEPT !.leaked = @ + 1]

\* SQLite's result of stepping statement q ("BEGIN", "COMMIT", "ROLLBACK"
\* or an update) in state s, the statement finalized when it succeeds.
Step(s, q) ==
  CASE q = "BEGIN" ->
         IF s.eng THEN {StepFails(s)} ELSE {[s EXCEPT !.eng = TRUE]}
    [] q = "COMMIT" ->
         IF ~s.eng THEN {StepFails(s)}
         ELSE {[s EXCEPT !.eng = FALSE, !.db = @ \cup s.work, !.work = {}]}
              \cup (IF s.fails < MaxFailures
                      THEN {[StepFails(s) EXCEPT !.fails = @ + 1]} ELSE {})
    [] q = "ROLLBACK" ->
         IF ~s.eng THEN {StepFails(s)}
         ELSE {[s EXCEPT !.eng = FALSE, !.work = {}]}
    [] OTHER ->
         {IF s.eng THEN [s EXCEPT !.work = @ \cup {q}]
                   ELSE [s EXCEPT !.db = @ \cup {q}]}
         \cup (IF s.fails < MaxFailures
                 THEN {[StepFails(s) EXCEPT !.fails = @ + 1]}
                      \cup (IF AbortErrors /\ s.eng
                              THEN {[StepFails(s) EXCEPT !.fails = @ + 1,
                                       !.eng = FALSE, !.work = {}]}
                              ELSE {})
                 ELSE {})

\* updateQuery(q): compileQuery, step, finalize.
UpdateQuery(s, q) ==
  Step(s, q) \cup (IF s.fails < MaxFailures THEN {PrepareFails(s)} ELSE {})

\* Fault variant: the flag is cleared before COMMIT runs.
CommitFlagFirst(s) ==
  { IF r.thrown THEN r ELSE [r EXCEPT !.ended = TRUE]
    : r \in UpdateQuery([s EXCEPT !.flag = FALSE], "COMMIT") }

\* commit(): updateQuery("COMMIT;"), then the flag is cleared.
Commit(s) ==
  { IF r.thrown THEN r ELSE [r EXCEPT !.flag = FALSE, !.ended = TRUE]
    : r \in UpdateQuery(s, "COMMIT") }

\* rollback(): updateQuery("ROLLBACK;"), then the flag is cleared.
Rollback(s) ==
  { IF r.thrown THEN r ELSE [r EXCEPT !.flag = FALSE, !.ended = TRUE]
    : r \in UpdateQuery(s, "ROLLBACK") }

\* Fault variant: a failed commit() of the previous transaction is ignored
\* and BEGIN is run anyway.
BeginIgnoringCommitError(s) ==
  UNION { { IF r.thrown THEN r ELSE [r EXCEPT !.flag = TRUE]
            : r \in UpdateQuery([c EXCEPT !.thrown = FALSE], "BEGIN") }
          : c \in IF s.flag THEN Commit(s) ELSE {s} }

\* Fault variant: the flag is set before BEGIN runs.
BeginFlagFirst(s) ==
  UNION { IF c.thrown THEN {c} ELSE UpdateQuery([c EXCEPT !.flag = TRUE], "BEGIN")
          : c \in IF s.flag THEN Commit(s) ELSE {s} }

\* beginTransaction(): commit() an active transaction, then
\* updateQuery("BEGIN;"), then set the flag.
BeginTransaction(s) ==
  UNION { IF c.thrown THEN {c}
          ELSE { IF r.thrown THEN r ELSE [r EXCEPT !.flag = TRUE]
                 : r \in UpdateQuery(c, "BEGIN") }
          : c \in IF s.flag THEN Commit(s) ELSE {s} }

\* The state after a call whose result is r.
Apply(r) ==
  /\ transactionActive' = r.flag
  /\ engineTx' = r.eng
  /\ txWork' = r.work
  /\ db' = r.db
  /\ leaked' = r.leaked
  /\ failures' = r.fails

Init ==
  /\ transactionActive = FALSE
  /\ engineTx = FALSE
  /\ txWork = {}
  /\ db = {}
  /\ leaked = 0
  /\ failures = 0
  /\ issued = {}
  /\ pending = {}
  /\ open = TRUE
  /\ destroyed = FALSE

\* A caller's update (updateQuery, or DDLQuery which is the same call).
DoUpdate(u) ==
  /\ u \notin issued
  /\ \E r \in UpdateQuery(Cur, u) :
       /\ Apply(r)
       /\ pending' = IF ~r.thrown /\ r.flag THEN pending \cup {u} ELSE pending
  /\ issued' = issued \cup {u}
  /\ UNCHANGED << open, destroyed >>

DoBegin ==
  /\ \E r \in BeginTransaction(Cur) :
       /\ Apply(r)
       \* the transaction ended by the inner commit() is no longer pending
       /\ pending' = IF r.ended THEN {} ELSE pending
  /\ UNCHANGED << issued, open, destroyed >>

\* commit() or rollback() called by the client, with results rs.
DoEnd(rs) ==
  /\ \E r \in rs :
       /\ Apply(r)
       /\ pending' = IF r.ended THEN {} ELSE pending
  /\ UNCHANGED << issued, open, destroyed >>

\* ~SQLiteConnection(): sqlite3_close() returns SQLITE_BUSY, and keeps the
\* handle open, while a prepared statement is not finalized.
Destroy ==
  /\ destroyed' = TRUE
  /\ open' = (leaked > 0)
  /\ UNCHANGED << transactionActive, engineTx, txWork, db, leaked, failures,
                  issued, pending >>

Next ==
  /\ ~destroyed
  /\ leaked < MaxLeaked
  /\ \/ \E u \in Updates : DoUpdate(u)
     \/ DoBegin
     \/ DoEnd(Commit(Cur))
     \/ DoEnd(Rollback(Cur))
     \/ Destroy

Spec == Init /\ [][Next]_vars

-----------------------------------------------------------------------------
TypeOK ==
  /\ transactionActive \in BOOLEAN /\ engineTx \in BOOLEAN
  /\ txWork \subseteq Updates /\ db \subseteq Updates
  /\ pending \subseteq issued /\ issued \subseteq Updates
  /\ leaked \in 0 .. MaxLeaked /\ failures \in 0 .. MaxFailures
  /\ open \in BOOLEAN /\ destroyed \in BOOLEAN

(***************************************************************************)
(* transactionActive_ tells the truth about SQLite: after any sequence of  *)
(* calls, failed ones included, the flag is set exactly when SQLite is     *)
(* inside a transaction.  beginTransaction() decides from the flag whether *)
(* to commit first; a stale flag makes BEGIN or COMMIT fail.               *)
(***************************************************************************)
FlagMatchesEngine == ~destroyed => (transactionActive = engineTx)

(***************************************************************************)
(* Isolation of the client's transaction: an update made through           *)
(* updateQuery() while transactionActive_ is set is not durable before the *)
(* commit() (or the commit in beginTransaction()) that ends it returns,    *)
(* and rollback() can still undo it.                                       *)
(***************************************************************************)
NoDurableUncommitted == pending \cap db = {}

=============================================================================
