-------------------------- MODULE DatabaseBackend --------------------------
(***************************************************************************)
(* DatabaseBackend::generate (src/src/output/database_backend.cpp): one    *)
(* call imports the rows 0 .. Rows-1 into one table.                       *)
(*                                                                         *)
(* The calling thread (Main) checks the table, clears it if asked to,      *)
(* starts the writer threads and generates the rows, which it pushes to a  *)
(* bounded queue.  Each writer (a member of Workers) has a database        *)
(* connection of its own, collects rows into a batch and writes the batch  *)
(* in a transaction per batch, a transaction per run, or none.  Everything *)
(* the threads share is the queue, the atomics stop, rollback_all,         *)
(* rows_generated and rows_imported, first_error, and temp_files.          *)
(*                                                                         *)
(* An action is the code between two accesses of the state that threads    *)
(* share, or one call of the database driver.  The calls that may fail in  *)
(* a run, each of them any number of times, come with its configuration.   *)
(***************************************************************************)
EXTENDS BoundedQueue, FiniteSets, FiniteSetsExt

CONSTANTS
    Rows,                \* cfg.rows
    BatchSize,           \* batch_size
    RequestedThreads,    \* requested_threads
    Configs              \* the configurations (output.database) to explore

FaultNames == {"setup", "clear", "key", "generator", "connect", "begin", "convert",
               "sql", "undo", "tempfile", "short_write", "local_infile", "commit",
               "lost_ack", "rollback"}

(* db is the type of the connected server and faults are the calls that    *)
(* may fail; the other fields are those of output.database.  undo: a       *)
(* failed statement ends its transaction as well, as a deadlock does on    *)
(* MySQL and a full disk on SQLite.  short_write: the disk fills up while  *)
(* a load file is written.  lost_ack: the server carries out a call, and   *)
(* its answer is lost with the connection.                                 *)
ConfigType == [db : {"sqlite", "mysql", "postgresql", "oracle"},
               transaction_mode : {"per-batch", "per-run", "none"},
               error_policy : {"stop", "continue", "rollback"},
               insert_mode : {"insert", "load"},
               write_mode : {"append", "truncate", "upsert"},
               queue_size : Nat \ {0},
               faults : SUBSET FaultNames]

ASSUME RowsAssumption == Rows \in Nat
ASSUME BatchSizeAssumption == BatchSize \in Nat \ {0}
ASSUME ThreadsAssumption == RequestedThreads \in Nat \ {0}
ASSUME ConfigsAssumption == Configs \subseteq ConfigType

RowIds == 0 .. Rows - 1
Workers == 0 .. RequestedThreads - 1
Main == "main"

VARIABLES
    cfg,                 \* cfg.output.database, fixed for the call
    mainPc,              \* where the calling thread is
    next,                \* the index the row loop is at
    rows_generated, rows_imported,
    stop, rollback_all,
    first_error,         \* is first_error non-empty?
    pc,                  \* where each writer is
    batch,               \* batch: the rows a writer has collected
    last,                \* is the writer in the process_batch after its loop?
    tx,                  \* the transaction of each writer's connection
    pending,             \* the rows written in it, with their number of copies
    table,               \* the copies of each row of this run in the table
    old,                 \* are the rows from before the run still there?
    temp_files,          \* temp_files: <<worker_id, first row of the batch>>
    disk,                \* the files in <workspace>/tmp
    file_rows,           \* the rows that the last load file of a writer holds
    result               \* what generate has returned or thrown

(* What no thread knows: auxiliary variables, for the properties alone.    *)
VARIABLES
    left_out,            \* rows missing from a load file that was loaded
    unanswered           \* rows in the table whose statement was not answered

mainVars == <<mainPc, next, rows_generated, result>>
flagVars == <<stop, rollback_all, first_error>>
workerVars == <<pc, batch, last>>
dbVars == <<tx, pending, table, old, unanswered>>
fileVars == <<temp_files, disk, file_rows, left_out>>
vars == <<cfg, mainVars, rows_imported, flagVars, workerVars, dbVars, fileVars, queueVars>>

(***************************************************************************)
(* The options as generate resolves them.                                  *)
(***************************************************************************)
(* external: OdbcDriver and SqliteDriver::supports_load_mode               *)
SupportsLoadMode == cfg.db \in {"mysql", "postgresql"}

ResolvedMode ==
    IF cfg.write_mode = "upsert" \/ ~SupportsLoadMode THEN "insert" ELSE cfg.insert_mode

EffectiveErrorPolicy ==
    IF cfg.error_policy = "rollback" /\ ResolvedMode # "insert" THEN "stop"
    ELSE cfg.error_policy

PerRun == cfg.transaction_mode = "per-run"
PerBatch == cfg.transaction_mode = "per-batch"

DbThreads == IF PerRun \/ cfg.db = "sqlite" THEN 1 ELSE RequestedThreads

Faults == cfg.faults

ShouldContinueAfterError ==
    \/ EffectiveErrorPolicy = "continue"
    \/ EffectiveErrorPolicy = "rollback" /\ PerBatch

(***************************************************************************)
(* register_error, followed by handle_policy or by stop.store(true).  No   *)
(* thread reads first_error before the writers are joined and only the     *)
(* writer of a per-run import reads rollback_all, so the stores before the *)
(* one to stop are not seen apart from it.                                 *)
(***************************************************************************)
RegisterErrorAndStop ==
    /\ first_error' = TRUE
    /\ stop' = TRUE
    /\ UNCHANGED rollback_all

(* Mutant of the next: rollback never carries on.                          *)
RollbackAlwaysStops ==
    /\ first_error' = TRUE
    /\ rollback_all' = (rollback_all \/ EffectiveErrorPolicy = "rollback")
    /\ stop' = (stop \/ EffectiveErrorPolicy # "continue")

RegisterErrorAndHandlePolicy ==
    /\ first_error' = TRUE
    /\ rollback_all' = (rollback_all \/ (EffectiveErrorPolicy = "rollback" /\ PerRun))
    /\ stop' = (stop \/ ~ShouldContinueAfterError)

(***************************************************************************)
(* The database, as far as generate relies on it.  The driver leaves a     *)
(* connection in autocommit mode, where a statement is its own commit.  A  *)
(* statement writes all its rows or none.  A transaction is none, open,    *)
(* aborted (unless its ODBC driver guards each statement with a savepoint, *)
(* PostgreSQL refuses every statement after a failed one until it ends,    *)
(* and then COMMIT ends it by rolling back) or lost with its connection,   *)
(* which the drivers never restore.                                        *)
(***************************************************************************)
NoRows == [r \in RowIds |-> 0]
WithRows(f, rows) == [r \in RowIds |-> IF r \in rows THEN f[r] + 1 ELSE f[r]]
Merged(f, g) == [r \in RowIds |-> f[r] + g[r]]

(* SQLite is a library: there is no connection to lose.                    *)
AnswersLost == "lost_ack" \in Faults /\ cfg.db # "sqlite"

DbCommits(w) ==
    /\ tx[w] # "lost" /\ (tx[w] = "none" => cfg.db # "sqlite")
    /\ table' = IF tx[w] = "open" THEN Merged(table, pending[w]) ELSE table
    /\ pending' = [pending EXCEPT ![w] = NoRows]
    /\ tx' = [tx EXCEPT ![w] = "none"]
    /\ UNCHANGED <<old, unanswered>>

DbRollsBack(w) ==
    /\ pending' = [pending EXCEPT ![w] = NoRows]
    /\ tx' = [tx EXCEPT ![w] = "none"]
    /\ UNCHANGED <<table, old, unanswered>>

(* begin_transaction: nothing is sent to Oracle, which stays in            *)
(* autocommit.  In a transaction whose ROLLBACK failed, MySQL commits      *)
(* before it begins another, and PostgreSQL warns and stays in it.         *)
DbBegins(w) ==
    \/ cfg.db = "oracle" /\ UNCHANGED dbVars
    \/ /\ cfg.db # "oracle" /\ tx[w] = "none"
       /\ tx' = [tx EXCEPT ![w] = "open"]
       /\ UNCHANGED <<pending, table, old, unanswered>>
    \/ /\ cfg.db = "mysql" /\ tx[w] = "open"
       /\ table' = Merged(table, pending[w])
       /\ pending' = [pending EXCEPT ![w] = NoRows]
       /\ UNCHANGED <<tx, old, unanswered>>
    \/ cfg.db = "postgresql" /\ tx[w] = "open" /\ UNCHANGED dbVars

DbBeginFails(w) ==
    /\ cfg.db # "oracle"
    /\ \/ "begin" \in Faults \/ tx[w] \in {"aborted", "lost"}
       \/ cfg.db = "sqlite" /\ tx[w] = "open"

DbWrites(w, rows) ==
    /\ tx[w] \in {"none", "open"}
    /\ IF tx[w] = "open"
       THEN pending' = [pending EXCEPT ![w] = WithRows(@, rows)] /\ UNCHANGED table
       ELSE table' = WithRows(table, rows) /\ UNCHANGED pending
    /\ UNCHANGED <<tx, old, unanswered>>

(* A statement is refused and writes nothing.                              *)
DbRefuses(w) ==
    \/ /\ "sql" \in Faults \/ tx[w] \in {"aborted", "lost"}
       /\ UNCHANGED dbVars
    \/ /\ "sql" \in Faults /\ cfg.db = "postgresql" /\ tx[w] = "open"
       /\ tx' = [tx EXCEPT ![w] = "aborted"]
       /\ UNCHANGED <<pending, table, old, unanswered>>
    \/ /\ "undo" \in Faults /\ cfg.db \in {"mysql", "sqlite"} /\ tx[w] = "open"
       /\ DbRollsBack(w)

(* The connection is lost under a statement.  An open transaction is gone  *)
(* with it; in autocommit the rows are in the table if the server got the  *)
(* statement.                                                              *)
DbAnswerLost(w, rows) ==
    /\ AnswersLost /\ tx[w] \in {"none", "open"}
    /\ tx' = [tx EXCEPT ![w] = "lost"]
    /\ pending' = [pending EXCEPT ![w] = NoRows]
    /\ \/ UNCHANGED <<table, unanswered>>
       \/ /\ tx[w] = "none"
          /\ table' = WithRows(table, rows)
          /\ unanswered' = unanswered \union rows
    /\ UNCHANGED old

(* COMMIT reports an error: the transaction is still open, or the server   *)
(* committed and the answer got lost.                                      *)
DbCommitFails(w) ==
    \/ /\ "commit" \in Faults \/ tx[w] = "lost" \/ (cfg.db = "sqlite" /\ tx[w] = "none")
       /\ UNCHANGED dbVars
    \/ AnswersLost /\ DbCommits(w)

(* rollback_transaction: nobody looks whether ROLLBACK succeeded.          *)
DbRollbackSent(w) ==
    \/ tx[w] # "lost" /\ DbRollsBack(w)
    \/ /\ "rollback" \in Faults \/ tx[w] = "lost"
       /\ UNCHANGED dbVars

(***************************************************************************)
(* The calling thread, before the writers start.                           *)
(***************************************************************************)
Running == [kind |-> "running", rows_written |-> 0]
Failed == [kind |-> "failed", rows_written |-> 0]
Returned(n) == [kind |-> "returned", rows_written |-> n]

Throws(pcs) ==
    /\ mainPc \in pcs
    /\ mainPc' = "end"
    /\ result' = Failed
    /\ UNCHANGED <<cfg, next, rows_generated, rows_imported, flagVars, workerVars,
                   tx, pending, table, unanswered, fileVars, queueVars>>

(* Mutant of SetupFails: the schema is validated after the DELETE.         *)
SetupFailsLate == "setup" \in Faults /\ Throws({"key"}) /\ UNCHANGED old

(* An invalid URL, no connection, no table, an unknown column, or a schema *)
(* that does not fit the fields: all of it before the table is touched.    *)
SetupFails == "setup" \in Faults /\ Throws({"setup"}) /\ UNCHANGED old

CheckTable ==
    /\ mainPc = "setup"
    /\ mainPc' = "clear"
    /\ UNCHANGED <<cfg, next, rows_generated, result, rows_imported, flagVars, workerVars,
                   dbVars, fileVars, queueVars>>

(* DELETE FROM fails, or is carried out and its answer is lost.            *)
ClearTableFails ==
    /\ cfg.write_mode = "truncate"
    /\ Throws({"clear"})
    /\ \/ "clear" \in Faults /\ UNCHANGED old
       \/ AnswersLost /\ old' = FALSE

(* DELETE FROM runs on the connection of the calling thread, in            *)
(* autocommit, whatever the transaction mode of the run.                   *)
ClearTable ==
    /\ mainPc = "clear"
    /\ old' = (old /\ cfg.write_mode # "truncate")
    /\ mainPc' = "key"
    /\ UNCHANGED <<cfg, next, rows_generated, result, rows_imported, flagVars, workerVars,
                   tx, pending, table, unanswered, fileVars, queueVars>>

UpsertKeyMissing ==
    /\ "key" \in Faults
    /\ cfg.write_mode = "upsert"
    /\ Throws({"key"})
    /\ UNCHANGED old

StartWorkers ==
    /\ mainPc = "key"
    /\ mainPc' = "produce"
    /\ pc' = [w \in Workers |-> IF w < DbThreads THEN "connect" ELSE "done"]
    /\ UNCHANGED <<cfg, next, rows_generated, result, rows_imported, flagVars, batch, last,
                   dbVars, fileVars, queueVars>>

(***************************************************************************)
(* The calling thread generates the rows: engine::generate_sequential with *)
(* the consumer of line 1209, then close, join and the report.             *)
(***************************************************************************)
mainStepUnchanged == <<cfg, rows_imported, workerVars, dbVars, fileVars>>

(* Mutant of GenerateRow: one row too many.                                *)
GenerateRowOffByOne ==
    /\ mainPc = "produce"
    /\ mainPc' = IF next <= Rows THEN "consume" ELSE "close"
    /\ UNCHANGED <<next, rows_generated, result, flagVars, queueVars, mainStepUnchanged>>

GenerateRow ==
    /\ mainPc = "produce"
    /\ mainPc' = IF next < Rows THEN "consume" ELSE "close"
    /\ UNCHANGED <<next, rows_generated, result, flagVars, queueVars, mainStepUnchanged>>

GeneratorThrows ==
    /\ "generator" \in Faults
    /\ mainPc = "produce"
    /\ next < Rows
    /\ RegisterErrorAndStop
    /\ mainPc' = "close"
    /\ UNCHANGED <<next, rows_generated, result, queueVars, mainStepUnchanged>>

ConsumeRow ==
    /\ mainPc = "consume"
    /\ mainPc' = IF stop THEN "close" ELSE "push"
    /\ UNCHANGED <<next, rows_generated, result, flagVars, queueVars, mainStepUnchanged>>

PushRow ==
    /\ mainPc = "push"
    /\ \/ PushDone(Main, next, cfg.queue_size, stop) /\ mainPc' = "count"
       \/ PushRefused(Main, stop) /\ mainPc' = "close"
       \/ PushWait(Main, cfg.queue_size, stop) /\ UNCHANGED mainPc
    /\ UNCHANGED <<next, rows_generated, result, flagVars, mainStepUnchanged>>

CountGenerated ==
    /\ mainPc = "count"
    /\ rows_generated' = rows_generated + 1
    /\ next' = next + 1
    /\ mainPc' = "produce"
    /\ UNCHANGED <<result, flagVars, queueVars, mainStepUnchanged>>

CloseQueue ==
    /\ mainPc = "close"
    /\ Close
    /\ mainPc' = "join"
    /\ UNCHANGED <<next, rows_generated, result, flagVars, mainStepUnchanged>>

(* Mutant of JoinWorkers: the writers are detached.                        *)
DetachWorkers ==
    /\ mainPc = "join"
    /\ mainPc' = "cleanup"
    /\ UNCHANGED <<next, rows_generated, result, flagVars, queueVars, mainStepUnchanged>>

JoinWorkers ==
    /\ mainPc = "join"
    /\ \A w \in Workers : pc[w] = "done"
    /\ mainPc' = "cleanup"
    /\ UNCHANGED <<next, rows_generated, result, flagVars, queueVars, mainStepUnchanged>>

RemoveTempFiles ==
    /\ mainPc = "cleanup"
    /\ disk' = disk \ temp_files
    /\ mainPc' = "report"
    /\ UNCHANGED <<cfg, next, rows_generated, result, rows_imported, flagVars, workerVars,
                   dbVars, temp_files, file_rows, left_out, queueVars>>

Report ==
    /\ mainPc = "report"
    /\ result' = IF first_error /\ stop THEN Failed ELSE Returned(rows_imported)
    /\ mainPc' = "end"
    /\ UNCHANGED <<next, rows_generated, flagVars, queueVars, mainStepUnchanged>>

(***************************************************************************)
(* The writer threads.                                                     *)
(***************************************************************************)
Goto(w, place) == pc' = [pc EXCEPT ![w] = place]

workerStepUnchanged == <<cfg, mainVars>>

ConnectOk(w) ==
    /\ pc[w] = "connect"
    /\ Goto(w, IF PerRun THEN "begin_run" ELSE "loop")
    /\ UNCHANGED <<rows_imported, flagVars, batch, last, dbVars, fileVars, queueVars,
                   workerStepUnchanged>>

ConnectFails(w) ==
    /\ "connect" \in Faults
    /\ pc[w] = "connect"
    /\ RegisterErrorAndStop
    /\ Goto(w, "done")
    /\ UNCHANGED <<rows_imported, batch, last, dbVars, fileVars, queueVars, workerStepUnchanged>>

BeginRunOk(w) ==
    /\ pc[w] = "begin_run"
    /\ DbBegins(w)
    /\ Goto(w, "loop")
    /\ UNCHANGED <<rows_imported, flagVars, batch, last, fileVars, queueVars,
                   workerStepUnchanged>>

BeginRunFails(w) ==
    /\ pc[w] = "begin_run"
    /\ DbBeginFails(w)
    /\ RegisterErrorAndStop
    /\ Goto(w, "done")
    /\ UNCHANGED <<rows_imported, batch, last, dbVars, fileVars, queueVars, workerStepUnchanged>>

(* Mutant of CheckStop: the loop runs until the queue is drained.          *)
NeverCheckStop(w) ==
    /\ pc[w] = "loop"
    /\ Goto(w, "pop")
    /\ UNCHANGED <<rows_imported, flagVars, batch, last, dbVars, fileVars, queueVars,
                   workerStepUnchanged>>

(* The loads of stop in lines 1179 and 1188 have nothing between them.     *)
CheckStop(w) ==
    /\ pc[w] = "loop"
    /\ Goto(w, IF stop THEN "final" ELSE "pop")
    /\ UNCHANGED <<rows_imported, flagVars, batch, last, dbVars, fileVars, queueVars,
                   workerStepUnchanged>>

PopRow(w) ==
    /\ pc[w] = "pop"
    /\ \/ /\ PopDone(w)
          /\ batch' = [batch EXCEPT ![w] = @ \union {Head(queue)}]
          /\ Goto(w, IF Cardinality(batch'[w]) >= BatchSize THEN "adapt" ELSE "loop")
       \/ /\ PopRefused(w, stop)
          /\ Goto(w, "final")
          /\ UNCHANGED batch
       \/ /\ PopWait(w, stop)
          /\ UNCHANGED <<pc, batch>>
    /\ UNCHANGED <<rows_imported, flagVars, last, dbVars, fileVars, workerStepUnchanged>>

(* Mutant of FinalBatch: an incomplete batch is forgotten.                 *)
NoFinalBatch(w) ==
    /\ pc[w] = "final"
    /\ Goto(w, "end_run")
    /\ UNCHANGED <<rows_imported, flagVars, batch, last, dbVars, fileVars, queueVars,
                   workerStepUnchanged>>

(* Line 1192: the rows of an incomplete batch are written unless the run   *)
(* has stopped.                                                            *)
FinalBatch(w) ==
    /\ pc[w] = "final"
    /\ IF batch[w] # {} /\ ~stop
       THEN last' = [last EXCEPT ![w] = TRUE] /\ Goto(w, "adapt")
       ELSE UNCHANGED last /\ Goto(w, "end_run")
    /\ UNCHANGED <<rows_imported, flagVars, batch, dbVars, fileVars, queueVars,
                   workerStepUnchanged>>

(* Mutant of BatchReturns: the batch is not cleared.                       *)
BatchReturnsUncleared(w, ok) ==
    /\ Goto(w, IF last[w] THEN "end_run"
               ELSE IF ok \/ ShouldContinueAfterError THEN "loop" ELSE "final")
    /\ UNCHANGED batch

(* process_batch returns ok: the loop clears the batch and goes on, or     *)
(* breaks; the call after the loop just ends.                              *)
BatchReturns(w, ok) ==
    IF last[w]
    THEN Goto(w, "end_run") /\ UNCHANGED batch
    ELSE /\ batch' = [batch EXCEPT ![w] = {}]
         /\ Goto(w, IF ok \/ ShouldContinueAfterError THEN "loop" ELSE "final")

AdaptOk(w) ==
    /\ pc[w] = "adapt"
    /\ Goto(w, IF PerBatch THEN "begin_batch"
               ELSE IF ResolvedMode = "load" THEN "write_file" ELSE "execute")
    /\ UNCHANGED <<rows_imported, flagVars, batch, last, dbVars, fileVars, queueVars,
                   workerStepUnchanged>>

(* One value that does not convert drops the whole batch.                  *)
AdaptFails(w) ==
    /\ "convert" \in Faults
    /\ pc[w] = "adapt"
    /\ RegisterErrorAndHandlePolicy
    /\ BatchReturns(w, ShouldContinueAfterError)
    /\ UNCHANGED <<rows_imported, last, dbVars, fileVars, queueVars, workerStepUnchanged>>

BeginBatchOk(w) ==
    /\ pc[w] = "begin_batch"
    /\ DbBegins(w)
    /\ Goto(w, IF ResolvedMode = "load" THEN "write_file" ELSE "execute")
    /\ UNCHANGED <<rows_imported, flagVars, batch, last, fileVars, queueVars,
                   workerStepUnchanged>>

BeginBatchFails(w) ==
    /\ pc[w] = "begin_batch"
    /\ DbBeginFails(w)
    /\ RegisterErrorAndStop
    /\ BatchReturns(w, FALSE)
    /\ UNCHANGED <<rows_imported, last, dbVars, fileVars, queueVars, workerStepUnchanged>>

(* Mutant of BatchFailed: without a transaction per batch, the rows of a   *)
(* failed statement are counted as imported.                               *)
BatchFailedUnnoticed(w) ==
    /\ Goto(w, IF PerBatch THEN "rollback_batch" ELSE "account")
    /\ UNCHANGED batch

(* What follows a statement that failed.                                   *)
BatchFailed(w) ==
    IF PerBatch THEN Goto(w, "rollback_batch") /\ UNCHANGED batch
    ELSE BatchReturns(w, FALSE)

(* INSERT or the upsert statement, also as the fallback of LOAD DATA.      *)
ExecuteOk(w) ==
    /\ pc[w] = "execute"
    /\ DbWrites(w, batch[w])
    /\ Goto(w, IF PerBatch THEN "commit_batch" ELSE "account")
    /\ UNCHANGED <<rows_imported, flagVars, batch, last, fileVars, queueVars,
                   workerStepUnchanged>>

ExecuteFails(w) ==
    /\ pc[w] = "execute"
    /\ DbRefuses(w) \/ DbAnswerLost(w, batch[w])
    /\ RegisterErrorAndHandlePolicy
    /\ BatchFailed(w)
    /\ UNCHANGED <<rows_imported, last, fileVars, queueVars, workerStepUnchanged>>

LoadFile(w) == <<w, Min(batch[w])>>

(* The rows that a load file holds whole: the first ones of the batch if   *)
(* the disk is full before the last.  Of the row it is full in, the file   *)
(* has a piece at most, which is no row of the run.                        *)
FileContents(w) ==
    {batch[w]} \union
    {{r \in batch[w] : r < k} : k \in IF "short_write" \in Faults THEN batch[w] ELSE {}}

(* Mutant of WriteFileOk: the file is not remembered.                      *)
WriteFileUnlisted(w) ==
    /\ pc[w] = "write_file"
    /\ disk' = disk \union {LoadFile(w)}
    /\ file_rows' = [file_rows EXCEPT ![w] = batch[w]]
    /\ Goto(w, "load")
    /\ UNCHANGED <<rows_imported, flagVars, batch, last, dbVars, temp_files, left_out,
                   queueVars, workerStepUnchanged>>

(* The stream is asked whether it is good after it was opened only: a      *)
(* write that fails (lines 1118 and 1119) goes unnoticed.                  *)
WriteFileOk(w) ==
    /\ pc[w] = "write_file"
    /\ disk' = disk \union {LoadFile(w)}
    /\ temp_files' = temp_files \union {LoadFile(w)}
    /\ \E rows \in FileContents(w) : file_rows' = [file_rows EXCEPT ![w] = rows]
    /\ Goto(w, "load")
    /\ UNCHANGED <<rows_imported, flagVars, batch, last, dbVars, left_out, queueVars,
                   workerStepUnchanged>>

(* The file cannot be opened.                                              *)
WriteFileFails(w) ==
    /\ "tempfile" \in Faults
    /\ pc[w] = "write_file"
    /\ RegisterErrorAndStop
    /\ BatchFailed(w)
    /\ UNCHANGED <<rows_imported, last, dbVars, fileVars, queueVars, workerStepUnchanged>>

(* The server takes the file as it is.                                     *)
LoadOk(w) ==
    /\ pc[w] = "load"
    /\ DbWrites(w, file_rows[w])
    /\ left_out' = left_out \union (batch[w] \ file_rows[w])
    /\ Goto(w, IF PerBatch THEN "commit_batch" ELSE "account")
    /\ UNCHANGED <<rows_imported, flagVars, batch, last, temp_files, disk, file_rows,
                   queueVars, workerStepUnchanged>>

LoadFallsBack(w) ==
    /\ "local_infile" \in Faults /\ cfg.db = "mysql"
    /\ pc[w] = "load"
    /\ tx[w] # "lost"
    /\ Goto(w, "execute")
    /\ UNCHANGED <<rows_imported, flagVars, batch, last, dbVars, fileVars, queueVars,
                   workerStepUnchanged>>

LoadFails(w) ==
    /\ pc[w] = "load"
    /\ DbRefuses(w) \/ DbAnswerLost(w, file_rows[w])
    /\ RegisterErrorAndHandlePolicy
    /\ BatchFailed(w)
    /\ UNCHANGED <<rows_imported, last, fileVars, queueVars, workerStepUnchanged>>

CommitBatchOk(w) ==
    /\ pc[w] = "commit_batch"
    /\ DbCommits(w)
    /\ Goto(w, "account")
    /\ UNCHANGED <<rows_imported, flagVars, batch, last, fileVars, queueVars,
                   workerStepUnchanged>>

CommitBatchFails(w) ==
    /\ pc[w] = "commit_batch"
    /\ DbCommitFails(w)
    /\ RegisterErrorAndStop
    /\ BatchReturns(w, FALSE)
    /\ UNCHANGED <<rows_imported, last, fileVars, queueVars, workerStepUnchanged>>

RollbackBatch(w) ==
    /\ pc[w] = "rollback_batch"
    /\ DbRollbackSent(w)
    /\ BatchReturns(w, FALSE)
    /\ UNCHANGED <<rows_imported, flagVars, last, fileVars, queueVars, workerStepUnchanged>>

(* Mutant of AccountBatch: every batch counts as a full one.               *)
AccountFullBatch(w) ==
    /\ pc[w] = "account"
    /\ rows_imported' = rows_imported + BatchSize
    /\ BatchReturns(w, TRUE)
    /\ UNCHANGED <<flagVars, last, dbVars, fileVars, queueVars, workerStepUnchanged>>

AccountBatch(w) ==
    /\ pc[w] = "account"
    /\ rows_imported' = rows_imported + Cardinality(batch[w])
    /\ BatchReturns(w, TRUE)
    /\ UNCHANGED <<flagVars, last, dbVars, fileVars, queueVars, workerStepUnchanged>>

(* Mutant of EndRun: only the rollback policy prevents the final COMMIT.   *)
EndRunIgnoringStop(w) ==
    /\ pc[w] = "end_run"
    /\ Goto(w, IF ~PerRun THEN "disconnect"
               ELSE IF rollback_all THEN "rollback_run" ELSE "commit_run")
    /\ UNCHANGED <<rows_imported, flagVars, batch, last, dbVars, fileVars, queueVars,
                   workerStepUnchanged>>

EndRun(w) ==
    /\ pc[w] = "end_run"
    /\ Goto(w, IF ~PerRun THEN "disconnect"
               ELSE IF rollback_all \/ stop THEN "rollback_run" ELSE "commit_run")
    /\ UNCHANGED <<rows_imported, flagVars, batch, last, dbVars, fileVars, queueVars,
                   workerStepUnchanged>>

CommitRunOk(w) ==
    /\ pc[w] = "commit_run"
    /\ DbCommits(w)
    /\ Goto(w, "disconnect")
    /\ UNCHANGED <<rows_imported, flagVars, batch, last, fileVars, queueVars,
                   workerStepUnchanged>>

CommitRunFails(w) ==
    /\ pc[w] = "commit_run"
    /\ DbCommitFails(w)
    /\ RegisterErrorAndStop
    /\ Goto(w, "disconnect")
    /\ UNCHANGED <<rows_imported, batch, last, fileVars, queueVars, workerStepUnchanged>>

RollbackRun(w) ==
    /\ pc[w] = "rollback_run"
    /\ DbRollbackSent(w)
    /\ Goto(w, "disconnect")
    /\ UNCHANGED <<rows_imported, flagVars, batch, last, fileVars, queueVars,
                   workerStepUnchanged>>

(* A transaction that is still open when the connection ends is discarded. *)
Disconnect(w) ==
    /\ pc[w] = "disconnect"
    /\ DbRollsBack(w)
    /\ Goto(w, "done")
    /\ UNCHANGED <<rows_imported, flagVars, batch, last, fileVars, queueVars,
                   workerStepUnchanged>>

(***************************************************************************)
(* The specification.                                                      *)
(***************************************************************************)
Init ==
    /\ cfg \in Configs
    /\ mainPc = "setup" /\ next = 0 /\ rows_generated = 0 /\ result = Running
    /\ rows_imported = 0
    /\ stop = FALSE /\ rollback_all = FALSE /\ first_error = FALSE
    /\ pc = [w \in Workers |-> "done"]
    /\ batch = [w \in Workers |-> {}]
    /\ last = [w \in Workers |-> FALSE]
    /\ tx = [w \in Workers |-> "none"]
    /\ pending = [w \in Workers |-> NoRows]
    /\ table = NoRows
    /\ old = TRUE
    /\ temp_files = {} /\ disk = {} /\ file_rows = [w \in Workers |-> {}]
    /\ left_out = {} /\ unanswered = {}
    /\ QueueInit

MainStep ==
    \/ SetupFails \/ CheckTable
    \/ ClearTableFails \/ ClearTable
    \/ UpsertKeyMissing \/ StartWorkers
    \/ GenerateRow \/ GeneratorThrows
    \/ ConsumeRow \/ PushRow \/ CountGenerated
    \/ CloseQueue \/ JoinWorkers \/ RemoveTempFiles \/ Report

WorkerStep(w) ==
    \/ ConnectOk(w) \/ ConnectFails(w)
    \/ BeginRunOk(w) \/ BeginRunFails(w)
    \/ CheckStop(w) \/ PopRow(w) \/ FinalBatch(w)
    \/ AdaptOk(w) \/ AdaptFails(w)
    \/ BeginBatchOk(w) \/ BeginBatchFails(w)
    \/ ExecuteOk(w) \/ ExecuteFails(w)
    \/ WriteFileOk(w) \/ WriteFileFails(w)
    \/ LoadOk(w) \/ LoadFallsBack(w) \/ LoadFails(w)
    \/ CommitBatchOk(w) \/ CommitBatchFails(w) \/ RollbackBatch(w)
    \/ AccountBatch(w)
    \/ EndRun(w) \/ CommitRunOk(w) \/ CommitRunFails(w) \/ RollbackRun(w)
    \/ Disconnect(w)

Wakeup ==
    /\ SpuriousWakeup
    /\ UNCHANGED <<cfg, mainVars, rows_imported, flagVars, workerVars, dbVars, fileVars>>

(* generate has returned or thrown.                                        *)
Ended == mainPc = "end" /\ UNCHANGED vars

Next ==
    \/ MainStep
    \/ \E w \in Workers : WorkerStep(w)
    \/ Wakeup
    \/ Ended

Spec == Init /\ [][Next]_vars

(* Threads that can run do run; a wakeup out of the blue may never come.   *)
FairSpec ==
    /\ Spec
    /\ WF_vars(MainStep)
    /\ \A w \in Workers : WF_vars(WorkerStep(w))

-----------------------------------------------------------------------------
(***************************************************************************)
(* Properties.                                                             *)
(***************************************************************************)
Landed == {r \in RowIds : table[r] > 0}
Copies == [RowIds -> Nat]

MainPlaces == {"setup", "clear", "key", "produce", "consume", "push", "count",
               "close", "join", "cleanup", "report", "end"}
WorkerPlaces == {"connect", "begin_run", "loop", "pop", "final", "adapt", "begin_batch",
                 "execute", "write_file", "load", "commit_batch", "rollback_batch",
                 "account", "end_run", "commit_run", "rollback_run", "disconnect", "done"}

MainTypes ==
    /\ mainPc \in MainPlaces
    /\ next \in Nat
    /\ rows_generated \in Nat
    /\ result \in [kind : {"running", "failed", "returned"}, rows_written : Nat]
FlagTypes == stop \in BOOLEAN /\ rollback_all \in BOOLEAN /\ first_error \in BOOLEAN
WorkerTypes ==
    /\ pc \in [Workers -> WorkerPlaces]
    /\ batch \in [Workers -> SUBSET RowIds]
    /\ last \in [Workers -> BOOLEAN]
DbTypes ==
    /\ tx \in [Workers -> {"none", "open", "aborted", "lost"}]
    /\ pending \in [Workers -> Copies]
    /\ table \in Copies
    /\ old \in BOOLEAN
    /\ unanswered \subseteq RowIds
FileTypes ==
    /\ temp_files \subseteq Workers \X RowIds /\ disk \subseteq temp_files
    /\ file_rows \in [Workers -> SUBSET RowIds]
    /\ left_out \subseteq RowIds
QueueTypes ==
    /\ queue \in Seq(RowIds)
    /\ closed \in BOOLEAN
    /\ canPush \subseteq {Main}
    /\ canPop \subseteq Workers

(* Every variable has its type; a file on disk is one that is remembered.  *)
TypeOK ==
    /\ cfg \in Configs
    /\ rows_imported \in Nat
    /\ MainTypes /\ FlagTypes /\ WorkerTypes /\ DbTypes /\ FileTypes /\ QueueTypes

(* No row reaches the table twice, by whatever writer, and none is written *)
(* in a transaction while it is in the table or in another transaction.    *)
NoRowTwice ==
    \A r \in RowIds :
        /\ table[r] <= 1
        /\ \A w \in Workers :
              /\ pending[w][r] + table[r] <= 1
              /\ \A v \in Workers \ {w} : pending[v][r] + pending[w][r] <= 1

(* What generate returns as rows_written (lines 1167 and 1295) is the      *)
(* number of rows that are in the table, and it is wrong for two reasons   *)
(* only: rows of a load file that was cut short are counted and are not    *)
(* there, and rows of an unanswered statement are there and not counted.   *)
ReportedRowsAreInTable ==
    result.kind = "returned" =>
        result.rows_written = Cardinality((Landed \ unanswered) \union left_out)

(* As tests/test_database_backend.cpp:148 has it of every import: the      *)
(* number returned is the number of rows in the table.                     *)
ReportIsExact ==
    result.kind = "returned" => result.rows_written = Cardinality(Landed)

(* A call that returns (line 1290 does not throw) has generated every row, *)
(* and unless an error was logged every row is in the table that the load  *)
(* files held: none gets lost in the queue, in an incomplete batch or in a *)
(* transaction left open.                                                  *)
NormalReturnIsComplete ==
    result.kind = "returned" =>
        /\ rows_generated = Rows
        /\ ~first_error => RowIds \ Landed \subseteq left_out

(* Is the run one transaction?  Oracle stays in autocommit.                *)
OneTransaction == PerRun /\ cfg.db # "oracle"

(* transaction_mode per-run: the table shows no row of the run, or every   *)
(* row that was counted as imported once all rows were generated; and they *)
(* are all rows unless the policy is to continue: each but for those that  *)
(* a load file did not hold.  A run that stopped, for whatever reason, has *)
(* left nothing behind, even if it ended as failed because the answer to   *)
(* its COMMIT got lost.                                                    *)
PerRunAtomic ==
    OneTransaction /\ Landed # {} =>
        /\ Cardinality(Landed \union left_out) = rows_imported
        /\ rows_generated = Rows
        /\ EffectiveErrorPolicy # "continue" => Landed \union left_out = RowIds

(* Runs of one transaction that carry on after a failed statement, where   *)
(* it took the rows of earlier ones back: the server ended the transaction *)
(* (Undoable), or has yet to roll it back at the COMMIT.                   *)
Undoable ==
    /\ OneTransaction /\ EffectiveErrorPolicy = "continue"
    /\ "undo" \in Faults /\ cfg.db \in {"mysql", "sqlite"}
Lossy ==
    \/ Undoable
    \/ cfg.db = "postgresql" /\ PerRun /\ EffectiveErrorPolicy = "continue"

(* error_policy rollback with transaction_mode per-run (README.md:166)     *)
(* "rolls back the full run": whatever the database, a run that failed has *)
(* left nothing behind.                                                    *)
RollbackUndoesTheRun ==
    /\ PerRun /\ EffectiveErrorPolicy = "rollback"
    /\ result.kind = "failed"
    => Landed = {}

(* What can fail in a batch and leave the rest of the import possible.     *)
BatchFaults == {"begin", "convert", "sql", "tempfile", "short_write", "local_infile", "commit"}

(* error_policy continue, and rollback with per-batch (README.md:163-165), *)
(* carry on after a failed batch: when nothing but batches can fail, the   *)
(* call does not fail.                                                     *)
BatchErrorsDoNotStop ==
    ShouldContinueAfterError /\ Faults \subseteq BatchFaults =>
        ~stop /\ result.kind # "failed"

(* Once the writers are joined the counters agree, although a writer may   *)
(* count a row as imported before the generator has counted it.            *)
CountersAgree ==
    mainPc \in {"cleanup", "report", "end"} =>
        /\ rows_imported <= rows_generated
        /\ rows_generated <= Rows

(* What generate refuses before it generates anything (a bad connection or *)
(* schema, a DELETE that fails, an upsert without a key) it refuses before *)
(* the rows that were in the table are gone, unless the DELETE itself was  *)
(* carried out and only its answer was lost.                               *)
ChecksComeBeforeClearing ==
    result.kind = "failed" /\ ~first_error =>
        /\ Landed = {}
        /\ ~old => AnswersLost /\ cfg.write_mode = "truncate"

(* However the call ends, no load file of it is left in <workspace>/tmp.   *)
TempFilesRemoved == mainPc = "end" => disk = {}

(* A writer that is back at its loop when the run has stopped begins no    *)
(* other batch: after an error the others finish the batch they are        *)
(* collecting at most (lines 1179, 1188 and 1192).                         *)
StopEndsTheLoop ==
    \A w \in Workers :
        [](stop /\ pc[w] \in {"loop", "final"} => [](pc[w] # "adapt"))

(* The call promises what ImportContract says.                             *)
Contract == INSTANCE ImportContract WITH oneShot <- OneTransaction
ImplementsContract == Contract!ContractSpec

(* generate returns or throws.                                             *)
Termination == <>(mainPc = "end")
=============================================================================
