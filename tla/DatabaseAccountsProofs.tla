------------------------ MODULE DatabaseAccountsProofs -----------------------
(***************************************************************************)
(* Theorems about what an import leaves in the table and what it reports:  *)
(* the rows a writer counts are the rows that land, and generate keeps the *)
(* promise of ImportContract.                                              *)
(***************************************************************************)
EXTENDS DatabaseBackendProofs

(* Where a writer of a per-run import is inside its transaction.           *)
InRun == {"loop", "pop", "final", "adapt", "begin_batch", "execute", "write_file", "load",
          "commit_batch", "rollback_batch", "account", "end_run", "commit_run",
    "rollback_run"}

(* A row that has been written counts, unless the program was not told;    *)
(* and one that its load file did not hold counts as well.                 *)
WrittenBy(w, r) ==
    r \in left_out \/ (r \notin unanswered /\ (table[r] > 0 \/ pending[w][r] > 0))
Written(r) ==
    \/ r \in left_out
    \/ r \notin unanswered /\ (table[r] > 0 \/ \E w \in Workers : pending[w][r] > 0)

(* What a writer's transaction is like at each of its places.              *)
Transaction(w) ==
    /\ tx[w] \in {"none", "lost"} => pending[w] = NoRows
    /\ pc[w] \in {"connect", "begin_run", "done"} => tx[w] = "none"
    /\ cfg.db = "oracle" \/ ~(PerRun \/ PerBatch) => tx[w] \in {"none", "lost"}
    /\ tx[w] = "aborted" => cfg.db = "postgresql" /\ first_error
    /\ tx[w] = "lost" => first_error
    /\ pc[w] = "commit_batch" => tx[w] \in {"none", "open"}
    /\ pc[w] \in {"commit_batch", "account"} => \A r \in batch[w] : WrittenBy(w, r)
    /\ PerBatch /\ pending[w] # NoRows =>
          \/ pc[w] = "commit_batch"
          \/ stop /\ pc[w] \in {"loop", "final", "end_run", "disconnect"}
    /\ ~stop /\ pending[w] # NoRows => pc[w] # "disconnect"

(* A transaction of the whole run ends before its writer does only with a  *)
(* failed statement.                                                       *)
RunTransaction(w) ==
    /\ ~Undoable /\ pc[w] \in InRun /\ tx[w] = "none" =>
          stop /\ pc[w] \in {"final", "end_run", "rollback_run"}
    /\ tx[w] = "lost" /\ pc[w] = "disconnect" => stop

Transactions ==
    /\ \A w \in Workers : Transaction(w) /\ (OneTransaction => RunTransaction(w))
    /\ unanswered \subseteq Landed
    /\ OneTransaction /\ ~Undoable => unanswered = {}

-----------------------------------------------------------------------------
(* The calling thread touches neither the transactions nor what was loaded *)
(* or not answered; the writers leave the calling thread alone.            *)
LEMMA MainKeepsDatabase ==
    ASSUME MainStep
    PROVE  UNCHANGED <<cfg, rows_imported, tx, pending, table, unanswered, left_out>>
BY DEF MainStep, SetupFails, ClearTableFails, UpsertKeyMissing, Throws, CheckTable,
   ClearTable, StartWorkers, GenerateRow, GeneratorThrows, ConsumeRow, PushRow,
   CountGenerated, CloseQueue, JoinWorkers, RemoveTempFiles, Report, mainStepUnchanged,
   dbVars, fileVars

LEMMA WorkerKeepsMain ==
    ASSUME NEW w \in Workers, WorkerStep(w)
    PROVE  UNCHANGED <<cfg, mainPc, next, rows_generated, result>>
BY DEF WorkerStep, workerStepUnchanged, mainVars, ConnectOk, ConnectFails, BeginRunOk,
   BeginRunFails, CheckStop, PopRow, FinalBatch, AdaptOk, AdaptFails, BeginBatchOk,
   BeginBatchFails, ExecuteOk, ExecuteFails, WriteFileOk, WriteFileFails, LoadOk, LoadFallsBack,
   LoadFails, CommitBatchOk, CommitBatchFails, RollbackBatch, AccountBatch, EndRun, CommitRunOk,
   CommitRunFails, RollbackRun, Disconnect

(* The configuration is fixed for the call.                                *)
LEMMA ConfigFixed ==
    ASSUME cfg' = cfg
    PROVE  /\ OneTransaction' = OneTransaction /\ Undoable' = Undoable /\ Lossy' = Lossy
           /\ PerRun' = PerRun /\ PerBatch' = PerBatch
           /\ EffectiveErrorPolicy' = EffectiveErrorPolicy
           /\ ShouldContinueAfterError' = ShouldContinueAfterError
BY DEF OneTransaction, Undoable, Lossy, PerRun, PerBatch, EffectiveErrorPolicy, ResolvedMode,
   SupportsLoadMode, ShouldContinueAfterError, Faults

-----------------------------------------------------------------------------
LEMMA TransactionsInit == ASSUME Init PROVE Transactions
BY DEF Init, Transactions, Transaction, RunTransaction, OneTransaction, PerRun, InRun, Landed

LEMMA TransactionsMain ==
    ASSUME TypeInv, ControlInv, Transactions, MainStep PROVE Transactions'
<1>1. UNCHANGED <<cfg, rows_imported, tx, pending, table, unanswered, left_out>>
  BY MainKeepsDatabase
<1>2. /\ OneTransaction' = OneTransaction /\ Undoable' = Undoable
      /\ PerRun' = PerRun /\ PerBatch' = PerBatch
  BY <1>1, ConfigFixed
<1>3. Landed' = Landed
  BY <1>1 DEF Landed
<1>4. CASE StartWorkers
  <2>1. \A w \in Workers : pc[w] = "done"
    BY <1>4 DEF StartWorkers, ControlInv, Beginning, Starting
  <2>2. UNCHANGED <<stop, first_error, batch>>
    BY <1>4 DEF StartWorkers, flagVars
  <2>3. \A w \in Workers : pc'[w] \in {"connect", "done"}
    BY <1>4 DEF StartWorkers
  <2>4. ASSUME NEW w \in Workers PROVE Transaction(w)' /\ RunTransaction(w)'
    <3>1. Transaction(w)
      BY DEF Transactions
    <3> QED
      BY <1>1, <1>2, <2>1, <2>2, <2>3, <3>1 DEF Transaction, RunTransaction, InRun
  <2> QED
    BY <1>1, <1>2, <1>3, <2>4 DEF Transactions
<1>5. CASE MainStep /\ ~StartWorkers
  <2>1. UNCHANGED <<pc, batch>> /\ (stop => stop') /\ (first_error => first_error')
    BY <1>5 DEF MainStep, SetupFails, ClearTableFails, UpsertKeyMissing, Throws, CheckTable,
       ClearTable, GenerateRow, GeneratorThrows, RegisterErrorAndStop, ConsumeRow, PushRow,
       CountGenerated, CloseQueue, JoinWorkers, RemoveTempFiles, Report, mainStepUnchanged,
       flagVars, workerVars
  <2>2. ASSUME NEW w \in Workers
        PROVE  (Transaction(w) => Transaction(w)') /\ (RunTransaction(w) => RunTransaction(w)')
    BY <1>1, <1>2, <2>1 DEF Transaction, RunTransaction, InRun, WrittenBy
  <2> QED
    BY <1>1, <1>2, <1>3, <2>2 DEF Transactions
<1> QED
  BY <1>4, <1>5

(* A writer that begins has nothing uncommitted, so that BEGIN moves no    *)
(* row to the table, not even on MySQL after a ROLLBACK that failed.       *)
LEMMA BeginMovesNothing ==
    ASSUME TypeInv, WriterCourses, Transactions, NEW w \in Workers, DbBegins(w),
           pc[w] \in {"begin_run", "begin_batch"}
    PROVE  /\ UNCHANGED <<pending, table, old, unanswered>>
           /\ IF cfg.db = "oracle" THEN tx' = tx ELSE tx' = [tx EXCEPT ![w] = "open"]
<1>1. /\ pending \in [Workers -> [RowIds -> Nat]] /\ table \in [RowIds -> Nat]
      /\ tx \in [Workers -> {"none", "open", "aborted", "lost"}]
  BY DEF TypeInv, TypeOK, DbTypes, Copies
<1>2. pending[w] = NoRows
  BY DEF Transactions, Transaction, WriterCourses, WriterCourse
<1>3. Merged(table, pending[w]) = table /\ [pending EXCEPT ![w] = NoRows] = pending
  BY <1>1, <1>2 DEF Merged, NoRows
<1> QED
  BY <1>1, <1>3 DEF DbBegins, dbVars

(* A statement writes the rows of its batch, or those of them that the     *)
(* load file holds, and leaves the others alone.                           *)
LEMMA WriteKeepsWritten ==
    ASSUME TypeInv, RowInv, Transactions, NEW w \in Workers, NEW rows \in SUBSET batch[w],
           DbWrites(w, rows), pc[w] \in {"execute", "load"},
           left_out' = left_out \union (batch[w] \ rows)
    PROVE  /\ \A v \in Workers : \A r \in RowIds : WrittenBy(v, r) => WrittenBy(v, r)'
           /\ \A r \in batch[w] : WrittenBy(w, r)'
<1>1. /\ batch \in [Workers -> SUBSET RowIds]
      /\ pending \in [Workers -> [RowIds -> Nat]] /\ table \in [RowIds -> Nat]
  BY DEF TypeInv, TypeOK, WorkerTypes, DbTypes, Copies
<1>2. \A r \in batch[w] : r \notin unanswered
  BY <1>1 DEF RowInv, BatchesToWrite, Spent, Unwritten, Nowhere, Transactions, Landed
<1>3. unanswered' = unanswered
  BY DEF DbWrites
<1>4. CASE pending' = [pending EXCEPT ![w] = WithRows(@, rows)] /\ table' = table
  <2>1. \A v \in Workers : \A r \in RowIds : pending[v][r] > 0 => pending'[v][r] > 0
    BY <1>1, <1>4 DEF WithRows
  <2>2. \A r \in rows : pending'[w][r] > 0
    BY <1>1, <1>4 DEF WithRows
  <2>3. \A v \in Workers : \A r \in RowIds : WrittenBy(v, r) => WrittenBy(v, r)'
    BY <1>3, <1>4, <2>1 DEF WrittenBy
  <2>4. \A r \in batch[w] : WrittenBy(w, r)'
    BY <1>2, <1>3, <2>2 DEF WrittenBy
  <2> QED
    BY <2>3, <2>4
<1>5. CASE table' = WithRows(table, rows) /\ pending' = pending
  <2>1. \A r \in RowIds : (table[r] > 0 => table'[r] > 0) /\ (r \in rows => table'[r] > 0)
    BY <1>1, <1>5 DEF WithRows
  <2>2. \A v \in Workers : \A r \in RowIds : WrittenBy(v, r) => WrittenBy(v, r)'
    BY <1>3, <1>5, <2>1 DEF WrittenBy
  <2>3. \A r \in batch[w] : WrittenBy(w, r)'
    BY <1>1, <1>2, <1>3, <2>1 DEF WrittenBy
  <2> QED
    BY <2>2, <2>3
<1> QED
  BY <1>4, <1>5 DEF DbWrites

(* The rows of a statement that was not answered had not been written, so  *)
(* that none that counts becomes one that does not.                        *)
LEMMA LostAnswerKeepsWritten ==
    ASSUME TypeInv, RowInv, NEW w \in Workers, NEW rows \in SUBSET batch[w],
           DbAnswerLost(w, rows), pc[w] \in {"execute", "load"}, UNCHANGED left_out
    PROVE  /\ \A v \in Workers \ {w} : \A r \in RowIds : WrittenBy(v, r) => WrittenBy(v, r)'
           /\ pending[w] = NoRows => \A r \in RowIds : Written(r)' <=> Written(r)
<1>1. /\ batch \in [Workers -> SUBSET RowIds]
      /\ pending \in [Workers -> [RowIds -> Nat]] /\ table \in [RowIds -> Nat]
  BY DEF TypeInv, TypeOK, WorkerTypes, DbTypes, Copies
<1>2. \A r \in rows : table[r] = 0 /\ r \notin left_out /\ \A v \in Workers : pending[v][r] = 0
  BY <1>1 DEF RowInv, BatchesToWrite, Spent, Unwritten, Nowhere
<1>3. \A v \in Workers \ {w} : pending'[v] = pending[v]
  BY <1>1 DEF DbAnswerLost
<1>4. pending[w] = NoRows => pending' = pending
  BY <1>1 DEF DbAnswerLost
<1>5. CASE UNCHANGED <<table, unanswered>>
  BY <1>3, <1>4, <1>5 DEF WrittenBy, Written
<1>6. CASE table' = WithRows(table, rows) /\ unanswered' = unanswered \union rows
  <2>1. \A r \in RowIds \ rows : table'[r] = table[r] /\ (r \in unanswered' <=> r \in unanswered)
    BY <1>1, <1>6 DEF WithRows
  <2>2. \A r \in rows : /\ \A v \in Workers : ~WrittenBy(v, r)
                        /\ pending' = pending => ~Written(r) /\ ~Written(r)'
    BY <1>2, <1>6 DEF WrittenBy, Written
  <2>3. \A r \in RowIds \ rows : /\ \A v \in Workers \ {w} : WrittenBy(v, r) => WrittenBy(v, r)'
                                 /\ pending' = pending => (Written(r)' <=> Written(r))
    BY <1>3, <2>1 DEF WrittenBy, Written
  <2> QED
    BY <1>4, <2>2, <2>3
<1> QED
  BY <1>5, <1>6 DEF DbAnswerLost

(* COMMIT moves rows to the table, unless the transaction is aborted.      *)
LEMMA CommitKeepsWritten ==
    ASSUME TypeInv, Transactions, NEW w \in Workers, DbCommits(w), UNCHANGED left_out
    PROVE  /\ \A v \in Workers \ {w} : \A r \in RowIds : WrittenBy(v, r) => WrittenBy(v, r)'
           /\ tx[w] # "aborted" => \A r \in RowIds : WrittenBy(w, r) => WrittenBy(w, r)'
<1>1. /\ pending \in [Workers -> [RowIds -> Nat]] /\ table \in [RowIds -> Nat]
      /\ tx \in [Workers -> {"none", "open", "aborted", "lost"}]
  BY DEF TypeInv, TypeOK, DbTypes, Copies
<1>2. unanswered' = unanswered /\ tx[w] # "lost"
  BY DEF DbCommits
<1>3. CASE tx[w] = "open"
  <2>1. \A r \in RowIds : table'[r] = table[r] + pending[w][r]
    BY <1>3 DEF DbCommits, Merged
  <2> QED
    BY <1>1, <1>2, <1>3, <2>1 DEF DbCommits, WrittenBy
<1>4. CASE tx[w] # "open"
  <2>1. table' = table /\ \A v \in Workers \ {w} : pending'[v] = pending[v]
    BY <1>1, <1>4 DEF DbCommits
  <2>2. tx[w] # "aborted" => \A r \in RowIds : pending[w][r] = 0
    BY <1>1, <1>2, <1>4 DEF Transactions, Transaction, NoRows
  <2> QED
    BY <1>2, <2>1, <2>2 DEF WrittenBy
<1> QED
  BY <1>3, <1>4

-----------------------------------------------------------------------------
(* What a step of a writer is for the database, whatever else it does.     *)
Quiet == UNCHANGED <<tx, pending, table, unanswered, left_out>>
Begins(w) == DbBegins(w) /\ pc[w] \in {"begin_run", "begin_batch"} /\ UNCHANGED left_out
Writes(w) ==
    /\ pc[w] \in {"execute", "load"}
    /\ \E rows \in SUBSET batch[w] :
          DbWrites(w, rows) /\ left_out' = left_out \union (batch[w] \ rows)
Refuses(w) == pc[w] \in {"execute", "load"} /\ DbRefuses(w) /\ UNCHANGED left_out
AnswerLost(w) ==
    /\ pc[w] \in {"execute", "load"} /\ UNCHANGED left_out
    /\ \E rows \in SUBSET batch[w] : DbAnswerLost(w, rows)
Commits(w) == pc[w] \in {"commit_batch", "commit_run"} /\ DbCommits(w) /\ UNCHANGED left_out
RollsBack(w) ==
    /\ pc[w] \in {"rollback_batch", "rollback_run", "disconnect"}
    /\ DbRollsBack(w) /\ UNCHANGED left_out

LEMMA DatabaseStep ==
    ASSUME TypeInv, NEW w \in Workers, WorkerStep(w)
    PROVE  \/ Quiet \/ Begins(w) \/ Writes(w) \/ Refuses(w) \/ AnswerLost(w)
           \/ Commits(w) \/ RollsBack(w)
<1> USE DEF dbVars, fileVars
<1>1. CASE LoadOk(w) \/ LoadFails(w)
  <2>1. file_rows[w] \in SUBSET batch[w]
    BY <1>1 DEF LoadOk, LoadFails, TypeInv, FilesOfBatches
  <2> QED
    BY <1>1, <2>1 DEF LoadOk, LoadFails, Writes, Refuses, AnswerLost
<1>2. CASE ExecuteOk(w) \/ ExecuteFails(w)
  <2>1. left_out = left_out \union (batch[w] \ batch[w])
    OBVIOUS
  <2> QED
    BY <1>2, <2>1 DEF ExecuteOk, ExecuteFails, Writes, Refuses, AnswerLost
<1>3. CASE BeginRunOk(w) \/ BeginBatchOk(w)
  BY <1>3 DEF BeginRunOk, BeginBatchOk, Begins
<1>4. CASE CommitBatchOk(w) \/ CommitBatchFails(w) \/ CommitRunOk(w) \/ CommitRunFails(w)
  BY <1>4 DEF CommitBatchOk, CommitBatchFails, CommitRunOk, CommitRunFails, DbCommitFails,
     Commits, Quiet
<1>5. CASE RollbackBatch(w) \/ RollbackRun(w) \/ Disconnect(w)
  BY <1>5 DEF RollbackBatch, RollbackRun, Disconnect, DbRollbackSent, RollsBack, Quiet
<1>6. CASE \/ ConnectOk(w) \/ ConnectFails(w) \/ BeginRunFails(w)
           \/ CheckStop(w) \/ PopRow(w) \/ FinalBatch(w) \/ AdaptOk(w) \/ AdaptFails(w)
           \/ BeginBatchFails(w) \/ WriteFileOk(w) \/ WriteFileFails(w) \/ LoadFallsBack(w)
           \/ AccountBatch(w) \/ EndRun(w)
  BY <1>6 DEF ConnectOk, ConnectFails, BeginRunFails, CheckStop, PopRow, FinalBatch,
     AdaptOk, AdaptFails, BeginBatchFails, WriteFileOk, WriteFileFails, LoadFallsBack,
     AccountBatch, EndRun, Quiet
<1> QED
  BY <1>1, <1>2, <1>3, <1>4, <1>5, <1>6 DEF WorkerStep

(* A row in the table stays there, and a transaction of the whole run      *)
(* leaves no statement unanswered: the lost connection takes it away.      *)
LEMMA UnansweredLanded ==
    ASSUME TypeInv, WriterCourses, Transactions, NEW w \in Workers, WorkerStep(w)
    PROVE  /\ unanswered' \subseteq Landed'
           /\ OneTransaction /\ ~Undoable => unanswered' = {}
<1>1. /\ batch \in [Workers -> SUBSET RowIds]
      /\ pending \in [Workers -> [RowIds -> Nat]] /\ table \in [RowIds -> Nat]
  BY DEF TypeInv, TypeOK, WorkerTypes, DbTypes, Copies
<1>2. unanswered \subseteq Landed /\ (OneTransaction /\ ~Undoable => unanswered = {})
  BY DEF Transactions
<1>3. CASE UNCHANGED <<table, unanswered>>
  BY <1>2, <1>3 DEF Landed
<1>4. CASE Begins(w)
  BY <1>3, <1>4, BeginMovesNothing DEF Begins
<1>5. CASE Writes(w)
  <2>1. PICK rows \in SUBSET batch[w] : DbWrites(w, rows)
    BY <1>5 DEF Writes
  <2>2. unanswered' = unanswered /\ table' \in {table, WithRows(table, rows)}
    BY <2>1 DEF DbWrites
  <2>3. Landed \subseteq Landed'
    BY <1>1, <2>2 DEF Landed, WithRows
  <2> QED
    BY <1>2, <2>2, <2>3
<1>6. CASE AnswerLost(w)
  <2>1. PICK rows \in SUBSET batch[w] : DbAnswerLost(w, rows)
    BY <1>6 DEF AnswerLost
  <2>2. CASE tx[w] = "none" /\ table' = WithRows(table, rows) /\ unanswered' = unanswered \union rows
    <3>1. Landed \union rows \subseteq Landed'
      BY <1>1, <2>2 DEF Landed, WithRows
    <3>2. ~(OneTransaction /\ ~Undoable)
      BY <1>6, <2>2 DEF AnswerLost, Transactions, RunTransaction, InRun
    <3> QED
      BY <1>2, <2>2, <3>1, <3>2
  <2> QED
    BY <1>3, <2>1, <2>2 DEF DbAnswerLost
<1>7. CASE Commits(w)
  <2>1. unanswered' = unanswered /\ table' \in {table, Merged(table, pending[w])}
    BY <1>7 DEF Commits, DbCommits
  <2>2. Landed \subseteq Landed'
    BY <1>1, <2>1 DEF Landed, Merged
  <2> QED
    BY <1>2, <2>1, <2>2
<1>8. CASE Refuses(w) \/ RollsBack(w) \/ Quiet
  BY <1>3, <1>8 DEF Refuses, DbRefuses, RollsBack, DbRollsBack, Quiet, dbVars
<1> QED
  BY <1>4, <1>5, <1>6, <1>7, <1>8, DatabaseStep

(* What a writer does leaves the others as they are.                       *)
LEMMA OtherWriter ==
    ASSUME TypeInv, NEW w \in Workers, WorkerStep(w), NEW v \in Workers \ {w}
    PROVE  /\ pc'[v] = pc[v] /\ batch'[v] = batch[v] /\ tx'[v] = tx[v]
           /\ pending'[v] = pending[v]
           /\ (stop => stop') /\ (first_error => first_error')
<1>1. /\ pc \in [Workers -> WorkerPlaces] /\ batch \in [Workers -> SUBSET RowIds]
      /\ DOMAIN tx = Workers /\ DOMAIN pending = Workers
  BY DEF TypeInv, TypeOK, WorkerTypes, DbTypes
<1>2. tx'[v] = tx[v] /\ pending'[v] = pending[v]
  BY <1>1, DatabaseStep DEF Quiet, Begins, DbBegins, Writes, DbWrites, Refuses, DbRefuses,
     AnswerLost, DbAnswerLost, Commits, DbCommits, RollsBack, DbRollsBack, dbVars
<1>3. /\ pc'[v] = pc[v] /\ batch'[v] = batch[v]
      /\ (stop => stop') /\ (first_error => first_error')
  <2> USE <1>1 DEF Goto, flagVars, BatchReturns, RegisterErrorAndStop
  <2>1. CASE \/ ConnectOk(w) \/ ConnectFails(w) \/ BeginRunOk(w) \/ BeginRunFails(w)
             \/ CheckStop(w) \/ FinalBatch(w) \/ AdaptOk(w) \/ BeginBatchOk(w)
             \/ BeginBatchFails(w)
    BY <2>1 DEF ConnectOk, ConnectFails, BeginRunOk, BeginRunFails, CheckStop, FinalBatch,
       AdaptOk, BeginBatchOk, BeginBatchFails
  <2>2. CASE PopRow(w)
    BY <2>2 DEF PopRow
  <2>3. CASE AdaptFails(w) \/ ExecuteFails(w) \/ WriteFileFails(w) \/ LoadFails(w)
    BY <2>3 DEF AdaptFails, ExecuteFails, WriteFileFails, LoadFails, BatchFailed,
       RegisterErrorAndHandlePolicy
  <2>4. CASE \/ ExecuteOk(w) \/ WriteFileOk(w) \/ LoadOk(w) \/ LoadFallsBack(w)
             \/ CommitBatchOk(w) \/ CommitBatchFails(w) \/ RollbackBatch(w)
    BY <2>4 DEF ExecuteOk, WriteFileOk, LoadOk, LoadFallsBack, CommitBatchOk, CommitBatchFails,
       RollbackBatch
  <2>5. CASE \/ AccountBatch(w) \/ EndRun(w) \/ CommitRunOk(w) \/ CommitRunFails(w)
             \/ RollbackRun(w) \/ Disconnect(w)
    BY <2>5 DEF AccountBatch, EndRun, CommitRunOk, CommitRunFails, RollbackRun, Disconnect
  <2> QED
    BY <2>1, <2>2, <2>3, <2>4, <2>5 DEF WorkerStep
<1> QED
  BY <1>2, <1>3

(* A writer that has sent its last COMMIT or ROLLBACK only disconnects.    *)
LEMMA WriterMoves ==
    ASSUME TypeInv, NEW w \in Workers, WorkerStep(w)
    PROVE  /\ pc[w] # "done" /\ (stop => stop')
           /\ pc[w] = "disconnect" =>
                 pc'[w] = "done" /\ UNCHANGED <<table, rows_imported, left_out>>
<1> USE DEF Goto, flagVars, dbVars, fileVars, RegisterErrorAndStop
<1>1. pc \in [Workers -> WorkerPlaces] /\ stop \in BOOLEAN
  BY DEF TypeInv, TypeOK, WorkerTypes, FlagTypes
<1>2. CASE Disconnect(w)
  BY <1>1, <1>2 DEF Disconnect, DbRollsBack
<1>3. CASE AdaptFails(w) \/ ExecuteFails(w) \/ LoadFails(w)
  BY <1>3 DEF AdaptFails, ExecuteFails, LoadFails, RegisterErrorAndHandlePolicy
<1>4. CASE \/ ConnectFails(w) \/ BeginRunFails(w) \/ BeginBatchFails(w) \/ WriteFileFails(w)
           \/ CommitBatchFails(w) \/ CommitRunFails(w)
  BY <1>4 DEF ConnectFails, BeginRunFails, BeginBatchFails, WriteFileFails, CommitBatchFails,
     CommitRunFails
<1>5. CASE \/ ConnectOk(w) \/ BeginRunOk(w) \/ CheckStop(w) \/ PopRow(w) \/ FinalBatch(w)
           \/ AdaptOk(w) \/ BeginBatchOk(w) \/ ExecuteOk(w) \/ WriteFileOk(w) \/ LoadOk(w)
  BY <1>5 DEF ConnectOk, BeginRunOk, CheckStop, PopRow, FinalBatch, AdaptOk, BeginBatchOk,
     ExecuteOk, WriteFileOk, LoadOk
<1>6. CASE LoadFallsBack(w) \/ CommitBatchOk(w) \/ CommitRunOk(w)
  BY <1>6 DEF LoadFallsBack, CommitBatchOk, CommitRunOk
<1>7. CASE RollbackBatch(w) \/ RollbackRun(w)
  <2>1. CASE RollbackBatch(w)
    BY <2>1 DEF RollbackBatch
  <2>2. CASE RollbackRun(w)
    BY <2>2 DEF RollbackRun
  <2> QED
    BY <1>7, <2>1, <2>2
<1>8. CASE AccountBatch(w)
  BY <1>8 DEF AccountBatch
<1>9. CASE EndRun(w)
  BY <1>9 DEF EndRun
<1> QED
  BY <1>2, <1>3, <1>4, <1>5, <1>6, <1>7, <1>8, <1>9 DEF WorkerStep

LEMMA OthersWritten ==
    ASSUME TypeInv, RowInv, WriterCourses, Transactions, NEW w \in Workers, WorkerStep(w),
           NEW v \in Workers \ {w}, NEW r \in RowIds, WrittenBy(v, r)
    PROVE  WrittenBy(v, r)'
<1>1. CASE Begins(w)
  BY <1>1, BeginMovesNothing DEF Begins, WrittenBy
<1>2. CASE Writes(w)
  BY <1>2, WriteKeepsWritten DEF Writes
<1>3. CASE AnswerLost(w)
  BY <1>3, LostAnswerKeepsWritten DEF AnswerLost
<1>4. CASE Commits(w)
  BY <1>4, CommitKeepsWritten DEF Commits
<1>5. CASE Refuses(w) \/ RollsBack(w) \/ Quiet
  BY <1>5, OtherWriter DEF Refuses, DbRefuses, RollsBack, DbRollsBack, Quiet, dbVars, WrittenBy
<1> QED
  BY <1>1, <1>2, <1>3, <1>4, <1>5, DatabaseStep

(* A statement that fails: the rows of a batch of its own transaction were *)
(* not written yet, and a run that loses its rows to it stops.             *)
LEMMA FailureKeepsTransaction ==
    ASSUME TypeInv, WriterCourses, Flags, NEW w \in Workers, Transaction(w),
           OneTransaction => RunTransaction(w),
           pc[w] \in {"execute", "load"}, DbRefuses(w) \/ \E rows : DbAnswerLost(w, rows),
           RegisterErrorAndHandlePolicy, BatchFailed(w), cfg' = cfg
    PROVE  Transaction(w)' /\ (OneTransaction => RunTransaction(w)')
<1>1. /\ pc \in [Workers -> WorkerPlaces] /\ tx \in [Workers -> {"none", "open", "aborted", "lost"}]
      /\ pending \in [Workers -> [RowIds -> Nat]] /\ stop \in BOOLEAN
  BY DEF TypeInv, TypeOK, WorkerTypes, DbTypes, FlagTypes, Copies
<1>2. /\ PerRun' = PerRun /\ PerBatch' = PerBatch /\ Undoable' = Undoable
  BY ConfigFixed
<1>3. /\ first_error'
      /\ pc'[w] \in {"rollback_batch", "loop", "final", "end_run"}
      /\ PerBatch => pc'[w] = "rollback_batch"
  BY <1>1 DEF RegisterErrorAndHandlePolicy, BatchFailed, BatchReturns, Goto
<1>4. /\ PerBatch => pending[w] = NoRows
      /\ tx[w] \in {"none", "lost"} => pending[w] = NoRows
  BY DEF Transaction
<1>5. /\ pending'[w] \in {pending[w], NoRows}
      /\ tx'[w] \in {"none", "lost"} => pending'[w] = NoRows
      /\ tx'[w] \in {tx[w], "none", "aborted", "lost"}
      /\ tx'[w] = "aborted" => tx[w] = "aborted" \/ (cfg.db = "postgresql" /\ tx[w] = "open")
      /\ tx'[w] = "none" =>
            \/ tx[w] = "none"
            \/ tx[w] = "open" /\ "undo" \in Faults /\ cfg.db \in {"mysql", "sqlite"}
  <2>1. CASE DbRefuses(w)
    <3>1. CASE UNCHANGED <<tx, pending>>
      BY <1>1, <1>4, <3>1
    <3>2. CASE cfg.db = "postgresql" /\ tx[w] = "open" /\ pending' = pending
               /\ tx' = [tx EXCEPT ![w] = "aborted"]
      BY <1>1, <3>2
    <3>3. CASE /\ "undo" \in Faults /\ cfg.db \in {"mysql", "sqlite"} /\ tx[w] = "open"
               /\ DbRollsBack(w)
      BY <1>1, <3>3 DEF DbRollsBack
    <3> QED
      BY <2>1, <3>1, <3>2, <3>3 DEF DbRefuses, dbVars
  <2>2. CASE \E rows : DbAnswerLost(w, rows)
    <3>1. pending'[w] = NoRows /\ tx'[w] = "lost"
      BY <1>1, <2>2 DEF DbAnswerLost
    <3> QED
      BY <3>1
  <2> QED
    BY <2>1, <2>2
<1>6. Transaction(w)'
  BY <1>2, <1>3, <1>4, <1>5 DEF Transaction
<1>7. ASSUME OneTransaction PROVE RunTransaction(w)'
  <2>1. ~Undoable /\ tx[w] = "open" /\ tx'[w] = "none" => ~ShouldContinueAfterError
    BY <1>5, <1>7 DEF Undoable, ShouldContinueAfterError, OneTransaction, PerRun, PerBatch
  <2>2. ~ShouldContinueAfterError /\ ~PerBatch => stop' /\ pc'[w] \in {"final", "end_run"}
    BY <1>1 DEF RegisterErrorAndHandlePolicy, BatchFailed, BatchReturns, Goto
  <2>3. ~PerBatch
    BY <1>7 DEF OneTransaction, PerRun, PerBatch
  <2>4. ~Undoable => tx[w] # "none"
    BY <1>7 DEF RunTransaction, InRun
  <2> QED
    BY <1>2, <1>3, <1>5, <2>1, <2>2, <2>3, <2>4 DEF RunTransaction
<1> QED
  BY <1>6, <1>7

LEMMA TransactionWorker ==
    ASSUME TypeInv, RowInv, ControlInv, Transactions, NEW w \in Workers, WorkerStep(w)
    PROVE  Transaction(w)' /\ (OneTransaction => RunTransaction(w)')
<1>1. /\ pc \in [Workers -> WorkerPlaces] /\ batch \in [Workers -> SUBSET RowIds]
      /\ tx \in [Workers -> {"none", "open", "aborted", "lost"}]
      /\ pending \in [Workers -> [RowIds -> Nat]]
      /\ stop \in BOOLEAN
  BY DEF TypeInv, TypeOK, WorkerTypes, DbTypes, FlagTypes, Copies
<1>2. /\ Transaction(w) /\ (OneTransaction => RunTransaction(w))
      /\ WriterCourse(w) /\ WriterCourses /\ Flags
  BY DEF Transactions, ControlInv, WriterCourses
<1>3. /\ cfg' = cfg /\ Undoable' = Undoable /\ PerRun' = PerRun /\ PerBatch' = PerBatch
  BY WorkerKeepsMain, ConfigFixed
<1>4. PerRun => ~PerBatch
  BY DEF PerRun, PerBatch
<1>5. OneTransaction => PerRun
  BY DEF OneTransaction
<1> USE <1>1, <1>2, <1>3, <1>4, <1>5 DEF Goto, flagVars, dbVars, fileVars
<1>6. CASE ConnectOk(w)
  BY <1>6 DEF ConnectOk, Transaction, RunTransaction, InRun, WrittenBy
<1>7. CASE ConnectFails(w)
  BY <1>7 DEF ConnectFails, RegisterErrorAndStop, Transaction, RunTransaction, InRun, WrittenBy
<1>8. CASE BeginRunOk(w)
  <2>1. pending'[w] = pending[w] /\ tx'[w] = IF cfg.db = "oracle" THEN tx[w] ELSE "open"
    BY <1>8, BeginMovesNothing DEF BeginRunOk
  <2>2. tx[w] = "none" /\ pending[w] = NoRows /\ PerRun /\ pc'[w] = "loop"
    BY <1>8 DEF BeginRunOk, Transaction, WriterCourse
  <2>3. Transaction(w)'
    BY <2>1, <2>2 DEF Transaction
  <2>4. OneTransaction => cfg.db # "oracle"
    BY DEF OneTransaction
  <2> QED
    BY <2>1, <2>2, <2>3, <2>4 DEF RunTransaction
<1>9. CASE BeginRunFails(w)
  BY <1>9
  DEF BeginRunFails, RegisterErrorAndStop, Transaction, RunTransaction, InRun, WrittenBy
<1>10. CASE CheckStop(w)
  BY <1>10 DEF CheckStop, Transaction, RunTransaction, InRun, WrittenBy
<1>11. CASE PopRow(w)
  BY <1>11 DEF PopRow, Transaction, RunTransaction, InRun, WrittenBy
<1>12. CASE FinalBatch(w)
  BY <1>12 DEF FinalBatch, Transaction, RunTransaction, InRun, WrittenBy
<1>13. CASE AdaptOk(w)
  BY <1>13 DEF AdaptOk, Transaction, RunTransaction, InRun, WrittenBy
<1>14. CASE AdaptFails(w)
  BY <1>14
  DEF AdaptFails, RegisterErrorAndHandlePolicy, BatchReturns, Transaction, RunTransaction,
      InRun, WrittenBy
<1>15. CASE BeginBatchOk(w)
  <2>1. pending'[w] = pending[w] /\ tx'[w] = IF cfg.db = "oracle" THEN tx[w] ELSE "open"
    BY <1>15, BeginMovesNothing DEF BeginBatchOk
  <2> QED
    BY <1>15, <2>1 DEF BeginBatchOk, Transaction, RunTransaction, InRun, WriterCourse
<1>16. CASE BeginBatchFails(w)
  BY <1>16
  DEF BeginBatchFails, RegisterErrorAndStop, BatchReturns, Transaction, RunTransaction, InRun,
      WrittenBy
<1>17. CASE ExecuteOk(w)
  <2>1. /\ pc[w] \in {"execute", "load"} /\ tx[w] \in {"none", "open"} /\ tx' = tx
        /\ tx[w] = "none" => pending' = pending
        /\ pc'[w] = IF PerBatch THEN "commit_batch" ELSE "account"
        /\ UNCHANGED <<batch, stop, first_error>>
    BY <1>17 DEF ExecuteOk, DbWrites
  <2>2. \A r \in batch[w] : WrittenBy(w, r)'
    <3>1. left_out' = left_out \union (batch[w] \ batch[w])
      BY <1>17 DEF ExecuteOk
    <3> QED
      BY <1>17, <3>1, WriteKeepsWritten DEF ExecuteOk
  <2> QED
    BY <2>1, <2>2 DEF Transaction, RunTransaction, InRun
<1>18. CASE ExecuteFails(w)
  BY <1>18, FailureKeepsTransaction DEF ExecuteFails
<1>19. CASE WriteFileOk(w)
  BY <1>19 DEF WriteFileOk, Transaction, RunTransaction, InRun, WrittenBy
<1>20. CASE WriteFileFails(w)
  BY <1>20
  DEF WriteFileFails, RegisterErrorAndStop, BatchFailed, BatchReturns, Transaction,
      RunTransaction, InRun, WrittenBy
<1>21. CASE LoadOk(w)
  <2>1. /\ pc[w] \in {"execute", "load"} /\ tx[w] \in {"none", "open"} /\ tx' = tx
        /\ tx[w] = "none" => pending' = pending
        /\ pc'[w] = IF PerBatch THEN "commit_batch" ELSE "account"
        /\ UNCHANGED <<batch, stop, first_error>>
    BY <1>21 DEF LoadOk, DbWrites
  <2>2. \A r \in batch[w] : WrittenBy(w, r)'
    <3>1. file_rows[w] \in SUBSET batch[w]
      BY <1>21 DEF LoadOk, TypeInv, FilesOfBatches
    <3> QED
      BY <1>21, <3>1, WriteKeepsWritten DEF LoadOk
  <2> QED
    BY <2>1, <2>2 DEF Transaction, RunTransaction, InRun
<1>22. CASE LoadFallsBack(w)
  BY <1>22 DEF LoadFallsBack, Transaction, RunTransaction, InRun, WrittenBy
<1>23. CASE LoadFails(w)
  BY <1>23, FailureKeepsTransaction DEF LoadFails
<1>24. CASE CommitBatchOk(w)
  <2>1. tx'[w] = "none" /\ pending'[w] = NoRows /\ pc'[w] = "account" /\ PerBatch
    BY <1>24 DEF CommitBatchOk, DbCommits, WriterCourse
  <2>2. \A r \in batch[w] : WrittenBy(w, r)'
    BY <1>24, CommitKeepsWritten DEF CommitBatchOk, Transaction
  <2> QED
    BY <1>24, <2>1, <2>2 DEF CommitBatchOk, Transaction
<1>25. CASE CommitBatchFails(w)
  <2>1. /\ stop' /\ first_error' /\ pc'[w] \in {"loop", "final", "end_run"} /\ PerBatch
    BY <1>25 DEF CommitBatchFails, RegisterErrorAndStop, BatchReturns, WriterCourse
  <2>2. \/ tx'[w] = tx[w] /\ pending'[w] = pending[w]
        \/ tx'[w] = "none" /\ pending'[w] = NoRows
    BY <1>25 DEF CommitBatchFails, DbCommitFails, DbCommits
  <2> QED
    BY <1>25, <2>1, <2>2 DEF Transaction
<1>26. CASE RollbackBatch(w)
  <2>1. /\ UNCHANGED <<stop, first_error>> /\ pc'[w] \in {"loop", "final", "end_run"} /\ PerBatch
    BY <1>26 DEF RollbackBatch, BatchReturns, WriterCourse
  <2>2. \/ tx'[w] = tx[w] /\ pending'[w] = pending[w]
        \/ tx'[w] = "none" /\ pending'[w] = NoRows
    BY <1>26 DEF RollbackBatch, DbRollbackSent, DbRollsBack
  <2> QED
    BY <1>26, <2>1, <2>2 DEF RollbackBatch, Transaction
<1>27. CASE AccountBatch(w)
  BY <1>27 DEF AccountBatch, BatchReturns, Transaction, RunTransaction, InRun, WrittenBy
<1>28. CASE EndRun(w)
  BY <1>28 DEF EndRun, Transaction, RunTransaction, InRun, WrittenBy
<1>29. CASE CommitRunOk(w)
  <2>1. tx'[w] = "none" /\ pending'[w] = NoRows /\ pc'[w] = "disconnect" /\ PerRun
    BY <1>29 DEF CommitRunOk, DbCommits, WriterCourse
  <2> QED
    BY <1>29, <2>1 DEF CommitRunOk, Transaction, RunTransaction, InRun
<1>30. CASE CommitRunFails(w)
  <2>1. /\ stop' /\ first_error' /\ pc'[w] = "disconnect" /\ PerRun
    BY <1>30 DEF CommitRunFails, RegisterErrorAndStop, WriterCourse
  <2>2. \/ tx'[w] = tx[w] /\ pending'[w] = pending[w]
        \/ tx'[w] = "none" /\ pending'[w] = NoRows
    BY <1>30 DEF CommitRunFails, DbCommitFails, DbCommits
  <2> QED
    BY <1>30, <2>1, <2>2 DEF Transaction, RunTransaction, InRun
<1>31. CASE RollbackRun(w)
  <2>1. /\ stop /\ UNCHANGED <<stop, first_error>> /\ pc'[w] = "disconnect" /\ PerRun
    BY <1>31 DEF RollbackRun, WriterCourse
  <2>2. \/ tx'[w] = tx[w] /\ pending'[w] = pending[w]
        \/ tx'[w] = "none" /\ pending'[w] = NoRows
    BY <1>31 DEF RollbackRun, DbRollbackSent, DbRollsBack
  <2> QED
    BY <1>31, <2>1, <2>2 DEF RollbackRun, Transaction, RunTransaction, InRun
<1>32. CASE Disconnect(w)
  BY <1>32 DEF Disconnect, DbRollsBack, Transaction, RunTransaction, InRun
<1> QED
  BY <1>6, <1>7, <1>8, <1>9, <1>10, <1>11, <1>12, <1>13, <1>14, <1>15, <1>16, <1>17, <1>18,
     <1>19, <1>20, <1>21, <1>22, <1>23, <1>24, <1>25, <1>26, <1>27, <1>28, <1>29, <1>30,
     <1>31, <1>32 DEF WorkerStep

LEMMA TransactionsWorker ==
    ASSUME TypeInv, RowInv, ControlInv, Transactions, NEW w \in Workers, WorkerStep(w)
    PROVE  Transactions'
<1>1. /\ OneTransaction' = OneTransaction /\ Undoable' = Undoable
      /\ PerRun' = PerRun /\ PerBatch' = PerBatch /\ cfg' = cfg
  BY WorkerKeepsMain, ConfigFixed
<1>2. WriterCourses
  BY DEF ControlInv
<1>3. ASSUME NEW v \in Workers, v # w
      PROVE  Transaction(v)' /\ (OneTransaction => RunTransaction(v)')
  <2>1. /\ pc'[v] = pc[v] /\ batch'[v] = batch[v] /\ tx'[v] = tx[v]
        /\ pending'[v] = pending[v]
        /\ (stop => stop') /\ (first_error => first_error')
    BY <1>3, OtherWriter
  <2>2. \A r \in RowIds : WrittenBy(v, r) => WrittenBy(v, r)'
    BY <1>2, <1>3, OthersWritten
  <2>3. batch[v] \subseteq RowIds
    BY DEF TypeInv, TypeOK, WorkerTypes
  <2>4. Transaction(v) /\ (OneTransaction => RunTransaction(v))
    BY DEF Transactions
  <2> QED
    BY <1>1, <2>1, <2>2, <2>3, <2>4 DEF Transaction, RunTransaction
<1>4. Transaction(w)' /\ (OneTransaction => RunTransaction(w)')
  BY TransactionWorker
<1>5. unanswered' \subseteq Landed' /\ (OneTransaction /\ ~Undoable => unanswered' = {})
  BY <1>2, UnansweredLanded
<1> QED
  BY <1>1, <1>3, <1>4, <1>5 DEF Transactions

LEMMA TransactionsInvariant == Spec => []Transactions
<1>1. Init => Transactions
  BY TransactionsInit
<1>2. TypeInv /\ RowInv /\ ControlInv /\ Transactions /\ [Next]_vars => Transactions'
  <2> SUFFICES ASSUME TypeInv, RowInv, ControlInv, Transactions, [Next]_vars PROVE Transactions'
    OBVIOUS
  <2>1. CASE MainStep
    BY <2>1, TransactionsMain
  <2>2. CASE \E w \in Workers : WorkerStep(w)
    BY <2>2, TransactionsWorker
  <2>3. CASE Wakeup \/ UNCHANGED vars
    <3>1. UNCHANGED <<cfg, flagVars, workerVars, dbVars, left_out>>
      BY <2>3 DEF Wakeup, vars, fileVars
    <3>2. /\ OneTransaction' = OneTransaction /\ Undoable' = Undoable
          /\ PerRun' = PerRun /\ PerBatch' = PerBatch
      BY <3>1, ConfigFixed
    <3> QED
      BY <3>1, <3>2 DEF flagVars, workerVars, dbVars, Transactions, Transaction,
         RunTransaction, WrittenBy, Landed
  <2> QED
    BY <2>1, <2>2, <2>3 DEF Next, Ended
<1> QED
  BY <1>1, <1>2, TypeInvariant, RowInvariant, ControlInvariant, PTL DEF Spec

-----------------------------------------------------------------------------
(***************************************************************************)
(* Why no row gets lost while nothing fails: a row that has been pushed is *)
(* in the queue, in a batch, or written by the writer that drops it.       *)
(***************************************************************************)
(* Where a writer is when it is done with the rows of its batch.           *)
Handled == {"commit_batch", "account", "end_run", "commit_run", "rollback_run",
            "disconnect", "done"}

Queued(r) == \E i \in 1 .. Len(queue) : queue[i] = r
Held(r) == \E w \in Workers : r \in batch[w]

NothingLost ==
    ~first_error =>
        /\ \A r \in RowIds : r < Frontier => Queued(r) \/ Held(r) \/ Written(r)
        /\ \A w \in Workers : pc[w] \in Handled => \A r \in batch[w] : WrittenBy(w, r)

LEMMA NothingLostMain ==
    ASSUME TypeInv, RowInv, ControlInv, NothingLost, MainStep PROVE NothingLost'
<1> USE DEF TypeInv, TypeOK, MainTypes, WorkerTypes, DbTypes, NothingLost, Handled, Queued,
    Held, Written, WrittenBy, Frontier,
    mainVars, flagVars, workerVars, dbVars, fileVars, queueVars, mainStepUnchanged
<1>1. CASE SetupFails
  BY <1>1 DEF SetupFails, Throws, Failed
<1>2. CASE CheckTable
  BY <1>2 DEF CheckTable
<1>3. CASE ClearTableFails
  BY <1>3 DEF ClearTableFails, Throws, Failed
<1>4. CASE ClearTable
  BY <1>4 DEF ClearTable
<1>5. CASE UpsertKeyMissing
  BY <1>5 DEF UpsertKeyMissing, Throws, Failed
<1>6. CASE StartWorkers
  <2>1. \A w \in Workers : batch[w] = {}
    BY <1>6 DEF StartWorkers, RowInv, NoBatchYet
  <2> QED
    BY <1>6, <2>1 DEF StartWorkers
<1>7. CASE GenerateRow
  BY <1>7 DEF GenerateRow
<1>8. CASE GeneratorThrows
  BY <1>8 DEF GeneratorThrows, RegisterErrorAndStop
<1>9. CASE ConsumeRow
  BY <1>9 DEF ConsumeRow
<1>10. CASE PushRow
  <2>1. CASE PushDone(Main, next, cfg.queue_size, stop) /\ mainPc' = "count"
    <3>1. /\ queue' = Append(queue, next) /\ queue \in Seq(RowIds) /\ next \in RowIds
          /\ mainPc = "push"
          /\ UNCHANGED <<next, batch, pc, table, pending, left_out, unanswered, first_error>>
      BY <1>10, <2>1, RowsAssumption DEF PushRow, PushDone, NextInRange, QueueTypes, RowIds
    <3>2. ASSUME NEW r \in RowIds, Queued(r) \/ r = next PROVE Queued(r)'
      BY <3>1, <3>2
    <3>3. \A r \in RowIds : r < next + 1 => r < next \/ r = next
      BY RowsAssumption DEF RowIds
    <3> QED
      BY <2>1, <3>1, <3>2, <3>3
  <2>2. CASE UNCHANGED queue /\ mainPc' # "count"
    BY <1>10, <2>2 DEF PushRow
  <2> QED
    BY <1>10, <2>1, <2>2 DEF PushRow, PushRefused, PushWait
<1>11. CASE CountGenerated
  BY <1>11 DEF CountGenerated
<1>12. CASE CloseQueue
  BY <1>12 DEF CloseQueue, Close
<1>13. CASE JoinWorkers
  BY <1>13 DEF JoinWorkers
<1>14. CASE RemoveTempFiles
  BY <1>14 DEF RemoveTempFiles
<1>15. CASE Report
  BY <1>15 DEF Report, Failed, Returned
<1> QED
  BY <1>1, <1>2, <1>3, <1>4, <1>5, <1>6, <1>7, <1>8, <1>9, <1>10, <1>11, <1>12,
     <1>13, <1>14, <1>15 DEF MainStep

(* A step that writes rows, or moves them to the table, loses none.        *)
LEMMA WrittenStays ==
    ASSUME TypeInv, NothingLost, NEW w \in Workers,
           UNCHANGED <<batch, queue, mainPc, next, first_error>>,
           \A v \in Workers \ {w} : pc'[v] = pc[v],
           ~first_error =>
               \A v \in Workers : \A r \in RowIds : WrittenBy(v, r) => WrittenBy(v, r)',
           pc[w] \in Handled \/ \A r \in batch[w] : WrittenBy(w, r)'
    PROVE  NothingLost'
<1>1. batch \in [Workers -> SUBSET RowIds]
  BY DEF TypeInv, TypeOK, WorkerTypes
<1>2. Workers # {}
  OBVIOUS
<1>3. /\ \A r \in RowIds : Written(r) <=> \E v \in Workers : WrittenBy(v, r)
      /\ \A r \in RowIds : Written(r)' <=> \E v \in Workers : WrittenBy(v, r)'
  BY <1>2 DEF Written, WrittenBy
<1>5. ~first_error => \A r \in RowIds : Written(r) => Written(r)'
  BY <1>3
<1>6. Frontier' = Frontier /\ \A r : (Queued(r)' <=> Queued(r)) /\ (Held(r)' <=> Held(r))
  BY DEF Frontier, Queued, Held
<1> QED
  BY <1>1, <1>5, <1>6 DEF NothingLost

LEMMA NothingLostWorker ==
    ASSUME TypeInv, RowInv, ControlInv, Transactions, NothingLost, NEW w \in Workers,
    WorkerStep(w)
    PROVE  NothingLost'
<1> USE DEF TypeInv, TypeOK, MainTypes, WorkerTypes, DbTypes, Copies, NothingLost, Handled,
    Queued, Held, Written, WrittenBy, Frontier,
    mainVars, flagVars, workerVars, dbVars, fileVars, queueVars, workerStepUnchanged, Goto
<1>1. CASE ConnectOk(w)
  BY <1>1 DEF ConnectOk
<1>2. CASE ConnectFails(w)
  BY <1>2 DEF ConnectFails, RegisterErrorAndStop
<1>3. CASE BeginRunOk(w)
  BY <1>3, BeginMovesNothing DEF BeginRunOk, ControlInv
<1>4. CASE BeginRunFails(w)
  BY <1>4 DEF BeginRunFails, RegisterErrorAndStop
<1>5. CASE CheckStop(w)
  BY <1>5 DEF CheckStop
<1>6. CASE PopRow(w)
  <2>1. CASE PopDone(w) /\ batch' = [batch EXCEPT ![w] = @ \union {Head(queue)}]
    <3>1. /\ queue' = Tail(queue) /\ queue \in Seq(RowIds) /\ queue # <<>>
          /\ UNCHANGED <<next, mainPc, table, pending, left_out, unanswered, first_error>>
          /\ pc' = [pc EXCEPT ![w] = pc'[w]] /\ pc'[w] \notin Handled
      BY <1>6, <2>1 DEF PopRow, PopDone, QueueTypes
    <3>2. ASSUME NEW r \in RowIds, Queued(r) PROVE Queued(r)' \/ r \in batch'[w]
      <4>1. PICK i \in 1 .. Len(queue) : queue[i] = r
        BY <3>2
      <4>2. CASE i = 1
        BY <2>1, <3>1, <4>1, <4>2
      <4>3. CASE i # 1
        <5>1. i - 1 \in 1 .. Len(queue') /\ queue'[i - 1] = r
          BY <3>1, <4>1, <4>3
        <5> QED
          BY <5>1
      <4> QED
        BY <4>2, <4>3
    <3>3. \A r \in RowIds : Held(r) => Held(r)'
      BY <2>1
    <3>4. \A v \in Workers : pc'[v] \in Handled => pc[v] = pc'[v] /\ batch'[v] = batch[v]
      BY <2>1, <3>1
    <3> QED
      BY <3>1, <3>2, <3>3, <3>4
  <2>2. CASE UNCHANGED <<queue, batch>> /\ pc' \in {pc, [pc EXCEPT ![w] = "final"]}
    BY <1>6, <2>2 DEF PopRow
  <2> QED
    BY <1>6, <2>1, <2>2 DEF PopRow, PopRefused, PopWait
<1>7. CASE FinalBatch(w)
  BY <1>7, ZenonT(30) DEF FinalBatch, ControlInv, Flags
<1>8. CASE AdaptOk(w)
  BY <1>8 DEF AdaptOk
<1>9. CASE AdaptFails(w)
  BY <1>9 DEF AdaptFails, RegisterErrorAndHandlePolicy, BatchReturns
<1>10. CASE BeginBatchOk(w)
  BY <1>10, BeginMovesNothing DEF BeginBatchOk, ControlInv
<1>11. CASE BeginBatchFails(w)
  BY <1>11 DEF BeginBatchFails, RegisterErrorAndStop, BatchReturns
<1>12. CASE ExecuteOk(w)
  <2>1. /\ UNCHANGED <<batch, queue, mainPc, next, first_error>>
        /\ \A v \in Workers \ {w} : pc'[v] = pc[v]
        /\ \A v \in Workers : \A r \in RowIds : WrittenBy(v, r) => WrittenBy(v, r)'
        /\ \A r \in batch[w] : WrittenBy(w, r)'
    <3>1. left_out' = left_out \union (batch[w] \ batch[w])
      BY <1>12 DEF ExecuteOk
    <3> HIDE DEF WrittenBy
    <3> QED
      BY <1>12, <3>1, WriteKeepsWritten DEF ExecuteOk
  <2> QED
    BY <2>1, WrittenStays
<1>13. CASE ExecuteFails(w)
  BY <1>13 DEF ExecuteFails, RegisterErrorAndHandlePolicy
<1>14. CASE WriteFileOk(w)
  BY <1>14 DEF WriteFileOk
<1>15. CASE WriteFileFails(w)
  BY <1>15 DEF WriteFileFails, RegisterErrorAndStop, BatchFailed, BatchReturns
<1>16. CASE LoadOk(w)
  <2>1. /\ UNCHANGED <<batch, queue, mainPc, next, first_error>>
        /\ \A v \in Workers \ {w} : pc'[v] = pc[v]
        /\ \A v \in Workers : \A r \in RowIds : WrittenBy(v, r) => WrittenBy(v, r)'
        /\ \A r \in batch[w] : WrittenBy(w, r)'
    <3>1. file_rows[w] \in SUBSET batch[w]
      BY <1>16 DEF LoadOk, FilesOfBatches
    <3> HIDE DEF WrittenBy
    <3> QED
      BY <1>16, <3>1, WriteKeepsWritten DEF LoadOk
  <2> QED
    BY <2>1, WrittenStays
<1>17. CASE LoadFallsBack(w)
  BY <1>17 DEF LoadFallsBack
<1>18. CASE LoadFails(w)
  BY <1>18 DEF LoadFails, RegisterErrorAndHandlePolicy
<1>19. CASE CommitBatchOk(w)
  <2>1. tx[w] = "aborted" => first_error
    BY DEF Transactions, Transaction
  <2>2. ~first_error => \A v \in Workers : \A r \in RowIds : WrittenBy(v, r) => WrittenBy(v, r)'
    BY <1>19, <2>1, CommitKeepsWritten DEF CommitBatchOk
  <2>3. /\ UNCHANGED <<batch, queue, mainPc, next, first_error>>
        /\ \A v \in Workers \ {w} : pc'[v] = pc[v]
        /\ pc[w] \in Handled
    BY <1>19 DEF CommitBatchOk
  <2> QED
    BY <2>2, <2>3, WrittenStays
<1>20. CASE CommitBatchFails(w)
  BY <1>20 DEF CommitBatchFails, RegisterErrorAndStop
<1>21. CASE RollbackBatch(w)
  BY <1>21 DEF RollbackBatch, ControlInv, WriterCourses, WriterCourse
<1>22. CASE AccountBatch(w)
  BY <1>22, ZenonT(30) DEF AccountBatch, BatchReturns
<1>23. CASE EndRun(w)
  BY <1>23 DEF EndRun
<1>24. CASE CommitRunOk(w)
  <2>1. tx[w] = "aborted" => first_error
    BY DEF Transactions, Transaction
  <2>2. ~first_error => \A v \in Workers : \A r \in RowIds : WrittenBy(v, r) => WrittenBy(v, r)'
    BY <1>24, <2>1, CommitKeepsWritten DEF CommitRunOk
  <2>3. /\ UNCHANGED <<batch, queue, mainPc, next, first_error>>
        /\ \A v \in Workers \ {w} : pc'[v] = pc[v]
        /\ pc[w] \in Handled
    BY <1>24 DEF CommitRunOk
  <2> QED
    BY <2>2, <2>3, WrittenStays
<1>25. CASE CommitRunFails(w)
  BY <1>25 DEF CommitRunFails, RegisterErrorAndStop
<1>26. CASE RollbackRun(w)
  BY <1>26 DEF RollbackRun, ControlInv, Flags, WriterCourses, WriterCourse
<1>27. CASE Disconnect(w)
  <2>1. ~first_error => pending[w] = NoRows
    BY <1>27 DEF Disconnect, ControlInv, Flags, Transactions, Transaction
  <2> QED
    BY <1>27, <2>1 DEF Disconnect, DbRollsBack
<1> QED
  BY <1>1, <1>2, <1>3, <1>4, <1>5, <1>6, <1>7, <1>8, <1>9, <1>10, <1>11, <1>12,
     <1>13, <1>14, <1>15, <1>16, <1>17, <1>18, <1>19, <1>20, <1>21, <1>22,
     <1>23, <1>24, <1>25, <1>26, <1>27 DEF WorkerStep

LEMMA NothingLostInvariant == Spec => []NothingLost
<1>1. Init => NothingLost
  BY RowsAssumption DEF Init, NothingLost, Frontier, RowIds
<1>2. /\ TypeInv /\ RowInv /\ ControlInv /\ Transactions /\ NothingLost /\ [Next]_vars
      => NothingLost'
  <2> SUFFICES ASSUME TypeInv, RowInv, ControlInv, Transactions, NothingLost, [Next]_vars
               PROVE  NothingLost'
    OBVIOUS
  <2>1. CASE MainStep
    BY <2>1, NothingLostMain
  <2>2. CASE \E w \in Workers : WorkerStep(w)
    BY <2>2, NothingLostWorker
  <2>3. CASE Wakeup \/ UNCHANGED vars
    BY <2>3 DEF Wakeup, SpuriousWakeup, vars, mainVars, flagVars, workerVars, dbVars,
       fileVars, queueVars, NothingLost, Queued, Held, Written, WrittenBy, Frontier
  <2> QED
    BY <2>1, <2>2, <2>3 DEF Next, Ended
<1> QED
  BY <1>1, <1>2, TypeInvariant, RowInvariant, ControlInvariant, TransactionsInvariant, PTL
     DEF Spec

(* Once every row has been generated, nothing has failed and the queue is  *)
(* drained, a writer that is past its batches has written them: no row is  *)
(* left anywhere.                                                          *)
LEMMA AllWritten ==
    ASSUME TypeInv, NothingLost, ~first_error, next = Rows, queue = <<>>,
           \A w \in Workers : pc[w] \in Handled
    PROVE  \A r \in RowIds : Written(r)
<1>1. ASSUME NEW r \in RowIds PROVE Written(r)
  <2>1. r < Frontier
    BY RowsAssumption DEF Frontier, RowIds
  <2>2. ~Queued(r)
    BY DEF Queued
  <2>3. Held(r) => Written(r)
    BY DEF NothingLost, Held, WrittenBy, Written
  <2> QED
    BY <2>1, <2>2, <2>3 DEF NothingLost
<1> QED
  BY <1>1

(* A call that returns has generated every row, and unless an error was    *)
(* logged every one of them is in the table or was left out of its load    *)
(* file.                                                                   *)
THEOREM NormalReturnIsCompleteHolds == Spec => []NormalReturnIsComplete
<1>1. TypeInv /\ ControlInv /\ Transactions /\ NothingLost => NormalReturnIsComplete
  <2> SUFFICES ASSUME TypeInv, ControlInv, Transactions, NothingLost, result.kind = "returned"
               PROVE  /\ rows_generated = Rows
                      /\ ~first_error => RowIds \ Landed \subseteq left_out
    BY DEF NormalReturnIsComplete
  <2>1. ~stop /\ next = Rows /\ rows_generated = Rows /\ mainPc = "end"
    BY DEF ControlInv, Course, TypeInv, TypeOK, MainTypes
  <2>2. \A w \in Workers : pc[w] = "done"
    BY <2>1 DEF ControlInv, Course
  <2>3. queue = <<>>
    <3>1. 0 \in Workers /\ 0 < DbThreads
      BY ThreadsAssumption DEF Workers, DbThreads
    <3> QED
      BY <2>1, <2>2, <3>1
      DEF ControlInv, WriterCourses, WriterCourse, Leaving, Starting, Refused, Drained
  <2>4. \A w \in Workers : \A r \in RowIds : pending[w][r] = 0
    BY <2>2 DEF Transactions, Transaction, NoRows
  <2>5. ~first_error => \A r \in RowIds : Written(r)
    BY <2>1, <2>2, <2>3, AllWritten DEF Handled
  <2>6. \A r \in RowIds : Written(r) => r \in left_out \/ table[r] > 0
    BY <2>4 DEF Written
  <2> QED
    BY <2>1, <2>5, <2>6 DEF Landed
<1> QED
  BY <1>1, TypeInvariant, ControlInvariant, TransactionsInvariant, NothingLostInvariant, PTL

-----------------------------------------------------------------------------
(***************************************************************************)
(* Why the counter tells what is in the table: the rows counted are those  *)
(* that are written and not on their way to be counted.                    *)
(***************************************************************************)
InFlight(r) == \E w \in Workers : r \in batch[w] /\ pc[w] \in {"commit_batch", "account"}
Counted == {r \in RowIds : Written(r) /\ ~InFlight(r)}

(* It is right while the run goes on with its transaction: one that was    *)
(* lost with its connection took counted rows along, and a lossy import    *)
(* counts right until its COMMIT.                                          *)
Uncommitted == \E w \in Workers : pc[w] \notin {"disconnect", "done"}
Broken == OneTransaction /\ \E w \in Workers : tx[w] = "lost"
CountsRight == ~stop /\ ~Undoable /\ ~Broken /\ (Lossy => Uncommitted)
Accounts == CountsRight => rows_imported = Cardinality(Counted)

(* A step that changes neither what is counted nor the counter.            *)
LEMMA SameAccounts ==
    ASSUME Accounts, rows_imported' = rows_imported, CountsRight' => CountsRight,
           CountsRight' =>
               \A r \in RowIds : (Written(r) /\ ~InFlight(r))' <=> (Written(r) /\ ~InFlight(r))
    PROVE  Accounts'
<1>1. CountsRight' => Counted' = Counted
  BY DEF Counted
<1> QED
  BY <1>1 DEF Accounts

LEMMA AccountsMain ==
    ASSUME RowInv, ControlInv, Transactions, Accounts, MainStep PROVE Accounts'
<1>1. UNCHANGED <<cfg, rows_imported, tx, pending, table, unanswered, left_out>>
  BY MainKeepsDatabase
<1>2. CASE StartWorkers
  <2>1. mainPc = "key" /\ next = 0 /\ rows_imported = 0
    BY <1>2 DEF StartWorkers, ControlInv, Beginning, Starting
  <2>2. \A r \in RowIds : Unwritten(r)
    BY <2>1, RowsAssumption DEF RowInv, RowsToCome, Frontier, RowIds
  <2>3. \A r \in RowIds : ~Written(r)'
    BY <1>1, <2>2 DEF Written, Unwritten, Nowhere
  <2>4. Counted' = {}
    BY <2>3 DEF Counted
  <2> QED
    BY <1>1, <2>1, <2>4, FS_EmptySet DEF Accounts
<1>3. CASE MainStep /\ ~StartWorkers
  <2>1. UNCHANGED <<batch, pc>> /\ (stop => stop')
    BY <1>3 DEF MainStep, SetupFails, ClearTableFails, UpsertKeyMissing, Throws, CheckTable,
       ClearTable, GenerateRow, GeneratorThrows, RegisterErrorAndStop, ConsumeRow, PushRow,
       CountGenerated, CloseQueue, JoinWorkers, RemoveTempFiles, Report, mainStepUnchanged,
       flagVars, workerVars
  <2>2. OneTransaction' = OneTransaction /\ Undoable' = Undoable /\ Lossy' = Lossy
    BY <1>1, ConfigFixed
  <2>3. CountsRight' => CountsRight
    BY <1>1, <2>1, <2>2 DEF CountsRight, Broken, Uncommitted
  <2> QED
    BY <1>1, <2>1, <2>3, SameAccounts DEF Written, InFlight
<1> QED
  BY <1>2, <1>3

(* A lost connection ends with its writer only, and only in a run that has *)
(* stopped.                                                                *)
LEMMA CountedRightBefore ==
    ASSUME TypeInv, ControlInv, Transactions, NEW w \in Workers, WorkerStep(w), CountsRight'
    PROVE  CountsRight
<1>1. /\ OneTransaction' = OneTransaction /\ Undoable' = Undoable /\ Lossy' = Lossy
  BY WorkerKeepsMain, ConfigFixed
<1>2. stop => stop'
  BY WriterMoves
<1>3. pc[w] # "done" /\ (pc[w] = "disconnect" => pc'[w] = "done")
  BY WriterMoves
<1>4. \A v \in Workers \ {w} : pc'[v] = pc[v] /\ tx'[v] = tx[v]
  BY OtherWriter
<1>5. Uncommitted' => Uncommitted
  BY <1>3, <1>4 DEF Uncommitted
<1>6. OneTransaction /\ tx[w] = "lost" => tx'[w] = "lost" \/ stop
  <2>1. tx \in [Workers -> {"none", "open", "aborted", "lost"}]
    BY DEF TypeInv, TypeOK, DbTypes
  <2>2. CASE RollsBack(w)
    BY <2>2 DEF RollsBack, Transactions, RunTransaction, ControlInv, WriterCourses,
       WriterCourse, OneTransaction, PerRun, PerBatch
  <2>3. CASE Begins(w)
    BY <2>3 DEF Begins, Transactions, Transaction, ControlInv, WriterCourses, WriterCourse,
       OneTransaction, PerRun, PerBatch
  <2>4. CASE Quiet \/ Writes(w) \/ Refuses(w) \/ AnswerLost(w) \/ Commits(w)
    BY <2>1, <2>4 DEF Quiet, Writes, DbWrites, Refuses, DbRefuses, AnswerLost, DbAnswerLost,
       Commits, DbCommits, dbVars
  <2> QED
    BY <2>2, <2>3, <2>4, DatabaseStep
<1> QED
  BY <1>1, <1>2, <1>4, <1>5, <1>6 DEF CountsRight, Broken

(* The batch that is counted has been written and was in flight.           *)
LEMMA AccountKeepsAccounts ==
    ASSUME TypeInv, RowInv, ControlInv, Transactions, Accounts, NEW w \in Workers,
           AccountBatch(w)
    PROVE  Accounts'
<1>1. /\ batch \in [Workers -> SUBSET RowIds] /\ pc \in [Workers -> WorkerPlaces]
      /\ pc[w] = "account" /\ UNCHANGED <<cfg, stop, table, pending, left_out, unanswered>>
      /\ rows_imported' = rows_imported + Cardinality(batch[w])
      /\ pc' = [pc EXCEPT ![w] = pc'[w]] /\ pc'[w] \in {"loop", "final", "end_run"}
  BY DEF AccountBatch, BatchReturns, Goto, TypeInv, TypeOK, WorkerTypes, workerStepUnchanged,
     flagVars, dbVars, fileVars
<1>2. \A r \in batch[w] : Written(r) /\ InFlight(r)
  BY <1>1 DEF Transactions, Transaction, WrittenBy, Written, InFlight
<1>3. \A r \in RowIds : Written(r)' <=> Written(r)
  BY <1>1 DEF Written
<1>4. \A v \in Workers \ {w} : batch'[v] = batch[v] /\ pc'[v] = pc[v]
  BY <1>1 DEF AccountBatch, BatchReturns
<1>5. \A r \in batch[w] : ~InFlight(r)'
  BY <1>1, <1>4 DEF InFlight, RowInv, BatchesDisjoint
<1>6. \A r \in RowIds \ batch[w] : InFlight(r)' <=> InFlight(r)
  BY <1>1, <1>4 DEF InFlight, AccountBatch, BatchReturns
<1>7. Counted' = Counted \union batch[w] /\ Counted \cap batch[w] = {}
  BY <1>1, <1>2, <1>3, <1>5, <1>6 DEF Counted
<1>8. Cardinality(Counted') = Cardinality(Counted) + Cardinality(batch[w])
  <2>1. Counted \in SUBSET RowIds
    BY DEF Counted
  <2>2. IsFiniteSet(Counted) /\ IsFiniteSet(batch[w])
    BY <1>1, <2>1, RowSetFinite
  <2>3. Cardinality(Counted) \in Nat /\ Cardinality(batch[w]) \in Nat
    BY <1>1, <2>1, RowSetFinite
  <2>4. Cardinality(Counted \union batch[w])
          = Cardinality(Counted) + Cardinality(batch[w]) - Cardinality(Counted \cap batch[w])
    BY <2>2, FS_Union
  <2>5. Cardinality(Counted \cap batch[w]) = 0
    BY <1>7, FS_EmptySet
  <2> QED
    BY <1>7, <2>3, <2>4, <2>5
<1>9. CountsRight' => CountsRight
  BY CountedRightBefore DEF WorkerStep
<1> QED
  BY <1>1, <1>8, <1>9 DEF Accounts

(* The rows a statement writes are in flight until they are counted, and   *)
(* so are those that it should have written.                               *)
LEMMA WriteKeepsAccounts ==
    ASSUME TypeInv, RowInv, Accounts, NEW w \in Workers, NEW rows \in SUBSET batch[w],
           DbWrites(w, rows), left_out' = left_out \union (batch[w] \ rows),
           pc[w] \in {"execute", "load"},
           Goto(w, IF PerBatch THEN "commit_batch" ELSE "account"),
           UNCHANGED <<batch, rows_imported>>, CountsRight' => CountsRight
    PROVE  Accounts'
<1>1. /\ batch \in [Workers -> SUBSET RowIds] /\ pc \in [Workers -> WorkerPlaces]
      /\ pending \in [Workers -> [RowIds -> Nat]] /\ table \in [RowIds -> Nat]
  BY DEF TypeInv, TypeOK, WorkerTypes, DbTypes, Copies
<1>2. \A r \in batch[w] : ~Written(r)
  BY <1>1 DEF RowInv, BatchesToWrite, Spent, Unwritten, Nowhere, Written
<1>3. \A r \in batch[w] : InFlight(r)'
  BY <1>1 DEF InFlight, Goto
<1>4. \A r \in RowIds \ batch[w] : InFlight(r)' <=> InFlight(r)
  BY <1>1 DEF InFlight, Goto
<1>5. \A r \in RowIds \ batch[w] :
          /\ table'[r] = table[r] /\ \A v \in Workers : pending'[v][r] = pending[v][r]
          /\ r \in left_out' <=> r \in left_out
  BY <1>1 DEF DbWrites, WithRows
<1>6. \A r \in RowIds \ batch[w] : Written(r)' <=> Written(r)
  BY <1>5 DEF Written, DbWrites
<1>7. \A r \in RowIds : (Written(r) /\ ~InFlight(r))' <=> (Written(r) /\ ~InFlight(r))
  BY <1>2, <1>3, <1>4, <1>6
<1> QED
  BY <1>7, SameAccounts

(* A statement that fails takes no counted row back, unless it breaks the  *)
(* transaction of the whole run.                                           *)
LEMMA FailureKeepsAccounts ==
    ASSUME TypeInv, RowInv, Transactions, Accounts, NEW w \in Workers,
           pc[w] \in {"execute", "load"},
           DbRefuses(w) \/ \E rows \in SUBSET batch[w] : DbAnswerLost(w, rows),
           RegisterErrorAndHandlePolicy, BatchFailed(w),
           UNCHANGED <<cfg, rows_imported, left_out>>, CountsRight' => CountsRight
    PROVE  Accounts'
<1>1. /\ batch \in [Workers -> SUBSET RowIds] /\ pc \in [Workers -> WorkerPlaces]
      /\ tx \in [Workers -> {"none", "open", "aborted", "lost"}]
      /\ pending \in [Workers -> [RowIds -> Nat]]
  BY DEF TypeInv, TypeOK, WorkerTypes, DbTypes, Copies
<1>2. \A r \in RowIds : InFlight(r)' <=> InFlight(r)
  BY <1>1 DEF InFlight, BatchFailed, BatchReturns, Goto
<1>3. pending[w] = NoRows \/ OneTransaction
  BY <1>1 DEF Transactions, Transaction, OneTransaction
<1>4. CASE DbRefuses(w)
  <2>1. CASE UNCHANGED <<pending, table, unanswered>>
    BY <1>2, <2>1, SameAccounts DEF Written
  <2>2. CASE "undo" \in Faults /\ cfg.db \in {"mysql", "sqlite"} /\ DbRollsBack(w)
    <3>1. CASE pending[w] = NoRows
      <4>1. UNCHANGED <<pending, table, unanswered>>
        BY <1>1, <2>2, <3>1 DEF DbRollsBack
      <4> QED
        BY <2>1, <4>1
    <3>2. CASE OneTransaction
      <4>1. EffectiveErrorPolicy = "continue" => Undoable
        BY <2>2, <3>2 DEF Undoable
      <4>2. EffectiveErrorPolicy # "continue" => stop'
        BY <3>2 DEF RegisterErrorAndHandlePolicy, ShouldContinueAfterError, OneTransaction,
           PerRun, PerBatch
      <4>3. Undoable' = Undoable
        BY ConfigFixed
      <4> QED
        BY <4>1, <4>2, <4>3 DEF Accounts, CountsRight
    <3> QED
      BY <1>3, <3>1, <3>2
  <2> QED
    BY <1>4, <2>1, <2>2 DEF DbRefuses, dbVars
<1>5. ASSUME NEW rows \in SUBSET batch[w], DbAnswerLost(w, rows) PROVE Accounts'
  <2>1. CASE OneTransaction
    <3>1. tx'[w] = "lost" /\ OneTransaction'
      BY <1>1, <1>5, <2>1, ConfigFixed DEF DbAnswerLost
    <3> QED
      BY <3>1 DEF Accounts, CountsRight, Broken
  <2>2. CASE pending[w] = NoRows
    <3>1. \A r \in RowIds : Written(r)' <=> Written(r)
      BY <1>5, <2>2, LostAnswerKeepsWritten
    <3> QED
      BY <1>2, <3>1, SameAccounts
  <2> QED
    BY <1>3, <2>1, <2>2
<1> QED
  BY <1>4, <1>5

LEMMA CommitMovesRows ==
    ASSUME TypeInv, Transactions, NEW w \in Workers, DbCommits(w), tx[w] # "aborted",
           UNCHANGED left_out
    PROVE  \A r \in RowIds : Written(r)' <=> Written(r)
<1>1. /\ pending \in [Workers -> [RowIds -> Nat]] /\ table \in [RowIds -> Nat]
      /\ tx[w] \in {"none", "open"}
  BY DEF TypeInv, TypeOK, DbTypes, Copies, DbCommits
<1>2. /\ \A r \in RowIds : table'[r] = table[r] + pending[w][r]
      /\ \A r \in RowIds : pending'[w][r] = 0
      /\ \A v \in Workers \ {w} : pending'[v] = pending[v]
  BY <1>1 DEF DbCommits, Merged, NoRows, Transactions, Transaction
<1>3. \A r \in RowIds : table[r] \in Nat /\ \A v \in Workers : pending[v][r] \in Nat
  BY <1>1
<1> SUFFICES ASSUME NEW r \in RowIds PROVE Written(r)' <=> Written(r)
  OBVIOUS
<1>4. table'[r] > 0 <=> table[r] > 0 \/ pending[w][r] > 0
  BY <1>2, <1>3
<1>5. \A v \in Workers : pending'[v][r] > 0 <=> v # w /\ pending[v][r] > 0
  BY <1>2
<1> QED
  BY <1>4, <1>5 DEF Written, DbCommits

LEMMA CommitRunKeepsAccounts ==
    ASSUME TypeInv, ControlInv, Transactions, Accounts, NEW w \in Workers, CommitRunOk(w),
           CountsRight' => CountsRight
    PROVE  Accounts'
<1>1. /\ PerRun /\ pc \in [Workers -> WorkerPlaces] /\ cfg' = cfg
      /\ UNCHANGED <<stop, first_error, batch, rows_imported, left_out>>
      /\ pc[w] = "commit_run" /\ pc' = [pc EXCEPT ![w] = "disconnect"] /\ DbCommits(w)
  BY DEF CommitRunOk, Goto, ControlInv, WriterCourses, WriterCourse, TypeInv, TypeOK,
     WorkerTypes, workerStepUnchanged, flagVars, fileVars
<1>2. CASE tx[w] = "aborted" /\ ~stop
  <2>1. Lossy'
    <3>1. Lossy
      BY <1>1, <1>2 DEF Lossy, Transactions, Transaction, ControlInv, Flags,
         ShouldContinueAfterError, PerRun, PerBatch
    <3> QED
      BY <1>1, <3>1, ConfigFixed
  <2>2. \A v \in Workers \ {w} : pc[v] = "done"
    BY <1>1, OneWriter DEF ControlInv
  <2>3. ~Uncommitted'
    BY <1>1, <2>2 DEF Uncommitted
  <2> QED
    BY <2>1, <2>3 DEF Accounts, CountsRight
<1>3. CASE stop
  BY <1>1, <1>3 DEF Accounts, CountsRight
<1>4. CASE tx[w] # "aborted"
  <2>1. \A r \in RowIds : Written(r)' <=> Written(r)
    BY <1>1, <1>4, CommitMovesRows
  <2>2. \A r \in RowIds : InFlight(r)' <=> InFlight(r)
    BY <1>1 DEF InFlight
  <2> QED
    BY <1>1, <2>1, <2>2, SameAccounts
<1> QED
  BY <1>2, <1>3, <1>4

LEMMA AccountsWorker ==
    ASSUME TypeInv, RowInv, ControlInv, Transactions, Accounts, NEW w \in Workers,
           WorkerStep(w)
    PROVE  Accounts'
<1>1. CountsRight' => CountsRight
  BY CountedRightBefore
<1>2. cfg' = cfg
  BY WorkerKeepsMain
<1>3. /\ batch \in [Workers -> SUBSET RowIds] /\ pc \in [Workers -> WorkerPlaces]
      /\ pending \in [Workers -> [RowIds -> Nat]]
  BY DEF TypeInv, TypeOK, WorkerTypes, DbTypes, Copies
<1> USE DEF Goto, dbVars, fileVars
<1>4. CASE ExecuteOk(w)
  <2>1. left_out' = left_out \union (batch[w] \ batch[w])
    BY <1>4 DEF ExecuteOk
  <2> QED
    BY <1>1, <1>4, <2>1, WriteKeepsAccounts DEF ExecuteOk
<1>5. CASE LoadOk(w)
  <2>1. file_rows[w] \in SUBSET batch[w]
    BY <1>5 DEF LoadOk, TypeInv, FilesOfBatches
  <2> QED
    BY <1>1, <1>5, <2>1, WriteKeepsAccounts DEF LoadOk
<1>6. CASE ExecuteFails(w)
  BY <1>1, <1>2, <1>6, FailureKeepsAccounts DEF ExecuteFails
<1>7. CASE LoadFails(w)
  <2>1. file_rows[w] \in SUBSET batch[w]
    BY <1>7 DEF LoadFails, TypeInv, FilesOfBatches
  <2> QED
    BY <1>1, <1>2, <1>7, <2>1, FailureKeepsAccounts DEF LoadFails
<1>8. CASE CommitBatchOk(w)
  <2>1. \A r \in RowIds : Written(r)' <=> Written(r)
    BY <1>8, CommitMovesRows DEF CommitBatchOk, Transactions, Transaction
  <2>2. \A r \in RowIds : InFlight(r)' <=> InFlight(r)
    BY <1>3, <1>8 DEF CommitBatchOk, InFlight
  <2> QED
    BY <1>1, <1>8, <2>1, <2>2, SameAccounts DEF CommitBatchOk
<1>9. CASE CommitRunOk(w)
  BY <1>1, <1>9, CommitRunKeepsAccounts
<1>10. CASE AccountBatch(w)
  BY <1>10, AccountKeepsAccounts
<1>11. CASE \/ ConnectFails(w) \/ BeginRunFails(w) \/ BeginBatchFails(w) \/ WriteFileFails(w)
            \/ CommitBatchFails(w) \/ CommitRunFails(w)
  BY <1>11 DEF ConnectFails, BeginRunFails, BeginBatchFails, WriteFileFails, CommitBatchFails,
     CommitRunFails, RegisterErrorAndStop, Accounts, CountsRight
<1>12. CASE BeginRunOk(w) \/ BeginBatchOk(w)
  <2>1. UNCHANGED <<pending, table, unanswered, left_out, batch, rows_imported>>
    BY <1>12, BeginMovesNothing DEF BeginRunOk, BeginBatchOk, ControlInv
  <2>2. \A r \in RowIds : InFlight(r)' <=> InFlight(r)
    BY <1>3, <1>12 DEF BeginRunOk, BeginBatchOk, InFlight
  <2> QED
    BY <1>1, <2>1, <2>2, SameAccounts DEF Written
<1>13. CASE RollbackBatch(w) \/ RollbackRun(w) \/ Disconnect(w)
  <2>1. ~stop => pending[w] = NoRows
    BY <1>13 DEF RollbackBatch, RollbackRun, Disconnect, Transactions, Transaction, ControlInv,
       WriterCourses, WriterCourse
  <2>2. UNCHANGED <<table, unanswered, left_out, rows_imported, stop>>
    BY <1>13 DEF RollbackBatch, RollbackRun, Disconnect, DbRollbackSent, DbRollsBack, flagVars
  <2>3. ~stop => pending' = pending
    BY <1>3, <1>13, <2>1
    DEF RollbackBatch, RollbackRun, Disconnect, DbRollbackSent, DbRollsBack
  <2>4. \A r \in RowIds : InFlight(r)' <=> InFlight(r)
    BY <1>3, <1>13 DEF RollbackBatch, RollbackRun, Disconnect, BatchReturns, InFlight
  <2>5. CountsRight' => ~stop
    BY <2>2 DEF CountsRight
  <2> QED
    BY <1>1, <2>2, <2>3, <2>4, <2>5, SameAccounts DEF Written
<1>14. CASE \/ ConnectOk(w) \/ CheckStop(w) \/ PopRow(w) \/ FinalBatch(w) \/ AdaptOk(w)
            \/ AdaptFails(w) \/ WriteFileOk(w) \/ LoadFallsBack(w) \/ EndRun(w)
  <2>1. UNCHANGED <<pending, table, unanswered, left_out, rows_imported>>
    BY <1>14 DEF ConnectOk, CheckStop, PopRow, FinalBatch, AdaptOk, AdaptFails, WriteFileOk,
       LoadFallsBack, EndRun
  <2>2. \A r \in RowIds : InFlight(r)' <=> InFlight(r)
    BY <1>3, <1>14 DEF ConnectOk, CheckStop, PopRow, FinalBatch, AdaptOk, AdaptFails,
       BatchReturns, WriteFileOk, LoadFallsBack, EndRun, InFlight
  <2> QED
    BY <1>1, <2>1, <2>2, SameAccounts DEF Written
<1> QED
  BY <1>4, <1>5, <1>6, <1>7, <1>8, <1>9, <1>10, <1>11, <1>12, <1>13, <1>14 DEF WorkerStep

LEMMA AccountsInvariant == Spec => []Accounts
<1>1. Init => Accounts
  <2> SUFFICES ASSUME Init PROVE Accounts
    OBVIOUS
  <2>1. \A r \in RowIds : ~Written(r)
    BY DEF Init, Written, NoRows
  <2>2. Counted = {}
    BY <2>1 DEF Counted
  <2> QED
    BY <2>2, FS_EmptySet DEF Init, Accounts
<1>2. TypeInv /\ RowInv /\ ControlInv /\ Transactions /\ Accounts /\ [Next]_vars => Accounts'
  <2> SUFFICES ASSUME TypeInv, RowInv, ControlInv, Transactions, Accounts, [Next]_vars
               PROVE  Accounts'
    OBVIOUS
  <2>1. CASE MainStep
    BY <2>1, AccountsMain
  <2>2. CASE \E w \in Workers : WorkerStep(w)
    BY <2>2, AccountsWorker
  <2>3. CASE Wakeup \/ UNCHANGED vars
    <3>1. UNCHANGED <<cfg, rows_imported, stop, workerVars, dbVars, left_out>>
      BY <2>3 DEF Wakeup, vars, flagVars, fileVars
    <3>2. OneTransaction' = OneTransaction /\ Undoable' = Undoable /\ Lossy' = Lossy
      BY <3>1, ConfigFixed
    <3> QED
      BY <3>1, <3>2, SameAccounts DEF workerVars, dbVars, CountsRight, Broken, Uncommitted,
         Written, InFlight
  <2> QED
    BY <2>1, <2>2, <2>3 DEF Next, Ended
<1> QED
  BY <1>1, <1>2, TypeInvariant, RowInvariant, ControlInvariant, TransactionsInvariant, PTL
     DEF Spec

(* When the writers are joined and the run has not stopped, the counter    *)
(* tells how many rows are in the table: but for the rows of statements    *)
(* that were not answered, and with those that were left out.              *)
LEMMA CounterTellsTable ==
    ASSUME TypeInv, Transactions, Accounts, ~stop, ~Lossy, \A w \in Workers : pc[w] = "done"
    PROVE  rows_imported = Cardinality((Landed \ unanswered) \union left_out)
<1>1. \A w \in Workers : tx[w] = "none" /\ \A r \in RowIds : pending[w][r] = 0
  BY DEF Transactions, Transaction, NoRows
<1>2. \A r \in RowIds : ~InFlight(r)
  BY DEF InFlight
<1>3. left_out \subseteq RowIds
  BY DEF TypeInv, TypeOK, FileTypes
<1>4. Counted = (Landed \ unanswered) \union left_out
  BY <1>1, <1>2, <1>3 DEF Counted, Landed, Written
<1>5. CountsRight
  BY <1>1 DEF CountsRight, Broken, Lossy
<1> QED
  BY <1>4, <1>5 DEF Accounts

(* What generate returns as rows_written is the number of rows in the      *)
(* table, without those of unanswered statements and with those that were  *)
(* left out of load files: in every call but that of a run in one          *)
(* transaction that carries on after an error took rows of it back.        *)
THEOREM ReportedRowsAreInTableHolds == Spec => [](~Lossy => ReportedRowsAreInTable)
<1>1. TypeInv /\ ControlInv /\ Transactions /\ Accounts => (~Lossy => ReportedRowsAreInTable)
  <2> SUFFICES ASSUME TypeInv, ControlInv, Transactions, Accounts, ~Lossy,
                      result.kind = "returned"
               PROVE  result.rows_written = Cardinality((Landed \ unanswered) \union left_out)
    BY DEF ReportedRowsAreInTable
  <2>1. ~stop /\ result.rows_written = rows_imported /\ mainPc = "end"
    BY DEF ControlInv, Course, TypeInv, TypeOK, MainTypes
  <2>2. \A w \in Workers : pc[w] = "done"
    BY <2>1 DEF ControlInv, Course
  <2> QED
    BY <2>1, <2>2, CounterTellsTable
<1> QED
  BY <1>1, TypeInvariant, ControlInvariant, TransactionsInvariant, AccountsInvariant, PTL

-----------------------------------------------------------------------------
(***************************************************************************)
(* Why a per-run import is atomic: its only writer commits when the run    *)
(* has not stopped, so after the last row and with everything accounted.   *)
(***************************************************************************)
AllOrNothing ==
    OneTransaction /\ ~Undoable /\ Landed # {} =>
        /\ \A w \in Workers : pc[w] \in {"disconnect", "done"}
        /\ mainPc \in Closing \union {"end"}
        /\ Cardinality(Landed \union left_out) = rows_imported
        /\ next = Rows
        /\ EffectiveErrorPolicy # "continue" => Landed \union left_out = RowIds

(* The state in which the writer of a per-run import commits.              *)
LEMMA AtCommitRun ==
    ASSUME TypeInv, ControlInv, NEW w \in Workers, pc[w] = "commit_run"
    PROVE  /\ PerRun /\ ~stop /\ queue = <<>> /\ mainPc = "join" /\ next = Rows
           /\ \A v \in Workers \ {w} : pc[v] = "done"
<1> USE DEF ControlInv
<1>1. PerRun /\ ~stop /\ w < DbThreads
  BY DEF WriterCourses, WriterCourse
<1>2. mainPc \notin Starting /\ ~Refused /\ mainPc \notin {"cleanup", "report", "end"}
  BY DEF Beginning, Course
<1>3. Drained
  BY <1>1, <1>2 DEF WriterCourses, WriterCourse, Leaving
<1>4. mainPc = "join"
  BY <1>2, <1>3 DEF Drained, Course, Producing, Starting, TypeInv, TypeOK, MainTypes,
     MainPlaces
<1>5. next = Rows
  BY <1>1, <1>4 DEF Course, Closing
<1>6. \A v \in Workers \ {w} : pc[v] = "done"
  BY <1>1, OneWriter
<1> QED
  BY <1>1, <1>3, <1>4, <1>5, <1>6 DEF Drained

LEMMA CommitRunKeepsAtomic ==
    ASSUME TypeInv, ControlInv, Transactions, NothingLost, Accounts, AllOrNothing,
           NEW w \in Workers, pc[w] = "commit_run", DbCommits(w), Goto(w, "disconnect"),
           UNCHANGED <<cfg, mainPc, next, rows_imported, left_out>>
    PROVE  AllOrNothing'
<1>1. /\ PerRun /\ ~stop /\ queue = <<>> /\ mainPc = "join" /\ next = Rows
      /\ \A v \in Workers \ {w} : pc[v] = "done"
  BY AtCommitRun
<1>2. /\ pc \in [Workers -> WorkerPlaces]
      /\ tx \in [Workers -> {"none", "open", "aborted", "lost"}]
      /\ pending \in [Workers -> [RowIds -> Nat]] /\ table \in [RowIds -> Nat]
      /\ left_out \subseteq RowIds
  BY DEF TypeInv, TypeOK, WorkerTypes, DbTypes, FileTypes, Copies
<1>3. /\ OneTransaction' = OneTransaction /\ Undoable' = Undoable
      /\ EffectiveErrorPolicy' = EffectiveErrorPolicy
  BY ConfigFixed
<1> SUFFICES ASSUME OneTransaction, ~Undoable, Landed' # {} PROVE AllOrNothing'
  BY <1>3 DEF AllOrNothing
<1>4. Landed = {} /\ unanswered = {}
  BY DEF AllOrNothing, Transactions
<1>5. tx[w] = "open"
  BY <1>2, <1>4 DEF DbCommits, Landed
<1>6. \A r \in RowIds : table[r] = 0 /\ table'[r] = pending[w][r]
  BY <1>2, <1>4, <1>5 DEF DbCommits, Merged, Landed
<1>7. \A v \in Workers \ {w} : tx[v] = "none" /\ \A r \in RowIds : pending[v][r] = 0
  BY <1>1 DEF Transactions, Transaction, NoRows
<1>8. \A r \in RowIds : Written(r) <=> r \in left_out \/ table'[r] > 0
  BY <1>4, <1>6, <1>7 DEF Written
<1>9. \A r : ~InFlight(r)
  BY <1>1 DEF InFlight
<1>10. Counted = Landed' \union left_out
  BY <1>2, <1>8, <1>9 DEF Counted, Landed
<1>11. rows_imported = Cardinality(Landed' \union left_out)
  <2>1. CountsRight
    BY <1>1, <1>5, <1>7 DEF CountsRight, Broken, Uncommitted
  <2> QED
    BY <1>10, <2>1 DEF Accounts
<1>12. EffectiveErrorPolicy # "continue" => Landed' \union left_out = RowIds
  <2>1. EffectiveErrorPolicy # "continue" => ~first_error
    BY <1>1 DEF ControlInv, Flags, ShouldContinueAfterError, PerRun, PerBatch
  <2>2. ~first_error => \A r \in RowIds : Written(r)
    BY <1>1, AllWritten DEF Handled
  <2> QED
    BY <1>2, <1>8, <2>1, <2>2 DEF Landed
<1>13. \A v \in Workers : pc'[v] \in {"disconnect", "done"}
  BY <1>1, <1>2 DEF Goto
<1> QED
  BY <1>1, <1>3, <1>11, <1>12, <1>13 DEF AllOrNothing, Closing

LEMMA AtomicMain ==
    ASSUME TypeInv, ControlInv, AllOrNothing, MainStep PROVE AllOrNothing'
<1>1. UNCHANGED <<cfg, rows_imported, tx, pending, table, unanswered, left_out>>
  BY MainKeepsDatabase
<1>2. /\ OneTransaction' = OneTransaction /\ Undoable' = Undoable
      /\ EffectiveErrorPolicy' = EffectiveErrorPolicy /\ Landed' = Landed
  BY <1>1, ConfigFixed DEF Landed
<1>3. mainPc \in Closing \union {"end"} =>
          UNCHANGED <<pc, next>> /\ mainPc' \in Closing \union {"end"}
  BY DEF Closing, MainStep, SetupFails, ClearTableFails, UpsertKeyMissing, Throws,
     CheckTable, ClearTable, StartWorkers, GenerateRow, GeneratorThrows, ConsumeRow, PushRow,
     CountGenerated, CloseQueue, JoinWorkers, RemoveTempFiles, Report, mainStepUnchanged,
     workerVars
<1> QED
  BY <1>1, <1>2, <1>3 DEF AllOrNothing

(* A step that leaves the table alone.                                     *)
LEMMA TableAlone ==
    ASSUME TypeInv, AllOrNothing, NEW w \in Workers, WorkerStep(w), table' = table
    PROVE  AllOrNothing'
<1>1. UNCHANGED <<cfg, mainPc, next>>
  BY WorkerKeepsMain
<1>2. /\ OneTransaction' = OneTransaction /\ Undoable' = Undoable
      /\ EffectiveErrorPolicy' = EffectiveErrorPolicy /\ Landed' = Landed
  BY <1>1, ConfigFixed DEF Landed
<1>3. pc[w] \in {"disconnect", "done"} =>
          pc'[w] = "done" /\ UNCHANGED <<rows_imported, left_out>>
  BY WriterMoves
<1>4. \A v \in Workers \ {w} : pc'[v] = pc[v]
  BY OtherWriter
<1> QED
  BY <1>1, <1>2, <1>3, <1>4 DEF AllOrNothing

(* While the run is one transaction, nothing but its COMMIT changes the    *)
(* table.                                                                  *)
LEMMA OnlyCommitLands ==
    ASSUME TypeInv, WriterCourses, Transactions, NEW w \in Workers, WorkerStep(w),
           OneTransaction, ~Undoable, table' # table
    PROVE  Commits(w) /\ pc[w] = "commit_run"
<1>1. pc[w] \in {"execute", "load"} => tx[w] # "none"
  BY DEF Transactions, RunTransaction, InRun
<1>2. pc[w] # "commit_batch"
  BY DEF WriterCourses, WriterCourse, OneTransaction, PerRun, PerBatch
<1>3. CASE Begins(w)
  BY <1>3, BeginMovesNothing DEF Begins
<1>4. CASE \/ Quiet \/ Writes(w) \/ Refuses(w) \/ AnswerLost(w) \/ RollsBack(w)
  BY <1>1, <1>4 DEF Quiet, Writes, DbWrites, Refuses, DbRefuses, AnswerLost, DbAnswerLost,
     RollsBack, DbRollsBack, dbVars
<1> QED
  BY <1>2, <1>3, <1>4, DatabaseStep DEF Commits

LEMMA AtomicWorker ==
    ASSUME TypeInv, ControlInv, Transactions, NothingLost, Accounts, AllOrNothing,
           NEW w \in Workers, WorkerStep(w)
    PROVE  AllOrNothing'
<1>1. UNCHANGED <<cfg, mainPc, next>>
  BY WorkerKeepsMain
<1>2. OneTransaction' = OneTransaction /\ Undoable' = Undoable
  BY <1>1, ConfigFixed
<1>3. CASE table' = table
  BY <1>3, TableAlone
<1>4. CASE ~OneTransaction \/ Undoable
  BY <1>2, <1>4 DEF AllOrNothing
<1>5. CASE table' # table /\ OneTransaction /\ ~Undoable
  <2>1. Commits(w) /\ pc[w] = "commit_run"
    BY <1>5, OnlyCommitLands DEF ControlInv
  <2>2. DbCommits(w) /\ UNCHANGED <<left_out, rows_imported>> /\ Goto(w, "disconnect")
    BY <2>1 DEF Commits, WorkerStep, ConnectOk, ConnectFails, BeginRunOk, BeginRunFails,
       CheckStop, PopRow, FinalBatch, AdaptOk, AdaptFails, BeginBatchOk, BeginBatchFails,
       ExecuteOk, ExecuteFails, WriteFileOk, WriteFileFails, LoadOk, LoadFallsBack, LoadFails,
       CommitBatchOk, CommitBatchFails, RollbackBatch, AccountBatch, EndRun, CommitRunOk,
       CommitRunFails, RollbackRun, Disconnect
  <2> QED
    BY <1>1, <2>1, <2>2, CommitRunKeepsAtomic
<1> QED
  BY <1>3, <1>4, <1>5

LEMMA AtomicInvariant == Spec => []AllOrNothing
<1>1. Init => AllOrNothing
  BY DEF Init, AllOrNothing, Landed, NoRows
<1>2. /\ TypeInv /\ ControlInv /\ Transactions /\ NothingLost /\ Accounts
      /\ AllOrNothing /\ [Next]_vars
      => AllOrNothing'
  <2> SUFFICES ASSUME TypeInv, ControlInv, Transactions, NothingLost, Accounts,
                      AllOrNothing, [Next]_vars
               PROVE  AllOrNothing'
    OBVIOUS
  <2>1. CASE MainStep
    BY <2>1, AtomicMain
  <2>2. CASE \E w \in Workers : WorkerStep(w)
    BY <2>2, AtomicWorker
  <2>3. CASE Wakeup \/ UNCHANGED vars
    <3>1. UNCHANGED <<cfg, mainPc, next, pc, rows_imported, table, left_out>>
      BY <2>3 DEF Wakeup, vars, mainVars, workerVars, dbVars, fileVars
    <3>2. /\ OneTransaction' = OneTransaction /\ Undoable' = Undoable
          /\ EffectiveErrorPolicy' = EffectiveErrorPolicy
      BY <3>1, ConfigFixed
    <3> QED
      BY <3>1, <3>2 DEF AllOrNothing, Landed
  <2> QED
    BY <2>1, <2>2, <2>3 DEF Next, Ended
<1> QED
  BY <1>1, <1>2, TypeInvariant, ControlInvariant, TransactionsInvariant, NothingLostInvariant,
     AccountsInvariant, PTL DEF Spec

(* transaction_mode per-run: all the rows that were counted once every row *)
(* was generated, or none; unless the policy is to continue and the server *)
(* ends a transaction by itself.                                           *)
THEOREM PerRunAtomicHolds == Spec => [](~Undoable => PerRunAtomic)
<1>1. ControlInv /\ AllOrNothing => (~Undoable => PerRunAtomic)
  BY DEF ControlInv, Course, AllOrNothing, PerRunAtomic
<1> QED
  BY <1>1, ControlInvariant, AtomicInvariant, PTL

-----------------------------------------------------------------------------
(***************************************************************************)
(* generate implements ImportContract.                                     *)
(***************************************************************************)
ResultRunning == mainPc # "end" => result = Running

LEMMA ResultInvariant == Spec => []ResultRunning
<1>1. Init => ResultRunning
  BY DEF Init, ResultRunning
<1>2. ResultRunning /\ [Next]_vars => ResultRunning'
  <2> SUFFICES ASSUME ResultRunning, [Next]_vars PROVE ResultRunning'
    OBVIOUS
  <2> USE DEF ResultRunning, mainVars
  <2>1. CASE MainStep
    BY <2>1 DEF MainStep, SetupFails, ClearTableFails, UpsertKeyMissing, Throws, CheckTable,
       ClearTable, StartWorkers, GenerateRow, GeneratorThrows, ConsumeRow, PushRow,
       CountGenerated, CloseQueue, JoinWorkers, RemoveTempFiles, Report
  <2>2. CASE \E w \in Workers : WorkerStep(w)
    BY <2>2, WorkerKeepsMain
  <2>3. CASE Wakeup \/ UNCHANGED vars
    BY <2>3 DEF Wakeup, vars
  <2> QED
    BY <2>1, <2>2, <2>3 DEF Next, Ended
<1> QED
  BY <1>1, <1>2, PTL DEF Spec

(* The contract's own name for the size of a set.                          *)
LEMMA SameCardinality == ASSUME NEW S PROVE Contract!Cardinality(S) = Cardinality(S)
BY DEF Cardinality, Contract!Cardinality

(* Rows that reach the table together, none of which is there or counts as *)
(* left out.                                                               *)
Appearing(rows) ==
    /\ rows \subseteq RowIds \ (Landed \union left_out)
    /\ OneTransaction => Landed = {}
    /\ table' \in Copies
    /\ \A r \in RowIds : table'[r] = IF r \in rows THEN 1 ELSE table[r]

LEMMA AppearStep ==
    ASSUME TypeInv, NEW rows \in SUBSET RowIds, Appearing(rows), result = Running,
           UNCHANGED <<cfg, result>>
    PROVE  Contract!Appear(rows)
<1>1. OneTransaction' = OneTransaction
  BY ConfigFixed
<1>2. table' = [r \in RowIds |-> IF r \in rows THEN 1 ELSE table[r]]
  BY DEF Appearing, Copies
<1> QED
  BY <1>1, <1>2
  DEF Appearing, Contract!Appear, Contract!Landed, Contract!Running, Running, Landed

LEMMA LandStep ==
    ASSUME TypeInv, NEW rows \in SUBSET RowIds, NEW missing \in SUBSET RowIds,
           Appearing(rows), result = Running,
           missing \cap (Landed \union rows) = {},
           left_out' = left_out \union missing, unanswered' = unanswered,
           UNCHANGED <<cfg, result>>
    PROVE  [Contract!ContractNext]_(Contract!contractVars)
<1>1. Contract!Appear(rows)
  BY AppearStep
<1>2. Contract!Land(rows, missing)
  BY <1>1 DEF Contract!Land, Contract!Landed, Landed
<1> QED
  BY <1>2 DEF Contract!ContractNext

LEMMA ContractMain ==
    ASSUME TypeInv, ControlInv, Transactions, Accounts, ResultRunning, ~Lossy, MainStep
    PROVE  [Contract!ContractNext]_(Contract!contractVars)
<1>1. UNCHANGED <<cfg, rows_imported, tx, pending, table, unanswered, left_out>>
  BY MainKeepsDatabase
<1>2. OneTransaction' = OneTransaction
  BY <1>1, ConfigFixed
<1>3. CASE SetupFails \/ ClearTableFails \/ UpsertKeyMissing
  <2>1. result = Running /\ result' = Failed
    BY <1>3 DEF SetupFails, ClearTableFails, UpsertKeyMissing, Throws, ResultRunning
  <2>2. Contract!Fail
    BY <1>1, <1>2, <2>1 DEF Contract!Fail, Contract!Running, Contract!Failed, Running, Failed
  <2> QED
    BY <2>2 DEF Contract!ContractNext
<1>4. CASE Report
  <2>1. result = Running
    BY <1>4 DEF Report, ResultRunning
  <2>2. CASE first_error /\ stop
    <3>1. Contract!Fail
      BY <1>1, <1>2, <1>4, <2>1, <2>2
      DEF Report, Contract!Fail, Contract!Running, Contract!Failed, Running, Failed
    <3> QED
      BY <3>1 DEF Contract!ContractNext
  <2>3. CASE ~(first_error /\ stop)
    <3>1. ~stop /\ \A w \in Workers : pc[w] = "done"
      BY <1>4, <2>3 DEF Report, ControlInv, Flags, Course
    <3>2. rows_imported = Cardinality((Landed \ unanswered) \union left_out)
      BY <3>1, CounterTellsTable
    <3>3. result' = Contract!Returned(
              Contract!Cardinality((Contract!Landed \ unanswered) \union left_out))
      BY <1>4, <2>3, <3>2, SameCardinality
      DEF Report, Returned, Contract!Returned, Contract!Landed, Landed
    <3>4. Contract!Return
      BY <1>1, <1>2, <2>1, <3>3 DEF Contract!Return, Contract!Running, Running
    <3> QED
      BY <3>4 DEF Contract!ContractNext
  <2> QED
    BY <2>2, <2>3
<1>5. CASE MainStep /\ ~SetupFails /\ ~ClearTableFails /\ ~UpsertKeyMissing /\ ~Report
  <2>1. result' = result
    BY <1>5 DEF MainStep, CheckTable, ClearTable, StartWorkers, GenerateRow, GeneratorThrows,
       ConsumeRow, PushRow, CountGenerated, CloseQueue, JoinWorkers, RemoveTempFiles
  <2> QED
    BY <1>1, <1>2, <2>1 DEF Contract!contractVars
<1> QED
  BY <1>3, <1>4, <1>5

(* A writer is only at work while the call runs.                           *)
LEMMA WriterWorks ==
    ASSUME ControlInv, ResultRunning, NEW w \in Workers, pc[w] # "done"
    PROVE  result = Running
BY DEF ControlInv, Course, ResultRunning

(* The rows of a statement that commits by itself land with it; those of a *)
(* load file that were left out can be told then.                          *)
LEMMA ContractWrites ==
    ASSUME TypeInv, RowInv, Transactions, AllOrNothing, ~Undoable, result = Running,
           NEW w \in Workers, Writes(w), UNCHANGED <<cfg, result>>
    PROVE  [Contract!ContractNext]_(Contract!contractVars)
<1>1. PICK rows \in SUBSET batch[w] :
          DbWrites(w, rows) /\ left_out' = left_out \union (batch[w] \ rows)
  BY DEF Writes
<1>2. /\ batch[w] \in SUBSET RowIds /\ table \in Copies
      /\ pc[w] \in {"execute", "load"}
  BY DEF TypeInv, TypeOK, WorkerTypes, DbTypes, Writes
<1>3. \A r \in batch[w] : table[r] = 0 /\ r \notin left_out
  BY <1>2 DEF RowInv, BatchesToWrite, Spent, Unwritten, Nowhere
<1>4. OneTransaction => Landed = {}
  BY <1>2 DEF AllOrNothing
<1>5. unanswered' = unanswered
  BY <1>1 DEF DbWrites
<1>6. batch[w] \cap Landed = {}
  BY <1>3 DEF Landed
<1>7. CASE table' = table
  <2>1. Appearing({})
    BY <1>2, <1>4, <1>7 DEF Appearing
  <2>2. /\ batch[w] \ rows \in SUBSET RowIds /\ {} \in SUBSET RowIds
        /\ (batch[w] \ rows) \cap (Landed \union {}) = {}
    BY <1>2, <1>6
  <2> QED
    BY <1>1, <1>5, <2>1, <2>2, LandStep
<1>8. CASE table' = WithRows(table, rows)
  <2>1. table' \in Copies /\ \A r \in RowIds : table'[r] = IF r \in rows THEN 1 ELSE table[r]
    BY <1>2, <1>3, <1>8 DEF WithRows, Copies
  <2>2. Appearing(rows)
    BY <1>2, <1>3, <1>4, <1>6, <2>1 DEF Appearing
  <2>3. /\ rows \in SUBSET RowIds /\ batch[w] \ rows \in SUBSET RowIds
        /\ (batch[w] \ rows) \cap (Landed \union rows) = {}
    BY <1>2, <1>6
  <2> QED
    BY <1>1, <1>5, <2>2, <2>3, LandStep
<1> QED
  BY <1>1, <1>7, <1>8 DEF DbWrites

LEMMA ContractUnanswered ==
    ASSUME TypeInv, RowInv, Transactions, ~Undoable, result = Running,
           NEW w \in Workers, AnswerLost(w), UNCHANGED <<cfg, result>>
    PROVE  [Contract!ContractNext]_(Contract!contractVars)
<1>1. PICK rows \in SUBSET batch[w] : DbAnswerLost(w, rows)
  BY DEF AnswerLost
<1>2. /\ batch[w] \in SUBSET RowIds /\ table \in Copies
      /\ pc[w] \in {"execute", "load"} /\ left_out' = left_out
  BY DEF TypeInv, TypeOK, WorkerTypes, DbTypes, AnswerLost
<1>3. OneTransaction' = OneTransaction
  BY ConfigFixed
<1>4. CASE UNCHANGED <<table, unanswered>>
  BY <1>2, <1>3, <1>4 DEF Contract!contractVars
<1>5. CASE /\ tx[w] = "none" /\ table' = WithRows(table, rows)
           /\ unanswered' = unanswered \union rows
  <2>1. ~OneTransaction
    BY <1>2, <1>5 DEF Transactions, RunTransaction, InRun
  <2>2. \A r \in rows : table[r] = 0 /\ r \notin left_out
    BY <1>2 DEF RowInv, BatchesToWrite, Spent, Unwritten, Nowhere
  <2>3. table' \in Copies /\ \A r \in RowIds : table'[r] = IF r \in rows THEN 1 ELSE table[r]
    BY <1>2, <1>5, <2>2 DEF WithRows, Copies
  <2>4. Appearing(rows)
    BY <1>2, <2>1, <2>2, <2>3 DEF Appearing, Landed
  <2>5. Contract!Appear(rows)
    BY <1>2, <2>4, AppearStep
  <2>6. Contract!LandUnanswered(rows)
    BY <1>2, <1>5, <2>1, <2>5 DEF Contract!LandUnanswered
  <2> QED
    BY <1>2, <2>6 DEF Contract!ContractNext
<1> QED
  BY <1>1, <1>4, <1>5 DEF DbAnswerLost

LEMMA ContractCommits ==
    ASSUME TypeInv, RowInv, ControlInv, AllOrNothing, ~Undoable, result = Running,
           NEW w \in Workers, Commits(w), UNCHANGED <<cfg, result>>
    PROVE  [Contract!ContractNext]_(Contract!contractVars)
<1>1. /\ pending[w] \in [RowIds -> Nat] /\ table \in [RowIds -> Nat]
      /\ DbCommits(w) /\ UNCHANGED <<left_out, unanswered>>
  BY DEF TypeInv, TypeOK, DbTypes, Copies, Commits, DbCommits
<1>2. CASE tx[w] # "open"
  BY <1>1, <1>2, ConfigFixed DEF DbCommits, Contract!contractVars
<1>3. CASE tx[w] = "open"
  <2> DEFINE rows == {r \in RowIds : pending[w][r] > 0}
  <2>1. \A r \in RowIds : pending[w][r] + table[r] <= 1
    BY DEF RowInv, NoRowTwice
  <2>2. \A r \in RowIds : table'[r] = table[r] + pending[w][r]
    BY <1>1, <1>3 DEF DbCommits, Merged
  <2>3. table' \in Copies
    BY <1>1, <1>3 DEF DbCommits, Merged, Copies
  <2>4. \A r \in RowIds : table'[r] = IF r \in rows THEN 1 ELSE table[r]
    <3>1. \A r \in RowIds : pending[w][r] \in Nat /\ table[r] \in Nat
      BY <1>1
    <3> QED
      BY <2>1, <2>2, <3>1
  <2>5. rows \subseteq RowIds \ (Landed \union left_out)
    BY <1>1, <2>1 DEF Landed, RowInv, LeftOutStaysOut, Nowhere
  <2>6. OneTransaction => Landed = {}
    BY DEF AllOrNothing, Commits
  <2>7. Appearing(rows)
    BY <2>3, <2>4, <2>5, <2>6 DEF Appearing
  <2>8. /\ left_out' = left_out \union {} /\ {} \cap (Landed \union rows) = {}
        /\ rows \in SUBSET RowIds /\ {} \in SUBSET RowIds
    BY <1>1
  <2> HIDE DEF rows
  <2> QED
    BY <1>1, <2>7, <2>8, LandStep
<1> QED
  BY <1>2, <1>3

LEMMA ContractWorker ==
    ASSUME TypeInv, RowInv, ControlInv, Transactions, AllOrNothing, ResultRunning, ~Undoable,
           NEW w \in Workers, WorkerStep(w)
    PROVE  [Contract!ContractNext]_(Contract!contractVars)
<1>1. UNCHANGED <<cfg, result>>
  BY WorkerKeepsMain
<1>2. OneTransaction' = OneTransaction
  BY <1>1, ConfigFixed
<1>3. result = Running
  BY WriterMoves, WriterWorks
<1>4. CASE Writes(w)
  BY <1>1, <1>3, <1>4, ContractWrites
<1>5. CASE AnswerLost(w)
  BY <1>1, <1>3, <1>5, ContractUnanswered
<1>6. CASE Commits(w)
  BY <1>1, <1>3, <1>6, ContractCommits
<1>7. CASE Begins(w)
  BY <1>1, <1>2, <1>7, BeginMovesNothing DEF Begins, ControlInv, Contract!contractVars
<1>8. CASE Quiet \/ Refuses(w) \/ RollsBack(w)
  BY <1>1, <1>2, <1>8
  DEF Quiet, Refuses, DbRefuses, RollsBack, DbRollsBack, dbVars, Contract!contractVars
<1> QED
  BY <1>4, <1>5, <1>6, <1>7, <1>8, DatabaseStep

LEMMA LossyFixed == ASSUME [Next]_vars PROVE Lossy' = Lossy
<1>1. cfg' = cfg
  BY MainKeepsDatabase, WorkerKeepsMain DEF Next, Wakeup, Ended, vars
<1> QED
  BY <1>1, ConfigFixed

(* generate keeps the promise of ImportContract: rows land at most once,   *)
(* those of a single transaction together or never, the number it returns  *)
(* is that of the rows in the table but for those that were left out or    *)
(* not answered, and nothing lands after it is back.                       *)
THEOREM ImplementsContractHolds == Spec /\ ~Lossy => ImplementsContract
<1>1. Init => Contract!ContractInit
  BY DEF Init, Contract!ContractInit, OneTransaction, NoRows, Running, Contract!Running
<1>2. /\ TypeInv /\ RowInv /\ ControlInv /\ Transactions /\ Accounts /\ AllOrNothing
      /\ ResultRunning /\ ~Lossy /\ [Next]_vars
      => [Contract!ContractNext]_(Contract!contractVars)
  <2> SUFFICES ASSUME TypeInv, RowInv, ControlInv, Transactions, Accounts, AllOrNothing,
                      ResultRunning, ~Lossy, [Next]_vars
               PROVE  [Contract!ContractNext]_(Contract!contractVars)
    OBVIOUS
  <2>1. CASE MainStep
    BY <2>1, ContractMain
  <2>2. CASE \E w \in Workers : WorkerStep(w)
    BY <2>2, ContractWorker DEF Lossy
  <2>3. CASE Wakeup \/ UNCHANGED vars
    <3>1. UNCHANGED <<cfg, result, table, left_out, unanswered>>
      BY <2>3 DEF Wakeup, vars, mainVars, dbVars, fileVars
    <3> QED
      BY <3>1, ConfigFixed DEF Contract!contractVars
  <2> QED
    BY <2>1, <2>2, <2>3 DEF Next, Ended
<1>3. ~Lossy /\ [Next]_vars => ~Lossy'
  BY LossyFixed
<1> QED
  BY <1>1, <1>2, <1>3, TypeInvariant, RowInvariant, ControlInvariant, TransactionsInvariant,
     AccountsInvariant, AtomicInvariant, ResultInvariant, PTL
  DEF Spec, ImplementsContract, Contract!ContractSpec
=============================================================================
