----------------------- MODULE DatabaseBackendProofs ------------------------
(***************************************************************************)
(* Theorems about DatabaseBackend, for every number of rows and writers,   *)
(* every batch and queue size, every set of configurations and of faults:  *)
(* the types, that no row is written twice, and the course of an import:   *)
(* when the threads stop, what the calling thread knows once it has joined *)
(* the writers, and what is left behind by a call that ends early.         *)
(***************************************************************************)
EXTENDS DatabaseBackend, FiniteSetTheorems, WellFoundedInduction, TLAPS

(* TypeOK is not inductive by itself: that only rows of the run are pushed *)
(* takes the bound on next, and that a load file is named after a row of   *)
(* its batch takes that a batch being written is not empty.  A load file   *)
(* holds no other rows than those of the batch.                            *)
Writing == {"adapt", "begin_batch", "execute", "write_file", "load"}

NextInRange ==
    /\ next <= Rows
    /\ mainPc \in {"consume", "push", "count"} => next < Rows

WrittenBatchNotEmpty == \A w \in Workers : pc[w] \in Writing => batch[w] # {}

FilesOfBatches == \A w \in Workers : pc[w] = "load" => file_rows[w] \subseteq batch[w]

TypeInv == TypeOK /\ NextInRange /\ WrittenBatchNotEmpty /\ FilesOfBatches

-----------------------------------------------------------------------------
(* A set of rows is finite.                                                *)
LEMMA RowSetFinite == ASSUME NEW S \in SUBSET RowIds
                      PROVE  IsFiniteSet(S) /\ Cardinality(S) \in Nat
<1>1. IsFiniteSet(RowIds)
  BY RowsAssumption, FS_Interval DEF RowIds
<1>2. IsFiniteSet(S)
  BY <1>1, FS_Subset
<1> QED
  BY <1>2, FS_CardinalityType

(* A load file is named after a row of its batch.                          *)
LEMMA MinOfRows == ASSUME NEW S \in SUBSET RowIds, S # {}
                   PROVE  Min(S) \in S
<1>1. S \subseteq Nat
  BY RowsAssumption DEF RowIds
<1>2. PICK m \in S : \A y \in S : ~(<<y, m>> \in OpToRel(<, Nat))
  BY <1>1, NatLessThanWellFounded, WFMin
<1>3. \A y \in S : ~(y < m)
  BY <1>1, <1>2, Zenon DEF OpToRel
<1>4. \A y \in S : m <= y
  BY <1>1, <1>3
<1> QED
  BY <1>4 DEF Min

(* notify_one wakes threads, it does not make any wait.                    *)
LEMMA NotifyOneShrinks == ASSUME NEW S, NEW T \in NotifyOne(S) PROVE T \subseteq S
  BY DEF NotifyOne

-----------------------------------------------------------------------------
(* The variables keep their types: TypeOK is an invariant.                 *)
LEMMA TypeInit == ASSUME Init PROVE TypeInv
<1> USE RowsAssumption DEF Init
<1>1. NoRows \in Copies
  BY DEF NoRows, Copies
<1>2. MainTypes /\ FlagTypes /\ FileTypes
  BY DEF MainTypes, FlagTypes, FileTypes, MainPlaces, Running
<1>3. WorkerTypes
  BY DEF WorkerTypes, WorkerPlaces
<1>4. DbTypes
  BY <1>1 DEF DbTypes
<1>5. QueueTypes
  <2>1. <<>> \in Seq(RowIds)
    OBVIOUS
  <2>2. queue = <<>> /\ closed = FALSE /\ canPush = {} /\ canPop = {}
    BY DEF QueueInit
  <2> QED
    BY <2>1, <2>2 DEF QueueTypes
<1>6. NextInRange
  BY DEF NextInRange
<1>7. WrittenBatchNotEmpty /\ FilesOfBatches
  BY DEF WrittenBatchNotEmpty, Writing, FilesOfBatches
<1> QED
  BY <1>2, <1>3, <1>4, <1>5, <1>6, <1>7 DEF TypeInv, TypeOK

LEMMA TypeMain == ASSUME TypeInv, MainStep PROVE TypeInv'
<1> USE RowsAssumption DEF TypeInv, TypeOK, MainTypes, FlagTypes, WorkerTypes, DbTypes, FileTypes,
    QueueTypes, Copies, MainPlaces, WorkerPlaces, NextInRange, WrittenBatchNotEmpty, FilesOfBatches,
    Writing,
    mainVars, flagVars, workerVars, dbVars, fileVars, queueVars, mainStepUnchanged, RowIds
<1>1. CASE SetupFails
  BY <1>1 DEF SetupFails, Throws, Failed
<1>2. CASE CheckTable
  BY <1>2 DEF CheckTable
<1>3. CASE ClearTableFails
  BY <1>3 DEF ClearTableFails, AnswersLost, Throws, Failed
<1>4. CASE ClearTable
  BY <1>4 DEF ClearTable
<1>5. CASE UpsertKeyMissing
  BY <1>5 DEF UpsertKeyMissing, Throws, Failed
<1>6. CASE StartWorkers
  BY <1>6 DEF StartWorkers
<1>7. CASE GenerateRow
  BY <1>7 DEF GenerateRow
<1>8. CASE GeneratorThrows
  BY <1>8 DEF GeneratorThrows, RegisterErrorAndStop
<1>9. CASE ConsumeRow
  BY <1>9 DEF ConsumeRow
<1>10. CASE PushRow
  <2>1. CASE PushDone(Main, next, cfg.queue_size, stop) /\ mainPc' = "count"
    <3>1. next \in RowIds
      BY <1>10 DEF PushRow
    <3>2. queue' \in Seq(RowIds)
      BY <2>1, <3>1 DEF PushDone
    <3>3. canPop' \subseteq Workers
      BY <2>1, NotifyOneShrinks DEF PushDone
    <3> QED
      BY <1>10, <2>1, <3>2, <3>3 DEF PushRow, PushDone
  <2>2. CASE PushRefused(Main, stop) /\ mainPc' = "close"
    BY <1>10, <2>2 DEF PushRow, PushRefused
  <2>3. CASE PushWait(Main, cfg.queue_size, stop) /\ UNCHANGED mainPc
    BY <1>10, <2>3 DEF PushRow, PushWait
  <2> QED
    BY <1>10, <2>1, <2>2, <2>3 DEF PushRow
<1>11. CASE CountGenerated
  BY <1>11, SMTT(30) DEF CountGenerated
<1>12. CASE CloseQueue
  BY <1>12 DEF CloseQueue, Close
<1>13. CASE JoinWorkers
  BY <1>13 DEF JoinWorkers
<1>14. CASE RemoveTempFiles
  BY <1>14 DEF RemoveTempFiles
<1>15. CASE Report
  BY <1>15 DEF Report, Failed, Returned
<1> QED
  BY <1>1, <1>2, <1>3, <1>4, <1>5, <1>6, <1>7, <1>8, <1>9, <1>10, <1>11, <1>12, <1>13, <1>14,
     <1>15 DEF MainStep

(* What each use of the database leaves of its types.                      *)
LEMMA DbWritesTypes ==
    ASSUME DbTypes, NEW w \in Workers, NEW rows \in SUBSET RowIds, DbWrites(w, rows)
    PROVE  DbTypes'
<1>1. \A f \in Copies : WithRows(f, rows) \in Copies
  BY DEF WithRows, Copies
<1>2. pending[w] \in Copies /\ table \in Copies
  BY DEF DbTypes
<1> QED
  BY <1>1, <1>2 DEF DbTypes, DbWrites

LEMMA DbCommitsTypes == ASSUME DbTypes, NEW w \in Workers, DbCommits(w) PROVE DbTypes'
<1>1. NoRows \in Copies /\ Merged(table, pending[w]) \in Copies
  BY DEF NoRows, Merged, Copies, DbTypes
<1> QED
  BY <1>1 DEF DbTypes, DbCommits

LEMMA DbRollsBackTypes == ASSUME DbTypes, NEW w \in Workers, DbRollsBack(w) PROVE DbTypes'
<1>1. NoRows \in Copies
  BY DEF NoRows, Copies
<1> QED
  BY <1>1 DEF DbTypes, DbRollsBack

LEMMA DbBeginsTypes == ASSUME DbTypes, NEW w \in Workers, DbBegins(w) PROVE DbTypes'
<1>1. NoRows \in Copies /\ Merged(table, pending[w]) \in Copies
  BY DEF NoRows, Merged, Copies, DbTypes
<1> QED
  BY <1>1 DEF DbTypes, DbBegins, dbVars

LEMMA DbFailsTypes ==
    ASSUME DbTypes, NEW w \in Workers, NEW rows \in SUBSET RowIds,
           DbRefuses(w) \/ DbAnswerLost(w, rows)
    PROVE  DbTypes'
<1>1. NoRows \in Copies /\ WithRows(table, rows) \in Copies
  BY DEF NoRows, WithRows, Copies, DbTypes
<1>2. CASE DbRefuses(w)
  BY <1>2, DbRollsBackTypes DEF DbTypes, DbRefuses, dbVars
<1>3. CASE DbAnswerLost(w, rows)
  BY <1>1, <1>3 DEF DbTypes, DbAnswerLost
<1> QED
  BY <1>2, <1>3

LEMMA DbRollbackTypes == ASSUME DbTypes, NEW w \in Workers, DbRollbackSent(w) PROVE DbTypes'
BY DbRollsBackTypes DEF DbRollbackSent, DbTypes, dbVars

LEMMA TypeWorker == ASSUME TypeInv, NEW w \in Workers, WorkerStep(w) PROVE TypeInv'
<1> USE RowsAssumption DEF TypeInv, TypeOK, MainTypes, FlagTypes, WorkerTypes, FileTypes,
    QueueTypes, WorkerPlaces, NextInRange, WrittenBatchNotEmpty, FilesOfBatches,
    Writing, Goto,
    mainVars, flagVars, workerVars, dbVars, fileVars, queueVars, workerStepUnchanged
<1>1. CASE ConnectOk(w)
  BY <1>1 DEF ConnectOk, DbTypes
<1>2. CASE ConnectFails(w)
  BY <1>2 DEF ConnectFails, RegisterErrorAndStop, DbTypes
<1>3. CASE BeginRunOk(w)
  <2>1. DbTypes'
    BY <1>3, DbBeginsTypes DEF BeginRunOk
  <2> QED
    BY <1>3, <2>1 DEF BeginRunOk
<1>4. CASE BeginRunFails(w)
  BY <1>4 DEF BeginRunFails, RegisterErrorAndStop, DbTypes
<1>5. CASE CheckStop(w)
  BY <1>5 DEF CheckStop, DbTypes
<1>6. CASE PopRow(w)
  <2>1. CASE PopDone(w) /\ batch' = [batch EXCEPT ![w] = @ \union {Head(queue)}]
    <3>1. Head(queue) \in RowIds /\ queue' \in Seq(RowIds)
      BY <2>1 DEF PopDone
    <3>2. canPush' \subseteq {Main}
      BY <2>1, NotifyOneShrinks DEF PopDone
    <3>3. pc' \in [Workers -> WorkerPlaces]
      BY <1>6 DEF PopRow
    <3>4. batch' \in [Workers -> SUBSET RowIds] /\ batch'[w] # {}
      BY <2>1, <3>1
    <3>5. WrittenBatchNotEmpty'
      BY <1>6, <2>1, <3>4 DEF PopRow
    <3> QED
      BY <1>6, <2>1, <3>1, <3>2, <3>3, <3>4, <3>5 DEF PopRow, PopDone, DbTypes
  <2>2. CASE PopRefused(w, stop) /\ Goto(w, "final") /\ UNCHANGED batch
    BY <1>6, <2>2 DEF PopRow, PopRefused, DbTypes
  <2>3. CASE PopWait(w, stop) /\ UNCHANGED <<pc, batch>>
    BY <1>6, <2>3 DEF PopRow, PopWait, DbTypes
  <2> QED
    BY <1>6, <2>1, <2>2, <2>3 DEF PopRow
<1>7. CASE FinalBatch(w)
  BY <1>7, ZenonT(30) DEF FinalBatch, DbTypes
<1>8. CASE AdaptOk(w)
  BY <1>8 DEF AdaptOk, DbTypes
<1>9. CASE AdaptFails(w)
  BY <1>9, SMTT(30) DEF AdaptFails, RegisterErrorAndHandlePolicy, BatchReturns, DbTypes
<1>10. CASE BeginBatchOk(w)
  <2>1. DbTypes'
    BY <1>10, DbBeginsTypes DEF BeginBatchOk
  <2> QED
    BY <1>10, <2>1 DEF BeginBatchOk
<1>11. CASE BeginBatchFails(w)
  BY <1>11, SMTT(30) DEF BeginBatchFails, RegisterErrorAndStop, BatchReturns, DbTypes
<1>12. CASE ExecuteOk(w)
  <2>1. DbTypes'
    BY <1>12, DbWritesTypes DEF ExecuteOk
  <2> QED
    BY <1>12, <2>1 DEF ExecuteOk
<1>13. CASE ExecuteFails(w)
  <2>1. DbTypes'
    BY <1>13, DbFailsTypes DEF ExecuteFails
  <2>2. FlagTypes'
    BY <1>13 DEF ExecuteFails, RegisterErrorAndHandlePolicy
  <2>3. WorkerTypes'
    BY <1>13 DEF ExecuteFails, BatchFailed, BatchReturns
  <2>4. WrittenBatchNotEmpty' /\ FilesOfBatches'
    BY <1>13, SMTT(30) DEF ExecuteFails, BatchFailed, BatchReturns
  <2>5. cfg' \in Configs /\ rows_imported' \in Nat /\ MainTypes' /\ NextInRange'
    BY <1>13 DEF ExecuteFails
  <2>6. FileTypes' /\ QueueTypes'
    BY <1>13 DEF ExecuteFails
  <2> QED
    BY <2>1, <2>2, <2>3, <2>4, <2>5, <2>6
<1>14. CASE WriteFileOk(w)
  <2>1. Min(batch[w]) \in RowIds
    BY <1>14, MinOfRows DEF WriteFileOk
  <2>2. PICK rows \in FileContents(w) : file_rows' = [file_rows EXCEPT ![w] = rows]
    BY <1>14 DEF WriteFileOk
  <2>3. rows \subseteq batch[w]
    BY DEF FileContents
  <2>4. FileTypes' /\ FilesOfBatches'
    BY <1>14, <2>1, <2>2, <2>3 DEF WriteFileOk, LoadFile
  <2> QED
    BY <1>14, <2>4 DEF WriteFileOk, DbTypes
<1>15. CASE WriteFileFails(w)
  BY <1>15, SMTT(30)
  DEF WriteFileFails, RegisterErrorAndStop, BatchFailed, BatchReturns, DbTypes
<1>16. CASE LoadOk(w)
  <2>1. DbTypes'
    BY <1>16, DbWritesTypes DEF LoadOk
  <2> QED
    BY <1>16, <2>1 DEF LoadOk
<1>17. CASE LoadFallsBack(w)
  BY <1>17 DEF LoadFallsBack, DbTypes
<1>18. CASE LoadFails(w)
  <2>1. DbTypes'
    BY <1>18, DbFailsTypes DEF LoadFails
  <2>2. FlagTypes'
    BY <1>18 DEF LoadFails, RegisterErrorAndHandlePolicy
  <2>3. WorkerTypes'
    BY <1>18 DEF LoadFails, BatchFailed, BatchReturns
  <2>4. WrittenBatchNotEmpty' /\ FilesOfBatches'
    BY <1>18, SMTT(30) DEF LoadFails, BatchFailed, BatchReturns
  <2>5. cfg' \in Configs /\ rows_imported' \in Nat /\ MainTypes' /\ NextInRange'
    BY <1>18 DEF LoadFails
  <2>6. FileTypes' /\ QueueTypes'
    BY <1>18 DEF LoadFails
  <2> QED
    BY <2>1, <2>2, <2>3, <2>4, <2>5, <2>6
<1>19. CASE CommitBatchOk(w)
  <2>1. DbTypes'
    BY <1>19, DbCommitsTypes DEF CommitBatchOk
  <2> QED
    BY <1>19, <2>1 DEF CommitBatchOk
<1>20. CASE CommitBatchFails(w)
  <2>1. DbTypes'
    BY <1>20, DbCommitsTypes DEF CommitBatchFails, DbCommitFails, DbTypes
  <2> QED
    BY <1>20, <2>1 DEF CommitBatchFails, RegisterErrorAndStop, BatchReturns
<1>21. CASE RollbackBatch(w)
  <2>1. DbTypes'
    BY <1>21, DbRollbackTypes DEF RollbackBatch
  <2> QED
    BY <1>21, <2>1, SMTT(30) DEF RollbackBatch, BatchReturns
<1>22. CASE AccountBatch(w)
  <2>1. Cardinality(batch[w]) \in Nat
    BY RowSetFinite
  <2>2. rows_imported' \in Nat
    BY <1>22, <2>1 DEF AccountBatch
  <2>3. WorkerTypes' /\ WrittenBatchNotEmpty' /\ FilesOfBatches'
    BY <1>22 DEF AccountBatch, BatchReturns
  <2> QED
    BY <1>22, <2>2, <2>3 DEF AccountBatch, DbTypes
<1>23. CASE EndRun(w)
  BY <1>23 DEF EndRun, DbTypes
<1>24. CASE CommitRunOk(w)
  <2>1. DbTypes'
    BY <1>24, DbCommitsTypes DEF CommitRunOk
  <2> QED
    BY <1>24, <2>1 DEF CommitRunOk
<1>25. CASE CommitRunFails(w)
  <2>1. DbTypes'
    BY <1>25, DbCommitsTypes DEF CommitRunFails, DbCommitFails, DbTypes
  <2> QED
    BY <1>25, <2>1 DEF CommitRunFails, RegisterErrorAndStop
<1>26. CASE RollbackRun(w)
  <2>1. DbTypes'
    BY <1>26, DbRollbackTypes DEF RollbackRun
  <2> QED
    BY <1>26, <2>1 DEF RollbackRun
<1>27. CASE Disconnect(w)
  <2>1. DbTypes'
    BY <1>27, DbRollsBackTypes DEF Disconnect
  <2> QED
    BY <1>27, <2>1 DEF Disconnect
<1> QED
  BY <1>1, <1>2, <1>3, <1>4, <1>5, <1>6, <1>7, <1>8, <1>9, <1>10, <1>11, <1>12, <1>13, <1>14,
     <1>15, <1>16, <1>17, <1>18, <1>19, <1>20, <1>21, <1>22, <1>23, <1>24, <1>25, <1>26,
     <1>27 DEF WorkerStep

LEMMA TypeNext == ASSUME TypeInv, [Next]_vars PROVE TypeInv'
<1>1. CASE MainStep
  BY <1>1, TypeMain
<1>2. CASE \E w \in Workers : WorkerStep(w)
  BY <1>2, TypeWorker
<1>3. CASE Wakeup
  BY <1>3 DEF Wakeup, SpuriousWakeup, TypeInv, TypeOK, MainTypes, FlagTypes, WorkerTypes,
     DbTypes, FileTypes, QueueTypes, NextInRange, WrittenBatchNotEmpty, FilesOfBatches,
     mainVars, flagVars, workerVars, dbVars, fileVars
<1>4. CASE UNCHANGED vars
  BY <1>4 DEF vars, TypeInv, TypeOK, MainTypes, FlagTypes, WorkerTypes,
     DbTypes, FileTypes, QueueTypes, NextInRange, WrittenBatchNotEmpty, FilesOfBatches,
     mainVars, flagVars, workerVars, dbVars, fileVars, queueVars
<1> QED
  BY <1>1, <1>2, <1>3, <1>4 DEF Next, Ended

(* The types hold throughout, and with them what they rest on.             *)
LEMMA TypeInvariant == Spec => []TypeInv
<1>1. Init => TypeInv
  BY TypeInit
<1>2. TypeInv /\ [Next]_vars => TypeInv'
  BY TypeNext
<1> QED
  BY <1>1, <1>2, PTL DEF Spec

(* TypeOK is an invariant of generate, whatever fails and in whatever      *)
(* order the threads run.                                                  *)
THEOREM TypeCorrect == Spec => []TypeOK
<1>1. TypeInv => TypeOK
  BY DEF TypeInv
<1> QED
  BY <1>1, TypeInvariant, PTL

-----------------------------------------------------------------------------
(***************************************************************************)
(* Why no row reaches the table twice: a row is in one place at a time.    *)
(* It leaves the row loop into the queue, the queue into one batch, and    *)
(* the batch, once written, is dropped before its writer writes again.  A  *)
(* row that a load file did not hold never comes to the table either.      *)
(***************************************************************************)
(* The first row that has not been pushed.                                 *)
Frontier == IF mainPc = "count" THEN next + 1 ELSE next

Nowhere(r) == table[r] = 0 /\ \A w \in Workers : pending[w][r] = 0
Unwritten(r) == Nowhere(r) /\ r \notin left_out
Unheld(r) == \A w \in Workers : r \notin batch[w]

(* Where a writer is done with the rows of its batch.                      *)
Spent == {"commit_batch", "rollback_batch", "account", "end_run", "commit_run",
          "rollback_run", "disconnect", "done"}

RowsToCome == \A r \in RowIds : r >= Frontier => Unwritten(r) /\ Unheld(r)
QueuedRows ==
    \A i \in 1 .. Len(queue) :
        /\ queue[i] < Frontier
        /\ Unwritten(queue[i])
        /\ Unheld(queue[i])
        /\ \A j \in 1 .. Len(queue) : i < j => queue[i] < queue[j]
BatchesDisjoint ==
    \A v, w \in Workers : \A r \in RowIds : r \in batch[v] /\ r \in batch[w] => v = w
BatchesToWrite == \A w \in Workers : pc[w] \notin Spent => \A r \in batch[w] : Unwritten(r)
LeftOutStaysOut == \A r \in left_out : Nowhere(r)
NoBatchYet ==
    mainPc \in {"setup", "clear", "key"} =>
        \A w \in Workers : batch[w] = {} /\ pc[w] = "done"

RowInv ==
    /\ RowsToCome /\ QueuedRows
    /\ BatchesDisjoint /\ BatchesToWrite /\ NoBatchYet
    /\ LeftOutStaysOut /\ NoRowTwice

LEMMA RowInit == ASSUME Init PROVE RowInv
<1>1. NoRowTwice
  BY DEF Init, NoRows, NoRowTwice
<1>2. RowsToCome
  BY DEF Init, NoRows, RowsToCome, Unwritten, Nowhere, Unheld
<1>3. QueuedRows
  <2>1. Len(queue) = 0
    BY DEF Init, QueueInit
  <2> QED
    BY <2>1 DEF QueuedRows
<1>4. BatchesDisjoint /\ BatchesToWrite /\ NoBatchYet /\ LeftOutStaysOut
  BY DEF Init, BatchesDisjoint, BatchesToWrite, NoBatchYet, LeftOutStaysOut
<1> QED
  BY <1>1, <1>2, <1>3, <1>4 DEF RowInv

(* A step of a writer that writes no row and takes none from the queue: it *)
(* keeps or clears its batch and it may roll its transaction back.         *)
WriterKeepsRows(w) ==
    /\ pc[w] # "done"
    /\ UNCHANGED <<queue, mainPc, next, table, left_out>>
    /\ pending' \in {pending, [pending EXCEPT ![w] = NoRows]}
    /\ batch' \in {batch, [batch EXCEPT ![w] = {}]}
    /\ \A v \in Workers \ {w} : pc'[v] = pc[v]
    /\ pc'[w] \in Spent \/ pc[w] \notin Spent \/ batch'[w] = {}

LEMMA KeepsRows ==
    ASSUME TypeInv, RowInv, NEW w \in Workers, WriterKeepsRows(w) PROVE RowInv'
<1> USE DEF WriterKeepsRows, TypeInv, TypeOK, WorkerTypes, DbTypes, Copies, RowInv
<1>1. \A r \in RowIds : Nowhere(r) => Nowhere(r)'
  BY SMTT(30) DEF Nowhere, NoRows
<1>10. \A r \in RowIds : Unwritten(r) => Unwritten(r)'
  BY <1>1 DEF Unwritten
<1>11. LeftOutStaysOut'
  BY <1>1 DEF LeftOutStaysOut, FileTypes
<1>2. \A r : Unheld(r) => Unheld(r)'
  BY DEF Unheld
<1>3. Frontier' = Frontier
  BY DEF Frontier
<1>4. RowsToCome'
  BY <1>10, <1>2, <1>3 DEF RowsToCome
<1>5. QueuedRows'
  <2>1. \A i \in 1 .. Len(queue) : queue[i] \in RowIds
    BY DEF QueueTypes
  <2> QED
    BY <2>1, <1>10, <1>2, <1>3 DEF QueuedRows
<1>6. BatchesDisjoint'
  BY DEF BatchesDisjoint
<1>7. BatchesToWrite'
  <2> SUFFICES ASSUME NEW v \in Workers, pc'[v] \notin Spent, NEW r \in batch'[v]
               PROVE  Unwritten(r)'
    BY DEF BatchesToWrite
  <2>1. r \in batch[v] /\ r \in RowIds /\ pc[v] \notin Spent
    OBVIOUS
  <2> QED
    BY <2>1, <1>10 DEF BatchesToWrite
<1>8. NoBatchYet'
  <2>1. mainPc \notin {"setup", "clear", "key"}
    BY DEF NoBatchYet
  <2> QED
    BY <2>1 DEF NoBatchYet
<1>9. NoRowTwice'
  <2>1. \A v \in Workers : \A r \in RowIds : pending'[v][r] = pending[v][r] \/ pending'[v][r] = 0
    BY DEF NoRows
  <2>2. \A v \in Workers : \A r \in RowIds : pending[v][r] \in Nat /\ table[r] \in Nat
    OBVIOUS
  <2>3. \A r \in RowIds : table'[r] <= 1
    BY DEF NoRowTwice
  <2>4. ASSUME NEW r \in RowIds, NEW v \in Workers PROVE pending'[v][r] + table'[r] <= 1
    <3>1. pending[v][r] + table[r] <= 1 /\ table'[r] = table[r]
      BY DEF NoRowTwice
    <3> QED
      BY <3>1, <2>1, <2>2, SMTT(30)
  <2>5. \A r \in RowIds : \A u \in Workers : \A v \in Workers \ {u} :
            pending'[v][r] + pending'[u][r] <= 1
    BY <2>1, <2>2 DEF NoRowTwice
  <2> QED
    BY <2>3, <2>4, <2>5 DEF NoRowTwice
<1> QED
  BY <1>4, <1>5, <1>6, <1>7, <1>8, <1>9, <1>11

(* The rows of a transaction move to the table when it commits, or MySQL   *)
(* commits it before it begins another.                                    *)
LEMMA CommitKeepsRows ==
    ASSUME TypeInv, RowInv, NEW w \in Workers,
           table' \in {table, Merged(table, pending[w])},
           pending' = [pending EXCEPT ![w] = NoRows],
           pc[w] # "done",
           UNCHANGED <<queue, mainPc, next, left_out>>,
           batch' \in {batch, [batch EXCEPT ![w] = {}]},
           \A v \in Workers \ {w} : pc'[v] = pc[v],
           pc'[w] \in Spent \/ pc[w] \notin Spent \/ batch'[w] = {}
    PROVE  RowInv'
<1> USE DEF TypeInv, TypeOK, WorkerTypes, DbTypes, Copies, RowInv
<1>1. \A r \in RowIds : /\ pending[w][r] \in Nat /\ table[r] \in Nat
                        /\ pending[w][r] + table[r] <= 1
  BY DEF NoRowTwice
<1>2. \A r \in RowIds : table'[r] = table[r] \/ table'[r] = table[r] + pending[w][r]
  BY DEF Merged
<1>3. \A r \in RowIds : \A v \in Workers :
          pending'[v][r] = IF v = w THEN 0 ELSE pending[v][r]
  BY DEF NoRows
<1>12. \A r \in RowIds : Nowhere(r) => Nowhere(r)'
  BY <1>1, <1>2, <1>3 DEF Nowhere
<1>4. (\A r \in RowIds : Unwritten(r) => Unwritten(r)') /\ LeftOutStaysOut'
  BY <1>12 DEF Unwritten, LeftOutStaysOut, FileTypes
<1>5. \A r : Unheld(r) => Unheld(r)'
  BY DEF Unheld
<1>6. Frontier' = Frontier
  BY DEF Frontier
<1>7. RowsToCome'
  BY <1>4, <1>5, <1>6 DEF RowsToCome
<1>8. QueuedRows'
  <2>1. \A i \in 1 .. Len(queue) : queue[i] \in RowIds
    BY DEF QueueTypes
  <2> QED
    BY <2>1, <1>4, <1>5, <1>6 DEF QueuedRows
<1>9. BatchesDisjoint' /\ NoBatchYet'
  <2>1. mainPc \notin {"setup", "clear", "key"}
    BY DEF NoBatchYet
  <2> QED
    BY <2>1 DEF BatchesDisjoint, NoBatchYet
<1>10. BatchesToWrite'
  <2> SUFFICES ASSUME NEW v \in Workers, pc'[v] \notin Spent, NEW r \in batch'[v]
               PROVE  Unwritten(r)'
    BY DEF BatchesToWrite
  <2>1. r \in batch[v] /\ r \in RowIds /\ pc[v] \notin Spent
    OBVIOUS
  <2> QED
    BY <2>1, <1>4 DEF BatchesToWrite
<1>11. NoRowTwice'
  <2> SUFFICES ASSUME NEW r \in RowIds
               PROVE  /\ table'[r] <= 1
                      /\ \A v \in Workers :
                            /\ pending'[v][r] + table'[r] <= 1
                            /\ \A u \in Workers \ {v} : pending'[u][r] + pending'[v][r] <= 1
    BY DEF NoRowTwice
  <2> HIDE DEF TypeInv, TypeOK, WorkerTypes, DbTypes, Copies, RowInv
  <2>1. table'[r] <= 1
    <3>1. /\ pending[w][r] \in Nat /\ table[r] \in Nat
          /\ pending[w][r] + table[r] <= 1
          /\ table'[r] = table[r] \/ table'[r] = table[r] + pending[w][r]
      BY <1>1, <1>2
    <3> QED
      BY <3>1
  <2>2. ASSUME NEW v \in Workers PROVE pending'[v][r] + table'[r] <= 1
    <3>1. CASE v = w
      BY <3>1, <2>1, <1>1, <1>2, <1>3
    <3>2. CASE v # w
      <4>1. /\ pending[v][r] \in Nat
            /\ pending[v][r] + table[r] <= 1
            /\ pending[v][r] + pending[w][r] <= 1
        BY <3>2 DEF NoRowTwice, RowInv, TypeInv, TypeOK, DbTypes, Copies
      <4>2. pending[v][r] + (table[r] + pending[w][r]) <= 1
        BY <4>1, <1>1
      <4> QED
        BY <3>2, <4>1, <4>2, <1>1, <1>2, <1>3
    <3> QED
      BY <3>1, <3>2
  <2>3. ASSUME NEW v \in Workers, NEW u \in Workers \ {v}
        PROVE  pending'[u][r] + pending'[v][r] <= 1
    <3>1. /\ pending[u][r] \in Nat /\ pending[v][r] \in Nat
          /\ pending[u][r] + pending[v][r] <= 1
      BY DEF NoRowTwice, RowInv, TypeInv, TypeOK, DbTypes, Copies
    <3>2. /\ pending'[u][r] = pending[u][r] \/ pending'[u][r] = 0
          /\ pending'[v][r] = pending[v][r] \/ pending'[v][r] = 0
      BY <1>3
    <3> QED
      BY <3>1, <3>2
  <2> QED
    BY <2>1, <2>2, <2>3
<1> QED
  BY <1>4, <1>7, <1>8, <1>9, <1>10, <1>11

(* A statement writes rows of a batch that nobody else has written: in a   *)
(* transaction, or in the table if the connection is in autocommit, where  *)
(* they are even if the connection is lost over it.  A row that the file   *)
(* of the batch did not hold is not written.                               *)
LEMMA WriteKeepsRows ==
    ASSUME TypeInv, RowInv, NEW w \in Workers, NEW rows \in SUBSET batch[w],
           \/ /\ table' = table
              /\ pending' = [pending EXCEPT ![w] = WithRows(@, rows)]
           \/ /\ pending' \in {pending, [pending EXCEPT ![w] = NoRows]}
              /\ table' = WithRows(table, rows),
           left_out' \subseteq left_out \union (batch[w] \ rows),
           UNCHANGED <<queue, mainPc, next>>,
           batch' \in {batch, [batch EXCEPT ![w] = {}]},
           \A v \in Workers \ {w} : pc'[v] = pc[v],
           pc[w] \notin Spent, pc'[w] \in Spent \/ batch'[w] = {}
    PROVE  RowInv'
<1>1. /\ batch \in [Workers -> SUBSET RowIds] /\ pc \in [Workers -> WorkerPlaces]
      /\ pending \in [Workers -> [RowIds -> Nat]] /\ table \in [RowIds -> Nat]
  BY DEF TypeInv, TypeOK, WorkerTypes, DbTypes, Copies
<1>2. \A r \in RowIds : Nowhere(r) => \A v \in Workers : pending'[v][r] = 0 \/ r \in rows
  BY <1>1 DEF WithRows, NoRows, Nowhere
<1>3. \A r \in RowIds \ rows : Nowhere(r) => Nowhere(r)'
  BY <1>1, <1>2 DEF WithRows, Nowhere
<1>4. \A r \in batch[w] : Unwritten(r) /\ r \in RowIds
  BY <1>1 DEF RowInv, BatchesToWrite
<1>5. \A r \in RowIds \ batch[w] : Unwritten(r) => Unwritten(r)'
  BY <1>3 DEF Unwritten
<1>6. \A r : Unheld(r) => Unheld(r)' /\ r \notin batch[w]
  BY <1>1 DEF Unheld
<1>13. LeftOutStaysOut'
  <2> SUFFICES ASSUME NEW r \in left_out' PROVE Nowhere(r)'
    BY DEF LeftOutStaysOut
  <2>1. CASE r \in left_out
    <3>1. Nowhere(r) /\ r \in RowIds /\ r \notin batch[w]
      BY <2>1, <1>4 DEF RowInv, LeftOutStaysOut, TypeInv, TypeOK, FileTypes, Unwritten
    <3> QED
      BY <3>1, <1>3
  <2>2. CASE r \in batch[w] \ rows
    BY <2>2, <1>3, <1>4 DEF Unwritten
  <2> QED
    BY <2>1, <2>2
<1>7. Frontier' = Frontier
  BY DEF Frontier
<1>8. RowsToCome'
  BY <1>5, <1>6, <1>7 DEF RowsToCome, RowInv
<1>9. QueuedRows'
  <2>1. \A i \in 1 .. Len(queue) : queue[i] \in RowIds
    BY DEF TypeInv, TypeOK, QueueTypes
  <2> QED
    BY <2>1, <1>5, <1>6, <1>7 DEF QueuedRows, RowInv
<1>10. BatchesDisjoint' /\ NoBatchYet'
  <2>1. mainPc \notin {"setup", "clear", "key"}
    BY DEF NoBatchYet, RowInv, Spent
  <2> QED
    BY <1>1, <2>1 DEF BatchesDisjoint, NoBatchYet, RowInv
<1>11. BatchesToWrite'
  <2> SUFFICES ASSUME NEW v \in Workers, pc'[v] \notin Spent, NEW r \in batch'[v]
               PROVE  Unwritten(r)'
    BY DEF BatchesToWrite
  <2>1. v # w /\ pc[v] \notin Spent /\ r \in batch[v] /\ r \in RowIds
    BY <1>1
  <2>2. r \notin batch[w]
    BY <2>1 DEF BatchesDisjoint, RowInv
  <2> QED
    BY <2>1, <2>2, <1>5 DEF BatchesToWrite, RowInv
<1>12. NoRowTwice'
  <2> SUFFICES ASSUME NEW r \in RowIds
               PROVE  /\ table'[r] <= 1
                      /\ \A v \in Workers :
                            /\ pending'[v][r] + table'[r] <= 1
                            /\ \A u \in Workers \ {v} : pending'[u][r] + pending'[v][r] <= 1
    BY DEF NoRowTwice
  <2>1. CASE r \notin rows
    <3>1. table'[r] = table[r]
      BY <2>1, <1>1 DEF WithRows
    <3>2. \A v \in Workers : pending'[v][r] = pending[v][r] \/ pending'[v][r] = 0
      BY <2>1, <1>1 DEF WithRows, NoRows
    <3>3. \A v \in Workers : pending[v][r] \in Nat /\ table[r] \in Nat
      BY <1>1
    <3>4. /\ table[r] <= 1
          /\ \A v \in Workers :
                /\ pending[v][r] + table[r] <= 1
                /\ \A u \in Workers \ {v} : pending[u][r] + pending[v][r] <= 1
      BY DEF NoRowTwice, RowInv
    <3> HIDE DEF TypeInv, RowInv, NoRowTwice
    <3>5. ASSUME NEW v \in Workers PROVE pending'[v][r] + table'[r] <= 1
      <4>1. /\ pending[v][r] + table[r] <= 1 /\ pending[v][r] \in Nat /\ table[r] \in Nat
            /\ table'[r] = table[r]
            /\ pending'[v][r] = pending[v][r] \/ pending'[v][r] = 0
        BY <3>1, <3>2, <3>3, <3>4
      <4> QED
        BY <4>1
    <3>6. ASSUME NEW v \in Workers, NEW u \in Workers \ {v}
          PROVE  pending'[u][r] + pending'[v][r] <= 1
      <4>1. /\ pending[u][r] + pending[v][r] <= 1
            /\ pending[u][r] \in Nat /\ pending[v][r] \in Nat
            /\ pending'[v][r] = pending[v][r] \/ pending'[v][r] = 0
            /\ pending'[u][r] = pending[u][r] \/ pending'[u][r] = 0
        BY <3>2, <3>3, <3>4
      <4> QED
        BY <4>1
    <3> QED
      BY <3>1, <3>4, <3>5, <3>6
  <2>2. CASE r \in rows
    <3>1. table[r] = 0 /\ \A v \in Workers : pending[v][r] = 0
      BY <2>2, <1>4 DEF Unwritten, Nowhere
    <3>2. \/ /\ table'[r] = 0
             /\ pending'[w][r] = 1
             /\ \A v \in Workers \ {w} : pending'[v][r] = 0
          \/ /\ table'[r] = 1
             /\ \A v \in Workers : pending'[v][r] = 0
      BY <3>1, <2>2, <1>1 DEF WithRows, NoRows
    <3> QED
      BY <3>2
  <2> QED
    BY <2>1, <2>2
<1> QED
  BY <1>8, <1>9, <1>10, <1>11, <1>12, <1>13 DEF RowInv

(* A row moves from the queue to one batch.                                *)
LEMMA PopKeepsRows ==
    ASSUME TypeInv, RowInv, NEW w \in Workers, PopRow(w) PROVE RowInv'
<1>1. /\ batch \in [Workers -> SUBSET RowIds] /\ pc \in [Workers -> WorkerPlaces]
      /\ queue \in Seq(RowIds)
  BY DEF TypeInv, TypeOK, WorkerTypes, QueueTypes
<1>2. /\ UNCHANGED <<mainPc, next, table, pending, left_out>>
      /\ pc[w] = "pop"
  BY DEF PopRow, workerStepUnchanged, mainVars, dbVars, fileVars
<1>3. CASE UNCHANGED <<queue, batch>> /\ pc' \in {pc, [pc EXCEPT ![w] = "final"]}
  <2>1. WriterKeepsRows(w)
    BY <1>1, <1>2, <1>3 DEF WriterKeepsRows, Spent
  <2> QED
    BY <2>1, KeepsRows
<1>4. CASE /\ PopDone(w)
           /\ batch' = [batch EXCEPT ![w] = @ \union {Head(queue)}]
           /\ pc' = [pc EXCEPT ![w] = pc'[w]]
  <2> DEFINE r0 == Head(queue)
  <2>1. /\ queue # <<>> /\ queue' = Tail(queue)
        /\ r0 = queue[1] /\ r0 \in RowIds /\ 1 \in 1 .. Len(queue)
    BY <1>1, <1>4 DEF PopDone
  <2>2. /\ Len(queue') = Len(queue) - 1
        /\ \A i \in 1 .. Len(queue') : queue'[i] = queue[i + 1] /\ i + 1 \in 1 .. Len(queue)
    BY <1>1, <2>1
  <2>3. r0 < Frontier /\ Unwritten(r0) /\ Unheld(r0)
    BY <2>1 DEF QueuedRows, RowInv
  <2>4. \A r : Unwritten(r)' <=> Unwritten(r)
    BY <1>2 DEF Unwritten, Nowhere
  <2>5. \A r : r # r0 /\ Unheld(r) => \A v \in Workers : r \notin batch'[v]
    BY <1>1, <1>4 DEF Unheld
  <2>6. Frontier' = Frontier
    BY <1>2 DEF Frontier
  <2>7. RowsToCome'
    <3>1. \A r \in RowIds : r >= Frontier => r # r0
      BY <2>1, <2>3, RowsAssumption DEF RowIds, Frontier, TypeInv, TypeOK, MainTypes
    <3> QED
      BY <3>1, <2>4, <2>5, <2>6 DEF RowsToCome, RowInv, Unheld
  <2>8. QueuedRows'
    <3> SUFFICES ASSUME NEW i \in 1 .. Len(queue')
                 PROVE  /\ queue'[i] < Frontier
                        /\ Unwritten(queue'[i])
                        /\ \A v \in Workers : queue'[i] \notin batch'[v]
                        /\ \A j \in 1 .. Len(queue') : i < j => queue'[i] < queue'[j]
      BY <1>2, <2>6 DEF QueuedRows, Unheld, Unwritten, Nowhere
    <3>1. queue'[i] = queue[i + 1] /\ i + 1 \in 1 .. Len(queue) /\ i \in Nat
      BY <2>2
    <3>2. queue[i + 1] < Frontier /\ Unwritten(queue[i + 1]) /\ Unheld(queue[i + 1])
      BY <3>1 DEF QueuedRows, RowInv
    <3>3. queue[1] < queue[i + 1] /\ queue[1] \in Nat
      BY <3>1, <2>1, RowsAssumption DEF QueuedRows, RowInv, RowIds
    <3>4. \A j \in 1 .. Len(queue') : i < j => queue'[i] < queue'[j]
      <4> SUFFICES ASSUME NEW j \in 1 .. Len(queue'), i < j PROVE queue'[i] < queue'[j]
        OBVIOUS
      <4>1. queue'[j] = queue[j + 1] /\ j + 1 \in 1 .. Len(queue) /\ i + 1 < j + 1
        BY <2>2
      <4> QED
        BY <4>1, <3>1 DEF QueuedRows, RowInv
    <3> QED
      BY <3>1, <3>2, <3>3, <3>4, <2>1, <2>5
  <2>9. BatchesDisjoint'
    <3> SUFFICES ASSUME NEW u \in Workers, NEW v \in Workers, NEW r \in RowIds,
                        r \in batch'[u], r \in batch'[v], u # v
                 PROVE  FALSE
      BY DEF BatchesDisjoint
    <3>1. CASE r = r0
      BY <3>1, <1>1, <1>4, <2>3 DEF Unheld
    <3>2. CASE r # r0
      BY <3>2, <1>1, <1>4 DEF BatchesDisjoint, RowInv
    <3> QED
      BY <3>1, <3>2
  <2>10. BatchesToWrite'
    <3> SUFFICES ASSUME NEW v \in Workers, pc'[v] \notin Spent, NEW r \in batch'[v]
                 PROVE  Unwritten(r)
      BY <2>4 DEF BatchesToWrite
    <3>1. CASE r = r0
      BY <3>1, <2>3
    <3>2. CASE r # r0
      <4>1. r \in batch[v] /\ pc[v] \notin Spent
        BY <3>2, <1>1, <1>2, <1>4 DEF Spent
      <4> QED
        BY <4>1 DEF BatchesToWrite, RowInv
    <3> QED
      BY <3>1, <3>2
  <2>11. NoBatchYet'
    <3>1. mainPc \notin {"setup", "clear", "key"}
      BY <1>2 DEF NoBatchYet, RowInv
    <3> QED
      BY <3>1, <1>2 DEF NoBatchYet
  <2>12. NoRowTwice' /\ LeftOutStaysOut'
    BY <1>2 DEF NoRowTwice, LeftOutStaysOut, Nowhere, RowInv
  <2> QED
    BY <2>7, <2>8, <2>9, <2>10, <2>11, <2>12 DEF RowInv
<1> QED
  BY <1>1, <1>3, <1>4 DEF PopRow, Goto, PopRefused, PopWait, queueVars

(* BEGIN, which may commit what is in the way.                             *)
LEMMA BeginKeepsRows ==
    ASSUME TypeInv, RowInv, NEW w \in Workers, DbBegins(w),
           pc[w] # "done", pc[w] \notin Spent,
           UNCHANGED <<queue, mainPc, next, batch, left_out>>,
           \A v \in Workers \ {w} : pc'[v] = pc[v]
    PROVE  RowInv'
<1>1. CASE UNCHANGED <<pending, table>>
  <2>1. WriterKeepsRows(w)
    BY <1>1 DEF WriterKeepsRows
  <2> QED
    BY <2>1, KeepsRows
<1>2. CASE table' = Merged(table, pending[w]) /\ pending' = [pending EXCEPT ![w] = NoRows]
  BY <1>2, CommitKeepsRows
<1> QED
  BY <1>1, <1>2 DEF DbBegins, dbVars

(* A statement that fails writes nothing, or what it wrote is there and    *)
(* nobody knows.                                                           *)
LEMMA FailureKeepsRows ==
    ASSUME TypeInv, RowInv, NEW w \in Workers, NEW rows \in SUBSET batch[w],
           DbRefuses(w) \/ DbAnswerLost(w, rows),
           pc[w] \notin Spent, BatchFailed(w),
           UNCHANGED <<queue, mainPc, next, left_out>>
    PROVE  RowInv'
<1>1. pc \in [Workers -> WorkerPlaces] /\ batch \in [Workers -> SUBSET RowIds]
  BY DEF TypeInv, TypeOK, WorkerTypes
<1>2. /\ batch' \in {batch, [batch EXCEPT ![w] = {}]}
      /\ \A v \in Workers \ {w} : pc'[v] = pc[v]
      /\ pc'[w] \in Spent \/ batch'[w] = {}
  BY <1>1 DEF BatchFailed, BatchReturns, Goto, Spent
<1>3. CASE table' = table /\ pending' \in {pending, [pending EXCEPT ![w] = NoRows]}
  <2>1. WriterKeepsRows(w)
    BY <1>2, <1>3 DEF WriterKeepsRows, Spent
  <2> QED
    BY <2>1, KeepsRows
<1>4. CASE /\ table' = WithRows(table, rows)
           /\ pending' = [pending EXCEPT ![w] = NoRows]
  BY <1>2, <1>4, WriteKeepsRows
<1> QED
  BY <1>3, <1>4 DEF DbRefuses, DbAnswerLost, DbRollsBack, dbVars

LEMMA RowWorker ==
    ASSUME TypeInv, RowInv, NEW w \in Workers, WorkerStep(w) PROVE RowInv'
<1>1. /\ batch \in [Workers -> SUBSET RowIds]
      /\ pc \in [Workers -> WorkerPlaces]
      /\ pending \in [Workers -> Copies]
  BY DEF TypeInv, TypeOK, WorkerTypes, DbTypes
<1> USE DEF Goto, workerStepUnchanged, mainVars, dbVars, fileVars, queueVars, Spent
<1>2. CASE ConnectOk(w)
  <2>1. WriterKeepsRows(w)
    BY <1>1, <1>2 DEF WriterKeepsRows, ConnectOk
  <2> QED
    BY <2>1, KeepsRows
<1>3. CASE ConnectFails(w)
  <2>1. WriterKeepsRows(w)
    BY <1>1, <1>3 DEF WriterKeepsRows, ConnectFails
  <2> QED
    BY <2>1, KeepsRows
<1>4. CASE BeginRunOk(w)
  BY <1>1, <1>4, BeginKeepsRows DEF BeginRunOk
<1>5. CASE BeginRunFails(w)
  <2>1. WriterKeepsRows(w)
    BY <1>1, <1>5 DEF WriterKeepsRows, BeginRunFails
  <2> QED
    BY <2>1, KeepsRows
<1>6. CASE CheckStop(w)
  <2>1. WriterKeepsRows(w)
    BY <1>1, <1>6 DEF WriterKeepsRows, CheckStop
  <2> QED
    BY <2>1, KeepsRows
<1>7. CASE PopRow(w)
  BY <1>7, PopKeepsRows
<1>8. CASE FinalBatch(w)
  <2>1. WriterKeepsRows(w)
    BY <1>1, <1>8 DEF WriterKeepsRows, FinalBatch
  <2> QED
    BY <2>1, KeepsRows
<1>9. CASE AdaptOk(w)
  <2>1. WriterKeepsRows(w)
    BY <1>1, <1>9 DEF WriterKeepsRows, AdaptOk
  <2> QED
    BY <2>1, KeepsRows
<1>10. CASE AdaptFails(w)
  <2>1. WriterKeepsRows(w)
    BY <1>1, <1>10 DEF WriterKeepsRows, AdaptFails, BatchReturns
  <2> QED
    BY <2>1, KeepsRows
<1>11. CASE BeginBatchOk(w)
  BY <1>1, <1>11, BeginKeepsRows DEF BeginBatchOk
<1>12. CASE BeginBatchFails(w)
  <2>1. WriterKeepsRows(w)
    BY <1>1, <1>12 DEF WriterKeepsRows, BeginBatchFails, BatchReturns
  <2> QED
    BY <2>1, KeepsRows
<1>13. CASE ExecuteOk(w)
  BY <1>1, <1>13, WriteKeepsRows DEF ExecuteOk, DbWrites
<1>14. CASE ExecuteFails(w)
  BY <1>1, <1>14, FailureKeepsRows DEF ExecuteFails
<1>15. CASE WriteFileOk(w)
  <2>1. WriterKeepsRows(w)
    BY <1>1, <1>15 DEF WriterKeepsRows, WriteFileOk
  <2> QED
    BY <2>1, KeepsRows
<1>16. CASE WriteFileFails(w)
  <2>1. WriterKeepsRows(w)
    BY <1>1, <1>16 DEF WriterKeepsRows, WriteFileFails, BatchFailed, BatchReturns
  <2> QED
    BY <2>1, KeepsRows
<1>17. CASE LoadOk(w)
  <2>1. file_rows[w] \in SUBSET batch[w]
    BY <1>17 DEF LoadOk, TypeInv, FilesOfBatches
  <2> QED
    BY <1>1, <1>17, <2>1, WriteKeepsRows DEF LoadOk, DbWrites
<1>18. CASE LoadFallsBack(w)
  <2>1. WriterKeepsRows(w)
    BY <1>1, <1>18 DEF WriterKeepsRows, LoadFallsBack
  <2> QED
    BY <2>1, KeepsRows
<1>19. CASE LoadFails(w)
  <2>1. file_rows[w] \in SUBSET batch[w]
    BY <1>19 DEF LoadFails, TypeInv, FilesOfBatches
  <2> QED
    BY <1>1, <1>19, <2>1, FailureKeepsRows DEF LoadFails
<1>20. CASE CommitBatchOk(w)
  BY <1>1, <1>20, CommitKeepsRows DEF CommitBatchOk, DbCommits
<1>21. CASE CommitBatchFails(w)
  <2>1. CASE DbCommits(w)
    BY <1>1, <1>21, <2>1, CommitKeepsRows DEF CommitBatchFails, DbCommits, BatchReturns
  <2>2. CASE UNCHANGED dbVars
    <3>1. WriterKeepsRows(w)
      BY <1>1, <1>21, <2>2 DEF WriterKeepsRows, CommitBatchFails, BatchReturns
    <3> QED
      BY <3>1, KeepsRows
  <2> QED
    BY <1>21, <2>1, <2>2 DEF CommitBatchFails, DbCommitFails
<1>22. CASE RollbackBatch(w)
  <2>1. WriterKeepsRows(w)
    BY <1>1, <1>22 DEF WriterKeepsRows, RollbackBatch, DbRollbackSent, DbRollsBack,
       BatchReturns
  <2> QED
    BY <2>1, KeepsRows
<1>23. CASE AccountBatch(w)
  <2>1. WriterKeepsRows(w)
    BY <1>1, <1>23 DEF WriterKeepsRows, AccountBatch, BatchReturns
  <2> QED
    BY <2>1, KeepsRows
<1>24. CASE EndRun(w)
  <2>1. WriterKeepsRows(w)
    BY <1>1, <1>24 DEF WriterKeepsRows, EndRun
  <2> QED
    BY <2>1, KeepsRows
<1>25. CASE CommitRunOk(w)
  BY <1>1, <1>25, CommitKeepsRows DEF CommitRunOk, DbCommits
<1>26. CASE CommitRunFails(w)
  <2>1. CASE DbCommits(w)
    BY <1>1, <1>26, <2>1, CommitKeepsRows DEF CommitRunFails, DbCommits
  <2>2. CASE UNCHANGED dbVars
    <3>1. WriterKeepsRows(w)
      BY <1>1, <1>26, <2>2 DEF WriterKeepsRows, CommitRunFails
    <3> QED
      BY <3>1, KeepsRows
  <2> QED
    BY <1>26, <2>1, <2>2 DEF CommitRunFails, DbCommitFails
<1>27. CASE RollbackRun(w)
  <2>1. WriterKeepsRows(w)
    BY <1>1, <1>27 DEF WriterKeepsRows, RollbackRun, DbRollbackSent, DbRollsBack
  <2> QED
    BY <2>1, KeepsRows
<1>28. CASE Disconnect(w)
  <2>1. WriterKeepsRows(w)
    BY <1>1, <1>28 DEF WriterKeepsRows, Disconnect, DbRollsBack
  <2> QED
    BY <2>1, KeepsRows
<1> QED
  BY <1>2, <1>3, <1>4, <1>5, <1>6, <1>7, <1>8, <1>9, <1>10, <1>11, <1>12, <1>13, <1>14, <1>15,
     <1>16, <1>17, <1>18, <1>19, <1>20, <1>21, <1>22, <1>23, <1>24, <1>25, <1>26, <1>27,
     <1>28 DEF WorkerStep

(* Only PushRow and StartWorkers touch what RowInv speaks of; the other    *)
(* steps of the calling thread keep the frontier where it is.              *)
LEMMA MainKeepsRows ==
    ASSUME TypeInv, RowInv, UNCHANGED <<queue, batch, pc, table, pending, left_out>>,
           Frontier' = Frontier,
           mainPc' \in {"setup", "clear", "key"} => mainPc \in {"setup", "clear", "key"}
    PROVE  RowInv'
<1>1. \A r : (Unwritten(r) <=> Unwritten(r)') /\ (Unheld(r) <=> Unheld(r)')
  BY DEF Unwritten, Nowhere, Unheld
<1>2. RowsToCome' /\ BatchesToWrite'
  BY <1>1 DEF RowsToCome, BatchesToWrite, RowInv
<1>3. QueuedRows'
  BY <1>1 DEF QueuedRows, RowInv
<1>4. BatchesDisjoint' /\ NoBatchYet' /\ LeftOutStaysOut' /\ NoRowTwice'
  BY DEF BatchesDisjoint, NoBatchYet, LeftOutStaysOut, Nowhere, NoRowTwice, RowInv
<1> QED
  BY <1>2, <1>3, <1>4 DEF RowInv

LEMMA RowMain == ASSUME TypeInv, RowInv, MainStep PROVE RowInv'
<1>1. next \in Nat /\ rows_generated \in Nat /\ mainPc \in MainPlaces
  BY DEF TypeInv, TypeOK, MainTypes
<1> USE DEF mainVars, workerVars, dbVars, fileVars, queueVars, mainStepUnchanged
<1>2. CASE StartWorkers
  <2>1. /\ UNCHANGED <<queue, batch, table, pending, left_out>>
        /\ Frontier' = Frontier
        /\ mainPc = "key" /\ mainPc' = "produce"
    BY <1>2 DEF StartWorkers, Frontier
  <2>2. \A w \in Workers : batch[w] = {}
    BY <2>1 DEF NoBatchYet, RowInv
  <2>3. \A r : (Unwritten(r) <=> Unwritten(r)') /\ (Unheld(r) <=> Unheld(r)')
    BY <2>1 DEF Unwritten, Nowhere, Unheld
  <2>4. RowsToCome' /\ QueuedRows'
    BY <2>1, <2>3 DEF RowsToCome, QueuedRows, RowInv
  <2>5. BatchesDisjoint' /\ BatchesToWrite' /\ NoBatchYet' /\ LeftOutStaysOut' /\ NoRowTwice'
    BY <2>1, <2>2 DEF BatchesDisjoint, BatchesToWrite, NoBatchYet, LeftOutStaysOut, Nowhere,
       NoRowTwice, RowInv
  <2> QED
    BY <2>4, <2>5 DEF RowInv
<1>3. CASE PushRow
  <2>1. CASE PushDone(Main, next, cfg.queue_size, stop) /\ mainPc' = "count"
    <3>1. /\ UNCHANGED <<next, batch, pc, table, pending, left_out>>
          /\ mainPc = "push" /\ queue' = Append(queue, next)
      BY <1>3, <2>1 DEF PushRow, PushDone
    <3>2. Frontier = next /\ Frontier' = next + 1
      BY <2>1, <3>1 DEF Frontier
    <3>3. next \in RowIds /\ queue \in Seq(RowIds)
      BY <1>1, <3>1, RowsAssumption
      DEF TypeInv, TypeOK, QueueTypes, NextInRange, RowIds
    <3>4. /\ Len(queue') = Len(queue) + 1
          /\ \A i \in 1 .. Len(queue) : queue'[i] = queue[i]
          /\ queue'[Len(queue) + 1] = next
          /\ Len(queue) \in Nat
      BY <3>1, <3>3
    <3>5. Unwritten(next) /\ Unheld(next)
      BY <1>1, <3>2, <3>3 DEF RowsToCome, RowInv
    <3>6. \A r : (Unwritten(r) <=> Unwritten(r)') /\ (Unheld(r) <=> Unheld(r)')
      BY <3>1 DEF Unwritten, Nowhere, Unheld
    <3>7. RowsToCome'
      BY <1>1, <3>2, <3>6, RowsAssumption DEF RowsToCome, RowInv, RowIds
    <3>8. \A i \in 1 .. Len(queue) : queue[i] < next /\ queue[i] \in Nat
      BY <3>2, <3>3, RowsAssumption DEF QueuedRows, RowInv, RowIds
    <3>9. QueuedRows'
      <4> SUFFICES ASSUME NEW i \in 1 .. Len(queue')
                   PROVE  /\ queue'[i] < next + 1
                          /\ Unwritten(queue'[i]) /\ Unheld(queue'[i])
                          /\ \A j \in 1 .. Len(queue') : i < j => queue'[i] < queue'[j]
        BY <3>1, <3>2 DEF QueuedRows, Unwritten, Nowhere, Unheld
      <4>1. CASE i = Len(queue) + 1
        BY <4>1, <1>1, <3>4, <3>5
      <4>2. CASE i \in 1 .. Len(queue)
        <5>1. queue'[i] = queue[i] /\ queue[i] < next /\ queue[i] \in Nat
          BY <4>2, <3>4, <3>8
        <5>2. Unwritten(queue[i]) /\ Unheld(queue[i])
          BY <4>2 DEF QueuedRows, RowInv
        <5>3. ASSUME NEW j \in 1 .. Len(queue'), i < j PROVE queue'[i] < queue'[j]
          <6>1. CASE j = Len(queue) + 1
            BY <6>1, <5>1, <3>4
          <6>2. CASE j \in 1 .. Len(queue)
            BY <6>2, <5>3, <4>2, <3>4 DEF QueuedRows, RowInv
          <6> QED
            BY <6>1, <6>2, <3>4
        <5> QED
          BY <1>1, <5>1, <5>2, <5>3
      <4> QED
        BY <4>1, <4>2, <3>4
    <3>10. BatchesDisjoint' /\ BatchesToWrite' /\ NoBatchYet' /\ LeftOutStaysOut' /\ NoRowTwice'
      BY <2>1, <3>1, <3>6
      DEF BatchesDisjoint, BatchesToWrite, NoBatchYet, LeftOutStaysOut, Nowhere, NoRowTwice,
          RowInv
    <3> QED
      BY <3>7, <3>9, <3>10 DEF RowInv
  <2>2. CASE ~(PushDone(Main, next, cfg.queue_size, stop) /\ mainPc' = "count")
    <3>1. /\ UNCHANGED <<queue, batch, pc, table, pending, left_out>>
          /\ Frontier' = Frontier /\ mainPc' \in {"push", "close"}
      BY <1>3, <2>2 DEF PushRow, PushRefused, PushWait, Frontier
    <3> QED
      BY <3>1, MainKeepsRows
  <2> QED
    BY <2>1, <2>2
<1>4. CASE MainStep /\ ~StartWorkers /\ ~PushRow
  <2>1. /\ UNCHANGED <<queue, batch, pc, table, pending, left_out>>
        /\ Frontier' = Frontier
        /\ mainPc' \in {"setup", "clear", "key"} => mainPc \in {"setup", "clear", "key"}
    <3> USE DEF Frontier
    <3>1. CASE SetupFails \/ ClearTableFails \/ UpsertKeyMissing
      BY <3>1 DEF SetupFails, ClearTableFails, UpsertKeyMissing, Throws
    <3>2. CASE CheckTable \/ ClearTable
      BY <3>2 DEF CheckTable, ClearTable
    <3>3. CASE GenerateRow \/ GeneratorThrows \/ ConsumeRow
      BY <3>3 DEF GenerateRow, GeneratorThrows, ConsumeRow
    <3>4. CASE CountGenerated
      BY <3>4, <1>1 DEF CountGenerated
    <3>5. CASE CloseQueue \/ JoinWorkers \/ RemoveTempFiles \/ Report
      BY <3>5 DEF CloseQueue, Close, JoinWorkers, RemoveTempFiles, Report
    <3> QED
      BY <1>4, <3>1, <3>2, <3>3, <3>4, <3>5 DEF MainStep
  <2> QED
    BY <2>1, MainKeepsRows
<1> QED
  BY <1>2, <1>3, <1>4

LEMMA RowNext == ASSUME TypeInv, RowInv, [Next]_vars PROVE RowInv'
<1>1. CASE MainStep
  BY <1>1, RowMain
<1>2. CASE \E w \in Workers : WorkerStep(w)
  BY <1>2, RowWorker
<1>3. CASE Wakeup \/ UNCHANGED vars
  <2>1. /\ UNCHANGED <<queue, batch, pc, table, pending, left_out>>
        /\ Frontier' = Frontier /\ mainPc' = mainPc
    BY <1>3 DEF Wakeup, SpuriousWakeup, vars, mainVars, workerVars, dbVars, fileVars,
       queueVars, Frontier
  <2> QED
    BY <2>1, MainKeepsRows
<1> QED
  BY <1>1, <1>2, <1>3 DEF Next, Ended

(* Throughout the call a row is in one place at a time.                    *)
LEMMA RowInvariant == Spec => []RowInv
<1>1. Init => RowInv
  BY RowInit
<1>2. TypeInv /\ RowInv /\ [Next]_vars => RowInv'
  BY RowNext
<1> QED
  BY <1>1, <1>2, TypeInvariant, PTL DEF Spec

(* No row of the run is in the table twice, whatever fails and in whatever *)
(* order the threads run.                                                  *)
THEOREM NoRowTwiceHolds == Spec => []NoRowTwice
<1>1. RowInv => NoRowTwice
  BY DEF RowInv
<1> QED
  BY <1>1, RowInvariant, PTL

(***************************************************************************)
(* The course of an import.                                                *)
(***************************************************************************)

(* Before the writers start.                                               *)
Starting == {"setup", "clear", "key"}
(* The row loop, and after it the calling thread's way out.                *)
Producing == {"produce", "consume", "push", "count"}
Closing == {"join", "cleanup", "report"}
(* Where a writer comes only when its loop is over.                        *)
Leaving == {"final", "end_run", "commit_run", "rollback_run", "disconnect", "done"}

(* The call has failed before any writer was started.                      *)
Refused == result.kind = "failed" /\ ~first_error
(* No writer will find another row.                                        *)
Drained == closed /\ queue = <<>>

(* stop is set with an error only, and by every error the policy does not  *)
(* carry on after.                                                         *)
Flags ==
    /\ stop => first_error
    /\ rollback_all => stop
    /\ first_error => stop \/ ShouldContinueAfterError

(* Nothing has happened before the writers start.                          *)
Beginning ==
    mainPc \in Starting \/ Refused =>
        /\ \A w \in Workers : pc[w] = "done" /\ ~last[w] /\ batch[w] = {}
        /\ next = 0 /\ rows_imported = 0 /\ ~first_error
        /\ queue = <<>> /\ ~closed
        /\ table = NoRows /\ disk = {}

NotClearedYet ==
    /\ mainPc \in {"setup", "clear"} => old
    /\ mainPc = "key" => old \/ cfg.write_mode = "truncate"
    /\ Refused /\ ~old => cfg.write_mode = "truncate" /\ AnswersLost

(* How far the calling thread is tells what the others have done.          *)
Course ==
    /\ rows_generated = next
    /\ result.kind = "running" <=> mainPc # "end"
    /\ mainPc \in {"cleanup", "report", "end"} => \A w \in Workers : pc[w] = "done"
    /\ mainPc \in Producing \union {"close"} => ~closed
    /\ mainPc \in Closing => closed
    /\ mainPc \in Closing \union {"close"} => stop \/ next = Rows
    /\ result.kind = "returned" =>
          /\ ~stop /\ next = Rows /\ closed
          /\ result.rows_written = rows_imported
    /\ mainPc \in {"report", "end"} => disk = {}

(* A writer leaves its loop because the run has stopped or the queue is    *)
(* drained, and the end of a per-run import follows the stop flag.         *)
WriterCourse(w) ==
    /\ pc[w] # "done" => w < DbThreads
    /\ pc[w] \in {"begin_run", "commit_run", "rollback_run"} => PerRun
    /\ pc[w] \in {"begin_batch", "commit_batch", "rollback_batch"} => PerBatch
    /\ pc[w] = "rollback_batch" => first_error
    /\ pc[w] = "rollback_run" => stop
    /\ pc[w] = "commit_run" => ~stop
    /\ last[w] => stop \/ Drained
    /\ pc[w] \in Leaving /\ w < DbThreads =>
          mainPc \in Starting \/ Refused \/ stop \/ Drained
WriterCourses == \A w \in Workers : WriterCourse(w)

ControlInv == Flags /\ Beginning /\ NotClearedYet /\ Course /\ WriterCourses

-----------------------------------------------------------------------------
(* A per-run import has one writer.                                        *)
LEMMA OneWriter ==
    ASSUME WriterCourses, PerRun, NEW u \in Workers, NEW v \in Workers,
           pc[u] # "done", pc[v] # "done"
    PROVE  u = v
BY ThreadsAssumption DEF WriterCourses, WriterCourse, DbThreads, Workers

LEMMA ControlInit == ASSUME Init PROVE ControlInv
<1> USE DEF Init, QueueInit, Running
<1>1. Flags /\ Beginning /\ NotClearedYet
  BY DEF Flags, Beginning, NotClearedYet
<1>2. Course
  BY DEF Course, Producing, Closing
<1>3. WriterCourses
  BY DEF WriterCourses, WriterCourse, Starting
<1> QED
  BY <1>1, <1>2, <1>3 DEF ControlInv

LEMMA ControlMain == ASSUME TypeInv, ControlInv, MainStep PROVE ControlInv'
<1> USE DEF TypeInv, TypeOK, MainTypes, FlagTypes, WorkerTypes, NextInRange, FileTypes,
    QueueTypes,
    ControlInv, Flags, Beginning, NotClearedYet, Course, WriterCourses, WriterCourse,
    Starting, Producing, Closing, Leaving, Refused, Drained,
    mainVars, flagVars, workerVars, dbVars, fileVars, queueVars,
    ShouldContinueAfterError, EffectiveErrorPolicy, ResolvedMode, SupportsLoadMode,
    PerRun, PerBatch, DbThreads, AnswersLost, Faults, mainStepUnchanged, RowIds, MainPlaces
<1>1. CASE SetupFails
  BY <1>1, RowsAssumption DEF SetupFails, Throws, Failed
<1>2. CASE CheckTable
  BY <1>2, RowsAssumption DEF CheckTable
<1>3. CASE ClearTableFails
  <2>1. Flags' /\ Beginning' /\ Course' /\ WriterCourses'
    BY <1>3, RowsAssumption DEF ClearTableFails, Throws, Failed
  <2>2. /\ old /\ cfg' = cfg /\ mainPc' = "end"
        /\ cfg.write_mode = "truncate" /\ (old' = old \/ AnswersLost)
    BY <1>3 DEF ClearTableFails, Throws
  <2>3. NotClearedYet'
    BY <2>2
  <2> QED
    BY <2>1, <2>3
<1>4. CASE ClearTable
  BY <1>4, RowsAssumption DEF ClearTable
<1>5. CASE UpsertKeyMissing
  BY <1>5, RowsAssumption DEF UpsertKeyMissing, Throws, Failed
<1>6. CASE StartWorkers
  BY <1>6, ThreadsAssumption DEF StartWorkers, Workers
<1>7. CASE GenerateRow
  BY <1>7, RowsAssumption DEF GenerateRow
<1>8. CASE GeneratorThrows
  BY <1>8, RowsAssumption DEF GeneratorThrows, RegisterErrorAndStop
<1>9. CASE ConsumeRow
  BY <1>9, RowsAssumption DEF ConsumeRow
<1>10. CASE PushRow
  BY <1>10, RowsAssumption DEF PushRow, PushDone, PushRefused, PushWait
<1>11. CASE CountGenerated
  BY <1>11, RowsAssumption DEF CountGenerated
<1>12. CASE CloseQueue
  BY <1>12, RowsAssumption DEF CloseQueue, Close
<1>13. CASE JoinWorkers
  BY <1>13, RowsAssumption DEF JoinWorkers
<1>14. CASE RemoveTempFiles
  BY <1>14, RowsAssumption DEF RemoveTempFiles
<1>15. CASE Report
  BY <1>15, RowsAssumption DEF Report, Failed, Returned
<1> QED
  BY <1>1, <1>2, <1>3, <1>4, <1>5, <1>6, <1>7, <1>8, <1>9, <1>10, <1>11, <1>12,
     <1>13, <1>14, <1>15 DEF MainStep

LEMMA ControlWorker ==
    ASSUME TypeInv, ControlInv, NEW w \in Workers, WorkerStep(w) PROVE ControlInv'
<1> USE DEF TypeInv, TypeOK, MainTypes, FlagTypes, WorkerTypes, NextInRange, FileTypes,
    QueueTypes,
    ControlInv, Flags, Beginning, NotClearedYet, Course, WriterCourses, WriterCourse,
    Starting, Producing, Closing, Leaving, Refused, Drained,
    mainVars, flagVars, workerVars, dbVars, fileVars, queueVars,
    ShouldContinueAfterError, EffectiveErrorPolicy, ResolvedMode, SupportsLoadMode,
    PerRun, PerBatch, DbThreads, AnswersLost, Faults, workerStepUnchanged, Goto
<1>1. CASE ConnectOk(w)
  BY <1>1 DEF ConnectOk
<1>2. CASE ConnectFails(w)
  BY <1>2, SMTT(30) DEF ConnectFails, RegisterErrorAndStop
<1>3. CASE BeginRunOk(w)
  BY <1>3 DEF BeginRunOk, DbBegins
<1>4. CASE BeginRunFails(w)
  <2>1. Flags' /\ Beginning' /\ NotClearedYet' /\ Course'
    BY <1>4 DEF BeginRunFails, RegisterErrorAndStop
  <2>2. ASSUME NEW v \in Workers PROVE WriterCourse(v)'
    BY <1>4, <2>1, OneWriter DEF BeginRunFails, RegisterErrorAndStop
  <2> QED
    BY <2>1, <2>2
<1>5. CASE CheckStop(w)
  BY <1>5 DEF CheckStop
<1>6. CASE PopRow(w)
  BY <1>6 DEF PopRow, PopDone, PopRefused, PopWait
<1>7. CASE FinalBatch(w)
  BY <1>7 DEF FinalBatch
<1>8. CASE AdaptOk(w)
  BY <1>8 DEF AdaptOk
<1>9. CASE AdaptFails(w)
  <2>1. Flags' /\ Beginning' /\ NotClearedYet' /\ Course'
    BY <1>9 DEF AdaptFails, RegisterErrorAndHandlePolicy, BatchReturns
  <2>2. ASSUME NEW v \in Workers PROVE WriterCourse(v)'
    BY <1>9, <2>1, OneWriter DEF AdaptFails, RegisterErrorAndHandlePolicy, BatchReturns
  <2> QED
    BY <2>1, <2>2
<1>10. CASE BeginBatchOk(w)
  BY <1>10 DEF BeginBatchOk, DbBegins
<1>11. CASE BeginBatchFails(w)
  BY <1>11 DEF BeginBatchFails, RegisterErrorAndStop, BatchReturns
<1>12. CASE ExecuteOk(w)
  BY <1>12 DEF ExecuteOk, DbWrites
<1>13. CASE ExecuteFails(w)
  <2>1. Flags' /\ Beginning' /\ NotClearedYet' /\ Course'
    BY <1>13 DEF ExecuteFails, DbRefuses, DbAnswerLost, DbRollsBack,
       RegisterErrorAndHandlePolicy, BatchFailed, BatchReturns
  <2>2. ASSUME NEW v \in Workers PROVE WriterCourse(v)'
    BY <1>13, <2>1, OneWriter DEF ExecuteFails, DbRefuses, DbAnswerLost, DbRollsBack,
       RegisterErrorAndHandlePolicy, BatchFailed, BatchReturns
  <2> QED
    BY <2>1, <2>2
<1>14. CASE WriteFileOk(w)
  BY <1>14 DEF WriteFileOk
<1>15. CASE WriteFileFails(w)
  BY <1>15, SMTT(30) DEF WriteFileFails, RegisterErrorAndStop, BatchFailed, BatchReturns
<1>16. CASE LoadOk(w)
  BY <1>16 DEF LoadOk, DbWrites
<1>17. CASE LoadFallsBack(w)
  BY <1>17 DEF LoadFallsBack
<1>18. CASE LoadFails(w)
  <2>1. Flags' /\ Beginning' /\ NotClearedYet' /\ Course'
    BY <1>18 DEF LoadFails, DbRefuses, DbAnswerLost, DbRollsBack,
       RegisterErrorAndHandlePolicy, BatchFailed, BatchReturns
  <2>2. ASSUME NEW v \in Workers PROVE WriterCourse(v)'
    BY <1>18, <2>1, OneWriter DEF LoadFails, DbRefuses, DbAnswerLost, DbRollsBack,
       RegisterErrorAndHandlePolicy, BatchFailed, BatchReturns
  <2> QED
    BY <2>1, <2>2
<1>19. CASE CommitBatchOk(w)
  BY <1>19 DEF CommitBatchOk, DbCommits
<1>20. CASE CommitBatchFails(w)
  BY <1>20 DEF CommitBatchFails, DbCommitFails, DbCommits, RegisterErrorAndStop, BatchReturns
<1>21. CASE RollbackBatch(w)
  BY <1>21 DEF RollbackBatch, DbRollbackSent, DbRollsBack, BatchReturns
<1>22. CASE AccountBatch(w)
  BY <1>22 DEF AccountBatch, BatchReturns
<1>23. CASE EndRun(w)
  BY <1>23 DEF EndRun
<1>24. CASE CommitRunOk(w)
  BY <1>24 DEF CommitRunOk, DbCommits
<1>25. CASE CommitRunFails(w)
  BY <1>25, SMTT(30) DEF CommitRunFails, DbCommitFails, DbCommits, RegisterErrorAndStop
<1>26. CASE RollbackRun(w)
  BY <1>26 DEF RollbackRun, DbRollbackSent, DbRollsBack
<1>27. CASE Disconnect(w)
  BY <1>27 DEF Disconnect, DbRollsBack
<1> QED
  BY <1>1, <1>2, <1>3, <1>4, <1>5, <1>6, <1>7, <1>8, <1>9, <1>10, <1>11, <1>12,
     <1>13, <1>14, <1>15, <1>16, <1>17, <1>18, <1>19, <1>20, <1>21, <1>22,
     <1>23, <1>24, <1>25, <1>26, <1>27 DEF WorkerStep

LEMMA ControlNext == ASSUME TypeInv, ControlInv, [Next]_vars PROVE ControlInv'
<1>1. CASE MainStep
  BY <1>1, ControlMain
<1>2. CASE \E w \in Workers : WorkerStep(w)
  BY <1>2, ControlWorker
<1>3. CASE Wakeup \/ UNCHANGED vars
  BY <1>3 DEF Wakeup, SpuriousWakeup, vars, mainVars, flagVars, workerVars, dbVars, fileVars,
     queueVars, ControlInv, Flags, Beginning, NotClearedYet, Course, WriterCourses,
     WriterCourse, Starting, Producing, Closing, Leaving, Refused, Drained,
     ShouldContinueAfterError, EffectiveErrorPolicy, ResolvedMode, SupportsLoadMode,
     PerRun, PerBatch, DbThreads, AnswersLost, Faults
<1> QED
  BY <1>1, <1>2, <1>3 DEF Next, Ended

LEMMA ControlInvariant == Spec => []ControlInv
<1>1. Init => ControlInv
  BY ControlInit
<1>2. TypeInv /\ ControlInv /\ [Next]_vars => ControlInv'
  BY ControlNext
<1> QED
  BY <1>1, <1>2, TypeInvariant, PTL DEF Spec

(* However the call ends, its load files are gone: the writers that could  *)
(* add one have been joined before the files are removed.                  *)
THEOREM TempFilesRemovedHolds == Spec => []TempFilesRemoved
<1>1. ControlInv => TempFilesRemoved
  BY DEF ControlInv, Course, TempFilesRemoved
<1> QED
  BY <1>1, ControlInvariant, PTL

(* What is refused before a writer starts is refused before the DELETE, or *)
(* is the DELETE, carried out and not answered.                            *)
THEOREM ChecksComeBeforeClearingHolds == Spec => []ChecksComeBeforeClearing
<1>1. ControlInv => ChecksComeBeforeClearing
  BY DEF ControlInv, Beginning, NotClearedYet, Refused, ChecksComeBeforeClearing, Landed,
     NoRows
<1> QED
  BY <1>1, ControlInvariant, PTL

-----------------------------------------------------------------------------
(***************************************************************************)
(* Why the counters agree: the rows counted as imported are rows that have *)
(* left the queue and that no writer will count again.                     *)
(***************************************************************************)
(* After the batch that ends a writer's loop, its rows stay in batch.      *)
Afterwards == {"end_run", "commit_run", "rollback_run", "disconnect", "done"}

GoneBy(r) ==
    /\ r < Frontier
    /\ \A i \in 1 .. Len(queue) : queue[i] # r
    /\ \A w \in Workers : r \in batch[w] => last[w] /\ pc[w] \in Afterwards

Imported(C) == Cardinality(C) = rows_imported /\ \A r \in C : GoneBy(r)
ImportedInv == \E C \in SUBSET RowIds : Imported(C)

(* The rows of a batch that a writer counts: none of them is counted yet,  *)
(* and all of them have passed the queue.                                  *)
LEMMA AccountCounts ==
    ASSUME TypeInv, RowInv, NEW w \in Workers, AccountBatch(w), ImportedInv
    PROVE  ImportedInv'
<1>1. PICK C \in SUBSET RowIds : Imported(C)
  BY DEF ImportedInv
<1>2. /\ batch \in [Workers -> SUBSET RowIds] /\ pc \in [Workers -> WorkerPlaces]
      /\ queue \in Seq(RowIds)
      /\ pc[w] = "account" /\ UNCHANGED <<queue, mainPc, next, last>>
      /\ rows_imported' = rows_imported + Cardinality(batch[w])
  BY DEF AccountBatch, TypeInv, TypeOK, WorkerTypes, QueueTypes, queueVars,
     workerStepUnchanged,
     mainVars
<1> DEFINE D == C \union batch[w]
<1>3. C \cap batch[w] = {}
  BY <1>1, <1>2 DEF Imported, GoneBy, Afterwards
<1>4. Cardinality(D) = rows_imported'
  <2>1. IsFiniteSet(C) /\ IsFiniteSet(batch[w])
    BY <1>2, RowSetFinite
  <2>2. Cardinality(C \cap batch[w]) = 0
    BY <1>3, FS_EmptySet
  <2>3. Cardinality(C) \in Nat /\ Cardinality(batch[w]) \in Nat
    BY <1>2, RowSetFinite
  <2>4. Cardinality(D) = Cardinality(C) + Cardinality(batch[w]) - Cardinality(C \cap batch[w])
    BY <2>1, FS_Union
  <2> QED
    BY <1>1, <1>2, <2>2, <2>3, <2>4 DEF Imported
<1>5. ASSUME NEW r \in D PROVE GoneBy(r)'
  <2>1. r \in RowIds /\ r < Frontier
    <3>1. r \in batch[w] => ~(r >= Frontier)
      BY <1>2 DEF RowInv, RowsToCome, Unheld
    <3> QED
      BY <3>1, <1>1, <1>2, RowsAssumption
      DEF Imported, GoneBy, RowIds, Frontier, TypeInv, TypeOK, MainTypes
  <2>2. \A i \in 1 .. Len(queue) : queue[i] # r
    BY <1>1, <1>2 DEF Imported, GoneBy, RowInv, QueuedRows, Unheld
  <2>3. ASSUME NEW v \in Workers, r \in batch'[v] PROVE last'[v] /\ pc'[v] \in Afterwards
    <3>1. CASE r \in C
      BY <3>1, <2>3, <1>1, <1>2 DEF Imported, GoneBy, AccountBatch, BatchReturns, Goto,
         Afterwards
    <3>2. CASE r \in batch[w]
      <4>1. v = w
        BY <3>2, <2>1, <2>3, <1>2 DEF AccountBatch, BatchReturns, RowInv, BatchesDisjoint
      <4> QED
        BY <4>1, <2>3, <1>2 DEF AccountBatch, BatchReturns, Goto, Afterwards
    <3> QED
      BY <3>1, <3>2
  <2> QED
    BY <1>2, <2>1, <2>2, <2>3 DEF GoneBy, Frontier
<1>6. D \in SUBSET RowIds
  BY <1>2
<1> QED
  BY <1>4, <1>5, <1>6 DEF ImportedInv, Imported

LEMMA GoneMain ==
    ASSUME TypeInv, RowInv, MainStep, NEW r \in RowIds, GoneBy(r) PROVE GoneBy(r)'
<1> USE DEF TypeInv, TypeOK, MainTypes, WorkerTypes, QueueTypes, GoneBy, Frontier, RowIds,
    mainVars, workerVars, queueVars, mainStepUnchanged
<1>1. CASE StartWorkers
  BY <1>1 DEF StartWorkers, RowInv, NoBatchYet
<1>2. CASE PushRow
  <2>1. CASE PushDone(Main, next, cfg.queue_size, stop) /\ mainPc' = "count"
    <3>1. r < next /\ next \in Nat /\ r \in Nat
      BY <1>2, RowsAssumption DEF PushRow
    <3>2. \A i \in 1 .. Len(queue') : queue'[i] # r
      BY <1>2, <2>1, <3>1 DEF PushDone
    <3> QED
      BY <1>2, <2>1, <3>1, <3>2 DEF PushRow, PushDone
  <2>2. CASE UNCHANGED queue /\ mainPc' # "count"
    BY <1>2, <2>2 DEF PushRow
  <2> QED
    BY <1>2, <2>1, <2>2 DEF PushRow, PushRefused, PushWait
<1>3. CASE CountGenerated
  BY <1>3 DEF CountGenerated
<1>4. CASE MainStep /\ ~StartWorkers /\ ~PushRow /\ ~CountGenerated
  <2>1. UNCHANGED <<queue, next, batch, last, pc>> /\ mainPc # "count" /\ mainPc' # "count"
    BY <1>4 DEF MainStep, SetupFails, ClearTableFails, UpsertKeyMissing, Throws, CheckTable,
       ClearTable, GenerateRow, GeneratorThrows, ConsumeRow, CloseQueue, Close, JoinWorkers,
       RemoveTempFiles, Report
  <2> QED
    BY <2>1
<1> QED
  BY <1>1, <1>2, <1>3, <1>4

LEMMA GoneWorker ==
    ASSUME TypeInv, RowInv, NEW w \in Workers, WorkerStep(w), ~AccountBatch(w),
           NEW r \in RowIds, GoneBy(r)
    PROVE  GoneBy(r)'
<1> USE DEF TypeInv, TypeOK, MainTypes, WorkerTypes, QueueTypes, GoneBy, Frontier, Afterwards,
    mainVars, workerVars, queueVars, workerStepUnchanged, Goto
<1>1. CASE ConnectOk(w)
  BY <1>1 DEF ConnectOk
<1>2. CASE ConnectFails(w)
  BY <1>2 DEF ConnectFails, RegisterErrorAndStop
<1>3. CASE BeginRunOk(w)
  BY <1>3 DEF BeginRunOk
<1>4. CASE BeginRunFails(w)
  BY <1>4 DEF BeginRunFails, RegisterErrorAndStop
<1>5. CASE CheckStop(w)
  BY <1>5 DEF CheckStop
<1>6. CASE PopRow(w)
  <2>1. CASE PopDone(w) /\ batch' = [batch EXCEPT ![w] = @ \union {Head(queue)}]
    <3>1. queue[1] # r /\ Head(queue) = queue[1]
      BY <2>1 DEF PopDone
    <3>2. \A i \in 1 .. Len(queue') : queue'[i] # r
      BY <2>1 DEF PopDone
    <3> QED
      BY <1>6, <2>1, <3>1, <3>2 DEF PopRow
  <2>2. CASE UNCHANGED <<queue, batch>>
    BY <1>6, <2>2 DEF PopRow
  <2> QED
    BY <1>6, <2>1, <2>2 DEF PopRow, PopRefused, PopWait
<1>7. CASE FinalBatch(w)
  BY <1>7 DEF FinalBatch
<1>8. CASE AdaptOk(w)
  BY <1>8 DEF AdaptOk
<1>9. CASE AdaptFails(w)
  BY <1>9 DEF AdaptFails, RegisterErrorAndHandlePolicy, BatchReturns
<1>10. CASE BeginBatchOk(w)
  BY <1>10 DEF BeginBatchOk
<1>11. CASE BeginBatchFails(w)
  BY <1>11 DEF BeginBatchFails, RegisterErrorAndStop, BatchReturns
<1>12. CASE ExecuteOk(w)
  BY <1>12 DEF ExecuteOk, DbWrites
<1>13. CASE ExecuteFails(w)
  BY <1>13 DEF ExecuteFails, RegisterErrorAndHandlePolicy, BatchFailed, BatchReturns
<1>14. CASE WriteFileOk(w)
  BY <1>14 DEF WriteFileOk
<1>15. CASE WriteFileFails(w)
  BY <1>15 DEF WriteFileFails, RegisterErrorAndStop, BatchFailed, BatchReturns
<1>16. CASE LoadOk(w)
  BY <1>16 DEF LoadOk, DbWrites
<1>17. CASE LoadFallsBack(w)
  BY <1>17 DEF LoadFallsBack
<1>18. CASE LoadFails(w)
  BY <1>18 DEF LoadFails, RegisterErrorAndHandlePolicy, BatchFailed, BatchReturns
<1>19. CASE CommitBatchOk(w)
  BY <1>19 DEF CommitBatchOk, DbCommits
<1>20. CASE CommitBatchFails(w)
  BY <1>20 DEF CommitBatchFails, DbCommitFails, DbCommits, RegisterErrorAndStop, BatchReturns
<1>21. CASE RollbackBatch(w)
  BY <1>21 DEF RollbackBatch, DbRollsBack, BatchReturns
<1>22. CASE EndRun(w)
  BY <1>22 DEF EndRun
<1>23. CASE CommitRunOk(w)
  BY <1>23 DEF CommitRunOk, DbCommits
<1>24. CASE CommitRunFails(w)
  BY <1>24 DEF CommitRunFails, DbCommitFails, DbCommits, RegisterErrorAndStop
<1>25. CASE RollbackRun(w)
  BY <1>25 DEF RollbackRun, DbRollsBack
<1>26. CASE Disconnect(w)
  BY <1>26 DEF Disconnect, DbRollsBack
<1> QED
  BY <1>1, <1>2, <1>3, <1>4, <1>5, <1>6, <1>7, <1>8, <1>9, <1>10, <1>11, <1>12,
     <1>13, <1>14, <1>15, <1>16, <1>17, <1>18, <1>19, <1>20, <1>21, <1>22,
     <1>23, <1>24, <1>25, <1>26 DEF WorkerStep


LEMMA ImportedNext ==
    ASSUME TypeInv, RowInv, ImportedInv, [Next]_vars PROVE ImportedInv'
<1>1. CASE \E w \in Workers : AccountBatch(w)
  BY <1>1, AccountCounts
<1>2. CASE ~(\E w \in Workers : AccountBatch(w))
  <2>1. PICK C \in SUBSET RowIds : Imported(C)
    BY DEF ImportedInv
  <2>2. rows_imported' = rows_imported
    <3>1. CASE MainStep
      BY <3>1 DEF MainStep, SetupFails, ClearTableFails, UpsertKeyMissing, Throws, CheckTable,
         ClearTable, StartWorkers, GenerateRow, GeneratorThrows, ConsumeRow, PushRow,
         CountGenerated, CloseQueue, JoinWorkers, RemoveTempFiles, Report, mainStepUnchanged
    <3>2. CASE \E w \in Workers : WorkerStep(w)
      BY <3>2, <1>2 DEF WorkerStep, ConnectOk, ConnectFails, BeginRunOk, BeginRunFails,
         CheckStop, PopRow, FinalBatch, AdaptOk, AdaptFails, BeginBatchOk, BeginBatchFails,
         ExecuteOk, ExecuteFails, WriteFileOk, WriteFileFails, LoadOk, LoadFallsBack,
    LoadFails,
         CommitBatchOk, CommitBatchFails, RollbackBatch, EndRun, CommitRunOk, CommitRunFails,
         RollbackRun, Disconnect
    <3> QED
      BY <3>1, <3>2 DEF Next, Wakeup, Ended, vars
  <2>3. ASSUME NEW r \in C PROVE GoneBy(r)'
    <3>1. r \in RowIds /\ GoneBy(r)
      BY <2>1 DEF Imported
    <3>2. CASE MainStep
      BY <3>1, <3>2, GoneMain
    <3>3. CASE \E w \in Workers : WorkerStep(w)
      BY <3>1, <3>3, <1>2, GoneWorker
    <3>4. CASE Wakeup \/ UNCHANGED vars
      BY <3>1, <3>4 DEF Wakeup, SpuriousWakeup, vars, mainVars, workerVars, queueVars,
         GoneBy, Frontier
    <3> QED
      BY <3>2, <3>3, <3>4 DEF Next, Ended
  <2> QED
    BY <2>1, <2>2, <2>3 DEF ImportedInv, Imported
<1> QED
  BY <1>1, <1>2

LEMMA ImportedInvariant == Spec => []ImportedInv
<1>1. Init => ImportedInv
  <2> SUFFICES ASSUME Init PROVE ImportedInv
    OBVIOUS
  <2>1. Cardinality({}) = 0
    BY FS_EmptySet
  <2>2. Imported({})
    BY <2>1 DEF Imported, Init
  <2> QED
    BY <2>2 DEF ImportedInv
<1>2. TypeInv /\ RowInv /\ ImportedInv /\ [Next]_vars => ImportedInv'
  BY ImportedNext
<1> QED
  BY <1>1, <1>2, TypeInvariant, RowInvariant, PTL DEF Spec

(* Once the writers are joined no more rows are counted as imported than   *)
(* as generated, although a writer may be ahead of the generator before.   *)
THEOREM CountersAgreeHolds == Spec => []CountersAgree
<1>1. TypeInv /\ ControlInv /\ ImportedInv => CountersAgree
  <2> SUFFICES ASSUME TypeInv, ControlInv, ImportedInv, mainPc \in {"cleanup", "report", "end"}
               PROVE  rows_imported <= rows_generated /\ rows_generated <= Rows
    BY DEF CountersAgree
  <2>1. next \in Nat /\ next <= Rows /\ rows_generated = next
    BY DEF TypeInv, TypeOK, MainTypes, NextInRange, ControlInv, Course
  <2>2. PICK C \in SUBSET RowIds : Imported(C)
    BY DEF ImportedInv
  <2>3. C \subseteq 0 .. next - 1
    BY <2>1, <2>2, RowsAssumption DEF Imported, GoneBy, Frontier, RowIds
  <2>4. IsFiniteSet(0 .. next - 1) /\ Cardinality(0 .. next - 1) = next
    BY <2>1, FS_Interval
  <2>5. Cardinality(C) <= next
    BY <2>3, <2>4, FS_Subset
  <2> QED
    BY <2>1, <2>2, <2>5 DEF Imported
<1> QED
  BY <1>1, TypeInvariant, ControlInvariant, ImportedInvariant, PTL

-----------------------------------------------------------------------------
(***************************************************************************)
(* Why an import that carries on after an error does not stop.  "begin",   *)
(* "tempfile" and "commit" stop it whatever the policy.                    *)
(***************************************************************************)
Harmless == Faults \subseteq BatchFaults \ {"begin", "tempfile", "commit"}

(* Where the transaction of a batch or of the run is open.                 *)
InBatch == {"write_file", "load", "execute", "commit_batch", "rollback_batch"}
BeforeRun == {"connect", "begin_run"}
InTransaction(w) ==
    \/ PerBatch /\ pc[w] \in InBatch
    \/ PerRun /\ pc[w] \notin BeforeRun \union {"disconnect", "done"}

CarriesOn ==
    ShouldContinueAfterError /\ Harmless =>
        /\ ~stop /\ result.kind # "failed"
        /\ \A w \in Workers :
              /\ tx[w] # "lost"
              /\ PerBatch /\ pc[w] \notin InBatch => tx[w] = "none"
              /\ pc[w] \in BeforeRun \union {"done"} => tx[w] = "none"
              /\ cfg.db = "sqlite" /\ InTransaction(w) => tx[w] = "open"

LEMMA CarriesOnMain == ASSUME TypeInv, Beginning, CarriesOn, MainStep PROVE CarriesOn'
<1> USE DEF TypeInv, TypeOK, MainTypes, WorkerTypes, DbTypes, CarriesOn, Harmless,
    BatchFaults,
    InBatch, BeforeRun, InTransaction, PerRun, mainVars, flagVars, workerVars, dbVars, mainStepUnchanged,
    ShouldContinueAfterError,
    EffectiveErrorPolicy, ResolvedMode, SupportsLoadMode, PerBatch, Faults, WorkerPlaces, AnswersLost
<1>1. CASE SetupFails
  BY <1>1 DEF SetupFails, Throws, Failed
<1>2. CASE CheckTable
  BY <1>2 DEF CheckTable
<1>3. CASE ClearTableFails
  BY <1>3 DEF ClearTableFails, Throws, Failed
<1>4. CASE ClearTable
  BY <1>4 DEF ClearTable
<1>5. CASE UpsertKeyMissing
  BY <1>5 DEF UpsertKeyMissing, Throws, Failed
<1>6. CASE StartWorkers
  BY <1>6 DEF StartWorkers, Beginning, Starting
<1>7. CASE GenerateRow
  BY <1>7 DEF GenerateRow
<1>8. CASE GeneratorThrows
  BY <1>8 DEF GeneratorThrows, RegisterErrorAndStop
<1>9. CASE ConsumeRow
  BY <1>9 DEF ConsumeRow
<1>10. CASE PushRow
  BY <1>10 DEF PushRow, PushDone, PushRefused, PushWait
<1>11. CASE CountGenerated
  BY <1>11 DEF CountGenerated
<1>12. CASE CloseQueue
  BY <1>12 DEF CloseQueue, Close
<1>13. CASE JoinWorkers
  BY <1>13 DEF JoinWorkers
<1>14. CASE RemoveTempFiles
  BY <1>14 DEF RemoveTempFiles
<1>15. CASE Report
  BY <1>15 DEF Report, Failed, Returned
<1> QED
  BY <1>1, <1>2, <1>3, <1>4, <1>5, <1>6, <1>7, <1>8, <1>9, <1>10, <1>11, <1>12,
     <1>13, <1>14, <1>15 DEF MainStep

LEMMA CarriesOnWorker ==
    ASSUME TypeInv, WriterCourses, CarriesOn, NEW w \in Workers, WorkerStep(w) PROVE
    CarriesOn'
<1> USE DEF TypeInv, TypeOK, WorkerTypes, DbTypes, WriterCourses, WriterCourse, CarriesOn,
    Harmless,
    BatchFaults, InBatch, BeforeRun, InTransaction, PerRun, mainVars, flagVars, workerVars,
    dbVars, workerStepUnchanged, Goto,
    ShouldContinueAfterError, EffectiveErrorPolicy, ResolvedMode, SupportsLoadMode,
    PerBatch, Faults, WorkerPlaces, AnswersLost
<1>1. CASE ConnectOk(w)
  BY <1>1 DEF ConnectOk
<1>2. CASE ConnectFails(w)
  BY <1>2 DEF ConnectFails, RegisterErrorAndStop
<1>3. CASE BeginRunOk(w)
  BY <1>3 DEF BeginRunOk, DbBegins
<1>4. CASE BeginRunFails(w)
  BY <1>4 DEF BeginRunFails, DbBeginFails, RegisterErrorAndStop
<1>5. CASE CheckStop(w)
  BY <1>5 DEF CheckStop
<1>6. CASE PopRow(w)
  BY <1>6 DEF PopRow, PopDone, PopRefused, PopWait
<1>7. CASE FinalBatch(w)
  BY <1>7 DEF FinalBatch
<1>8. CASE AdaptOk(w)
  BY <1>8 DEF AdaptOk
<1>9. CASE AdaptFails(w)
  <2>1. UNCHANGED <<cfg, result, tx>> /\ (ShouldContinueAfterError /\ ~stop => ~stop')
    BY <1>9 DEF AdaptFails, RegisterErrorAndHandlePolicy
  <2>2. /\ pc[w] = "adapt" /\ pc' = [pc EXCEPT ![w] = pc'[w]]
        /\ pc'[w] \in {"loop", "final", "end_run"}
    BY <1>9 DEF AdaptFails, BatchReturns
  <2> QED
    BY <2>1, <2>2
<1>10. CASE BeginBatchOk(w)
  BY <1>10 DEF BeginBatchOk, DbBegins
<1>11. CASE BeginBatchFails(w)
  BY <1>11 DEF BeginBatchFails, DbBeginFails, RegisterErrorAndStop, BatchReturns
<1>12. CASE ExecuteOk(w)
  BY <1>12 DEF ExecuteOk, DbWrites
<1>13. CASE ExecuteFails(w)
  <2>1. Harmless => /\ tx' \in {tx, [tx EXCEPT ![w] = "aborted"]}
                    /\ cfg.db = "sqlite" => tx' = tx
    BY <1>13 DEF ExecuteFails, DbRefuses, DbAnswerLost
  <2>2. UNCHANGED <<cfg, result>> /\ (ShouldContinueAfterError /\ ~stop => ~stop')
    BY <1>13 DEF ExecuteFails, RegisterErrorAndHandlePolicy
  <2>3. /\ pc[w] \in InBatch /\ pc' = [pc EXCEPT ![w] = pc'[w]]
        /\ IF PerBatch THEN pc'[w] = "rollback_batch" ELSE pc'[w] \in {"loop", "final", "end_run"}
    BY <1>13 DEF ExecuteFails, BatchFailed, BatchReturns
  <2> QED
    BY <2>1, <2>2, <2>3
<1>14. CASE WriteFileOk(w)
  BY <1>14 DEF WriteFileOk
<1>15. CASE WriteFileFails(w)
  BY <1>15 DEF WriteFileFails, RegisterErrorAndStop, BatchFailed, BatchReturns
<1>16. CASE LoadOk(w)
  BY <1>16 DEF LoadOk, DbWrites
<1>17. CASE LoadFallsBack(w)
  BY <1>17 DEF LoadFallsBack
<1>18. CASE LoadFails(w)
  <2>1. Harmless => /\ tx' \in {tx, [tx EXCEPT ![w] = "aborted"]}
                    /\ cfg.db = "sqlite" => tx' = tx
    BY <1>18 DEF LoadFails, DbRefuses, DbAnswerLost
  <2>2. UNCHANGED <<cfg, result>> /\ (ShouldContinueAfterError /\ ~stop => ~stop')
    BY <1>18 DEF LoadFails, RegisterErrorAndHandlePolicy
  <2>3. /\ pc[w] \in InBatch /\ pc' = [pc EXCEPT ![w] = pc'[w]]
        /\ IF PerBatch THEN pc'[w] = "rollback_batch" ELSE pc'[w] \in {"loop", "final", "end_run"}
    BY <1>18 DEF LoadFails, BatchFailed, BatchReturns
  <2> QED
    BY <2>1, <2>2, <2>3
<1>19. CASE CommitBatchOk(w)
  BY <1>19 DEF CommitBatchOk, DbCommits
<1>20. CASE CommitBatchFails(w)
  BY <1>20 DEF CommitBatchFails, DbCommitFails, DbCommits, RegisterErrorAndStop, BatchReturns
<1>21. CASE RollbackBatch(w)
  BY <1>21 DEF RollbackBatch, DbRollbackSent, DbRollsBack, BatchReturns
<1>22. CASE AccountBatch(w)
  BY <1>22 DEF AccountBatch, BatchReturns
<1>23. CASE EndRun(w)
  BY <1>23 DEF EndRun
<1>24. CASE CommitRunOk(w)
  BY <1>24 DEF CommitRunOk, DbCommits
<1>25. CASE CommitRunFails(w)
  BY <1>25 DEF CommitRunFails, DbCommitFails, DbCommits, RegisterErrorAndStop
<1>26. CASE RollbackRun(w)
  BY <1>26 DEF RollbackRun, DbRollbackSent, DbRollsBack
<1>27. CASE Disconnect(w)
  BY <1>27 DEF Disconnect, DbRollsBack
<1> QED
  BY <1>1, <1>2, <1>3, <1>4, <1>5, <1>6, <1>7, <1>8, <1>9, <1>10, <1>11, <1>12,
     <1>13, <1>14, <1>15, <1>16, <1>17, <1>18, <1>19, <1>20, <1>21, <1>22,
     <1>23, <1>24, <1>25, <1>26, <1>27 DEF WorkerStep

(* error_policy continue, and rollback with per-batch, carry on: an import  *)
(* in which values fail to convert, statements are refused or LOAD DATA    *)
(* LOCAL is disabled neither stops nor fails.  (A failed BEGIN, COMMIT or  *)
(* load file does stop it: run CommitFailureStops.)                        *)
THEOREM BatchErrorsDoNotStopHolds == Spec => [](Harmless => BatchErrorsDoNotStop)
<1>1. Init => CarriesOn
  BY DEF Init, Running, CarriesOn, InBatch, BeforeRun, InTransaction
<1>2. TypeInv /\ ControlInv /\ CarriesOn /\ [Next]_vars => CarriesOn'
  <2> SUFFICES ASSUME TypeInv, ControlInv, CarriesOn, [Next]_vars PROVE CarriesOn'
    OBVIOUS
  <2>1. CASE MainStep
    BY <2>1, CarriesOnMain DEF ControlInv
  <2>2. CASE \E w \in Workers : WorkerStep(w)
    BY <2>2, CarriesOnWorker DEF ControlInv
  <2>3. CASE Wakeup \/ UNCHANGED vars
    BY <2>3 DEF Wakeup, vars, mainVars, flagVars, workerVars, dbVars, CarriesOn, Harmless,
       InBatch, BeforeRun, InTransaction, PerRun, ShouldContinueAfterError, EffectiveErrorPolicy, ResolvedMode, SupportsLoadMode,
    PerBatch,
       Faults
  <2> QED
    BY <2>1, <2>2, <2>3 DEF Next, Ended
<1>3. CarriesOn => (Harmless => BatchErrorsDoNotStop)
  BY DEF CarriesOn, BatchErrorsDoNotStop
<1> QED
  BY <1>1, <1>2, <1>3, TypeInvariant, ControlInvariant, PTL DEF Spec

-----------------------------------------------------------------------------
(* Where a writer can be once it has met the stop flag in its loop.        *)
Stopping(w) ==
    /\ stop
    /\ pc[w] \in {"loop", "final", "end_run", "commit_run", "rollback_run", "disconnect", "done"}

LEMMA StaysStopping ==
    ASSUME TypeInv, ControlInv, [Next]_vars, NEW w \in Workers, Stopping(w) PROVE Stopping(w)'
<1> USE DEF Stopping, TypeInv, TypeOK, WorkerTypes, FlagTypes, mainVars, flagVars, workerVars,
    mainStepUnchanged, workerStepUnchanged, Goto
<1>1. CASE MainStep
  <2>1. ~StartWorkers
    BY DEF StartWorkers, ControlInv, Flags, Beginning, Starting
  <2> QED
    BY <1>1, <2>1 DEF MainStep, SetupFails, ClearTableFails, UpsertKeyMissing, Throws,
       CheckTable,
       ClearTable, GenerateRow, GeneratorThrows, RegisterErrorAndStop, ConsumeRow, PushRow,
       CountGenerated, CloseQueue, JoinWorkers, RemoveTempFiles, Report
<1>2. CASE WorkerStep(w)
  BY <1>2 DEF WorkerStep, ConnectOk, ConnectFails, BeginRunOk, BeginRunFails,
     CheckStop, PopRow, FinalBatch, AdaptOk, AdaptFails, BeginBatchOk, BeginBatchFails,
     ExecuteOk, ExecuteFails, WriteFileOk, WriteFileFails, LoadOk, LoadFallsBack, LoadFails,
     CommitBatchOk, CommitBatchFails, RollbackBatch, AccountBatch, EndRun, CommitRunOk,
     CommitRunFails, RollbackRun, Disconnect, RegisterErrorAndStop
<1>3. CASE \E v \in Workers \ {w} : WorkerStep(v)
  <2>1. PICK v \in Workers \ {w} : WorkerStep(v)
    BY <1>3
  <2>2. pc'[w] = pc[w]
    BY <2>1 DEF WorkerStep, ConnectOk, ConnectFails, BeginRunOk, BeginRunFails,
     CheckStop, PopRow, FinalBatch, AdaptOk, AdaptFails, BeginBatchOk, BeginBatchFails,
     ExecuteOk, ExecuteFails, WriteFileOk, WriteFileFails, LoadOk, LoadFallsBack, LoadFails,
     CommitBatchOk, CommitBatchFails, RollbackBatch, AccountBatch, EndRun, CommitRunOk,
     CommitRunFails, RollbackRun, Disconnect, BatchFailed, BatchReturns
  <2>3. stop'
    BY <2>1 DEF WorkerStep, ConnectOk, ConnectFails, BeginRunOk, BeginRunFails,
     CheckStop, PopRow, FinalBatch, AdaptOk, AdaptFails, BeginBatchOk, BeginBatchFails,
     ExecuteOk, ExecuteFails, WriteFileOk, WriteFileFails, LoadOk, LoadFallsBack, LoadFails,
     CommitBatchOk, CommitBatchFails, RollbackBatch, AccountBatch, EndRun, CommitRunOk,
     CommitRunFails, RollbackRun, Disconnect, RegisterErrorAndStop,
    RegisterErrorAndHandlePolicy
  <2> QED
    BY <2>2, <2>3
<1>4. CASE Wakeup \/ UNCHANGED vars
  BY <1>4 DEF Wakeup, vars
<1> QED
  BY <1>1, <1>2, <1>3, <1>4 DEF Next, Ended

(* After an error a writer that is back at its loop begins no other batch. *)
THEOREM StopEndsTheLoopHolds == Spec => StopEndsTheLoop
<1> SUFFICES ASSUME NEW w \in Workers
             PROVE  Spec => [](stop /\ pc[w] \in {"loop", "final"} => [](pc[w] # "adapt"))
  BY DEF StopEndsTheLoop
<1>1. stop /\ pc[w] \in {"loop", "final"} => Stopping(w)
  BY DEF Stopping
<1>2. Stopping(w) => pc[w] # "adapt"
  BY DEF Stopping
<1>3. TypeInv /\ ControlInv /\ [Next]_vars /\ Stopping(w) => Stopping(w)'
  BY StaysStopping
<1> QED
  BY <1>1, <1>2, <1>3, TypeInvariant, ControlInvariant, PTL DEF Spec
=============================================================================
