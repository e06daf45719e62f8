# A verification development for datagen

datagen reads a JSON configuration, generates rows of test data with one generator per
field, and writes them to a file or imports them into a database. This directory holds
TLA+ models of the parts whose correctness depends on more than one step at a time,
the TLC runs that check them on small instances, and TLAPS proofs of theorems about them
for every instance. All source paths below are relative to the root of the repository,
which `PROJECT.json` calls `src/`.

## Inventory

| Component | Source | State | Interacts with |
|---|---|---|---|
| Database import | `src/output/database_backend.cpp` | bounded queue, `stop`, `rollback_all`, `first_error`, two counters, load files, one connection and one batch per writer | executor (callback), drivers, adapter, logger |
| Row executor | `src/engine/executor.cpp` | `cancelled`, ranges of the threads, first exception, count | generators, the consumer callback of a backend |
| Override rules | `src/generators/core/override_rules.cpp` | remaining quotas, row index | every generator |
| Linked field contexts | `src/generators/types/{location,business,computer,payment,person}_generators.cpp` | one shared record per group, `next_called_` | the fields of a group, the executor's `next()` |
| Utility and string generators | `src/generators/types/*.cpp` | current value of a sequence, parsed pattern, lines of a file | override rules |
| Registry, array parser | `src/generators/core` | none | executor, configuration |
| Configuration | `src/config/configuration.cpp` | none between calls | commands, backends |
| Generator catalog | `src/config/generator_catalog.cpp` | none | configuration, init, schema |
| Schema validator, type adapter | `src/output/database/{db_schema_validator,type_adapter,db_metadata}.cpp` | none | database import |
| Database drivers | `src/output/database/drivers` | a connection | database import |
| File output | `src/output/file_backend.cpp`, `src/output/file` | an output stream, a count | executor, run |
| Run command, logger | `src/cli/command_run.cpp`, `src/logging/logger.cpp` | `error_emitted_`, two log files | configuration, backends |
| Other commands | `src/cli` | the document that init writes | configuration, catalog, one another by way of the document |
| Workspace, vendored code | `src/utils`, `third_party` | none | |

What is hard, and what makes each part correct:

- **Database import** is the only part where several threads share state, and the only
  one with failures that are handled rather than passed on. The generating thread pushes
  rows to a queue of limited size; writers pop them, build batches and run them in one of
  three transaction modes under one of three error policies. It is correct if no row is
  written twice or lost without an error, if what it reports is what is in the table, if a
  per-run import is all or nothing, if the error policy is obeyed, and if it ends.
- **Row executor**: threads own ranges of rows; any of them may be refused a row or throw.
  Correct if each row is offered once, the count returned is that of the rows accepted, no
  exception is lost, and a cancellation ends all loops.
- **Override rules**: quotas are drawn row by row; correct if a run ends with its share.
- **Linked contexts**: the record of a group must change once per row whatever the order
  of the fields and of the overrides among them.
- **Generators**: what a sequence shows depends on the row alone, overridden or not.
- **Configuration, catalog, generators, init, schema, check**: six descriptions of what a
  document may hold, each written by hand. They are correct if what one of them writes or
  admits the others accept, and if what is written is what a run uses.
- **Schema validator and type adapter**: what the first admits for a column whose field was
  inferred from it the second must convert.
- **File output**: a run that reports success has written the whole file.
- **Run command and logger**: a failed run logs its reason once and exits with 3; a refused
  one changes nothing.

`PROJECT.json` lists the hazards one by one, each with the line where it bites and the
properties that cover it, or says why none does.

## Modules

    BoundedQueue <- DatabaseBackend <- MCDatabaseBackend
                        |   \ <- DatabaseBackendProofs <- DatabaseAccountsProofs
                        +--- INSTANCE ImportContract (refinement)
    Executor      <- MCExecutor,      <- ExecutorProofs
    LinkedModules <- LinkedContext <- MCLinkedContext, <- LinkedContextProofs
    OverrideRules <- SequenceGenerator <- MCSequence
         |                      \ <- OverrideRulesProofs
         + <- MCOverrideRules (also extended by MCSequence)
    GeneratorCatalog <- Configuration <- ConfigSchema
                             |   \ <- OutputFile
                             + <- TableSchema <- InitFields
                             + <- GeneratorFactory (with LinkedModules)
    GeneratorFactory, InitFields, ConfigSchema, OutputFile <- Commands <- MCCommands
              \ <- FieldProofs <- DocumentProofs <- CommandsProofs

### BoundedQueue and DatabaseBackend

`BoundedQueue` is the queue template of `database_backend.cpp`. push, pop and close run
under a mutex, so each is one action, split where a thread waits on a condition variable:
`PushWait`/`PopWait` put it in a wait set, `notify_one` takes any one member out of it,
`notify_all` empties it, and a wakeup without a notification is allowed. The stop flag is
read under the mutex and written without it, which is where the hang below comes from.

`DatabaseBackend` is one call of `generate`. `mainPc` is where the calling thread is,
`pc[w]` where writer `w` is; an action is the code between two accesses of shared state or
one call of the driver. `cfg` is drawn from `Configs` at the start and fixed.

| Model | Code |
|---|---|
| `SetupFails` ... `StartWorkers` | the checks, `DELETE FROM`, the upsert key, the threads (767-1032) |
| `GenerateRow` ... `CountGenerated` | the row loop of the executor and the consumer (1207-1218) |
| `CloseQueue` ... `Report` | 1219-1296 |
| `CheckStop`, `PopRow`, `FinalBatch` | the loop of a writer (1179-1192) |
| `Adapt*` ... `AccountBatch` | `process_batch` (1037-1177) |
| `EndRun` ... `Disconnect` | 1194-1203 |
| `RegisterErrorAndHandlePolicy`, `RegisterErrorAndStop` | `register_error` with `handle_policy` or `stop.store(true)` |

The database is external and modelled by what `generate` relies on. `tx[w]` is the
transaction of a connection, `pending[w]` the rows written in it, `table` the copies of
each row that others can see. A statement writes all its rows or none. COMMIT may fail. A
connection may be lost under any call, before or after the server carried it out: the
answer to a COMMIT, or to a statement in autocommit (`transaction_mode` none, and always on
Oracle, which gets no BEGIN), is then missing although the rows are in the table, which
`unanswered` records. A failed statement may leave the transaction as it is, abort it
(PostgreSQL) or end it (`undo`: a deadlock on MySQL, a full disk on SQLite). ROLLBACK may
fail, its outcome is ignored by the code, and the next BEGIN then meets an open transaction:
MySQL commits it, PostgreSQL stays in it, SQLite refuses. The disk may fill up while a load
file is written, which the code does not notice (`short_write`): the file then has the first
rows of the batch only (`file_rows`), the server loads those, and `left_out` records the
others, which are counted with them. `unanswered` and `left_out` are for the properties; no
action depends on them. Which calls may fail is part of a configuration (`faults`); each may
fail any number of times. A row is its index: values play a role only in conversion, which
succeeds or fails. The progress thread, the rate limit and the wording of messages are
left out, since nothing the import decides depends on them. An exception that escapes a
writer's thread terminates the process and is not modelled.

`ImportContract` is what a caller may rely on, without threads and batches: sets of rows
land in the table, each row once; if the run is one transaction they land in one step;
then the call returns or fails, and nothing lands after that. The number returned is that of
the rows in the table, without those of unanswered statements (`LandUnanswered`), which a run
of one transaction has none of, and with those left out of load files (`Land`).
`ImplementsContract` is the refinement: `table`, `result` and the two accounts are mapped to
themselves, and every other step of the import is a stutter.

### Executor

`generate_with_consumer`: the number of threads, the fallback to one, the ranges, the
loops. `start` advances as workers are spawned, and the first of them run while the others
are still being created. `generate_sequential` is the same loop over all rows, and is
worker 0 of a call with one thread. The consumer accepts, refuses or throws.

### OverrideRules

One field over one run. A draw of `roll_remaining` goes either way unless the quota left
is zero or fills the rows left. `IntMax` scales int down so that overflow is in reach;
a product that overflows is undefined behaviour, modelled as the exact or the wrapped
product. The branch for an unknown number of rows is left out: the executor always passes
the number, and it is at least 1.

`SequenceGenerator` adds the one generator that keeps a value from row to row: its state is
that of its overrides and `current_`, `generate` does not touch `current_` and `next`
advances it. `LongMax` scales `int64_t` down; a sum that overflows is the exact or the
wrapped sum.

### LinkedContext

The fields with a `group`, over one run of the sequential loop, the only one the executor
allows them. `shared[k]` is the `Shared...Context` of a module and a group: what
`merge_config` has collected, whether the context exists and from what it was made, how
many records have been drawn, and `next_called_`. Construction (`BuildLinked`,
`BuildConflict`) precedes the rows; `materialize_row` is one action per field for
`generate` (`GenerateOverride`, `GenerateOwn`, `GenerateLinked`, `GenerateMissing`) and one
per field for `next` (`NextField`). The five modules differ in their generators, in the
options they merge, in whether `unique` counts, and in what is required before a context
can be made; everything else is the same code five times, and is one definition here,
mapped to one of the files. Which generators and options each module has is
`LinkedModules`, which `GeneratorFactory` shares. A record is the number of draws, an option is a pair of a name
and a parsed value, and a row applies an override or not.

### The commands around one document

`Commands` is the work with one configuration file. `datagen init` writes it, its author
changes it, `datagen check` judges it, and `datagen run` reads it and produces its output.
Each is a process of its own; what they share is the document, the output file, the tables
of the database and the logs. These modules hold what the commands compute:

| Module | Code |
|---|---|
| `GeneratorCatalog` | the entries of `build_catalog`: options with kind, requirement, default; `unique`, `group` |
| `Configuration` | `parse_generation_config`: `Issues` is what it reports, `GenerationConfig` what it reads, `Presets` and `DatabaseOutput` the settings of an import |
| `ConfigSchema` | the JSON Schema that `datagen schema` builds and a validator's verdict on a document (`SchemaAdmits`) |
| `GeneratorFactory` | what the constructors of the generators refuse (`Constructs`), and whether one row can be generated (`PreviewRowWorks`), or as many as a run has surely (`RowsWork`) or possibly (`RowsMayWork`) |
| `TableSchema` | `classify_column_type`, `validate_table_schema`, `DefaultTypeAdapter::adapt` |
| `InitFields` | the documents init writes: templates, and fields inferred from columns |
| `OutputFile` | header, rows and footer of a file in each format, as tokens; what preview prints |

A document is a tree for its root and one for each field, a function from paths to values
whose domain has the prefixes of its paths (`IsTree`, `IsDocument`); a value has the kind that
the JSON library gives it, and its text, number or items as far as the code looks at them. An
author who changes a member of something that is no object changes nothing, so that a
document stays one. `++` and `At` put trees together: what `@@` and `:>` of the module TLC do,
with definitions that a proof can use. The tables of aliases and keywords with which init guesses a generator from
a column's name are abstracted to what the name finds in them: `exact`, `alias`, `scores` and
`similar` are part of a column. A tie of scores, which a hash table breaks, is a choice.

What the constants may be is said by named assumptions next to them, which TLC evaluates in
every run and the proofs cite. `TablesAssumption`: a table has a name and its columns are
described as `IsColumn` says, with no length or precision below zero and no empty enum value.
`EditsAssumption`: what the author writes is a JSON value below the root. `IntMaxAssumption`
asks that int has 16 bits at least, and `DigitsAssumption` that the largest bound init writes
for an integer fits one. The others say that the bounds are numbers, that a connection is not
the empty string and that the pattern of the catalog parses.

| Actions of `Commands` | Code |
|---|---|
| `InitFile`, `InitDatabase`, `InitFromTable` | `CommandInit::run` |
| `EditRoot`, `EditField`, `WriteField` | the author, from a menu of changes |
| `CheckRefuses`, `CheckPasses` | `CommandCheck::run`; its row is tried, its connection may fail |
| `RunRefused`, `RunMisused`, `NoWorkspace`, `RunBegins` | `CommandRun::run` up to its backend, with `--rows` |
| `EstimateFails` ... `FinishFile` | `FileBackend::generate`: the stream may fail at any write and is looked at once |
| `NoConnection` ... `StartImport` | the set-up of `DatabaseBackend::generate`: connection, table, columns, schema, DELETE, upsert key |
| `ImportError`, `ImportReturns`, `ImportThrows` | the import as one phase: what it logs and how it ends; its steps are in `DatabaseBackend` |
| `Handler` | the `catch` of `CommandRun::run` with the logger's `error_emitted_` |
| `Kill` | the process dies while it writes |

## Runs

| Run | Instance | Shows |
|---|---|---|
| `Imports` | 4 rows, batches of 2, queue of 1, 2 writers; 9 configurations (mode x policy) with failures of connect, begin, conversion, statements (with and without the transaction they are in), commit, lost answers, rollback, generator; 10 over SQLite, MySQL, PostgreSQL, Oracle with load files, short ones too, fallback, truncate, upsert | types, no row twice, what the report counts, no loss but to a short load file, per-run atomicity, counters, load files removed, checks before the DELETE, the contract |
| `ImportEnds` | 3 rows; queue of 1 with all configurations that carry on, queue of 3 with every mode and policy and failures of all calls | failing batches neither stop nor fail a run that carries on; the run ends whatever fails, and no writer begins a batch after a stop |
| `ExecutorCalls` | 1 to 6 rows, up to 3 threads, every reason for the fallback, refusals and exceptions | partition, order, count, exceptions; loops end after a cancellation, the call ends |
| `LinkedRecords` | all lists of two, and of three, out of six location fields, five person, payment and business fields and six file fields; 1 to 3 rows | one record per row and group, none twice, none wasted, options of all fields used, contradictions refused in any order |
| `OverrideQuotas` | 1 to 7 rows, 13 x 13 rules, 10 sequences | shares of nulls and defaults; a sequence shows the number of its row |
| `Configurations` | every template, six tables of up to twelve columns, one change out of a menu, up to 2 rows into a file and more than a quota holds into a database, `--rows` given, missing or negative; every failure of file and database | init writes what schema, reader and generators accept; inferred fields fit their columns; the schema admits nothing the reader refuses; a quiet check foretells the run; settings are used as written; a successful file is whole; a failure is told once; a refused run keeps what was there |

Bounds. Four rows with batches of two give two full batches to two writers, a full and an
incomplete one to one, or an incomplete one to each. A queue of one makes both sides wait; a
queue that holds all rows never makes the generating thread wait. Two writers are enough for
a notification to reach the wrong one and for one to stop while the other holds half a
batch. Six rows over three threads divide and do not divide, and leave threads without a
row to spare. Three rows let a record come back after a row in which nobody drew; three
fields give a group two members in any order, with a stranger between them. Seven rows pass the
end of the sequences, met exactly or jumped over, and one of them cannot take its last step
without overflow. Otherwise the counters of these runs are bounded by the number of rows.

In `Configurations`, `MaxEdits = 1`: the checks of the reader and of the schema look at one
setting or at two that belong together, and a change of two such at once is one entry of the
menu. The menu has values that pass and values that do not: absent, null, of the wrong kind,
out of range, unknown, empty, and numbers that `get<int>` narrows. The tables have columns of
every family, with and without precision, scale and length, names that find a generator
exactly, by an alias, by score and by a tie, and one whose generator is wrong for it.
`MaxRows = 2` tells a first row of a file from a later one, with and without a separator; an
import is one phase whatever its rows, so that 2, 100 and 400 of them are tried, of which only
the last overflow a quota with `IntMax = 32767`;
`MaxErrors = 2` tells an error logged before from the one that ends the run. `IntMax`,
`IntDigits` and `LongDigits` scale int and the largest bounds that init writes down to what
TLC's integers hold. In this run deadlock is not checked, for nothing follows the end of a
run.

Deadlock is checked in every other run; `Ended` is the stutter of a call that has ended, so a
state where everybody waits is a deadlock, except that a wakeup without a notification is
always possible to a waiting thread. That is why hangs are looked for with `Termination`,
under fairness that never promises such a wakeup.

Fairness. `FairSpec` asks for weak fairness of the calling thread and of each writer
(of each worker in `Executor`): the operating system schedules threads that can run, and
calls of the driver, the generator and the consumer return. It does not ask that a call
succeeds, nor that a waiting thread wakes up by itself.

### Where the code and its documents differ

- `FullQueueHang`: with a queue smaller than the rows to come, a stop that a writer raises
  while the generating thread waits for room leaves it waiting for ever: the store to `stop`
  is not followed by a notification of `can_push_`, and nobody pops any more. `README.md:145`
  calls the size of the queue "not a correctness knob"; `README.md:162` says a `stop` stops
  immediately. `ImportEnds` shows that the size of the queue is all it takes.
- `ShortLoadFile`: the stream of a load file is asked whether it is good after it was opened,
  and not after the rows were written (`database_backend.cpp:1118-1119`). With a full disk the
  server loads a file that was cut short, the whole batch is counted and nothing is logged;
  `tests/test_database_backend.cpp:148-149` expects as many rows in the table as are reported.
  `ReportedRowsAreInTable` is what does hold.
- `CommitFailureStops`: a failed COMMIT stops the run whatever the policy
  (`README.md:161-163`).
- `OracleRollback`: on Oracle a per-run import in the rollback policy leaves the rows of
  earlier batches (`README.md:166`), for the connection is in autocommit.
- `DefaultShareMissed`: with nulls enabled, fewer defaults than their percentage
  (`README.md:190`). `DefaultShareIsKept` is what does hold.
- `NullShareOverflows`: above 2147483647 / 100 rows a field with 100% nulls may get none
  (`README.md:191`). If it needs an option that its group lacks, check passes without a word,
  for its one row is null, and the run fails in the middle; `CheckForetellsRun` excepts it.

Two more differences have no run of their own. A document that does not name a table is run
against `generated_data` (`DefaultTable` in `Configuration`), although `README.md:111` says that
`table` is required: the check for an empty table (`configuration.cpp:603`) cannot fail, for an
empty string is refused before it. The other is `Undoable`, below among the conditions of the
theorems.

## Proofs

TLC has checked every property below on the instances above, and each inductive invariant
on the same configurations before it was proved; the theorems hold for every value of the
constants that satisfies the assumptions named in the modules. Every listed theorem is in
`PROJECT.json`. A theorem with a condition of its own is marked; the conditions are below.

**The import.** Two modules, one on top of the other.

- `DatabaseBackendProofs`: `TypeCorrect` (`TypeOK` is inductive; its conjunct
  `disk \subseteq temp_files` says that a load file on disk is one that will be removed) and
  `NoRowTwiceHolds`. A row is in the table once because it was in one batch once, and there
  because it was in the queue once. `RowInv` places each row: not generated yet
  (`RowsToCome`), in the queue once and in no batch (`QueuedRows`), in one writer's batch
  (`BatchesDisjoint`), and neither in the table nor a transaction nor left out of a load file
  while its batch is still to be written (`BatchesToWrite`); a row left out stays out
  (`LeftOutStaysOut`). Each action moves a row at most one place further.
- In the same module: who has stopped, and why. `ControlInv` has five parts: `Flags`
  (a stop comes from an error that was registered), `Beginning` and `NotClearedYet` (nothing
  has happened before the writers start, and a call that is refused has not run its
  `DELETE`), `Course` (how far the calling thread is tells what the writers have done: it
  joins them only with the queue closed, and closes it only after the last row or a stop),
  and `WriterCourses` (a writer leaves its loop because of a stop or because the queue is
  closed and empty). From it follow `TempFilesRemovedHolds` and
  `ChecksComeBeforeClearingHolds`. `CountersAgreeHolds` needs a witness: `ImportedInv` says
  that there is a set of as many rows as `rows_imported` that have left the queue and are in
  no batch still to be counted; it grows by a batch when a writer counts one.
  `BatchErrorsDoNotStopHolds` (condition `Harmless`) rests on `CarriesOn`: no stop, no
  failed result, and outside a batch no open transaction (a BEGIN within one would fail).
  `StopEndsTheLoopHolds` is an action property, proved from a per-writer invariant.
- `DatabaseAccountsProofs`: what lands and what is reported. A row is `Written` if it is in
  the table or in a transaction and its statement was answered, or if a load file left it
  out. `Transactions` says what a writer's connection holds at each of its places
  (`Transaction`) and that a run of one transaction stays in it (`RunTransaction`); from it
  follows that a BEGIN finds nothing to commit (`BeginMovesNothing`), whatever became of the
  ROLLBACK before. `NothingLost`: without an error each generated row is in the queue, in a
  batch or written. `Accounts`: `rows_imported` is the number of rows written whose batch is
  already counted, unless the run has stopped or lost its one transaction (`CountsRight`).
  `AllOrNothing`: a run of one transaction has rows in the table only when every writer is
  past its loop. They give `NormalReturnIsCompleteHolds`, `ReportedRowsAreInTableHolds`
  (`~Lossy`), `PerRunAtomicHolds` (`~Undoable`) and `ImplementsContractHolds` (`~Lossy`), the
  refinement: the initial states map to initial states of `ImportContract`, and each action is
  one of its steps or a stutter.

**The executor.** `ExecutorProofs!TypeCorrect` and `EachRowOnceHolds`: worker `n` begins at
`n * base + min(n, rem)` (`FirstRow`), hence the ranges follow each other and the last
ends where the rows end (`FirstRowNext`, which rests on `Division` and `Monotone`); hence
they are disjoint (`Ranges`); a worker that has not passed a row of its range has not
delivered it, and nobody else can (`RowsToCome`). The rest follows from `WorkInv`:
`Progress` (what a worker has taken of its range was delivered, and it stops short of the
end only if the call is cancelled), `Covered` (every row handed out so far is in some
worker's range), `Outcome` (an exception is kept, a cancellation has a cause) and
`CounterTells` (the shared count is the number of rows counted). It gives `NoGapsHolds`,
`NoExceptionLostHolds` and `ReturnTellsTheTruthHolds`. `CancelEndsTheLoopsHolds` is an
action property: a worker between two rows of a cancelled call stays there
(`StaysBetweenRows`).

**Overrides and sequences.** `OverrideRulesProofs!TypeCorrect` needs no condition, also
where a product overflows. With `NoOverflow`, `NullShareHolds` follows from `NullQuotaInv`
(nulls so far and the quota left make up the share, and the quota left fits the rows left),
`QuotasFitHolds` and `DefaultShareHolds` from `QuotasInv`, which adds the defaults: they lag
behind the rows left by as many as there have been nulls, and by no more.
`SequenceHolds`: `SequenceInv` says that `current_` is the number of
the row, `NumberOf(row_index)`, as long as that fits an `int64_t`; the step is `NextNumber`,
which rests on lemmas about division. `SequenceQuotasHold` carries the shares over: a step
of the sequence is a step of its rules or refuses the field.

**Linked contexts.** `LinkedContextProofs`: `ConflictsRefusedHolds` and
`MadeFromAllOptionsHolds` follow from `OptionsInv`: a context has merged exactly what the
fields constructed so far want (`MergedIsWanted`), these do not contradict each other
(`NoClashYet`), and a context is made only after all of them (`MadeFromMerged`).
`MissingOptionsRefusedHolds` adds `MissingInv`: a group that lacks an option is never made.
`OneRecordPerRowHolds` and `NoRecordTwiceHolds` follow from `RecordsInv`: while a row is
generated, `next_called_` tells whether the latest record belongs to this row (`ShownNow`,
`LaterThanBefore`), and when the row is over every context that was asked still has a field
that will reset it (`ResetsToCome`), so that the next row begins with none.
`NoRecordWastedHolds` counts: `DrawsInv` says that a group has drawn as many records as
there are rows that show it.

**The commands.** Three modules: `FieldProofs` is about the fields that init writes,
`DocumentProofs` about whole documents, `CommandsProofs` about the steps. All eight invariants
of `Configurations` and its action property are proved.

- What is read of a document is a function of it, and a run reads what check has judged.
  `RunInv` (a run in its output has read its document, has chosen that output and has made one
  row; one that has matched its columns fits the table; a quiet verdict is that of the document
  as it is) gives `RefusedRunKeepsDataHolds`, an action property, and
  `CheckForetellsRunHolds`. `SettingsAsWrittenHolds` follows the three places of a setting
  through the reader.
- `TypeCorrect`: `TypeInv` has a part for the documents, the run, the output and the logs
  (`DocumentTypes`, `RunTypes`, `OutTypes`, `LogTypes`). That a document stays one under every
  change is `DocumentTypes`; that the fields a run has read are finitely many is `RunTypes`
  (`SpecsCounted`).
- `FailureIsToldHolds`: `LogInv` (nothing is logged before the import, and `error_emitted_`
  tells whether the import logged) with `TypeInv`.
- `FinishedFileIsCompleteHolds`: `FileInv` says that a stream that has not failed holds
  the header and exactly the rows generated so far (`RowsWritten`). The step is `RowPartGrows`,
  the last one `WholeIsWhole`; `RowsTogether` takes what `FlattenSeq` puts together apart.
- `SchemaImpliesCheckHolds` takes the checks of the reader one by one and shows for each that a
  document which fails it is not admitted (`ShapeFits`, `FieldIsRead`, `DatabaseIsRead`,
  `FileIsRead`, `OutputIsRead`).
- `InitIsUsableHolds`: `WrittenInv` says that a document nobody has changed is one of those
  init can write. Such a document is `WellWritten`: its root has what schema and reader
  demand (`Ready`), and each field is made for a generator of the catalog with a configuration
  that its constructor takes (`GoodFields`). That holds of each entry of the catalog
  (`EntriesFit`, checked entry by entry and carried over `++`) and of each column, whatever
  generator its name has found. Fields of one group agree, since init writes the same value
  for an option wherever it occurs (`IsStandard`).
- `InferredFieldsFitHolds` (`NamesDiffer`): by the family of the column's type, the field that
  the type alone suggests passes `validate_table_schema` and each value it yields converts.
- Induction: the library's theorems take a predicate as a parameter, which the provers cannot
  instantiate. `FieldProofs` begins with forms of induction that they can: the numbers with the
  property are a set (`EveryNumber`, `UpTo`), from the least element of a well-founded order,
  and the step of a recursion is a function (`Recursion`).

Conditions of theorems:

- `Harmless`: conversions, statements and the setting `local_infile` may fail, but no BEGIN,
  COMMIT or load file, after which the code stores `stop` whatever the policy
  (`CommitFailureStops` shows the COMMIT).
- `~Undoable`: not a per-run import that continues after a failed statement which may have
  ended its transaction, on MySQL or SQLite. The code does not ask whether its transaction is
  still there: earlier batches are gone although they are counted, and later ones are committed
  one by one, which is not the one transaction of `README.md:155`.
- `~Lossy`: neither that nor a per-run import that continues on PostgreSQL, where a failed
  statement leaves a transaction that the COMMIT rolls back. The runs leave both out (see
  *Not modelled*).
- `NoOverflow`: rows * 100 fits an int for every field; `NullShareOverflows` shows what
  happens otherwise. In `SequenceHolds` the property itself says where the numbers fit.
- `NamesDiffer`: tables are told apart by their names and the columns of one by theirs, in
  any case of the letters. Of two columns `a` and `A`, which a database may hold when names are
  quoted, the validator takes the last for both, and a field inferred from the other need not
  fit it. `MCCommands` assumes it of its tables, and TLC evaluates that.

Only model-checked: `Termination` of the import and of the executor, which holds under
fairness.

## What the properties of `Configurations` leave out

Writing the descriptions of a document down shows where they differ. The properties say
what does hold, and their conditions name the differences:

- The schema admits the keys `supports_unique` and `supports_group` in a field, which the
  reader refuses as unknown; and it admits `5.0` for an integer, and integers that `get<int>`
  narrows below their minimum. `SchemaImpliesCheck` excepts them.
- check says nothing of a document without `output.type` or without a file's format, which
  run refuses; `CheckForetellsRun` speaks of documents that have them (`OutputIsChosen`).
- A run into a database tries no row before it empties its table: a file field that lacks
  an option of its group and is overridden in some rows only fails in the first that is not.
  check refuses it (`CheckForetellsRun`); `RefusedRunKeepsData` says what the run itself keeps.
  Two rules of 50% may by luck override every row, and are refused likewise, for no rule is
  sure of the one row of a check; one rule of 100% is, and then overrides every row of the run
  unless `total_rows * percentage` overflows (`QuotaIsKept`). Above that number of rows, 21474836
  for an int of 32 bits, a quiet check foretells only that the generators are constructed.
- What init infers from a name may not fit the column, and no generator yields bytes;
  `InferredFieldsFit` speaks of fields inferred from the type alone. It says that the type
  adapter converts the value; whether the number then lies in the range of its column is up to
  the database, whose display widths and integer types the adapter does not look at.
- init writes the settings of the balanced mode out under `advanced`, so a change of `mode`
  alone changes nothing. `SettingsAsWritten` says which of the three places wins.

## Not modelled

Each component that is left out is in `PROJECT.json` with the reason. In short: printing,
parsing of arguments, prompts, descriptions of generators, the tables of aliases and
keywords of init, random values, the characters of values with their quoting in files and
statements, and the calls of ODBC and SQLite themselves. Records of linked fields come from
the faker library. `generate_to_stream` of the executor and the branches of the overrides
for an unknown number of rows are reached by tests only. In the import, PostgreSQL with
`per-run` and `continue` is left out of `MCDatabases`: whether a failed statement
there undoes the batches before it is up to a setting of the ODBC driver (savepoints per
statement), which the program does not make.

## Plan

1. Done: the import with its queue and contract, the executor, the override rules and the
   sequence, the linked contexts; configuration, catalog, constructors, schema, init, check,
   run, file output.
2. `QueueClients`: the queue with several producers and consumers and its specification as a
   bounded buffer.
3. Proofs: done for every safety property and action property that a run checks, and for the
   refinement of `ImportContract`. Left: the queue as a bounded buffer.
