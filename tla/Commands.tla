------------------------------ MODULE Commands ------------------------------
(***************************************************************************)
(* The work with one configuration file: "datagen init" writes it, its     *)
(* author changes it, "datagen check" judges it and "datagen run" reads it *)
(* and produces its output (src/src/cli/command_{init,check,run}.cpp,      *)
(* src/src/output/file_backend.cpp, the set-up of                          *)
(* src/src/output/database_backend.cpp and src/src/logging/logger.cpp).    *)
(*                                                                         *)
(* Every command is a process of its own.  What they share is the          *)
(* document, the output file, the tables of the database and the logs; the *)
(* output file and the logs are left from an earlier run.  How an import   *)
(* proceeds once its workers have started is in DatabaseBackend: here it   *)
(* is one phase, with the errors it may log.                               *)
(***************************************************************************)
EXTENDS GeneratorFactory, InitFields, ConfigSchema, OutputFile

CONSTANTS
    Tables,         \* the tables of the database
    Connection,     \* where it is
    Example,        \* the connection of a template that was given none
    RowOptions,     \* the values of --rows; 0 where it is not given
    RootEdits,      \* sequences of <<path, value>>: what the author may do to the root
    FieldEdits,     \* <<number, path, value>>: ... to a field
    FieldSwaps,     \* <<number, field>>: ... writing a field anew
    LoadSupported,  \* whether its driver supports load
    MaxEdits,       \* bound on the changes
    MaxRows,        \* bound on the rows of a run into a file
    MaxErrors       \* bound on the errors an import logs

Removed == Value("removed", "", 0, <<>>)
IsChange(path, v) == IsPath(path) /\ path # <<>> /\ (v = Removed \/ IsValue(v))

ASSUME TablesAssumption == \A table \in Tables : IsTable(table)
ASSUME ConnectionAssumption == Connection # "" /\ Example # ""
ASSUME OptionsAssumption == \A n \in RowOptions : n \in Int /\ n <= IntMax
ASSUME BoundsAssumption == {MaxEdits, MaxRows} \subseteq Nat /\ MaxErrors \in Nat \ {0}
ASSUME EditsAssumption ==
    /\ \A changes \in RootEdits :
           /\ DOMAIN changes = 1 .. Len(changes) /\ Len(changes) \in Nat
           /\ \A n \in DOMAIN changes : IsChange(changes[n][1], changes[n][2])
    /\ \A edit \in FieldEdits : IsChange(edit[2], edit[3])
    /\ \A edit \in FieldSwaps : IsTree(edit[2])

VARIABLES
    document,       \* the configuration file
    origin,         \* what wrote it last
    edits,          \* the number of changes so far
    verdict,        \* of the last check of the document as it is
    pc,             \* where the run is
    cfg,            \* what it has read
    content,        \* what it has written to its output stream
    good,           \* the stream has not failed
    generated,      \* the rows generated
    disk,           \* the output file
    cleared,        \* the run has emptied its table
    errors,         \* the error log
    emitted,        \* error_emitted_ of the logger
    ended           \* exit code and reason of the run

fileVars == <<document, origin, edits, verdict>>
outVars == <<content, good, generated, disk, cleared>>
logVars == <<errors, emitted>>
vars == <<fileVars, pc, cfg, outVars, logVars, ended>>

Origins == {"nobody", "template", "inference", "author"}
Verdicts == {"none", "refused", "warned", "quiet"}
Phases == {"idle", "estimating", "writing", "connecting", "importing", "ended"}
ExitOk == 0
ExitUsage == 2
ExitFailure == 3
Killed == -1
NotEnded == [exit |-> ExitOk, reason |-> "running"]
Earlier == <<Mark("earlier")>>
NoDocument == [root |-> At(<<>>, Null), fields |-> <<>>]
NotRead == GenerationConfig(NoDocument)

Init ==
    /\ document = NoDocument /\ origin = "nobody" /\ edits = 0 /\ verdict = "none"
    /\ pc = "idle" /\ cfg = NotRead
    /\ content = <<>> /\ good = TRUE /\ generated = 0 /\ disk = Earlier /\ cleared = FALSE
    /\ errors = <<"earlier">> /\ emitted = FALSE /\ ended = NotEnded

(***************************************************************************)
(* init                                                                    *)
(***************************************************************************)
Write(doc, author) ==
    /\ document' = doc /\ origin' = author /\ verdict' = "none"
    /\ UNCHANGED <<edits, pc, cfg, outVars, logVars, ended>>

TableNames == {DefaultTable} \cup {t.name : t \in Tables}

InitFile(format, table) ==
    /\ pc = "idle" /\ origin = "nobody"
    /\ Write(FileDocument(format, table), "template")

(* With at most one of --from-database and --table.                        *)
InitDatabase(connection, table) ==
    /\ pc = "idle" /\ origin = "nobody"
    /\ connection = Example \/ table = DefaultTable
    /\ Write(DatabaseDocument(connection, table), "template")

InitFromTable(table, generators) ==
    /\ pc = "idle" /\ origin = "nobody"
    /\ Write(InferredDocument(Connection, table, generators), "inference")

(***************************************************************************)
(* The author.                                                             *)
(***************************************************************************)
Changed(obj, path, v) ==
    LET kept == [p \in {q \in DOMAIN obj : ~IsPrefix(path, q)} |-> obj[p]]
    IN IF ~IsObject(obj, Front(path)) THEN obj
       ELSE IF v = Removed THEN kept ELSE At(path, v) ++ kept

Edit(doc) ==
    /\ pc = "idle" /\ origin # "nobody" /\ edits < MaxEdits
    /\ doc # document
    /\ document' = doc /\ origin' = "author" /\ edits' = edits + 1 /\ verdict' = "none"
    /\ UNCHANGED <<pc, cfg, outVars, logVars, ended>>

EditRoot(changes) ==
    LET after[n \in 0 .. Len(changes)] ==
            IF n = 0 THEN document.root ELSE Changed(after[n - 1], changes[n][1], changes[n][2])
    IN Edit([document EXCEPT !.root = after[Len(changes)]])

EditField(i, path, v) ==
    i \in DOMAIN document.fields /\ Edit([document EXCEPT !.fields[i] = Changed(@, path, v)])

WriteField(i, field) ==
    i \in DOMAIN document.fields /\ Edit([document EXCEPT !.fields[i] = field])

(***************************************************************************)
(* check                                                                   *)
(***************************************************************************)
Check(outcome) ==
    /\ pc = "idle" /\ origin # "nobody" /\ verdict = "none"
    /\ verdict' = outcome
    /\ UNCHANGED <<document, origin, edits, pc, cfg, outVars, logVars, ended>>

TestsConnection ==
    /\ OutputType(document.root) = "database"
    /\ DatabaseOutput(document.root).connection # ""

CheckRefuses ==
    /\ \/ ~Accepted(document, "Allow")
       \/ ~PreviewRowWorks(FieldSpecs(document))
       \/ TestsConnection                 \* and the connection fails
    /\ Check("refused")

(* Mutant of CheckPasses: no row is generated.                             *)
CheckPassesUntried ==
    /\ Accepted(document, "Allow")
    /\ Check(IF Issues(document, "Allow") = {} THEN "quiet" ELSE "warned")

(* The further warnings of a database without connection or table are also *)
(* issues of the reader.                                                   *)
CheckPasses ==
    /\ Accepted(document, "Allow")
    /\ PreviewRowWorks(FieldSpecs(document))
    /\ Check(IF Issues(document, "Allow") = {} THEN "quiet" ELSE "warned")

(***************************************************************************)
(* The end of a run.  The handler in CommandRun::run logs the exception    *)
(* unless an error has been logged before; error_emitted_ tells.           *)
(***************************************************************************)
EndsWith(exit, reason) == pc' = "ended" /\ ended' = [exit |-> exit, reason |-> reason]

(* Mutant of Handler: the handler logs every exception.                    *)
HandlerLogsAgain(reason, log, logged) == errors' = Append(log, reason) /\ emitted' = FALSE

Handler(reason, log, logged) ==
    /\ errors' = IF logged THEN log ELSE Append(log, reason)
    /\ emitted' = FALSE

(* An exception that nobody has logged, and one logged where it is thrown. *)
Throws(reason) == EndsWith(ExitFailure, reason) /\ Handler(reason, errors, emitted)
LogsAndThrows(reason) ==
    EndsWith(ExitFailure, reason) /\ Handler(reason, Append(errors, reason), TRUE)

(* The stream is closed: what it still holds reaches the file if it can.   *)
CloseStream == disk' \in (IF good THEN {content} ELSE Prefixes(content))

(***************************************************************************)
(* CommandRun::run                                                         *)
(***************************************************************************)
RunStarts == pc = "idle" /\ origin # "nobody" /\ UNCHANGED <<fileVars, outVars>>

RunRefused ==
    /\ RunStarts /\ ~Accepted(document, "Require")
    /\ EndsWith(ExitFailure, "refused")
    /\ UNCHANGED <<cfg, logVars>>

RunMisused(n) ==
    /\ RunStarts /\ n < 0 /\ Accepted(document, "Require")
    /\ EndsWith(ExitUsage, "usage")
    /\ UNCHANGED <<cfg, logVars>>

(* A workspace that cannot be made ends the run before it has logs.        *)
NoWorkspace ==
    /\ RunStarts /\ Accepted(document, "Require")
    /\ EndsWith(ExitFailure, "workspace")
    /\ UNCHANGED <<cfg, logVars>>

(* configure_generate_logs empties both logs.                              *)
RunBegins(n) ==
    /\ RunStarts /\ n >= 0
    /\ Accepted(document, "Require")
    /\ cfg' = Overridden(GenerationConfig(document), n, "output")
    /\ errors' = <<>> /\ emitted' = FALSE
    /\ pc' = IF cfg'.type = "database" THEN "connecting" ELSE "estimating"
    /\ pc' = "estimating" => cfg'.rows <= MaxRows
    /\ UNCHANGED ended

(***************************************************************************)
(* FileBackend::generate.  estimate_row_size generates a row before the    *)
(* file is opened, and the prompt may be declined.                         *)
(***************************************************************************)
EstimateFails ==
    /\ pc = "estimating" /\ ~PreviewRowWorks(cfg.fields)
    /\ Throws("row") /\ UNCHANGED <<fileVars, cfg, outVars>>

NotOpened(reason) ==
    /\ pc = "estimating" /\ PreviewRowWorks(cfg.fields)
    /\ Throws(reason) /\ UNCHANGED <<fileVars, cfg, outVars>>

(* Mutant of OpenFile: no row is tried before the file is opened.          *)
OpenFileUntried ==
    /\ pc = "estimating" /\ pc' = "writing"
    /\ content' = Opening(cfg.file) /\ disk' = <<>>
    /\ UNCHANGED <<fileVars, cfg, good, generated, cleared, logVars, ended>>

OpenFile ==
    /\ pc = "estimating" /\ PreviewRowWorks(cfg.fields) /\ pc' = "writing"
    /\ content' = Opening(cfg.file) /\ disk' = <<>>
    /\ UNCHANGED <<fileVars, cfg, good, generated, cleared, logVars, ended>>

(* Mutant of WriteRow: a row too many.                                     *)
WriteRowOnceMore ==
    /\ pc = "writing" /\ generated <= cfg.rows
    /\ generated' = generated + 1
    /\ content' = content \o RowTokens(cfg.file, generated)
    /\ UNCHANGED <<fileVars, pc, cfg, good, disk, cleared, logVars, ended>>

(* A write to a stream that has failed does nothing, and nobody looks.     *)
WriteRow ==
    /\ pc = "writing" /\ generated < cfg.rows
    /\ generated' = generated + 1
    /\ \/ good /\ content' = content \o RowTokens(cfg.file, generated) /\ good' = TRUE
       \/ content' = content /\ good' = FALSE
    /\ UNCHANGED <<fileVars, pc, cfg, disk, cleared, logVars, ended>>

GeneratorThrows ==
    /\ pc = "writing" /\ generated < cfg.rows
    /\ CloseStream /\ Throws("generator")
    /\ UNCHANGED <<fileVars, cfg, content, good, generated, cleared>>

(* Mutant of FinishFile: the stream is not looked at after the flush.      *)
FinishFileUnseen ==
    /\ pc = "writing" /\ generated = cfg.rows
    /\ content' = IF good THEN content \o Closing(cfg.file) ELSE content
    /\ good' \in {good, FALSE}
    /\ disk' \in (IF good' THEN {content'} ELSE Prefixes(content'))
    /\ EndsWith(ExitOk, "completed") /\ UNCHANGED logVars
    /\ UNCHANGED <<fileVars, cfg, generated, cleared>>

FinishFile ==
    /\ pc = "writing" /\ generated = cfg.rows
    /\ content' = IF good THEN content \o Closing(cfg.file) ELSE content
    /\ good' \in {good, FALSE}
    /\ disk' \in (IF good' THEN {content'} ELSE Prefixes(content'))
    /\ \/ good' /\ EndsWith(ExitOk, "completed") /\ UNCHANGED logVars
       \/ ~good' /\ Throws("flush")
    /\ UNCHANGED <<fileVars, cfg, generated, cleared>>

(* The process dies; some of what it wrote is in the file.                 *)
Kill ==
    /\ pc = "writing" /\ disk' \in Prefixes(content)
    /\ EndsWith(Killed, "killed")
    /\ UNCHANGED <<fileVars, cfg, content, good, generated, cleared, logVars>>

(***************************************************************************)
(* DatabaseBackend::generate: each step of the set-up logs its error.      *)
(***************************************************************************)
Targets == {t \in Tables : t.name = cfg.database.table}
Target == CHOOSE t \in Targets : TRUE
FieldNames == {cfg.fields[i].name : i \in DOMAIN cfg.fields}

ColumnsMatch ==
    /\ cfg.database.connection = Connection /\ Targets # {}
    /\ ColumnsFound(cfg.fields, Target.columns)
SetUp == ColumnsMatch /\ SchemaFits(cfg.fields, Target.columns)

(* determine_upsert_key_indexes                                            *)
HasUpsertKey ==
    \/ \E c \in ToSet(Target.columns) : c.auto_increment /\ c.name \in FieldNames
    \/ \E key \in Target.keys : key # {} /\ key \subseteq FieldNames

SetUpFails(reason) ==
    /\ pc = "connecting" /\ LogsAndThrows(reason)
    /\ UNCHANGED <<fileVars, cfg, outVars>>

NoConnection == SetUpFails("connection")
NoTable == SetUpFails("metadata") /\ cfg.database.connection = Connection /\ Targets = {}
NoColumn ==
    /\ SetUpFails("column")
    /\ cfg.database.connection = Connection /\ Targets # {} /\ ~ColumnsMatch

(* Each field that does not fit is logged.                                 *)
SchemaMisfit ==
    /\ pc = "connecting" /\ ColumnsMatch /\ ~SetUp
    /\ EndsWith(ExitFailure, "schema")
    /\ Handler("schema", errors \o [i \in 1 .. Cardinality(Misplaced(cfg.fields, Target.columns))
                                       |-> "schema"], TRUE)
    /\ UNCHANGED <<fileVars, cfg, outVars>>

DeleteFails == SetUpFails("delete") /\ cfg.database.write_mode = "truncate" /\ SetUp
NoUpsertKey ==
    SetUpFails("upsert key") /\ cfg.database.write_mode = "upsert" /\ ~HasUpsertKey /\ SetUp

StartImport ==
    /\ pc = "connecting" /\ SetUp
    /\ cfg.database.write_mode = "upsert" => HasUpsertKey
    /\ pc' = "importing" /\ cleared' = (cfg.database.write_mode = "truncate")
    /\ UNCHANGED <<fileVars, cfg, content, good, generated, disk, logVars, ended>>

(***************************************************************************)
(* The import.  Errors are logged as they occur; the first of them is      *)
(* thrown in the end if one has stopped the import.                        *)
(***************************************************************************)
InsertModeUsed ==
    IF cfg.database.insert_mode = "load" /\ cfg.database.write_mode # "upsert" /\ LoadSupported
    THEN "load" ELSE "insert"
EffectivePolicy ==
    IF cfg.database.error_policy = "rollback" /\ InsertModeUsed # "insert" THEN "stop"
    ELSE cfg.database.error_policy
GoesOn ==
    \/ EffectivePolicy = "continue"
    \/ EffectivePolicy = "rollback" /\ cfg.database.transaction_mode = "per-batch"

ImportErrors == {"generator", "batch", "worker"}
Stopped == \E e \in ToSet(errors) : e \in {"generator", "worker"} \/ ~GoesOn

ImportError(reason) ==
    /\ pc = "importing" /\ Len(errors) < MaxErrors
    /\ reason = "generator" => "generator" \notin ToSet(errors)
    /\ errors' = Append(errors, reason) /\ emitted' = TRUE
    /\ UNCHANGED <<fileVars, pc, cfg, outVars, ended>>

ImportReturns ==
    /\ pc = "importing" /\ ~Stopped /\ RowsMayWork(cfg.fields, cfg.rows)
    /\ EndsWith(ExitOk, "completed")
    /\ emitted' = FALSE /\ UNCHANGED errors        \* disable_file_logging
    /\ UNCHANGED <<fileVars, cfg, outVars>>

ImportThrows ==
    /\ pc = "importing" /\ Stopped
    /\ Throws(Head(errors)) /\ UNCHANGED <<fileVars, cfg, outVars>>

Next ==
    \/ \E format \in OutputFormats, table \in TableNames : InitFile(format, table)
    \/ \E connection \in {Connection, Example}, table \in TableNames : InitDatabase(connection, table)
    \/ \E table \in Tables : \E generators \in GeneratorChoices(table) : InitFromTable(table, generators)
    \/ \E changes \in RootEdits : EditRoot(changes)
    \/ \E e \in FieldEdits : EditField(e[1], e[2], e[3])
    \/ \E e \in FieldSwaps : WriteField(e[1], e[2])
    \/ CheckRefuses \/ CheckPasses
    \/ RunRefused
    \/ NoWorkspace \/ \E n \in RowOptions : RunMisused(n) \/ RunBegins(n)
    \/ EstimateFails \/ (\E reason \in {"declined", "open"} : NotOpened(reason))
    \/ OpenFile \/ WriteRow \/ GeneratorThrows \/ FinishFile \/ Kill
    \/ NoConnection \/ NoTable \/ NoColumn \/ SchemaMisfit \/ DeleteFails \/ NoUpsertKey
    \/ StartImport
    \/ (\E reason \in ImportErrors : ImportError(reason)) \/ ImportReturns \/ ImportThrows

Spec == Init /\ [][Next]_vars

(***************************************************************************)
(* Properties.                                                             *)
(***************************************************************************)
Running == pc \notin {"idle", "ended"}

(* Every variable keeps its type; a run generates no more rows than it was *)
(* asked for, and none before it has an output (command_run.cpp).          *)
TypeOK ==
    /\ IsDocument(document) /\ origin \in Origins /\ edits \in 0 .. MaxEdits /\ verdict \in Verdicts
    /\ pc \in Phases /\ cfg.rows \in Nat
    /\ \A token \in ToSet(content) \cup ToSet(disk) : token[2] \in 0 .. MaxRows
    /\ good \in BOOLEAN /\ cleared \in BOOLEAN /\ emitted \in BOOLEAN
    /\ generated \in 0 .. (IF pc \in {"writing", "ended"} THEN cfg.rows ELSE 0)
    /\ Len(errors) <= Max({MaxErrors, Len(cfg.fields)})
    /\ ended.exit \in {ExitOk, ExitUsage, ExitFailure, Killed}

(* What init writes, run accepts, the schema admits and the generators     *)
(* accept; a template can also be generated as it is (command_init.cpp     *)
(* against configuration.cpp, command_schema.cpp and generator_catalog.cpp,*)
(* each with its own lists of what there is).                              *)
InitIsUsable ==
    pc = "idle" /\ origin \in {"template", "inference"} =>
        /\ Accepted(document, "Require")
        /\ SchemaAdmits(document)
        /\ Constructs(FieldSpecs(document))
        /\ origin = "template" =>
              RowsWork(FieldSpecs(document), GenerationConfig(document).rows)

(* The tables have names of their own, and the columns of a table differ in*)
(* more than their case: of two that do not, the validator would take the  *)
(* last one for both.                                                      *)
ColumnsDiffer(table) ==
    \A i, j \in DOMAIN table.columns :
        LowerCase[table.columns[i].name] = LowerCase[table.columns[j].name] => i = j
NamesDiffer ==
    /\ \A s, t \in Tables : s.name = t.name => s = t
    /\ \A table \in Tables : ColumnsDiffer(table)

(* A field that init has inferred from the type of its column alone passes *)
(* the schema validator of the import, and every value it yields converts  *)
(* to the column (command_init.cpp against db_schema_validator.cpp and     *)
(* type_adapter.cpp).  Columns of bytes, for which there is no generator,  *)
(* are the exception.  The conversion is judged as the type adapter judges *)
(* it: whether the database then finds the number in the range of its      *)
(* column is its own affair.                                               *)
InferredFieldsFit ==
    pc = "idle" /\ origin = "inference" =>
        \A table \in Tables :
            table.name = DatabaseOutput(document.root).table =>
                \A i \in DOMAIN table.columns :
                    LET column == table.columns[i]
                    IN NamedGenerators(column) = {} /\ Family(column) # "Binary" =>
                          /\ SchemaFits(<<FieldSpec(document.fields[i])>>, table.columns)
                          /\ \A v \in Yields(document.fields[i]) : Converts(column, v)

(* The reader accepts every document that the schema admits, if its whole  *)
(* numbers are written as integers that an int can hold and it has none of *)
(* the keys that only the schema knows (command_schema.cpp against         *)
(* configuration.cpp).                                                     *)
PlainNumbers(obj) ==
    \A p \in DOMAIN obj : obj[p].type # "number" /\ Narrowed(obj[p].num) = obj[p].num
SchemaImpliesCheck ==
    /\ pc = "idle" /\ verdict = "none" /\ origin # "nobody"
    /\ PlainNumbers(document.root)
    /\ \A i \in DOMAIN document.fields :
           Keys(document.fields[i], <<>>) \cap {"supports_unique", "supports_group"} = {}
    /\ SchemaAdmits(document)
    => Accepted(document, "Allow")

(* Of a document that check passes without a word, run accepts what names  *)
(* its output, and no run of it fails for the construction of a generator, *)
(* nor for a missing option of a context, as long as its rows are not so   *)
(* many that the quota of a rule overflows: an import that empties the     *)
(* table first can then fill it (command_check.cpp, whose trial is of one  *)
(* row, against command_run.cpp, database_backend.cpp and the quotas of    *)
(* override_rules.cpp).                                                    *)
OutputIsChosen ==
    /\ Has(document.root, <<"output", "type">>)
    /\ OutputType(document.root) = "file" => Has(document.root, Append(FilePath, "format"))
CheckForetellsRun ==
    verdict = "quiet" =>
        /\ pc = "idle" /\ OutputIsChosen => Accepted(document, "Require")
        /\ pc = "importing" => Constructs(cfg.fields)
        /\ pc = "importing" /\ QuotaIsKept(cfg.rows) => RowsWork(cfg.fields, cfg.rows)
        /\ ended.reason # "row"

(* What a run uses is what is written: of each setting of the import the   *)
(* one under "advanced", else the one of the database, else that of the    *)
(* mode; and no run has an empty batch, an empty queue or no thread        *)
(* (parse_database_output).                                                *)
InEffect(k) ==
    LET root == document.root
        mode == IF Has(root, Append(DatabasePath, "mode"))
                THEN root[Append(DatabasePath, "mode")].text ELSE "balanced"
    IN IF Has(root, Append(AdvancedPath, k)) THEN Reading(root[Append(AdvancedPath, k)])
       ELSE IF Has(root, Append(DatabasePath, k)) THEN Reading(root[Append(DatabasePath, k)])
       ELSE Presets[mode][k]
SettingsAsWritten ==
    pc \in {"connecting", "importing"} =>
        /\ \A k \in DOMAIN AdvancedKinds : cfg.database[k] = InEffect(k)
        /\ \A k \in {"batch_size", "queue_size", "threads"} : cfg.database[k] >= 1

(* A run that reports success has written the whole file: what the preview *)
(* of as many rows shows, every row once and in order, between the         *)
(* brackets and commas of its format (file_backend.cpp, where only the     *)
(* flush after the last row is looked at).                                 *)
FinishedFileIsComplete ==
    ended = [exit |-> ExitOk, reason |-> "completed"] /\ cfg.type = "file" =>
        disk = Previewed(cfg, cfg.rows) /\ IsWholeFile(cfg.file, disk, cfg.rows)

(* A run that fails once it has its logs leaves the reason in the error    *)
(* log, and what was logged where it was thrown is not logged again        *)
(* (error_emitted_ of logger.cpp): the log has one line for the reason, or *)
(* one for each field that does not fit its column; a run that succeeds    *)
(* has logged errors only of batches its policy let it skip.               *)
FailureIsTold ==
    pc = "ended" =>
        /\ ended.exit = ExitFailure /\ ended.reason \notin {"refused", "workspace"} =>
              /\ ended.reason \in ToSet(errors)
              /\ ended.reason \notin ImportErrors =>
                    Len(errors) = IF ended.reason = "schema"
                                  THEN Cardinality(Misplaced(cfg.fields, Target.columns)) ELSE 1
        /\ ended.reason = "completed" => ToSet(errors) \subseteq {"batch"} /\ (errors # <<>> => GoesOn)

(* A run that is refused, or whose trial row cannot be generated, leaves   *)
(* the output file of an earlier run alone, and a table is emptied only    *)
(* for an import whose columns have been found to fit (file_backend.cpp,   *)
(* database_backend.cpp).                                                  *)
RefusedRunKeepsData ==
    [][/\ disk' # disk => Accepted(document, "Require") /\ PreviewRowWorks(cfg.fields)
       /\ cleared' # cleared => Accepted(document, "Require") /\ SetUp]_vars
=============================================================================
