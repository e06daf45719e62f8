---------------------------- MODULE Configuration ----------------------------
(***************************************************************************)
(* How a configuration document is read (src/src/config/configuration.cpp):*)
(* what is accepted, what each setting becomes, and what is reported.      *)
(*                                                                         *)
(* The members of an object are a function of their paths, <<>> being the  *)
(* object itself: obj[<<"file", "format">>].  A document has the members   *)
(* of its root and, for the array "fields", a sequence of objects.         *)
(***************************************************************************)
EXTENDS GeneratorCatalog, FiniteSets, FiniteSetsExt, SequencesExt

Has(obj, path) == path \in DOMAIN obj
IsObject(obj, path) == Has(obj, path) /\ obj[path].type = "object"
IsText(obj, path) == Has(obj, path) /\ obj[path].type = "string"
(* The members of an object lie in objects that it has.                    *)
IsPath(path) == path \in Seq(ToSet(path))
IsTree(obj) ==
    /\ obj = [path \in DOMAIN obj |-> obj[path]]
    /\ \A path \in DOMAIN obj : IsPath(path) /\ IsValue(obj[path])
    /\ <<>> \in DOMAIN obj
    /\ \A path \in DOMAIN obj \ {<<>>} : IsObject(obj, Front(path))
IsDocument(doc) ==
    /\ doc = [root |-> doc.root, fields |-> doc.fields] /\ IsTree(doc.root)
    /\ doc.fields = [i \in 1 .. Len(doc.fields) |-> doc.fields[i]] /\ Len(doc.fields) \in Nat
    /\ \A i \in DOMAIN doc.fields : IsTree(doc.fields[i])

Keys(obj, path) == {Last(p) : p \in {q \in DOMAIN obj \ {<<>>} : Front(q) = path}}

(***************************************************************************)
(* A finding of the reader: where, and whether it is only a warning.       *)
(***************************************************************************)
Issue(path) == [warning |-> FALSE, path |-> path]
Warning(path) == [warning |-> TRUE, path |-> path]
When(condition, x) == IF condition THEN {x} ELSE {}
IssueIf(condition, path) == When(condition, Issue(path))

(* What run demands, check and preview do without.                         *)
Demanded(mode, path) == {[warning |-> mode = "Allow", path |-> path]}

UnknownKeys(obj, path, known) == {Issue(Append(path, k)) : k \in Keys(obj, path) \ known}

(***************************************************************************)
(* What a setting may be, and what it is read as.                          *)
(***************************************************************************)
Kind(type, names, least) == [type |-> type, names |-> names, least |-> least]
Boolean == Kind("boolean", {}, 0)
AnyText == Kind("string", {}, 0)
NonEmpty == Kind("string", {}, 1)
OneOf(names) == Kind("string", names, 0)
AtLeast(n) == Kind("integer", {}, n)

Fits(kind, v) ==
    /\ v.type = kind.type
    /\ v.type = "string" /\ kind.least = 1 => v.text # ""
    /\ v.type = "string" /\ kind.names # {} => v.text \in kind.names
    /\ v.type = "integer" => Narrowed(v.num) >= kind.least

Reading(v) ==
    CASE v.type = "boolean" -> v.text = "true"
      [] v.type = "integer" -> Narrowed(v.num)
      [] OTHER -> v.text

(* Settings that are missing or do not fit keep their default.             *)
Read(obj, path, kinds, defaults) ==
    [k \in DOMAIN kinds |->
        LET p == Append(path, k)
        IN IF Has(obj, p) /\ Fits(kinds[k], obj[p]) THEN Reading(obj[p]) ELSE defaults[k]]

Misfits(obj, path, kinds) ==
    {Issue(Append(path, k)) : k \in {j \in DOMAIN kinds \cap Keys(obj, path) :
                                        ~Fits(kinds[j], obj[Append(path, j)])}}

(***************************************************************************)
(* The names of the enumerations, and the defaults of the structures.      *)
(***************************************************************************)
OutputTypes == {"file", "database"}
OutputFormats == {"csv", "json", "sql", "Tab-Delimited", "Custom"}
LineEndings == {"LF", "CRLF"}
DatabaseModes == {"fast", "balanced", "safe"}
WriteModes == {"append", "truncate", "upsert"}
InsertModes == {"insert", "load"}
TransactionModes == {"per-batch", "per-run", "none"}
ErrorPolicies == {"stop", "continue", "rollback"}

DefaultRows == 100
DefaultTable == "generated_data"

(***************************************************************************)
(* The options of a format.                                                *)
(***************************************************************************)
DelimitedOptions == [header |-> Boolean, line_ending |-> OneOf(LineEndings)]
OptionKinds(format) ==
    CASE format \in {"csv", "Tab-Delimited"} -> DelimitedOptions
      [] format = "json" -> [array |-> Boolean, include_null |-> Boolean]
      [] format = "sql" -> [table |-> NonEmpty, create_table |-> Boolean]
      [] format = "Custom" -> [delimiter |-> NonEmpty, quote |-> AnyText] ++ DelimitedOptions

DelimitedDefaults == [header |-> TRUE, line_ending |-> "LF"]
OptionDefaults(format) ==
    CASE format \in {"csv", "Tab-Delimited"} -> DelimitedDefaults
      [] format = "json" -> [array |-> TRUE, include_null |-> TRUE]
      [] format = "sql" -> [table |-> DefaultTable, create_table |-> FALSE]
      [] format = "Custom" -> [delimiter |-> ",", quote |-> "\""] ++ DelimitedDefaults

(***************************************************************************)
(* parse_file_output                                                       *)
(***************************************************************************)
FilePath == <<"output", "file">>
OptionsPath == <<"output", "file", "options">>
FormatKind == [format |-> OneOf(OutputFormats)]

Format(root) == Read(root, FilePath, FormatKind, [format |-> "csv"]).format

FileOutput(root) ==
    [format |-> Format(root), path |-> "",
     options |-> Read(root, OptionsPath, OptionKinds(Format(root)), OptionDefaults(Format(root)))]

FileIssues(root, mode) ==
    IF ~Has(root, FilePath) THEN Demanded(mode, FilePath)
    ELSE IF ~IsObject(root, FilePath) THEN {Issue(FilePath)}
    ELSE UnknownKeys(root, FilePath, {"format", "options"})
         \cup Misfits(root, FilePath, FormatKind)
         \cup IssueIf(mode = "Require" /\ ~Has(root, Append(FilePath, "format")),
                      Append(FilePath, "format"))
         \cup IssueIf(Has(root, OptionsPath) /\ ~IsObject(root, OptionsPath), OptionsPath)
         \cup UnknownKeys(root, OptionsPath, DOMAIN OptionKinds(Format(root)))
         \cup Misfits(root, OptionsPath, OptionKinds(Format(root)))

(***************************************************************************)
(* parse_database_output: the mode chooses the presets, which the settings *)
(* of the object override and those of "advanced" after them.              *)
(***************************************************************************)
DatabasePath == <<"output", "database">>
AdvancedPath == <<"output", "database", "advanced">>

AdvancedKinds ==
    [insert_mode |-> OneOf(InsertModes), batch_size |-> AtLeast(1), queue_size |-> AtLeast(1),
     threads |-> AtLeast(1), rate_limit_rows_per_sec |-> AtLeast(0)]
DatabaseKinds ==
    AdvancedKinds
    ++ [connection |-> NonEmpty, table |-> NonEmpty, mode |-> OneOf(DatabaseModes),
        write_mode |-> OneOf(WriteModes), transaction_mode |-> OneOf(TransactionModes),
        error_policy |-> OneOf(ErrorPolicies)]

Presets ==
    [fast |-> [insert_mode |-> "load", batch_size |-> 5000, queue_size |-> 5120, threads |-> 8,
               rate_limit_rows_per_sec |-> 0],
     balanced |-> [insert_mode |-> "insert", batch_size |-> 2000, queue_size |-> 2048,
                   threads |-> 2, rate_limit_rows_per_sec |-> 20000],
     safe |-> [insert_mode |-> "insert", batch_size |-> 1000, queue_size |-> 1024,
               threads |-> 1, rate_limit_rows_per_sec |-> 5000]]

DatabaseDefaults ==
    [connection |-> "", table |-> DefaultTable, mode |-> "balanced", write_mode |-> "append",
     transaction_mode |-> "per-batch", error_policy |-> "stop"]

(* Mutant of DatabaseOutput: the presets are applied last.                 *)
DatabaseOutputPresetsLast(root) ==
    LET own == Read(root, DatabasePath, DatabaseKinds, DatabaseDefaults ++ Presets["balanced"])
    IN Presets[own.mode] ++ own

DatabaseOutput(root) ==
    LET mode == Read(root, DatabasePath, [mode |-> OneOf(DatabaseModes)], DatabaseDefaults).mode
        own == Read(root, DatabasePath, DatabaseKinds, DatabaseDefaults ++ Presets[mode])
    IN Read(root, AdvancedPath, AdvancedKinds, own) ++ own

DatabaseIssues(root, mode) ==
    IF ~Has(root, DatabasePath) THEN Demanded(mode, DatabasePath)
    ELSE IF ~IsObject(root, DatabasePath) THEN {Issue(DatabasePath)}
    ELSE UnknownKeys(root, DatabasePath, DOMAIN DatabaseKinds \cup {"advanced"})
         \cup Misfits(root, DatabasePath, DatabaseKinds)
         \cup IssueIf(Has(root, AdvancedPath) /\ ~IsObject(root, AdvancedPath), AdvancedPath)
         \cup UnknownKeys(root, AdvancedPath, DOMAIN AdvancedKinds)
         \cup Misfits(root, AdvancedPath, AdvancedKinds)
         \cup UNION {Demanded(mode, Append(DatabasePath, k)) :
                        k \in {j \in {"connection", "table"} : DatabaseOutput(root)[j] = ""}}

(***************************************************************************)
(* parse_output_settings: only the output of the chosen type is read.      *)
(***************************************************************************)
OutputPath == <<"output">>
TypeKind == [type |-> OneOf(OutputTypes)]

OutputType(root) == Read(root, OutputPath, TypeKind, [type |-> "file"]).type

OutputIssues(root, mode) ==
    IF ~Has(root, OutputPath) THEN Demanded(mode, OutputPath)
    ELSE IF ~IsObject(root, OutputPath) THEN {Issue(OutputPath)}
    ELSE UnknownKeys(root, OutputPath, {"type", "file", "database"})
         \cup Misfits(root, OutputPath, TypeKind)
         \cup IssueIf(mode = "Require" /\ ~Has(root, <<"output", "type">>), <<"output", "type">>)
         \cup (IF OutputType(root) = "database" THEN DatabaseIssues(root, mode)
               ELSE FileIssues(root, mode))

(***************************************************************************)
(* validate_and_collect_fields                                             *)
(***************************************************************************)
KnownFieldKeys ==
    {"name", "generator", "config", "unique", "group", "null_value", "default_value"}
ConfigPath == <<"config">>

FieldBasics(field) ==
    IsText(field, <<"name">>) /\ IsText(field, <<"generator">>) /\ IsObject(field, ConfigPath)

KnownGenerator(field) == field[<<"generator">>].text \in Generators

FieldDetails(field) ==
    LET meta == Catalog[field[<<"generator">>].text]
        given(k, type) == Has(field, <<k>>) /\ field[<<k>>].type = type
        wrong(k, type) == Has(field, <<k>>) /\ field[<<k>>].type # type
    IN  {<<k>> : k \in Keys(field, <<>>) \ KnownFieldKeys}
        \cup When(wrong("unique", "boolean"), <<"unique">>)
        \cup When(given("unique", "boolean") /\ ~meta.supports_unique, <<"unique">>)
        \cup When(wrong("group", "string"), <<"group">>)
        \cup When(given("group", "string") /\ ~meta.supports_data_linkage, <<"group">>)
        \cup {<<"config", k>> : k \in Keys(field, ConfigPath) \ DOMAIN meta.config_template}
        \cup When(wrong("default_value", "object"), <<"default_value">>)

FieldIssues(field) ==
    IF field[<<>>].type # "object" THEN {<<>>}
    ELSE IF ~FieldBasics(field)
    THEN {<<k>> : k \in {j \in {"name", "generator"} : ~IsText(field, <<j>>)}}
         \cup When(~IsObject(field, ConfigPath), ConfigPath)
    ELSE IF ~KnownGenerator(field) THEN {<<"generator">>}
    ELSE FieldDetails(field)

(* A field that is collected, as the rest of the program knows it.         *)
NoGroup == ""
LinkageKey(field) == IF IsText(field, <<"group">>) THEN field[<<"group">>].text ELSE NoGroup

FieldSpec(field) ==
    [name |-> field[<<"name">>].text, generator |-> field[<<"generator">>].text, raw |-> field,
     group |-> LinkageKey(field),
     unique |-> Has(field, <<"unique">>) /\ field[<<"unique">>] = Flag(TRUE)]

Collected(field) == field[<<>>].type = "object" /\ FieldBasics(field) /\ KnownGenerator(field)

(* Those of the fields that are collected, in their order.                 *)
FieldSpecs(document) ==
    LET collected == {i \in DOMAIN document.fields : Collected(document.fields[i])}
        nth(n) == CHOOSE i \in collected : Cardinality({j \in collected : j <= i}) = n
    IN [n \in 1 .. Cardinality(collected) |-> FieldSpec(document.fields[nth(n)])]

FieldsPath == <<"fields">>
FieldsIssues(document) ==
    IF ~Has(document.root, FieldsPath) \/ document.root[FieldsPath].type # "array"
    THEN {Issue(FieldsPath)}
    ELSE IssueIf(\A i \in DOMAIN document.fields : ~Collected(document.fields[i]), FieldsPath)
         \cup UNION {{Issue(FieldsPath \o <<ToString(i)>> \o p) : p \in FieldIssues(document.fields[i])} :
                        i \in DOMAIN document.fields}

(***************************************************************************)
(* parse_generation_config.  Mode "Require" is that of run, "Allow" that   *)
(* of check and preview.                                                   *)
(***************************************************************************)
Modes == {"Require", "Allow"}
RowsKind == [rows |-> AtLeast(1)]

RowsIssues(root, mode) ==
    Misfits(root, <<>>, RowsKind)
    \cup (IF Has(root, <<"rows">>) THEN {} ELSE Demanded(mode, <<"rows">>))

Issues(document, mode) ==
    IF document.root[<<>>].type # "object" THEN {Issue(<<>>)}
    ELSE UnknownKeys(document.root, <<>>, {"$schema", "rows", "output", "fields"})
         \cup RowsIssues(document.root, mode) \cup OutputIssues(document.root, mode)
         \cup FieldsIssues(document)

Accepted(document, mode) == \A issue \in Issues(document, mode) : issue.warning

GenerationConfig(document) ==
    [rows |-> Read(document.root, <<>>, RowsKind, [rows |-> DefaultRows]).rows,
     type |-> OutputType(document.root), file |-> FileOutput(document.root),
     database |-> DatabaseOutput(document.root), fields |-> FieldSpecs(document)]

(* apply_cli_overrides, of what run passes: 0 and "" are options not given.*)
Overridden(cfg, rows, output) ==
    [cfg EXCEPT !.rows = IF rows # 0 THEN rows ELSE @,
                !.file.path = IF output # "" THEN output ELSE @]
=============================================================================
