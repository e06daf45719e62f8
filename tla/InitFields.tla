----------------------------- MODULE InitFields -----------------------------
(***************************************************************************)
(* The documents that "datagen init" writes (src/src/cli/command_init.cpp):*)
(* the template of a format, the template of a database, and the fields it *)
(* infers from the columns of a table.                                     *)
(*                                                                         *)
(* Of the name of a column the tables of aliases and keywords are left out *)
(* and what the name finds in them is kept: the generator whose name it is *)
(* (exact) or stands for (alias), NoMatch if there is none, the points its *)
(* words get in the keyword table (scores) and the points for likeness to  *)
(* the generators' names (similar), as functions of generators.            *)
(* IntDigits and LongDigits are the most digits of the largest integer and *)
(* of the largest sequence number (9 and 18).                              *)
(***************************************************************************)
EXTENDS TableSchema

CONSTANTS IntDigits, LongDigits

(* The largest number of so many digits.                                   *)
Largest(digits) ==
    LET power[n \in 0 .. digits] == IF n = 0 THEN 1 ELSE 10 * power[n - 1]
    IN power[digits] - 1

ASSUME DigitsAssumption == /\ IntDigits \in Nat /\ LongDigits \in Nat
                           /\ Largest(IntDigits) <= IntMax

NoMatch == ""

(* What a driver tells of a column, a length or a precision below zero left*)
(* out, and what init finds for its name.  No driver fills in the enum     *)
(* values.                                                                 *)
IsColumn(column) ==
    /\ {column.character_length, column.numeric_precision} \subseteq Nat \cup {NoNumber}
    /\ column.numeric_scale \in Int
    /\ {column.unsigned_number, column.auto_increment} \subseteq BOOLEAN
    /\ DOMAIN column.enum_values = 1 .. Len(column.enum_values)
    /\ Len(column.enum_values) \in Nat /\ "" \notin ToSet(column.enum_values)
    /\ {column.exact, column.alias} \subseteq Generators \cup {NoMatch}

IsTable(table) ==
    /\ table.name # ""
    /\ DOMAIN table.columns = 1 .. Len(table.columns) /\ Len(table.columns) \in Nat
    /\ \A i \in DOMAIN table.columns : IsColumn(table.columns[i])

(***************************************************************************)
(* The generator of a column.                                              *)
(***************************************************************************)
BooleanLike(column) ==
    \/ Family(column) = "Boolean"
    \/ /\ Family(column) \in {"Integer", "Decimal"}
       /\ column.numeric_precision = 1 /\ column.numeric_scale \in {0, NoNumber}

NameCompatible(generator, column) ==
    LET numeric == generator \in {"integer", "decimal", "sequence"}
                   \/ (BooleanLike(column) /\ generator = "boolean")
    IN CASE Family(column) \in {"Integer", "Decimal"} -> numeric
         [] Family(column) = "Date" -> generator \in {"date", "datetime"}
         [] Family(column) = "Time" -> generator \in {"time", "datetime"}
         [] Family(column) = "DateTime" -> generator \in {"datetime", "date", "time"}
         [] Family(column) = "Enum" -> generator = "enum_item"
         [] Family(column) = "Boolean" -> generator \in {"boolean", "enum_item", "integer"}
         [] Family(column) = "Binary" -> generator = "text"
         [] OTHER -> TRUE

Points(scores, generator) == IF generator \in DOMAIN scores THEN scores[generator] ELSE 0
Score(column, generator) ==
    Points(column.scores, generator)
    + (IF NameCompatible(generator, column) THEN Points(column.similar, generator) ELSE 0)

(* The best score wins if it is at least 8, a tie is broken by the order of*)
(* a hash table.                                                           *)
BestScores(column) ==
    {g \in Generators : /\ Score(column, g) >= 8
                        /\ \A h \in Generators : Score(column, g) >= Score(column, h)}

NamedGenerators(column) ==
    IF column.exact # NoMatch THEN {column.exact}
    ELSE IF column.alias # NoMatch THEN {column.alias}
    ELSE BestScores(column)

TypeGenerator(column) ==
    CASE Family(column) = "Integer" -> "integer"
      [] Family(column) = "Decimal" -> "decimal"
      [] Family(column) = "Date" -> "date"
      [] Family(column) = "Time" -> "time"
      [] Family(column) = "DateTime" -> "datetime"
      [] Family(column) = "Enum" -> "enum_item"
      [] Family(column) = "Boolean" -> "boolean"
      [] OTHER -> "text"

InferredGenerators(column) ==
    IF NamedGenerators(column) # {} THEN NamedGenerators(column) ELSE {TypeGenerator(column)}

(***************************************************************************)
(* The members of a field.                                                 *)
(***************************************************************************)
ObjectAt(path, members) ==
    At(path, Object) ++ [p \in {Append(path, k) : k \in DOMAIN members} |-> members[Last(p)]]

(* Members of the two rules, neither of which is enabled.                  *)
RuleDefaults ==
    ObjectAt(<<"null_value">>, [enabled |-> Flag(FALSE), percentage |-> Whole(0)])
    ++ ObjectAt(<<"default_value">>,
                [enabled |-> Flag(FALSE), percentage |-> Whole(0), value |-> Text("")])

(* Mutant of Attributes: every field gets a group.                         *)
AttributesWithGroup(generator, unique, nth) ==
    At(<<"unique">>, Flag(unique)) ++ At(<<"group">>, Text("Group" \o ToString(nth)))
    ++ RuleDefaults

(* apply_supported_field_attributes; nth is the number of fields with this *)
(* generator so far.                                                       *)
Attributes(generator, unique, nth) ==
    [p \in (IF Catalog[generator].supports_unique THEN {<<"unique">>} ELSE {}) |-> Flag(unique)]
    ++ [p \in (IF Catalog[generator].supports_data_linkage THEN {<<"group">>} ELSE {}) |->
           Text("Group" \o ToString(nth))]
    ++ RuleDefaults

EnumItems(column) ==
    IF column.enum_values # <<>> THEN column.enum_values
    ELSE IF column.character_length \in 0 .. 1 \/ Family(column) = "Boolean" THEN <<"1", "0">>
    ELSE <<"true", "false">>

(* Mutant of Adjustments: numbers and texts keep their templates.          *)
AdjustmentsOfEnums(column, generator) ==
    IF generator = "enum_item" THEN [enums |-> Strings(EnumItems(column))] ELSE <<>>

(* What the type of the column changes in the template of the generator.   *)
Adjustments(column, generator) ==
    LET p == column.numeric_precision
        length == Max({1, column.character_length})
        none == <<>>
    IN CASE generator = "integer" ->
               (IF column.unsigned_number THEN [start |-> Whole(0)] ELSE none)
               ++ (IF p # NoNumber THEN [end |-> Whole(Largest(Min({IntDigits, p})))] ELSE none)
         [] generator = "sequence" ->
               (IF p # NoNumber THEN [end |-> Whole(Largest(Min({LongDigits, p})))] ELSE none)
               ++ [circle |-> Flag(FALSE)]
         [] generator = "decimal" ->
               [decimal_places |-> Whole(IF column.numeric_scale = NoNumber THEN 2
                                         ELSE Max({0, column.numeric_scale}))]
               ++ (IF column.unsigned_number THEN [start |-> Real(0)] ELSE none)
         [] generator = "text" /\ column.character_length # NoNumber ->
               [number_of_chars_start |-> Whole(Min({16, length})),
                number_of_chars_end |-> Whole(length)]
         [] generator = "enum_item" -> [enums |-> Strings(EnumItems(column))]
         [] OTHER -> none

(* infer_field_from_column                                                 *)
InferredField(column, generator, unique, nth) ==
    ObjectAt(<<>>, [name |-> Text(column.name), generator |-> Text(generator)])
    ++ ObjectAt(ConfigPath, Adjustments(column, generator) ++ Catalog[generator].config_template)
    ++ Attributes(generator, unique, nth)

(* Of a table, with one generator chosen for each of its columns.          *)
NthWith(generators, i) == Cardinality({j \in 1 .. i : generators[j] = generators[i]})

InferredFields(table, generators) ==
    [i \in DOMAIN table.columns |->
        LET column == table.columns[i]
        IN InferredField(column, generators[i],
                         column.auto_increment \/ {column.name} \in table.keys,
                         NthWith(generators, i))]

GeneratorChoices(table) ==
    LET choices[n \in 0 .. Len(table.columns)] ==
            IF n = 0 THEN {<<>>}
            ELSE {Append(s, g) : s \in choices[n - 1], g \in InferredGenerators(table.columns[n])}
    IN choices[Len(table.columns)]

(***************************************************************************)
(* The fields of a template: those of build_project_template, with the     *)
(* attributes set anew.                                                    *)
(***************************************************************************)
TemplateField(name, generator, config) ==
    ObjectAt(<<>>, [name |-> Text(name), generator |-> Text(generator)])
    ++ ObjectAt(ConfigPath, config)
    ++ Attributes(generator, FALSE, 1)

TemplateFields ==
    <<TemplateField("id", "sequence", [start |-> Whole(1), end |-> Whole(1000),
                                       step |-> Whole(1), circle |-> Flag(TRUE)]),
      TemplateField("company_name", "company_name", Translated),
      TemplateField("industry", "industry", EnglishOnly),
      TemplateField("email", "email", [languages |-> English,
                                       domains |-> Strings(<<"example.com">>)])>>

(***************************************************************************)
(* CommandInit::run                                                        *)
(***************************************************************************)
InitRoot(type) ==
    ObjectAt(<<>>, At("$schema", Text("./schema/datagen.schema.json"))
                   ++ [rows |-> Whole(100), fields |-> Value("array", "", 0, <<>>)])
    ++ ObjectAt(<<"output">>, [type |-> Text(type)])

FormatOptions(format, table) ==
    LET delimited == [header |-> Flag(TRUE), line_ending |-> Text("LF")]
    IN CASE format \in {"csv", "Tab-Delimited"} -> delimited
         [] format = "json" -> [array |-> Flag(TRUE), include_null |-> Flag(TRUE)]
         [] format = "sql" -> [table |-> Text(table), create_table |-> Flag(FALSE)]
         [] format = "Custom" ->
               [delimiter |-> Text(","), quote |-> Text("\"")] ++ delimited

FileDocument(format, table) ==
    [root |-> InitRoot("file") ++ ObjectAt(FilePath, [format |-> Text(format)])
              ++ ObjectAt(OptionsPath, FormatOptions(format, table)),
     fields |-> TemplateFields]

DatabaseRoot(connection, table) ==
    InitRoot("database")
    ++ ObjectAt(DatabasePath,
                [connection |-> Text(connection), table |-> Text(table), mode |-> Text("balanced"),
                 write_mode |-> Text("append"), transaction_mode |-> Text("per-batch"),
                 error_policy |-> Text("stop")])
    ++ ObjectAt(AdvancedPath,
                [insert_mode |-> Text("insert"), batch_size |-> Whole(2000),
                 queue_size |-> Whole(2048), threads |-> Whole(2),
                 rate_limit_rows_per_sec |-> Whole(20000)])

DatabaseDocument(connection, table) ==
    [root |-> DatabaseRoot(connection, table), fields |-> TemplateFields]

(* With --from-database and --table.                                       *)
InferredDocument(connection, table, generators) ==
    [root |-> DatabaseRoot(connection, table.name),
     fields |-> IF table.columns = <<>> THEN TemplateFields ELSE InferredFields(table, generators)]

(***************************************************************************)
(* The values that a field with the generator of its column's type yields. *)
(***************************************************************************)
Yields(field) ==
    LET config(p) == field[<<"config", p>>]
    IN CASE field[<<"generator">>].text = "integer" ->
               {GeneratedNumber(config("start").num), GeneratedNumber(config("end").num)}
         [] field[<<"generator">>].text = "decimal" ->
               {Generated(IF config("decimal_places").num = 0 THEN "whole" ELSE "decimal", "", 1)}
         [] field[<<"generator">>].text = "boolean" ->
               {Generated("other", "true", 4), Generated("other", "false", 5)}
         [] field[<<"generator">>].text = "enum_item" ->
               {Generated("other", item, 1) : item \in ToSet(config("enums").items)}
         [] field[<<"generator">>].text = "text" ->
               {Generated("other", "", n) : n \in {config("number_of_chars_start").num,
                                                   config("number_of_chars_end").num}}
         [] OTHER -> {Generated("other", "", 8)}
=============================================================================
